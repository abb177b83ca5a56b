----------------------------- MODULE Forwarding -----------------------------
(***************************************************************************)
(* What module Ingress relies on when it forwards a message to the API:    *)
(* each forward is filed at most once, is acknowledged only if it was, and *)
(* gets one answer.  Module Inbound implements it.                         *)
(***************************************************************************)
CONSTANT Deliveries

VARIABLE state    \* per forward: new | running | filed | ok | failed | lost

Init == state = [d \in Deliveries |-> "new"]

Move(d, from, to) == state[d] \in from /\ state' = [state EXCEPT ![d] = to]

Next == \E d \in Deliveries :
          \/ Move(d, {"new"}, "running")
          \/ Move(d, {"running"}, "filed")
          \/ Move(d, {"filed"}, "ok")
          \/ Move(d, {"new", "running", "filed"}, "failed")

\* The process dies with everything it had under way.
Crash == state' = [d \in Deliveries |-> IF state[d] \in {"running", "filed"} THEN "lost" ELSE state[d]]

Spec == Init /\ [][Next \/ Crash]_state
=============================================================================
