----------------------------- MODULE KeyedSend -----------------------------
(***************************************************************************)
(* What an Idempotency-Key promises (docs/API.md, "Idempotency-Key         *)
(* header"), with no rows, requests in flight or clocks: a key is held by  *)
(* at most one request at a time, only its holder hands mail to the        *)
(* transports, a key whose send succeeded or whose holder vanished never   *)
(* sends again, and a key whose send was reported failed may be taken over.*)
(***************************************************************************)
CONSTANTS Attempts, Requests, NoRequest

VARIABLES phase,     \* free | busy | done | lost, per attempt
          holder,    \* the request holding a busy attempt
          sent       \* requests that handed mail to the transports

vars == <<phase, holder, sent>>

Init == /\ phase = [a \in Attempts |-> "free"]
        /\ holder = [a \in Attempts |-> NoRequest]
        /\ sent = {}

Begin(a, r) == /\ phase[a] = "free"
               /\ phase' = [phase EXCEPT ![a] = "busy"]
               /\ holder' = [holder EXCEPT ![a] = r]
               /\ UNCHANGED sent

HandOver(a) == /\ phase[a] = "busy"
               /\ sent' = sent \cup {holder[a]}
               /\ UNCHANGED <<phase, holder>>

Leave(a, p) == /\ phase[a] = "busy"
               /\ phase' = [phase EXCEPT ![a] = p]
               /\ holder' = [holder EXCEPT ![a] = NoRequest]
               /\ UNCHANGED sent

GiveBack(a) == Leave(a, "free")

Complete(a) == holder[a] \in sent /\ Leave(a, "done")

\* Several holders may vanish in one step: the process that runs them died.
Vanish(A) == /\ A # {}
             /\ \A a \in A : phase[a] = "busy"
             /\ phase' = [a \in Attempts |-> IF a \in A THEN "lost" ELSE phase[a]]
             /\ holder' = [a \in Attempts |-> IF a \in A THEN NoRequest ELSE holder[a]]
             /\ UNCHANGED sent

Next == \/ \E a \in Attempts : \/ \E r \in Requests : Begin(a, r)
                               \/ HandOver(a)
                               \/ GiveBack(a)
                               \/ Complete(a)
        \/ \E A \in SUBSET Attempts : Vanish(A)

Spec == Init /\ [][Next]_vars
=============================================================================
