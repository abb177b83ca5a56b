------------------------------ MODULE OneTime ------------------------------
(***************************************************************************)
(* What a send confirmation promises: it is issued once, can be spent      *)
(* once, and only a spent one sends, once.  Module AgentSend implements it.*)
(***************************************************************************)
CONSTANT Tickets

VARIABLE state    \* per ticket: none | open | spent | sent

Init == state = [k \in Tickets |-> "none"]

Advance(k, from, to) == state[k] = from /\ state' = [state EXCEPT ![k] = to]

Next == \E k \in Tickets : \/ Advance(k, "none", "open")
                           \/ Advance(k, "open", "spent")
                           \/ Advance(k, "spent", "sent")

Spec == Init /\ [][Next]_state
=============================================================================
