---------------------------- MODULE MCSendGuard ----------------------------
(* Small instances of SendGuard: model values for requests, users, keys and  *)
(* payloads, symmetric where no liveness property is checked.                *)
EXTENDS SendGuard, TLC

Symmetry == Permutations(Requests) \cup Permutations(Payloads)

\* Every request carries a well-formed key: the requests that race on a row.
KeyedInit == Init /\ \A r \in Requests : Keyed(r)

RaceSpec == KeyedInit /\ [][Next]_vars
=============================================================================
