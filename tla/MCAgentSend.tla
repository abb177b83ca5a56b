---------------------------- MODULE MCAgentSend ----------------------------
(* Small instances of AgentSend: model values for calls, capabilities,         *)
(* mailboxes, callers and payloads, all of them symmetric.                     *)
EXTENDS AgentSend, TLC

\* One subject, of mails to different people.
MCSubjectOf == [p \in Payloads |-> "hello"]

Symmetry == Permutations(Calls) \cup Permutations(Boxes) \cup Permutations(Callers)
              \cup Permutations(Payloads) \cup Permutations(Grants)
=============================================================================
