------------------------------ MODULE Services ------------------------------
(***************************************************************************)
(* A mailbox while its owner, its administrator, its mail and the clock    *)
(* work on it: credentials (Accounts), the tabs of the Inbox (InboxTabs)   *)
(* and notices (Notices).  They meet where a stored message rings, where a *)
(* mailbox is removed, and where the process starts again.                 *)
(***************************************************************************)
EXTENDS InboxTabs, Notices

ASSUME MailAssumption == Msgs \subseteq Mail

VARIABLES due  \* messages that are stored and have yet to ring

vars == <<scene, edits, accountVars, tabVars, noticeVars, due>>

Init ==
  /\ scene \in Scenes
  /\ edits = 0
  /\ AccountInit /\ TabInit /\ NoticeInit
  /\ due = {}

\* inbound.rs, 7a: only new mail of the Inbox, and not of the quiet tabs.
Rings(m) == Letters[m].folder = "Inbox" /\ Box(m) \in Live /\ ~IsQuiet(mail[m].cat)

Arrive(m) ==
  /\ Store(m)
  /\ due' = IF Rings(m) THEN due \cup {m} ELSE due
  /\ UNCHANGED noticeVars

\* Its attachments are stored and the open tabs told first.
Announce(m) == m \in due /\ due' = due \ {m} /\ Ring(m, Box(m)) /\ UNCHANGED tabVars

\* An attachment fails, and with it the request: the message does not ring.
Unannounced(m) == m \in due /\ due' = due \ {m} /\ UNCHANGED <<tabVars, noticeVars>>

Next ==
  \/ AccountNext /\ UNCHANGED <<scene, tabVars, noticeVars, due>>
  \/ TabNext /\ UNCHANGED <<scene, accountVars, noticeVars, due>>
  \/ NoticeNext /\ UNCHANGED <<scene, accountVars, tabVars, due>>
  \/ \E m \in Msgs : (Arrive(m) \/ Announce(m) \/ Unannounced(m)) /\ UNCHANGED <<scene, edits, accountVars>>
  \/ /\ Acts("restart")
     /\ \E k \in Keys : Restart(k) /\ TabRestart /\ NoticeRestart
     /\ due' = {}
     /\ UNCHANGED scene

Spec == Init /\ [][Next]_vars

\* The modules' invariants of type.
TypeOK == AccountTypeOK /\ TabTypeOK /\ NoticeTypeOK /\ due \subseteq Msgs
=============================================================================
