----------------------------- MODULE MCMailStore -----------------------------
(***************************************************************************)
(* Small instances of MailStore: a conversation two requests mark, one     *)
(* message and its file, mail that is moved and snoozed, drafts, and two   *)
(* imports of the same files.                                              *)
(***************************************************************************)
EXTENDS MailStore

CONSTANTS b1, b2, s1, h1, h2, i1, i2

File(b, mid, folder, files, no) ==
  [box |-> b, subject |-> s1, mid |-> mid, folder |-> folder, files |-> files, no |-> no]

OneMail == {File(b1, "m", "Inbox", TRUE, 1)}
SameInTwo == {File(b1, "m", "Inbox", FALSE, 2), File(b2, "m", "Sent", TRUE, 3)}
NoId == {File(b1, "", "Inbox", TRUE, 4), File(b1, "m", "Sent", FALSE, 5)}

MCFiles == OneMail \cup SameInTwo \cup NoId

Scene(boxes, msgs, handlers, acts, time, tasks, edit, fault) ==
  [boxes |-> boxes, msgs |-> msgs, handlers |-> handlers, imports |-> {}, files |-> {}, acts |-> acts,
   time |-> time, tasks |-> tasks, edits |-> edit, faults |-> fault]

Import(boxes, msgs, imports, files, acts, tasks, edit, fault) ==
  [Scene(boxes, msgs, {}, acts, 0, tasks, edit, fault) EXCEPT !.imports = imports, !.files = files]

MCScenes ==
  {Scene({b1}, {1, 2}, {h1, h2}, {"mark"}, 0, 0, 3, 1),
   Scene({b1}, {1}, {h1, h2}, {"mark", "mirror", "imap"}, 0, 3, 3, 1),
   Scene({b1, b2}, {1, 2}, {}, {"edit"}, 2, 0, 3, 0),
   Scene({b1, b2}, {1, 2}, {h1}, {"agent", "mark", "edit"}, 0, 0, 3, 0),
   Import({b1}, {1, 2}, {i1, i2}, OneMail, {"mirror"}, 2, 0, 1),
   Import({b1, b2}, {1, 2, 3}, {i1}, SameInTwo, {}, 0, 0, 1),
   Import({b1}, {1, 2, 3, 4}, {i1, i2}, NoId, {}, 0, 0, 0),
   Import({b1}, {1, 2}, {i1, i2}, OneMail, {"edit", "agent"}, 0, 2, 0)}
=============================================================================
