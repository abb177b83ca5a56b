--------------------------- MODULE MCCalendarSync ---------------------------
(***************************************************************************)
(* Small instances of CalendarSync: two passes push one event, two pull    *)
(* one, one pass sees a mailbox leave and come back, one pass serves two   *)
(* mailboxes, and one meets an event outside its window or without start.  *)
(***************************************************************************)
EXTENDS CalendarSync

CONSTANTS b1, b2, loop, now, e1, g1

Scene(passes, boxes, locals, theirs, acts, accounts, changes, cuts) ==
  [passes |-> passes, boxes |-> boxes, locals |-> locals, theirs |-> theirs, acts |-> acts,
   accounts |-> accounts, changes |-> changes, faults |-> cuts]

MCScenes ==
  {Scene({loop, now}, {b1}, {e1}, {}, {"fail"}, 1, 0, 0),
   Scene({loop, now}, {b1}, {}, {g1}, {"fail"}, 1, 2, 0),
   Scene({loop}, {b1}, {e1}, {g1}, {"edit", "fail"}, 1, 2, 1),
   Scene({loop}, {b1}, {e1}, {g1}, {"leave"}, 2, 1, 1),
   Scene({loop}, {b1}, {}, {g1}, {"edit", "fail", "far"}, 1, 2, 1),
   Scene({loop}, {b1, b2}, {e1}, {}, {"edit", "fail"}, 2, 0, 0)}
=============================================================================
