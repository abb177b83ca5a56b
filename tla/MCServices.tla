----------------------------- MODULE MCServices -----------------------------
(***************************************************************************)
(* Small instances of Services: the passwords of one mailbox, and of one   *)
(* that is removed and made again; a conversation and a single message     *)
(* under two requests that choose tabs, or a backfill; two browsers of two *)
(* mailboxes; one chat of two mailboxes.                                   *)
(***************************************************************************)
EXTENDS Services, TLC

CONSTANTS b1, b2, a1, a2, k1, s1, s2, s0, t1, c1

Letter(b, s, t, signs, folder) ==
  [box |-> b, sender |-> s, thread |-> t, signs |-> signs, folder |-> folder]

MCLetters ==
  1 :> Letter(b1, s1, t1, {"social"}, "Archive") @@ 2 :> Letter(b1, s2, t1, {}, "Inbox") @@
  3 :> Letter(b1, s1, None, {"noreply"}, "Inbox") @@ 4 :> Letter(b2, s1, None, {"listPost", "promo"}, "Inbox") @@
  5 :> Letter(b1, s0, None, {"noreply"}, "Inbox")

MCPatterns == s1 :> {s1, s2} @@ s2 :> {s2} @@ s0 :> {s0}

Scene(boxes, msgs, files, acts, chats, edit) ==
  [boxes |-> boxes, keys |-> {k1}, msgs |-> msgs, files |-> files, acts |-> acts, chats |-> chats,
   edits |-> edit]

MCScenes ==
  {Scene(b1 :> a1, {}, {}, {"admin", "owner", "restart"}, <<>>, 4),
   Scene(b1 :> a1, {}, {}, {"owner", "remove", "admin"}, <<>>, 4),
   Scene(b1 :> a1, {1, 3}, {2}, {"tabs"}, <<>>, 2),
   Scene(b1 :> a1, {3}, {1, 3}, {"tabs", "restart"}, <<>>, 3),
   Scene(b1 :> a1 @@ b2 :> a2, {2, 4}, {}, {"push", "remove", "restart"}, <<>>, 4),
   Scene(b1 :> a1 @@ b2 :> a2, {2, 3, 4}, {}, {"telegram"}, b1 :> c1 @@ b2 :> c1, 0),
   Scene(b1 :> a1 @@ b2 :> a2, {2, 4}, {}, {"telegram", "restart"}, b1 :> c1 @@ b2 :> c1, 1),
   Scene(b1 :> a1, {2}, {}, {"telegram", "restart"}, b1 :> c1, 3),
   Scene(b1 :> a1, {5}, {}, {"tabs"}, <<>>, 1)}

\* Requests are alike, and so are workers.
Symmetry == Permutations(Calls) \cup Permutations(Workers)

\* The rules fall back on the Primary tab, and only one of them speaks of a
\* list by its address alone.
ASSUME RulesAssumption ==
  \A signs \in SUBSET Signs :
    /\ Classify(signs) \in Categories
    /\ signs \subseteq {"promo", "listPost"} => Classify(signs) = "primary"
=============================================================================
