----------------------------- MODULE InboxTabs -----------------------------
(***************************************************************************)
(* The tabs of the Inbox: the rules a message is classified by and the     *)
(* tabs that list it (aivory-mail-core, categories.rs), the choice of its  *)
(* owner for one sender, which wins over the rules, and the backfill of    *)
(* mail without a category (api/categories.rs).                            *)
(***************************************************************************)
EXTENDS Accounts, Integers

CONSTANTS
  Msgs,     \* messages, numbers
  Letters,  \* of each: its mailbox, sender, conversation, signs, and the folder filters put it in
  Senders,
  NoSender, \* the sender of a message without one
  Patterns, \* of each sender, those whose mail a sweep for him reaches
  Workers,  \* requests that move a message or backfill a mailbox
  Batch     \* messages a backfill takes at once

VARIABLES
  mail,    \* messages: what is known of them and where they are
  lock,    \* sender_categories
  tabs,    \* the tabs chosen in the settings
  work,    \* what a worker is at
  \* history, read by the properties only
  excused  \* messages that the choice for their sender did not reach, or not last

tabVars == <<mail, lock, tabs, work, excused>>

Categories == {"primary", "promotions", "social", "updates", "forums"}
Messages == [st : {"out", "chosen", "here", "refused"}, cat : Categories \cup {None},
             saw : Categories \cup {None}, folder : {"Inbox", "Archive"}, at : Int]
Work == [op : {"idle", "thread", "lock", "sweep", "read", "write"}, msg : Msgs \cup {None},
         cat : Categories \cup {None}, apply : BOOLEAN, todo : SUBSET Msgs, saw : Categories \cup {None}]
Off == [op |-> "idle", msg |-> None, cat |-> None, apply |-> FALSE, todo |-> {}, saw |-> None]

ASSUME TabAssumption ==
  /\ Msgs \subseteq Nat /\ IsFiniteSet(Msgs) /\ Batch \in Nat \ {0} /\ None \notin Categories
  /\ \A m \in Msgs : /\ Letters[m].box \in Boxes /\ Letters[m].sender \in Senders
                     /\ Letters[m].folder \in {"Inbox", "Archive"}
  /\ Patterns \in [Senders -> SUBSET Senders] /\ \A s \in Senders : s \in Patterns[s]

Box(m) == Letters[m].box
Lock(m) == lock[<<Box(m), Letters[m].sender>>]

Here(m) == mail[m].st = "here" /\ Box(m) \in Live
Inbox(b) == {m \in Msgs : Here(m) /\ Box(m) = b /\ mail[m].folder = "Inbox"}
From(m) == {n \in Inbox(Box(m)) : Letters[n].sender = Letters[m].sender}

\* The address is a pattern of LIKE: "_" in it stands for any character.
Swept(m) == {n \in Inbox(Box(m)) : Letters[n].sender \in Patterns[Letters[m].sender]}

\* A message without a conversation is one by itself.
Together(m) == {n \in Msgs : /\ Here(n) /\ Box(n) = Box(m)
                             /\ n = m \/ (Letters[n].thread = Letters[m].thread /\ Letters[m].thread # None)}

TabInit ==
  /\ mail = [m \in Msgs |-> [st |-> "out", cat |-> None, saw |-> None, folder |-> "Inbox", at |-> 0]]
  /\ lock = [p \in Boxes \X Senders |-> None]
  /\ tabs = [b \in Boxes |-> {"primary", "promotions", "social"}]
  /\ work = [w \in Workers |-> Off]
  /\ excused = {}

-----------------------------------------------------------------------------
(* The rules.                                                               *)

\* What the sender, the headers and the subject of a message tell.  "promo" is
\* a word of the subject, "list", "bulk" values of Precedence.
Signs == {"social", "forum", "listId", "listPost", "list", "bulk", "unsubscribe", "auto", "esp",
          "noreply", "promo"}
MachineSent == {"unsubscribe", "listId", "bulk", "auto", "esp", "noreply"}

Classify(s) ==
  CASE "social" \in s -> "social"
    [] "social" \notin s /\ ({"forum", "list"} \cap s # {} \/ {"listId", "listPost"} \subseteq s) -> "forums"
    [] OTHER -> IF MachineSent \cap s = {} THEN "primary"
                ELSE IF "promo" \in s \/ ("unsubscribe" \in s /\ {"bulk", "esp"} \cap s # {}) THEN "promotions"
                ELSE "updates"

\* Fault: the rules win over the choice of the owner.
RulesFirst(choice, rule) == IF rule = "primary" /\ choice # None THEN choice ELSE rule

Decide(choice, rule) == IF choice # None THEN choice ELSE rule

\* sender_lock: the choice for the sender, or none when the look for it fails.
SenderLock(m, seen) ==
  \/ seen = Lock(m) /\ UNCHANGED edits
  \/ seen = None /\ Lock(m) # None /\ Edit

\* categorize_inbound, with the choice it saw.
Category(m, seen) == Decide(seen, Classify(Letters[m].signs))
IsQuiet(c) == c \in {"promotions", "social"}

\* Primary is always on.
EnabledTabs(b) == {"primary"} \cup tabs[b]

\* What a tab lists: its own category and, in Primary, those of hidden tabs.
StoredCategories(tab, enabled) ==
  IF tab = "primary" THEN {c \in Categories : c = "primary" \/ c \notin enabled} ELSE {tab} \cap enabled

Coalesce(c) == IF c = None THEN "primary" ELSE c

\* The tabs that show mail of category c.
Showing(b, c) ==
  LET enabled == EnabledTabs(b) IN {tab \in enabled : c \in StoredCategories(tab, enabled)}

\* THREAD_CATEGORY_EXPR: a conversation is where its newest Inbox message is.
Newest(S) == CHOOSE m \in S : \A n \in S : mail[n].at <= mail[m].at
Lists(m) == Showing(Box(m), Coalesce(mail[Newest(Together(m) \cap Inbox(Box(m)))].cat))

\* categories.rs, summary: the number at a tab is about messages.
Counts(m) == Showing(Box(m), Coalesce(mail[m].cat))

-----------------------------------------------------------------------------
(* Mail comes in.                                                           *)

Stored == {m \in Msgs : mail[m].st # "out" /\ mail[m].at # 0}

\* Some statements before the row is inserted.
CategorizeInbound(m, seen) ==
  /\ mail[m].st = "out" /\ m \in scene.msgs /\ Box(m) \in Live
  /\ SenderLock(m, seen)
  /\ mail' = [mail EXCEPT ![m].st = "chosen", ![m].cat = Category(m, seen), ![m].saw = seen]
  /\ UNCHANGED <<lock, tabs, work, excused>>

\* A mailbox that is gone takes nothing.
Store(m) ==
  /\ mail[m].st = "chosen"
  /\ mail' = IF Box(m) \in Live
             THEN [mail EXCEPT ![m].st = "here", ![m].folder = Letters[m].folder, ![m].at = Cardinality(Stored) + 1]
             ELSE [mail EXCEPT ![m].st = "refused"]
  /\ excused' = IF mail[m].saw = Lock(m) THEN excused ELSE excused \cup {m}
  /\ UNCHANGED <<lock, tabs, work>>

\* Imports, and copies of mail between mailboxes here, have no category.  What
\* is imported is older than what arrives.
Import(m) ==
  /\ mail[m].st = "out" /\ m \in scene.files /\ Box(m) \in Live
  /\ mail' = [mail EXCEPT ![m].st = "here", ![m].at = -m]
  /\ excused' = IF Lock(m) = None THEN excused ELSE excused \cup {m}
  /\ UNCHANGED <<lock, tabs, work>>

\* messages.rs, move_message.
MoveTo(m, folder) ==
  /\ Edit
  /\ Here(m) /\ mail[m].folder # folder
  /\ mail' = [mail EXCEPT ![m].folder = folder]
  /\ excused' = IF folder = "Inbox" /\ mail[m].cat # Lock(m) THEN excused \cup {m} ELSE excused
  /\ UNCHANGED <<lock, tabs, work>>

\* settings.rs, set: inbox.categories.
SetTabs(b, S) ==
  /\ Edit
  /\ b \in Live
  /\ tabs' = [tabs EXCEPT ![b] = S]
  /\ UNCHANGED <<mail, lock, work, excused>>

-----------------------------------------------------------------------------
(* set_for_message: four statements.                                        *)

Choose(w, m, c, apply) ==
  /\ Edit
  /\ work[w].op = "idle" /\ Here(m)
  /\ work' = [work EXCEPT ![w] = [Off EXCEPT !.op = "thread", !.msg = m, !.cat = c, !.apply = apply]]
  /\ UNCHANGED <<mail, lock, tabs, excused>>

Recategorize(S, c) == [m \in Msgs |-> IF m \in S THEN [mail[m] EXCEPT !.cat = c] ELSE mail[m]]

\* Whoever wrote it and in whatever folder it is.  There is nothing to choose for
\* mail without a sender.
UpdateThread(w) ==
  LET S == Together(work[w].msg)  c == work[w].cat IN
  /\ work[w].op = "thread"
  /\ mail' = Recategorize(S, c)
  /\ excused' = excused \cup {m \in S : Lock(m) \notin {None, c}}
  /\ work' = [work EXCEPT ![w] = IF work[w].apply /\ Letters[work[w].msg].sender # NoSender
                                THEN [@ EXCEPT !.op = "lock"] ELSE Off]
  /\ UNCHANGED <<lock, tabs>>

LockSender(w) ==
  /\ work[w].op = "lock"
  /\ lock' = [lock EXCEPT ![<<Box(work[w].msg), Letters[work[w].msg].sender>>] = work[w].cat]
  /\ work' = [work EXCEPT ![w].op = "sweep"]
  /\ UNCHANGED <<mail, tabs, excused>>

\* Someone else may have locked the sender to another tab since, and mail of
\* another sender is swept along, whatever was chosen for him.
Sweep(w) ==
  LET S == Swept(work[w].msg)  c == work[w].cat IN
  /\ work[w].op = "sweep"
  /\ mail' = Recategorize(S, c)
  /\ excused' = (excused \ S) \cup {m \in S : Lock(m) # c}
  /\ work' = [work EXCEPT ![w] = Off]
  /\ UNCHANGED <<lock, tabs>>

-----------------------------------------------------------------------------
(* backfill: a batch is selected, then one SELECT and one UPDATE for each.  *)

NoCategory(b) == {m \in Inbox(b) : mail[m].cat = None}

BackfillSelect(w, b) ==
  /\ Edit
  /\ work[w].op = "idle" /\ NoCategory(b) # {}
  /\ \E S \in SUBSET NoCategory(b) :
       /\ Cardinality(S) = IF Cardinality(NoCategory(b)) < Batch THEN Cardinality(NoCategory(b)) ELSE Batch
       /\ \A m \in S, n \in NoCategory(b) \ S : mail[n].at <= mail[m].at
       /\ work' = [work EXCEPT ![w] = [Off EXCEPT !.op = "read", !.todo = S]]
  /\ UNCHANGED <<mail, lock, tabs, excused>>

BackfillRead(w, seen) ==
  LET m == Newest(work[w].todo) IN
  /\ work[w].op = "read" /\ work[w].todo # {}
  /\ SenderLock(m, seen)
  /\ work' = [work EXCEPT ![w].op = "write", ![w].msg = m, ![w].cat = Category(m, seen), ![w].saw = seen]
  /\ UNCHANGED <<mail, lock, tabs, excused>>

\* By its id alone: whether it still has no category is not asked again.
BackfillWrite(w) ==
  LET m == work[w].msg  rest == work[w].todo \ {m} IN
  /\ work[w].op = "write"
  /\ mail' = Recategorize({m} \cap {n \in Msgs : Here(n)}, work[w].cat)
  /\ excused' = IF work[w].saw = Lock(m) THEN excused \ {m} ELSE excused \cup {m}
  /\ work' = [work EXCEPT ![w] = IF rest = {} THEN Off ELSE [Off EXCEPT !.op = "read", !.todo = rest]]
  /\ UNCHANGED <<lock, tabs>>

\* The client goes away, or a statement fails: the request ends where it is.
CutWork(w) ==
  /\ Edit
  /\ work[w].op # "idle"
  /\ work' = [work EXCEPT ![w] = Off]
  /\ excused' = IF work[w].op = "sweep" THEN excused \cup From(work[w].msg) ELSE excused
  /\ UNCHANGED <<mail, lock, tabs>>

\* Mail on its way is sent again by whoever brought it.
TabRestart ==
  /\ mail' = [m \in Msgs |-> IF mail[m].st = "chosen" THEN [mail[m] EXCEPT !.st = "out"] ELSE mail[m]]
  /\ work' = [w \in Workers |-> Off]
  /\ excused' = excused \cup UNION {From(work[w].msg) : w \in {v \in Workers : work[v].op = "sweep"}}
  /\ UNCHANGED <<lock, tabs>>

TabNext ==
  \/ Acts("tabs") /\ \/ \E b \in Boxes, S \in {{}, {"social"}, {"updates", "forums"}} : SetTabs(b, S)
                     \/ \E m \in Msgs, folder \in {"Inbox", "Archive"} : MoveTo(m, folder)
                     \/ \E w \in Workers, m \in Msgs, c \in {"primary", "social", "updates"}, apply \in BOOLEAN :
                          Choose(w, m, c, apply)
                     \/ \E w \in Workers : CutWork(w) \/ \E b \in Boxes : BackfillSelect(w, b)
                     \/ UNCHANGED edits /\ \E m \in Msgs : Import(m)
  \/ \E seen \in Categories \cup {None} : \/ \E m \in Msgs : CategorizeInbound(m, seen)
                                         \/ \E w \in Workers : BackfillRead(w, seen)
  \/ /\ UNCHANGED edits
     /\ \E w \in Workers : UpdateThread(w) \/ LockSender(w) \/ Sweep(w) \/ BackfillWrite(w)

-----------------------------------------------------------------------------

TabTypeOK ==
  /\ mail \in [Msgs -> Messages]
  /\ lock \in [Boxes \X Senders -> Categories \cup {None}]
  /\ tabs \in [Boxes -> SUBSET Categories]
  /\ work \in [Workers -> Work]
  /\ excused \subseteq Msgs

\* Whichever tabs are shown, a conversation of the Inbox is listed by exactly
\* one of them, and each of its messages counted at exactly one
\* (aivory-mail-core, stored_categories_for_tab).
OneTab ==
  \A b \in Live : \A m \in Inbox(b) :
    Cardinality(Lists(m)) = 1 /\ Cardinality(Counts(m)) = 1

\* "A user's own choice always wins" (aivory-mail-core, categories.rs): while no
\* one is changing the choice for a sender, what he has in the Inbox is where
\* the choice says, but for what came, was decided or was moved past it, what was
\* categorized by a look that failed, and what the choice for another sender
\* swept along.
Changing(m) == \E w \in Workers : /\ work[w].op \in {"lock", "sweep"}
                                  /\ Box(work[w].msg) = Box(m)
                                  /\ Letters[work[w].msg].sender = Letters[m].sender

ChoiceWins ==
  \A b \in Live : \A m \in Inbox(b) \ excused :
    Lock(m) # None /\ ~Changing(m) => mail[m].cat = Lock(m)

TabsHonest == OneTab /\ ChoiceWins
=============================================================================
