------------------------------ MODULE Notices ------------------------------
(***************************************************************************)
(* What tells an owner of new mail while no tab is open: Web Push to the   *)
(* browsers subscribed for his mailbox (api/push.rs, webpush.rs) and       *)
(* messages to his Telegram chat (api/telegram.rs).  Each new message of   *)
(* the Inbox starts a task for either, which may last while subscriptions  *)
(* and settings change.                                                    *)
(***************************************************************************)
EXTENDS Accounts

CONSTANTS
  Endpoints,  \* of the push services, one per browser
  MaxSubs,    \* MAX_SUBSCRIPTIONS_PER_MAILBOX
  Chats,
  Mail,       \* messages that may ring
  MinGap, MaxWait, Retention,  \* MIN_GAP_PER_CHAT, MAX_QUEUE_WAIT and the minute slots are kept
  Cooldown,   \* TEST_COOLDOWN
  MaxTime     \* bound: the clock

Subscriptions == [box : Boxes, failures : 0..2]

ASSUME NoticeAssumption ==
  /\ IsFiniteSet(Endpoints) /\ IsFiniteSet(Mail) /\ None \notin Chats \cup Subscriptions
  /\ \A s \in Scenes : \A b \in DOMAIN s.chats : s.chats[b] \in Chats
  /\ MaxSubs \in Nat \ {0}
  /\ MinGap \in Nat \ {0} /\ MaxWait \in Nat /\ Retention \in Nat /\ MaxTime \in Nat \ {0}
  /\ Cooldown \in Nat \ {0}

VARIABLES
  sub,     \* push_subscriptions, by endpoint
  ask,     \* what a browser that subscribes is at
  expired, \* endpoints the push services no longer know
  push,    \* the push task of a message
  clock,
  chat,    \* telegram_chat_id
  muted,   \* mailboxes with telegram_enabled = "false"
  slot,    \* the next free instant of a chat, 0 without one
  gram,    \* the Telegram task of a message
  tests,   \* LAST of the test requests, with the earlier ones and where each was sent
  up,      \* the instant the process started
  \* history, read by the properties only
  owner,   \* the mailbox a browser last subscribed for
  raced,   \* mailboxes two browsers subscribed for at once
  told     \* notices that reached a browser of another mailbox than theirs

gramVars == <<clock, chat, muted, slot, gram, tests, up>>
noticeVars == <<sub, ask, expired, push, owner, raced, told, gramVars>>

Subscribed(b) == {e \in Endpoints : sub[e] # None /\ sub[e].box = b}
PushTasks == [pc : {"idle", "list", "send"}, box : Boxes \cup {None},
              todo : SUBSET Endpoints, moved : SUBSET Endpoints]
GramTasks == [pc : {"idle", "settings", "sleep", "sent"}, box : Boxes \cup {None},
              chat : Chats \cup {None}, start : 0..(MaxTime + MaxWait), asked : 0..MaxTime]
Tests == [box : Boxes, at : 1..MaxTime, pc : {"settings", "sent"}, chat : Chats \cup {None}]
Quiet == [pc |-> "idle", box |-> None, todo |-> {}, moved |-> {}]
Silent == [pc |-> "idle", box |-> None, chat |-> None, start |-> 0, asked |-> 0]

NoticeInit ==
  /\ sub = [e \in Endpoints |-> None]
  /\ ask = [e \in Endpoints |-> None]
  /\ expired = {}
  /\ push = [m \in Mail |-> Quiet]
  /\ clock = 1
  /\ chat = [b \in Boxes |-> IF b \in DOMAIN scene.chats THEN scene.chats[b] ELSE None]
  /\ muted = {}
  /\ slot = [c \in Chats |-> 0]
  /\ gram = [m \in Mail |-> Silent]
  /\ tests = {} /\ up = 1
  /\ owner = [e \in Endpoints |-> None]
  /\ raced = {} /\ told = {}

\* inbound.rs, 7a: a new message of the Inbox starts both tasks, each of which
\* ends at once on a server without VAPID keys, or without a bot.
Ring(m, b) ==
  /\ push' = IF Acts("push") THEN [push EXCEPT ![m] = [Quiet EXCEPT !.pc = "list", !.box = b]] ELSE push
  /\ gram' = IF Acts("telegram") THEN [gram EXCEPT ![m] = [Silent EXCEPT !.pc = "settings", !.box = b]] ELSE gram
  /\ UNCHANGED <<sub, ask, expired, owner, raced, told, clock, chat, muted, slot, tests, up>>

-----------------------------------------------------------------------------
(* Subscriptions.                                                           *)

\* subscribe: the mailbox of the caller and how many others it has.
CountSubscriptions(e, a) ==
  /\ Edit
  /\ ask[e] = None /\ e \notin expired
  /\ \E b \in Own(a) :
       /\ Cardinality(Subscribed(b) \ {e}) < MaxSubs
       /\ ask' = [ask EXCEPT ![e] = b]
       /\ raced' = IF \E f \in Endpoints : ask[f] = b THEN raced \cup {b} ELSE raced
  /\ UNCHANGED <<sub, expired, push, owner, told, gramVars>>

\* Fault: the row that is there keeps its mailbox.
KeepBox(row, b) == IF row = None THEN [box |-> b, failures |-> 0] ELSE [row EXCEPT !.failures = 0]

\* ON CONFLICT (endpoint): it now belongs to this mailbox.
Taken(row, b) == [box |-> b, failures |-> 0]

\* Tasks that have listed e no longer send where its owner is.
Moved(e) == [m \in Mail |-> IF e \in push[m].todo THEN [push[m] EXCEPT !.moved = @ \cup {e}] ELSE push[m]]

Subscribe(e) ==
  /\ ask[e] # None
  /\ sub' = [sub EXCEPT ![e] = Taken(sub[e], ask[e])]
  /\ owner' = [owner EXCEPT ![e] = ask[e]]
  /\ push' = Moved(e)
  /\ ask' = [ask EXCEPT ![e] = None]
  /\ UNCHANGED <<expired, edits, raced, told, gramVars>>

\* Only rows of the caller's mailbox.
Unsubscribe(e, a) ==
  /\ Edit
  /\ ask[e] = None
  /\ \E b \in Own(a) : /\ sub' = IF e \in Subscribed(b) THEN [sub EXCEPT ![e] = None] ELSE sub
                       /\ owner' = IF owner[e] = b THEN [owner EXCEPT ![e] = None] ELSE owner
                       /\ push' = IF owner[e] = b THEN Moved(e) ELSE push
  /\ UNCHANGED <<ask, expired, raced, told, gramVars>>

\* The push service forgets a browser; the endpoint never comes back.
Expire(e) ==
  /\ Edit
  /\ sub[e] # None /\ e \notin expired
  /\ expired' = expired \cup {e}
  /\ UNCHANGED <<sub, ask, push, owner, raced, told, gramVars>>

-----------------------------------------------------------------------------
(* push.rs, notify_new_mail.                                                *)

\* The banner may be switched off, or no browser be subscribed.
PushList(m) ==
  LET todo == Subscribed(push[m].box) IN
  /\ push[m].pc = "list"
  /\ push' = [push EXCEPT ![m] = IF todo = {} THEN Quiet ELSE [@ EXCEPT !.pc = "send", !.todo = todo]]
  /\ UNCHANGED <<sub, ask, expired, edits, owner, raced, told, gramVars>>

\* classify_status: 404 and 410 are for ever, anything else is tried again with
\* the next mail; a notice without an answer may have arrived.
Outcomes(e) == IF e \in expired THEN {"gone", "failed"} ELSE {"delivered", "failed"}

\* Fault: the books are kept with an upsert, for a row that is no more too.
BookAnew(row, outcome) ==
  CASE outcome = "gone" -> None
    [] outcome # "gone" -> [box |-> IF row = None THEN None ELSE row.box, failures |-> 0]

\* The row as the answer leaves it; there may be none any more.
Book(row, outcome) ==
  CASE row = None \/ outcome = "gone" -> None
    [] row # None /\ outcome = "delivered" -> [row EXCEPT !.failures = 0]
    [] row # None /\ outcome = "failed" -> [row EXCEPT !.failures = IF @ < 2 THEN @ + 1 ELSE @]

PushSend(m, e, outcome) ==
  LET rest == push[m].todo \ {e} IN
  /\ push[m].pc = "send" /\ e \in push[m].todo /\ outcome \in Outcomes(e)
  /\ sub' = [sub EXCEPT ![e] = Book(sub[e], outcome)]
  /\ told' = IF e \notin expired /\ owner[e] # push[m].box /\ e \notin push[m].moved
             THEN told \cup {<<m, e>>} ELSE told
  /\ push' = [push EXCEPT ![m] = IF rest = {} THEN Quiet ELSE [@ EXCEPT !.todo = rest]]
  /\ UNCHANGED <<ask, expired, edits, owner, raced, gramVars>>

-----------------------------------------------------------------------------
(* telegram.rs.  Times are instants of the clock.                           *)

pushVars == <<sub, ask, expired, push, owner, raced, told>>

\* settings.rs, set: telegram_chat_id; None stands for no chat and for one that
\* is no number.
SetChat(b, c) ==
  /\ Edit
  /\ b \in Live
  /\ chat' = [chat EXCEPT ![b] = c]
  /\ UNCHANGED <<pushVars, clock, muted, slot, gram, tests, up>>

\* settings.rs, set: telegram_enabled.
SetEnabled(b, on) ==
  /\ Edit
  /\ b \in Live
  /\ muted' = IF on THEN muted \ {b} ELSE muted \cup {b}
  /\ UNCHANGED <<pushVars, clock, chat, slot, gram, tests, up>>

\* reserve_slot first forgets the slots that are long past.
Kept(c) == IF slot[c] + Retention > clock THEN slot[c] ELSE 0
Start(c) == IF Kept(c) > clock THEN Kept(c) ELSE clock

\* Fault: the next slot counts from now, not from the one just reserved.
FromNow(c) == clock + MinGap

NextSlot(c) == Start(c) + MinGap

\* load_settings finds no chat, or fails.
NoChat(m) ==
  /\ gram[m].pc = "settings"
  /\ gram' = [gram EXCEPT ![m] = Silent]
  /\ UNCHANGED <<pushVars, edits, clock, chat, muted, slot, tests, up>>

\* load_settings, reserve_slot, and MAX_QUEUE_WAIT.  What is dropped has taken
\* its slot all the same.
Reserve(m) ==
  LET c == chat[gram[m].box] IN
  /\ gram[m].pc = "settings" /\ c # None /\ gram[m].box \notin muted
  /\ slot' = [d \in Chats |-> IF d = c THEN NextSlot(c) ELSE Kept(d)]
  /\ gram' = [gram EXCEPT ![m] = IF Start(c) - clock > MaxWait THEN Silent
                                 ELSE [@ EXCEPT !.pc = "sleep", !.chat = c, !.start = Start(c),
                                                         !.asked = clock]]
  /\ UNCHANGED <<pushVars, edits, clock, chat, muted, tests, up>>

\* send_text, once the task wakes: whatever Telegram answers, it is not tried
\* again.
SendText(m) ==
  /\ gram[m].pc = "sleep" /\ gram[m].start <= clock
  /\ gram' = [gram EXCEPT ![m].pc = "sent"]
  /\ UNCHANGED <<pushVars, edits, clock, chat, muted, slot, tests, up>>

\* test: the request is in the books before the settings are read, sent or not.
Test(b) ==
  /\ Edit
  /\ b \in Live
  /\ \A t \in tests : t.box = b => clock - t.at >= Cooldown
  /\ tests' = tests \cup {[box |-> b, at |-> clock, pc |-> "settings", chat |-> None]}
  /\ UNCHANGED <<pushVars, clock, chat, muted, slot, gram, up>>

\* load_settings and send_text, without a slot and to a chat that is muted too;
\* or neither, when there is no chat or the settings cannot be read.
SendTest(t) ==
  /\ t.pc = "settings"
  /\ \E c \in {chat[t.box], None} : tests' = (tests \ {t}) \cup {[t EXCEPT !.pc = "sent", !.chat = c]}
  /\ UNCHANGED <<pushVars, edits, clock, chat, muted, slot, gram, up>>

Tick ==
  /\ clock < MaxTime
  /\ clock' = clock + 1
  /\ UNCHANGED <<pushVars, edits, chat, muted, slot, gram, tests, up>>

-----------------------------------------------------------------------------

\* Requests, tasks and slots are in memory; rows stay.
NoticeRestart ==
  /\ ask' = [e \in Endpoints |-> None]
  /\ push' = [m \in Mail |-> Quiet]
  /\ slot' = [c \in Chats |-> 0]
  /\ gram' = [m \in Mail |-> Silent]
  /\ tests' = {} /\ up' = clock
  /\ UNCHANGED <<sub, expired, clock, chat, muted, owner, raced, told>>

NoticeNext ==
  \/ /\ Acts("push")
     /\ \E e \in Endpoints : \/ Expire(e)
                              \/ \E a \in Addresses : CountSubscriptions(e, a) \/ Unsubscribe(e, a)
  \/ /\ Acts("telegram")
     /\ \E b \in Boxes : \/ \E c \in Chats \cup {None} : SetChat(b, c)
                        \/ \E on \in BOOLEAN : SetEnabled(b, on)
                        \/ Test(b)
  \/ Acts("telegram") /\ Tick
  \/ \E e \in Endpoints : Subscribe(e)
  \/ \E t \in tests : SendTest(t)
  \/ \E m \in Mail : \/ PushList(m) \/ NoChat(m) \/ Reserve(m) \/ SendText(m)
                     \/ \E e \in Endpoints, outcome \in {"delivered", "failed", "gone"} : PushSend(m, e, outcome)

-----------------------------------------------------------------------------

NoticeTypeOK ==
  /\ sub \in [Endpoints -> Subscriptions \cup {None}]
  /\ ask \in [Endpoints -> Boxes \cup {None}]
  /\ expired \subseteq Endpoints
  /\ push \in [Mail -> PushTasks]
  /\ clock \in 1..MaxTime
  /\ chat \in [Boxes -> Chats \cup {None}] /\ muted \subseteq Boxes
  /\ slot \in [Chats -> Nat]
  /\ gram \in [Mail -> GramTasks]
  /\ tests \subseteq Tests /\ up \in 1..clock
  /\ owner \in [Endpoints -> Boxes \cup {None}]
  /\ raced \subseteq Boxes
  /\ told \subseteq Mail \X Endpoints

\* "A subscription can only ever receive its own mailbox's mail" (api/push.rs):
\* whoever a browser was subscribed for before, what reaches it is of the
\* mailbox it was last subscribed for, unless that changed while a task was
\* already sending.  And a mailbox has no more browsers than the cap, unless
\* two of them were counted at once.
PushToOwner ==
  /\ told = {}
  /\ \A b \in Boxes \ raced : Cardinality(Subscribed(b)) <= MaxSubs

\* Whatever settings change meanwhile, each notice to a chat has an instant of
\* its own to go out at, MinGap from those of the others and within
\* MAX_QUEUE_WAIT, so no more wait than fit in it.  However late tasks wake, and
\* then they may go out at once, no more notices have been sent to a chat since
\* the process started than the gap allows; tests, which take no instant, come on
\* top, for each mailbox no more than the cooldown allows (api/telegram.rs).
Sleeping(c) == {m \in Mail : gram[m].pc = "sleep" /\ gram[m].chat = c /\ gram[m].start > clock}
Sent(c) == {m \in Mail : gram[m].pc = "sent" /\ gram[m].chat = c}
TestsOf(b) == {t \in tests : t.box = b}

GapKept ==
  /\ \A c \in Chats :
       /\ \A m, n \in {k \in Mail : gram[k].chat = c} :
            /\ m # n => gram[m].start + MinGap <= gram[n].start \/ gram[n].start + MinGap <= gram[m].start
            /\ gram[m].start - gram[m].asked \in 0..MaxWait
       /\ Cardinality(Sleeping(c)) <= (MaxWait \div MinGap) + 1
       /\ Cardinality(Sent(c)) <= ((clock - up) \div MinGap) + 1
  /\ \A b \in Boxes : Cardinality(TestsOf(b)) <= ((clock - up) \div Cooldown) + 1
=============================================================================
