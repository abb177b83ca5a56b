------------------------------ MODULE Inbound ------------------------------
(***************************************************************************)
(* mail/inbound.rs handle_inbound_raw: concurrent deliveries, each a task  *)
(* of the API, from the recipient's mailbox to the stored row, its         *)
(* attachments, the notifications and the vacation reply it spawns.  In    *)
(* between, contacts are blocked, filters change, mailboxes are deleted,   *)
(* statements fail and the process dies.                                   *)
(***************************************************************************)
EXTENDS Naturals, FiniteSets

CONSTANTS Deliveries,
          Mails,        \* [box, from, subject, auto, quiet, files, forced]
          Traffic,      \* what the deliveries may carry: sets of functions to Mails
          Boxes,
          Senders,
          Contacts,     \* <<mailbox, sender>>: contacts an owner may block
          Away,         \* mailboxes with an enabled vacation responder
          Rules(_),     \* per mailbox: what its first matching filter may say
          Interval,     \* interval_days, in ticks of the clock
          MaxTime,
          None

\* "Work" stands for every folder but the two whose name the handler knows.
Folders == {"Inbox", "Spam", "Work"}

ASSUME TimeAssumption == Interval \in Nat /\ MaxTime \in Nat
ASSUME TrafficAssumption ==
  /\ Traffic \subseteq [Deliveries -> Mails \cup {None}]
  /\ \A m \in Mails : m.box \in Boxes /\ m.files \in Nat /\ m.forced \in Folders \cup {None}
\* What blocking a contact adds to the filters of his mailbox.
ASSUME ContactAssumption == \A c \in Contacts : c[1] \in Boxes /\ "move_work" \in Rules(c[1])
ASSUME NoneAssumption == None \notin Deliveries \cup Boxes

AllRules == UNION {Rules(b) : b \in Boxes}

VARIABLES
  pc,        \* per delivery: the step it is at
  mail,      \* per delivery: the message
  folder,    \* per delivery: the folder decided so far
  thread,    \* per delivery: its thread, named after the delivery that created it
  answer,    \* per delivery: none | ok | failed | lost
  todo,      \* per delivery: attachments still to store
  rows,      \* messages: [by, box, folder, thread, files]
  threads,   \* [id, box, subject]
  kept,      \* deliveries that ever inserted their row
  pushed,    \* deliveries that notified the owner
  copied,    \* deliveries whose copy a filter forwarded
  found,     \* per delivery: what was read of the sender - none | free | blocked | unread
  ruled,     \* per delivery: what the filters said, None before they were read
  alive, blocked, rule,   \* mailboxes; blocked contacts; filters
  vac,       \* per delivery: the vacation task - none | check | send | record | end
  checked,   \* per delivery: when its task looked for an earlier reply
  sentAt,    \* vacation_deliveries: per mailbox and correspondent, a time or None
  replies,   \* deliveries answered by a vacation reply
  clock

mailVars == <<mail, folder, thread, answer, todo, found, ruled>>
vacVars == <<vac, checked, sentAt, replies>>
envVars == <<alive, blocked, rule, clock>>
outVars == <<pushed, copied>>
vars == <<pc, mailVars, rows, threads, kept, outVars, vacVars, envVars>>

Init == /\ pc = [d \in Deliveries |-> "new"]
        /\ mail \in Traffic
        /\ folder = [d \in Deliveries |-> "Inbox"]
        /\ thread = [d \in Deliveries |-> None]
        /\ answer = [d \in Deliveries |-> "none"]
        /\ todo = [d \in Deliveries |-> 0]
        /\ rows = {} /\ threads = {} /\ kept = {} /\ pushed = {} /\ copied = {}
        /\ found = [d \in Deliveries |-> "none"]
        /\ ruled = [d \in Deliveries |-> None]
        /\ alive = {mail[d].box : d \in {d \in Deliveries : mail[d] # None}}
        /\ blocked \in SUBSET {c \in Contacts : c[1] \in alive}
        /\ rule \in {f \in [Boxes -> AllRules] :
                     \A b \in Boxes : f[b] \in Rules(b)}
        /\ vac = [d \in Deliveries |-> "none"]
        /\ checked = [d \in Deliveries |-> 0]
        /\ sentAt = [b \in Boxes |-> [s \in Senders |-> None]]
        /\ replies = {} /\ clock = 0

Goto(d, step) == pc' = [pc EXCEPT ![d] = step]

\* Fault: a refused message is acknowledged, so that the sender does not come back.
AcceptRefused(d) == /\ Goto(d, "end")
                    /\ answer' = [answer EXCEPT ![d] = "ok"]

\* The handler returns an error: the ingress answers 451.
Fail(d) == /\ Goto(d, "end")
           /\ answer' = [answer EXCEPT ![d] = "failed"]

Box(d) == mail[d].box
From(d) == mail[d].from

-----------------------------------------------------------------------------
(* The decisions of a delivery.  An operator whose comment starts with     *)
(* "Fault" is a slip seeded in place of the operator below it, to see that *)
(* a property notices it.                                                  *)

\* Fault: a forwarded message is always kept in Inbox.
ForwardToInbox(f, r) == CASE r = "block" -> "Spam"
                          [] r = "forward" -> "Inbox"
                          [] r = "move_inbox" -> "Inbox"
                          [] r = "move_work" -> "Work"
                          [] OTHER -> f

\* Where a filter with action r puts a message so far bound for folder f.
Ruled(f, r) == CASE r = "block" -> "Spam"
                 [] r = "move_inbox" -> "Inbox"
                 [] r = "move_work" -> "Work"
                 [] OTHER -> f

\* resolve_filtered_folder knows rules in the old notation, which resolve_action
\* passes over; a result of Inbox changes nothing.
Legacy(f, r) == CASE r \in {"legacy_work", "move_work"} -> "Work"
                  [] r = "legacy_reject" -> "Spam"
                  [] OTHER -> f

SameThread(t, d) == t.box = Box(d) /\ t.subject = mail[d].subject

\* "Only real new Inbox mail (not spam, not imports)", and not in a quiet tab.
Pushes(d) == folder[d] = "Inbox" /\ ~mail[d].quiet /\ mail[d].forced = None

-----------------------------------------------------------------------------
(* The steps of a delivery.                                                *)

\* resolve_recipient, then the raw message goes to the object store.
PutRaw(d) == /\ pc[d] = "new" /\ mail[d] # None /\ Box(d) \in alive
             /\ Goto(d, "block")
             /\ UNCHANGED <<mailVars, rows, threads, kept, outVars, vacVars, envVars>>

\* An import names its folder: neither the block list nor the filters are read.
Forced(d) == /\ pc[d] = "block" /\ mail[d].forced # None
             /\ folder' = [folder EXCEPT ![d] = mail[d].forced]
             /\ Goto(d, "find")
             /\ UNCHANGED <<mail, thread, answer, todo, found, ruled, rows, threads, kept,
                            outVars, vacVars, envVars>>

\* is_blocked: a failed statement counts as not blocked.
ReadBlocked(d) ==
  /\ pc[d] = "block" /\ mail[d].forced = None
  /\ \/ found' = [found EXCEPT ![d] =
                    IF <<Box(d), From(d)>> \in blocked THEN "blocked" ELSE "free"]
     \/ found' = [found EXCEPT ![d] = "unread"]
  /\ folder' = [folder EXCEPT ![d] = IF found'[d] = "blocked" THEN "Spam" ELSE "Inbox"]
  /\ Goto(d, "rules")
  /\ UNCHANGED <<mail, thread, answer, todo, ruled, rows, threads, kept, outVars,
                 vacVars, envVars>>

\* Actions resolve_action knows; for the others the handler reads the rules again.
Acts == {"block", "forward", "move_inbox", "move_work"}

\* apply_filters and the action it returns.
ApplyFilters(d) ==
  /\ pc[d] = "rules"
  /\ LET r == rule[Box(d)]
     IN /\ ruled' = [ruled EXCEPT ![d] = r]
        /\ folder' = [folder EXCEPT ![d] = Ruled(@, r)]
        /\ copied' = IF r = "forward" THEN copied \cup {d} ELSE copied
        /\ \/ r = "reject" /\ Fail(d)
           \/ r \in Acts /\ Goto(d, "find") /\ UNCHANGED answer
           \/ r \notin Acts \cup {"reject"} /\ Goto(d, "legacy") /\ UNCHANGED answer
  /\ UNCHANGED <<mail, thread, todo, found, rows, threads, kept, pushed, vacVars, envVars>>

\* A failed statement passes for no filters at all.
FiltersFail(d) == /\ pc[d] = "rules"
                  /\ Goto(d, "legacy")
                  /\ UNCHANGED <<mailVars, rows, threads, kept, outVars, vacVars, envVars>>

ApplyLegacy(d) ==
  /\ pc[d] = "legacy"
  /\ folder' = [folder EXCEPT ![d] = Legacy(@, rule[Box(d)])]
  /\ Goto(d, "find")
  /\ UNCHANGED <<mail, thread, answer, todo, found, ruled, rows, threads, kept, outVars,
                 vacVars, envVars>>

\* find_or_create_thread: the lookup ...
FindThread(d) ==
  /\ pc[d] = "find"
  /\ LET same == {t \in threads : SameThread(t, d)}
     IN \/ \E t \in same : /\ thread' = [thread EXCEPT ![d] = t.id]
                           /\ Goto(d, "insert")
        \/ same = {} /\ Goto(d, "create") /\ UNCHANGED thread
  /\ UNCHANGED <<mail, folder, answer, todo, found, ruled, rows, threads, kept, outVars,
                 vacVars, envVars>>

\* ... and, in a statement of its own, the new thread.
CreateThread(d) ==
  /\ pc[d] = "create" /\ Box(d) \in alive
  /\ threads' = threads \cup {[id |-> d, box |-> Box(d), subject |-> mail[d].subject]}
  /\ thread' = [thread EXCEPT ![d] = d]
  /\ Goto(d, "insert")
  /\ UNCHANGED <<mail, folder, answer, todo, found, ruled, rows, kept, outVars,
                 vacVars, envVars>>

\* Fault: the database does not enforce its foreign keys.
Unreferenced(d) == TRUE

Referenced(d) == Box(d) \in alive /\ \E t \in threads : t.id = thread[d]

\* insert_message: the mailbox and the thread are foreign keys.  The vacation task
\* starts here, before the attachments are stored.
InsertRow(d) ==
  /\ pc[d] = "insert"
  /\ Referenced(d)
  /\ rows' = rows \cup {[by |-> d, box |-> Box(d), folder |-> folder[d],
                         thread |-> thread[d], files |-> 0]}
  /\ kept' = kept \cup {d}
  /\ todo' = [todo EXCEPT ![d] = mail[d].files]
  /\ vac' = [vac EXCEPT ![d] = "check"]
  /\ Goto(d, "files")
  /\ UNCHANGED <<mail, folder, thread, answer, found, ruled, threads, outVars,
                 checked, sentAt, replies, envVars>>

\* insert_attachment; the message is a foreign key.
StoreFile(d) ==
  /\ pc[d] = "files" /\ todo[d] > 0
  /\ \E row \in rows : /\ row.by = d
                       /\ rows' = (rows \ {row}) \cup {[row EXCEPT !.files = @ + 1]}
  /\ todo' = [todo EXCEPT ![d] = @ - 1]
  /\ UNCHANGED <<pc, mail, folder, thread, answer, found, ruled, threads, kept, outVars,
                 vacVars, envVars>>

\* Fault: what could not be stored is skipped.
SkipFiles(d) == TRUE

AllStored(d) == todo[d] = 0

\* The notifications, and the answer.
Notify(d) ==
  /\ pc[d] = "files" /\ AllStored(d)
  /\ pushed' = IF Pushes(d) THEN pushed \cup {d} ELSE pushed
  /\ answer' = [answer EXCEPT ![d] = "ok"]
  /\ Goto(d, "end")
  /\ UNCHANGED <<mail, folder, thread, todo, found, ruled, rows, threads, kept, copied,
                 vacVars, envVars>>

\* A statement or the object store fails, or the recipient has no mailbox (any more).
FailStep(d) ==
  /\ mail[d] # None
  /\ pc[d] \in {"new", "find", "create", "insert"} \/ (pc[d] = "files" /\ todo[d] > 0)
  /\ Fail(d)
  /\ UNCHANGED <<mail, folder, thread, todo, found, ruled, rows, threads, kept, outVars,
                 vacVars, envVars>>

-----------------------------------------------------------------------------
(* The vacation task of a delivery.                                        *)

\* Skip auto-submitted mail, a disabled responder, oneself, and whoever got a reply
\* less than Interval ago.
Owed(d) == /\ ~mail[d].auto /\ Box(d) \in Away /\ Box(d) \in alive /\ From(d) # Box(d)
           /\ LET last == sentAt[Box(d)][From(d)]
              IN last # None => clock - last >= Interval

VacationCheck(d) ==
  /\ vac[d] = "check"
  /\ vac' = [vac EXCEPT ![d] = IF Owed(d) THEN "send" ELSE "end"]
  /\ checked' = [checked EXCEPT ![d] = clock]
  /\ UNCHANGED <<pc, mailVars, rows, threads, kept, outVars, sentAt, replies, envVars>>

\* outbound::send_email, whose result is ignored.
VacationSend(d) ==
  /\ vac[d] = "send"
  /\ vac' = [vac EXCEPT ![d] = "record"]
  /\ replies' \in {replies, replies \cup {d}}
  /\ UNCHANGED <<pc, mailVars, rows, threads, kept, outVars, checked, sentAt, envVars>>

\* The upsert into vacation_deliveries, whose failure is ignored as well.
VacationRecord(d) ==
  /\ vac[d] = "record"
  /\ vac' = [vac EXCEPT ![d] = "end"]
  /\ sentAt' \in {sentAt, [sentAt EXCEPT ![Box(d)][From(d)] = checked[d]]}
  /\ UNCHANGED <<pc, mailVars, rows, threads, kept, outVars, checked, replies, envVars>>

-----------------------------------------------------------------------------
(* What happens around it.                                                 *)

\* The owner blocks a contact; no operation takes that back.  A filter that moves his
\* mail to Trash follows, unless its statement fails; one that is there already may
\* match before it.
BlockContact(c) ==
  /\ c[1] \in alive
  /\ blocked' = blocked \cup {c}
  /\ rule' \in {rule, [rule EXCEPT ![c[1]] = "move_work"]}
  /\ UNCHANGED <<pc, mailVars, rows, threads, kept, outVars, vacVars, alive, clock>>

SetRule(b, r) ==
  /\ b \in alive
  /\ rule' = [rule EXCEPT ![b] = r]
  /\ UNCHANGED <<pc, mailVars, rows, threads, kept, outVars, vacVars, alive, blocked,
                 clock>>

\* Its messages, their attachments and its threads go with a mailbox.
DeleteMailbox(b) ==
  /\ b \in alive
  /\ alive' = alive \ {b}
  /\ threads' = {t \in threads : t.box # b}
  /\ rows' = {row \in rows : row.box # b}
  /\ UNCHANGED <<pc, mailVars, kept, outVars, vacVars, blocked, rule, clock>>

Tick == /\ clock < MaxTime
        /\ clock' = clock + 1
        /\ UNCHANGED <<pc, mailVars, rows, threads, kept, outVars, vacVars, alive,
                       blocked, rule>>

\* The process dies: deliveries and vacation tasks stop where they are.
Crash == /\ pc' = [d \in Deliveries |-> IF pc[d] = "new" THEN "new" ELSE "end"]
         /\ answer' = [d \in Deliveries |->
              IF pc[d] \notin {"new", "end"} THEN "lost" ELSE answer[d]]
         /\ vac' = [d \in Deliveries |-> IF vac[d] = "none" THEN "none" ELSE "end"]
         /\ UNCHANGED <<mail, folder, thread, todo, found, ruled, rows, threads, kept, outVars,
                        checked, sentAt, replies, envVars>>

Deliver(d) == \/ PutRaw(d) \/ Forced(d) \/ ReadBlocked(d)
              \/ ApplyFilters(d) \/ FiltersFail(d) \/ ApplyLegacy(d)
              \/ FindThread(d) \/ CreateThread(d)
              \/ InsertRow(d) \/ StoreFile(d) \/ Notify(d) \/ FailStep(d)

Vacation(d) == VacationCheck(d) \/ VacationSend(d) \/ VacationRecord(d)

Next == \/ \E d \in Deliveries : Deliver(d) \/ Vacation(d)
        \/ \E c \in Contacts : BlockContact(c)
        \/ \E b \in Boxes : \E r \in Rules(b) : SetRule(b, r)
        \/ \E b \in Boxes : DeleteMailbox(b)
        \/ Tick \/ Crash

Spec == Init /\ [][Next]_vars

-----------------------------------------------------------------------------
(* Properties.                                                             *)

\* Every variable keeps to the values the handler gives it.
TypeOK ==
  /\ pc \in [Deliveries -> {"new", "block", "rules", "legacy", "find", "create",
                            "insert", "files", "end"}]
  /\ mail \in Traffic
  /\ folder \in [Deliveries -> Folders]
  /\ thread \in [Deliveries -> Deliveries \cup {None}]
  /\ answer \in [Deliveries -> {"none", "ok", "failed", "lost"}]
  /\ todo \in [Deliveries -> Nat]
  /\ rows \subseteq [by : kept, box : alive, folder : Folders, thread : Deliveries, files : Nat]
  /\ \A t \in threads : t.box \in alive
  /\ alive \subseteq Boxes /\ blocked \subseteq Contacts
  /\ rule \in [Boxes -> AllRules]
  /\ kept \subseteq Deliveries /\ copied \subseteq Deliveries
  /\ pushed \subseteq kept /\ replies \subseteq kept
  /\ found \in [Deliveries -> {"none", "free", "blocked", "unread"}]
  /\ ruled \in [Deliveries -> AllRules \cup {None}]
  /\ vac \in [Deliveries -> {"none", "check", "send", "record", "end"}]
  /\ checked \in [Deliveries -> 0..MaxTime] /\ clock \in 0..MaxTime
  /\ sentAt \in [Boxes -> [Senders -> 0..MaxTime \cup {None}]]

\* A message that was acknowledged is there with every attachment, however the
\* deliveries interleave, unless its mailbox was deleted.
AcknowledgedWhole ==
  \A d \in Deliveries : answer[d] = "ok" /\ Box(d) \in alive =>
    \E row \in rows : row.by = d /\ row.files = mail[d].files

\* A message is in a thread of its own mailbox.
ThreadOfMailbox ==
  \A row \in rows : \E t \in threads : t.id = row.thread /\ t.box = row.box

\* Whoever was seen to be blocked only gets into Inbox by a filter that says so; a
\* forwarding filter does not.
BlockedStaysOut ==
  \A row \in rows : row.folder = "Inbox" /\ found[row.by] = "blocked" =>
    ruled[row.by] = "move_inbox"

\* The owner is only alerted to what is, complete, in Inbox, and not by a message
\* of somebody blocked that no filter let in, nor by an import.
AlertIsInInbox ==
  \A d \in pushed :
    /\ Box(d) \in alive =>
         \E row \in rows : row.by = d /\ row.folder = "Inbox" /\ row.files = mail[d].files
    /\ found[d] = "blocked" => ruled[d] = "move_inbox"
    /\ mail[d].forced = None

\* Each message is where the owner's thread, filters and blocks put it, and he is
\* alerted to it only there (inbound.rs, handle_inbound_internal).
WellPlaced == ThreadOfMailbox /\ BlockedStaysOut /\ AlertIsInInbox

\* Where the ingress would say a delivery is.
StateOf(d) == CASE answer[d] # "none" -> answer[d]
                [] answer[d] = "none" /\ d \in kept -> "filed"
                [] answer[d] = "none" /\ d \notin kept /\ pc[d] = "new" -> "new"
                [] OTHER -> "running"

ForwardState == [d \in Deliveries |-> StateOf(d)]

Contract == INSTANCE Forwarding WITH state <- ForwardState

\* The deliveries keep what the ingress relies on: a forward is filed at most once,
\* acknowledged only when filed, answered once.
KeepsForwarding == Contract!Spec

\* inbound.rs:258 - "Vacation auto-reply (async, dedup by interval_days)": two replies to
\* one correspondent are an interval apart.
OneReplyPerInterval ==
  \A d, e \in replies :
    d # e /\ Box(d) = Box(e) /\ From(d) = From(e) /\ checked[d] <= checked[e] =>
      checked[e] - checked[d] >= Interval
=============================================================================
