------------------------------ MODULE Outbound ------------------------------
(***************************************************************************)
(* mail/outbound.rs: one outgoing message from its checks to its Sent row, *)
(* its local copies and its attachments, and api/send.rs send_batch, which *)
(* runs the entries of a batch one after the other (a single send is a     *)
(* batch of one).  Mailboxes, aliases, threads and the sender's domain may *)
(* change between any two steps; every statement may fail; a transport may *)
(* accept, refuse, or fail after it had already delivered.                 *)
(***************************************************************************)
EXTENDS Naturals, FiniteSets, Sequences

CONSTANTS Scenarios,      \* [batch, conf]: what may be asked of which deployment
          Addresses,      \* spellings of recipient addresses
          Boxes,          \* mailboxes of this system
          Box(_),         \* the mailbox a spelling names, or None
          Norm(_),        \* trim + lowercase
          Sender, Other,  \* the caller's mailbox, and somebody else's
          Threads,
          None

\* What the caller is and what the server is configured with; "loops" says that
\* relays bring local recipients' mail back by MX.
Confs == [admin : BOOLEAN, cloudflare : BOOLEAN, mailchannels : BOOLEAN, smtp : BOOLEAN,
          production : BOOLEAN, loops : BOOLEAN]

\* SendRequest: "foreign" is an address the caller's mailbox does not have.
Mails == [from : {"own", "alias", "foreign"}, to : SUBSET Addresses, cc : SUBSET Addresses,
          bcc : SUBSET Addresses, thread : Threads \cup {None}, files : Nat]

ASSUME ScenariosAssumption ==
  /\ Scenarios \subseteq [batch : Seq(Mails) \ {<<>>}, conf : Confs]
  /\ \A s \in Scenarios : \A i \in DOMAIN s.batch : IsFiniteSet(s.batch[i].to)

\* A mailbox has one address (mailboxes.address), looked up in small letters.
ASSUME BoxAssumption ==
  \A a, b \in Addresses :
    Box(Norm(a)) = Box(Norm(b)) /\ Box(Norm(a)) \in Boxes => Norm(a) = Norm(b)

VARIABLES
  batch,      \* the request: a message per entry
  conf,       \* the caller and the deployment
  phase,      \* authorizing | sending | refused | answered | dropped
  at,         \* the entry being authorized or sent
  pc,         \* the step of send_email the current entry is at
  hop,        \* the transport tried next
  box,        \* per entry: where its Sent row goes, once resolved
  copies,     \* per entry and address: copies a transport delivered
  unsure,     \* per entry: hops that failed after delivering
  accepted,   \* entries a transport (or the development no-op) took
  filed,      \* Inbox and Sent rows
  targets,    \* local fan-out: recipients still to look up
  broke,      \* entries whose fan-out was cut short
  files,      \* attachments of the current entry still to store
  result,     \* per entry: none | ok | err
  active,     \* the sender's domain is Active with a DKIM key
  alive,      \* mailboxes that exist
  aliased,    \* the caller still has the Send As alias
  owner       \* the mailbox each thread belongs to, None once deleted

envVars == <<conf, active, alive, aliased, owner>>
vars == <<batch, conf, phase, at, pc, hop, box, copies, unsure, accepted,
          filed, targets, broke, files, result, active, alive, aliased, owner>>

Entries == DOMAIN batch

Mail == batch[at]

Recipients(m) == m.to \cup m.cc \cup m.bcc

-----------------------------------------------------------------------------
(* The steps of send_email and the chain of transports.                    *)
(*                                                                         *)
(* An operator whose comment starts with "Fault" is a slip seeded in place *)
(* of the operator below it, to see that a property notices it.            *)

\* Fault: the Sent row is written first.
StoreFirst == <<"thread", "domain", "resolve", "store", "fanout", "hop", "attach", "end">>

Order == <<"thread", "domain", "resolve", "hop", "store", "fanout", "attach", "end">>

After(step) == LET i == CHOOSE i \in 1..7 : Order[i] = step IN Order[i + 1]

FirstHop == IF conf.cloudflare THEN "cloudflare" ELSE "worker"

\* Fault: after the last hop the chain starts over.
AroundAgain(h) == CASE h = "cloudflare" -> "worker"
                    [] h = "worker" -> IF conf.mailchannels THEN "mailchannels" ELSE "mail_send"
                    [] h = "mailchannels" -> "mail_send"
                    [] h = "mail_send" -> "lettre"
                    [] OTHER -> FirstHop

\* send_via_fallback_chain; inside send_via_smtp mail-send is tried before lettre.
NextHop(h) == CASE h = "cloudflare" -> "worker"
                [] h = "worker" -> IF conf.mailchannels THEN "mailchannels" ELSE "mail_send"
                [] h = "mailchannels" -> "mail_send"
                [] h = "mail_send" -> "lettre"
                [] OTHER -> None

\* Without SMTP_HOST the last hop sends nothing: an error in production, a
\* success in development.
Outcomes(h) == CASE h = "lettre" /\ ~conf.smtp -> {IF conf.production THEN "refused" ELSE "noop"}
                 [] h = "worker" -> {"accepted", "refused", "unsure", "partial"}
                 [] OTHER -> {"accepted", "refused", "unsure"}

\* Fault: a worker that failed for some recipients counts as a failed hop.
PartialFails(o) == o \in {"accepted", "noop"}

\* "accepted but failed inside the worker ... not retrying elsewhere"
Takes(o) == o \in {"accepted", "noop", "partial"}

\* Copies of the message one delivery by hop h puts in a recipient's mailbox:
\* MailChannels gets one personalization per To recipient, each with every Cc
\* and Bcc.
Share(h, m, a) ==
  IF h = "mailchannels" /\ a \in m.cc \cup m.bcc THEN Cardinality(m.to) ELSE 1

NoCopies == [a \in Addresses |-> 0]

Init == /\ \E s \in Scenarios : batch = s.batch /\ conf = s.conf
        /\ phase = "authorizing" /\ at = 1
        /\ pc = "thread" /\ hop = FirstHop
        /\ box = [i \in Entries |-> None]
        /\ copies = [i \in Entries |-> NoCopies]
        /\ unsure = [i \in Entries |-> 0]
        /\ accepted = {} /\ filed = {} /\ targets = {} /\ broke = {} /\ files = 0
        /\ result = [i \in Entries |-> "none"]
        /\ active \in BOOLEAN /\ alive = Boxes /\ aliased \in BOOLEAN
        /\ owner \in [Threads -> Boxes]

-----------------------------------------------------------------------------
(* authorize_sender for every entry, before any is sent.                   *)

\* `from` is the caller's own address, one of its aliases, or not its own.
MayUse(m) == conf.admin \/ m.from = "own" \/ (m.from = "alias" /\ aliased)

\* resolve_sender_mailbox: the mailbox that has the address, or its alias.
Resolved(m) == LET b == IF m.from = "foreign" THEN Other ELSE Sender
               IN IF b \in alive /\ (m.from = "alias" => aliased) THEN b ELSE None

\* validate_thread_ownership
ThreadFits(m) == m.thread # None => /\ Resolved(m) # None
                                    /\ owner[m.thread] = Resolved(m)

\* Fault: sending starts when the first entry is authorized.
FirstAuthorized(i) == TRUE

AllAuthorized(i) == i = Len(batch)

Authorize ==
  /\ phase = "authorizing"
  /\ MayUse(Mail) /\ ThreadFits(Mail)
  /\ IF AllAuthorized(at)
     THEN phase' = "sending" /\ at' = 1
     ELSE phase' = phase /\ at' = at + 1
  /\ UNCHANGED <<batch, pc, hop, box, copies, unsure, accepted, filed, targets,
                 broke, files, result>>
  /\ UNCHANGED envVars

\* One entry the caller may not send - or a failed statement - refuses them all.
RefuseBatch == /\ phase = "authorizing"
               /\ phase' = "refused"
               /\ UNCHANGED <<batch, at, pc, hop, box, copies, unsure, accepted,
                              filed, targets, broke, files, result>>
               /\ UNCHANGED envVars

-----------------------------------------------------------------------------
(* send_email for the current entry.                                       *)

\* The entry is over: the next one starts, or the batch is answered.
EndEntry(res) ==
  /\ result' = [result EXCEPT ![at] = res]
  /\ pc' = "thread" /\ hop' = FirstHop /\ targets' = {} /\ files' = 0
  /\ IF at = Len(batch)
     THEN phase' = "answered" /\ at' = at
     ELSE phase' = phase /\ at' = at + 1

Running(step) == phase = "sending" /\ pc = step

Fail(step) == /\ Running(step)
              /\ EndEntry("err")
              /\ UNCHANGED <<batch, box, copies, unsure, accepted, filed>>
              /\ UNCHANGED envVars

Pass(step) == /\ pc' = After(step)
              /\ UNCHANGED <<batch, phase, at, hop, copies, unsure, accepted, filed, targets,
                             broke, files, result>>
              /\ UNCHANGED envVars

CheckThread == Running("thread") /\ ThreadFits(Mail) /\ Pass("thread") /\ UNCHANGED box

CheckDomain == Running("domain") /\ active /\ Pass("domain") /\ UNCHANGED box

Resolve == /\ Running("resolve")
           /\ Resolved(Mail) # None
           /\ box' = [box EXCEPT ![at] = Resolved(Mail)]
           /\ Pass("resolve")

\* A failed check, an oversized body or attachment, or a failed statement:
\* nothing has left.
FailCheck == /\ \E step \in {"thread", "domain", "resolve"} : Fail(step)
             /\ UNCHANGED broke

Deliver(who) ==
  copies' = [copies EXCEPT ![at] =
    [a \in Addresses |-> @[a] + IF a \in who THEN Share(hop, Mail, a) ELSE 0]]

\* What a transport does with the message, whatever it then reports.
Reaches(o) == CASE o \in {"accepted", "unsure"} -> {Recipients(Mail)}
                [] o = "partial" -> SUBSET Recipients(Mail) \ {Recipients(Mail)}
                [] OTHER -> {{}}

TryHop ==
  /\ Running("hop")
  /\ \E o \in Outcomes(hop) :
       /\ \E who \in Reaches(o) : Deliver(who)
       /\ unsure' = [unsure EXCEPT ![at] = @ + IF o = "unsure" THEN 1 ELSE 0]
       /\ \/ /\ Takes(o)
             /\ accepted' = accepted \cup {at}
             /\ pc' = After("hop")
             /\ UNCHANGED <<phase, at, hop, targets, files, result>>
          \/ /\ ~Takes(o) /\ NextHop(hop) # None
             /\ hop' = NextHop(hop)
             /\ UNCHANGED <<phase, at, pc, accepted, targets, files, result>>
          \/ /\ ~Takes(o) /\ NextHop(hop) = None
             /\ EndEntry("err")
             /\ UNCHANGED accepted
  /\ UNCHANGED <<batch, box, filed, broke>>
  /\ UNCHANGED envVars

Row(b, folder, address, via) ==
  [entry |-> at, box |-> b, folder |-> folder, address |-> address,
   thread |-> IF via = "mx" THEN None ELSE Mail.thread, via |-> via]

\* The foreign keys of messages: a mailbox, and a thread if there is one.
Storable(b) == b \in alive /\ (Mail.thread # None => owner[Mail.thread] # None)

Dedup(a) == Norm(a)

\* Fault: the hidden recipients get no copy.
VisibleOnly(m) == m.to \cup m.cc

Listed(m) == m.to \cup m.cc \cup m.bcc

\* One spelling of each recipient: the first one seen.
FanOut(m) ==
  {CHOOSE a \in Listed(m) : Dedup(a) = n : n \in {Dedup(a) : a \in Listed(m)}}

\* store_sent_message; deliver_local_copies begins with its list of targets.
StoreSent == /\ Running("store")
             /\ Storable(box[at])
             /\ filed' = filed \cup {Row(box[at], "Sent", None, "api")}
             /\ targets' = FanOut(Mail)
             /\ pc' = After("store")
             /\ UNCHANGED <<batch, phase, at, hop, box, copies, unsure, accepted,
                            broke, files, result>>
             /\ UNCHANGED envVars

\* The INSERT fails: an error for a message that has left.
FailStore == Fail("store") /\ UNCHANGED broke

\* One recipient of the fan-out: a mailbox of this system gets an Inbox row, with
\* the thread id of the request.
CopyLocal ==
  /\ Running("fanout")
  /\ \E a \in targets :
       /\ targets' = targets \ {a}
       /\ \/ Box(Norm(a)) \notin alive /\ UNCHANGED filed
          \/ /\ Box(Norm(a)) \in alive /\ Storable(Box(Norm(a)))
             /\ filed' = filed \cup {Row(Box(Norm(a)), "Inbox", a, "api")}
  /\ UNCHANGED <<batch, phase, at, pc, hop, box, copies, unsure, accepted, broke,
                 files, result>>
  /\ UNCHANGED envVars

\* The fan-out ends, or a statement of it fails: the rest of the recipients get
\* no copy, and the send goes on either way.
EndFanout ==
  /\ Running("fanout")
  /\ \/ targets = {} /\ UNCHANGED broke
     \/ targets # {} /\ broke' = broke \cup {at}
  /\ targets' = {}
  /\ files' = Mail.files
  /\ pc' = After("fanout")
  /\ UNCHANGED <<batch, phase, at, hop, box, copies, unsure, accepted, filed, result>>
  /\ UNCHANGED envVars

StoreFile == /\ Running("attach")
             /\ files > 0
             /\ files' = files - 1
             /\ UNCHANGED <<batch, phase, at, pc, hop, box, copies, unsure, accepted,
                            filed, targets, broke, result>>
             /\ UNCHANGED envVars

FailFile == files > 0 /\ Fail("attach") /\ UNCHANGED broke

Done == /\ Running("attach")
        /\ files = 0
        /\ EndEntry("ok")
        /\ UNCHANGED <<batch, box, copies, unsure, accepted, filed, broke>>
        /\ UNCHANGED envVars

-----------------------------------------------------------------------------
(* What happens around it.                                                 *)

\* The process dies; or the client of a batch goes away, and its handler - not a
\* detached task - with it.
Abandon == /\ phase \in {"authorizing", "sending"}
           /\ phase' = "dropped"
           /\ UNCHANGED <<batch, at, pc, hop, box, copies, unsure, accepted, filed,
                          targets, broke, files, result>>
           /\ UNCHANGED envVars

requestVars == <<batch, phase, at, pc, hop, box, copies, unsure, accepted,
                 targets, broke, files, result>>

\* A relay hands a local recipient's copy to the inbound path, which inserts a
\* row of its own: handle_inbound_raw looks for no earlier message.
ReturnByMx ==
  /\ conf.loops
  /\ \E a \in Addresses :
       LET row == Row(Box(Norm(a)), "Inbox", a, "mx")
       IN /\ copies[at][a] > 0
          /\ Box(Norm(a)) \in alive
          /\ row \notin filed
          /\ filed' = filed \cup {row}
  /\ UNCHANGED requestVars
  /\ UNCHANGED envVars

DomainChanges == active' = ~active /\ UNCHANGED <<conf, alive, aliased, owner, filed>>

RemoveAlias == aliased /\ aliased' = FALSE /\ UNCHANGED <<conf, active, alive, owner, filed>>

\* ON DELETE CASCADE: its messages and threads go with it.
DeleteMailbox(b) ==
  /\ b \in alive
  /\ alive' = alive \ {b}
  /\ owner' = [t \in Threads |-> IF owner[t] = b THEN None ELSE owner[t]]
  /\ filed' = {IF row.thread # None /\ owner[row.thread] = b
               THEN [row EXCEPT !.thread = None] ELSE row :
                 row \in {row \in filed : row.box # b}}
  /\ UNCHANGED <<conf, active, aliased>>

Around == /\ \/ DomainChanges \/ RemoveAlias
             \/ \E b \in Boxes : DeleteMailbox(b)
          /\ UNCHANGED requestVars

Next == \/ Authorize \/ RefuseBatch
        \/ CheckThread \/ CheckDomain \/ Resolve \/ FailCheck
        \/ TryHop \/ StoreSent \/ FailStore
        \/ CopyLocal \/ EndFanout \/ StoreFile \/ FailFile \/ Done
        \/ Abandon \/ ReturnByMx \/ Around

Spec == Init /\ [][Next]_vars

-----------------------------------------------------------------------------
(* Properties.                                                             *)

Filed == [entry : Entries, box : Boxes, folder : {"Sent", "Inbox"},
          address : Addresses \cup {None}, thread : Threads \cup {None}, via : {"api", "mx"}]

\* The variables keep their ranges, and every hop is tried at most once per entry.
TypeOK ==
  /\ [batch |-> batch, conf |-> conf] \in Scenarios /\ at \in Entries
  /\ phase \in {"authorizing", "sending", "refused", "answered", "dropped"}
  /\ pc \in {Order[i] : i \in 1..7}
  /\ hop \in {"cloudflare", "worker", "mailchannels", "mail_send", "lettre"}
  /\ box \in [Entries -> Boxes \cup {None}]
  /\ copies \in [Entries -> [Addresses -> Nat]]
  /\ unsure \in [Entries -> 0..5]
  /\ accepted \subseteq Entries /\ broke \subseteq Entries /\ files \in Nat
  /\ filed \subseteq Filed
  /\ targets \subseteq Addresses
  /\ result \in [Entries -> {"none", "ok", "err"}]
  /\ active \in BOOLEAN /\ aliased \in BOOLEAN /\ alive \subseteq Boxes
  /\ owner \in [Threads -> Boxes \cup {None}]

HasLeft(i) == \E a \in Addresses : copies[i][a] > 0

\* A batch is never half-sent because of an address that is not the caller's: if
\* anything has left, every entry is one the caller may send.
NoneIfOneForeign ==
  ~conf.admin => \A i \in Entries : HasLeft(i) => \A j \in Entries : batch[j].from # "foreign"

\* No mailbox shows a message - in Sent or as a local copy - that no transport took.
FiledWasAccepted == \A row \in filed : row.via = "api" => row.entry \in accepted

\* A recipient gets a message more than once only when some hop had failed after
\* delivering it: a hop that reports success, even a partial one, ends the chain.
\* (Cc and Bcc recipients aside when MailChannels took it, one copy per To.)
DuplicatesAreUnsure ==
  \A i \in Entries : \A a \in Addresses :
    \/ copies[i][a] <= 1 + unsure[i]
    \/ conf.mailchannels /\ a \in batch[i].cc \cup batch[i].bcc

\* However often and in whatever spelling an address is listed, its mailbox gets
\* one local copy.
OneLocalCopy ==
  \A r1, r2 \in filed :
    /\ r1.folder = "Inbox" /\ r1.via = "api" /\ r2.folder = "Inbox" /\ r2.via = "api"
    /\ r1.entry = r2.entry /\ r1.box = r2.box
    => r1 = r2

\* Every recipient with a mailbox here, hidden ones included, has its copy once
\* the send has succeeded and no statement of the fan-out failed.
LocalRecipientsServed ==
  \A i \in Entries : result[i] = "ok" /\ i \notin broke =>
    \A a \in Recipients(batch[i]) : Box(Norm(a)) \in alive =>
      \E row \in filed : row.entry = i /\ row.folder = "Inbox" /\ row.box = Box(Norm(a))

\* What is sent to addresses of this server is in each of their mailboxes, once
\* (outbound.rs, deliver_local_copies).
LocalCopies == OneLocalCopy /\ LocalRecipientsServed
=============================================================================
