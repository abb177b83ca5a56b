------------------------------ MODULE Ingress ------------------------------
(***************************************************************************)
(* How a message gets in: aivory-mail-smtp (one task per connection, one   *)
(* `to` per session), worker/worker.js email() (one invocation per         *)
(* recipient), and the sender on the other side, which keeps a recipient   *)
(* until it is told 250 or 550 and tries the others again.  The API's      *)
(* answer to a forwarded message is one of: stored, failed before the row  *)
(* was written, or failed after it (mail/inbound.rs, module Inbound).      *)
(* Where a recipient leads (Routing) is asked for RCPT TO and again for    *)
(* every forward, while administrators edit the tables.                    *)
(***************************************************************************)
EXTENDS Routing

CONSTANTS Recipients,   \* the envelope of the message
          Tables,       \* the tables of Routing in the beginning
          PerMails,     \* how many recipients senders name in one transaction
          Unwanteds,    \* for whom the API may refuse a message however often it comes
          MaxFaults,    \* faults of the network and the API in a behaviour
          MaxEdits,     \* edits of the tables
          None

ASSUME RecipientsAssumption == Recipients \subseteq Addresses /\ None \notin Recipients /\ Tables \subseteq TableKind
ASSUME UnwantedsAssumption == Unwanteds \subseteq SUBSET Recipients
ASSUME BoundAssumption == PerMails \subseteq Nat \ {0} /\ MaxFaults \in Nat /\ MaxEdits \in Nat

VARIABLES
  via,       \* smtp | worker: the way this message takes
  perMail,   \* recipients this sender names in one transaction
  marked,    \* the message has a header X-Aivory-Forwarded, which the worker reads
  unwanted,  \* whom it is refused for at every try: no mail at all, or a filter says Reject
  table,     \* the tables of Routing
  edits,
  phase,     \* the sender: idle | rcpt | wait
  asked,     \* recipients named in this transaction
  granted,   \* those of them that were answered 250
  to,        \* the session's `to`: the recipient the message is forwarded for
  calls,     \* forwards to the API under way: stored yet, still awaited
  pending,   \* recipients the sender has still to settle
  done,      \* those it was told are delivered
  bounced,   \* those it was told do not exist
  stored,    \* per recipient: how often its mailbox got the message
  unheard,   \* per recipient: forwards whose success nobody heard of
  faults

habits == <<via, perMail, marked, unwanted, table, edits>>
vars == <<habits, phase, asked, granted, to, calls, pending, done, bounced, stored,
          unheard, faults>>

Init == /\ via \in {"smtp", "worker"} /\ perMail \in PerMails
        /\ marked \in BOOLEAN /\ (marked => via = "worker") /\ unwanted \in Unwanteds
        /\ table \in Tables /\ edits = 0
        /\ phase = "idle" /\ asked = {} /\ granted = {} /\ to = None
        /\ calls = {}
        /\ pending = Recipients /\ done = {} /\ bounced = {}
        /\ stored = [r \in Recipients |-> 0]
        /\ unheard = [r \in Recipients |-> 0]
        /\ faults = 0

Fault == faults < MaxFaults /\ faults' = faults + 1

-----------------------------------------------------------------------------
(* The dialogue.  An operator whose comment starts with "Fault" is a slip  *)
(* seeded in place of the operator below it, to see that a property        *)
(* notices it.                                                             *)

\* MAIL FROM on a new connection, or on the one at hand: it keeps `to`.
Mail == /\ via = "smtp" /\ phase = "idle" /\ pending # {}
        /\ phase' = "rcpt" /\ asked' = {} /\ granted' = {}
        /\ to' \in {None, to}
        /\ UNCHANGED <<habits, calls, pending, done, bounced, stored, unheard, faults>>

\* recipient_accepted said yes: 250.
Grant(r) == /\ Accepted(table, r)
            /\ to' = r /\ granted' = granted \cup {r}
            /\ UNCHANGED <<pending, bounced, faults>>

\* No mailbox, or the API did not answer: 550, and the sender gives r up.
Deny(r) == /\ IF Accepted(table, r) THEN Fault ELSE UNCHANGED faults
           /\ to' = None
           /\ pending' = pending \ {r} /\ bounced' = bounced \cup {r}
           /\ UNCHANGED granted

Rcpt(r) == /\ phase = "rcpt" /\ r \in pending \ asked
           /\ Cardinality(asked) < perMail
           /\ asked' = asked \cup {r}
           /\ Grant(r) \/ Deny(r)
           /\ UNCHANGED <<habits, phase, calls, done, stored, unheard>>

\* At most one forward is awaited, and only a fault leaves one behind.
CallIds == 1..(MaxFaults + 1)

Call(r) == [id |-> CHOOSE n \in CallIds : \A c \in calls : c.id # n,
            to |-> r, stored |-> FALSE, awaited |-> TRUE]

\* The message itself: forward_raw for the session's `to`.
Data == /\ phase = "rcpt" /\ granted # {} /\ to # None
        /\ phase' = "wait"
        /\ calls' = calls \cup {Call(to)}
        /\ UNCHANGED <<habits, asked, granted, to, pending, done, bounced, stored, unheard, faults>>

\* 503: a refused RCPT cleared `to`; the sender tries again later.
DataRefused == /\ phase = "rcpt" /\ granted # {} /\ to = None
               /\ phase' = "idle"
               /\ UNCHANGED <<habits, asked, granted, to, calls, pending, done, bounced, stored,
                              unheard, faults>>

\* Nobody was accepted: QUIT.
Quit == /\ phase = "rcpt" /\ granted = {} /\ asked # {}
        /\ phase' = "idle"
        /\ UNCHANGED <<habits, asked, granted, to, calls, pending, done, bounced, stored,
                       unheard, faults>>

\* The worker takes the message for one that went round already.
Looped == via = "worker" /\ marked

\* Cloudflare runs email() for one recipient.
Invoke(r) == /\ via = "worker" /\ ~Looped /\ phase = "idle" /\ r \in pending
             /\ phase' = "wait" /\ asked' = {r} /\ granted' = {r}
             /\ calls' = calls \cup {Call(r)}
             /\ UNCHANGED <<habits, to, pending, done, bounced, stored, unheard, faults>>

\* ... which returns at once for a message that has the header: that is success.
Skip(r) == /\ Looped /\ phase = "idle" /\ r \in pending
           /\ pending' = pending \ {r} /\ done' = done \cup {r}
           /\ UNCHANGED <<habits, phase, asked, granted, to, calls, bounced, stored, unheard, faults>>

-----------------------------------------------------------------------------
(* The API and its answers.                                                *)

\* The API has no mailbox for r, cannot parse the message or a filter rejects it.
Refused(r) == Deliverable(table, r) = {} \/ r \in unwanted

\* handle_inbound_raw inserts a row, whether or not an earlier one has the message.
Store(c) == /\ c \in calls /\ ~c.stored /\ ~Refused(c.to)
            /\ calls' = (calls \ {c}) \cup {[c EXCEPT !.stored = TRUE]}
            /\ stored' = [stored EXCEPT ![c.to] = @ + 1]
            /\ UNCHANGED <<habits, phase, asked, granted, to, pending, done, bounced, unheard, faults>>

\* Fault: the webhook never answers the worker with success.
WorkerUnheard(c) == c.stored /\ via = "smtp"

\* "Only a stored message gets 250".
Acknowledges(c) == c.stored

\* Faults: a failed forward settles the recipients too; a stored one settles the
\* refused ones with them; nothing does.
SettledAnyway(ok) == granted
AskedToo(ok) == IF ok THEN asked ELSE {}
NoneSettled(ok) == {}

\* 250 settles every recipient of the transaction, 451 none.
Settled(ok) == IF ok THEN granted ELSE {}

Answer(c, ok) ==
  /\ c \in calls /\ c.awaited /\ phase = "wait"
  /\ calls' = calls \ {c}
  /\ phase' = "idle"
  /\ done' = done \cup Settled(ok)
  /\ pending' = pending \ Settled(ok)
  /\ unheard' = [unheard EXCEPT ![c.to] = @ + IF c.stored /\ ~ok THEN 1 ELSE 0]
  /\ UNCHANGED <<habits, asked, granted, to, bounced, stored>>

Accept(c) == Acknowledges(c) /\ Answer(c, TRUE) /\ UNCHANGED faults

\* A step failed, before the row was there or after.
TryLater(c) == Answer(c, FALSE) /\ Fault

\* The API refuses: 500, which the listener answers with 451, each time anew.
Refuse(c) == /\ via = "smtp" /\ ~c.stored /\ Refused(c.to)
             /\ Answer(c, FALSE) /\ UNCHANGED faults

\* Cloudflare gives up on a recipient the API refuses: email() throws every time.
Bounce(c) == /\ via = "worker" /\ c \in calls /\ c.awaited /\ ~c.stored /\ Refused(c.to)
             /\ calls' = calls \ {c} /\ phase' = "idle"
             /\ pending' = pending \ {c.to} /\ bounced' = bounced \cup {c.to}
             /\ UNCHANGED <<habits, asked, granted, to, done, stored, unheard, faults>>

\* The sender's connection breaks, or it stops waiting; the forward goes on.
Drop == /\ phase \in {"rcpt", "wait"} /\ Fault
        /\ phase' = "idle"
        /\ calls' = {[c EXCEPT !.awaited = FALSE] : c \in calls}
        /\ UNCHANGED <<habits, asked, granted, to, pending, done, bounced, stored, unheard>>

\* A forward nobody waits for ends, in whatever way.
End(c) == /\ c \in calls /\ ~c.awaited
          /\ calls' = calls \ {c}
          /\ unheard' = [unheard EXCEPT ![c.to] = @ + IF c.stored THEN 1 ELSE 0]
          /\ UNCHANGED <<habits, phase, asked, granted, to, pending, done, bounced, stored, faults>>

\* An administrator edits the tables.
Rewire == /\ edits < MaxEdits /\ edits' = edits + 1
          /\ table' \in Edits(table)
          /\ UNCHANGED <<via, perMail, marked, unwanted, phase, asked, granted, to, calls, pending, done, bounced,
                         stored, unheard, faults>>

Sender == Mail \/ (\E r \in Recipients : Rcpt(r) \/ Invoke(r) \/ Skip(r)) \/ Data \/ DataRefused \/ Quit

API == \E c \in calls : Store(c) \/ Accept(c) \/ Refuse(c) \/ Bounce(c)

Next == \/ Sender \/ API \/ Drop \/ Rewire
        \/ \E c \in calls : TryLater(c) \/ End(c)

Spec == Init /\ [][Next]_vars

\* The sender retries until every recipient is settled; the API gets round to
\* every forward.
LiveSpec == Spec /\ WF_vars(Sender) /\ WF_vars(API)

-----------------------------------------------------------------------------
(* Properties.                                                             *)

\* Every variable keeps to its range, and a recipient is in one place only.
TypeOK ==
  /\ via \in {"smtp", "worker"} /\ perMail \in PerMails /\ marked \in BOOLEAN /\ unwanted \in Unwanteds
  /\ phase \in {"idle", "rcpt", "wait"}
  /\ table \in TableKind /\ edits \in 0..MaxEdits
  /\ granted \subseteq asked /\ asked \subseteq Recipients
  /\ to \in Recipients \cup {None}
  /\ calls \subseteq [id : CallIds, to : Recipients, stored : BOOLEAN, awaited : BOOLEAN]
  /\ pending \cup done \cup bounced = Recipients
  /\ pending \cap done = {} /\ pending \cap bounced = {} /\ done \cap bounced = {}
  /\ stored \in [Recipients -> Nat] /\ unheard \in [Recipients -> Nat]
  /\ faults \in 0..MaxFaults

\* smtp/src/main.rs:47 - "Only a stored message gets 250: on any failure the sender is
\* told to retry later rather than being acknowledged for mail that was never kept".
KeptIfAcknowledged == via = "smtp" => \A r \in done : stored[r] > 0

\* The same of a sender that names its recipients one at a time, and of the worker
\* (worker.js:66, "never silently drop"): an answer is for the transaction it ends and
\* no other, whatever was retried, lost or refused before.  The worker drops a message
\* with a header X-Aivory-Forwarded, whoever wrote it: that one no mailbox ever gets.
KeptIfAlone == perMail = 1 => \A r \in done : IF Looped THEN stored[r] = 0 ELSE stored[r] > 0

InFlight(r) == {c \in calls : c.to = r /\ c.stored}

\* A mailbox gets the message again only when an earlier success was not heard of.
DuplicatesWereUnheard ==
  \A r \in Recipients : stored[r] <= 1 + unheard[r] + Cardinality({c \in InFlight(r) : ~c.awaited})

\* A recipient that is accepted for RCPT TO and refused for the delivery, each time.
Stuck(r) == via = "smtp" /\ Accepted(table, r) /\ Refused(r)

\* Once the faults and edits are over the sender is rid of every recipient, whatever
\* mixture of known and unknown ones it names and wherever they have come to lead -
\* unless one of them is left that RCPT TO accepts and the delivery refuses: only a rule
\* for its domain accepts it, which mail/routing.rs answers without a mailbox, a filter
\* rejects the message or nobody can parse it.  The 451 it is answered has it come again.
Settles == <>(pending = {} \/ \E r \in pending : Stuck(r))
=============================================================================
