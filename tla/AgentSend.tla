----------------------------- MODULE AgentSend -----------------------------
(***************************************************************************)
(* How an AI agent sends mail over MCP: capabilities (mcp_capabilities.rs),*)
(* one-time send confirmations (mcp_confirmations.rs), the send and reply  *)
(* tools of both MCP modes (mcp.rs, mcp_reply.rs) and the daily budget     *)
(* (send_guard.rs).  Several calls run at once, each statement is a step,  *)
(* connections break, statements fail, mailboxes are deleted, capabilities *)
(* are revoked and expire, and conversations go on meanwhile; people send  *)
(* from the same mailboxes and move what is in Sent.                       *)
(***************************************************************************)
EXTENDS Naturals, FiniteSets, Sequences

CONSTANTS Calls,       \* tools/call requests
          Grants,      \* capabilities
          Extra,       \* confirmations an admin issues over REST
          Boxes,
          Callers,     \* caller_id of a capability
          Payloads,
          Limits,      \* AGENT_DAILY_SEND_LIMIT; 0 is no limit
          DayLength,   \* of a UTC day, in ticks
          Life,        \* lifetimes of capabilities and confirmations, in ticks
          Window,      \* WINDOW_MINUTES, in ticks
          SubjectOf,   \* the subject of each payload
          LookBack,    \* how many rows of a subject the look for a repeat reads: LIMIT 10
          MaxRows,     \* messages of all mailboxes past which people send nothing
          MaxMoves,    \* messages that are not where they were filed
          MaxClock,
          None

ASSUME TimeAssumption ==
  /\ DayLength \in Nat \ {0} /\ Window \in Nat /\ MaxClock \in Nat
  /\ Life \subseteq Nat \ {0}
ASSUME LimitsAssumption == Limits \subseteq Nat
ASSUME LookBackAssumption == LookBack \in Nat \ {0} /\ MaxRows \in Nat /\ MaxMoves \in Nat
ASSUME NoneAssumption == None \notin Calls \cup Extra \cup Grants \cup Nat
ASSUME IdAssumption == IsFiniteSet(Calls) /\ Calls \cap Extra = {}

Times == 0..MaxClock

\* A confirmation is named after the call, or the admin's request, that issued it.
ConfIds == Calls \cup Extra

VARIABLES
  mode,      \* v2: capabilities and confirmations | v1: trusted services
  limit, enabled,   \* the server's settings
  clock, alive,
  grants,    \* mcp_capability_grants
  confs,     \* mcp_send_confirmations
  counts,    \* agent_send_counts: per mailbox and day
  pc,        \* per call: the step it is at
  call,      \* per call: [tool, box, caller, conf, payload], None before it began
  before,    \* per call: what was so when it began - [moved, rows]
  day,       \* per call: the day its send is counted on
  unread,    \* legacy calls whose look for an earlier send failed
  handed,    \* per call: when its mail went to the transports
  rows,      \* per mailbox: its messages, oldest first - [payload, at, place]
  moved      \* mailboxes whose conversation has a newer message

settings == <<mode, limit, enabled>>
tables == <<grants, confs, counts>>
sends == <<handed, rows, moved>>
vars == <<settings, clock, alive, tables, pc, call, before, day, unread, sends>>

Init == /\ mode \in {"v1", "v2"} /\ limit \in Limits /\ enabled \in BOOLEAN
        /\ clock = 0 /\ alive = Boxes
        /\ grants = [g \in Grants |-> None]
        /\ confs = [k \in ConfIds |-> None]
        /\ counts = [b \in Boxes |-> [d \in Times |-> 0]]
        /\ pc = [c \in Calls |-> "new"]
        /\ call = [c \in Calls |-> None]
        /\ before = [c \in Calls |-> None]
        /\ day = [c \in Calls |-> None]
        /\ unread = {}
        /\ handed = [c \in Calls |-> None]
        /\ rows = [b \in Boxes |-> <<>>]
        /\ moved = {}

Goto(c, step) == pc' = [pc EXCEPT ![c] = step]

\* The call is over, and nothing but its step changes: refused, or a statement
\* of it failed, or its connection is gone.
Stop(c) == /\ Goto(c, "end")
           /\ UNCHANGED <<settings, clock, alive, tables, call, before, day, unread, sends>>

-----------------------------------------------------------------------------
(* Capabilities.  An operator whose comment starts with "Fault" is a slip  *)
(* seeded in place of the operator below it, to see that a property        *)
(* notices it.                                                             *)

\* An admin's or an owner's grant: both name a mailbox that exists.
Issue(g, b, who, life) ==
  /\ mode = "v2" /\ grants[g] = None /\ b \in alive
  /\ grants' = [grants EXCEPT ![g] = [box |-> b, caller |-> who, revoked |-> FALSE,
                                      expires |-> clock + life]]
  /\ UNCHANGED <<settings, clock, alive, confs, counts, pc, call, before, day, unread, sends>>

Revoke(g) ==
  /\ grants[g] # None
  /\ grants' = [grants EXCEPT ![g].revoked = TRUE]
  /\ UNCHANGED <<settings, clock, alive, confs, counts, pc, call, before, day, unread, sends>>

Live(g) == /\ grants[g] # None /\ ~grants[g].revoked /\ clock < grants[g].expires
           /\ grants[g].box \in alive

\* What is so when a call comes in.
Now(b) == [moved |-> b \in moved, rows |-> Len(rows[b])]

Begin(c, request, step) ==
  /\ pc[c] = "new"
  /\ call' = [call EXCEPT ![c] = request]
  /\ before' = [before EXCEPT ![c] = Now(request.box)]
  /\ Goto(c, step)
  /\ UNCHANGED <<settings, clock, alive, tables, day, unread, sends>>

\* Once authorized, the mailbox and the caller are those of the capability to the
\* end; `conf` is None when the agent asks for a confirmation or a preview.
Authorized(c, g, tool, k, p) ==
  /\ mode = "v2" /\ Live(g)
  /\ k # None => confs[k] # None
  /\ Begin(c, [tool |-> tool, box |-> grants[g].box, caller |-> grants[g].caller,
               conf |-> k, payload |-> p],
           IF tool = "reply" THEN "thread" ELSE "ready")

\* Mode v1: a service that has the secret names the mailbox itself; a payload is
\* the To recipients and a subject that is not blank (a blank one is never compared).
Trusted(c, b, p) ==
  /\ mode = "v1" /\ b \in alive
  /\ Begin(c, [tool |-> "legacy", box |-> b, caller |-> None, conf |-> None, payload |-> p],
           "dedup")

Box(c) == call[c].box

-----------------------------------------------------------------------------
(* The checks and the confirmation.                                        *)

\* Fault: the conversation is looked at for the preview only.
PreviewOnly(c) == call[c].conf = None => Box(c) \notin moved

\* newer_message_in_thread: for the preview and again for the send.
IsNewest(c) == Box(c) \notin moved

CheckThread(c) ==
  /\ pc[c] = "thread" /\ enabled /\ IsNewest(c)
  /\ Goto(c, "ready")
  /\ UNCHANGED <<settings, clock, alive, tables, call, before, day, unread, sends>>

\* Fault: a confirmation that names no caller.
Anonymous(b, who, p, life) ==
  [box |-> b, caller |-> None, payload |-> p, expires |-> clock + life, used |-> None]

Confirmation(b, who, p, life) ==
  [box |-> b, caller |-> who, payload |-> p, expires |-> clock + life, used |-> None]

\* issue_send_confirmation for the caller's own mailbox.
Confirm(c) ==
  /\ pc[c] = "ready" /\ call[c].conf = None /\ Box(c) \in alive
  /\ \E life \in Life :
       confs' = [confs EXCEPT ![c] =
                   Confirmation(Box(c), call[c].caller, call[c].payload, life)]
  /\ Goto(c, "end")
  /\ UNCHANGED <<settings, clock, alive, grants, counts, call, before, day, unread, sends>>

\* POST /v1/agent-access/send-confirmations.
AdminConfirms(k, b, who, p, life) ==
  /\ mode = "v2" /\ confs[k] = None /\ b \in alive
  /\ confs' = [confs EXCEPT ![k] = Confirmation(b, who, p, life)]
  /\ UNCHANGED <<settings, clock, alive, grants, counts, pc, call, before, day, unread, sends>>

Unspent(k) == confs[k].used = None /\ clock < confs[k].expires

\* Fault: the row is not asked whether it is spent.
NotExpired(k, c) == /\ clock < confs[k].expires
                    /\ confs[k].box = Box(c) /\ confs[k].caller = call[c].caller
                    /\ confs[k].payload = call[c].payload

\* The WHERE of consume_send_confirmation.
Matches(k, c) == /\ Unspent(k)
                 /\ confs[k].box = Box(c) /\ confs[k].caller = call[c].caller
                 /\ confs[k].payload = call[c].payload

\* One UPDATE: the row goes with its mailbox.
Consume(c) ==
  /\ pc[c] = "ready"
  /\ LET k == call[c].conf
     IN /\ k # None
        /\ Box(c) \in alive /\ Matches(k, c)
        /\ confs' = [confs EXCEPT ![k].used = clock]
  /\ Goto(c, "spent")
  /\ UNCHANGED <<settings, clock, alive, grants, counts, call, before, day, unread, sends>>

\* The rows of Sent the query is about: those of the subject, in the window, that are
\* in Sent as it looks.
Candidates(c) ==
  {i \in DOMAIN rows[Box(c)] :
     LET row == rows[Box(c)][i]
     IN /\ row.place # "away" /\ clock < row.at + Window
        /\ SubjectOf[row.payload] = SubjectOf[call[c].payload]}

\* Fault: those it returns are the oldest.
Oldest(c) == {i \in Candidates(c) : Cardinality({j \in Candidates(c) : j < i}) < LookBack}

\* ... and those it returns, the newest.
Returned(c) == {i \in Candidates(c) : Cardinality({j \in Candidates(c) : j > i}) < LookBack}

\* recent_identical_send, of mode v1 only.
NoRepeat(c) == \A i \in Returned(c) : rows[Box(c)][i].payload # call[c].payload

\* A statement that fails counts as nothing found.
Dedup(c) ==
  /\ pc[c] = "dedup"
  /\ \/ NoRepeat(c) /\ UNCHANGED unread
     \/ unread' = unread \cup {c}
  /\ Goto(c, "spent")
  /\ UNCHANGED <<settings, clock, alive, tables, call, before, day, sends>>

-----------------------------------------------------------------------------
(* The budget and the send.                                                *)

\* reserve_agent_send: the day is read first ...
ReadDay(c) ==
  /\ pc[c] = "spent" /\ enabled
  /\ day' = [day EXCEPT ![c] = clock \div DayLength]
  /\ Goto(c, IF limit = 0 THEN "send" ELSE "count")
  /\ UNCHANGED <<settings, clock, alive, tables, call, before, unread, sends>>

\* Fault: one more than the limit.
AtMostLimit(n) == n <= limit

BelowLimit(n) == n < limit

\* ... then one upsert counts and refuses: INSERT ... ON CONFLICT DO UPDATE ...
\* WHERE count < limit.
Count(c) ==
  /\ pc[c] = "count" /\ BelowLimit(counts[Box(c)][day[c]])
  /\ counts' = [counts EXCEPT ![Box(c)][day[c]] = @ + 1]
  /\ Goto(c, "send")
  /\ UNCHANGED <<settings, clock, alive, grants, confs, call, before, day, unread, sends>>

\* send_email (module Outbound) reaches the transports.
HandOver(c) ==
  /\ pc[c] = "send" /\ Box(c) \in alive
  /\ handed' = [handed EXCEPT ![c] = clock]
  /\ Goto(c, "sent")
  /\ UNCHANGED <<settings, clock, alive, tables, call, before, day, unread, rows, moved>>

\* A new row is in Sent, or in another folder; "back" is one that was elsewhere and is
\* in Sent now.
Filed(b, p, place) ==
  rows' = [rows EXCEPT ![b] = Append(@, [payload |-> p, at |-> clock, place |-> place])]

\* The Sent row, which is the newest message of its conversation.
File(c) ==
  /\ pc[c] = "sent"
  /\ Filed(Box(c), call[c].payload, "sent")
  /\ moved' = IF call[c].tool = "reply" THEN moved \cup {Box(c)} ELSE moved
  /\ Goto(c, "end")
  /\ UNCHANGED <<settings, clock, alive, tables, call, before, day, unread, handed>>

\* Fault: a call that ends after it spent its confirmation gives it back.
GivesBack(c) ==
  /\ pc[c] \in {"spent", "count", "send", "sent"} /\ call[c].conf # None
  /\ confs[call[c].conf] # None
  /\ confs' = [confs EXCEPT ![call[c].conf].used = None]
  /\ Goto(c, "end")
  /\ UNCHANGED <<settings, clock, alive, grants, counts, call, before, day, unread, sends>>

\* Refused by a check or by the budget, a failed statement or transport, a
\* connection that is gone or a process that died: a call can end at any step.
End(c) == pc[c] \notin {"new", "end"} /\ Stop(c)

-----------------------------------------------------------------------------
(* What happens around the calls.                                          *)

\* A message arrives, or a person answers (mode v2, which looks at it).
Arrives(b) ==
  /\ mode = "v2" /\ b \in alive /\ moved' = moved \cup {b}
  /\ UNCHANGED <<settings, clock, alive, tables, pc, call, before, day, unread, handed, rows>>

\* The messages of all mailboxes.
Rows == UNION {{<<b, i>> : i \in DOMAIN rows[b]} : b \in Boxes}

\* Somebody at the webmail sends what may be the same, or such a message arrives (mode
\* v1, which looks at it).
PersonSends(b, p, place) ==
  /\ mode = "v1" /\ b \in alive /\ Cardinality(Rows) < MaxRows
  /\ Filed(b, p, place)
  /\ UNCHANGED <<settings, clock, alive, tables, pc, call, before, day, unread, handed, moved>>

\* ... moves a message out of Sent, and back, or into it.
Refile(b, i) ==
  /\ mode = "v1" /\ b \in alive
  /\ Cardinality({x \in Rows \ {<<b, i>>} : rows[x[1]][x[2]].place # "sent"}) < MaxMoves
  /\ rows' = [rows EXCEPT ![b][i].place = IF @ = "away" THEN "back" ELSE "away"]
  /\ UNCHANGED <<settings, clock, alive, tables, pc, call, before, day, unread, handed, moved>>

\* Its capabilities and confirmations go with a mailbox.
DeleteMailbox(b) ==
  /\ b \in alive /\ alive' = alive \ {b}
  /\ UNCHANGED <<settings, clock, tables, pc, call, before, day, unread, sends>>

Tick == /\ clock < MaxClock /\ clock' = clock + 1
        /\ UNCHANGED <<settings, alive, tables, pc, call, before, day, unread, sends>>

Step(c) == \/ CheckThread(c) \/ Confirm(c) \/ Consume(c) \/ Dedup(c)
           \/ ReadDay(c) \/ Count(c) \/ HandOver(c) \/ File(c) \/ End(c)

Next ==
  \/ \E c \in Calls : Step(c)
  \/ \E c \in Calls, g \in Grants, tool \in {"send", "reply"}, k \in ConfIds \cup {None},
        p \in Payloads : Authorized(c, g, tool, k, p)
  \/ \E c \in Calls, b \in Boxes, p \in Payloads : Trusted(c, b, p)
  \/ \E g \in Grants, b \in Boxes, who \in Callers, life \in Life : Issue(g, b, who, life)
  \/ \E g \in Grants : Revoke(g)
  \/ \E k \in Extra, b \in Boxes, who \in Callers, p \in Payloads, life \in Life :
       AdminConfirms(k, b, who, p, life)
  \/ \E b \in Boxes : Arrives(b) \/ DeleteMailbox(b)
  \/ \E b \in Boxes, p \in Payloads, place \in {"sent", "away"} : PersonSends(b, p, place)
  \/ \E b \in Boxes : \E i \in DOMAIN rows[b] : Refile(b, i)
  \/ Tick

Spec == Init /\ [][Next]_vars

-----------------------------------------------------------------------------
(* Properties.                                                             *)

Steps == {"new", "thread", "ready", "dedup", "spent", "count", "send", "sent", "end"}

GrantRows == [box : Boxes, caller : Callers, revoked : BOOLEAN, expires : Nat]

ConfRows == [box : Boxes, caller : Callers, payload : Payloads, expires : Nat,
             used : Times \cup {None}]

ASSUME RowAssumption == None \notin ConfRows

Requests == [tool : {"send", "reply", "legacy"}, box : Boxes, caller : Callers \cup {None},
             conf : ConfIds \cup {None}, payload : Payloads]

SentRows == [payload : Payloads, at : Times, place : {"sent", "away", "back"}]

\* Every variable keeps its shape; a call past "new" has a request.
TypeOK ==
  /\ mode \in {"v1", "v2"} /\ limit \in Limits /\ enabled \in BOOLEAN
  /\ clock \in Times /\ alive \subseteq Boxes /\ moved \subseteq Boxes
  /\ grants \in [Grants -> GrantRows \cup {None}]
  /\ confs \in [ConfIds -> ConfRows \cup {None}]
  /\ counts \in [Boxes -> [Times -> Nat]]
  /\ pc \in [Calls -> Steps]
  /\ call \in [Calls -> Requests \cup {None}]
  /\ \A c \in Calls : pc[c] # "new" => call[c] \in Requests
  /\ before \in [Calls -> [moved : BOOLEAN, rows : Nat] \cup {None}]
  /\ day \in [Calls -> Times \cup {None}]
  /\ unread \subseteq Calls
  /\ handed \in [Calls -> Times \cup {None}]
  /\ rows \in [Boxes -> Seq(SentRows)]

Out == {c \in Calls : handed[c] # None}

Confirmed(c) == call[c].conf # None

\* A confirmation is good for one mail, however many calls present it at once, fail
\* after spending it, or are retried because their outcome is unknown.
OneSendPerConfirmation ==
  \A c, d \in Out : Confirmed(c) /\ Confirmed(d) /\ call[c].conf = call[d].conf => c = d

\* With capabilities, every mail that goes out is, to the mailbox, the caller and the
\* content, one that was confirmed, and was confirmed in time.
SentAsConfirmed ==
  \A c \in Out : mode = "v2" =>
    /\ Confirmed(c)
    /\ LET k == confs[call[c].conf]
       IN /\ k.box = Box(c) /\ k.caller = call[c].caller /\ k.payload = call[c].payload
          /\ k.used # None /\ k.used < k.expires

\* What an agent gets out was confirmed, in time, for this very mail, and once
\* (mcp_confirmations.rs, consume_send_confirmation).
ConfirmedOnce == OneSendPerConfirmation /\ SentAsConfirmed

SentOn(b, d) == {c \in Out : Box(c) = b /\ day[c] = d}

\* Agents of all kinds together never get more mail out for a mailbox and a day than
\* the limit, and the counter never forgets one whose outcome is unknown.
WithinBudget ==
  limit > 0 => \A b \in Boxes, d \in Times :
    Cardinality(SentOn(b, d)) <= counts[b][d] /\ counts[b][d] <= limit

\* A reply is not sent when its conversation had moved on before the confirmed call
\* came in - another agent's or a person's answer included.
NoStaleReply == \A c \in Out : call[c].tool = "reply" => ~before[c].moved

\* The rows of a subject that are newer than row i, in Sent or not.
Newer(b, i) ==
  {j \in DOMAIN rows[b] : j > i /\ SubjectOf[rows[b][j].payload] = SubjectOf[rows[b][i].payload]}

\* In mode v1 a mail that was in Sent when a call came in is not sent again within the
\* window, whoever sent it - unless the look for it failed, or could not find it: it was
\* taken out of Sent meanwhile, or there are LookBack newer mails of its subject.
NoBlindRepeat ==
  \A c \in Out : call[c].tool = "legacy" /\ c \notin unread =>
    \A i \in 1..before[c].rows :
      LET row == rows[Box(c)][i]
      IN row.payload = call[c].payload /\ row.place = "sent" /\ Cardinality(Newer(Box(c), i)) < LookBack
           => handed[c] >= row.at + Window

\* What a confirmation has come to (OneTime), seen through its row and the sends.
StateOf(k) == CASE confs[k] = None -> "none"
                [] confs[k] # None /\ confs[k].used = None -> "open"
                [] OTHER -> IF \E c \in Out : call[c].conf = k THEN "sent" ELSE "spent"

Ticket == INSTANCE OneTime WITH Tickets <- ConfIds, state <- [k \in ConfIds |-> StateOf(k)]

\* A confirmation is a one-time ticket: issued, spent and sent in that order and
\* once each, whatever happens to its call in between.
KeepsOneTime == Ticket!Spec
=============================================================================
