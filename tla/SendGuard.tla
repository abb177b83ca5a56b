----------------------------- MODULE SendGuard -----------------------------
(***************************************************************************)
(* POST /v1/send (and the thread reply endpoint) with an Idempotency-Key:  *)
(* api/send.rs (send_email, send_once) and mail/send_guard.rs (claim_send, *)
(* decide_existing, finish_send) over the table send_attempts.             *)
(*                                                                         *)
(* Requests run concurrently, one statement at a time; the mail itself is  *)
(* sent by a detached task, so a client that goes away loses its answer    *)
(* and not the send.  The process may die at any point and come back with  *)
(* the rows it had written.  The mail pipeline (mail/outbound.rs) is one   *)
(* hand-over to the transports and an outcome here; Outbound has its steps.*)
(*                                                                         *)
(* An operator whose comment starts with "Fault" is a slip seeded in place *)
(* of the operator below it, to see that a property notices it.            *)
(***************************************************************************)
EXTENDS Naturals

CONSTANTS Requests,   \* HTTP requests that may arrive, each at most once
          Callers,    \* authenticated users
          Keys,       \* well-formed Idempotency-Keys
          Payloads,   \* request fingerprints
          NoKey,      \* the header is absent or blank
          BadKey,     \* the header is malformed
          None,       \* SQL NULL; also "no message id"
          Lease,      \* SEND_LEASE_SECONDS
          MaxClock    \* bound on the clock

ASSUME LeaseAssumption == Lease \in Nat /\ MaxClock \in Nat
ASSUME KeyAssumption == NoKey \notin Keys /\ BadKey \notin Keys /\ NoKey # BadKey
ASSUME NoneAssumption == None \notin Requests /\ None \notin Payloads

VARIABLES
  row,       \* send_attempts, one row (or its absence) per attempt id
  ask,       \* what each request asks: caller, key, payload
  pc,        \* where the request handler is
  now,       \* the time claim_send read before its first statement
  task,      \* where the detached task of the request is
  result,    \* what outbound::send_email returned in that task
  ans,       \* the answer the client got
  out,       \* requests whose message was handed to the transports
  filed,     \* requests whose Sent row was stored
  clock

vars == <<row, ask, pc, now, task, result, ans, out, filed, clock>>

\* Fault: the id is hashed from the key alone.
KeyOnly(caller, key) == <<key>>

\* sha256(caller \0 key): distinct pairs have distinct ids.
AttemptId(caller, key) == <<caller, key>>

Attempts == {AttemptId(c, k) : c \in Callers, k \in Keys}

Asks == [caller : Callers, key : Keys \cup {NoKey, BadKey}, payload : Payloads]

Keyed(r) == ask[r].key \in Keys

AttemptOf(r) == AttemptId(ask[r].caller, ask[r].key)

Rows == [status  : {"absent", "pending", "sent", "failed"},
         hash    : Payloads \cup {None},
         message : Requests \cup {None},
         updated : 0..MaxClock]

NoRow == [status |-> "absent", hash |-> None, message |-> None, updated |-> 0]

InHandler == {"insert", "select", "reclaim", "claimed", "await"}

Handler == {"new", "answered", "dropped"} \cup InHandler

Running == {"running", "handed_over", "finishing"}

Tasks == {"none", "done", "unrecorded", "lost"} \cup Running

Answers == [kind : {"none", "refused", "bad_key", "error", "conflict", "in_progress",
                    "outcome_unknown", "failed", "sent", "replay"},
            message : Requests \cup {None}]

Init == /\ row = [a \in Attempts |-> NoRow]
        /\ ask \in [Requests -> Asks]
        /\ pc = [r \in Requests |-> "new"]
        /\ now = [r \in Requests |-> 0]
        /\ task = [r \in Requests |-> "none"]
        /\ result = [r \in Requests |-> "none"]
        /\ ans = [r \in Requests |-> [kind |-> "none", message |-> None]]
        /\ out = {}
        /\ filed = {}
        /\ clock = 0

-----------------------------------------------------------------------------
(* The handler.                                                            *)

Answer(r, kind, message) ==
  /\ pc' = [pc EXCEPT ![r] = "answered"]
  /\ ans' = [ans EXCEPT ![r] = [kind |-> kind, message |-> message]]

\* send_email refuses an unparsable or invalid payload, and a `from` the caller
\* may not use, before the key is looked at.
Refuse(r) == /\ pc[r] = "new"
             /\ Answer(r, "refused", None)
             /\ UNCHANGED <<row, ask, now, task, result, out, filed, clock>>

RejectKey(r) == /\ pc[r] = "new"
                /\ ask[r].key = BadKey
                /\ Answer(r, "bad_key", None)
                /\ UNCHANGED <<row, ask, now, task, result, out, filed, clock>>

\* No key: straight to the task.  A key: claim_send, which reads the clock once.
Start(r) == /\ pc[r] = "new"
            /\ ask[r].key # BadKey
            /\ pc' = [pc EXCEPT ![r] = IF Keyed(r) THEN "insert" ELSE "claimed"]
            /\ now' = [now EXCEPT ![r] = clock]
            /\ UNCHANGED <<row, ask, task, result, ans, out, filed, clock>>

\* INSERT ... ON CONFLICT (id) DO NOTHING
Insert(r) ==
  /\ pc[r] = "insert"
  /\ \/ /\ row[AttemptOf(r)].status = "absent"
        /\ row' = [row EXCEPT ![AttemptOf(r)] =
                     [status |-> "pending", hash |-> ask[r].payload,
                      message |-> None, updated |-> now[r]]]
        /\ pc' = [pc EXCEPT ![r] = "claimed"]
     \/ /\ row[AttemptOf(r)].status # "absent"
        /\ pc' = [pc EXCEPT ![r] = "select"]
        /\ UNCHANGED row
  /\ UNCHANGED <<ask, now, task, result, ans, out, filed, clock>>

SameContent(hash, payload) == hash = payload

\* Fault: one tick early.
ExpiredEarly(updated, at, lease) == at >= updated + lease

Expired(updated, at, lease) == at > updated + lease

\* decide_existing: what the row that won means for this request.
Decide(stored, payload, at) ==
  IF ~SameContent(stored.hash, payload) THEN "conflict"
  ELSE CASE stored.status = "sent" /\ stored.message # None -> "replay"
         [] stored.status = "failed" -> "take_over"
         [] OTHER -> IF Expired(stored.updated, at, Lease)
                     THEN "outcome_unknown" ELSE "in_progress"

\* SELECT ... WHERE id, then the decision on that snapshot.
Select(r) ==
  /\ pc[r] = "select"
  /\ LET stored == row[AttemptOf(r)]
         verdict == Decide(stored, ask[r].payload, now[r])
     IN \/ /\ verdict = "take_over"
           /\ pc' = [pc EXCEPT ![r] = "reclaim"]
           /\ UNCHANGED ans
        \/ /\ verdict # "take_over"
           /\ Answer(r, verdict, IF verdict = "replay" THEN stored.message ELSE None)
  /\ UNCHANGED <<row, ask, now, task, result, out, filed, clock>>

\* Fault: the UPDATE without its AND status='failed'.
ReclaimAny(status) == TRUE

Reclaimable(status) == status = "failed"

\* UPDATE ... SET status='pending' WHERE id AND status='failed'
Reclaim(r) ==
  /\ pc[r] = "reclaim"
  /\ \/ /\ Reclaimable(row[AttemptOf(r)].status)
        /\ row' = [row EXCEPT ![AttemptOf(r)].status = "pending",
                              ![AttemptOf(r)].updated = now[r]]
        /\ pc' = [pc EXCEPT ![r] = "claimed"]
        /\ UNCHANGED ans
     \/ /\ ~Reclaimable(row[AttemptOf(r)].status)
        /\ Answer(r, "in_progress", None)
        /\ UNCHANGED row
  /\ UNCHANGED <<ask, now, task, result, out, filed, clock>>

\* A statement of claim_send failed, or its reply was lost after it took effect.
ClaimError(r) == /\ Keyed(r)
                 /\ pc[r] \in {"insert", "select", "reclaim", "claimed"}
                 /\ Answer(r, "error", None)
                 /\ UNCHANGED <<row, ask, now, task, result, out, filed, clock>>

Spawn(r) == /\ pc[r] = "claimed"
            /\ pc' = [pc EXCEPT ![r] = "await"]
            /\ task' = [task EXCEPT ![r] = "running"]
            /\ UNCHANGED <<row, ask, now, result, ans, out, filed, clock>>

\* Fault: the handler misses a task whose UPDATE failed.
EndedRecorded(t) == t \in {"done", "lost"}

Ended(t) == t \in {"done", "unrecorded", "lost"}

\* handle.await: the task ended, or died under it (a JoinError).
Report(r) ==
  /\ pc[r] = "await"
  /\ Ended(task[r])
  /\ CASE task[r] = "lost" -> Answer(r, "error", None)
       [] result[r] = "ok" -> Answer(r, "sent", r)
       [] OTHER -> Answer(r, "failed", None)
  /\ UNCHANGED <<row, ask, now, task, result, out, filed, clock>>

\* The client goes away: axum drops the handler's future at its current await.
Disconnect(r) == /\ pc[r] \in InHandler
                 /\ pc' = [pc EXCEPT ![r] = "dropped"]
                 /\ UNCHANGED <<row, ask, now, task, result, ans, out, filed, clock>>

-----------------------------------------------------------------------------
(* The detached task: outbound::send_email, then finish_send.              *)

\* Everything send_email checks and resolves before a transport is contacted.
FailEarly(r) == /\ task[r] = "running"
                /\ task' = [task EXCEPT ![r] = "finishing"]
                /\ result' = [result EXCEPT ![r] = "err"]
                /\ UNCHANGED <<row, ask, pc, now, ans, out, filed, clock>>

\* From here on the message may be with its recipient.
HandOver(r) == /\ task[r] = "running"
               /\ task' = [task EXCEPT ![r] = "handed_over"]
               /\ out' = out \cup {r}
               /\ UNCHANGED <<row, ask, pc, now, result, ans, filed, clock>>

\* The transports and everything after them: every hop fails (one may have
\* delivered first), the Sent row is not stored, it is stored and an
\* attachment is not, or all is well.
SendReturns(r) ==
  /\ task[r] = "handed_over"
  /\ task' = [task EXCEPT ![r] = "finishing"]
  /\ \/ result' = [result EXCEPT ![r] = "err"] /\ UNCHANGED filed
     \/ result' = [result EXCEPT ![r] = "err"] /\ filed' = filed \cup {r}
     \/ result' = [result EXCEPT ![r] = "ok"] /\ filed' = filed \cup {r}
  /\ UNCHANGED <<row, ask, pc, now, ans, out, clock>>

\* Faults: the result itself is written; every send is written as a failure.
RawStatus(res) == res
AllFailed(res) == "failed"

OutcomeStatus(res) == IF res = "ok" THEN "sent" ELSE "failed"

\* UPDATE send_attempts SET status, message_id, updated_at WHERE id; a task
\* without a key has nothing to record.
Finish(r) ==
  /\ task[r] = "finishing"
  /\ task' = [task EXCEPT ![r] = "done"]
  /\ row' = IF Keyed(r)
            THEN [row EXCEPT
                    ![AttemptOf(r)].status = OutcomeStatus(result[r]),
                    ![AttemptOf(r)].message = IF result[r] = "ok" THEN r ELSE None,
                    ![AttemptOf(r)].updated = clock]
            ELSE row
  /\ UNCHANGED <<ask, pc, now, result, ans, out, filed, clock>>

\* The UPDATE fails: logged, and the send's own result is still reported.
FinishFails(r) == /\ task[r] = "finishing"
                  /\ Keyed(r)
                  /\ task' = [task EXCEPT ![r] = "unrecorded"]
                  /\ UNCHANGED <<row, ask, pc, now, result, ans, out, filed, clock>>

TaskPanics(r) == /\ task[r] \in Running
                 /\ task' = [task EXCEPT ![r] = "lost"]
                 /\ UNCHANGED <<row, ask, pc, now, result, ans, out, filed, clock>>

-----------------------------------------------------------------------------
(* The process and its clock.                                              *)

Crash == /\ \E r \in Requests : pc[r] \in InHandler \/ task[r] \in Running
         /\ pc' = [r \in Requests |-> IF pc[r] \in InHandler THEN "dropped" ELSE pc[r]]
         /\ task' = [r \in Requests |-> IF task[r] \in Running THEN "lost" ELSE task[r]]
         /\ UNCHANGED <<row, ask, now, result, ans, out, filed, clock>>

Tick == /\ clock < MaxClock
        /\ clock' = clock + 1
        /\ UNCHANGED <<row, ask, pc, now, task, result, ans, out, filed>>

\* Steps the code takes by itself once a request is in.
HandlerStep(r) == Insert(r) \/ Select(r) \/ Reclaim(r) \/ Spawn(r) \/ Report(r)

TaskStep(r) == FailEarly(r) \/ HandOver(r) \/ Finish(r)

Next == \/ \E r \in Requests :
             \/ Refuse(r) \/ RejectKey(r) \/ Start(r)
             \/ HandlerStep(r) \/ ClaimError(r) \/ Disconnect(r)
             \/ TaskStep(r) \/ SendReturns(r) \/ FinishFails(r) \/ TaskPanics(r)
        \/ Crash
        \/ Tick

Spec == Init /\ [][Next]_vars

\* The scheduler runs every handler and task that can go on.  Nothing bounds
\* the transports: SendReturns gets no fairness.
FairSpec == Spec /\ \A r \in Requests : WF_vars(HandlerStep(r)) /\ WF_vars(TaskStep(r))

-----------------------------------------------------------------------------
(* Properties.                                                             *)

\* Every variable keeps its shape: in particular a row only ever holds one of
\* the three statuses send_guard writes.
TypeOK == /\ row \in [Attempts -> Rows]
          /\ ask \in [Requests -> Asks]
          /\ pc \in [Requests -> Handler]
          /\ now \in [Requests -> 0..MaxClock]
          /\ task \in [Requests -> Tasks]
          /\ result \in [Requests -> {"none", "ok", "err"}]
          /\ ans \in [Requests -> Answers]
          /\ out \subseteq Requests
          /\ filed \subseteq Requests
          /\ clock \in 0..MaxClock

\* A request owns its attempt from the statement that claimed it until
\* finish_send, or until it is lost.
Owns(r) == Keyed(r) /\ (pc[r] = "claimed" \/ task[r] \in Running)

Owned(a) == \E r \in Requests : Owns(r) /\ AttemptOf(r) = a

SameAttempt(r, s) == Keyed(r) /\ Keyed(s) /\ AttemptOf(r) = AttemptOf(s)

\* Of all the requests racing on one key - double clicks, two retries of a failed
\* send - at most one is between its claim and finish_send at any time.
SingleOwner == \A r, s \in Requests : Owns(r) /\ Owns(s) /\ SameAttempt(r, s) => r = s

\* A key is bound to one message: everything ever handed to the transports under
\* it has the payload of its row, across failures and take-overs.
PayloadPinned == \A r \in out : Keyed(r) => row[AttemptOf(r)].hash = ask[r].payload

\* A key sends a second time only when the first send was reported failed and
\* recorded so; a lost or unrecorded outcome never leads to another hand-over.
ResendOnlyAfterFailure ==
  \A r, s \in out :
    r # s /\ SameAttempt(r, s) =>
      \E t \in {r, s} : task[t] = "done" /\ result[t] = "err"

\* What a key means does not change while the code works on it: one content, and a
\* second send only of what is known to have failed (send_guard.rs, decide_existing).
KeyBinds == PayloadPinned /\ ResendOnlyAfterFailure

\* A replayed answer names a message of the same user, key and content that was
\* handed over and stored in Sent by an earlier request.
ReplayIsGenuine ==
  \A r \in Requests : ans[r].kind = "replay" =>
    LET m == ans[r].message
    IN m \in out \cap filed /\ m # r /\ ask[m] = ask[r] /\ result[m] = "ok"

\* A send that is still running is answered "outcome unknown" only to a request
\* that began more than a lease after the running one: a key just taken over
\* after an old failure is "in progress" again.
UnknownOnlyAfterLease ==
  [][\A r \in Requests :
       ans'[r].kind = "outcome_unknown" /\ ans[r].kind = "none" =>
         \A s \in Requests : Owns(s) /\ SameAttempt(r, s) => now[r] > now[s] + Lease]_vars

\* No step changes the row of a send recorded as sent.
SentIsFinal == [][\A a \in Attempts : row[a].status = "sent" => row'[a] = row[a]]_vars

\* Once its owner is gone with the row still pending, a key never sends again and
\* its row never changes: later requests are told the outcome is unknown.
OrphanStaysSilent ==
  [][\A a \in Attempts :
       row[a].status = "pending" /\ ~Owned(a) =>
         /\ row'[a] = row[a]
         /\ \A r \in out' \ out : ~(Keyed(r) /\ AttemptOf(r) = a)]_vars

\* A row that is decided stays as it is: sent for ever, pending for ever once its
\* owner is gone, and while he is not, nobody within the lease is told that the
\* outcome is unknown (send_guard.rs, claim_send and SEND_LEASE_SECONDS).
RowsSettle == SentIsFinal /\ OrphanStaysSilent /\ UnknownOnlyAfterLease

\* Every request that got in is answered, or its connection is gone, or its task
\* is waiting for a transport - it waits for nothing else, whatever the other
\* requests on its key do.
Settles ==
  \A r \in Requests :
    pc[r] \in InHandler ~> pc[r] \in {"answered", "dropped"} \/ task[r] = "handed_over"

\* migrations/035_send_safety.sql:3 - "at-most-once sending for requests carrying
\* an Idempotency-Key": no two sends under one key are both accepted by a
\* transport and stored in Sent.
AtMostOnce == \A r, s \in filed : SameAttempt(r, s) => r = s

\* The promise of the key (KeyedSend), seen through the rows and their owners.
HolderOf(a) == IF Owned(a)
               THEN CHOOSE r \in Requests : Owns(r) /\ AttemptOf(r) = a
               ELSE None

PhaseOf(a) == CASE row[a].status \in {"absent", "failed"} -> "free"
                [] row[a].status = "sent" -> "done"
                [] OTHER -> IF Owned(a) THEN "busy" ELSE "lost"

Promise == INSTANCE KeyedSend
             WITH NoRequest <- None,
                  phase  <- [a \in Attempts |-> PhaseOf(a)],
                  holder <- [a \in Attempts |-> HolderOf(a)],
                  sent   <- {r \in out : Keyed(r)}

\* Every behaviour of the rows, handlers and tasks is one KeyedSend allows.
KeepsPromise == Promise!Spec
=============================================================================
