-------------------------- MODULE SendGuardProofs --------------------------
(***************************************************************************)
(* Theorems about SendGuard, for any number of requests, users, keys and   *)
(* payloads, any lease and any bound on the clock.                         *)
(*                                                                         *)
(* The argument: a request blocks its attempt from the statement that      *)
(* claims it until finish_send records a failure.  The claiming statements *)
(* need a row that is absent or failed, a blocked row is pending or sent,  *)
(* so no second request can start blocking; a row leaves pending only by   *)
(* the finish_send of the request that blocks it.                          *)
(***************************************************************************)
EXTENDS SendGuard, TLAPS

\* Only requests with a key run claim_send.
KeyedClaims == \A r \in Requests : pc[r] \in {"insert", "select", "reclaim"} => Keyed(r)

Blocks(r) ==
  /\ Keyed(r)
  /\ \/ pc[r] = "claimed"
     \/ task[r] # "none" /\ ~(task[r] = "done" /\ result[r] = "err")

\* The detached task exists only after the handler spawned it, and its result
\* is known when it comes to record it.
TaskOrder ==
  \A r \in Requests :
    /\ pc[r] \in {"new", "insert", "select", "reclaim", "claimed"} => task[r] = "none"
    /\ task[r] \in {"finishing", "done"} => result[r] \in {"ok", "err"}
    /\ r \in out => task[r] \notin {"none", "running"}

BlockedRow ==
  \A r \in Requests : Blocks(r) =>
    row[AttemptOf(r)].status = IF task[r] = "done" THEN "sent" ELSE "pending"

SingleBlocker ==
  \A r, s \in Requests : Blocks(r) /\ Blocks(s) /\ SameAttempt(r, s) => r = s

\* The row a request has seen, and any row a send went out under, carries the
\* request's own payload.
HashKept ==
  \A r \in Requests : Keyed(r) =>
    /\ pc[r] = "select" => row[AttemptOf(r)].status # "absent"
    /\ pc[r] \in {"reclaim", "claimed"} \/ task[r] # "none" =>
         /\ row[AttemptOf(r)].status # "absent"
         /\ row[AttemptOf(r)].hash = ask[r].payload

IInv == TypeOK /\ KeyedClaims /\ TaskOrder /\ BlockedRow /\ SingleBlocker /\ HashKept

-----------------------------------------------------------------------------
(* Types.                                                                  *)

LEMMA AttemptType ==
  ASSUME TypeOK, NEW r \in Requests, Keyed(r)
  PROVE  AttemptOf(r) \in Attempts
BY DEF TypeOK, Asks, Keyed, AttemptOf, Attempts

LEMMA DecideType ==
  ASSUME NEW stored, NEW payload, NEW at
  PROVE  Decide(stored, payload, at) \in
           {"conflict", "replay", "take_over", "outcome_unknown", "in_progress"}
BY DEF Decide

LEMMA AnswerType ==
  ASSUME TypeOK, KeyedClaims, NEW r \in Requests, NEW kind, NEW message,
         [kind |-> kind, message |-> message] \in Answers, Answer(r, kind, message), UNCHANGED ask
  PROVE  /\ pc' \in [Requests -> Handler]
         /\ ans' \in [Requests -> Answers]
         /\ KeyedClaims'
BY DEF TypeOK, KeyedClaims, Keyed, Answer, Handler

LEMMA TypeInit == Init => TypeOK /\ KeyedClaims
BY LeaseAssumption
   DEF Init, TypeOK, KeyedClaims, Rows, NoRow, Handler, Tasks, Answers

LEMMA TypeStep ==
  ASSUME TypeOK, KeyedClaims, [Next]_vars
  PROVE  TypeOK' /\ KeyedClaims'
<1> USE DEF TypeOK, KeyedClaims, Keyed
<1>1. ASSUME NEW r \in Requests, Refuse(r) \/ RejectKey(r)
      PROVE  TypeOK' /\ KeyedClaims'
  BY <1>1 DEF Refuse, RejectKey, Answer, Handler, Answers
<1>2. ASSUME NEW r \in Requests, Start(r)
      PROVE  TypeOK' /\ KeyedClaims'
  BY <1>2 DEF Start, Handler, InHandler
<1>3. ASSUME NEW r \in Requests, Insert(r)
      PROVE  TypeOK' /\ KeyedClaims'
  <2>1. row' \in [Attempts -> Rows]
    BY <1>3, AttemptType DEF Insert, Rows, Asks
  <2>2. QED
    BY <1>3, <2>1 DEF Insert, Handler, InHandler
<1>4. ASSUME NEW r \in Requests, Select(r)
      PROVE  TypeOK' /\ KeyedClaims'
  <2>1. row[AttemptOf(r)].message \in Requests \cup {None}
    BY <1>4, AttemptType DEF Select, Rows
  <2>2. QED
    BY <1>4, <2>1, DecideType DEF Select, Answer, Answers, Handler, InHandler
<1>5. ASSUME NEW r \in Requests, Reclaim(r)
      PROVE  TypeOK' /\ KeyedClaims'
  <2>1. CASE Reclaimable(row[AttemptOf(r)].status)
    <3>1. row' \in [Attempts -> Rows]
      BY <1>5, <2>1, AttemptType DEF Reclaim, Rows
    <3>2. QED
      BY <1>5, <2>1, <3>1 DEF Reclaim, Handler, InHandler
  <2>2. CASE ~Reclaimable(row[AttemptOf(r)].status)
    <3>1. [kind |-> "in_progress", message |-> None] \in Answers
      BY DEF Answers
    <3>2. QED
      BY <1>5, <2>2, <3>1, AnswerType DEF Reclaim
  <2>3. QED
    BY <2>1, <2>2
<1>6. ASSUME NEW r \in Requests, ClaimError(r) \/ Spawn(r) \/ Report(r) \/ Disconnect(r)
      PROVE  TypeOK' /\ KeyedClaims'
  <2>1. /\ [kind |-> "error", message |-> None] \in Answers
        /\ [kind |-> "failed", message |-> None] \in Answers
        /\ [kind |-> "sent", message |-> r] \in Answers
    BY DEF Answers
  <2>2. CASE ClaimError(r)
    BY <2>1, <2>2, AnswerType DEF ClaimError
  <2>3. CASE Spawn(r)
    BY <2>3 DEF Spawn, Handler, InHandler, Tasks, Running
  <2>4. CASE Report(r)
    BY <2>1, <2>4, AnswerType DEF Report
  <2>5. CASE Disconnect(r)
    BY <2>5 DEF Disconnect, Handler, InHandler
  <2>6. QED
    BY <1>6, <2>2, <2>3, <2>4, <2>5
<1>7. ASSUME NEW r \in Requests,
             \/ FailEarly(r) \/ HandOver(r) \/ SendReturns(r)
             \/ FinishFails(r) \/ TaskPanics(r)
      PROVE  TypeOK' /\ KeyedClaims'
  BY <1>7 DEF FailEarly, HandOver, SendReturns, FinishFails, TaskPanics, Tasks, Running
<1>8. ASSUME NEW r \in Requests, Finish(r)
      PROVE  TypeOK' /\ KeyedClaims'
  <2>1. row' \in [Attempts -> Rows]
    BY <1>8, AttemptType DEF Finish, Rows, OutcomeStatus
  <2>2. QED
    BY <1>8, <2>1 DEF Finish, Tasks
<1>9. ASSUME Crash
      PROVE  TypeOK' /\ KeyedClaims'
  BY <1>9 DEF Crash, Handler, Tasks, InHandler
<1>10. ASSUME Tick
       PROVE  TypeOK' /\ KeyedClaims'
  BY <1>10, LeaseAssumption DEF Tick
<1>11. CASE UNCHANGED vars
  BY <1>11 DEF vars
<1>12. QED
  BY <1>1, <1>2, <1>3, <1>4, <1>5, <1>6, <1>7, <1>8, <1>9, <1>10, <1>11
     DEF Next, HandlerStep, TaskStep

\* Rows, handlers, tasks and answers never leave the values send_guard.rs and
\* send.rs give them.
THEOREM TypeCorrect == Spec => []TypeOK
<1>1. TypeOK /\ KeyedClaims /\ [Next]_vars => TypeOK' /\ KeyedClaims'
  BY TypeStep
<1>2. QED
  BY <1>1, TypeInit, PTL DEF Spec

-----------------------------------------------------------------------------
(* Ownership.                                                              *)

LEMMA AsksFixed ==
  ASSUME UNCHANGED ask
  PROVE  /\ \A r \in Requests : (AttemptOf(r))' = AttemptOf(r)
         /\ \A r \in Requests : Keyed(r)' <=> Keyed(r)
         /\ \A r, s \in Requests : SameAttempt(r, s)' <=> SameAttempt(r, s)
BY DEF AttemptOf, Keyed, SameAttempt

LEMMA NextKeepsAsks == [Next]_vars => UNCHANGED ask
BY DEF Next, vars, HandlerStep, TaskStep, Refuse, RejectKey, Start, Insert, Select,
       Reclaim, Spawn, Report, ClaimError, Disconnect, FailEarly, HandOver, SendReturns,
       Finish, FinishFails, TaskPanics, Crash, Tick

\* A step that writes no row and makes nobody a blocker keeps the ownership facts.
LEMMA QuietStep ==
  ASSUME IInv, UNCHANGED <<row, ask>>,
         \A r \in Requests : Blocks(r)' => Blocks(r) /\ (task'[r] = "done" <=> task[r] = "done"),
         \A r \in Requests : pc'[r] = "select" => pc[r] = "select",
         \A r \in Requests : pc'[r] \in {"reclaim", "claimed"} \/ task'[r] # "none" =>
                             \/ pc[r] \in {"reclaim", "claimed"} \/ task[r] # "none"
                             \/ ~Keyed(r)
  PROVE  BlockedRow' /\ SingleBlocker' /\ HashKept'
<1>1. BlockedRow' /\ SingleBlocker'
  BY AsksFixed DEF IInv, BlockedRow, SingleBlocker
<1>2. HashKept'
  BY AsksFixed DEF IInv, HashKept
<1>3. QED
  BY <1>1, <1>2

LEMMA OwnerStep ==
  ASSUME IInv, [Next]_vars
  PROVE  TaskOrder' /\ BlockedRow' /\ SingleBlocker' /\ HashKept'
<1> USE AsksFixed DEF IInv, TypeOK
<1>1. ASSUME NEW r \in Requests,
             \/ Refuse(r) \/ RejectKey(r) \/ ClaimError(r) \/ Report(r) \/ Disconnect(r)
      PROVE  TaskOrder' /\ BlockedRow' /\ SingleBlocker' /\ HashKept'
  <2>1. pc' = [pc EXCEPT ![r] = "answered"] \/ pc' = [pc EXCEPT ![r] = "dropped"]
    BY <1>1 DEF Refuse, RejectKey, ClaimError, Report, Disconnect, Answer
  <2>2. UNCHANGED <<row, ask, task, result, out>>
    BY <1>1 DEF Refuse, RejectKey, ClaimError, Report, Disconnect, Answer
  <2>3. TaskOrder'
    BY <2>1, <2>2 DEF TaskOrder
  <2>4. QED
    BY <2>1, <2>2, <2>3, QuietStep DEF Blocks
<1>2. ASSUME NEW r \in Requests, Start(r)
      PROVE  TaskOrder' /\ BlockedRow' /\ SingleBlocker' /\ HashKept'
  <2>1. TaskOrder'
    BY <1>2 DEF Start, TaskOrder
  <2>2. QED
    BY <1>2, <2>1, QuietStep DEF Start, Blocks
<1>3. ASSUME NEW r \in Requests, Insert(r)
      PROVE  TaskOrder' /\ BlockedRow' /\ SingleBlocker' /\ HashKept'
  <2>1. Keyed(r) /\ AttemptOf(r) \in Attempts
    BY <1>3, AttemptType DEF Insert, KeyedClaims
  <2>2. TaskOrder'
    BY <1>3 DEF Insert, TaskOrder
  <2>3. CASE row[AttemptOf(r)].status = "absent"
    <3>1. \A s \in Requests : Blocks(s) => AttemptOf(s) # AttemptOf(r)
      BY <2>3 DEF BlockedRow
    <3>2. \A s \in Requests \ {r} : Blocks(s)' <=> Blocks(s)
      BY <1>3, <2>3 DEF Insert, Blocks
    <3>3. task'[r] = "none"
      BY <1>3 DEF Insert, TaskOrder
    <3> DEFINE a == AttemptOf(r)
    <3>8. /\ row'[a].status = "pending"
          /\ row'[a].hash = ask[r].payload
          /\ \A s \in Requests :
               Keyed(s) /\ AttemptOf(s) # a => row'[AttemptOf(s)] = row[AttemptOf(s)]
      BY <1>3, <2>1, <2>3, AttemptType DEF Insert
    <3>4. BlockedRow'
      BY <1>3, <3>1, <3>2, <3>3, <3>8 DEF Insert, BlockedRow, Blocks
    <3>5. SingleBlocker'
      BY <1>3, <3>1, <3>2 DEF Insert, SingleBlocker, SameAttempt
    <3>6. HashKept'
      <4>1. \A s \in Requests : s # r => pc'[s] = pc[s] /\ task'[s] = task[s]
        BY <1>3 DEF Insert
      <4>2. \A s \in Requests : Keyed(s) /\ s # r /\ AttemptOf(s) = a =>
              pc[s] \notin {"select", "reclaim", "claimed"} /\ task[s] = "none"
        BY <2>3 DEF HashKept
      <4>3. QED
        BY <1>3, <3>3, <3>8, <4>1, <4>2 DEF Insert, HashKept
    <3>7. QED
      BY <2>2, <3>4, <3>5, <3>6
  <2>4. CASE row[AttemptOf(r)].status # "absent"
    <3>1. BlockedRow' /\ SingleBlocker'
      BY <1>3, <2>4 DEF Insert, BlockedRow, SingleBlocker, Blocks
    <3>2. HashKept'
      BY <1>3, <2>4 DEF Insert, HashKept
    <3>3. QED
      BY <2>2, <3>1, <3>2
  <2>5. QED
    BY <2>3, <2>4
<1>4. ASSUME NEW r \in Requests, Select(r)
      PROVE  TaskOrder' /\ BlockedRow' /\ SingleBlocker' /\ HashKept'
  <2>1. \/ /\ pc' = [pc EXCEPT ![r] = "reclaim"]
           /\ Decide(row[AttemptOf(r)], ask[r].payload, now[r]) = "take_over"
        \/ pc' = [pc EXCEPT ![r] = "answered"]
    BY <1>4 DEF Select, Answer
  <2>2. pc[r] = "select" /\ UNCHANGED <<row, ask, task, result, out>>
    BY <1>4 DEF Select
  <2>3. TaskOrder'
    BY <2>1, <2>2 DEF TaskOrder
  <2>4. BlockedRow' /\ SingleBlocker'
    BY <2>1, <2>2 DEF BlockedRow, SingleBlocker, Blocks
  <2>5. HashKept'
    BY <2>1, <2>2 DEF HashKept, Decide, SameContent
  <2>6. QED
    BY <2>3, <2>4, <2>5
<1>5. ASSUME NEW r \in Requests, Reclaim(r)
      PROVE  TaskOrder' /\ BlockedRow' /\ SingleBlocker' /\ HashKept'
  <2>1. Keyed(r) /\ AttemptOf(r) \in Attempts
    BY <1>5, AttemptType DEF Reclaim, KeyedClaims
  <2>2. TaskOrder'
    BY <1>5 DEF Reclaim, TaskOrder, Answer
  <2>3. CASE Reclaimable(row[AttemptOf(r)].status)
    <3>1. \A s \in Requests : Blocks(s) => AttemptOf(s) # AttemptOf(r)
      BY <2>3 DEF BlockedRow, Reclaimable
    <3>2. \A s \in Requests \ {r} : Blocks(s)' <=> Blocks(s)
      BY <1>5, <2>3 DEF Reclaim, Blocks
    <3>3. task'[r] = "none"
      BY <1>5 DEF Reclaim, TaskOrder
    <3> DEFINE a == AttemptOf(r)
    <3>8. /\ row'[a].status = "pending"
          /\ row'[a].hash = row[a].hash
          /\ \A s \in Requests :
               Keyed(s) /\ AttemptOf(s) # a => row'[AttemptOf(s)] = row[AttemptOf(s)]
      BY <1>5, <2>1, <2>3, AttemptType DEF Reclaim, Rows
    <3>4. BlockedRow'
      BY <1>5, <3>1, <3>2, <3>3, <3>8 DEF Reclaim, BlockedRow, Blocks
    <3>5. SingleBlocker'
      BY <1>5, <3>1, <3>2 DEF Reclaim, SingleBlocker, SameAttempt
    <3>6. HashKept'
      BY <1>5, <2>3, <3>3, <3>8 DEF Reclaim, HashKept
    <3>7. QED
      BY <2>2, <3>4, <3>5, <3>6
  <2>4. CASE ~Reclaimable(row[AttemptOf(r)].status)
    BY <1>5, <2>2, <2>4, QuietStep DEF Reclaim, Answer, Blocks
  <2>5. QED
    BY <2>3, <2>4
<1>6. ASSUME NEW r \in Requests, Spawn(r)
      PROVE  TaskOrder' /\ BlockedRow' /\ SingleBlocker' /\ HashKept'
  <2>1. TaskOrder'
    BY <1>6 DEF Spawn, TaskOrder
  <2>2. QED
    BY <1>6, <2>1, QuietStep DEF Spawn, Blocks, TaskOrder
<1>7. ASSUME NEW r \in Requests,
             \/ FailEarly(r) \/ HandOver(r) \/ SendReturns(r)
             \/ FinishFails(r) \/ TaskPanics(r)
      PROVE  TaskOrder' /\ BlockedRow' /\ SingleBlocker' /\ HashKept'
  <2>1. TaskOrder'
    BY <1>7 DEF FailEarly, HandOver, SendReturns, FinishFails, TaskPanics, TaskOrder, Running
  <2>2. UNCHANGED <<row, ask, pc>>
    BY <1>7 DEF FailEarly, HandOver, SendReturns, FinishFails, TaskPanics
  <2>3. \E t \in Running \cup {"unrecorded", "lost"} :
          task[r] \in Running /\ task' = [task EXCEPT ![r] = t]
    BY <1>7 DEF FailEarly, HandOver, SendReturns, FinishFails, TaskPanics, Running
  <2>4. \A s \in Requests \ {r} : result'[s] = result[s]
    BY <1>7 DEF FailEarly, HandOver, SendReturns, FinishFails, TaskPanics
  <2>5. QED
    BY <2>1, <2>2, <2>3, <2>4, QuietStep DEF Blocks, Running
<1>8. ASSUME NEW r \in Requests, Finish(r)
      PROVE  TaskOrder' /\ BlockedRow' /\ SingleBlocker' /\ HashKept'
  <2>1. TaskOrder'
    BY <1>8 DEF Finish, TaskOrder
  <2>2. \A s \in Requests : Blocks(s)' => Blocks(s)
    BY <1>8 DEF Finish, Blocks
  <2>3. SingleBlocker'
    BY <1>8, <2>2 DEF Finish, SingleBlocker
  <2>4. CASE Keyed(r)
    <3>1. AttemptOf(r) \in Attempts /\ Blocks(r)
      BY <1>8, <2>4, AttemptType DEF Finish, Blocks
    <3>2. \A s \in Requests \ {r} : Blocks(s) => AttemptOf(s) # AttemptOf(r)
      BY <2>4, <3>1 DEF SingleBlocker, SameAttempt, Blocks
    <3> DEFINE a == AttemptOf(r)
    <3>6. /\ row'[a].status = OutcomeStatus(result[r])
          /\ row'[a].hash = row[a].hash
          /\ \A s \in Requests :
               Keyed(s) /\ AttemptOf(s) # a => row'[AttemptOf(s)] = row[AttemptOf(s)]
      BY <1>8, <2>4, <3>1, AttemptType DEF Finish, Rows
    <3>7. /\ UNCHANGED <<ask, pc, result>>
          /\ \A s \in Requests \ {r} : task'[s] = task[s]
          /\ task[r] = "finishing" /\ task'[r] = "done" /\ result[r] \in {"ok", "err"}
      BY <1>8 DEF Finish, TaskOrder
    <3>3. BlockedRow'
      <4> SUFFICES ASSUME NEW s \in Requests, Blocks(s)'
                   PROVE  row'[AttemptOf(s)].status = IF task'[s] = "done" THEN "sent" ELSE "pending"
        BY <3>7 DEF BlockedRow
      <4>1. CASE s = r
        BY <3>6, <3>7, <4>1 DEF Blocks, OutcomeStatus, TaskOrder
      <4>2. CASE s # r
        BY <2>2, <3>2, <3>6, <3>7, <4>2 DEF Blocks, BlockedRow
      <4>3. QED
        BY <4>1, <4>2
    <3>4. HashKept'
      <4>1. row'[a].status # "absent"
        BY <3>6 DEF OutcomeStatus
      <4>2. QED
        BY <3>6, <3>7, <4>1 DEF HashKept
    <3>5. QED
      BY <2>1, <2>3, <3>3, <3>4
  <2>5. CASE ~Keyed(r)
    <3>1. BlockedRow' /\ HashKept'
      BY <1>8, <2>2, <2>5 DEF Finish, BlockedRow, Blocks, HashKept
    <3>2. QED
      BY <2>1, <2>3, <3>1
  <2>6. QED
    BY <2>4, <2>5
<1>9. ASSUME Crash
      PROVE  TaskOrder' /\ BlockedRow' /\ SingleBlocker' /\ HashKept'
  <2>1. TaskOrder'
    BY <1>9 DEF Crash, TaskOrder, InHandler, Running
  <2>2. QED
    BY <1>9, <2>1, QuietStep DEF Crash, Blocks, InHandler, Running
<1>10. CASE Tick \/ UNCHANGED vars
  <2>1. UNCHANGED <<row, ask, pc, task, result, out>>
    BY <1>10 DEF Tick, vars
  <2>2. TaskOrder'
    BY <2>1 DEF TaskOrder
  <2>3. QED
    BY <2>1, <2>2, QuietStep DEF Blocks
<1>11. QED
  BY <1>1, <1>2, <1>3, <1>4, <1>5, <1>6, <1>7, <1>8, <1>9, <1>10
     DEF Next, HandlerStep, TaskStep

LEMMA Inductive == Spec => []IInv
<1>1. Init => IInv
  BY TypeInit DEF Init, IInv, TaskOrder, BlockedRow, SingleBlocker, HashKept, Blocks, NoRow
<1>2. IInv /\ [Next]_vars => IInv'
  BY TypeStep, OwnerStep DEF IInv
<1>3. QED
  BY <1>1, <1>2, PTL DEF Spec

\* However many requests race on a key, at most one is between its claim and its
\* finish_send.
THEOREM OneOwner == Spec => []SingleOwner
<1>1. IInv => SingleOwner
  BY DEF IInv, SingleBlocker, SingleOwner, Owns, Blocks, Running, TaskOrder
<1>2. QED
  BY <1>1, Inductive, PTL

\* Everything handed to the transports under a key is the message the key is
\* bound to.
THEOREM OnePayload == Spec => []PayloadPinned
<1>1. IInv => PayloadPinned
  BY DEF IInv, TypeOK, HashKept, TaskOrder, PayloadPinned
<1>2. QED
  BY <1>1, Inductive, PTL

\* Of two sends under one key, one was reported failed and recorded as failed.
THEOREM ResendNeedsFailure == Spec => []ResendOnlyAfterFailure
<1>1. ASSUME IInv, NEW r \in out, NEW s \in out, r # s, SameAttempt(r, s)
      PROVE  \E t \in {r, s} : task[t] = "done" /\ result[t] = "err"
  <2>1. r \in Requests /\ s \in Requests /\ Keyed(r) /\ Keyed(s)
    BY <1>1 DEF IInv, TypeOK, SameAttempt
  <2>2. task[r] # "none" /\ task[s] # "none"
    BY <1>1, <2>1 DEF IInv, TaskOrder
  <2>3. ~(Blocks(r) /\ Blocks(s))
    BY <1>1, <2>1 DEF IInv, SingleBlocker
  <2>4. QED
    BY <2>1, <2>2, <2>3 DEF Blocks
<1>2. IInv => ResendOnlyAfterFailure
  BY <1>1 DEF ResendOnlyAfterFailure
<1>3. QED
  BY <1>2, Inductive, PTL

\* A key is bound to one content and sends again only after a recorded failure.
THEOREM KeyBound == Spec => []KeyBinds
<1>1. PayloadPinned /\ ResendOnlyAfterFailure => KeyBinds
  BY DEF KeyBinds
<1>2. QED
  BY <1>1, OnePayload, ResendNeedsFailure, PTL

\* The row of a send recorded as sent never changes again.
THEOREM SentStays == Spec => SentIsFinal
<1> DEFINE Kept == \A a \in Attempts : row[a].status = "sent" => row'[a] = row[a]
<1>1. ASSUME IInv, Next, NEW a \in Attempts, row[a].status = "sent"
      PROVE  row'[a] = row[a]
  <2> USE DEF IInv, TypeOK
  <2>1. ASSUME NEW r \in Requests, Insert(r)
        PROVE  row'[a] = row[a]
    BY <1>1, <2>1 DEF Insert
  <2>2. ASSUME NEW r \in Requests, Reclaim(r)
        PROVE  row'[a] = row[a]
    BY <1>1, <2>2 DEF Reclaim, Reclaimable
  <2>3. ASSUME NEW r \in Requests, Finish(r)
        PROVE  row'[a] = row[a]
    <3>1. Keyed(r) => row[AttemptOf(r)].status = "pending"
      <4>1. task[r] = "finishing"
        BY <2>3 DEF Finish
      <4>2. QED
        BY <1>1, <4>1 DEF BlockedRow, Blocks
    <3>2. CASE Keyed(r)
      <4>1. a # AttemptOf(r)
        BY <1>1, <3>1, <3>2
      <4>2. QED
        BY <1>1, <2>3, <3>2, <4>1 DEF Finish
    <3>3. CASE ~Keyed(r)
      BY <2>3, <3>3 DEF Finish
    <3>4. QED
      BY <3>2, <3>3
  <2>4. CASE UNCHANGED row
    BY <2>4
  <2>5. QED
    BY <1>1, <2>1, <2>2, <2>3, <2>4
       DEF Next, HandlerStep, TaskStep, Refuse, RejectKey, Start, Select, Spawn, Report,
           ClaimError, Disconnect, FailEarly, HandOver, SendReturns, FinishFails,
           TaskPanics, Crash, Tick
<1>2. IInv /\ [Next]_vars => [Kept]_vars
  BY <1>1
<1>3. QED
  BY <1>2, Inductive, PTL DEF Spec, SentIsFinal

\* A row left pending by an owner that is gone is never written again, and nothing
\* is sent under its key.
THEOREM OrphanSilent == Spec => OrphanStaysSilent
<1> DEFINE Silent == \A a \in Attempts :
                       row[a].status = "pending" /\ ~Owned(a) =>
                         /\ row'[a] = row[a]
                         /\ \A r \in out' \ out : ~(Keyed(r) /\ AttemptOf(r) = a)
<1>1. ASSUME IInv, Next, NEW a \in Attempts, row[a].status = "pending", ~Owned(a)
      PROVE  row'[a] = row[a] /\ \A r \in out' \ out : ~(Keyed(r) /\ AttemptOf(r) = a)
  <2> USE DEF IInv, TypeOK
  <2>1. ASSUME NEW r \in Requests, Insert(r) \/ Reclaim(r)
        PROVE  row'[a] = row[a] /\ out' = out
    BY <1>1, <2>1 DEF Insert, Reclaim, Reclaimable
  <2>2. ASSUME NEW r \in Requests, Finish(r)
        PROVE  row'[a] = row[a] /\ out' = out
    <3>1. Keyed(r) => AttemptOf(r) # a
      BY <1>1, <2>2 DEF Finish, Owned, Owns, Running
    <3>2. CASE Keyed(r)
      <4>1. a # AttemptOf(r)
        BY <3>1, <3>2
      <4>2. QED
        BY <1>1, <2>2, <3>2, <4>1 DEF Finish
    <3>3. CASE ~Keyed(r)
      BY <2>2, <3>3 DEF Finish
    <3>4. QED
      BY <3>2, <3>3
  <2>3. ASSUME NEW r \in Requests, HandOver(r)
        PROVE  row' = row /\ \A s \in out' \ out : ~(Keyed(s) /\ AttemptOf(s) = a)
    BY <1>1, <2>3 DEF HandOver, Owned, Owns, Running
  <2>4. CASE UNCHANGED <<row, out>>
    BY <2>4
  <2>5. QED
    BY <1>1, <2>1, <2>2, <2>3, <2>4
       DEF Next, HandlerStep, TaskStep, Refuse, RejectKey, Start, Select, Spawn, Report,
           ClaimError, Disconnect, FailEarly, SendReturns, FinishFails, TaskPanics, Crash, Tick
<1>2. IInv /\ [Next]_vars => [Silent]_vars
  BY <1>1
<1>3. QED
  BY <1>2, Inductive, PTL DEF Spec, OrphanStaysSilent

-----------------------------------------------------------------------------
(* The lease.                                                              *)

\* A row that is owned carries the time its owner read.
Stamped == \A r \in Requests : Owns(r) => row[AttemptOf(r)].updated = now[r]

LEMMA OwnersBlock ==
  ASSUME IInv, NEW r \in Requests, Owns(r)
  PROVE  Blocks(r) /\ row[AttemptOf(r)].status = "pending"
BY DEF IInv, Owns, Blocks, BlockedRow, TaskOrder, Running

LEMMA StampedStep ==
  ASSUME IInv, Stamped, [Next]_vars
  PROVE  Stamped'
<1> USE AsksFixed DEF IInv, TypeOK
<1>1. ASSUME NEW r \in Requests, Insert(r) \/ Reclaim(r)
      PROVE  Stamped'
  <2>1. Keyed(r) /\ AttemptOf(r) \in Attempts /\ task[r] = "none"
    BY <1>1, AttemptType DEF Insert, Reclaim, KeyedClaims, TaskOrder
  <2>2. \A s \in Requests \ {r} : Owns(s)' <=> Owns(s)
    BY <1>1 DEF Insert, Reclaim, Answer, Owns
  <2>3. CASE pc'[r] = "claimed"
    <3>1. row[AttemptOf(r)].status # "pending"
      BY <1>1, <2>3 DEF Insert, Reclaim, Reclaimable, Answer
    <3>2. \A s \in Requests : Owns(s) => AttemptOf(s) # AttemptOf(r)
      BY <3>1, OwnersBlock
    <3>3. /\ row'[AttemptOf(r)].updated = now[r]
          /\ \A a \in Attempts : a # AttemptOf(r) => row'[a] = row[a]
      BY <1>1, <2>1, <2>3 DEF Insert, Reclaim, Answer, Rows
    <3>4. \A s \in Requests : Owns(s) => AttemptOf(s) \in Attempts
      BY AttemptType DEF Owns
    <3>5. UNCHANGED <<now, ask>>
      BY <1>1 DEF Insert, Reclaim
    <3>6. QED
      BY <2>2, <3>2, <3>3, <3>4, <3>5 DEF Stamped
  <2>4. CASE pc'[r] # "claimed"
    <3>1. UNCHANGED <<row, now, ask, task>> /\ ~Owns(r)'
      BY <1>1, <2>1, <2>4 DEF Insert, Reclaim, Answer, Owns, Running
    <3>2. QED
      BY <2>2, <3>1 DEF Stamped
  <2>5. QED
    BY <2>3, <2>4
<1>2. ASSUME NEW r \in Requests, Finish(r)
      PROVE  Stamped'
  <2>1. \A s \in Requests : Owns(s)' => Owns(s) /\ s # r
    BY <1>2 DEF Finish, Owns, Running, TaskOrder
  <2>2. \A s \in Requests : s # r /\ Owns(s) => row'[AttemptOf(s)] = row[AttemptOf(s)]
    <3>1. ASSUME NEW s \in Requests, s # r, Owns(s), Keyed(r), AttemptOf(s) = AttemptOf(r)
          PROVE  FALSE
      BY <1>2, <3>1, OwnersBlock DEF Finish, Blocks, SingleBlocker, SameAttempt, Owns
    <3>2. \A s \in Requests : Owns(s) => AttemptOf(s) \in Attempts
      BY AttemptType DEF Owns
    <3>3. QED
      BY <1>2, <3>1, <3>2 DEF Finish
  <2>3. QED
    BY <1>2, <2>1, <2>2 DEF Finish, Stamped
<1>3. ASSUME NEW r \in Requests, Start(r)
      PROVE  Stamped'
  BY <1>3 DEF Start, Stamped, Owns, Running, TaskOrder
<1>4. ASSUME UNCHANGED <<row, now>>, \A s \in Requests : Owns(s)' => Owns(s)
      PROVE  Stamped'
  BY <1>4, NextKeepsAsks DEF Stamped
<1>5. ASSUME NEW r \in Requests,
             \/ Refuse(r) \/ RejectKey(r) \/ ClaimError(r) \/ Report(r) \/ Disconnect(r)
             \/ Select(r) \/ Spawn(r) \/ FailEarly(r) \/ HandOver(r) \/ SendReturns(r)
             \/ FinishFails(r) \/ TaskPanics(r)
      PROVE  Stamped'
  <2>1. UNCHANGED <<row, now>>
    BY <1>5 DEF Refuse, RejectKey, ClaimError, Report, Disconnect, Answer, Select, Spawn,
                FailEarly, HandOver, SendReturns, FinishFails, TaskPanics
  <2>2. \A s \in Requests : Owns(s)' => Owns(s)
    BY <1>5 DEF Refuse, RejectKey, ClaimError, Report, Disconnect, Answer, Select, Spawn,
                FailEarly, HandOver, SendReturns, FinishFails, TaskPanics, Owns, Running
  <2>3. QED
    BY <1>4, <2>1, <2>2
<1>6. ASSUME Crash \/ Tick \/ UNCHANGED vars
      PROVE  Stamped'
  <2>1. UNCHANGED <<row, now>> /\ \A s \in Requests : Owns(s)' => Owns(s)
    BY <1>6 DEF Crash, Tick, vars, Owns, Running, InHandler
  <2>2. QED
    BY <1>4, <2>1
<1>7. QED
  BY <1>1, <1>2, <1>3, <1>5, <1>6 DEF Next, HandlerStep, TaskStep

LEMMA AlwaysStamped == Spec => [](IInv /\ Stamped)
<1>1. Init => Stamped
  BY DEF Init, Stamped, Owns, Running
<1>2. IInv /\ Stamped /\ [Next]_vars => Stamped'
  BY StampedStep
<1>3. QED
  BY <1>1, <1>2, Inductive, PTL DEF Spec

\* A running send is called "outcome unknown" only by a request that began more than
\* a lease after it.
THEOREM UnknownIsOld == Spec => UnknownOnlyAfterLease
<1> DEFINE Old == \A r \in Requests :
                    ans'[r].kind = "outcome_unknown" /\ ans[r].kind = "none" =>
                      \A s \in Requests : Owns(s) /\ SameAttempt(r, s) => now[r] > now[s] + Lease
<1>1. ASSUME IInv, Stamped, Next, NEW r \in Requests, NEW s \in Requests,
             ans'[r].kind = "outcome_unknown", ans[r].kind = "none", Owns(s), SameAttempt(r, s)
      PROVE  now[r] > now[s] + Lease
  <2> USE DEF IInv, TypeOK
  <2>1. Select(r)
    <3>1. ASSUME NEW t \in Requests, Refuse(t) \/ RejectKey(t) \/ ClaimError(t) \/ Report(t)
          PROVE  FALSE
      BY <1>1, <3>1 DEF Refuse, RejectKey, ClaimError, Report, Answer
    <3>2. ASSUME NEW t \in Requests, Insert(t) \/ Reclaim(t)
          PROVE  FALSE
      BY <1>1, <3>2 DEF Insert, Reclaim, Answer
    <3>3. ASSUME NEW t \in Requests, Select(t)
          PROVE  Select(r)
      <4>1. t = r
        BY <1>1, <3>3 DEF Select, Answer
      <4>2. QED
        BY <3>3, <4>1
    <3>4. CASE UNCHANGED ans
      BY <1>1, <3>4
    <3>5. QED
      BY <1>1, <3>1, <3>2, <3>3, <3>4
         DEF Next, HandlerStep, TaskStep, Start, Spawn, Disconnect, FailEarly, HandOver,
             SendReturns, Finish, FinishFails, TaskPanics, Crash, Tick
  <2>2. Decide(row[AttemptOf(r)], ask[r].payload, now[r]) = "outcome_unknown"
    BY <1>1, <2>1 DEF Select, Answer
  <2>3. Expired(row[AttemptOf(r)].updated, now[r], Lease)
    BY <2>2 DEF Decide
  <2>4. row[AttemptOf(r)].updated = now[s]
    BY <1>1 DEF Stamped, SameAttempt
  <2>5. QED
    BY <2>3, <2>4 DEF Expired
<1>2. IInv /\ Stamped /\ [Next]_vars => [Old]_vars
  BY <1>1
<1>3. QED
  BY <1>2, AlwaysStamped, PTL DEF Spec, UnknownOnlyAfterLease

\* A decided row stays as it is, whoever comes to it.
THEOREM RowsAreSettled == Spec => RowsSettle
  BY SentStays, OrphanSilent, UnknownIsOld DEF RowsSettle

-----------------------------------------------------------------------------
(* Replayed answers are genuine, and SendGuard implements KeyedSend.       *)
(*                                                                         *)
(* A row is written as sent only by the request it then names, after that  *)
(* request's message was handed over and filed; what a replay reports is   *)
(* read from such a row.  An attempt of KeyedSend is busy while a request  *)
(* owns its row: claims begin it, finish_send completes it or gives it     *)
(* back, and whatever else ends an owner makes it lost.                    *)


\* What a task that returned ok has done.
OkIsFiled ==
  \A r \in Requests :
    /\ task[r] = "handed_over" => r \in out
    /\ task[r] \in {"none", "running", "handed_over"} => result[r] = "none"
    /\ result[r] = "ok" => r \in out \cap filed

\* The message a sent row names is of a request of this attempt that ended well.
SentRow ==
  \A a \in Attempts : row[a].status = "sent" =>
    /\ row[a].message \in Requests
    /\ LET m == row[a].message
       IN Keyed(m) /\ AttemptOf(m) = a /\ result[m] = "ok" /\ task[m] = "done"

LEMMA OkStep ==
  ASSUME IInv, OkIsFiled, [Next]_vars
  PROVE  OkIsFiled'
<1> USE DEF IInv, TypeOK
<1>1. ASSUME NEW r \in Requests,
             \/ Spawn(r) \/ FailEarly(r) \/ HandOver(r) \/ SendReturns(r)
             \/ Finish(r) \/ FinishFails(r) \/ TaskPanics(r)
      PROVE  OkIsFiled'
  BY <1>1 DEF Spawn, FailEarly, HandOver, SendReturns, Finish, FinishFails, TaskPanics,
              OkIsFiled, TaskOrder, Running
<1>2. CASE UNCHANGED <<task, result, out, filed>>
  BY <1>2 DEF OkIsFiled
<1>3. CASE Crash
  BY <1>3 DEF Crash, OkIsFiled, Running
<1>4. QED
  BY <1>1, <1>2, <1>3 DEF Next, HandlerStep, TaskStep, Refuse, RejectKey, Start, Insert,
     Select, Reclaim, Report, ClaimError, Disconnect, Tick, vars

\* A task that is done stays so, with its result.
LEMMA DoneStays ==
  ASSUME IInv, OkIsFiled, [Next]_vars, NEW m \in Requests
  PROVE  /\ task[m] = "done" => task'[m] = "done"
         /\ result[m] = "ok" => result'[m] = "ok"
         /\ out \subseteq out' /\ filed \subseteq filed'
<1> USE DEF IInv, TypeOK
<1>1. ASSUME NEW r \in Requests,
             \/ Spawn(r) \/ FailEarly(r) \/ HandOver(r) \/ SendReturns(r)
             \/ Finish(r) \/ FinishFails(r) \/ TaskPanics(r)
      PROVE  /\ task[m] = "done" => task'[m] = "done"
             /\ result[m] = "ok" => result'[m] = "ok"
             /\ out \subseteq out' /\ filed \subseteq filed'
  BY <1>1 DEF Spawn, FailEarly, HandOver, SendReturns, Finish, FinishFails, TaskPanics,
              OkIsFiled, TaskOrder, Running
<1>2. CASE UNCHANGED <<task, result, out, filed>>
  BY <1>2
<1>3. CASE Crash
  BY <1>3 DEF Crash, Running
<1>4. QED
  BY <1>1, <1>2, <1>3 DEF Next, HandlerStep, TaskStep, Refuse, RejectKey, Start, Insert,
     Select, Reclaim, Report, ClaimError, Disconnect, Tick, vars

\* A row that reads sent after a step names a request of its own attempt.
LEMMA SentRowStep ==
  ASSUME IInv, OkIsFiled, SentRow, [Next]_vars
  PROVE  SentRow'
<1> USE DEF IInv, TypeOK
<1>1. UNCHANGED ask
  BY NextKeepsAsks
<1>2. SUFFICES ASSUME NEW a \in Attempts, row'[a].status = "sent"
               PROVE  \E m \in Requests :
                        /\ row'[a].message = m /\ Keyed(m) /\ AttemptOf(m) = a
                        /\ result'[m] = "ok" /\ task'[m] = "done"
  BY <1>1 DEF SentRow, Keyed, AttemptOf
<1>3. CASE row'[a] = row[a]
  <2>1. PICK m \in Requests : /\ row[a].message = m /\ Keyed(m) /\ AttemptOf(m) = a
                              /\ result[m] = "ok" /\ task[m] = "done"
    BY <1>2, <1>3 DEF SentRow
  <2>2. result'[m] = "ok" /\ task'[m] = "done"
    BY <2>1, DoneStays
  <2>3. QED
    BY <1>3, <2>1, <2>2
<1>4. ASSUME NEW r \in Requests, Insert(r) \/ Reclaim(r), row'[a] # row[a]
      PROVE  FALSE
  <2>1. Keyed(r) /\ AttemptOf(r) \in Attempts
    BY <1>4, AttemptType DEF Insert, Reclaim, KeyedClaims
  <2>2. a = AttemptOf(r)
    BY <1>4, <2>1 DEF Insert, Reclaim
  <2>3. row'[a].status = "pending"
    BY <1>4, <2>1, <2>2 DEF Insert, Reclaim, Rows
  <2>4. QED
    BY <1>2, <2>3
<1>5. ASSUME NEW r \in Requests, Finish(r), row'[a] # row[a]
      PROVE  /\ row'[a].message = r /\ Keyed(r) /\ AttemptOf(r) = a
             /\ result'[r] = "ok" /\ task'[r] = "done"
  <2>1. Keyed(r) /\ AttemptOf(r) = a
    BY <1>5 DEF Finish
  <2>2. /\ row'[a].status = OutcomeStatus(result[r])
        /\ row'[a].message = IF result[r] = "ok" THEN r ELSE None
    BY <1>5, <2>1 DEF Finish, Rows
  <2>3. result[r] = "ok"
    BY <1>2, <2>2 DEF OutcomeStatus
  <2>4. QED
    BY <1>5, <2>1, <2>2, <2>3 DEF Finish
<1>6. QED
  BY <1>3, <1>4, <1>5
     DEF Next, HandlerStep, TaskStep, Refuse, RejectKey, Start, Select, Spawn, Report,
         ClaimError, Disconnect, FailEarly, HandOver, SendReturns, FinishFails,
         TaskPanics, Crash, Tick, vars

LEMMA ReplayStep ==
  ASSUME IInv, OkIsFiled, SentRow, ReplayIsGenuine, [Next]_vars
  PROVE  ReplayIsGenuine'
<1> SUFFICES ASSUME NEW r \in Requests, ans'[r].kind = "replay"
             PROVE  LET m == ans'[r].message
                    IN m \in out' \cap filed' /\ m # r /\ ask'[m] = ask'[r] /\ result'[m] = "ok"
  BY DEF ReplayIsGenuine
<1> USE DEF IInv, TypeOK
<1>1. CASE ans'[r] = ans[r]
  BY <1>1, NextKeepsAsks, DoneStays DEF ReplayIsGenuine
<1>2. ASSUME NEW t \in Requests, Refuse(t) \/ RejectKey(t) \/ ClaimError(t) \/ Report(t)
                                 \/ Insert(t) \/ Reclaim(t)
      PROVE  ans'[r] = ans[r]
  BY <1>2 DEF Refuse, RejectKey, ClaimError, Report, Insert, Reclaim, Answer
<1>3. ASSUME NEW t \in Requests, Select(t), ans'[r] # ans[r]
      PROVE  LET m == ans'[r].message
             IN m \in out' \cap filed' /\ m # r /\ ask'[m] = ask'[r] /\ result'[m] = "ok"
  <2> DEFINE stored == row[AttemptOf(r)]
             m == stored.message
  <2>1. t = r
    BY <1>3 DEF Select, Answer
  <2>2. pc[r] = "select" /\ UNCHANGED <<row, ask, task, result, out, filed>>
    BY <1>3, <2>1 DEF Select
  <2>3. Decide(stored, ask[r].payload, now[r]) = "replay" /\ ans'[r].message = m
    BY <1>3, <2>1 DEF Select, Answer
  <2>4. stored.status = "sent" /\ stored.hash = ask[r].payload
    BY <2>3 DEF Decide, SameContent
  <2>5. Keyed(r) /\ AttemptOf(r) \in Attempts
    BY <2>2, AttemptType DEF KeyedClaims
  <2>6. m \in Requests /\ Keyed(m) /\ AttemptOf(m) = AttemptOf(r) /\ result[m] = "ok"
        /\ task[m] = "done"
    BY <2>4, <2>5 DEF SentRow
  <2>7. m # r
    BY <2>2, <2>6 DEF TaskOrder
  <2>8. ask[m].payload = ask[r].payload
    BY <2>4, <2>6 DEF HashKept
  <2>9. ask[m] = ask[r]
    BY <2>6, <2>8 DEF AttemptOf, AttemptId, Asks
  <2>10. m \in out \cap filed
    BY <2>6 DEF OkIsFiled
  <2>11. QED
    BY <2>2, <2>3, <2>6, <2>7, <2>9, <2>10
<1>4. QED
  BY <1>1, <1>2, <1>3
     DEF Next, HandlerStep, TaskStep, Start, Spawn, Disconnect, FailEarly, HandOver,
         SendReturns, Finish, FinishFails, TaskPanics, Crash, Tick, vars

RInv == IInv /\ OkIsFiled /\ SentRow /\ ReplayIsGenuine

LEMMA AlwaysGenuine == Spec => []RInv
<1>1. Init => OkIsFiled /\ SentRow /\ ReplayIsGenuine
  BY DEF Init, OkIsFiled, SentRow, ReplayIsGenuine, NoRow
<1>2. RInv /\ [Next]_vars => OkIsFiled' /\ SentRow' /\ ReplayIsGenuine'
  BY OkStep, SentRowStep, ReplayStep DEF RInv
<1>3. QED
  BY <1>1, <1>2, Inductive, PTL DEF Spec, RInv

\* A replayed answer is the id of the caller's own message under that key, with that
\* content, accepted and stored in Sent.
THEOREM ReplaysAreGenuine == Spec => []ReplayIsGenuine
BY AlwaysGenuine, PTL DEF RInv

-----------------------------------------------------------------------------
(* The promise.                                                            *)

LEMMA IInvOwner == ASSUME IInv PROVE SingleOwner
BY DEF IInv, SingleBlocker, SingleOwner, Owns, Blocks, Running, TaskOrder

\* The holder of an owned attempt is its owner, before a step and after it.
LEMMA HolderIs ==
  ASSUME SingleOwner, NEW r \in Requests, Owns(r)
  PROVE  Owned(AttemptOf(r)) /\ HolderOf(AttemptOf(r)) = r
<1>1. \A s \in Requests : Owns(s) /\ AttemptOf(s) = AttemptOf(r) => s = r
  BY DEF SingleOwner, SameAttempt, Owns
<1>2. Owned(AttemptOf(r))
  BY DEF Owned
<1>3. (CHOOSE s \in Requests : Owns(s) /\ AttemptOf(s) = AttemptOf(r)) = r
  BY <1>1
<1>4. QED
  BY <1>2, <1>3 DEF HolderOf

LEMMA HolderWillBe ==
  ASSUME SingleOwner', UNCHANGED ask, NEW r \in Requests, Owns(r)'
  PROVE  Owned(AttemptOf(r))' /\ HolderOf(AttemptOf(r))' = r
<1>1. \A s \in Requests : Owns(s)' /\ AttemptOf(s)' = AttemptOf(r)' => s = r
  BY DEF SingleOwner, SameAttempt, Owns
<1>2. Owned(AttemptOf(r))'
  BY DEF Owned
<1>3. (CHOOSE s \in Requests : Owns(s)' /\ AttemptOf(s)' = AttemptOf(r)') = r
  BY <1>1
<1>4. QED
  BY <1>2, <1>3 DEF HolderOf

\* An attempt keeps its phase and holder when its row's status and its owners stay.
LEMMA SamePlace ==
  ASSUME SingleOwner, SingleOwner', UNCHANGED ask, NEW a \in Attempts,
         row'[a].status = row[a].status,
         \A r \in Requests : AttemptOf(r) = a => (Owns(r)' <=> Owns(r))
  PROVE  PhaseOf(a)' = PhaseOf(a) /\ HolderOf(a)' = HolderOf(a)
<1>1. Owned(a)' <=> Owned(a)
  BY AsksFixed DEF Owned
<1>2. PhaseOf(a)' = PhaseOf(a)
  BY <1>1 DEF PhaseOf
<1>3. CASE Owned(a)
  <2>1. PICK r \in Requests : Owns(r) /\ AttemptOf(r) = a
    BY <1>3 DEF Owned
  <2>2. AttemptOf(r)' = a /\ Owns(r)'
    BY <2>1, AsksFixed
  <2>3. HolderOf(a) = r
    BY <2>1, HolderIs
  <2>4. HolderOf(a)' = r
    BY <2>2, HolderWillBe
  <2>5. QED
    BY <1>2, <2>3, <2>4
<1>4. CASE ~Owned(a)
  BY <1>1, <1>2, <1>4 DEF HolderOf
<1>5. QED
  BY <1>3, <1>4

\* Nothing the promise speaks of moves.
LEMMA Unmoved ==
  ASSUME SingleOwner, SingleOwner', UNCHANGED ask,
         \A a \in Attempts : row'[a].status = row[a].status,
         \A r \in Requests : Owns(r)' <=> Owns(r),
         {r \in out' : Keyed(r)'} = {r \in out : Keyed(r)}
  PROVE  UNCHANGED Promise!vars
<1>1. \A a \in Attempts : PhaseOf(a)' = PhaseOf(a) /\ HolderOf(a)' = HolderOf(a)
  BY SamePlace
<1>2. QED
  BY <1>1 DEF Promise!vars

\* A step at one attempt.
LEMMA MoveOne ==
  ASSUME NEW a \in Attempts, NEW p, NEW h, PhaseOf(a)' = p, HolderOf(a)' = h,
         \A b \in Attempts \ {a} : PhaseOf(b)' = PhaseOf(b) /\ HolderOf(b)' = HolderOf(b)
  PROVE  /\ [b \in Attempts |-> PhaseOf(b)]' = [[b \in Attempts |-> PhaseOf(b)] EXCEPT ![a] = p]
         /\ [b \in Attempts |-> HolderOf(b)]' = [[b \in Attempts |-> HolderOf(b)] EXCEPT ![a] = h]
OBVIOUS

\* Begin, when a claim made r the owner of a free attempt.
LEMMA BeginStep ==
  ASSUME SingleOwner, SingleOwner', UNCHANGED <<ask, out>>, NEW r \in Requests,
         NEW a \in Attempts, AttemptOf(r) = a, row[a].status \in {"absent", "failed"},
         row'[a].status = "pending", Owns(r)',
         \A b \in Attempts : b # a => row'[b] = row[b],
         \A s \in Requests : s # r => (Owns(s)' <=> Owns(s)),
         ~Owns(r)
  PROVE  Promise!Next
<1>1. PhaseOf(a) = "free"
  BY DEF PhaseOf
<1>2. PhaseOf(a)' = "busy" /\ HolderOf(a)' = r
  BY HolderWillBe, AsksFixed DEF PhaseOf
<1>3. \A b \in Attempts \ {a} : PhaseOf(b)' = PhaseOf(b) /\ HolderOf(b)' = HolderOf(b)
  BY SamePlace
<1>4. Promise!Begin(a, r)
  <2>1. {s \in out : Keyed(s)}' = {s \in out : Keyed(s)}
    BY DEF Keyed
  <2>2. [b \in Attempts |-> PhaseOf(b)][a] = "free"
    BY <1>1
  <2>3. QED
    BY <1>2, <1>3, <2>1, <2>2, MoveOne DEF Promise!Begin
<1>5. QED
  BY <1>4 DEF Promise!Next

\* Complete or GiveBack, when finish_send ended the ownership of r.
LEMMA LeaveStep ==
  ASSUME SingleOwner, SingleOwner', UNCHANGED <<ask, out>>, NEW r \in Requests,
         NEW a \in Attempts, AttemptOf(r) = a, row[a].status = "pending", Owns(r), ~Owns(r)',
         \/ row'[a].status = "failed"
         \/ row'[a].status = "sent" /\ r \in out,
         \A b \in Attempts : b # a => row'[b] = row[b],
         \A s \in Requests : s # r => (Owns(s)' <=> Owns(s))
  PROVE  Promise!Next
<1>1. PhaseOf(a) = "busy" /\ HolderOf(a) = r
  BY HolderIs DEF PhaseOf
<1>2. HolderOf(a)' = None
  <2>1. ~Owned(a)'
    BY AsksFixed DEF Owned, SingleOwner, SameAttempt, Owns
  <2>2. QED
    BY <2>1 DEF HolderOf
<1>3. \A b \in Attempts \ {a} : PhaseOf(b)' = PhaseOf(b) /\ HolderOf(b)' = HolderOf(b)
  BY SamePlace
<1>4. {s \in out : Keyed(s)}' = {s \in out : Keyed(s)}
  BY DEF Keyed
<1>5. /\ [b \in Attempts |-> PhaseOf(b)][a] = "busy"
      /\ [b \in Attempts |-> HolderOf(b)][a] = r
  BY <1>1
<1>6. CASE row'[a].status = "failed"
  <2>1. PhaseOf(a)' = "free"
    BY <1>6 DEF PhaseOf
  <2>2. Promise!GiveBack(a)
    BY <1>2, <1>3, <1>4, <1>5, <2>1, MoveOne DEF Promise!GiveBack, Promise!Leave
  <2>3. QED
    BY <2>2 DEF Promise!Next
<1>7. CASE row'[a].status = "sent" /\ r \in out
  <2>1. PhaseOf(a)' = "done"
    BY <1>7 DEF PhaseOf
  <2>2. r \in {s \in out : Keyed(s)}
    BY <1>7 DEF Owns
  <2>3. Promise!Complete(a)
    BY <1>2, <1>3, <1>4, <1>5, <2>1, <2>2, MoveOne DEF Promise!Complete, Promise!Leave
  <2>4. QED
    BY <2>3 DEF Promise!Next
<1>8. QED
  BY <1>6, <1>7

\* Vanish, when owners end with their rows untouched.
LEMMA VanishStep ==
  ASSUME IInv, SingleOwner', UNCHANGED <<row, ask, out>>,
         \A r \in Requests : Owns(r)' => Owns(r)
  PROVE  Promise!Next \/ UNCHANGED Promise!vars
<1> DEFINE A == {a \in Attempts : Owned(a) /\ ~(Owned(a)')}
<1>1. SingleOwner
  BY IInvOwner
<1>2. {s \in out : Keyed(s)}' = {s \in out : Keyed(s)}
  BY DEF Keyed
<1>3. \A a \in A : PhaseOf(a) = "busy" /\ PhaseOf(a)' = "lost" /\ HolderOf(a)' = None
  <2> SUFFICES ASSUME NEW a \in A
               PROVE  PhaseOf(a) = "busy" /\ PhaseOf(a)' = "lost" /\ HolderOf(a)' = None
    OBVIOUS
  <2>1. PICK r \in Requests : Owns(r) /\ AttemptOf(r) = a
    BY DEF Owned
  <2>2. row[a].status = "pending"
    BY <2>1, OwnersBlock
  <2>3. QED
    BY <2>2 DEF PhaseOf, HolderOf
<1>4. \A a \in Attempts \ A : PhaseOf(a)' = PhaseOf(a) /\ HolderOf(a)' = HolderOf(a)
  <2> SUFFICES ASSUME NEW a \in Attempts \ A
               PROVE  PhaseOf(a)' = PhaseOf(a) /\ HolderOf(a)' = HolderOf(a)
    OBVIOUS
  <2>1. \A r \in Requests : AttemptOf(r) = a => (Owns(r)' <=> Owns(r))
    <3> SUFFICES ASSUME NEW r \in Requests, AttemptOf(r) = a, Owns(r)
                 PROVE  Owns(r)'
      OBVIOUS
    <3>1. Owned(a)'
      BY DEF Owned
    <3>2. PICK s \in Requests : Owns(s)' /\ AttemptOf(s)' = a
      BY <3>1 DEF Owned
    <3>3. Owns(s) /\ AttemptOf(s) = a
      BY <3>2, AsksFixed
    <3>4. s = r
      BY <1>1, <3>3 DEF SingleOwner, SameAttempt, Owns
    <3>5. QED
      BY <3>2, <3>4
  <2>2. QED
    BY <1>1, <2>1, SamePlace
<1>5. CASE A = {}
  BY <1>2, <1>4, <1>5 DEF Promise!vars
<1>6. CASE A # {}
  <2>1. Promise!Vanish(A)
    BY <1>2, <1>3, <1>4, <1>6 DEF Promise!Vanish
  <2>2. A \in SUBSET Attempts
    OBVIOUS
  <2>3. QED
    BY <2>1, <2>2 DEF Promise!Next
<1>7. QED
  BY <1>5, <1>6

\* HandOver, when an owner's message goes to the transports.
LEMMA HandOverStep ==
  ASSUME IInv, IInv', UNCHANGED <<row, ask>>, NEW r \in Requests, NEW a \in Attempts,
         AttemptOf(r) = a, Owns(r), out' = out \cup {r},
         \A s \in Requests : Owns(s)' <=> Owns(s)
  PROVE  Promise!Next
<1>1. SingleOwner /\ SingleOwner'
  BY DEF IInv, SingleBlocker, SingleOwner, Owns, Blocks, Running, TaskOrder
<1>2. \A b \in Attempts : PhaseOf(b)' = PhaseOf(b) /\ HolderOf(b)' = HolderOf(b)
  BY <1>1, SamePlace
<1>3. PhaseOf(a) = "busy" /\ HolderOf(a) = r
  BY <1>1, HolderIs, OwnersBlock DEF PhaseOf
<1>4. {s \in out : Keyed(s)}' = {s \in out : Keyed(s)} \cup {r}
  BY AsksFixed DEF Owns, Keyed
<1>5. Promise!HandOver(a)
  <2>1. /\ [b \in Attempts |-> PhaseOf(b)][a] = "busy"
        /\ [b \in Attempts |-> HolderOf(b)][a] = r
    BY <1>3
  <2>2. QED
    BY <1>2, <1>4, <2>1 DEF Promise!HandOver
<1>6. QED
  BY <1>5 DEF Promise!Next

\* Every step is one of the promise's, or moves nothing it speaks of.
LEMMA PromiseStep ==
  ASSUME IInv, IInv', OkIsFiled, [Next]_vars
  PROVE  Promise!Next \/ UNCHANGED Promise!vars
<1> USE DEF IInv, TypeOK
<1>1. SingleOwner /\ SingleOwner'
  BY DEF SingleBlocker, SingleOwner, Owns, Blocks, Running, TaskOrder
<1>2. UNCHANGED ask
  BY NextKeepsAsks
<1>3. ASSUME UNCHANGED <<row, out>>, \A r \in Requests : Owns(r)' => Owns(r)
      PROVE  Promise!Next \/ UNCHANGED Promise!vars
  BY <1>1, <1>2, <1>3, VanishStep
<1>4. ASSUME NEW r \in Requests,
             \/ Refuse(r) \/ RejectKey(r) \/ Start(r) \/ Select(r) \/ Spawn(r) \/ Report(r)
             \/ ClaimError(r) \/ Disconnect(r) \/ FailEarly(r) \/ SendReturns(r)
             \/ FinishFails(r) \/ TaskPanics(r)
      PROVE  Promise!Next \/ UNCHANGED Promise!vars
  <2>1. UNCHANGED <<row, out>>
    BY <1>4 DEF Refuse, RejectKey, Start, Select, Spawn, Report, ClaimError, Disconnect,
                FailEarly, SendReturns, FinishFails, TaskPanics
  <2>2. CASE Start(r)
    <3>1. \A s \in Requests : Owns(s)' => Owns(s)
      BY <2>2 DEF Start, Owns, Keyed
    <3>2. QED
      BY <1>3, <2>1, <3>1
  <2>3. CASE ~Start(r)
    <3>1. \A s \in Requests : Owns(s)' => Owns(s)
      BY <1>4, <2>3, AsksFixed
         DEF Refuse, RejectKey, Select, Spawn, Report, Answer, ClaimError,
             Disconnect, FailEarly, SendReturns, FinishFails, TaskPanics, Owns, Running
    <3>2. QED
      BY <1>3, <2>1, <3>1
  <2>4. QED
    BY <2>2, <2>3
<1>5. ASSUME NEW r \in Requests, Insert(r) \/ Reclaim(r)
      PROVE  Promise!Next \/ UNCHANGED Promise!vars
  <2>1. Keyed(r) /\ task[r] = "none" /\ ~Owns(r)
    BY <1>5 DEF Insert, Reclaim, KeyedClaims, TaskOrder, Owns, Running
  <2>2. PICK a \in Attempts : AttemptOf(r) = a
    BY <2>1, AttemptType
  <2>3. \A s \in Requests : s # r => (Owns(s)' <=> Owns(s))
    BY <1>5, <1>2, AsksFixed DEF Insert, Reclaim, Answer, Owns
  <2>4. UNCHANGED out
    BY <1>5 DEF Insert, Reclaim
  <2>5. CASE pc'[r] = "claimed"
    <3>1. /\ row[a].status \in {"absent", "failed"}
          /\ row'[a].status = "pending"
          /\ \A b \in Attempts : b # a => row'[b] = row[b]
      BY <1>5, <2>2, <2>5 DEF Insert, Reclaim, Reclaimable, Answer, Rows
    <3>2. Owns(r)'
      BY <1>2, <2>1, <2>5, AsksFixed DEF Owns
    <3>3. QED
      BY <1>1, <1>2, <2>1, <2>2, <2>3, <2>4, <3>1, <3>2, BeginStep
  <2>6. CASE pc'[r] # "claimed"
    <3>1. UNCHANGED row /\ ~Owns(r)'
      BY <1>5, <1>2, <2>1, <2>6, AsksFixed DEF Insert, Reclaim, Answer, Owns, Running
    <3>2. QED
      BY <1>3, <2>3, <2>4, <3>1
  <2>7. QED
    BY <2>5, <2>6
<1>6. ASSUME NEW r \in Requests, HandOver(r)
      PROVE  Promise!Next \/ UNCHANGED Promise!vars
  <2>1. UNCHANGED row /\ out' = out \cup {r} /\ task[r] = "running"
    BY <1>6 DEF HandOver
  <2>2. \A s \in Requests : Owns(s)' <=> Owns(s)
    BY <1>6, AsksFixed DEF HandOver, Owns, Running
  <2>3. CASE Keyed(r)
    <3>1. PICK a \in Attempts : AttemptOf(r) = a
      BY <2>3, AttemptType
    <3>2. Owns(r)
      BY <2>1, <2>3 DEF Owns, Running
    <3>3. QED
      BY <1>2, <2>1, <2>2, <3>1, <3>2, HandOverStep
  <2>4. CASE ~Keyed(r)
    <3>1. {s \in out' : Keyed(s)'} = {s \in out : Keyed(s)}
      BY <1>2, <2>1, <2>4, AsksFixed
    <3>2. QED
      BY <1>1, <1>2, <2>1, <2>2, <3>1, Unmoved
  <2>5. QED
    BY <2>3, <2>4
<1>7. ASSUME NEW r \in Requests, Finish(r)
      PROVE  Promise!Next \/ UNCHANGED Promise!vars
  <2>1. task[r] = "finishing" /\ result[r] \in {"ok", "err"} /\ UNCHANGED <<pc, out>>
    BY <1>7 DEF Finish, TaskOrder
  <2>2. \A s \in Requests : s # r => (Owns(s)' <=> Owns(s))
    BY <1>7, <1>2, AsksFixed DEF Finish, Owns
  <2>3. ~Owns(r)'
    BY <1>7, <1>2, AsksFixed DEF Finish, Owns, TaskOrder, Running
  <2>4. CASE Keyed(r)
    <3>1. PICK a \in Attempts : AttemptOf(r) = a
      BY <2>4, AttemptType
    <3>2. Owns(r)
      BY <2>1, <2>4 DEF Owns, Running
    <3>3. row[a].status = "pending"
      BY <3>1, <3>2, OwnersBlock
    <3>4. /\ row'[a].status = OutcomeStatus(result[r])
          /\ \A b \in Attempts : b # a => row'[b] = row[b]
      BY <1>7, <2>4, <3>1 DEF Finish, Rows
    <3>5. row'[a].status = "failed" \/ (row'[a].status = "sent" /\ r \in out)
      <4>1. result[r] = "ok" => r \in out
        BY DEF OkIsFiled
      <4>2. CASE result[r] = "ok"
        BY <3>4, <4>1, <4>2 DEF OutcomeStatus
      <4>3. CASE result[r] # "ok"
        BY <3>4, <4>3 DEF OutcomeStatus
      <4>4. QED
        BY <4>2, <4>3
    <3>6. QED
      BY <1>1, <1>2, <2>1, <2>2, <2>3, <3>1, <3>2, <3>3, <3>4, <3>5, LeaveStep
  <2>5. CASE ~Keyed(r)
    <3>1. UNCHANGED row /\ ~Owns(r)
      BY <1>7, <2>5 DEF Finish, Owns
    <3>2. QED
      BY <1>3, <2>1, <2>2, <2>3, <3>1
  <2>6. QED
    BY <2>4, <2>5
<1>8. ASSUME Crash \/ Tick \/ UNCHANGED vars
      PROVE  Promise!Next \/ UNCHANGED Promise!vars
  <2>1. UNCHANGED <<row, out>> /\ \A s \in Requests : Owns(s)' => Owns(s)
    BY <1>8, <1>2, AsksFixed DEF Crash, Tick, vars, Owns, Running, InHandler
  <2>2. QED
    BY <1>3, <2>1
<1>9. QED
  BY <1>4, <1>5, <1>6, <1>7, <1>8 DEF Next, HandlerStep, TaskStep

LEMMA PromiseInit == Init => Promise!Init
<1> SUFFICES ASSUME Init PROVE Promise!Init
  OBVIOUS
<1>1. \A a \in Attempts : PhaseOf(a) = "free"
  BY DEF Init, PhaseOf, NoRow
<1>2. \A r \in Requests : ~Owns(r)
  BY DEF Init, Owns, Running
<1>3. \A a \in Attempts : HolderOf(a) = None
  BY <1>2 DEF HolderOf, Owned
<1>4. {r \in out : Keyed(r)} = {}
  BY DEF Init
<1>5. QED
  BY <1>1, <1>3, <1>4 DEF Promise!Init

\* The rows, handlers and tasks of send_guard.rs and send.rs keep the promise of the
\* Idempotency-Key, whatever the number of requests and keys and however they race.
THEOREM PromiseKept == Spec => KeepsPromise
<1>1. IInv /\ IInv' /\ OkIsFiled /\ [Next]_vars => [Promise!Next]_(Promise!vars)
  BY PromiseStep
<1>2. QED
  BY <1>1, PromiseInit, AlwaysGenuine, PTL DEF Spec, KeepsPromise, Promise!Spec, RInv
=============================================================================
