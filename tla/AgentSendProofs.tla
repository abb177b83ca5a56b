-------------------------- MODULE AgentSendProofs --------------------------
(***************************************************************************)
(* Theorems about AgentSend, for any number of calls, capabilities,        *)
(* mailboxes and payloads, any limit and any lifetimes.                    *)
(*                                                                         *)
(* The argument: whatever a mail needs is settled when its call passes the *)
(* step that asks for it - the conversation, the confirmation, the look    *)
(* for an earlier mail, the budget - and nothing another call does takes   *)
(* it back: a spent confirmation stays spent, a counted send stays         *)
(* counted, what was filed stays filed, and what left Sent was there once. *)
(***************************************************************************)
EXTENDS AgentSend, FiniteSetTheorems, SequenceTheorems, TLAPS

LEMMA DayType ==
  ASSUME NEW t \in Times
  PROVE  t \div DayLength \in Times
BY TimeAssumption DEF Times

\* What a call at a given step has been given: its caller is the capability's, the
\* confirmation it presents exists, its day was read.
Given ==
  \A c \in Calls :
    /\ pc[c] \in {"thread", "ready"} => call[c].caller \in Callers
    /\ pc[c] # "new" /\ call[c].conf # None => confs[call[c].conf] \in ConfRows
    /\ pc[c] \in {"count", "send"} => day[c] \in Times

LEMMA TypeInit == Init => TypeOK /\ Given
<1> SUFFICES ASSUME Init PROVE TypeOK /\ Given
  OBVIOUS
<1>1. 0 \in Times
  BY TimeAssumption DEF Times
<1> QED BY <1>1 DEF Init, TypeOK, Given, Steps

\* Rows are only added to Sent; of one that is there the place may change, and one that
\* was always there was so before.
Kept ==
  \A b \in Boxes :
    /\ Len(rows[b]) <= Len(rows'[b])
    /\ \A i \in 1..Len(rows[b]) : /\ rows'[b][i].payload = rows[b][i].payload
                                  /\ rows'[b][i].at = rows[b][i].at
                                  /\ rows'[b][i].place = "sent" => rows[b][i].place = "sent"

\* A call that begins gets a request and remembers what was so.
LEMMA TypeBegin ==
  ASSUME TypeOK, Given, NEW c \in Calls, NEW request \in Requests,
         request.conf # None => confs[request.conf] \in ConfRows,
         NEW step \in {"thread", "ready", "dedup"},
         step # "dedup" => request.caller \in Callers,
         Begin(c, request, step)
  PROVE  TypeOK' /\ Given'
<1> USE DEF Begin, Goto, settings, tables, sends
<1>1. pc' \in [Calls -> Steps] /\ call' \in [Calls -> Requests \cup {None}]
  BY DEF TypeOK, Steps
<1>2. \A d \in Calls : pc'[d] # "new" => call'[d] \in Requests
  BY DEF TypeOK
<1>3. before' \in [Calls -> [moved : BOOLEAN, rows : Nat] \cup {None}]
  <2>1. Now(request.box) \in [moved : BOOLEAN, rows : Nat]
    <3>1. rows[request.box] \in Seq(SentRows)
      BY DEF TypeOK, Requests
    <3> QED BY <3>1, LenProperties DEF Now
  <2> QED BY <2>1 DEF TypeOK
<1>4. TypeOK'
  BY <1>1, <1>2, <1>3 DEF TypeOK
<1>5. Given'
  BY DEF TypeOK, Given
<1> QED BY <1>4, <1>5

\* Sent gets a row at its end ...
LEMMA FiledType ==
  ASSUME TypeOK, NEW b \in Boxes, NEW p \in Payloads,
         NEW place \in {"sent", "away"}, Filed(b, p, place)
  PROVE  /\ rows' \in [Boxes -> Seq(SentRows)]
         /\ Kept
<1> DEFINE row == [payload |-> p, at |-> clock, place |-> place]
<1>1. row \in SentRows
  BY DEF TypeOK, SentRows
<1>2. rows' = [rows EXCEPT ![b] = Append(@, row)]
  BY DEF Filed
<1> HIDE DEF row
<1>3. rows[b] \in Seq(SentRows)
  BY DEF TypeOK
<1>4. Append(rows[b], row) \in Seq(SentRows) /\ Len(Append(rows[b], row)) = Len(rows[b]) + 1
      /\ \A i \in 1..Len(rows[b]) : Append(rows[b], row)[i] = rows[b][i]
  BY <1>1, <1>3, AppendProperties
<1>5. rows' \in [Boxes -> Seq(SentRows)]
  BY <1>2, <1>4 DEF TypeOK
<1>6. ASSUME NEW x \in Boxes
      PROVE  /\ Len(rows[x]) <= Len(rows'[x])
             /\ \A i \in 1..Len(rows[x]) : rows'[x][i] = rows[x][i]
  <2>1. rows[x] \in Seq(SentRows) /\ Len(rows[x]) \in Nat
    BY LenProperties DEF TypeOK
  <2> QED BY <1>2, <1>4, <2>1 DEF TypeOK
<1> QED BY <1>5, <1>6 DEF Kept

\* ... and keeps its length when a row is moved.
LEMMA RefileType ==
  ASSUME TypeOK, NEW b \in Boxes, NEW i \in DOMAIN rows[b], Refile(b, i)
  PROVE  /\ rows' \in [Boxes -> Seq(SentRows)]
         /\ Kept
<1> DEFINE place == IF rows[b][i].place = "away" THEN "back" ELSE "away"
<1>1. /\ \A x \in Boxes : x # b => rows'[x] = rows[x]
      /\ rows'[b] = [rows[b] EXCEPT ![i] = [rows[b][i] EXCEPT !.place = place]]
      /\ rows' = [x \in Boxes |-> rows'[x]]
  BY DEF Refile, TypeOK
<1>2. place \in {"away", "back"}
  OBVIOUS
<1> HIDE DEF place
<1> DEFINE row == [rows[b][i] EXCEPT !.place = place]
           new == [rows[b] EXCEPT ![i] = row]
<1>3. rows[b] \in Seq(SentRows) /\ Len(rows[b]) \in Nat /\ DOMAIN rows[b] = 1..Len(rows[b])
  BY LenProperties DEF TypeOK
<1>4. rows[b][i] \in SentRows
  BY <1>3, ElementOfSeq
<1>5. row \in SentRows /\ row.payload = rows[b][i].payload /\ row.at = rows[b][i].at /\ row.place # "sent"
  BY <1>2, <1>4 DEF SentRows
<1> HIDE DEF row
<1>6. new \in Seq(SentRows) /\ Len(new) = Len(rows[b])
      /\ \A j \in 1..Len(rows[b]) : new[j] = IF j = i THEN row ELSE rows[b][j]
  BY <1>3, <1>5, ExceptSeq
<1>7. rows'[b] = new
  BY <1>1 DEF row
<1> HIDE DEF new
<1>8. rows' \in [Boxes -> Seq(SentRows)]
  <2>1. \A x \in Boxes : rows'[x] \in Seq(SentRows)
    BY <1>1, <1>6, <1>7 DEF TypeOK
  <2> QED BY <1>1, <2>1
<1>9. ASSUME NEW x \in Boxes
      PROVE  /\ Len(rows[x]) <= Len(rows'[x])
             /\ \A j \in 1..Len(rows[x]) : /\ rows'[x][j].payload = rows[x][j].payload
                                           /\ rows'[x][j].at = rows[x][j].at
                                           /\ rows'[x][j].place = "sent" => rows[x][j].place = "sent"
  <2>1. Len(rows[x]) \in Nat
    BY LenProperties DEF TypeOK
  <2>2. CASE x = b
    BY <1>3, <1>5, <1>6, <1>7, <2>1, <2>2
  <2>3. CASE x # b
    BY <1>1, <2>1, <2>3
  <2> QED BY <2>2, <2>3
<1>10. Kept
  BY <1>9 DEF Kept
<1> QED BY <1>8, <1>10

LEMMA TypeStep == TypeOK /\ Given /\ [Next]_vars => TypeOK' /\ Given'
<1> SUFFICES ASSUME TypeOK, Given, [Next]_vars PROVE TypeOK' /\ Given'
  OBVIOUS
<1> USE DEF settings, tables, sends
<1>1. ASSUME NEW c \in Calls, CheckThread(c) PROVE TypeOK' /\ Given'
  BY <1>1 DEF CheckThread, Goto, Steps, TypeOK, Given
<1>2. ASSUME NEW c \in Calls, Confirm(c) PROVE TypeOK' /\ Given'
  <2>1. PICK life \in Life :
          confs' = [confs EXCEPT ![c] =
                      Confirmation(Box(c), call[c].caller, call[c].payload, life)]
    BY <1>2 DEF Confirm
  <2>2. call[c] \in Requests /\ call[c].caller \in Callers /\ c \in ConfIds
    BY <1>2 DEF Confirm, TypeOK, Given, ConfIds
  <2>3. Confirmation(Box(c), call[c].caller, call[c].payload, life) \in ConfRows
    BY <2>2, TimeAssumption DEF Confirmation, ConfRows, Requests, Box, TypeOK, Times
  <2>4. confs' \in [ConfIds -> ConfRows \cup {None}]
    BY <2>1, <2>3 DEF TypeOK
  <2>5. \A k \in ConfIds : confs[k] \in ConfRows => confs'[k] \in ConfRows
    BY <2>1, <2>3 DEF TypeOK
  <2>6. TypeOK'
    BY <1>2, <2>4 DEF Confirm, Goto, Steps, TypeOK
  <2>7. Given'
    BY <1>2, <2>5 DEF Confirm, Goto, TypeOK, Given, Requests
  <2> QED BY <2>6, <2>7
<1>3. ASSUME NEW c \in Calls, Consume(c) PROVE TypeOK' /\ Given'
  <2> DEFINE k == call[c].conf
  <2>1. k \in ConfIds /\ confs[k] \in ConfRows
    BY <1>3 DEF Consume, TypeOK, Given, Requests
  <2>2. confs' = [confs EXCEPT ![k].used = clock]
    BY <1>3 DEF Consume
  <2>3. confs'[k] \in ConfRows /\ confs' \in [ConfIds -> ConfRows \cup {None}]
    BY <2>1, <2>2 DEF TypeOK, ConfRows
  <2>4. \A j \in ConfIds : confs[j] \in ConfRows => confs'[j] \in ConfRows
    BY <2>2, <2>3 DEF TypeOK
  <2>5. TypeOK'
    BY <1>3, <2>3 DEF Consume, Goto, Steps, TypeOK
  <2>6. Given'
    BY <1>3, <2>4 DEF Consume, Goto, TypeOK, Given, Requests
  <2> QED BY <2>5, <2>6
<1>4. ASSUME NEW c \in Calls, Dedup(c) PROVE TypeOK' /\ Given'
  <2>1. unread' \subseteq Calls
    BY <1>4 DEF Dedup, TypeOK
  <2> QED BY <1>4, <2>1 DEF Dedup, Goto, Steps, TypeOK, Given
<1>5. ASSUME NEW c \in Calls, ReadDay(c) PROVE TypeOK' /\ Given'
  <2>1. clock \div DayLength \in Times
    BY DayType DEF TypeOK
  <2> QED BY <1>5, <2>1 DEF ReadDay, Goto, Steps, TypeOK, Given
<1>6. ASSUME NEW c \in Calls, Count(c) PROVE TypeOK' /\ Given'
  <2>1. Box(c) \in Boxes /\ day[c] \in Times
    BY <1>6 DEF Count, TypeOK, Given, Box, Requests
  <2>2. counts' \in [Boxes -> [Times -> Nat]]
    BY <1>6, <2>1 DEF Count, TypeOK
  <2> QED BY <1>6, <2>2 DEF Count, Goto, Steps, TypeOK, Given
<1>7. ASSUME NEW c \in Calls, HandOver(c) PROVE TypeOK' /\ Given'
  BY <1>7 DEF HandOver, Goto, Steps, TypeOK, Given
<1>8. ASSUME NEW c \in Calls, File(c) PROVE TypeOK' /\ Given'
  <2>1. moved' \subseteq Boxes
    BY <1>8 DEF File, TypeOK, Box, Requests
  <2>2. Box(c) \in Boxes /\ call[c].payload \in Payloads
    BY <1>8 DEF File, TypeOK, Box, Requests
  <2>3. rows' \in [Boxes -> Seq(SentRows)]
    BY <1>8, <2>2, FiledType DEF File
  <2> QED BY <1>8, <2>1, <2>3 DEF File, Goto, Steps, TypeOK, Given
<1>9. ASSUME NEW c \in Calls, End(c) PROVE TypeOK' /\ Given'
  BY <1>9 DEF End, Stop, Goto, Steps, TypeOK, Given
<1>10. ASSUME NEW c \in Calls, NEW g \in Grants, NEW tool \in {"send", "reply"},
              NEW k \in ConfIds \cup {None}, NEW p \in Payloads, Authorized(c, g, tool, k, p)
       PROVE  TypeOK' /\ Given'
  <2> DEFINE request == [tool |-> tool, box |-> grants[g].box, caller |-> grants[g].caller,
                         conf |-> k, payload |-> p]
             step == IF tool = "reply" THEN "thread" ELSE "ready"
  <2>1. grants[g] \in GrantRows
    BY <1>10 DEF Authorized, Live, TypeOK
  <2>2. request \in Requests /\ request.caller \in Callers
    BY <2>1 DEF GrantRows, Requests
  <2>3. k # None => confs[k] \in ConfRows
    BY <1>10 DEF Authorized, TypeOK
  <2>4. Begin(c, request, step)
    BY <1>10 DEF Authorized
  <2> QED BY <2>2, <2>3, <2>4, TypeBegin
<1>11. ASSUME NEW c \in Calls, NEW b \in Boxes, NEW p \in Payloads, Trusted(c, b, p)
       PROVE  TypeOK' /\ Given'
  <2> DEFINE request == [tool |-> "legacy", box |-> b, caller |-> None, conf |-> None,
                         payload |-> p]
  <2>1. request \in Requests
    BY DEF Requests
  <2>2. Begin(c, request, "dedup")
    BY <1>11 DEF Trusted
  <2> QED BY <2>1, <2>2, TypeBegin
<1>12. ASSUME NEW g \in Grants, NEW b \in Boxes, NEW who \in Callers, NEW life \in Life,
              Issue(g, b, who, life)
       PROVE  TypeOK' /\ Given'
  <2>1. grants' \in [Grants -> GrantRows \cup {None}]
    BY <1>12, TimeAssumption DEF Issue, TypeOK, GrantRows, Times
  <2> QED BY <1>12, <2>1 DEF Issue, TypeOK, Given
<1>13. ASSUME NEW g \in Grants, Revoke(g) PROVE TypeOK' /\ Given'
  <2>1. grants' \in [Grants -> GrantRows \cup {None}]
    BY <1>13 DEF Revoke, TypeOK, GrantRows
  <2> QED BY <1>13, <2>1 DEF Revoke, TypeOK, Given
<1>14. ASSUME NEW k \in Extra, NEW b \in Boxes, NEW who \in Callers, NEW p \in Payloads,
              NEW life \in Life, AdminConfirms(k, b, who, p, life)
       PROVE  TypeOK' /\ Given'
  <2>1. Confirmation(b, who, p, life) \in ConfRows
    BY TimeAssumption DEF Confirmation, ConfRows, TypeOK, Times
  <2>2. confs' = [confs EXCEPT ![k] = Confirmation(b, who, p, life)]
    BY <1>14 DEF AdminConfirms
  <2>3. confs' \in [ConfIds -> ConfRows \cup {None}]
    BY <2>1, <2>2 DEF TypeOK
  <2>4. \A j \in ConfIds : confs[j] \in ConfRows => confs'[j] \in ConfRows
    BY <2>1, <2>2 DEF TypeOK
  <2>5. TypeOK'
    BY <1>14, <2>3 DEF AdminConfirms, TypeOK
  <2>6. Given'
    BY <1>14, <2>4 DEF AdminConfirms, TypeOK, Given, Requests
  <2> QED BY <2>5, <2>6
<1>15. ASSUME NEW b \in Boxes, Arrives(b) \/ DeleteMailbox(b) PROVE TypeOK' /\ Given'
  BY <1>15 DEF Arrives, DeleteMailbox, TypeOK, Given
<1>19. ASSUME NEW b \in Boxes, NEW p \in Payloads, NEW place \in {"sent", "away"},
              PersonSends(b, p, place)
       PROVE  TypeOK' /\ Given'
  BY <1>19, FiledType DEF PersonSends, TypeOK, Given
<1>20. ASSUME NEW b \in Boxes, NEW i \in DOMAIN rows[b], Refile(b, i) PROVE TypeOK' /\ Given'
  BY <1>20, RefileType DEF Refile, TypeOK, Given
<1>16. CASE Tick
  BY <1>16, TimeAssumption DEF Tick, TypeOK, Given, Times
<1>17. CASE UNCHANGED vars
  BY <1>17 DEF vars, TypeOK, Given
<1>18. ASSUME NEW c \in Calls, Step(c) PROVE TypeOK' /\ Given'
  BY <1>1, <1>2, <1>3, <1>4, <1>5, <1>6, <1>7, <1>8, <1>9, <1>18 DEF Step
<1> QED BY <1>10, <1>11, <1>12, <1>13, <1>14, <1>15, <1>16, <1>17, <1>18, <1>19, <1>20, Zenon DEF Next

\* The rows, the calls and the counters keep their shape.
THEOREM AgentTypes == Spec => []TypeOK
<1>1. Spec => [](TypeOK /\ Given)
  BY TypeInit, TypeStep, PTL DEF Spec
<1> QED BY <1>1, PTL

-----------------------------------------------------------------------------
(* What a step leaves alone.                                               *)

\* A call that has what a mail needs, and goes on until its mail is out - or
\* ended after it was.
Holds(c) == pc[c] \in {"spent", "count", "send", "sent"} \/ handed[c] # None

\* Which steps a call has behind it at each point.
Stage ==
  \A c \in Calls :
    /\ handed[c] # None => pc[c] \in {"sent", "end"}
    /\ pc[c] = "dedup" => mode = "v1" /\ call[c].tool = "legacy" /\ ~Confirmed(c)
    /\ mode = "v2" /\ Holds(c) => Confirmed(c)
    /\ pc[c] # "end" => confs[c] = None

\* A request, and what was so when it came in, are never changed.
LEMMA CallsKept ==
  ASSUME TypeOK, [Next]_vars, NEW c \in Calls, pc[c] # "new"
  PROVE  pc'[c] # "new" /\ call'[c] = call[c] /\ before'[c] = before[c]
<1> USE DEF TypeOK, Goto, settings, tables, sends
<1>1. ASSUME NEW d \in Calls, Step(d)
      PROVE  pc'[c] # "new" /\ call'[c] = call[c] /\ before'[c] = before[c]
  BY <1>1 DEF Step, CheckThread, Confirm, Consume, Dedup, ReadDay, Count, HandOver, File, End, Stop
<1>2. ASSUME NEW d \in Calls, NEW request, NEW step \in {"thread", "ready", "dedup"},
             Begin(d, request, step)
      PROVE  pc'[c] # "new" /\ call'[c] = call[c] /\ before'[c] = before[c]
  BY <1>2 DEF Begin
<1>3. ASSUME NEW d \in Calls, NEW g \in Grants, NEW tool \in {"send", "reply"},
             NEW k \in ConfIds \cup {None}, NEW p \in Payloads, Authorized(d, g, tool, k, p)
      PROVE  pc'[c] # "new" /\ call'[c] = call[c] /\ before'[c] = before[c]
  BY <1>2, <1>3 DEF Authorized
<1>4. ASSUME NEW d \in Calls, NEW b \in Boxes, NEW p \in Payloads, Trusted(d, b, p)
      PROVE  pc'[c] # "new" /\ call'[c] = call[c] /\ before'[c] = before[c]
  BY <1>2, <1>4 DEF Trusted
<1>5. CASE UNCHANGED <<pc, call, before>>
  BY <1>5
<1> QED BY <1>1, <1>3, <1>4, <1>5
        DEF Next, Issue, Revoke, AdminConfirms, Arrives, DeleteMailbox, PersonSends, Refile, Tick, vars
\* Only the steps of a call change its place, its mail and its Sent row.
LEMMA OthersKept ==
  ASSUME TypeOK, NEW c \in Calls, NEW d \in Calls, d # c, Step(c)
  PROVE  pc'[d] = pc[d] /\ handed'[d] = handed[d] /\ day'[d] = day[d]
BY DEF TypeOK, Goto, settings, tables, sends, Step, CheckThread, Confirm, Consume, Dedup,
       ReadDay, Count, HandOver, File, End, Stop

\* What happens around the calls moves none of them, and adds confirmations.
Around ==
  /\ UNCHANGED <<settings, counts, pc, call, before, day, unread, handed>>
  /\ Kept /\ moved \subseteq moved' /\ clock' \in {clock, clock + 1}
  /\ \/ UNCHANGED confs
     \/ \E k \in Extra, row \in ConfRows :
          confs[k] = None /\ row.used = None /\ confs' = [confs EXCEPT ![k] = row]

LEMMA SameRows ==
  ASSUME TypeOK, UNCHANGED rows
  PROVE  Kept
<1>1. \A b \in Boxes : Len(rows[b]) \in Nat
  BY LenProperties DEF TypeOK
<1> QED BY <1>1 DEF Kept

LEMMA AroundKeeps ==
  ASSUME TypeOK,
         \/ \E g \in Grants, b \in Boxes, who \in Callers, life \in Life : Issue(g, b, who, life)
         \/ \E g \in Grants : Revoke(g)
         \/ \E k \in Extra, b \in Boxes, who \in Callers, p \in Payloads, life \in Life :
              AdminConfirms(k, b, who, p, life)
         \/ \E b \in Boxes : Arrives(b) \/ DeleteMailbox(b)
         \/ \E b \in Boxes, p \in Payloads, place \in {"sent", "away"} : PersonSends(b, p, place)
         \/ \E b \in Boxes : \E i \in DOMAIN rows[b] : Refile(b, i)
         \/ Tick
         \/ UNCHANGED vars
  PROVE  Around
<1> USE DEF Around, settings, tables, sends
<1>0. UNCHANGED rows => Kept
  BY SameRows
<1>6. ASSUME NEW b \in Boxes, NEW p \in Payloads, NEW place \in {"sent", "away"},
              PersonSends(b, p, place)
       PROVE  Around
  BY <1>6, FiledType DEF PersonSends
<1>7. ASSUME NEW b \in Boxes, NEW i \in DOMAIN rows[b], Refile(b, i) PROVE Around
  BY <1>7, RefileType DEF Refile
<1>1. ASSUME NEW k \in Extra, NEW b \in Boxes, NEW who \in Callers, NEW p \in Payloads,
             NEW life \in Life, AdminConfirms(k, b, who, p, life)
      PROVE  Around
  <2> DEFINE row == Confirmation(b, who, p, life)
  <2>1. row \in ConfRows /\ row.used = None
    BY TimeAssumption DEF Confirmation, ConfRows, TypeOK, Times
  <2>2. confs[k] = None /\ confs' = [confs EXCEPT ![k] = row]
    BY <1>1 DEF AdminConfirms
  <2> QED BY <1>0, <1>1, <2>1, <2>2 DEF AdminConfirms
<1>2. ASSUME NEW b \in Boxes, Arrives(b) \/ DeleteMailbox(b) PROVE Around
  BY <1>0, <1>2 DEF Arrives, DeleteMailbox
<1>3. ASSUME NEW g \in Grants, NEW b \in Boxes, NEW who \in Callers, NEW life \in Life,
             Issue(g, b, who, life)
      PROVE  Around
  BY <1>0, <1>3 DEF Issue
<1>4. ASSUME NEW g \in Grants, Revoke(g) PROVE Around
  BY <1>0, <1>4 DEF Revoke
<1>5. CASE Tick \/ UNCHANGED vars
  BY <1>0, <1>5 DEF Tick, vars
<1> QED BY <1>1, <1>2, <1>3, <1>4, <1>5, <1>6, <1>7

\* A call that begins has nothing yet.
Begins(c) == \E step \in {"thread", "ready", "dedup"} :
  /\ pc[c] = "new" /\ pc' = [pc EXCEPT ![c] = step]
  /\ call'[c] \in Requests /\ \A d \in Calls : d # c => call'[d] = call[d]
  /\ before' = [before EXCEPT ![c] = Now(Box(c)')]
  /\ step # "dedup" => mode = "v2" /\ call'[c].tool # "legacy"
  /\ step = "dedup" => mode = "v1" /\ call'[c].tool = "legacy" /\ call'[c].conf = None
  /\ step = "ready" => call'[c].tool = "send"
  /\ UNCHANGED <<settings, clock, alive, tables, day, unread, sends>>

LEMMA BeginKinds ==
  ASSUME TypeOK, [Next]_vars
  PROVE  (\E c \in Calls : Step(c) \/ Begins(c)) \/ Around
<1>1. ASSUME NEW c \in Calls, NEW g \in Grants, NEW tool \in {"send", "reply"},
             NEW k \in ConfIds \cup {None}, NEW p \in Payloads, Authorized(c, g, tool, k, p)
      PROVE  Begins(c)
  <2> DEFINE request == [tool |-> tool, box |-> grants[g].box, caller |-> grants[g].caller,
                         conf |-> k, payload |-> p]
             step == IF tool = "reply" THEN "thread" ELSE "ready"
  <2>1. request \in Requests
    BY <1>1 DEF Authorized, Live, TypeOK, GrantRows, Requests
  <2>2. Begin(c, request, step) /\ mode = "v2"
    BY <1>1 DEF Authorized
  <2>3. call'[c] = request /\ \A d \in Calls : d # c => call'[d] = call[d]
    BY <2>2 DEF Begin, TypeOK
  <2>4. Box(c)' = request.box
    BY <2>3 DEF Box
  <2> QED BY <2>1, <2>2, <2>3, <2>4 DEF Begin, Begins, Goto, TypeOK, settings, tables, sends
<1>2. ASSUME NEW c \in Calls, NEW b \in Boxes, NEW p \in Payloads, Trusted(c, b, p)
      PROVE  Begins(c)
  <2> DEFINE request == [tool |-> "legacy", box |-> b, caller |-> None, conf |-> None,
                         payload |-> p]
  <2>1. request \in Requests
    BY DEF Requests
  <2>2. Begin(c, request, "dedup") /\ mode = "v1"
    BY <1>2 DEF Trusted
  <2>3. call'[c] = request /\ \A d \in Calls : d # c => call'[d] = call[d]
    BY <2>2 DEF Begin, TypeOK
  <2>4. Box(c)' = request.box
    BY <2>3 DEF Box
  <2> QED BY <2>1, <2>2, <2>3, <2>4 DEF Begin, Begins, Goto, TypeOK, settings, tables, sends
<1> QED BY <1>1, <1>2, AroundKeeps, Zenon DEF Next

LEMMA StageInit == Init => Stage
BY DEF Init, Stage, Holds, ConfIds

LEMMA StageStep ==
  ASSUME TypeOK, Given, Stage, [Next]_vars
  PROVE  Stage'
<1> USE DEF Goto, settings, tables, sends, Confirmed, Holds
<1>1. ASSUME NEW c \in Calls, Begins(c) PROVE Stage'
  BY <1>1 DEF Begins, TypeOK, Stage
<1>2. ASSUME NEW c \in Calls, Step(c) PROVE Stage'
  <2>1. UNCHANGED <<mode, call>>
    BY <1>2 DEF Step, CheckThread, Confirm, Consume, Dedup, ReadDay, Count, HandOver, File,
                End, Stop
  <2>2. CASE Confirm(c)
    <3>1. \A d \in Calls : d # c => confs'[d] = confs[d] /\ pc'[d] = pc[d]
      BY <2>2 DEF Confirm, TypeOK
    <3> QED BY <2>1, <2>2, <3>1 DEF Confirm, TypeOK, Stage
  <2>3. CASE Consume(c)
    <3>1. \A k \in ConfIds : confs[k] = None => confs'[k] = None
      BY <2>3, RowAssumption DEF Consume, TypeOK, Given
    <3> QED BY <2>1, <2>3, <3>1 DEF Consume, TypeOK, Stage, ConfIds
  <2>4. CASE CheckThread(c) \/ Dedup(c) \/ ReadDay(c) \/ Count(c)
    BY <2>1, <2>4 DEF CheckThread, Dedup, ReadDay, Count, TypeOK, Stage
  <2>5. CASE HandOver(c) \/ File(c) \/ End(c)
    BY <2>1, <2>5 DEF HandOver, File, End, Stop, TypeOK, Stage
  <2> QED BY <1>2, <2>2, <2>3, <2>4, <2>5 DEF Step
<1>3. CASE Around
  <2>1. \A c \in Calls : confs'[c] = confs[c]
    BY <1>3, IdAssumption DEF Around, TypeOK, ConfIds
  <2> QED BY <1>3, <2>1 DEF Around, Stage
<1> QED BY <1>1, <1>2, <1>3, BeginKinds
-----------------------------------------------------------------------------
(* Confirmations.                                                          *)

\* A spent confirmation is never touched again.
LEMMA UsedKept ==
  ASSUME TypeOK, Given, Stage, [Next]_vars, NEW k \in ConfIds,
         confs[k] \in ConfRows, confs[k].used # None
  PROVE  confs'[k] = confs[k]
<1> USE RowAssumption DEF settings, tables, sends
<1>1. ASSUME NEW c \in Calls, Step(c) PROVE confs'[k] = confs[k]
  <2>1. CASE Confirm(c)
    BY <2>1 DEF Confirm, Stage, TypeOK
  <2>2. CASE Consume(c)
    BY <2>2 DEF Consume, Matches, Unspent, TypeOK
  <2>3. CASE UNCHANGED confs
    BY <2>3
  <2> QED BY <1>1, <2>1, <2>2, <2>3
          DEF Step, CheckThread, Dedup, ReadDay, Count, HandOver, File, End, Stop
<1> QED BY <1>1, BeginKinds DEF Around, Begins, TypeOK

\* Only spending a confirmation, or the look for an earlier mail, makes a call hold.
LEMMA HoldStep ==
  ASSUME TypeOK, [Next]_vars, NEW c \in Calls, Holds(c)', ~Holds(c)
  PROVE  Consume(c) \/ Dedup(c)
<1> USE DEF Holds, settings, tables, sends
<1>1. ASSUME NEW d \in Calls, Begins(d) PROVE FALSE
  BY <1>1 DEF Begins, TypeOK
<1>2. ASSUME NEW d \in Calls, Step(d) PROVE Consume(c) \/ Dedup(c)
  <2>1. d = c
    BY <1>2, OthersKept
  <2> QED BY <1>2, <2>1 DEF Step, CheckThread, Confirm, ReadDay, Count, HandOver, File, End,
             Stop, Goto, TypeOK
<1> QED BY <1>1, <1>2, BeginKinds DEF Around

\* What a call holds is a confirmation for exactly what it asks, spent in time, ...
Paid ==
  \A c \in Calls : Holds(c) /\ Confirmed(c) =>
    LET k == confs[call[c].conf]
    IN /\ k.box = Box(c) /\ k.caller = call[c].caller /\ k.payload = call[c].payload
       /\ k.used \in Times /\ k.used < k.expires

\* ... by itself.
SoleHolder ==
  \A c, d \in Calls :
    Holds(c) /\ Holds(d) /\ Confirmed(c) /\ Confirmed(d) /\ call[c].conf = call[d].conf => c = d

LEMMA HolderBegan ==
  ASSUME TypeOK, Given, Stage, NEW c \in Calls, Holds(c)
  PROVE  /\ pc[c] # "new" /\ call[c] \in Requests
         /\ Confirmed(c) => call[c].conf \in ConfIds /\ confs[call[c].conf] \in ConfRows
BY DEF TypeOK, Given, Stage, Holds, Confirmed, Requests

LEMMA PaidInit == Init => Paid /\ SoleHolder
BY DEF Init, Paid, SoleHolder, Holds

LEMMA PaidStep ==
  ASSUME TypeOK, Given, Stage, Paid, SoleHolder, [Next]_vars
  PROVE  Paid' /\ SoleHolder'
<1>1. ASSUME NEW c \in Calls, Holds(c) PROVE call'[c] = call[c]
  BY <1>1, HolderBegan, CallsKept
<1>2. ASSUME NEW c \in Calls, Holds(c), Confirmed(c)
      PROVE  confs'[call[c].conf] = confs[call[c].conf] /\ confs[call[c].conf].used # None
  <2>1. confs[call[c].conf].used # None
    BY <1>2, NoneAssumption DEF Paid, Times
  <2> QED BY <1>2, <2>1, HolderBegan, UsedKept
<1>3. ASSUME NEW c \in Calls, Dedup(c) PROVE ~Confirmed(c)'
  BY <1>3 DEF Dedup, Stage, Confirmed
<1>4. ASSUME NEW c \in Calls, Consume(c)
      PROVE  /\ call' = call /\ call[c].conf \in ConfIds
             /\ confs[call[c].conf].used = None
             /\ \A d \in Calls : d # c => pc'[d] = pc[d] /\ handed'[d] = handed[d]
             /\ LET k == confs'[call[c].conf]
                IN /\ k.box = Box(c) /\ k.caller = call[c].caller
                   /\ k.payload = call[c].payload
                   /\ k.used \in Times /\ k.used < k.expires
  <2> DEFINE k == call[c].conf
  <2>1. call[c] \in Requests /\ k \in ConfIds /\ confs[k] \in ConfRows
    BY <1>4 DEF Consume, TypeOK, Given, Requests
  <2>2. confs' = [confs EXCEPT ![k].used = clock] /\ Matches(k, c)
    BY <1>4 DEF Consume
  <2>3. confs'[k] = [confs[k] EXCEPT !.used = clock]
    BY <2>1, <2>2 DEF TypeOK
  <2> QED BY <1>4, <2>1, <2>2, <2>3
          DEF Consume, Matches, Unspent, TypeOK, ConfRows, Goto, settings, sends
<1>5. Paid'
  <2> SUFFICES ASSUME NEW c \in Calls, Holds(c)', Confirmed(c)'
               PROVE  LET k == confs'[call'[c].conf]
                      IN /\ k.box = Box(c)' /\ k.caller = call'[c].caller
                         /\ k.payload = call'[c].payload
                         /\ k.used \in Times /\ k.used < k.expires
    BY DEF Paid
  <2>1. CASE Holds(c)
    BY <2>1, <1>1, <1>2 DEF Paid, Confirmed, Box
  <2>2. CASE Consume(c)
    BY <2>2, <1>4 DEF Box
  <2> QED BY <2>1, <2>2, <1>3, HoldStep
<1>6. ASSUME NEW c \in Calls, NEW d \in Calls, c # d, Consume(c), Holds(d)', Confirmed(d)'
      PROVE  call'[d].conf # call'[c].conf
  <2>1. Holds(d) /\ Confirmed(d)
    BY <1>4, <1>6 DEF Holds, Confirmed
  <2> QED BY <1>2, <1>4, <1>6, <2>1
<1>7. SoleHolder'
  <2> SUFFICES ASSUME NEW c \in Calls, NEW d \in Calls, Holds(c)', Holds(d)', Confirmed(c)',
                      Confirmed(d)', call'[c].conf = call'[d].conf
               PROVE  c = d
    BY DEF SoleHolder
  <2>1. CASE Holds(c) /\ Holds(d)
    BY <2>1, <1>1 DEF SoleHolder, Confirmed
  <2> QED BY <2>1, <1>3, <1>6, HoldStep
<1> QED BY <1>5, <1>7

\* Everything the theorems on confirmations rest on.
CInv == TypeOK /\ Given /\ Stage /\ Paid /\ SoleHolder

LEMMA ConfirmationsSafe == Spec => []CInv
<1>1. Init => CInv
  BY TypeInit, StageInit, PaidInit DEF CInv
<1>2. CInv /\ [Next]_vars => CInv'
  BY TypeStep, StageStep, PaidStep DEF CInv
<1> QED BY <1>1, <1>2, PTL DEF Spec

\* However many calls present a confirmation, fail after spending it or are retried,
\* it is good for one mail.
THEOREM OneMailEach == Spec => []OneSendPerConfirmation
<1>1. CInv => OneSendPerConfirmation
  BY DEF CInv, SoleHolder, OneSendPerConfirmation, Out, Holds
<1> QED BY <1>1, ConfirmationsSafe, PTL

\* With capabilities no mail goes out but as it was confirmed, and in time.
THEOREM OnlyAsConfirmed == Spec => []SentAsConfirmed
<1>1. CInv => SentAsConfirmed
  BY NoneAssumption DEF CInv, Stage, Paid, SentAsConfirmed, Out, Holds, Times
<1> QED BY <1>1, ConfirmationsSafe, PTL

\* Every mail of a v2 call spends a confirmation of its own, issued for it.
THEOREM EachMailConfirmed == Spec => []ConfirmedOnce
<1>1. OneSendPerConfirmation /\ SentAsConfirmed => ConfirmedOnce
  BY DEF ConfirmedOnce
<1> QED BY <1>1, OneMailEach, OnlyAsConfirmed, PTL
-----------------------------------------------------------------------------
(* Conversations.                                                          *)

\* A reply that passed the check was asked for before anything newer was there.
Timely ==
  \A c \in Calls :
    /\ pc[c] # "new" => before[c].moved \in BOOLEAN
    /\ pc[c] # "new" /\ before[c].moved => Box(c) \in moved
    /\ pc[c] = "ready" \/ Holds(c) => (call[c].tool = "reply" => ~before[c].moved)

LEMMA NowMoved ==
  ASSUME NEW b
  PROVE  Now(b).moved \in BOOLEAN /\ (Now(b).moved <=> b \in moved)
<1>1. Now(b).moved \in BOOLEAN
  BY SMT DEF Now
<1>2. Now(b).moved <=> b \in moved
  BY Zenon DEF Now
<1> QED BY <1>1, <1>2

LEMMA TimelyInit == Init => Timely
BY DEF Init, Timely, Holds

LEMMA TimelyStep ==
  ASSUME TypeOK, Given, Stage, Timely, [Next]_vars
  PROVE  Timely'
<1>1. moved \subseteq moved'
  <2>1. ASSUME NEW c \in Calls, Step(c) \/ Begins(c) PROVE moved \subseteq moved'
    BY <2>1 DEF Begins, Step, CheckThread, Confirm, Consume, Dedup, ReadDay, Count, HandOver,
                File, End, Stop, sends
  <2> QED BY <2>1, BeginKinds DEF Around
<1>2. ASSUME NEW c \in Calls, Begins(c) PROVE Timely'
  <2>1. /\ before'[c].moved \in BOOLEAN /\ (before'[c].moved <=> Box(c)' \in moved)
        /\ ~Holds(c)'
    <3>1. before'[c] = Now(Box(c)')
      BY <1>2 DEF Begins, TypeOK
    <3>2. before'[c].moved \in BOOLEAN /\ (before'[c].moved <=> Box(c)' \in moved)
      BY <3>1, NowMoved
    <3>3. ~Holds(c)'
      BY <1>2 DEF Begins, TypeOK, Stage, Holds, sends
    <3> QED BY <3>2, <3>3
  <2>2. pc'[c] = "ready" => call'[c].tool = "send"
    BY <1>2 DEF Begins, TypeOK
  <2>3. \A d \in Calls : d # c =>
          pc'[d] = pc[d] /\ call'[d] = call[d] /\ before'[d] = before[d] /\ (Holds(d)' <=> Holds(d))
    BY <1>2 DEF Begins, TypeOK, Holds, sends
  <2>4. ASSUME NEW d \in Calls
        PROVE  /\ pc'[d] # "new" => before'[d].moved \in BOOLEAN
               /\ pc'[d] # "new" /\ before'[d].moved => Box(d)' \in moved'
               /\ pc'[d] = "ready" \/ Holds(d)' =>
                    (call'[d].tool = "reply" => ~before'[d].moved)
    <3>1. CASE d = c
      <4>1. Box(d)' = Box(c)'
        BY <3>1
      <4> QED BY <1>1, <2>1, <2>2, <3>1, <4>1
    <3>2. CASE d # c
      <4>1. Box(d)' = Box(d)
        BY <2>3, <3>2 DEF Box
      <4> QED BY <1>1, <2>3, <3>2, <4>1 DEF Timely
    <3> QED BY <3>1, <3>2
  <2> QED BY <2>4 DEF Timely
<1>3. ASSUME NEW c \in Calls, Step(c) PROVE Timely'
  <2>1. \A d \in Calls : pc'[d] # "new" => pc[d] # "new"
    BY <1>3 DEF TypeOK, Step, CheckThread, Confirm, Consume, Dedup, ReadDay, Count, HandOver,
                File, End, Stop, Goto
  <2>2. \A d \in Calls : pc[d] # "new" => call'[d] = call[d] /\ before'[d] = before[d]
    BY CallsKept
  <2>3. ASSUME NEW d \in Calls, pc'[d] = "ready", pc[d] # "ready"
        PROVE  CheckThread(d)
    BY <1>3, <2>3 DEF TypeOK, Step, CheckThread, Confirm, Consume, Dedup, ReadDay, Count,
                HandOver, File, End, Stop, Goto
  <2>4. ASSUME NEW d \in Calls, CheckThread(d) PROVE ~before[d].moved
    BY <2>4 DEF CheckThread, IsNewest, Timely
  <2>5. ASSUME NEW d \in Calls, Holds(d)', ~Holds(d)
        PROVE  call[d].tool = "reply" => ~before[d].moved
    BY <2>5, HoldStep DEF Consume, Dedup, Timely, Stage
  <2>6. ASSUME NEW d \in Calls, pc'[d] # "new"
        PROVE  /\ before'[d].moved \in BOOLEAN
               /\ before'[d].moved => Box(d)' \in moved'
               /\ pc'[d] = "ready" \/ Holds(d)' =>
                    (call'[d].tool = "reply" => ~before'[d].moved)
    <3>1. call'[d] = call[d] /\ before'[d] = before[d] /\ Box(d)' = Box(d)
      BY <2>1, <2>2, <2>6 DEF Box
    <3> QED BY <1>1, <2>1, <2>3, <2>4, <2>5, <2>6, <3>1 DEF Timely
  <2>7. \A d \in Calls : Holds(d)' => pc'[d] # "new"
    BY StageStep DEF Stage, Holds
  <2> QED BY <2>6, <2>7 DEF Timely
<1>4. CASE Around
  BY <1>4 DEF Around, Timely, Holds, Box
<1> QED BY <1>2, <1>3, <1>4, BeginKinds

\* No reply is sent to a conversation that had moved on when it was asked for.
THEOREM RepliesAreTimely == Spec => []NoStaleReply
<1> DEFINE TInv == TypeOK /\ Given /\ Stage /\ Timely
<1>1. Init => TInv
  BY TypeInit, StageInit, TimelyInit
<1>2. TInv /\ [Next]_vars => TInv'
  BY TypeStep, StageStep, TimelyStep
<1>3. TInv => NoStaleReply
  BY DEF Timely, NoStaleReply, Out, Holds
<1> QED BY <1>1, <1>2, <1>3, PTL DEF Spec
-----------------------------------------------------------------------------
(* The daily budget.                                                       *)

\* Calls whose send the budget has counted and that did not end before it was out.
Counted(b, d) ==
  {c \in Calls : (pc[c] \in {"send", "sent"} \/ handed[c] # None) /\ Box(c) = b /\ day[c] = d}

InBudget ==
  limit > 0 => \A b \in Boxes, d \in Times :
    Cardinality(Counted(b, d)) <= counts[b][d] /\ counts[b][d] <= limit

LEMMA CountedFinite ==
  ASSUME NEW b, NEW d
  PROVE  IsFiniteSet(Counted(b, d)) /\ Cardinality(Counted(b, d)) \in Nat
<1>1. Counted(b, d) \subseteq Calls
  BY DEF Counted
<1> QED BY <1>1, IdAssumption, FS_Subset, FS_CardinalityType

LEMMA OneMore ==
  ASSUME NEW S, IsFiniteSet(S), NEW x, NEW T \in SUBSET (S \cup {x})
  PROVE  Cardinality(T) <= Cardinality(S) + 1 /\ Cardinality(T) \in Nat
<1>1. IsFiniteSet(S \cup {x}) /\ Cardinality(S) \in Nat
  BY FS_AddElement, FS_CardinalityType
<1>2. Cardinality(S \cup {x}) \in Nat /\ Cardinality(S \cup {x}) <= Cardinality(S) + 1
  <2>1. Cardinality(S \cup {x}) = IF x \in S THEN Cardinality(S) ELSE Cardinality(S) + 1
    BY FS_AddElement
  <2> QED BY <1>1, <2>1
<1>3. Cardinality(T) <= Cardinality(S \cup {x}) /\ Cardinality(T) \in Nat
  BY <1>1, FS_Subset, FS_CardinalityType
<1> QED BY <1>1, <1>2, <1>3

\* A set of counted calls that only shrinks stays within an unchanged budget.
LEMMA Shrinks ==
  ASSUME TypeOK, InBudget, UNCHANGED <<limit, counts>>,
         \A b \in Boxes, d \in Times : Counted(b, d)' \subseteq Counted(b, d)
  PROVE  InBudget'
<1> SUFFICES ASSUME limit > 0, NEW b \in Boxes, NEW d \in Times
             PROVE  Cardinality(Counted(b, d)') <= counts[b][d] /\ counts[b][d] <= limit
  BY DEF InBudget
<1>1. Cardinality(Counted(b, d)') <= Cardinality(Counted(b, d))
  BY CountedFinite, FS_Subset
<1>2. Cardinality(Counted(b, d)') \in Nat
  BY CountedFinite, FS_Subset, FS_CardinalityType
<1>3. counts[b][d] \in Nat
  BY DEF TypeOK
<1> QED BY <1>1, <1>2, <1>3, CountedFinite DEF InBudget

LEMMA BudgetInit == Init => InBudget
<1> SUFFICES ASSUME Init, limit > 0, NEW b \in Boxes, NEW d \in Times
             PROVE  Cardinality(Counted(b, d)) <= counts[b][d] /\ counts[b][d] <= limit
  BY DEF InBudget
<1>1. Counted(b, d) = {}
  BY DEF Init, Counted
<1>2. Cardinality(Counted(b, d)) = 0
  BY <1>1, FS_EmptySet
<1> QED BY <1>2, LimitsAssumption DEF Init

LEMMA BudgetStep ==
  ASSUME TypeOK, Given, Stage, InBudget, [Next]_vars
  PROVE  InBudget'
<1> USE DEF settings, tables, sends
<1>1. ASSUME NEW c \in Calls, Begins(c) PROVE InBudget'
  <2>1. \A b \in Boxes, d \in Times : Counted(b, d)' \subseteq Counted(b, d)
    BY <1>1 DEF Begins, TypeOK, Stage, Counted, Box
  <2> QED BY <1>1, <2>1, Shrinks DEF Begins
<1>2. CASE Around
  <2>1. \A b \in Boxes, d \in Times : Counted(b, d)' \subseteq Counted(b, d)
    BY <1>2 DEF Around, Counted, Box
  <2> QED BY <1>2, <2>1, Shrinks DEF Around
<1>3. ASSUME NEW c \in Calls, Count(c) PROVE InBudget'
  <2>1. PICK b0 \in Boxes, d0 \in Times : b0 = Box(c) /\ d0 = day[c]
    BY <1>3 DEF Count, TypeOK, Given, Box, Requests
  <2>2. counts[b0][d0] < limit /\ counts' = [counts EXCEPT ![b0][d0] = @ + 1]
    BY <1>3, <2>1 DEF Count, BelowLimit
  <2>3. Counted(b0, d0)' \subseteq Counted(b0, d0) \cup {c}
    BY <1>3, <2>1 DEF Count, Goto, TypeOK, Counted, Box
  <2>4. \A b \in Boxes, d \in Times : <<b, d>> # <<b0, d0>> =>
          Counted(b, d)' \subseteq Counted(b, d)
    BY <1>3, <2>1 DEF Count, Goto, TypeOK, Counted, Box
  <2> SUFFICES ASSUME limit > 0, NEW b \in Boxes, NEW d \in Times
               PROVE  Cardinality(Counted(b, d)') <= counts'[b][d] /\ counts'[b][d] <= limit
    BY <1>3 DEF Count, InBudget
  <2>5. counts[b][d] \in Nat /\ Cardinality(Counted(b, d)) \in Nat /\ limit \in Nat
    BY CountedFinite, LimitsAssumption DEF TypeOK
  <2>6. Cardinality(Counted(b, d)) <= counts[b][d] /\ counts[b][d] <= limit
    BY DEF InBudget
  <2>7. CASE b = b0 /\ d = d0
    <3>1. counts'[b][d] = counts[b][d] + 1
      BY <2>1, <2>2, <2>7 DEF TypeOK
    <3>2. Counted(b, d)' \subseteq Counted(b, d) \cup {c}
      BY <2>3, <2>7
    <3>3. /\ Cardinality(Counted(b, d)') <= Cardinality(Counted(b, d)) + 1
          /\ Cardinality(Counted(b, d)') \in Nat
      BY <3>2, CountedFinite, OneMore
    <3> QED BY <2>2, <2>5, <2>6, <2>7, <3>1, <3>3
  <2>8. CASE <<b, d>> # <<b0, d0>>
    <3>1. counts'[b][d] = counts[b][d]
      BY <2>1, <2>2, <2>8 DEF TypeOK
    <3>2. /\ Cardinality(Counted(b, d)') <= Cardinality(Counted(b, d))
          /\ Cardinality(Counted(b, d)') \in Nat
      BY <2>4, <2>8, CountedFinite, FS_Subset, FS_CardinalityType
    <3> QED BY <2>5, <2>6, <3>1, <3>2
  <2> QED BY <2>7, <2>8
<1>4. ASSUME NEW c \in Calls, Step(c), ~Count(c) PROVE InBudget'
  <2>1. UNCHANGED <<limit, counts, call>>
    BY <1>4 DEF Step, CheckThread, Confirm, Consume, Dedup, ReadDay, HandOver, File, End, Stop
  <2>2. CASE ReadDay(c)
    <3>1. CASE limit = 0
      BY <2>1, <3>1 DEF InBudget
    <3>2. CASE limit # 0
      <4>1. \A b \in Boxes, d \in Times : Counted(b, d)' \subseteq Counted(b, d)
        BY <2>2, <3>2 DEF ReadDay, Goto, TypeOK, Stage, Counted, Box
      <4> QED BY <2>1, <4>1, Shrinks
    <3> QED BY <3>1, <3>2
  <2>3. CASE ~ReadDay(c)
    <3>1. \A b \in Boxes, d \in Times : Counted(b, d)' \subseteq Counted(b, d)
      BY <1>4, <2>3 DEF Step, CheckThread, Confirm, Consume, Dedup, HandOver, File, End, Stop,
                        Goto, TypeOK, Counted, Box
    <3> QED BY <2>1, <3>1, Shrinks
  <2> QED BY <2>2, <2>3
<1> QED BY <1>1, <1>2, <1>3, <1>4, BeginKinds

\* Concurrent agents at the last send of the day, whatever becomes of their calls,
\* never get more mail out than the limit.
THEOREM LimitKept == Spec => []WithinBudget
<1> DEFINE BInv == TypeOK /\ Given /\ Stage /\ InBudget
<1>1. Init => BInv
  BY TypeInit, StageInit, BudgetInit
<1>2. BInv /\ [Next]_vars => BInv'
  BY TypeStep, StageStep, BudgetStep
<1>3. BInv => WithinBudget
  <2> SUFFICES ASSUME BInv, limit > 0, NEW b \in Boxes, NEW d \in Times
               PROVE  Cardinality(SentOn(b, d)) <= counts[b][d] /\ counts[b][d] <= limit
    BY DEF WithinBudget
  <2>1. SentOn(b, d) \subseteq Counted(b, d)
    BY DEF SentOn, Out, Counted
  <2>2. /\ Cardinality(SentOn(b, d)) <= Cardinality(Counted(b, d))
        /\ Cardinality(SentOn(b, d)) \in Nat
    BY <2>1, CountedFinite, FS_Subset, FS_CardinalityType
  <2>3. counts[b][d] \in Nat
    BY DEF TypeOK
  <2> QED BY <2>2, <2>3, CountedFinite DEF InBudget
<1> QED BY <1>1, <1>2, <1>3, PTL DEF Spec
-----------------------------------------------------------------------------
(* Repeats in mode v1.                                                     *)

\* What a legacy call found to be old enough when it looked stays so.
Looked ==
  \A c \in Calls :
    /\ pc[c] \in {"thread", "ready"} => call[c].tool # "legacy"
    /\ pc[c] # "new" => before[c].rows \in Nat /\ before[c].rows <= Len(rows[Box(c)])
    /\ Holds(c) /\ call[c].tool = "legacy" /\ c \notin unread =>
         \A i \in 1..before[c].rows :
           LET row == rows[Box(c)][i]
           IN row.payload = call[c].payload /\ row.place = "sent" /\ Cardinality(Newer(Box(c), i)) < LookBack
                => /\ clock >= row.at + Window
                   /\ handed[c] # None => handed[c] >= row.at + Window

LEMMA LookedInit == Init => Looked
BY DEF Init, Looked, Holds

\* Times are written once, and the clock, Sent and the failed looks only grow.
LEMMA TimesKept ==
  ASSUME TypeOK, Stage, [Next]_vars
  PROVE  /\ clock \in Nat /\ clock' \in Nat /\ clock' >= clock
         /\ unread \subseteq unread' /\ Kept
         /\ \A c \in Calls : handed[c] # None => handed'[c] = handed[c]
         /\ \A c \in Calls : handed[c] = None /\ handed'[c] # None => handed'[c] = clock
<1>0. clock \in Nat
  BY DEF TypeOK, Times
<1>1. ASSUME NEW c \in Calls, Begins(c)
      PROVE  UNCHANGED <<clock, unread, handed>> /\ Kept
  BY <1>1, SameRows DEF Begins, sends
<1>2. ASSUME NEW c \in Calls, Step(c)
      PROVE  /\ UNCHANGED clock /\ unread \subseteq unread' /\ Kept
             /\ \A d \in Calls : handed[d] # None => handed'[d] = handed[d]
             /\ \A d \in Calls : handed[d] = None /\ handed'[d] # None => handed'[d] = clock
  <2>1. Kept
    <3>1. CASE File(c)
      <4>1. Box(c) \in Boxes /\ call[c].payload \in Payloads
        BY <3>1 DEF File, TypeOK, Box, Requests
      <4> QED BY <3>1, <4>1, FiledType DEF File
    <3>2. CASE ~File(c)
      BY <1>2, <3>2, SameRows DEF Step, CheckThread, Confirm, Consume, Dedup, ReadDay, Count, HandOver,
                                  End, Stop, sends
    <3> QED BY <3>1, <3>2
  <2> QED BY <1>2, <2>1 DEF Step, CheckThread, Confirm, Consume, Dedup, ReadDay, Count, HandOver, File,
                            End, Stop, sends, TypeOK, Stage
<1>3. CASE Around
  BY <1>0, <1>3 DEF Around
<1> QED BY <1>0, <1>1, <1>2, <1>3, BeginKinds

LEMMA RowFacts ==
  ASSUME TypeOK, NEW b \in Boxes
  PROVE  /\ Len(rows[b]) \in Nat /\ DOMAIN rows[b] = 1..Len(rows[b])
         /\ IsFiniteSet(DOMAIN rows[b])
         /\ \A i \in 1..Len(rows[b]) : rows[b][i] \in SentRows
<1>1. rows[b] \in Seq(SentRows)
  BY DEF TypeOK
<1> QED BY <1>1, LenProperties, ElementOfSeq, FS_Interval

\* What is newer than a row stays so.
LEMMA NewerGrows ==
  ASSUME TypeOK, TypeOK', Kept, NEW b \in Boxes, NEW i \in 1..Len(rows[b])
  PROVE  /\ Cardinality(Newer(b, i)) \in Nat /\ Cardinality(Newer(b, i)') \in Nat
         /\ Cardinality(Newer(b, i)) <= Cardinality(Newer(b, i)')
<1>1. /\ Len(rows[b]) \in Nat /\ DOMAIN rows[b] = 1..Len(rows[b]) /\ IsFiniteSet(DOMAIN rows[b])
      /\ Len(rows'[b]) \in Nat /\ DOMAIN rows'[b] = 1..Len(rows'[b]) /\ IsFiniteSet(DOMAIN rows'[b])
  <2>1. Len(rows[b]) \in Nat /\ DOMAIN rows[b] = 1..Len(rows[b]) /\ IsFiniteSet(DOMAIN rows[b])
    BY RowFacts
  <2>2. rows'[b] \in Seq(SentRows)
    BY DEF TypeOK
  <2>3. Len(rows'[b]) \in Nat /\ DOMAIN rows'[b] = 1..Len(rows'[b])
    BY <2>2, LenProperties
  <2> QED BY <2>1, <2>3, FS_Interval
<1>2. Newer(b, i)' = {j \in DOMAIN rows'[b] : j > i /\ SubjectOf[rows'[b][j].payload] = SubjectOf[rows'[b][i].payload]}
  BY DEF Newer
<1>3. \A j \in 1..Len(rows[b]) : rows'[b][j].payload = rows[b][j].payload /\ j \in 1..Len(rows'[b])
  BY <1>1 DEF Kept
<1>4. Newer(b, i) \subseteq Newer(b, i)'
  BY <1>1, <1>2, <1>3 DEF Newer
<1>5. Newer(b, i)' \subseteq DOMAIN rows'[b] /\ Newer(b, i) \subseteq DOMAIN rows[b]
  BY <1>2 DEF Newer
<1>6. IsFiniteSet(Newer(b, i)) /\ IsFiniteSet(Newer(b, i)')
  BY <1>1, <1>5, FS_Subset
<1> QED BY <1>4, <1>6, FS_Subset, FS_CardinalityType

\* A look that finds nothing: whatever was always in Sent and has few newer ones is old.
LEMMA LookFinds ==
  ASSUME TypeOK, NEW c \in Calls, Box(c) \in Boxes, NoRepeat(c), NEW i \in 1..Len(rows[Box(c)]),
         rows[Box(c)][i].payload = call[c].payload, rows[Box(c)][i].place = "sent",
         Cardinality(Newer(Box(c), i)) < LookBack
  PROVE  clock >= rows[Box(c)][i].at + Window
<1> SUFFICES ASSUME clock < rows[Box(c)][i].at + Window PROVE FALSE
  <2>1. rows[Box(c)][i] \in SentRows
    BY RowFacts
  <2>2. rows[Box(c)][i].at \in Nat /\ clock \in Nat /\ Window \in Nat
    BY <2>1, TimeAssumption DEF SentRows, TypeOK, Times
  <2> QED BY <2>2
<1>1. /\ DOMAIN rows[Box(c)] = 1..Len(rows[Box(c)]) /\ IsFiniteSet(DOMAIN rows[Box(c)])
  BY RowFacts
<1>2. i \in Candidates(c)
  BY <1>1 DEF Candidates
<1> DEFINE later == {j \in Candidates(c) : j > i}
<1>3. later \subseteq Newer(Box(c), i) /\ IsFiniteSet(Newer(Box(c), i))
  <2>1. later \subseteq Newer(Box(c), i)
    BY DEF Candidates, Newer
  <2>2. Newer(Box(c), i) \subseteq DOMAIN rows[Box(c)]
    BY DEF Newer
  <2> QED BY <1>1, <2>1, <2>2, FS_Subset
<1>4. Cardinality(later) <= Cardinality(Newer(Box(c), i)) /\ Cardinality(later) \in Nat
      /\ Cardinality(Newer(Box(c), i)) \in Nat
  BY <1>3, FS_Subset, FS_CardinalityType
<1>5. Cardinality(later) < LookBack
  BY <1>4, LookBackAssumption
<1>6. i \in Returned(c)
  BY <1>2, <1>5 DEF Returned
<1> QED BY <1>6 DEF NoRepeat

LEMMA LookedStep ==
  ASSUME TypeOK, Given, Stage, Looked, [Next]_vars
  PROVE  Looked'
<1>0. TypeOK'
  BY TypeStep
<1>1. ASSUME NEW c \in Calls, pc[c] = "new", pc'[c] # "new"
      PROVE  /\ pc'[c] \in {"thread", "ready"} => call'[c].tool # "legacy"
             /\ before'[c].rows \in Nat /\ before'[c].rows <= Len(rows'[Box(c)'])
             /\ ~Holds(c)'
  <2>1. Begins(c)
    <3>1. ASSUME NEW e \in Calls, Begins(e) PROVE Begins(c)
      <4>1. e = c
        BY <1>1, <3>1 DEF Begins, TypeOK
      <4> QED BY <3>1, <4>1
    <3>2. ASSUME NEW e \in Calls, Step(e) PROVE FALSE
      BY <1>1, <3>2 DEF Step, CheckThread, Confirm, Consume, Dedup, ReadDay, Count, HandOver,
                        File, End, Stop, Goto, TypeOK
    <3> QED BY <1>1, <3>1, <3>2, BeginKinds DEF Around
  <2>2. before'[c].rows = Len(rows[Box(c)']) /\ rows' = rows /\ Box(c)' \in Boxes
    BY <2>1 DEF Begins, Now, TypeOK, sends, Box, Requests
  <2>3. ~Holds(c)'
    BY <2>1 DEF Begins, TypeOK, Stage, Holds, sends
  <2>4. Len(rows[Box(c)']) \in Nat
    BY <2>2, RowFacts
  <2> QED BY <2>1, <2>2, <2>3, <2>4 DEF Begins, TypeOK
<1>2. ASSUME NEW c \in Calls, pc[c] # "new"
      PROVE  /\ pc'[c] \in {"thread", "ready"} => call'[c].tool # "legacy"
             /\ call'[c] = call[c] /\ before'[c] = before[c] /\ Box(c)' = Box(c) /\ Box(c) \in Boxes
             /\ before[c].rows \in Nat /\ before[c].rows <= Len(rows[Box(c)])
             /\ Len(rows[Box(c)]) \in Nat /\ Len(rows'[Box(c)]) \in Nat
             /\ Len(rows[Box(c)]) <= Len(rows'[Box(c)])
  <2>1. call'[c] = call[c] /\ before'[c] = before[c] /\ Box(c)' = Box(c)
    BY <1>2, CallsKept DEF Box
  <2>2. pc'[c] \in {"thread", "ready"} => pc[c] \in {"thread", "ready"}
    <3>1. ASSUME NEW e \in Calls, Step(e), pc'[c] \in {"thread", "ready"}
          PROVE  pc[c] \in {"thread", "ready"}
      BY <3>1 DEF Step, CheckThread, Confirm, Consume, Dedup, ReadDay, Count, HandOver,
                  File, End, Stop, Goto, TypeOK
    <3>2. ASSUME NEW e \in Calls, Begins(e), pc'[c] \in {"thread", "ready"}
          PROVE  pc[c] \in {"thread", "ready"}
      BY <1>2, <3>2 DEF Begins, TypeOK
    <3> QED BY <3>1, <3>2, BeginKinds DEF Around
  <2>3. Box(c) \in Boxes
    BY <1>2 DEF TypeOK, Box, Requests
  <2>4. Len(rows[Box(c)]) \in Nat /\ Len(rows'[Box(c)]) \in Nat
    BY <1>0, <2>3, LenProperties DEF TypeOK
  <2> QED BY <1>2, <2>1, <2>2, <2>3, <2>4, TimesKept DEF Looked, Kept
<1>3. ASSUME NEW c \in Calls, Holds(c)', call'[c].tool = "legacy", c \notin unread',
             NEW i \in 1..before'[c].rows, rows'[Box(c)'][i].payload = call'[c].payload,
             rows'[Box(c)'][i].place = "sent", Cardinality(Newer(Box(c), i)') < LookBack
      PROVE  /\ clock' >= rows'[Box(c)'][i].at + Window
             /\ handed'[c] # None => handed'[c] >= rows'[Box(c)'][i].at + Window
  <2> DEFINE b == Box(c)
  <2>1. pc[c] # "new"
    BY <1>1, <1>3, StageStep DEF Stage, Holds
  <2>2. /\ call'[c] = call[c] /\ before'[c] = before[c] /\ Box(c)' = b /\ b \in Boxes
        /\ i \in 1..before[c].rows /\ i \in 1..Len(rows[b])
    BY <1>2, <1>3, <2>1
  <2>3. /\ rows[b][i].payload = call[c].payload /\ rows[b][i].place = "sent"
        /\ rows'[b][i].at = rows[b][i].at /\ c \notin unread
    BY <1>3, <2>2, TimesKept DEF Kept
  <2>4. Cardinality(Newer(b, i)) < LookBack
    <3>1. Newer(Box(c), i)' = Newer(b, i)'
      BY <2>2 DEF Newer
    <3>2. /\ Cardinality(Newer(b, i)) \in Nat /\ Cardinality(Newer(b, i)') \in Nat
          /\ Cardinality(Newer(b, i)) <= Cardinality(Newer(b, i)')
      BY <1>0, <2>2, TimesKept, NewerGrows
    <3>3. Cardinality(Newer(b, i)') < LookBack
      BY <1>3, <3>1
    <3> QED BY <3>2, <3>3, LookBackAssumption
  <2>5. rows[b][i].at \in Nat /\ Window \in Nat
    BY <2>2, RowFacts, TimeAssumption DEF SentRows, Times
  <2>6. clock >= rows[b][i].at + Window
    <3>1. CASE Holds(c)
      BY <1>3, <2>2, <2>3, <2>4, <3>1 DEF Looked
    <3>2. CASE ~Holds(c)
      <4>1. Dedup(c)
        BY <1>3, <2>1, <2>2, <3>2, HoldStep DEF Consume, Looked
      <4>2. NoRepeat(c)
        BY <1>3, <4>1 DEF Dedup
      <4> QED BY <2>2, <2>3, <2>4, <4>2, LookFinds
    <3> QED BY <3>1, <3>2
  <2>7. handed[c] # None => handed[c] >= rows[b][i].at + Window
    BY <1>3, <2>2, <2>3, <2>4 DEF Looked, Holds
  <2> QED BY <2>2, <2>3, <2>5, <2>6, <2>7, TimesKept
<1>4. \A c \in Calls :
        /\ pc'[c] \in {"thread", "ready"} => call'[c].tool # "legacy"
        /\ pc'[c] # "new" => before'[c].rows \in Nat /\ before'[c].rows <= Len(rows'[Box(c)'])
  BY <1>1, <1>2
<1> QED BY <1>3, <1>4 DEF Looked

\* A trusted service that asks again for a mail that is in Sent, among the LookBack newest
\* of its subject, does not send it again within the window, however many calls run at once.
THEOREM RepeatsAreFound == Spec => []NoBlindRepeat
<1> DEFINE LInv == TypeOK /\ Given /\ Stage /\ Looked
<1>1. Init => LInv
  BY TypeInit, StageInit, LookedInit
<1>2. LInv /\ [Next]_vars => LInv'
  BY TypeStep, StageStep, LookedStep
<1>3. LInv => NoBlindRepeat
  BY DEF Looked, NoBlindRepeat, Out, Holds
<1> QED BY <1>1, <1>2, <1>3, PTL DEF Spec
-----------------------------------------------------------------------------
(* The ticket.                                                             *)

Spends(k) == \E c \in Out : call[c].conf = k

LEMMA States ==
  ASSUME NEW k \in ConfIds
  PROVE  /\ confs[k] = None => StateOf(k) = "none"
         /\ confs[k] # None /\ confs[k].used = None => StateOf(k) = "open"
         /\ confs[k] # None /\ confs[k].used # None /\ ~Spends(k) => StateOf(k) = "spent"
         /\ confs[k] # None /\ confs[k].used # None /\ Spends(k) => StateOf(k) = "sent"
BY DEF StateOf, Spends

LEMMA SameState ==
  ASSUME NEW k \in ConfIds, confs'[k] = confs[k], Spends(k)' <=> Spends(k)
  PROVE  StateOf(k)' = StateOf(k)
BY DEF StateOf, Spends

\* Only a spent confirmation of its own is behind a mail.
LEMMA SpendsPaid ==
  ASSUME CInv, NEW k \in ConfIds, Spends(k)
  PROVE  confs[k] # None /\ confs[k].used # None
<1>1. PICK c \in Out : call[c].conf = k
  BY DEF Spends
<1>2. c \in Calls /\ Holds(c) /\ Confirmed(c)
  BY <1>1, NoneAssumption DEF Out, Holds, Confirmed, ConfIds
<1>3. confs[k] \in ConfRows
  BY <1>1, <1>2, HolderBegan DEF CInv
<1>4. confs[k].used \in Times
  BY <1>1, <1>2 DEF CInv, Paid
<1> QED BY <1>3, <1>4, RowAssumption, NoneAssumption DEF Times

LEMMA TicketAdvances ==
  ASSUME NEW k \in ConfIds, NEW from, NEW to, StateOf(k) = from, StateOf(k)' = to,
         \A j \in ConfIds : j # k => StateOf(j)' = StateOf(j)
  PROVE  Ticket!Advance(k, from, to)
BY DEF Ticket!Advance

LEMMA TicketStep ==
  ASSUME CInv, [Next]_vars
  PROVE  [Ticket!Next]_[k \in ConfIds |-> StateOf(k)]
<1> USE DEF settings, tables, sends
<1>1. \A c \in Out : call'[c] = call[c] /\ c \in Calls
  BY CallsKept DEF CInv, Stage, Out
<1>2. ASSUME UNCHANGED handed, NEW k \in ConfIds PROVE Spends(k)' <=> Spends(k)
  BY <1>1, <1>2 DEF Spends, Out
<1>3. ASSUME UNCHANGED <<handed, confs>> PROVE [Ticket!Next]_[k \in ConfIds |-> StateOf(k)]
  BY <1>2, <1>3, SameState
<1>4. ASSUME UNCHANGED handed, NEW k \in ConfIds, NEW row \in ConfRows, confs[k] = None,
             row.used = None, confs' = [confs EXCEPT ![k] = row]
      PROVE  Ticket!Next
  <2>1. \A j \in ConfIds : j # k => StateOf(j)' = StateOf(j)
    BY <1>2, <1>4, SameState DEF CInv, TypeOK
  <2>2. StateOf(k) = "none"
    BY <1>4, States
  <2>3. confs'[k] = row
    BY <1>4 DEF CInv, TypeOK
  <2>4. StateOf(k)' = "open"
    BY <1>4, <2>3, RowAssumption DEF StateOf
  <2>5. Ticket!Advance(k, "none", "open")
    BY <2>1, <2>2, <2>4, TicketAdvances
  <2> QED BY <2>5 DEF Ticket!Next
<1>5. ASSUME NEW c \in Calls, Confirm(c) PROVE Ticket!Next
  <2>1. PICK life \in Life :
          confs' = [confs EXCEPT ![c] =
                      Confirmation(Box(c), call[c].caller, call[c].payload, life)]
    BY <1>5 DEF Confirm
  <2> DEFINE row == Confirmation(Box(c), call[c].caller, call[c].payload, life)
  <2>2. call[c] \in Requests /\ call[c].caller \in Callers
    BY <1>5 DEF Confirm, CInv, TypeOK, Given
  <2>3. row \in ConfRows /\ row.used = None
    BY <2>2, TimeAssumption DEF Confirmation, ConfRows, Requests, Box, CInv, TypeOK, Times
  <2>4. confs[c] = None /\ c \in ConfIds
    BY <1>5 DEF Confirm, CInv, Stage, ConfIds
  <2> HIDE DEF row
  <2>5. confs' = [confs EXCEPT ![c] = row]
    BY <2>1 DEF row
  <2> QED BY <1>4, <1>5, <2>3, <2>4, <2>5 DEF Confirm
<1>6. ASSUME NEW c \in Calls, Consume(c) PROVE Ticket!Next
  <2>1. PICK k \in ConfIds : k = call[c].conf /\ confs[k] \in ConfRows /\ confs[k].used = None
    BY <1>6 DEF Consume, Matches, Unspent, CInv, TypeOK, Given, Requests
  <2>2. confs' = [confs EXCEPT ![k].used = clock]
    BY <1>6, <2>1 DEF Consume
  <2>3. \A j \in ConfIds : j # k => StateOf(j)' = StateOf(j)
    BY <1>2, <1>6, <2>2, SameState DEF Consume, CInv, TypeOK
  <2>4. StateOf(k) = "open" /\ ~Spends(k)
    BY <2>1, States, SpendsPaid, RowAssumption
  <2>5. confs'[k] \in ConfRows /\ confs'[k].used # None
    <3>1. confs'[k] = [confs[k] EXCEPT !.used = clock]
      BY <2>1, <2>2 DEF CInv, TypeOK
    <3>2. clock \in Times /\ clock # None
      BY NoneAssumption DEF CInv, TypeOK, Times
    <3> QED BY <2>1, <3>1, <3>2 DEF ConfRows
  <2>6. ~Spends(k)'
    BY <1>2, <1>6, <2>4 DEF Consume
  <2>7. StateOf(k)' = "spent"
    BY <2>5, <2>6, RowAssumption DEF StateOf, Spends
  <2>8. Ticket!Advance(k, "open", "spent")
    BY <2>3, <2>4, <2>7, TicketAdvances
  <2> QED BY <2>8 DEF Ticket!Next
<1>7. ASSUME NEW c \in Calls, HandOver(c)
      PROVE  [Ticket!Next]_[k \in ConfIds |-> StateOf(k)]
  <2>1. UNCHANGED <<confs, call>> /\ Holds(c) /\ c \notin Out /\ Out' = Out \cup {c}
    <3>1. UNCHANGED <<confs, call>> /\ Holds(c)
      BY <1>7 DEF HandOver, Holds
    <3>2. c \notin Out
      BY <1>7 DEF HandOver, CInv, Stage, Out
    <3>3. clock # None /\ handed' = [handed EXCEPT ![c] = clock]
      BY <1>7, NoneAssumption DEF HandOver, CInv, TypeOK, Times
    <3>4. Out' = Out \cup {c}
      BY <3>3 DEF CInv, TypeOK, Out
    <3> QED BY <3>1, <3>2, <3>4
  <2>2. \A k \in ConfIds : k # call[c].conf => StateOf(k)' = StateOf(k)
    <3>1. \A k \in ConfIds : k # call[c].conf => (Spends(k)' <=> Spends(k))
      BY <2>1 DEF Spends
    <3> QED BY <2>1, <3>1, SameState
  <2>3. CASE ~Confirmed(c)
    <3>1. call[c].conf \notin ConfIds
      BY <2>3, NoneAssumption DEF Confirmed, ConfIds
    <3> QED BY <2>2, <3>1
  <2>4. CASE Confirmed(c)
    <3>1. PICK k \in ConfIds : k = call[c].conf /\ confs[k] \in ConfRows
      BY <2>1, <2>4, HolderBegan DEF CInv
    <3>2. confs[k].used \in Times
      BY <2>1, <2>4, <3>1 DEF CInv, Paid
    <3>3. confs[k] # None /\ confs[k].used # None
      BY <3>1, <3>2, RowAssumption, NoneAssumption DEF Times
    <3>4. ~Spends(k)
      <4>1. ASSUME NEW d \in Out, call[d].conf = k PROVE FALSE
        <5>1. d \in Calls /\ Holds(d) /\ Confirmed(d)
          BY <2>4, <3>1, <4>1 DEF Out, Holds, Confirmed
        <5>2. d = c
          BY <2>1, <2>4, <3>1, <4>1, <5>1 DEF CInv, SoleHolder
        <5> QED BY <2>1, <5>2
      <4> QED BY <4>1 DEF Spends
    <3>5. Spends(k)'
      BY <2>1, <3>1 DEF Spends
    <3>6. StateOf(k) = "spent"
      BY <3>3, <3>4, States
    <3>7. StateOf(k)' = "sent"
      BY <2>1, <3>3, <3>5 DEF StateOf, Spends
    <3>8. Ticket!Advance(k, "spent", "sent")
      BY <2>2, <3>1, <3>6, <3>7, TicketAdvances
    <3> QED BY <3>8 DEF Ticket!Next
  <2> QED BY <2>3, <2>4
<1>8. ASSUME NEW c \in Calls, Step(c) \/ Begins(c)
      PROVE  [Ticket!Next]_[k \in ConfIds |-> StateOf(k)]
  <2>1. CASE UNCHANGED <<handed, confs>>
    BY <1>3, <2>1
  <2> QED BY <1>5, <1>6, <1>7, <1>8, <2>1
          DEF Begins, Step, CheckThread, Dedup, ReadDay, Count, File, End, Stop
<1>9. ASSUME Around PROVE [Ticket!Next]_[k \in ConfIds |-> StateOf(k)]
  BY <1>3, <1>4, <1>9 DEF Around, ConfIds
<1> QED BY <1>8, <1>9, BeginKinds DEF CInv

\* A confirmation is a one-time ticket: every behaviour of calls, confirmations and
\* sends is one OneTime allows.
THEOREM ConfirmationsAreTickets == Spec => KeepsOneTime
<1>1. Init => Ticket!Init
  <2> SUFFICES ASSUME Init PROVE [k \in ConfIds |-> StateOf(k)] = [k \in ConfIds |-> "none"]
    BY DEF Ticket!Init
  <2> QED BY States DEF Init
<1>2. CInv /\ [Next]_vars => [Ticket!Next]_[k \in ConfIds |-> StateOf(k)]
  BY TicketStep
<1> QED BY <1>1, <1>2, ConfirmationsSafe, PTL DEF Spec, KeepsOneTime, Ticket!Spec
=============================================================================
