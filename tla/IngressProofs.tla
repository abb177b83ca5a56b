--------------------------- MODULE IngressProofs ---------------------------
(***************************************************************************)
(* Theorems about Ingress, for any envelope, tables, habits of senders and *)
(* numbers of faults and edits.                                            *)
(*                                                                         *)
(* The argument: at most one forward is awaited, it is for a recipient the *)
(* transaction was granted and that is still to be settled, and the ones   *)
(* left behind are no more than the faults; so 250 is said once to a       *)
(* recipient, and whatever else its mailbox got nobody was told of.        *)
(***************************************************************************)
EXTENDS Ingress, FiniteSetTheorems, TLAPS

\* What the sender has named and been granted in the transaction at hand.
Dialogue ==
  /\ IsFiniteSet(asked)
  /\ perMail = 1 => \A x, y \in asked : x = y
  /\ phase \in {"rcpt", "wait"} => granted \subseteq pending
  /\ phase = "rcpt" => asked = {} \/ to \in granted \cup {None}

\* The forwards under way: every fault leaves at most one behind, and the one that
\* is awaited is for a recipient that was granted.
Forwards ==
  /\ IsFiniteSet(calls)
  /\ Cardinality(calls) <= faults + (IF phase = "wait" THEN 1 ELSE 0)
  /\ \A c, d \in calls : c.id = d.id => c = d
  /\ \A c, d \in calls : c.awaited /\ d.awaited => c = d
  /\ \A c \in calls : c.awaited => phase = "wait" /\ c.to \in granted

\* A forward that has stored the message has done so.
StoredIsThere == \A c \in calls : c.stored => stored[c.to] > 0

\* The worker forwards nothing of a message it takes for a loop.
LoopIsDropped == Looped => phase = "idle" /\ calls = {} /\ \A r \in Recipients : stored[r] = 0

\* What a mailbox got is what the sender heard of, what nobody did, and what is
\* on its way to be told.
Counted ==
  \A r \in Recipients :
    stored[r] <= (IF r \in done THEN 1 ELSE 0) + unheard[r] + Cardinality(InFlight(r))

-----------------------------------------------------------------------------
(* Types.                                                                  *)

LEMMA EditsType ==
  ASSUME NEW t \in TableKind
  PROVE  Edits(t) \subseteq TableKind
<1>1. Created(t) \subseteq TableKind
  <2> SUFFICES ASSUME NEW b \in [id : Ids, at : Addresses, all : {FALSE}, catch : BOOLEAN]
               PROVE  [t EXCEPT !.boxes = @ \cup {b}] \in TableKind
    BY DEF Created
  <2>1. b \in [id : Ids, at : Addresses, all : BOOLEAN, catch : BOOLEAN]
    OBVIOUS
  <2> QED BY <2>1 DEF TableKind
<1>2. Removed(t) \subseteq TableKind
  <2> SUFFICES ASSUME NEW b \in t.boxes
               PROVE  [t EXCEPT !.boxes = @ \ {b}, !.aliases = {r \in @ : r.box # b.id}]
                        \in TableKind
    BY DEF Removed
  <2> QED BY DEF TableKind
<1>3. Aliased(t) \subseteq TableKind
  <2> SUFFICES ASSUME NEW r \in [at : Addresses, box : {b.id : b \in t.boxes}]
               PROVE  [t EXCEPT !.sendAs = @ \cup {r}] \in TableKind
    BY DEF Aliased
  <2>1. r \in [at : Addresses, box : Ids]
    BY DEF TableKind
  <2> QED BY <2>1 DEF TableKind
<1>4. Unaliased(t) \subseteq TableKind
  BY DEF Unaliased, TableKind
<1>5. DomainRemoved(t) \subseteq TableKind
  <2> DEFINE Gone(d) == {b.id : b \in {x \in t.boxes : x.at.domain = d}}
             Less(d) == [t EXCEPT !.boxes = {b \in @ : b.id \notin Gone(d)},
                                  !.aliases = {r \in @ : r.box \notin Gone(d) /\ r.at.domain # d}]
  <2>1. DomainRemoved(t) = {Less(d) : d \in Domains}
    BY DEF DomainRemoved
  <2>2. ASSUME NEW d \in Domains PROVE Less(d) \in TableKind
    <3> HIDE DEF Gone
    <3> QED BY DEF TableKind
  <2> HIDE DEF Less
  <2> QED BY <2>1, <2>2
<1> QED BY <1>1, <1>2, <1>3, <1>4, <1>5 DEF Edits

\* While the sender is not waiting there is an id no forward has.
LEMMA FreeId ==
  ASSUME TypeOK, Forwards, phase # "wait", NEW r \in Recipients
  PROVE  /\ Call(r).id \in CallIds
         /\ \A c \in calls : c.id # Call(r).id
<1>1. \E n \in CallIds : \A c \in calls : c.id # n
  <2> SUFFICES ASSUME \A n \in CallIds : \E c \in calls : c.id = n PROVE FALSE
    OBVIOUS
  <2> DEFINE f == [n \in CallIds |-> CHOOSE c \in calls : c.id = n]
  <2>1. f \in [CallIds -> calls] /\ \A n \in CallIds : f[n].id = n
    OBVIOUS
  <2>2. IsFiniteSet(CallIds) /\ Cardinality(CallIds) = MaxFaults + 1
    BY BoundAssumption, FS_Interval DEF CallIds
  <2>3. Cardinality(calls) <= MaxFaults /\ Cardinality(calls) \in Nat
    BY BoundAssumption, FS_CardinalityType DEF TypeOK, Forwards
  <2> HIDE DEF f
  <2>4. \E x, y \in CallIds : x # y /\ f[x] = f[y]
    BY <2>1, <2>2, <2>3, BoundAssumption, FS_PigeonHole DEF Forwards
  <2> QED BY <2>1, <2>4
<1> QED BY <1>1 DEF Call

\* What a new forward leaves so.
LEMMA CallAdded ==
  ASSUME TypeOK, Forwards, phase # "wait", NEW r \in Recipients,
         calls' = calls \cup {Call(r)}, phase' = "wait", r \in granted', faults' = faults
  PROVE  /\ calls' \subseteq [id : CallIds, to : Recipients, stored : BOOLEAN, awaited : BOOLEAN]
         /\ Forwards'
<1>1. Call(r) \in [id : CallIds, to : Recipients, stored : BOOLEAN, awaited : BOOLEAN]
  BY FreeId DEF Call
<1>2. IsFiniteSet(calls') /\ Cardinality(calls') <= faults' + 1
  <2>1. Call(r) \notin calls
    BY FreeId
  <2>2. IsFiniteSet(calls') /\ Cardinality(calls') = Cardinality(calls) + 1
    BY <2>1, FS_AddElement DEF Forwards
  <2>3. Cardinality(calls) \in Nat /\ Cardinality(calls) <= faults
    BY FS_CardinalityType, BoundAssumption DEF Forwards, TypeOK
  <2> QED BY <2>2, <2>3, BoundAssumption DEF TypeOK
<1>3. Call(r).awaited /\ Call(r).to = r
  BY DEF Call
<1>4. \A c, d \in calls' : c.id = d.id => c = d
  BY FreeId DEF Forwards
<1>5. \A c, d \in calls' : c.awaited /\ d.awaited => c = d
  BY <1>3 DEF Forwards
<1>6. \A c \in calls' : c.awaited => phase' = "wait" /\ c.to \in granted'
  BY <1>3 DEF Forwards
<1> QED BY <1>1, <1>2, <1>4, <1>5, <1>6 DEF Forwards, TypeOK

\* ... and one that ends: the sender waits no more if it was its forward.
LEMMA CallRemoved ==
  ASSUME TypeOK, Forwards, NEW c \in calls, calls' = calls \ {c}, granted' = granted,
         faults' \in {faults, faults + 1},
         (c.awaited /\ phase' = "idle") \/ (~c.awaited /\ phase' = phase)
  PROVE  Forwards'
<1>1. IsFiniteSet(calls') /\ Cardinality(calls') = Cardinality(calls) - 1
      /\ Cardinality(calls) \in Nat
  BY FS_RemoveElement, FS_CardinalityType DEF Forwards
<1>2. Cardinality(calls') <= faults' + (IF phase' = "wait" THEN 1 ELSE 0)
  BY <1>1 DEF Forwards, TypeOK
<1>3. \A d \in calls' : d.awaited => phase' = "wait" /\ d.to \in granted'
  BY DEF Forwards
<1> QED BY <1>1, <1>2, <1>3 DEF Forwards

LEMMA InvInit == Init => TypeOK /\ Dialogue /\ Forwards
<1> SUFFICES ASSUME Init PROVE TypeOK /\ Dialogue /\ Forwards
  OBVIOUS
<1>1. TypeOK
  BY RecipientsAssumption, UnwantedsAssumption, BoundAssumption DEF Init, TypeOK
<1>2. Dialogue /\ Forwards
  BY FS_EmptySet DEF Init, Dialogue, Forwards
<1> QED BY <1>1, <1>2

LEMMA InvStep ==
  TypeOK /\ Dialogue /\ Forwards /\ [Next]_vars => TypeOK' /\ Dialogue' /\ Forwards'
<1> SUFFICES ASSUME TypeOK, Dialogue, Forwards, [Next]_vars
             PROVE  TypeOK' /\ Dialogue' /\ Forwards'
  OBVIOUS
<1> USE DEF habits
<1>0. perMail \in Nat \ {0}
  BY BoundAssumption DEF TypeOK
<1>1. CASE Mail
  BY <1>1, FS_EmptySet DEF Mail, TypeOK, Dialogue, Forwards
<1>2. ASSUME NEW r \in Recipients, Rcpt(r) PROVE TypeOK' /\ Dialogue' /\ Forwards'
  <2>1. IsFiniteSet(asked') /\ (perMail' = 1 => \A x, y \in asked' : x = y)
    <3>1. IsFiniteSet(asked')
      BY <1>2, FS_AddElement DEF Rcpt, Dialogue
    <3>2. perMail = 1 => asked = {}
      BY <1>2, FS_EmptySet, FS_CardinalityType DEF Rcpt, Dialogue
    <3> QED BY <1>2, <3>1, <3>2 DEF Rcpt
  <2>2. CASE Grant(r)
    BY <1>2, <2>1, <2>2 DEF Rcpt, Grant, TypeOK, Dialogue, Forwards
  <2>3. CASE Deny(r)
    <3>1. faults' \in {faults, faults + 1} /\ faults' \in 0..MaxFaults
      BY <2>3, BoundAssumption DEF Deny, Fault, TypeOK
    <3>2. TypeOK'
      BY <1>2, <2>3, <3>1 DEF Rcpt, Deny, TypeOK
    <3>3. Dialogue'
      BY <1>2, <2>1, <2>3 DEF Rcpt, Deny, Dialogue, TypeOK
    <3>4. Cardinality(calls) \in Nat
      BY FS_CardinalityType DEF Forwards
    <3>5. Forwards'
      BY <1>2, <2>3, <3>1, <3>4 DEF Rcpt, Deny, Forwards, TypeOK
    <3> QED BY <3>2, <3>3, <3>5
  <2> QED BY <1>2, <2>2, <2>3 DEF Rcpt
<1>3. ASSUME NEW r \in Recipients, Invoke(r) PROVE TypeOK' /\ Dialogue' /\ Forwards'
  <2>1. /\ calls' \subseteq [id : CallIds, to : Recipients, stored : BOOLEAN, awaited : BOOLEAN]
        /\ Forwards'
    BY <1>3, CallAdded DEF Invoke
  <2>2. IsFiniteSet(asked')
    BY <1>3, FS_Singleton DEF Invoke
  <2> QED BY <1>3, <2>1, <2>2 DEF Invoke, TypeOK, Dialogue
<1>17. ASSUME NEW r \in Recipients, Skip(r) PROVE TypeOK' /\ Dialogue' /\ Forwards'
  BY <1>17 DEF Skip, TypeOK, Dialogue, Forwards
<1>4. CASE Data
  <2>1. to \in Recipients /\ to \in granted
    BY <1>4 DEF Data, TypeOK, Dialogue
  <2>2. /\ calls' \subseteq [id : CallIds, to : Recipients, stored : BOOLEAN, awaited : BOOLEAN]
        /\ Forwards'
    BY <1>4, <2>1, CallAdded DEF Data
  <2> QED BY <1>4, <2>2 DEF Data, TypeOK, Dialogue
<1>5. CASE DataRefused
  BY <1>5 DEF DataRefused, TypeOK, Dialogue, Forwards
<1>6. CASE Quit
  BY <1>6 DEF Quit, TypeOK, Dialogue, Forwards
<1>7. ASSUME NEW c \in calls, Store(c) PROVE TypeOK' /\ Dialogue' /\ Forwards'
  <2> DEFINE d == [c EXCEPT !.stored = TRUE]
  <2>1. c \in [id : CallIds, to : Recipients, stored : BOOLEAN, awaited : BOOLEAN]
    BY DEF TypeOK
  <2>2. /\ d \in [id : CallIds, to : Recipients, stored : BOOLEAN, awaited : BOOLEAN]
        /\ d.id = c.id /\ d.to = c.to /\ d.awaited = c.awaited
    BY <2>1
  <2>3. calls' = (calls \ {c}) \cup {d} /\ d \notin calls \ {c}
    BY <1>7, <2>2 DEF Store, Forwards
  <2> HIDE DEF d
  <2>4. IsFiniteSet(calls') /\ Cardinality(calls') = Cardinality(calls)
    <3>1. /\ IsFiniteSet(calls \ {c})
          /\ Cardinality(calls \ {c}) = Cardinality(calls) - 1
          /\ Cardinality(calls) \in Nat
      BY FS_RemoveElement, FS_CardinalityType DEF Forwards
    <3>2. IsFiniteSet(calls') /\ Cardinality(calls') = Cardinality(calls \ {c}) + 1
      BY <2>3, <3>1, FS_AddElement
    <3> QED BY <3>1, <3>2
  <2>5. Forwards'
    BY <1>7, <2>2, <2>3, <2>4 DEF Store, Forwards
  <2>6. stored' \in [Recipients -> Nat]
    BY <1>7, <2>1 DEF Store, TypeOK
  <2> QED BY <1>7, <2>2, <2>3, <2>5, <2>6 DEF Store, TypeOK, Dialogue
<1>8. ASSUME NEW c \in calls, NEW ok \in BOOLEAN, Answer(c, ok),
             faults' \in {faults, faults + 1}, faults' \in 0..MaxFaults
      PROVE  TypeOK' /\ Dialogue' /\ Forwards'
  <2>1. Forwards'
    BY <1>8, CallRemoved DEF Answer
  <2>2. unheard' \in [Recipients -> Nat]
    BY <1>8 DEF Answer, TypeOK
  <2>3. granted \subseteq pending
    BY <1>8 DEF Answer, Dialogue
  <2> QED BY <1>8, <2>1, <2>2, <2>3 DEF Answer, Settled, TypeOK, Dialogue
<1>9. ASSUME NEW c \in calls, Accept(c) PROVE TypeOK' /\ Dialogue' /\ Forwards'
  BY <1>8, <1>9 DEF Accept, TypeOK
<1>10. ASSUME NEW c \in calls, TryLater(c) PROVE TypeOK' /\ Dialogue' /\ Forwards'
  <2>1. faults' = faults + 1 /\ faults' \in 0..MaxFaults
    BY <1>10, BoundAssumption DEF TryLater, Fault, TypeOK
  <2> QED BY <1>8, <1>10, <2>1 DEF TryLater
<1>11. ASSUME NEW c \in calls, Refuse(c) PROVE TypeOK' /\ Dialogue' /\ Forwards'
  BY <1>8, <1>11 DEF Refuse, TypeOK
<1>12. ASSUME NEW c \in calls, Bounce(c) PROVE TypeOK' /\ Dialogue' /\ Forwards'
  <2>1. Forwards'
    BY <1>12, CallRemoved DEF Bounce
  <2>2. c.to \in pending
    BY <1>12 DEF Bounce, Forwards, Dialogue
  <2> QED BY <1>12, <2>1, <2>2 DEF Bounce, TypeOK, Dialogue
<1>13. CASE Drop
  <2> DEFINE Left(c) == [c EXCEPT !.awaited = FALSE]
             f == [c \in calls |-> Left(c)]
  <2>1. \A c \in calls :
          /\ Left(c) \in [id : CallIds, to : Recipients, stored : BOOLEAN, awaited : BOOLEAN]
          /\ Left(c).id = c.id /\ Left(c).to = c.to /\ Left(c).stored = c.stored
          /\ ~Left(c).awaited
    BY DEF TypeOK
  <2>2. calls' = {Left(c) : c \in calls}
    BY <1>13 DEF Drop
  <2>3. f \in Surjection(calls, calls')
    BY <2>2 DEF Surjection
  <2>4. IsFiniteSet(calls') /\ Cardinality(calls') <= Cardinality(calls)
    BY <2>3, FS_Surjection DEF Forwards
  <2>5. faults' = faults + 1 /\ faults' \in 0..MaxFaults
    BY <1>13, BoundAssumption DEF Drop, Fault, TypeOK
  <2>6. Cardinality(calls) \in Nat /\ Cardinality(calls') \in Nat
    BY <2>4, FS_CardinalityType DEF Forwards
  <2>7. Cardinality(calls') <= faults' + (IF phase' = "wait" THEN 1 ELSE 0)
    BY <1>13, <2>4, <2>5, <2>6 DEF Drop, Forwards, TypeOK
  <2> HIDE DEF Left
  <2>8. \A c, d \in calls' : c.id = d.id => c = d
    BY <2>1, <2>2 DEF Forwards
  <2>9. \A c \in calls' : ~c.awaited
    BY <2>1, <2>2
  <2>10. Forwards'
    BY <2>4, <2>7, <2>8, <2>9 DEF Forwards
  <2>11. calls' \subseteq [id : CallIds, to : Recipients, stored : BOOLEAN, awaited : BOOLEAN]
    BY <2>1, <2>2
  <2> QED BY <1>13, <2>5, <2>10, <2>11 DEF Drop, TypeOK, Dialogue
<1>14. ASSUME NEW c \in calls, End(c) PROVE TypeOK' /\ Dialogue' /\ Forwards'
  <2>1. Forwards'
    BY <1>14, CallRemoved DEF End
  <2>2. unheard' \in [Recipients -> Nat]
    BY <1>14 DEF End, TypeOK
  <2> QED BY <1>14, <2>1, <2>2 DEF End, TypeOK, Dialogue
<1>15. CASE Rewire
  <2>1. table' \in TableKind
    BY <1>15, EditsType DEF Rewire, TypeOK
  <2>2. edits' \in 0..MaxEdits
    BY <1>15, BoundAssumption DEF Rewire, TypeOK
  <2> QED BY <1>15, <2>1, <2>2 DEF Rewire, TypeOK, Dialogue, Forwards
<1>16. CASE UNCHANGED vars
  BY <1>16 DEF vars, TypeOK, Dialogue, Forwards
<1> QED BY <1>1, <1>2, <1>3, <1>4, <1>5, <1>6, <1>7, <1>9, <1>10, <1>11, <1>12, <1>13,
           <1>14, <1>15, <1>16, <1>17 DEF Next, Sender, API

\* Whatever the tables, the habits of senders and the faults, every variable keeps to
\* its range: a recipient is still to be settled, delivered or given up, and in one of
\* them only; there is always an id for the next forward.
THEOREM TypeCorrect == Spec => []TypeOK
<1>1. Spec => [](TypeOK /\ Dialogue /\ Forwards)
  BY InvInit, InvStep, PTL DEF Spec
<1> QED BY <1>1, PTL

-----------------------------------------------------------------------------
(* What an answer says.                                                    *)

LEMMA StoredInit == Init => StoredIsThere
BY DEF Init, StoredIsThere

LEMMA StoredStep ==
  TypeOK /\ Forwards /\ StoredIsThere /\ [Next]_vars => StoredIsThere'
<1> SUFFICES ASSUME TypeOK, Forwards, StoredIsThere, [Next]_vars PROVE StoredIsThere'
  OBVIOUS
<1> USE DEF habits
<1>1. CASE Mail \/ DataRefused \/ Quit \/ Rewire \/ UNCHANGED vars
  BY <1>1 DEF Mail, DataRefused, Quit, Rewire, vars, StoredIsThere
<1>2. ASSUME NEW r \in Recipients, Rcpt(r) PROVE StoredIsThere'
  BY <1>2 DEF Rcpt, StoredIsThere
<1>3. ASSUME NEW r, calls' = calls \cup {Call(r)}, stored' = stored PROVE StoredIsThere'
  BY <1>3 DEF Call, StoredIsThere
<1>4. CASE Data
  BY <1>3, <1>4 DEF Data
<1>5. ASSUME NEW r \in Recipients, Invoke(r) PROVE StoredIsThere'
  BY <1>3, <1>5 DEF Invoke
<1>10. ASSUME NEW r \in Recipients, Skip(r) PROVE StoredIsThere'
  BY <1>10 DEF Skip, StoredIsThere
<1>6. ASSUME NEW c \in calls, Store(c) PROVE StoredIsThere'
  <2> DEFINE d == [c EXCEPT !.stored = TRUE]
  <2>1. c \in [id : CallIds, to : Recipients, stored : BOOLEAN, awaited : BOOLEAN]
    BY DEF TypeOK
  <2>2. d.to = c.to /\ calls' = (calls \ {c}) \cup {d}
    BY <1>6, <2>1 DEF Store
  <2>3. \A r \in Recipients : stored'[r] >= stored[r] /\ stored'[c.to] > 0
    BY <1>6, <2>1 DEF Store, TypeOK
  <2>4. ASSUME NEW e \in calls', e.stored PROVE stored'[e.to] > 0
    <3>1. CASE e = d
      BY <2>1, <2>2, <2>3, <3>1
    <3>2. CASE e \in calls
      <4>1. e.to \in Recipients
        BY <3>2 DEF TypeOK
      <4>2. stored[e.to] > 0 /\ stored[e.to] \in Nat /\ stored'[e.to] >= stored[e.to]
            /\ stored'[e.to] \in Nat
        BY <1>6, <2>3, <2>4, <3>2, <4>1 DEF StoredIsThere, TypeOK, Store
      <4> QED BY <4>2
    <3> QED BY <2>2, <2>4, <3>1, <3>2
  <2> QED BY <2>4 DEF StoredIsThere
<1>7. ASSUME NEW c \in calls, calls' = calls \ {c}, stored' = stored PROVE StoredIsThere'
  BY <1>7 DEF StoredIsThere
<1>8. ASSUME NEW c \in calls, Accept(c) \/ TryLater(c) \/ Refuse(c) \/ Bounce(c) \/ End(c)
      PROVE  StoredIsThere'
  BY <1>7, <1>8 DEF Accept, TryLater, Refuse, Answer, Bounce, End
<1>9. CASE Drop
  <2> DEFINE Left(c) == [c EXCEPT !.awaited = FALSE]
  <2>1. \A c \in calls : Left(c).to = c.to /\ Left(c).stored = c.stored
    BY DEF TypeOK
  <2>2. calls' = {Left(c) : c \in calls} /\ stored' = stored
    BY <1>9 DEF Drop
  <2> HIDE DEF Left
  <2> QED BY <2>1, <2>2 DEF StoredIsThere
<1> QED BY <1>1, <1>2, <1>4, <1>5, <1>6, <1>8, <1>9, <1>10 DEF Next, Sender, API

\* Which way the message goes and what it carries is settled in the beginning.
LEMMA HabitsKept ==
  ASSUME [Next]_vars
  PROVE  via' = via /\ perMail' = perMail /\ marked' = marked
<1> USE DEF habits
<1>1. CASE Sender \/ Drop \/ Rewire \/ UNCHANGED vars
  BY <1>1 DEF Sender, Mail, Rcpt, Data, DataRefused, Quit, Invoke, Skip, Drop, Rewire, vars
<1>2. ASSUME NEW c \in calls, Store(c) \/ Bounce(c) \/ End(c) PROVE via' = via /\ perMail' = perMail /\ marked' = marked
  BY <1>2 DEF Store, Bounce, End
<1>3. ASSUME NEW c \in calls, Accept(c) \/ TryLater(c) \/ Refuse(c) PROVE via' = via /\ perMail' = perMail /\ marked' = marked
  BY <1>3 DEF Accept, TryLater, Refuse, Answer
<1> QED BY <1>1, <1>2, <1>3 DEF Next, API

LEMMA LoopStep ==
  TypeOK /\ LoopIsDropped /\ [Next]_vars => LoopIsDropped'
<1> SUFFICES ASSUME TypeOK, LoopIsDropped, [Next]_vars, Looped'
             PROVE  phase' = "idle" /\ calls' = {} /\ \A r \in Recipients : stored'[r] = 0
  BY DEF LoopIsDropped
<1> USE DEF habits
<1>1. Looped
  BY HabitsKept DEF Looped
<1>2. phase = "idle" /\ calls = {} /\ \A r \in Recipients : stored[r] = 0
  BY <1>1 DEF LoopIsDropped
<1>3. CASE Sender
  BY <1>1, <1>2, <1>3 DEF Sender, Looped, TypeOK, Mail, Rcpt, Data, DataRefused, Quit, Invoke, Skip
<1>4. CASE Drop
  BY <1>2, <1>4 DEF Drop
<1>5. CASE Rewire \/ UNCHANGED vars
  BY <1>2, <1>5 DEF Rewire, vars
<1>6. Sender \/ Drop \/ Rewire \/ UNCHANGED vars
  BY <1>2 DEF Next, API
<1> QED BY <1>3, <1>4, <1>5, <1>6

LEMMA KeptStep ==
  /\ TypeOK /\ Dialogue /\ Forwards /\ StoredIsThere /\ LoopIsDropped /\ KeptIfAlone /\ [Next]_vars
  => KeptIfAlone'
<1> SUFFICES ASSUME TypeOK, Dialogue, Forwards, StoredIsThere, LoopIsDropped, KeptIfAlone, [Next]_vars
             PROVE  KeptIfAlone'
  OBVIOUS
<1> SUFFICES ASSUME perMail' = 1, ~Looped', NEW r \in done' PROVE stored'[r] > 0
  <2>1. TypeOK' /\ LoopIsDropped'
    BY InvStep, LoopStep
  <2>2. done' \subseteq Recipients
    BY <2>1 DEF TypeOK
  <2> QED BY <2>1, <2>2 DEF KeptIfAlone, LoopIsDropped
<1> USE DEF habits
<1>1. perMail = 1 /\ ~Looped
  BY HabitsKept DEF Looped
<1>2. \A x \in done : stored[x] > 0 /\ stored[x] \in Nat
  BY <1>1 DEF KeptIfAlone, TypeOK
<1>3. CASE done' = done /\ stored' = stored
  BY <1>2, <1>3
<1>4. ASSUME NEW c \in calls, Store(c) PROVE stored'[r] > 0
  <2>1. done' = done /\ stored' = [stored EXCEPT ![c.to] = @ + 1] /\ c.to \in Recipients
    BY <1>4 DEF Store, TypeOK
  <2> QED BY <1>2, <2>1 DEF TypeOK
<1>5. ASSUME NEW c \in calls, Accept(c) PROVE stored'[r] > 0
  <2>1. c.stored /\ c.awaited /\ done' = done \cup granted /\ stored' = stored
    BY <1>5 DEF Accept, Acknowledges, Answer, Settled
  <2>2. c.to \in granted /\ granted \subseteq {c.to}
    BY <1>1, <2>1 DEF Forwards, Dialogue, TypeOK
  <2> QED BY <1>2, <2>1, <2>2 DEF StoredIsThere
<1>6. ASSUME NEW c \in calls, TryLater(c) \/ Refuse(c) PROVE stored'[r] > 0
  BY <1>3, <1>6 DEF TryLater, Refuse, Answer, Settled
<1>7. ASSUME NEW c \in calls, Bounce(c) \/ End(c) PROVE stored'[r] > 0
  BY <1>3, <1>7 DEF Bounce, End
<1>8. CASE Drop \/ Rewire \/ Sender
  BY <1>1, <1>3, <1>8 DEF Drop, Rewire, Sender, Mail, Rcpt, Invoke, Skip, Data, DataRefused, Quit
<1>9. CASE UNCHANGED vars
  BY <1>3, <1>9 DEF vars
<1> QED BY <1>4, <1>5, <1>6, <1>7, <1>8, <1>9 DEF Next, API

\* A sender that names its recipients one at a time, or leaves them to the worker, is told
\* of success only for mail that is in a mailbox, whatever was retried, lost, refused or
\* edited before - and of mail the worker takes for a loop no mailbox gets anything.
THEOREM AcknowledgedIsKept == Spec => []KeptIfAlone
<1>1. Init => KeptIfAlone
  BY DEF Init, KeptIfAlone
<1>2. Init => LoopIsDropped
  BY DEF Init, LoopIsDropped
<1>3. Spec => [](TypeOK /\ Dialogue /\ Forwards /\ StoredIsThere /\ LoopIsDropped /\ KeptIfAlone)
  BY <1>1, <1>2, InvInit, InvStep, StoredInit, StoredStep, LoopStep, KeptStep, PTL DEF Spec
<1> QED BY <1>3, PTL

-----------------------------------------------------------------------------
(* How often a mailbox gets the message.                                   *)

LEMMA CountedInit == Init => Counted
<1> SUFFICES ASSUME Init, NEW r \in Recipients
             PROVE  stored[r] <= (IF r \in done THEN 1 ELSE 0) + unheard[r]
                                   + Cardinality(InFlight(r))
  BY DEF Counted
<1>1. InFlight(r) = {}
  BY DEF Init, InFlight
<1> QED BY <1>1, FS_EmptySet DEF Init

\* A forward that ends without success being heard of is unheard of, if it had stored.
LEMMA CountedEnd ==
  ASSUME TypeOK, Forwards, Counted, NEW c \in calls, NEW n \in {0, 1},
         c.stored => n = 1,
         calls' = calls \ {c}, stored' = stored, done' = done,
         unheard' = [unheard EXCEPT ![c.to] = @ + n]
  PROVE  Counted'
<1> SUFFICES ASSUME NEW r \in Recipients
             PROVE  stored'[r] <= (IF r \in done' THEN 1 ELSE 0) + unheard'[r]
                                    + Cardinality(InFlight(r)')
  BY DEF Counted
<1>1. IsFiniteSet(InFlight(r))
  BY FS_Subset DEF InFlight, Forwards
<1>2. InFlight(r)' = InFlight(r) \ {c}
  BY DEF InFlight
<1>3. Cardinality(InFlight(r)) \in Nat
  BY <1>1, FS_CardinalityType
<1>4. Cardinality(InFlight(r)') = IF c \in InFlight(r) THEN Cardinality(InFlight(r)) - 1
                                                       ELSE Cardinality(InFlight(r))
  BY <1>1, <1>2, FS_RemoveElement
<1>5. stored[r] <= (IF r \in done THEN 1 ELSE 0) + unheard[r] + Cardinality(InFlight(r))
  BY DEF Counted
<1>6. c \in InFlight(r) => c.to = r /\ n = 1
  BY DEF InFlight
<1>7. c.to \in Recipients /\ unheard[r] \in Nat /\ stored[r] \in Nat
  BY DEF TypeOK
<1>8. unheard'[r] = IF c.to = r THEN unheard[r] + n ELSE unheard[r]
  BY <1>7 DEF TypeOK
<1> QED BY <1>3, <1>4, <1>5, <1>6, <1>7, <1>8

\* A forward that has not stored the message yet.
LEMMA CountedCall ==
  ASSUME Counted, NEW r \in Recipients, calls' = calls \cup {Call(r)}, stored' = stored,
         unheard' = unheard, done' = done
  PROVE  Counted'
<1>1. \A x \in Recipients : InFlight(x)' = InFlight(x)
  BY DEF InFlight, Call
<1> QED BY <1>1 DEF Counted

LEMMA CountedStep ==
  TypeOK /\ Dialogue /\ Forwards /\ Counted /\ [Next]_vars => Counted'
<1> SUFFICES ASSUME TypeOK, Dialogue, Forwards, Counted, [Next]_vars PROVE Counted'
  OBVIOUS
<1> USE DEF habits
<1>1. ASSUME calls' = calls, stored' = stored, unheard' = unheard, done' = done PROVE Counted'
  BY <1>1 DEF Counted, InFlight
<1>2. CASE Mail \/ DataRefused \/ Quit \/ Rewire \/ UNCHANGED vars
  BY <1>1, <1>2 DEF Mail, DataRefused, Quit, Rewire, vars
<1>3. ASSUME NEW r \in Recipients, Rcpt(r) PROVE Counted'
  BY <1>1, <1>3 DEF Rcpt
<1>4. CASE Data
  <2>1. to \in Recipients
    BY <1>4 DEF Data, TypeOK
  <2> QED BY <1>4, <2>1, CountedCall DEF Data
<1>5. ASSUME NEW r \in Recipients, Invoke(r) PROVE Counted'
  BY <1>5, CountedCall DEF Invoke
<1>13. ASSUME NEW r \in Recipients, Skip(r) PROVE Counted'
  <2>1. calls' = calls /\ stored' = stored /\ unheard' = unheard /\ done \subseteq done'
    BY <1>13 DEF Skip
  <2>2. ASSUME NEW x \in Recipients
        PROVE  stored'[x] <= (IF x \in done' THEN 1 ELSE 0) + unheard'[x] + Cardinality(InFlight(x)')
    <3>1. InFlight(x)' = InFlight(x)
      BY <2>1 DEF InFlight
    <3>2. stored[x] <= (IF x \in done THEN 1 ELSE 0) + unheard[x] + Cardinality(InFlight(x))
      BY DEF Counted
    <3>3. Cardinality(InFlight(x)) \in Nat
      BY FS_Subset, FS_CardinalityType DEF InFlight, Forwards
    <3>4. stored[x] \in Nat /\ unheard[x] \in Nat
      BY DEF TypeOK
    <3>5. CASE x \in done
      BY <2>1, <3>1, <3>2, <3>5
    <3>6. CASE x \notin done
      BY <2>1, <3>1, <3>2, <3>3, <3>4, <3>6
    <3> QED BY <3>5, <3>6
  <2> QED BY <2>2 DEF Counted
<1>6. ASSUME NEW c \in calls, Store(c), NEW r \in Recipients
      PROVE  stored'[r] <= (IF r \in done' THEN 1 ELSE 0) + unheard'[r]
                              + Cardinality(InFlight(r)')
  <2> DEFINE d == [c EXCEPT !.stored = TRUE]
  <2>1. c \in [id : CallIds, to : Recipients, stored : BOOLEAN, awaited : BOOLEAN]
    BY DEF TypeOK
  <2>2. /\ d.id = c.id /\ d.to = c.to /\ d.stored
        /\ calls' = (calls \ {c}) \cup {d} /\ ~c.stored
    BY <1>6, <2>1 DEF Store
  <2> HIDE DEF d
  <2>3. d \notin calls
    BY <2>2 DEF Forwards
  <2>4. IsFiniteSet(InFlight(r)) /\ Cardinality(InFlight(r)) \in Nat
    BY FS_Subset, FS_CardinalityType DEF InFlight, Forwards
  <2>5. stored[r] <= (IF r \in done THEN 1 ELSE 0) + unheard[r] + Cardinality(InFlight(r))
    BY DEF Counted
  <2>6. stored[r] \in Nat /\ unheard[r] \in Nat /\ unheard'[r] = unheard[r] /\ done' = done
    BY <1>6 DEF Store, TypeOK
  <2>7. CASE r = c.to
    <3>1. InFlight(r)' = InFlight(r) \cup {d}
      BY <2>2, <2>7 DEF InFlight
    <3>2. Cardinality(InFlight(r)') = Cardinality(InFlight(r)) + 1
      BY <2>3, <2>4, <3>1, FS_AddElement DEF InFlight
    <3>3. stored'[r] = stored[r] + 1
      BY <1>6, <2>7 DEF Store, TypeOK
    <3> QED BY <2>4, <2>5, <2>6, <3>2, <3>3
  <2>8. CASE r # c.to
    <3>1. InFlight(r)' = InFlight(r)
      BY <2>2, <2>8 DEF InFlight
    <3>2. stored'[r] = stored[r]
      BY <1>6, <2>8 DEF Store, TypeOK
    <3> QED BY <2>5, <2>6, <3>1, <3>2
  <2> QED BY <2>7, <2>8
<1>7. ASSUME NEW c \in calls, Accept(c), NEW r \in Recipients
      PROVE  stored'[r] <= (IF r \in done' THEN 1 ELSE 0) + unheard'[r]
                              + Cardinality(InFlight(r)')
  <2>1. /\ c.awaited /\ done' = done \cup granted /\ stored' = stored
        /\ calls' = calls \ {c}
    BY <1>7 DEF Accept, Answer, Settled
  <2>2. c.to \in granted /\ c.to \notin done
    BY <1>7, <2>1 DEF Accept, Answer, Forwards, Dialogue, TypeOK
  <2>3. unheard' = unheard
    BY <1>7 DEF Accept, Answer, TypeOK
  <2>4. IsFiniteSet(InFlight(r)) /\ Cardinality(InFlight(r)) \in Nat
    BY FS_Subset, FS_CardinalityType DEF InFlight, Forwards
  <2>5. InFlight(r)' = InFlight(r) \ {c}
    BY <2>1 DEF InFlight
  <2>6. Cardinality(InFlight(r)') = IF c \in InFlight(r) THEN Cardinality(InFlight(r)) - 1
                                                         ELSE Cardinality(InFlight(r))
    BY <2>4, <2>5, FS_RemoveElement
  <2>7. stored[r] <= (IF r \in done THEN 1 ELSE 0) + unheard[r] + Cardinality(InFlight(r))
    BY DEF Counted
  <2>8. stored[r] \in Nat /\ unheard[r] \in Nat
    BY DEF TypeOK
  <2>9. CASE r = c.to
    <3>1. r \in done' /\ r \notin done
      BY <2>1, <2>2, <2>9
    <3> QED BY <2>1, <2>3, <2>4, <2>6, <2>7, <2>8, <3>1
  <2>10. CASE r # c.to
    <3>1. Cardinality(InFlight(r)') = Cardinality(InFlight(r))
      BY <2>6, <2>10 DEF InFlight
    <3>2. r \in done => r \in done'
      BY <2>1
    <3> QED BY <2>1, <2>3, <2>4, <2>7, <2>8, <3>1, <3>2
  <2> QED BY <2>9, <2>10
<1>8. ASSUME NEW c \in calls, TryLater(c) \/ Refuse(c) PROVE Counted'
  <2> DEFINE n == IF c.stored /\ ~FALSE THEN 1 ELSE 0
  <2>1. /\ calls' = calls \ {c} /\ stored' = stored /\ done' = done
        /\ unheard' = [unheard EXCEPT ![c.to] = @ + n]
    BY <1>8 DEF TryLater, Refuse, Answer, Settled
  <2> QED BY <2>1, CountedEnd
<1>9. ASSUME NEW c \in calls, Bounce(c) PROVE Counted'
  <2>1. unheard' = [unheard EXCEPT ![c.to] = @ + 0] /\ ~c.stored
    BY <1>9 DEF Bounce, TypeOK
  <2> QED BY <1>9, <2>1, CountedEnd DEF Bounce
<1>10. ASSUME NEW c \in calls, End(c) PROVE Counted'
  <2> DEFINE n == IF c.stored THEN 1 ELSE 0
  <2>1. unheard' = [unheard EXCEPT ![c.to] = @ + n]
    BY <1>10 DEF End
  <2> QED BY <1>10, <2>1, CountedEnd DEF End
<1>11. ASSUME Drop, NEW r \in Recipients PROVE Cardinality(InFlight(r)') = Cardinality(InFlight(r))
  <2> DEFINE Left(c) == [c EXCEPT !.awaited = FALSE]
             f == [c \in InFlight(r) |-> Left(c)]
  <2>1. \A c \in calls : Left(c).id = c.id /\ Left(c).to = c.to /\ Left(c).stored = c.stored
    BY DEF TypeOK
  <2>2. calls' = {Left(c) : c \in calls}
    BY <1>11 DEF Drop
  <2> HIDE DEF Left
  <2>3. InFlight(r)' = {Left(c) : c \in InFlight(r)}
    BY <2>1, <2>2 DEF InFlight
  <2>4. IsFiniteSet(InFlight(r))
    BY FS_Subset DEF InFlight, Forwards
  <2>5. f \in Surjection(InFlight(r), InFlight(r)')
    BY <2>3 DEF Surjection
  <2>6. \A a, b \in InFlight(r) : f[a] = f[b] => a = b
    BY <2>1 DEF InFlight, Forwards
  <2>7. f \in Injection(InFlight(r), InFlight(r)')
    BY <2>5, <2>6 DEF Surjection, Injection, IsInjective
  <2> QED BY <2>4, <2>5, <2>7, FS_Surjection
<1>12. CASE Drop
  BY <1>11, <1>12 DEF Drop, Counted
<1> QED BY <1>2, <1>3, <1>4, <1>5, <1>6, <1>7, <1>8, <1>9, <1>10, <1>12, <1>13
        DEF Next, Sender, API, Counted

\* Of the forwards that stored the message for a recipient the sender awaits one, and
\* none once it was told of delivery.
LEMMA CountedMeans ==
  TypeOK /\ Dialogue /\ Forwards /\ Counted => DuplicatesWereUnheard
<1> SUFFICES ASSUME TypeOK, Dialogue, Forwards, Counted, NEW r \in Recipients
             PROVE  stored[r] <= 1 + unheard[r]
                                   + Cardinality({c \in InFlight(r) : ~c.awaited})
  BY DEF DuplicatesWereUnheard
<1> DEFINE left == {c \in InFlight(r) : ~c.awaited}
<1>1. IsFiniteSet(InFlight(r)) /\ Cardinality(InFlight(r)) \in Nat
  BY FS_Subset, FS_CardinalityType DEF InFlight, Forwards
<1>2. IsFiniteSet(left) /\ Cardinality(left) \in Nat
  <2>1. IsFiniteSet(left)
    BY <1>1, FS_Subset
  <2> QED BY <2>1, FS_CardinalityType
<1>3. stored[r] <= (IF r \in done THEN 1 ELSE 0) + unheard[r] + Cardinality(InFlight(r))
  BY DEF Counted
<1>4. stored[r] \in Nat /\ unheard[r] \in Nat
  BY DEF TypeOK
<1>5. CASE \A c \in InFlight(r) : ~c.awaited
  <2>1. left = InFlight(r)
    BY <1>5
  <2>2. Cardinality(left) = Cardinality(InFlight(r))
    BY <2>1
  <2> QED BY <1>1, <1>3, <1>4, <2>2
<1>6. ASSUME NEW c \in InFlight(r), c.awaited
      PROVE  stored[r] <= 1 + unheard[r] + Cardinality(left)
  <2>1. r \notin done
    BY <1>6 DEF InFlight, Forwards, Dialogue, TypeOK
  <2>2. left = InFlight(r) \ {c}
    BY <1>6 DEF InFlight, Forwards
  <2> HIDE DEF left
  <2>3. Cardinality(left) = Cardinality(InFlight(r)) - 1
    BY <1>1, <1>6, <2>2, FS_RemoveElement
  <2> QED BY <1>1, <1>2, <1>3, <1>4, <2>1, <2>3
<1> QED BY <1>5, <1>6

\* A mailbox gets the message once, and once more for every forward whose success the
\* sender never heard of; nothing else - no refused RCPT TO, no edit of the tables, no
\* second recipient of the transaction - makes a duplicate.
THEOREM NoOtherDuplicates == Spec => []DuplicatesWereUnheard
<1>1. Spec => [](TypeOK /\ Dialogue /\ Forwards /\ Counted)
  BY InvInit, InvStep, CountedInit, CountedStep, PTL DEF Spec
<1> QED BY <1>1, CountedMeans, PTL

-----------------------------------------------------------------------------
(* Where an address leads, for any tables.                                 *)

\* What the tables say of an address, whichever phase finds it.
Named(t, a) ==
  \/ \E b \in t.boxes : b.at = a \/ (b.all /\ b.at.local = a.local) \/ (b.catch /\ b.at.domain = a.domain)
  \/ \E r \in t.aliases \cup t.sendAs : r.at = a /\ \E b \in t.boxes : b.id = r.box
  \/ a.domain \in t.forwards

\* The first phase that finds something decides.
LEMMA FirstDecides ==
  ASSUME NEW t, NEW a
  PROVE  \/ Resolve(t, a) = {} /\ \A i \in 1..6 : Phases(t, a)[i] = {}
         \/ \E i \in 1..6 : /\ Resolve(t, a) = Phases(t, a)[i] /\ Phases(t, a)[i] # {}
                            /\ \A j \in 1..6 : j < i => Phases(t, a)[j] = {}
<1> DEFINE P(i) == Phases(t, a)[i]
           hits == {i \in 1..6 : P(i) # {}}
<1> HIDE DEF P
<1>1. CASE hits = {}
  BY <1>1 DEF Resolve, P
<1>2. CASE hits # {}
  <2>1. \E i \in hits : \A j \in hits : i <= j
    BY <1>2
  <2> DEFINE i == CHOOSE k \in hits : \A j \in hits : k <= j
  <2>2. i \in hits /\ \A j \in hits : i <= j
    BY <2>1
  <2>3. Resolve(t, a) = P(i)
    BY <1>2 DEF Resolve, P
  <2> HIDE DEF i
  <2>4. \A j \in 1..6 : j < i => P(j) = {}
    BY <2>2
  <2> QED BY <2>2, <2>3, <2>4 DEF P
<1> QED BY <1>1, <1>2

LEMMA PhasesFacts ==
  ASSUME NEW t, NEW a
  PROVE  /\ Phases(t, a)[1] = Exact(t, a) /\ Phases(t, a)[2] = Joined(t, t.aliases, a)
         /\ Phases(t, a)[3] = AllDomains(t, a) /\ Phases(t, a)[4] = CatchAll(t, a)
         /\ Phases(t, a)[5] = Joined(t, t.sendAs, a) /\ Phases(t, a)[6] = Forwarded(t, a)
BY DEF Phases

\* resolve_recipient: an address with a mailbox of its own leads there and nowhere
\* else, whatever aliases, catch-alls and rules name it besides.
THEOREM OwnMailboxFirst ==
  ASSUME NEW t \in TableKind, NEW a \in Addresses, NEW b \in t.boxes, b.at = a
  PROVE  Resolve(t, a) = Exact(t, a)
<1>1. Exact(t, a) # {}
  BY DEF Exact
<1> QED BY <1>1, FirstDecides, PhasesFacts

\* The listener accepts an address if and only if something in the tables names it,
\* for a mailbox that is there.
THEOREM NamedIsAccepted ==
  ASSUME NEW t \in TableKind, NEW a \in Addresses
  PROVE  Accepted(t, a) <=> Named(t, a)
<1>1. Accepted(t, a) <=> \E i \in 1..6 : Phases(t, a)[i] # {}
  BY FirstDecides DEF Accepted
<1>2. Accepted(t, a) <=> \/ Exact(t, a) # {} \/ Joined(t, t.aliases, a) # {} \/ AllDomains(t, a) # {}
                         \/ CatchAll(t, a) # {} \/ Joined(t, t.sendAs, a) # {} \/ Forwarded(t, a) # {}
  BY <1>1, PhasesFacts
<1>3. Exact(t, a) # {} <=> \E b \in t.boxes : b.at = a
  BY DEF Exact
<1>4. AllDomains(t, a) # {} <=> \E b \in t.boxes : b.all /\ b.at.local = a.local
  BY DEF AllDomains
<1>5. CatchAll(t, a) # {} <=> \E b \in t.boxes : b.catch /\ b.at.domain = a.domain
  BY DEF CatchAll
<1>6. \A R : Joined(t, R, a) # {} <=> \E r \in R : r.at = a /\ \E b \in t.boxes : b.id = r.box
  BY DEF Joined
<1>7. Forwarded(t, a) # {} <=> a.domain \in t.forwards
  BY DEF Forwarded
<1> QED BY <1>2, <1>3, <1>4, <1>5, <1>6, <1>7 DEF Named

\* resolve_address, the helper of the core crate, answers as resolve_recipient does
\* where mailboxes and their catch-alls are all there is.
THEOREM HelperAgrees ==
  ASSUME NEW t \in TableKind, NEW a \in Addresses, t.aliases = {}, t.sendAs = {}, t.forwards = {},
         \A b \in t.boxes : ~b.all
  PROVE  Resolve(t, a) = ResolveAddress(t, a)
<1>1. Joined(t, t.aliases, a) = {} /\ Joined(t, t.sendAs, a) = {} /\ AllDomains(t, a) = {} /\ Forwarded(t, a) = {}
  BY DEF Joined, AllDomains, Forwarded
<1>2. ASSUME NEW i \in 1..6, i # 1, i # 4 PROVE Phases(t, a)[i] = {}
  <2>1. i = 2 \/ i = 3 \/ i = 5 \/ i = 6
    BY <1>2
  <2> QED BY <1>1, <2>1, PhasesFacts
<1>3. CASE Exact(t, a) # {}
  <2>1. Resolve(t, a) = Phases(t, a)[1]
    BY <1>3, FirstDecides, PhasesFacts
  <2> QED BY <1>3, <2>1, PhasesFacts DEF ResolveAddress
<1>4. CASE Exact(t, a) = {}
  <2>1. Resolve(t, a) = Phases(t, a)[4]
    <3>1. Phases(t, a)[1] = {}
      BY <1>4, PhasesFacts
    <3>2. \/ Resolve(t, a) = {} /\ Phases(t, a)[4] = {}
          \/ \E i \in 1..6 : Resolve(t, a) = Phases(t, a)[i] /\ Phases(t, a)[i] # {}
      BY FirstDecides
    <3> QED BY <1>2, <3>1, <3>2
  <2> QED BY <1>4, <2>1, PhasesFacts DEF ResolveAddress
<1> QED BY <1>3, <1>4

\* Only the rule of a domain leads to no mailbox, and only where nothing else leads to one.
LEMMA NilIsLast ==
  ASSUME NEW t \in TableKind, NEW a \in Addresses
  PROVE  Deliverable(t, a) # {} <=> \E i \in 1..5 : Phases(t, a)[i] # {}
<1>1. \A b \in t.boxes : b.id # Nil
  BY AddressAssumption DEF TableKind
<1>2. \A i \in 1..5 : Nil \notin Phases(t, a)[i]
  <2>1. \A R : Nil \notin Joined(t, R, a)
    BY <1>1 DEF Joined
  <2>2. Nil \notin Exact(t, a) /\ Nil \notin AllDomains(t, a) /\ Nil \notin CatchAll(t, a)
    BY <1>1 DEF Exact, AllDomains, CatchAll
  <2> QED BY <2>1, <2>2, PhasesFacts
<1>3. Phases(t, a)[6] \subseteq {Nil}
  BY PhasesFacts DEF Forwarded
<1>4. CASE \E i \in 1..5 : Phases(t, a)[i] # {}
  <2>1. PICK k \in 1..6 : /\ Resolve(t, a) = Phases(t, a)[k] /\ Phases(t, a)[k] # {}
                          /\ \A j \in 1..6 : j < k => Phases(t, a)[j] = {}
    BY <1>4, FirstDecides
  <2>2. k \in 1..5
    BY <1>4, <2>1
  <2> QED BY <1>2, <1>4, <2>1, <2>2 DEF Deliverable
<1>5. CASE \A i \in 1..5 : Phases(t, a)[i] = {}
  <2>1. Resolve(t, a) = {} \/ Resolve(t, a) = Phases(t, a)[6]
    BY <1>5, FirstDecides
  <2> QED BY <1>3, <1>5, <2>1 DEF Deliverable
<1> QED BY <1>4, <1>5

\* With fewer mailboxes and fewer aliases an address finds no more.
LEMMA LessNames ==
  ASSUME NEW t \in TableKind, NEW u \in TableKind, NEW a \in Addresses, u.boxes \subseteq t.boxes,
         u.aliases \subseteq t.aliases, u.sendAs \subseteq t.sendAs, u.forwards = t.forwards
  PROVE  /\ Accepted(u, a) => Accepted(t, a)
         /\ Deliverable(u, a) # {} => Deliverable(t, a) # {}
<1>1. Named(u, a) => Named(t, a)
  BY DEF Named
<1>2. \A i \in 1..5 : Phases(u, a)[i] \subseteq Phases(t, a)[i]
  <2>1. Exact(u, a) \subseteq Exact(t, a) /\ AllDomains(u, a) \subseteq AllDomains(t, a) /\ CatchAll(u, a) \subseteq CatchAll(t, a)
    BY DEF Exact, AllDomains, CatchAll
  <2>2. Joined(u, u.aliases, a) \subseteq Joined(t, t.aliases, a) /\ Joined(u, u.sendAs, a) \subseteq Joined(t, t.sendAs, a)
    BY DEF Joined
  <2> QED BY <2>1, <2>2, PhasesFacts
<1> QED BY <1>1, <1>2, NamedIsAccepted, NilIsLast

\* What an administrator takes away - a mailbox, an address to send as, a domain -
\* makes no address accepted, nor deliverable, that was not.
THEOREM TakingAwayAddsNothing ==
  ASSUME NEW t \in TableKind, NEW u \in Removed(t) \cup Unaliased(t) \cup DomainRemoved(t), NEW a \in Addresses
  PROVE  /\ Accepted(u, a) => Accepted(t, a)
         /\ Deliverable(u, a) # {} => Deliverable(t, a) # {}
<1>1. u \in TableKind
  BY EditsType DEF Edits
<1>2. CASE u \in Removed(t)
  <2>1. u.boxes \subseteq t.boxes /\ u.aliases \subseteq t.aliases /\ u.sendAs = t.sendAs /\ u.forwards = t.forwards
    BY <1>2 DEF Removed, TableKind
  <2> QED BY <1>1, <2>1, LessNames
<1>3. CASE u \in Unaliased(t)
  <2>1. u.boxes = t.boxes /\ u.aliases = t.aliases /\ u.sendAs \subseteq t.sendAs /\ u.forwards = t.forwards
    BY <1>3 DEF Unaliased, TableKind
  <2> QED BY <1>1, <2>1, LessNames
<1>4. CASE u \in DomainRemoved(t)
  <2> DEFINE Gone(d) == {b.id : b \in {x \in t.boxes : x.at.domain = d}}
             Less(d) == [t EXCEPT !.boxes = {b \in @ : b.id \notin Gone(d)},
                                  !.aliases = {r \in @ : r.box \notin Gone(d) /\ r.at.domain # d}]
  <2>1. PICK d \in Domains : u = Less(d)
    BY <1>4 DEF DomainRemoved
  <2>2. u.boxes \subseteq t.boxes /\ u.aliases \subseteq t.aliases /\ u.sendAs = t.sendAs /\ u.forwards = t.forwards
    <3> HIDE DEF Gone
    <3> QED BY <2>1 DEF TableKind
  <2> QED BY <1>1, <2>2, LessNames
<1> QED BY <1>2, <1>3, <1>4
=============================================================================
