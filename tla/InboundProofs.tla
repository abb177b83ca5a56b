--------------------------- MODULE InboundProofs ---------------------------
(***************************************************************************)
(* Theorems about Inbound, for any number of deliveries, mailboxes,        *)
(* contacts and filters, and that it implements Forwarding.                *)
(*                                                                         *)
(* The argument: the step a delivery is at tells whether it has filed its  *)
(* row and been answered; the row has what the attachments still to store  *)
(* lack, unless it went with its mailbox; and a thread is known by the     *)
(* delivery that created it, whose mailbox it is in.                       *)
(***************************************************************************)
EXTENDS Inbound, TLAPS

\* What the step a delivery is at says of it.
Stages ==
  \A d \in Deliveries :
    /\ pc[d] # "new" => mail[d] \in Mails
    /\ d \in kept => pc[d] \in {"files", "end"}
    /\ pc[d] = "files" => d \in kept
    /\ pc[d] = "end" <=> answer[d] # "none"
    /\ answer[d] = "ok" => d \in kept /\ todo[d] = 0
    /\ vac[d] # "none" => d \in kept

\* The row of a delivery, and what it lacks.
Rows ==
  /\ \A r1, r2 \in rows : r1.by = r2.by => r1 = r2
  /\ \A row \in rows : /\ row.box = Box(row.by) /\ row.folder = folder[row.by]
                       /\ row.files + todo[row.by] = mail[row.by].files
  /\ \A d \in kept : Box(d) \in alive => \E row \in rows : row.by = d

\* Threads are in the mailbox of the delivery they are named after.
Threads ==
  /\ \A t \in threads : t.id \in Deliveries /\ t.box = Box(t.id)
  /\ \A d \in Deliveries : thread[d] # None => Box(thread[d]) = Box(d)

\* Where the message of a sender who was seen to be blocked goes.
Placed ==
  /\ \A d \in Deliveries : found[d] = "blocked" =>
       /\ pc[d] = "rules" => folder[d] = "Spam"
       /\ folder[d] = "Inbox" => ruled[d] = "move_inbox"
  /\ \A d \in Deliveries : pc[d] \in {"new", "block"} => found[d] = "none"
  /\ \A d \in pushed : answer[d] = "ok" /\ Pushes(d)

-----------------------------------------------------------------------------
(* Types.                                                                  *)

Inv == TypeOK /\ Stages /\ Threads

LEMMA MailFacts ==
  ASSUME TypeOK, NEW d \in Deliveries
  PROVE  /\ mail[d] \in Mails \cup {None}
         /\ mail[d] \in Mails => /\ Box(d) \in Boxes /\ mail[d].files \in Nat
                                 /\ mail[d].forced \in Folders \cup {None}
<1>1. mail \in [Deliveries -> Mails \cup {None}]
  BY TrafficAssumption DEF TypeOK
<1> QED BY <1>1, TrafficAssumption DEF Box

LEMMA InvInit == Init => Inv
<1> SUFFICES ASSUME Init PROVE Inv
  OBVIOUS
<1>1. alive \subseteq Boxes
  <2>1. mail \in [Deliveries -> Mails \cup {None}]
    BY TrafficAssumption DEF Init
  <2>2. \A d \in Deliveries : mail[d] # None => mail[d].box \in Boxes
    BY <2>1, TrafficAssumption
  <2> QED BY <2>2 DEF Init
<1>2. 0 \in 0..MaxTime
  BY TimeAssumption
<1>3. blocked \subseteq Contacts /\ rule \in [Boxes -> AllRules]
  BY DEF Init
<1>4. /\ checked \in [Deliveries -> 0..MaxTime] /\ clock \in 0..MaxTime
      /\ sentAt \in [Boxes -> [Senders -> 0..MaxTime \cup {None}]]
  BY <1>2 DEF Init
<1>5. TypeOK
  BY <1>1, <1>3, <1>4 DEF Init, TypeOK, Folders
<1>6. Stages /\ Threads
  BY DEF Init, Stages, Threads
<1> QED BY <1>5, <1>6 DEF Inv

\* An error answers the sender and ends the delivery.
LEMMA FailKeeps ==
  ASSUME Inv, NEW d \in Deliveries, Fail(d), pc[d] # "end", mail[d] \in Mails,
         UNCHANGED <<mail, thread, todo, rows, threads, kept, pushed, vacVars, envVars>>,
         folder' \in [Deliveries -> Folders], copied' \subseteq Deliveries,
         found' \in [Deliveries -> {"none", "free", "blocked", "unread"}],
         ruled' \in [Deliveries -> AllRules \cup {None}]
  PROVE  Inv'
<1> USE DEF vacVars, envVars
<1>1. TypeOK'
  BY DEF Inv, TypeOK, Fail, Goto
<1>2. Stages'
  BY DEF Inv, TypeOK, Stages, Fail, Goto
<1>3. Threads'
  BY DEF Inv, Threads, Box
<1> QED BY <1>1, <1>2, <1>3 DEF Inv

\* A step on the way to the row.
LEMMA WayKeeps ==
  ASSUME Inv, NEW d \in Deliveries, NEW step \in {"block", "rules", "legacy", "find", "create",
                                                  "insert"},
         Goto(d, step), pc[d] \notin {"files", "end"}, mail[d] \in Mails,
         UNCHANGED <<mail, answer, todo, rows, kept, pushed, vacVars, envVars>>,
         folder' \in [Deliveries -> Folders], copied' \subseteq Deliveries,
         found' \in [Deliveries -> {"none", "free", "blocked", "unread"}],
         ruled' \in [Deliveries -> AllRules \cup {None}],
         thread' \in [Deliveries -> Deliveries \cup {None}],
         \A t \in threads' : t.box \in alive,
         Threads'
  PROVE  Inv'
<1> USE DEF vacVars, envVars
<1>1. TypeOK'
  BY DEF Inv, TypeOK, Goto
<1>2. Stages'
  BY DEF Inv, TypeOK, Stages, Goto
<1> QED BY <1>1, <1>2 DEF Inv

LEMMA ThreadsKept ==
  ASSUME Threads, UNCHANGED <<thread, threads, mail>>
  PROVE  Threads'
BY DEF Threads, Box

LEMMA FolderFacts ==
  ASSUME NEW f \in Folders, NEW r
  PROVE  Ruled(f, r) \in Folders /\ Legacy(f, r) \in Folders
BY DEF Ruled, Legacy, Folders

LEMMA DeliverStep == ASSUME Inv, NEW d \in Deliveries, Deliver(d) PROVE Inv'
<1> USE DEF mailVars, outVars
<1>0. TypeOK /\ Stages /\ Threads
  BY DEF Inv
<1>1. pc[d] # "new" => mail[d] \in Mails
  BY DEF Inv, Stages
<1>2. CASE PutRaw(d)
  <2>1. mail[d] \in Mails
    BY <1>0, <1>2, MailFacts DEF PutRaw
  <2> QED BY <1>0, <1>2, <2>1, WayKeeps, ThreadsKept DEF PutRaw, TypeOK
<1>3. CASE Forced(d)
  <2>1. mail[d].forced \in Folders
    BY <1>0, <1>1, <1>3, MailFacts DEF Forced
  <2>2. folder' \in [Deliveries -> Folders]
    BY <1>0, <1>3, <2>1 DEF Forced, TypeOK
  <2> QED BY <1>0, <1>1, <1>3, <2>2, WayKeeps, ThreadsKept DEF Forced, TypeOK
<1>4. CASE ReadBlocked(d)
  <2>1. /\ folder' \in [Deliveries -> Folders]
        /\ found' \in [Deliveries -> {"none", "free", "blocked", "unread"}]
    BY <1>0, <1>4 DEF ReadBlocked, TypeOK, Folders
  <2> QED BY <1>0, <1>1, <1>4, <2>1, WayKeeps, ThreadsKept DEF ReadBlocked, TypeOK
<1>5. CASE ApplyFilters(d)
  <2> DEFINE r == rule[Box(d)]
  <2>1. r \in AllRules
    BY <1>0, <1>1, <1>5, MailFacts DEF ApplyFilters, TypeOK, AllRules
  <2>2. ruled' = [ruled EXCEPT ![d] = r] /\ folder' = [folder EXCEPT ![d] = Ruled(@, r)]
        /\ copied' \in {copied, copied \cup {d}}
    BY <1>5 DEF ApplyFilters
  <2> HIDE DEF r
  <2>3. /\ folder' \in [Deliveries -> Folders] /\ copied' \subseteq Deliveries
        /\ ruled' \in [Deliveries -> AllRules \cup {None}]
    BY <1>0, <2>1, <2>2, FolderFacts DEF TypeOK
  <2>4. CASE Fail(d)
    BY <1>0, <1>1, <1>5, <2>3, <2>4, FailKeeps DEF ApplyFilters, TypeOK
  <2>5. ASSUME NEW step \in {"find", "legacy"}, Goto(d, step), UNCHANGED answer PROVE Inv'
    BY <1>0, <1>1, <1>5, <2>3, <2>5, WayKeeps, ThreadsKept DEF ApplyFilters, TypeOK
  <2> QED BY <1>5, <2>4, <2>5 DEF ApplyFilters
<1>6. CASE FiltersFail(d)
  BY <1>0, <1>1, <1>6, WayKeeps, ThreadsKept DEF FiltersFail, TypeOK
<1>7. CASE ApplyLegacy(d)
  <2>1. folder' \in [Deliveries -> Folders]
    BY <1>0, <1>7, FolderFacts DEF ApplyLegacy, TypeOK
  <2> QED BY <1>0, <1>1, <1>7, <2>1, WayKeeps, ThreadsKept DEF ApplyLegacy, TypeOK
<1>8. CASE FindThread(d)
  <2> DEFINE same == {t \in threads : SameThread(t, d)}
  <2>1. CASE same = {} /\ Goto(d, "create") /\ UNCHANGED thread
    BY <1>0, <1>1, <1>8, <2>1, WayKeeps, ThreadsKept DEF FindThread, TypeOK
  <2>2. ASSUME NEW t \in same, thread' = [thread EXCEPT ![d] = t.id], Goto(d, "insert")
        PROVE  Inv'
    <3>1. t.id \in Deliveries /\ Box(t.id) = Box(d)
      BY <1>0, <2>2 DEF Threads, SameThread
    <3>2. UNCHANGED <<mail, threads>>
      BY <1>8 DEF FindThread
    <3>3. Threads'
      BY <1>0, <2>2, <3>1, <3>2 DEF Threads, TypeOK, Box
    <3>4. thread' \in [Deliveries -> Deliveries \cup {None}]
      BY <1>0, <2>2, <3>1 DEF TypeOK
    <3> QED BY <1>0, <1>1, <1>8, <2>2, <3>3, <3>4, WayKeeps DEF FindThread, TypeOK
  <2> QED BY <1>8, <2>1, <2>2 DEF FindThread
<1>9. CASE CreateThread(d)
  <2> DEFINE new == [id |-> d, box |-> Box(d), subject |-> mail[d].subject]
  <2>1. /\ threads' = threads \cup {new} /\ new.id = d /\ new.box = Box(d) /\ Box(d) \in alive
        /\ thread' = [thread EXCEPT ![d] = d] /\ mail' = mail
    BY <1>9 DEF CreateThread
  <2> HIDE DEF new
  <2>2. Threads' /\ \A t \in threads' : t.box \in alive
    BY <1>0, <2>1 DEF Threads, TypeOK, Box
  <2>3. thread' \in [Deliveries -> Deliveries \cup {None}]
    BY <1>0, <2>1 DEF TypeOK
  <2> QED BY <1>0, <1>1, <1>9, <2>2, <2>3, WayKeeps DEF CreateThread, TypeOK
<1>10. CASE InsertRow(d)
  <2>1. thread[d] \in Deliveries /\ Box(d) \in alive
    BY <1>0, <1>10 DEF InsertRow, Referenced, Threads
  <2>2. todo' \in [Deliveries -> Nat]
    BY <1>0, <1>1, <1>10, MailFacts DEF InsertRow, TypeOK
  <2>3. rows' \subseteq [by : kept', box : alive, folder : Folders, thread : Deliveries,
                        files : Nat]
    BY <1>0, <1>10, <2>1 DEF InsertRow, TypeOK
  <2>4. TypeOK'
    BY <1>0, <1>10, <2>2, <2>3 DEF InsertRow, Goto, TypeOK, envVars
  <2>5. Stages'
    BY <1>0, <1>10 DEF InsertRow, Goto, TypeOK, Stages
  <2>6. Threads'
    BY <1>0, <1>10, ThreadsKept DEF InsertRow
  <2> QED BY <2>4, <2>5, <2>6 DEF Inv
<1>11. CASE StoreFile(d)
  <2>1. PICK row \in rows : row.by = d /\ rows' = (rows \ {row}) \cup {[row EXCEPT !.files = @ + 1]}
    BY <1>11 DEF StoreFile
  <2>2. [row EXCEPT !.files = @ + 1]
          \in [by : kept, box : alive, folder : Folders, thread : Deliveries, files : Nat]
    BY <1>0, <2>1 DEF TypeOK
  <2>3. todo' \in [Deliveries -> Nat]
    BY <1>0, <1>11 DEF StoreFile, TypeOK
  <2>4. TypeOK'
    BY <1>0, <1>11, <2>1, <2>2, <2>3 DEF StoreFile, TypeOK, outVars, vacVars, envVars
  <2>5. Stages'
    BY <1>0, <1>11 DEF StoreFile, TypeOK, Stages, vacVars
  <2>6. Threads'
    BY <1>0, <1>11, ThreadsKept DEF StoreFile
  <2> QED BY <2>4, <2>5, <2>6 DEF Inv
<1>12. CASE Notify(d)
  <2>1. d \in kept
    BY <1>0, <1>12 DEF Notify, Stages
  <2>2. TypeOK'
    BY <1>0, <1>12, <2>1 DEF Notify, Goto, TypeOK, vacVars, envVars
  <2>3. Stages'
    BY <1>0, <1>12, <2>1 DEF Notify, Goto, AllStored, TypeOK, Stages, vacVars
  <2>4. Threads'
    BY <1>0, <1>12, ThreadsKept DEF Notify
  <2> QED BY <2>2, <2>3, <2>4 DEF Inv
<1>13. CASE FailStep(d)
  <2>1. mail[d] \in Mails /\ pc[d] # "end"
    BY <1>0, <1>13, MailFacts DEF FailStep
  <2> QED BY <1>0, <1>13, <2>1, FailKeeps DEF FailStep, TypeOK
<1> QED BY <1>2, <1>3, <1>4, <1>5, <1>6, <1>7, <1>8, <1>9, <1>10, <1>11, <1>12, <1>13 DEF Deliver

LEMMA InvStep == Inv /\ [Next]_vars => Inv'
<1> SUFFICES ASSUME Inv, [Next]_vars PROVE Inv'
  OBVIOUS
<1> USE DEF mailVars, outVars, vacVars, envVars
<1>0. TypeOK /\ Stages /\ Threads
  BY DEF Inv
<1>1. ASSUME NEW d \in Deliveries, Vacation(d) PROVE Inv'
  <2>1. d \in kept
    BY <1>0, <1>1 DEF Vacation, VacationCheck, VacationSend, VacationRecord, Stages
  <2>2. CASE VacationCheck(d)
    BY <1>0, <2>1, <2>2, ThreadsKept DEF VacationCheck, TypeOK, Stages, Inv
  <2>3. CASE VacationSend(d)
    BY <1>0, <2>1, <2>3, ThreadsKept DEF VacationSend, TypeOK, Stages, Inv
  <2>4. CASE VacationRecord(d)
    <3>1. sentAt' \in [Boxes -> [Senders -> 0..MaxTime \cup {None}]]
      <4> DEFINE noted == [sentAt[Box(d)] EXCEPT ![From(d)] = checked[d]]
      <4>1. Box(d) \in Boxes
        BY <1>0, <2>1, MailFacts DEF Stages
      <4>2. noted \in [Senders -> 0..MaxTime \cup {None}]
        BY <1>0, <4>1 DEF TypeOK
      <4>3. sentAt' \in {sentAt, [sentAt EXCEPT ![Box(d)] = noted]}
        BY <2>4 DEF VacationRecord
      <4> HIDE DEF noted
      <4> QED BY <1>0, <4>1, <4>2, <4>3 DEF TypeOK
    <3> QED BY <1>0, <2>1, <2>4, <3>1, ThreadsKept DEF VacationRecord, TypeOK, Stages, Inv
  <2> QED BY <1>1, <2>2, <2>3, <2>4 DEF Vacation
<1>2. ASSUME NEW c \in Contacts, BlockContact(c) PROVE Inv'
  <2>1. rule' \in [Boxes -> AllRules]
    <3>1. "move_work" \in AllRules
      BY ContactAssumption DEF AllRules
    <3>2. rule' \in {rule, [rule EXCEPT ![c[1]] = "move_work"]}
      BY <1>2 DEF BlockContact
    <3> QED BY <1>0, <3>1, <3>2 DEF TypeOK
  <2> QED BY <1>0, <1>2, <2>1, ThreadsKept DEF BlockContact, TypeOK, Stages, Inv
<1>3. ASSUME NEW b \in Boxes, NEW r \in Rules(b), SetRule(b, r) PROVE Inv'
  <2>1. rule' \in [Boxes -> AllRules]
    BY <1>0, <1>3 DEF SetRule, TypeOK, AllRules
  <2> QED BY <1>0, <1>3, <2>1, ThreadsKept DEF SetRule, TypeOK, Stages, Inv
<1>4. ASSUME NEW b \in Boxes, DeleteMailbox(b) PROVE Inv'
  <2>1. TypeOK'
    <3>1. \A row \in rows' : row \in rows /\ row.box \in alive'
      BY <1>0, <1>4 DEF DeleteMailbox, TypeOK
    <3>2. rows' \subseteq [by : kept', box : alive', folder : Folders, thread : Deliveries,
                          files : Nat]
      BY <1>0, <1>4, <3>1 DEF DeleteMailbox, TypeOK
    <3> QED BY <1>0, <1>4, <3>2 DEF DeleteMailbox, TypeOK
  <2>2. Stages'
    BY <1>0, <1>4 DEF DeleteMailbox, Stages
  <2>3. Threads'
    BY <1>0, <1>4 DEF DeleteMailbox, Threads, Box
  <2> QED BY <2>1, <2>2, <2>3 DEF Inv
<1>5. CASE Tick
  <2>1. clock' \in 0..MaxTime
    BY <1>0, <1>5, TimeAssumption DEF Tick, TypeOK
  <2> QED BY <1>0, <1>5, <2>1, ThreadsKept DEF Tick, TypeOK, Stages, Inv
<1>6. CASE Crash
  <2>1. TypeOK'
    BY <1>0, <1>6 DEF Crash, TypeOK
  <2>2. Stages'
    BY <1>0, <1>6 DEF Crash, TypeOK, Stages
  <2> QED BY <1>0, <1>6, <2>1, <2>2, ThreadsKept DEF Crash, Inv
<1>7. CASE UNCHANGED vars
  BY <1>0, <1>7, ThreadsKept DEF vars, TypeOK, Stages, Inv
<1> QED BY <1>1, <1>2, <1>3, <1>4, <1>5, <1>6, <1>7, DeliverStep DEF Next

\* Every variable keeps to the values the handler gives it, and rows and threads to
\* mailboxes that exist, whatever else goes on.
THEOREM TypeCorrect == Spec => []TypeOK
<1>1. Spec => []Inv
  BY InvInit, InvStep, PTL DEF Spec
<1> QED BY <1>1, PTL DEF Inv

-----------------------------------------------------------------------------
(* The rows.                                                               *)

LEMMA RowsInit == Init => Rows
BY DEF Init, Rows

\* A step that leaves the rows, and what decides about them, alone.
LEMMA RowsKept ==
  ASSUME Inv, Rows, rows' = rows, kept' = kept, mail' = mail, alive' \subseteq alive,
         \A d \in kept : todo'[d] = todo[d] /\ folder'[d] = folder[d]
  PROVE  Rows'
BY DEF Inv, TypeOK, Rows, Box

LEMMA RowsDeliver == ASSUME Inv, Rows, NEW d \in Deliveries, Deliver(d) PROVE Rows'
<1> USE DEF mailVars, outVars, vacVars, envVars
<1>0. TypeOK /\ Stages /\ (d \in kept => pc[d] \in {"files", "end"})
  BY DEF Inv, Stages
<1>1. CASE PutRaw(d) \/ FiltersFail(d) \/ FindThread(d) \/ CreateThread(d) \/ Notify(d)
           \/ FailStep(d)
  BY <1>1, RowsKept DEF PutRaw, FiltersFail, FindThread, CreateThread, Notify, FailStep
<1>2. CASE Forced(d) \/ ReadBlocked(d) \/ ApplyFilters(d) \/ ApplyLegacy(d)
  <2>1. UNCHANGED <<rows, kept, mail, alive, todo>> /\ d \notin kept
    BY <1>0, <1>2 DEF Forced, ReadBlocked, ApplyFilters, ApplyLegacy
  <2>2. \A e \in Deliveries : e # d => folder'[e] = folder[e]
    BY <1>0, <1>2 DEF Forced, ReadBlocked, ApplyFilters, ApplyLegacy, TypeOK
  <2> QED BY <1>0, <2>1, <2>2, RowsKept DEF TypeOK
<1>3. CASE InsertRow(d)
  <2> DEFINE new == [by |-> d, box |-> Box(d), folder |-> folder[d], thread |-> thread[d],
                     files |-> 0]
  <2>1. /\ rows' = rows \cup {new} /\ kept' = kept \cup {d} /\ UNCHANGED <<mail, folder, alive>>
        /\ todo' = [todo EXCEPT ![d] = mail[d].files]
        /\ d \notin kept
    BY <1>0, <1>3 DEF InsertRow
  <2>2. mail[d].files \in Nat
    BY <1>0, <1>3, MailFacts DEF InsertRow, Stages
  <2>3. /\ new.by = d /\ new.box = Box(d) /\ new.folder = folder[d] /\ new.files = 0
    OBVIOUS
  <2> HIDE DEF new
  <2>4. \A row \in rows : row.by # d /\ row.by \in Deliveries
    BY <1>0, <2>1 DEF TypeOK
  <2>5. \A r1, r2 \in rows' : r1.by = r2.by => r1 = r2
    BY <2>1, <2>3, <2>4 DEF Rows
  <2>6. todo'[d] = mail[d].files /\ \A e \in Deliveries : e # d => todo'[e] = todo[e]
    BY <1>0, <2>1 DEF TypeOK
  <2>7. \A row \in rows' : /\ row.box = Box(row.by)' /\ row.folder = folder'[row.by]
                           /\ row.files + todo'[row.by] = mail'[row.by].files
    BY <2>1, <2>2, <2>3, <2>4, <2>6 DEF Rows, Box
  <2>8. \A e \in kept' : Box(e)' \in alive' => \E row \in rows' : row.by = e
    BY <2>1, <2>3 DEF Rows, Box
  <2> QED BY <2>5, <2>7, <2>8 DEF Rows
<1>4. CASE StoreFile(d)
  <2>1. PICK row \in rows : row.by = d /\ rows' = (rows \ {row}) \cup {[row EXCEPT !.files = @ + 1]}
    BY <1>4 DEF StoreFile
  <2> DEFINE new == [row EXCEPT !.files = @ + 1]
  <2>2. /\ row.files \in Nat /\ row.files + todo[d] = mail[d].files /\ todo[d] \in Nat
        /\ todo[d] > 0
    BY <1>0, <1>4, <2>1 DEF Rows, TypeOK, StoreFile
  <2>3. /\ UNCHANGED <<mail, folder, alive, kept>>
        /\ todo'[d] = todo[d] - 1 /\ \A e \in Deliveries : e # d => todo'[e] = todo[e]
    BY <1>0, <1>4 DEF StoreFile, TypeOK
  <2>4. new.by = d /\ new.box = row.box /\ new.folder = row.folder
    BY <1>0, <2>1 DEF TypeOK
  <2>5. new.files = row.files + 1
    BY <1>0 DEF TypeOK
  <2>6. rows' = (rows \ {row}) \cup {new}
    BY <2>1
  <2> HIDE DEF new
  <2>7. \A x \in rows \ {row} : x.by # d /\ x.by \in Deliveries
    BY <1>0, <2>1 DEF Rows, TypeOK
  <2>8. \A r1, r2 \in rows' : r1.by = r2.by => r1 = r2
    BY <2>4, <2>6, <2>7 DEF Rows
  <2>9. new.files + todo'[d] = mail[d].files
    BY <2>2, <2>3, <2>5
  <2>10. \A x \in rows' : /\ x.box = Box(x.by)' /\ x.folder = folder'[x.by]
                          /\ x.files + todo'[x.by] = mail'[x.by].files
    BY <2>1, <2>3, <2>4, <2>6, <2>7, <2>9 DEF Rows, Box
  <2>11. \A e \in kept' : Box(e)' \in alive' => \E x \in rows' : x.by = e
    BY <2>1, <2>3, <2>4, <2>6 DEF Rows, Box
  <2> QED BY <2>8, <2>10, <2>11 DEF Rows
<1> QED BY <1>1, <1>2, <1>3, <1>4 DEF Deliver

LEMMA RowsStep == Inv /\ Rows /\ [Next]_vars => Rows'
<1> SUFFICES ASSUME Inv, Rows, [Next]_vars PROVE Rows'
  OBVIOUS
<1> USE DEF mailVars, outVars, vacVars, envVars
<1>1. ASSUME NEW d \in Deliveries, Vacation(d) PROVE Rows'
  BY <1>1, RowsKept DEF Vacation, VacationCheck, VacationSend, VacationRecord
<1>2. ASSUME NEW c \in Contacts, BlockContact(c) PROVE Rows'
  BY <1>2, RowsKept DEF BlockContact
<1>3. ASSUME NEW b \in Boxes, NEW r \in Rules(b), SetRule(b, r) PROVE Rows'
  BY <1>3, RowsKept DEF SetRule
<1>4. ASSUME NEW b \in Boxes, DeleteMailbox(b) PROVE Rows'
  <2>1. /\ UNCHANGED <<mail, folder, todo, kept>> /\ alive' = alive \ {b}
        /\ rows' = {row \in rows : row.box # b}
    BY <1>4 DEF DeleteMailbox
  <2> QED BY <2>1 DEF Rows, Box
<1>5. CASE Tick \/ Crash \/ UNCHANGED vars
  BY <1>5, RowsKept DEF Tick, Crash, vars
<1> QED BY <1>1, <1>2, <1>3, <1>4, <1>5, RowsDeliver DEF Next

\* A message that was acknowledged is there with every attachment, however deliveries,
\* failures and crashes interleave, as long as its mailbox is.
THEOREM WholeOnceAcknowledged == Spec => []AcknowledgedWhole
<1>1. Inv /\ Rows => AcknowledgedWhole
  <2> SUFFICES ASSUME Inv, Rows, NEW d \in Deliveries, answer[d] = "ok", Box(d) \in alive
               PROVE  \E row \in rows : row.by = d /\ row.files = mail[d].files
    BY DEF AcknowledgedWhole
  <2>1. d \in kept /\ todo[d] = 0
    BY DEF Inv, Stages
  <2>2. PICK row \in rows : row.by = d
    BY <2>1 DEF Rows
  <2>3. row.files \in Nat /\ row.files + 0 = mail[d].files
    BY <2>1, <2>2 DEF Rows, Inv, TypeOK
  <2> QED BY <2>2, <2>3
<1>2. Spec => [](Inv /\ Rows)
  BY InvInit, InvStep, RowsInit, RowsStep, PTL DEF Spec
<1> QED BY <1>1, <1>2, PTL

-----------------------------------------------------------------------------
(* Where messages are.                                                     *)

LEMMA ThreadOfMailboxStep == Inv /\ Rows /\ ThreadOfMailbox /\ [Next]_vars => ThreadOfMailbox'
<1> SUFFICES ASSUME Inv, Rows, ThreadOfMailbox, [Next]_vars PROVE ThreadOfMailbox'
  OBVIOUS
<1>1. ASSUME \A row \in rows' : \E old \in rows : row.thread = old.thread /\ row.box = old.box,
             threads \subseteq threads'
      PROVE  ThreadOfMailbox'
  BY <1>1 DEF ThreadOfMailbox
<1>2. CASE rows' = rows /\ threads \subseteq threads'
  BY <1>1, <1>2
<1>3. ASSUME NEW d \in Deliveries, InsertRow(d) PROVE ThreadOfMailbox'
  <2> DEFINE new == [by |-> d, box |-> Box(d), folder |-> folder[d], thread |-> thread[d],
                     files |-> 0]
  <2>1. rows' = rows \cup {new} /\ threads' = threads
    BY <1>3 DEF InsertRow
  <2>2. PICK t \in threads : t.id = thread[d]
    BY <1>3 DEF InsertRow, Referenced
  <2>3. t.box = Box(d)
    BY <2>2, NoneAssumption DEF Inv, Threads
  <2>4. new.thread = thread[d] /\ new.box = Box(d)
    OBVIOUS
  <2> HIDE DEF new
  <2> QED BY <2>1, <2>2, <2>3, <2>4 DEF ThreadOfMailbox
<1>4. ASSUME NEW d \in Deliveries, StoreFile(d) PROVE ThreadOfMailbox'
  <2>1. threads' = threads
    BY <1>4 DEF StoreFile
  <2>2. \A row \in rows : LET new == [row EXCEPT !.files = @ + 1]
                          IN new.thread = row.thread /\ new.box = row.box
    BY DEF Inv, TypeOK
  <2> QED BY <1>1, <1>4, <2>1, <2>2 DEF StoreFile
<1>5. ASSUME NEW d \in Deliveries, Deliver(d) PROVE ThreadOfMailbox'
  BY <1>2, <1>3, <1>4, <1>5 DEF Deliver, PutRaw, Forced, ReadBlocked, ApplyFilters, FiltersFail,
       ApplyLegacy, FindThread, CreateThread, Notify, FailStep
<1>6. ASSUME NEW b \in Boxes, DeleteMailbox(b) PROVE ThreadOfMailbox'
  BY <1>6 DEF DeleteMailbox, ThreadOfMailbox
<1>7. CASE UNCHANGED vars
  BY <1>2, <1>7 DEF vars
<1> QED BY <1>2, <1>5, <1>6, <1>7 DEF Next, Vacation, VacationCheck, VacationSend, VacationRecord,
          BlockContact, SetRule, Tick, Crash

\* A step that decides nothing more of the deliveries it has decided about.
LEMMA PlacedKept ==
  ASSUME Placed, UNCHANGED <<found, folder, ruled, mail, pushed>>,
         \A d \in Deliveries : /\ pc'[d] = "rules" => pc[d] = "rules"
                               /\ pc'[d] \in {"new", "block"} => pc[d] \in {"new", "block"},
         \A d \in pushed : answer'[d] = "ok"
  PROVE  Placed'
BY DEF Placed, Pushes

LEMMA PlacedStep == Inv /\ Placed /\ [Next]_vars => Placed'
<1> SUFFICES ASSUME Inv, Placed, [Next]_vars PROVE Placed'
  OBVIOUS
<1> USE DEF mailVars, outVars, vacVars, envVars
<1>0. /\ TypeOK /\ \A d \in pushed : d \in Deliveries /\ answer[d] = "ok" /\ pc[d] = "end"
  BY DEF Inv, Placed, Stages, TypeOK
<1>1. ASSUME NEW d \in Deliveries, d \notin pushed, UNCHANGED <<mail, pushed>>,
             \A e \in Deliveries \ {d} :
               /\ pc'[e] = pc[e] /\ answer'[e] = answer[e] /\ found'[e] = found[e]
               /\ folder'[e] = folder[e] /\ ruled'[e] = ruled[e],
             found'[d] = "blocked" =>
               /\ pc'[d] = "rules" => folder'[d] = "Spam"
               /\ folder'[d] = "Inbox" => ruled'[d] = "move_inbox",
             pc'[d] \in {"new", "block"} => found'[d] = "none"
      PROVE  Placed'
  BY <1>0, <1>1 DEF Placed, Pushes
<1>2. ASSUME NEW d \in Deliveries,
             PutRaw(d) \/ FiltersFail(d) \/ FindThread(d) \/ CreateThread(d) \/ InsertRow(d)
               \/ FailStep(d)
      PROVE  Placed'
  <2>1. d \notin pushed /\ UNCHANGED <<mail, pushed, found, folder, ruled>>
    BY <1>0, <1>2 DEF PutRaw, FiltersFail, FindThread, CreateThread, InsertRow, FailStep
  <2>2. /\ pc'[d] # "rules" /\ (pc'[d] \in {"new", "block"} => pc[d] = "new")
        /\ \A e \in Deliveries \ {d} : pc'[e] = pc[e] /\ answer'[e] = answer[e]
    BY <1>0, <1>2 DEF PutRaw, FiltersFail, FindThread, CreateThread, InsertRow, FailStep,
         Goto, Fail, TypeOK
  <2> QED BY <1>0, <1>1, <2>1, <2>2 DEF Placed
<1>3. ASSUME NEW d \in Deliveries, Forced(d) PROVE Placed'
  <2>1. found[d] = "none"
    BY <1>3 DEF Forced, Placed
  <2> QED BY <1>0, <1>1, <1>3, <2>1 DEF Forced, Goto, TypeOK
<1>4. ASSUME NEW d \in Deliveries, ReadBlocked(d) PROVE Placed'
  <2>1. d \notin pushed /\ UNCHANGED <<mail, pushed, ruled, answer>>
    BY <1>0, <1>4 DEF ReadBlocked
  <2>2. \A e \in Deliveries \ {d} :
          pc'[e] = pc[e] /\ found'[e] = found[e] /\ folder'[e] = folder[e]
    BY <1>0, <1>4 DEF ReadBlocked, Goto, TypeOK
  <2>3. pc'[d] = "rules" /\ (found'[d] = "blocked" => folder'[d] = "Spam")
    BY <1>0, <1>4 DEF ReadBlocked, Goto, TypeOK
  <2> QED BY <1>1, <2>1, <2>2, <2>3
<1>5. ASSUME NEW d \in Deliveries, ApplyFilters(d) PROVE Placed'
  <2>1. d \notin pushed /\ UNCHANGED <<mail, pushed, found>> /\ pc[d] = "rules"
    BY <1>0, <1>5 DEF ApplyFilters
  <2>2. /\ folder'[d] = Ruled(folder[d], ruled'[d]) /\ pc'[d] \notin {"rules", "new", "block"}
        /\ \A e \in Deliveries \ {d} : /\ pc'[e] = pc[e] /\ answer'[e] = answer[e]
                                       /\ folder'[e] = folder[e] /\ ruled'[e] = ruled[e]
    BY <1>0, <1>5 DEF ApplyFilters, Goto, Fail, TypeOK
  <2>3. found[d] = "blocked" => folder[d] = "Spam"
    BY <2>1 DEF Placed
  <2> QED BY <1>1, <2>1, <2>2, <2>3 DEF Ruled
<1>6. ASSUME NEW d \in Deliveries, ApplyLegacy(d) PROVE Placed'
  <2>1. d \notin pushed /\ UNCHANGED <<mail, pushed, found, ruled, answer>>
    BY <1>0, <1>6 DEF ApplyLegacy
  <2>2. /\ folder'[d] \in {folder[d], "Work", "Spam"} /\ pc'[d] \notin {"rules", "new", "block"}
        /\ \A e \in Deliveries \ {d} : pc'[e] = pc[e] /\ folder'[e] = folder[e]
    BY <1>0, <1>6 DEF ApplyLegacy, Legacy, Goto, TypeOK
  <2> QED BY <1>1, <2>1, <2>2 DEF Placed
<1>7. ASSUME NEW d \in Deliveries, Notify(d) PROVE Placed'
  <2>1. /\ UNCHANGED <<mail, folder, found, ruled>> /\ pushed' \subseteq pushed \cup {d}
        /\ d \in pushed' => d \in pushed \/ Pushes(d)
    BY <1>7 DEF Notify
  <2>2. /\ answer'[d] = "ok" /\ pc'[d] \notin {"rules", "new", "block"}
        /\ \A e \in Deliveries \ {d} : pc'[e] = pc[e] /\ answer'[e] = answer[e]
    BY <1>0, <1>7 DEF Notify, Goto, TypeOK
  <2>3. \A e \in pushed' : answer'[e] = "ok" /\ Pushes(e)
    BY <1>0, <2>1, <2>2 DEF Placed
  <2> QED BY <2>1, <2>2, <2>3 DEF Placed, Pushes
<1>8. ASSUME NEW d \in Deliveries, StoreFile(d) PROVE Placed'
  BY <1>0, <1>8, PlacedKept DEF StoreFile
<1>9. ASSUME NEW d \in Deliveries, Vacation(d) PROVE Placed'
  BY <1>0, <1>9, PlacedKept DEF Vacation, VacationCheck, VacationSend, VacationRecord
<1>10. CASE Crash
  BY <1>0, <1>10, PlacedKept DEF Crash
<1>11. CASE (\E c \in Contacts : BlockContact(c)) \/ (\E b \in Boxes : \E r \in Rules(b) : SetRule(b, r))
            \/ (\E b \in Boxes : DeleteMailbox(b)) \/ Tick \/ UNCHANGED vars
  BY <1>0, <1>11, PlacedKept DEF BlockContact, SetRule, DeleteMailbox, Tick, vars
<1> QED BY <1>2, <1>3, <1>4, <1>5, <1>6, <1>7, <1>8, <1>9, <1>10, <1>11 DEF Next, Deliver

\* Each message is in a thread of its own mailbox; of a sender who was seen to be blocked
\* only a filter that says so puts one into Inbox; and the owner is alerted to what is,
\* complete, in Inbox and nothing else.
THEOREM PlacedWell == Spec => []WellPlaced
<1>1. Init => Placed /\ ThreadOfMailbox
  BY DEF Init, Placed, ThreadOfMailbox
<1>2. Spec => [](Inv /\ Rows /\ Placed /\ ThreadOfMailbox)
  BY <1>1, InvInit, InvStep, RowsInit, RowsStep, PlacedStep, ThreadOfMailboxStep, PTL DEF Spec
<1>3. Inv /\ Rows /\ Placed => BlockedStaysOut
  BY DEF Inv, TypeOK, Rows, Placed, BlockedStaysOut
<1>4. Inv /\ Rows /\ Placed => AlertIsInInbox
  <2> SUFFICES ASSUME Inv, Rows, Placed, NEW d \in pushed
               PROVE  /\ Box(d) \in alive =>
                           \E row \in rows : /\ row.by = d /\ row.folder = "Inbox"
                                             /\ row.files = mail[d].files
                      /\ found[d] = "blocked" => ruled[d] = "move_inbox"
                      /\ mail[d].forced = None
    BY DEF AlertIsInInbox
  <2>1. d \in Deliveries /\ d \in kept /\ todo[d] = 0 /\ Pushes(d)
    BY DEF Inv, TypeOK, Stages, Placed
  <2>2. ASSUME Box(d) \in alive
        PROVE  \E row \in rows : row.by = d /\ row.folder = "Inbox" /\ row.files = mail[d].files
    <3>1. PICK row \in rows : row.by = d
      BY <2>1, <2>2 DEF Rows
    <3>2. row.files \in Nat /\ row.files + 0 = mail[d].files /\ row.folder = "Inbox"
      BY <2>1, <3>1 DEF Inv, TypeOK, Rows, Pushes
    <3> QED BY <3>1, <3>2
  <2> QED BY <2>1, <2>2 DEF Placed, Pushes
<1> QED BY <1>2, <1>3, <1>4, PTL DEF WellPlaced

-----------------------------------------------------------------------------
(* What the ingress relies on.                                             *)

LEMMA States ==
  ASSUME NEW d
  PROVE  /\ answer[d] # "none" => StateOf(d) = answer[d]
         /\ answer[d] = "none" /\ d \in kept => StateOf(d) = "filed"
         /\ answer[d] = "none" /\ d \notin kept /\ pc[d] = "new" => StateOf(d) = "new"
         /\ answer[d] = "none" /\ d \notin kept /\ pc[d] # "new" => StateOf(d) = "running"
BY DEF StateOf

LEMMA StatesAfter ==
  ASSUME NEW d
  PROVE  /\ answer'[d] # "none" => StateOf(d)' = answer'[d]
         /\ answer'[d] = "none" /\ d \in kept' => StateOf(d)' = "filed"
         /\ answer'[d] = "none" /\ d \notin kept' /\ pc'[d] = "new" => StateOf(d)' = "new"
         /\ answer'[d] = "none" /\ d \notin kept' /\ pc'[d] # "new" => StateOf(d)' = "running"
BY DEF StateOf

\* One delivery moves on.
LEMMA Moves ==
  ASSUME NEW d \in Deliveries, NEW to, NEW from, StateOf(d) \in from, StateOf(d)' = to,
         \A e \in Deliveries : e # d => StateOf(e)' = StateOf(e)
  PROVE  Contract!Move(d, from, to)
BY DEF Contract!Move, ForwardState

LEMMA Stays ==
  ASSUME \A d \in Deliveries : StateOf(d)' = StateOf(d)
  PROVE  ForwardState' = ForwardState
BY DEF ForwardState

LEMMA Same ==
  ASSUME NEW d, pc'[d] = pc[d], answer'[d] = answer[d], d \in kept' <=> d \in kept
  PROVE  StateOf(d)' = StateOf(d)
BY DEF StateOf

\* The step of one delivery leaves the others where they are.
LEMMA OthersStay ==
  ASSUME Inv, NEW d \in Deliveries, Deliver(d), NEW e \in Deliveries, e # d
  PROVE  StateOf(e)' = StateOf(e)
<1>1. pc'[e] = pc[e] /\ answer'[e] = answer[e] /\ (e \in kept' <=> e \in kept)
  BY DEF Inv, TypeOK, Deliver, PutRaw, Forced, ReadBlocked, ApplyFilters, FiltersFail, ApplyLegacy,
       FindThread, CreateThread, InsertRow, StoreFile, Notify, FailStep, Goto, Fail, mailVars
<1> QED BY <1>1, Same

LEMMA ForwardStep == Inv /\ [Next]_vars => [Contract!Next \/ Contract!Crash]_ForwardState
<1> SUFFICES ASSUME Inv, [Next]_vars PROVE [Contract!Next \/ Contract!Crash]_ForwardState
  OBVIOUS
<1> USE DEF mailVars, outVars, vacVars, envVars
<1>0. TypeOK /\ Stages
  BY DEF Inv
<1>1. CASE pc' = pc /\ answer' = answer /\ kept' = kept
  BY <1>1, Same, Stays
<1>2. ASSUME NEW d \in Deliveries, Deliver(d) PROVE [Contract!Next \/ Contract!Crash]_ForwardState
  <2>1. \A e \in Deliveries : e # d => StateOf(e)' = StateOf(e)
    BY <1>2, OthersStay
  <2>2. pc[d] # "end" => answer[d] = "none"
    BY <1>0 DEF Stages
  <2>3. CASE PutRaw(d)
    <3>1. StateOf(d) = "new"
      BY <1>0, <2>2, <2>3, States, StatesAfter DEF PutRaw, Stages
    <3>2. StateOf(d)' = "running"
      BY <1>0, <2>2, <2>3, States, StatesAfter DEF PutRaw, Stages, Goto, TypeOK
    <3> QED BY <2>1, <3>1, <3>2, Moves DEF Contract!Next
  <2>4. ASSUME pc[d] \notin {"new", "files", "end"}, pc'[d] \notin {"new", "end"},
               UNCHANGED <<answer, kept>>
        PROVE  UNCHANGED ForwardState
    <3>1. StateOf(d)' = StateOf(d)
      BY <2>4, States, StatesAfter
    <3> QED BY <2>1, <3>1, Stays
  <2>5. CASE Forced(d) \/ ReadBlocked(d) \/ FiltersFail(d) \/ ApplyLegacy(d) \/ FindThread(d)
             \/ CreateThread(d)
    BY <1>0, <2>4, <2>5 DEF Forced, ReadBlocked, FiltersFail, ApplyLegacy, FindThread,
         CreateThread, Goto, TypeOK
  <2>6. ASSUME Fail(d), kept' = kept, pc[d] # "end"
        PROVE  Contract!Next
    <3>1. StateOf(d) \in {"new", "running", "filed"}
      BY <2>2, <2>6, States, StatesAfter
    <3>2. StateOf(d)' = "failed"
      BY <1>0, <2>6, States, StatesAfter DEF Fail, TypeOK
    <3> QED BY <2>1, <3>1, <3>2, Moves DEF Contract!Next
  <2>7. CASE ApplyFilters(d)
    <3>1. CASE Fail(d)
      BY <2>6, <2>7, <3>1 DEF ApplyFilters
    <3>2. ASSUME NEW step \in {"find", "legacy"}, Goto(d, step), UNCHANGED answer
          PROVE  UNCHANGED ForwardState
      BY <1>0, <2>4, <2>7, <3>2 DEF ApplyFilters, Goto, TypeOK
    <3> QED BY <2>7, <3>1, <3>2 DEF ApplyFilters
  <2>8. CASE InsertRow(d)
    <3>1. StateOf(d) = "running"
      BY <1>0, <2>2, <2>8, States, StatesAfter DEF InsertRow, Stages
    <3>2. StateOf(d)' = "filed"
      BY <2>2, <2>8, States, StatesAfter DEF InsertRow
    <3> QED BY <2>1, <3>1, <3>2, Moves DEF Contract!Next
  <2>9. CASE StoreFile(d)
    BY <1>1, <2>9 DEF StoreFile
  <2>10. CASE Notify(d)
    <3>1. StateOf(d) = "filed"
      BY <1>0, <2>2, <2>10, States, StatesAfter DEF Notify, Stages
    <3>2. StateOf(d)' = "ok"
      BY <1>0, <2>10, States, StatesAfter DEF Notify, TypeOK
    <3> QED BY <2>1, <3>1, <3>2, Moves DEF Contract!Next
  <2>11. CASE FailStep(d)
    BY <2>6, <2>11 DEF FailStep
  <2> QED BY <1>2, <2>3, <2>5, <2>7, <2>8, <2>9, <2>10, <2>11 DEF Deliver
<1>3. CASE Crash
  <2>1. ASSUME NEW d \in Deliveries
        PROVE  StateOf(d)' = IF StateOf(d) \in {"running", "filed"} THEN "lost" ELSE StateOf(d)
    <3>1. /\ pc'[d] = IF pc[d] = "new" THEN "new" ELSE "end"
          /\ answer'[d] = IF pc[d] \notin {"new", "end"} THEN "lost" ELSE answer[d]
          /\ kept' = kept
      BY <1>3 DEF Crash
    <3>2. CASE pc[d] = "new"
      BY <1>0, <3>1, <3>2, States, StatesAfter DEF Stages
    <3>3. CASE pc[d] = "end"
      BY <1>0, <3>1, <3>3, States, StatesAfter DEF Stages, TypeOK
    <3>4. CASE pc[d] \notin {"new", "end"}
      BY <1>0, <3>1, <3>4, States, StatesAfter DEF Stages
    <3> QED BY <3>2, <3>3, <3>4
  <2> QED BY <2>1 DEF Contract!Crash, ForwardState
<1>4. CASE \/ \E d \in Deliveries : Vacation(d)
           \/ \E c \in Contacts : BlockContact(c)
           \/ \E b \in Boxes : \E r \in Rules(b) : SetRule(b, r)
           \/ \E b \in Boxes : DeleteMailbox(b)
           \/ Tick \/ UNCHANGED vars
  BY <1>1, <1>4 DEF Vacation, VacationCheck, VacationSend, VacationRecord, BlockContact, SetRule,
       DeleteMailbox, Tick, vars
<1> QED BY <1>2, <1>3, <1>4 DEF Next

\* Deliveries keep what the listener and the worker rely on: a forward is filed at most
\* once, is acknowledged only when it was, and gets one answer or, if the process dies,
\* none.
THEOREM DeliveriesKeepForwarding == Spec => KeepsForwarding
<1>1. Init => Contract!Init
  <2> SUFFICES ASSUME Init PROVE ForwardState = [d \in Deliveries |-> "new"]
    BY DEF Contract!Init
  <2> QED BY States DEF Init, ForwardState
<1>2. Spec => []Inv
  BY InvInit, InvStep, PTL DEF Spec
<1> QED BY <1>1, <1>2, ForwardStep, PTL DEF Spec, KeepsForwarding, Contract!Spec
=============================================================================
