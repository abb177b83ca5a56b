--------------------------- MODULE OutboundProofs ---------------------------
(***************************************************************************)
(* Theorems about Outbound, for any batch of messages, any deployment, any *)
(* mailboxes and threads and any spelling of addresses.                    *)
(*                                                                         *)
(* The argument: an entry is fresh until it is the current one, and the    *)
(* current one has been accepted exactly when its step lies behind the     *)
(* transports; every hop that is tried ranks above the ones before it, so  *)
(* each adds one copy at most and is not tried twice; the fan-out owes a   *)
(* copy to the recipients whose name is still among its targets and to no  *)
(* other.                                                                  *)
(***************************************************************************)
EXTENDS Outbound, FiniteSetTheorems, TLAPS

Hops == {"cloudflare", "worker", "mailchannels", "mail_send", "lettre"}

Rank == [h \in Hops |-> CASE h = "cloudflare" -> 0 [] h = "worker" -> 1
                          [] h = "mailchannels" -> 2 [] h = "mail_send" -> 3 [] OTHER -> 4]

\* Nothing has been done for entry i.
Fresh(i) == /\ i \notin accepted /\ unsure[i] = 0
            /\ \A a \in Addresses : copies[i][a] = 0
            /\ \A row \in filed : row.via = "api" => row.entry # i

Before == {"thread", "domain", "resolve", "hop"}

Progress ==
  /\ hop = "mailchannels" => conf.mailchannels
  /\ phase = "authorizing" => pc = "thread"
  /\ phase \in {"authorizing", "refused"} => \A i \in Entries : Fresh(i)
  /\ phase = "sending" =>
       /\ \A i \in Entries : i > at => Fresh(i)
       /\ at \in accepted <=> pc \notin Before
       /\ unsure[at] <= Rank[hop]
       /\ pc \in Before \cup {"store"} =>
            \A row \in filed : row.via = "api" => row.entry # at

\* Who may send what: every entry up to the one at hand was authorized, or all.
NotForeign(i) == ~conf.admin => batch[i].from # "foreign"

Authorized ==
  /\ phase = "authorizing" => \A i \in Entries : i < at => NotForeign(i)
  /\ phase \in {"sending", "answered"} => \A i \in Entries : NotForeign(i)

\* The recipients that may get several copies of one delivery.
Personalized(i, a) == conf.mailchannels /\ a \in batch[i].cc \cup batch[i].bcc

CopiesBounded ==
  \A i \in Entries : \A a \in Addresses :
    \/ copies[i][a] <= unsure[i] + (IF i \in accepted THEN 1 ELSE 0)
    \/ Personalized(i, a)

\* The local copies: what is filed, and what the fan-out still owes.
LocalRow(row) == row.folder = "Inbox" /\ row.via = "api"

Served(i, a) == Box(Norm(a)) \in alive =>
                  \E row \in filed : row.entry = i /\ row.folder = "Inbox" /\ row.box = Box(Norm(a))

Named == \A row \in filed : LocalRow(row) =>
           row.address \in Addresses /\ row.box = Box(Norm(row.address))

Owed ==
  phase = "sending" =>
    /\ pc = "fanout" =>
         /\ \A s, t \in targets : Norm(s) = Norm(t) => s = t
         /\ \A row \in filed : LocalRow(row) /\ row.entry = at =>
              \A t \in targets : Norm(t) # Norm(row.address)
         /\ \A a \in Recipients(Mail) : (\E t \in targets : Norm(t) = Norm(a)) \/ Served(at, a)
    /\ pc = "attach" => at \in broke \/ \A a \in Recipients(Mail) : Served(at, a)

-----------------------------------------------------------------------------
(* Operators of the model.                                                 *)

LEMMA BatchFacts ==
  ASSUME TypeOK
  PROVE  /\ conf \in Confs /\ batch \in Seq(Mails) /\ Len(batch) \in Nat
         /\ Entries = 1..Len(batch) /\ at \in 1..Len(batch)
         /\ at # Len(batch) => at + 1 \in Entries
         /\ \A i \in Entries : batch[i] \in Mails /\ IsFiniteSet(batch[i].to)
         /\ Mail \in Mails
<1>1. conf \in Confs /\ batch \in Seq(Mails)
  BY ScenariosAssumption DEF TypeOK
<1>2. Len(batch) \in Nat /\ Entries = 1..Len(batch)
  BY <1>1 DEF Entries
<1>3. \A i \in Entries : batch[i] \in Mails
  BY <1>1 DEF Entries
<1>4. \A i \in Entries : IsFiniteSet(batch[i].to)
  BY ScenariosAssumption DEF TypeOK, Entries
<1> QED BY <1>1, <1>2, <1>3, <1>4 DEF TypeOK, Mail

StepNames == {"thread", "domain", "resolve", "hop", "store", "fanout", "attach"}

LEMMA OrderFacts ==
  /\ {Order[i] : i \in 1..7} = StepNames
  /\ After("thread") = "domain" /\ After("domain") = "resolve" /\ After("resolve") = "hop"
  /\ After("hop") = "store" /\ After("store") = "fanout" /\ After("fanout") = "attach"
<1> DEFINE name == [i \in 1..8 |-> Order[i]]
<1>1. /\ Order[1] = "thread" /\ Order[2] = "domain" /\ Order[3] = "resolve" /\ Order[4] = "hop"
      /\ Order[5] = "store" /\ Order[6] = "fanout" /\ Order[7] = "attach"
  BY DEF Order
<1>2. 1..7 = {1, 2, 3, 4, 5, 6, 7}
  OBVIOUS
<1>3. {Order[i] : i \in 1..7} = StepNames
  BY <1>1, <1>2 DEF StepNames
<1>4. ASSUME NEW i \in 1..6 PROVE After(Order[i]) = Order[i + 1]
  <2> DEFINE k == CHOOSE j \in 1..7 : Order[j] = Order[i]
  <2>1. k \in 1..7 /\ Order[k] = Order[i]
    OBVIOUS
  <2>2. k = i
    BY <1>1, <2>1
  <2> QED BY <2>2 DEF After
<1>5. 1 + 1 = 2 /\ 2 + 1 = 3 /\ 3 + 1 = 4 /\ 4 + 1 = 5 /\ 5 + 1 = 6 /\ 6 + 1 = 7
  OBVIOUS
<1>6. 1 \in 1..6 /\ 2 \in 1..6 /\ 3 \in 1..6 /\ 4 \in 1..6 /\ 5 \in 1..6 /\ 6 \in 1..6
  OBVIOUS
<1> QED BY <1>1, <1>3, <1>4, <1>5, <1>6

LEMMA HopFacts ==
  ASSUME NEW h \in Hops
  PROVE  /\ Rank[h] \in 0..4
         /\ NextHop(h) # None => /\ NextHop(h) \in Hops /\ Rank[h] + 1 <= Rank[NextHop(h)]
                                /\ (NextHop(h) = "mailchannels" => conf.mailchannels)
         /\ FirstHop \in Hops \ {"mailchannels"}
<1>1. /\ Rank["cloudflare"] = 0 /\ Rank["worker"] = 1 /\ Rank["mailchannels"] = 2
      /\ Rank["mail_send"] = 3 /\ Rank["lettre"] = 4
  BY DEF Rank, Hops
<1>2. Rank[h] \in 0..4
  BY <1>1 DEF Hops
<1>3. NextHop(h) # None => /\ NextHop(h) \in Hops /\ Rank[h] + 1 <= Rank[NextHop(h)]
                           /\ (NextHop(h) = "mailchannels" => conf.mailchannels)
  BY <1>1 DEF NextHop, Hops
<1>4. FirstHop \in Hops \ {"mailchannels"}
  BY DEF FirstHop, Hops
<1> QED BY <1>2, <1>3, <1>4

\* A delivery leaves one copy each, or one per To recipient where MailChannels
\* personalizes.
LEMMA ShareFacts ==
  ASSUME TypeOK, NEW a \in Addresses
  PROVE  /\ Share(hop, Mail, a) \in Nat
         /\ Share(hop, Mail, a) = 1 \/ (hop = "mailchannels" /\ a \in Mail.cc \cup Mail.bcc)
<1>1. Cardinality(Mail.to) \in Nat
  BY BatchFacts, FS_CardinalityType DEF Mail, TypeOK
<1> QED BY <1>1 DEF Share

LEMMA DeliverFacts ==
  ASSUME TypeOK, NEW who, Deliver(who)
  PROVE  /\ copies' \in [Entries -> [Addresses -> Nat]]
         /\ \A i \in Entries : i # at => copies'[i] = copies[i]
         /\ \A a \in Addresses :
              copies'[at][a] = copies[at][a] + IF a \in who THEN Share(hop, Mail, a) ELSE 0
<1> DEFINE now == [a \in Addresses |->
                     copies[at][a] + IF a \in who THEN Share(hop, Mail, a) ELSE 0]
<1>1. now \in [Addresses -> Nat]
  BY ShareFacts DEF TypeOK
<1>2. copies' = [copies EXCEPT ![at] = now]
  BY DEF Deliver
<1> HIDE DEF now
<1>3. copies' \in [Entries -> [Addresses -> Nat]] /\ copies'[at] = now
      /\ \A i \in Entries : i # at => copies'[i] = copies[i]
  BY <1>1, <1>2 DEF TypeOK
<1> QED BY <1>3 DEF now

-----------------------------------------------------------------------------
(* Types.                                                                  *)

LEMMA InvInit == Init => TypeOK /\ Progress
<1> SUFFICES ASSUME Init PROVE TypeOK /\ Progress
  OBVIOUS
<1>1. PICK s \in Scenarios : batch = s.batch /\ conf = s.conf
  BY DEF Init
<1>2. s \in [batch : Seq(Mails) \ {<<>>}, conf : Confs]
  BY ScenariosAssumption
<1>3. [batch |-> batch, conf |-> conf] = s
  BY <1>1, <1>2
<1>4. batch \in Seq(Mails) /\ batch # <<>>
  BY <1>1, <1>2
<1>5. 1 \in Entries
  BY <1>4 DEF Entries
<1>6. FirstHop \in Hops /\ FirstHop # "mailchannels"
  BY DEF FirstHop, Hops
<1>7. TypeOK
  BY <1>3, <1>5, <1>6, OrderFacts DEF Init, TypeOK, StepNames, NoCopies, Hops
<1>8. Progress
  BY <1>5, <1>6 DEF Init, Progress, Fresh, NoCopies
<1> QED BY <1>7, <1>8

\* The end of an entry, whatever it filed before.
LEMMA EntryEnds ==
  ASSUME TypeOK, Progress, phase = "sending", NEW res \in {"ok", "err"}, EndEntry(res),
         UNCHANGED envVars, batch' = batch, box' = box, accepted' = accepted, filed' = filed,
         broke' = broke,
         copies' \in [Entries -> [Addresses -> Nat]],
         \A i \in Entries : i # at => copies'[i] = copies[i] /\ unsure'[i] = unsure[i],
         unsure' \in [Entries -> 0..5]
  PROVE  TypeOK' /\ Progress'
<1> USE DEF envVars
<1>1. hop' = FirstHop /\ FirstHop \in Hops /\ FirstHop # "mailchannels"
  BY DEF EndEntry, FirstHop, Hops
<1>2. /\ at' \in Entries /\ Entries' = Entries
      /\ phase' = "answered" \/ (phase' = "sending" /\ at' = at + 1)
  BY BatchFacts DEF EndEntry, Entries
<1>3. result' \in [Entries -> {"none", "ok", "err"}]
  BY DEF EndEntry, TypeOK
<1>4. TypeOK'
  BY <1>1, <1>2, <1>3, OrderFacts DEF TypeOK, EndEntry, StepNames, Hops, Filed
<1>5. ASSUME phase' = "sending", NEW i \in Entries, i >= at' PROVE Fresh(i)'
  <2>1. i # at /\ i > at
    BY <1>2, <1>5, BatchFacts
  <2> QED BY <2>1 DEF Progress, Fresh
<1>6. ASSUME phase' = "sending"
      PROVE  /\ at' \in accepted' <=> pc' \notin Before
             /\ unsure'[at'] <= Rank[hop']
             /\ \A row \in filed' : row.via = "api" => row.entry # at'
  <2>1. at' \in Entries /\ at' >= at'
    BY <1>2, BatchFacts
  <2>2. at' \notin accepted' /\ unsure'[at'] = 0
        /\ \A row \in filed' : row.via = "api" => row.entry # at'
    BY <1>5, <1>6, <2>1 DEF Fresh
  <2>3. Rank[hop'] \in 0..4
    BY <1>1, HopFacts
  <2>4. pc' \in Before
    BY DEF EndEntry, Before
  <2> QED BY <2>2, <2>3, <2>4
<1>7. phase' = "sending" => \A i \in Entries : i > at' => Fresh(i)'
  BY <1>2, <1>5, BatchFacts
<1>8. Progress'
  BY <1>1, <1>2, <1>6, <1>7 DEF Progress
<1> QED BY <1>4, <1>8

\* A new row keeps the others where they are.
LEMMA RowType ==
  ASSUME TypeOK, NEW b \in Boxes, NEW folder \in {"Sent", "Inbox"},
         NEW address \in Addresses \cup {None}, NEW via \in {"api", "mx"}
  PROVE  Row(b, folder, address, via) \in Filed
<1>1. Mail.thread \in Threads \cup {None}
  BY BatchFacts DEF Mails
<1>2. at \in Entries
  BY DEF TypeOK
<1> QED BY <1>1, <1>2 DEF Row, Filed

\* The rows left when a mailbox goes, those of its threads without a thread.
LEMMA DeletedRows ==
  ASSUME TypeOK, NEW b, DeleteMailbox(b), NEW row \in filed'
  PROVE  \E old \in filed :
           /\ old.box # b
           /\ row.entry = old.entry /\ row.box = old.box /\ row.folder = old.folder
           /\ row.address = old.address /\ row.via = old.via
           /\ row \in Filed
<1> DEFINE Cut(old) == IF old.thread # None /\ owner[old.thread] = b
                       THEN [old EXCEPT !.thread = None] ELSE old
<1>1. filed' = {Cut(old) : old \in {old \in filed : old.box # b}}
  BY DEF DeleteMailbox
<1>2. \A old \in Filed :
        /\ Cut(old).entry = old.entry /\ Cut(old).box = old.box /\ Cut(old).folder = old.folder
        /\ Cut(old).address = old.address /\ Cut(old).via = old.via
        /\ Cut(old) \in Filed
  BY DEF Filed
<1> HIDE DEF Cut
<1> QED BY <1>1, <1>2 DEF TypeOK

LEMMA InvStep == TypeOK /\ Progress /\ [Next]_vars => TypeOK' /\ Progress'
<1> SUFFICES ASSUME TypeOK, Progress, [Next]_vars PROVE TypeOK' /\ Progress'
  OBVIOUS
<1> USE DEF envVars, requestVars
<1>0. /\ at \in Entries /\ Entries = 1..Len(batch) /\ Len(batch) \in Nat
      /\ \A i \in Entries : i # at => copies[i] = copies[i] /\ unsure[i] = unsure[i]
  BY BatchFacts DEF TypeOK
<1>1. CASE Authorize
  <2>1. at' \in Entries /\ Entries' = Entries
    BY <1>0, <1>1, BatchFacts DEF Authorize, AllAuthorized, Entries
  <2>2. TypeOK'
    BY <1>1, <2>1 DEF Authorize, TypeOK, Filed
  <2>3. \A i \in Entries : Fresh(i)
    BY <1>1 DEF Authorize, Progress
  <2>4. Rank[hop] \in 0..4
    BY HopFacts DEF TypeOK, Hops
  <2>5. Progress'
    BY <1>1, <2>1, <2>3, <2>4 DEF Authorize, Progress, Fresh, Before
  <2> QED BY <2>2, <2>5
<1>2. CASE RefuseBatch
  BY <1>2 DEF RefuseBatch, TypeOK, Progress, Fresh, Entries, Filed
<1>3. ASSUME NEW step \in {"thread", "domain", "resolve"}, Running(step), Pass(step),
             box' \in [Entries -> Boxes \cup {None}]
      PROVE  TypeOK' /\ Progress'
  <2>1. After(step) \in {"domain", "resolve", "hop"} /\ pc = step
    BY <1>3, OrderFacts DEF Running
  <2>2. TypeOK'
    BY <1>3, <2>1, OrderFacts DEF Pass, TypeOK, Entries, Filed, StepNames
  <2>3. Progress'
    BY <1>3, <2>1 DEF Running, Pass, Progress, Before, Fresh, Entries
  <2> QED BY <2>2, <2>3
<1>4. CASE CheckThread
  BY <1>3, <1>4 DEF CheckThread, TypeOK
<1>5. CASE CheckDomain
  BY <1>3, <1>5 DEF CheckDomain, TypeOK
<1>6. CASE Resolve
  <2>1. Resolved(Mail) \in Boxes \cup {None}
    BY DEF Resolved, TypeOK
  <2> QED BY <1>3, <1>6, <2>1 DEF Resolve, TypeOK
<1>7. ASSUME NEW step, Fail(step), broke' = broke PROVE TypeOK' /\ Progress'
  BY <1>0, <1>7, EntryEnds DEF Fail, Running, TypeOK
<1>8. CASE FailCheck \/ FailStore \/ FailFile
  BY <1>7, <1>8 DEF FailCheck, FailStore, FailFile
<1>9. CASE TryHop
  <2>1. PICK o \in Outcomes(hop) :
          /\ \E who \in Reaches(o) : Deliver(who)
          /\ unsure' = [unsure EXCEPT ![at] = @ + IF o = "unsure" THEN 1 ELSE 0]
          /\ \/ /\ Takes(o)
                /\ accepted' = accepted \cup {at}
                /\ pc' = After("hop")
                /\ UNCHANGED <<phase, at, hop, targets, files, result>>
             \/ /\ ~Takes(o) /\ NextHop(hop) # None
                /\ hop' = NextHop(hop)
                /\ UNCHANGED <<phase, at, pc, accepted, targets, files, result>>
             \/ /\ ~Takes(o) /\ NextHop(hop) = None
                /\ EndEntry("err")
                /\ UNCHANGED accepted
    BY <1>9 DEF TryHop
  <2>2. /\ phase = "sending" /\ pc = "hop" /\ at \notin accepted
        /\ UNCHANGED <<batch, box, filed, broke>> /\ UNCHANGED envVars
    BY <1>9 DEF TryHop, Running, Progress, Before
  <2>3. /\ copies' \in [Entries -> [Addresses -> Nat]]
        /\ \A i \in Entries : i # at => copies'[i] = copies[i]
    BY <2>1, DeliverFacts
  <2>4. hop \in Hops /\ Rank[hop] \in 0..4 /\ unsure[at] <= Rank[hop] /\ unsure[at] \in 0..5
    BY <1>0, <2>2, HopFacts DEF TypeOK, Hops, Progress
  <2>5. /\ unsure'[at] \in 0..5 /\ unsure'[at] <= unsure[at] + 1
        /\ (Takes(o) => unsure'[at] = unsure[at])
        /\ unsure' \in [Entries -> 0..5]
        /\ \A i \in Entries : i # at => unsure'[i] = unsure[i]
    BY <1>0, <2>1, <2>4 DEF TypeOK, Takes
  <2>6. /\ \A row \in filed : row.via = "api" => row.entry # at
        /\ \A i \in Entries : i > at => Fresh(i)
    BY <2>2 DEF Progress, Before
  <2>7. CASE Takes(o) /\ accepted' = accepted \cup {at} /\ pc' = After("hop")
             /\ UNCHANGED <<phase, at, hop, targets, files, result>>
    <3>1. TypeOK'
      BY <2>2, <2>3, <2>5, <2>7, OrderFacts DEF TypeOK, Entries, Filed, StepNames
    <3>2. \A i \in Entries : i > at => Fresh(i)'
      BY <1>0, <2>2, <2>3, <2>5, <2>6, <2>7 DEF Fresh
    <3>3. unsure'[at] <= Rank[hop]
      BY <2>4, <2>5, <2>7
    <3>4. pc' = "store" /\ at \in accepted' /\ \A row \in filed' : row.via = "api" => row.entry # at
      BY <2>2, <2>6, <2>7, OrderFacts
    <3>5. Progress'
      BY <2>2, <2>7, <3>2, <3>3, <3>4 DEF Progress, Before, Entries
    <3> QED BY <3>1, <3>5
  <2>8. CASE ~Takes(o) /\ NextHop(hop) # None /\ hop' = NextHop(hop)
             /\ UNCHANGED <<phase, at, pc, accepted, targets, files, result>>
    <3>1. /\ hop' \in Hops /\ (hop' = "mailchannels" => conf.mailchannels)
          /\ Rank[hop] + 1 <= Rank[hop'] /\ Rank[hop'] \in 0..4
      BY <2>4, <2>8, HopFacts
    <3>2. TypeOK'
      BY <2>2, <2>3, <2>5, <2>8, <3>1 DEF TypeOK, Entries, Filed, Hops
    <3>3. unsure'[at] <= Rank[hop']
      BY <2>4, <2>5, <3>1
    <3>4. /\ phase' = "sending" /\ pc' = "hop" /\ at' = at /\ accepted' = accepted
          /\ at \notin accepted /\ conf' = conf /\ filed' = filed /\ batch' = batch
      BY <2>2, <2>8
    <3>5. \A i \in Entries : i > at => Fresh(i)'
      BY <1>0, <2>3, <2>5, <2>6, <3>4 DEF Fresh
    <3>6. Progress'
      BY <2>6, <3>1, <3>3, <3>4, <3>5 DEF Progress, Before, Entries
    <3> QED BY <3>2, <3>6
  <2>9. CASE ~Takes(o) /\ NextHop(hop) = None /\ EndEntry("err") /\ UNCHANGED accepted
    BY <1>0, <2>2, <2>3, <2>5, <2>9, EntryEnds
  <2> QED BY <2>1, <2>7, <2>8, <2>9
<1>10. CASE StoreSent
  <2>1. box[at] \in Boxes
    BY <1>10 DEF StoreSent, Storable, TypeOK
  <2>2. Row(box[at], "Sent", None, "api") \in Filed
    BY <2>1, RowType
  <2>3. targets' \subseteq Addresses
    <3>1. Listed(Mail) \subseteq Addresses
      BY BatchFacts DEF Listed, Mails
    <3>2. FanOut(Mail) \subseteq Listed(Mail)
      BY DEF FanOut
    <3> QED BY <1>10, <3>1, <3>2 DEF StoreSent
  <2>4. TypeOK'
    BY <1>10, <2>2, <2>3, OrderFacts DEF StoreSent, TypeOK, Entries, Filed, StepNames
  <2>5. Row(box[at], "Sent", None, "api").entry = at
    BY DEF Row
  <2>6. Progress'
    BY <1>0, <1>10, <2>5, OrderFacts DEF StoreSent, Running, Progress, Fresh, Before, Entries
  <2> QED BY <2>4, <2>6
<1>11. CASE CopyLocal
  <2>1. PICK a \in targets :
          /\ targets' = targets \ {a}
          /\ \/ filed' = filed
             \/ /\ Box(Norm(a)) \in alive
                /\ filed' = filed \cup {Row(Box(Norm(a)), "Inbox", a, "api")}
    BY <1>11 DEF CopyLocal
  <2>2. Box(Norm(a)) \in alive => Row(Box(Norm(a)), "Inbox", a, "api") \in Filed
    BY RowType DEF TypeOK
  <2>3. TypeOK'
    BY <1>11, <2>1, <2>2 DEF CopyLocal, TypeOK, Entries, Filed
  <2>4. \A row \in filed' : row \in filed \/ row.entry = at
    BY <2>1 DEF Row
  <2>5. Progress'
    BY <1>0, <1>11, <2>4 DEF CopyLocal, Running, Progress, Fresh, Before, Entries
  <2> QED BY <2>3, <2>5
<1>12. CASE EndFanout
  <2>1. Mail.files \in Nat
    BY BatchFacts DEF Mails
  <2>2. TypeOK'
    BY <1>0, <1>12, <2>1, OrderFacts DEF EndFanout, TypeOK, Entries, Filed, StepNames
  <2>3. Progress'
    BY <1>0, <1>12, OrderFacts DEF EndFanout, Running, Progress, Fresh, Before, Entries
  <2> QED BY <2>2, <2>3
<1>13. CASE StoreFile
  BY <1>13 DEF StoreFile, TypeOK, Progress, Fresh, Entries, Filed
<1>14. CASE Done
  BY <1>0, <1>14, EntryEnds DEF Done, Running, TypeOK
<1>15. CASE Abandon
  BY <1>15 DEF Abandon, TypeOK, Progress, Fresh, Entries, Filed
<1>16. CASE ReturnByMx
  <2>1. PICK a \in Addresses :
          /\ copies[at][a] > 0 /\ Box(Norm(a)) \in alive
          /\ filed' = filed \cup {Row(Box(Norm(a)), "Inbox", a, "mx")}
    BY <1>16 DEF ReturnByMx
  <2>2. Row(Box(Norm(a)), "Inbox", a, "mx") \in Filed
    BY <2>1, RowType DEF TypeOK
  <2>3. TypeOK'
    BY <1>16, <2>1, <2>2 DEF ReturnByMx, TypeOK, Entries, Filed
  <2>4. Row(Box(Norm(a)), "Inbox", a, "mx").via = "mx"
    BY DEF Row
  <2>5. \A row \in filed' : row.via = "api" => row \in filed
    BY <2>1, <2>4
  <2>6. Progress'
    BY <1>16, <2>5 DEF ReturnByMx, Progress, Fresh, Entries
  <2> QED BY <2>3, <2>6
<1>17. CASE Around
  <2>1. CASE DomainChanges \/ RemoveAlias
    BY <1>17, <2>1 DEF Around, DomainChanges, RemoveAlias, TypeOK, Progress, Fresh, Entries, Filed
  <2>2. ASSUME NEW b \in Boxes, DeleteMailbox(b) PROVE TypeOK' /\ Progress'
    <3>1. \A row \in filed' : /\ row \in Filed
                              /\ \E old \in filed : row.entry = old.entry /\ row.via = old.via
      BY <2>2, DeletedRows
    <3>2. owner' \in [Threads -> Boxes \cup {None}] /\ alive' \subseteq Boxes
      BY <2>2 DEF DeleteMailbox, TypeOK
    <3>3. Filed' = Filed
      BY <1>17 DEF Around, Filed, Entries
    <3>4. TypeOK'
      BY <1>17, <2>2, <3>1, <3>2, <3>3 DEF Around, DeleteMailbox, TypeOK, Entries
    <3>5. Progress'
      BY <1>17, <2>2, <3>1 DEF Around, DeleteMailbox, Progress, Fresh, Entries
    <3> QED BY <3>4, <3>5
  <2> QED BY <1>17, <2>1, <2>2 DEF Around
<1>18. CASE UNCHANGED vars
  BY <1>18 DEF vars, TypeOK, Progress, Fresh, Entries, Filed
<1> QED BY <1>1, <1>2, <1>4, <1>5, <1>6, <1>8, <1>9, <1>10, <1>11, <1>12, <1>13, <1>14, <1>15,
           <1>16, <1>17, <1>18 DEF Next

\* Whatever is sent by whom through which transports, every variable keeps to its range;
\* no entry has more hops that failed after delivering than the chain has hops, so none
\* is tried twice.
THEOREM TypeCorrect == Spec => []TypeOK
<1>1. Spec => [](TypeOK /\ Progress)
  BY InvInit, InvStep, PTL DEF Spec
<1> QED BY <1>1, PTL

\* The steps that touch neither copies nor what was accepted or authorized.
Quiet == RefuseBatch \/ CheckThread \/ CheckDomain \/ Resolve \/ StoreSent \/ CopyLocal
           \/ EndFanout \/ StoreFile \/ Abandon \/ ReturnByMx \/ Around \/ UNCHANGED vars

LEMMA QuietFacts ==
  ASSUME Quiet
  PROVE  /\ batch' = batch /\ conf' = conf /\ at' = at /\ copies' = copies /\ unsure' = unsure
         /\ accepted' = accepted /\ result' = result
         /\ phase' = phase \/ phase' \in {"refused", "dropped"}
BY DEF Quiet, RefuseBatch, CheckThread, CheckDomain, Resolve, Pass, StoreSent, CopyLocal,
       EndFanout, StoreFile, Abandon, ReturnByMx, Around, DomainChanges, RemoveAlias,
       DeleteMailbox, vars, envVars, requestVars

Ends == (\E step : Fail(step) /\ broke' = broke) \/ Done

LEMMA EndsFacts ==
  ASSUME Ends
  PROVE  /\ batch' = batch /\ conf' = conf /\ copies' = copies /\ unsure' = unsure
         /\ accepted' = accepted /\ filed' = filed
         /\ phase = "sending" /\ phase' \in {"sending", "answered"}
BY DEF Ends, Fail, Done, Running, EndEntry, envVars

LEMMA Steps ==
  [Next]_vars => Quiet \/ Ends \/ Authorize \/ TryHop
BY DEF Next, Quiet, Ends, FailCheck, FailStore, FailFile

LEMMA HopSends ==
  ASSUME TryHop
  PROVE  /\ phase = "sending" /\ phase' \in {"sending", "answered"}
         /\ batch' = batch /\ conf' = conf /\ filed' = filed /\ accepted \subseteq accepted'
BY DEF TryHop, Running, EndEntry, envVars

-----------------------------------------------------------------------------
(* Who may send what.                                                      *)

LEMMA AuthorizedStep ==
  /\ TypeOK /\ Progress /\ Authorized /\ NoneIfOneForeign /\ [Next]_vars
  => Authorized' /\ NoneIfOneForeign'
<1> SUFFICES ASSUME TypeOK, Progress, Authorized, NoneIfOneForeign, [Next]_vars
             PROVE  Authorized' /\ NoneIfOneForeign'
  OBVIOUS
<1>1. CASE Authorize
  <2>1. NotForeign(at)
    BY <1>1, BatchFacts DEF Authorize, MayUse, NotForeign, Mail, Mails
  <2>2. /\ batch' = batch /\ conf' = conf /\ copies' = copies /\ phase = "authorizing"
        /\ \/ phase' = "sending" /\ at = Len(batch)
           \/ phase' = "authorizing" /\ at' = at + 1
    BY <1>1 DEF Authorize, AllAuthorized, envVars
  <2>3. \A i \in Entries : i <= at => NotForeign(i)
    BY <2>1, <2>2, BatchFacts DEF Authorized
  <2>4. Authorized'
    <3>1. CASE phase' = "sending" /\ at = Len(batch)
      BY <2>2, <2>3, <3>1, BatchFacts DEF Authorized, NotForeign, Entries
    <3>2. CASE phase' = "authorizing" /\ at' = at + 1
      BY <2>2, <2>3, <3>2, BatchFacts DEF Authorized, NotForeign, Entries
    <3> QED BY <2>2, <3>1, <3>2
  <2> QED BY <2>2, <2>4 DEF NoneIfOneForeign, HasLeft, Entries
<1>2. CASE Quiet
  BY <1>2, QuietFacts DEF Authorized, NoneIfOneForeign, NotForeign, HasLeft, Entries
<1>3. CASE Ends
  BY <1>3, EndsFacts DEF Authorized, NoneIfOneForeign, NotForeign, HasLeft, Entries
<1>4. CASE TryHop
  BY <1>4, HopSends DEF Authorized, NoneIfOneForeign, NotForeign, HasLeft, Entries
<1> QED BY <1>1, <1>2, <1>3, <1>4, Steps

\* Nothing of a batch leaves unless the caller may use every sender address in it.
THEOREM NoneOfAForeignBatch == Spec => []NoneIfOneForeign
<1>1. Init => Authorized /\ NoneIfOneForeign
  <2> SUFFICES ASSUME Init PROVE Authorized /\ NoneIfOneForeign
    OBVIOUS
  <2>1. Entries = 1..Len(batch) /\ Len(batch) \in Nat
    BY InvInit, BatchFacts
  <2>2. Authorized
    BY <2>1 DEF Init, Authorized
  <2>3. NoneIfOneForeign
    BY DEF Init, NoneIfOneForeign, HasLeft, NoCopies
  <2> QED BY <2>2, <2>3
<1>2. Spec => [](TypeOK /\ Progress /\ Authorized /\ NoneIfOneForeign)
  BY <1>1, InvInit, InvStep, AuthorizedStep, PTL DEF Spec
<1> QED BY <1>2, PTL

-----------------------------------------------------------------------------
(* What mailboxes show, and how often a recipient gets the message.        *)

LEMMA FiledStep ==
  TypeOK /\ Progress /\ FiledWasAccepted /\ [Next]_vars => FiledWasAccepted'
<1> SUFFICES ASSUME TypeOK, Progress, FiledWasAccepted, [Next]_vars, NEW row \in filed',
                    row.via = "api"
             PROVE  row.entry \in accepted'
  BY DEF FiledWasAccepted
<1>1. accepted \subseteq accepted'
  BY QuietFacts, EndsFacts, HopSends, Steps DEF Authorize
<1>2. CASE \E old \in filed : old.via = row.via /\ old.entry = row.entry
  BY <1>1, <1>2 DEF FiledWasAccepted
<1>3. CASE filed' = filed
  BY <1>2, <1>3
<1>4. ASSUME phase = "sending", pc \in {"store", "fanout"}, row.entry = at
      PROVE  row.entry \in accepted'
  BY <1>1, <1>4 DEF Progress, Before
<1>5. CASE StoreSent
  BY <1>2, <1>4, <1>5 DEF StoreSent, Running, Row
<1>6. CASE CopyLocal
  BY <1>2, <1>4, <1>6 DEF CopyLocal, Running, Row
<1>7. CASE ReturnByMx
  BY <1>2, <1>7 DEF ReturnByMx, Row
<1>8. CASE Around
  <2>1. CASE DomainChanges \/ RemoveAlias
    BY <1>3, <2>1 DEF DomainChanges, RemoveAlias
  <2>2. ASSUME NEW b \in Boxes, DeleteMailbox(b) PROVE row.entry \in accepted'
    BY <1>2, <2>2, DeletedRows
  <2> QED BY <1>8, <2>1, <2>2 DEF Around
<1>9. CASE RefuseBatch \/ CheckThread \/ CheckDomain \/ Resolve \/ EndFanout \/ StoreFile
           \/ Abandon \/ UNCHANGED vars
  BY <1>3, <1>9 DEF RefuseBatch, CheckThread, CheckDomain, Resolve, Pass, EndFanout, StoreFile,
         Abandon, vars
<1>10. CASE Quiet
  BY <1>5, <1>6, <1>7, <1>8, <1>9, <1>10 DEF Quiet
<1>11. CASE Ends \/ TryHop \/ Authorize
  BY <1>3, <1>11, EndsFacts, HopSends DEF Authorize
<1> QED BY <1>10, <1>11, Steps

\* No mailbox shows a message, in Sent or as a local copy, that no transport took.
THEOREM NothingShownUnsent == Spec => []FiledWasAccepted
<1>1. Init => FiledWasAccepted
  BY DEF Init, FiledWasAccepted
<1>2. Spec => [](TypeOK /\ Progress /\ FiledWasAccepted)
  BY <1>1, InvInit, InvStep, FiledStep, PTL DEF Spec
<1> QED BY <1>2, PTL

LEMMA CopiesStep ==
  TypeOK /\ Progress /\ CopiesBounded /\ [Next]_vars => CopiesBounded'
<1> SUFFICES ASSUME TypeOK, Progress, CopiesBounded, [Next]_vars,
                    NEW i \in Entries, NEW a \in Addresses
             PROVE  \/ copies'[i][a] <= unsure'[i] + (IF i \in accepted' THEN 1 ELSE 0)
                    \/ Personalized(i, a)'
  <2>1. CASE Quiet \/ Ends \/ TryHop
    BY <2>1, QuietFacts, EndsFacts, HopSends DEF CopiesBounded, Entries
  <2>2. CASE Authorize
    BY <2>2 DEF Authorize, CopiesBounded, Entries
  <2> QED BY <2>1, <2>2, Steps
<1>0. \/ copies[i][a] <= unsure[i] + (IF i \in accepted THEN 1 ELSE 0)
      \/ Personalized(i, a)
  BY DEF CopiesBounded
<1>1. CASE Quiet \/ Ends
  BY <1>0, <1>1, QuietFacts, EndsFacts DEF Personalized
<1>2. CASE Authorize
  BY <1>0, <1>2 DEF Authorize, envVars, Personalized
<1>3. CASE TryHop
  <2>1. PICK o \in Outcomes(hop) :
          /\ \E who \in Reaches(o) : Deliver(who)
          /\ unsure' = [unsure EXCEPT ![at] = @ + IF o = "unsure" THEN 1 ELSE 0]
          /\ (Takes(o) /\ accepted' = accepted \cup {at}) \/ (~Takes(o) /\ accepted' = accepted)
    BY <1>3 DEF TryHop
  <2>2. at \in Entries /\ at \notin accepted /\ conf' = conf /\ batch' = batch
    BY <1>3 DEF TryHop, Running, Progress, Before, TypeOK, envVars
  <2>3. PICK who \in Reaches(o) : Deliver(who)
    BY <2>1
  <2>4. CASE i # at
    <3>1. copies'[i] = copies[i]
      BY <2>3, <2>4, DeliverFacts
    <3>2. unsure'[i] = unsure[i] /\ (i \in accepted' <=> i \in accepted)
      BY <2>1, <2>4 DEF TypeOK
    <3> QED BY <1>0, <2>2, <3>1, <3>2 DEF Personalized
  <2>5. CASE i = at
    <3>1. copies'[at][a] = copies[at][a] + IF a \in who THEN Share(hop, Mail, a) ELSE 0
      BY <2>3, DeliverFacts
    <3>2. copies[at][a] \in Nat /\ unsure[at] \in Nat
      BY <2>2 DEF TypeOK
    <3>3. unsure'[at] = unsure[at] + IF o = "unsure" THEN 1 ELSE 0
      BY <2>1, <2>2 DEF TypeOK
    <3>4. CASE a \notin who
      BY <1>0, <2>1, <2>2, <2>5, <3>1, <3>2, <3>3, <3>4 DEF Personalized
    <3>5. CASE a \in who /\ hop = "mailchannels" /\ a \in Mail.cc \cup Mail.bcc
      BY <2>2, <2>5, <3>5 DEF Progress, Personalized, Mail
    <3>6. CASE a \in who /\ Share(hop, Mail, a) = 1
      <4>1. o \in {"accepted", "unsure", "partial"}
        BY <2>3, <3>6 DEF Reaches
      <4>2. at \in accepted' \/ o = "unsure"
        BY <2>1, <4>1 DEF Takes
      <4>3. copies'[at][a] = copies[at][a] + 1
        BY <3>1, <3>6
      <4>4. o = "unsure" => ~Takes(o)
        BY DEF Takes
      <4>5. CASE o = "unsure"
        BY <1>0, <2>1, <2>2, <2>5, <3>2, <3>3, <4>3, <4>4, <4>5 DEF Personalized
      <4>6. CASE o # "unsure"
        BY <1>0, <2>2, <2>5, <3>2, <3>3, <4>2, <4>3, <4>6 DEF Personalized
      <4> QED BY <4>5, <4>6
    <3> QED BY <3>4, <3>5, <3>6, ShareFacts
  <2> QED BY <2>4, <2>5
<1> QED BY <1>1, <1>2, <1>3, Steps

\* A recipient gets the message more than once only when a hop had failed after
\* delivering it, and once more for each; or as a Cc or Bcc recipient of MailChannels.
THEOREM NoDuplicatesButUnsure == Spec => []DuplicatesAreUnsure
<1>1. Init => CopiesBounded
  <2> SUFFICES ASSUME Init, NEW i \in Entries, NEW a \in Addresses
               PROVE  copies[i][a] <= unsure[i] + (IF i \in accepted THEN 1 ELSE 0)
    BY DEF CopiesBounded
  <2> QED BY DEF Init, NoCopies
<1>2. TypeOK /\ CopiesBounded => DuplicatesAreUnsure
  <2> SUFFICES ASSUME TypeOK, CopiesBounded, NEW i \in Entries, NEW a \in Addresses
               PROVE  copies[i][a] <= 1 + unsure[i] \/ Personalized(i, a)
    BY DEF DuplicatesAreUnsure, Personalized
  <2>1. copies[i][a] \in Nat /\ unsure[i] \in Nat
    BY DEF TypeOK
  <2> QED BY <2>1 DEF CopiesBounded
<1>3. Spec => [](TypeOK /\ Progress /\ CopiesBounded)
  BY <1>1, InvInit, InvStep, CopiesStep, PTL DEF Spec
<1> QED BY <1>2, <1>3, PTL

-----------------------------------------------------------------------------
(* Local copies.                                                           *)

Local == Named /\ Owed /\ OneLocalCopy /\ LocalRecipientsServed

\* The fan-out names every recipient once.
LEMMA FanOutNames ==
  ASSUME NEW m
  PROVE  /\ \A a \in Listed(m) : \E t \in FanOut(m) : Norm(t) = Norm(a)
         /\ \A s, t \in FanOut(m) : Norm(s) = Norm(t) => s = t
<1> DEFINE First(n) == CHOOSE a \in Listed(m) : Dedup(a) = n
<1>1. FanOut(m) = {First(n) : n \in {Dedup(a) : a \in Listed(m)}}
  BY DEF FanOut
<1>2. \A a \in Listed(m) : First(Dedup(a)) \in Listed(m) /\ Dedup(First(Dedup(a))) = Dedup(a)
  OBVIOUS
<1> HIDE DEF First
<1> QED BY <1>1, <1>2 DEF Dedup

\* Rows and mailboxes that only grow and shrink serve nobody less.
LEMMA StillServed ==
  ASSUME filed \subseteq filed', alive' \subseteq alive, NEW i, NEW a, Served(i, a)
  PROVE  Served(i, a)'
BY DEF Served

LEMMA AllStillServed ==
  ASSUME Local, batch' = batch, result' = result, broke \subseteq broke',
         ASSUME NEW i \in Entries, NEW a \in Recipients(batch[i]), Served(i, a)
         PROVE  Served(i, a)'
  PROVE  LocalRecipientsServed'
<1> SUFFICES ASSUME NEW i \in Entries, result[i] = "ok", i \notin broke',
                    NEW a \in Recipients(batch[i])
             PROVE  Served(i, a)'
  BY DEF LocalRecipientsServed, Served, Entries, Recipients
<1>1. Served(i, a)
  BY DEF Local, LocalRecipientsServed, Served
<1> QED BY <1>1

\* A step that files nothing new and leaves the current entry where it is.
LEMMA LocalKept ==
  ASSUME TypeOK, Local, filed' = filed, alive' = alive, batch' = batch, result' = result,
         broke' = broke, at' = at, targets' = targets, phase' # "sending" \/ phase' = phase,
         pc' = pc \/ pc' \notin {"fanout", "attach"}
  PROVE  Local'
<1>1. \A i, a : Served(i, a)' = Served(i, a)
  BY DEF Served
<1>2. Named' /\ OneLocalCopy'
  BY DEF Local, Named, OneLocalCopy, LocalRow
<1>3. LocalRecipientsServed'
  BY DEF Local, LocalRecipientsServed, Entries, Recipients
<1>4. Owed'
  BY <1>1 DEF Local, Owed, LocalRow, Mail
<1> QED BY <1>2, <1>3, <1>4 DEF Local

\* The end of an entry: it succeeded only if its recipients were served.
LEMMA LocalEnds ==
  ASSUME TypeOK, Local, phase = "sending", NEW res \in {"ok", "err"}, EndEntry(res),
         res = "ok" => pc = "attach",
         filed' = filed, alive' = alive, batch' = batch, broke' = broke
  PROVE  Local'
<1>1. Named' /\ OneLocalCopy'
  BY DEF Local, Named, OneLocalCopy, LocalRow
<1>2. Owed'
  BY DEF EndEntry, Owed
<1>3. ASSUME NEW i \in Entries, result'[i] = "ok", i \notin broke, NEW a \in Recipients(batch[i])
      PROVE  Served(i, a)
  <2>1. CASE i = at
    <3>1. res = "ok"
      BY <1>3, <2>1 DEF EndEntry, TypeOK
    <3> QED BY <1>3, <2>1, <3>1 DEF Local, Owed, Mail
  <2>2. CASE i # at
    <3>1. result[i] = "ok"
      BY <1>3, <2>2 DEF EndEntry, TypeOK
    <3> QED BY <1>3, <3>1 DEF Local, LocalRecipientsServed, Served
  <2> QED BY <2>1, <2>2
<1>4. LocalRecipientsServed'
  BY <1>3 DEF LocalRecipientsServed, Served, Entries, Recipients
<1> QED BY <1>1, <1>2, <1>4 DEF Local

LEMMA LocalStep == TypeOK /\ Progress /\ Local /\ [Next]_vars => Local'
<1> SUFFICES ASSUME TypeOK, Progress, Local, [Next]_vars PROVE Local'
  OBVIOUS
<1> USE DEF envVars, requestVars
<1>1. CASE RefuseBatch \/ Abandon \/ StoreFile \/ UNCHANGED vars
  BY <1>1, LocalKept DEF RefuseBatch, Abandon, StoreFile, vars
<1>2. CASE CheckThread \/ CheckDomain \/ Resolve
  <2>1. /\ pc' \in {"domain", "resolve", "hop"}
        /\ UNCHANGED <<filed, alive, batch, result, broke, at, targets, phase>>
    BY <1>2, OrderFacts DEF CheckThread, CheckDomain, Resolve, Pass
  <2> QED BY <2>1, LocalKept
<1>3. CASE Ends
  BY <1>3, LocalEnds DEF Ends, Fail, Done, Running
<1>4. CASE Authorize
  <2>1. Named' /\ OneLocalCopy'
    BY <1>4 DEF Authorize, Local, Named, OneLocalCopy, LocalRow
  <2>2. LocalRecipientsServed'
    BY <1>4 DEF Authorize, Local, LocalRecipientsServed, Entries, Recipients
  <2>3. Owed'
    BY <1>4 DEF Authorize, Progress, Owed
  <2> QED BY <2>1, <2>2, <2>3 DEF Local
<1>5. CASE TryHop
  <2>1. phase = "sending" /\ UNCHANGED <<filed, alive, batch, broke>>
    BY <1>5 DEF TryHop, Running
  <2>2. CASE EndEntry("err")
    BY <2>1, <2>2, LocalEnds
  <2>3. CASE (pc' = pc \/ pc' = "store") /\ UNCHANGED <<phase, at, targets, result>>
    BY <2>1, <2>3, LocalKept
  <2> QED BY <1>5, <2>2, <2>3, OrderFacts DEF TryHop
<1>6. CASE StoreSent
  <2> DEFINE new == Row(box[at], "Sent", None, "api")
  <2>1. /\ filed' = filed \cup {new} /\ targets' = FanOut(Mail) /\ pc' = "fanout"
        /\ UNCHANGED <<batch, at, alive, result, broke>>
        /\ phase = "sending" /\ pc = "store"
    BY <1>6, OrderFacts DEF StoreSent, Running
  <2>2. new.folder = "Sent" /\ ~LocalRow(new)
    BY DEF Row, LocalRow
  <2> HIDE DEF new
  <2>3. Named' /\ OneLocalCopy'
    BY <2>1, <2>2 DEF Local, Named, OneLocalCopy, LocalRow
  <2>4. LocalRecipientsServed'
    BY <2>1, StillServed DEF Local, LocalRecipientsServed, Served, Entries, Recipients
  <2>5. \A row \in filed' : LocalRow(row) => row.entry # at
    BY <2>1, <2>2 DEF Progress, LocalRow
  <2>6. \A a \in Recipients(Mail) : \E t \in targets' : Norm(t) = Norm(a)
    BY <2>1, FanOutNames DEF Listed, Recipients
  <2>7. Owed'
    BY <2>1, <2>5, <2>6, FanOutNames DEF Owed, Mail, LocalRow
  <2> QED BY <2>3, <2>4, <2>7 DEF Local
<1>7. CASE CopyLocal
  <2> DEFINE new(a) == Row(Box(Norm(a)), "Inbox", a, "api")
  <2>1. PICK a \in targets :
          /\ targets' = targets \ {a}
          /\ \/ Box(Norm(a)) \notin alive /\ filed' = filed
             \/ Box(Norm(a)) \in alive /\ filed' = filed \cup {new(a)}
    BY <1>7 DEF CopyLocal
  <2>2. /\ UNCHANGED <<batch, at, alive, result, broke, pc, phase>>
        /\ phase = "sending" /\ pc = "fanout" /\ filed \subseteq filed'
    BY <1>7, <2>1 DEF CopyLocal, Running
  <2>3. /\ new(a).entry = at /\ new(a).box = Box(Norm(a)) /\ new(a).folder = "Inbox"
        /\ new(a).address = a /\ new(a).via = "api" /\ a \in Addresses
    BY DEF Row, TypeOK
  <2> HIDE DEF new
  <2>4. Named'
    BY <2>1, <2>3 DEF Local, Named, LocalRow
  <2>5. \A row \in filed : LocalRow(row) /\ row.entry = at /\ Box(Norm(a)) \in alive
          => row.box # Box(Norm(a))
    <3> SUFFICES ASSUME NEW row \in filed, LocalRow(row), row.entry = at,
                        Box(Norm(a)) \in alive, row.box = Box(Norm(a))
                 PROVE  FALSE
      OBVIOUS
    <3>1. row.address \in Addresses /\ Box(Norm(row.address)) = Box(Norm(a))
      BY DEF Local, Named
    <3>2. Norm(a) = Norm(row.address)
      BY <2>3, <3>1, BoxAssumption DEF TypeOK
    <3> QED BY <2>2, <3>2 DEF Local, Owed
  <2>6. OneLocalCopy'
    <3>1. CASE filed' = filed
      BY <3>1 DEF Local, OneLocalCopy
    <3>2. CASE Box(Norm(a)) \in alive /\ filed' = filed \cup {new(a)}
      BY <2>3, <2>5, <3>2 DEF Local, OneLocalCopy, LocalRow
    <3> QED BY <2>1, <3>1, <3>2
  <2>7. LocalRecipientsServed'
    BY <2>2, StillServed DEF Local, LocalRecipientsServed, Served, Entries, Recipients
  <2>8. \A s, t \in targets : Norm(s) = Norm(t) => s = t
    BY <2>2 DEF Local, Owed
  <2>9. \A row \in filed' : LocalRow(row) /\ row.entry = at =>
          \A t \in targets' : Norm(t) # Norm(row.address)
    BY <2>1, <2>2, <2>3, <2>8 DEF Local, Owed
  <2>10. Served(at, a)'
    BY <2>1, <2>2, <2>3 DEF Served
  <2>11. ASSUME NEW x \in Recipients(Mail)
         PROVE  (\E t \in targets' : Norm(t) = Norm(x)) \/ Served(at, x)'
    <3>1. CASE Norm(x) = Norm(a)
      BY <2>10, <3>1 DEF Served
    <3>2. CASE Norm(x) # Norm(a)
      BY <2>1, <2>2, <3>2, StillServed DEF Local, Owed
    <3> QED BY <3>1, <3>2
  <2>12. Owed'
    BY <2>1, <2>2, <2>8, <2>9, <2>11 DEF Owed, Mail, LocalRow, Served
  <2> QED BY <2>4, <2>6, <2>7, <2>12 DEF Local
<1>8. CASE EndFanout
  <2>1. /\ UNCHANGED <<batch, at, alive, result, phase, filed>> /\ pc' = "attach"
        /\ phase = "sending" /\ pc = "fanout"
        /\ (targets = {} /\ broke' = broke) \/ broke' = broke \cup {at}
    BY <1>8, OrderFacts DEF EndFanout, Running
  <2>2. Named' /\ OneLocalCopy'
    BY <2>1 DEF Local, Named, OneLocalCopy, LocalRow
  <2>3. LocalRecipientsServed'
    BY <2>1 DEF Local, LocalRecipientsServed, Entries, Recipients
  <2>4. at \in broke' \/ \A a \in Recipients(Mail) : Served(at, a)
    BY <2>1 DEF Local, Owed
  <2>5. Owed'
    BY <2>1, <2>4 DEF Owed, Mail, Served
  <2> QED BY <2>2, <2>3, <2>5 DEF Local
<1>9. CASE ReturnByMx
  <2>1. PICK a \in Addresses : filed' = filed \cup {Row(Box(Norm(a)), "Inbox", a, "mx")}
    BY <1>9 DEF ReturnByMx
  <2> DEFINE new == Row(Box(Norm(a)), "Inbox", a, "mx")
  <2>2. new.via = "mx"
    BY DEF Row
  <2>3. UNCHANGED <<batch, at, alive, result, broke, pc, phase, targets>>
    BY <1>9 DEF ReturnByMx
  <2>4. \A row \in filed' : row.via = "api" => row \in filed
    BY <2>1, <2>2
  <2>5. Named' /\ OneLocalCopy'
    BY <2>4 DEF Local, Named, OneLocalCopy, LocalRow
  <2>6. ASSUME NEW i, NEW x, Served(i, x) PROVE Served(i, x)'
    BY <2>1, <2>3, <2>6, StillServed
  <2>7. LocalRecipientsServed'
    BY <2>3, <2>6, AllStillServed
  <2>8. Owed'
    BY <2>3, <2>4, <2>6 DEF Local, Owed, LocalRow, Mail
  <2> QED BY <2>5, <2>7, <2>8 DEF Local
<1>10. CASE Around
  <2>1. CASE DomainChanges \/ RemoveAlias
    BY <1>10, <2>1, LocalKept DEF Around, DomainChanges, RemoveAlias
  <2>2. ASSUME NEW b \in Boxes, DeleteMailbox(b) PROVE Local'
    <3> DEFINE Cut(row) == IF row.thread # None /\ owner[row.thread] = b
                           THEN [row EXCEPT !.thread = None] ELSE row
    <3>1. UNCHANGED <<batch, at, result, broke, pc, phase, targets>> /\ alive' = alive \ {b}
      BY <1>10, <2>2 DEF Around, DeleteMailbox
    <3>2. filed' = {Cut(row) : row \in {row \in filed : row.box # b}}
      BY <2>2 DEF DeleteMailbox
    <3>3. \A row \in filed :
            /\ Cut(row).entry = row.entry /\ Cut(row).box = row.box
            /\ Cut(row).folder = row.folder /\ Cut(row).address = row.address
            /\ Cut(row).via = row.via
      BY DEF TypeOK, Filed
    <3> HIDE DEF Cut
    <3>4. Named'
      BY <3>2, <3>3 DEF Local, Named, LocalRow
    <3>5. OneLocalCopy'
      BY <3>2, <3>3 DEF Local, OneLocalCopy
    <3>6. ASSUME NEW i, NEW x, Served(i, x) PROVE Served(i, x)'
      <4> SUFFICES ASSUME Box(Norm(x)) \in alive \ {b}
                   PROVE  \E row \in filed' :
                            row.entry = i /\ row.folder = "Inbox" /\ row.box = Box(Norm(x))
        BY <3>1 DEF Served
      <4>1. PICK row \in filed : row.entry = i /\ row.folder = "Inbox" /\ row.box = Box(Norm(x))
        BY <3>6 DEF Served
      <4>2. Cut(row) \in filed'
        BY <3>2, <4>1
      <4> QED BY <3>3, <4>1, <4>2
    <3>7. LocalRecipientsServed'
      BY <3>1, <3>6, AllStillServed
    <3>8. \A row \in filed' : LocalRow(row) =>
            \E old \in filed : LocalRow(old) /\ old.entry = row.entry /\ old.address = row.address
      BY <3>2, <3>3 DEF LocalRow
    <3>9. Owed'
      BY <3>1, <3>6, <3>8 DEF Local, Owed, Mail
    <3> QED BY <3>4, <3>5, <3>7, <3>9 DEF Local
  <2> QED BY <1>10, <2>1, <2>2 DEF Around
<1> QED BY <1>1, <1>2, <1>3, <1>4, <1>5, <1>6, <1>7, <1>8, <1>9, <1>10, Steps DEF Quiet

\* However often, in whatever spelling and however hidden a recipient of this server is
\* listed, its mailbox has one local copy once the send has succeeded, unless a
\* statement of the fan-out failed.
THEOREM OneCopyEach == Spec => []LocalCopies
<1>1. Init => Local
  <2> SUFFICES ASSUME Init PROVE Local
    OBVIOUS
  <2>1. filed = {} /\ phase = "authorizing" /\ \A i \in Entries : result[i] = "none"
    BY DEF Init
  <2> QED BY <2>1 DEF Local, Named, Owed, OneLocalCopy, LocalRecipientsServed
<1>2. Spec => [](TypeOK /\ Progress /\ Local)
  BY <1>1, InvInit, InvStep, LocalStep, PTL DEF Spec
<1>3. Local => LocalCopies
  BY DEF Local, LocalCopies
<1> QED BY <1>2, <1>3, PTL
=============================================================================
