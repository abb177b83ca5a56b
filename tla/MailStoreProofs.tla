--------------------------- MODULE MailStoreProofs ---------------------------
(***************************************************************************)
(* Theorems about MailStore, for any number of messages, requests, imports *)
(* and files.                                                              *)
(*                                                                         *)
(* The argument has a part per property, each about what is on its way: a  *)
(* request that has computed a flag and not written it; the one task or    *)
(* request a message has, and what it will do to the file; and the file an *)
(* import is at, with the message that stands for it.                      *)
(***************************************************************************)
EXTENDS MailStore, FiniteSetTheorems, TLAPS

\* What a request knows of its message.
Requests ==
  \A h \in Handlers :
    IF at[h].pc = "idle" THEN at[h].m = None
    ELSE /\ at[h].m \in Msgs /\ row[at[h].m] # None
         /\ at[h].m \in There => at[h].thread = row[at[h].m].thread

\* A flag that is about to be written, or was, is what the messages say.
Computed ==
  \A t \in Threads \ stale : flag[t] # "none" =>
    /\ \A h \in Handlers : at[h].pc = "flag" /\ at[h].thread = t => at[h].bold = Unread(t)
    /\ (\A h \in Handlers : ~(at[h].pc = "flag" /\ at[h].thread = t)) => (flag[t] = "bold") = Unread(t)

FlagInv == Requests /\ Computed

Marking == {"update", "exists", "flag", "spawn"}

\* Nothing is about an id no message has had.
Fresh ==
  \A m \in Msgs : row[m] = None => disk[m] = "none" /\ \A k \in task : k.m # m

\* A message has one task or request at a time.
Alone(m) ==
  /\ \A k, l \in task : k.m = m /\ l.m = m => k = l
  /\ \A g, h \in Handlers : at[g].m = m /\ at[h].m = m => g = h
  /\ \A k \in task, h \in Handlers : k.m = m => at[h].m # m

\* Nothing is to be done to the file, which is where its row says.
Settled(m) == row[m].file # "none" => disk[m] = row[m].file /\ row[m].file = Place(row[m].read)

\* What is to be done to the file takes it to where it belongs.
Mirrored(m) ==
  /\ (\A k \in task : k.m # m) /\ (\A h \in Handlers : at[h].m = m => at[h].pc \notin Marking) => Settled(m)
  /\ \A h \in Handlers : at[h].m = m /\ at[h].pc \in Marking =>
       /\ at[h].file = row[m].file
       /\ at[h].file # "none" => disk[m] = at[h].file
       /\ at[h].pc # "update" => row[m].read = at[h].read
  /\ \A k \in task : k.m = m =>
       /\ k.to = Place(row[m].read)
       /\ k.pc = "record" => disk[m] = k.to
       /\ k.pc = "file" /\ k.from # "none" => disk[m] = k.from /\ row[m].file = k.from

MirrorInv == Fresh /\ \A m \in There \ apart : Alone(m) /\ Mirrored(m)

\* Mail that arrived or was imported is in a thread of its mailbox.
InOwnThread(r) == r.thread \in {r.box} \X Subjects

PlaceInv == \A m \in There : row[m].origin \in {"inbound", "import"} => InOwnThread(row[m])

\* The file an import is at.
AtFile ==
  \A i \in Imports :
    /\ run[i].pc \in {"next", "done"} => run[i].file = None
    /\ run[i].pc = "done" => run[i].todo = {}
    /\ run[i].pc \in {"insert", "attach"} => run[i].file \in Files
    /\ run[i].pc = "attach" =>
         /\ run[i].m \in Msgs /\ row[run[i].m] # None
         /\ IF run[i].m \in There THEN row[run[i].m].src = run[i].file ELSE Alike(run[i].file) \subseteq broken

\* An imported message, and its attachments if some run is still at them.
Imported ==
  \A m \in There :
    /\ row[m].origin = "import" => row[m].src \in Files
    /\ row[m].src # None => row[m].mid = row[m].src.mid /\ row[m].box = row[m].src.box
    /\ row[m].whole \/ /\ row[m].src \in Files
                       /\ \/ Alike(row[m].src) \subseteq broken
                          \/ \E i \in Imports : run[i].pc = "attach" /\ run[i].m = m

\* The message a file is in, whole.
Stored(f) ==
  \E m \in There : /\ row[m].box = f.box /\ row[m].whole
                   /\ IF f.mid = "" THEN row[m].src = f ELSE row[m].mid = f.mid

\* What a run is past is stored.
Passed ==
  \A i \in scene.imports : \A f \in scene.files :
    f \in run[i].todo \/ run[i].file = f \/ f \in broken \/ Stored(f)

\* Two messages of one file.
TwinMail ==
  \A m, n \in There :
    m # n /\ row[m].origin = "import" /\ row[n].origin = "import" /\ row[m].mid # ""
      /\ row[m].mid = row[n].mid /\ row[m].box = row[n].box => row[m].src \in broken

\* A run that is about to make the second, and two that are about to make them.
TwinSoon ==
  \A i \in Imports, m \in There :
    run[i].pc = "insert" /\ row[m].origin = "import" /\ run[i].file.mid # ""
      /\ row[m].mid = run[i].file.mid /\ row[m].box = run[i].file.box => Alike(run[i].file) \subseteq broken

TwinRuns ==
  \A i, j \in Imports :
    i # j /\ run[i].pc = "insert" /\ run[j].pc = "insert" /\ run[j].file \in Alike(run[i].file)
      => Alike(run[i].file) \subseteq broken

Twins == TwinMail /\ TwinSoon /\ TwinRuns

ImportInv == AtFile /\ Imported /\ Passed /\ Twins

Types == TypeOK /\ begun \in 0..MaxTask

Inv == Types /\ FlagInv /\ MirrorInv /\ PlaceInv /\ ImportInv

-----------------------------------------------------------------------------
(* Types.                                                                  *)

LEMMA SceneFacts ==
  ASSUME TypeOK
  PROVE  /\ scene.msgs \subseteq Msgs /\ scene.boxes \subseteq Boxes /\ scene.handlers \subseteq Handlers
         /\ scene.imports \subseteq Imports /\ scene.files \subseteq Files
         /\ scene.tasks \in 0..MaxTask /\ scene.time \in 0..MaxTime
<1>1. scene \in SceneKind
  BY StoreAssumption DEF TypeOK
<1> QED BY <1>1 DEF SceneKind

LEMMA RowFacts ==
  ASSUME TypeOK, NEW m \in There
  PROVE  /\ m \in Msgs /\ row[m] \in RowKind
         /\ row[m].box \in Boxes /\ row[m].thread \in Threads \cup {None}
<1>1. m \in Msgs /\ row[m] \in RowKind
  BY DEF TypeOK, There
<1> QED BY <1>1 DEF RowKind

LEMMA RowType ==
  ASSUME NEW b \in Boxes, NEW t \in Threads \cup {None}, NEW folder \in Folders, NEW read \in BOOLEAN,
         NEW origin \in {"inbound", "sent", "copy", "draft", "import"}
  PROVE  Row(b, t, folder, read, origin) \in RowKind
<1>1. Null \in 0..MaxTime + 1
  BY StoreAssumption DEF Null
<1> QED BY <1>1 DEF Row, RowKind

LEMMA FileFacts ==
  ASSUME NEW f \in Files
  PROVE  /\ f.box \in Boxes /\ f.subject \in Subjects /\ f.mid \in {"m", "n", ""}
         /\ f.folder \in Folders /\ f.files \in BOOLEAN
BY StoreAssumption DEF FileKind, Folders

\* Nothing but a message is in the table.
LEMMA NotThere ==
  /\ None \notin RowKind /\ Gone \notin RowKind /\ None # Gone
BY StoreAssumption

\* A message is put where there was none.
LEMMA NewRow ==
  ASSUME TypeOK, NEW m \in Msgs, NEW r \in RowKind, row' = [row EXCEPT ![m] = r],
         flag' \in [Threads -> {"none", "bold", "plain"}],
         \A t \in Threads : flag[t] # "none" => flag'[t] # "none",
         r.thread # None => flag'[r.thread] # "none"
  PROVE  /\ row' \in [Msgs -> RowKind \cup {None, Gone}]
         /\ \A n \in There' : row'[n].thread # None => flag'[row'[n].thread] # "none"
<1>1. row' \in [Msgs -> RowKind \cup {None, Gone}]
  BY DEF TypeOK
<1>2. ASSUME NEW n \in There', row'[n].thread # None
      PROVE  flag'[row'[n].thread] # "none"
  <2>1. n \in Msgs
    BY DEF There
  <2>2. CASE n = m
    BY <1>2, <2>2 DEF TypeOK
  <2>3. CASE n # m
    <3>1. row'[n] = row[n]
      BY <2>1, <2>3 DEF TypeOK
    <3>2. n \in There
      BY <2>1, <3>1 DEF There
    <3> QED BY <1>2, <3>1, <3>2, RowFacts DEF TypeOK
  <2> QED BY <2>2, <2>3
<1> QED BY <1>1, <1>2

\* A message stays in its thread.
LEMMA SameThread ==
  ASSUME TypeOK, NEW m \in Msgs, NEW r \in RowKind \cup {None, Gone}, row' = [row EXCEPT ![m] = r],
         r \in RowKind => m \in There /\ r.thread = row[m].thread,
         flag' = flag
  PROVE  /\ row' \in [Msgs -> RowKind \cup {None, Gone}]
         /\ \A n \in There' : row'[n].thread # None => flag'[row'[n].thread] # "none"
<1>1. row' \in [Msgs -> RowKind \cup {None, Gone}]
  BY DEF TypeOK
<1>2. ASSUME NEW n \in There', row'[n].thread # None
      PROVE  flag'[row'[n].thread] # "none"
  <2>1. n \in Msgs /\ row'[n] \in RowKind
    BY <1>1 DEF There
  <2>2. CASE n = m
    <3>1. row'[n] = r
      BY <2>2 DEF TypeOK
    <3> QED BY <1>2, <2>1, <2>2, <3>1 DEF TypeOK
  <2>3. CASE n # m
    <3>1. row'[n] = row[n]
      BY <2>1, <2>3 DEF TypeOK
    <3>2. n \in There
      BY <2>1, <3>1 DEF There
    <3> QED BY <1>2, <3>1, <3>2 DEF TypeOK
  <2> QED BY <2>2, <2>3
<1> QED BY <1>1, <1>2

LEMMA BeginType ==
  ASSUME Types, NEW m \in Msgs, NEW from \in {"none", "new", "cur"}, NEW to \in {"new", "cur"},
         NEW by \in Imports \cup {None}, Begin(m, from, to, by)
  PROVE  task' \subseteq TaskKind /\ begun' \in 0..MaxTask
<1>1. scene.tasks \in 0..MaxTask /\ MaxTask \in Nat
  BY SceneFacts, StoreAssumption DEF Types
<1>2. begun' \in 0..MaxTask /\ begun \in 0..MaxTask
  BY <1>1 DEF Types, Begin
<1>3. [id |-> begun, m |-> m, from |-> from, to |-> to, by |-> by, pc |-> "file"] \in TaskKind
  BY <1>2 DEF TaskKind
<1> QED BY <1>2, <1>3 DEF Types, TypeOK, Begin

LEMMA MirrorType ==
  ASSUME Types, NEW m \in Msgs, NEW read \in BOOLEAN, NEW by \in Imports \cup {None}, Mirror(m, read, by)
  PROVE  task' \subseteq TaskKind /\ begun' \in 0..MaxTask
<1>1. Place(read) \in {"new", "cur"}
  BY DEF Place
<1> QED BY <1>1, BeginType DEF Mirror, Types, TypeOK

LEMMA TypesInit == Init => Types
<1> SUFFICES ASSUME Init PROVE Types
  OBVIOUS
<1>1. 0 \in 0..MaxTime /\ 0 \in 0..MaxTask
  BY StoreAssumption
<1>2. There = {}
  BY DEF Init, There
<1>3. at \in [Handlers -> HandlerKind]
  BY DEF Init, Idle, HandlerKind
<1>4. run \in [Imports -> RunKind]
  <2>1. scene \in SceneKind
    BY StoreAssumption DEF Init
  <2>2. scene.files \subseteq Files
    BY <2>1 DEF SceneKind
  <2> QED BY <2>2 DEF Init, RunKind
<1>5. /\ row \in [Msgs -> RowKind \cup {None, Gone}] /\ disk \in [Msgs -> Places]
      /\ flag \in [Threads -> {"none", "bold", "plain"}] /\ task \subseteq TaskKind
      /\ scene \in Scenes /\ now = 0 /\ begun = 0 /\ apart = {} /\ stale = {} /\ broken = {}
  BY DEF Init, Places
<1> QED BY <1>1, <1>2, <1>3, <1>4, <1>5 DEF Types, TypeOK

\* Mail comes.
LEMMA NewTypes ==
  ASSUME Types, NEW m \in NextId, NEW b \in scene.boxes,
         \/ \E s \in Subjects, folder \in {"Inbox", "Projects"}, mid \in {""} \cup {f.mid : f \in scene.files} :
              Arrive(m, b, s, mid, folder)
         \/ \E t \in Threads \cup {None} : FileSent(m, b, t) \/ CopyLocal(m, b, t) \/ DraftCreate(m, b, t)
  PROVE  Types'
<1>0. TypeOK /\ m \in Msgs /\ b \in Boxes
  BY SceneFacts DEF Types, NextId, Unborn
<1>1. ASSUME NEW s \in Subjects, NEW folder \in {"Inbox", "Projects"},
             NEW mid \in {""} \cup {f.mid : f \in scene.files}, Arrive(m, b, s, mid, folder)
      PROVE  Types'
  <2>1. mid \in {"m", "n", ""}
    BY <1>0, SceneFacts, FileFacts
  <2>2. <<b, s>> \in Threads
    BY <1>0 DEF Threads
  <2> DEFINE r == [Row(b, <<b, s>>, folder, FALSE, "inbound") EXCEPT !.mid = mid]
  <2>3. r \in RowKind /\ r.thread = <<b, s>>
    <3>1. Row(b, <<b, s>>, folder, FALSE, "inbound") \in RowKind
      BY <1>0, <2>2, RowType DEF Folders
    <3> QED BY <2>1, <3>1 DEF RowKind, Row
  <2>4. row' = [row EXCEPT ![m] = r] /\ UNCHANGED <<scene, now, disk, at, run, apart, broken>>
    BY <1>1 DEF Arrive, Put
  <2>5. /\ flag' \in [Threads -> {"none", "bold", "plain"}] /\ stale' \subseteq Threads
        /\ \A t \in Threads : flag[t] # "none" => flag'[t] # "none"
        /\ flag'[<<b, s>>] # "none"
    BY <1>0, <1>1, <2>2 DEF Arrive, Put, TypeOK
  <2>6. task' \subseteq TaskKind /\ begun' \in 0..MaxTask
    BY <1>0, <1>1, MirrorType DEF Arrive
  <2> HIDE DEF r
  <2>7. /\ row' \in [Msgs -> RowKind \cup {None, Gone}]
        /\ \A n \in There' : row'[n].thread # None => flag'[row'[n].thread] # "none"
    BY <1>0, <2>3, <2>4, <2>5, NewRow
  <2> QED BY <1>0, <2>4, <2>5, <2>6, <2>7 DEF Types, TypeOK
<1>2. ASSUME NEW t \in Threads \cup {None}, NEW r \in RowKind, r.thread = t, t # None => flag[t] # "none",
             row' = [row EXCEPT ![m] = r], UNCHANGED <<scene, now, flag, disk, at, run, apart, broken>>,
             task' \subseteq TaskKind, begun' \in 0..MaxTask, stale' \subseteq Threads
      PROVE  Types'
  <2>1. /\ row' \in [Msgs -> RowKind \cup {None, Gone}]
        /\ \A n \in There' : row'[n].thread # None => flag'[row'[n].thread] # "none"
    <3>1. flag' \in [Threads -> {"none", "bold", "plain"}]
      BY <1>0, <1>2 DEF TypeOK
    <3> QED BY <1>0, <1>2, <3>1, NewRow
  <2> QED BY <1>0, <1>2, <2>1 DEF Types, TypeOK
<1>3. ASSUME NEW t \in Threads \cup {None}, FileSent(m, b, t)
      PROVE  Types'
  <2>1. Row(b, t, "Sent", TRUE, "sent") \in RowKind /\ Row(b, t, "Sent", TRUE, "sent").thread = t
    BY <1>0, RowType DEF Row, Folders
  <2>2. task' \subseteq TaskKind /\ begun' \in 0..MaxTask
    BY <1>0, <1>3, MirrorType DEF FileSent
  <2> QED BY <1>0, <1>2, <1>3, <2>1, <2>2 DEF FileSent, TypeOK
<1>4. ASSUME NEW t \in Threads \cup {None}, CopyLocal(m, b, t)
      PROVE  Types'
  <2>1. Row(b, t, "Inbox", FALSE, "copy") \in RowKind /\ Row(b, t, "Inbox", FALSE, "copy").thread = t
    BY <1>0, RowType DEF Row, Folders
  <2>2. stale' \subseteq Threads
    BY <1>0, <1>4 DEF CopyLocal, TypeOK
  <2> QED BY <1>0, <1>2, <1>4, <2>1, <2>2 DEF CopyLocal, Types, TypeOK
<1>5. ASSUME NEW t \in Threads \cup {None}, DraftCreate(m, b, t)
      PROVE  Types'
  <2>1. Row(b, t, "Drafts", FALSE, "draft") \in RowKind /\ Row(b, t, "Drafts", FALSE, "draft").thread = t
    BY <1>0, RowType DEF Row, Folders
  <2>2. stale' \subseteq Threads
    BY <1>0, <1>5 DEF DraftCreate, TypeOK
  <2> QED BY <1>0, <1>2, <1>5, <2>1, <2>2 DEF DraftCreate, Types, TypeOK
<1> QED BY <1>1, <1>3, <1>4, <1>5

\* A message that changes stays in its thread.
LEMMA ChangeTypes ==
  ASSUME Types, NEW m \in There, NEW r \in RowKind \cup {Gone}, r \in RowKind => r.thread = row[m].thread,
         row' = [row EXCEPT ![m] = r], UNCHANGED <<scene, flag>>, now' \in 0..MaxTime,
         disk' \in [Msgs -> Places], task' \subseteq TaskKind, begun' \in 0..MaxTask,
         at' \in [Handlers -> HandlerKind], run' \in [Imports -> RunKind],
         apart' \subseteq Msgs, stale' \subseteq Threads, broken' \subseteq Files
  PROVE  Types'
<1>1. /\ row' \in [Msgs -> RowKind \cup {None, Gone}]
      /\ \A n \in There' : row'[n].thread # None => flag'[row'[n].thread] # "none"
  BY RowFacts, SameThread DEF Types
<1> QED BY <1>1 DEF Types, TypeOK

\* The messages stay as they are.
LEMMA QuietTypes ==
  ASSUME Types, UNCHANGED <<scene, row>>, now' \in 0..MaxTime,
         flag' \in [Threads -> {"none", "bold", "plain"}],
         \A t \in Threads : flag[t] # "none" => flag'[t] # "none",
         disk' \in [Msgs -> Places], task' \subseteq TaskKind, begun' \in 0..MaxTask,
         at' \in [Handlers -> HandlerKind], run' \in [Imports -> RunKind],
         apart' \subseteq Msgs, stale' \subseteq Threads, broken' \subseteq Files
  PROVE  Types'
<1>1. There' = There
  BY DEF There
<1>2. \A n \in There : row[n].thread # None => flag'[row[n].thread] # "none"
  BY RowFacts DEF Types, TypeOK
<1> QED BY <1>1, <1>2 DEF Types, TypeOK

LEMMA TaskTypes ==
  ASSUME Types, NEW k \in task, DeliverRaw(k) \/ SetSeen(k) \/ RecordMaildirFile(k) \/ LoseTask(k)
  PROVE  Types'
<1>0. TypeOK /\ k \in TaskKind /\ task \subseteq TaskKind
  BY DEF Types, TypeOK
<1>1. /\ k.m \in Msgs /\ k.to \in {"new", "cur"} /\ [k EXCEPT !.pc = "record"] \in TaskKind
  BY <1>0 DEF TaskKind
<1>2. CASE DeliverRaw(k)
  <2>1. disk' \in [Msgs -> Places]
    BY <1>0, <1>1, <1>2 DEF DeliverRaw, TypeOK, Places
  <2>2. task' \subseteq TaskKind
    BY <1>0, <1>1, <1>2 DEF DeliverRaw
  <2> QED BY <1>2, <2>1, <2>2, QuietTypes DEF DeliverRaw, Types, TypeOK
<1>3. CASE SetSeen(k)
  <2>1. disk' \in [Msgs -> Places]
    BY <1>0, <1>1, <1>3 DEF SetSeen, TypeOK, Places
  <2>2. task' \subseteq TaskKind
    BY <1>0, <1>1, <1>3 DEF SetSeen
  <2> QED BY <1>3, <2>1, <2>2, QuietTypes DEF SetSeen, Types, TypeOK
<1>4. CASE RecordMaildirFile(k)
  <2>1. CASE k.m \in There
    <3>1. row[k.m] \in RowKind
      BY <1>0, <2>1, RowFacts
    <3>2. /\ [row[k.m] EXCEPT !.file = k.to] \in RowKind
          /\ [row[k.m] EXCEPT !.file = k.to].thread = row[k.m].thread
      BY <1>1, <3>1 DEF RowKind
    <3>3. row' = [row EXCEPT ![k.m] = [row[k.m] EXCEPT !.file = k.to]]
      BY <1>4, <2>1 DEF RecordMaildirFile
    <3> HIDE DEF There
    <3> QED BY <1>0, <1>4, <2>1, <3>2, <3>3, ChangeTypes DEF RecordMaildirFile, Types, TypeOK
  <2>2. CASE k.m \notin There
    <3>1. row' = row
      BY <1>0, <1>1, <1>4, <2>2 DEF RecordMaildirFile, TypeOK
    <3> QED BY <1>0, <1>4, <3>1, QuietTypes DEF RecordMaildirFile, Types, TypeOK
  <2> QED BY <2>1, <2>2
<1>5. CASE LoseTask(k)
  BY <1>0, <1>1, <1>5, QuietTypes DEF LoseTask, Types, TypeOK
<1> QED BY <1>2, <1>3, <1>4, <1>5

LEMMA HandlerFacts ==
  ASSUME TypeOK, NEW h \in Handlers
  PROVE  /\ at[h].pc \in {"idle", "update", "exists", "flag", "spawn", "open"}
         /\ at[h].m \in Msgs \cup {None} /\ at[h].read \in BOOLEAN /\ at[h].thread \in Threads \cup {None}
         /\ at[h].file \in {"none", "new", "cur"} /\ at[h].bold \in BOOLEAN
BY DEF TypeOK, HandlerKind

LEMMA IdleType == Idle \in HandlerKind /\ Idle.pc = "idle" /\ Idle.m = None
BY DEF Idle, HandlerKind

LEMMA HandlerTypes ==
  ASSUME Types, FlagInv, NEW h \in scene.handlers,
         \/ \E m \in There : OpenSelect(h, m) \/ \E read \in BOOLEAN : MarkSelect(h, m, read)
         \/ MarkUpdate(h) \/ Exists(h) \/ Recompute(h) \/ Spawn(h) \/ Cut(h) \/ OpenMark(h)
  PROVE  Types'
<1>0. TypeOK /\ h \in Handlers
  BY SceneFacts DEF Types
<1>1. /\ at[h].pc # "idle" => at[h].m \in Msgs
      /\ at[h].pc # "idle" /\ at[h].m \in There => at[h].thread = row[at[h].m].thread
  BY <1>0 DEF FlagInv, Requests
<1>2. ASSUME NEW m \in There, OpenSelect(h, m)
      PROVE  Types'
  <2>1. [Idle EXCEPT !.pc = "open", !.m = m, !.thread = row[m].thread] \in HandlerKind
    BY <1>0, RowFacts DEF Idle, HandlerKind
  <2>2. at' \in [Handlers -> HandlerKind] /\ apart' \subseteq Msgs
    BY <1>0, <1>2, <2>1, RowFacts DEF OpenSelect, TypeOK
  <2> QED BY <1>2, <2>2, QuietTypes DEF OpenSelect, Types, TypeOK
<1>3. ASSUME NEW m \in There, NEW read \in BOOLEAN, MarkSelect(h, m, read)
      PROVE  Types'
  <2>0. row[m].file \in {"none", "new", "cur"}
    BY <1>0, RowFacts DEF RowKind
  <2>1. [Idle EXCEPT !.pc = "update", !.m = m, !.read = read, !.thread = row[m].thread, !.file = row[m].file]
          \in HandlerKind
    BY <1>0, <2>0, RowFacts DEF Idle, HandlerKind
  <2>2. at' \in [Handlers -> HandlerKind]
    BY <1>0, <1>3, <2>1 DEF MarkSelect, TypeOK
  <2>3. apart' \subseteq Msgs
    BY <1>0, <1>3, RowFacts DEF MarkSelect, TypeOK
  <2> QED BY <1>3, <2>2, <2>3, QuietTypes DEF MarkSelect, Types, TypeOK
<1>4. CASE MarkUpdate(h)
  <2> DEFINE m == at[h].m
  <2>1. m \in Msgs
    BY <1>1, <1>4 DEF MarkUpdate
  <2>2. at' \in [Handlers -> HandlerKind]
    BY <1>0, <1>4 DEF MarkUpdate, TypeOK, HandlerKind
  <2>3. stale' \subseteq Threads
    BY <1>0, <1>4, HandlerFacts DEF MarkUpdate, TypeOK
  <2>4. CASE m \in There
    <3>1. row[m] \in RowKind
      BY <1>0, <2>4, RowFacts
    <3>2. /\ [row[m] EXCEPT !.read = at[h].read] \in RowKind
          /\ [row[m] EXCEPT !.read = at[h].read].thread = row[m].thread
      BY <1>0, <3>1, HandlerFacts DEF RowKind
    <3>3. row' = [row EXCEPT ![m] = [row[m] EXCEPT !.read = at[h].read]]
      BY <1>4, <2>4 DEF MarkUpdate
    <3>4. UNCHANGED <<scene, now, flag, disk, task, begun, run, apart, broken>>
      BY <1>4 DEF MarkUpdate
    <3> HIDE DEF m
    <3> QED BY <1>0, <2>2, <2>3, <2>4, <3>2, <3>3, <3>4, ChangeTypes DEF Types, TypeOK
  <2>5. CASE m \notin There
    <3>1. row' = row
      BY <1>0, <1>4, <2>5 DEF MarkUpdate, TypeOK
    <3>2. UNCHANGED <<scene, now, flag, disk, task, begun, run, apart, broken>>
      BY <1>4 DEF MarkUpdate
    <3> QED BY <2>2, <2>3, <3>1, <3>2, QuietTypes DEF Types, TypeOK
  <2> QED BY <2>4, <2>5
<1>5. CASE Exists(h)
  <2>1. Unread(at[h].thread) \in BOOLEAN
    BY DEF Unread
  <2> DEFINE g == [at[h] EXCEPT !.bold = Unread(at[h].thread), !.pc = "flag"]
  <2>2. at[h] \in HandlerKind
    BY <1>0 DEF TypeOK
  <2>3. g \in HandlerKind
    <3> HIDE DEF Unread
    <3> QED BY <2>1, <2>2 DEF HandlerKind
  <2>4. at' = [at EXCEPT ![h] = g]
    BY <1>0, <1>5 DEF Exists, TypeOK
  <2>5. stale' \subseteq Threads /\ UNCHANGED <<scene, now, row, flag, disk, task, begun, run, apart, broken>>
    BY <1>0, <1>5 DEF Exists, TypeOK
  <2> HIDE DEF g
  <2>6. at' \in [Handlers -> HandlerKind]
    BY <1>0, <2>3, <2>4 DEF TypeOK
  <2> QED BY <2>5, <2>6, QuietTypes DEF Types, TypeOK
<1>6. CASE Recompute(h)
  <2>1. at' \in [Handlers -> HandlerKind]
    BY <1>0, <1>6 DEF Recompute, TypeOK, HandlerKind
  <2>2. /\ flag' \in [Threads -> {"none", "bold", "plain"}]
        /\ \A t \in Threads : flag[t] # "none" => flag'[t] # "none"
    BY <1>0, <1>6 DEF Recompute, TypeOK
  <2> QED BY <1>6, <2>1, <2>2, QuietTypes DEF Recompute, Types, TypeOK
<1>7. CASE Spawn(h)
  <2>1. at' \in [Handlers -> HandlerKind]
    BY <1>0, <1>7, IdleType DEF Spawn, TypeOK
  <2>2. task' \subseteq TaskKind /\ begun' \in 0..MaxTask
    <3>1. CASE at[h].file = "none"
      BY <1>7, <3>1 DEF Spawn, Types, TypeOK
    <3>2. CASE at[h].file # "none"
      <4>1. at[h].m \in Msgs
        BY <1>1, <1>7 DEF Spawn
      <4>2. Place(at[h].read) \in {"new", "cur"}
        BY DEF Place
      <4> QED BY <1>0, <1>7, <3>2, <4>1, <4>2, HandlerFacts, BeginType DEF Spawn
    <3> QED BY <3>1, <3>2
  <2> QED BY <1>7, <2>1, <2>2, QuietTypes DEF Spawn, Types, TypeOK
<1>8. CASE Cut(h)
  <2>1. at' \in [Handlers -> HandlerKind]
    BY <1>0, <1>8, IdleType DEF Cut, TypeOK
  <2>2. apart' \subseteq Msgs /\ stale' \subseteq Threads
    BY <1>0, <1>1, <1>8, HandlerFacts DEF Cut, TypeOK
  <2> QED BY <1>8, <2>1, <2>2, QuietTypes DEF Cut, Types, TypeOK
<1>9. CASE OpenMark(h)
  <2> DEFINE m == at[h].m
  <2>1. m \in Msgs
    BY <1>1, <1>9 DEF OpenMark
  <2>2. at' \in [Handlers -> HandlerKind]
    BY <1>0, <1>9, IdleType DEF OpenMark, TypeOK
  <2>3. UNCHANGED <<scene, now, flag, disk, task, begun, run, broken>>
    BY <1>9 DEF OpenMark
  <2>4. CASE m \in There /\ ~row[m].read
    <3>1. row[m] \in RowKind
      BY <1>0, <2>4, RowFacts
    <3>2. /\ [row[m] EXCEPT !.read = TRUE] \in RowKind
          /\ [row[m] EXCEPT !.read = TRUE].thread = row[m].thread
      BY <3>1 DEF RowKind
    <3>3. row' = [row EXCEPT ![m] = [row[m] EXCEPT !.read = TRUE]]
      BY <1>9, <2>4 DEF OpenMark
    <3>4. apart' \subseteq Msgs /\ stale' \subseteq Threads
      BY <1>0, <1>9, <2>1, <2>4, HandlerFacts DEF OpenMark, TypeOK
    <3> HIDE DEF m
    <3> QED BY <1>0, <2>2, <2>3, <2>4, <3>2, <3>3, <3>4, ChangeTypes DEF Types, TypeOK
  <2>5. CASE m \notin There \/ row[m].read
    <3>1. UNCHANGED <<row, apart, stale>>
      BY <1>9, <2>5 DEF OpenMark
    <3> QED BY <2>2, <2>3, <3>1, QuietTypes DEF Types, TypeOK
  <2> QED BY <2>4, <2>5
<1> QED BY <1>2, <1>3, <1>4, <1>5, <1>6, <1>7, <1>8, <1>9

LEMMA EditTypes ==
  ASSUME Types, NEW m \in There,
         \/ ImapClient(m) \/ Remove(m) \/ MoveMessage(m) \/ Snooze(m) \/ Unsnooze(m) \/ DraftDelete(m)
  PROVE  Types'
<1>0. TypeOK /\ m \in Msgs /\ row[m] \in RowKind
  BY RowFacts DEF Types
<1>1. CASE ImapClient(m)
  <2>1. disk' \in [Msgs -> Places] /\ apart' \subseteq Msgs
    BY <1>0, <1>1 DEF ImapClient, TypeOK, Places
  <2> QED BY <1>1, <2>1, QuietTypes DEF ImapClient, Types, TypeOK
<1>2. ASSUME NEW folder \in Folders, SetFolder(m, folder)
      PROVE  Types'
  <2>1. [row[m] EXCEPT !.folder = folder] \in RowKind /\ [row[m] EXCEPT !.folder = folder].thread = row[m].thread
    BY <1>0 DEF RowKind
  <2>2. row' = [row EXCEPT ![m] = [row[m] EXCEPT !.folder = folder]]
    BY <1>0, <1>2 DEF SetFolder, TypeOK
  <2> QED BY <1>2, <2>1, <2>2, ChangeTypes DEF SetFolder, Types, TypeOK
<1>3. ASSUME NEW until \in 0..MaxTime + 1, SetUntil(m, until)
      PROVE  Types'
  <2>1. [row[m] EXCEPT !.until = until] \in RowKind /\ [row[m] EXCEPT !.until = until].thread = row[m].thread
    BY <1>0 DEF RowKind
  <2>2. row' = [row EXCEPT ![m] = [row[m] EXCEPT !.until = until]]
    BY <1>0, <1>3 DEF SetUntil, TypeOK
  <2> QED BY <1>3, <2>1, <2>2, ChangeTypes DEF SetUntil, Types, TypeOK
<1>4. CASE Remove(m)
  BY <1>2, <1>4 DEF Remove, Folders
<1>5. CASE MoveMessage(m)
  BY <1>2, <1>5 DEF MoveMessage
<1>6. CASE Snooze(m)
  <2>1. now + 1..MaxTime + 1 \subseteq 0..MaxTime + 1
    BY <1>0, StoreAssumption DEF TypeOK
  <2> QED BY <1>3, <1>6, <2>1 DEF Snooze
<1>7. CASE Unsnooze(m)
  <2>1. Null \in 0..MaxTime + 1
    BY StoreAssumption DEF Null
  <2> QED BY <1>3, <1>7, <2>1 DEF Unsnooze
<1>8. CASE DraftDelete(m)
  <2>1. /\ row' = [row EXCEPT ![m] = Gone] /\ stale' = stale \cup ({row[m].thread} \ {None})
        /\ broken' = broken \cup FilesOf(m)
        /\ UNCHANGED <<scene, now, flag, disk, task, begun, at, run, apart>>
    BY <1>8 DEF DraftDelete
  <2>2. stale' \subseteq Threads /\ broken' \subseteq Files
    BY <1>0, <2>1, RowFacts DEF TypeOK, FilesOf
  <2> QED BY <2>1, <2>2, NotThere, ChangeTypes DEF Types, TypeOK
<1> QED BY <1>1, <1>4, <1>5, <1>6, <1>7, <1>8

LEMMA RunFacts ==
  ASSUME TypeOK, NEW i \in Imports
  PROVE  /\ run[i] \in RunKind /\ run[i].pc \in {"next", "insert", "attach", "done"}
         /\ run[i].todo \subseteq Files /\ run[i].file \in Files \cup {None} /\ run[i].m \in Msgs \cup {None}
BY DEF TypeOK, RunKind

LEMMA OnwardFacts ==
  ASSUME TypeOK, NEW i \in Imports
  PROVE  /\ Onward(i) \in RunKind /\ Onward(i).pc = "next" /\ Onward(i).file = None
         /\ Onward(i).todo = run[i].todo
BY RunFacts DEF Onward, RunKind

\* The row of an imported file.
ImportedRow(f) ==
  [Row(f.box, <<f.box, f.subject>>, f.folder, FALSE, "import") EXCEPT !.mid = f.mid, !.src = f, !.whole = ~f.files]

LEMMA ImportedRowFacts ==
  ASSUME NEW f \in Files
  PROVE  /\ ImportedRow(f) \in RowKind
         /\ ImportedRow(f).thread = <<f.box, f.subject>> /\ <<f.box, f.subject>> \in Threads
         /\ ImportedRow(f).box = f.box /\ ImportedRow(f).read = FALSE /\ ImportedRow(f).file = "none"
         /\ ImportedRow(f).mid = f.mid /\ ImportedRow(f).src = f /\ ImportedRow(f).whole = ~f.files
         /\ ImportedRow(f).origin = "import"
<1>1. <<f.box, f.subject>> \in Threads
  BY FileFacts DEF Threads
<1>2. Row(f.box, <<f.box, f.subject>>, f.folder, FALSE, "import") \in RowKind
  BY <1>1, FileFacts, RowType
<1> QED BY <1>1, <1>2, FileFacts DEF ImportedRow, Row, RowKind

LEMMA ImportTypes ==
  ASSUME Types, AtFile, NEW i \in scene.imports,
         \/ \E f \in Files : Take(i, f) \/ LookFails(i, f)
         \/ \E m \in NextId : Insert(i, m)
         \/ Attach(i) \/ FailFile(i) \/ Exit(i)
  PROVE  Types'
<1>0. TypeOK /\ i \in Imports
  BY SceneFacts DEF Types
<1>1. ASSUME NEW f \in Files, Take(i, f)
      PROVE  Types'
  <2> DEFINE r == [run[i] EXCEPT !.todo = @ \ {f}, !.pc = IF Present(f) THEN "next" ELSE "insert",
                                 !.file = IF Present(f) THEN None ELSE f]
  <2>1. /\ run' = [run EXCEPT ![i] = r]
        /\ UNCHANGED <<scene, now, row, flag, disk, task, begun, at, apart, stale>>
    BY <1>0, <1>1 DEF Take, TypeOK
  <2>2. r \in RunKind
    BY <1>0, RunFacts DEF RunKind
  <2>3. run' \in [Imports -> RunKind]
    <3> HIDE DEF r
    <3> QED BY <1>0, <2>1, <2>2 DEF TypeOK
  <2>4. broken' \subseteq Files
    BY <1>0, <1>1 DEF Take, TypeOK, Alike
  <2> QED BY <2>1, <2>3, <2>4, QuietTypes DEF Types, TypeOK
<1>l. ASSUME NEW f \in Files, LookFails(i, f)
      PROVE  Types'
  <2> DEFINE r == [run[i] EXCEPT !.todo = @ \ {f}, !.pc = "insert", !.file = f]
  <2>1. /\ run' = [run EXCEPT ![i] = r]
        /\ UNCHANGED <<scene, now, row, flag, disk, task, begun, at, apart, stale>>
    BY <1>0, <1>l DEF LookFails, TypeOK
  <2>2. r \in RunKind
    BY <1>0, RunFacts DEF RunKind
  <2>3. run' \in [Imports -> RunKind]
    <3> HIDE DEF r
    <3> QED BY <1>0, <2>1, <2>2 DEF TypeOK
  <2>4. broken' \subseteq Files
    BY <1>0, <1>l DEF LookFails, TypeOK, Alike
  <2> QED BY <2>1, <2>3, <2>4, QuietTypes DEF Types, TypeOK
<1>2. ASSUME NEW m \in NextId, Insert(i, m)
      PROVE  Types'
  <2> DEFINE f == run[i].file
  <2>0. m \in Msgs /\ f \in Files
    BY <1>0, <1>2, SceneFacts DEF NextId, Unborn, AtFile, Insert
  <2>1. /\ row' = [row EXCEPT ![m] = ImportedRow(f)] /\ UNCHANGED <<scene, now, disk, at, apart, broken>>
        /\ flag' = [flag EXCEPT ![<<f.box, f.subject>>] = IF @ = "none" THEN "bold" ELSE @]
        /\ stale' = stale \cup {<<f.box, f.subject>>} /\ Mirror(m, FALSE, i)
        /\ run' = [run EXCEPT ![i] = IF f.files THEN [@ EXCEPT !.pc = "attach", !.m = m] ELSE Onward(i)]
    BY <1>2 DEF Insert, Put, ImportedRow
  <2> HIDE DEF f
  <2>2. /\ ImportedRow(f) \in RowKind /\ ImportedRow(f).thread = <<f.box, f.subject>>
        /\ <<f.box, f.subject>> \in Threads
    BY <2>0, ImportedRowFacts
  <2>3. /\ flag' \in [Threads -> {"none", "bold", "plain"}] /\ stale' \subseteq Threads
        /\ \A t \in Threads : flag[t] # "none" => flag'[t] # "none"
        /\ flag'[<<f.box, f.subject>>] # "none"
    BY <1>0, <2>1, <2>2 DEF TypeOK
  <2>4. /\ row' \in [Msgs -> RowKind \cup {None, Gone}]
        /\ \A n \in There' : row'[n].thread # None => flag'[row'[n].thread] # "none"
    BY <1>0, <2>0, <2>1, <2>2, <2>3, NewRow
  <2>5. task' \subseteq TaskKind /\ begun' \in 0..MaxTask
    BY <1>0, <2>0, <2>1, MirrorType
  <2>6. run' \in [Imports -> RunKind]
    <3>1. [run[i] EXCEPT !.pc = "attach", !.m = m] \in RunKind
      BY <1>0, <2>0, RunFacts DEF RunKind
    <3>2. Onward(i) \in RunKind
      BY <1>0, OnwardFacts
    <3> QED BY <1>0, <2>1, <3>1, <3>2 DEF TypeOK
  <2> QED BY <1>0, <2>1, <2>3, <2>4, <2>5, <2>6 DEF Types, TypeOK
<1>3. CASE Attach(i)
  <2> DEFINE m == run[i].m
  <2>1. m \in Msgs
    BY <1>0, <1>3 DEF AtFile, Attach
  <2>2. run' \in [Imports -> RunKind]
    BY <1>0, <1>3, OnwardFacts DEF Attach, TypeOK
  <2>3. UNCHANGED <<scene, now, flag, disk, task, begun, at, apart, stale, broken>>
    BY <1>3 DEF Attach
  <2>4. CASE m \in There
    <3>1. row[m] \in RowKind
      BY <1>0, <2>4, RowFacts
    <3>2. [row[m] EXCEPT !.whole = TRUE] \in RowKind /\ [row[m] EXCEPT !.whole = TRUE].thread = row[m].thread
      BY <3>1 DEF RowKind
    <3>3. row' = [row EXCEPT ![m] = [row[m] EXCEPT !.whole = TRUE]]
      BY <1>3, <2>4 DEF Attach
    <3> HIDE DEF m
    <3> QED BY <2>2, <2>3, <2>4, <3>2, <3>3, ChangeTypes DEF Types, TypeOK
  <2>5. CASE m \notin There
    <3>1. row' = row
      BY <1>0, <1>3, <2>5 DEF Attach, TypeOK
    <3> QED BY <2>2, <2>3, <3>1, QuietTypes DEF Types, TypeOK
  <2> QED BY <2>4, <2>5
<1>4. CASE FailFile(i)
  <2>1. run' \in [Imports -> RunKind] /\ broken' \subseteq Files
    BY <1>0, <1>4, OnwardFacts DEF FailFile, TypeOK, Alike
  <2> QED BY <1>4, <2>1, QuietTypes DEF FailFile, Types, TypeOK
<1>5. CASE Exit(i)
  <2>1. run' \in [Imports -> RunKind]
    BY <1>0, <1>5, RunFacts DEF Exit, TypeOK, RunKind
  <2>2. task' \subseteq TaskKind /\ apart' \subseteq Msgs
    BY <1>0, <1>5 DEF Exit, TypeOK, TaskKind
  <2>3. UNCHANGED <<scene, now, row, flag, disk, begun, at, stale, broken>>
    BY <1>5 DEF Exit
  <2> QED BY <2>1, <2>2, <2>3, QuietTypes DEF Types, TypeOK
<1> QED BY <1>1, <1>l, <1>2, <1>3, <1>4, <1>5

LEMMA TypesStep == Inv /\ [Next]_vars => Types'
<1> SUFFICES ASSUME Inv, [Next]_vars PROVE Types'
  OBVIOUS
<1>0. Types /\ FlagInv /\ AtFile
  BY DEF Inv, ImportInv
<1>1. CASE Tick \/ UNCHANGED vars
  <2>1. now' \in 0..MaxTime
    BY <1>0, <1>1, SceneFacts, StoreAssumption DEF Tick, vars, Types, TypeOK
  <2> QED BY <1>0, <1>1, <2>1, QuietTypes DEF Tick, vars, Types, TypeOK
<1> QED BY <1>0, <1>1, NewTypes, TaskTypes, HandlerTypes, EditTypes, ImportTypes DEF Next

-----------------------------------------------------------------------------
(* Flags.                                                                  *)

LEMMA FlagInit == Init => FlagInv
<1> SUFFICES ASSUME Init PROVE FlagInv
  OBVIOUS
<1>1. \A h \in Handlers : at[h] = Idle
  BY DEF Init
<1>2. Requests
  BY <1>1, IdleType DEF Requests
<1>3. \A t \in Threads : flag[t] = "none"
  BY DEF Init
<1> QED BY <1>2, <1>3 DEF FlagInv, Computed

\* The requests that are about to write a flag, and what they write, are the same.
SameWriters ==
  \A t \in Threads \ stale', h \in Handlers :
    /\ at'[h].pc = "flag" /\ at'[h].thread = t <=> at[h].pc = "flag" /\ at[h].thread = t
    /\ at'[h].pc = "flag" => at'[h].bold = at[h].bold

LEMMA FlagsKeep ==
  ASSUME TypeOK, Computed, stale \subseteq stale', SameWriters,
         \A t \in Threads \ stale' : flag'[t] = flag[t],
         \A t \in Threads \ stale' : Unread(t)' = Unread(t)
  PROVE  Computed'
<1> SUFFICES ASSUME NEW t \in Threads \ stale', flag'[t] # "none"
             PROVE  /\ \A h \in Handlers : at'[h].pc = "flag" /\ at'[h].thread = t => at'[h].bold = Unread(t)'
                    /\ (\A h \in Handlers : ~(at'[h].pc = "flag" /\ at'[h].thread = t))
                         => (flag'[t] = "bold") = Unread(t)'
  BY DEF Computed
<1>1. t \in Threads \ stale /\ flag[t] # "none" /\ flag'[t] = flag[t]
  OBVIOUS
<1>2. /\ \A h \in Handlers : at[h].pc = "flag" /\ at[h].thread = t => at[h].bold = Unread(t)
      /\ (\A h \in Handlers : ~(at[h].pc = "flag" /\ at[h].thread = t)) => (flag[t] = "bold") = Unread(t)
  BY <1>1 DEF Computed
<1>3. Unread(t)' = Unread(t)
  OBVIOUS
<1> HIDE DEF Unread
<1> QED BY <1>1, <1>2, <1>3, Zenon DEF SameWriters

\* What one row does to a conversation.
LEMMA UnreadOne ==
  ASSUME TypeOK, NEW m \in Msgs, NEW r \in RowKind \cup {Gone}, row' = [row EXCEPT ![m] = r], NEW t \in Threads,
         (m \in There /\ row[m].thread = t /\ ~row[m].read) <=> (r \in RowKind /\ r.thread = t /\ ~r.read)
  PROVE  Unread(t)' = Unread(t)
<1>1. \A n \in Msgs \ {m} : row'[n] = row[n]
  BY DEF TypeOK
<1>2. row'[m] = r
  BY DEF TypeOK
<1>3. \A n \in Msgs \ {m} : n \in There' <=> n \in There
  BY <1>1 DEF There
<1>4. m \in There' <=> r \in RowKind
  BY <1>2, NotThere DEF There
<1>5. ASSUME NEW n \in Msgs
      PROVE  (n \in There' /\ row'[n].thread = t /\ ~row'[n].read) <=> (n \in There /\ row[n].thread = t /\ ~row[n].read)
  BY <1>1, <1>2, <1>3, <1>4
<1>6. There \subseteq Msgs /\ There' \subseteq Msgs
  BY DEF There
<1>7. Unread(t) <=> \E n \in Msgs : n \in There /\ row[n].thread = t /\ ~row[n].read
  BY <1>6 DEF Unread
<1>8. Unread(t)' <=> \E n \in Msgs : n \in There' /\ row'[n].thread = t /\ ~row'[n].read
  BY <1>6 DEF Unread
<1>9. Unread(t) \in BOOLEAN /\ Unread(t)' \in BOOLEAN
  BY DEF Unread
<1>10. Unread(t)' <=> Unread(t)
  BY <1>5, <1>7, <1>8
<1> HIDE DEF Unread
<1> QED BY <1>9, <1>10

\* Requests know what they knew when one row changes, or a message comes.
LEMMA RequestsOne ==
  ASSUME TypeOK, Requests, at' = at, NEW m \in Msgs, NEW r \in RowKind \cup {Gone}, row' = [row EXCEPT ![m] = r],
         row[m] = None \/ m \in There, m \in There /\ r \in RowKind => r.thread = row[m].thread
  PROVE  Requests'
<1> SUFFICES ASSUME NEW h \in Handlers, at[h].pc # "idle"
             PROVE  /\ at[h].m \in Msgs /\ row'[at[h].m] # None
                    /\ at[h].m \in There' => at[h].thread = row'[at[h].m].thread
  BY DEF Requests
<1>1. /\ at[h].m \in Msgs /\ row[at[h].m] # None
      /\ at[h].m \in There => at[h].thread = row[at[h].m].thread
  BY DEF Requests
<1>2. CASE at[h].m = m
  <2>1. row'[m] = r /\ m \in There
    BY <1>1, <1>2 DEF TypeOK
  <2> QED BY <1>1, <1>2, <2>1, NotThere DEF There
<1>3. CASE at[h].m # m
  <2>1. row'[at[h].m] = row[at[h].m]
    BY <1>1, <1>3 DEF TypeOK
  <2> QED BY <1>1, <2>1 DEF There
<1> QED BY <1>2, <1>3

LEMMA FlagsOne ==
  ASSUME TypeOK, FlagInv, at' = at, NEW m \in Msgs, NEW r \in RowKind \cup {Gone}, row' = [row EXCEPT ![m] = r],
         row[m] = None \/ m \in There, m \in There /\ r \in RowKind => r.thread = row[m].thread,
         stale \subseteq stale', \A t \in Threads \ stale' : flag'[t] = flag[t],
         \A t \in Threads \ stale' :
           (m \in There /\ row[m].thread = t /\ ~row[m].read) <=> (r \in RowKind /\ r.thread = t /\ ~r.read)
  PROVE  FlagInv'
<1>1. Requests'
  BY RequestsOne DEF FlagInv
<1>2. \A t \in Threads \ stale' : Unread(t)' = Unread(t)
  BY UnreadOne
<1>3. SameWriters
  BY DEF SameWriters
<1> QED BY <1>1, <1>2, <1>3, FlagsKeep DEF FlagInv

LEMMA FlagsQuiet ==
  ASSUME TypeOK, FlagInv, UNCHANGED <<row, flag, at, stale>>
  PROVE  FlagInv'
<1>1. There' = There
  BY DEF There
<1>2. \A t \in Threads : Unread(t)' = Unread(t)
  BY <1>1 DEF Unread
<1>3. SameWriters
  BY DEF SameWriters
<1>4. Requests'
  BY <1>1 DEF FlagInv, Requests
<1> QED BY <1>2, <1>3, <1>4, FlagsKeep DEF FlagInv

\* A message that changes, in its thread and as read as it was.
LEMMA FlagsSame ==
  ASSUME TypeOK, FlagInv, NEW m \in There, NEW r \in RowKind, r.thread = row[m].thread, r.read = row[m].read,
         row' = [row EXCEPT ![m] = r], UNCHANGED <<flag, at, stale>>
  PROVE  FlagInv'
<1>1. m \in Msgs
  BY RowFacts
<1> QED BY <1>1, FlagsOne

\* A message comes.
LEMMA FlagsPut ==
  ASSUME TypeOK, FlagInv, at' = at, NEW m \in Msgs, row[m] = None, NEW r \in RowKind, row' = [row EXCEPT ![m] = r],
         stale \subseteq stale', \A t \in Threads \ stale' : flag'[t] = flag[t] /\ (r.thread = t => r.read)
  PROVE  FlagInv'
<1>1. m \notin There
  BY DEF There
<1>2. \A t \in Threads \ stale' :
        (m \in There /\ row[m].thread = t /\ ~row[m].read) <=> (r \in RowKind /\ r.thread = t /\ ~r.read)
  BY <1>1
<1>3. \A t \in Threads \ stale' : flag'[t] = flag[t]
  OBVIOUS
<1>4. (row[m] = None \/ m \in There) /\ (m \in There /\ r \in RowKind => r.thread = row[m].thread)
  BY <1>1
<1> HIDE DEF There
<1> QED BY <1>2, <1>3, <1>4, FlagsOne

LEMMA FlagsNew ==
  ASSUME TypeOK, FlagInv, NEW m \in NextId, NEW b \in scene.boxes,
         \/ \E s \in Subjects, folder \in {"Inbox", "Projects"}, mid \in {""} \cup {f.mid : f \in scene.files} :
              Arrive(m, b, s, mid, folder)
         \/ \E t \in Threads \cup {None} : FileSent(m, b, t) \/ CopyLocal(m, b, t) \/ DraftCreate(m, b, t)
  PROVE  FlagInv'
<1>0. m \in Msgs /\ row[m] = None /\ m \notin There /\ b \in Boxes
  BY SceneFacts DEF NextId, Unborn, There
<1>1. ASSUME NEW s \in Subjects, NEW folder \in {"Inbox", "Projects"},
             NEW mid \in {""} \cup {f.mid : f \in scene.files}, Arrive(m, b, s, mid, folder)
      PROVE  FlagInv'
  <2>1. mid \in {"m", "n", ""} /\ <<b, s>> \in Threads
    BY <1>0, SceneFacts, FileFacts DEF Threads
  <2> DEFINE r == [Row(b, <<b, s>>, folder, FALSE, "inbound") EXCEPT !.mid = mid]
  <2>2. r \in RowKind /\ r.thread = <<b, s>>
    <3>1. Row(b, <<b, s>>, folder, FALSE, "inbound") \in RowKind
      BY <1>0, <2>1, RowType DEF Folders
    <3> QED BY <2>1, <3>1 DEF RowKind, Row
  <2>3. /\ row' = [row EXCEPT ![m] = r] /\ at' = at /\ stale' = stale \cup {<<b, s>>}
        /\ flag' = [flag EXCEPT ![<<b, s>>] = IF @ = "none" THEN "bold" ELSE @]
    BY <1>1 DEF Arrive, Put
  <2> HIDE DEF r
  <2>4. \A t \in Threads \ stale' : flag'[t] = flag[t] /\ (r.thread = t => r.read)
    BY <2>2, <2>3 DEF TypeOK
  <2>5. stale \subseteq stale'
    BY <2>3
  <2> QED BY <1>0, <2>2, <2>3, <2>4, <2>5, FlagsPut
<1>2. ASSUME NEW t \in Threads \cup {None}, FileSent(m, b, t)
      PROVE  FlagInv'
  <2> DEFINE r == Row(b, t, "Sent", TRUE, "sent")
  <2>1. r \in RowKind /\ r.read = TRUE
    BY <1>0, RowType DEF Row, Folders
  <2>2. row' = [row EXCEPT ![m] = r] /\ UNCHANGED <<at, flag, stale>>
    BY <1>2 DEF FileSent
  <2> HIDE DEF r
  <2> QED BY <1>0, <2>1, <2>2, FlagsPut
<1>3. ASSUME NEW t \in Threads \cup {None}, CopyLocal(m, b, t)
      PROVE  FlagInv'
  <2> DEFINE r == Row(b, t, "Inbox", FALSE, "copy")
  <2>1. r \in RowKind /\ r.thread = t
    BY <1>0, RowType DEF Row, Folders
  <2>2. row' = [row EXCEPT ![m] = r] /\ UNCHANGED <<at, flag>> /\ stale' = stale \cup ({t} \ {None})
    BY <1>3 DEF CopyLocal
  <2> HIDE DEF r
  <2>3. \A u \in Threads \ stale' : flag'[u] = flag[u] /\ (r.thread = u => r.read)
    BY <2>1, <2>2, StoreAssumption
  <2>4. stale \subseteq stale'
    BY <2>2
  <2> QED BY <1>0, <2>1, <2>2, <2>3, <2>4, FlagsPut
<1>4. ASSUME NEW t \in Threads \cup {None}, DraftCreate(m, b, t)
      PROVE  FlagInv'
  <2> DEFINE r == Row(b, t, "Drafts", FALSE, "draft")
  <2>1. r \in RowKind /\ r.thread = t
    BY <1>0, RowType DEF Row, Folders
  <2>2. row' = [row EXCEPT ![m] = r] /\ UNCHANGED <<at, flag>> /\ stale' = stale \cup ({t} \ {None})
    BY <1>4 DEF DraftCreate
  <2> HIDE DEF r
  <2>3. \A u \in Threads \ stale' : flag'[u] = flag[u] /\ (r.thread = u => r.read)
    BY <2>1, <2>2, StoreAssumption
  <2>4. stale \subseteq stale'
    BY <2>2
  <2> QED BY <1>0, <2>1, <2>2, <2>3, <2>4, FlagsPut
<1> QED BY <1>1, <1>2, <1>3, <1>4

LEMMA FlagsTask ==
  ASSUME TypeOK, FlagInv, NEW k \in task, DeliverRaw(k) \/ SetSeen(k) \/ RecordMaildirFile(k) \/ LoseTask(k)
  PROVE  FlagInv'
<1>1. CASE DeliverRaw(k) \/ SetSeen(k) \/ LoseTask(k)
  BY <1>1, FlagsQuiet DEF DeliverRaw, SetSeen, LoseTask
<1>2. CASE RecordMaildirFile(k)
  <2>1. CASE k.m \in There
    <3>1. row[k.m] \in RowKind /\ k.to \in {"new", "cur"}
      BY <2>1, RowFacts DEF TypeOK, TaskKind
    <3>2. /\ [row[k.m] EXCEPT !.file = k.to] \in RowKind
          /\ [row[k.m] EXCEPT !.file = k.to].thread = row[k.m].thread
          /\ [row[k.m] EXCEPT !.file = k.to].read = row[k.m].read
      BY <3>1 DEF RowKind
    <3>3. row' = [row EXCEPT ![k.m] = [row[k.m] EXCEPT !.file = k.to]] /\ UNCHANGED <<flag, at, stale>>
      BY <1>2, <2>1 DEF RecordMaildirFile
    <3> QED BY <2>1, <3>2, <3>3, FlagsSame
  <2>2. CASE k.m \notin There
    <3>1. row' = row
      BY <1>2, <2>2 DEF RecordMaildirFile, TypeOK
    <3> QED BY <1>2, <3>1, FlagsQuiet DEF RecordMaildirFile
  <2> QED BY <2>1, <2>2
<1> QED BY <1>1, <1>2

LEMMA FlagsEdit ==
  ASSUME TypeOK, FlagInv, NEW m \in There,
         \/ ImapClient(m) \/ Remove(m) \/ MoveMessage(m) \/ Snooze(m) \/ Unsnooze(m) \/ DraftDelete(m)
  PROVE  FlagInv'
<1>0. m \in Msgs /\ row[m] \in RowKind
  BY RowFacts
<1>1. CASE ImapClient(m)
  BY <1>1, FlagsQuiet DEF ImapClient
<1>2. ASSUME NEW folder \in Folders, SetFolder(m, folder)
      PROVE  FlagInv'
  <2>1. /\ [row[m] EXCEPT !.folder = folder] \in RowKind
        /\ [row[m] EXCEPT !.folder = folder].thread = row[m].thread
        /\ [row[m] EXCEPT !.folder = folder].read = row[m].read
    BY <1>0 DEF RowKind
  <2>2. row' = [row EXCEPT ![m] = [row[m] EXCEPT !.folder = folder]] /\ UNCHANGED <<flag, at, stale>>
    BY <1>0, <1>2 DEF SetFolder, TypeOK
  <2> QED BY <2>1, <2>2, FlagsSame
<1>3. ASSUME NEW until \in 0..MaxTime + 1, SetUntil(m, until)
      PROVE  FlagInv'
  <2>1. /\ [row[m] EXCEPT !.until = until] \in RowKind
        /\ [row[m] EXCEPT !.until = until].thread = row[m].thread
        /\ [row[m] EXCEPT !.until = until].read = row[m].read
    BY <1>0 DEF RowKind
  <2>2. row' = [row EXCEPT ![m] = [row[m] EXCEPT !.until = until]] /\ UNCHANGED <<flag, at, stale>>
    BY <1>0, <1>3 DEF SetUntil, TypeOK
  <2> QED BY <2>1, <2>2, FlagsSame
<1>4. CASE Remove(m) \/ MoveMessage(m)
  BY <1>2, <1>4 DEF Remove, MoveMessage, Folders
<1>5. CASE Snooze(m) \/ Unsnooze(m)
  <2>1. now + 1..MaxTime + 1 \subseteq 0..MaxTime + 1 /\ Null \in 0..MaxTime + 1
    BY StoreAssumption DEF TypeOK, Null
  <2> QED BY <1>3, <1>5, <2>1 DEF Snooze, Unsnooze
<1>6. CASE DraftDelete(m)
  <2>1. /\ row' = [row EXCEPT ![m] = Gone] /\ stale' = stale \cup ({row[m].thread} \ {None})
        /\ UNCHANGED <<flag, at>>
    BY <1>6 DEF DraftDelete
  <2>2. \A t \in Threads \ stale' : row[m].thread # t
    BY <2>1, StoreAssumption
  <2> QED BY <1>0, <2>1, <2>2, NotThere, FlagsOne
<1> QED BY <1>1, <1>4, <1>5, <1>6

LEMMA FlagsImport ==
  ASSUME TypeOK, FlagInv, AtFile, NEW i \in scene.imports,
         \/ \E f \in Files : Take(i, f) \/ LookFails(i, f)
         \/ \E m \in NextId : Insert(i, m)
         \/ Attach(i) \/ FailFile(i) \/ Exit(i)
  PROVE  FlagInv'
<1>0. i \in Imports
  BY SceneFacts
<1>1. CASE (\E f \in Files : Take(i, f) \/ LookFails(i, f)) \/ FailFile(i) \/ Exit(i)
  BY <1>1, FlagsQuiet DEF Take, LookFails, FailFile, Exit
<1>2. ASSUME NEW m \in NextId, Insert(i, m)
      PROVE  FlagInv'
  <2> DEFINE f == run[i].file
  <2>0. m \in Msgs /\ row[m] = None /\ m \notin There /\ f \in Files
    BY <1>0, <1>2, SceneFacts DEF NextId, Unborn, There, AtFile, Insert
  <2>1. /\ row' = [row EXCEPT ![m] = ImportedRow(f)] /\ at' = at
        /\ flag' = [flag EXCEPT ![<<f.box, f.subject>>] = IF @ = "none" THEN "bold" ELSE @]
        /\ stale' = stale \cup {<<f.box, f.subject>>}
    BY <1>2 DEF Insert, Put, ImportedRow
  <2> HIDE DEF f
  <2>2. /\ ImportedRow(f) \in RowKind /\ ImportedRow(f).thread = <<f.box, f.subject>>
    BY <2>0, ImportedRowFacts
  <2>3. \A t \in Threads \ stale' : flag'[t] = flag[t] /\ (ImportedRow(f).thread = t => ImportedRow(f).read)
    BY <2>1, <2>2 DEF TypeOK
  <2>4. stale \subseteq stale'
    BY <2>1
  <2> QED BY <2>0, <2>1, <2>2, <2>3, <2>4, FlagsPut
<1>3. CASE Attach(i)
  <2> DEFINE m == run[i].m
  <2>1. CASE m \in There
    <3>1. row[m] \in RowKind
      BY <2>1, RowFacts
    <3>2. /\ [row[m] EXCEPT !.whole = TRUE] \in RowKind
          /\ [row[m] EXCEPT !.whole = TRUE].thread = row[m].thread
          /\ [row[m] EXCEPT !.whole = TRUE].read = row[m].read
      BY <3>1 DEF RowKind
    <3>3. row' = [row EXCEPT ![m] = [row[m] EXCEPT !.whole = TRUE]] /\ UNCHANGED <<flag, at, stale>>
      BY <1>3, <2>1 DEF Attach
    <3> HIDE DEF m
    <3> QED BY <2>1, <3>2, <3>3, FlagsSame
  <2>2. CASE m \notin There
    <3>1. row' = row
      BY <1>3, <2>2 DEF Attach, TypeOK
    <3> QED BY <1>3, <3>1, FlagsQuiet DEF Attach
  <2> QED BY <2>1, <2>2
<1> QED BY <1>1, <1>2, <1>3

\* A request goes on, and writes no flag.
LEMMA FlagsMove ==
  ASSUME TypeOK, FlagInv, NEW h \in Handlers, NEW g, at' = [at EXCEPT ![h] = g], flag' = flag,
         stale \subseteq stale', g.pc # "flag", at[h].pc = "flag" => at[h].thread \notin Threads \ stale',
         Requests', \A t \in Threads \ stale' : Unread(t)' = Unread(t)
  PROVE  FlagInv'
<1>1. SameWriters
  <2> SUFFICES ASSUME NEW t \in Threads \ stale', NEW f \in Handlers
               PROVE  /\ at'[f].pc = "flag" /\ at'[f].thread = t <=> at[f].pc = "flag" /\ at[f].thread = t
                      /\ at'[f].pc = "flag" => at'[f].bold = at[f].bold
    BY DEF SameWriters
  <2>1. at'[f] = IF f = h THEN g ELSE at[f]
    BY DEF TypeOK
  <2> QED BY <2>1
<1>2. \A t \in Threads \ stale' : flag'[t] = flag[t]
  OBVIOUS
<1> HIDE DEF Unread
<1>3. Computed'
  BY <1>1, <1>2, FlagsKeep DEF FlagInv
<1> QED BY <1>3 DEF FlagInv

\* What a request knows as it goes on.
LEMMA RequestsMove ==
  ASSUME TypeOK, Requests, NEW h \in Handlers, NEW g, at' = [at EXCEPT ![h] = g],
         \A n \in Msgs : row[n] # None => /\ row'[n] # None
                                          /\ n \in There' => n \in There /\ row'[n].thread = row[n].thread,
         IF g.pc = "idle" THEN g.m = None
         ELSE g.m \in Msgs /\ row[g.m] # None /\ (g.m \in There => g.thread = row[g.m].thread)
  PROVE  Requests'
<1> SUFFICES ASSUME NEW f \in Handlers
             PROVE  IF at'[f].pc = "idle" THEN at'[f].m = None
                    ELSE /\ at'[f].m \in Msgs /\ row'[at'[f].m] # None
                         /\ at'[f].m \in There' => at'[f].thread = row'[at'[f].m].thread
  BY DEF Requests
<1>1. at'[f] = IF f = h THEN g ELSE at[f]
  BY DEF TypeOK
<1>2. CASE f = h
  BY <1>1, <1>2
<1>3. CASE f # h
  BY <1>1, <1>3 DEF Requests
<1> QED BY <1>2, <1>3

\* The messages a request finds and leaves as they are.
LEMMA FlagsGo ==
  ASSUME TypeOK, FlagInv, NEW h \in Handlers, NEW g, at' = [at EXCEPT ![h] = g], UNCHANGED <<row, flag>>,
         stale \subseteq stale', g.pc # "flag", at[h].pc = "flag" => at[h].thread \notin Threads \ stale',
         IF g.pc = "idle" THEN g.m = None
         ELSE g.m \in Msgs /\ row[g.m] # None /\ (g.m \in There => g.thread = row[g.m].thread)
  PROVE  FlagInv'
<1>1. There' = There
  BY DEF There
<1>2. Requests'
  BY <1>1, RequestsMove DEF FlagInv
<1>3. \A t \in Threads : Unread(t)' = Unread(t)
  BY <1>1 DEF Unread
<1> HIDE DEF Unread
<1> QED BY <1>2, <1>3, FlagsMove

\* The message a request marks.
LEMMA FlagsMark ==
  ASSUME TypeOK, FlagInv, NEW h \in Handlers, NEW g, at' = [at EXCEPT ![h] = g], flag' = flag,
         NEW m \in There, at[h].m = m, at[h].pc \notin {"idle", "flag"}, NEW read \in BOOLEAN,
         row' = [row EXCEPT ![m] = [row[m] EXCEPT !.read = read]],
         stale' = stale \cup ({at[h].thread} \ {None}),
         g.pc # "flag", IF g.pc = "idle" THEN g.m = None ELSE g.m = m /\ g.thread = at[h].thread
  PROVE  FlagInv'
<1>1. m \in Msgs /\ row[m] \in RowKind /\ at[h].thread = row[m].thread /\ row[m] # None
  BY RowFacts, NotThere DEF FlagInv, Requests
<1> DEFINE r == [row[m] EXCEPT !.read = read]
<1>2. r \in RowKind /\ r.thread = row[m].thread
  BY <1>1 DEF RowKind
<1>3. \A n \in Msgs : row'[n] = IF n = m THEN r ELSE row[n]
  BY <1>1 DEF TypeOK
<1>4. row' = [row EXCEPT ![m] = r]
  OBVIOUS
<1> HIDE DEF r
<1>5. \A n \in Msgs : row[n] # None => /\ row'[n] # None
                                       /\ n \in There' => n \in There /\ row'[n].thread = row[n].thread
  BY <1>2, <1>3, NotThere DEF There
<1>6. Requests'
  BY <1>1, <1>5, RequestsMove DEF FlagInv
<1>7. ASSUME NEW t \in Threads \ stale' PROVE Unread(t)' = Unread(t)
  <2>1. row[m].thread # t /\ r.thread # t
    BY <1>1, <1>2, StoreAssumption
  <2>2. (m \in There /\ row[m].thread = t /\ ~row[m].read) <=> (r \in RowKind /\ r.thread = t /\ ~r.read)
    BY <2>1
  <2>3. t \in Threads /\ m \in Msgs /\ r \in RowKind \cup {Gone}
    BY <1>1, <1>2
  <2> QED BY ONLY TypeOK, <1>4, <2>2, <2>3, UnreadOne
<1> HIDE DEF Unread, There
<1> QED BY <1>6, <1>7, FlagsMove

LEMMA FlagsExists ==
  ASSUME TypeOK, FlagInv, NEW h \in Handlers, Exists(h)
  PROVE  FlagInv'
<1> DEFINE g == [at[h] EXCEPT !.bold = Unread(at[h].thread), !.pc = "flag"]
<1>1. at' = [at EXCEPT ![h] = g] /\ UNCHANGED <<row, flag>> /\ at[h].pc = "exists"
  BY DEF Exists, TypeOK
<1>2. g.pc = "flag" /\ g.m = at[h].m /\ g.thread = at[h].thread /\ g.bold = Unread(at[h].thread)
  <2>1. at[h] \in HandlerKind
    BY DEF TypeOK
  <2> HIDE DEF Unread
  <2> QED BY <2>1 DEF HandlerKind
<1> HIDE DEF g
<1>3. There' = There
  BY <1>1 DEF There
<1>4. \A f \in Handlers : at'[f] = IF f = h THEN g ELSE at[f]
  BY <1>1 DEF TypeOK
<1>5. Requests'
  BY <1>1, <1>2, <1>3, RequestsMove DEF FlagInv, Requests
<1>6. ASSUME NEW t \in Threads \ stale', flag[t] # "none"
      PROVE  /\ \A f \in Handlers : at'[f].pc = "flag" /\ at'[f].thread = t => at'[f].bold = Unread(t)
             /\ (\A f \in Handlers : ~(at'[f].pc = "flag" /\ at'[f].thread = t)) => (flag[t] = "bold") = Unread(t)
  <2>1. CASE at[h].thread = t
    <3>1. /\ at'[h].pc = "flag" /\ at'[h].thread = t /\ at'[h].bold = Unread(t)
      BY <1>2, <1>4, <2>1
    <3>2. ASSUME NEW f \in Handlers, f # h, at'[f].pc = "flag", at'[f].thread = t
          PROVE  at'[f].bold = Unread(t)
      <4>1. at[f].pc = "flag" /\ at[f].thread = t /\ at'[f].bold = at[f].bold
        BY <1>4, <3>2
      <4>2. t \notin stale
        BY <1>6, <2>1, <4>1 DEF Exists
      <4> HIDE DEF Unread
      <4> QED BY <1>6, <4>1, <4>2 DEF FlagInv, Computed
    <3> HIDE DEF Unread
    <3> QED BY <3>1, <3>2
  <2>2. CASE at[h].thread # t
    <3>1. t \notin stale
      BY <1>6, <2>2 DEF Exists
    <3>2. /\ \A f \in Handlers : at[f].pc = "flag" /\ at[f].thread = t => at[f].bold = Unread(t)
          /\ (\A f \in Handlers : ~(at[f].pc = "flag" /\ at[f].thread = t)) => (flag[t] = "bold") = Unread(t)
      <4> HIDE DEF Unread
      <4> QED BY <1>6, <3>1 DEF FlagInv, Computed
    <3>3. \A f \in Handlers : /\ at'[f].pc = "flag" /\ at'[f].thread = t <=> at[f].pc = "flag" /\ at[f].thread = t
                              /\ at'[f].pc = "flag" /\ at'[f].thread = t => at'[f].bold = at[f].bold
      BY <1>1, <1>2, <1>4, <2>2
    <3> HIDE DEF Unread
    <3> QED BY <3>2, <3>3
  <2> QED BY <2>1, <2>2
<1>7. \A t \in Threads : Unread(t)' = Unread(t)
  BY <1>1, <1>3 DEF Unread
<1> HIDE DEF Unread
<1>8. Computed'
  BY <1>1, <1>6, <1>7 DEF Computed
<1> QED BY <1>5, <1>8 DEF FlagInv

LEMMA FlagsRecompute ==
  ASSUME TypeOK, FlagInv, NEW h \in Handlers, Recompute(h)
  PROVE  FlagInv'
<1> DEFINE g == [at[h] EXCEPT !.pc = "spawn"]
<1>1. /\ at' = [at EXCEPT ![h] = g] /\ UNCHANGED <<row, stale>> /\ at[h].pc = "flag"
      /\ flag' = [flag EXCEPT ![at[h].thread] = IF @ = "none" THEN @ ELSE IF at[h].bold THEN "bold" ELSE "plain"]
  BY DEF Recompute, TypeOK
<1>2. g.pc = "spawn" /\ g.m = at[h].m /\ g.thread = at[h].thread
  BY DEF TypeOK, HandlerKind
<1> HIDE DEF g
<1>3. There' = There
  BY <1>1 DEF There
<1>4. \A f \in Handlers : at'[f] = IF f = h THEN g ELSE at[f]
  BY <1>1 DEF TypeOK
<1>5. Requests'
  BY <1>1, <1>2, <1>3, RequestsMove DEF FlagInv, Requests
<1>6. ASSUME NEW t \in Threads \ stale, flag'[t] # "none"
      PROVE  /\ \A f \in Handlers : at'[f].pc = "flag" /\ at'[f].thread = t => at'[f].bold = Unread(t)
             /\ (\A f \in Handlers : ~(at'[f].pc = "flag" /\ at'[f].thread = t)) => (flag'[t] = "bold") = Unread(t)
  <2>1. flag[t] # "none"
    BY <1>1, <1>6 DEF TypeOK
  <2>2. /\ \A f \in Handlers : at[f].pc = "flag" /\ at[f].thread = t => at[f].bold = Unread(t)
        /\ (\A f \in Handlers : ~(at[f].pc = "flag" /\ at[f].thread = t)) => (flag[t] = "bold") = Unread(t)
    <3> HIDE DEF Unread
    <3> QED BY <1>6, <2>1 DEF FlagInv, Computed
  <2>3. \A f \in Handlers : at'[f].pc = "flag" /\ at'[f].thread = t => at[f].pc = "flag" /\ at[f].thread = t /\ at'[f] = at[f]
    BY <1>2, <1>4
  <2>4. CASE at[h].thread = t
    <3>1. at[h].bold = Unread(t) /\ at[h].bold \in BOOLEAN
      <4> HIDE DEF Unread
      <4> QED BY <1>1, <2>2, <2>4, HandlerFacts
    <3>2. flag'[t] = IF at[h].bold THEN "bold" ELSE "plain"
      BY <1>1, <2>1, <2>4 DEF TypeOK
    <3> HIDE DEF Unread
    <3>3. (flag'[t] = "bold") = at[h].bold
      BY <3>1, <3>2
    <3> QED BY <2>2, <2>3, <3>1, <3>3
  <2>5. CASE at[h].thread # t
    <3>1. flag'[t] = flag[t]
      BY <1>1, <2>5 DEF TypeOK
    <3>2. \A f \in Handlers : at[f].pc = "flag" /\ at[f].thread = t => at'[f] = at[f]
      BY <1>4, <2>5
    <3> HIDE DEF Unread
    <3> QED BY <2>2, <2>3, <3>1, <3>2
  <2> QED BY <2>4, <2>5
<1>7. \A t \in Threads : Unread(t)' = Unread(t)
  BY <1>1, <1>3 DEF Unread
<1> HIDE DEF Unread
<1>8. Computed'
  BY <1>1, <1>6, <1>7 DEF Computed
<1> QED BY <1>5, <1>8 DEF FlagInv

LEMMA FlagsHandler ==
  ASSUME TypeOK, FlagInv, NEW h \in scene.handlers,
         \/ \E m \in There : OpenSelect(h, m) \/ \E read \in BOOLEAN : MarkSelect(h, m, read)
         \/ MarkUpdate(h) \/ Exists(h) \/ Recompute(h) \/ Spawn(h) \/ Cut(h) \/ OpenMark(h)
  PROVE  FlagInv'
<1>0. h \in Handlers /\ at[h] \in HandlerKind
  BY SceneFacts DEF TypeOK
<1>1. at[h].pc # "idle" => /\ at[h].m \in Msgs /\ row[at[h].m] # None
                           /\ at[h].m \in There => at[h].thread = row[at[h].m].thread
  BY <1>0 DEF FlagInv, Requests
<1>2. ASSUME NEW m \in There, OpenSelect(h, m)
      PROVE  FlagInv'
  <2> DEFINE g == [Idle EXCEPT !.pc = "open", !.m = m, !.thread = row[m].thread]
  <2>1. g.pc = "open" /\ g.m = m /\ g.thread = row[m].thread
    BY DEF Idle
  <2>2. at' = [at EXCEPT ![h] = g] /\ UNCHANGED <<row, flag, stale>> /\ at[h].pc = "idle"
    BY <1>2 DEF OpenSelect
  <2>3. m \in Msgs /\ row[m] # None
    BY RowFacts, NotThere
  <2> HIDE DEF g
  <2> QED BY <1>0, <2>1, <2>2, <2>3, FlagsGo
<1>3. ASSUME NEW m \in There, NEW read \in BOOLEAN, MarkSelect(h, m, read)
      PROVE  FlagInv'
  <2> DEFINE g == [Idle EXCEPT !.pc = "update", !.m = m, !.read = read, !.thread = row[m].thread,
                               !.file = row[m].file]
  <2>1. g.pc = "update" /\ g.m = m /\ g.thread = row[m].thread
    BY DEF Idle
  <2>2. at' = [at EXCEPT ![h] = g] /\ UNCHANGED <<row, flag, stale>> /\ at[h].pc = "idle"
    BY <1>3 DEF MarkSelect
  <2>3. m \in Msgs /\ row[m] # None
    BY RowFacts, NotThere
  <2> HIDE DEF g
  <2> QED BY <1>0, <2>1, <2>2, <2>3, FlagsGo
<1>4. CASE MarkUpdate(h)
  <2> DEFINE m == at[h].m
             g == [at[h] EXCEPT !.pc = IF at[h].thread = None THEN "spawn" ELSE "exists"]
  <2>1. /\ g.pc \in {"spawn", "exists"} /\ g.m = m /\ g.thread = at[h].thread
    BY <1>0 DEF HandlerKind
  <2>2. /\ at' = [at EXCEPT ![h] = g] /\ UNCHANGED flag /\ at[h].pc = "update"
        /\ stale' = stale \cup ({at[h].thread} \ {None}) /\ m \in Msgs
    BY <1>0, <1>1, <1>4 DEF MarkUpdate, TypeOK
  <2> HIDE DEF g
  <2>3. CASE m \in There
    <3>1. row' = [row EXCEPT ![m] = [row[m] EXCEPT !.read = at[h].read]]
      BY <1>4, <2>3 DEF MarkUpdate
    <3> QED BY <1>0, <2>1, <2>2, <2>3, <3>1, HandlerFacts, FlagsMark
  <2>4. CASE m \notin There
    <3>1. row' = row
      BY <1>4, <2>2, <2>4 DEF MarkUpdate, TypeOK
    <3> QED BY <1>0, <1>1, <2>1, <2>2, <2>4, <3>1, FlagsGo
  <2> QED BY <2>3, <2>4
<1>5. CASE Spawn(h) \/ Cut(h)
  <2>1. at' = [at EXCEPT ![h] = Idle] /\ UNCHANGED <<row, flag>>
    BY <1>5 DEF Spawn, Cut
  <2>2. /\ stale \subseteq stale'
        /\ at[h].pc = "flag" => at[h].thread \notin Threads \ stale'
    BY <1>5, StoreAssumption DEF Spawn, Cut
  <2> QED BY <1>0, <2>1, <2>2, IdleType, FlagsGo
<1>6. CASE OpenMark(h)
  <2> DEFINE m == at[h].m
  <2>1. at' = [at EXCEPT ![h] = Idle] /\ UNCHANGED flag /\ at[h].pc = "open"
    BY <1>6 DEF OpenMark
  <2>2. CASE m \in There /\ ~row[m].read
    <3>1. /\ row' = [row EXCEPT ![m] = [row[m] EXCEPT !.read = TRUE]]
          /\ stale' = stale \cup ({at[h].thread} \ {None})
      BY <1>6, <2>2 DEF OpenMark
    <3> QED BY <1>0, <2>1, <2>2, <3>1, IdleType, FlagsMark
  <2>3. CASE m \notin There \/ row[m].read
    <3>1. UNCHANGED <<row, stale>>
      BY <1>6, <2>3 DEF OpenMark
    <3> QED BY <1>0, <2>1, <3>1, IdleType, FlagsGo
  <2> QED BY <2>2, <2>3
<1> QED BY <1>0, <1>2, <1>3, <1>4, <1>5, <1>6, FlagsExists, FlagsRecompute

LEMMA FlagsStep == Inv /\ [Next]_vars => FlagInv'
<1> SUFFICES ASSUME Inv, [Next]_vars PROVE FlagInv'
  OBVIOUS
<1>0. TypeOK /\ FlagInv /\ AtFile
  BY DEF Inv, Types, ImportInv
<1>1. CASE Tick \/ UNCHANGED vars
  BY <1>0, <1>1, FlagsQuiet DEF Tick, vars
<1> QED BY <1>0, <1>1, FlagsNew, FlagsTask, FlagsHandler, FlagsEdit, FlagsImport DEF Next

-----------------------------------------------------------------------------
(* Files.                                                                  *)

LEMMA MirrorInit == Init => MirrorInv
BY DEF Init, MirrorInv, Fresh, There

\* A step that has nothing to do with a message, its file and what is about it.
Untouched(n) ==
  /\ row'[n].file = row[n].file /\ row'[n].read = row[n].read /\ disk'[n] = disk[n]
  /\ {k \in task' : k.m = n} = {k \in task : k.m = n}
  /\ \A h \in Handlers : at'[h] = at[h] \/ (at[h].m # n /\ at'[h].m # n)

LEMMA UntouchedKeeps ==
  ASSUME NEW n, Alone(n), Mirrored(n), Untouched(n)
  PROVE  Alone(n)' /\ Mirrored(n)'
<1>1. \A k : k \in task' /\ k.m = n <=> k \in task /\ k.m = n
  BY DEF Untouched
<1>2. \A h \in Handlers : /\ at'[h].m = n <=> at[h].m = n
                          /\ at'[h].m = n => at'[h] = at[h]
  BY DEF Untouched
<1>3. Alone(n)'
  BY <1>1, <1>2 DEF Alone
<1>4. Settled(n)' <=> Settled(n)
  BY DEF Untouched, Settled
<1>5. (\A k \in task : k.m # n) <=> (\A k \in task' : k.m # n)
  BY <1>1
<1>6. (\A h \in Handlers : at'[h].m = n => at'[h].pc \notin Marking)
        => (\A h \in Handlers : at[h].m = n => at[h].pc \notin Marking)
  BY <1>2
<1>7. \A h \in Handlers : at'[h].m = n /\ at'[h].pc \in Marking =>
        /\ at'[h].file = row'[n].file
        /\ at'[h].file # "none" => disk'[n] = at'[h].file
        /\ at'[h].pc # "update" => row'[n].read = at'[h].read
  BY <1>2 DEF Untouched, Mirrored
<1>8. \A k \in task' : k.m = n =>
        /\ k.to = Place(row'[n].read)
        /\ k.pc = "record" => disk'[n] = k.to
        /\ k.pc = "file" /\ k.from # "none" => disk'[n] = k.from /\ row'[n].file = k.from
  BY <1>1 DEF Untouched, Mirrored
<1>9. Mirrored(n)'
  BY <1>4, <1>5, <1>6, <1>7, <1>8 DEF Mirrored
<1> QED BY <1>3, <1>9

LEMMA MirrorKeeps ==
  ASSUME MirrorInv, Fresh',
         \A n \in There' \ apart' : (n \in There \ apart /\ Untouched(n)) \/ (Alone(n)' /\ Mirrored(n)')
  PROVE  MirrorInv'
<1>1. ASSUME NEW n \in There' \ apart'
      PROVE  Alone(n)' /\ Mirrored(n)'
  <2>1. CASE n \in There \ apart /\ Untouched(n)
    <3>1. Alone(n) /\ Mirrored(n)
      BY <2>1 DEF MirrorInv
    <3> QED BY <2>1, <3>1, UntouchedKeeps
  <2> QED BY <2>1
<1> HIDE DEF Alone, Mirrored
<1> QED BY <1>1 DEF MirrorInv

\* The messages there are, and are not.
LEMMA ThereOne ==
  ASSUME TypeOK, NEW m \in Msgs, NEW r \in RowKind \cup {Gone}, row' = [row EXCEPT ![m] = r]
  PROVE  /\ \A n \in Msgs \ {m} : row'[n] = row[n] /\ (n \in There' <=> n \in There)
         /\ row'[m] = r /\ (m \in There' <=> r \in RowKind) /\ There' \subseteq Msgs
<1>1. row'[m] = r /\ \A n \in Msgs \ {m} : row'[n] = row[n]
  BY DEF TypeOK
<1> QED BY <1>1, NotThere DEF There

\* One message changes, as little as that its file does not follow, or is deleted.
LEMMA MirrorOne ==
  ASSUME TypeOK, MirrorInv, UNCHANGED <<disk, task, at, apart>>, NEW m \in There, NEW r \in RowKind \cup {Gone},
         row' = [row EXCEPT ![m] = r], r \in RowKind => r.file = row[m].file /\ r.read = row[m].read
  PROVE  MirrorInv'
<1>1. m \in Msgs /\ row[m] # None
  BY RowFacts, NotThere
<1>2. /\ \A n \in Msgs \ {m} : row'[n] = row[n] /\ (n \in There' <=> n \in There)
      /\ row'[m] = r /\ (m \in There' <=> r \in RowKind) /\ There' \subseteq Msgs
  BY <1>1, ThereOne
<1>3. Fresh'
  BY <1>1, <1>2, NotThere DEF MirrorInv, Fresh
<1>4. ASSUME NEW n \in There' \ apart' PROVE n \in There \ apart /\ Untouched(n)
  <2>1. n \in Msgs
    BY <1>2
  <2>2. CASE n = m
    BY <1>2, <2>2 DEF Untouched
  <2>3. CASE n # m
    BY <1>2, <2>1, <2>3 DEF Untouched
  <2> QED BY <2>2, <2>3
<1> QED BY <1>3, <1>4, MirrorKeeps

LEMMA MirrorQuiet ==
  ASSUME MirrorInv, UNCHANGED <<row, disk, task, at>>, apart \subseteq apart'
  PROVE  MirrorInv'
<1>1. There' = There
  BY DEF There
<1>2. Fresh'
  BY DEF MirrorInv, Fresh
<1>3. \A n \in There' \ apart' : n \in There \ apart /\ Untouched(n)
  BY <1>1 DEF Untouched
<1> QED BY <1>2, <1>3, MirrorKeeps

\* A message comes, and perhaps the task that stores its file.
LEMMA MirrorPut ==
  ASSUME TypeOK, Requests, MirrorInv, UNCHANGED <<disk, at, apart>>, NEW m \in Msgs, row[m] = None,
         NEW r \in RowKind, row' = [row EXCEPT ![m] = r], r.file = "none",
         NEW k, k.m = m, k.from = "none", k.to = Place(r.read), k.pc = "file",
         task' = task \/ task' = task \cup {k}
  PROVE  MirrorInv'
<1>1. /\ \A n \in Msgs \ {m} : row'[n] = row[n] /\ (n \in There' <=> n \in There)
      /\ row'[m] = r /\ There' \subseteq Msgs
  BY ThereOne
<1>2. \A l \in task : l.m # m
  BY DEF MirrorInv, Fresh
<1>3. \A h \in Handlers : at[h].m # m
  BY StoreAssumption DEF Requests
<1>4. Fresh'
  BY <1>1, NotThere DEF MirrorInv, Fresh
<1>5. Alone(m)'
  BY <1>2, <1>3 DEF Alone
<1>6. Mirrored(m)'
  <2>1. Settled(m)'
    BY <1>1 DEF Settled
  <2>2. \A l \in task' : l.m = m => l = k
    BY <1>2
  <2> QED BY <1>1, <1>3, <2>1, <2>2 DEF Mirrored
<1>7. ASSUME NEW n \in There' \ apart', n # m PROVE n \in There \ apart /\ Untouched(n)
  BY <1>1, <1>7 DEF Untouched
<1> HIDE DEF Alone, Mirrored
<1> QED BY <1>4, <1>5, <1>6, <1>7, MirrorKeeps

LEMMA MirrorNew ==
  ASSUME TypeOK, Requests, MirrorInv, UNCHANGED <<disk, at, apart>>, NEW m \in Msgs, row[m] = None,
         NEW r \in RowKind, row' = [row EXCEPT ![m] = r], r.file = "none",
         NEW by, Mirror(m, r.read, by) \/ UNCHANGED task
  PROVE  MirrorInv'
<1> DEFINE k == [id |-> begun, m |-> m, from |-> "none", to |-> Place(r.read), by |-> by, pc |-> "file"]
<1>1. task' = task \/ task' = task \cup {k}
  BY DEF Mirror, Begin
<1>2. k.m = m /\ k.from = "none" /\ k.to = Place(r.read) /\ k.pc = "file"
  OBVIOUS
<1> HIDE DEF k
<1> QED BY <1>1, <1>2, MirrorPut

LEMMA MirrorArrive ==
  ASSUME Types, Requests, MirrorInv, NEW m \in NextId, NEW b \in scene.boxes,
         \/ \E s \in Subjects, folder \in {"Inbox", "Projects"}, mid \in {""} \cup {f.mid : f \in scene.files} :
              Arrive(m, b, s, mid, folder)
         \/ \E t \in Threads \cup {None} : FileSent(m, b, t) \/ CopyLocal(m, b, t) \/ DraftCreate(m, b, t)
  PROVE  MirrorInv'
<1>0. TypeOK /\ m \in Msgs /\ row[m] = None /\ b \in Boxes
  BY SceneFacts DEF Types, NextId, Unborn
<1>1. ASSUME NEW s \in Subjects, NEW folder \in {"Inbox", "Projects"},
             NEW mid \in {""} \cup {f.mid : f \in scene.files}, Arrive(m, b, s, mid, folder)
      PROVE  MirrorInv'
  <2>1. mid \in {"m", "n", ""} /\ <<b, s>> \in Threads
    BY <1>0, SceneFacts, FileFacts DEF Threads
  <2> DEFINE r == [Row(b, <<b, s>>, folder, FALSE, "inbound") EXCEPT !.mid = mid]
  <2>2. r \in RowKind /\ r.file = "none" /\ r.read = FALSE
    <3>1. Row(b, <<b, s>>, folder, FALSE, "inbound") \in RowKind
      BY <1>0, <2>1, RowType DEF Folders
    <3> QED BY <2>1, <3>1 DEF RowKind, Row
  <2>3. row' = [row EXCEPT ![m] = r] /\ UNCHANGED <<disk, at, apart>> /\ Mirror(m, FALSE, None)
    BY <1>1 DEF Arrive, Put
  <2> HIDE DEF r
  <2> QED BY <1>0, <2>2, <2>3, MirrorNew
<1>2. ASSUME NEW t \in Threads \cup {None}, FileSent(m, b, t)
      PROVE  MirrorInv'
  <2> DEFINE r == Row(b, t, "Sent", TRUE, "sent")
  <2>1. r \in RowKind /\ r.file = "none" /\ r.read = TRUE
    BY <1>0, RowType DEF Row, Folders
  <2>2. row' = [row EXCEPT ![m] = r] /\ UNCHANGED <<disk, at, apart>> /\ Mirror(m, TRUE, None)
    BY <1>2 DEF FileSent
  <2> HIDE DEF r
  <2> QED BY <1>0, <2>1, <2>2, MirrorNew
<1>3. ASSUME NEW t \in Threads \cup {None}, CopyLocal(m, b, t)
      PROVE  MirrorInv'
  <2> DEFINE r == Row(b, t, "Inbox", FALSE, "copy")
  <2>1. r \in RowKind /\ r.file = "none"
    BY <1>0, RowType DEF Row, Folders
  <2>2. row' = [row EXCEPT ![m] = r] /\ UNCHANGED <<disk, at, apart, task>>
    BY <1>3 DEF CopyLocal
  <2> HIDE DEF r
  <2> QED BY <1>0, <2>1, <2>2, MirrorNew
<1>4. ASSUME NEW t \in Threads \cup {None}, DraftCreate(m, b, t)
      PROVE  MirrorInv'
  <2> DEFINE r == Row(b, t, "Drafts", FALSE, "draft")
  <2>1. r \in RowKind /\ r.file = "none"
    BY <1>0, RowType DEF Row, Folders
  <2>2. row' = [row EXCEPT ![m] = r] /\ UNCHANGED <<disk, at, apart, task>>
    BY <1>4 DEF DraftCreate
  <2> HIDE DEF r
  <2> QED BY <1>0, <2>1, <2>2, MirrorNew
<1> QED BY <1>1, <1>2, <1>3, <1>4

\* A task does something about its message, of which nothing else is on its way.
LEMMA MirrorWork ==
  ASSUME TypeOK, MirrorInv, NEW k \in task, UNCHANGED at, apart \subseteq apart',
         NEW l, l.m = k.m, task' = task \ {k} \/ task' = (task \ {k}) \cup {l},
         \A n \in Msgs \ {k.m} : row'[n] = row[n] /\ disk'[n] = disk[n],
         row'[k.m] = None => row[k.m] = None,
         k.m \in There' => k.m \in There,
         k.m \in There' \ apart' => Mirrored(k.m)'
  PROVE  MirrorInv'
<1>1. k.m \in Msgs
  BY DEF TypeOK, TaskKind
<1>2. row[k.m] # None
  BY <1>1 DEF MirrorInv, Fresh
<1>3. \A n \in Msgs \ {k.m} : n \in There' <=> n \in There
  BY DEF There
<1>4. \A n \in Msgs \ {k.m} : {j \in task' : j.m = n} = {j \in task : j.m = n}
  OBVIOUS
<1>5. Fresh'
  BY <1>1, <1>2, <1>4 DEF MirrorInv, Fresh
<1>6. ASSUME k.m \in There' \ apart'
      PROVE  Alone(k.m)'
  <2>1. Alone(k.m)
    BY <1>6 DEF MirrorInv
  <2>2. PICK m \in Msgs : m = k.m
    BY <1>1
  <2>3. \A j \in task' : j.m = m => j = l
    BY <2>1, <2>2 DEF Alone
  <2>4. Alone(m)
    BY <2>1, <2>2
  <2>5. Alone(m)'
    BY <2>2, <2>3, <2>4 DEF Alone
  <2> QED BY <2>2, <2>5
<1>7. ASSUME NEW n \in There' \ apart', n # k.m PROVE n \in There \ apart /\ Untouched(n)
  <2>1. n \in Msgs
    BY DEF There
  <2> QED BY <1>3, <1>4, <1>7, <2>1 DEF Untouched
<1> HIDE DEF Alone, Mirrored
<1> QED BY <1>5, <1>6, <1>7, MirrorKeeps

LEMMA MirrorTask ==
  ASSUME TypeOK, MirrorInv, NEW k \in task, DeliverRaw(k) \/ SetSeen(k) \/ RecordMaildirFile(k) \/ LoseTask(k)
  PROVE  MirrorInv'
<1> DEFINE l == [k EXCEPT !.pc = "record"]
<1>0. k \in TaskKind
  BY DEF TypeOK
<1>1. PICK m \in Msgs : m = k.m
  BY <1>0 DEF TaskKind
<1>2. k.to \in {"new", "cur"} /\ l.m = m /\ l.to = k.to /\ l.pc = "record"
  BY <1>0, <1>1 DEF TaskKind
<1>3. ASSUME m \in There \ apart
      PROVE  /\ k.to = Place(row[m].read)
             /\ k.pc = "file" /\ k.from # "none" => disk[m] = k.from /\ row[m].file = k.from
             /\ k.pc = "record" => disk[m] = k.to
             /\ \A j \in task : j.m = m => j = k
             /\ \A h \in Handlers : at[h].m # m
  BY <1>1, <1>3 DEF MirrorInv, Alone, Mirrored
<1> HIDE DEF l
<1>4. CASE DeliverRaw(k)
  <2>1. /\ task' = (task \ {k}) \cup {l} /\ disk' = [disk EXCEPT ![m] = k.to] /\ UNCHANGED <<row, at, apart>>
    BY <1>1, <1>4 DEF DeliverRaw, l
  <2>2. There' = There
    BY <2>1 DEF There
  <2>3. disk'[m] = k.to /\ \A n \in Msgs \ {m} : disk'[n] = disk[n]
    BY <2>1 DEF TypeOK
  <2>4. ASSUME m \in There' \ apart'
        PROVE  Mirrored(m)'
    <3>1. \A j \in task' : j.m = m => j = l
      BY <1>3, <2>1, <2>2, <2>4
    <3>2. l \in task'
      BY <2>1
    <3> QED BY <1>2, <1>3, <2>1, <2>2, <2>3, <2>4, <3>1, <3>2 DEF Mirrored
  <2> HIDE DEF Mirrored
  <2> QED BY <1>1, <1>2, <2>1, <2>2, <2>3, <2>4, MirrorWork
<1>5. CASE SetSeen(k) /\ k.from # k.to /\ disk[m] = k.from
  <2>1. /\ task' = (task \ {k}) \cup {l} /\ disk' = [disk EXCEPT ![m] = k.to] /\ UNCHANGED <<row, at, apart>>
    BY <1>1, <1>5 DEF SetSeen, l
  <2>2. There' = There
    BY <2>1 DEF There
  <2>3. disk'[m] = k.to /\ \A n \in Msgs \ {m} : disk'[n] = disk[n]
    BY <2>1 DEF TypeOK
  <2>4. ASSUME m \in There' \ apart'
        PROVE  Mirrored(m)'
    <3>1. \A j \in task' : j.m = m => j = l
      BY <1>3, <2>1, <2>2, <2>4
    <3>2. l \in task'
      BY <2>1
    <3> QED BY <1>2, <1>3, <2>1, <2>2, <2>3, <2>4, <3>1, <3>2 DEF Mirrored
  <2> HIDE DEF Mirrored
  <2> QED BY <1>1, <1>2, <2>1, <2>2, <2>3, <2>4, MirrorWork
<1>6. CASE SetSeen(k) /\ ~(k.from # k.to /\ disk[m] = k.from)
  <2>1. task' = task \ {k} /\ UNCHANGED <<row, disk, at, apart>> /\ k.pc = "file" /\ k.from # "none"
    BY <1>1, <1>6 DEF SetSeen
  <2>2. There' = There
    BY <2>1 DEF There
  <2>3. ASSUME m \in There' \ apart'
        PROVE  Mirrored(m)'
    <3>1. \A j \in task' : j.m # m
      BY <1>3, <2>1, <2>2, <2>3
    <3>2. k.from = k.to /\ Settled(m)'
      BY <1>3, <1>6, <2>1, <2>2, <2>3 DEF Settled
    <3> QED BY <1>3, <2>1, <2>2, <2>3, <3>1, <3>2 DEF Mirrored
  <2> HIDE DEF Mirrored
  <2> QED BY <1>1, <1>2, <2>1, <2>2, <2>3, MirrorWork
<1>7. CASE RecordMaildirFile(k)
  <2>1. /\ task' = task \ {k} /\ UNCHANGED <<disk, at, apart>> /\ k.pc = "record"
        /\ row' = [row EXCEPT ![m] = IF m \in There THEN [@ EXCEPT !.file = k.to] ELSE @]
    BY <1>1, <1>7 DEF RecordMaildirFile
  <2>2. \A n \in Msgs : row'[n] = IF n = m /\ m \in There THEN [row[n] EXCEPT !.file = k.to] ELSE row[n]
    BY <2>1 DEF TypeOK
  <2>3. ASSUME m \in There PROVE /\ row'[m].file = k.to /\ row'[m].read = row[m].read /\ row'[m] # None
    <3>1. row[m] \in RowKind
      BY <2>3, RowFacts
    <3>2. [row[m] EXCEPT !.file = k.to] \in RowKind
      BY <1>2, <3>1 DEF RowKind
    <3> QED BY <2>2, <2>3, <3>1, <3>2, NotThere DEF RowKind
  <2>4. m \in There' => m \in There
    BY <2>2 DEF There
  <2>5. ASSUME m \in There' \ apart'
        PROVE  Mirrored(m)'
    <3>1. \A j \in task' : j.m # m
      BY <1>3, <2>1, <2>4, <2>5
    <3>2. Settled(m)'
      BY <1>3, <2>1, <2>3, <2>4, <2>5 DEF Settled
    <3> QED BY <1>3, <2>1, <2>4, <2>5, <3>1, <3>2 DEF Mirrored
  <2>6. row'[m] = None => row[m] = None
    BY <2>2, <2>3 DEF There
  <2>7. \A n \in Msgs \ {m} : row'[n] = row[n] /\ disk'[n] = disk[n]
    BY <2>1, <2>2
  <2> HIDE DEF Mirrored, There
  <2> QED BY <1>1, <1>2, <2>1, <2>4, <2>5, <2>6, <2>7, MirrorWork
<1>8. CASE LoseTask(k)
  <2>1. task' = task \ {k} /\ UNCHANGED <<row, disk, at>> /\ apart' = apart \cup {m}
    BY <1>1, <1>8 DEF LoseTask
  <2>2. There' = There
    BY <2>1 DEF There
  <2> QED BY <1>1, <1>2, <2>1, <2>2, MirrorWork
<1> QED BY <1>4, <1>5, <1>6, <1>7, <1>8

\* A request does something about its message.
LEMMA MirrorMove ==
  ASSUME TypeOK, MirrorInv, NEW h \in Handlers, NEW g, at' = [at EXCEPT ![h] = g],
         NEW m \in Msgs, row[m] # None, at[h].m \in {m, None}, g.m \in {m, None}, disk' = disk,
         \A n \in Msgs \ {m} : row'[n] = row[n] /\ {k \in task' : k.m = n} = {k \in task : k.m = n},
         apart \ {m} \subseteq apart', row'[m] # None,
         m \in There' \ apart' => Alone(m)' /\ Mirrored(m)'
  PROVE  MirrorInv'
<1>1. \A n \in Msgs \ {m} : n \in There' <=> n \in There
  BY DEF There
<1>2. \A f \in Handlers : at'[f] = IF f = h THEN g ELSE at[f]
  BY DEF TypeOK
<1>3. Fresh'
  BY DEF MirrorInv, Fresh
<1>4. ASSUME NEW n \in There' \ apart', n # m PROVE n \in There \ apart /\ Untouched(n)
  <2>1. n \in Msgs /\ n # None
    BY StoreAssumption DEF There
  <2> QED BY <1>1, <1>2, <1>4, <2>1 DEF Untouched
<1> HIDE DEF Alone, Mirrored
<1> QED BY <1>3, <1>4, MirrorKeeps

\* What is known of the message of a request, while its file follows.
LEMMA MirrorAt ==
  ASSUME MirrorInv, NEW h \in Handlers, at[h].m \in There \ apart
  PROVE  /\ \A k \in task : k.m # at[h].m
         /\ \A f \in Handlers : at[f].m = at[h].m => f = h
         /\ at[h].pc \in Marking =>
              /\ at[h].file = row[at[h].m].file
              /\ at[h].file # "none" => disk[at[h].m] = at[h].file
              /\ at[h].pc # "update" => row[at[h].m].read = at[h].read
         /\ at[h].pc \notin Marking => Settled(at[h].m)
<1>1. PICK m \in There \ apart : m = at[h].m
  OBVIOUS
<1>2. Alone(m) /\ Mirrored(m)
  BY DEF MirrorInv
<1>3. (\A k \in task : k.m # m) /\ (\A f \in Handlers : at[f].m = m => f = h)
  BY <1>1, <1>2 DEF Alone
<1>4. /\ at[h].pc \in Marking => /\ at[h].file = row[m].file
                                 /\ at[h].file # "none" => disk[m] = at[h].file
                                 /\ at[h].pc # "update" => row[m].read = at[h].read
      /\ at[h].pc \notin Marking => Settled(m)
  <2> HIDE DEF Settled, Marking
  <2> QED BY <1>1, <1>2, <1>3 DEF Mirrored
<1> QED BY <1>1, <1>3, <1>4

\* A request goes on, marked or not, to where the file is still to follow.
LEMMA MirrorGoOn ==
  ASSUME NEW h \in Handlers, NEW m, \A k \in task' : k.m # m, \A f \in Handlers : at'[f].m = m => f = h,
         at'[h].pc \in Marking => /\ at'[h].file = row'[m].file
                                  /\ at'[h].file # "none" => disk'[m] = at'[h].file
                                  /\ at'[h].pc # "update" => row'[m].read = at'[h].read,
         at'[h].m # m \/ at'[h].pc \notin Marking => Settled(m)'
  PROVE  Alone(m)' /\ Mirrored(m)'
<1>1. Alone(m)'
  BY DEF Alone
<1>2. Mirrored(m)'
  <2> HIDE DEF Settled, Marking
  <2> QED BY DEF Mirrored
<1> QED BY <1>1, <1>2

LEMMA MirrorHandler ==
  ASSUME TypeOK, Requests, MirrorInv, NEW h \in scene.handlers,
         \/ \E m \in There : OpenSelect(h, m) \/ \E read \in BOOLEAN : MarkSelect(h, m, read)
         \/ MarkUpdate(h) \/ Exists(h) \/ Recompute(h) \/ Spawn(h) \/ Cut(h) \/ OpenMark(h)
  PROVE  MirrorInv'
<1>0. h \in Handlers /\ at[h] \in HandlerKind
  BY SceneFacts DEF TypeOK
<1>1. IF at[h].pc = "idle" THEN at[h].m = None ELSE at[h].m \in Msgs /\ row[at[h].m] # None
  BY <1>0 DEF Requests
<1>2. ASSUME NEW m \in There, OpenSelect(h, m)
      PROVE  MirrorInv'
  <2> DEFINE g == [Idle EXCEPT !.pc = "open", !.m = m, !.thread = row[m].thread]
  <2>1. g.pc = "open" /\ g.m = m
    BY DEF Idle
  <2>2. /\ at' = [at EXCEPT ![h] = g] /\ UNCHANGED <<row, disk, task>> /\ at[h].pc = "idle"
        /\ apart' = IF Busy(m) THEN apart \cup {m} ELSE apart
    BY <1>2 DEF OpenSelect
  <2>3. m \in Msgs /\ row[m] # None
    BY RowFacts, NotThere
  <2> HIDE DEF g
  <2>4. \A f \in Handlers : at'[f] = IF f = h THEN g ELSE at[f]
    BY <2>2 DEF TypeOK
  <2>5. ASSUME m \in There' \ apart' PROVE Alone(m)' /\ Mirrored(m)'
    <3>1. m \notin apart /\ (\A k \in task : k.m # m) /\ (\A f \in Handlers : at[f].m # m)
      BY <2>2, <2>5 DEF Busy
    <3>2. Settled(m)
      BY <3>1 DEF MirrorInv, Mirrored
    <3>3. Settled(m)'
      BY <2>2, <3>2 DEF Settled
    <3>4. at'[h].pc \notin Marking
      BY <1>0, <2>1, <2>4 DEF Marking
    <3> QED BY <1>0, <2>2, <2>4, <3>1, <3>3, <3>4, MirrorGoOn
  <2> HIDE DEF Alone, Mirrored
  <2> QED BY <1>0, <1>1, <2>1, <2>2, <2>3, <2>5, MirrorMove
<1>3. ASSUME NEW m \in There, NEW read \in BOOLEAN, MarkSelect(h, m, read)
      PROVE  MirrorInv'
  <2> DEFINE g == [Idle EXCEPT !.pc = "update", !.m = m, !.read = read, !.thread = row[m].thread,
                               !.file = row[m].file]
  <2>1. g.pc = "update" /\ g.m = m /\ g.file = row[m].file
    BY DEF Idle
  <2>2. /\ at' = [at EXCEPT ![h] = g] /\ UNCHANGED <<row, disk, task>> /\ at[h].pc = "idle"
        /\ apart' = IF Busy(m) THEN apart \cup {m}
                    ELSE IF row[m].file = disk[m] THEN apart \ {m} ELSE apart
    BY <1>3 DEF MarkSelect
  <2>3. m \in Msgs /\ row[m] # None
    BY RowFacts, NotThere
  <2> HIDE DEF g
  <2>4. \A f \in Handlers : at'[f] = IF f = h THEN g ELSE at[f]
    BY <2>2 DEF TypeOK
  <2>5. ASSUME m \in There' \ apart' PROVE Alone(m)' /\ Mirrored(m)'
    <3>1. ~Busy(m) /\ (row[m].file = disk[m] \/ m \notin apart)
      BY <2>2, <2>5
    <3>2. (\A k \in task : k.m # m) /\ (\A f \in Handlers : at[f].m # m)
      BY <3>1 DEF Busy
    <3>3. row[m].file # "none" => disk[m] = row[m].file
      BY <3>1, <3>2 DEF MirrorInv, Mirrored, Settled
    <3>4. at'[h] = g /\ g.pc \in Marking
      BY <1>0, <2>1, <2>4 DEF Marking
    <3> HIDE DEF Marking
    <3> QED BY <1>0, <2>1, <2>2, <2>4, <3>2, <3>3, <3>4, MirrorGoOn
  <2>6. apart \ {m} \subseteq apart'
    BY <2>2
  <2> HIDE DEF Alone, Mirrored
  <2> QED BY <1>0, <1>1, <2>1, <2>2, <2>3, <2>5, <2>6, MirrorMove
<1>4. CASE MarkUpdate(h)
  <2> DEFINE g == [at[h] EXCEPT !.pc = IF at[h].thread = None THEN "spawn" ELSE "exists"]
  <2>0. PICK m \in Msgs : m = at[h].m /\ row[m] # None
    BY <1>1, <1>4 DEF MarkUpdate
  <2>1. g.pc \in {"spawn", "exists"} /\ g.m = m /\ g.file = at[h].file /\ g.read = at[h].read
    BY <1>0, <2>0 DEF HandlerKind
  <2>2. /\ at' = [at EXCEPT ![h] = g] /\ UNCHANGED <<disk, task, apart>> /\ at[h].pc = "update"
        /\ row' = [row EXCEPT ![m] = IF m \in There THEN [@ EXCEPT !.read = at[h].read] ELSE @]
    BY <1>0, <1>4, <2>0 DEF MarkUpdate, TypeOK
  <2> HIDE DEF g
  <2>3. \A f \in Handlers : at'[f] = IF f = h THEN g ELSE at[f]
    BY <2>2 DEF TypeOK
  <2>4. \A n \in Msgs : row'[n] = IF n = m /\ m \in There THEN [row[n] EXCEPT !.read = at[h].read] ELSE row[n]
    BY <2>2 DEF TypeOK
  <2>5. ASSUME m \in There PROVE row'[m].read = at[h].read /\ row'[m].file = row[m].file /\ row'[m] # None
    <3>1. row[m] \in RowKind /\ at[h].read \in BOOLEAN
      BY <1>0, <2>5, RowFacts, HandlerFacts
    <3>2. [row[m] EXCEPT !.read = at[h].read] \in RowKind
      BY <3>1 DEF RowKind
    <3> QED BY <2>4, <2>5, <3>1, <3>2, NotThere DEF RowKind
  <2>6. ASSUME m \in There' \ apart' PROVE Alone(m)' /\ Mirrored(m)'
    <3>1. m \in There \ apart
      BY <2>2, <2>4, <2>6 DEF There
    <3>2. /\ (\A k \in task : k.m # m) /\ (\A f \in Handlers : at[f].m = m => f = h)
          /\ at[h].file = row[m].file /\ (at[h].file # "none" => disk[m] = at[h].file)
      BY <1>0, <2>0, <2>2, <3>1, MirrorAt DEF Marking
    <3>3. at'[h] = g /\ g.pc \in Marking
      BY <1>0, <2>1, <2>3 DEF Marking
    <3> HIDE DEF Marking
    <3> QED BY <1>0, <2>1, <2>2, <2>3, <2>5, <3>1, <3>2, <3>3, MirrorGoOn
  <2>7. row'[m] # None
    BY <2>0, <2>4, <2>5
  <2> HIDE DEF Alone, Mirrored, There
  <2>8. \A n \in Msgs \ {m} : row'[n] = row[n] /\ {k \in task' : k.m = n} = {k \in task : k.m = n}
    BY <2>2, <2>4
  <2>9. at[h].m \in {m, None} /\ g.m \in {m, None} /\ apart \ {m} \subseteq apart'
    BY <2>0, <2>1, <2>2
  <2> QED BY <1>0, <2>0, <2>2, <2>6, <2>7, <2>8, <2>9, MirrorMove
<1>5. CASE Exists(h) \/ Recompute(h)
  <2>0. PICK m \in Msgs : m = at[h].m /\ row[m] # None
    BY <1>1, <1>5 DEF Exists, Recompute
  <2>1. /\ UNCHANGED <<row, disk, task, apart>> /\ at[h].pc \in {"exists", "flag"}
        /\ \E pc \in {"flag", "spawn"}, bold \in BOOLEAN : at' = [at EXCEPT ![h] = [@ EXCEPT !.pc = pc, !.bold = bold]]
    <3>1. CASE Exists(h)
      <4>1. Unread(at[h].thread) \in BOOLEAN
        BY DEF Unread
      <4>2. at' = [at EXCEPT ![h] = [@ EXCEPT !.pc = "flag", !.bold = Unread(at[h].thread)]]
        <5> HIDE DEF Unread
        <5> QED BY <1>0, <3>1 DEF Exists, TypeOK, HandlerKind
      <4> HIDE DEF Unread
      <4> QED BY <3>1, <4>1, <4>2 DEF Exists
    <3>2. CASE Recompute(h)
      <4>1. at' = [at EXCEPT ![h] = [@ EXCEPT !.pc = "spawn", !.bold = at[h].bold]]
        BY <1>0, <3>2 DEF Recompute, TypeOK, HandlerKind
      <4> QED BY <1>0, <3>2, <4>1, HandlerFacts DEF Recompute
    <3> QED BY <1>5, <3>1, <3>2
  <2>2. PICK pc \in {"flag", "spawn"}, bold \in BOOLEAN : at' = [at EXCEPT ![h] = [@ EXCEPT !.pc = pc, !.bold = bold]]
    BY <2>1
  <2> DEFINE g == [at[h] EXCEPT !.pc = pc, !.bold = bold]
  <2>3. g.pc = pc /\ g.m = m /\ g.file = at[h].file /\ g.read = at[h].read
    BY <1>0, <2>0 DEF HandlerKind
  <2>4. at' = [at EXCEPT ![h] = g] /\ There' = There
    BY <1>0, <2>1, <2>2 DEF TypeOK, There
  <2> HIDE DEF g
  <2>5. \A f \in Handlers : at'[f] = IF f = h THEN g ELSE at[f]
    BY <2>4 DEF TypeOK
  <2>6. ASSUME m \in There' \ apart' PROVE Alone(m)' /\ Mirrored(m)'
    <3>1. /\ (\A k \in task : k.m # m) /\ (\A f \in Handlers : at[f].m = m => f = h)
          /\ at[h].file = row[m].file /\ (at[h].file # "none" => disk[m] = at[h].file)
          /\ row[m].read = at[h].read
      BY <1>0, <2>0, <2>1, <2>4, <2>6, MirrorAt DEF Marking
    <3>2. at'[h] = g /\ g.pc \in Marking
      BY <1>0, <2>3, <2>5 DEF Marking
    <3>3. (\A k \in task' : k.m # m) /\ (\A f \in Handlers : at'[f].m = m => f = h)
      BY <2>1, <2>5, <3>1
    <3>4. at'[h].file = row'[m].file /\ (at'[h].file # "none" => disk'[m] = at'[h].file)
            /\ row'[m].read = at'[h].read /\ at'[h].m = m /\ at'[h].pc \in Marking
      BY <2>1, <2>3, <3>1, <3>2
    <3> HIDE DEF Marking
    <3> QED BY <1>0, <3>3, <3>4, MirrorGoOn
  <2> HIDE DEF Alone, Mirrored, There
  <2>7. \A n \in Msgs \ {m} : row'[n] = row[n] /\ {k \in task' : k.m = n} = {k \in task : k.m = n}
    BY <2>1
  <2>8. at[h].m \in {m, None} /\ g.m \in {m, None} /\ apart \ {m} \subseteq apart' /\ disk' = disk /\ row' = row
    BY <2>0, <2>1, <2>3
  <2> QED BY <1>0, <2>0, <2>4, <2>6, <2>7, <2>8, MirrorMove
<1>6. CASE Cut(h)
  <2>0. PICK m \in Msgs : m = at[h].m /\ row[m] # None
    BY <1>1, <1>6 DEF Cut
  <2>1. /\ at' = [at EXCEPT ![h] = Idle] /\ UNCHANGED <<row, disk, task>> /\ apart' = apart \cup {m}
    BY <1>6, <2>0 DEF Cut
  <2> QED BY <1>0, <2>0, <2>1, IdleType, MirrorMove
<1>7. CASE OpenMark(h)
  <2>0. PICK m \in Msgs : m = at[h].m /\ row[m] # None
    BY <1>1, <1>7 DEF OpenMark
  <2>1. at' = [at EXCEPT ![h] = Idle] /\ UNCHANGED <<disk, task>> /\ at[h].pc = "open"
    BY <1>7 DEF OpenMark
  <2>2. CASE m \in There /\ ~row[m].read
    <3>1. row' = [row EXCEPT ![m] = [row[m] EXCEPT !.read = TRUE]] /\ apart' = apart \cup {m}
      BY <1>7, <2>0, <2>2 DEF OpenMark
    <3>2. [row[m] EXCEPT !.read = TRUE] \in RowKind
      BY <2>2, RowFacts DEF RowKind
    <3>3. row'[m] # None /\ \A n \in Msgs \ {m} : row'[n] = row[n]
      BY <3>1, <3>2, NotThere DEF TypeOK
    <3> QED BY <1>0, <2>0, <2>1, <3>1, <3>3, IdleType, MirrorMove
  <2>3. CASE m \notin There \/ row[m].read
    <3>1. UNCHANGED <<row, apart>>
      BY <1>7, <2>0, <2>3 DEF OpenMark
    <3>2. There' = There
      BY <3>1 DEF There
    <3>3. ASSUME m \in There' \ apart' PROVE Alone(m)' /\ Mirrored(m)'
      <4>1. (\A k \in task : k.m # m) /\ (\A f \in Handlers : at[f].m = m => f = h) /\ Settled(m)
        BY <1>0, <2>0, <2>1, <3>1, <3>2, <3>3, MirrorAt DEF Marking
      <4>2. \A f \in Handlers : at'[f] = IF f = h THEN Idle ELSE at[f]
        BY <2>1 DEF TypeOK
      <4>3. Settled(m)'
        BY <2>1, <3>1, <4>1 DEF Settled
      <4>4. m # None /\ at'[h].pc \notin Marking
        BY <1>0, <4>2, IdleType, StoreAssumption DEF Marking
      <4> HIDE DEF Settled, Marking
      <4> QED BY <1>0, <2>1, <4>1, <4>2, <4>3, <4>4, MirrorGoOn
    <3> HIDE DEF Alone, Mirrored, There
    <3> QED BY <1>0, <2>0, <2>1, <3>1, <3>3, IdleType, MirrorMove
  <2> QED BY <2>2, <2>3
<1>8. CASE Spawn(h)
  <2>0. PICK m \in Msgs : m = at[h].m /\ row[m] # None
    BY <1>1, <1>8 DEF Spawn
  <2> DEFINE k == [id |-> begun, m |-> m, from |-> at[h].file, to |-> Place(at[h].read), by |-> None, pc |-> "file"]
  <2>1. /\ at' = [at EXCEPT ![h] = Idle] /\ UNCHANGED <<row, disk, apart>> /\ at[h].pc = "spawn"
        /\ task' = IF at[h].file = "none" THEN task ELSE task \cup {k}
    BY <1>8, <2>0 DEF Spawn, Begin
  <2>2. k.m = m /\ k.from = at[h].file /\ k.to = Place(at[h].read) /\ k.pc = "file"
    OBVIOUS
  <2> HIDE DEF k
  <2>3. There' = There
    BY <2>1 DEF There
  <2>4. \A f \in Handlers : at'[f] = IF f = h THEN Idle ELSE at[f]
    BY <2>1 DEF TypeOK
  <2>5. ASSUME m \in There' \ apart' PROVE Alone(m)' /\ Mirrored(m)'
    <3>1. /\ (\A l \in task : l.m # m) /\ (\A f \in Handlers : at[f].m = m => f = h)
          /\ at[h].file = row[m].file /\ (at[h].file # "none" => disk[m] = at[h].file)
          /\ row[m].read = at[h].read
      BY <1>0, <2>0, <2>1, <2>3, <2>5, MirrorAt DEF Marking
    <3>2. \A f \in Handlers : at'[f].m # m
      BY <2>4, <3>1, IdleType, StoreAssumption
    <3>3. CASE at[h].file = "none"
      <4>1. Settled(m)'
        BY <2>1, <3>1, <3>3 DEF Settled
      <4> HIDE DEF Settled, Marking
      <4> QED BY <1>0, <2>1, <3>1, <3>2, <3>3, <4>1, MirrorGoOn DEF Alone, Mirrored
    <3>4. CASE at[h].file # "none"
      <4>1. \A l \in task' : l.m = m => l = k
        BY <2>1, <3>1, <3>4
      <4>2. k \in task'
        BY <2>1, <3>4
      <4>3. Alone(m)'
        BY <3>2, <4>1 DEF Alone
      <4>4. Mirrored(m)'
        BY <2>1, <2>2, <3>1, <3>2, <3>4, <4>1, <4>2 DEF Mirrored
      <4> QED BY <4>3, <4>4
    <3> QED BY <3>3, <3>4
  <2>6. \A n \in Msgs \ {m} : {l \in task' : l.m = n} = {l \in task : l.m = n}
    BY <2>1, <2>2
  <2> HIDE DEF Alone, Mirrored, There
  <2> QED BY <1>0, <2>0, <2>1, <2>5, <2>6, IdleType, MirrorMove
<1> QED BY <1>2, <1>3, <1>4, <1>5, <1>6, <1>7, <1>8

LEMMA MirrorEdit ==
  ASSUME TypeOK, MirrorInv, NEW m \in There,
         \/ ImapClient(m) \/ Remove(m) \/ MoveMessage(m) \/ Snooze(m) \/ Unsnooze(m) \/ DraftDelete(m)
  PROVE  MirrorInv'
<1>0. m \in Msgs /\ row[m] \in RowKind /\ row[m] # None
  BY RowFacts, NotThere
<1>1. CASE ImapClient(m)
  <2>1. /\ \E p \in Places : disk' = [disk EXCEPT ![m] = p]
        /\ apart' = apart \cup {m} /\ UNCHANGED <<row, task, at>>
    BY <1>1 DEF ImapClient
  <2>2. There' = There
    BY <2>1 DEF There
  <2>3. \A n \in Msgs \ {m} : disk'[n] = disk[n]
    BY <2>1 DEF TypeOK
  <2>4. Fresh'
    BY <1>0, <2>1, <2>3 DEF MirrorInv, Fresh
  <2>5. \A n \in There' \ apart' : n \in There \ apart /\ Untouched(n)
    BY <2>1, <2>2, <2>3 DEF Untouched, There
  <2> QED BY <2>4, <2>5, MirrorKeeps
<1>2. ASSUME NEW folder \in Folders, SetFolder(m, folder)
      PROVE  MirrorInv'
  <2>1. /\ [row[m] EXCEPT !.folder = folder] \in RowKind
        /\ [row[m] EXCEPT !.folder = folder].file = row[m].file
        /\ [row[m] EXCEPT !.folder = folder].read = row[m].read
    BY <1>0 DEF RowKind
  <2>2. row' = [row EXCEPT ![m] = [row[m] EXCEPT !.folder = folder]] /\ UNCHANGED <<disk, task, at, apart>>
    BY <1>0, <1>2 DEF SetFolder, TypeOK
  <2> QED BY <2>1, <2>2, MirrorOne
<1>3. ASSUME NEW until \in 0..MaxTime + 1, SetUntil(m, until)
      PROVE  MirrorInv'
  <2>1. /\ [row[m] EXCEPT !.until = until] \in RowKind
        /\ [row[m] EXCEPT !.until = until].file = row[m].file
        /\ [row[m] EXCEPT !.until = until].read = row[m].read
    BY <1>0 DEF RowKind
  <2>2. row' = [row EXCEPT ![m] = [row[m] EXCEPT !.until = until]] /\ UNCHANGED <<disk, task, at, apart>>
    BY <1>0, <1>3 DEF SetUntil, TypeOK
  <2> QED BY <2>1, <2>2, MirrorOne
<1>4. CASE Remove(m) \/ MoveMessage(m)
  BY <1>2, <1>4 DEF Remove, MoveMessage, Folders
<1>5. CASE Snooze(m) \/ Unsnooze(m)
  <2>1. now + 1..MaxTime + 1 \subseteq 0..MaxTime + 1 /\ Null \in 0..MaxTime + 1
    BY StoreAssumption DEF TypeOK, Null
  <2> QED BY <1>3, <1>5, <2>1 DEF Snooze, Unsnooze
<1>6. CASE DraftDelete(m)
  BY <1>6, NotThere, MirrorOne DEF DraftDelete
<1> QED BY <1>1, <1>4, <1>5, <1>6

LEMMA MirrorImport ==
  ASSUME TypeOK, Requests, MirrorInv, AtFile, NEW i \in scene.imports,
         \/ \E f \in Files : Take(i, f) \/ LookFails(i, f)
         \/ \E m \in NextId : Insert(i, m)
         \/ Attach(i) \/ FailFile(i) \/ Exit(i)
  PROVE  MirrorInv'
<1>0. i \in Imports
  BY SceneFacts
<1>1. CASE (\E f \in Files : Take(i, f) \/ LookFails(i, f)) \/ FailFile(i)
  BY <1>1, MirrorQuiet DEF Take, LookFails, FailFile
<1>2. ASSUME NEW m \in NextId, Insert(i, m)
      PROVE  MirrorInv'
  <2> DEFINE f == run[i].file
  <2>0. m \in Msgs /\ row[m] = None /\ f \in Files
    BY <1>0, <1>2, SceneFacts DEF NextId, Unborn, AtFile, Insert
  <2>1. /\ row' = [row EXCEPT ![m] = ImportedRow(f)] /\ UNCHANGED <<disk, at, apart>>
        /\ Mirror(m, FALSE, i)
    BY <1>2 DEF Insert, Put, ImportedRow
  <2> HIDE DEF f
  <2>2. ImportedRow(f) \in RowKind /\ ImportedRow(f).file = "none" /\ ImportedRow(f).read = FALSE
    BY <2>0, ImportedRowFacts
  <2> QED BY <2>0, <2>1, <2>2, MirrorNew
<1>3. CASE Attach(i)
  <2> DEFINE m == run[i].m
  <2>1. CASE m \in There
    <3>1. row[m] \in RowKind
      BY <2>1, RowFacts
    <3>2. /\ [row[m] EXCEPT !.whole = TRUE] \in RowKind
          /\ [row[m] EXCEPT !.whole = TRUE].file = row[m].file
          /\ [row[m] EXCEPT !.whole = TRUE].read = row[m].read
      BY <3>1 DEF RowKind
    <3>3. row' = [row EXCEPT ![m] = [row[m] EXCEPT !.whole = TRUE]] /\ UNCHANGED <<disk, task, at, apart>>
      BY <1>3, <2>1 DEF Attach
    <3> HIDE DEF m
    <3> QED BY <2>1, <3>2, <3>3, MirrorOne
  <2>2. CASE m \notin There
    <3>1. row' = row
      BY <1>3, <2>2 DEF Attach, TypeOK
    <3> QED BY <1>3, <3>1, MirrorQuiet DEF Attach
  <2> QED BY <2>1, <2>2
<1>4. CASE Exit(i)
  <2> DEFINE lost == {k \in task : k.by = i}
  <2>1. /\ UNCHANGED <<row, disk, at>> /\ task' = task \ lost /\ apart' = apart \cup {k.m : k \in lost}
    BY <1>4 DEF Exit
  <2>2. There' = There
    BY <2>1 DEF There
  <2>3. Fresh'
    BY <2>1 DEF MirrorInv, Fresh
  <2>4. ASSUME NEW n \in There' \ apart' PROVE n \in There \ apart /\ Untouched(n)
    <3>1. {k \in task' : k.m = n} = {k \in task : k.m = n}
      BY <2>1, <2>4
    <3> QED BY <2>1, <2>2, <2>4, <3>1 DEF Untouched
  <2> QED BY <2>3, <2>4, MirrorKeeps
<1> QED BY <1>1, <1>2, <1>3, <1>4

LEMMA MirrorStep == Inv /\ [Next]_vars => MirrorInv'
<1> SUFFICES ASSUME Inv, [Next]_vars PROVE MirrorInv'
  OBVIOUS
<1>0. Types /\ TypeOK /\ Requests /\ MirrorInv /\ AtFile
  BY DEF Inv, Types, FlagInv, ImportInv
<1>1. CASE Tick \/ UNCHANGED vars
  BY <1>0, <1>1, MirrorQuiet DEF Tick, vars
<1> QED BY <1>0, <1>1, MirrorArrive, MirrorTask, MirrorHandler, MirrorEdit, MirrorImport DEF Next

-----------------------------------------------------------------------------
(* Places.                                                                 *)

LEMMA PlaceInit == Init => PlaceInv
BY DEF Init, PlaceInv, There

\* One message comes, changes or goes.
LEMMA PlaceOne ==
  ASSUME TypeOK, PlaceInv, NEW m \in Msgs, NEW r \in RowKind \cup {Gone}, row' = [row EXCEPT ![m] = r],
         r \in RowKind => \/ r.origin \notin {"inbound", "import"}
                          \/ InOwnThread(r)
                          \/ m \in There /\ r.origin = row[m].origin /\ r.box = row[m].box /\ r.thread = row[m].thread
  PROVE  PlaceInv'
<1> SUFFICES ASSUME NEW n \in There', row'[n].origin \in {"inbound", "import"}
             PROVE  InOwnThread(row[n])'
  BY DEF PlaceInv
<1>1. /\ \A l \in Msgs \ {m} : row'[l] = row[l] /\ (l \in There' <=> l \in There)
      /\ row'[m] = r /\ (m \in There' <=> r \in RowKind) /\ There' \subseteq Msgs
  BY ThereOne
<1>2. CASE n = m
  BY <1>1, <1>2 DEF PlaceInv, InOwnThread
<1>3. CASE n # m
  BY <1>1, <1>3 DEF PlaceInv, InOwnThread
<1> QED BY <1>2, <1>3

LEMMA OwnThread ==
  ASSUME NEW r, NEW s \in Subjects, r.thread = <<r.box, s>>
  PROVE  InOwnThread(r)
<1>1. <<r.box, s>> \in {r.box} \X Subjects
  OBVIOUS
<1> QED BY <1>1 DEF InOwnThread

LEMMA PlaceSame ==
  ASSUME PlaceInv, row' = row
  PROVE  PlaceInv'
BY DEF PlaceInv, There, InOwnThread

\* The steps in which a message keeps what it is, whatever happens to it.
Keeping ==
  \/ \E k \in task : DeliverRaw(k) \/ SetSeen(k) \/ RecordMaildirFile(k) \/ LoseTask(k)
  \/ \E h \in scene.handlers :
       \/ \E m \in There : OpenSelect(h, m) \/ \E read \in BOOLEAN : MarkSelect(h, m, read)
       \/ MarkUpdate(h) \/ Exists(h) \/ Recompute(h) \/ Spawn(h) \/ Cut(h) \/ OpenMark(h)
  \/ \E m \in There : ImapClient(m) \/ Remove(m) \/ MoveMessage(m) \/ Snooze(m) \/ Unsnooze(m)
  \/ \E i \in scene.imports : (\E f \in Files : Take(i, f) \/ LookFails(i, f)) \/ FailFile(i) \/ Exit(i)
  \/ Tick \/ UNCHANGED vars

\* Two rows of one message.
SameMail(q, r) ==
  /\ r.box = q.box /\ r.thread = q.thread /\ r.mid = q.mid /\ r.src = q.src /\ r.origin = q.origin
  /\ r.whole = q.whole

LEMMA KeepingKeeps ==
  ASSUME TypeOK, Keeping
  PROVE  \/ row' = row
         \/ \E m \in There, r \in RowKind : row' = [row EXCEPT ![m] = r] /\ SameMail(row[m], r)
<1>1. CASE \/ \E k \in task : DeliverRaw(k) \/ SetSeen(k) \/ LoseTask(k)
           \/ \E h \in scene.handlers :
                \/ \E m \in There : OpenSelect(h, m) \/ \E read \in BOOLEAN : MarkSelect(h, m, read)
                \/ Exists(h) \/ Recompute(h) \/ Spawn(h) \/ Cut(h)
           \/ \E m \in There : ImapClient(m)
           \/ \E i \in scene.imports : (\E f \in Files : Take(i, f) \/ LookFails(i, f)) \/ FailFile(i) \/ Exit(i)
           \/ Tick \/ UNCHANGED vars
  BY <1>1 DEF DeliverRaw, SetSeen, LoseTask, OpenSelect, MarkSelect, Exists, Recompute, Spawn, Cut, ImapClient,
       Take, LookFails, FailFile, Exit, Tick, vars
<1>2. ASSUME NEW k \in task, RecordMaildirFile(k), k.m \in There
      PROVE  \E m \in There, r \in RowKind : row' = [row EXCEPT ![m] = r] /\ SameMail(row[m], r)
  <2>1. row[k.m] \in RowKind /\ k.to \in {"new", "cur"}
    BY <1>2, RowFacts DEF TypeOK, TaskKind
  <2>2. /\ [row[k.m] EXCEPT !.file = k.to] \in RowKind
        /\ SameMail(row[k.m], [row[k.m] EXCEPT !.file = k.to])
    BY <2>1 DEF RowKind, SameMail
  <2>3. row' = [row EXCEPT ![k.m] = [row[k.m] EXCEPT !.file = k.to]]
    BY <1>2 DEF RecordMaildirFile
  <2> QED BY <1>2, <2>2, <2>3
<1>3. ASSUME NEW k \in task, RecordMaildirFile(k), k.m \notin There
      PROVE  row' = row
  BY <1>3 DEF RecordMaildirFile, TypeOK
<1>4. ASSUME NEW h \in scene.handlers, MarkUpdate(h) \/ OpenMark(h)
      PROVE  \/ row' = row
             \/ \E m \in There, r \in RowKind : row' = [row EXCEPT ![m] = r] /\ SameMail(row[m], r)
  <2>1. h \in Handlers /\ at[h].read \in BOOLEAN
    BY SceneFacts, HandlerFacts
  <2>2. row' = row \/ \E m \in There, read \in BOOLEAN : row' = [row EXCEPT ![m] = [row[m] EXCEPT !.read = read]]
    BY <1>4, <2>1 DEF MarkUpdate, OpenMark, TypeOK
  <2>3. ASSUME NEW m \in There, NEW read \in BOOLEAN, row' = [row EXCEPT ![m] = [row[m] EXCEPT !.read = read]]
        PROVE  [row[m] EXCEPT !.read = read] \in RowKind /\ SameMail(row[m], [row[m] EXCEPT !.read = read])
    BY RowFacts DEF RowKind, SameMail
  <2> QED BY <2>2, <2>3
<1>5. ASSUME NEW m \in There, Remove(m) \/ MoveMessage(m)
      PROVE  \E r \in RowKind : row' = [row EXCEPT ![m] = r] /\ SameMail(row[m], r)
  <2>1. \E folder \in Folders : row' = [row EXCEPT ![m] = [row[m] EXCEPT !.folder = folder]]
    BY <1>5, RowFacts DEF Remove, MoveMessage, SetFolder, Folders, TypeOK
  <2>2. \A folder \in Folders : /\ [row[m] EXCEPT !.folder = folder] \in RowKind
                                /\ SameMail(row[m], [row[m] EXCEPT !.folder = folder])
    BY RowFacts DEF RowKind, SameMail
  <2> QED BY <2>1, <2>2
<1>6. ASSUME NEW m \in There, Snooze(m) \/ Unsnooze(m)
      PROVE  \E r \in RowKind : row' = [row EXCEPT ![m] = r] /\ SameMail(row[m], r)
  <2>1. now + 1..MaxTime + 1 \subseteq 0..MaxTime + 1 /\ Null \in 0..MaxTime + 1
    BY StoreAssumption DEF TypeOK, Null
  <2>2. \E until \in 0..MaxTime + 1 : SetUntil(m, until)
    BY <1>6, <2>1 DEF Snooze, Unsnooze
  <2>3. \E until \in 0..MaxTime + 1 : row' = [row EXCEPT ![m] = [row[m] EXCEPT !.until = until]]
    BY <2>2, RowFacts DEF SetUntil, TypeOK
  <2>4. \A until \in 0..MaxTime + 1 : /\ [row[m] EXCEPT !.until = until] \in RowKind
                                      /\ SameMail(row[m], [row[m] EXCEPT !.until = until])
    BY RowFacts DEF RowKind, SameMail
  <2> QED BY <2>3, <2>4
<1> QED BY <1>1, <1>2, <1>3, <1>4, <1>5, <1>6 DEF Keeping

\* Mail arrives.
Arrives ==
  \E m \in NextId, b \in scene.boxes, s \in Subjects, folder \in {"Inbox", "Projects"},
     mid \in {""} \cup {f.mid : f \in scene.files} : Arrive(m, b, s, mid, folder)

\* The other steps.
LEMMA NextCases ==
  ASSUME [Next]_vars
  PROVE  \/ Keeping
         \/ Arrives
         \/ \E m \in NextId, b \in scene.boxes, t \in Threads \cup {None} :
               FileSent(m, b, t) \/ CopyLocal(m, b, t) \/ DraftCreate(m, b, t)
         \/ \E m \in There : DraftDelete(m)
         \/ \E i \in scene.imports : (\E m \in NextId : Insert(i, m)) \/ Attach(i)
BY DEF Next, Keeping, Arrives

LEMMA AttachRow ==
  ASSUME TypeOK, NEW i, Attach(i)
  PROVE  \/ run[i].m \notin There /\ row' = row
         \/ /\ run[i].m \in There
            /\ \E r \in RowKind : /\ row' = [row EXCEPT ![run[i].m] = r]
                                  /\ r.whole /\ SameMail(row[run[i].m], [r EXCEPT !.whole = row[run[i].m].whole])
<1> DEFINE m == run[i].m
<1>1. CASE m \in There
  <2>1. row[m] \in RowKind
    BY <1>1, RowFacts
  <2>2. /\ [row[m] EXCEPT !.whole = TRUE] \in RowKind /\ [row[m] EXCEPT !.whole = TRUE].whole
        /\ SameMail(row[m], [[row[m] EXCEPT !.whole = TRUE] EXCEPT !.whole = row[m].whole])
    BY <2>1 DEF RowKind, SameMail
  <2>3. row' = [row EXCEPT ![m] = [row[m] EXCEPT !.whole = TRUE]]
    BY <1>1 DEF Attach
  <2> QED BY <1>1, <2>2, <2>3
<1>2. CASE m \notin There
  <2>1. row' = row
    BY <1>2 DEF Attach, TypeOK
  <2> QED BY <1>2, <2>1
<1> QED BY <1>1, <1>2

\* The row of mail that arrives, and of what is made here.
LEMMA ArriveRow ==
  ASSUME TypeOK, Arrives
  PROVE  \E m \in NextId, r \in RowKind : /\ row' = [row EXCEPT ![m] = r] /\ InOwnThread(r)
                                          /\ r.src = None /\ r.whole /\ r.origin = "inbound"
<1>1. \A mid \in {""} \cup {f.mid : f \in scene.files} : mid \in {"m", "n", ""}
  BY SceneFacts, FileFacts
<1>2. PICK m \in NextId, b \in scene.boxes, s \in Subjects, folder \in {"Inbox", "Projects"}, mid \in {"m", "n", ""} :
        Arrive(m, b, s, mid, folder)
  BY <1>1 DEF Arrives
<1>0. m \in Msgs /\ b \in Boxes /\ <<b, s>> \in Threads
  BY SceneFacts DEF NextId, Unborn, Threads
<1> DEFINE r == [Row(b, <<b, s>>, folder, FALSE, "inbound") EXCEPT !.mid = mid]
<1>3. /\ r \in RowKind /\ r.box = b /\ r.thread = <<b, s>> /\ r.src = None /\ r.whole /\ r.origin = "inbound"
  <2>1. Row(b, <<b, s>>, folder, FALSE, "inbound") \in RowKind
    BY <1>0, RowType DEF Folders
  <2> QED BY <1>0, <2>1 DEF RowKind, Row
<1>4. row' = [row EXCEPT ![m] = r]
  BY <1>2 DEF Arrive, Put
<1> HIDE DEF r
<1>5. InOwnThread(r)
  BY <1>3, OwnThread
<1> QED BY <1>3, <1>4, <1>5

LEMMA MadeRow ==
  ASSUME TypeOK, NEW m \in NextId, NEW b \in scene.boxes, NEW t \in Threads \cup {None},
         FileSent(m, b, t) \/ CopyLocal(m, b, t) \/ DraftCreate(m, b, t)
  PROVE  \E r \in RowKind : /\ row' = [row EXCEPT ![m] = r]
                            /\ r.src = None /\ r.whole /\ r.origin \in {"sent", "copy", "draft"}
<1>0. b \in Boxes
  BY SceneFacts
<1>1. \E folder \in Folders, read \in BOOLEAN, origin \in {"sent", "copy", "draft"} :
        row' = [row EXCEPT ![m] = Row(b, t, folder, read, origin)]
  BY DEF FileSent, CopyLocal, DraftCreate, Folders
<1>2. PICK folder \in Folders, read \in BOOLEAN, origin \in {"sent", "copy", "draft"} :
        row' = [row EXCEPT ![m] = Row(b, t, folder, read, origin)]
  BY <1>1
<1> DEFINE r == Row(b, t, folder, read, origin)
<1>3. r \in RowKind
  BY <1>0, RowType
<1>4. r.src = None /\ r.whole /\ r.origin = origin
  BY DEF Row
<1> HIDE DEF r
<1> QED BY <1>2, <1>3, <1>4 DEF r

LEMMA PlaceStep == Inv /\ [Next]_vars => PlaceInv'
<1> SUFFICES ASSUME Inv, [Next]_vars PROVE PlaceInv'
  OBVIOUS
<1>0. TypeOK /\ PlaceInv /\ AtFile
  BY DEF Inv, Types, ImportInv
<1>1. CASE Keeping
  <2>1. CASE row' = row
    BY <1>0, <2>1, PlaceSame
  <2>2. CASE row' # row
    <3>1. PICK m \in There, r \in RowKind : row' = [row EXCEPT ![m] = r] /\ SameMail(row[m], r)
      BY <1>0, <1>1, <2>2, KeepingKeeps
    <3>2. r.origin = row[m].origin /\ r.box = row[m].box /\ r.thread = row[m].thread /\ m \in Msgs
      BY <1>0, <3>1, RowFacts DEF SameMail
    <3> QED BY <1>0, <3>1, <3>2, PlaceOne
  <2> QED BY <2>1, <2>2
<1>2. ASSUME NEW m \in NextId, NEW r \in RowKind, row' = [row EXCEPT ![m] = r],
             r.origin \notin {"inbound", "import"} \/ InOwnThread(r)
      PROVE  PlaceInv'
  <2>1. m \in Msgs
    BY <1>0, SceneFacts DEF NextId, Unborn
  <2> QED BY <1>0, <1>2, <2>1, PlaceOne
<1>3. CASE Arrives
  <2>1. PICK m \in NextId, r \in RowKind : row' = [row EXCEPT ![m] = r] /\ InOwnThread(r)
    BY <1>0, <1>3, ArriveRow
  <2> QED BY <1>2, <2>1
<1>4. ASSUME NEW m \in NextId, NEW b \in scene.boxes, NEW t \in Threads \cup {None},
             FileSent(m, b, t) \/ CopyLocal(m, b, t) \/ DraftCreate(m, b, t)
      PROVE  PlaceInv'
  <2>1. PICK r \in RowKind : row' = [row EXCEPT ![m] = r] /\ r.origin \in {"sent", "copy", "draft"}
    BY <1>0, <1>4, MadeRow
  <2> QED BY <1>2, <2>1
<1>5. ASSUME NEW m \in There, DraftDelete(m)
      PROVE  PlaceInv'
  BY <1>0, <1>5, RowFacts, NotThere, PlaceOne DEF DraftDelete
<1>6. ASSUME NEW i \in scene.imports, NEW m \in NextId, Insert(i, m)
      PROVE  PlaceInv'
  <2> DEFINE f == run[i].file
  <2>0. f \in Files
    BY <1>0, <1>6, SceneFacts DEF AtFile, Insert
  <2>1. row' = [row EXCEPT ![m] = ImportedRow(f)]
    BY <1>6 DEF Insert, Put, ImportedRow
  <2> HIDE DEF f
  <2>2. ImportedRow(f) \in RowKind /\ InOwnThread(ImportedRow(f))
    <3>1. ImportedRow(f) \in RowKind /\ ImportedRow(f).thread = <<f.box, f.subject>> /\ ImportedRow(f).box = f.box
      BY <2>0, ImportedRowFacts
    <3>2. f.subject \in Subjects
      BY <2>0, FileFacts
    <3>3. ImportedRow(f).thread = <<ImportedRow(f).box, f.subject>>
      BY <3>1
    <3> QED BY <3>1, <3>2, <3>3, OwnThread
  <2> QED BY <1>2, <2>1, <2>2
<1>7. ASSUME NEW i \in scene.imports, Attach(i)
      PROVE  PlaceInv'
  <2>1. CASE row' = row
    BY <1>0, <2>1, PlaceSame
  <2>2. CASE row' # row
    <3>1. PICK m \in There, r \in RowKind :
            row' = [row EXCEPT ![m] = r] /\ SameMail(row[m], [r EXCEPT !.whole = row[m].whole])
      BY <1>0, <1>7, <2>2, AttachRow
    <3>2. r.origin = row[m].origin /\ r.box = row[m].box /\ r.thread = row[m].thread
      BY <3>1 DEF SameMail, RowKind
    <3> QED BY <1>0, <3>1, <3>2, RowFacts, PlaceOne
  <2> QED BY <2>1, <2>2
<1> QED BY <1>1, <1>3, <1>4, <1>5, <1>6, <1>7, NextCases

-----------------------------------------------------------------------------
(* Imports.                                                                *)

LEMMA ImportInit == Init => ImportInv
<1> SUFFICES ASSUME Init PROVE ImportInv
  OBVIOUS
<1>1. There = {}
  BY DEF Init, There
<1>2. \A i \in Imports : /\ run[i].pc = "next" /\ run[i].file = None
                         /\ i \in scene.imports => run[i].todo = scene.files
  BY DEF Init
<1>3. scene \in SceneKind
  BY StoreAssumption DEF Init
<1>4. scene.imports \subseteq Imports
  BY <1>3 DEF SceneKind
<1>5. AtFile
  BY <1>2 DEF AtFile
<1>6. Imported /\ Twins
  BY <1>1, <1>2 DEF Imported, Twins, TwinMail, TwinSoon, TwinRuns
<1>7. Passed
  BY <1>2, <1>4 DEF Passed
<1> QED BY <1>5, <1>6, <1>7 DEF ImportInv

\* Files an import takes for one message.
LEMMA AlikeSelf ==
  ASSUME NEW f \in Files PROVE f \in Alike(f) /\ Alike(f) \subseteq Files
BY DEF Alike

LEMMA AlikeSame ==
  ASSUME NEW f \in Files, NEW g \in Alike(f) PROVE Alike(g) = Alike(f)
BY DEF Alike

LEMMA AlikeMid ==
  ASSUME NEW f \in Files, NEW g \in Files, f.mid # "", g.mid = f.mid, g.box = f.box
  PROVE  g \in Alike(f)
BY DEF Alike

\* The rows are what they were, read, moved or not.
RowsKept ==
  \A m \in Msgs : /\ m \in There' <=> m \in There
                  /\ m \in There => SameMail(row[m], row'[m])
                  /\ row[m] # None => row'[m] # None

\* Messages of imports stay as they are, and so do the runs that insert.
LEMMA TwinsKeep ==
  ASSUME Twins, broken \subseteq broken',
         \A n \in There' : row'[n].origin = "import" =>
           /\ n \in There /\ row[n].origin = "import"
           /\ row'[n].mid = row[n].mid /\ row'[n].box = row[n].box /\ row'[n].src = row[n].src,
         \A i \in Imports : run'[i].pc = "insert" => run[i].pc = "insert" /\ run'[i].file = run[i].file
  PROVE  Twins'
<1> USE DEF Twins
<1>1. TwinMail'
  <2> SUFFICES ASSUME NEW m \in There', NEW n \in There', m # n, row'[m].origin = "import", row'[n].origin = "import",
                      row'[m].mid # "", row'[m].mid = row'[n].mid, row'[m].box = row'[n].box
               PROVE  row'[m].src \in broken'
    BY DEF TwinMail
  <2>1. /\ m \in There /\ row[m].origin = "import" /\ row'[m].mid = row[m].mid /\ row'[m].box = row[m].box
        /\ row'[m].src = row[m].src
        /\ n \in There /\ row[n].origin = "import" /\ row'[n].mid = row[n].mid /\ row'[n].box = row[n].box
    OBVIOUS
  <2>2. row[m].src \in broken
    BY <2>1 DEF TwinMail
  <2> QED BY <2>1, <2>2
<1>2. TwinSoon'
  <2> HIDE DEF Alike
  <2> SUFFICES ASSUME NEW i \in Imports, NEW m \in There', run'[i].pc = "insert", row'[m].origin = "import",
                      run'[i].file.mid # "", row'[m].mid = run'[i].file.mid, row'[m].box = run'[i].file.box
               PROVE  Alike(run'[i].file) \subseteq broken'
    BY DEF TwinSoon
  <2>1. /\ m \in There /\ row[m].origin = "import" /\ row'[m].mid = row[m].mid /\ row'[m].box = row[m].box
        /\ run[i].pc = "insert" /\ run'[i].file = run[i].file
    OBVIOUS
  <2>2. Alike(run[i].file) \subseteq broken
    BY <2>1 DEF TwinSoon
  <2> QED BY <2>1, <2>2
<1>3. TwinRuns'
  <2> HIDE DEF Alike
  <2> SUFFICES ASSUME NEW i \in Imports, NEW j \in Imports, i # j, run'[i].pc = "insert", run'[j].pc = "insert",
                      run'[j].file \in Alike(run'[i].file)
               PROVE  Alike(run'[i].file) \subseteq broken'
    BY DEF TwinRuns
  <2>1. /\ run[i].pc = "insert" /\ run'[i].file = run[i].file
        /\ run[j].pc = "insert" /\ run'[j].file = run[j].file
    OBVIOUS
  <2>2. Alike(run[i].file) \subseteq broken
    BY <2>1 DEF TwinRuns
  <2> QED BY <2>1, <2>2
<1> QED BY <1>1, <1>2, <1>3

LEMMA ImportQuiet ==
  ASSUME TypeOK, ImportInv, RowsKept, UNCHANGED <<scene, run, broken>>
  PROVE  ImportInv'
<1>0. There \subseteq Msgs /\ There' \subseteq Msgs
  BY DEF There
<1>1. There' = There
  BY <1>0 DEF RowsKept
<1>2. \A m \in There : SameMail(row[m], row'[m])
  BY <1>0 DEF RowsKept
<1>3. AtFile'
  <2> SUFFICES ASSUME NEW i \in Imports, run[i].pc = "attach"
               PROVE  /\ run[i].m \in Msgs /\ row'[run[i].m] # None
                      /\ IF run[i].m \in There' THEN row'[run[i].m].src = run[i].file
                         ELSE Alike(run[i].file) \subseteq broken
    BY DEF ImportInv, AtFile
  <2>1. /\ run[i].m \in Msgs /\ row[run[i].m] # None
        /\ IF run[i].m \in There THEN row[run[i].m].src = run[i].file ELSE Alike(run[i].file) \subseteq broken
    BY DEF ImportInv, AtFile
  <2> HIDE DEF There, Alike
  <2> QED BY <1>1, <1>2, <2>1 DEF SameMail, RowsKept
<1>4. Imported'
  <2> SUFFICES ASSUME NEW m \in There
               PROVE  /\ row'[m].origin = "import" => row'[m].src \in Files
                      /\ row'[m].src # None => row'[m].mid = row'[m].src.mid /\ row'[m].box = row'[m].src.box
                      /\ row'[m].whole \/ /\ row'[m].src \in Files
                                          /\ \/ Alike(row'[m].src) \subseteq broken
                                             \/ \E i \in Imports : run[i].pc = "attach" /\ run[i].m = m
    BY <1>1 DEF Imported
  <2>1. /\ row'[m].origin = row[m].origin /\ row'[m].src = row[m].src /\ row'[m].mid = row[m].mid
        /\ row'[m].box = row[m].box /\ row'[m].whole = row[m].whole
    BY <1>2 DEF SameMail
  <2> HIDE DEF Alike
  <2> QED BY <2>1 DEF ImportInv, Imported
<1>5. Passed'
  <2> SUFFICES ASSUME NEW f, Stored(f) PROVE Stored(f)'
    BY DEF ImportInv, Passed
  <2> QED BY <1>1, <1>2 DEF Stored, SameMail
<1>6. Twins'
  <2>1. \A m \in There' : /\ m \in There /\ row'[m].origin = row[m].origin /\ row'[m].src = row[m].src
                          /\ row'[m].mid = row[m].mid /\ row'[m].box = row[m].box
    BY <1>1, <1>2 DEF SameMail
  <2> HIDE DEF There
  <2> QED BY <2>1, TwinsKeep DEF ImportInv
<1> QED BY <1>3, <1>4, <1>5, <1>6 DEF ImportInv

LEMMA KeptRows ==
  ASSUME TypeOK, row' = row \/ \E m \in There, r \in RowKind : row' = [row EXCEPT ![m] = r] /\ SameMail(row[m], r)
  PROVE  RowsKept
<1>1. CASE row' = row
  BY <1>1 DEF RowsKept, There, SameMail
<1>2. ASSUME NEW m \in There, NEW r \in RowKind, row' = [row EXCEPT ![m] = r], SameMail(row[m], r)
      PROVE  RowsKept
  <2>1. m \in Msgs
    BY RowFacts
  <2>2. /\ \A n \in Msgs \ {m} : row'[n] = row[n] /\ (n \in There' <=> n \in There)
        /\ row'[m] = r /\ m \in There'
    BY <1>2, <2>1, ThereOne
  <2> SUFFICES ASSUME NEW n \in Msgs
               PROVE  /\ n \in There' <=> n \in There
                      /\ n \in There => SameMail(row[n], row'[n])
                      /\ row[n] # None => row'[n] # None
    BY DEF RowsKept
  <2>3. CASE n = m
    BY <1>2, <2>2, <2>3, NotThere
  <2>4. CASE n # m
    BY <2>2, <2>4 DEF SameMail
  <2> QED BY <2>3, <2>4
<1> QED BY <1>1, <1>2

\* Mail comes that no import brought.
LEMMA ImportOther ==
  ASSUME TypeOK, ImportInv, NEW m \in Msgs, row[m] = None, NEW r \in RowKind, row' = [row EXCEPT ![m] = r],
         r.src = None, r.whole, r.origin # "import", UNCHANGED <<scene, run, broken>>
  PROVE  ImportInv'
<1>1. /\ \A n \in Msgs \ {m} : row'[n] = row[n] /\ (n \in There' <=> n \in There)
      /\ row'[m] = r /\ m \in There' /\ There' \subseteq Msgs
  BY ThereOne
<1>2. m \notin There /\ There \subseteq Msgs
  BY DEF There
<1>3. \A n \in There : n \in There' /\ row'[n] = row[n]
  BY <1>1, <1>2
<1>4. \A n \in There' : n # m => n \in There /\ row'[n] = row[n]
  BY <1>1
<1>5. AtFile'
  <2> SUFFICES ASSUME NEW i \in Imports, run[i].pc = "attach"
               PROVE  /\ run[i].m \in Msgs /\ row'[run[i].m] # None
                      /\ IF run[i].m \in There' THEN row'[run[i].m].src = run[i].file
                         ELSE Alike(run[i].file) \subseteq broken
    BY DEF ImportInv, AtFile
  <2>1. /\ run[i].m \in Msgs /\ row[run[i].m] # None
        /\ IF run[i].m \in There THEN row[run[i].m].src = run[i].file ELSE Alike(run[i].file) \subseteq broken
    BY DEF ImportInv, AtFile
  <2> HIDE DEF There, Alike
  <2> QED BY <1>1, <2>1
<1>6. Imported'
  <2> SUFFICES ASSUME NEW n \in There'
               PROVE  /\ row'[n].origin = "import" => row'[n].src \in Files
                      /\ row'[n].src # None => row'[n].mid = row'[n].src.mid /\ row'[n].box = row'[n].src.box
                      /\ row'[n].whole \/ /\ row'[n].src \in Files
                                          /\ \/ Alike(row'[n].src) \subseteq broken
                                             \/ \E i \in Imports : run[i].pc = "attach" /\ run[i].m = n
    BY DEF Imported
  <2> HIDE DEF Alike, There
  <2>1. CASE n = m
    BY <1>1, <2>1
  <2>2. CASE n # m
    BY <1>4, <2>2 DEF ImportInv, Imported
  <2> QED BY <2>1, <2>2
<1>7. Passed'
  <2> SUFFICES ASSUME NEW f, Stored(f) PROVE Stored(f)'
    BY DEF ImportInv, Passed
  <2> QED BY <1>3 DEF Stored
<1>8. Twins'
  <2>1. \A n \in There' : row'[n].origin = "import" => n \in There /\ row'[n] = row[n]
    BY <1>1, <1>4
  <2> QED BY <2>1, TwinsKeep DEF ImportInv
<1> QED BY <1>5, <1>6, <1>7, <1>8 DEF ImportInv

\* A message is deleted, and with it what files it stood for.
LEMMA ImportDelete ==
  ASSUME TypeOK, ImportInv, NEW m \in There, DraftDelete(m)
  PROVE  ImportInv'
<1>0. m \in Msgs
  BY RowFacts
<1>1. /\ \A n \in Msgs \ {m} : row'[n] = row[n] /\ (n \in There' <=> n \in There)
      /\ row'[m] = Gone /\ m \notin There' /\ There' \subseteq Msgs
  BY <1>0, NotThere, ThereOne DEF DraftDelete
<1>2. /\ broken' = broken \cup FilesOf(m) /\ UNCHANGED <<scene, run>>
  BY DEF DraftDelete
<1>3. \A n \in There' : n # m /\ n \in There /\ row'[n] = row[n]
  BY <1>1
<1>4. \A n \in There : n # m => n \in There' /\ row'[n] = row[n]
  BY <1>1 DEF There
<1>5. AtFile'
  <2> SUFFICES ASSUME NEW i \in Imports, run[i].pc = "attach"
               PROVE  /\ run[i].m \in Msgs /\ row'[run[i].m] # None
                      /\ IF run[i].m \in There' THEN row'[run[i].m].src = run[i].file
                         ELSE Alike(run[i].file) \subseteq broken'
    BY <1>2 DEF ImportInv, AtFile
  <2>1. /\ run[i].m \in Msgs /\ row[run[i].m] # None /\ run[i].file \in Files
        /\ IF run[i].m \in There THEN row[run[i].m].src = run[i].file ELSE Alike(run[i].file) \subseteq broken
    BY DEF ImportInv, AtFile
  <2>2. CASE run[i].m = m
    <3>1. row[m].src = run[i].file
      BY <2>1, <2>2
    <3>2. row[m].mid = run[i].file.mid /\ row[m].box = run[i].file.box
      BY <2>1, <3>1, StoreAssumption DEF ImportInv, Imported
    <3>3. Alike(run[i].file) \subseteq FilesOf(m)
      BY <3>1, <3>2 DEF Alike, FilesOf
    <3> QED BY <1>1, <1>2, <2>1, <2>2, <3>3, NotThere
  <2>3. CASE run[i].m # m
    <3> HIDE DEF There, Alike, FilesOf
    <3> QED BY <1>1, <1>2, <2>1, <2>3
  <2> QED BY <2>2, <2>3
<1>6. Imported'
  <2> HIDE DEF Alike, There, FilesOf
  <2> SUFFICES ASSUME NEW n \in There'
               PROVE  /\ row'[n].origin = "import" => row'[n].src \in Files
                      /\ row'[n].src # None => row'[n].mid = row'[n].src.mid /\ row'[n].box = row'[n].src.box
                      /\ row'[n].whole \/ /\ row'[n].src \in Files
                                          /\ \/ Alike(row'[n].src) \subseteq broken'
                                             \/ \E i \in Imports : run[i].pc = "attach" /\ run[i].m = n
    BY <1>2 DEF Imported
  <2>1. n \in There /\ row'[n] = row[n]
    BY <1>3
  <2>2. /\ row[n].origin = "import" => row[n].src \in Files
        /\ row[n].src # None => row[n].mid = row[n].src.mid /\ row[n].box = row[n].src.box
        /\ row[n].whole \/ /\ row[n].src \in Files
                           /\ \/ Alike(row[n].src) \subseteq broken
                              \/ \E i \in Imports : run[i].pc = "attach" /\ run[i].m = n
    BY <2>1 DEF ImportInv, Imported
  <2> QED BY <1>2, <2>1, <2>2
<1>7. Passed'
  <2> SUFFICES ASSUME NEW f \in Files, Stored(f) PROVE Stored(f)' \/ f \in broken'
    BY <1>2, SceneFacts DEF ImportInv, Passed
  <2>1. PICK n \in There : /\ row[n].box = f.box /\ row[n].whole
                           /\ IF f.mid = "" THEN row[n].src = f ELSE row[n].mid = f.mid
    BY DEF Stored
  <2>2. CASE n = m
    BY <1>2, <2>1, <2>2 DEF FilesOf
  <2>3. CASE n # m
    BY <1>4, <2>1, <2>3 DEF Stored
  <2> QED BY <2>2, <2>3
<1>8. Twins'
  <2>1. broken \subseteq broken' /\ run' = run
    BY <1>2
  <2> QED BY <1>3, <2>1, TwinsKeep DEF ImportInv
<1> QED BY <1>5, <1>6, <1>7, <1>8 DEF ImportInv

\* A run goes on, and the rows stay: what is to be shown of the run itself.
LEMMA ImportRun ==
  ASSUME TypeOK, ImportInv, UNCHANGED <<scene, row>>, NEW i \in Imports, NEW q, run' = [run EXCEPT ![i] = q],
         broken \subseteq broken',
         q.pc \in {"next", "insert", "done"},
         IF q.pc = "insert" THEN q.file \in Files ELSE q.file = None,
         q.pc = "done" => q.todo = {},
         run[i].pc = "attach" => Alike(run[i].file) \subseteq broken',
         \A f \in Files : f \in run[i].todo \/ run[i].file = f => f \in q.todo \/ q.file = f \/ f \in broken' \/ Stored(f),
         Twins'
  PROVE  ImportInv'
<1>1. There' = There
  BY DEF There
<1>2. \A j \in Imports : run'[j] = IF j = i THEN q ELSE run[j]
  BY DEF TypeOK
<1>3. AtFile'
  <2> HIDE DEF Alike
  <2> SUFFICES ASSUME NEW j \in Imports
               PROVE  /\ run'[j].pc \in {"next", "done"} => run'[j].file = None
                      /\ run'[j].pc = "done" => run'[j].todo = {}
                      /\ run'[j].pc \in {"insert", "attach"} => run'[j].file \in Files
                      /\ run'[j].pc = "attach" =>
                           /\ run'[j].m \in Msgs /\ row[run'[j].m] # None
                           /\ IF run'[j].m \in There THEN row[run'[j].m].src = run'[j].file
                              ELSE Alike(run'[j].file) \subseteq broken'
    BY <1>1 DEF AtFile
  <2>1. CASE j = i
    BY <1>2, <2>1
  <2>2. CASE j # i
    BY <1>2, <2>2 DEF ImportInv, AtFile
  <2> QED BY <2>1, <2>2
<1>4. Imported'
  <2> HIDE DEF Alike
  <2> SUFFICES ASSUME NEW m \in There
               PROVE  /\ row[m].origin = "import" => row[m].src \in Files
                      /\ row[m].src # None => row[m].mid = row[m].src.mid /\ row[m].box = row[m].src.box
                      /\ row[m].whole \/ /\ row[m].src \in Files
                                         /\ \/ Alike(row[m].src) \subseteq broken'
                                            \/ \E j \in Imports : run'[j].pc = "attach" /\ run'[j].m = m
    BY <1>1 DEF Imported
  <2>1. /\ row[m].origin = "import" => row[m].src \in Files
        /\ row[m].src # None => row[m].mid = row[m].src.mid /\ row[m].box = row[m].src.box
        /\ row[m].whole \/ /\ row[m].src \in Files
                           /\ \/ Alike(row[m].src) \subseteq broken
                              \/ \E j \in Imports : run[j].pc = "attach" /\ run[j].m = m
    BY DEF ImportInv, Imported
  <2>2. ASSUME NEW j \in Imports, run[j].pc = "attach", run[j].m = m
        PROVE  Alike(row[m].src) \subseteq broken' \/ (run'[j].pc = "attach" /\ run'[j].m = m)
    <3>1. CASE j = i
      <4>1. row[m].src = run[i].file
        BY <2>2, <3>1 DEF ImportInv, AtFile
      <4> QED BY <2>2, <3>1, <4>1
    <3>2. CASE j # i
      BY <1>2, <2>2, <3>2
    <3> QED BY <3>1, <3>2
  <2> QED BY <2>1, <2>2
<1>5. \A f : Stored(f)' <=> Stored(f)
  BY <1>1 DEF Stored
<1>6. Passed'
  <2> SUFFICES ASSUME NEW j \in scene.imports, NEW f \in scene.files
               PROVE  f \in run'[j].todo \/ run'[j].file = f \/ f \in broken' \/ Stored(f)
    BY <1>5 DEF Passed
  <2>1. f \in Files /\ j \in Imports
    BY SceneFacts
  <2>2. f \in run[j].todo \/ run[j].file = f \/ f \in broken \/ Stored(f)
    BY DEF ImportInv, Passed
  <2> HIDE DEF Stored
  <2>3. CASE j = i
    BY <1>2, <2>1, <2>2, <2>3
  <2>4. CASE j # i
    BY <1>2, <2>1, <2>2, <2>4
  <2> QED BY <2>3, <2>4
<1> QED BY <1>3, <1>4, <1>6 DEF ImportInv

\* "Already present": the message with that Message-ID is whole, unless a run is
\* at its attachments or failed at them.
LEMMA PresentStored ==
  ASSUME TypeOK, ImportInv, NEW f \in Files, Present(f),
         \A j \in Imports : run[j].pc = "attach" => run[j].file \notin Alike(f)
  PROVE  Stored(f) \/ f \in broken
<1>1. PICK m \in There : row[m].box = f.box /\ row[m].mid = f.mid
  BY DEF Present
<1>2. f.mid # ""
  BY DEF Present
<1>3. CASE row[m].whole
  BY <1>1, <1>2, <1>3 DEF Stored
<1>4. CASE ~row[m].whole
  <2>1. /\ row[m].src \in Files
        /\ row[m].src # None => row[m].mid = row[m].src.mid /\ row[m].box = row[m].src.box
        /\ \/ Alike(row[m].src) \subseteq broken
           \/ \E j \in Imports : run[j].pc = "attach" /\ run[j].m = m
    BY <1>4 DEF ImportInv, Imported
  <2>2. row[m].src \in Alike(f)
    BY <1>1, <1>2, <2>1, AlikeMid, StoreAssumption
  <2>3. f \in Alike(row[m].src)
    BY <2>2, AlikeSame, AlikeSelf
  <2>4. ASSUME NEW j \in Imports, run[j].pc = "attach", run[j].m = m
        PROVE  FALSE
    <3>1. run[j].file = row[m].src
      BY <2>4 DEF ImportInv, AtFile
    <3> QED BY <2>2, <2>4, <3>1
  <2> QED BY <2>1, <2>3, <2>4
<1> QED BY <1>3, <1>4

LEMMA ImportTake ==
  ASSUME TypeOK, ImportInv, NEW i \in Imports, NEW f \in Files, Take(i, f)
  PROVE  ImportInv'
<1> DEFINE q == [run[i] EXCEPT !.todo = @ \ {f}, !.pc = IF Present(f) THEN "next" ELSE "insert",
                               !.file = IF Present(f) THEN None ELSE f]
<1>1. run' = [run EXCEPT ![i] = q] /\ UNCHANGED <<scene, row>> /\ run[i].pc = "next"
  BY DEF Take, TypeOK
<1>2. /\ q.todo = run[i].todo \ {f} /\ q.pc = (IF Present(f) THEN "next" ELSE "insert")
      /\ q.file = IF Present(f) THEN None ELSE f
  BY RunFacts DEF RunKind
<1>3. /\ broken \subseteq broken'
      /\ (\E j \in Imports : run[j].pc \in {"insert", "attach"} /\ run[j].file \in Alike(f)) => Alike(f) \subseteq broken'
  <2> HIDE DEF Alike
  <2> QED BY DEF Take
<1> HIDE DEF q
<1>4. run[i].file = None
  BY <1>1 DEF ImportInv, AtFile
<1>5. f \in q.todo \/ q.file = f \/ f \in broken' \/ Stored(f)
  <2>1. CASE Present(f)
    <3>1. CASE \E j \in Imports : run[j].pc = "attach" /\ run[j].file \in Alike(f)
      BY <1>3, <3>1, AlikeSelf
    <3>2. CASE \A j \in Imports : run[j].pc = "attach" => run[j].file \notin Alike(f)
      BY <1>3, <2>1, <3>2, PresentStored
    <3> QED BY <3>1, <3>2
  <2>2. CASE ~Present(f)
    BY <1>2, <2>2
  <2> QED BY <2>1, <2>2
<1>6. \A g \in Files : g \in run[i].todo \/ run[i].file = g => g \in q.todo \/ q.file = g \/ g \in broken' \/ Stored(g)
  <2> SUFFICES ASSUME NEW g \in Files, g \in run[i].todo \/ run[i].file = g
               PROVE  g \in q.todo \/ q.file = g \/ g \in broken' \/ Stored(g)
    OBVIOUS
  <2>1. g \in run[i].todo
    BY <1>4, StoreAssumption
  <2>2. CASE g = f
    BY <1>5, <2>2
  <2>3. CASE g # f
    BY <1>2, <2>1, <2>3
  <2> QED BY <2>2, <2>3
<1>7. \A j \in Imports : run'[j] = IF j = i THEN q ELSE run[j]
  BY <1>1 DEF TypeOK
<1>8. There' = There
  BY <1>1 DEF There
<1>9. Twins'
  <2>1. TwinMail'
    BY <1>1, <1>3, <1>8 DEF ImportInv, Twins, TwinMail
  <2>2. TwinSoon'
    <3> HIDE DEF Alike
    <3> SUFFICES ASSUME NEW j \in Imports, NEW m \in There, run'[j].pc = "insert", row[m].origin = "import",
                        run'[j].file.mid # "", row[m].mid = run'[j].file.mid, row[m].box = run'[j].file.box
                 PROVE  Alike(run'[j].file) \subseteq broken'
      BY <1>1, <1>8 DEF TwinSoon
    <3>1. CASE j = i
      <4>1. ~Present(f) /\ run'[j].file = f
        BY <1>2, <1>7, <3>1
      <4> QED BY <4>1 DEF Present
    <3>2. CASE j # i
      BY <1>3, <1>7, <3>2 DEF ImportInv, Twins, TwinSoon
    <3> QED BY <3>1, <3>2
  <2>3. TwinRuns'
    <3> HIDE DEF Alike
    <3> SUFFICES ASSUME NEW j \in Imports, NEW k \in Imports, j # k, run'[j].pc = "insert", run'[k].pc = "insert",
                        run'[k].file \in Alike(run'[j].file)
                 PROVE  Alike(run'[j].file) \subseteq broken'
      BY DEF TwinRuns
    <3>1. CASE j = i
      BY <1>2, <1>3, <1>7, <3>1
    <3>2. CASE k = i
      <4>1. run'[k].file = f /\ run[j].pc = "insert" /\ run'[j].file = run[j].file
        BY <1>2, <1>7, <3>2
      <4>2. run[j].file \in Files
        BY <4>1 DEF ImportInv, AtFile
      <4>3. Alike(f) = Alike(run[j].file) /\ run[j].file \in Alike(run[j].file)
        BY <4>1, <4>2, AlikeSame, AlikeSelf
      <4> QED BY <1>3, <4>1, <4>3
    <3>3. CASE j # i /\ k # i
      BY <1>3, <1>7, <3>3 DEF ImportInv, Twins, TwinRuns
    <3> QED BY <3>1, <3>2, <3>3
  <2> QED BY <2>1, <2>2, <2>3 DEF Twins
<1>10. q.pc \in {"next", "insert"} /\ IF q.pc = "insert" THEN q.file \in Files ELSE q.file = None
  BY <1>2
<1> HIDE DEF Alike, Stored, Twins
<1> QED BY <1>1, <1>3, <1>6, <1>9, <1>10, ImportRun

LEMMA ImportLookFails ==
  ASSUME TypeOK, ImportInv, NEW i \in Imports, NEW f \in Files, LookFails(i, f)
  PROVE  ImportInv'
<1> DEFINE q == [run[i] EXCEPT !.todo = @ \ {f}, !.pc = "insert", !.file = f]
<1>1. run' = [run EXCEPT ![i] = q] /\ UNCHANGED <<scene, row>> /\ run[i].pc = "next"
  BY DEF LookFails, TypeOK
<1>2. q.todo = run[i].todo \ {f} /\ q.pc = "insert" /\ q.file = f
  BY RunFacts DEF RunKind
<1>3. broken \subseteq broken' /\ Alike(f) \subseteq broken'
  <2> HIDE DEF Alike
  <2> QED BY DEF LookFails
<1> HIDE DEF q
<1>4. run[i].file = None
  BY <1>1 DEF ImportInv, AtFile
<1>6. \A g \in Files : g \in run[i].todo \/ run[i].file = g => g \in q.todo \/ q.file = g \/ g \in broken' \/ Stored(g)
  BY <1>2, <1>4, StoreAssumption
<1>7. \A j \in Imports : run'[j] = IF j = i THEN q ELSE run[j]
  BY <1>1 DEF TypeOK
<1>8. There' = There
  BY <1>1 DEF There
<1>9. Twins'
  <2> HIDE DEF Alike
  <2>1. TwinMail'
    BY <1>1, <1>3, <1>8 DEF ImportInv, Twins, TwinMail
  <2>2. TwinSoon'
    <3> SUFFICES ASSUME NEW j \in Imports, NEW m \in There, run'[j].pc = "insert", row[m].origin = "import",
                        run'[j].file.mid # "", row[m].mid = run'[j].file.mid, row[m].box = run'[j].file.box
                 PROVE  Alike(run'[j].file) \subseteq broken'
      BY <1>1, <1>8 DEF TwinSoon
    <3>1. CASE j = i
      BY <1>2, <1>3, <1>7, <3>1
    <3>2. CASE j # i
      BY <1>3, <1>7, <3>2 DEF ImportInv, Twins, TwinSoon
    <3> QED BY <3>1, <3>2
  <2>3. TwinRuns'
    <3> SUFFICES ASSUME NEW j \in Imports, NEW k \in Imports, j # k, run'[j].pc = "insert", run'[k].pc = "insert",
                        run'[k].file \in Alike(run'[j].file)
                 PROVE  Alike(run'[j].file) \subseteq broken'
      BY DEF TwinRuns
    <3>1. CASE j = i
      BY <1>2, <1>3, <1>7, <3>1
    <3>2. CASE k = i
      <4>1. run'[k].file = f /\ run[j].pc = "insert" /\ run'[j].file = run[j].file
        BY <1>2, <1>7, <3>2
      <4>2. run[j].file \in Files
        BY <4>1 DEF ImportInv, AtFile
      <4>3. Alike(f) = Alike(run[j].file)
        BY <4>1, <4>2, AlikeSame
      <4> QED BY <1>3, <4>1, <4>3
    <3>3. CASE j # i /\ k # i
      BY <1>3, <1>7, <3>3 DEF ImportInv, Twins, TwinRuns
    <3> QED BY <3>1, <3>2, <3>3
  <2> QED BY <2>1, <2>2, <2>3 DEF Twins
<1>10. q.pc \in {"next", "insert"} /\ IF q.pc = "insert" THEN q.file \in Files ELSE q.file = None
  BY <1>2
<1> HIDE DEF Alike, Stored, Twins
<1> QED BY <1>1, <1>3, <1>6, <1>9, <1>10, ImportRun

LEMMA ImportFail ==
  ASSUME TypeOK, ImportInv, NEW i \in Imports, FailFile(i)
  PROVE  ImportInv'
<1>1. /\ run' = [run EXCEPT ![i] = Onward(i)] /\ UNCHANGED <<scene, row>> /\ run[i].pc \in {"insert", "attach"}
      /\ broken' = broken \cup Alike(run[i].file)
  BY DEF FailFile
<1>2. Onward(i).pc = "next" /\ Onward(i).file = None /\ Onward(i).todo = run[i].todo
  BY OnwardFacts
<1>3. run[i].file \in Files
  BY <1>1 DEF ImportInv, AtFile
<1>4. run[i].file \in broken' /\ Alike(run[i].file) \subseteq broken'
  BY <1>1, <1>3, AlikeSelf
<1>5. There' = There
  BY <1>1 DEF There
<1>6. Twins'
  <2>1. \A j \in Imports : run'[j].pc = "insert" => run[j].pc = "insert" /\ run'[j].file = run[j].file
    BY <1>1, <1>2 DEF TypeOK
  <2> HIDE DEF Alike
  <2> QED BY <1>1, <1>5, <2>1, TwinsKeep DEF ImportInv
<1>7. \A f \in Files : f \in run[i].todo \/ run[i].file = f =>
        f \in Onward(i).todo \/ Onward(i).file = f \/ f \in broken' \/ Stored(f)
  BY <1>2, <1>4
<1> HIDE DEF Alike, Stored, Twins, Onward
<1> QED BY <1>1, <1>2, <1>4, <1>6, <1>7, ImportRun

LEMMA ImportExit ==
  ASSUME TypeOK, ImportInv, NEW i \in Imports, Exit(i)
  PROVE  ImportInv'
<1> DEFINE q == [run[i] EXCEPT !.pc = "done"]
<1>1. /\ run' = [run EXCEPT ![i] = q] /\ UNCHANGED <<scene, row, broken>> /\ run[i].pc = "next"
      /\ run[i].todo = {}
  BY DEF Exit, TypeOK
<1>2. q.pc = "done" /\ q.file = run[i].file /\ q.todo = {}
  BY <1>1, RunFacts DEF RunKind
<1>3. run[i].file = None
  BY <1>1 DEF ImportInv, AtFile
<1> HIDE DEF q
<1>4. There' = There
  BY <1>1 DEF There
<1>5. Twins'
  <2>1. \A j \in Imports : run'[j].pc = "insert" => run[j].pc = "insert" /\ run'[j].file = run[j].file
    BY <1>1, <1>2 DEF TypeOK
  <2> QED BY <1>1, <1>4, <2>1, TwinsKeep DEF ImportInv
<1>6. \A f \in Files : f \in run[i].todo \/ run[i].file = f => FALSE
  BY <1>1, <1>3, StoreAssumption
<1> HIDE DEF Alike, Stored, Twins
<1> QED BY <1>1, <1>2, <1>3, <1>5, <1>6, ImportRun

LEMMA ImportInsert ==
  ASSUME TypeOK, ImportInv, NEW i \in Imports, NEW m \in NextId, Insert(i, m)
  PROVE  ImportInv'
<1>0. m \in Msgs /\ row[m] = None /\ run[i].pc = "insert" /\ run[i].file \in Files
  BY SceneFacts DEF NextId, Unborn, Insert, ImportInv, AtFile
<1>f. PICK f \in Files : run[i].file = f
  BY <1>0
<1> DEFINE r == ImportedRow(f)
           q == IF f.files THEN [run[i] EXCEPT !.pc = "attach", !.m = m] ELSE Onward(i)
<1>1. /\ row' = [row EXCEPT ![m] = r] /\ run' = [run EXCEPT ![i] = q] /\ UNCHANGED <<scene, broken>>
  BY <1>f DEF Insert, Put, ImportedRow, TypeOK
<1>2. /\ r \in RowKind /\ r.box = f.box /\ r.mid = f.mid /\ r.src = f /\ r.whole = ~f.files /\ r.origin = "import"
  BY <1>0, ImportedRowFacts
<1>3. /\ f.files => q.pc = "attach" /\ q.m = m /\ q.file = f
      /\ ~f.files => q.pc = "next" /\ q.file = None
      /\ q.todo = run[i].todo
  BY <1>f, FileFacts, RunFacts, OnwardFacts DEF RunKind
<1>4. f.files \in BOOLEAN /\ f \in Alike(f) /\ f # None
  BY <1>0, FileFacts, AlikeSelf, StoreAssumption
<1> HIDE DEF r, q
<1>5. /\ \A n \in Msgs \ {m} : row'[n] = row[n] /\ (n \in There' <=> n \in There)
      /\ row'[m] = r /\ m \in There' /\ There' \subseteq Msgs
  BY <1>0, <1>1, <1>2, ThereOne
<1>6. m \notin There /\ There \subseteq Msgs
  BY <1>0 DEF There
<1>7. \A j \in Imports : run'[j] = IF j = i THEN q ELSE run[j]
  BY <1>1 DEF TypeOK
<1>8. \A n \in There : n \in There' /\ row'[n] = row[n]
  BY <1>5, <1>6
<1>9. \A n \in There' : n = m \/ (n \in There /\ row'[n] = row[n])
  BY <1>5
<1> HIDE DEF There, Alike
<1>10. AtFile'
  <2> SUFFICES ASSUME NEW j \in Imports
               PROVE  /\ run'[j].pc \in {"next", "done"} => run'[j].file = None
                      /\ run'[j].pc = "done" => run'[j].todo = {}
                      /\ run'[j].pc \in {"insert", "attach"} => run'[j].file \in Files
                      /\ run'[j].pc = "attach" =>
                           /\ run'[j].m \in Msgs /\ row'[run'[j].m] # None
                           /\ IF run'[j].m \in There' THEN row'[run'[j].m].src = run'[j].file
                              ELSE Alike(run'[j].file) \subseteq broken
    BY <1>1 DEF AtFile
  <2>1. CASE j = i
    BY <1>0, <1>2, <1>3, <1>4, <1>5, <1>7, <2>1, NotThere
  <2>2. CASE j # i
    <3>1. run'[j] = run[j]
      BY <1>7, <2>2
    <3>2. /\ run[j].pc \in {"next", "done"} => run[j].file = None
          /\ run[j].pc = "done" => run[j].todo = {}
          /\ run[j].pc \in {"insert", "attach"} => run[j].file \in Files
          /\ run[j].pc = "attach" =>
               /\ run[j].m \in Msgs /\ row[run[j].m] # None
               /\ IF run[j].m \in There THEN row[run[j].m].src = run[j].file ELSE Alike(run[j].file) \subseteq broken
      BY DEF ImportInv, AtFile
    <3>3. run[j].pc = "attach" => run[j].m # m
      BY <1>0, <3>2
    <3> QED BY <1>5, <3>1, <3>2, <3>3
  <2> QED BY <2>1, <2>2
<1>11. Imported'
  <2> SUFFICES ASSUME NEW n \in There'
               PROVE  /\ row'[n].origin = "import" => row'[n].src \in Files
                      /\ row'[n].src # None => row'[n].mid = row'[n].src.mid /\ row'[n].box = row'[n].src.box
                      /\ row'[n].whole \/ /\ row'[n].src \in Files
                                          /\ \/ Alike(row'[n].src) \subseteq broken
                                             \/ \E j \in Imports : run'[j].pc = "attach" /\ run'[j].m = n
    BY <1>1 DEF Imported
  <2>1. CASE n = m
    <3>1. row'[n] = r
      BY <1>5, <2>1
    <3>2. f.files => run'[i].pc = "attach" /\ run'[i].m = n
      BY <1>3, <1>7, <2>1
    <3> QED BY <1>0, <1>2, <1>4, <3>1, <3>2
  <2>2. CASE n # m
    <3>1. n \in There /\ row'[n] = row[n]
      BY <1>9, <2>2
    <3>2. \A j \in Imports : run[j].pc = "attach" => run'[j] = run[j]
      BY <1>0, <1>7
    <3>3. /\ row[n].origin = "import" => row[n].src \in Files
          /\ row[n].src # None => row[n].mid = row[n].src.mid /\ row[n].box = row[n].src.box
          /\ row[n].whole \/ /\ row[n].src \in Files
                             /\ \/ Alike(row[n].src) \subseteq broken
                                \/ \E j \in Imports : run[j].pc = "attach" /\ run[j].m = n
      BY <3>1 DEF ImportInv, Imported
    <3> QED BY <3>1, <3>2, <3>3
  <2> QED BY <2>1, <2>2
<1>12. Passed'
  <2>1. \A g : Stored(g) => Stored(g)'
    BY <1>8 DEF Stored
  <2>2. ~f.files => Stored(f)'
    BY <1>2, <1>4, <1>5 DEF Stored
  <2> SUFFICES ASSUME NEW j \in scene.imports, NEW g \in scene.files
               PROVE  g \in run'[j].todo \/ run'[j].file = g \/ g \in broken \/ Stored(g)'
    BY <1>1 DEF Passed
  <2>3. j \in Imports /\ (g \in run[j].todo \/ run[j].file = g \/ g \in broken \/ Stored(g))
    BY SceneFacts DEF ImportInv, Passed
  <2> HIDE DEF Stored
  <2>4. CASE j = i
    <3>1. run'[j] = q
      BY <1>7, <2>3, <2>4
    <3>2. CASE f.files
      BY <1>3, <1>f, <2>1, <2>3, <2>4, <3>1, <3>2
    <3>3. CASE ~f.files
      BY <1>3, <1>f, <2>1, <2>2, <2>3, <2>4, <3>1, <3>3
    <3> QED BY <1>4, <3>2, <3>3
  <2>5. CASE j # i
    BY <1>7, <2>1, <2>3, <2>5
  <2> QED BY <2>4, <2>5
<1>13. ASSUME NEW n \in There, row[n].origin = "import", f.mid # "", row[n].mid = f.mid, row[n].box = f.box
       PROVE  f \in broken /\ row[n].src \in broken
  <2>1. Alike(f) \subseteq broken
    BY <1>0, <1>f, <1>13 DEF ImportInv, Twins, TwinSoon
  <2>2. row[n].src \in Files /\ row[n].src.mid = f.mid /\ row[n].src.box = f.box
    BY <1>13, StoreAssumption DEF ImportInv, Imported
  <2>3. row[n].src \in Alike(f)
    BY <1>0, <1>13, <2>2, AlikeMid
  <2> QED BY <1>4, <2>1, <2>3
<1>14. Twins'
  <2>1. TwinMail'
    <3> SUFFICES ASSUME NEW k \in There', NEW n \in There', k # n, row'[k].origin = "import", row'[n].origin = "import",
                        row'[k].mid # "", row'[k].mid = row'[n].mid, row'[k].box = row'[n].box
                 PROVE  row'[k].src \in broken
      BY <1>1 DEF TwinMail
    <3>1. CASE k = m
      BY <1>2, <1>5, <1>9, <1>13, <3>1
    <3>2. CASE n = m
      BY <1>2, <1>5, <1>9, <1>13, <3>2
    <3>3. CASE k # m /\ n # m
      <4>1. k \in There /\ n \in There /\ row'[k] = row[k] /\ row'[n] = row[n]
        BY <1>9, <3>3
      <4> QED BY <4>1 DEF ImportInv, Twins, TwinMail
    <3> QED BY <3>1, <3>2, <3>3
  <2>2. TwinSoon'
    <3> SUFFICES ASSUME NEW j \in Imports, NEW n \in There', run'[j].pc = "insert", row'[n].origin = "import",
                        run'[j].file.mid # "", row'[n].mid = run'[j].file.mid, row'[n].box = run'[j].file.box
                 PROVE  Alike(run'[j].file) \subseteq broken
      BY <1>1 DEF TwinSoon
    <3>1. j # i /\ run'[j] = run[j] /\ run[j].file \in Files
      BY <1>3, <1>4, <1>7 DEF ImportInv, AtFile
    <3>2. CASE n = m
      <4>1. f.mid = run[j].file.mid /\ f.box = run[j].file.box /\ run[j].file.mid # ""
        BY <1>2, <1>5, <3>1, <3>2
      <4>2. f \in Alike(run[j].file)
        BY <1>0, <3>1, <4>1, AlikeMid
      <4> QED BY <1>0, <1>f, <3>1, <4>2 DEF ImportInv, Twins, TwinRuns
    <3>3. CASE n # m
      <4>1. n \in There /\ row'[n] = row[n]
        BY <1>9, <3>3
      <4> QED BY <3>1, <4>1 DEF ImportInv, Twins, TwinSoon
    <3> QED BY <3>2, <3>3
  <2>3. TwinRuns'
    <3> SUFFICES ASSUME NEW j \in Imports, NEW k \in Imports, j # k, run'[j].pc = "insert", run'[k].pc = "insert",
                        run'[k].file \in Alike(run'[j].file)
                 PROVE  Alike(run'[j].file) \subseteq broken
      BY <1>1 DEF TwinRuns
    <3>1. run'[j] = run[j] /\ run'[k] = run[k]
      BY <1>3, <1>4, <1>7
    <3> QED BY <3>1 DEF ImportInv, Twins, TwinRuns
  <2> QED BY <2>1, <2>2, <2>3 DEF Twins
<1> QED BY <1>10, <1>11, <1>12, <1>14 DEF ImportInv

LEMMA ImportAttach ==
  ASSUME TypeOK, ImportInv, NEW i \in Imports, Attach(i)
  PROVE  ImportInv'
<1>f. PICK f \in Files, m \in Msgs :
        /\ run[i].pc = "attach" /\ run[i].file = f /\ run[i].m = m
        /\ IF m \in There THEN row[m].src = f ELSE Alike(f) \subseteq broken
  BY DEF Attach, ImportInv, AtFile
<1> DEFINE q == Onward(i)
<1>1. run' = [run EXCEPT ![i] = q] /\ UNCHANGED <<scene, broken>>
  BY DEF Attach
<1>2. q.pc = "next" /\ q.file = None /\ q.todo = run[i].todo
  BY OnwardFacts
<1> HIDE DEF q
<1>3. \A j \in Imports : run'[j] = IF j = i THEN q ELSE run[j]
  BY <1>1 DEF TypeOK
<1>4. /\ There' = There
      /\ \A n \in There : /\ row'[n].origin = row[n].origin /\ row'[n].src = row[n].src /\ row'[n].mid = row[n].mid
                          /\ row'[n].box = row[n].box
                          /\ IF n = m THEN row'[n].whole = TRUE ELSE row'[n].whole = row[n].whole
      /\ \A n \in Msgs : row[n] # None => row'[n] # None
  <2>1. CASE m \notin There /\ row' = row
    BY <2>1 DEF There
  <2>2. CASE m \in There /\ row' # row
    <3>1. PICK r \in RowKind : /\ row' = [row EXCEPT ![m] = r]
                               /\ r.whole /\ SameMail(row[m], [r EXCEPT !.whole = row[m].whole])
      BY <1>f, <2>2, AttachRow
    <3>2. /\ r.origin = row[m].origin /\ r.src = row[m].src /\ r.mid = row[m].mid /\ r.box = row[m].box
          /\ r.whole = TRUE
      BY <3>1 DEF SameMail, RowKind
    <3>3. /\ \A n \in Msgs \ {m} : row'[n] = row[n] /\ (n \in There' <=> n \in There)
          /\ row'[m] = r /\ m \in There' /\ There' \subseteq Msgs /\ r # None
      <4>1. row' = [row EXCEPT ![m] = r] /\ r \notin {None, Gone}
        BY <3>1, NotThere
      <4> QED BY <3>1, <4>1, ThereOne
    <3>4. There \subseteq Msgs
      BY DEF There
    <3>5. There' = There
      BY <2>2, <3>3, <3>4
    <3> HIDE DEF There
    <3> QED BY <3>2, <3>3, <3>4, <3>5
  <2>3. CASE m \in There /\ row' = row
    <3>1. There' = There
      BY <2>3 DEF There
    <3>2. PICK r \in RowKind : row' = [row EXCEPT ![m] = r] /\ r.whole
      BY <1>f, <2>3, AttachRow
    <3>3. row'[m] = r /\ r.whole = TRUE
      BY <1>f, <3>2 DEF TypeOK, RowKind
    <3>4. row[m].whole = TRUE
      BY <2>3, <3>3
    <3> QED BY <2>3, <3>1, <3>4
  <2> QED BY <1>f, <2>1, <2>2, <2>3, AttachRow
<1> HIDE DEF There, Alike
<1>5. AtFile'
  <2> SUFFICES ASSUME NEW j \in Imports
               PROVE  /\ run'[j].pc \in {"next", "done"} => run'[j].file = None
                      /\ run'[j].pc = "done" => run'[j].todo = {}
                      /\ run'[j].pc \in {"insert", "attach"} => run'[j].file \in Files
                      /\ run'[j].pc = "attach" =>
                           /\ run'[j].m \in Msgs /\ row'[run'[j].m] # None
                           /\ IF run'[j].m \in There' THEN row'[run'[j].m].src = run'[j].file
                              ELSE Alike(run'[j].file) \subseteq broken
    BY <1>1 DEF AtFile
  <2>1. CASE j = i
    BY <1>2, <1>3, <2>1
  <2>2. CASE j # i
    <3>1. run'[j] = run[j]
      BY <1>3, <2>2
    <3>2. /\ run[j].pc \in {"next", "done"} => run[j].file = None
          /\ run[j].pc = "done" => run[j].todo = {}
          /\ run[j].pc \in {"insert", "attach"} => run[j].file \in Files
          /\ run[j].pc = "attach" =>
               /\ run[j].m \in Msgs /\ row[run[j].m] # None
               /\ IF run[j].m \in There THEN row[run[j].m].src = run[j].file ELSE Alike(run[j].file) \subseteq broken
      BY DEF ImportInv, AtFile
    <3> QED BY <1>4, <3>1, <3>2
  <2> QED BY <2>1, <2>2
<1>6. Imported'
  <2> SUFFICES ASSUME NEW n \in There
               PROVE  /\ row'[n].origin = "import" => row'[n].src \in Files
                      /\ row'[n].src # None => row'[n].mid = row'[n].src.mid /\ row'[n].box = row'[n].src.box
                      /\ row'[n].whole \/ /\ row'[n].src \in Files
                                          /\ \/ Alike(row'[n].src) \subseteq broken
                                             \/ \E j \in Imports : run'[j].pc = "attach" /\ run'[j].m = n
    BY <1>1, <1>4 DEF Imported
  <2>1. /\ row[n].origin = "import" => row[n].src \in Files
        /\ row[n].src # None => row[n].mid = row[n].src.mid /\ row[n].box = row[n].src.box
        /\ row[n].whole \/ /\ row[n].src \in Files
                           /\ \/ Alike(row[n].src) \subseteq broken
                              \/ \E j \in Imports : run[j].pc = "attach" /\ run[j].m = n
    BY DEF ImportInv, Imported
  <2>2. n # m => \A j \in Imports : run[j].m = n => run'[j] = run[j]
    BY <1>3, <1>f
  <2>3. /\ row'[n].origin = row[n].origin /\ row'[n].src = row[n].src /\ row'[n].mid = row[n].mid
        /\ row'[n].box = row[n].box
        /\ IF n = m THEN row'[n].whole = TRUE ELSE row'[n].whole = row[n].whole
    BY <1>4
  <2> QED BY <2>1, <2>2, <2>3
<1>7. Passed'
  <2>1. ASSUME NEW g, Stored(g) PROVE Stored(g)'
    <3>1. PICK n \in There : /\ row[n].box = g.box /\ row[n].whole
                             /\ IF g.mid = "" THEN row[n].src = g ELSE row[n].mid = g.mid
      BY <2>1 DEF Stored
    <3>2. row'[n].whole
      BY <1>4, <3>1
    <3> QED BY <1>4, <3>1, <3>2 DEF Stored
  <2>2. f \in broken \/ Stored(f)'
    <3>1. CASE m \in There
      <4>1. row[m].mid = f.mid /\ row[m].box = f.box /\ row[m].src = f
        BY <1>f, <3>1, StoreAssumption DEF ImportInv, Imported
      <4>2. row'[m].mid = f.mid /\ row'[m].box = f.box /\ row'[m].src = f /\ row'[m].whole /\ m \in There'
        BY <1>4, <3>1, <4>1
      <4> QED BY <4>2 DEF Stored
    <3>2. CASE m \notin There
      BY <1>f, <3>2, AlikeSelf
    <3> QED BY <3>1, <3>2
  <2> SUFFICES ASSUME NEW j \in scene.imports, NEW g \in scene.files
               PROVE  g \in run'[j].todo \/ run'[j].file = g \/ g \in broken \/ Stored(g)'
    BY <1>1 DEF Passed
  <2>3. j \in Imports /\ (g \in run[j].todo \/ run[j].file = g \/ g \in broken \/ Stored(g))
    BY SceneFacts DEF ImportInv, Passed
  <2> HIDE DEF Stored
  <2>4. CASE j = i
    BY <1>2, <1>3, <1>f, <2>1, <2>2, <2>3, <2>4
  <2>5. CASE j # i
    BY <1>3, <2>1, <2>3, <2>5
  <2> QED BY <2>4, <2>5
<1>8. Twins'
  <2>1. \A j \in Imports : run'[j].pc = "insert" => run[j].pc = "insert" /\ run'[j].file = run[j].file
    BY <1>2, <1>3
  <2> QED BY <1>1, <1>4, <2>1, TwinsKeep DEF ImportInv
<1> QED BY <1>5, <1>6, <1>7, <1>8 DEF ImportInv

LEMMA ImportStep == Inv /\ [Next]_vars => ImportInv'
<1> SUFFICES ASSUME Inv, [Next]_vars PROVE ImportInv'
  OBVIOUS
<1>0. TypeOK /\ ImportInv /\ scene.imports \subseteq Imports
  BY SceneFacts DEF Inv, Types
<1>n. \A m \in NextId : m \in Msgs /\ row[m] = None
  BY <1>0, SceneFacts DEF NextId, Unborn
<1>1. CASE Keeping
  <2>1. \/ UNCHANGED <<scene, run, broken>>
        \/ \E i \in scene.imports : (\E f \in Files : Take(i, f) \/ LookFails(i, f)) \/ FailFile(i) \/ Exit(i)
    BY <1>1 DEF Keeping, DeliverRaw, SetSeen, RecordMaildirFile, LoseTask, OpenSelect, MarkSelect, MarkUpdate,
         Exists, Recompute, Spawn, Cut, OpenMark, ImapClient, Remove, MoveMessage, SetFolder, Snooze, Unsnooze,
         SetUntil, Tick, vars
  <2>2. CASE UNCHANGED <<scene, run, broken>>
    <3>1. RowsKept
      BY <1>0, <1>1, KeepingKeeps, KeptRows
    <3> QED BY <1>0, <2>2, <3>1, ImportQuiet
  <2>3. ASSUME NEW i \in scene.imports, (\E f \in Files : Take(i, f) \/ LookFails(i, f)) \/ FailFile(i) \/ Exit(i)
        PROVE  ImportInv'
    BY <1>0, <2>3, ImportTake, ImportLookFails, ImportFail, ImportExit
  <2> QED BY <2>1, <2>2, <2>3
<1>2. CASE Arrives
  <2>1. PICK m \in NextId, r \in RowKind :
          row' = [row EXCEPT ![m] = r] /\ r.src = None /\ r.whole /\ r.origin = "inbound"
    BY <1>0, <1>2, ArriveRow
  <2>2. UNCHANGED <<scene, run, broken>> /\ r.origin # "import"
    BY <1>2, <2>1 DEF Arrives, Arrive
  <2> QED BY <1>0, <1>n, <2>1, <2>2, ImportOther
<1>3. ASSUME NEW m \in NextId, NEW b \in scene.boxes, NEW t \in Threads \cup {None},
             FileSent(m, b, t) \/ CopyLocal(m, b, t) \/ DraftCreate(m, b, t)
      PROVE  ImportInv'
  <2>1. PICK r \in RowKind : /\ row' = [row EXCEPT ![m] = r]
                             /\ r.src = None /\ r.whole /\ r.origin \in {"sent", "copy", "draft"}
    BY <1>0, <1>3, MadeRow
  <2>2. UNCHANGED <<scene, run, broken>> /\ r.origin # "import"
    BY <1>3, <2>1 DEF FileSent, CopyLocal, DraftCreate
  <2> QED BY <1>0, <1>n, <2>1, <2>2, ImportOther
<1>4. ASSUME NEW m \in There, DraftDelete(m) PROVE ImportInv'
  BY <1>0, <1>4, ImportDelete
<1>5. ASSUME NEW i \in scene.imports, (\E m \in NextId : Insert(i, m)) \/ Attach(i) PROVE ImportInv'
  BY <1>0, <1>5, ImportInsert, ImportAttach
<1> QED BY <1>1, <1>2, <1>3, <1>4, <1>5, NextCases

-----------------------------------------------------------------------------
(* The theorems.                                                           *)

LEMMA Invariant == Spec => []Inv
<1>1. Init => Inv
  BY TypesInit, FlagInit, MirrorInit, PlaceInit, ImportInit DEF Inv
<1>2. Inv /\ [Next]_vars => Inv'
  BY TypesStep, FlagsStep, MirrorStep, PlaceStep, ImportStep DEF Inv
<1> QED BY <1>1, <1>2, PTL DEF Spec

\* The state is what it is said to be; a message's thread is there.
THEOREM TypeCorrect == Spec => []TypeOK
<1>1. Inv => TypeOK
  BY DEF Inv, Types
<1> QED BY <1>1, Invariant, PTL

\* However many requests mark the messages of a conversation, and in whatever
\* order their statements run, its flag is what its messages say once they are
\* done, unless something passed the flag by (api/messages.rs, mark_read).
THEOREM FlagsHonest == Spec => []FlagHonest
<1>1. Inv => FlagHonest
  BY DEF Inv, FlagInv, Computed, FlagHonest
<1> QED BY <1>1, Invariant, PTL

\* A message whose changes of flag came one at a time is read in its Maildir
\* file if and only if it is read in its row (mail/maildir.rs, set_seen).
THEOREM MirrorFollowsMail == Spec => []MirrorFollows
<1>1. ASSUME Inv PROVE MirrorFollows
  <2> SUFFICES ASSUME NEW m \in There, row[m].file # "none", m \notin apart, ~Busy(m)
               PROVE  disk[m] = Place(row[m].read)
    BY DEF MirrorFollows
  <2>1. (\A k \in task : k.m # m) /\ \A h \in Handlers : at[h].m # m
    BY DEF Busy
  <2>2. Mirrored(m)
    BY <1>1 DEF Inv, MirrorInv
  <2>3. Settled(m)
    BY <2>1, <2>2 DEF Mirrored
  <2> QED BY <2>3 DEF Settled
<1> QED BY <1>1, Invariant, PTL

\* Whatever was done to it, a message is in one list of its mailbox and in no
\* other's, or in none while it is awake in a folder that spells Snoozed another
\* way, and what came and is in the Inbox is in a conversation of the Inbox
\* (api/messages.rs and api/threads.rs, list; move_message).
THEOREM OnePlaceEach == Spec => []InOnePlace
<1>1. ASSUME Inv PROVE InOnePlace
  <2> SUFFICES ASSUME NEW m \in There
               PROVE  /\ Cardinality({p \in Boxes \X Lists : m \in View(p[1], p[2])})
                           = IF row[m].folder = "snoozed" /\ ~Snoozed(m) THEN 0 ELSE 1
                      /\ m \in View(row[m].box, "Inbox") /\ row[m].origin \in {"inbound", "import"}
                           => row[m].thread \in Conversations(row[m].box)
    BY DEF InOnePlace
  <2>0. row[m] \in RowKind /\ row[m].box \in Boxes /\ row[m].folder \in Folders
    BY <1>1, RowFacts DEF Inv, Types, RowKind
  <2> DEFINE list == IF Snoozed(m) THEN "Snoozed" ELSE row[m].folder
             lists == {p \in Boxes \X Lists : m \in View(p[1], p[2])}
  <2>1. \A b, l : l \in Lists => (m \in View(b, l) <=> b = row[m].box /\ l = list)
    BY <2>0 DEF View, Lists, Folders, SnoozedList
  <2>2. ASSUME row[m].folder = "snoozed" /\ ~Snoozed(m) PROVE Cardinality(lists) = 0
    <3>1. list \notin Lists
      BY <2>2 DEF Lists, Folders
    <3> HIDE DEF list
    <3>2. lists = {}
      BY <2>1, <3>1
    <3> QED BY <3>2, FS_EmptySet
  <2>3. ASSUME ~(row[m].folder = "snoozed" /\ ~Snoozed(m)) PROVE Cardinality(lists) = 1
    <3>1. list \in Lists
      BY <2>0, <2>3 DEF Lists, Folders
    <3> HIDE DEF list
    <3>2. lists = {<<row[m].box, list>>}
      BY <2>0, <2>1, <3>1
    <3> QED BY <3>2, FS_Singleton
  <2>4. ASSUME m \in View(row[m].box, "Inbox"), row[m].origin \in {"inbound", "import"}
        PROVE  row[m].thread \in Conversations(row[m].box)
    BY <1>1, <2>4 DEF Inv, PlaceInv, InOwnThread, Conversations
  <2>5. Cardinality(lists) = IF row[m].folder = "snoozed" /\ ~Snoozed(m) THEN 0 ELSE 1
    <3> HIDE DEF lists, Snoozed
    <3> QED BY <2>2, <2>3
  <2> QED BY <2>4, <2>5
<1> QED BY <1>1, Invariant, PTL

\* What a finished import was given is in its mailbox, whole, and nothing is
\* there twice, however many imports run beside the server, unless the file or a
\* look for it failed, two runs met at it or its message was deleted (mail/inbound.rs,
\* import_message; bin/import_mail.rs).
THEOREM ImportsComplete == Spec => []ImportComplete
<1>1. ASSUME Inv PROVE ImportComplete
  <2>1. ASSUME NEW i \in scene.imports, run[i].pc = "done", NEW f \in scene.files \ broken
        PROVE  Stored(f)
    <3>1. i \in Imports /\ f # None
      BY <1>1, SceneFacts, StoreAssumption DEF Inv, Types
    <3>2. run[i].todo = {} /\ run[i].file = None
      BY <1>1, <2>1, <3>1 DEF Inv, ImportInv, AtFile
    <3>3. f \in run[i].todo \/ run[i].file = f \/ f \in broken \/ Stored(f)
      BY <1>1 DEF Inv, ImportInv, Passed
    <3> QED BY <3>1, <3>2, <3>3
  <2>2. TwinMail
    BY <1>1 DEF Inv, ImportInv, Twins
  <2> QED BY <2>1, <2>2 DEF ImportComplete, Stored, TwinMail
<1> QED BY <1>1, Invariant, PTL
=============================================================================
