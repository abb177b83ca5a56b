------------------------------ MODULE MailStore ------------------------------
(***************************************************************************)
(* The mail of the tables once it is there: api/messages.rs, api/threads.rs *)
(* and the drafts of agents; its mirror in Maildir files                   *)
(* (mail/maildir.rs), which tasks of their own keep; and the import of a   *)
(* backlog (bin/import_mail.rs), which runs beside the server.             *)
(*                                                                         *)
(* A step is one statement or one rename.  How a message gets here is the  *)
(* business of Inbound and Outbound; here it just arrives, with its thread.*)
(* The tables are those of Postgres.                                       *)
(***************************************************************************)
EXTENDS Integers, FiniteSets

CONSTANTS
  Boxes,     \* mailboxes
  Subjects,  \* what find_or_create_thread goes by
  Msgs,      \* ids of messages, numbers
  Handlers,  \* requests that mark or open a message
  Imports,   \* runs of import_mail
  Files,     \* .eml files, each with what the import makes of it
  MaxTime,   \* bound: the clock
  MaxTask,   \* bound: tasks started
  Scenes,    \* who takes part in a behaviour, and how often
  None,
  Gone       \* a row that was deleted, whose id is given to no other

Null == 0  \* snoozed_until IS NULL; every time a message is snoozed to is positive

Threads == Boxes \X Subjects

\* Names of folders are the user's: "snoozed" stands for the ways to spell the
\* list of what is snoozed, "Snoozed" being one.
Folders == {"Inbox", "Sent", "Drafts", "Trash", "Projects", "snoozed"}
SnoozedList == {"Snoozed", "snoozed"}

FileKind == [box : Boxes, subject : Subjects, mid : {"m", "n", ""}, folder : {"Inbox", "Sent"},
             files : BOOLEAN, no : Nat]

RowKind == [box : Boxes, thread : Threads \cup {None}, folder : Folders, read : BOOLEAN,
            until : 0..MaxTime + 1, file : {"none", "new", "cur"}, mid : {"m", "n", ""},
            src : Files \cup {None}, whole : BOOLEAN,
            origin : {"inbound", "sent", "copy", "draft", "import"}]

SceneKind == [boxes : SUBSET Boxes, msgs : SUBSET Msgs, handlers : SUBSET Handlers, imports : SUBSET Imports,
              files : SUBSET Files, acts : SUBSET {"mark", "edit", "agent", "imap", "mirror"},
              time : 0..MaxTime, tasks : 0..MaxTask, edits : Nat, faults : Nat]

ASSUME StoreAssumption ==
  /\ Msgs \subseteq Nat
  /\ MaxTime \in Nat /\ MaxTask \in Nat
  /\ Files \subseteq FileKind
  /\ None \notin Msgs \cup Threads \cup Imports \cup Files
  /\ None # Gone /\ {None, Gone} \cap RowKind = {}
  /\ Scenes \subseteq SceneKind

VARIABLES
  scene,   \* one of Scenes
  now,
  row,     \* messages
  flag,    \* threads.has_unread, of the threads there are
  disk,    \* where a message's file is in the Maildir, and so its flag
  task,    \* the tasks about files
  begun,   \* tasks begun
  at,      \* what a handler is at
  run,     \* what an import is at
  edits, faults,
  \* history, read by the properties only
  apart,   \* messages whose file something but its tasks has left behind
  stale,   \* threads whose flag has not been computed since their mail changed
  broken   \* files whose import or whose look failed or met another run at the same
           \* file, or whose message was deleted since

vars == <<scene, now, row, flag, disk, task, begun, at, run, edits, faults, apart, stale, broken>>

\* "new" has no S flag, "cur" has it, "opened" is cur/ without it, which only
\* IMAP clients make.
Places == {"none", "new", "cur", "opened"}

Acts(a) == a \in scene.acts
Idle == [pc |-> "idle", m |-> None, read |-> FALSE, thread |-> None, file |-> "none", bold |-> FALSE]

There == {m \in Msgs : row[m] \notin {None, Gone}}
Unborn == {m \in scene.msgs : row[m] = None}

Init ==
  /\ scene \in Scenes
  /\ now = 0
  /\ row = [m \in Msgs |-> None]
  /\ flag = [t \in Threads |-> "none"]
  /\ disk = [m \in Msgs |-> "none"]
  /\ task = {} /\ begun = 0
  /\ at = [h \in Handlers |-> Idle]
  /\ run = [i \in Imports |-> [pc |-> "next", todo |-> IF i \in scene.imports THEN scene.files ELSE {},
                               file |-> None, m |-> None]]
  /\ edits = 0 /\ faults = 0
  /\ apart = {} /\ stale = {} /\ broken = {}

\* Bounds on failures and on what users do.
Faulty == faults < scene.faults /\ faults' = faults + 1
Edit == edits < scene.edits /\ edits' = edits + 1

-----------------------------------------------------------------------------
(* What the lists show.                                                     *)

Snoozed(m) == row[m].until # Null /\ row[m].until > now

\* Fault: only the list of what is snoozed looks at snoozed_until.
ViewAll(b, folder) ==
  {m \in There : row[m].box = b /\ IF folder \in SnoozedList THEN Snoozed(m) ELSE row[m].folder = folder}

\* messages.rs, list: the messages of one folder of one mailbox.  However it is
\* spelt, the list of what is snoozed looks at snoozed_until and at no folder.
View(b, folder) ==
  {m \in There : row[m].box = b /\ IF folder \in SnoozedList THEN Snoozed(m)
                                   ELSE row[m].folder = folder /\ ~Snoozed(m)}

\* The lists there are, each by one name.
Lists == (Folders \ {"snoozed"}) \cup {"Snoozed"}

\* threads.rs, list: the conversations with something in the Inbox.
Conversations(b) == {row[m].thread : m \in View(b, "Inbox")} \cap ({b} \X Subjects)

Unread(t) == \E m \in There : row[m].thread = t /\ ~row[m].read

-----------------------------------------------------------------------------
(* The mirror: one task per file stored and per change of its flag.        *)

\* The tasks after one more: it takes the file from where it was to where its
\* flag says it belongs.  Storing it first is the same, from nowhere.
Begin(m, from, to, by) ==
  /\ begun < scene.tasks
  /\ begun' = begun + 1
  /\ task' = task \cup {[id |-> begun, m |-> m, from |-> from, to |-> to, by |-> by, pc |-> "file"]}

Place(read) == IF read THEN "cur" ELSE "new"

\* by: the import whose process the task belongs to, None for the server.
Mirror(m, read, by) ==
  IF Acts("mirror") THEN Begin(m, "none", Place(read), by) ELSE UNCHANGED <<task, begun>>

\* deliver_raw: tmp/ and a rename.
DeliverRaw(k) ==
  /\ k.pc = "file" /\ k.from = "none"
  /\ disk' = [disk EXCEPT ![k.m] = k.to]
  /\ task' = (task \ {k}) \cup {[k EXCEPT !.pc = "record"]}
  /\ UNCHANGED <<scene, now, row, flag, begun, at, run, edits, faults, apart, stale, broken>>

\* set_seen: nothing to do, a rename, or a rename of a file that is not there
\* any more.
SetSeen(k) ==
  /\ k.pc = "file" /\ k.from # "none"
  /\ IF k.from # k.to /\ disk[k.m] = k.from
       THEN /\ disk' = [disk EXCEPT ![k.m] = k.to]
            /\ task' = (task \ {k}) \cup {[k EXCEPT !.pc = "record"]}
       ELSE /\ task' = task \ {k}
            /\ UNCHANGED disk
  /\ UNCHANGED <<scene, now, row, flag, begun, at, run, edits, faults, apart, stale, broken>>

\* Fault: the new path of a renamed file is not recorded.
RecordFirst(k) ==
  /\ k.pc = "record"
  /\ task' = task \ {k}
  /\ row' = [row EXCEPT ![k.m] = IF k.m \in There /\ k.from = "none" THEN [@ EXCEPT !.file = k.to] ELSE @]
  /\ UNCHANGED <<scene, now, flag, disk, begun, at, run, edits, faults, apart, stale, broken>>

\* record_maildir_file
RecordMaildirFile(k) ==
  /\ k.pc = "record"
  /\ task' = task \ {k}
  /\ row' = [row EXCEPT ![k.m] = IF k.m \in There THEN [@ EXCEPT !.file = k.to] ELSE @]
  /\ UNCHANGED <<scene, now, flag, disk, begun, at, run, edits, faults, apart, stale, broken>>

\* The mailbox is gone, the disk or the statement fails, or the process ends.
LoseTask(k) ==
  /\ Faulty
  /\ task' = task \ {k}
  /\ apart' = apart \cup {k.m}
  /\ UNCHANGED <<scene, now, row, flag, disk, begun, at, run, edits, stale, broken>>

\* A client of Dovecot opens the folder, reads the message or unreads it.
ImapClient(m) ==
  /\ Acts("imap") /\ disk[m] # "none"
  /\ Edit
  /\ \E p \in Places \ {"none", "new", disk[m]} : disk' = [disk EXCEPT ![m] = p]
  /\ apart' = apart \cup {m}
  /\ UNCHANGED <<scene, now, row, flag, task, begun, at, run, faults, stale, broken>>

-----------------------------------------------------------------------------
(* Mail comes.                                                              *)

Row(b, t, folder, read, origin) ==
  [box |-> b, thread |-> t, folder |-> folder, read |-> read, until |-> Null, file |-> "none",
   mid |-> "", src |-> None, whole |-> TRUE, origin |-> origin]

\* handle_inbound_raw and import_message: a row with the thread of its subject
\* in its mailbox, which is created when it is not there.
Put(m, b, s, r) ==
  /\ row' = [row EXCEPT ![m] = r]
  /\ flag' = [flag EXCEPT ![<<b, s>>] = IF @ = "none" THEN "bold" ELSE @]
  /\ stale' = stale \cup {<<b, s>>}

Arrive(m, b, s, mid, folder) ==
  /\ Put(m, b, s, [Row(b, <<b, s>>, folder, FALSE, "inbound") EXCEPT !.mid = mid])
  /\ Mirror(m, FALSE, None)
  /\ UNCHANGED <<scene, now, disk, at, run, edits, faults, apart, broken>>

\* outbound.rs: the copy in Sent, read, in the thread it answers if any.
FileSent(m, b, t) ==
  /\ t # None => flag[t] # "none" /\ t[1] = b
  /\ row' = [row EXCEPT ![m] = Row(b, t, "Sent", TRUE, "sent")]
  /\ Mirror(m, TRUE, None)
  /\ UNCHANGED <<scene, now, flag, disk, at, run, edits, faults, apart, stale, broken>>

\* outbound.rs: the copy of a recipient on this server, with the sender's
\* thread and without a file.
CopyLocal(m, b, t) ==
  /\ t # None => flag[t] # "none"
  /\ row' = [row EXCEPT ![m] = Row(b, t, "Inbox", FALSE, "copy")]
  /\ stale' = stale \cup ({t} \ {None})
  /\ UNCHANGED <<scene, now, flag, disk, task, begun, at, run, edits, faults, apart, broken>>

-----------------------------------------------------------------------------
(* Messages are read and marked.                                            *)

Busy(m) == \/ \E k \in task : k.m = m
           \/ \E h \in Handlers : at[h].m = m

\* mark_read: where the message belongs and where its file is.
MarkSelect(h, m, read) ==
  /\ Acts("mark") /\ at[h].pc = "idle" /\ Edit
  /\ at' = [at EXCEPT ![h] = [Idle EXCEPT !.pc = "update", !.m = m, !.read = read,
                                          !.thread = row[m].thread, !.file = row[m].file]]
  /\ apart' = IF Busy(m) THEN apart \cup {m}
              ELSE IF row[m].file = disk[m] THEN apart \ {m} ELSE apart
  /\ UNCHANGED <<scene, now, row, flag, disk, task, begun, run, faults, stale, broken>>

MarkUpdate(h) ==
  LET m == at[h].m IN
  /\ at[h].pc = "update"
  /\ row' = [row EXCEPT ![m] = IF m \in There THEN [@ EXCEPT !.read = at[h].read] ELSE @]
  /\ stale' = stale \cup ({at[h].thread} \ {None})
  /\ at' = [at EXCEPT ![h].pc = IF at[h].thread = None THEN "spawn" ELSE "exists"]
  /\ UNCHANGED <<scene, now, flag, disk, task, begun, run, edits, faults, apart, broken>>

\* Fault: only the message that was marked counts.
ExistsOne(h) ==
  LET t == at[h].thread IN
  /\ at[h].pc = "exists"
  /\ at' = [at EXCEPT ![h].bold = ~at[h].read, ![h].pc = "flag"]
  /\ stale' = IF \E g \in Handlers : at[g].pc = "flag" /\ at[g].thread = t THEN stale ELSE stale \ {t}
  /\ UNCHANGED <<scene, now, row, flag, disk, task, begun, run, edits, faults, apart, broken>>

\* UPDATE threads SET has_unread = EXISTS(...): the messages are those of the
\* statement's snapshot, the row it writes may be newer.
Exists(h) ==
  LET t == at[h].thread IN
  /\ at[h].pc = "exists"
  /\ at' = [at EXCEPT ![h].bold = Unread(t), ![h].pc = "flag"]
  /\ stale' = IF \E g \in Handlers : at[g].pc = "flag" /\ at[g].thread = t THEN stale ELSE stale \ {t}
  /\ UNCHANGED <<scene, now, row, flag, disk, task, begun, run, edits, faults, apart, broken>>

Recompute(h) ==
  /\ at[h].pc = "flag"
  /\ flag' = [flag EXCEPT ![at[h].thread] = IF @ = "none" THEN @ ELSE IF at[h].bold THEN "bold" ELSE "plain"]
  /\ at' = [at EXCEPT ![h].pc = "spawn"]
  /\ UNCHANGED <<scene, now, row, disk, task, begun, run, edits, faults, apart, stale, broken>>

\* The answer, and the task that renames the file.
Spawn(h) ==
  /\ at[h].pc = "spawn"
  /\ IF at[h].file = "none" THEN UNCHANGED <<task, begun>>
                            ELSE Begin(at[h].m, at[h].file, Place(at[h].read), None)
  /\ at' = [at EXCEPT ![h] = Idle]
  /\ UNCHANGED <<scene, now, row, flag, disk, run, edits, faults, apart, stale, broken>>

\* A statement fails or the connection is dropped.
Cut(h) ==
  /\ at[h].pc \in {"update", "exists", "flag", "spawn"} /\ Faulty
  /\ at' = [at EXCEPT ![h] = Idle]
  /\ apart' = apart \cup {at[h].m}
  /\ stale' = stale \cup ({at[h].thread} \ {None})
  /\ UNCHANGED <<scene, now, row, flag, disk, task, begun, run, edits, broken>>

\* get_one: the message is read and shown, then marked, neither its thread nor
\* its file.
OpenSelect(h, m) ==
  /\ Acts("mark") /\ at[h].pc = "idle" /\ Edit
  /\ at' = [at EXCEPT ![h] = [Idle EXCEPT !.pc = "open", !.m = m, !.thread = row[m].thread]]
  /\ apart' = IF Busy(m) THEN apart \cup {m} ELSE apart
  /\ UNCHANGED <<scene, now, row, flag, disk, task, begun, run, faults, stale, broken>>

OpenMark(h) ==
  LET m == at[h].m IN
  /\ at[h].pc = "open"
  /\ at' = [at EXCEPT ![h] = Idle]
  /\ IF m \notin There \/ row[m].read
       THEN UNCHANGED <<row, apart, stale>>
       ELSE /\ row' = [row EXCEPT ![m].read = TRUE]
            /\ apart' = apart \cup {m}
            /\ stale' = stale \cup ({at[h].thread} \ {None})
  /\ UNCHANGED <<scene, now, flag, disk, task, begun, run, edits, faults, broken>>

-----------------------------------------------------------------------------
(* Messages are put elsewhere.                                              *)

SetFolder(m, folder) ==
  /\ row' = [row EXCEPT ![m].folder = folder]
  /\ UNCHANGED <<scene, now, flag, disk, task, begun, at, run, faults, apart, stale, broken>>

Remove(m) == Acts("edit") /\ Edit /\ SetFolder(m, "Trash")

\* Fault: the list of system folders is all that is looked at.
MoveAnywhere(m) == Acts("edit") /\ Edit /\ \E f \in Folders \cup {"Snoozed"} : SetFolder(m, f)

\* move_message: any folder but "Snoozed", spelt so: another spelling is a folder
\* like any other, which no list shows.
MoveMessage(m) == Acts("edit") /\ Edit /\ \E f \in Folders : SetFolder(m, f)

SetUntil(m, until) ==
  /\ Acts("edit") /\ Edit
  /\ row' = [row EXCEPT ![m].until = until]
  /\ UNCHANGED <<scene, now, flag, disk, task, begun, at, run, faults, apart, stale, broken>>

Snooze(m) == \E t \in now + 1..MaxTime + 1 : SetUntil(m, t)
Unsnooze(m) == SetUntil(m, Null)

Tick ==
  /\ now < scene.time /\ now' = now + 1
  /\ UNCHANGED <<scene, row, flag, disk, task, begun, at, run, edits, faults, apart, stale, broken>>

\* mcp.rs, draft.create: the thread is what the agent says.
DraftCreate(m, b, t) ==
  /\ Acts("agent") /\ Edit
  /\ t # None => flag[t] # "none"
  /\ row' = [row EXCEPT ![m] = Row(b, t, "Drafts", FALSE, "draft")]
  /\ stale' = stale \cup ({t} \ {None})
  /\ UNCHANGED <<scene, now, flag, disk, task, begun, at, run, faults, apart, broken>>

\* What an import takes the message for.
FilesOf(m) ==
  {f \in Files : row[m].src = f \/ (f.mid # "" /\ f.mid = row[m].mid /\ f.box = row[m].box)}

\* mcp.rs, draft.delete: whatever is in Drafts.
DraftDelete(m) ==
  /\ Acts("agent") /\ Edit
  /\ row[m].folder = "Drafts"
  /\ row' = [row EXCEPT ![m] = Gone]
  /\ stale' = stale \cup ({row[m].thread} \ {None})
  /\ broken' = broken \cup FilesOf(m)
  /\ UNCHANGED <<scene, now, flag, disk, task, begun, at, run, faults, apart>>

-----------------------------------------------------------------------------
(* A backlog is imported.                                                   *)

\* Fault: a Message-ID that is in another mailbox will do.
PresentAnywhere(f) == f.mid # "" /\ \E m \in There : row[m].mid = f.mid

\* Without a Message-ID a file gets a new one, which is nowhere.
Present(f) == f.mid # "" /\ \E m \in There : row[m].box = f.box /\ row[m].mid = f.mid

\* The files that are the same message to the import.
Alike(f) == {g \in Files : g = f \/ (g.mid # "" /\ g.mid = f.mid /\ g.box = f.box)}

Onward(i) == [run[i] EXCEPT !.pc = "next", !.file = None, !.m = None]

\* A look that fails is one that found nothing: the message is imported again.
LookFails(i, f) ==
  /\ run[i].pc = "next" /\ f \in run[i].todo
  /\ Present(f) /\ Faulty
  /\ run' = [run EXCEPT ![i].todo = @ \ {f}, ![i].pc = "insert", ![i].file = f]
  /\ broken' = broken \cup Alike(f)
  /\ UNCHANGED <<scene, now, row, flag, disk, task, begun, at, edits, apart, stale>>

\* import_message looks for the Message-ID ...
Take(i, f) ==
  /\ run[i].pc = "next" /\ f \in run[i].todo
  /\ run' = [run EXCEPT ![i].todo = @ \ {f},
                        ![i].pc = IF Present(f) THEN "next" ELSE "insert",
                        ![i].file = IF Present(f) THEN None ELSE f]
  /\ broken' = IF \E j \in Imports : run[j].pc \in {"insert", "attach"} /\ run[j].file \in Alike(f)
                 THEN broken \cup Alike(f) ELSE broken
  /\ UNCHANGED <<scene, now, row, flag, disk, task, begun, at, edits, faults, apart, stale>>

\* ... inserts the message and starts the task that mirrors it ...
Insert(i, m) ==
  LET f == run[i].file IN
  /\ run[i].pc = "insert"
  /\ Put(m, f.box, f.subject,
         [Row(f.box, <<f.box, f.subject>>, f.folder, FALSE, "import") EXCEPT
            !.mid = f.mid, !.src = f, !.whole = ~f.files])
  /\ Mirror(m, FALSE, i)
  /\ run' = [run EXCEPT ![i] = IF f.files THEN [@ EXCEPT !.pc = "attach", !.m = m] ELSE Onward(i)]
  /\ UNCHANGED <<scene, now, disk, at, edits, faults, apart, broken>>

\* ... and stores its attachments, which fails when the message is gone.
Attach(i) ==
  /\ run[i].pc = "attach"
  /\ row' = [row EXCEPT ![run[i].m] = IF run[i].m \in There THEN [@ EXCEPT !.whole = TRUE] ELSE @]
  /\ run' = [run EXCEPT ![i] = Onward(i)]
  /\ UNCHANGED <<scene, now, flag, disk, task, begun, at, edits, faults, apart, stale, broken>>

\* A file fails: it is counted, and the next one is taken.
FailFile(i) ==
  /\ run[i].pc \in {"insert", "attach"} /\ Faulty
  /\ run' = [run EXCEPT ![i] = Onward(i)]
  /\ broken' = broken \cup Alike(run[i].file)
  /\ UNCHANGED <<scene, now, row, flag, disk, task, begun, at, edits, apart, stale>>

\* The process ends and its tasks with it.
Exit(i) ==
  LET lost == {k \in task : k.by = i} IN
  /\ i \in scene.imports /\ run[i].pc = "next" /\ run[i].todo = {}
  /\ run' = [run EXCEPT ![i].pc = "done"]
  /\ task' = task \ lost
  /\ apart' = apart \cup {k.m : k \in lost}
  /\ UNCHANGED <<scene, now, row, flag, disk, begun, at, edits, faults, stale, broken>>

-----------------------------------------------------------------------------
\* Ids are given in order, which only saves states.
NextId == {m \in Unborn : \A n \in scene.msgs : n < m => row[n] # None}

Next ==
  \/ \E m \in NextId, b \in scene.boxes, s \in Subjects, folder \in {"Inbox", "Projects"},
        mid \in {""} \cup {f.mid : f \in scene.files} : Arrive(m, b, s, mid, folder)
  \/ \E m \in NextId, b \in scene.boxes, t \in Threads \cup {None} :
        \/ FileSent(m, b, t)
        \/ CopyLocal(m, b, t)
        \/ DraftCreate(m, b, t)
  \/ \E k \in task : DeliverRaw(k) \/ SetSeen(k) \/ RecordMaildirFile(k) \/ LoseTask(k)
  \/ \E h \in scene.handlers :
        \/ \E m \in There : OpenSelect(h, m) \/ \E read \in BOOLEAN : MarkSelect(h, m, read)
        \/ MarkUpdate(h) \/ Exists(h) \/ Recompute(h) \/ Spawn(h) \/ Cut(h) \/ OpenMark(h)
  \/ \E m \in There :
        \/ ImapClient(m) \/ Remove(m) \/ MoveMessage(m) \/ Snooze(m) \/ Unsnooze(m) \/ DraftDelete(m)
  \/ \E i \in scene.imports :
        \/ \E f \in Files : Take(i, f) \/ LookFails(i, f)
        \/ \E m \in NextId : Insert(i, m)
        \/ Attach(i) \/ FailFile(i) \/ Exit(i)
  \/ Tick

Spec == Init /\ [][Next]_vars

-----------------------------------------------------------------------------
TaskKind == [id : 0..MaxTask, m : Msgs, from : {"none", "new", "cur"}, to : {"new", "cur"},
             by : Imports \cup {None}, pc : {"file", "record"}]
HandlerKind == [pc : {"idle", "update", "exists", "flag", "spawn", "open"}, m : Msgs \cup {None},
                read : BOOLEAN, thread : Threads \cup {None}, file : {"none", "new", "cur"}, bold : BOOLEAN]
RunKind == [pc : {"next", "insert", "attach", "done"}, todo : SUBSET Files,
            file : Files \cup {None}, m : Msgs \cup {None}]

\* What the state is made of.  A thread a message is in is there, whichever
\* mailbox it is of.
TypeOK ==
  /\ scene \in Scenes /\ now \in 0..MaxTime
  /\ row \in [Msgs -> RowKind \cup {None, Gone}]
  /\ \A m \in There : row[m].thread # None => flag[row[m].thread] # "none"
  /\ flag \in [Threads -> {"none", "bold", "plain"}]
  /\ disk \in [Msgs -> Places]
  /\ task \subseteq TaskKind
  /\ at \in [Handlers -> HandlerKind]
  /\ run \in [Imports -> RunKind]
  /\ apart \subseteq Msgs /\ stale \subseteq Threads /\ broken \subseteq Files

\* Two requests that mark messages of one conversation leave its flag as its
\* messages are, whatever the order of their statements, unless mail came or was
\* read past the flag since, or a second computation began under the first
\* (api/messages.rs, mark_read).
FlagHonest ==
  \A t \in Threads :
    flag[t] # "none" /\ t \notin stale /\ (\A h \in Handlers : ~(at[h].pc = "flag" /\ at[h].thread = t))
      => (flag[t] = "bold") = Unread(t)

\* A message whose changes of flag came one after the other, each with its file
\* where its row said, is read in IMAP if and only if it is read here, once its
\* tasks are done (mail/maildir.rs, set_seen; api/messages.rs, mark_read).
MirrorFollows ==
  \A m \in There :
    row[m].file # "none" /\ m \notin apart /\ ~Busy(m) => disk[m] = Place(row[m].read)

\* Whatever was moved, removed, snoozed and woken: a message is in one list of
\* its mailbox and in no list of another, and is lost to the lists only when it
\* was moved to another spelling of Snoozed, and only while it is awake; and what
\* is in the Inbox and came by mail or import is in a conversation the Inbox
\* shows (api/messages.rs and api/threads.rs, list; move_message).
InOnePlace ==
  \A m \in There :
    /\ Cardinality({p \in Boxes \X Lists : m \in View(p[1], p[2])})
         = IF row[m].folder = "snoozed" /\ ~Snoozed(m) THEN 0 ELSE 1
    /\ m \in View(row[m].box, "Inbox") /\ row[m].origin \in {"inbound", "import"}
         => row[m].thread \in Conversations(row[m].box)

\* "The import is safe to re-run" (mail/inbound.rs, import_message): what a
\* finished import was given is in its mailbox, whole, and no file is there
\* twice, unless that file or the look for it failed, two imports met at it or an
\* agent deleted its message as a draft.
ImportComplete ==
  /\ \A i \in scene.imports : run[i].pc = "done" =>
       \A f \in scene.files \ broken : \E m \in There :
         /\ row[m].box = f.box /\ row[m].whole
         /\ IF f.mid = "" THEN row[m].src = f ELSE row[m].mid = f.mid
  /\ \A m, n \in There :
       m # n /\ row[m].origin = "import" /\ row[n].origin = "import" /\ row[m].mid # ""
         /\ row[m].mid = row[n].mid /\ row[m].box = row[n].box => row[m].src \in broken
=============================================================================
