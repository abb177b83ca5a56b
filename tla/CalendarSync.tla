---------------------------- MODULE CalendarSync ----------------------------
(***************************************************************************)
(* The two-way sync with Google Calendar: the passes of calendar_google.rs *)
(* (the loop of main.rs and the ones of "sync now"), the connect and       *)
(* disconnect handlers of api/calendar_google.rs, and the users who edit   *)
(* the calendar of api/calendar_events.rs or their calendar at Google      *)
(* meanwhile.                                                              *)
(*                                                                         *)
(* A step is one statement or one request.  The tables are those of        *)
(* ensure_schema (SQLite), where a link is a row like any other: nothing   *)
(* makes it unique and nothing deletes it.  When an event is, is not       *)
(* modelled: any of them may be outside the 180 days a listing looks at.   *)
(***************************************************************************)
EXTENDS Integers, FiniteSets

CONSTANTS
  Boxes,      \* mailboxes; each connects its own Google calendar
  Passes,     \* runs of sync_all_accounts: the loop, and the ones of users
  Loops,      \* those the interval of main.rs begins
  Locals,     \* ids of events created here
  Theirs,     \* ids of events created at Google
  RowIds,     \* ids for imported events (Uuid::new_v4)
  MaxAccount, \* bound: account ids handed out
  MaxChange,  \* bound: changes made at Google by its users, per calendar
  MaxPost,    \* bound: copies of one local event at Google
  MaxFault,   \* bound: passes and handlers cut short, posts refused
  Scenes,     \* who takes part in a behaviour, and how often
  None

Null == -1  \* SQL NULL, for an id or a sync token

Gids == Theirs \cup (Locals \X (1..MaxPost))
LastSeq == MaxChange + Cardinality(Locals) * MaxPost
Tokens == {Null} \cup 0..LastSeq
Ids == {Null} \cup 1..MaxAccount

EventKind == [box : Boxes, gid : Gids, at : 1..LastSeq, live : BOOLEAN, timed : BOOLEAN]
ConsentKind == [id : 1..MaxAccount, rkey : Ids]

ASSUME CalendarAssumption ==
  /\ MaxAccount \in Nat /\ MaxChange \in Nat /\ MaxPost \in Nat /\ MaxFault \in Nat
  /\ Loops \subseteq Passes
  /\ IsFiniteSet(Locals) /\ Locals \cap RowIds = {} /\ Theirs \cap (Locals \X (1..MaxPost)) = {}
  /\ None \notin Boxes \cup Locals \cup RowIds \cup EventKind \cup ConsentKind
  /\ Scenes \subseteq [passes : SUBSET Passes, boxes : SUBSET Boxes, locals : SUBSET Locals,
                      theirs : SUBSET Theirs, acts : SUBSET {"edit", "leave", "fail", "far"}, accounts : 0..MaxAccount, changes : 0..MaxChange,
                      faults : 0..MaxFault]
  /\ \A s \in Scenes : Loops \subseteq s.passes

VARIABLES
  scene,     \* one of Scenes
  acct,      \* calendar_accounts, by its UNIQUE mailbox_id
  rows,      \* calendar_events
  links,     \* calendar_event_links
  google,    \* the calendars at Google
  pass,      \* what each run of sync_all_accounts is at
  callback,  \* the OAuth callback of a mailbox between its two statements
  leaving,   \* disconnect, between its two statements
  nextId,    \* account ids handed out
  faults,
  \* history, read by the properties only
  removed,   \* rows their owner deleted
  seen,      \* per mailbox, which of the Events below have happened
  missed     \* events a listing left out for when they are

vars == <<scene, acct, rows, links, google, pass, callback, leaving, nextId, faults, removed, seen, missed>>

\* What can keep the two calendars from agreeing.
Events == {"raced",  \* two passes had the account in hand at once
           "lost",   \* a pass ended between a write and the link for it
           "relist", \* a listing without a token, of an account with imports
           "late",   \* a disconnect found a pass at work on the account
           "left",   \* the mailbox was disconnected
           "cut"}    \* a disconnect has deleted the events, the account is there

NoAccount == [id |-> Null, status |-> "none", token |-> Null, key |-> Null, rkey |-> Null]
Connected(b) == acct[b].status = "connected"

Idle == [pc |-> "idle", todo |-> {}, box |-> None, id |-> Null, token |-> Null, key |-> Null,
         rkey |-> Null, items |-> {}, next |-> Null, item |-> None, found |-> None, push |-> {}]

Happens(b, e) == seen' = [seen EXCEPT ![b] = @ \cup {e}]

\* The change log of a calendar at Google: every change has a number.
Seq(b) == LET S == {g.at : g \in {x \in google : x.box = b}}
          IN IF S = {} THEN 0 ELSE CHOOSE n \in S : \A k \in S : k <= n

\* The account p works on, or will.
InHand(p, b) == pass[p].box = b \/ \E a \in pass[p].todo : a.box = b

At(p, l) == pass[p].pc = l
Go(p, r) == pass' = [pass EXCEPT ![p] = r]
To(p, l) == Go(p, [pass[p] EXCEPT !.pc = l])

GiveUp(p) == Go(p, [Idle EXCEPT !.pc = "error", !.todo = pass[p].todo,
                           !.box = pass[p].box, !.id = pass[p].id])

Tables == <<acct, rows, links, google>>
Others == <<scene, callback, leaving, nextId>>

Init ==
  /\ scene \in Scenes
  /\ acct = [b \in Boxes |-> NoAccount]
  /\ rows = {} /\ links = {} /\ removed = {}
  /\ google = {}
  /\ pass = [p \in Passes |-> Idle]
  /\ callback = [b \in Boxes |-> None]
  /\ leaving = {}
  /\ nextId = 0 /\ faults = 0
  /\ seen = [b \in Boxes |-> {}] /\ missed = {}

-----------------------------------------------------------------------------
(* A pass: sync_all_accounts and what it calls. *)

\* load_accounts: connected accounts only, with their tokens as they are now.
Snapshots ==
  {[box |-> b, id |-> acct[b].id, token |-> acct[b].token, key |-> acct[b].key,
    rkey |-> acct[b].rkey] : b \in {x \in Boxes : Connected(x)}}

LoadAccounts(p) ==
  /\ At(p, "idle")
  /\ Snapshots # {}
  /\ Go(p, [Idle EXCEPT !.pc = "next", !.todo = Snapshots])
  /\ seen' = [b \in Boxes |-> IF ~Connected(b) THEN seen[b] ELSE
       seen[b] \cup (IF \E q \in Passes : InHand(q, b) THEN {"raced"} ELSE {})
               \cup (IF b \in leaving THEN {"late"} ELSE {})]
  /\ UNCHANGED <<Tables, Others, faults, removed, missed>>

NextAccount(p) ==
  /\ At(p, "next")
  /\ \/ pass[p].todo = {} /\ Go(p, Idle)
     \/ \E a \in pass[p].todo :
          Go(p, [Idle EXCEPT !.pc = "auth", !.todo = pass[p].todo \ {a}, !.box = a.box,
                 !.id = a.id, !.token = a.token, !.key = a.key, !.rkey = a.rkey])
  /\ UNCHANGED <<Tables, Others, faults, removed, seen, missed>>

\* A token can be decrypted under the account id it was encrypted for.
Readable(key, id) == key = id

\* refresh_access_token, whose answer persist_refreshed_token stores by account id.
Refresh(p) ==
  /\ Readable(pass[p].rkey, pass[p].id)
  /\ acct' = [b \in Boxes |->
       IF acct[b].id = pass[p].id THEN [acct[b] EXCEPT !.key = pass[p].id] ELSE acct[b]]

\* valid_access_token: the one of the row while it is good, or a new one.
ValidAccessToken(p) ==
  /\ At(p, "auth")
  /\ LET me == pass[p] IN
       \/ /\ (Readable(me.key, me.id) /\ UNCHANGED acct) \/ Refresh(p)
          /\ Go(p, [me EXCEPT !.pc = "list", !.key = Null, !.rkey = Null])
       \/ /\ ~(Readable(me.key, me.id) /\ Readable(me.rkey, me.id))
          /\ GiveUp(p) /\ UNCHANGED acct
  /\ UNCHANGED <<rows, links, google, Others, faults, removed, seen, missed>>

\* What Google lists: with a token the changes since, cancelled events among
\* them; without one the events there are within 180 days of now.
Listed(b, token, window) ==
  {g \in google : g.box = b /\ IF token = Null THEN g.live /\ g \in window ELSE g.at > token}

Windows == IF "far" \in scene.acts THEN SUBSET google ELSE {google}

\* Fault: the token is stored before the items are.
PullFirst(p) ==
  /\ At(p, "list")
  /\ LET me == pass[p] IN
       /\ Go(p, [me EXCEPT !.pc = "items", !.items = Listed(me.box, me.token, google), !.token = Null])
       /\ acct' = [b \in Boxes |->
            IF acct[b].id = me.id THEN [acct[b] EXCEPT !.token = Seq(me.box)] ELSE acct[b]]
  /\ UNCHANGED <<rows, links, google, Others, faults, removed, seen, missed>>

\* pull_google_events up to the items.
Pull(p) ==
  /\ At(p, "list")
  /\ LET me == pass[p] IN
       /\ \E window \in Windows :
            /\ Go(p, [me EXCEPT !.pc = "items", !.items = Listed(me.box, me.token, window),
                                !.next = Seq(me.box), !.token = Null])
            /\ missed' = missed \cup
                 {g \in google \ window : g.box = me.box /\ g.live /\ me.token = Null}
       /\ IF me.token = Null /\ \E l \in links : l.acct = me.id
            THEN Happens(me.box, "relist") ELSE UNCHANGED seen
  /\ UNCHANGED <<acct, rows, links, google, Others, faults, removed>>

\* A page is answered with 410: clear_sync_token, and on without its items.
Expired(p) ==
  /\ \/ At(p, "list") /\ pass[p].token # Null
     \/ At(p, "items") /\ pass[p].items # {}
  /\ Go(p, [pass[p] EXCEPT !.pc = "select", !.items = {}, !.next = Null, !.token = Null])
  /\ acct' = [b \in Boxes |->
       IF acct[b].id = pass[p].id THEN [acct[b] EXCEPT !.token = Null] ELSE acct[b]]
  /\ UNCHANGED <<rows, links, google, Others, faults, removed, seen, missed>>

LinksOf(id, gid) == {l \in links : l.acct = id /\ l.gid = gid}

\* upsert_from_google, its SELECT: is this item known already?  Nothing is done
\* about one that has no start, known or not.
FindLink(p) ==
  /\ At(p, "items")
  /\ LET me == pass[p] IN
       \/ me.items = {} /\ To(p, "select")
       \/ \E i \in me.items :
            LET known == LinksOf(me.id, i.gid)
                Takes(found) ==
                  Go(p, [me EXCEPT !.pc = "apply", !.items = @ \ {i}, !.item = i, !.found = found]) IN
            \/ (i.live => i.timed) /\ \E l \in known : Takes(l.local)
            \/ known = {} /\ i.live /\ i.timed /\ Takes(None)
            \/ /\ IF i.live THEN ~i.timed ELSE known = {}
               /\ Go(p, [me EXCEPT !.items = @ \ {i}])
  /\ UNCHANGED <<Tables, Others, faults, removed, seen, missed>>

Used == {r.id : r \in rows} \cup {l.local : l \in links} \cup removed
          \cup {pass[p].found : p \in Passes}
Fresh == CHOOSE i \in RowIds : i \notin Used

\* upsert_from_google, its write: delete_local_event, update_local_event or
\* insert_local_event.
Apply(p) ==
  /\ At(p, "apply")
  /\ LET me == pass[p]
         rest == [me EXCEPT !.pc = "items", !.item = None, !.found = None] IN
       \/ /\ me.found # None /\ ~me.item.live
          /\ rows' = {r \in rows : r.id # me.found}
          /\ Go(p, rest)
       \/ /\ me.found # None /\ me.item.live
          /\ rows' = {IF r.id = me.found THEN [r EXCEPT !.ver = me.item.at] ELSE r : r \in rows}
          /\ Go(p, rest)
       \/ /\ me.found = None
          /\ RowIds \ Used # {}
          /\ rows' = rows \cup {[id |-> Fresh, box |-> me.box, source |-> "google", ver |-> me.item.at]}
          /\ Go(p, [me EXCEPT !.pc = "link", !.found = Fresh])
  /\ UNCHANGED <<acct, links, google, Others, faults, removed, seen, missed>>

\* insert_link; item is the event imported, or the copy just posted.
InsertLink(p) ==
  /\ pass[p].pc \in {"link", "linkpost"}
  /\ LET me == pass[p] IN
       /\ links' = links \cup {[acct |-> me.id, local |-> me.found, gid |-> me.item.gid]}
       /\ Go(p, [me EXCEPT !.pc = IF me.pc = "link" THEN "items" ELSE "post",
                           !.item = None, !.found = None])
  /\ UNCHANGED <<acct, rows, google, Others, faults, removed, seen, missed>>

\* Fault: the query joins the links by their account instead of by their event.
UnlinkedYet(b) ==
  {r.id : r \in {x \in rows : x.box = b /\ x.source = "local" /\ \A l \in links : l.acct # acct[b].id}}

\* push_local_events, its SELECT: events created here that no link names.
Unlinked(b) ==
  {r.id : r \in {x \in rows : x.box = b /\ x.source = "local" /\ \A l \in links : l.local # x.id}}

SelectLocal(p) ==
  /\ At(p, "select")
  /\ Go(p, [pass[p] EXCEPT !.pc = "post", !.push = Unlinked(pass[p].box)])
  /\ UNCHANGED <<Tables, Others, faults, removed, seen, missed>>

Copies(e) == {g \in google : g.gid \in {e} \X (1..MaxPost)}
Copy(b, e) == [box |-> b, gid |-> <<e, Cardinality(Copies(e)) + 1>>, at |-> Seq(b) + 1, live |-> TRUE,
               timed |-> TRUE]

\* push_local_events, one POST: taken, taken without an answer, or refused.
Post(p) ==
  /\ At(p, "post")
  /\ LET me == pass[p] IN
       \/ /\ me.push = {} /\ To(p, "mark")
          /\ UNCHANGED <<google, faults, seen>>
       \/ \E e \in me.push :
            \/ /\ Cardinality(Copies(e)) < MaxPost
               /\ google' = google \cup {Copy(me.box, e)}
               /\ \/ /\ Go(p, [me EXCEPT !.pc = "linkpost", !.push = @ \ {e}, !.found = e,
                                         !.item = Copy(me.box, e)])
                     /\ UNCHANGED seen
                  \/ /\ GiveUp(p)
                     /\ Happens(me.box, "lost")
               /\ UNCHANGED faults
            \/ /\ faults < scene.faults /\ faults' = faults + 1
               /\ Go(p, [me EXCEPT !.push = @ \ {e}])
               /\ UNCHANGED <<google, seen>>
  /\ UNCHANGED <<acct, rows, links, Others, removed, missed>>

Coalesce(new, old) == IF new = Null THEN old ELSE new

\* Fault: the pass goes on without leaving the account behind.
MarkSyncedOnly(p) ==
  /\ At(p, "mark")
  /\ acct' = [b \in Boxes |->
       IF acct[b].id = pass[p].id
         THEN [acct[b] EXCEPT !.status = "connected", !.token = Coalesce(pass[p].next, @)]
         ELSE acct[b]]
  /\ To(p, "next")
  /\ UNCHANGED <<rows, links, google, Others, faults, removed, seen, missed>>

\* mark_synced: WHERE id, whatever has become of the account.
MarkSynced(p) ==
  /\ At(p, "mark")
  /\ acct' = [b \in Boxes |->
       IF acct[b].id = pass[p].id
         THEN [acct[b] EXCEPT !.status = "connected", !.token = Coalesce(pass[p].next, @)]
         ELSE acct[b]]
  /\ Go(p, [Idle EXCEPT !.pc = "next", !.todo = pass[p].todo])
  /\ UNCHANGED <<rows, links, google, Others, faults, removed, seen, missed>>

\* A request or a statement fails: sync_account returns early.
Fail(p) ==
  /\ pass[p].pc \in {"auth", "list", "items", "apply", "link", "select", "post", "linkpost", "mark"}
  /\ GiveUp(p)
  /\ IF pass[p].pc \in {"link", "linkpost"} THEN Happens(pass[p].box, "lost") ELSE UNCHANGED seen
  /\ UNCHANGED <<Tables, Others, faults, removed, missed>>

\* mark_error, and on with the next account.
MarkError(p) ==
  /\ At(p, "error")
  /\ acct' = [b \in Boxes |->
       IF acct[b].id = pass[p].id THEN [acct[b] EXCEPT !.status = "error"] ELSE acct[b]]
  /\ Go(p, [Idle EXCEPT !.pc = "next", !.todo = pass[p].todo])
  /\ UNCHANGED <<rows, links, google, Others, faults, removed, seen, missed>>

\* The process dies or the client of "sync now" goes away: the pass ends where
\* it is.
Drop(p) ==
  /\ ~At(p, "idle")
  /\ faults < scene.faults /\ faults' = faults + 1
  /\ Go(p, Idle)
  /\ IF pass[p].pc \in {"link", "linkpost"} THEN Happens(pass[p].box, "lost") ELSE UNCHANGED seen
  /\ UNCHANGED <<Tables, Others, removed, missed>>

-----------------------------------------------------------------------------
(* api/calendar_google.rs: connect and disconnect. *)

\* callback_inner: the code is exchanged, and the refresh token of the row there
\* is kept, as it was encrypted, when Google gives none.
Exchange(b) ==
  /\ callback[b] = None
  /\ nextId < scene.accounts
  /\ nextId' = nextId + 1
  /\ \/ callback' = [callback EXCEPT ![b] = [id |-> nextId', rkey |-> nextId']]
     \/ /\ acct[b] # NoAccount
        /\ callback' = [callback EXCEPT ![b] = [id |-> nextId', rkey |-> acct[b].rkey]]
  /\ UNCHANGED <<scene, Tables, pass, leaving, faults, removed, seen, missed>>

\* upsert_account: a row that is there keeps its id and its sync token.
UpsertAccount(b) ==
  /\ callback[b] # None
  /\ LET c == callback[b]
         row == IF acct[b] = NoAccount THEN [acct[b] EXCEPT !.id = c.id] ELSE acct[b] IN
       acct' = [acct EXCEPT ![b] =
                  [row EXCEPT !.status = "connected", !.key = c.id, !.rkey = c.rkey]]
  /\ callback' = [callback EXCEPT ![b] = None]
  /\ UNCHANGED <<scene, rows, links, google, pass, leaving, nextId, faults, removed, seen, missed>>

\* Fault: the events are found by the links, as the comment of disconnect has it.
DeleteLinked(b) ==
  /\ b \notin leaving /\ acct[b] # NoAccount
  /\ rows' = {r \in rows : ~(r.box = b /\ r.source = "google"
                             /\ \E l \in links : l.acct = acct[b].id /\ l.local = r.id)}
  /\ leaving' = leaving \cup {b}
  /\ seen' = [seen EXCEPT ![b] =
       @ \cup {"cut"} \cup (IF \E p \in Passes : InHand(p, b) THEN {"late"} ELSE {})]
  /\ UNCHANGED <<scene, acct, links, google, pass, callback, nextId, faults, removed, missed>>

\* disconnect, its first DELETE: the events that came from Google.
DeleteImported(b) ==
  /\ b \notin leaving /\ acct[b] # NoAccount
  /\ rows' = {r \in rows : ~(r.box = b /\ r.source = "google")}
  /\ leaving' = leaving \cup {b}
  /\ seen' = [seen EXCEPT ![b] =
       @ \cup {"cut"} \cup (IF \E p \in Passes : InHand(p, b) THEN {"late"} ELSE {})]
  /\ UNCHANGED <<scene, acct, links, google, pass, callback, nextId, faults, removed, missed>>

\* Its second: the account, or nothing if another disconnect was quicker.
DeleteAccount(b) ==
  /\ b \in leaving
  /\ acct' = [acct EXCEPT ![b] = NoAccount]
  /\ leaving' = leaving \ {b}
  /\ seen' = [seen EXCEPT ![b] =
       (@ \ {"cut"}) \cup {"left"} \cup (IF \E p \in Passes : InHand(p, b) THEN {"late"} ELSE {})]
  /\ UNCHANGED <<scene, rows, links, google, pass, callback, nextId, faults, removed, missed>>

\* The client goes away between the two.
StopLeaving(b) ==
  /\ b \in leaving
  /\ faults < scene.faults /\ faults' = faults + 1
  /\ leaving' = leaving \ {b}
  /\ UNCHANGED <<scene, Tables, pass, callback, nextId, removed, seen, missed>>

-----------------------------------------------------------------------------
(* The users, here (api/calendar_events.rs) and at Google. *)

Mine == 0  \* a row that shows what its owner wrote, not a version of Google's

Create(b, e) ==
  /\ e \notin removed \cup {r.id : r \in rows} \cup {l.local : l \in links}
  /\ rows' = rows \cup {[id |-> e, box |-> b, source |-> "local", ver |-> Mine]}
  /\ UNCHANGED <<acct, links, google, pass, Others, faults, removed, seen, missed>>

Update(r) ==
  /\ r.ver # Mine
  /\ rows' = (rows \ {r}) \cup {[r EXCEPT !.ver = Mine]}
  /\ UNCHANGED <<acct, links, google, pass, Others, faults, removed, seen, missed>>

Remove(r) ==
  /\ rows' = rows \ {r}
  /\ removed' = removed \cup {r.id}
  /\ UNCHANGED <<acct, links, google, pass, Others, faults, seen, missed>>

\* Whether they have a start.
Timed == IF "far" \in scene.acts THEN BOOLEAN ELSE {TRUE}

GoogleCreates(b, i) ==
  /\ Seq(b) < scene.changes
  /\ \A g \in google : g.gid # i
  /\ \E timed \in Timed :
       google' = google \cup {[box |-> b, gid |-> i, at |-> Seq(b) + 1, live |-> TRUE, timed |-> timed]}
  /\ UNCHANGED <<acct, rows, links, pass, Others, faults, removed, seen, missed>>

\* Changed, or cancelled, which is final.
GoogleChanges(g) ==
  /\ g.live
  /\ Seq(g.box) < scene.changes
  /\ \E live \in BOOLEAN, timed \in Timed :
       google' = (google \ {g}) \cup {[g EXCEPT !.at = Seq(g.box) + 1, !.live = live, !.timed = timed]}
  /\ UNCHANGED <<acct, rows, links, pass, Others, faults, removed, seen, missed>>

Sync(p) ==
  \/ LoadAccounts(p) \/ NextAccount(p) \/ ValidAccessToken(p) \/ Pull(p) \/ Expired(p)
  \/ FindLink(p) \/ Apply(p)
  \/ InsertLink(p) \/ SelectLocal(p) \/ Post(p) \/ MarkSynced(p) \/ MarkError(p)

Users ==
  \/ \E b \in scene.boxes :
       \/ Exchange(b) \/ UpsertAccount(b)
       \/ "leave" \in scene.acts /\ DeleteImported(b)
       \/ DeleteAccount(b) \/ StopLeaving(b)
       \/ \E e \in scene.locals : Create(b, e)
       \/ \E i \in scene.theirs : GoogleCreates(b, i)
  \/ "edit" \in scene.acts /\ \E r \in rows : Update(r) \/ Remove(r)
  \/ \E g \in google : GoogleChanges(g)

Next == Users \/ \E p \in scene.passes : Sync(p) \/ ("fail" \in scene.acts /\ Fail(p)) \/ Drop(p)

Spec == Init /\ [][Next]_vars

\* tokio runs the loop on, Google answers, and a disconnect that has begun ends;
\* its interval begins the loop's next pass.  What users begin may end anywhere.
Fairness ==
  /\ \A p \in Loops : WF_vars(Sync(p))
  /\ \A b \in Boxes : WF_vars(DeleteAccount(b))

FairSpec == Spec /\ Fairness

-----------------------------------------------------------------------------
AccountKind == [id : Ids, status : {"none", "connected", "error"}, token : Tokens, key : Ids, rkey : Ids]
SnapshotKind == [box : Boxes, id : 1..MaxAccount, token : Tokens, key : Ids, rkey : Ids]
RowKind == [id : Locals \cup RowIds, box : Boxes, source : {"local", "google"}, ver : 0..LastSeq]
LinkKind == [acct : 1..MaxAccount, local : Locals \cup RowIds, gid : Gids]
PassKind == [pc : {"idle", "next", "auth", "list", "items", "apply", "link", "select", "post", "linkpost", "mark",
                   "error"},
             todo : SUBSET SnapshotKind, box : Boxes \cup {None}, id : Ids, token : Tokens, key : Ids, rkey : Ids,
             items : SUBSET EventKind, next : Tokens, item : EventKind \cup {None},
             found : Locals \cup RowIds \cup {None}, push : SUBSET Locals]

\* What the state is made of; a row has one id, and a pass at work an account.
TypeOK ==
  /\ scene \in Scenes
  /\ acct \in [Boxes -> AccountKind]
  /\ rows \subseteq RowKind
  /\ \A r1, r2 \in rows : r1.id = r2.id => r1 = r2
  /\ links \subseteq LinkKind
  /\ google \subseteq EventKind
  /\ pass \in [Passes -> PassKind]
  /\ \A p \in Passes : pass[p].box = None <=> pass[p].pc \in {"idle", "next"}
  /\ callback \in [Boxes -> ConsentKind \cup {None}]
  /\ leaving \subseteq Boxes /\ nextId \in 0..MaxAccount /\ faults \in 0..MaxFault
  /\ removed \subseteq Locals \cup RowIds /\ seen \in [Boxes -> SUBSET Events]
  /\ missed \subseteq EventKind

\* The row that mirrors g for its owner, by the links of the account.
Mirror(b, g) == {r \in rows : \E l \in LinksOf(acct[b].id, g.gid) : l.local = r.id}

\* Nothing is lost behind a sync token: whatever changed at Google up to the token
\* of a row is in the calendar - shown in that version or in the owner's later
\* words, or deleted by its owner; and gone where it was cancelled - although pull,
\* link and token are separate statements.  But for what is never taken over: an
\* event that was outside the 180 days when a listing without a token was made and
\* has not been changed since, and one without a start.  Two passes at once break
\* it, as does a disconnect that stops half-way; and a listing from the start -
\* after a 410, or after a first pass that failed - leaves what was cancelled since
\* the last.
TokenCovers ==
  \A b \in Boxes : seen[b] \cap {"raced", "cut"} = {} =>
    \A g \in google : g.box = b /\ g.at <= acct[b].token =>
      /\ g.live /\ g.timed /\ g \notin missed =>
           /\ LinksOf(acct[b].id, g.gid) # {}
           /\ \A l \in LinksOf(acct[b].id, g.gid) :
                l.local \in removed \/ \E r \in Mirror(b, g) : r.id = l.local
           /\ \A r \in Mirror(b, g) : r.ver = Mine \/ r.ver >= g.at
      /\ ~g.live /\ "relist" \notin seen[b] => Mirror(b, g) = {}

\* An event is in each calendar once - one row for one Google event, one Google
\* event for one row - as long as passes do not overlap, none ends between a
\* write and its link, and the mailbox stays connected.
OnceEach ==
  \A b \in Boxes : seen[b] \cap {"raced", "lost", "left", "late", "cut"} = {} =>
    /\ \A l1, l2 \in links : l1.acct = acct[b].id /\ l2.acct = acct[b].id
                               /\ (l1.gid = l2.gid \/ l1.local = l2.local) => l1 = l2
    /\ \A e \in Locals : Cardinality({g \in Copies(e) : g.box = b}) <= 1
    /\ \A r \in rows : r.box = b /\ r.source = "google" =>
         \A l \in links : l.local = r.id => l.gid \in Theirs

\* api/calendar_google.rs:188 - "Google-imported events for this mailbox are
\* deleted": none is left in a mailbox that is not connected, unless a pass was at
\* work on the account when it was disconnected.
OrphansWereInFlight ==
  \A b \in Boxes : acct[b] = NoAccount /\ "late" \notin seen[b] =>
    \A r \in rows : r.box = b => r.source = "local"

\* One event of the user is one event, wherever he made it and whatever he connects
\* or disconnects (calendar_google.rs, pull_google_events and push_local_events).
NoDoublesNorOrphans == OnceEach /\ OrphansWereInFlight

\* The bounds on ids and copies leave room for one more of each.
Room == RowIds \ Used # {} /\ \A e \in Locals : Cardinality(Copies(e)) < MaxPost

Waits(b, e) ==
  /\ Room /\ Connected(b)
  /\ \E r \in rows : r.id = e /\ r.box = b
  /\ \A l \in links : l.local # e

\* main.rs:90 - "A per-account failure is recorded on that account's own row and
\* never stops the others": an event created here gets to Google, or its own
\* account is marked, disconnected, or the event deleted.
LocalGetsOut == \A b \in Boxes, e \in Locals : Waits(b, e) ~> ~Waits(b, e)
=============================================================================
