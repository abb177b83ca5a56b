# AVRY-Mail: specification and proofs

TLA+ modules of the parts of Aivory Mail that are hard to test, the TLC runs that model-check them
on small instances, and theorems TLAPS proves for every instance.

- [1. The system](#1-the-system): parts, state, operations, interactions, what is hard
- [2. The modules](#2-the-modules): which module models which code, and how
- [3. The runs](#3-the-runs): what TLC shows, within which bounds
- [4. The proofs](#4-the-proofs): what TLAPS shows, and by which argument
- [5. Where the code and its words differ](#5-where-the-code-and-its-words-differ)
- [6. What is not modelled](#6-what-is-not-modelled)
- [7. Plan](#7-plan)

Paths without a prefix are under `src/crates/aivory-mail-api/src/`.

## 1. The system

One Rust process, `aivory-mail-api` (axum, tokio), over Postgres or SQLite and an object store. In
front of it for incoming mail: a Cloudflare worker and an SMTP listener of its own,
`aivory-mail-smtp`. Behind it for outgoing mail: Cloudflare's send API, the worker, MailChannels and
SMTP relays. Its clients are a Next.js web app, IMAP through a Dovecot Maildir mirror, and AI agents
over MCP. The process keeps no state that matters outside the tables; what runs is handlers, which
interleave at every `await` and vanish with their connection, and detached tasks, which do not. The
one transaction of the code is in the migrations at start-up (`main.rs:254`): every other statement is
its own, and a step in the models.

### Components, their state and what makes them correct

| Component | State | Operations | Correct if |
|---|---|---|---|
| Idempotent send (`mail/send_guard.rs`, `api/send.rs`) | `send_attempts` | claim, take over, send in a task, finish | a key is held by one request; sends once unless the send was reported failed; answers with the right message |
| Outbound pipeline (`mail/outbound.rs`) | Sent and Inbox rows, attachments | authorize, check, resolve, five transports in turn, file, fan out | what is filed has left; what was refused has not; nobody gets it twice unless a hop lied |
| Inbound delivery (`mail/inbound.rs`) | messages, threads, attachments, `vacation_deliveries` | block list, filters, forward, thread, row, attachments, notices, vacation reply | an acknowledged message is whole; blocked senders stay out; alerts are for Inbox mail |
| Ways in (`aivory-mail-smtp`, `worker/worker.js`) | the session's `to` | MAIL, RCPT, DATA, QUIT; `email()` | a 250 means kept; a sender is rid of its mail in the end |
| Routing of recipients (`mail/routing.rs`) | `mailboxes`, two tables of aliases, rules for a domain | six phases, the first that finds a row decides | a named address leads somewhere, its own mailbox first; a route that is gone is a retry, not an acknowledgement |
| Agent sends (`mcp.rs`, `mcp_reply.rs`, `api/mcp_confirmations.rs`, `api/mcp_capabilities.rs`) | `mcp_capability_grants`, `mcp_send_confirmations`, `agent_send_counts` | issue, revoke, preview, confirm, consume, budget, send | one confirmation, one mail, the one confirmed; never past the daily limit |
| Messages, threads, drafts (`api/messages.rs`, `api/threads.rs`, `mcp.rs`) | messages, threads | mark, open, move, snooze, remove, list | a thread is bold exactly if it has an unread message; a message is in one list |
| Maildir mirror (`mail/maildir.rs`) | files under `new/` and `cur/`, `maildir_file` | write, record, rename, each in a task | the mirror ends up with the flag of the row |
| Import (`bin/import_mail.rs`) | messages, threads, attachments | check, insert, attach, for each file | a run that ended left nothing out and put nothing there twice |
| Google Calendar sync (`calendar_google.rs`, `api/calendar_google.rs`, `api/calendar_events.rs`) | `calendar_accounts`, `calendar_event_links`, `calendar_events` | connect, pull with a token, push, disconnect; a loop and "sync now" | an event is in each calendar once; nothing is lost behind the token |
| Mailboxes and IMAP passwords (`api/mailboxes.rs`, `api/integrations.rs`, `imap_password_vault.rs`) | `mailboxes`, `email_integrations` | issue, reveal, revoke; the owner's own connect and disconnect | what is shown opens the mailbox; the settings page says what Dovecot does |
| Inbox categories (`api/categories.rs`, `categories.rs` of the core crate) | the category of a message, `sender_categories`, the tabs of a user | classify, choose, backfill, list | a conversation is in one tab; a choice wins over the rules |
| Notices (`api/push.rs`, `webpush.rs`, `api/telegram.rs`) | `push_subscriptions`, slots of chats | subscribe, push, prune, reserve a slot | a browser hears of its own mailbox only; a chat keeps its gap |
| Domains, contacts, settings | their tables | edits of one statement | they may change under everything above, and do in the models |

`PROJECT.json` has the complete list, with a status and a reason for each.

### How they interact

- The listener and the worker call `POST /v1/webhooks/inbound`, which is `handle_inbound_raw`; its answer
  decides what their sender is told (`Ingress` relies on what `Forwarding` promises, `Inbound`
  implements it).
- A delivery calls `outbound::send_email` for forwards and vacation replies; mail to a local
  recipient comes back by MX into a delivery (`Outbound`, action `ReturnByMx`).
- `send_once` wraps `outbound::send_email` in a task that a lost connection does not stop
  (`SendGuard`); agents' tools call the same pipeline behind capability, confirmation and budget
  (`AgentSend`).
- All of them share the tables. Deleting a mailbox cascades to its messages, threads, capabilities
  and confirmations while any of them is under way.
- A new message is categorized before its row is inserted (`Services`, action `Arrive`) and rings
  browsers and a Telegram chat once its attachments are stored (`Announce`); its Maildir file is written by a task that outlives the
  request (`MailStore`).

### What is hard

Concurrent retries of one key; a process that dies between a transport and a row; a transport that
delivers and reports an error; senders that retry what was stored; two vacation tasks for one
correspondent; one confirmation presented twice; the last send of the day; filters read twice; a
session that remembers one recipient of several; two passes over one calendar account, and a
disconnect under either; the flag of a thread computed by two requests; renames of one file in the
wrong order; a browser that changes hands while a push is being sent. `PROJECT.json` lists each
hazard at its line with the properties that watch it.

## 2. The modules

In all modules an action is one statement of the code (or one call whose inside is another module's
business), together with everything the handler does before its next `await`. Which statement an
action stands for is in `PROJECT.json` under `map`. A comment that starts with "Fault" marks a slip
seeded next to the operator it would replace; faults are used by no specification, only to see that
a property notices them.

### `SendGuard`, and its promise `KeyedSend`

`POST /v1/send` and the thread reply with an Idempotency-Key.

| Model | Code |
|---|---|
| `row` | `send_attempts`; the id is `sha256(caller \0 key)`, here the pair (`AttemptId`) |
| `pc`, `now`, `ans` | the handler of a request, the `now` of `claim_send`, the HTTP answer |
| `task`, `result`, `out`, `filed` | the task `send_once` spawns, what `send_email` returned in it, hand-overs and Sent rows |
| `Insert`, `Select` + `Decide`, `Reclaim` | the three statements of `claim_send` and `decide_existing` |
| `Spawn`, `Report`, `Disconnect` | `tokio::spawn`, the await of its handle, axum dropping the handler |
| `HandOver`, `SendReturns`, `FailEarly` | `outbound::send_email`: before, at and after the transports |
| `Finish`, `FinishFails`, `TaskPanics`, `Crash` | `finish_send`, its failure, a panic, the end of the process |

`KeyedSend` says the same without rows, requests in flight or clocks: a key is free, busy, done or
lost; only its holder sends; done and lost are final. The refinement mapping is at the end of
`SendGuard`: a key is `busy` while its row is pending and a request owns it, `lost` when its row is
pending and nobody does. `SendGuardProofs` has the theorems.

### `Outbound`

One message from its checks to its attachments, and the batch endpoint that runs several in order
(a single send is a batch of one). `Order` is the order of the steps of `send_email`; `TryHop` walks
`NextHop`, the chain of `send_via_fallback_chain`, and each hop may accept, refuse, fail after
delivering, or - the worker - deliver to some (`Outcomes`, `Reaches`). `StoreSent`, `CopyLocal`,
`EndFanout`, `StoreFile` are what follows. Around it, the sender's domain, aliases, threads and
mailboxes change, copies return by MX, and the handler of a batch may be dropped (`Abandon`).
`copies` counts what each address received, which no table of the system knows: it is what the
properties about duplicates are stated over.

### `Inbound`, and the contract `Forwarding`

Concurrent deliveries: `PutRaw`, `ReadBlocked`, `ApplyFilters`, `ApplyLegacy` (the rules are read a
second time, for those in the old notation), `FindThread`, `CreateThread`, `InsertRow`, `StoreFile`,
`Notify`, each of which may fail (`FailStep`, `FiltersFail`; two failures of the code count as "not
blocked" and "no filters"). `InsertRow` starts the vacation task, which goes on by itself:
`VacationCheck`, `VacationSend`, `VacationRecord`. Owners block contacts (`BlockContact`, which
adds a filter that moves their mail to Trash, unless that second statement fails), edit rules and
delete mailboxes meanwhile. `Forwarding` is the view from the outside: a forward is filed at most once, acknowledged
only if filed, answered at most once.

### `Ingress`, over `Routing`

A sender outside, which keeps each recipient until it hears 250 or 550, and the two ways in: the SMTP
session (`Mail`, `Rcpt`, `Data`, `DataRefused`, `Quit`) with its single variable `to`, and the
worker, invoked per recipient (`Invoke`). `Store` is `handle_inbound_raw` at the grain of
`Forwarding`; `TryLater`, `Drop`, `End` are its failures, the loss of its answer and a forward
nobody waits for. The sender and the worker's runtime are outside the repository; they are modelled
from what the code expects of them (retry on 4xx or on an exception). A message may be one the API refuses
at every try (`unwanted`: it cannot be parsed, or a filter of the mailbox says Reject; the API's 500
makes that a 451 for the listener, an exception for the worker), and it may carry the header
X-Aivory-Forwarded (`marked`), for which `email()` returns before it has read the message (`Skip`).

`Routing` is `resolve_recipient` as a function of the tables it reads: `Phases` lists what each
query finds, `Resolve` takes the first that finds anything (any row of it: the queries say
`LIMIT 1`). `Accepted` is the answer for RCPT TO, `Deliverable` the mailboxes a row can be inserted
for. Administrators create and delete mailboxes, domains and send-as addresses meanwhile (`Rewire`),
so that a recipient granted may have nowhere to go when the message is delivered (`Refuse`, 451;
`Bounce` for the worker), or another mailbox. `MCIngress` also evaluates, over 192 tables, what the
function is for (`RoutingAssumption`), and that on tables with mailboxes only it agrees with the pure
helper `resolve_address` of the core crate.

### `AgentSend`, and the ticket `OneTime`

A tools/call of either MCP mode from its capability to its Sent row: `Authorized` (v2) or `Trusted`
(v1), `CheckThread`, `Confirm`, `Consume`, `Dedup`, `ReadDay`, `Count`, `HandOver`, `File`; it may end
at every step (`End`). Around the calls: `Issue`, `Revoke`, `AdminConfirms`, `Arrives`,
`PersonSends`, `Refile`, `DeleteMailbox`, `Tick`. The look for a repeat (`Dedup`) is the query of
`recent_identical_send`: the rows that are in Sent as it looks, of the subject and in the window
(`Candidates`), of which it reads the newest `LookBack` (`Returned`); a statement that fails counts as
nothing found (`unread`). People send and receive at the same mailbox, and move rows out of Sent and
back, so a repeat can be out of its reach. `Matches` is the WHERE of `consume_send_confirmation`, `Count` the upsert of
`reserve_agent_send`. `before` remembers what was so when a call came in; the properties compare it
with what the call then did. `OneTime` says what a confirmation is: none, open, spent, sent, in that
order and once each. `AgentSendProofs` has the theorems.

### `CalendarSync`

One action per statement or request to Google of a pass (`LoadAccounts`, `NextAccount`,
`ValidAccessToken`, `Pull`, `FindLink`, `Apply`, `InsertLink`, `SelectLocal`, `Post`, `MarkSynced`,
`MarkError`). A pass works on the copy of the accounts it loaded, as the code does, while others
pass, the mailbox connects again (`Exchange`, `UpsertAccount`) or is disconnected (`DeleteImported`,
`DeleteAccount`), and its users edit at both ends. `Pull` lists what changed at Google after the
token, and without one what is within 180 days of now (`Listed`; which events those are is up to the
pass, `Windows`, and what it leaves out is `missed`); an item without a start (`timed`) is passed over.
The items are one set, of all pages, and `Expired` is a 410 at any of them: the token goes, and what
came before is not applied. `GiveUp` is the return of an error, `Fail` a request that fails, `Drop` a pass
that vanishes. Changes at Google are numbered per calendar; a token is such a number, a row has the
version it shows. `seen` remembers what can keep the two calendars from agreeing, each with the
action that notices it. `CalendarSyncProofs` has the theorems. The tables are those of SQLite, since on Postgres `calendar_events.id` is
text and compared with a UUID (section 5).

### `MailStore`

Messages after they have arrived. `MarkSelect`, `MarkUpdate`, `Exists`, `Recompute`, `Spawn` are the
statements of `mark_read`, `OpenSelect` and `OpenMark` those of `get_one`; moves, removals and
snoozes are one statement each. `Mirror` starts the task of a new file, `DeliverRaw`,
`RecordMaildirFile` and `SetSeen` are what tasks do, `LoseTask` is one that fails or dies,
`ImapClient` another program that renames files. `View` and `Conversations` translate the lists of
the API. A folder is a name of the user's, refused only if it is "Snoozed" to the letter, whereas the
list of the snoozed goes by that name however it is spelt: `"snoozed"` stands for the other spellings.
`Take`, `Insert`, `Attach`, `Onward`, `Exit` are a run of the import over its files, `LookFails` its look
for a Message-ID whose failure counts as zero.

### `Services`: `Accounts`, `InboxTabs`, `Notices`

Three components around one mailbox, each with its state and actions in a module of its own, and
their composition.

- `Accounts`: what `api/mailboxes.rs` and `api/integrations.rs` do to a password: `SetImapPassword`,
  `RevokeImapPassword`, the two steps of a reveal, and `Resolve`, `WriteHash`, `WriteLink` for the owner's
  connect and disconnect. A vault entry is the triple of what it was encrypted from, `Decrypt` needs the
  same id and key; `Restart` may bring another key. `Opens` is Dovecot's query.
- `InboxTabs`: `Classify` and `Decide` over the signs of a letter, in the order of the code; a
  message is categorized (`CategorizeInbound`) and stored (`Store`) in two steps. The look for the
  choice of its sender may fail, which counts as no choice (`SenderLock`). `Choose`,
  `UpdateThread`, `LockSender`, `Sweep` are the statements of a choice; the last goes by LIKE, so that
  it may take other senders' mail along (`Patterns`), and is not reached for mail without a sender; `BackfillSelect`, `BackfillRead`,
  `BackfillWrite` those of the backfill. `Lists` and `Counts` are `tab_filter` and `summary`.
- `Notices`: `CountSubscriptions` and `Subscribe`, `Unsubscribe`, a push task (`PushList`, then
  `PushSend` per browser with what the push service answers), a Telegram task (`NoChat` or `Reserve`,
  then `SendText` at any time after its instant) and the slot arithmetic of `reserve_slot`; the
  requests that send a test to the chat (`Test`, `SendTest`), which reserve nothing and do not ask
  whether the chat is muted.
- `Services`: `Arrive` stores a message, `Announce` rings once its attachments are there, and
  `Unannounced` is a delivery that fails in between: a retry is another message. A removed mailbox takes its rows along in the parts that have a foreign key and leaves the
  others; a restart ends every request and task and forgets the slots.

## 3. The runs

`MC*.tla` has the instances, `*.cfg` the constants. Deadlock is not checked in any run: in all of
them every request may be answered, every clock at its bound and nothing left to do.

| Run | States | Shows |
|---|---|---|
| `sendguard_race` | 126 102 | Three requests race on one key with two payloads: one owner at a time, one content per key, a second send only after a recorded failure, sent rows final, orphaned keys silent, and all of it an implementation of `KeyedSend` |
| `sendguard_users` | 671 984 | Two users with the same key string, requests without key and with a malformed one: a replay is the caller's own message; every request settles |
| `sendguard_at_most_once` | counterexample | two sends under one key, both accepted and filed (section 5) |
| `outbound` | 1 634 820 | A batch with one foreign entry sends nothing; filed means accepted; duplicates only after a hop that failed having delivered; one local copy per mailbox and one for each (`LocalCopies`) |
| `ingress` | 421 137 | With one recipient per transaction a 250 means kept, also when its route is removed meanwhile; duplicates only after an unheard success; every recipient is settled in the end, whatever mixture is named, unless only a rule for its domain accepts it |
| `ingress_multi` | counterexample | a recipient acknowledged and never stored (section 5) |
| `inbound` | 1 657 984 | An acknowledged message is whole; what is stored is well placed: in a thread of its mailbox, not from a blocked sender in the Inbox, alerts for Inbox mail only (`WellPlaced`); `Forwarding` holds |
| `inbound_vacation` | counterexample | two replies within the interval (section 5) |
| `agent_send` | 2 476 248 | One mail per confirmation, the one confirmed and in time; the daily limit; no reply to a conversation that had moved on; no repeat, in mode v1, of what the look can find; `OneTime` holds |
| `calendar_sync` | 884 838 | Nothing is lost behind a sync token but what a listing without one left out; no doubles nor orphans unless passes overlap, one ends between a write and its link, or a disconnect meets one at work; what is created here gets to Google or its account says why not |
| `mail_store` | 917 368 | The flag of a thread is honest unless two computations overlap; files end as their rows; a message is in one list, or in none in a folder named like the list of the snoozed; a finished import is complete, and without doubles but of files whose look failed |
| `services` | 423 314 | A revealed password opens the mailbox, and the owner's settings agree with Dovecot; each conversation is in one tab and a choice wins where it was seen; a push reaches its own mailbox's browsers; a chat gets no more notices than its gap allows, and tests no more than their cooldown does |

### Bounds

- `sendguard_race`: three requests are needed for "one fails, two retry"; with three the take-over
  has a winner, a loser and a third that reads the row between them. `Lease = 0` and `MaxClock = 1`
  are the shortest lease and clock on which "expired", "just at the lease" and "not yet" all occur.
  All requests are keyed here; those without a key never touch a row and are in `sendguard_users`.
  Requests and payloads are symmetric and no liveness is checked in this run.
- `sendguard_users`: two of each suffice for one user's row to be mistaken for another's; the run
  is without symmetry because it checks a liveness property.
- `outbound`: messages are chosen for the shapes the code tells apart: a plain note from an own
  address, an alias or a foreign address; one recipient in two spellings; a hidden recipient with a
  mailbox here, in a thread; two remote recipients with a local Cc. A single message runs against a
  deployment with every transport; pairs run against one with none, since the entries of a batch
  only share the authorization; a third has SMTP only.
- `ingress`: three recipients of two domains, named one or two at a time: enough for an accepted
  recipient overwritten by another and for one cleared by a refusal. In one table a mailbox is
  reached by its address and by an alias and the third recipient is unknown; the other has no mailbox
  and a rule for a domain. One edit (`MaxEdits = 1`) takes a route away, gives one, or makes a
  catch-all; `Unwanteds` has a message everybody wants and one a filter of Bob's always rejects; `MaxFaults = 2` bounds lost answers, breaks and failures together.
- `inbound`: two letters of one conversation to mailboxes without filters, or one message through
  every kind of filter. Deliveries share only threads and the vacation table, so the two halves do
  not need each other. `Interval = MaxTime = 1` puts a reply inside and outside of the interval.
- `agent_send`: two calls, a capability, a confirmation of an admin's besides the calls' own, two
  mailboxes, two days of one tick, limits of none and one. Two calls are what a double spend, an
  overrun limit or a stale reply take. `LookBack = 1` (the code: 10) lets one newer row hide a repeat, and
  of two looked-at rows the wrong one be read; `MaxRows = MaxMoves = 1` is one row of a person's and one
  that is not where it was filed. `Window = MaxClock = 1`: within the window, and past it.
- `calendar_sync`: six scenes: two passes that push one event or pull one with two changes; one
  pass with edits and a cut; one that sees a mailbox leave and come back (`MaxAccount = 2`: the
  second connect has a new id); one over two mailboxes, of which one may fail; one
  with an event that is far away or has no start. `MaxPost = 2` is one
  copy too many.
- `mail_store`: seven scenes: two requests on a conversation of two, two on one message with its file and
  three tasks, moves and snoozes over two mailboxes, an agent's draft, and three imports: twice at once,
  of one Message-ID in two mailboxes, of a file without one.
- `services`: nine scenes: an administrator and an owner with two passwords and two keys; a removal;
  choices against arriving mail, and against a backfill; two browsers of two mailboxes; one chat of
  two mailboxes with three notices, with two and a test or a change of the settings and restarts, or
  with one and several of those; mail without a sender. The requests are symmetric and so are the
  workers: no definition tells one from another, and the run checks invariants only. `Batch = 1` makes a backfill of two messages take two rounds (the code: 500);
  `MaxSubs = 1` is a cap two browsers can exceed (20); `MinGap = MaxWait = 2` lets one message wait
  and drops the next (1.1 s and 20 s in the code: 19 wait instead of one); `Cooldown = 2`
  allows a second test before the clock stops (10 s in the code).

In the last three runs a scene says who takes part in a behaviour and how often, so that one run
covers several small worlds instead of the product of them. `MaxClock`, `MaxTime`, `MaxFaults`, `MaxEdits`,
`MaxFault`, `MaxChange`, `MaxPost`, `MaxTask` and the `edits` of a scene are the bounds on
behaviour; requests, deliveries, calls, passes and files are finite sets.

### Fairness

`SendGuard!FairSpec` assumes that the runtime goes on with each handler and each task that can go on
(`WF` of `HandlerStep(r)` and `TaskStep(r)`), as tokio does. It assumes nothing of `SendReturns`:
the HTTP clients of the transports are built without a timeout (`mail/outbound.rs:584`), and
`Settles` accordingly excepts requests whose task waits for a transport. `Ingress!LiveSpec` assumes
that the sender retries what is not settled, as RFC 5321 asks of it and as Cloudflare does, and that
the API gets round to a forward; it assumes nothing of failures
and edits, which are bounded by `MaxFaults` and `MaxEdits`.
`CalendarSync!FairSpec` assumes that the loop of `main.rs` goes on and begins its next pass, as its
interval does, and that a disconnect that has begun ends; nothing of the passes users start, nor of
connecting. It claims arrival only while ids and copies are left to name one (`Room`) and for
refusals bounded by `MaxFault`. It thereby assumes that Google answers: that client has no timeout either. The other
modules claim no liveness.

## 4. The proofs

A component's theorems are in the module named after it with `Proofs` at the end:
`SendGuardProofs`, `AgentSendProofs`, `OutboundProofs`, `IngressProofs`, `InboundProofs`,
`MailStoreProofs`, `CalendarSyncProofs` and `ServicesProofs`. Each of them has every safety property
the passing runs of its component check, and the refinements of `KeyedSend`, `OneTime` and `Forwarding`. A proof
starts from the named assumptions on the constants, which TLC evaluates for the instances it runs, and
from nothing else. Each inductive invariant was checked by TLC before it was proved.

### Idempotent send

For any sets of requests, users, keys and payloads, any lease and any bound on the clock, from the
three named assumptions of `SendGuard` (constants are of their kind, `NoKey` and `BadKey` are not
keys, `None` is neither a request nor a payload):

| Theorem | States |
|---|---|
| `TypeCorrect` | `[]TypeOK`: in particular only the three statuses are ever in a row |
| `OneOwner` | `[]SingleOwner` |
| `OnePayload`, `ResendNeedsFailure`, together `KeyBound` | `[]KeyBinds`: `PayloadPinned` and `ResendOnlyAfterFailure` |
| `SentStays`, `OrphanSilent`, `UnknownIsOld`, together `RowsAreSettled` | `RowsSettle`: the action properties `SentIsFinal`, `OrphanStaysSilent` and `UnknownOnlyAfterLease` |
| `ReplaysAreGenuine` | `[]ReplayIsGenuine` |
| `PromiseKept` | `KeepsPromise`: `SendGuard` implements `KeyedSend` |

`SingleOwner` is not inductive: it says nothing of a request whose task was lost, whose row must
stay pending lest another begin. So the proof follows *blocking*, which outlives ownership. A request
blocks its key from the statement that claims it until `finish_send` records a failure - for ever
if that never happens. The inductive invariant `IInv` is the conjunction of

- `TypeOK` and `KeyedClaims`: only requests with a key run `claim_send`;
- `TaskOrder`: a task exists after its handler spawned it, has a result when it finishes, and a
  hand-over is never before the task;
- `BlockedRow`: the row of a blocked key is pending, or sent if the blocker finished;
- `SingleBlocker`: at most one request blocks a key;
- `HashKept`: a row keeps the payload of whoever claimed it.

The claiming statements (`Insert`, `Reclaim`) need a row that is absent or failed, hence a key nobody
blocks; that is why `SingleBlocker` is kept. `Inductive` has the whole argument once, with a step per
action; lemma `QuietStep` disposes of the actions that touch neither rows nor owners. The first four
theorems follow from `IInv`: owners block; whatever left went out under a blocked or finished key; of
two sends under one key the one that no longer blocks was recorded failed. The action properties look
at the one statement that could break them: a `Finish` is its owner's, so it touches neither a sent
row nor an orphan.

Two more facts are carried by the same induction. `Stamped`: the row of an owner has the time that
owner read, so a row that looks expired to a request is a lease older than the request. `SentRow`,
with `OkIsFiled`: a sent row names a request of its own key that ended well, and what ended well was
handed over and filed; with `HashKept` it had the same content as whoever is answered from the row.

For the refinement, lemma `HolderIs` makes the CHOOSE of the mapping determinate (there is one owner),
`SamePlace` says when a key keeps its phase and holder, and `BeginStep`, `LeaveStep`, `HandOverStep`
and `VanishStep` are the steps of `KeyedSend`. A claim is `Begin`; `Finish` is `Complete` or `GiveBack`;
a failed claim whose row was written, a client that leaves before the task is spawned, a failed
`finish_send`, a panic and a crash are `Vanish`; the rest moves nothing the promise speaks of.

### Agent sends

For any capabilities, callers, mailboxes, payloads, lifetimes and limits, any finite set of calls, and
any lengths of the day, the window and the clock, from the six assumptions of `AgentSend` (times and
limits are naturals, lifetimes, the day and `LookBack` are positive, ids of confirmations are distinct,
`None` is none of them and not a row):

| Theorem | States |
|---|---|
| `AgentTypes` | `[]TypeOK` |
| `OneMailEach`, `OnlyAsConfirmed`, together `EachMailConfirmed` | `[]ConfirmedOnce`: `OneSendPerConfirmation` and `SentAsConfirmed` |
| `RepliesAreTimely` | `[]NoStaleReply` |
| `LimitKept` | `[]WithinBudget` |
| `RepeatsAreFound` | `[]NoBlindRepeat` |
| `ConfirmationsAreTickets` | `KeepsOneTime`: `AgentSend` implements `OneTime` |

One idea serves all of them. The properties speak of mails that are out; between the step that
settles what a mail needs and its hand-over, other calls run. So each invariant is about a call from
the step it passed (`Holds`), and says that nothing another call does takes back what it then had:

- `Given`: what a call presents exists: its caller, its confirmation, its day; with `TypeOK`;
- `Stage`: which steps a call has behind it at each point, in which mode;
- `Paid` and `SoleHolder`: the confirmation a call holds is for just what it asks, was spent in
  time, and is held by that call alone; a spent row never matches again (`UsedKept`);
- `Timely`: a reply that passed its check was asked for before anything newer was there;
- `InBudget`: the calls past the counter (`Counted`) are no more than the counter says, which is at
  most the limit; each `Count` adds one to both, and a call that ends leaves the counter as it is;
- `Looked`: what was old enough for a legacy call when it looked is old enough when it sends. What it
  looked at are the newest of the subject, and a row with fewer than `LookBack` newer ones is among
  them: the candidates past it are some of the newer ones (`Newer`), of which there are only ever
  more.

### Outbound pipeline

For any set of scenarios whose batches are non-empty sequences of messages with finitely many
recipients in `to`, and any mailboxes of which no two share a normal address:

| Theorem | States |
|---|---|
| `TypeCorrect` | `[]TypeOK`; an entry has no more hops that failed after delivering than the chain has |
| `NoneOfAForeignBatch` | `[]NoneIfOneForeign` |
| `NothingShownUnsent` | `[]FiledWasAccepted` |
| `NoDuplicatesButUnsure` | `[]DuplicatesAreUnsure` |
| `OneCopyEach` | `[]LocalCopies` |

The base is `Progress`: entries behind the current one are `Fresh`, and the current one is accepted
exactly when its step lies behind the transports. `Rank` numbers the hops in the order of
`send_via_fallback_chain`; `unsure[at] <= Rank[hop]` is what makes "a hop is not tried twice"
inductive, and with it `CopiesBounded` counts the copies of an address by the hops that were unsure.
The chain is walked by rank because not every deployment has every hop. `NoneIfOneForeign` needs
`Authorized`, which covers the loop that is still authorizing. `LocalCopies` needs `Owed`: during the
fan-out a recipient has its copy or its name is still among the targets, never both; that targets
are one per normal address is `FanOutNames`.

### Ways in

For any recipients, tables, habits of senders (`PerMails`) and bounds on faults and edits:

| Theorem | States |
|---|---|
| `TypeCorrect` | `[]TypeOK` |
| `AcknowledgedIsKept` | `[]KeptIfAlone` |
| `NoOtherDuplicates` | `[]DuplicatesWereUnheard` |
| `OwnMailboxFirst` | an address with a mailbox of its own leads there and nowhere else |
| `NamedIsAccepted` | an address is accepted exactly when something in the tables names it (`Named`) |
| `HelperAgrees` | `resolve_address` answers as `resolve_recipient` where mailboxes are all there is |
| `TakingAwayAddsNothing` | removing a mailbox, an alias or a domain makes no address accepted or deliverable |

`Dialogue` says what the session's single variable `to` may be: with one recipient per
transaction it is the one granted. `Forwards` says that one forward at most is awaited and that a
fault leaves at most one behind (hence an id is always free). `Counted` bounds what a mailbox got
by what the sender heard, what nobody heard, and the forwards `InFlight`; when no forward is in flight
it is the property. Cardinalities are those of finite sets whose finiteness is part of the invariant.
The last four theorems are about the operators of `Routing`, for any tables: `FirstDecides` says what
the first of the six phases that finds something decides, and the rest follows from what each
phase finds. `RoutingAssumption` has TLC evaluate the first three over the tables of `MCIngress`.

### Inbound delivery

For any deliveries, mailboxes and filters, messages whose mailbox exists, and contacts for whose mailbox
there is the filter that blocking one adds:

| Theorem | States |
|---|---|
| `TypeCorrect` | `[]TypeOK` |
| `WholeOnceAcknowledged` | `[]AcknowledgedWhole` |
| `PlacedWell` | `[]WellPlaced` |
| `DeliveriesKeepForwarding` | `KeepsForwarding`: `Inbound` implements `Forwarding` |

`Stages` ties the step of a delivery to its row, answer and vacation task. `Rows` has what an
acknowledgement relies on while attachments are still being stored: files stored plus files to do are the files of
the message. `Threads` names a thread after the delivery that made it, so a message cannot be put in a
thread of another mailbox; `Placed` follows a blocked sender's message from the block list through
two readings of the filters. In the refinement a delivery is new, filed or answered by
`Stages`, and every other step is a stutter.

### Messages, mirror and import

For any messages, requests, imports and files, threads and tasks, from `StoreAssumption`:

| Theorem | States |
|---|---|
| `TypeCorrect` | `[]TypeOK` |
| `FlagsHonest` | `[]FlagHonest` |
| `MirrorFollowsMail` | `[]MirrorFollows` |
| `OnePlaceEach` | `[]InOnePlace` |
| `ImportsComplete` | `[]ImportComplete` |

`FlagHonest` speaks of conversations nobody is computing a flag for; inductive is `Computed`, about a
request between its SELECT and its UPDATE of a flag: the value in its hand is still what the messages say,
unless the thread is excused. `MirrorInv` says the same of a message's file: one task or request
has it in hand (`Alone`), and the name the file has, or will have when that task runs, is the one its row
asks for. `ImportInv` follows a run through its files (`AtFile`, `Passed`), finds an attachment that
is missing in the hands of a run (`Imported`), and treats the check for a Message-ID and the insert as the
two statements they are (`Twins`): of two runs between them at one file, the file is in `broken`.

### Google Calendar sync

For any mailboxes, passes, events, failures and restarts, from `CalendarAssumption`:

| Theorem | States |
|---|---|
| `TypeCorrect` | `[]TypeOK` |
| `TokensCover` | `[]TokenCovers` |
| `EventsOnce` | `[]NoDoublesNorOrphans` |
| `NothingBetween` | `[]Covered`, which `TokenCovers` follows from |
| `AccountIdsOnce` | `[]IdsOnce`, which no pass can break with an account that is gone |

`TokenCovers` is about the token of a row, and says nothing of a pass that is about to store one. The
invariant follows an event through a pass. What a pass has listed is what Google has, or what Google
has replaced since (`Listing`); an event at or below the token of the account is shown, and one at or
below what a pass at it has listed is shown or still in its hands (`Covered`); the row of a link, or
of an import that waits for its link, is there unless its owner deleted it or it was cancelled
(`InPlace`); a pass goes by the token of its account or the account is another one, without a token
(`Tokened`). For the doubles it needs that one pass at most is at a mailbox (`OneHand`), that what it
is about to link is not linked yet (`LinkedOnce`), that no two imports share an id (`Finding`), and
that a copy posted to Google is linked or in the hands of the pass that posted it (`Once`). All of
them need that an account id is never another mailbox's (`IdsOnce`). Each holds as long as nothing in
`seen` tells otherwise. So the steps of a pass can be reasoned about one kind at a time, a first part
of the module says what each comes to (`Works`, by `PassWorks`), and an invariant is then shown for
the pass that moves, for the other passes, and for the users. The invariant as a whole (`Inv`) was
checked by TLC on the scenes of the runs before it was proved.

### Accounts, tabs and notices

For any mailboxes, users' requests, messages, browsers and chats, from the assumptions of the
three modules and `Msgs \subseteq Mail`:

| Theorem | States |
|---|---|
| `TypeCorrect` | `[]TypeOK` of the composition |
| `PasswordsAgree` | `[]CredentialsAgree` |
| `TabsTellTheTruth` | `[]TabsHonest` |
| `PushedToTheOwner` | `[]PushToOwner` |
| `ChatsAreSpared` | `[]GapKept` |

Each component has an invariant over its own variables, which the others' steps leave unchanged
or change in one way only (`Succeeds`: a mailbox that is gone stays gone); `SInv` is their
conjunction. `Vaults` and `Sessions` say what a request between two writes of a password knows.
`Obeyed` says that the choice for a sender has reached each of its messages unless a sweep is
on its way to it, or the message is `excused`, which a failed look, a crossing or another sender's sweep
makes it. `Addressed` excuses a push task that had its list before a browser moved;
`Room` counts the browser that was counted and has not been inserted. `Apart` is the argument for the gap: a
slot lies a gap behind every instant reserved for its chat, so two reservations never come
closer, whatever the clock did meanwhile. `Paced` adds that nothing is sent before its instant, no
instant is before the process started, and tests of a mailbox are a cooldown apart. That bounds what was
sent: instants a gap apart fall into different multiples of the gap (`FewApart`), so the clock has room
for so many and no more, however late the tasks that held them woke.

### What is only model-checked

Liveness (`Settles`, twice, and `LocalGetsOut`) stays with TLC for good: fairness and `ENABLED` are
out of the prover's reach, as are induction over data and anything about RECURSIVE operators - no module
here declares one. Every other property of the passing runs - each type invariant, safety invariant,
action property and refinement - has a theorem.

## 5. Where the code and its words differ

With a run that shows it:

- **At-most-once is not quite** (`sendguard_at_most_once`). `migrations/035_send_safety.sql:3`
  promises "at-most-once sending for requests carrying an Idempotency-Key". `send_once` records every
  error of `send_email` as failed, also those raised after a transport accepted the mail - the Sent
  row (`mail/outbound.rs:289`) or an attachment (`:312`) could not be stored - and a failed key may be
  taken over. What does hold is `ResendOnlyAfterFailure`.
- **250 for a recipient that is dropped** (`ingress_multi`). `aivory-mail-smtp/src/main.rs:47`: "Only
  a stored message gets 250". The session keeps one recipient (`main.rs:71`): of several accepted,
  the message is stored for the last and acknowledged for all. `KeptIfAlone` is what holds.
- **Two vacation replies** (`inbound_vacation`). `mail/inbound.rs:258`: "dedup by interval_days". The
  reply is recorded after it is sent (`:733`), so a second message meanwhile is answered as well.

Read in the code while modelling, without a run of their own:

- `mail/outbound.rs:905`: the sender's thread id is stored with the copies in other mailboxes, against
  `outbound.rs:97`. `Outbound` files it as the code does.
- `mail/outbound.rs:294` says that dedup swallows the copy that loops back by MX; the inbound path has
  no dedup (`ReturnByMx` adds a row; `LocalCopies` is about the fan-out's own rows).
- `mail/inbound.rs:123`: a forwarding filter sends before anything is stored, so a delivery that then
  fails and is retried forwards again.
- `mail/inbound.rs:111`: "auto-block sender". The block action calls `upsert_from_address`, which
  inserts a contact that is not blocked (`api/contacts.rs:204`) and leaves the flag of one that
  exists: this message goes to Spam, and the sender stays as it was.
- `mcp.rs:553-590`, `delete_draft` of mode v1: two binds are swapped; it never finds the draft.
- `mail/inbound.rs:1123` and `bin/import_mail.rs:27`: importing is "safe to re-run". A message whose
  attachment could not be stored has its row already, so the next run skips it and the attachment is
  never there; one without a Message-ID gets a new one each time and is imported again.
  And a look for the Message-ID that fails (`:1145`, `:1156`, `unwrap_or(0)`) is taken for "not there": the
  message is imported a second time, with no file reported as failed. `ImportComplete` holds with those
  files excepted that failed, whose look failed or that two runs met at, and says nothing of doubles
  without a Message-ID.
- `mail/routing.rs:137`: on Postgres a rule that forwards a whole domain accepts its recipients without
  a mailbox; RCPT TO answers 250, and the delivery fails with 451 every time. So it does where a filter
  rejects the message ("550 5.7.1", `mail/inbound.rs:108`, an error like any other for the webhook) or
  the message cannot be parsed: the sender comes again with it until it gives up (`Stuck`, which
  `Settles` excepts; over the worker Cloudflare bounces it).
- `worker/worker.js:57`: "never silently drop" (`:66`) does not hold of mail that carries a header
  X-Aivory-Forwarded, which is taken for a loop: success, and no mailbox gets it. Nothing in the
  repository puts the header on mail; the worker's request to the API has it as an HTTP header.
  `KeptIfAlone` says both.
- `mailboxes.forward_to` is stored when a mailbox is created and read by the unused helper
  `resolve_address` only: no delivery forwards by it.
- `aivory-mail-smtp/src/main.rs:36` takes what one read returns for one command. `Ingress` has whole
  commands.
- Replies and sends share the confirmation action `send_mail`: a confirmation issued for a reply can be
  spent by the send tool, which does not look at the conversation.
- `api/messages.rs`, `get_one`, marks a message read without computing the flag of its thread, which
  the comment on `mark_read` describes as the cause of threads that stay bold.
- `api/calendar_google.rs:102`: tokens are encrypted for a new account id while a second connect keeps
  the row's old id, so they cannot be decrypted; the comment above says reconnecting works.
  `CalendarSync` has it so (`Readable`): the next pass marks the account.
- `calendar_google.rs:270-273`: the first listing is of the 180 days before and after now, and its token
  is stored for the changes since. An event farther away is not imported until it is changed,
  however near it comes; nor is one without a start (`:379`). `TokenCovers` excepts both (`missed`, `timed`).
- `calendar_google.rs:145` syncs accounts with status `connected` only, and any failed request sets
  `error`; nothing sets it back but connecting again.
- `calendar_google.rs:294`: a listing from the start, after a 410 or after a first pass that failed, does
  not name what was cancelled since; such rows stay for ever (`relist` in `TokenCovers`). After a
  disconnect, what this side had pushed comes back as imports beside the originals.
- `migrations/031_calendar_google_sync.sql` says edits push back to Google; only new events are. On
  Postgres `calendar_events.id` is text and is compared with a UUID, so updates, removals and pushes
  fail there. `schedule_event` of MCP binds one value too many on SQLite, and on Postgres writes a source
  that is never pushed.
- `mail/outbound.rs:898-915`: local copies carry no thread of their recipient, so they are in no
  conversation he sees, and are not mirrored, although `mail/maildir.rs:4` says "every inbound/sent
  message".
- `api/messages.rs:363-372`: the flag of a thread counts unread mail in Trash, Spam and among the snoozed;
  the list of conversations computes its own. Moving a message never moves its file.
- `api/messages.rs:440`: "Snoozed is virtual via snoozed_until, not folder", and a move there is refused
  (`:444`) - to that very name. The list compares without regard to case (`:33`), so a message
  moved to `snoozed` is in no list until it is snoozed. `InOnePlace` says so.
- `mcp.rs:98`, the guard of mode v1 against repeats: "when this mailbox already Sent the same recipients +
  subject inside the window". It looks at the ten newest rows of the subject that
  are in Sent (`LIMIT 10`, `:127` and `:140`). A repeat behind ten others, or of a mail that was moved to
  another folder, is sent. `NoBlindRepeat` is about what the look can find.
- `mcp.rs:1256`, `draft.create` on SQLite: 18 placeholders for 19 columns.
- A password the owner chooses (`api/integrations.rs:226`) is hashed and not put in the vault, so a
  later reveal shows an earlier one; after a rotation by an administrator, the owner's settings still
  say "disconnected". `CredentialsAgree` is stated between such writes.
- `api/categories.rs:277`: the backfill writes by id, without asking again for `category IS NULL`: it can
  undo a choice made since it read. Two choices for one sender can end with the lock of one and the
  mail of the other (`excused`).
- `categories.rs:10` of the core crate: "A user's own choice always wins". `sender_lock` takes a failed
  statement for no choice (`api/categories.rs:43`, `:50`), so that message is filed by the rules; and the
  statement that moves a sender's mail (`:231`, `:245`) uses the address as a pattern of LIKE, in which `_`
  stands for any character and `%` for any number of them: mail of `joe.x@` goes along with that of
  `joe_x@`, whatever was chosen for the former.
- `api/push.rs:5`: "a subscription can only ever receive its own mailbox's mail". A task that has its list
  when a browser is subscribed for another mailbox still sends there (`moved`).
- `api/telegram.rs:140`: the slots "keep `gap` between messages" of one chat. They keep it between the
  instants notices are given. A task that wakes late sends next to the one after it, and a test
  (`:347`) goes to the same chat with no slot, also when its owner has switched notices off; `GapKept` is
  about the instants, and about how many of either can have been sent.
- `mail/inbound.rs:283-313`: an attachment that cannot be stored fails a delivery whose row is there: the
  message stays, incomplete, and does not ring (`Unannounced`).
- `api/telegram.rs:142`: a notice that is dropped for its wait has reserved its slot all the same,
  so after a burst single mails go on being dropped until the slots have passed.
- `api/webhooks_registry.rs:172`: `UPDATE ... ORDER BY ... LIMIT` is not Postgres; `next_retry_at`
  is never set there, and nothing reads it.

Hazards read in the code that no property here watches, beside those `PROJECT.json` lists: a hop
that never answers stops the chain for ever (`mail/outbound.rs:584`; no client has a timeout);
`send_batch` is not detached from its connection (`api/send.rs:104`); two first messages of a
conversation may each create its thread (`mail/inbound.rs:487`); a page whose last seen message was
removed announces the whole Inbox (`newMailNotify.ts:31`).

## 6. What is not modelled

- **Conversions**: MIME parsing and building, DKIM, HTML, drafting, hashes, encryption. A
  hash or an id is the tuple it is computed from; an address is a model value with a normal form.
- **Data nobody decides on**: subjects and bodies beyond what makes two messages the same or puts
  them in one conversation.
- **Reads**, single-statement edits of one owner's own row, proxies to other services and
  fire-and-forget calls (the relay, webhooks): nothing in them races with itself. `PROJECT.json`
  names them.
- **The web client** and the broadcast its pages listen to: their state lives in a page.
- **Language models** (knowledge, chat, drafting, agents' tasks): prompts, calls and a cache;
  nothing of it sends or files mail by itself.
- **Authorization**: a pure check; its outcome is a choice in the modules that call it, except where
  it is the point (`Outbound!MayUse`, `AgentSend!Authorized`).
- **The database** executes each statement atomically and enforces its foreign keys. Isolation between
  statements is not assumed, since the code opens no transactions around the ones modelled.

## 7. Plan

1. Done: all modules checked, and every safety property of the runs proved.
2. The compose window as the client of `SendGuard`, which mints, keeps and drops keys; labels and
   the edits of folders, if they get more than one statement.
