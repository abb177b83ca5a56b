------------------------------ MODULE Accounts ------------------------------
(***************************************************************************)
(* The rows of mailboxes and the password each opens IMAP and SMTP with    *)
(* (api/mailboxes.rs, imap_password_vault.rs), which an administrator      *)
(* issues, reveals and revokes and the owner sets and clears for himself   *)
(* (api/integrations.rs).  Dovecot reads the hash from the same row        *)
(* (dovecot/dovecot.conf).                                                 *)
(*                                                                         *)
(* A step is one statement.  The rows of the audit log are left out.       *)
(***************************************************************************)
EXTENDS Naturals, FiniteSets

CONSTANTS
  Boxes,      \* ids of mailboxes; an id is given once
  Addresses,
  Passwords,
  Keys,       \* values of IMAP_PASSWORD_ENCRYPTION_KEY
  Calls,      \* requests of more than one statement
  Scenes,     \* who takes part in a behaviour, and how often
  None, Gone

VARIABLES
  scene,   \* one of Scenes
  box,     \* mailboxes: None before, Gone after
  link,    \* status of email_integrations, "none" without a row
  key,     \* the key the process started with
  call,    \* what a request is at
  edits,   \* what users have begun
  \* history, read by the properties only
  mixed,   \* mailboxes whose owner has written the hash since the vault was
  kept     \* what the owner was last told, if nothing has come in between

accountVars == <<box, link, key, call, mixed, kept>>

\* What the vault encrypts, and the columns of mailboxes.
Secrets == [id : Boxes, key : Keys, pw : Passwords]
Rows == [addr : Addresses, web : Passwords \cup {None}, hash : Passwords \cup {None},
         vault : {None} \cup Secrets]
Requests == [op : {"idle", "reveal", "hash", "link"}, box : Boxes \cup {None},
             pw : Passwords \cup {None}, clean : BOOLEAN]
Idle == [op |-> "idle", box |-> None, pw |-> None, clean |-> FALSE]

ASSUME SceneAssumption ==
  \A s \in Scenes : /\ s.edits \in Nat /\ s.keys \subseteq Keys /\ DOMAIN s.boxes \subseteq Boxes
                    /\ \A b \in DOMAIN s.boxes : s.boxes[b] \in Addresses
ASSUME NullAssumption == /\ None # Gone /\ {None, Gone} \cap Rows = {}
                         /\ None \notin Boxes \cup Passwords \cup Secrets
                         /\ "off" \notin Passwords \cup {None}

Live == {b \in Boxes : box[b] \notin {None, Gone}}
Fresh == {b \in Boxes : box[b] = None}
Own(a) == {b \in Live : box[b].addr = a}

Acts(a) == a \in scene.acts
Edit == edits < scene.edits /\ edits' = edits + 1

AccountInit ==
  /\ box = [b \in Boxes |-> IF b \in DOMAIN scene.boxes
                            THEN [addr |-> scene.boxes[b], web |-> None, hash |-> None, vault |-> None]
                            ELSE None]
  /\ link = [b \in Boxes |-> "none"]
  /\ key \in scene.keys
  /\ call = [c \in Calls |-> Idle]
  /\ mixed = {}
  /\ kept = [b \in Boxes |-> None]

-----------------------------------------------------------------------------
(* The vault and Dovecot.                                                   *)

\* The id of the row is authenticated with the password.
Encrypt(k, b, pw) == IF pw = None THEN None ELSE [id |-> b, key |-> k, pw |-> pw]
Decrypt(k, b, secret) ==
  IF secret # None /\ secret.id = b /\ secret.key = k THEN secret.pw ELSE None

\* The passdb query of Dovecot.
Opens(b, pw) == b \in Live /\ box[b].hash = pw /\ pw # None

\* get_email_integration: without a row, a mailbox with a password counts as
\* connected.
Connected(b) == b \in Live /\ box[b].hash # None /\ link[b] \in {"none", "connected"}

\* Something has changed at b: whoever is under way there can no longer be
\* sure of what he is told.
Others(b) == [c \in Calls |-> IF call[c].box = b THEN [call[c] EXCEPT !.clean = FALSE] ELSE call[c]]
Disturb(b) == /\ call' = Others(b)
              /\ kept' = [kept EXCEPT ![b] = None]

-----------------------------------------------------------------------------
(* The administrator.                                                       *)

\* Fault: rotating writes the hash and leaves the vault as it is.
Half(row, b, pw) == [row EXCEPT !.hash = pw]

\* set_imap_password: hash and vault in one statement.
Issue(row, b, pw) == [row EXCEPT !.hash = pw, !.vault = Encrypt(key, b, pw)]

\* mailboxes.rs, create: addresses are unique, and who gets a web password
\* gets one for IMAP too.
Create(b, a, web, imap) ==
  /\ Edit
  /\ b \in Fresh /\ Own(a) = {}
  /\ web # None => imap # None
  /\ box' = [box EXCEPT ![b] = [addr |-> a, web |-> web, hash |-> imap, vault |-> Encrypt(key, b, imap)]]
  /\ UNCHANGED <<link, key, call, mixed, kept>>

\* mailboxes.rs, update: the password of the web login.
Update(b, web) ==
  /\ Edit
  /\ b \in Live
  /\ box' = [box EXCEPT ![b].web = web]
  /\ UNCHANGED <<link, key, call, mixed, kept>>

SetImapPassword(b, pw) ==
  /\ Edit
  /\ b \in Live
  /\ box' = [box EXCEPT ![b] = Issue(box[b], b, pw)]
  /\ mixed' = mixed \ {b}
  /\ Disturb(b)
  /\ UNCHANGED <<link, key>>

RevokeImapPassword(b) ==
  /\ Edit
  /\ b \in Live
  /\ box' = [box EXCEPT ![b].hash = None, ![b].vault = None]
  /\ mixed' = mixed \ {b}
  /\ Disturb(b)
  /\ UNCHANGED <<link, key>>

\* What names the mailbox in email_integrations goes with it.
Remove(b) ==
  /\ Edit
  /\ b \in Live
  /\ box' = [box EXCEPT ![b] = Gone]
  /\ link' = [link EXCEPT ![b] = "none"]
  /\ mixed' = mixed \ {b}
  /\ Disturb(b)
  /\ UNCHANGED key

\* reveal_imap_password: the row is read, and the answer given after the audit
\* log has been written to.
RevealRead(c, b) ==
  /\ Edit
  /\ call[c].op = "idle" /\ b \in Live
  /\ call' = [call EXCEPT ![c] = [op |-> "reveal", box |-> b, pw |-> Decrypt(key, b, box[b].vault),
                                  clean |-> b \notin mixed]]
  /\ UNCHANGED <<box, link, key, mixed, kept>>

RevealAnswer(c) ==
  /\ call[c].op = "reveal"
  /\ call' = [call EXCEPT ![c] = Idle]
  /\ UNCHANGED <<box, link, key, edits, mixed, kept>>

-----------------------------------------------------------------------------
(* The owner: one statement finds his mailbox, one writes the hash and one  *)
(* the row the settings page shows.                                         *)

Resolve(c, a, pw) ==
  /\ Edit
  /\ call[c].op = "idle"
  /\ \E b \in Own(a) : call' = [call EXCEPT ![c] = [op |-> "hash", box |-> b, pw |-> pw, clean |-> TRUE]]
  /\ UNCHANGED <<box, link, key, mixed, kept>>

\* upsert_email_integration, or delete_email_integration when pw is None.  The
\* statement finds no row when the mailbox has been removed.
WriteHash(c) ==
  LET b == call[c].box IN
  /\ call[c].op = "hash"
  /\ box' = IF b \in Live THEN [box EXCEPT ![b].hash = call[c].pw] ELSE box
  /\ mixed' = mixed \cup ({b} \cap Live)
  /\ call' = [Others(b) EXCEPT ![c] = [call[c] EXCEPT !.op = "link", !.clean = TRUE]]
  /\ kept' = [kept EXCEPT ![b] = None]
  /\ UNCHANGED <<link, key, edits>>

LinkAfter(old, pw) == IF pw # None THEN "connected"
                      ELSE IF old = "none" THEN "none" ELSE "disconnected"

\* Refused when the mailbox has been removed; then the answer is an error.
WriteLink(c) ==
  LET b == call[c].box IN
  /\ call[c].op = "link"
  /\ link' = IF b \in Live THEN [link EXCEPT ![b] = LinkAfter(link[b], call[c].pw)] ELSE link
  /\ call' = [Others(b) EXCEPT ![c] = Idle]
  /\ kept' = [kept EXCEPT ![b] = IF ~call[c].clean \/ b \notin Live THEN None
                                 ELSE IF call[c].pw = None THEN "off" ELSE call[c].pw]
  /\ UNCHANGED <<box, key, edits, mixed>>

\* The process ends, with what it was at, and starts again with its settings.
Restart(k) ==
  /\ Edit
  /\ key' = k
  /\ call' = [c \in Calls |-> Idle]
  /\ UNCHANGED <<box, link, mixed, kept>>

AccountNext ==
  \/ /\ Acts("admin")
     /\ \E b \in Boxes : \/ \E a \in Addresses, web, imap \in Passwords \cup {None} : Create(b, a, web, imap)
                         \/ \E web \in Passwords : Update(b, web)
                         \/ \E pw \in Passwords : SetImapPassword(b, pw)
                         \/ RevokeImapPassword(b)
                         \/ \E c \in Calls : RevealRead(c, b)
  \/ Acts("remove") /\ \E b \in Boxes : Remove(b)
  \/ Acts("owner") /\ \E c \in Calls, a \in Addresses, pw \in Passwords \cup {None} : Resolve(c, a, pw)
  \/ \E c \in Calls : RevealAnswer(c) \/ WriteHash(c) \/ WriteLink(c)

-----------------------------------------------------------------------------

AccountTypeOK ==
  /\ box \in [Boxes -> Rows \cup {None, Gone}]
  /\ link \in [Boxes -> {"none", "connected", "disconnected"}]
  /\ key \in Keys
  /\ call \in [Calls -> Requests]
  /\ edits \in 0..scene.edits
  /\ mixed \subseteq Live
  /\ kept \in [Boxes -> Passwords \cup {None, "off"}]

\* What an administrator is shown opens the mailbox, unless it has changed
\* since it was read or its owner had chosen a password of his own
\* (api/mailboxes.rs, reveal_imap_password).
RevealOpens ==
  \A c \in Calls : call[c].op = "reveal" /\ call[c].pw # None /\ call[c].clean
                     => Opens(call[c].box, call[c].pw)

\* What the settings page says and what Dovecot takes are what the owner was
\* last told, when no one else has written there (api/integrations.rs).
OwnerKnows ==
  \A b \in Live : /\ kept[b] \in Passwords => Opens(b, kept[b]) /\ Connected(b)
                  /\ kept[b] = "off" => box[b].hash = None /\ ~Connected(b)

CredentialsAgree == RevealOpens /\ OwnerKnows
=============================================================================
