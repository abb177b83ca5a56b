--------------------------- MODULE ServicesProofs ---------------------------
(***************************************************************************)
(* Theorems about Services, for any number of mailboxes, messages,         *)
(* browsers, chats, requests and workers.                                  *)
(*                                                                         *)
(* Each component has an inductive invariant of its own, which the steps   *)
(* of the others leave alone: what an account's row and the requests under *)
(* way say of one another (AccountInv), where the messages of a sender     *)
(* with a choice can be (TabInv), and what a task still to send, or        *)
(* sleeping, knows of the subscriptions and slots (NoticeInv).             *)
(***************************************************************************)
EXTENDS Services, FiniteSetTheorems, WellFoundedInduction, TLAPS

-----------------------------------------------------------------------------
(* Accounts.                                                               *)

\* But where the owner has written the hash himself, the vault holds the same password.
Vaults == \A b \in Live \ mixed : box[b].vault # None => box[b].hash = box[b].vault.pw

\* What a request between two statements knows.
Sessions ==
  /\ \A c \in Calls :
       /\ call[c].op \in {"hash", "link"} => call[c].box \in Boxes /\ box[call[c].box] # None
       /\ call[c].op = "link" /\ call[c].clean /\ call[c].box \in Live =>
            box[call[c].box].hash = call[c].pw
  /\ \A b \in Boxes : kept[b] # None => b \in Live
  /\ CredentialsAgree

AccountInv == AccountTypeOK /\ Vaults /\ Sessions

\* A mailbox, once there, never is as if it had not been, and never comes back.
Succeeds == \A b \in Boxes : box[b] # None => box'[b] # None /\ (b \in Live' => b \in Live)

LEMMA EditKeeps ==
  ASSUME scene \in Scenes, edits \in 0..scene.edits, scene' = scene, Edit
  PROVE  edits' \in 0..scene.edits
BY SceneAssumption DEF Edit

LEMMA AccountStart == scene \in Scenes /\ edits = 0 /\ AccountInit => AccountInv
<1> SUFFICES ASSUME scene \in Scenes, edits = 0, AccountInit PROVE AccountInv
  OBVIOUS
<1>1. box \in [Boxes -> Rows \cup {None, Gone}]
  BY SceneAssumption DEF AccountInit, Rows
<1>2. AccountTypeOK
  <2>1. scene.keys \subseteq Keys /\ scene.edits \in Nat
    BY SceneAssumption
  <2>2. Idle \in Requests
    BY DEF Idle, Requests
  <2>3. /\ link \in [Boxes -> {"none", "connected", "disconnected"}] /\ mixed = {}
        /\ kept \in [Boxes -> Passwords \cup {None, "off"}] /\ call = [c \in Calls |-> Idle]
        /\ key \in Keys
    BY <2>1 DEF AccountInit
  <2> QED BY <1>1, <2>1, <2>2, <2>3 DEF AccountTypeOK
<1>3. \A b \in Live : box[b].vault = None
  BY NullAssumption DEF AccountInit, Live
<1>4. Vaults
  BY <1>3 DEF Vaults
<1>5. Sessions
  <2>1. (\A c \in Calls : call[c].op = "idle") /\ (\A b \in Boxes : kept[b] = None)
    BY DEF AccountInit, Idle
  <2>2. (\A b \in Live : kept[b] = None) /\ None \notin Passwords /\ None # "off"
    BY <2>1, NullAssumption DEF Live
  <2> QED BY <2>1, <2>2 DEF Sessions, CredentialsAgree, RevealOpens, OwnerKnows
<1> QED BY <1>2, <1>4, <1>5 DEF AccountInv

\* A row of a mailbox is replaced.
LEMMA RowWritten ==
  ASSUME AccountTypeOK, NEW b \in Boxes, box[b] # Gone, NEW row \in Rows,
         box' = [box EXCEPT ![b] = row]
  PROVE  /\ box' \in [Boxes -> Rows \cup {None, Gone}]
         /\ Live' = Live \cup {b} /\ box'[b] = row
         /\ \A a \in Boxes \ {b} : box'[a] = box[a]
BY NullAssumption DEF AccountTypeOK, Live

LEMMA RowRewritten ==
  ASSUME AccountTypeOK, NEW b \in Live, NEW row \in Rows, box' = [box EXCEPT ![b] = row]
  PROVE  /\ box' \in [Boxes -> Rows \cup {None, Gone}]
         /\ Live' = Live /\ box'[b] = row /\ row # None
         /\ \A a \in Boxes \ {b} : box'[a] = box[a]
<1>1. b \in Boxes /\ box[b] # Gone /\ row # None
  BY NullAssumption DEF Live
<1>2. Live' = Live \cup {b}
  BY <1>1, RowWritten
<1>3. Live' = Live
  BY <1>2
<1> QED BY <1>1, <1>3, RowWritten

LEMMA RowOfLive == ASSUME AccountTypeOK, NEW b \in Live PROVE box[b] \in Rows /\ b \in Boxes
BY DEF AccountTypeOK, Live

LEMMA EncryptType ==
  ASSUME AccountTypeOK, NEW b \in Boxes, NEW pw \in Passwords \cup {None}
  PROVE  /\ Encrypt(key, b, pw) \in Secrets \cup {None}
         /\ Encrypt(key, b, pw) # None => Encrypt(key, b, pw).pw = pw
         /\ pw = None => Encrypt(key, b, pw) = None
BY DEF Encrypt, Secrets, AccountTypeOK

\* Who is under way at a mailbox is no longer sure of it.
LEMMA DisturbKeeps ==
  ASSUME AccountTypeOK, Sessions, NEW b \in Boxes, Disturb(b), Live' \subseteq Live, box'[b] # None,
         \A a \in Boxes \ {b} : box'[a] = box[a] /\ link'[a] = link[a] /\ (a \in Live' <=> a \in Live)
  PROVE  /\ call' \in [Calls -> Requests]
         /\ kept' \in [Boxes -> Passwords \cup {None, "off"}]
         /\ Sessions'
<1>1. \A c \in Calls : call[c] \in Requests
  BY DEF AccountTypeOK
<1>2. \A c \in Calls : call[c].box = b =>
        /\ call'[c] \in Requests
        /\ call'[c].op = call[c].op /\ call'[c].box = b /\ call'[c].clean = FALSE
  BY <1>1 DEF Disturb, Others, Requests
<1>3. \A c \in Calls : call[c].box # b => call'[c] = call[c]
  BY DEF Disturb, Others
<1>4. call' \in [Calls -> Requests]
  <2>1. call' = [c \in Calls |-> call'[c]]
    BY DEF Disturb, Others
  <2>2. \A c \in Calls : call'[c] \in Requests
    BY <1>1, <1>2, <1>3
  <2> QED BY <2>1, <2>2
<1>5. kept' \in [Boxes -> Passwords \cup {None, "off"}] /\ kept'[b] = None
      /\ \A a \in Boxes \ {b} : kept'[a] = kept[a]
  BY DEF Disturb, AccountTypeOK
<1>6. \A c \in Calls :
        /\ call'[c].op \in {"hash", "link"} => call'[c].box \in Boxes /\ box'[call'[c].box] # None
        /\ call'[c].op = "link" /\ call'[c].clean /\ call'[c].box \in Live' =>
             box'[call'[c].box].hash = call'[c].pw
  <2> TAKE c \in Calls
  <2>1. CASE call[c].box = b
    BY <1>2, <2>1
  <2>2. CASE call[c].box # b
    BY <1>3, <2>2 DEF Sessions, Live
  <2> QED BY <2>1, <2>2
<1>7. \A a \in Boxes : kept'[a] # None => a \in Live'
  BY <1>5 DEF Sessions
<1>8. RevealOpens'
  <2> SUFFICES ASSUME NEW c \in Calls, call'[c].op = "reveal", call'[c].pw # None, call'[c].clean
               PROVE  Opens(call[c].box, call[c].pw)'
    BY DEF RevealOpens
  <2>1. call[c].box # b /\ call'[c] = call[c]
    BY <1>2, <1>3
  <2>2. Opens(call[c].box, call[c].pw)
    BY <2>1 DEF Sessions, CredentialsAgree, RevealOpens
  <2> QED BY <2>1, <2>2 DEF Opens, Live
<1>9. OwnerKnows'
  <2> SUFFICES ASSUME NEW a \in Live'
               PROVE  /\ kept'[a] \in Passwords => Opens(a, kept[a])' /\ Connected(a)'
                      /\ kept'[a] = "off" => box'[a].hash = None /\ ~Connected(a)'
    BY DEF OwnerKnows
  <2>1. a \in Live /\ a \in Boxes
    BY DEF Live
  <2>2. CASE a = b
    BY <1>5, <2>2, NullAssumption
  <2>3. CASE a # b
    BY <1>5, <2>1, <2>3 DEF Sessions, CredentialsAgree, OwnerKnows, Opens, Connected
  <2> QED BY <2>2, <2>3
<1> QED BY <1>4, <1>5, <1>6, <1>7, <1>8, <1>9 DEF Sessions, CredentialsAgree

\* A step of the administrator that writes the hash writes the vault.
LEMMA IssuedKeeps ==
  ASSUME AccountInv, scene \in Scenes, scene' = scene, Edit, NEW b \in Live, NEW row \in Rows,
         box' = [box EXCEPT ![b] = row], mixed' = mixed \ {b}, Disturb(b), UNCHANGED <<link, key>>,
         row.vault # None => row.hash = row.vault.pw
  PROVE  AccountInv' /\ Succeeds
<1>0. AccountTypeOK /\ Vaults /\ Sessions /\ b \in Boxes /\ box[b] # None /\ box[b] # Gone
  BY DEF AccountInv, Live
<1>1. /\ box' \in [Boxes -> Rows \cup {None, Gone}]
      /\ Live' = Live /\ box'[b] = row /\ row # None
      /\ \A a \in Boxes \ {b} : box'[a] = box[a]
  BY <1>0, RowRewritten
<1>2. call' \in [Calls -> Requests] /\ kept' \in [Boxes -> Passwords \cup {None, "off"}] /\ Sessions'
  BY <1>0, <1>1, DisturbKeeps
<1>3. AccountTypeOK'
  BY <1>0, <1>1, <1>2, EditKeeps DEF AccountTypeOK
<1>4. Vaults'
  BY <1>0, <1>1 DEF Vaults, Live
<1>5. Succeeds
  BY <1>1 DEF Succeeds
<1> QED BY <1>2, <1>3, <1>4, <1>5 DEF AccountInv

LEMMA AdminStep ==
  ASSUME AccountInv, scene \in Scenes, scene' = scene, NEW b \in Boxes,
         \/ \E a \in Addresses, web, imap \in Passwords \cup {None} : Create(b, a, web, imap)
         \/ \E web \in Passwords : Update(b, web)
         \/ \E pw \in Passwords : SetImapPassword(b, pw)
         \/ RevokeImapPassword(b)
         \/ Remove(b)
  PROVE  AccountInv' /\ Succeeds
<1>0. AccountTypeOK /\ Vaults /\ Sessions
  BY DEF AccountInv
<1>1. ASSUME NEW a \in Addresses, NEW web \in Passwords \cup {None}, NEW imap \in Passwords \cup {None},
             Create(b, a, web, imap)
      PROVE  AccountInv' /\ Succeeds
  <2> DEFINE row == [addr |-> a, web |-> web, hash |-> imap, vault |-> Encrypt(key, b, imap)]
  <2>1. row \in Rows /\ (row.vault # None => row.hash = row.vault.pw) /\ row # None
    BY <1>0, EncryptType, NullAssumption DEF Rows
  <2>2. /\ box[b] = None /\ box' = [box EXCEPT ![b] = row] /\ Edit
        /\ UNCHANGED <<link, key, call, mixed, kept>>
    BY <1>1 DEF Create, Fresh
  <2> HIDE DEF row
  <2>3. /\ box' \in [Boxes -> Rows \cup {None, Gone}]
        /\ Live' = Live \cup {b} /\ box'[b] = row /\ b \notin Live
        /\ \A e \in Boxes \ {b} : box'[e] = box[e]
    BY <1>0, <2>1, <2>2, RowWritten, NullAssumption DEF Live
  <2>4. AccountTypeOK'
    BY <1>0, <2>2, <2>3, EditKeeps DEF AccountTypeOK
  <2>5. Vaults'
    BY <1>0, <2>1, <2>2, <2>3 DEF Vaults, Live
  <2>6. Sessions'
    <3>1. kept[b] = None
      BY <1>0, <2>3 DEF Sessions
    <3>2. RevealOpens'
      BY <1>0, <2>2, <2>3 DEF Sessions, CredentialsAgree, RevealOpens, Opens, Live
    <3>3. OwnerKnows'
      BY <1>0, <2>2, <2>3, <3>1, NullAssumption
         DEF Sessions, CredentialsAgree, OwnerKnows, Opens, Connected, Live
    <3>4. \A c \in Calls : call[c].op \in {"hash", "link"} => call[c].box # b
      BY <1>0, <2>2 DEF Sessions
    <3> QED BY <1>0, <2>2, <2>3, <3>2, <3>3, <3>4 DEF Sessions, CredentialsAgree
  <2> QED BY <2>2, <2>3, <2>4, <2>5, <2>6 DEF AccountInv, Succeeds
<1>2. ASSUME NEW web \in Passwords, Update(b, web) PROVE AccountInv' /\ Succeeds
  <2> DEFINE row == [box[b] EXCEPT !.web = web]
  <2>1. /\ b \in Live /\ Edit /\ box' = [box EXCEPT ![b] = row]
        /\ UNCHANGED <<link, key, call, mixed, kept>>
    BY <1>2 DEF Update
  <2>2. /\ row \in Rows /\ row.hash = box[b].hash /\ row.vault = box[b].vault /\ box[b] # Gone
        /\ row # None
    BY <1>0, <2>1, RowOfLive, NullAssumption DEF Rows
  <2> HIDE DEF row
  <2>3. /\ box' \in [Boxes -> Rows \cup {None, Gone}]
        /\ Live' = Live /\ box'[b] = row
        /\ \A e \in Boxes \ {b} : box'[e] = box[e]
    BY <1>0, <2>1, <2>2, RowRewritten
  <2>4. AccountTypeOK'
    BY <1>0, <2>1, <2>3, EditKeeps DEF AccountTypeOK
  <2>5. \A e \in Live : box'[e].hash = box[e].hash /\ box'[e].vault = box[e].vault
    BY <2>2, <2>3 DEF Live
  <2>6. Vaults'
    BY <1>0, <2>1, <2>3, <2>5 DEF Vaults
  <2>7. Sessions'
    <3>1. RevealOpens' /\ OwnerKnows'
      BY <1>0, <2>1, <2>3, <2>5 DEF Sessions, CredentialsAgree, RevealOpens, OwnerKnows, Opens, Connected
    <3> QED BY <1>0, <2>1, <2>2, <2>3, <2>5, <3>1 DEF Sessions, CredentialsAgree
  <2> QED BY <2>2, <2>3, <2>4, <2>6, <2>7 DEF AccountInv, Succeeds
<1>3. ASSUME NEW pw \in Passwords, SetImapPassword(b, pw) PROVE AccountInv' /\ Succeeds
  <2>1. b \in Live /\ box[b] \in Rows
    BY <1>0, <1>3, RowOfLive DEF SetImapPassword
  <2>2. Issue(box[b], b, pw) \in Rows
        /\ (Issue(box[b], b, pw).vault # None => Issue(box[b], b, pw).hash = Issue(box[b], b, pw).vault.pw)
    BY <1>0, <2>1, EncryptType DEF Issue, Rows
  <2> QED BY <1>3, <2>1, <2>2, IssuedKeeps DEF SetImapPassword
<1>4. CASE RevokeImapPassword(b)
  <2> DEFINE row == [box[b] EXCEPT !.hash = None, !.vault = None]
  <2>1. b \in Live /\ box[b] \in Rows
    BY <1>0, <1>4, RowOfLive DEF RevokeImapPassword
  <2>2. row \in Rows /\ row.vault = None
    BY <2>1 DEF Rows
  <2>3. box' = [box EXCEPT ![b] = row]
    BY <1>0, <1>4, <2>1 DEF RevokeImapPassword, AccountTypeOK
  <2> HIDE DEF row
  <2> QED BY <1>4, <2>1, <2>2, <2>3, IssuedKeeps DEF RevokeImapPassword
<1>5. CASE Remove(b)
  <2>1. /\ b \in Live /\ Edit /\ box' = [box EXCEPT ![b] = Gone] /\ link' = [link EXCEPT ![b] = "none"]
        /\ mixed' = mixed \ {b} /\ Disturb(b) /\ UNCHANGED key
    BY <1>5 DEF Remove
  <2>2. /\ box' \in [Boxes -> Rows \cup {None, Gone}] /\ box'[b] = Gone /\ Live' = Live \ {b}
        /\ \A a \in Boxes \ {b} : box'[a] = box[a] /\ link'[a] = link[a] /\ (a \in Live' <=> a \in Live)
    BY <1>0, <2>1 DEF AccountTypeOK, Live
  <2>3. call' \in [Calls -> Requests] /\ kept' \in [Boxes -> Passwords \cup {None, "off"}] /\ Sessions'
    BY <1>0, <2>1, <2>2, DisturbKeeps, NullAssumption
  <2>4. AccountTypeOK'
    BY <1>0, <2>1, <2>2, <2>3, EditKeeps DEF AccountTypeOK
  <2>5. Vaults'
    BY <1>0, <2>1, <2>2 DEF Vaults, Live
  <2> QED BY <2>2, <2>3, <2>4, <2>5, NullAssumption DEF AccountInv, Succeeds
<1> QED BY <1>1, <1>2, <1>3, <1>4, <1>5

\* One request moves on; the others at that mailbox are no longer sure of it.
LEMMA CutOff ==
  ASSUME AccountTypeOK, NEW c \in Calls, NEW b, NEW req \in Requests,
         call' = [Others(b) EXCEPT ![c] = req]
  PROVE  /\ call'[c] = req /\ call' \in [Calls -> Requests]
         /\ \A e \in Calls \ {c} : /\ call[e].box # b => call'[e] = call[e]
                                   /\ call[e].box = b => call'[e] = [call[e] EXCEPT !.clean = FALSE]
<1> DEFINE all == Others(b)
<1>1. \A e \in Calls : [call[e] EXCEPT !.clean = FALSE] \in Requests
  BY DEF AccountTypeOK, Requests
<1>2. all \in [Calls -> Requests]
  BY <1>1 DEF Others, AccountTypeOK
<1>3. \A e \in Calls : all[e] = IF call[e].box = b THEN [call[e] EXCEPT !.clean = FALSE] ELSE call[e]
  BY DEF Others
<1>4. call' = [all EXCEPT ![c] = req]
  OBVIOUS
<1> HIDE DEF all
<1> QED BY <1>2, <1>3, <1>4

LEMMA RequestStep ==
  ASSUME AccountInv, scene \in Scenes, scene' = scene, NEW c \in Calls,
         \/ \E b \in Boxes : RevealRead(c, b)
         \/ \E a \in Addresses, pw \in Passwords \cup {None} : Resolve(c, a, pw)
         \/ RevealAnswer(c) \/ WriteHash(c) \/ WriteLink(c)
  PROVE  AccountInv' /\ Succeeds
<1>0. AccountTypeOK /\ Vaults /\ Sessions /\ call[c] \in Requests
  BY DEF AccountInv, AccountTypeOK
<1>1. ASSUME NEW req \in Requests, call' = [call EXCEPT ![c] = req], edits' \in 0..scene.edits,
             UNCHANGED <<box, link, key, mixed, kept>>,
             /\ req.op \in {"idle", "reveal", "hash"}
             /\ req.op = "hash" => req.box \in Boxes /\ box[req.box] # None
             /\ req.op = "reveal" /\ req.pw # None /\ req.clean => Opens(req.box, req.pw)
      PROVE  AccountInv' /\ Succeeds
  <2>1. call'[c] = req /\ \A e \in Calls \ {c} : call'[e] = call[e]
    BY <1>0, <1>1 DEF AccountTypeOK
  <2>2. Live' = Live
    BY <1>1 DEF Live
  <2>3. AccountTypeOK'
    BY <1>0, <1>1, <2>2 DEF AccountTypeOK
  <2>4. Vaults' /\ OwnerKnows'
    BY <1>0, <1>1, <2>2 DEF Vaults, Sessions, CredentialsAgree, OwnerKnows, Opens, Connected
  <2>5. RevealOpens'
    BY <1>0, <1>1, <2>1, <2>2 DEF Sessions, CredentialsAgree, RevealOpens, Opens
  <2>6. Sessions'
    BY <1>0, <1>1, <2>1, <2>2, <2>4, <2>5 DEF Sessions, CredentialsAgree
  <2> QED BY <1>1, <2>2, <2>3, <2>4, <2>6 DEF AccountInv, Succeeds
<1>2. ASSUME NEW b \in Boxes, RevealRead(c, b) PROVE AccountInv' /\ Succeeds
  <2> DEFINE pw == Decrypt(key, b, box[b].vault)
             req == [op |-> "reveal", box |-> b, pw |-> pw, clean |-> b \notin mixed]
  <2>1. b \in Live /\ box[b] \in Rows /\ call' = [call EXCEPT ![c] = req]
        /\ UNCHANGED <<box, link, key, mixed, kept>> /\ edits' \in 0..scene.edits
    BY <1>0, <1>2, RowOfLive, EditKeeps DEF RevealRead, AccountTypeOK
  <2>2. box[b].vault \in Secrets \cup {None}
    BY <2>1 DEF Rows
  <2>3. pw \in Passwords \cup {None} /\ (pw # None => box[b].vault # None /\ pw = box[b].vault.pw)
    BY <2>2 DEF Decrypt, Secrets
  <2>4. pw # None /\ b \notin mixed => Opens(b, pw)
    BY <1>0, <2>1, <2>3 DEF Opens, Vaults
  <2> HIDE DEF pw
  <2>5. req \in Requests
    BY <2>3 DEF Requests
  <2> QED BY <1>1, <2>1, <2>4, <2>5
<1>3. ASSUME NEW a \in Addresses, NEW pw \in Passwords \cup {None}, Resolve(c, a, pw)
      PROVE  AccountInv' /\ Succeeds
  <2>1. PICK b \in Own(a) : call' = [call EXCEPT ![c] = [op |-> "hash", box |-> b, pw |-> pw, clean |-> TRUE]]
    BY <1>3 DEF Resolve
  <2>2. b \in Boxes /\ box[b] # None
    BY DEF Own, Live
  <2>3. [op |-> "hash", box |-> b, pw |-> pw, clean |-> TRUE] \in Requests
    BY <2>2 DEF Requests
  <2>4. edits' \in 0..scene.edits /\ UNCHANGED <<box, link, key, mixed, kept>>
    BY <1>0, <1>3, EditKeeps DEF Resolve, AccountTypeOK
  <2> QED BY <1>1, <2>1, <2>2, <2>3, <2>4
<1>4. CASE RevealAnswer(c)
  <2>1. Idle \in Requests /\ Idle.op = "idle"
    BY DEF Idle, Requests
  <2> QED BY <1>0, <1>1, <1>4, <2>1 DEF RevealAnswer, AccountTypeOK
<1>5. CASE WriteHash(c)
  <2> DEFINE b == call[c].box
             req == [call[c] EXCEPT !.op = "link", !.clean = TRUE]
  <2>1. b \in Boxes /\ box[b] # None /\ call[c].pw \in Passwords \cup {None}
    BY <1>0, <1>5 DEF WriteHash, Sessions, Requests
  <2>2. /\ box' = IF b \in Live THEN [box EXCEPT ![b].hash = call[c].pw] ELSE box
        /\ mixed' = mixed \cup ({b} \cap Live)
        /\ call' = [Others(b) EXCEPT ![c] = req]
        /\ kept' = [kept EXCEPT ![b] = None]
        /\ UNCHANGED <<link, key, edits>>
    BY <1>5 DEF WriteHash
  <2>3. req \in Requests /\ req.op = "link" /\ req.box = b /\ req.pw = call[c].pw
    BY <1>0 DEF Requests
  <2>4. /\ box' \in [Boxes -> Rows \cup {None, Gone}] /\ Live' = Live
        /\ b \in Live => box'[b].hash = call[c].pw /\ box'[b].vault = box[b].vault
        /\ b \notin Live => box' = box
        /\ \A a \in Boxes \ {b} : box'[a] = box[a]
    <3>1. CASE b \notin Live
      <4>1. box' = box
        BY <2>2, <3>1
      <4> QED BY <1>0, <3>1, <4>1 DEF AccountTypeOK, Live
    <3>2. CASE b \in Live
      <4> DEFINE row == [box[b] EXCEPT !.hash = call[c].pw]
      <4>1. row \in Rows /\ row.hash = call[c].pw /\ row.vault = box[b].vault
        BY <1>0, <2>1, <3>2, RowOfLive DEF Rows
      <4>2. box' = [box EXCEPT ![b] = row]
        BY <1>0, <2>1, <2>2, <3>2 DEF AccountTypeOK
      <4> HIDE DEF row
      <4> QED BY <1>0, <3>2, <4>1, <4>2, RowRewritten
    <3> QED BY <3>1, <3>2
  <2> HIDE DEF b, req
  <2>5. /\ call'[c] = req /\ call' \in [Calls -> Requests]
        /\ \A e \in Calls \ {c} : /\ call[e].box # b => call'[e] = call[e]
                                  /\ call[e].box = b => call'[e] = [call[e] EXCEPT !.clean = FALSE]
    BY <1>0, <2>2, <2>3, CutOff
  <2>13. \A e \in Calls \ {c} : call[e].box = b =>
           call'[e].op = call[e].op /\ call'[e].box = b /\ call'[e].clean = FALSE
    BY <1>0, <2>5 DEF AccountTypeOK, Requests
  <2>6. kept'[b] = None /\ kept' \in [Boxes -> Passwords \cup {None, "off"}]
        /\ \A a \in Boxes \ {b} : kept'[a] = kept[a]
    BY <1>0, <2>1, <2>2 DEF AccountTypeOK
  <2>7. AccountTypeOK'
    BY <1>0, <2>2, <2>4, <2>5, <2>6 DEF AccountTypeOK
  <2>8. Vaults'
    BY <1>0, <2>2, <2>4 DEF Vaults, Live
  <2>9. RevealOpens'
    BY <1>0, <2>3, <2>4, <2>5, <2>13 DEF Sessions, CredentialsAgree, RevealOpens, Opens, Live
  <2>10. OwnerKnows'
    BY <1>0, <2>2, <2>4, <2>6, NullAssumption DEF Sessions, CredentialsAgree, OwnerKnows, Opens, Connected, Live
  <2>11. Sessions'
    BY <1>0, <2>1, <2>3, <2>4, <2>5, <2>6, <2>9, <2>10, <2>13 DEF Sessions, CredentialsAgree, Live
  <2>12. Succeeds
    <3>1. \A a \in Live : box'[a] # None
      BY <2>4 DEF Live
    <3>2. \A a \in Boxes : a \notin Live => box'[a] = box[a]
      BY <2>4
    <3> QED BY <2>4, <3>1, <3>2 DEF Succeeds
  <2> QED BY <2>7, <2>8, <2>11, <2>12 DEF AccountInv
<1>6. CASE WriteLink(c)
  <2> DEFINE b == call[c].box
             pw == call[c].pw
             now == IF ~call[c].clean \/ b \notin Live THEN None ELSE IF pw = None THEN "off" ELSE pw
  <2>1. b \in Boxes /\ box[b] # None /\ pw \in Passwords \cup {None} /\ call[c].op = "link"
        /\ (call[c].clean /\ b \in Live => box[b].hash = pw)
    BY <1>0, <1>6 DEF WriteLink, Sessions, Requests
  <2>2. /\ link' = IF b \in Live THEN [link EXCEPT ![b] = LinkAfter(link[b], pw)] ELSE link
        /\ call' = [Others(b) EXCEPT ![c] = Idle]
        /\ kept' = [kept EXCEPT ![b] = now]
        /\ UNCHANGED <<box, key, edits, mixed>>
    BY <1>6 DEF WriteLink
  <2>3. link' \in [Boxes -> {"none", "connected", "disconnected"}]
        /\ (\A a \in Boxes \ {b} : link'[a] = link[a])
        /\ (b \in Live /\ pw # None => link'[b] = "connected")
    BY <1>0, <2>1, <2>2 DEF AccountTypeOK, LinkAfter
  <2>4. now \in Passwords \cup {None, "off"}
        /\ (now \in Passwords => now = pw /\ pw # None /\ call[c].clean /\ b \in Live)
        /\ (now = "off" => pw = None /\ call[c].clean /\ b \in Live)
        /\ (now # None => b \in Live)
    BY <2>1, NullAssumption
  <2> HIDE DEF b, pw, now
  <2>5. /\ call'[c].op = "idle" /\ call' \in [Calls -> Requests]
        /\ \A e \in Calls \ {c} : /\ call[e].box # b => call'[e] = call[e]
                                  /\ call[e].box = b => call'[e] = [call[e] EXCEPT !.clean = FALSE]
    <3>1. Idle \in Requests /\ Idle.op = "idle"
      BY DEF Idle, Requests
    <3> QED BY <1>0, <2>2, <3>1, CutOff
  <2>13. \A e \in Calls \ {c} : call[e].box = b =>
           call'[e].op = call[e].op /\ call'[e].box = b /\ call'[e].clean = FALSE
    BY <1>0, <2>5 DEF AccountTypeOK, Requests
  <2>6. kept'[b] = now /\ kept' \in [Boxes -> Passwords \cup {None, "off"}]
        /\ \A a \in Boxes \ {b} : kept'[a] = kept[a]
    BY <1>0, <2>1, <2>2, <2>4 DEF AccountTypeOK
  <2>7. Live' = Live
    BY <2>2 DEF Live
  <2>8. AccountTypeOK'
    BY <1>0, <2>2, <2>3, <2>5, <2>6, <2>7 DEF AccountTypeOK
  <2>9. Vaults'
    BY <1>0, <2>2, <2>7 DEF Vaults
  <2>10. RevealOpens'
    BY <1>0, <2>2, <2>5, <2>7, <2>13 DEF Sessions, CredentialsAgree, RevealOpens, Opens
  <2>11. OwnerKnows'
    <3> SUFFICES ASSUME NEW a \in Live
                 PROVE  /\ kept'[a] \in Passwords => Opens(a, kept[a])' /\ Connected(a)'
                        /\ kept'[a] = "off" => box'[a].hash = None /\ ~Connected(a)'
      BY <2>7 DEF OwnerKnows
    <3>1. CASE a # b
      BY <1>0, <2>2, <2>3, <2>6, <2>7, <3>1 DEF Sessions, CredentialsAgree, OwnerKnows, Opens, Connected, Live
    <3>2. CASE a = b
      BY <2>1, <2>2, <2>3, <2>4, <2>6, <2>7, <3>2 DEF Opens, Connected
    <3> QED BY <3>1, <3>2
  <2>12. Sessions'
    BY <1>0, <2>2, <2>4, <2>5, <2>6, <2>7, <2>10, <2>11, <2>13 DEF Sessions, CredentialsAgree
  <2> QED BY <2>2, <2>7, <2>8, <2>9, <2>12 DEF AccountInv, Succeeds
<1> QED BY <1>6, <1>2, <1>3, <1>4, <1>5

LEMMA AccountStep ==
  AccountInv /\ scene \in Scenes /\ scene' = scene /\ AccountNext => AccountInv' /\ Succeeds
BY AdminStep, RequestStep DEF AccountNext

LEMMA AccountKept ==
  ASSUME AccountInv, UNCHANGED <<scene, accountVars>>, edits' \in 0..scene.edits
  PROVE  AccountInv' /\ Succeeds
BY DEF AccountInv, AccountTypeOK, Vaults, Sessions, CredentialsAgree, RevealOpens, OwnerKnows, Opens,
       Connected, Live, Succeeds, accountVars

LEMMA AccountRestart ==
  ASSUME AccountInv, scene \in Scenes, scene' = scene, NEW k \in Keys, Restart(k)
  PROVE  AccountInv' /\ Succeeds
<1>1. Idle \in Requests /\ Idle.op = "idle"
  BY DEF Idle, Requests
<1>2. edits' \in 0..scene.edits
  BY EditKeeps DEF Restart, AccountInv, AccountTypeOK
<1>3. /\ key' = k /\ call' = [c \in Calls |-> Idle] /\ UNCHANGED <<box, link, mixed, kept>>
  BY DEF Restart
<1>4. Live' = Live
  BY <1>3 DEF Live
<1>5. AccountTypeOK'
  BY <1>1, <1>2, <1>3, <1>4 DEF AccountInv, AccountTypeOK
<1>6. Vaults' /\ OwnerKnows'
  BY <1>3, <1>4 DEF AccountInv, Vaults, Sessions, CredentialsAgree, OwnerKnows, Opens, Connected
<1>7. RevealOpens'
  BY <1>1, <1>3 DEF RevealOpens
<1>8. Sessions'
  BY <1>1, <1>3, <1>4, <1>6, <1>7 DEF AccountInv, Sessions, CredentialsAgree
<1> QED BY <1>3, <1>4, <1>5, <1>6, <1>8 DEF AccountInv, Succeeds

-----------------------------------------------------------------------------
(* The tabs.                                                               *)

\* What a worker is at.
Works ==
  \A w \in Workers :
    /\ work[w].op \in {"thread", "lock", "sweep", "write"} => work[w].msg \in Msgs /\ work[w].cat \in Categories
    /\ work[w].op \in {"read", "write"} => work[w].todo # {}
    /\ work[w].op = "write" /\ work[w].saw # None => work[w].cat = work[w].saw

\* What is known of a message.
Known ==
  \A m \in Msgs :
    /\ mail[m].st = "chosen" /\ mail[m].saw # None => mail[m].cat = mail[m].saw
    /\ mail[m].st \in {"chosen", "here"} => box[Box(m)] # None
    /\ mail[m].at <= Cardinality(Msgs) + 1

SameSender(m, n) == Box(m) = Box(n) /\ Letters[m].sender = Letters[n].sender
Sweeping(m) == \E w \in Workers : work[w].op = "sweep" /\ SameSender(work[w].msg, m)

\* The choice for a sender has reached a message, unless a request is about to see to it.
Obeyed ==
  \A m \in Msgs \ excused :
    Here(m) /\ mail[m].folder = "Inbox" /\ Lock(m) # None /\ ~Sweeping(m) => mail[m].cat = Lock(m)

TabInv == TabTypeOK /\ Works /\ Known /\ Obeyed

LEMMA TabStart == AccountInv /\ TabInit => TabInv
<1> SUFFICES ASSUME TabInit PROVE TabInv
  OBVIOUS
<1>1. Off \in Work /\ Off.op = "idle"
  BY DEF Off, Work
<1>2. [st |-> "out", cat |-> None, saw |-> None, folder |-> "Inbox", at |-> 0] \in Messages
  BY DEF Messages
<1>3. mail \in [Msgs -> Messages] /\ work \in [Workers -> Work]
  BY <1>1, <1>2 DEF TabInit
<1>4. lock \in [Boxes \X Senders -> Categories \cup {None}] /\ tabs \in [Boxes -> SUBSET Categories]
  BY DEF TabInit, Categories
<1>5. TabTypeOK
  BY <1>3, <1>4 DEF TabTypeOK, TabInit
<1>6. Works /\ Obeyed
  BY <1>1 DEF TabInit, Works, Obeyed, Here
<1>7. Known
  BY TabAssumption, FS_CardinalityType DEF TabInit, Known
<1> QED BY <1>5, <1>6, <1>7 DEF TabInv

\* What happens to accounts leaves the tabs as they should be.
LEMMA TabKept ==
  ASSUME TabInv, Succeeds, UNCHANGED tabVars
  PROVE  TabInv'
<1>1. \A m \in Msgs : Box(m) \in Boxes
  BY TabAssumption DEF Box
<1>2. \A m \in Msgs : Here(m)' => Here(m)
  BY <1>1 DEF TabInv, Known, Succeeds, Here, tabVars
<1>3. TabTypeOK' /\ Works'
  BY DEF TabInv, TabTypeOK, Works, tabVars
<1>4. Known'
  BY <1>1 DEF TabInv, Known, Succeeds, tabVars
<1>5. Obeyed'
  BY <1>2 DEF TabInv, Obeyed, Lock, Sweeping, tabVars
<1> QED BY <1>3, <1>4, <1>5 DEF TabInv

-----------------------------------------------------------------------------
(* The newest of some messages.                                            *)

LEMMA Least ==
  ASSUME NEW T, T \subseteq Nat, T # {}
  PROVE  \E x \in T : \A y \in T : x <= y
<1>1. PICK x \in T : \A y \in T : ~ (<<y, x>> \in OpToRel(<, Nat))
  <2>1. IsWellFoundedOn(OpToRel(<, Nat), Nat)
    BY NatLessThanWellFounded
  <2> HIDE DEF OpToRel
  <2> QED BY <2>1, WFMin
<1>2. ASSUME NEW y \in T, y < x PROVE FALSE
  <2>1. <<y, x>> \in OpToRel(<, Nat)
    BY <1>2 DEF OpToRel
  <2> QED BY <1>1, <2>1
<1> QED BY <1>2

LEMMA NewestIsOne ==
  ASSUME TabTypeOK, Known, NEW S, S \subseteq Msgs, S # {}
  PROVE  Newest(S) \in S
<1> DEFINE top == Cardinality(Msgs) + 1
           age(m) == top - mail[m].at
           T == {age(m) : m \in S}
<1>1. \A m \in S : mail[m].at \in Int /\ mail[m].at <= top
  BY DEF TabTypeOK, Messages, Known
<1>2. top \in Nat
  BY TabAssumption, FS_CardinalityType
<1> HIDE DEF top
<1>3. T \subseteq Nat /\ T # {}
  BY <1>1, <1>2
<1>4. PICK x \in T : \A y \in T : x <= y
  BY <1>3, Least
<1>5. PICK m \in S : x = age(m)
  BY <1>4
<1>6. \A n \in S : mail[n].at <= mail[m].at
  <2> TAKE n \in S
  <2>1. age(m) <= age(n)
    BY <1>4, <1>5
  <2> QED BY <1>1, <1>2, <2>1
<1> QED BY <1>6 DEF Newest

-----------------------------------------------------------------------------
(* The steps of the tabs.                                                  *)

WellDone(wk) ==
  /\ wk.op \in {"thread", "lock", "sweep", "write"} => wk.msg \in Msgs /\ wk.cat \in Categories
  /\ wk.op \in {"read", "write"} => wk.todo # {}
  /\ wk.op = "write" /\ wk.saw # None => wk.cat = wk.saw

LEMMA LetterFacts ==
  ASSUME NEW m \in Msgs, TabTypeOK, NEW seen, SenderLock(m, seen)
  PROVE  /\ Box(m) \in Boxes /\ seen \in Categories \cup {None}
         /\ Category(m, seen) \in Categories /\ (seen # None => Category(m, seen) = seen)
<1>1. Lock(m) \in Categories \cup {None} /\ Box(m) \in Boxes
  BY TabAssumption DEF TabTypeOK, Lock, Box
<1>2. Classify(Letters[m].signs) \in Categories
  BY DEF Classify, Categories
<1>3. seen \in {Lock(m), None}
  BY DEF SenderLock
<1> QED BY <1>1, <1>2, <1>3 DEF Category, Decide

LEMMA OffFacts == Off \in Work /\ WellDone(Off) /\ Off.op = "idle"
BY DEF Off, Work, WellDone

\* A worker gets to another step.
LEMMA OneWorker ==
  ASSUME TabInv, NEW w \in Workers, NEW wk \in Work, work' = [work EXCEPT ![w] = wk], WellDone(wk)
  PROVE  /\ work' \in [Workers -> Work] /\ Works' /\ work'[w] = wk
         /\ \A v \in Workers \ {w} : work'[v] = work[v]
BY DEF TabInv, TabTypeOK, Works, WellDone

\* It neither begins nor ends to move the mail of a sender.
LEMMA SweepingKept ==
  ASSUME TabInv, NEW w \in Workers, \A v \in Workers \ {w} : work'[v] = work[v],
         work[w].op # "sweep", work'[w].op # "sweep"
  PROVE  \A m \in Msgs : Sweeping(m)' <=> Sweeping(m)
BY DEF Sweeping, SameSender, Box

\* Only the step of a worker changes.
LEMMA WorkKeeps ==
  ASSUME TabInv, NEW w \in Workers, NEW wk \in Work, work' = [work EXCEPT ![w] = wk], WellDone(wk),
         work[w].op # "sweep", wk.op # "sweep", UNCHANGED <<box, mail, lock, tabs, excused>>
  PROVE  TabInv'
<1>1. /\ work' \in [Workers -> Work] /\ Works' /\ work'[w] = wk
      /\ \A m \in Msgs : Sweeping(m)' <=> Sweeping(m)
  BY OneWorker, SweepingKept
<1>2. TabTypeOK' /\ Known'
  BY <1>1 DEF TabInv, TabTypeOK, Known
<1>3. Obeyed'
  BY <1>1 DEF TabInv, Obeyed, Here, Live, Lock
<1> QED BY <1>1, <1>2, <1>3 DEF TabInv

\* Only one message changes, and that by no worker.
LEMMA MailKeeps ==
  ASSUME TabInv, NEW m \in Msgs, NEW rec \in Messages, mail' = [mail EXCEPT ![m] = rec],
         UNCHANGED <<box, lock, tabs, work>>, excused \subseteq excused', excused' \subseteq Msgs,
         rec.st = "chosen" /\ rec.saw # None => rec.cat = rec.saw,
         rec.st \in {"chosen", "here"} => box[Box(m)] # None,
         rec.at <= Cardinality(Msgs) + 1,
         rec.st = "here" /\ rec.folder = "Inbox" /\ Lock(m) # None /\ m \notin excused' => rec.cat = Lock(m)
  PROVE  TabInv'
<1>1. mail' \in [Msgs -> Messages] /\ mail'[m] = rec /\ \A n \in Msgs \ {m} : mail'[n] = mail[n]
  BY DEF TabInv, TabTypeOK
<1>2. TabTypeOK' /\ Works'
  BY <1>1 DEF TabInv, TabTypeOK, Works
<1>3. Known'
  BY <1>1 DEF TabInv, Known
<1>4. Obeyed'
  BY <1>1 DEF TabInv, Obeyed, Here, Live, Lock, Sweeping
<1> QED BY <1>2, <1>3, <1>4 DEF TabInv

\* A worker moves messages to another tab.
LEMMA MoveKeeps ==
  ASSUME TabInv, NEW S, \A m \in S : m \in Msgs /\ mail[m].st = "here", NEW c \in Categories,
         mail' = Recategorize(S, c), UNCHANGED <<box, lock, tabs>>, excused' \subseteq Msgs,
         work' \in [Workers -> Work], Works',
         \A m \in Msgs \ excused' :
           /\ m \in S /\ Lock(m) # None /\ ~Sweeping(m)' => c = Lock(m)
           /\ m \notin S /\ Here(m) /\ mail[m].folder = "Inbox" /\ Lock(m) # None /\ ~Sweeping(m)' =>
                m \notin excused /\ ~Sweeping(m)
  PROVE  TabInv'
<1>1. \A m \in Msgs : [mail[m] EXCEPT !.cat = c] \in Messages
  BY DEF TabInv, TabTypeOK, Messages
<1>2. mail' \in [Msgs -> Messages]
  BY <1>1 DEF TabInv, TabTypeOK, Recategorize
<1>3. \A m \in Msgs : /\ m \in S => mail'[m] = [mail[m] EXCEPT !.cat = c]
                      /\ m \notin S => mail'[m] = mail[m]
  BY DEF Recategorize
<1>4. \A m \in S : /\ mail'[m].st = "here" /\ mail'[m].cat = c
                   /\ mail'[m].folder = mail[m].folder /\ mail'[m].at = mail[m].at
  <2> TAKE m \in S
  <2>1. mail[m] \in Messages /\ mail'[m] = [mail[m] EXCEPT !.cat = c] /\ mail[m].st = "here"
    BY <1>3 DEF TabInv, TabTypeOK
  <2> QED BY <2>1 DEF Messages
<1>5. TabTypeOK'
  BY <1>2 DEF TabInv, TabTypeOK
<1>6. Known'
  BY <1>3, <1>4 DEF TabInv, Known
<1>7. Obeyed'
  <2> SUFFICES ASSUME NEW m \in Msgs \ excused', Here(m)', mail'[m].folder = "Inbox", Lock(m)' # None,
                      ~Sweeping(m)'
               PROVE  mail'[m].cat = Lock(m)'
    BY DEF Obeyed
  <2>1. Lock(m)' = Lock(m) /\ (Here(m)' <=> mail'[m].st = "here" /\ Box(m) \in Live)
    BY DEF Here, Live, Lock
  <2>2. CASE m \in S
    BY <1>4, <2>1, <2>2
  <2>3. CASE m \notin S
    <3>1. mail'[m] = mail[m]
      BY <1>3, <2>3
    <3>2. Here(m) /\ mail[m].folder = "Inbox" /\ Lock(m) # None
      BY <2>1, <3>1 DEF Here
    <3> QED BY <2>1, <2>3, <3>1, <3>2 DEF TabInv, Obeyed
  <2> QED BY <2>2, <2>3
<1> QED BY <1>5, <1>6, <1>7 DEF TabInv

LEMMA StoredFacts ==
  ASSUME TabInv
  PROVE  Cardinality(Stored) + 1 \in Int /\ Cardinality(Stored) + 1 <= Cardinality(Msgs) + 1
<1>1. Stored \subseteq Msgs
  BY DEF Stored
<1>2. Cardinality(Stored) \in Nat /\ Cardinality(Msgs) \in Nat /\ Cardinality(Stored) <= Cardinality(Msgs)
  BY <1>1, TabAssumption, FS_Subset, FS_CardinalityType
<1> QED BY <1>2

LEMMA StoreStep ==
  ASSUME TabInv, NEW m \in Msgs, Store(m), UNCHANGED box
  PROVE  TabInv'
<1>0. /\ mail[m] \in Messages /\ mail[m].st = "chosen" /\ UNCHANGED <<lock, tabs, work>>
      /\ box[Box(m)] # None /\ (mail[m].saw # None => mail[m].cat = mail[m].saw)
      /\ mail[m].at <= Cardinality(Msgs) + 1
  BY DEF Store, TabInv, TabTypeOK, Known
<1>1. excused \subseteq excused' /\ excused' \subseteq Msgs /\ (mail[m].saw = Lock(m) \/ m \in excused')
  BY DEF Store, TabInv, TabTypeOK
<1>2. CASE Box(m) \in Live
  <2> DEFINE n == Cardinality(Stored) + 1
             rec == [mail[m] EXCEPT !.st = "here", !.folder = Letters[m].folder, !.at = n]
  <2>1. n \in Int /\ n <= Cardinality(Msgs) + 1
    BY StoredFacts
  <2>2. mail' = [mail EXCEPT ![m] = rec]
    BY <1>2 DEF Store, TabInv, TabTypeOK
  <2> HIDE DEF n
  <2>3. /\ rec \in Messages /\ rec.st = "here" /\ rec.cat = mail[m].cat /\ rec.at = n
    BY <1>0, <2>1, TabAssumption DEF Messages
  <2> HIDE DEF rec
  <2> QED BY <1>0, <1>1, <2>1, <2>2, <2>3, MailKeeps
<1>3. CASE Box(m) \notin Live
  <2> DEFINE rec == [mail[m] EXCEPT !.st = "refused"]
  <2>1. mail' = [mail EXCEPT ![m] = rec]
    BY <1>3 DEF Store, TabInv, TabTypeOK
  <2>2. rec \in Messages /\ rec.st = "refused" /\ rec.at = mail[m].at
    BY <1>0 DEF Messages
  <2> HIDE DEF rec
  <2> QED BY <1>0, <1>1, <2>1, <2>2, MailKeeps
<1> QED BY <1>2, <1>3

LEMMA OwnerTabStep ==
  ASSUME TabInv, UNCHANGED box,
         \/ \E b \in Boxes, S \in {{}, {"social"}, {"updates", "forums"}} : SetTabs(b, S)
         \/ \E m \in Msgs, folder \in {"Inbox", "Archive"} : MoveTo(m, folder)
         \/ \E w \in Workers, m \in Msgs, c \in {"primary", "social", "updates"}, apply \in BOOLEAN :
              Choose(w, m, c, apply)
         \/ \E m \in Msgs : Import(m) \/ \E seen \in Categories \cup {None} : CategorizeInbound(m, seen)
  PROVE  TabInv'
<1>0. TabTypeOK /\ Known
  BY DEF TabInv
<1>1. ASSUME NEW b \in Boxes, NEW S \in {{}, {"social"}, {"updates", "forums"}}, SetTabs(b, S) PROVE TabInv'
  <2>1. tabs' \in [Boxes -> SUBSET Categories]
    BY <1>0, <1>1 DEF SetTabs, TabTypeOK, Categories
  <2>2. UNCHANGED <<mail, lock, work, excused>>
    BY <1>1 DEF SetTabs
  <2>3. TabTypeOK'
    BY <1>0, <2>1, <2>2 DEF TabTypeOK
  <2>4. Works' /\ Known'
    BY <2>2 DEF TabInv, Works, Known
  <2>5. Obeyed'
    BY <2>2 DEF TabInv, Obeyed, Here, Live, Lock, Sweeping
  <2> QED BY <2>3, <2>4, <2>5 DEF TabInv
<1>2. ASSUME NEW m \in Msgs, NEW folder \in {"Inbox", "Archive"}, MoveTo(m, folder) PROVE TabInv'
  <2> DEFINE rec == [mail[m] EXCEPT !.folder = folder]
  <2>1. mail' = [mail EXCEPT ![m] = rec]
    BY <1>0, <1>2 DEF MoveTo, TabTypeOK
  <2>2. /\ rec \in Messages /\ rec.st = "here" /\ rec.cat = mail[m].cat /\ rec.folder = folder
        /\ rec.at = mail[m].at
    BY <1>0, <1>2 DEF MoveTo, Here, TabTypeOK, Messages
  <2>3. /\ mail[m].st = "here" /\ excused \subseteq excused' /\ excused' \subseteq Msgs
        /\ folder = "Inbox" /\ m \notin excused' => mail[m].cat = Lock(m)
    BY <1>0, <1>2 DEF MoveTo, Here, TabTypeOK
  <2>4. /\ UNCHANGED <<lock, tabs, work>> /\ box[Box(m)] # None
        /\ mail[m].at <= Cardinality(Msgs) + 1
    BY <1>0, <1>2, <2>3 DEF MoveTo, Known
  <2> HIDE DEF rec
  <2> QED BY <2>1, <2>2, <2>3, <2>4, MailKeeps
<1>3. ASSUME NEW w \in Workers, NEW m \in Msgs, NEW c \in {"primary", "social", "updates"},
             NEW apply \in BOOLEAN, Choose(w, m, c, apply)
      PROVE  TabInv'
  <2> DEFINE wk == [Off EXCEPT !.op = "thread", !.msg = m, !.cat = c, !.apply = apply]
  <2>1. wk \in Work /\ WellDone(wk) /\ wk.op = "thread"
    BY DEF Off, Work, WellDone, Categories
  <2>2. work' = [work EXCEPT ![w] = wk] /\ work[w].op = "idle" /\ UNCHANGED <<mail, lock, tabs, excused>>
    BY <1>3 DEF Choose
  <2> HIDE DEF wk
  <2> QED BY <2>1, <2>2, WorkKeeps
<1>4. ASSUME NEW m \in Msgs, Import(m) PROVE TabInv'
  <2> DEFINE rec == [mail[m] EXCEPT !.st = "here", !.at = -m]
  <2>1. mail' = [mail EXCEPT ![m] = rec]
    BY <1>0, <1>4 DEF Import, TabTypeOK
  <2>2. -m \in Int /\ -m <= Cardinality(Msgs) + 1
    BY TabAssumption, FS_CardinalityType
  <2>3. rec \in Messages /\ rec.st = "here" /\ rec.at = -m
    BY <1>0, <2>2 DEF TabTypeOK, Messages
  <2>4. /\ box[Box(m)] # None /\ excused \subseteq excused' /\ excused' \subseteq Msgs
        /\ Lock(m) = None \/ m \in excused'
    BY <1>0, <1>4 DEF Import, Live, TabTypeOK
  <2> HIDE DEF rec
  <2> QED BY <1>4, <2>1, <2>2, <2>3, <2>4, MailKeeps DEF Import
<1>5. ASSUME NEW m \in Msgs, NEW seen, CategorizeInbound(m, seen) PROVE TabInv'
  <2> DEFINE rec == [mail[m] EXCEPT !.st = "chosen", !.cat = Category(m, seen), !.saw = seen]
  <2>0. /\ seen \in Categories \cup {None} /\ Category(m, seen) \in Categories
        /\ seen # None => Category(m, seen) = seen
    BY <1>0, <1>5, LetterFacts DEF CategorizeInbound
  <2>1. mail' = [mail EXCEPT ![m] = rec]
    BY <1>0, <1>5 DEF CategorizeInbound, TabTypeOK
  <2>2. /\ rec \in Messages /\ rec.st = "chosen" /\ rec.cat = Category(m, seen) /\ rec.saw = seen
        /\ rec.at = mail[m].at
    BY <1>0, <2>0 DEF TabTypeOK, Messages
  <2>3. box[Box(m)] # None /\ mail[m].at <= Cardinality(Msgs) + 1 /\ excused' \subseteq Msgs
    BY <1>0, <1>5 DEF CategorizeInbound, Live, Known, TabTypeOK
  <2> HIDE DEF rec
  <2>4. UNCHANGED <<lock, tabs, work, excused>> /\ (rec.saw # None => rec.cat = rec.saw)
    BY <1>5, <2>0, <2>2 DEF CategorizeInbound
  <2> QED BY <2>1, <2>2, <2>3, <2>4, MailKeeps
<1> QED BY <1>1, <1>2, <1>3, <1>4, <1>5

LEMMA WorkerStep ==
  ASSUME TabInv, UNCHANGED box, NEW w \in Workers,
         \/ UpdateThread(w) \/ LockSender(w) \/ Sweep(w) \/ BackfillWrite(w) \/ CutWork(w)
         \/ \E seen \in Categories \cup {None} : BackfillRead(w, seen)
         \/ \E b \in Boxes : BackfillSelect(w, b)
  PROVE  TabInv'
<1>0. TabTypeOK /\ Known /\ Obeyed /\ work[w] \in Work /\ WellDone(work[w]) /\ excused \subseteq Msgs
  BY DEF TabInv, TabTypeOK, Works, WellDone
<1> DEFINE m == work[w].msg
           c == work[w].cat
<1>1. CASE UpdateThread(w)
  <2> DEFINE S == Together(m)
             wk == IF work[w].apply /\ Letters[m].sender # NoSender THEN [work[w] EXCEPT !.op = "lock"] ELSE Off
  <2>1. /\ work[w].op = "thread" /\ mail' = Recategorize(S, c)
        /\ excused' = excused \cup {n \in S : Lock(n) \notin {None, c}}
        /\ work' = [work EXCEPT ![w] = wk] /\ UNCHANGED <<lock, tabs>>
    BY <1>0, <1>1 DEF UpdateThread, TabTypeOK
  <2>2. m \in Msgs /\ c \in Categories /\ \A n \in S : n \in Msgs /\ mail[n].st = "here"
    BY <1>0, <2>1 DEF WellDone, Together, Here
  <2>3. wk \in Work /\ WellDone(wk) /\ wk.op # "sweep"
    BY <1>0, <2>1, OffFacts DEF WellDone, Work
  <2> HIDE DEF S, wk
  <2>4. work' \in [Workers -> Work] /\ Works' /\ \A n \in Msgs : Sweeping(n)' <=> Sweeping(n)
    BY <2>1, <2>3, OneWorker, SweepingKept
  <2> HIDE DEF m, c
  <2> QED BY <1>0, <2>1, <2>2, <2>4, MoveKeeps
<1>2. CASE LockSender(w)
  <2> DEFINE wk == [work[w] EXCEPT !.op = "sweep"]
  <2>1. /\ work[w].op = "lock" /\ work' = [work EXCEPT ![w] = wk] /\ UNCHANGED <<mail, tabs, excused>>
        /\ lock' = [lock EXCEPT ![<<Box(m), Letters[m].sender>>] = c]
    BY <1>0, <1>2 DEF LockSender, TabTypeOK
  <2>2. m \in Msgs /\ c \in Categories
    BY <1>0, <2>1 DEF WellDone
  <2>3. wk \in Work /\ WellDone(wk) /\ wk.op = "sweep" /\ wk.msg = m
    BY <1>0, <2>2 DEF WellDone, Work
  <2> HIDE DEF wk
  <2>4. /\ work' \in [Workers -> Work] /\ Works' /\ work'[w] = wk
        /\ \A v \in Workers \ {w} : work'[v] = work[v]
    BY <2>1, <2>3, OneWorker
  <2> HIDE DEF m, c
  <2>5. lock' \in [Boxes \X Senders -> Categories \cup {None}]
        /\ \A n \in Msgs : ~SameSender(m, n) => Lock(n)' = Lock(n)
    BY <1>0, <2>1, <2>2, TabAssumption DEF TabTypeOK, Lock, Box, SameSender
  <2>6. TabTypeOK' /\ Known'
    BY <1>0, <2>1, <2>4, <2>5 DEF TabTypeOK, Known
  <2>7. \A n \in Msgs : ~Sweeping(n)' => ~Sweeping(n) /\ ~SameSender(m, n)
    BY <2>1, <2>3, <2>4 DEF Sweeping, SameSender, Box
  <2>8. Obeyed'
    BY <1>0, <2>1, <2>5, <2>7 DEF Obeyed, Here, Live
  <2> QED BY <2>4, <2>6, <2>8 DEF TabInv
<1>3. CASE Sweep(w)
  <2> DEFINE S == Swept(m)
  <2>1. /\ work[w].op = "sweep" /\ mail' = Recategorize(S, c) /\ work' = [work EXCEPT ![w] = Off]
        /\ excused' = (excused \ S) \cup {n \in S : Lock(n) # c}
        /\ UNCHANGED <<lock, tabs>>
    BY <1>3 DEF Sweep
  <2>2. m \in Msgs /\ c \in Categories
    BY <1>0, <2>1 DEF WellDone
  <2>3. \A n \in S : n \in Msgs /\ mail[n].st = "here"
    BY DEF Swept, Inbox, Here
  <2>4. \A n \in Msgs \ S : Here(n) /\ mail[n].folder = "Inbox" => ~SameSender(m, n)
    BY <2>2, TabAssumption DEF Swept, Inbox, SameSender
  <2> HIDE DEF S, m, c
  <2>5. /\ work' \in [Workers -> Work] /\ Works' /\ \A v \in Workers \ {w} : work'[v] = work[v]
    BY <2>1, OffFacts, OneWorker
  <2>6. \A n \in Msgs : ~Sweeping(n)' /\ ~SameSender(m, n) => ~Sweeping(n)
    BY <2>5 DEF Sweeping, SameSender, Box, m
  <2>7. excused' \subseteq Msgs
    BY <1>0, <2>1, <2>3
  <2> QED BY <1>0, <2>1, <2>2, <2>3, <2>4, <2>5, <2>6, <2>7, MoveKeeps
<1>4. ASSUME NEW seen, BackfillRead(w, seen) PROVE TabInv'
  <2> DEFINE n == Newest(work[w].todo)
             wk == [work[w] EXCEPT !.op = "write", !.msg = n, !.cat = Category(n, seen), !.saw = seen]
  <2>1. /\ work[w].op = "read" /\ work' = [work EXCEPT ![w] = wk] /\ UNCHANGED <<mail, lock, tabs, excused>>
        /\ SenderLock(n, seen)
    BY <1>0, <1>4 DEF BackfillRead, TabTypeOK
  <2>2. work[w].todo \subseteq Msgs /\ work[w].todo # {}
    BY <1>0, <2>1 DEF Work, WellDone
  <2>3. n \in Msgs
    BY <1>0, <2>2, NewestIsOne
  <2> HIDE DEF n
  <2>4. wk \in Work /\ WellDone(wk) /\ wk.op = "write"
    <3>1. /\ seen \in Categories \cup {None} /\ Category(n, seen) \in Categories
          /\ seen # None => Category(n, seen) = seen
      BY <1>0, <2>1, <2>3, LetterFacts
    <3> HIDE DEF Category
    <3> QED BY <1>0, <2>2, <2>3, <3>1 DEF Work, WellDone
  <2> HIDE DEF wk
  <2> QED BY <2>1, <2>4, WorkKeeps
<1>5. CASE BackfillWrite(w)
  <2> DEFINE S == {m} \cap {n \in Msgs : Here(n)}
             rest == work[w].todo \ {m}
             wk == IF rest = {} THEN Off ELSE [Off EXCEPT !.op = "read", !.todo = rest]
  <2>1. /\ work[w].op = "write" /\ mail' = Recategorize(S, c) /\ work' = [work EXCEPT ![w] = wk]
        /\ excused' = IF work[w].saw = Lock(m) THEN excused \ {m} ELSE excused \cup {m}
        /\ UNCHANGED <<lock, tabs>>
    BY <1>5 DEF BackfillWrite
  <2>2. m \in Msgs /\ c \in Categories /\ (work[w].saw # None => c = work[w].saw)
    BY <1>0, <2>1 DEF WellDone
  <2>3. wk \in Work /\ WellDone(wk) /\ wk.op # "sweep"
    BY <1>0, OffFacts DEF Work, WellDone, Off
  <2>4. \A n \in S : n = m /\ n \in Msgs /\ mail[n].st = "here"
    BY DEF Here
  <2>5. Here(m) => m \in S
    BY <2>2
  <2> HIDE DEF S, wk
  <2>6. work' \in [Workers -> Work] /\ Works' /\ \A n \in Msgs : Sweeping(n)' <=> Sweeping(n)
    BY <2>1, <2>3, OneWorker, SweepingKept
  <2> HIDE DEF m, c
  <2> QED BY <1>0, <2>1, <2>2, <2>4, <2>5, <2>6, MoveKeeps
<1>6. CASE CutWork(w)
  <2>1. /\ work' = [work EXCEPT ![w] = Off] /\ UNCHANGED <<mail, lock, tabs>>
        /\ excused' = IF work[w].op = "sweep" THEN excused \cup From(m) ELSE excused
    BY <1>6 DEF CutWork
  <2>2. CASE work[w].op # "sweep"
    BY <2>1, <2>2, OffFacts, WorkKeeps
  <2>3. CASE work[w].op = "sweep"
    <3>1. /\ work' \in [Workers -> Work] /\ Works' /\ \A v \in Workers \ {w} : work'[v] = work[v]
      BY <2>1, OffFacts, OneWorker
    <3>2. \A n \in Msgs : Here(n) /\ mail[n].folder = "Inbox" /\ n \notin From(m) => ~SameSender(m, n)
      BY DEF From, Inbox, SameSender
    <3>3. From(m) \subseteq Msgs
      BY DEF From, Inbox
    <3> HIDE DEF m
    <3>4. \A n \in Msgs : ~Sweeping(n)' /\ ~SameSender(m, n) => ~Sweeping(n)
      BY <3>1 DEF Sweeping, SameSender, Box, m
    <3>5. TabTypeOK' /\ Known'
      BY <1>0, <2>1, <2>3, <3>1, <3>3 DEF TabTypeOK, Known
    <3>6. Obeyed'
      BY <1>0, <2>1, <2>3, <3>2, <3>4 DEF Obeyed, Here, Live, Lock
    <3> QED BY <3>1, <3>5, <3>6 DEF TabInv
  <2> QED BY <2>2, <2>3
<1>7. ASSUME NEW b \in Boxes, BackfillSelect(w, b) PROVE TabInv'
  <2>1. PICK S \in SUBSET NoCategory(b) :
          /\ Cardinality(S) = IF Cardinality(NoCategory(b)) < Batch THEN Cardinality(NoCategory(b)) ELSE Batch
          /\ work' = [work EXCEPT ![w] = [Off EXCEPT !.op = "read", !.todo = S]]
    BY <1>7 DEF BackfillSelect
  <2>2. NoCategory(b) \subseteq Msgs /\ NoCategory(b) # {}
    BY <1>7 DEF BackfillSelect, NoCategory, Inbox
  <2>3. S # {}
    <3>1. IsFiniteSet(NoCategory(b))
      BY <2>2, TabAssumption, FS_Subset
    <3>2. Cardinality(NoCategory(b)) \in Nat /\ Cardinality(NoCategory(b)) # 0
      BY <2>2, <3>1, FS_EmptySet, FS_CardinalityType
    <3>3. Cardinality(S) # 0
      BY <2>1, <3>2, TabAssumption
    <3> QED BY <3>3, FS_EmptySet
  <2> DEFINE wk == [Off EXCEPT !.op = "read", !.todo = S]
  <2>4. wk \in Work /\ WellDone(wk) /\ wk.op = "read"
    BY <2>2, <2>3 DEF Off, Work, WellDone
  <2>5. work' = [work EXCEPT ![w] = wk] /\ work[w].op = "idle" /\ UNCHANGED <<mail, lock, tabs, excused>>
    BY <1>7, <2>1 DEF BackfillSelect
  <2> HIDE DEF wk
  <2> QED BY <2>4, <2>5, WorkKeeps
<1> QED BY <1>1, <1>2, <1>3, <1>4, <1>5, <1>6, <1>7

LEMMA TabStep == TabInv /\ UNCHANGED box /\ TabNext => TabInv'
BY OwnerTabStep, WorkerStep DEF TabNext

LEMMA TabRestartKeeps == ASSUME TabInv, UNCHANGED box, TabRestart PROVE TabInv'
<1>0. TabTypeOK /\ Works /\ Known /\ Obeyed
  BY DEF TabInv
<1>1. /\ mail' = [m \in Msgs |-> IF mail[m].st = "chosen" THEN [mail[m] EXCEPT !.st = "out"] ELSE mail[m]]
      /\ work' = [w \in Workers |-> Off] /\ UNCHANGED <<lock, tabs>>
      /\ excused' = excused \cup UNION {From(work[w].msg) : w \in {v \in Workers : work[v].op = "sweep"}}
  BY DEF TabRestart
<1>2. \A m \in Msgs :
        /\ mail'[m] \in Messages /\ mail'[m].cat = mail[m].cat /\ mail'[m].saw = mail[m].saw
        /\ mail'[m].folder = mail[m].folder /\ mail'[m].at = mail[m].at
        /\ mail'[m].st = IF mail[m].st = "chosen" THEN "out" ELSE mail[m].st
  <2> TAKE m \in Msgs
  <2>1. mail[m] \in Messages
    BY <1>0 DEF TabTypeOK
  <2> QED BY <1>1, <2>1 DEF Messages
<1>3. excused' \subseteq Msgs /\ excused \subseteq excused'
  BY <1>0, <1>1 DEF TabTypeOK, From, Inbox
<1>4. \A m \in Msgs \ excused' : Here(m) /\ mail[m].folder = "Inbox" => ~Sweeping(m)
  <2> SUFFICES ASSUME NEW m \in Msgs, Here(m), mail[m].folder = "Inbox", NEW w \in Workers,
                      work[w].op = "sweep", SameSender(work[w].msg, m)
               PROVE  m \in excused'
    BY DEF Sweeping
  <2>1. m \in From(work[w].msg)
    BY DEF From, Inbox, SameSender
  <2> QED BY <1>1, <2>1
<1>5. TabTypeOK' /\ Works'
  <2>1. mail' \in [Msgs -> Messages]
    BY <1>1, <1>2
  <2> QED BY <1>0, <1>1, <1>3, <2>1, OffFacts DEF TabTypeOK, Works
<1>6. Known'
  BY <1>0, <1>2 DEF Known
<1>7. Obeyed'
  BY <1>0, <1>1, <1>2, <1>3, <1>4 DEF Obeyed, Here, Live, Lock
<1> QED BY <1>5, <1>6, <1>7 DEF TabInv

-----------------------------------------------------------------------------
(* What the tabs list.                                                     *)

\* Whatever tabs are enabled, one of them, and only one, stands for a category.
LEMMA OneOfThem ==
  ASSUME NEW enabled \in SUBSET Categories, "primary" \in enabled, NEW c \in Categories
  PROVE  Cardinality({t \in enabled : c \in StoredCategories(t, enabled)}) = 1
<1> DEFINE S == {t \in enabled : c \in StoredCategories(t, enabled)}
<1>1. CASE c \in enabled
  <2>1. S = {c}
    BY <1>1 DEF StoredCategories
  <2> QED BY <2>1, FS_Singleton
<1>2. CASE c \notin enabled
  <2>1. S = {"primary"}
    BY <1>2 DEF StoredCategories
  <2> QED BY <2>1, FS_Singleton
<1> QED BY <1>1, <1>2

LEMMA TabsAreHonest == AccountInv /\ TabInv => TabsHonest
<1> SUFFICES ASSUME TabInv PROVE TabsHonest
  OBVIOUS
<1>0. TabTypeOK /\ Known /\ Obeyed
  BY DEF TabInv
<1>1. \A m \in Msgs : Coalesce(mail[m].cat) \in Categories
  BY <1>0 DEF TabTypeOK, Messages, Coalesce, Categories
<1>2. ASSUME NEW b \in Live, NEW m \in Inbox(b)
      PROVE  Cardinality(Lists(m)) = 1 /\ Cardinality(Counts(m)) = 1
  <2>1. m \in Msgs /\ Here(m) /\ Box(m) = b /\ b \in Boxes
    BY DEF Inbox, Live
  <2>2. EnabledTabs(b) \in SUBSET Categories /\ "primary" \in EnabledTabs(b)
    BY <1>0, <2>1 DEF TabTypeOK, EnabledTabs, Categories
  <2> DEFINE S == Together(m) \cap Inbox(b)
             n == Newest(S)
  <2>3. S \subseteq Msgs /\ m \in S
    BY <2>1 DEF Together, Inbox
  <2>4. n \in Msgs
    BY <1>0, <2>3, NewestIsOne
  <2>5. Lists(m) = Showing(b, Coalesce(mail[n].cat)) /\ Counts(m) = Showing(b, Coalesce(mail[m].cat))
    BY <2>1 DEF Lists, Counts
  <2> HIDE DEF n
  <2>6. \A k \in Msgs : Cardinality(Showing(b, Coalesce(mail[k].cat))) = 1
    BY <1>1, <2>2, OneOfThem DEF Showing
  <2> QED BY <2>1, <2>4, <2>5, <2>6
<1>3. OneTab
  BY <1>2 DEF OneTab
<1>4. \A m \in Msgs : ~Changing(m) => ~Sweeping(m)
  BY DEF Changing, Sweeping, SameSender
<1>5. ChoiceWins
  BY <1>0, <1>4 DEF ChoiceWins, Obeyed, Inbox
<1> QED BY <1>3, <1>5 DEF TabsHonest

-----------------------------------------------------------------------------
(* Subscriptions and the tasks that push.                                  *)

\* Who is to be pushed to is the owner of the browser, unless it moved meanwhile.
Addressed ==
  /\ \A e \in Endpoints : sub[e] # None => owner[e] = sub[e].box
  /\ \A m \in Mail : \A e \in push[m].todo : e \in push[m].moved \/ owner[e] = push[m].box
  /\ told = {}

\* There is room for the browser that was counted for.
Room ==
  \A b \in Boxes \ raced :
    /\ Cardinality(Subscribed(b)) <= MaxSubs
    /\ \A e \in Endpoints : ask[e] = b => /\ Cardinality(Subscribed(b) \ {e}) < MaxSubs
                                          /\ \A f \in Endpoints \ {e} : ask[f] # b

\* What a message asks of its task, and of the tasks of the others.
Timed(task, now, slots) ==
  /\ task.pc = "settings" => task.box \in Boxes
  /\ task.chat \in Chats =>
       /\ task.asked <= now /\ task.asked <= task.start /\ task.start <= task.asked + MaxWait
       /\ task.start + MinGap <= slots[task.chat] \/ task.start + MinGap <= now

Spaced(s, t) ==
  s.chat = t.chat /\ s.chat \in Chats => s.start + MinGap <= t.start \/ t.start + MinGap <= s.start

\* The messages to one chat are apart, and the next slot is past them all.
Apart ==
  /\ \A m \in Mail : Timed(gram[m], clock, slot)
  /\ \A m, n \in Mail : m # n => Spaced(gram[m], gram[n])

\* Nothing is sent before its instant, nor asked for before the process started;
\* the tests of a mailbox are apart.
Paced ==
  /\ \A m \in Mail :
       gram[m].chat \in Chats => up <= gram[m].start /\ (gram[m].pc = "sent" => gram[m].start <= clock)
  /\ \A t \in tests : up <= t.at /\ t.at <= clock
  /\ \A t, u \in tests : t.box = u.box /\ t # u => t.at + Cooldown <= u.at \/ u.at + Cooldown <= t.at

NoticeInv == NoticeTypeOK /\ Addressed /\ Room /\ Apart /\ Paced

LEMMA QuietFacts == Quiet \in PushTasks /\ Quiet.todo = {} /\ Quiet.moved = {}
BY DEF Quiet, PushTasks

LEMMA SilentFacts == Silent \in GramTasks /\ Silent.chat \notin Chats /\ Silent.pc = "idle"
<1>1. 0 \in 0..(MaxTime + MaxWait) /\ 0 \in 0..MaxTime
  BY NoticeAssumption
<1> QED BY <1>1, NoticeAssumption DEF Silent, GramTasks

LEMMA SubscribedFinite ==
  ASSUME NEW b
  PROVE  IsFiniteSet(Subscribed(b)) /\ Subscribed(b) \subseteq Endpoints /\ Cardinality(Subscribed(b)) \in Nat
<1>1. Subscribed(b) \subseteq Endpoints
  BY DEF Subscribed
<1> QED BY <1>1, NoticeAssumption, FS_Subset, FS_CardinalityType

LEMMA NoticeStart == scene \in Scenes /\ NoticeInit => NoticeInv
<1> SUFFICES ASSUME scene \in Scenes, NoticeInit PROVE NoticeInv
  OBVIOUS
<1>1. chat \in [Boxes -> Chats \cup {None}]
  BY NoticeAssumption DEF NoticeInit
<1>2. /\ push = [m \in Mail |-> Quiet] /\ gram = [m \in Mail |-> Silent]
      /\ sub = [e \in Endpoints |-> None] /\ ask = [e \in Endpoints |-> None]
      /\ owner = [e \in Endpoints |-> None] /\ slot = [c \in Chats |-> 0]
      /\ clock = 1 /\ expired = {} /\ raced = {} /\ told = {} /\ muted = {} /\ tests = {} /\ up = 1
  BY DEF NoticeInit
<1>3. NoticeTypeOK
  BY <1>1, <1>2, QuietFacts, SilentFacts, NoticeAssumption DEF NoticeTypeOK
<1>4. Addressed
  BY <1>2, QuietFacts DEF Addressed
<1>5. Room
  <2>1. \A b \in Boxes : Subscribed(b) = {}
    BY <1>2 DEF Subscribed
  <2>2. \A b \in Boxes : Cardinality(Subscribed(b)) = 0
    BY <2>1, FS_EmptySet
  <2> QED BY <1>2, <2>2, NoticeAssumption, NullAssumption DEF Room
<1>6. Apart
  BY <1>2, SilentFacts DEF Apart, Timed, Spaced
<1>7. Paced
  BY <1>2, SilentFacts DEF Paced
<1> QED BY <1>3, <1>4, <1>5, <1>6, <1>7 DEF NoticeInv

LEMMA MovedType == ASSUME NoticeTypeOK, NEW e \in Endpoints
  PROVE  /\ Moved(e) \in [Mail -> PushTasks]
         /\ \A m \in Mail : /\ Moved(e)[m].todo = push[m].todo /\ Moved(e)[m].box = push[m].box
                            /\ Moved(e)[m].moved \in {push[m].moved, push[m].moved \cup {e}}
                            /\ e \in push[m].todo => e \in Moved(e)[m].moved
<1>1. \A m \in Mail : push[m] \in PushTasks
  BY DEF NoticeTypeOK
<1>2. \A m \in Mail : LET t == [push[m] EXCEPT !.moved = @ \cup {e}]
                     IN /\ t \in PushTasks /\ t.todo = push[m].todo /\ t.box = push[m].box
                        /\ t.moved = push[m].moved \cup {e}
  BY <1>1 DEF PushTasks
<1> QED BY <1>1, <1>2 DEF Moved

\* What a task that pushes, or a request that subscribes, does.
PushActs ==
  \/ \E e \in Endpoints :
       Expire(e) \/ Subscribe(e) \/ \E a \in Addresses : CountSubscriptions(e, a) \/ Unsubscribe(e, a)
  \/ \E m \in Mail :
       PushList(m) \/ \E e \in Endpoints, outcome \in {"delivered", "failed", "gone"} : PushSend(m, e, outcome)

LEMMA OwnFacts == ASSUME NEW a, NEW b \in Own(a) PROVE b \in Boxes
BY DEF Own, Live

LEMMA BookFacts ==
  ASSUME NEW row \in Subscriptions \cup {None}, NEW outcome \in {"delivered", "failed", "gone"}
  PROVE  /\ Book(row, outcome) \in Subscriptions \cup {None}
         /\ Book(row, outcome) # None => row # None /\ Book(row, outcome).box = row.box
<1>1. CASE row = None \/ outcome = "gone"
  BY <1>1 DEF Book
<1>2. CASE row # None /\ outcome = "delivered"
  <2>1. Book(row, outcome) = [row EXCEPT !.failures = 0]
    BY <1>2 DEF Book
  <2> QED BY <1>2, <2>1 DEF Subscriptions
<1>3. CASE row # None /\ outcome = "failed"
  <2>1. Book(row, outcome) = [row EXCEPT !.failures = IF @ < 2 THEN @ + 1 ELSE @]
    BY <1>3 DEF Book
  <2> QED BY <1>3, <2>1 DEF Subscriptions
<1> QED BY <1>1, <1>2, <1>3

LEMMA PushType ==
  ASSUME NoticeTypeOK, PushActs
  PROVE  NoticeTypeOK'
<1>1. ASSUME NEW e \in Endpoints, NEW a \in Addresses, CountSubscriptions(e, a) PROVE NoticeTypeOK'
  <2>1. PICK b \in Own(a) : /\ ask' = [ask EXCEPT ![e] = b] /\ raced' \in {raced, raced \cup {b}}
    BY <1>1 DEF CountSubscriptions
  <2>2. b \in Boxes
    BY OwnFacts
  <2> QED BY <1>1, <2>1, <2>2 DEF CountSubscriptions, NoticeTypeOK, gramVars
<1>2. ASSUME NEW e \in Endpoints, NEW a \in Addresses, Unsubscribe(e, a) PROVE NoticeTypeOK'
  <2>1. sub' \in {sub, [sub EXCEPT ![e] = None]} /\ owner' \in {owner, [owner EXCEPT ![e] = None]}
        /\ push' \in {push, Moved(e)} /\ UNCHANGED <<ask, expired, raced, told, gramVars>>
    BY <1>2 DEF Unsubscribe
  <2>2. /\ sub' \in [Endpoints -> Subscriptions \cup {None}] /\ owner' \in [Endpoints -> Boxes \cup {None}]
        /\ push' \in [Mail -> PushTasks]
    BY <2>1, MovedType DEF NoticeTypeOK
  <2> QED BY <2>1, <2>2 DEF NoticeTypeOK, gramVars
<1>3. ASSUME NEW e \in Endpoints, Subscribe(e) PROVE NoticeTypeOK'
  <2>1. ask[e] \in Boxes /\ Taken(sub[e], ask[e]) \in Subscriptions
    BY <1>3 DEF Subscribe, NoticeTypeOK, Taken, Subscriptions
  <2> QED BY <1>3, <2>1, MovedType DEF Subscribe, NoticeTypeOK, gramVars
<1>4. ASSUME NEW e \in Endpoints, Expire(e) PROVE NoticeTypeOK'
  BY <1>4 DEF Expire, NoticeTypeOK, gramVars
<1>5. ASSUME NEW m \in Mail, PushList(m) PROVE NoticeTypeOK'
  <2> DEFINE todo == Subscribed(push[m].box)
             task == IF todo = {} THEN Quiet ELSE [push[m] EXCEPT !.pc = "send", !.todo = todo]
  <2>1. push' = [push EXCEPT ![m] = task]
    BY <1>5 DEF PushList, NoticeTypeOK
  <2>2. todo \subseteq Endpoints
    BY SubscribedFinite
  <2> HIDE DEF todo
  <2>3. task \in PushTasks
    BY <2>2, QuietFacts DEF NoticeTypeOK, PushTasks
  <2> HIDE DEF task
  <2> QED BY <1>5, <2>1, <2>3 DEF PushList, NoticeTypeOK, gramVars
<1>6. ASSUME NEW m \in Mail, NEW e \in Endpoints, NEW outcome \in {"delivered", "failed", "gone"},
             PushSend(m, e, outcome)
      PROVE  NoticeTypeOK'
  <2> DEFINE rest == push[m].todo \ {e}
             task == IF rest = {} THEN Quiet ELSE [push[m] EXCEPT !.todo = rest]
  <2>1. push' = [push EXCEPT ![m] = task] /\ sub' = [sub EXCEPT ![e] = Book(sub[e], outcome)]
        /\ told' \in {told, told \cup {<<m, e>>}}
        /\ UNCHANGED <<ask, expired, edits, owner, raced, gramVars>>
    BY <1>6 DEF PushSend, NoticeTypeOK
  <2>2. push[m] \in PushTasks /\ rest \subseteq Endpoints
    BY DEF NoticeTypeOK, PushTasks
  <2> HIDE DEF rest
  <2>3. task \in PushTasks
    BY <2>2, QuietFacts DEF PushTasks
  <2>4. Book(sub[e], outcome) \in Subscriptions \cup {None}
    BY BookFacts DEF NoticeTypeOK
  <2> HIDE DEF task
  <2>5. told' \subseteq Mail \X Endpoints
    BY <2>1 DEF NoticeTypeOK
  <2> QED BY <2>1, <2>3, <2>4, <2>5 DEF NoticeTypeOK, gramVars
<1> QED BY <1>1, <1>2, <1>3, <1>4, <1>5, <1>6 DEF PushActs

LEMMA AddressedStep ==
  ASSUME NoticeTypeOK, Addressed, PushActs
  PROVE  Addressed'
<1>1. ASSUME NEW e \in Endpoints, Expire(e) \/ \E a \in Addresses : CountSubscriptions(e, a) PROVE Addressed'
  BY <1>1 DEF CountSubscriptions, Expire, Addressed
<1>2. ASSUME NEW e \in Endpoints, NEW a \in Addresses, Unsubscribe(e, a) PROVE Addressed'
  <2>1. PICK b \in Own(a) : /\ sub' = IF e \in Subscribed(b) THEN [sub EXCEPT ![e] = None] ELSE sub
                            /\ owner' = IF owner[e] = b THEN [owner EXCEPT ![e] = None] ELSE owner
                            /\ push' = IF owner[e] = b THEN Moved(e) ELSE push
    BY <1>2 DEF Unsubscribe
  <2>2. told' = told /\ \A f \in Endpoints \ {e} : sub'[f] = sub[f] /\ owner'[f] = owner[f]
    BY <1>2, <2>1 DEF Unsubscribe, NoticeTypeOK
  <2>3. sub'[e] # None => owner'[e] = sub'[e].box
    BY <2>1 DEF Addressed, Subscribed, NoticeTypeOK
  <2>4. \A m \in Mail : \A f \in push'[m].todo : f \in push'[m].moved \/ owner'[f] = push'[m].box
    <3>1. CASE owner[e] = b
      <4>1. push' = Moved(e)
        BY <2>1, <3>1
      <4>2. \A m \in Mail : push[m].todo \subseteq Endpoints
        BY DEF NoticeTypeOK, PushTasks
      <4> QED BY <2>2, <4>1, <4>2, MovedType DEF Addressed
    <3>2. CASE owner[e] # b
      BY <2>1, <3>2 DEF Addressed
    <3> QED BY <3>1, <3>2
  <2> QED BY <2>2, <2>3, <2>4 DEF Addressed
<1>3. ASSUME NEW e \in Endpoints, Subscribe(e) PROVE Addressed'
  <2>1. /\ ask[e] \in Boxes /\ sub' = [sub EXCEPT ![e] = Taken(sub[e], ask[e])]
        /\ owner' = [owner EXCEPT ![e] = ask[e]] /\ push' = Moved(e) /\ told' = told
    BY <1>3 DEF Subscribe, NoticeTypeOK
  <2>2. sub'[e].box = ask[e] /\ owner'[e] = ask[e]
        /\ \A f \in Endpoints \ {e} : sub'[f] = sub[f] /\ owner'[f] = owner[f]
    BY <2>1 DEF Taken, NoticeTypeOK
  <2>3. \A m \in Mail : push[m].todo \subseteq Endpoints
    BY DEF NoticeTypeOK, PushTasks
  <2>4. \A m \in Mail : \A f \in push'[m].todo : f \in push'[m].moved \/ owner'[f] = push'[m].box
    BY <2>1, <2>2, <2>3, MovedType DEF Addressed
  <2> QED BY <2>1, <2>2, <2>4 DEF Addressed
<1>4. ASSUME NEW m \in Mail, PushList(m) PROVE Addressed'
  <2> DEFINE todo == Subscribed(push[m].box)
  <2>1. push'[m].todo \subseteq todo /\ (push'[m].todo = {} \/ push'[m].box = push[m].box)
        /\ \A n \in Mail \ {m} : push'[n] = push[n]
    BY <1>4, QuietFacts DEF PushList, NoticeTypeOK, PushTasks
  <2>2. \A e \in todo : owner[e] = push[m].box
    BY DEF Addressed, Subscribed
  <2> HIDE DEF todo
  <2>3. UNCHANGED <<sub, owner, told>>
    BY <1>4 DEF PushList
  <2> QED BY <2>1, <2>2, <2>3 DEF Addressed
<1>5. ASSUME NEW m \in Mail, NEW e \in Endpoints, NEW outcome \in {"delivered", "failed", "gone"},
             PushSend(m, e, outcome)
      PROVE  Addressed'
  <2>1. /\ owner' = owner /\ sub' = [sub EXCEPT ![e] = Book(sub[e], outcome)] /\ e \in push[m].todo
        /\ told' = IF e \notin expired /\ owner[e] # push[m].box /\ e \notin push[m].moved
                   THEN told \cup {<<m, e>>} ELSE told
    BY <1>5 DEF PushSend
  <2>2. told' = {}
    BY <2>1 DEF Addressed
  <2>3. \A n \in Mail : push'[n].todo = {} \/ (/\ push'[n].todo \subseteq push[n].todo
                                              /\ push'[n].box = push[n].box /\ push'[n].moved = push[n].moved)
    BY <1>5, QuietFacts DEF PushSend, NoticeTypeOK, PushTasks
  <2>4. \A f \in Endpoints : sub'[f] # None => owner'[f] = sub'[f].box
    BY <2>1, BookFacts DEF Addressed, NoticeTypeOK
  <2> QED BY <2>1, <2>2, <2>3, <2>4 DEF Addressed
<1> QED BY <1>1, <1>2, <1>3, <1>4, <1>5 DEF PushActs

LEMMA NoMore ==
  ASSUME NEW T, IsFiniteSet(T), NEW S \in SUBSET T, NEW x
  PROVE  /\ IsFiniteSet(S \ {x}) /\ Cardinality(S) <= Cardinality(T)
         /\ Cardinality(S \ {x}) <= Cardinality(T \ {x})
         /\ Cardinality(S) \in Nat /\ Cardinality(T) \in Nat
         /\ Cardinality(S \ {x}) \in Nat /\ Cardinality(T \ {x}) \in Nat
<1>1. IsFiniteSet(S) /\ Cardinality(S) <= Cardinality(T)
  BY FS_Subset
<1>2. T \ {x} \in SUBSET T /\ S \ {x} \in SUBSET (T \ {x})
  OBVIOUS
<1>3. IsFiniteSet(T \ {x})
  BY <1>2, FS_Subset
<1>4. IsFiniteSet(S \ {x}) /\ Cardinality(S \ {x}) <= Cardinality(T \ {x})
  BY <1>2, <1>3, FS_Subset
<1> QED BY <1>1, <1>3, <1>4, FS_CardinalityType

\* A step that subscribes no one and lets no one in leaves the room there is.
LEMMA RoomLeft ==
  ASSUME Room, NEW b \in Boxes \ raced, Subscribed(b)' \subseteq Subscribed(b),
         \A e \in Endpoints : ask'[e] = b => ask[e] = b
  PROVE  /\ Cardinality(Subscribed(b)') <= MaxSubs
         /\ \A e \in Endpoints : ask'[e] = b => /\ Cardinality(Subscribed(b)' \ {e}) < MaxSubs
                                                /\ \A f \in Endpoints \ {e} : ask'[f] # b
<1> DEFINE S == Subscribed(b)'
           T == Subscribed(b)
<1>1. Cardinality(S) <= Cardinality(T) /\ Cardinality(S) \in Nat /\ Cardinality(T) \in Nat
  BY SubscribedFinite, NoMore
<1>2. \A x : /\ Cardinality(S \ {x}) <= Cardinality(T \ {x})
             /\ Cardinality(S \ {x}) \in Nat /\ Cardinality(T \ {x}) \in Nat
  BY SubscribedFinite, NoMore
<1>3. /\ Cardinality(T) <= MaxSubs
      /\ \A e \in Endpoints : ask[e] = b => /\ Cardinality(T \ {e}) < MaxSubs
                                            /\ \A f \in Endpoints \ {e} : ask[f] # b
  BY DEF Room
<1>4. MaxSubs \in Nat
  BY NoticeAssumption
<1> HIDE DEF S, T
<1>5. Cardinality(S) <= MaxSubs
  BY <1>1, <1>3, <1>4
<1>6. ASSUME NEW e \in Endpoints, ask'[e] = b PROVE Cardinality(S \ {e}) < MaxSubs
  <2>1. Cardinality(T \ {e}) < MaxSubs
    BY <1>3, <1>6
  <2>2. /\ Cardinality(S \ {e}) <= Cardinality(T \ {e})
        /\ Cardinality(S \ {e}) \in Nat /\ Cardinality(T \ {e}) \in Nat
    BY <1>2
  <2> QED BY <1>4, <2>1, <2>2
<1>7. ASSUME NEW e \in Endpoints, ask'[e] = b PROVE \A f \in Endpoints \ {e} : ask'[f] # b
  BY <1>3, <1>7
<1> QED BY <1>5, <1>6, <1>7 DEF S

LEMMA RoomStep ==
  ASSUME NoticeTypeOK, Room, PushActs
  PROVE  Room'
<1>0. None \notin Boxes
  BY NullAssumption
<1>1. ASSUME NEW e \in Endpoints, NEW a \in Addresses, CountSubscriptions(e, a) PROVE Room'
  <2>1. PICK b \in Own(a) :
          /\ Cardinality(Subscribed(b) \ {e}) < MaxSubs /\ ask' = [ask EXCEPT ![e] = b]
          /\ raced' = IF \E f \in Endpoints : ask[f] = b THEN raced \cup {b} ELSE raced
    BY <1>1 DEF CountSubscriptions
  <2>2. /\ ask[e] = None /\ sub' = sub /\ raced \subseteq raced' /\ ask'[e] = b
        /\ \A f \in Endpoints \ {e} : ask'[f] = ask[f]
        /\ \A c \in Boxes : Subscribed(c)' = Subscribed(c)
    BY <1>1, <2>1 DEF CountSubscriptions, NoticeTypeOK, Subscribed
  <2>3. \A f \in Endpoints : ask[f] = b => b \in raced'
    BY <2>1
  <2>4. SUFFICES ASSUME NEW c \in Boxes \ raced'
                 PROVE  /\ Cardinality(Subscribed(c)') <= MaxSubs
                        /\ \A f \in Endpoints : ask'[f] = c =>
                             /\ Cardinality(Subscribed(c)' \ {f}) < MaxSubs
                             /\ \A g \in Endpoints \ {f} : ask'[g] # c
    BY DEF Room
  <2>5. CASE c # b
    BY <2>2, <2>5, RoomLeft
  <2>6. CASE c = b
    BY <2>1, <2>2, <2>3, <2>6 DEF Room
  <2> QED BY <2>5, <2>6
<1>2. ASSUME NEW e \in Endpoints, Subscribe(e) PROVE Room'
  <2>1. PICK b \in Boxes : /\ ask[e] = b /\ sub' = [sub EXCEPT ![e] = Taken(sub[e], b)]
                           /\ ask' = [ask EXCEPT ![e] = None] /\ raced' = raced
    BY <1>2 DEF Subscribe, NoticeTypeOK
  <2>2. /\ sub'[e] # None /\ sub'[e].box = b /\ ask'[e] = None
        /\ \A f \in Endpoints \ {e} : sub'[f] = sub[f] /\ ask'[f] = ask[f]
    BY <2>1, NoticeAssumption DEF NoticeTypeOK, Taken, Subscriptions
  <2>3. /\ Subscribed(b)' = (Subscribed(b) \ {e}) \cup {e}
        /\ \A c \in Boxes \ {b} : Subscribed(c)' \subseteq Subscribed(c)
    BY <2>2 DEF Subscribed
  <2>4. SUFFICES ASSUME NEW c \in Boxes \ raced'
                 PROVE  /\ Cardinality(Subscribed(c)') <= MaxSubs
                        /\ \A f \in Endpoints : ask'[f] = c =>
                             /\ Cardinality(Subscribed(c)' \ {f}) < MaxSubs
                             /\ \A g \in Endpoints \ {f} : ask'[g] # c
    BY DEF Room
  <2>5. CASE c # b
    BY <1>0, <2>1, <2>2, <2>3, <2>5, RoomLeft
  <2>6. CASE c = b
    <3>1. /\ Cardinality(Subscribed(b) \ {e}) < MaxSubs /\ \A f \in Endpoints \ {e} : ask[f] # b
      BY <2>1, <2>6 DEF Room
    <3>2. \A f \in Endpoints : ask'[f] # b
      BY <1>0, <2>2, <3>1
    <3>3. IsFiniteSet(Subscribed(b) \ {e}) /\ Cardinality(Subscribed(b) \ {e}) \in Nat
      BY SubscribedFinite, NoMore
    <3>4. Cardinality((Subscribed(b) \ {e}) \cup {e}) = Cardinality(Subscribed(b) \ {e}) + 1
      BY <3>3, FS_AddElement
    <3>5. Cardinality(Subscribed(b)') <= MaxSubs
      <4>1. MaxSubs \in Nat
        BY NoticeAssumption
      <4> QED BY <2>3, <3>1, <3>3, <3>4, <4>1
    <3> QED BY <2>6, <3>2, <3>5
  <2> QED BY <2>5, <2>6
<1>3. ASSUME raced' = raced, ask' = ask,
             \A e \in Endpoints : sub'[e] # None => sub[e] # None /\ sub'[e].box = sub[e].box
      PROVE  Room'
  <2>1. \A b \in Boxes : Subscribed(b)' \subseteq Subscribed(b)
    BY <1>3 DEF Subscribed
  <2> QED BY <1>3, <2>1, RoomLeft DEF Room
<1>4. ASSUME NEW e \in Endpoints, Expire(e) \/ \E a \in Addresses : Unsubscribe(e, a) PROVE Room'
  BY <1>3, <1>4 DEF Expire, Unsubscribe, NoticeTypeOK
<1>5. ASSUME NEW m \in Mail, PushList(m) PROVE Room'
  BY <1>3, <1>5 DEF PushList
<1>6. ASSUME NEW m \in Mail, NEW e \in Endpoints, NEW outcome \in {"delivered", "failed", "gone"},
             PushSend(m, e, outcome)
      PROVE  Room'
  <2>1. sub' = [sub EXCEPT ![e] = Book(sub[e], outcome)] /\ UNCHANGED <<ask, raced>>
    BY <1>6 DEF PushSend
  <2> QED BY <1>3, <2>1, BookFacts DEF NoticeTypeOK
<1> QED BY <1>1, <1>2, <1>4, <1>5, <1>6 DEF PushActs

-----------------------------------------------------------------------------
(* Slots of the Telegram chats.                                             *)

GramActs ==
  \/ \E b \in Boxes : \/ \E c \in Chats \cup {None} : SetChat(b, c)
                     \/ \E on \in BOOLEAN : SetEnabled(b, on)
  \/ Tick
  \/ \E m \in Mail : NoChat(m) \/ Reserve(m) \/ SendText(m)

\* Requests that send a test.
TestActs == (\E b \in Boxes : Test(b)) \/ \E t \in tests : SendTest(t)

\* The chat is free at the instant reserved: everything on it is a gap past.
LEMMA StartPast ==
  ASSUME NoticeTypeOK, NEW c \in Chats
  PROVE  /\ Start(c) \in Nat /\ clock <= Start(c) /\ NextSlot(c) = Start(c) + MinGap
         /\ \A t \in Nat : t + MinGap <= slot[c] \/ t + MinGap <= clock => t + MinGap <= Start(c)
         /\ Kept(c) \in Nat
         /\ \A t \in Nat : t + MinGap <= slot[c] => t + MinGap <= Kept(c) \/ t + MinGap <= clock
<1>1. clock \in Nat /\ slot[c] \in Nat /\ Retention \in Nat /\ MinGap \in Nat
  BY NoticeAssumption DEF NoticeTypeOK
<1> QED BY <1>1 DEF Start, Kept, NextSlot

\* One task changes, into one that is timed and spaced.
LEMMA OneGram ==
  ASSUME NoticeTypeOK, Apart, NEW m \in Mail, NEW task \in GramTasks, gram' = [gram EXCEPT ![m] = task],
         Timed(task, clock, slot'), UNCHANGED clock,
         \A n \in Mail \ {m} : Timed(gram[n], clock, slot') /\ Spaced(task, gram[n])
  PROVE  gram' \in [Mail -> GramTasks] /\ Apart'
<1>1. gram' \in [Mail -> GramTasks] /\ gram'[m] = task /\ \A n \in Mail \ {m} : gram'[n] = gram[n]
  BY DEF NoticeTypeOK
<1>2. \A n \in Mail : Timed(gram'[n], clock', slot')
  BY <1>1
<1>3. \A n \in Mail \ {m} : Spaced(gram[n], task)
  <2> TAKE n \in Mail \ {m}
  <2>1. Spaced(task, gram[n])
    OBVIOUS
  <2> QED BY <2>1 DEF Spaced
<1>4. \A k, n \in Mail : k # n => Spaced(gram'[k], gram'[n])
  BY <1>1, <1>3 DEF Apart
<1> QED BY <1>1, <1>2, <1>4 DEF Apart, Timed, Spaced

LEMMA GramStep ==
  ASSUME NoticeTypeOK, Apart, GramActs
  PROVE  NoticeTypeOK' /\ Apart' /\ UNCHANGED tests
<1>t. UNCHANGED tests
  BY DEF GramActs, SetChat, SetEnabled, Tick, NoChat, Reserve, SendText
<1>0. /\ clock \in Nat /\ clock <= MaxTime /\ MaxTime \in Nat /\ MaxWait \in Nat /\ MinGap \in Nat /\ MinGap # 0
      /\ \A m \in Mail : gram[m] \in GramTasks
  BY NoticeAssumption DEF NoticeTypeOK
<1>1. ASSUME NEW b \in Boxes, NEW c \in Chats \cup {None}, SetChat(b, c) PROVE NoticeTypeOK' /\ Apart'
  <2>1. NoticeTypeOK'
    BY <1>1 DEF SetChat, NoticeTypeOK, pushVars
  <2> QED BY <1>1, <2>1 DEF SetChat, Apart, Timed, Spaced
<1>e. ASSUME NEW b \in Boxes, NEW on \in BOOLEAN, SetEnabled(b, on) PROVE NoticeTypeOK' /\ Apart'
  <2>1. NoticeTypeOK'
    BY <1>e DEF SetEnabled, NoticeTypeOK, pushVars
  <2> QED BY <1>e, <2>1 DEF SetEnabled, Apart, Timed, Spaced
<1>2. CASE Tick
  <2>1. NoticeTypeOK'
    BY <1>0, <1>2 DEF Tick, NoticeTypeOK, pushVars
  <2>2. clock' = clock + 1 /\ UNCHANGED <<gram, slot>>
    BY <1>2 DEF Tick
  <2>3. \A m \in Mail : gram[m].start \in Nat /\ gram[m].asked \in Nat
    BY <1>0 DEF GramTasks
  <2>4. \A m \in Mail : Timed(gram[m], clock', slot')
    <3> TAKE m \in Mail
    <3>1. Timed(gram[m], clock, slot)
      BY DEF Apart
    <3> QED BY <1>0, <2>2, <2>3, <3>1 DEF Timed
  <2>5. \A m, n \in Mail : m # n => Spaced(gram[m], gram[n])
    BY DEF Apart
  <2>6. \A m \in Mail : Timed(gram[m], clock, slot)'
    BY <2>2, <2>4 DEF Timed
  <2>7. \A m, n \in Mail : m # n => Spaced(gram[m], gram[n])'
    BY <2>2, <2>5 DEF Spaced
  <2> QED BY <1>t, <2>1, <2>6, <2>7 DEF Apart
<1>3. ASSUME NEW m \in Mail, SendText(m) PROVE NoticeTypeOK' /\ Apart'
  <2> DEFINE task == [gram[m] EXCEPT !.pc = "sent"]
  <2>1. gram' = [gram EXCEPT ![m] = task] /\ UNCHANGED <<pushVars, clock, chat, muted, slot, tests, up>>
    BY <1>3 DEF SendText, NoticeTypeOK
  <2>2. task \in GramTasks /\ task.pc = "sent" /\ task.chat = gram[m].chat /\ task.start = gram[m].start
        /\ task.asked = gram[m].asked
    BY <1>0 DEF GramTasks
  <2> HIDE DEF task
  <2>3. Timed(task, clock, slot')
    BY <2>1, <2>2 DEF Apart, Timed
  <2>4. \A n \in Mail \ {m} : Timed(gram[n], clock, slot') /\ Spaced(task, gram[n])
    BY <2>1, <2>2 DEF Apart, Spaced
  <2>5. gram' \in [Mail -> GramTasks] /\ Apart'
    BY <2>1, <2>2, <2>3, <2>4, OneGram
  <2> QED BY <2>1, <2>5 DEF NoticeTypeOK, pushVars
<1>n. ASSUME NEW m \in Mail, NoChat(m) PROVE NoticeTypeOK' /\ Apart'
  <2>1. gram' = [gram EXCEPT ![m] = Silent] /\ UNCHANGED <<pushVars, clock, chat, muted, slot, tests, up>>
    BY <1>n DEF NoChat
  <2>2. Timed(Silent, clock, slot') /\ \A n \in Mail : Spaced(Silent, gram[n])
    BY SilentFacts DEF Timed, Spaced
  <2>3. gram' \in [Mail -> GramTasks] /\ Apart'
    BY <2>1, <2>2, OneGram, SilentFacts DEF Apart
  <2> QED BY <2>1, <2>3 DEF NoticeTypeOK, pushVars
<1>4. ASSUME NEW m \in Mail, Reserve(m) PROVE NoticeTypeOK' /\ Apart'
  <2>1. /\ UNCHANGED <<pushVars, clock, chat, muted, tests, up>>
        /\ gram[m].pc = "settings" /\ chat[gram[m].box] # None
    BY <1>4 DEF Reserve
  <2>2. gram[m].box \in Boxes /\ chat[gram[m].box] \in Chats \cup {None}
    BY <2>1 DEF Apart, Timed, NoticeTypeOK
  <2>3. Timed(Silent, clock, slot') /\ \A n \in Mail : Spaced(Silent, gram[n])
    BY SilentFacts DEF Timed, Spaced
  <2>4. \A n \in Mail : gram[n].start \in Nat /\ gram[n].chat \in Chats \cup {None}
    BY <1>0 DEF GramTasks
  <2>6. NoticeTypeOK' /\ Apart'
    <3>1. PICK c \in Chats : c = chat[gram[m].box]
      BY <2>1, <2>2
    <3> DEFINE task == [gram[m] EXCEPT !.pc = "sleep", !.chat = c, !.start = Start(c), !.asked = clock]
    <3>2. /\ slot' = [d \in Chats |-> IF d = c THEN NextSlot(c) ELSE Kept(d)]
          /\ gram' = [gram EXCEPT ![m] = IF Start(c) - clock > MaxWait THEN Silent ELSE task]
      BY <1>4, <3>1 DEF Reserve, NoticeTypeOK
    <3>3. /\ Start(c) \in Nat /\ clock <= Start(c)
          /\ \A t \in Nat : t + MinGap <= slot[c] \/ t + MinGap <= clock => t + MinGap <= Start(c)
      BY StartPast
    <3>4. slot' \in [Chats -> Nat] /\ slot'[c] = Start(c) + MinGap
          /\ \A d \in Chats \ {c} : slot'[d] = Kept(d)
      BY <1>0, <3>2, <3>3, StartPast
    <3>5. ASSUME NEW n \in Mail PROVE Timed(gram[n], clock, slot')
      <4>1. Timed(gram[n], clock, slot)
        BY DEF Apart
      <4>2. gram[n].chat \in Chats /\ gram[n].start + MinGap <= slot[gram[n].chat] =>
              gram[n].start + MinGap <= slot'[gram[n].chat] \/ gram[n].start + MinGap <= clock
        <5> SUFFICES ASSUME gram[n].chat \in Chats, gram[n].start + MinGap <= slot[gram[n].chat]
                     PROVE  gram[n].start + MinGap <= slot'[gram[n].chat] \/ gram[n].start + MinGap <= clock
          OBVIOUS
        <5>1. CASE gram[n].chat = c
          <6>1. gram[n].start + MinGap <= Start(c)
            BY <2>4, <3>3, <5>1
          <6>2. slot'[gram[n].chat] = Start(c) + MinGap
            BY <3>4, <5>1
          <6> HIDE DEF Start
          <6> QED BY <1>0, <2>4, <3>3, <6>1, <6>2
        <5>2. CASE gram[n].chat # c
          BY <2>4, <3>4, <5>2, StartPast
        <5> QED BY <5>1, <5>2
      <4> QED BY <4>1, <4>2 DEF Timed
    <3>6. CASE Start(c) - clock > MaxWait
      <4>1. gram' = [gram EXCEPT ![m] = Silent]
        BY <3>2, <3>6
      <4>2. gram' \in [Mail -> GramTasks] /\ Apart'
        BY <2>1, <2>3, <3>5, <4>1, OneGram, SilentFacts
      <4> QED BY <2>1, <3>4, <4>2 DEF NoticeTypeOK, pushVars
    <3>7. CASE ~(Start(c) - clock > MaxWait)
      <4>1. gram' = [gram EXCEPT ![m] = task]
        BY <3>2, <3>7
      <4>2. Start(c) \in 0..(MaxTime + MaxWait) /\ Start(c) <= clock + MaxWait /\ clock \in 0..MaxTime
        BY <1>0, <3>3, <3>7
      <4>3. task \in GramTasks /\ task.pc = "sleep" /\ task.chat = c /\ task.start = Start(c) /\ task.asked = clock
        BY <1>0, <4>2 DEF GramTasks
      <4> HIDE DEF task
      <4>4. Timed(task, clock, slot')
        BY <1>0, <3>3, <3>4, <4>2, <4>3 DEF Timed
      <4>5. \A n \in Mail : Spaced(task, gram[n])
        <5> TAKE n \in Mail
        <5>1. gram[n].chat = c => gram[n].start + MinGap <= slot[c] \/ gram[n].start + MinGap <= clock
          BY DEF Apart, Timed
        <5> QED BY <2>4, <3>3, <4>3, <5>1 DEF Spaced
      <4>6. gram' \in [Mail -> GramTasks] /\ Apart'
        BY <2>1, <3>5, <4>1, <4>3, <4>4, <4>5, OneGram
      <4> QED BY <2>1, <3>4, <4>6 DEF NoticeTypeOK, pushVars
    <3> QED BY <3>6, <3>7
  <2> QED BY <2>6
<1> QED BY <1>t, <1>1, <1>e, <1>2, <1>3, <1>n, <1>4 DEF GramActs

\* Neither is what a test does to the books.
LEMMA PacedStep ==
  ASSUME NoticeTypeOK, Paced, GramActs
  PROVE  Paced'
<1>0. /\ clock \in Nat /\ up \in Nat /\ up <= clock
      /\ \A m \in Mail : gram[m] \in GramTasks
      /\ \A t \in tests : t.at \in Nat
  BY NoticeAssumption DEF NoticeTypeOK, Tests
<1>1. UNCHANGED <<up, tests>> /\ clock' \in {clock, clock + 1}
  BY DEF GramActs, SetChat, SetEnabled, Tick, NoChat, Reserve, SendText
<1>2. ASSUME NEW n \in Mail, gram'[n].chat \in Chats
      PROVE  up <= gram'[n].start /\ (gram'[n].pc = "sent" => gram'[n].start <= clock')
  <2>1. \A m \in Mail :
          /\ gram[m].start \in Nat
          /\ gram[m].chat \in Chats => up <= gram[m].start /\ (gram[m].pc = "sent" => gram[m].start <= clock)
    BY <1>0 DEF Paced, GramTasks
  <2>2. CASE UNCHANGED gram
    BY <1>0, <1>1, <1>2, <2>1, <2>2
  <2>3. ASSUME NEW m \in Mail, NoChat(m) PROVE up <= gram'[n].start /\ (gram'[n].pc = "sent" => gram'[n].start <= clock')
    <3>1. gram' = [gram EXCEPT ![m] = Silent]
      BY <2>3 DEF NoChat
    <3>2. n # m /\ gram'[n] = gram[n]
      BY <1>2, <3>1, SilentFacts DEF NoticeTypeOK
    <3> QED BY <1>0, <1>1, <1>2, <2>1, <3>2
  <2>4. ASSUME NEW m \in Mail, SendText(m) PROVE up <= gram'[n].start /\ (gram'[n].pc = "sent" => gram'[n].start <= clock')
    <3>1. /\ gram' = [gram EXCEPT ![m] = [gram[m] EXCEPT !.pc = "sent"]] /\ gram[m].start <= clock
      BY <2>4 DEF SendText, NoticeTypeOK
    <3>2. /\ [gram[m] EXCEPT !.pc = "sent"].chat = gram[m].chat
          /\ [gram[m] EXCEPT !.pc = "sent"].start = gram[m].start
      BY <1>0 DEF GramTasks
    <3>3. gram'[n].chat = gram[n].chat /\ gram'[n].start = gram[n].start /\ (n # m => gram'[n] = gram[n])
      BY <3>1, <3>2 DEF NoticeTypeOK
    <3> QED BY <1>0, <1>1, <1>2, <2>1, <3>1, <3>3
  <2>5. ASSUME NEW m \in Mail, Reserve(m) PROVE up <= gram'[n].start /\ (gram'[n].pc = "sent" => gram'[n].start <= clock')
    <3> DEFINE c == chat[gram[m].box]
               task == [gram[m] EXCEPT !.pc = "sleep", !.chat = c, !.start = Start(c), !.asked = clock]
    <3>1. gram' = [gram EXCEPT ![m] = Silent] \/ gram' = [gram EXCEPT ![m] = task]
      BY <2>5 DEF Reserve, NoticeTypeOK
    <3>2. task.pc = "sleep" /\ task.chat = c /\ task.start = Start(c)
      BY <1>0 DEF GramTasks
    <3> HIDE DEF task, c
    <3>3. CASE n # m
      <4>1. gram'[n] = gram[n]
        BY <3>1, <3>3 DEF NoticeTypeOK
      <4> QED BY <1>0, <1>1, <1>2, <2>1, <4>1
    <3>4. CASE n = m
      <4>1. gram'[n] = task
        BY <1>2, <3>1, <3>4, SilentFacts DEF NoticeTypeOK
      <4>2. c \in Chats
        BY <1>2, <3>2, <4>1
      <4>3. Start(c) \in Nat /\ clock <= Start(c)
        BY <4>2, StartPast
      <4> QED BY <1>0, <1>1, <3>2, <4>1, <4>3
    <3> QED BY <3>3, <3>4
  <2>6. UNCHANGED gram \/ \E m \in Mail : NoChat(m) \/ Reserve(m) \/ SendText(m)
    BY DEF GramActs, SetChat, SetEnabled, Tick
  <2> QED BY <2>2, <2>3, <2>4, <2>5, <2>6
<1>3. \A t \in tests : up <= t.at /\ t.at <= clock'
  BY <1>0, <1>1 DEF Paced
<1> QED BY <1>1, <1>2, <1>3 DEF Paced

\* A test goes into the books when the last one is far enough back, and stays.
LEMMA TestStep ==
  ASSUME NoticeTypeOK, Paced, TestActs
  PROVE  NoticeTypeOK' /\ Paced' /\ UNCHANGED <<pushVars, clock, slot, gram>>
<1>0. /\ clock \in 1..MaxTime /\ up \in 1..clock /\ MaxTime \in Nat /\ Cooldown \in Nat \ {0}
      /\ tests \subseteq Tests
  BY NoticeAssumption DEF NoticeTypeOK
<1>1. UNCHANGED <<pushVars, clock, chat, muted, slot, gram, up>>
  BY DEF TestActs, Test, SendTest
<1>2. ASSUME tests' \subseteq Tests
      PROVE  NoticeTypeOK'
  BY <1>1, <1>2 DEF NoticeTypeOK, pushVars
<1>3. \A t \in tests : t \in Tests /\ t.at \in Nat /\ up <= t.at /\ t.at <= clock
  BY <1>0 DEF Tests, Paced
<1>4. ASSUME NEW b \in Boxes, Test(b) PROVE NoticeTypeOK' /\ Paced'
  <2> DEFINE new == [box |-> b, at |-> clock, pc |-> "settings", chat |-> None]
  <2>1. new \in Tests /\ new.box = b /\ new.at = clock
    BY <1>0 DEF Tests
  <2>2. tests' = tests \cup {new} /\ \A t \in tests : t.box = b => clock - t.at >= Cooldown
    BY <1>4 DEF Test
  <2> HIDE DEF new
  <2>3. \A t \in tests' : up <= t.at /\ t.at <= clock
    BY <1>0, <1>3, <2>1, <2>2
  <2>4. \A t \in tests : t.box = new.box => t.at + Cooldown <= new.at
    BY <1>0, <1>3, <2>1, <2>2
  <2>5. \A t, u \in tests' : t.box = u.box /\ t # u => t.at + Cooldown <= u.at \/ u.at + Cooldown <= t.at
    BY <2>2, <2>4 DEF Paced
  <2>6. Paced'
    BY <1>1, <2>3, <2>5 DEF Paced
  <2> QED BY <1>0, <1>2, <2>1, <2>2, <2>6
<1>5. ASSUME NEW t \in tests, SendTest(t) PROVE NoticeTypeOK' /\ Paced'
  <2>1. PICK c \in {chat[t.box], None} : tests' = (tests \ {t}) \cup {[t EXCEPT !.pc = "sent", !.chat = c]}
    BY <1>5 DEF SendTest
  <2> DEFINE new == [t EXCEPT !.pc = "sent", !.chat = c]
  <2>2. new \in Tests /\ new.box = t.box /\ new.at = t.at
    BY <1>3, <2>1 DEF Tests, NoticeTypeOK
  <2>3. tests' = (tests \ {t}) \cup {new}
    BY <2>1
  <2> HIDE DEF new
  <2>4. \A u \in tests' : up <= u.at /\ u.at <= clock
    BY <1>3, <2>2, <2>3
  <2>5. \A u \in tests \ {t} : u.box = new.box => u.at + Cooldown <= new.at \/ new.at + Cooldown <= u.at
    BY <2>2 DEF Paced
  <2>6. \A u, v \in tests' : u.box = v.box /\ u # v => u.at + Cooldown <= v.at \/ v.at + Cooldown <= u.at
    BY <2>3, <2>5 DEF Paced
  <2>7. Paced'
    BY <1>1, <2>4, <2>6 DEF Paced
  <2> QED BY <1>0, <1>2, <2>2, <2>3, <2>7
<1> QED BY <1>1, <1>4, <1>5 DEF TestActs

-----------------------------------------------------------------------------
(* Notices as a whole.                                                      *)

LEMMA NoticeStep == NoticeInv /\ NoticeNext => NoticeInv'
<1> SUFFICES ASSUME NoticeInv, NoticeNext PROVE NoticeInv'
  OBVIOUS
<1>0. NoticeTypeOK /\ Addressed /\ Room /\ Apart /\ Paced
  BY DEF NoticeInv
<1>1. CASE PushActs
  <2>1. UNCHANGED gramVars
    BY <1>1 DEF PushActs, Expire, Subscribe, CountSubscriptions, Unsubscribe, PushList, PushSend
  <2>2. Apart'
    BY <1>0, <2>1 DEF Apart, Timed, Spaced, gramVars
  <2>3. Paced'
    BY <1>0, <2>1 DEF Paced, gramVars
  <2> QED BY <1>0, <1>1, <2>2, <2>3, PushType, AddressedStep, RoomStep DEF NoticeInv
<1>2. CASE GramActs
  <2>1. UNCHANGED <<sub, ask, push, owner, raced, told>>
    BY <1>2 DEF GramActs, SetChat, SetEnabled, Tick, NoChat, Reserve, SendText, pushVars
  <2>2. Addressed' /\ Room'
    BY <1>0, <2>1 DEF Addressed, Room, Subscribed
  <2> QED BY <1>0, <1>2, <2>2, GramStep, PacedStep DEF NoticeInv
<1>3. CASE TestActs
  <2>1. NoticeTypeOK' /\ Paced' /\ UNCHANGED <<pushVars, clock, slot, gram>>
    BY <1>0, <1>3, TestStep
  <2>2. Addressed' /\ Room'
    BY <1>0, <2>1 DEF Addressed, Room, Subscribed, pushVars
  <2>3. Apart'
    BY <1>0, <2>1 DEF Apart, Timed, Spaced
  <2> QED BY <2>1, <2>2, <2>3 DEF NoticeInv
<1>4. PushActs \/ GramActs \/ TestActs
  BY DEF NoticeNext, PushActs, GramActs, TestActs
<1> QED BY <1>1, <1>2, <1>3, <1>4

LEMMA NoticeKept == ASSUME NoticeInv, UNCHANGED noticeVars PROVE NoticeInv'
<1>1. NoticeTypeOK'
  BY DEF NoticeInv, NoticeTypeOK, noticeVars, gramVars
<1>2. Addressed'
  BY DEF NoticeInv, Addressed, noticeVars, gramVars
<1>3. Apart'
  BY DEF NoticeInv, Apart, Timed, Spaced, noticeVars, gramVars
<1>4. Room'
  <2>1. \A b \in Boxes : Subscribed(b)' = Subscribed(b)
    BY DEF Subscribed, noticeVars, gramVars
  <2>2. UNCHANGED <<ask, raced>>
    BY DEF noticeVars, gramVars
  <2> QED BY <2>1, <2>2 DEF NoticeInv, Room
<1>5. Paced'
  BY DEF NoticeInv, Paced, noticeVars, gramVars
<1> QED BY <1>1, <1>2, <1>3, <1>4, <1>5 DEF NoticeInv

LEMMA RingKeeps ==
  ASSUME NoticeInv, NEW m \in Mail, NEW b \in Boxes, Ring(m, b)
  PROVE  NoticeInv'
<1>0. NoticeTypeOK /\ Addressed /\ Room /\ Apart /\ Paced
  BY DEF NoticeInv
<1>1. UNCHANGED <<sub, ask, expired, owner, raced, told, clock, chat, muted, slot, tests, up>>
  BY DEF Ring
<1>2. push' \in [Mail -> PushTasks] /\ \A n \in Mail : push'[n] = push[n] \/ push'[n].todo = {}
  <2> DEFINE task == [Quiet EXCEPT !.pc = "list", !.box = b]
  <2>1. push' \in {push, [push EXCEPT ![m] = task]}
    BY DEF Ring
  <2>2. task \in PushTasks /\ task.todo = {}
    BY DEF Quiet, PushTasks
  <2> HIDE DEF task
  <2> QED BY <1>0, <2>1, <2>2 DEF NoticeTypeOK
<1>3. gram' \in [Mail -> GramTasks] /\ Apart'
  <2> DEFINE task == [Silent EXCEPT !.pc = "settings", !.box = b]
  <2>1. gram' \in {gram, [gram EXCEPT ![m] = task]}
    BY DEF Ring
  <2>2. task \in GramTasks /\ task.pc = "settings" /\ task.box = b /\ task.chat = None /\ None \notin Chats
    <3>1. 0 \in 0..(MaxTime + MaxWait) /\ 0 \in 0..MaxTime /\ None \notin Chats
      BY NoticeAssumption
    <3> QED BY <3>1 DEF Silent, GramTasks
  <2> HIDE DEF task
  <2>3. CASE gram' = gram
    BY <1>0, <1>1, <2>3 DEF NoticeTypeOK, Apart, Timed, Spaced
  <2>4. CASE gram' = [gram EXCEPT ![m] = task]
    <3>1. Timed(task, clock, slot') /\ \A n \in Mail : Timed(gram[n], clock, slot') /\ Spaced(task, gram[n])
      BY <1>0, <1>1, <2>2 DEF Apart, Timed, Spaced
    <3> QED BY <1>0, <1>1, <2>2, <2>4, <3>1, OneGram
  <2> QED BY <2>1, <2>3, <2>4
<1>4. NoticeTypeOK'
  BY <1>0, <1>1, <1>2, <1>3 DEF NoticeTypeOK
<1>5. Addressed' /\ Room'
  <2>1. Room'
    BY <1>0, <1>1 DEF Room, Subscribed
  <2>2. Addressed'
    BY <1>0, <1>1, <1>2 DEF Addressed
  <2> QED BY <2>1, <2>2
<1>6. \A n \in Mail : gram'[n] = gram[n] \/ gram'[n].chat = None
  <2>1. [Silent EXCEPT !.pc = "settings", !.box = b].chat = None
    BY DEF Silent
  <2> QED BY <1>0, <2>1 DEF Ring, NoticeTypeOK
<1>7. Paced'
  BY <1>0, <1>1, <1>6, NoticeAssumption DEF Paced
<1> QED BY <1>3, <1>4, <1>5, <1>7 DEF NoticeInv

LEMMA NoticeRestartKeeps == NoticeInv /\ NoticeRestart => NoticeInv'
<1> SUFFICES ASSUME NoticeInv, NoticeRestart PROVE NoticeInv'
  OBVIOUS
<1>1. /\ ask' = [e \in Endpoints |-> None] /\ push' = [m \in Mail |-> Quiet]
      /\ slot' = [c \in Chats |-> 0] /\ gram' = [m \in Mail |-> Silent]
      /\ tests' = {} /\ up' = clock
      /\ UNCHANGED <<sub, expired, clock, chat, muted, owner, raced, told>>
  BY DEF NoticeRestart
<1>2. NoticeTypeOK'
  <2>1. clock \in 1..clock
    BY NoticeAssumption DEF NoticeInv, NoticeTypeOK
  <2> QED BY <1>1, <2>1, QuietFacts, SilentFacts DEF NoticeInv, NoticeTypeOK
<1>3. Addressed'
  BY <1>1, QuietFacts DEF NoticeInv, Addressed
<1>4. Room'
  <2>1. \A e \in Endpoints : \A b \in Boxes : ask'[e] # b
    BY <1>1, NullAssumption
  <2> QED BY <1>1, <2>1 DEF NoticeInv, Room, Subscribed
<1>5. Apart'
  BY <1>1, SilentFacts DEF Apart, Timed, Spaced
<1>6. Paced'
  BY <1>1, SilentFacts DEF Paced
<1> QED BY <1>2, <1>3, <1>4, <1>5, <1>6 DEF NoticeInv

-----------------------------------------------------------------------------
(* What is promised of notices.                                             *)

LEMMA ToTheOwner == NoticeInv => PushToOwner
BY DEF NoticeInv, Addressed, Room, PushToOwner

\* Times a gap apart fall into different parts of what they span.
LEMMA Parts ==
  ASSUME NEW g \in Nat \ {0}, NEW w \in Nat, NEW t \in 0..w
  PROVE  t \div g \in 0..(w \div g)
OBVIOUS

LEMMA OtherParts ==
  ASSUME NEW g \in Nat \ {0}, NEW s \in Nat, NEW t \in Nat, s + g <= t
  PROVE  s \div g # t \div g
OBVIOUS

\* There are only so many of them.
LEMMA FewApart ==
  ASSUME NEW g \in Nat \ {0}, NEW w \in Nat, NEW S, NEW time \in [S -> 0..w],
         \A x, y \in S : x # y => time[x] + g <= time[y] \/ time[y] + g <= time[x]
  PROVE  Cardinality(S) <= (w \div g) + 1
<1> DEFINE q == w \div g
           f == [x \in S |-> time[x] \div g]
<1>1. q \in Nat
  OBVIOUS
<1>2. ASSUME NEW x \in S PROVE f[x] \in 0..q
  <2>1. time[x] \in 0..w
    OBVIOUS
  <2> QED BY <2>1, Parts
<1>3. ASSUME NEW x \in S, NEW y \in S, x # y PROVE f[x] # f[y]
  <2>1. time[x] \in Nat /\ time[y] \in Nat
    OBVIOUS
  <2>2. time[x] \div g # time[y] \div g
    BY <1>3, <2>1, OtherParts
  <2> QED BY <2>2
<1>4. f \in [S -> 0..q]
  BY <1>2
<1> HIDE DEF f, q
<1>5. f \in Injection(S, 0..q)
  BY <1>3, <1>4 DEF Injection, IsInjective
<1>6. IsFiniteSet(0..q) /\ Cardinality(0..q) = q + 1
  BY <1>1, FS_Interval
<1>7. Cardinality(S) <= q + 1
  BY <1>5, <1>6, FS_Injection
<1> QED BY <1>7 DEF q

LEMMA GramTimes ==
  ASSUME NoticeInv, NEW m \in Mail, gram[m].chat \in Chats
  PROVE  /\ gram[m].start \in Nat /\ gram[m].asked \in Nat /\ clock \in Nat /\ up \in Nat
         /\ up <= gram[m].start /\ gram[m].asked <= gram[m].start
         /\ gram[m].asked <= clock /\ gram[m].start <= gram[m].asked + MaxWait
         /\ gram[m].pc = "sent" => gram[m].start <= clock
<1>1. gram[m] \in GramTasks /\ clock \in Nat /\ up \in Nat
  BY NoticeAssumption DEF NoticeInv, NoticeTypeOK
<1>2. gram[m].start \in Nat /\ gram[m].asked \in Nat
  BY <1>1, NoticeAssumption DEF GramTasks
<1> QED BY <1>1, <1>2 DEF NoticeInv, Apart, Timed, Paced

LEMMA GramsApart ==
  ASSUME NoticeInv, NEW m \in Mail, NEW n \in Mail, m # n, gram[m].chat = gram[n].chat, gram[m].chat \in Chats
  PROVE  gram[m].start + MinGap <= gram[n].start \/ gram[n].start + MinGap <= gram[m].start
BY DEF NoticeInv, Apart, Spaced

LEMMA FewSleep ==
  ASSUME NoticeInv, NEW c \in Chats
  PROVE  Cardinality(Sleeping(c)) <= (MaxWait \div MinGap) + 1
<1> DEFINE time == [m \in Sleeping(c) |-> gram[m].start - clock]
<1>0. MaxWait \in Nat /\ MinGap \in Nat \ {0}
  BY NoticeAssumption
<1>1. \A m \in Sleeping(c) : m \in Mail /\ gram[m].chat = c /\ gram[m].start > clock
  BY DEF Sleeping
<1>2. \A m \in Sleeping(c) : time[m] \in 0..MaxWait
  BY <1>0, <1>1, GramTimes
<1>3. \A m, n \in Sleeping(c) : m # n => time[m] + MinGap <= time[n] \/ time[n] + MinGap <= time[m]
  BY <1>0, <1>1, GramTimes, GramsApart
<1>4. time \in [Sleeping(c) -> 0..MaxWait]
  BY <1>2
<1> HIDE DEF time, Sleeping
<1> QED BY <1>0, <1>3, <1>4, FewApart

LEMMA FewSent ==
  ASSUME NoticeInv, NEW c \in Chats
  PROVE  Cardinality(Sent(c)) <= ((clock - up) \div MinGap) + 1
<1> DEFINE time == [m \in Sent(c) |-> gram[m].start - up]
           w == clock - up
<1>0. w \in Nat /\ clock \in Nat /\ up \in Nat /\ MinGap \in Nat \ {0}
  BY NoticeAssumption DEF NoticeInv, NoticeTypeOK
<1>1. \A m \in Sent(c) : m \in Mail /\ gram[m].chat = c /\ gram[m].pc = "sent"
  BY DEF Sent
<1>2. \A m \in Sent(c) : time[m] \in 0..w
  BY <1>0, <1>1, GramTimes
<1>3. \A m, n \in Sent(c) : m # n => time[m] + MinGap <= time[n] \/ time[n] + MinGap <= time[m]
  BY <1>0, <1>1, GramTimes, GramsApart
<1>4. time \in [Sent(c) -> 0..w]
  BY <1>2
<1> HIDE DEF time, Sent, w
<1>5. Cardinality(Sent(c)) <= (w \div MinGap) + 1
  BY <1>0, <1>3, <1>4, FewApart
<1> QED BY <1>5 DEF w

LEMMA FewTests ==
  ASSUME NoticeInv, NEW b \in Boxes
  PROVE  Cardinality(TestsOf(b)) <= ((clock - up) \div Cooldown) + 1
<1> DEFINE time == [t \in TestsOf(b) |-> t.at - up]
           w == clock - up
<1>0. w \in Nat /\ clock \in Nat /\ up \in Nat /\ Cooldown \in Nat \ {0}
  BY NoticeAssumption DEF NoticeInv, NoticeTypeOK
<1>1. \A t \in TestsOf(b) : t \in tests /\ t.box = b /\ t.at \in Nat
  BY NoticeAssumption DEF TestsOf, NoticeInv, NoticeTypeOK, Tests
<1>2. \A t \in TestsOf(b) : up <= t.at /\ t.at <= clock
  BY <1>1 DEF NoticeInv, Paced
<1>3. \A t, u \in TestsOf(b) : t # u => t.at + Cooldown <= u.at \/ u.at + Cooldown <= t.at
  BY <1>1 DEF NoticeInv, Paced
<1>4. \A t \in TestsOf(b) : time[t] \in 0..w
  BY <1>0, <1>1, <1>2
<1>5. \A t, u \in TestsOf(b) : t # u => time[t] + Cooldown <= time[u] \/ time[u] + Cooldown <= time[t]
  BY <1>0, <1>1, <1>3
<1>6. time \in [TestsOf(b) -> 0..w]
  BY <1>4
<1> HIDE DEF time, TestsOf, w
<1>7. Cardinality(TestsOf(b)) <= (w \div Cooldown) + 1
  BY <1>0, <1>5, <1>6, FewApart
<1> QED BY <1>7 DEF w

LEMMA GapsAreKept == NoticeInv => GapKept
<1> SUFFICES ASSUME NoticeInv PROVE GapKept
  OBVIOUS
<1>1. ASSUME NEW c \in Chats, NEW m \in {k \in Mail : gram[k].chat = c}, NEW n \in {k \in Mail : gram[k].chat = c}
      PROVE  /\ m # n => gram[m].start + MinGap <= gram[n].start \/ gram[n].start + MinGap <= gram[m].start
             /\ gram[m].start - gram[m].asked \in 0..MaxWait
  <2>1. MaxWait \in Nat
    BY NoticeAssumption
  <2> QED BY <2>1, GramTimes, GramsApart
<1> QED BY <1>1, FewSleep, FewSent, FewTests DEF GapKept

-----------------------------------------------------------------------------
(* The mailbox as a whole.                                                  *)

SInv == scene \in Scenes /\ AccountInv /\ TabInv /\ NoticeInv /\ due \subseteq Msgs

LEMMA SInvInit == Init => SInv
BY AccountStart, TabStart, NoticeStart DEF Init, SInv

\* What users and administrators begin is counted.
LEMMA EditsBounded ==
  ASSUME AccountInv, scene \in Scenes, scene' = scene, Edit \/ UNCHANGED edits
  PROVE  edits' \in 0..scene.edits
BY EditKeeps DEF AccountInv, AccountTypeOK

LEMMA TabEdits == TabNext => Edit \/ UNCHANGED edits
BY DEF TabNext, SetTabs, MoveTo, Choose, CutWork, BackfillSelect, CategorizeInbound, BackfillRead, SenderLock

LEMMA NoticeEdits == NoticeNext => Edit \/ UNCHANGED edits
<1> SUFFICES ASSUME NoticeNext PROVE Edit \/ UNCHANGED edits
  OBVIOUS
<1>1. PushActs \/ GramActs \/ TestActs
  BY DEF NoticeNext, PushActs, GramActs, TestActs
<1>2. CASE PushActs
  BY <1>2 DEF PushActs, Expire, Subscribe, CountSubscriptions, Unsubscribe, PushList, PushSend
<1>3. CASE GramActs
  BY <1>3 DEF GramActs, SetChat, SetEnabled, Tick, NoChat, Reserve, SendText
<1>4. CASE TestActs
  BY <1>4 DEF TestActs, Test, SendTest
<1> QED BY <1>1, <1>2, <1>3, <1>4

LEMMA SInvStep == SInv /\ [Next]_vars => SInv'
<1> SUFFICES ASSUME SInv, [Next]_vars PROVE SInv'
  OBVIOUS
<1>0. scene \in Scenes /\ AccountInv /\ TabInv /\ NoticeInv /\ due \subseteq Msgs
  BY DEF SInv
<1>1. CASE AccountNext /\ UNCHANGED <<scene, tabVars, noticeVars, due>>
  <2>1. AccountInv' /\ Succeeds
    BY <1>0, <1>1, AccountStep
  <2>2. TabInv'
    BY <1>0, <1>1, <2>1, TabKept
  <2>3. NoticeInv'
    BY <1>0, <1>1, NoticeKept
  <2> QED BY <1>0, <1>1, <2>1, <2>2, <2>3 DEF SInv
<1>2. CASE TabNext /\ UNCHANGED <<scene, accountVars, noticeVars, due>>
  <2>1. AccountInv'
    BY <1>0, <1>2, AccountKept, TabEdits, EditsBounded
  <2>2. TabInv'
    BY <1>0, <1>2, TabStep DEF accountVars
  <2>3. NoticeInv'
    BY <1>0, <1>2, NoticeKept
  <2> QED BY <1>0, <1>2, <2>1, <2>2, <2>3 DEF SInv
<1>3. CASE NoticeNext /\ UNCHANGED <<scene, accountVars, tabVars, due>>
  <2>1. AccountInv' /\ Succeeds
    BY <1>0, <1>3, AccountKept, NoticeEdits, EditsBounded
  <2>2. TabInv'
    BY <1>0, <1>3, <2>1, TabKept
  <2>3. NoticeInv'
    BY <1>0, <1>3, NoticeStep
  <2> QED BY <1>0, <1>3, <2>1, <2>2, <2>3 DEF SInv
<1>4. ASSUME NEW m \in Msgs, Arrive(m), UNCHANGED <<scene, edits, accountVars>> PROVE SInv'
  <2>1. AccountInv'
    BY <1>0, <1>4, AccountKept, EditsBounded
  <2>2. TabInv'
    BY <1>0, <1>4, StoreStep DEF Arrive, accountVars
  <2>3. NoticeInv'
    BY <1>0, <1>4, NoticeKept DEF Arrive
  <2> QED BY <1>0, <1>4, <2>1, <2>2, <2>3 DEF SInv, Arrive
<1>7. ASSUME NEW m \in Msgs, Announce(m) \/ Unannounced(m), UNCHANGED <<scene, edits, accountVars>> PROVE SInv'
  <2>1. AccountInv' /\ Succeeds
    BY <1>0, <1>7, AccountKept, EditsBounded
  <2>2. UNCHANGED tabVars /\ due' \subseteq Msgs
    BY <1>0, <1>7 DEF Announce, Unannounced
  <2>3. TabInv'
    BY <1>0, <2>1, <2>2, TabKept
  <2>4. NoticeInv'
    <3>1. CASE Announce(m)
      <4>1. Ring(m, Box(m)) /\ Box(m) \in Boxes /\ m \in Mail
        BY <3>1, MailAssumption, TabAssumption DEF Announce, Box
      <4> QED BY <1>0, <4>1, RingKeeps
    <3>2. CASE Unannounced(m)
      BY <1>0, <3>2, NoticeKept DEF Unannounced
    <3> QED BY <1>7, <3>1, <3>2
  <2> QED BY <1>0, <1>7, <2>1, <2>2, <2>3, <2>4 DEF SInv
<1>5. ASSUME NEW k \in Keys, Restart(k), TabRestart, NoticeRestart, due' = {}, UNCHANGED scene PROVE SInv'
  <2>1. AccountInv'
    BY <1>0, <1>5, AccountRestart
  <2>2. TabInv'
    BY <1>0, <1>5, TabRestartKeeps DEF Restart
  <2>3. NoticeInv'
    BY <1>0, <1>5, NoticeRestartKeeps
  <2> QED BY <1>0, <1>5, <2>1, <2>2, <2>3 DEF SInv
<1>6. CASE UNCHANGED vars
  <2>1. UNCHANGED <<scene, edits, accountVars, tabVars, noticeVars, due>>
    BY <1>6 DEF vars
  <2>2. AccountInv' /\ Succeeds
    BY <1>0, <2>1, AccountKept, EditsBounded
  <2> QED BY <1>0, <2>1, <2>2, TabKept, NoticeKept DEF SInv
<1> QED BY <1>1, <1>2, <1>3, <1>4, <1>5, <1>6, <1>7 DEF Next

LEMMA SInvHolds == Spec => []SInv
<1> QED BY SInvInit, SInvStep, PTL DEF Spec

\* Rows, requests, messages, subscriptions and tasks are what they are declared
\* to be, whatever users, mail and the clock do.
THEOREM TypeCorrect == Spec => []TypeOK
<1>1. SInv => TypeOK
  BY DEF SInv, AccountInv, TabInv, NoticeInv, TypeOK
<1> QED BY <1>1, SInvHolds, PTL

\* What an administrator is shown opens the mailbox, and what the settings page
\* says is what Dovecot takes, for any number of requests between their
\* statements (api/mailboxes.rs, api/integrations.rs).
THEOREM PasswordsAgree == Spec => []CredentialsAgree
<1>1. SInv => CredentialsAgree
  BY DEF SInv, AccountInv, Sessions
<1> QED BY <1>1, SInvHolds, PTL

\* Each message of the Inbox is listed and counted at one tab, and a choice made
\* for a sender wins, but for mail it could not reach or a look for it failed on
\* (aivory-mail-core, categories.rs; api/categories.rs).
THEOREM TabsTellTheTruth == Spec => []TabsHonest
<1>1. SInv => TabsHonest
  BY TabsAreHonest DEF SInv
<1> QED BY <1>1, SInvHolds, PTL

\* No notice reaches the browser of another mailbox, and no mailbox has more
\* browsers than the cap but by a race (api/push.rs).
THEOREM PushedToTheOwner == Spec => []PushToOwner
<1>1. SInv => PushToOwner
  BY ToTheOwner DEF SInv
<1> QED BY <1>1, SInvHolds, PTL

\* Notices to a chat have instants a gap apart and no more wait than fit in the
\* longest wait; since the process started no more have been sent than the gap
\* allows, however late tasks woke, and for no mailbox more tests than the
\* cooldown allows (api/telegram.rs).
THEOREM ChatsAreSpared == Spec => []GapKept
<1>1. SInv => GapKept
  BY GapsAreKept DEF SInv
<1> QED BY <1>1, SInvHolds, PTL

=============================================================================
