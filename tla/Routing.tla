------------------------------ MODULE Routing ------------------------------
(***************************************************************************)
(* Which mailbox an address leads to: resolve_recipient (mail/routing.rs)  *)
(* over the tables it looks in, asked once for RCPT TO (api/internal.rs)   *)
(* and again when the message is delivered (mail/inbound.rs); and what     *)
(* administrators do to these tables.                                      *)
(*                                                                         *)
(* An address is [local, domain], in small letters.  Aliases of the table  *)
(* mailbox_aliases, use_all_domains and rules for a whole domain have no   *)
(* writer in the code: they are there from the start or not at all.  The   *)
(* rules for a domain are looked at on Postgres only, which is the one     *)
(* modelled; forwards are the domains whose first rule for "*" forwards.   *)
(***************************************************************************)
EXTENDS Naturals, FiniteSets

CONSTANTS
  Addresses,
  Ids,   \* ids of mailboxes
  Nil    \* Uuid::nil(), the mailbox of what is accepted without one

ASSUME AddressAssumption == Nil \notin Ids

Domains == {a.domain : a \in Addresses}

TableKind ==
  [boxes : SUBSET [id : Ids, at : Addresses, all : BOOLEAN, catch : BOOLEAN],
   aliases : SUBSET [at : Addresses, box : Ids],
   sendAs : SUBSET [at : Addresses, box : Ids],
   forwards : SUBSET Domains]

-----------------------------------------------------------------------------
(* The phases of resolve_recipient: the mailboxes each of them finds.      *)

Exact(t, a) == {b.id : b \in {x \in t.boxes : x.at = a}}

Joined(t, rows, a) == {b.id : b \in t.boxes} \cap {r.box : r \in {x \in rows : x.at = a}}

AllDomains(t, a) == {b.id : b \in {x \in t.boxes : x.all /\ x.at.local = a.local}}

CatchAll(t, a) == {b.id : b \in {x \in t.boxes : x.catch /\ x.at.domain = a.domain}}

Forwarded(t, a) == {Nil : d \in t.forwards \cap {a.domain}}

Phases(t, a) ==
  <<Exact(t, a), Joined(t, t.aliases, a), AllDomains(t, a), CatchAll(t, a),
    Joined(t, t.sendAs, a), Forwarded(t, a)>>

\* The first phase that finds something decides; LIMIT 1 takes any row of it.
Resolve(t, a) ==
  LET hits == {i \in 1..6 : Phases(t, a)[i] # {}} IN
  IF hits = {} THEN {} ELSE Phases(t, a)[CHOOSE i \in hits : \A j \in hits : i <= j]

\* The answer for RCPT TO: accept, whether or not there is a mailbox.
Accepted(t, a) == Resolve(t, a) # {}

\* inbound.rs: a row cannot be inserted for a mailbox that is not there.
Deliverable(t, a) == Resolve(t, a) \ {Nil}

-----------------------------------------------------------------------------
(* Administrators, each with the tables as they are afterwards.            *)

\* Ids are new ones: none that a row still names.  A domain that had been deleted
\* is created again first.
Created(t) ==
  {[t EXCEPT !.boxes = @ \cup {b}] :
     b \in {x \in [id : Ids, at : Addresses, all : {FALSE}, catch : BOOLEAN] :
              /\ \A y \in t.boxes : y.id # x.id /\ y.at # x.at
              /\ \A r \in t.aliases \cup t.sendAs : r.box # x.id}}

\* Aliases go with their mailbox; a send-as row stays, and is joined no more.
Removed(t) ==
  {[t EXCEPT !.boxes = @ \ {b}, !.aliases = {r \in @ : r.box # b.id}] : b \in t.boxes}

Aliased(t) ==
  {[t EXCEPT !.sendAs = @ \cup {r}] : r \in [at : Addresses, box : {b.id : b \in t.boxes}] \ t.sendAs}

Unaliased(t) == {[t EXCEPT !.sendAs = @ \ {r}] : r \in t.sendAs}

\* Deleting a domain deletes its mailboxes, and the aliases of either.
DomainRemoved(t) ==
  {LET gone == {b.id : b \in {x \in t.boxes : x.at.domain = d}} IN
     [t EXCEPT !.boxes = {b \in @ : b.id \notin gone},
               !.aliases = {r \in @ : r.box \notin gone /\ r.at.domain # d}] : d \in Domains}

Edits(t) == Created(t) \cup Removed(t) \cup Aliased(t) \cup Unaliased(t) \cup DomainRemoved(t)

-----------------------------------------------------------------------------
(* aivory-mail-core, routing.rs: resolve_address, "pure logic helper" of   *)
(* the same question.                                                      *)

ResolveAddress(t, a) ==
  IF Exact(t, a) # {} THEN Exact(t, a) ELSE CatchAll(t, a)
=============================================================================
