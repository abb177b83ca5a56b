------------------------- MODULE CalendarSyncProofs -------------------------
(***************************************************************************)
(* Theorems about CalendarSync, for any number of mailboxes, events and    *)
(* passes.                                                                 *)
(*                                                                         *)
(* The argument follows an event through a pass: what a pass has listed is *)
(* what Google has or has replaced since; an event at or below the token   *)
(* of an account is shown, and one at or below what a pass has listed is   *)
(* shown or still in its hands.  It needs that accounts never share an id, *)
(* that one pass at most is at a mailbox, and that an event is linked at   *)
(* most once; where those fail the histories in seen say so.               *)
(*                                                                         *)
(* In what follows me is a pass at some step of it.                        *)
(***************************************************************************)
EXTENDS CalendarSync, FiniteSetTheorems, WellFoundedInduction, TLAPS

\* The account with this id is in hand, as b's.
KnowsOf(me, b, id) == \/ me.box = b /\ me.id = id
                      \/ \E a \in me.todo : a.box = b /\ a.id = id

Knows(p, b, id) == KnowsOf(pass[p], b, id)

Owns(b, id) == acct[b].id = id \/ \E p \in Passes : Knows(p, b, id)

\* Events of Google's it has in hand, and those it has still to store.
Held(me, i) == i \in me.items \/ i = me.item
ToStore(me, i) == i \in me.items \/ (me.pc \in {"apply", "link"} /\ i = me.item)

\* A local event it is to post, or has posted and not linked.
Pushes(me, e) == e \in me.push \/ (me.pc = "linkpost" /\ e = me.found)

\* It is to link an event, or to import it.
NewLink(me) == \/ me.pc = "apply" /\ me.found = None
               \/ me.pc \in {"link", "linkpost"}

\* What a pass has agrees with where it is.
StageOf(me) ==
  /\ me.pc = "idle" => me.todo = {}
  /\ me.box = None <=> me.pc \in {"idle", "next"}
  /\ me.box # None => me.id # Null
  /\ me.items # {} => me.pc \in {"items", "apply", "link"}
  /\ me.push # {} => me.pc \in {"post", "linkpost"}
  /\ me.pc \notin {"auth", "list"} => me.token = Null
  /\ me.next # Null => me.pc \in {"items", "apply", "link", "select", "post", "linkpost", "mark"}
  /\ me.item # None <=> me.pc \in {"apply", "link", "linkpost"}
  /\ me.found # None => me.pc \in {"apply", "link", "linkpost"}
  /\ me.pc = "apply" /\ me.found = None => me.item.live
  /\ me.pc = "link" => me.found \in RowIds /\ me.item.live
  /\ me.pc = "linkpost" => /\ me.found \in Locals \ me.push
                           /\ me.item.gid \in {me.found} \X (1..MaxPost) /\ me.item.at > me.next
  /\ \A a1, a2 \in me.todo : a1.box = a2.box => a1 = a2
  /\ \A a \in me.todo : a.box # me.box

Stages == \A p \in Passes : StageOf(pass[p])

\* The calendars at Google: an event has one id, copies are numbered, and a
\* change takes the next number.
CopyGids == {g.gid : g \in google} \cap (Locals \X (1..MaxPost))

Calendars ==
  /\ \A g, h \in google : g.gid = h.gid => g = h
  /\ \A e \in Locals : \E n \in 0..MaxPost : {g.gid : g \in Copies(e)} = {e} \X (1..n)
  /\ \A g \in google : g.at <= scene.changes + Cardinality(CopyGids)

\* Account ids are given once.
IdsOnce ==
  /\ \A b \in Boxes : acct[b].id = Null => acct[b] = NoAccount
  /\ \A b \in Boxes, id \in 1..MaxAccount : Owns(b, id) => id <= nextId
  /\ \A b, c \in Boxes, id \in 1..MaxAccount : Owns(b, id) /\ Owns(c, id) => b = c
  /\ \A b \in Boxes : callback[b] # None =>
       /\ callback[b].id <= nextId
       /\ \A c \in Boxes : /\ ~Owns(c, callback[b].id)
                           /\ c # b /\ callback[c] # None => callback[c].id # callback[b].id
       /\ \A l \in links : l.acct # callback[b].id

\* Two passes have not been at one mailbox at once.
Alone(b) == "raced" \notin seen[b]

OneHand ==
  \A b \in Boxes : Alone(b) => \A p, q \in Passes, id1, id2 \in 1..MaxAccount :
    Knows(p, b, id1) /\ Knows(q, b, id2) => p = q /\ id1 = id2

\* What a link is of.
LinksKnown ==
  /\ \A l \in links : l.acct <= nextId /\ \E g \in google : g.gid = l.gid
  /\ \A l \in links, g \in google, b \in Boxes : l.gid = g.gid /\ Owns(b, l.acct) => g.box = b
  /\ \A l \in links, g \in google, r \in rows : l.gid = g.gid /\ l.local = r.id => r.box = g.box

\* An event in hand is the version there is, or one that Google has replaced since
\* the listing.
Genuine(me, i) ==
  /\ i.box = me.box
  /\ \E g \in google : /\ g.gid = i.gid /\ g.box = me.box
                       /\ g = i \/ (i.live /\ g.at > i.at /\ g.at > me.next)

GenuineOf(me) == \A i \in EventKind : Held(me, i) => Genuine(me, i)

Listing == \A p \in Passes : GenuineOf(pass[p])

\* An id that no event will have any more, but the one that has it.
Taken(id) == id \in removed \/ (\E r \in rows : r.id = id) \/ (\E l \in links : l.local = id)

\* What a pass has found out about rows and links is so.
FoundOf(me) ==
  /\ me.pc = "apply" /\ me.found # None =>
       \E l \in links : l.acct = me.id /\ l.local = me.found /\ l.gid = me.item.gid
  /\ me.pc = "link" => /\ \A r \in rows : r.id = me.found => r.box = me.box
                       /\ \A l \in links : l.local # me.found
  /\ \A e \in Locals : Pushes(me, e) => Taken(e) /\ \A r \in rows : r.id = e => r.box = me.box

\* Nothing is imported, or pushed from two mailboxes, by two passes.
ApartOf(me, you) ==
  /\ me.pc = "link" => you.found # me.found
  /\ \A e \in Locals : Pushes(me, e) /\ Pushes(you, e) => me.box = you.box

Finding ==
  /\ \A r \in rows : r.source = "local" <=> r.id \in Locals
  /\ \A p \in Passes : FoundOf(pass[p])
  /\ \A p, q \in Passes : p # q => ApartOf(pass[p], pass[q])

NewOf(me) ==
  me.box # None /\ Alone(me.box) =>
    /\ NewLink(me) => LinksOf(me.id, me.item.gid) = {}
    /\ \A e \in Locals : Pushes(me, e) => \A l \in links : l.local # e

LinkedOnce ==
  /\ \A l1, l2 \in links, g1, g2 \in google :
       g1.gid = l1.gid /\ Alone(g1.box) /\ g2.gid = l2.gid /\ Alone(g2.box)
         /\ ((l1.acct = l2.acct /\ l1.gid = l2.gid) \/ l1.local = l2.local) => l1 = l2
  /\ \A p \in Passes : NewOf(pass[p])

\* Google's log of b has got to n.
Reached(b, n) == n <= 0 \/ \E g \in google : g.box = b /\ n <= g.at

TokenBounds ==
  /\ \A b \in Boxes : Reached(b, acct[b].token)
  /\ \A p \in Passes : Reached(pass[p].box, pass[p].next)

AtAccount(me, b) == me.box = b /\ me.id = acct[b].id

\* The token a pass goes by is the one of the account, or the account is
\* another one, which has none yet.
TokenedOf(me, b) ==
  /\ \A id \in 1..MaxAccount : KnowsOf(me, b, id) /\ id # acct[b].id => acct[b].token = Null
  /\ \A a \in me.todo : a.box = b /\ a.id = acct[b].id => a.token = acct[b].token
  /\ AtAccount(me, b) =>
       /\ me.pc \in {"auth", "list"} => me.token = acct[b].token
       /\ \A i \in EventKind : Held(me, i) => i.at > acct[b].token
       /\ \A i \in EventKind : ToStore(me, i) => i.at <= me.next

Tokened == \A b \in Boxes : Alone(b) => \A p \in Passes : TokenedOf(pass[p], b)

\* Nor has a disconnect stopped half-way.
Whole(b) == Alone(b) /\ "cut" \notin seen[b]

HasRow(id) == id \in removed \/ \E r \in rows : r.id = id

\* A row that shows at, or what its owner wrote since.
ShowsAt(id, at) == \A r \in rows : r.id = id => r.ver = Mine \/ r.ver >= at

\* What is linked is there, or its owner deleted it, or it was cancelled.
LinksInPlace(b) ==
  \A l \in links : l.acct = acct[b].id => HasRow(l.local) \/ \E g \in google : g.gid = l.gid /\ ~g.live

InPlaceOf(me, b) ==
  AtAccount(me, b) =>
    /\ me.pc = "link" => HasRow(me.found) /\ ShowsAt(me.found, me.item.at)
    /\ \A e \in Locals : Pushes(me, e) => HasRow(e)

InPlace == \A b \in Boxes : Whole(b) => LinksInPlace(b) /\ \A p \in Passes : InPlaceOf(pass[p], b)

\* An event of Google's as the calendar shows it, if it ever takes it over.
Shown(b, g) ==
  IF g.live THEN g.timed /\ g \notin missed =>
                   /\ LinksOf(acct[b].id, g.gid) # {}
                   /\ \A l \in LinksOf(acct[b].id, g.gid) : ShowsAt(l.local, g.at)
            ELSE \/ "relist" \in seen[b]
                 \/ \A l \in LinksOf(acct[b].id, g.gid) : \A r \in rows : r.id # l.local

\* What a pass has listed is shown, or it will store it.
CoversOf(me, b) ==
  AtAccount(me, b) => \A g \in google : g.box = b /\ g.at <= me.next =>
    Shown(b, g) \/ \E i \in EventKind : ToStore(me, i) /\ i.gid = g.gid

Covered ==
  \A b \in Boxes : Whole(b) =>
    /\ \A g \in google : g.box = b /\ g.at <= acct[b].token => Shown(b, g)
    /\ \A p \in Passes : CoversOf(pass[p], b)

\* Nothing is linked twice, or not at all.
Steady(b) == seen[b] \cap {"raced", "lost", "left"} = {}

\* The copy is linked, or its pass is about to link it.
LinkedBy(me, e, g) == /\ me.box = g.box /\ me.pc = "linkpost"
                      /\ me.found = e /\ me.item.gid = g.gid
Linked(e, g) == \/ \E l \in links : l.local = e /\ l.gid = g.gid
                \/ \E p \in Passes : LinkedBy(pass[p], e, g)

OnceOf(me, b) ==
  /\ \A id \in 1..MaxAccount : KnowsOf(me, b, id) => id = acct[b].id
  /\ me.box = b /\ NewLink(me) /\ me.pc # "linkpost" => me.item.gid \in Theirs

OnceLinks(b) ==
  /\ \A l \in links, g \in google : g.box = b /\ l.gid = g.gid =>
       l.acct = acct[b].id /\ (l.local \in RowIds => l.gid \in Theirs)
  /\ \A e \in Locals, g \in google : g.box = b /\ g \in Copies(e) => Linked(e, g)

Once == \A b \in Boxes : Steady(b) => OnceLinks(b) /\ \A p \in Passes : OnceOf(pass[p], b)

Orphans ==
  \A b \in Boxes : "late" \notin seen[b] /\ (acct[b] = NoAccount \/ b \in leaving) =>
    /\ \A p \in Passes, id \in 1..MaxAccount : ~Knows(p, b, id)
    /\ \A r \in rows : r.box = b => r.source = "local"

Inv ==
  /\ TypeOK /\ Stages /\ Calendars
  /\ IdsOnce /\ OneHand /\ LinksKnown /\ Listing /\ Finding /\ LinkedOnce
  /\ TokenBounds /\ Tokened /\ InPlace /\ Covered
  /\ Once /\ Orphans

-----------------------------------------------------------------------------
(* Numbers.                                                                *)

\* The bounds are numbers.
LEMMA BoundsFacts ==
  /\ MaxChange \in Nat /\ MaxPost \in Nat /\ MaxFault \in Nat /\ MaxAccount \in Nat
  /\ Cardinality(Locals) \in Nat /\ LastSeq \in Nat /\ MaxChange <= LastSeq
<1>1. Cardinality(Locals) \in Nat
  BY CalendarAssumption, FS_CardinalityType
<1> QED BY <1>1, CalendarAssumption DEF LastSeq

\* A scene stays within the constants.
LEMMA SceneFacts ==
  ASSUME TypeOK
  PROVE  /\ scene.passes \subseteq Passes /\ scene.boxes \subseteq Boxes /\ scene.locals \subseteq Locals
         /\ scene.theirs \subseteq Theirs /\ scene.accounts \in 0..MaxAccount
         /\ scene.changes \in 0..MaxChange /\ scene.faults \in 0..MaxFault
BY CalendarAssumption DEF TypeOK

\* A set of numbers has a least one.
LEMMA Least ==
  ASSUME NEW T, T \subseteq Nat, T # {}
  PROVE  \E x \in T : \A y \in T : x <= y
<1>1. PICK x \in T : \A y \in T : ~ (<<y, x>> \in OpToRel(<, Nat))
  <2>1. IsWellFoundedOn(OpToRel(<, Nat), Nat)
    BY NatLessThanWellFounded
  <2> HIDE DEF OpToRel
  <2> QED BY <2>1, WFMin
<1>2. ASSUME NEW y \in T, y < x PROVE FALSE
  <2>1. <<y, x>> \in OpToRel(<, Nat)
    BY <1>2 DEF OpToRel
  <2> QED BY <1>1, <2>1
<1> QED BY <1>2

\* A set of numbers below a bound has a greatest one.
LEMMA Greatest ==
  ASSUME NEW n \in Nat, NEW S, S \subseteq 1..n, S # {}
  PROVE  \E x \in S : \A y \in S : y <= x
<1> DEFINE T == {n - x : x \in S}
<1>1. \A x \in S : x \in Nat /\ n - x \in Nat
  OBVIOUS
<1>2. T \subseteq Nat /\ T # {}
  BY <1>1
<1>3. PICK k \in T : \A y \in T : k <= y
  BY <1>2, Least
<1>4. PICK x \in S : k = n - x
  BY <1>3
<1>5. ASSUME NEW y \in S PROVE y <= x
  <2>1. k <= n - y
    BY <1>3
  <2> QED BY <1>1, <1>4, <2>1
<1> QED BY <1>5

\* Google's log is at its last change.
LEMMA SeqFacts ==
  ASSUME TypeOK, NEW b \in Boxes
  PROVE  /\ Seq(b) \in 0..LastSeq
         /\ \A g \in google : g.box = b => g.at <= Seq(b)
         /\ Seq(b) = 0 \/ \E g \in google : g.box = b /\ g.at = Seq(b)
<1> DEFINE S == {g.at : g \in {x \in google : x.box = b}}
<1>1. S \subseteq 1..LastSeq
  BY DEF TypeOK, EventKind
<1>2. CASE S = {}
  <2>1. Seq(b) = 0 /\ \A g \in google : g.box # b
    BY <1>2 DEF Seq
  <2> QED BY <2>1, BoundsFacts
<1>3. CASE S # {}
  <2>1. \E x \in S : \A y \in S : y <= x
    <3> HIDE DEF S
    <3> QED BY <1>1, <1>3, Greatest, BoundsFacts
  <2>2. Seq(b) = CHOOSE x \in S : \A y \in S : y <= x
    BY <1>3 DEF Seq
  <2>3. Seq(b) \in S /\ \A y \in S : y <= Seq(b)
    <3> HIDE DEF S
    <3> QED BY <2>1, <2>2
  <2>4. Seq(b) \in 1..LastSeq
    BY <1>1, <2>3
  <2> QED BY <2>3, <2>4, BoundsFacts
<1> QED BY <1>2, <1>3

\* What the log has got to is at most its last change.
LEMMA ReachedSeq ==
  ASSUME TypeOK, NEW b \in Boxes, NEW n \in Int, Reached(b, n)
  PROVE  n <= Seq(b)
BY SeqFacts DEF Reached, TypeOK, EventKind

\* The log has got to its last change.
LEMMA SeqReached ==
  ASSUME TypeOK, NEW b \in Boxes
  PROVE  Reached(b, Seq(b))
BY SeqFacts DEF Reached, TypeOK, EventKind

\* The copies of an event are numbered by how many there are.
LEMMA CopiesFacts ==
  ASSUME TypeOK, Calendars, NEW e \in Locals
  PROVE  /\ IsFiniteSet(Copies(e)) /\ Cardinality(Copies(e)) \in 0..MaxPost
         /\ {g.gid : g \in Copies(e)} = {e} \X (1..Cardinality(Copies(e)))
<1>1. PICK n \in 0..MaxPost : {g.gid : g \in Copies(e)} = {e} \X (1..n)
  BY DEF Calendars
<1>2. n \in Nat /\ \A g \in Copies(e) : g \in google /\ g.gid \in {e} \X (1..n)
  BY <1>1, BoundsFacts DEF Copies
<1> DEFINE f == [i \in 1..n |-> CHOOSE g \in Copies(e) : g.gid = <<e, i>>]
<1>3. \A i \in 1..n : f[i] \in Copies(e) /\ f[i].gid = <<e, i>>
  <2> TAKE i \in 1..n
  <2>1. <<e, i>> \in {g.gid : g \in Copies(e)}
    BY <1>1
  <2> QED BY <2>1
<1>4. f \in [1..n -> Copies(e)]
  BY <1>3
<1> HIDE DEF f
<1>5. \A i, j \in 1..n : f[i] = f[j] => i = j
  BY <1>3
<1>6. \A g \in Copies(e) : \E i \in 1..n : f[i] = g
  <2> TAKE g \in Copies(e)
  <2>1. PICK i \in 1..n : g.gid = <<e, i>>
    BY <1>2
  <2>2. f[i] \in google /\ g \in google /\ f[i].gid = g.gid
    BY <1>2, <1>3, <2>1
  <2> QED BY <2>2 DEF Calendars
<1>7. f \in Bijection(1..n, Copies(e))
  <2>1. f \in Injection(1..n, Copies(e))
    BY <1>4, <1>5 DEF Injection, IsInjective
  <2>2. f \in Surjection(1..n, Copies(e))
    BY <1>4, <1>6 DEF Surjection
  <2> QED BY <2>1, <2>2 DEF Bijection
<1>8. IsFiniteSet(1..n) /\ Cardinality(1..n) = n
  BY <1>2, FS_Interval
<1>9. ExistsBijection(1..n, Copies(e))
  BY <1>7 DEF ExistsBijection
<1>10. IsFiniteSet(Copies(e)) /\ Cardinality(Copies(e)) = n
  BY <1>8, <1>9, FS_Bijection
<1> QED BY <1>1, <1>10

\* The ids of copies are finitely many.
LEMMA CopyGidsFacts ==
  ASSUME NEW S, S \subseteq Locals \X (1..MaxPost)
  PROVE  IsFiniteSet(S) /\ Cardinality(S) \in Nat /\ Cardinality(S) <= Cardinality(Locals) * MaxPost
<1>1. IsFiniteSet(1..MaxPost) /\ Cardinality(1..MaxPost) = MaxPost
  BY BoundsFacts, FS_Interval
<1>2. IsFiniteSet(Locals)
  BY CalendarAssumption
<1>3. /\ IsFiniteSet(Locals \X (1..MaxPost))
      /\ Cardinality(Locals \X (1..MaxPost)) = Cardinality(Locals) * MaxPost
  BY <1>1, <1>2, FS_Product
<1>4. IsFiniteSet(S) /\ Cardinality(S) <= Cardinality(Locals) * MaxPost
  BY <1>3, FS_Subset
<1> QED BY <1>4, FS_CardinalityType

-----------------------------------------------------------------------------
(* What a step of a pass does: p becomes r, and the tables change.          *)

Becomes(p, r) == r \in PassKind /\ StageOf(r) /\ Go(p, r)

SameAccount(r, me) == r.todo = me.todo /\ r.box = me.box /\ r.id = me.id

SameIds == \A b \in Boxes : acct'[b].id = acct[b].id /\ (acct'[b] = NoAccount <=> acct[b] = NoAccount)
SameTokens == \A b \in Boxes : acct'[b].token = acct[b].token
SeenGrows == \A b \in Boxes : seen[b] \subseteq seen'[b]

\* Nothing happens to the calendars.
Quiet == SameIds /\ SameTokens /\ UNCHANGED <<rows, links, google, removed>> /\ SeenGrows

Loads(p, r) ==
  /\ pass[p].pc = "idle" /\ r.pc = "next" /\ r.todo = Snapshots /\ Quiet
  /\ \A b \in Boxes : Connected(b) =>
       /\ b \in leaving => "late" \in seen'[b]
       /\ \A q \in Passes : InHand(q, b) => "raced" \in seen'[b]

LetsGo(p, r) ==
  /\ r.pc \in {"idle", "next", "error"} /\ r.todo \subseteq pass[p].todo
  /\ r.box = None \/ (r.box = pass[p].box /\ r.id = pass[p].id)

Quits(p, r) ==
  /\ LetsGo(p, r) /\ Quiet
  /\ pass[p].pc \in {"link", "linkpost"} => "lost" \in seen'[pass[p].box]

Takes(p, r) ==
  /\ pass[p].pc = "next" /\ r.pc = "auth" /\ Quiet
  /\ \E a \in pass[p].todo : /\ r.todo = pass[p].todo \ {a}
                             /\ r.box = a.box /\ r.id = a.id /\ r.token = a.token

Reads(p, r) ==
  /\ pass[p].pc = "auth" /\ r.pc = "list" /\ SameAccount(r, pass[p]) /\ r.token = pass[p].token
  /\ Quiet

\* A listing is the live events it does not miss, or those above its token.
Answers(b, token, items) ==
  /\ items \subseteq google
  /\ \A g \in items : g.box = b /\ IF token = Null THEN g.live ELSE g.at > token
  /\ \A g \in google : g.box = b /\ (IF token = Null THEN g.live /\ g \notin missed' ELSE g.at > token)
       => g \in items

Lists(p, r) ==
  /\ pass[p].pc = "list" /\ r.pc = "items" /\ SameAccount(r, pass[p])
  /\ Answers(pass[p].box, pass[p].token, r.items) /\ r.next = Seq(pass[p].box)
  /\ Quiet
  /\ pass[p].token = Null /\ (\E l \in links : l.acct = pass[p].id) => "relist" \in seen'[pass[p].box]

\* The token of the account with this id becomes new.
Stores(id, new) ==
  /\ SameIds /\ UNCHANGED <<rows, links, google, removed, seen>>
  /\ \A b \in Boxes : acct'[b].token = IF acct[b].id = id THEN new ELSE acct[b].token

Forgets(p, r) ==
  /\ pass[p].pc \in {"list", "items"} /\ r.pc = "select" /\ r.next = Null /\ SameAccount(r, pass[p])
  /\ Stores(pass[p].id, Null)

Finds(p, r) ==
  /\ pass[p].pc = "items" /\ SameAccount(r, pass[p]) /\ r.next = pass[p].next /\ Quiet
  /\ \/ pass[p].items = {} /\ r.pc = "select"
     \/ \E i \in pass[p].items :
          /\ r.items = pass[p].items \ {i}
          /\ \/ /\ r.pc = "apply" /\ r.item = i
                /\ \E l \in links : l.acct = pass[p].id /\ l.gid = i.gid /\ r.found = l.local
             \/ /\ LinksOf(pass[p].id, i.gid) = {} /\ r.found = None
                /\ i.live /\ r.pc = "apply" /\ r.item = i
             \/ /\ IF i.live THEN ~i.timed ELSE LinksOf(pass[p].id, i.gid) = {}
                /\ r.found = None /\ r.pc = "items"

\* What a write to the calendar leaves alone.
Writes(p, r) ==
  /\ pass[p].pc = "apply" /\ SameAccount(r, pass[p]) /\ r.next = pass[p].next /\ r.items = pass[p].items
  /\ UNCHANGED <<acct, links, google, removed, seen>>

Deletes(p, r) ==
  /\ Writes(p, r) /\ r.pc = "items" /\ pass[p].found # None /\ ~pass[p].item.live
  /\ rows' = {x \in rows : x.id # pass[p].found}

Written(id, at) == {IF x.id = id THEN [x EXCEPT !.ver = at] ELSE x : x \in rows}

Updates(p, r) ==
  /\ Writes(p, r) /\ r.pc = "items" /\ pass[p].found # None /\ pass[p].item.live
  /\ rows' = Written(pass[p].found, pass[p].item.at)

Imports(p, r) ==
  /\ Writes(p, r) /\ r.pc = "link" /\ r.item = pass[p].item /\ pass[p].found = None
  /\ r.found \in RowIds \ Used
  /\ rows' = rows \cup {[id |-> r.found, box |-> r.box, source |-> "google", ver |-> r.item.at]}

NewLinkOf(me) == [acct |-> me.id, local |-> me.found, gid |-> me.item.gid]

Binds(p, r) ==
  /\ SameAccount(r, pass[p]) /\ r.next = pass[p].next /\ r.items = pass[p].items /\ r.push = pass[p].push
  /\ pass[p].pc \in {"link", "linkpost"} /\ r.pc = (IF pass[p].pc = "link" THEN "items" ELSE "post")
  /\ links' = links \cup {NewLinkOf(pass[p])}
  /\ UNCHANGED <<acct, rows, google, removed, seen>>

Selects(p, r) ==
  /\ pass[p].pc = "select" /\ r.pc = "post" /\ SameAccount(r, pass[p]) /\ r.next = pass[p].next
  /\ r.push = Unlinked(pass[p].box) /\ Quiet

Skips(p, r) ==
  /\ pass[p].pc = "post" /\ r.pc \in {"post", "mark"} /\ SameAccount(r, pass[p]) /\ r.next = pass[p].next
  /\ r.push \subseteq pass[p].push /\ Quiet

\* One more copy of an event is at Google.
Adds(p, e) ==
  /\ pass[p].pc = "post" /\ e \in pass[p].push /\ Cardinality(Copies(e)) < MaxPost
  /\ google' = google \cup {Copy(pass[p].box, e)}
  /\ UNCHANGED <<acct, rows, links, removed>> /\ SeenGrows

Posts(p, r) ==
  /\ r.pc = "linkpost" /\ SameAccount(r, pass[p]) /\ r.next = pass[p].next
  /\ Adds(p, r.found) /\ r.item = Copy(r.box, r.found) /\ r.push = pass[p].push \ {r.found}

Loses(p, r) ==
  /\ LetsGo(p, r) /\ "lost" \in seen'[pass[p].box]
  /\ \E e \in Locals : Adds(p, e)

Marks(p, r) ==
  /\ pass[p].pc = "mark" /\ LetsGo(p, r)
  /\ \/ pass[p].next = Null /\ Quiet
     \/ pass[p].next # Null /\ Stores(pass[p].id, pass[p].next)

Works(p, r) ==
  /\ Becomes(p, r) /\ UNCHANGED Others
  /\ \/ Loads(p, r) \/ Quits(p, r) \/ Takes(p, r) \/ Reads(p, r) \/ Lists(p, r) \/ Forgets(p, r) \/ Finds(p, r)
     \/ Deletes(p, r) \/ Updates(p, r) \/ Imports(p, r) \/ Binds(p, r) \/ Selects(p, r) \/ Skips(p, r)
     \/ Posts(p, r) \/ Loses(p, r) \/ Marks(p, r)

\* A pass is of its type, and at a stage.
LEMMA MeFacts ==
  ASSUME TypeOK, Stages, NEW p \in Passes
  PROVE  pass[p] \in PassKind /\ StageOf(pass[p]) /\ (pass[p].box # None => pass[p].box \in Boxes /\ pass[p].id \in 1..MaxAccount)
<1>1. pass[p] \in PassKind /\ StageOf(pass[p])
  BY DEF TypeOK, Stages
<1> QED BY <1>1 DEF PassKind, StageOf, Ids

\* So is one that has not begun.
LEMMA IdleFacts == Idle \in PassKind /\ StageOf(Idle)
<1>1. Null \in Ids /\ Null \in Tokens /\ None \notin Boxes
  BY CalendarAssumption DEF Ids, Tokens
<1>2. Idle \in PassKind
  BY <1>1 DEF Idle, PassKind
<1> QED BY <1>2 DEF Idle, StageOf

\* Histories that stay have grown.
LEMMA SameSeen == UNCHANGED seen => SeenGrows
BY DEF SeenGrows

\* Accounts that stay keep their ids and tokens.
LEMMA SameAccounts == UNCHANGED acct => SameIds /\ SameTokens
BY DEF SameIds, SameTokens

\* An event adds to the history of its mailbox.
LEMMA HappensGrows ==
  ASSUME TypeOK, NEW b \in Boxes, NEW e \in Events, Happens(b, e)
  PROVE  SeenGrows /\ e \in seen'[b] /\ seen' \in [Boxes -> SUBSET Events]
BY DEF TypeOK, Happens, SeenGrows

\* load_accounts gives each connected account once.
LEMMA SnapshotsFacts ==
  ASSUME TypeOK, IdsOnce
  PROVE  /\ Snapshots \subseteq SnapshotKind
         /\ \A a \in Snapshots : /\ Connected(a.box) /\ a.id = acct[a.box].id /\ a.token = acct[a.box].token
         /\ \A a1, a2 \in Snapshots : a1.box = a2.box => a1 = a2
<1> DEFINE Copied(b) == [box |-> b, id |-> acct[b].id, token |-> acct[b].token, key |-> acct[b].key,
                         rkey |-> acct[b].rkey]
<1>1. \A b \in Boxes : Connected(b) => Copied(b) \in SnapshotKind
  <2> SUFFICES ASSUME NEW b \in Boxes, Connected(b) PROVE Copied(b) \in SnapshotKind
    OBVIOUS
  <2>1. acct[b] \in AccountKind
    BY DEF TypeOK
  <2>2. acct[b].id # Null
    BY DEF IdsOnce, Connected, NoAccount
  <2> QED BY <2>1, <2>2 DEF AccountKind, SnapshotKind, Ids
<1>2. \A a \in Snapshots : \E b \in Boxes : Connected(b) /\ a = Copied(b)
  BY DEF Snapshots
<1>3. \A b \in Boxes : /\ Copied(b).box = b /\ Copied(b).id = acct[b].id
                       /\ Copied(b).token = acct[b].token
  OBVIOUS
<1> HIDE DEF Copied
<1> QED BY <1>1, <1>2, <1>3

\* load_accounts is a step of that kind.
LEMMA LoadWorks ==
  ASSUME TypeOK, Stages, IdsOnce, NEW p \in Passes, LoadAccounts(p)
  PROVE  \E r : Works(p, r)
<1> DEFINE r == [Idle EXCEPT !.pc = "next", !.todo = Snapshots]
<1>1. Snapshots \subseteq SnapshotKind /\ \A a1, a2 \in Snapshots : a1.box = a2.box => a1 = a2
  BY SnapshotsFacts
<1>2. /\ r.pc = "next" /\ r.todo = Snapshots /\ r.box = None /\ r.id = Null /\ r.token = Null
      /\ r.items = {} /\ r.next = Null /\ r.item = None /\ r.found = None /\ r.push = {}
  BY DEF Idle
<1>3. r \in PassKind
  BY <1>1, IdleFacts DEF PassKind
<1>4. None \notin Boxes
  BY CalendarAssumption
<1>5. StageOf(r)
  <2>1. \A a \in Snapshots : a.box \in Boxes
    BY <1>1 DEF SnapshotKind
  <2> HIDE DEF r
  <2> QED BY <1>1, <1>2, <1>4, <2>1 DEF StageOf
<1>6. Go(p, r) /\ pass[p].pc = "idle" /\ UNCHANGED <<Tables, Others, removed>>
  BY DEF LoadAccounts, At
<1>7. \A b \in Boxes : seen'[b] = IF ~Connected(b) THEN seen[b] ELSE
        seen[b] \cup (IF \E q \in Passes : InHand(q, b) THEN {"raced"} ELSE {})
                \cup (IF b \in leaving THEN {"late"} ELSE {})
  BY DEF LoadAccounts
<1> HIDE DEF r
<1>8. Quiet
  BY <1>6, <1>7 DEF Quiet, SeenGrows, Tables, SameIds, SameTokens
<1>9. Loads(p, r)
  BY <1>2, <1>6, <1>7, <1>8 DEF Loads
<1> QED BY <1>3, <1>5, <1>6, <1>9 DEF Works, Becomes

\* A pass that gives up keeps its account, and no more.
LEMMA GivesUp ==
  ASSUME TypeOK, Stages, NEW p \in Passes, GiveUp(p), pass[p].box # None
  PROVE  \E r : Becomes(p, r) /\ LetsGo(p, r)
<1> DEFINE r == [Idle EXCEPT !.pc = "error", !.todo = pass[p].todo, !.box = pass[p].box, !.id = pass[p].id]
<1>1. pass[p] \in PassKind /\ StageOf(pass[p])
  BY MeFacts
<1>2. /\ r.pc = "error" /\ r.todo = pass[p].todo /\ r.box = pass[p].box /\ r.id = pass[p].id /\ r.token = Null
      /\ r.items = {} /\ r.next = Null /\ r.item = None /\ r.found = None /\ r.push = {}
  BY DEF Idle
<1>3. r \in PassKind
  BY <1>1, IdleFacts DEF PassKind
<1>4. Go(p, r)
  BY DEF GiveUp
<1> HIDE DEF r
<1>5. StageOf(r)
  BY <1>1, <1>2 DEF StageOf
<1> QED BY <1>2, <1>3, <1>4, <1>5 DEF Becomes, LetsGo

\* A pass that goes on keeps the accounts it has still to do.
LEMMA GoesOn ==
  ASSUME TypeOK, Stages, NEW p \in Passes, Go(p, [Idle EXCEPT !.pc = "next", !.todo = pass[p].todo])
  PROVE  \E r : Becomes(p, r) /\ LetsGo(p, r)
<1> DEFINE r == [Idle EXCEPT !.pc = "next", !.todo = pass[p].todo]
<1>1. pass[p] \in PassKind /\ StageOf(pass[p])
  BY MeFacts
<1>2. /\ r.pc = "next" /\ r.todo = pass[p].todo /\ r.box = None /\ r.token = Null
      /\ r.items = {} /\ r.next = Null /\ r.item = None /\ r.found = None /\ r.push = {}
  BY DEF Idle
<1>3. r \in PassKind
  BY <1>1, IdleFacts DEF PassKind
<1>4. \A a \in r.todo : a.box # None
  BY <1>1, <1>2, CalendarAssumption DEF PassKind, SnapshotKind
<1> HIDE DEF r
<1>5. StageOf(r)
  BY <1>1, <1>2, <1>4 DEF StageOf
<1> QED BY <1>2, <1>3, <1>5 DEF Becomes, LetsGo, r

\* A pass that stops has nothing any more.
LEMMA Stops ==
  ASSUME NEW p \in Passes, Go(p, Idle)
  PROVE  Becomes(p, Idle) /\ LetsGo(p, Idle)
<1>1. Idle.pc = "idle" /\ Idle.todo = {} /\ Idle.box = None
  BY DEF Idle
<1> QED BY <1>1, IdleFacts DEF Becomes, LetsGo

\* Going to the next account is a step of that kind.
LEMMA NextWorks ==
  ASSUME TypeOK, Stages, NEW p \in Passes, NextAccount(p)
  PROVE  \E r : Works(p, r)
<1>1. UNCHANGED Others /\ Quiet /\ pass[p].pc = "next"
  BY SameSeen, SameAccounts DEF NextAccount, Tables, Quiet, At
<1>2. CASE Go(p, Idle)
  BY <1>1, <1>2, Stops DEF Works, Quits
<1>3. ASSUME NEW a \in pass[p].todo,
             Go(p, [Idle EXCEPT !.pc = "auth", !.todo = pass[p].todo \ {a}, !.box = a.box,
                    !.id = a.id, !.token = a.token, !.key = a.key, !.rkey = a.rkey])
      PROVE  \E r : Works(p, r)
  <2> DEFINE r == [Idle EXCEPT !.pc = "auth", !.todo = pass[p].todo \ {a}, !.box = a.box,
                   !.id = a.id, !.token = a.token, !.key = a.key, !.rkey = a.rkey]
  <2>1. pass[p] \in PassKind /\ StageOf(pass[p])
    BY MeFacts
  <2>2. a \in SnapshotKind
    BY <1>3, <2>1 DEF PassKind
  <2>3. /\ a.box \in Boxes /\ a.id \in 1..MaxAccount /\ a.token \in Tokens /\ a.key \in Ids /\ a.rkey \in Ids
        /\ a.id # Null /\ a.id \in Ids /\ a.box # None
    BY <2>2, CalendarAssumption DEF SnapshotKind, Ids, Null
  <2>4. /\ r.pc = "auth" /\ r.todo = pass[p].todo \ {a} /\ r.box = a.box /\ r.id = a.id /\ r.token = a.token
        /\ r.items = {} /\ r.next = Null /\ r.item = None /\ r.found = None /\ r.push = {}
    BY DEF Idle
  <2>5. r \in PassKind
    BY <2>1, <2>3, IdleFacts DEF PassKind
  <2> HIDE DEF r
  <2>6. StageOf(r)
    BY <1>3, <2>1, <2>3, <2>4 DEF StageOf
  <2>7. Takes(p, r)
    BY <1>1, <1>3, <2>4 DEF Takes
  <2>8. Go(p, r)
    BY <1>3 DEF r
  <2> QED BY <1>1, <2>5, <2>6, <2>7, <2>8 DEF Works, Becomes
<1> QED BY <1>2, <1>3 DEF NextAccount

\* valid_access_token is a step of that kind.
LEMMA ValidWorks ==
  ASSUME TypeOK, Stages, NEW p \in Passes, ValidAccessToken(p)
  PROVE  \E r : Works(p, r)
<1>1. pass[p] \in PassKind /\ StageOf(pass[p]) /\ pass[p].pc = "auth" /\ pass[p].box # None
      /\ pass[p].id # Null
  BY MeFacts DEF ValidAccessToken, At, StageOf
<1>2. SameIds /\ SameTokens
  <2>1. CASE UNCHANGED acct
    BY <2>1, SameAccounts
  <2>2. CASE Refresh(p)
    <3>1. \A b \in Boxes : acct'[b] = IF acct[b].id = pass[p].id THEN [acct[b] EXCEPT !.key = pass[p].id] ELSE acct[b]
      BY <2>2 DEF Refresh
    <3>2. \A b \in Boxes : acct[b] \in AccountKind
      BY DEF TypeOK
    <3>3. \A b \in Boxes : acct'[b].id = acct[b].id /\ acct'[b].token = acct[b].token
      BY <3>1, <3>2 DEF AccountKind
    <3>4. NoAccount.id = Null
      BY DEF NoAccount
    <3>5. \A b \in Boxes : acct'[b] = NoAccount <=> acct[b] = NoAccount
      BY <1>1, <3>1, <3>3, <3>4
    <3> QED BY <3>3, <3>5 DEF SameIds, SameTokens
  <2> QED BY <2>1, <2>2 DEF ValidAccessToken
<1>3. UNCHANGED Others /\ Quiet
  BY <1>2, SameSeen DEF ValidAccessToken, Quiet
<1>4. CASE GiveUp(p)
  BY <1>1, <1>3, <1>4, GivesUp DEF Works, Quits
<1>5. CASE Go(p, [pass[p] EXCEPT !.pc = "list", !.key = Null, !.rkey = Null])
  <2> DEFINE r == [pass[p] EXCEPT !.pc = "list", !.key = Null, !.rkey = Null]
  <2>1. /\ r.pc = "list" /\ r.todo = pass[p].todo /\ r.box = pass[p].box /\ r.id = pass[p].id
        /\ r.token = pass[p].token /\ r.items = pass[p].items /\ r.next = pass[p].next
        /\ r.item = pass[p].item /\ r.found = pass[p].found /\ r.push = pass[p].push
    BY <1>1 DEF PassKind
  <2>2. r \in PassKind
    BY <1>1 DEF PassKind, Ids
  <2> HIDE DEF r
  <2>3. StageOf(r)
    BY <1>1, <2>1 DEF StageOf
  <2>4. Reads(p, r)
    BY <1>1, <1>3, <2>1 DEF Reads, SameAccount
  <2>5. Go(p, r)
    BY <1>5 DEF r
  <2> QED BY <1>3, <2>2, <2>3, <2>4, <2>5 DEF Works, Becomes
<1> QED BY <1>4, <1>5 DEF ValidAccessToken

\* A listing is the live events of its window, or those above its token.
LEMMA ListedFacts ==
  ASSUME NEW b, NEW token, NEW window,
         missed' = missed \cup {g \in google \ window : g.box = b /\ g.live /\ token = Null}
  PROVE  Answers(b, token, Listed(b, token, window))
BY DEF Listed, Answers

\* pull_google_events, its listing, is a step of that kind.
LEMMA PullWorks ==
  ASSUME TypeOK, Stages, IdsOnce, NEW p \in Passes, Pull(p)
  PROVE  \E r : Works(p, r)
<1>1. pass[p] \in PassKind /\ StageOf(pass[p]) /\ pass[p].pc = "list" /\ pass[p].box # None
      /\ pass[p].box \in Boxes /\ pass[p].id # Null
  BY MeFacts DEF Pull, At, StageOf
<1>2. UNCHANGED <<rows, links, google, removed>> /\ UNCHANGED Others
  BY DEF Pull
<1>3. ASSUME NEW window,
             missed' = missed \cup
               {g \in google \ window : g.box = pass[p].box /\ g.live /\ pass[p].token = Null},
             Go(p, [pass[p] EXCEPT !.pc = "items", !.items = Listed(pass[p].box, pass[p].token, window),
                    !.next = Seq(pass[p].box), !.token = Null]),
             IF pass[p].token = Null /\ \E l \in links : l.acct = pass[p].id
               THEN Happens(pass[p].box, "relist") ELSE UNCHANGED seen,
             UNCHANGED acct
      PROVE  \E r : Works(p, r)
  <2> DEFINE r == [pass[p] EXCEPT !.pc = "items", !.items = Listed(pass[p].box, pass[p].token, window),
                   !.next = Seq(pass[p].box), !.token = Null]
  <2>1. /\ r.pc = "items" /\ r.todo = pass[p].todo /\ r.box = pass[p].box /\ r.id = pass[p].id /\ r.token = Null
        /\ r.items = Listed(pass[p].box, pass[p].token, window) /\ r.next = Seq(pass[p].box)
        /\ r.item = pass[p].item /\ r.found = pass[p].found /\ r.push = pass[p].push
    BY <1>1 DEF PassKind
  <2>2. Seq(pass[p].box) \in Tokens /\ Seq(pass[p].box) # Null
    BY <1>1, SeqFacts DEF Tokens, Null
  <2>3. Listed(pass[p].box, pass[p].token, window) \subseteq EventKind /\ Null \in Tokens
    BY <1>3, ListedFacts DEF Answers, TypeOK, Tokens
  <2>4. r \in PassKind
    BY <1>1, <2>2, <2>3 DEF PassKind
  <2> HIDE DEF r
  <2>5. StageOf(r)
    BY <1>1, <2>1, <2>2 DEF StageOf
  <2>6. SeenGrows /\ (pass[p].token = Null /\ (\E l \in links : l.acct = pass[p].id) => "relist" \in seen'[pass[p].box])
    BY <1>1, <1>3, HappensGrows, SameSeen DEF Events
  <2>7. Lists(p, r)
    BY <1>1, <1>2, <1>3, <2>1, <2>6, SameAccounts, ListedFacts DEF Lists, SameAccount, Quiet
  <2>8. Go(p, r)
    BY <1>3 DEF r
  <2> QED BY <1>2, <2>4, <2>5, <2>7, <2>8 DEF Works, Becomes
<1> QED BY <1>2, <1>3 DEF Pull

\* An answer with 410 is a step of that kind.
LEMMA ExpiredWorks ==
  ASSUME TypeOK, Stages, IdsOnce, NEW p \in Passes, Expired(p)
  PROVE  \E r : Works(p, r)
<1>1. pass[p] \in PassKind /\ StageOf(pass[p]) /\ pass[p].pc \in {"list", "items"} /\ pass[p].box # None
      /\ pass[p].box \in Boxes /\ pass[p].id # Null
  BY MeFacts DEF Expired, At, StageOf
<1>2. UNCHANGED <<rows, links, google, removed, seen>> /\ UNCHANGED Others
  BY DEF Expired
<1> DEFINE r == [pass[p] EXCEPT !.pc = "select", !.items = {}, !.next = Null, !.token = Null]
<1>3. /\ r.pc = "select" /\ r.todo = pass[p].todo /\ r.box = pass[p].box /\ r.id = pass[p].id /\ r.token = Null
      /\ r.items = {} /\ r.next = Null
      /\ r.item = pass[p].item /\ r.found = pass[p].found /\ r.push = pass[p].push
  BY <1>1 DEF PassKind
<1>4. r \in PassKind
  BY <1>1 DEF PassKind, Tokens
<1>5. Go(p, r)
  BY DEF Expired
<1> HIDE DEF r
<1>6. StageOf(r)
  BY <1>1, <1>3 DEF StageOf
<1>7. SameIds /\ \A b \in Boxes : acct'[b].token = IF acct[b].id = pass[p].id THEN Null ELSE acct[b].token
  <2>1. \A b \in Boxes : acct[b] \in AccountKind
    BY DEF TypeOK
  <2>2. acct' = [b \in Boxes |->
          IF acct[b].id = pass[p].id THEN [acct[b] EXCEPT !.token = Null] ELSE acct[b]]
    BY DEF Expired
  <2>3. \A b \in Boxes : /\ acct'[b].id = acct[b].id
                         /\ acct'[b].token = IF acct[b].id = pass[p].id THEN Null ELSE acct[b].token
                         /\ acct[b].id # pass[p].id => acct'[b] = acct[b]
    BY <2>1, <2>2 DEF AccountKind
  <2>4. NoAccount.id = Null
    BY DEF NoAccount
  <2> QED BY <1>1, <2>3, <2>4 DEF SameIds
<1>8. Forgets(p, r)
  BY <1>1, <1>2, <1>3, <1>7 DEF Forgets, SameAccount, Stores
<1> QED BY <1>2, <1>4, <1>5, <1>6, <1>8 DEF Works, Becomes

\* The SELECT of upsert_from_google is a step of that kind.
LEMMA FindWorks ==
  ASSUME TypeOK, Stages, NEW p \in Passes, FindLink(p)
  PROVE  \E r : Works(p, r)
<1> DEFINE me == pass[p]
<1>1. me \in PassKind /\ StageOf(me) /\ me.pc = "items" /\ me.box # None
  BY MeFacts DEF FindLink, At, StageOf
<1>2. UNCHANGED Others /\ Quiet
  BY SameSeen, SameAccounts DEF FindLink, Tables, Quiet
<1>3. CASE me.items = {} /\ To(p, "select")
  <2> DEFINE r == [pass[p] EXCEPT !.pc = "select"]
  <2>1. Go(p, r)
    BY <1>3 DEF To
  <2>2. /\ r.pc = "select" /\ r.todo = me.todo /\ r.box = me.box /\ r.id = me.id /\ r.token = me.token
        /\ r.items = me.items /\ r.next = me.next /\ r.item = me.item /\ r.found = me.found /\ r.push = me.push
    BY <1>1 DEF PassKind
  <2>3. r \in PassKind
    BY <1>1 DEF PassKind
  <2> HIDE DEF r
  <2>4. StageOf(r)
    BY <1>1, <1>3, <2>2 DEF StageOf
  <2>5. Finds(p, r)
    BY <1>1, <1>2, <1>3, <2>2 DEF Finds, SameAccount
  <2> QED BY <1>2, <2>1, <2>3, <2>4, <2>5 DEF Works, Becomes
<1>4. ASSUME NEW i \in me.items, NEW f \in Locals \cup RowIds \cup {None},
             Go(p, [me EXCEPT !.pc = "apply", !.items = @ \ {i}, !.item = i, !.found = f]),
             \/ \E l \in links : l.acct = me.id /\ l.gid = i.gid /\ f = l.local
             \/ f = None /\ i.live /\ LinksOf(me.id, i.gid) = {}
      PROVE  \E r : Works(p, r)
  <2> DEFINE r == [me EXCEPT !.pc = "apply", !.items = @ \ {i}, !.item = i, !.found = f]
  <2>1. Go(p, r)
    BY <1>4
  <2>2. /\ r.pc = "apply" /\ r.todo = me.todo /\ r.box = me.box /\ r.id = me.id /\ r.token = me.token
        /\ r.items = me.items \ {i} /\ r.next = me.next /\ r.item = i /\ r.found = f /\ r.push = me.push
    BY <1>1 DEF PassKind
  <2>3. i \in EventKind /\ i # None
    BY <1>1, CalendarAssumption DEF PassKind
  <2>4. r \in PassKind
    BY <1>1, <1>4, <2>3 DEF PassKind
  <2> HIDE DEF r
  <2>5. f = None => i.live
    <3>1. \A l \in links : l.local # None
      BY CalendarAssumption DEF TypeOK, LinkKind
    <3> QED BY <1>4, <3>1
  <2>6. StageOf(r)
    BY <1>1, <2>2, <2>3, <2>5 DEF StageOf
  <2>7. Finds(p, r)
    BY <1>1, <1>2, <1>4, <2>2 DEF Finds, SameAccount
  <2> QED BY <1>2, <2>1, <2>4, <2>6, <2>7 DEF Works, Becomes
<1>5. ASSUME NEW i \in me.items, Go(p, [me EXCEPT !.items = @ \ {i}]),
             IF i.live THEN ~i.timed ELSE LinksOf(me.id, i.gid) = {}
      PROVE  \E r : Works(p, r)
  <2> DEFINE r == [me EXCEPT !.items = @ \ {i}]
  <2>1. Go(p, r)
    BY <1>5
  <2>2. /\ r.pc = me.pc /\ r.todo = me.todo /\ r.box = me.box /\ r.id = me.id /\ r.token = me.token
        /\ r.items = me.items \ {i} /\ r.next = me.next /\ r.item = me.item /\ r.found = me.found /\ r.push = me.push
    BY <1>1 DEF PassKind
  <2>3. r \in PassKind
    BY <1>1 DEF PassKind
  <2> HIDE DEF r
  <2>4. StageOf(r) /\ r.found = None
    BY <1>1, <2>2 DEF StageOf
  <2>5. Finds(p, r)
    BY <1>1, <1>2, <1>5, <2>2, <2>4 DEF Finds, SameAccount
  <2> QED BY <1>2, <2>1, <2>3, <2>4, <2>5 DEF Works, Becomes
<1>6. \A l \in links : l.local \in Locals \cup RowIds
  BY DEF TypeOK, LinkKind
<1>7. \/ me.items = {} /\ To(p, "select")
      \/ \E i \in me.items :
           \/ \E l \in LinksOf(me.id, i.gid) :
                Go(p, [me EXCEPT !.pc = "apply", !.items = @ \ {i}, !.item = i, !.found = l.local])
           \/ /\ LinksOf(me.id, i.gid) = {} /\ i.live
              /\ Go(p, [me EXCEPT !.pc = "apply", !.items = @ \ {i}, !.item = i, !.found = None])
           \/ /\ IF i.live THEN ~i.timed ELSE LinksOf(me.id, i.gid) = {}
              /\ Go(p, [me EXCEPT !.items = @ \ {i}])
  BY DEF FindLink
<1> HIDE DEF me
<1>8. ASSUME NEW i \in me.items, NEW l \in LinksOf(me.id, i.gid),
             Go(p, [me EXCEPT !.pc = "apply", !.items = @ \ {i}, !.item = i, !.found = l.local])
      PROVE  \E r : Works(p, r)
  <2>1. l \in links /\ l.acct = me.id /\ l.gid = i.gid
    BY <1>8 DEF LinksOf
  <2> QED BY <1>4, <1>6, <1>8, <2>1
<1> QED BY <1>3, <1>4, <1>5, <1>7, <1>8

\* The write of upsert_from_google is a step of that kind.
LEMMA ApplyWorks ==
  ASSUME TypeOK, Stages, NEW p \in Passes, Apply(p)
  PROVE  \E r : Works(p, r)
<1> DEFINE me == pass[p]
           rest == [me EXCEPT !.pc = "items", !.item = None, !.found = None]
<1>1. me \in PassKind /\ StageOf(me) /\ me.pc = "apply" /\ me.box # None /\ me.item # None
  BY MeFacts DEF Apply, At, StageOf
<1>2. UNCHANGED Others /\ UNCHANGED <<acct, links, google, removed, seen>>
  BY DEF Apply
<1>3. \/ /\ me.found # None /\ ~me.item.live /\ rows' = {x \in rows : x.id # me.found} /\ Go(p, rest)
      \/ /\ me.found # None /\ me.item.live /\ Go(p, rest)
         /\ rows' = {IF x.id = me.found THEN [x EXCEPT !.ver = me.item.at] ELSE x : x \in rows}
      \/ /\ me.found = None /\ RowIds \ Used # {}
         /\ rows' = rows \cup {[id |-> Fresh, box |-> me.box, source |-> "google", ver |-> me.item.at]}
         /\ Go(p, [me EXCEPT !.pc = "link", !.found = Fresh])
  BY DEF Apply
<1>4. ASSUME Go(p, rest)
      PROVE  Becomes(p, rest) /\ rest.pc = "items" /\ SameAccount(rest, me) /\ rest.next = me.next /\ rest.items = me.items
  <2>1. /\ rest.pc = "items" /\ rest.todo = me.todo /\ rest.box = me.box /\ rest.id = me.id /\ rest.token = me.token
        /\ rest.items = me.items /\ rest.next = me.next /\ rest.item = None /\ rest.found = None
        /\ rest.push = me.push
    BY <1>1 DEF PassKind
  <2>2. rest \in PassKind
    BY <1>1 DEF PassKind
  <2> HIDE DEF rest
  <2>3. StageOf(rest)
    BY <1>1, <2>1 DEF StageOf
  <2> QED BY <1>4, <2>1, <2>2, <2>3 DEF Becomes, SameAccount
<1>5. ASSUME me.found # None, ~me.item.live, rows' = {x \in rows : x.id # me.found}, Go(p, rest)
      PROVE  \E r : Works(p, r)
  <2>1. Deletes(p, rest)
    BY <1>1, <1>2, <1>4, <1>5 DEF Deletes, Writes
  <2> QED BY <1>2, <1>4, <1>5, <2>1 DEF Works
<1>6. ASSUME me.found # None, me.item.live, Go(p, rest),
             rows' = {IF x.id = me.found THEN [x EXCEPT !.ver = me.item.at] ELSE x : x \in rows}
      PROVE  \E r : Works(p, r)
  <2>1. Updates(p, rest)
    BY <1>1, <1>2, <1>4, <1>6 DEF Updates, Writes, Written
  <2> QED BY <1>2, <1>4, <1>6, <2>1 DEF Works
<1>7. ASSUME me.found = None, RowIds \ Used # {}, Go(p, [me EXCEPT !.pc = "link", !.found = Fresh]),
             rows' = rows \cup {[id |-> Fresh, box |-> me.box, source |-> "google", ver |-> me.item.at]}
      PROVE  \E r : Works(p, r)
  <2> DEFINE r == [me EXCEPT !.pc = "link", !.found = Fresh]
  <2>1. /\ r.pc = "link" /\ r.todo = me.todo /\ r.box = me.box /\ r.id = me.id /\ r.token = me.token
        /\ r.items = me.items /\ r.next = me.next /\ r.item = me.item /\ r.found = Fresh /\ r.push = me.push
    BY <1>1 DEF PassKind
  <2>2. Fresh \in RowIds \ Used
    BY <1>7 DEF Fresh
  <2>3. r \in PassKind
    BY <1>1, <2>2 DEF PassKind
  <2>4. Go(p, r)
    BY <1>7
  <2> HIDE DEF r
  <2>5. me.item.live
    BY <1>1, <1>7 DEF StageOf
  <2>6. Fresh # None
    BY <2>2, CalendarAssumption
  <2>7. StageOf(r)
    BY <1>1, <2>1, <2>2, <2>5, <2>6 DEF StageOf
  <2>8. Imports(p, r)
    BY <1>1, <1>2, <1>7, <2>1, <2>2 DEF Imports, Writes, SameAccount
  <2> QED BY <1>2, <2>3, <2>4, <2>7, <2>8 DEF Works, Becomes
<1> QED BY <1>3, <1>5, <1>6, <1>7

\* insert_link is a step of that kind.
LEMMA InsertWorks ==
  ASSUME TypeOK, Stages, NEW p \in Passes, InsertLink(p)
  PROVE  \E r : Works(p, r)
<1> DEFINE me == pass[p]
           r == [me EXCEPT !.pc = IF me.pc = "link" THEN "items" ELSE "post", !.item = None, !.found = None]
<1>1. me \in PassKind /\ StageOf(me) /\ me.pc \in {"link", "linkpost"} /\ me.box # None
  BY MeFacts DEF InsertLink, StageOf
<1>2. /\ UNCHANGED Others /\ UNCHANGED <<acct, rows, google, removed, seen>>
      /\ links' = links \cup {NewLinkOf(me)} /\ Go(p, r)
  BY DEF InsertLink, NewLinkOf
<1>3. /\ r.pc = (IF me.pc = "link" THEN "items" ELSE "post") /\ r.todo = me.todo /\ r.box = me.box /\ r.id = me.id
      /\ r.token = me.token /\ r.items = me.items /\ r.next = me.next /\ r.item = None /\ r.found = None
      /\ r.push = me.push
  BY <1>1 DEF PassKind
<1>4. r \in PassKind
  BY <1>1 DEF PassKind
<1> HIDE DEF r
<1>5. StageOf(r)
  <2>1. CASE me.pc = "link"
    BY <1>1, <1>3, <2>1 DEF StageOf
  <2>2. CASE me.pc = "linkpost"
    BY <1>1, <1>3, <2>2 DEF StageOf
  <2> QED BY <1>1, <2>1, <2>2
<1>6. Binds(p, r)
  BY <1>1, <1>2, <1>3 DEF Binds, SameAccount
<1> QED BY <1>2, <1>4, <1>5, <1>6 DEF Works, Becomes

\* The SELECT of push_local_events is a step of that kind.
LEMMA SelectWorks ==
  ASSUME TypeOK, Stages, Finding, NEW p \in Passes, SelectLocal(p)
  PROVE  \E r : Works(p, r)
<1> DEFINE me == pass[p]
           r == [me EXCEPT !.pc = "post", !.push = Unlinked(me.box)]
<1>1. me \in PassKind /\ StageOf(me) /\ me.pc = "select" /\ me.box # None
  BY MeFacts DEF SelectLocal, At, StageOf
<1>2. UNCHANGED Others /\ Quiet /\ Go(p, r)
  BY SameSeen, SameAccounts DEF SelectLocal, Tables, Quiet
<1>3. /\ r.pc = "post" /\ r.todo = me.todo /\ r.box = me.box /\ r.id = me.id
      /\ r.token = me.token /\ r.items = me.items /\ r.next = me.next /\ r.item = me.item /\ r.found = me.found
      /\ r.push = Unlinked(me.box)
  BY <1>1 DEF PassKind
<1>4. Unlinked(me.box) \subseteq Locals
  BY DEF Unlinked, Finding
<1>5. r \in PassKind
  BY <1>1, <1>4 DEF PassKind
<1> HIDE DEF r
<1>6. StageOf(r)
  BY <1>1, <1>3 DEF StageOf
<1>7. Selects(p, r)
  BY <1>1, <1>2, <1>3 DEF Selects, SameAccount
<1> QED BY <1>2, <1>5, <1>6, <1>7 DEF Works, Becomes

\* The copy of an event is new, and the last change of its calendar.
LEMMA CopyFacts ==
  ASSUME TypeOK, Calendars, NEW b \in Boxes, NEW e \in Locals, Cardinality(Copies(e)) < MaxPost
  PROVE  /\ Copy(b, e).box = b /\ Copy(b, e).at = Seq(b) + 1 /\ Copy(b, e).live /\ Copy(b, e) \in EventKind
         /\ Copy(b, e).gid = <<e, Cardinality(Copies(e)) + 1>> /\ Cardinality(Copies(e)) + 1 \in 1..MaxPost
         /\ Copy(b, e).gid \notin {g.gid : g \in google}
         /\ Seq(b) + 1 <= scene.changes + Cardinality(CopyGids \cup {Copy(b, e).gid})
<1> DEFINE n == Cardinality(Copies(e))
<1>1. n \in 0..MaxPost /\ {g.gid : g \in Copies(e)} = {e} \X (1..n)
  BY CopiesFacts
<1>2. /\ Copy(b, e).box = b /\ Copy(b, e).at = Seq(b) + 1 /\ Copy(b, e).live = TRUE
      /\ Copy(b, e).gid = <<e, n + 1>>
  BY DEF Copy
<1>3. n + 1 \in 1..MaxPost /\ <<e, n + 1>> \in Locals \X (1..MaxPost)
  BY <1>1, BoundsFacts
<1>4. <<e, n + 1>> \notin {g.gid : g \in google}
  <2> SUFFICES ASSUME NEW g \in google, g.gid = <<e, n + 1>> PROVE FALSE
    OBVIOUS
  <2>1. g \in Copies(e)
    BY <1>3 DEF Copies
  <2>2. <<e, n + 1>> \in {e} \X (1..n)
    BY <1>1, <2>1
  <2> QED BY <1>1, <2>2
<1>5. <<e, n + 1>> \notin CopyGids /\ CopyGids \subseteq Locals \X (1..MaxPost)
  BY <1>4 DEF CopyGids
<1>6. IsFiniteSet(CopyGids) /\ Cardinality(CopyGids) \in Nat
  BY <1>5, CopyGidsFacts
<1>7. Cardinality(CopyGids \cup {<<e, n + 1>>}) = Cardinality(CopyGids) + 1
  BY <1>5, <1>6, FS_AddElement
<1>8. CopyGids \cup {<<e, n + 1>>} \subseteq Locals \X (1..MaxPost)
  BY <1>3, <1>5
<1>9. Cardinality(CopyGids) + 1 <= Cardinality(Locals) * MaxPost
  BY <1>7, <1>8, CopyGidsFacts
<1>10. scene.changes \in Nat /\ scene.changes <= MaxChange
  BY SceneFacts, BoundsFacts
<1>11. Seq(b) <= scene.changes + Cardinality(CopyGids)
  <2>1. CASE Seq(b) = 0
    BY <1>6, <1>10, <2>1
  <2>2. CASE \E g \in google : g.box = b /\ g.at = Seq(b)
    BY <2>2 DEF Calendars
  <2> QED BY <2>1, <2>2, SeqFacts
<1>12. Seq(b) \in Nat
  BY SeqFacts, BoundsFacts
<1>13. Seq(b) + 1 \in 1..LastSeq
  <2>1. LastSeq = MaxChange + Cardinality(Locals) * MaxPost /\ Cardinality(Locals) * MaxPost \in Nat
    BY BoundsFacts DEF LastSeq
  <2> HIDE DEF n
  <2> QED BY <1>6, <1>9, <1>10, <1>11, <1>12, <2>1, BoundsFacts
<1>14. Copy(b, e) \in EventKind
  <2>1. \A x \in Gids : [box |-> b, gid |-> x, at |-> Seq(b) + 1, live |-> TRUE, timed |-> TRUE] \in EventKind
    BY <1>13 DEF EventKind
  <2>2. <<e, n + 1>> \in Gids
    BY <1>3 DEF Gids
  <2>3. Copy(b, e) = [box |-> b, gid |-> <<e, n + 1>>, at |-> Seq(b) + 1, live |-> TRUE, timed |-> TRUE]
    BY DEF Copy
  <2> HIDE DEF n
  <2> QED BY <2>1, <2>2, <2>3
<1> HIDE DEF n
<1>15. Seq(b) + 1 <= scene.changes + Cardinality(CopyGids \cup {Copy(b, e).gid})
  BY <1>2, <1>6, <1>7, <1>10, <1>11, <1>12
<1> QED BY <1>2, <1>3, <1>4, <1>14, <1>15 DEF n

\* One POST of push_local_events is a step of that kind.
LEMMA PostWorks ==
  ASSUME TypeOK, Stages, Calendars, TokenBounds, NEW p \in Passes, Post(p)
  PROVE  \E r : Works(p, r)
<1> DEFINE me == pass[p]
<1>1. me \in PassKind /\ StageOf(me) /\ me.pc = "post" /\ me.box # None /\ me.box \in Boxes /\ me.push \subseteq Locals
  BY MeFacts DEF Post, At, StageOf, PassKind
<1>2. UNCHANGED Others /\ UNCHANGED <<acct, rows, links, removed>>
  BY DEF Post
<1>3. \/ me.push = {} /\ To(p, "mark") /\ UNCHANGED <<google, seen>>
      \/ \E e \in me.push :
           \/ /\ Cardinality(Copies(e)) < MaxPost
              /\ google' = google \cup {Copy(me.box, e)}
              /\ \/ /\ Go(p, [me EXCEPT !.pc = "linkpost", !.push = @ \ {e}, !.found = e,
                                        !.item = Copy(me.box, e)])
                    /\ UNCHANGED seen
                 \/ GiveUp(p) /\ Happens(me.box, "lost")
           \/ Go(p, [me EXCEPT !.push = @ \ {e}]) /\ UNCHANGED <<google, seen>>
  BY DEF Post
<1>4. UNCHANGED <<google, seen>> => Quiet
  BY <1>2, SameSeen, SameAccounts DEF Quiet
<1>5. ASSUME NEW S, NEW l \in {"post", "mark"}, S \subseteq me.push, l = "mark" => S = {},
             Go(p, [me EXCEPT !.pc = l, !.push = S]), UNCHANGED <<google, seen>>
      PROVE  \E r : Works(p, r)
  <2> DEFINE r == [me EXCEPT !.pc = l, !.push = S]
  <2>1. Go(p, r)
    BY <1>5
  <2>2. /\ r.pc = l /\ r.todo = me.todo /\ r.box = me.box /\ r.id = me.id
        /\ r.token = me.token /\ r.items = me.items /\ r.next = me.next /\ r.item = me.item /\ r.found = me.found
        /\ r.push = S
    BY <1>1 DEF PassKind
  <2>3. r \in PassKind
    BY <1>1, <1>5 DEF PassKind
  <2> HIDE DEF r
  <2>4. StageOf(r)
    BY <1>1, <1>5, <2>2 DEF StageOf
  <2>5. Skips(p, r)
    BY <1>1, <1>4, <1>5, <2>2 DEF Skips, SameAccount
  <2> QED BY <1>2, <2>1, <2>3, <2>4, <2>5 DEF Works, Becomes
<1>6. CASE me.push = {} /\ To(p, "mark") /\ UNCHANGED <<google, seen>>
  <2>1. [me EXCEPT !.pc = "mark"] = [me EXCEPT !.pc = "mark", !.push = {}]
    BY <1>1, <1>6 DEF PassKind
  <2>2. Go(p, [me EXCEPT !.pc = "mark", !.push = {}])
    BY <1>6, <2>1 DEF To
  <2> HIDE DEF me
  <2> QED BY <1>5, <1>6, <2>2
<1>7. ASSUME NEW e \in me.push, Go(p, [me EXCEPT !.push = @ \ {e}]), UNCHANGED <<google, seen>>
      PROVE  \E r : Works(p, r)
  <2>1. [me EXCEPT !.push = @ \ {e}] = [me EXCEPT !.pc = "post", !.push = me.push \ {e}]
    BY <1>1 DEF PassKind
  <2>2. Go(p, [me EXCEPT !.pc = "post", !.push = me.push \ {e}])
    BY <1>7, <2>1
  <2> HIDE DEF me
  <2> QED BY <1>5, <1>7, <2>2
<1>8. ASSUME NEW e \in me.push, Cardinality(Copies(e)) < MaxPost, google' = google \cup {Copy(me.box, e)},
             UNCHANGED seen,
             Go(p, [me EXCEPT !.pc = "linkpost", !.push = @ \ {e}, !.found = e, !.item = Copy(me.box, e)])
      PROVE  \E r : Works(p, r)
  <2> DEFINE r == [me EXCEPT !.pc = "linkpost", !.push = @ \ {e}, !.found = e, !.item = Copy(me.box, e)]
  <2>1. Go(p, r)
    BY <1>8
  <2>2. e \in Locals /\ e # None
    BY <1>1, CalendarAssumption
  <2>3. /\ Copy(me.box, e) \in EventKind /\ Copy(me.box, e) # None /\ Copy(me.box, e).at = Seq(me.box) + 1
        /\ Copy(me.box, e).gid \in {e} \X (1..MaxPost)
    <3> HIDE DEF r, me
    <3>1. /\ Copy(me.box, e) \in EventKind /\ Copy(me.box, e).at = Seq(me.box) + 1
          /\ Copy(me.box, e).gid = <<e, Cardinality(Copies(e)) + 1>> /\ Cardinality(Copies(e)) + 1 \in 1..MaxPost
      BY <1>1, <1>8, <2>2, CopyFacts
    <3>2. Copy(me.box, e) # None
      BY <3>1, CalendarAssumption
    <3>3. Copy(me.box, e).gid \in {e} \X (1..MaxPost)
      BY <3>1
    <3> QED BY <3>1, <3>2, <3>3
  <2>4. /\ r.pc = "linkpost" /\ r.todo = me.todo /\ r.box = me.box /\ r.id = me.id
        /\ r.token = me.token /\ r.items = me.items /\ r.next = me.next /\ r.item = Copy(me.box, e)
        /\ r.found = e /\ r.push = me.push \ {e}
    BY <1>1 DEF PassKind
  <2>5. r \in PassKind
    BY <1>1, <2>2, <2>3 DEF PassKind
  <2> HIDE DEF r
  <2>6. Seq(me.box) + 1 > me.next
    <3>1. me.next \in Int /\ Reached(me.box, me.next)
      BY <1>1, BoundsFacts DEF TokenBounds, PassKind, Tokens, Null
    <3> QED BY <1>1, <3>1, SeqFacts, ReachedSeq
  <2>7. StageOf(r)
    BY <1>1, <2>2, <2>3, <2>4, <2>6 DEF StageOf
  <2>8. Adds(p, e)
    BY <1>1, <1>2, <1>8, SameSeen DEF Adds
  <2>9. Posts(p, r)
    BY <1>1, <2>4, <2>8 DEF Posts, SameAccount
  <2> QED BY <1>2, <2>1, <2>5, <2>7, <2>9 DEF Works, Becomes
<1>9. ASSUME NEW e \in me.push, Cardinality(Copies(e)) < MaxPost, google' = google \cup {Copy(me.box, e)},
             GiveUp(p), Happens(me.box, "lost")
      PROVE  \E r : Works(p, r)
  <2>1. PICK r : Becomes(p, r) /\ LetsGo(p, r)
    BY <1>1, <1>9, GivesUp
  <2>2. SeenGrows /\ "lost" \in seen'[me.box]
    BY <1>1, <1>9, HappensGrows DEF Events
  <2>3. Adds(p, e) /\ e \in Locals
    BY <1>1, <1>2, <1>9, <2>2 DEF Adds
  <2>4. Loses(p, r)
    BY <2>1, <2>2, <2>3 DEF Loses
  <2> QED BY <1>2, <2>1, <2>4 DEF Works
<1> HIDE DEF me
<1> QED BY <1>3, <1>6, <1>7, <1>8, <1>9


\* mark_synced is a step of that kind.
LEMMA MarkWorks ==
  ASSUME TypeOK, Stages, IdsOnce, NEW p \in Passes, MarkSynced(p)
  PROVE  \E r : Works(p, r)
<1> DEFINE me == pass[p]
<1>1. me \in PassKind /\ StageOf(me) /\ me.pc = "mark" /\ me.box # None /\ me.box \in Boxes /\ me.id # Null
  BY MeFacts DEF MarkSynced, At, StageOf
<1>2. /\ UNCHANGED Others /\ UNCHANGED <<rows, links, google, removed, seen>>
      /\ Go(p, [Idle EXCEPT !.pc = "next", !.todo = me.todo])
      /\ acct' = [b \in Boxes |->
           IF acct[b].id = me.id
             THEN [acct[b] EXCEPT !.status = "connected", !.token = Coalesce(me.next, acct[b].token)]
             ELSE acct[b]]
  BY DEF MarkSynced
<1>3. \A b \in Boxes : acct[b] \in AccountKind
  BY DEF TypeOK
<1>4. \A b \in Boxes : /\ acct'[b].id = acct[b].id
                       /\ acct'[b].token = IF acct[b].id = me.id THEN Coalesce(me.next, acct[b].token) ELSE acct[b].token
                       /\ acct[b].id # me.id => acct'[b] = acct[b]
  BY <1>2, <1>3 DEF AccountKind
<1>5. SameIds
  <2>1. NoAccount.id = Null
    BY DEF NoAccount
  <2> QED BY <1>1, <1>4, <2>1 DEF SameIds
<1>6. PICK r : Becomes(p, r) /\ LetsGo(p, r)
  BY <1>2, GoesOn
<1>7. CASE me.next = Null
  <2>1. SameTokens
    BY <1>4, <1>7 DEF SameTokens, Coalesce
  <2>2. Quiet
    BY <1>2, <1>5, <2>1, SameSeen DEF Quiet
  <2> QED BY <1>1, <1>2, <1>6, <1>7, <2>2 DEF Works, Marks
<1>8. CASE me.next # Null
  <2>1. Stores(me.id, me.next)
    BY <1>2, <1>4, <1>5, <1>8 DEF Stores, Coalesce
  <2> QED BY <1>1, <1>2, <1>6, <1>8, <2>1 DEF Works, Marks
<1> QED BY <1>7, <1>8

\* mark_error is a step of that kind.
LEMMA MarkErrorWorks ==
  ASSUME TypeOK, Stages, NEW p \in Passes, MarkError(p)
  PROVE  \E r : Works(p, r)
<1> DEFINE me == pass[p]
<1>1. me \in PassKind /\ StageOf(me) /\ me.pc = "error" /\ me.box # None /\ me.id # Null
  BY MeFacts DEF MarkError, At, StageOf
<1>2. /\ UNCHANGED Others /\ UNCHANGED <<rows, links, google, removed, seen>>
      /\ Go(p, [Idle EXCEPT !.pc = "next", !.todo = me.todo])
      /\ acct' = [b \in Boxes |-> IF acct[b].id = me.id THEN [acct[b] EXCEPT !.status = "error"] ELSE acct[b]]
  BY DEF MarkError
<1>3. \A b \in Boxes : acct[b] \in AccountKind
  BY DEF TypeOK
<1>4. \A b \in Boxes : /\ acct'[b].id = acct[b].id /\ acct'[b].token = acct[b].token
                       /\ acct[b].id # me.id => acct'[b] = acct[b]
  BY <1>2, <1>3 DEF AccountKind
<1>5. SameIds /\ SameTokens
  <2>1. NoAccount.id = Null
    BY DEF NoAccount
  <2> QED BY <1>1, <1>4, <2>1 DEF SameIds, SameTokens
<1>6. PICK r : Becomes(p, r) /\ LetsGo(p, r)
  BY <1>2, GoesOn
<1>7. Quits(p, r)
  BY <1>1, <1>2, <1>5, <1>6, SameSeen DEF Quits, Quiet
<1> QED BY <1>2, <1>6, <1>7 DEF Works

\* A pass that ends in the middle has lost a link at most, and that is remembered.
LEMMA LossFacts ==
  ASSUME TypeOK, Stages, NEW p \in Passes, UNCHANGED <<Tables, removed>>,
         IF pass[p].pc \in {"link", "linkpost"} THEN Happens(pass[p].box, "lost") ELSE UNCHANGED seen
  PROVE  Quiet /\ (pass[p].pc \in {"link", "linkpost"} => "lost" \in seen'[pass[p].box])
<1>1. UNCHANGED <<acct, rows, links, google, removed>>
  BY DEF Tables
<1>2. CASE pass[p].pc \in {"link", "linkpost"}
  <2>1. pass[p].box \in Boxes
    BY <1>2, MeFacts DEF StageOf
  <2>2. SeenGrows /\ "lost" \in seen'[pass[p].box]
    BY <1>2, <2>1, HappensGrows DEF Events
  <2> QED BY <1>1, <2>2, SameAccounts DEF Quiet
<1>3. CASE pass[p].pc \notin {"link", "linkpost"}
  BY <1>1, <1>3, SameSeen, SameAccounts DEF Quiet
<1> QED BY <1>2, <1>3

\* A failure is a step of that kind.
LEMMA FailWorks ==
  ASSUME TypeOK, Stages, NEW p \in Passes, Fail(p)
  PROVE  \E r : Works(p, r)
<1>1. pass[p].box # None
  BY MeFacts DEF Fail, StageOf
<1>2. PICK r : Becomes(p, r) /\ LetsGo(p, r)
  BY <1>1, GivesUp DEF Fail
<1>3. UNCHANGED Others /\ Quiet /\ (pass[p].pc \in {"link", "linkpost"} => "lost" \in seen'[pass[p].box])
  BY LossFacts DEF Fail
<1> QED BY <1>2, <1>3 DEF Works, Quits

\* The end of a pass in the middle is a step of that kind.
LEMMA DropWorks ==
  ASSUME TypeOK, Stages, NEW p \in Passes, Drop(p)
  PROVE  \E r : Works(p, r)
<1>1. Becomes(p, Idle) /\ LetsGo(p, Idle)
  BY Stops DEF Drop
<1>2. UNCHANGED Others /\ Quiet /\ (pass[p].pc \in {"link", "linkpost"} => "lost" \in seen'[pass[p].box])
  BY LossFacts DEF Drop
<1> QED BY <1>1, <1>2 DEF Works, Quits

\* What the steps of a pass come to.
LEMMA PassWorks ==
  ASSUME Inv, NEW p \in Passes, Sync(p) \/ Fail(p) \/ Drop(p)
  PROVE  \E r : Works(p, r)
<1>1. TypeOK /\ Stages /\ Calendars /\ IdsOnce /\ Finding /\ TokenBounds
  BY DEF Inv
<1>2. CASE LoadAccounts(p)
  BY <1>1, <1>2, LoadWorks
<1>3. CASE NextAccount(p)
  BY <1>1, <1>3, NextWorks
<1>4. CASE ValidAccessToken(p)
  BY <1>1, <1>4, ValidWorks
<1>5. CASE Pull(p)
  BY <1>1, <1>5, PullWorks
<1>6. CASE FindLink(p)
  BY <1>1, <1>6, FindWorks
<1>15. CASE Expired(p)
  BY <1>1, <1>15, ExpiredWorks
<1>7. CASE Apply(p)
  BY <1>1, <1>7, ApplyWorks
<1>8. CASE InsertLink(p)
  BY <1>1, <1>8, InsertWorks
<1>9. CASE SelectLocal(p)
  BY <1>1, <1>9, SelectWorks
<1>10. CASE Post(p)
  BY <1>1, <1>10, PostWorks
<1>11. CASE MarkSynced(p)
  BY <1>1, <1>11, MarkWorks
<1>12. CASE MarkError(p)
  BY <1>1, <1>12, MarkErrorWorks
<1>13. CASE Fail(p)
  BY <1>1, <1>13, FailWorks
<1>14. CASE Drop(p)
  BY <1>1, <1>14, DropWorks
<1> QED BY <1>2, <1>3, <1>4, <1>5, <1>6, <1>7, <1>8, <1>9, <1>10, <1>11, <1>12, <1>13, <1>14, <1>15 DEF Sync

-----------------------------------------------------------------------------
(* Types.                                                                  *)

TablesOK ==
  /\ acct \in [Boxes -> AccountKind]
  /\ rows \subseteq RowKind /\ \A r1, r2 \in rows : r1.id = r2.id => r1 = r2
  /\ links \subseteq LinkKind /\ google \subseteq EventKind
  /\ faults \in 0..MaxFault /\ removed \subseteq Locals \cup RowIds /\ seen \in [Boxes -> SUBSET Events]
  /\ missed \subseteq EventKind

\* The tables are within their types.
LEMMA TablesKept == TypeOK => TablesOK
BY DEF TypeOK, TablesOK

\* Deleting rows keeps ids unique.
LEMMA RowsLess ==
  ASSUME TypeOK, rows' \subseteq rows
  PROVE  rows' \subseteq RowKind /\ \A r1, r2 \in rows' : r1.id = r2.id => r1 = r2
BY DEF TypeOK

\* So does inserting one with an id that is new.
LEMMA RowsMore ==
  ASSUME TypeOK, NEW x \in RowKind, \A r \in rows : r.id # x.id, rows' = rows \cup {x}
  PROVE  rows' \subseteq RowKind /\ \A r1, r2 \in rows' : r1.id = r2.id => r1 = r2
BY DEF TypeOK

\* A write to the row with an id changes that one.
LEMMA RowsWritten ==
  ASSUME TypeOK, NEW id, NEW at \in 0..LastSeq, rows' = Written(id, at)
  PROVE  /\ rows' \subseteq RowKind /\ \A r1, r2 \in rows' : r1.id = r2.id => r1 = r2
         /\ \A x \in rows' : \E y \in rows : /\ x.id = y.id /\ x.box = y.box /\ x.source = y.source
                                             /\ x.ver = IF y.id = id THEN at ELSE y.ver
         /\ \A y \in rows : \E x \in rows' : x.id = y.id
<1> DEFINE new(x) == IF x.id = id THEN [x EXCEPT !.ver = at] ELSE x
<1>1. rows \subseteq RowKind /\ \A r1, r2 \in rows : r1.id = r2.id => r1 = r2
  BY DEF TypeOK
<1>2. \A x \in rows : /\ new(x) \in RowKind /\ new(x).id = x.id /\ new(x).box = x.box
                      /\ new(x).source = x.source /\ new(x).ver = IF x.id = id THEN at ELSE x.ver
  BY <1>1 DEF RowKind
<1>3. rows' = {new(x) : x \in rows}
  BY DEF Written
<1> HIDE DEF new
<1>4. \A x \in rows' : \E y \in rows : x = new(y)
  BY <1>3
<1> QED BY <1>1, <1>2, <1>3, <1>4

\* No account has neither id nor token.
LEMMA NoAccountFacts == NoAccount \in AccountKind /\ NoAccount.id = Null /\ NoAccount.token = Null
<1>1. Null \in Ids /\ Null \in Tokens
  BY DEF Ids, Tokens
<1> QED BY <1>1 DEF NoAccount, AccountKind

\* Faults stay within their bound.
LEMMA FaultFacts ==
  ASSUME TypeOK, faults < scene.faults, faults' = faults + 1
  PROVE  faults' \in 0..MaxFault
BY SceneFacts, BoundsFacts DEF TypeOK

\* The account of a mailbox is of its type.
LEMMA AccountFacts ==
  ASSUME TypeOK, NEW b \in Boxes
  PROVE  /\ acct[b] \in AccountKind /\ acct[b].id \in Ids /\ acct[b].token \in Tokens
         /\ acct[b].rkey \in Ids /\ acct[b].token \in Int
<1>1. acct[b] \in AccountKind
  BY DEF TypeOK
<1> QED BY <1>1, BoundsFacts DEF AccountKind, Tokens, Null

\* The tables that what a pass writes gets into.
LEMMA PassTables ==
  ASSUME Inv, NEW p \in Passes, Sync(p) \/ Fail(p) \/ Drop(p)
  PROVE  TablesOK'
<1> DEFINE me == pass[p]
<1>0. TypeOK /\ Stages /\ Calendars /\ TablesOK /\ Finding
  BY TablesKept DEF Inv
<1>1. me \in PassKind /\ StageOf(me) /\ (me.box # None => me.box \in Boxes /\ me.id \in Ids)
  BY <1>0, MeFacts DEF Ids
<1>2. \A b \in Boxes, e \in Events : Happens(b, e) => seen' \in [Boxes -> SUBSET Events]
  BY <1>0, HappensGrows
<1> HIDE DEF me
<1>3. CASE LoadAccounts(p)
  <2>1. seen' \in [Boxes -> SUBSET Events]
    BY <1>0, <1>3 DEF LoadAccounts, TablesOK, Events
  <2> QED BY <1>0, <1>3, <2>1 DEF LoadAccounts, TablesOK, Tables
<1>4. CASE NextAccount(p)
  BY <1>0, <1>4 DEF NextAccount, TablesOK, Tables
<1>5. CASE ValidAccessToken(p)
  <2>1. acct' \in [Boxes -> AccountKind]
    <3>1. CASE UNCHANGED acct
      BY <1>0, <3>1 DEF TablesOK
    <3>2. CASE Refresh(p)
      <4>1. me.id \in Ids
        BY <1>1 DEF PassKind
      <4>2. \A a \in AccountKind : [a EXCEPT !.key = me.id] \in AccountKind
        BY <4>1 DEF AccountKind
      <4>3. acct' = [b \in Boxes |-> IF acct[b].id = me.id THEN [acct[b] EXCEPT !.key = me.id] ELSE acct[b]]
        BY <3>2 DEF Refresh, me
      <4> QED BY <1>0, <4>2, <4>3 DEF TablesOK
    <3> QED BY <1>5, <3>1, <3>2 DEF ValidAccessToken
  <2> QED BY <1>0, <1>5, <2>1 DEF ValidAccessToken, TablesOK, Others
<1>6. CASE Pull(p)
  <2>1. me.box \in Boxes
    BY <1>1, <1>6 DEF Pull, At, StageOf, me
  <2>2. seen' \in [Boxes -> SUBSET Events]
    BY <1>0, <1>2, <1>6, <2>1 DEF Pull, TablesOK, Events, me
  <2>3. missed' \subseteq EventKind
    BY <1>0, <1>6 DEF Pull, TablesOK
  <2> QED BY <1>0, <1>6, <2>2, <2>3 DEF Pull, TablesOK, Others
<1>17. CASE Expired(p)
  <2>1. \A a \in AccountKind : [a EXCEPT !.token = Null] \in AccountKind
    BY DEF AccountKind, Tokens
  <2>2. acct' = [b \in Boxes |-> IF acct[b].id = me.id THEN [acct[b] EXCEPT !.token = Null] ELSE acct[b]]
    BY <1>17 DEF Expired, me
  <2>3. acct' \in [Boxes -> AccountKind]
    BY <1>0, <2>1, <2>2 DEF TablesOK
  <2> QED BY <1>0, <1>17, <2>3 DEF Expired, TablesOK, Others
<1>7. CASE FindLink(p)
  BY <1>0, <1>7 DEF FindLink, TablesOK, Tables
<1>8. CASE Apply(p)
  <2>1. me.pc = "apply" /\ me.item \in EventKind /\ me.item.at \in 0..LastSeq /\ me.box \in Boxes
    <3>1. me.pc = "apply" /\ me.item # None /\ me.box \in Boxes
      BY <1>1, <1>8 DEF Apply, At, StageOf, me
    <3>2. me.item \in EventKind
      BY <1>1, <3>1 DEF PassKind
    <3> QED BY <3>1, <3>2, BoundsFacts DEF EventKind
  <2>2. rows' \subseteq RowKind /\ \A r1, r2 \in rows' : r1.id = r2.id => r1 = r2
    <3>1. CASE rows' = {r \in rows : r.id # me.found}
      <4>1. rows' \subseteq rows
        BY <3>1
      <4> QED BY <1>0, <4>1, RowsLess
    <3>2. CASE rows' = {IF r.id = me.found THEN [r EXCEPT !.ver = me.item.at] ELSE r : r \in rows}
      <4>1. rows' = Written(me.found, me.item.at)
        BY <3>2 DEF Written
      <4> QED BY <1>0, <2>1, <4>1, RowsWritten
    <3>3. CASE /\ RowIds \ Used # {}
               /\ rows' = rows \cup {[id |-> Fresh, box |-> me.box, source |-> "google", ver |-> me.item.at]}
      <4>1. Fresh \in RowIds \ Used
        BY <3>3 DEF Fresh
      <4>2. [id |-> Fresh, box |-> me.box, source |-> "google", ver |-> me.item.at] \in RowKind
        BY <2>1, <4>1 DEF RowKind
      <4>3. \A r \in rows : r.id # Fresh
        BY <4>1 DEF Used
      <4> QED BY <1>0, <3>3, <4>2, <4>3, RowsMore
    <3> QED BY <1>8, <3>1, <3>2, <3>3 DEF Apply, me
  <2> QED BY <1>0, <1>8, <2>2 DEF Apply, TablesOK, Others
<1>9. CASE InsertLink(p)
  <2>1. /\ me.pc \in {"link", "linkpost"} /\ me.box # None /\ me.item # None
        /\ me.found \in Locals \cup RowIds
    BY <1>1, <1>9 DEF InsertLink, StageOf, me
  <2>2. me.id \in 1..MaxAccount
    BY <1>0, <2>1, MeFacts DEF me
  <2>3. me.item \in EventKind /\ me.item.gid \in Gids
    BY <1>1, <2>1 DEF PassKind, EventKind
  <2>4. [acct |-> me.id, local |-> me.found, gid |-> me.item.gid] \in LinkKind
    BY <2>1, <2>2, <2>3 DEF LinkKind
  <2> QED BY <1>0, <1>9, <2>4 DEF InsertLink, TablesOK, Others, me
<1>10. CASE SelectLocal(p)
  BY <1>0, <1>10 DEF SelectLocal, TablesOK, Tables
<1>11. CASE Post(p)
  <2>1. me.pc = "post" /\ me.box \in Boxes /\ me.push \subseteq Locals
    BY <1>1, <1>11 DEF Post, At, StageOf, PassKind, me
  <2>2. seen' \in [Boxes -> SUBSET Events]
    BY <1>0, <1>2, <1>11, <2>1 DEF Post, TablesOK, Events, me
  <2>3. faults' \in 0..MaxFault
    BY <1>0, <1>11, FaultFacts DEF Post, TablesOK
  <2>4. google' \subseteq EventKind
    <3>1. \A e \in me.push : Cardinality(Copies(e)) < MaxPost => Copy(me.box, e) \in EventKind
      BY <1>0, <2>1, CopyFacts
    <3>2. \/ UNCHANGED google
          \/ \E e \in me.push : Cardinality(Copies(e)) < MaxPost /\ google' = google \cup {Copy(me.box, e)}
      BY <1>11 DEF Post, me
    <3> QED BY <1>0, <3>1, <3>2 DEF TablesOK
  <2> QED BY <1>0, <1>11, <2>2, <2>3, <2>4 DEF Post, TablesOK
<1>12. CASE MarkSynced(p)
  <2>1. me.next \in Tokens
    BY <1>1 DEF PassKind
  <2>2. \A a \in AccountKind : [a EXCEPT !.status = "connected", !.token = Coalesce(me.next, @)] \in AccountKind
    BY <2>1 DEF AccountKind, Coalesce
  <2>3. acct' = [b \in Boxes |->
          IF acct[b].id = me.id
            THEN [acct[b] EXCEPT !.status = "connected", !.token = Coalesce(me.next, @)] ELSE acct[b]]
    BY <1>12 DEF MarkSynced, me
  <2>4. acct' \in [Boxes -> AccountKind]
    BY <1>0, <2>2, <2>3 DEF TablesOK
  <2> QED BY <1>0, <1>12, <2>4 DEF MarkSynced, TablesOK
<1>13. CASE MarkError(p)
  <2>1. \A a \in AccountKind : [a EXCEPT !.status = "error"] \in AccountKind
    BY DEF AccountKind
  <2>2. acct' \in [Boxes -> AccountKind]
    BY <1>0, <1>13, <2>1 DEF MarkError, TablesOK
  <2> QED BY <1>0, <1>13, <2>2 DEF MarkError, TablesOK
<1>14. \A q \in Passes : pass[q].pc \in {"link", "linkpost"} => pass[q].box \in Boxes
  BY <1>0, MeFacts DEF StageOf
<1>15. CASE Fail(p)
  <2>1. seen' \in [Boxes -> SUBSET Events]
    BY <1>0, <1>2, <1>14, <1>15 DEF Fail, TablesOK, Events
  <2> QED BY <1>0, <1>15, <2>1 DEF Fail, TablesOK, Tables
<1>16. CASE Drop(p)
  <2>1. seen' \in [Boxes -> SUBSET Events]
    BY <1>0, <1>2, <1>14, <1>16 DEF Drop, TablesOK, Events
  <2>2. faults' \in 0..MaxFault
    BY <1>0, <1>16, FaultFacts DEF Drop
  <2> QED BY <1>0, <1>16, <2>1, <2>2 DEF Drop, TablesOK, Tables
<1> QED BY <1>3, <1>4, <1>5, <1>6, <1>7, <1>8, <1>9, <1>10, <1>11, <1>12, <1>13, <1>15, <1>16, <1>17 DEF Sync

\* A change at Google gets the next number.
Successor(g, h) == h.gid = g.gid /\ h.box = g.box /\ (h = g \/ (g.live /\ h.at = Seq(g.box) + 1))
NewEvent(h) == h.at = Seq(h.box) + 1 /\ \A g \in google : g.gid # h.gid

GoogleMoves ==
  /\ google' \subseteq EventKind
  /\ \A g \in google : \E h \in google' : Successor(g, h)
  /\ \A h \in google' : NewEvent(h) \/ \E g \in google : Successor(g, h)

\* A new event at Google is a move of the calendars.
LEMMA GoogleGrows ==
  ASSUME TypeOK, NEW h \in EventKind, NewEvent(h), google' = google \cup {h}
  PROVE  GoogleMoves
BY DEF TypeOK, GoogleMoves, Successor

\* The event a user creates at Google is new, and one of theirs.
LEMMA CreatedFacts ==
  ASSUME TypeOK, NEW b \in Boxes, NEW i \in Theirs, GoogleCreates(b, i)
  PROVE  \E h \in EventKind : /\ h.box = b /\ h.gid = i /\ NewEvent(h) /\ h.at <= scene.changes
                              /\ google' = google \cup {h}
<1>1. Seq(b) \in Nat /\ Seq(b) < scene.changes /\ scene.changes <= LastSeq /\ scene.changes \in Nat
  BY SeqFacts, SceneFacts, BoundsFacts DEF GoogleCreates
<1>2. Seq(b) + 1 \in 1..LastSeq
  BY <1>1, BoundsFacts
<1>3. i \in Gids
  BY DEF Gids
<1>4. PICK timed \in BOOLEAN :
        google' = google \cup {[box |-> b, gid |-> i, at |-> Seq(b) + 1, live |-> TRUE, timed |-> timed]}
  BY DEF GoogleCreates, Timed
<1> DEFINE h == [box |-> b, gid |-> i, at |-> Seq(b) + 1, live |-> TRUE, timed |-> timed]
<1>5. h \in EventKind
  BY <1>2, <1>3 DEF EventKind
<1>6. h.box = b /\ h.gid = i /\ h.at = Seq(b) + 1
  OBVIOUS
<1>7. google' = google \cup {h} /\ \A g \in google : g.gid # i
  BY <1>4 DEF GoogleCreates
<1> HIDE DEF h
<1> QED BY <1>1, <1>5, <1>6, <1>7 DEF NewEvent

\* The event a user changes at Google keeps its id and gets the next number.
LEMMA ChangedFacts ==
  ASSUME TypeOK, NEW g \in google, GoogleChanges(g)
  PROVE  \E h \in EventKind : /\ h.gid = g.gid /\ h.box = g.box /\ h.at = Seq(g.box) + 1 /\ h.at <= scene.changes
                              /\ g.live /\ google' = (google \ {g}) \cup {h}
<1>1. PICK live \in BOOLEAN, timed \in BOOLEAN :
        google' = (google \ {g}) \cup {[g EXCEPT !.at = Seq(g.box) + 1, !.live = live, !.timed = timed]}
  BY DEF GoogleChanges, Timed
<1> DEFINE h == [g EXCEPT !.at = Seq(g.box) + 1, !.live = live, !.timed = timed]
<1>2. g \in EventKind /\ g.box \in Boxes
  BY DEF TypeOK, EventKind
<1>3. Seq(g.box) \in Nat /\ Seq(g.box) < scene.changes /\ scene.changes <= LastSeq /\ scene.changes \in Nat
  BY <1>2, SeqFacts, SceneFacts, BoundsFacts DEF GoogleChanges
<1>4. Seq(g.box) + 1 \in 1..LastSeq
  BY <1>3, BoundsFacts
<1>5. h \in EventKind /\ h.gid = g.gid /\ h.box = g.box /\ h.at = Seq(g.box) + 1
  BY <1>2, <1>4 DEF EventKind
<1>6. g.live
  BY DEF GoogleChanges
<1> HIDE DEF h
<1>7. h.at <= scene.changes
  BY <1>3, <1>5
<1>8. google' = (google \ {g}) \cup {h}
  BY <1>1 DEF h
<1> QED BY <1>5, <1>6, <1>7, <1>8

\* A change at Google is a move of the calendars.
LEMMA ChangesMove ==
  ASSUME TypeOK, NEW g \in google, GoogleChanges(g)
  PROVE  GoogleMoves
<1>1. PICK h \in EventKind : /\ h.gid = g.gid /\ h.box = g.box /\ h.at = Seq(g.box) + 1
                             /\ g.live /\ google' = (google \ {g}) \cup {h}
  BY ChangedFacts
<1>2. Successor(g, h) /\ \A x \in google : Successor(x, x)
  BY <1>1 DEF Successor
<1> QED BY <1>1, <1>2 DEF TypeOK, GoogleMoves

\* The owner's words replace what a row shows.
LEMMA UpdatedFacts ==
  ASSUME TypeOK, NEW r \in rows, Update(r)
  PROVE  /\ rows' \subseteq RowKind /\ \A r1, r2 \in rows' : r1.id = r2.id => r1 = r2
         /\ \A x \in rows' : \E y \in rows : /\ x.id = y.id /\ x.box = y.box /\ x.source = y.source
                                             /\ x.ver = Mine \/ x.ver = y.ver
         /\ \A y \in rows : \E x \in rows' : x.id = y.id
<1> DEFINE n == [r EXCEPT !.ver = Mine]
<1>1. rows \subseteq RowKind /\ \A r1, r2 \in rows : r1.id = r2.id => r1 = r2
  BY DEF TypeOK
<1>2. n \in RowKind /\ n.id = r.id /\ n.box = r.box /\ n.source = r.source /\ n.ver = Mine
  BY <1>1, BoundsFacts DEF RowKind, Mine
<1>3. rows' = (rows \ {r}) \cup {n}
  BY DEF Update
<1> HIDE DEF n
<1>4. \A y \in rows : \E x \in rows' : x.id = y.id
  BY <1>2, <1>3
<1> QED BY <1>1, <1>2, <1>3, <1>4

\* What the users do keeps the types.
LEMMA UserTypes ==
  ASSUME Inv, Users
  PROVE  TypeOK'
<1>0. TypeOK /\ Finding
  BY DEF Inv
<1>1. UNCHANGED <<scene, pass>> => scene' \in Scenes /\ pass' \in [Passes -> PassKind]
                                /\ \A p \in Passes : pass'[p].box = None <=> pass'[p].pc \in {"idle", "next"}
  BY <1>0 DEF TypeOK
<1>2. \A b \in Boxes : acct[b] \in AccountKind /\ callback[b] \in ConsentKind \cup {None}
  BY <1>0 DEF TypeOK
<1>3. ASSUME NEW b \in Boxes, Exchange(b) PROVE TypeOK'
  <2>1. nextId' \in 1..MaxAccount
    BY <1>0, <1>3, SceneFacts, BoundsFacts DEF Exchange, TypeOK
  <2>2. acct[b].rkey \in Ids /\ nextId' \in Ids
    BY <1>2, <2>1 DEF AccountKind, Ids
  <2>3. [id |-> nextId', rkey |-> nextId'] \in ConsentKind /\ [id |-> nextId', rkey |-> acct[b].rkey] \in ConsentKind
    BY <2>1, <2>2 DEF ConsentKind
  <2>4. \/ callback' = [callback EXCEPT ![b] = [id |-> nextId', rkey |-> nextId']]
        \/ callback' = [callback EXCEPT ![b] = [id |-> nextId', rkey |-> acct[b].rkey]]
    BY <1>3 DEF Exchange
  <2>5. callback' \in [Boxes -> ConsentKind \cup {None}]
    <3>1. callback \in [Boxes -> ConsentKind \cup {None}]
      BY <1>0 DEF TypeOK
    <3>2. CASE callback' = [callback EXCEPT ![b] = [id |-> nextId', rkey |-> nextId']]
      BY <2>3, <3>1, <3>2
    <3>3. CASE callback' = [callback EXCEPT ![b] = [id |-> nextId', rkey |-> acct[b].rkey]]
      BY <2>3, <3>1, <3>3
    <3> QED BY <2>4, <3>2, <3>3
  <2>6. nextId' \in 0..MaxAccount
    BY <2>1, BoundsFacts
  <2> QED BY <1>0, <1>3, <2>5, <2>6 DEF Exchange, TypeOK, Tables
<1>4. ASSUME NEW b \in Boxes, UpsertAccount(b) PROVE TypeOK'
  <2> DEFINE c == callback[b]
             row == IF acct[b] = NoAccount THEN [acct[b] EXCEPT !.id = c.id] ELSE acct[b]
             new == [row EXCEPT !.status = "connected", !.key = c.id, !.rkey = c.rkey]
  <2>1. acct' = [acct EXCEPT ![b] = new]
    BY <1>4 DEF UpsertAccount
  <2>2. c \in ConsentKind
    BY <1>2, <1>4 DEF UpsertAccount
  <2>3. c.id \in Ids /\ c.rkey \in Ids
    BY <2>2 DEF ConsentKind, Ids
  <2> HIDE DEF c
  <2>4. row \in AccountKind
    BY <1>2, <2>3 DEF AccountKind
  <2> HIDE DEF row
  <2>5. new \in AccountKind
    BY <2>3, <2>4 DEF AccountKind
  <2> HIDE DEF new
  <2> QED BY <1>0, <1>4, <2>1, <2>5 DEF UpsertAccount, TypeOK
<1>5. ASSUME NEW b \in Boxes, DeleteImported(b) PROVE TypeOK'
  <2>1. rows' \subseteq rows /\ leaving' \subseteq Boxes
    BY <1>0, <1>5 DEF DeleteImported, TypeOK
  <2>2. rows' \subseteq RowKind /\ \A r1, r2 \in rows' : r1.id = r2.id => r1 = r2
    BY <1>0, <2>1, RowsLess
  <2>3. seen' \in [Boxes -> SUBSET Events]
    BY <1>0, <1>5 DEF DeleteImported, TypeOK, Events
  <2> QED BY <1>0, <1>5, <2>1, <2>2, <2>3 DEF DeleteImported, TypeOK
<1>6. ASSUME NEW b \in Boxes, DeleteAccount(b) PROVE TypeOK'
  <2>1. acct' \in [Boxes -> AccountKind] /\ leaving' \subseteq Boxes
    BY <1>0, <1>6, NoAccountFacts DEF DeleteAccount, TypeOK
  <2>2. seen' \in [Boxes -> SUBSET Events]
    BY <1>0, <1>6 DEF DeleteAccount, TypeOK, Events
  <2> QED BY <1>0, <1>6, <2>1, <2>2 DEF DeleteAccount, TypeOK
<1>7. ASSUME NEW b \in Boxes, StopLeaving(b) PROVE TypeOK'
  <2>1. faults' \in 0..MaxFault
    BY <1>0, <1>7, FaultFacts DEF StopLeaving
  <2>2. leaving' \subseteq Boxes
    BY <1>0, <1>7 DEF StopLeaving, TypeOK
  <2> QED BY <1>0, <1>7, <2>1, <2>2 DEF StopLeaving, TypeOK, Tables
<1>8. ASSUME NEW b \in Boxes, NEW e \in Locals, Create(b, e) PROVE TypeOK'
  <2> DEFINE x == [id |-> e, box |-> b, source |-> "local", ver |-> Mine]
  <2>1. x \in RowKind /\ \A r \in rows : r.id # x.id
    BY <1>8, BoundsFacts DEF Create, RowKind, Mine
  <2>2. rows' = rows \cup {x}
    BY <1>8 DEF Create
  <2> HIDE DEF x
  <2>3. rows' \subseteq RowKind /\ \A r1, r2 \in rows' : r1.id = r2.id => r1 = r2
    BY <1>0, <2>1, <2>2, RowsMore
  <2> QED BY <1>0, <1>8, <2>3 DEF Create, TypeOK, Others
<1>9. ASSUME NEW b \in Boxes, NEW i \in Theirs, GoogleCreates(b, i) PROVE TypeOK'
  <2>1. google' \subseteq EventKind
    <3>1. google \subseteq EventKind
      BY <1>0 DEF TypeOK
    <3> QED BY <1>0, <1>9, <3>1, CreatedFacts
  <2> QED BY <1>0, <1>9, <2>1 DEF GoogleCreates, TypeOK, Others
<1>10. ASSUME NEW r \in rows, Update(r) PROVE TypeOK'
  <2>1. rows' \subseteq RowKind /\ \A r1, r2 \in rows' : r1.id = r2.id => r1 = r2
    BY <1>0, <1>10, UpdatedFacts
  <2> QED BY <1>0, <1>10, <2>1 DEF Update, TypeOK, Others
<1>11. ASSUME NEW r \in rows, Remove(r) PROVE TypeOK'
  <2>1. rows' \subseteq rows /\ r.id \in Locals \cup RowIds
    BY <1>0, <1>11 DEF Remove, TypeOK, RowKind
  <2>2. rows' \subseteq RowKind /\ \A r1, r2 \in rows' : r1.id = r2.id => r1 = r2
    BY <1>0, <2>1, RowsLess
  <2> QED BY <1>0, <1>11, <2>1, <2>2 DEF Remove, TypeOK, Others
<1>12. ASSUME NEW g \in google, GoogleChanges(g) PROVE TypeOK'
  <2>1. google' \subseteq EventKind
    BY <1>0, <1>12, ChangesMove DEF GoogleMoves
  <2> QED BY <1>0, <1>12, <2>1 DEF GoogleChanges, TypeOK, Others
<1>13. scene.boxes \subseteq Boxes /\ scene.locals \subseteq Locals /\ scene.theirs \subseteq Theirs
  BY <1>0, SceneFacts
<1> QED BY <1>3, <1>4, <1>5, <1>6, <1>7, <1>8, <1>9, <1>10, <1>11, <1>12, <1>13 DEF Users

-----------------------------------------------------------------------------
(* What every step of a pass has in common.                                *)

\* A step of one pass leaves the others alone.
LEMMA PassFacts ==
  ASSUME TypeOK, NEW p \in Passes, NEW r, Becomes(p, r)
  PROVE  /\ r \in PassKind /\ StageOf(r) /\ pass'[p] = r
         /\ \A q \in Passes : q # p => pass'[q] = pass[q]
         /\ pass' \in [Passes -> PassKind]
BY DEF TypeOK, Becomes, Go

\* Every step keeps the types, and the stages of the passes.
LEMMA TypesStep ==
  ASSUME Inv, [Next]_vars
  PROVE  TypeOK' /\ Stages'
<1>1. TypeOK /\ Stages
  BY DEF Inv
<1>2. ASSUME NEW p \in Passes, Sync(p) \/ Fail(p) \/ Drop(p) PROVE TypeOK' /\ Stages'
  <2>1. PICK r : Works(p, r)
    BY <1>2, PassWorks
  <2>2. /\ StageOf(r) /\ pass'[p] = r /\ (\A q \in Passes : q # p => pass'[q] = pass[q])
        /\ pass' \in [Passes -> PassKind]
    BY <1>1, <2>1, PassFacts DEF Works
  <2>3. TablesOK' /\ UNCHANGED Others
    BY <1>2, <2>1, PassTables DEF Works
  <2>4. Stages'
    BY <1>1, <2>2 DEF Stages
  <2>5. \A q \in Passes : pass'[q].box = None <=> pass'[q].pc \in {"idle", "next"}
    BY <2>4 DEF Stages, StageOf
  <2> QED BY <1>1, <2>2, <2>3, <2>4, <2>5 DEF TablesOK, TypeOK, Others
<1>3. CASE Users
  <2>1. UNCHANGED pass
    BY <1>3 DEF Users, Exchange, UpsertAccount, DeleteImported, DeleteAccount, StopLeaving, Create,
                GoogleCreates, Update, Remove, GoogleChanges
  <2> QED BY <1>1, <1>3, <2>1, UserTypes DEF Stages
<1>4. CASE UNCHANGED vars
  BY <1>1, <1>4 DEF vars, TypeOK, Stages
<1>5. scene.passes \subseteq Passes
  BY <1>1, SceneFacts
<1> QED BY <1>2, <1>3, <1>4, <1>5 DEF Next

\* The account a pass is at is its mailbox's, or none's any more.
LEMMA HandFacts ==
  ASSUME Inv, NEW p \in Passes, pass[p].box # None
  PROVE  /\ pass[p].box \in Boxes /\ pass[p].id \in 1..MaxAccount /\ pass[p].id <= nextId
         /\ Knows(p, pass[p].box, pass[p].id) /\ Owns(pass[p].box, pass[p].id)
         /\ \A b \in Boxes : Owns(b, pass[p].id) => b = pass[p].box
         /\ \A b \in Boxes : acct[b].id = pass[p].id => b = pass[p].box
<1>1. TypeOK /\ Stages /\ IdsOnce
  BY DEF Inv
<1>2. pass[p].box \in Boxes /\ pass[p].id \in 1..MaxAccount
  BY <1>1, MeFacts
<1>3. Knows(p, pass[p].box, pass[p].id) /\ Owns(pass[p].box, pass[p].id)
  BY DEF Knows, KnowsOf, Owns
<1>4. \A b \in Boxes : Owns(b, pass[p].id) => b = pass[p].box
  BY <1>1, <1>2, <1>3 DEF IdsOnce
<1> QED BY <1>1, <1>2, <1>3, <1>4 DEF IdsOnce, Owns

\* So two passes with one account are one, where none raced.
LEMMA SameHand ==
  ASSUME Inv, NEW p \in Passes, NEW q \in Passes, pass[p].box # None, pass[p].box = pass[q].box, Alone(pass[p].box)
  PROVE  p = q
BY HandFacts DEF Inv, OneHand

\* An event in hand is the one there is with its id, or an older version of it.
LEMMA ItemFacts ==
  ASSUME Inv, NEW p \in Passes, NEW i \in EventKind, Held(pass[p], i), NEW g \in google, g.gid = i.gid
  PROVE  g.box = pass[p].box /\ (g = i \/ (i.live /\ g.at > i.at /\ g.at > pass[p].next))
BY DEF Inv, Listing, GenuineOf, Genuine, Calendars

\* What a step of a pass may change, and by which of its kinds.
LEMMA PassShape ==
  ASSUME NEW p \in Passes, NEW r, Works(p, r)
  PROVE  /\ SameIds /\ SeenGrows /\ UNCHANGED removed /\ UNCHANGED Others
         /\ UNCHANGED links \/ Binds(p, r)
         /\ UNCHANGED rows \/ Deletes(p, r) \/ Updates(p, r) \/ Imports(p, r)
         /\ UNCHANGED google \/ Posts(p, r) \/ Loses(p, r)
         /\ SameTokens \/ Forgets(p, r) \/ (Marks(p, r) /\ Stores(pass[p].id, pass[p].next))
BY SameSeen, SameAccounts DEF Works, Quiet, Loads, Quits, Takes, Reads, Lists, Stores, Forgets, Finds, Writes, Deletes,
   Updates, Imports, Binds, Selects, Skips, Adds, Posts, Loses, Marks

\* A pass gets accounts from load_accounts alone, and works on those.
LEMMA PassAccount ==
  ASSUME TypeOK, Stages, IdsOnce, NEW p \in Passes, NEW r, Works(p, r)
  PROVE  /\ \A a \in r.todo : a \in pass[p].todo \/ (Loads(p, r) /\ Connected(a.box) /\ a.id = acct[a.box].id)
         /\ r.box = None \/ (r.box = pass[p].box /\ r.id = pass[p].id)
                         \/ (Takes(p, r) /\ \E a \in pass[p].todo : r.box = a.box /\ r.id = a.id)
<1>1. StageOf(r)
  BY DEF Works, Becomes
<1>2. CASE Loads(p, r)
  BY <1>1, <1>2, SnapshotsFacts DEF Loads, StageOf
<1> QED BY <1>1, <1>2 DEF Works, SameAccount, Quits, LetsGo, Takes, Reads, Lists, Forgets, Finds, Writes, Deletes,
   Updates, Imports, Binds, Selects, Skips, Posts, Loses, Marks

\* A pass gets the token it will store from its listing alone.
LEMMA PassNext ==
  ASSUME NEW p \in Passes, NEW r, Works(p, r)
  PROVE  \/ r.next = Null
         \/ r.next = pass[p].next /\ SameAccount(r, pass[p])
         \/ Lists(p, r)
<1>1. StageOf(r)
  BY DEF Works, Becomes
<1>2. r.pc \in {"idle", "next", "error", "auth", "list"} => r.next = Null
  BY <1>1 DEF StageOf
<1> QED BY <1>2 DEF Works, SameAccount, Loads, Quits, LetsGo, Takes, Reads, Lists, Forgets, Finds, Writes, Deletes,
   Updates, Imports, Binds, Selects, Skips, Posts, Loses, Marks

\* A pass gets events from a listing, or the answer to a POST.
LEMMA PassHeld ==
  ASSUME Stages, NEW p \in Passes, NEW r, Works(p, r), NEW i \in EventKind, Held(r, i)
  PROVE  \/ Held(pass[p], i) /\ r.next = pass[p].next /\ SameAccount(r, pass[p])
         \/ Lists(p, r) /\ i \in r.items
         \/ Posts(p, r) /\ i = r.item
<1>1. StageOf(r) /\ StageOf(pass[p])
  BY DEF Works, Becomes, Stages
<1>2. None \notin EventKind
  BY CalendarAssumption
<1>3. r.pc \in {"items", "apply", "link", "linkpost"}
  BY <1>1, <1>2 DEF StageOf, Held
<1>4. r.pc = "items" => r.item = None
  BY <1>1 DEF StageOf
<1>5. r.pc = "linkpost" => r.items = {}
  BY <1>1 DEF StageOf
<1> QED BY <1>1, <1>2, <1>3, <1>4, <1>5 DEF Works, Held, SameAccount, Loads, Quits, LetsGo, Takes, Reads, Lists, Forgets, Finds, Writes, Deletes,
   Updates, Imports, Binds, Selects, Skips, Posts, Loses, Marks, StageOf

\* What it will store, it has from its listing.
LEMMA PassStores ==
  ASSUME Stages, NEW p \in Passes, NEW r, Works(p, r), NEW i \in EventKind, ToStore(r, i)
  PROVE  \/ ToStore(pass[p], i) /\ r.next = pass[p].next /\ SameAccount(r, pass[p])
         \/ Lists(p, r) /\ i \in r.items
<1>1. StageOf(r) /\ StageOf(pass[p])
  BY DEF Works, Becomes, Stages
<1>2. r.pc \in {"items", "apply", "link"}
  BY <1>1 DEF StageOf, ToStore
<1>3. r.pc = "items" => r.item = None
  BY <1>1 DEF StageOf
<1> QED BY <1>1, <1>2, <1>3 DEF Works, ToStore, SameAccount, Loads, Quits, LetsGo, Takes, Reads, Lists, Forgets, Finds, Writes, Deletes,
   Updates, Imports, Binds, Selects, Skips, Posts, Loses, Marks, StageOf

\* What it will post, it has from its SELECT.
LEMMA PassPushes ==
  ASSUME Stages, NEW p \in Passes, NEW r, Works(p, r), NEW e \in Locals, Pushes(r, e)
  PROVE  \/ Pushes(pass[p], e) /\ SameAccount(r, pass[p])
         \/ Selects(p, r) /\ e \in r.push
<1>1. StageOf(r) /\ StageOf(pass[p])
  BY DEF Works, Becomes, Stages
<1>2. r.pc \in {"post", "linkpost"}
  BY <1>1 DEF StageOf, Pushes
<1>3. r.pc = "post" => e \in r.push
  BY DEF Pushes
<1> QED BY <1>1, <1>2, <1>3 DEF Works, Pushes, SameAccount, Loads, Quits, LetsGo, Takes, Reads, Lists, Forgets, Finds, Writes, Deletes,
   Updates, Imports, Binds, Selects, Skips, Adds, Posts, Loses, Marks, StageOf

\* It will make a link for what it did not find, imported or posted.
LEMMA PassLinks ==
  ASSUME TypeOK, Stages, NEW p \in Passes, NEW r, Works(p, r), NewLink(r)
  PROVE  \/ NewLink(pass[p]) /\ r.item = pass[p].item /\ Imports(p, r)
         \/ Finds(p, r) /\ r.item \in pass[p].items /\ LinksOf(r.id, r.item.gid) = {}
         \/ Posts(p, r)
<1>1. StageOf(r) /\ StageOf(pass[p])
  BY DEF Works, Becomes, Stages
<1>2. r.pc \in {"apply", "link", "linkpost"}
  BY <1>1 DEF StageOf, NewLink
<1>3. r.pc = "apply" => r.found = None
  BY DEF NewLink
<1>4. CASE Finds(p, r)
  <2>1. \A l \in links : l.local # None
    BY CalendarAssumption DEF TypeOK, LinkKind
  <2> QED BY <1>2, <1>3, <1>4, <2>1 DEF Finds, SameAccount
<1> QED BY <1>1, <1>2, <1>3, <1>4 DEF Works, NewLink, SameAccount, Loads, Quits, LetsGo, Takes, Reads, Lists, Forgets, Writes, Deletes,
   Updates, Imports, Binds, Selects, Skips, Posts, Loses, Marks, StageOf

-----------------------------------------------------------------------------
(* What every step of a user has in common.                                *)

\* What a step of a user may change, and by which action.
LEMMA UserShape ==
  ASSUME Inv, Users
  PROVE  /\ UNCHANGED <<scene, pass, links, missed>>
         /\ \A b \in Boxes : seen[b] \subseteq seen'[b] \cup {"cut"}
         /\ UNCHANGED acct \/ \E b \in Boxes : UpsertAccount(b) \/ DeleteAccount(b)
         /\ \/ UNCHANGED rows \/ (\E b \in Boxes : DeleteImported(b) \/ \E e \in Locals : Create(b, e))
            \/ \E x \in rows : Update(x) \/ Remove(x)
         /\ UNCHANGED removed \/ \E x \in rows : Remove(x)
         /\ UNCHANGED <<callback, nextId>> \/ \E b \in Boxes : Exchange(b) \/ UpsertAccount(b)
         /\ UNCHANGED google \/ (\E b \in Boxes, i \in Theirs : GoogleCreates(b, i)) \/ \E g \in google : GoogleChanges(g)
         /\ UNCHANGED leaving \/ \E b \in Boxes : DeleteImported(b) \/ DeleteAccount(b) \/ StopLeaving(b)
         /\ UNCHANGED seen \/ \E b \in Boxes : DeleteImported(b) \/ DeleteAccount(b)
<1>1. seen \in [Boxes -> SUBSET Events]
  BY DEF Inv, TypeOK
<1>2. /\ UNCHANGED <<scene, pass, links, missed>>
      /\ UNCHANGED seen \/ \E b \in Boxes : DeleteImported(b) \/ DeleteAccount(b)
  BY SceneFacts DEF Inv, Users, Exchange, UpsertAccount, DeleteImported, DeleteAccount, StopLeaving, Create,
                GoogleCreates, Update, Remove, GoogleChanges, Tables, Others
<1>3. \A b \in Boxes : seen[b] \subseteq seen'[b] \cup {"cut"}
  BY <1>1, <1>2 DEF DeleteImported, DeleteAccount
<1>4. /\ UNCHANGED acct \/ \E b \in Boxes : UpsertAccount(b) \/ DeleteAccount(b)
      /\ UNCHANGED <<callback, nextId>> \/ \E b \in Boxes : Exchange(b) \/ UpsertAccount(b)
      /\ UNCHANGED leaving \/ \E b \in Boxes : DeleteImported(b) \/ DeleteAccount(b) \/ StopLeaving(b)
  BY SceneFacts DEF Inv, Users, Exchange, UpsertAccount, DeleteImported, DeleteAccount, StopLeaving, Create,
                GoogleCreates, Update, Remove, GoogleChanges, Tables, Others
<1>5. /\ \/ UNCHANGED rows \/ (\E b \in Boxes : DeleteImported(b) \/ \E e \in Locals : Create(b, e))
         \/ \E x \in rows : Update(x) \/ Remove(x)
      /\ UNCHANGED removed \/ \E x \in rows : Remove(x)
      /\ UNCHANGED google \/ (\E b \in Boxes, i \in Theirs : GoogleCreates(b, i)) \/ \E g \in google : GoogleChanges(g)
  BY SceneFacts DEF Inv, Users, Exchange, UpsertAccount, DeleteImported, DeleteAccount, StopLeaving, Create,
                GoogleCreates, Update, Remove, GoogleChanges, Tables, Others
<1> QED BY <1>2, <1>3, <1>4, <1>5

\* The copy a POST makes is a new event of the calendar of its pass.
LEMMA AddsFacts ==
  ASSUME Inv, NEW p \in Passes, NEW e, Adds(p, e)
  PROVE  LET h == Copy(pass[p].box, e) IN
         /\ e \in Locals /\ pass[p].box \in Boxes
         /\ h \in EventKind /\ h.box = pass[p].box /\ h.live /\ NewEvent(h)
         /\ h.gid = <<e, Cardinality(Copies(e)) + 1>> /\ Cardinality(Copies(e)) + 1 \in 1..MaxPost
         /\ h.at <= scene.changes + Cardinality(CopyGids \cup {h.gid})
         /\ google' = google \cup {h}
<1>1. TypeOK /\ Stages /\ Calendars
  BY DEF Inv
<1>2. pass[p].pc = "post" /\ e \in pass[p].push /\ Cardinality(Copies(e)) < MaxPost
      /\ google' = google \cup {Copy(pass[p].box, e)}
  BY DEF Adds
<1>3. e \in Locals /\ pass[p].box \in Boxes
  BY <1>1, <1>2, MeFacts DEF PassKind, StageOf
<1> DEFINE h == Copy(pass[p].box, e)
<1>4. /\ h.box = pass[p].box /\ h.at = Seq(pass[p].box) + 1 /\ h.live /\ h \in EventKind
      /\ h.gid = <<e, Cardinality(Copies(e)) + 1>> /\ Cardinality(Copies(e)) + 1 \in 1..MaxPost
      /\ h.gid \notin {g.gid : g \in google}
      /\ Seq(pass[p].box) + 1 <= scene.changes + Cardinality(CopyGids \cup {h.gid})
  BY <1>1, <1>2, <1>3, CopyFacts
<1>5. google' = google \cup {h}
  BY <1>2
<1> HIDE DEF h
<1>6. NewEvent(h)
  BY <1>4 DEF NewEvent
<1>7. h.at <= scene.changes + Cardinality(CopyGids \cup {h.gid})
  BY <1>4
<1> QED BY <1>3, <1>4, <1>5, <1>6, <1>7 DEF h

\* A pass changes a calendar at Google by a POST alone.
LEMMA PassGoogle ==
  ASSUME Inv, NEW p \in Passes, NEW r, Works(p, r)
  PROVE  UNCHANGED google \/ \E e \in Locals : Adds(p, e)
BY PassShape, AddsFacts DEF Posts, Loses

\* Every step is a move of the calendars at Google, or leaves them.
LEMMA GoogleStep ==
  ASSUME Inv, Users \/ \E p \in Passes : \E r : Works(p, r)
  PROVE  GoogleMoves
<1>1. TypeOK
  BY DEF Inv
<1>2. CASE UNCHANGED google
  BY <1>1, <1>2 DEF TypeOK, GoogleMoves, Successor
<1>3. ASSUME NEW p \in Passes, NEW e \in Locals, Adds(p, e) PROVE GoogleMoves
  BY <1>1, <1>3, AddsFacts, GoogleGrows
<1>4. ASSUME NEW b \in Boxes, NEW i \in Theirs, GoogleCreates(b, i) PROVE GoogleMoves
  BY <1>1, <1>4, CreatedFacts, GoogleGrows
<1>5. ASSUME NEW g \in google, GoogleChanges(g) PROVE GoogleMoves
  BY <1>1, <1>5, ChangesMove
<1> QED BY <1>2, <1>3, <1>4, <1>5, PassGoogle, UserShape

-----------------------------------------------------------------------------
(* The calendars at Google.                                                *)

\* A product with one element more.
LEMMA PairsMore ==
  ASSUME NEW e, NEW S, NEW k
  PROVE  {e} \X (S \cup {k}) = ({e} \X S) \cup {<<e, k>>}
<1>1. ASSUME NEW x \in {e} \X (S \cup {k}) PROVE x \in ({e} \X S) \cup {<<e, k>>}
  <2>1. x = <<x[1], x[2]>> /\ x[1] = e /\ x[2] \in S \cup {k}
    OBVIOUS
  <2>2. x[2] \in S => <<e, x[2]>> \in {e} \X S
    OBVIOUS
  <2> QED BY <2>1, <2>2
<1>2. <<e, k>> \in {e} \X (S \cup {k}) /\ {e} \X S \subseteq {e} \X (S \cup {k})
  OBVIOUS
<1> QED BY <1>1, <1>2

\* A new event keeps ids unique, copies numbered and changes counted.
LEMMA CalendarsAdd ==
  ASSUME Inv, UNCHANGED scene, NEW h \in EventKind, NewEvent(h), google' = google \cup {h},
         \/ h.gid \in Theirs /\ h.at <= scene.changes
         \/ \E e \in Locals : /\ h.gid = <<e, Cardinality(Copies(e)) + 1>> /\ Cardinality(Copies(e)) + 1 \in 1..MaxPost
                              /\ h.at <= scene.changes + Cardinality(CopyGids \cup {h.gid})
  PROVE  Calendars'
<1>1. TypeOK /\ Calendars
  BY DEF Inv
<1>2. (\A g1, g2 \in google : g1.gid = g2.gid => g1 = g2)'
  BY <1>1 DEF Calendars, NewEvent
<1>3. Theirs \cap (Locals \X (1..MaxPost)) = {}
  BY CalendarAssumption
<1>4. CopyGids \subseteq Locals \X (1..MaxPost)
  BY DEF CopyGids
<1>5. \A g \in google : g.at \in Nat /\ g.at <= scene.changes + Cardinality(CopyGids)
  BY <1>1 DEF Calendars, TypeOK, EventKind
<1>6. scene.changes \in Nat /\ h.at \in Nat
  BY <1>1, SceneFacts, BoundsFacts DEF EventKind
<1>7. IsFiniteSet(CopyGids) /\ Cardinality(CopyGids) \in Nat
  BY <1>4, CopyGidsFacts
<1>8. CASE h.gid \in Theirs /\ h.at <= scene.changes
  <2>1. CopyGids' = CopyGids
    BY <1>3, <1>8 DEF CopyGids
  <2>2. \A e \in Locals : Copies(e)' = Copies(e)
    BY <1>3, <1>8 DEF Copies
  <2>3. (\A g \in google : g.at <= scene.changes + Cardinality(CopyGids))'
    BY <1>5, <1>6, <1>7, <1>8, <2>1
  <2>4. (\A e \in Locals : \E n \in 0..MaxPost : {g.gid : g \in Copies(e)} = {e} \X (1..n))'
    BY <1>1, <2>2 DEF Calendars
  <2> QED BY <1>2, <2>3, <2>4 DEF Calendars
<1>9. ASSUME NEW e \in Locals, h.gid = <<e, Cardinality(Copies(e)) + 1>>, Cardinality(Copies(e)) + 1 \in 1..MaxPost,
             h.at <= scene.changes + Cardinality(CopyGids \cup {h.gid})
      PROVE Calendars'
  <2> DEFINE n == Cardinality(Copies(e))
  <2>0. n \in 0..MaxPost /\ {g.gid : g \in Copies(e)} = {e} \X (1..n)
    BY <1>1, CopiesFacts
  <2>1. h.gid = <<e, n + 1>> /\ n + 1 \in 1..MaxPost
    BY <1>9
  <2> HIDE DEF n
  <2>2. h.gid \in Locals \X (1..MaxPost)
    BY <2>1
  <2>3. CopyGids' = CopyGids \cup {h.gid}
    BY <2>2 DEF CopyGids
  <2>4. CopyGids \cup {h.gid} \subseteq Locals \X (1..MaxPost)
    BY <1>4, <2>2
  <2>5. Cardinality(CopyGids \cup {h.gid}) \in Nat /\ Cardinality(CopyGids) <= Cardinality(CopyGids \cup {h.gid})
    BY <1>7, <2>4, CopyGidsFacts, FS_Subset
  <2>6. (\A g \in google : g.at <= scene.changes + Cardinality(CopyGids))'
    BY <1>5, <1>6, <1>7, <1>9, <2>3, <2>5
  <2>7. \A d \in Locals : d # e => Copies(d)' = Copies(d)
    BY <2>1 DEF Copies
  <2>8. Copies(e)' = Copies(e) \cup {h}
    BY <2>1 DEF Copies
  <2>9. {g.gid : g \in Copies(e)'} = ({e} \X (1..n)) \cup {<<e, n + 1>>}
    <3>1. {g.gid : g \in Copies(e)'} = {g.gid : g \in Copies(e)} \cup {h.gid}
      BY <2>8
    <3> QED BY <2>0, <2>1, <3>1
  <2>10. {e} \X (1..(n + 1)) = ({e} \X (1..n)) \cup {<<e, n + 1>>}
    <3>1. 1..(n + 1) = (1..n) \cup {n + 1}
      BY <2>0, BoundsFacts
    <3> QED BY <3>1, PairsMore
  <2>11. n + 1 \in 0..MaxPost
    BY <2>1, BoundsFacts
  <2>12. {g.gid : g \in Copies(e)'} = {e} \X (1..(n + 1))
    BY <2>9, <2>10
  <2>13. \A d \in Locals : \E k \in 0..MaxPost : {g.gid : g \in Copies(d)} = {d} \X (1..k)
    BY <1>1 DEF Calendars
  <2>14. ASSUME NEW d \in Locals PROVE \E k \in 0..MaxPost : {g.gid : g \in Copies(d)'} = {d} \X (1..k)
    <3>1. CASE d = e
      BY <2>11, <2>12, <3>1
    <3>2. CASE d # e
      BY <2>7, <2>13, <3>2
    <3> QED BY <3>1, <3>2
  <2> QED BY <1>2, <2>6, <2>14 DEF Calendars
<1> QED BY <1>8, <1>9

\* So does a change.
LEMMA CalendarsChange ==
  ASSUME Inv, NEW g \in google, GoogleChanges(g)
  PROVE  Calendars'
<1>1. TypeOK /\ Calendars
  BY DEF Inv
<1>2. PICK h \in EventKind : /\ h.gid = g.gid /\ h.box = g.box /\ h.at <= scene.changes
                             /\ google' = (google \ {g}) \cup {h}
  BY <1>1, ChangedFacts
<1>3. UNCHANGED scene
  BY DEF GoogleChanges, Others
<1>4. (\A g1, g2 \in google : g1.gid = g2.gid => g1 = g2)'
  BY <1>1, <1>2 DEF Calendars
<1>5. CopyGids' = CopyGids
  BY <1>2 DEF CopyGids
<1>6. \A e \in Locals : {x.gid : x \in Copies(e)'} = {x.gid : x \in Copies(e)}
  <2>1. ASSUME NEW e \in Locals PROVE {x.gid : x \in Copies(e)'} = {x.gid : x \in Copies(e)}
    <3>1. CASE g \in Copies(e)
      <4>1. Copies(e)' = (Copies(e) \ {g}) \cup {h}
        BY <1>2, <3>1 DEF Copies
      <4> QED BY <1>2, <3>1, <4>1
    <3>2. CASE g \notin Copies(e)
      <4>1. Copies(e)' = Copies(e)
        BY <1>2, <3>2 DEF Copies
      <4> QED BY <4>1
    <3> QED BY <3>1, <3>2
  <2> QED BY <2>1
<1>7. (\A e \in Locals : \E n \in 0..MaxPost : {x.gid : x \in Copies(e)} = {e} \X (1..n))'
  BY <1>1, <1>6 DEF Calendars
<1>8. CopyGids \subseteq Locals \X (1..MaxPost)
  BY DEF CopyGids
<1>9. Cardinality(CopyGids) \in Nat
  BY <1>8, CopyGidsFacts
<1>10. scene.changes \in Nat /\ h.at \in Nat
  BY <1>1, <1>2, SceneFacts, BoundsFacts DEF EventKind
<1>11. (\A x \in google : x.at <= scene.changes + Cardinality(CopyGids))'
  BY <1>1, <1>2, <1>3, <1>5, <1>9, <1>10 DEF Calendars
<1> QED BY <1>4, <1>7, <1>11 DEF Calendars

\* So does every step.
LEMMA CalendarsStep ==
  ASSUME Inv, Users \/ \E p \in Passes : \E r : Works(p, r)
  PROVE  Calendars'
<1>1. UNCHANGED scene
  BY UserShape DEF Works, Others
<1>2. CASE UNCHANGED google
  BY <1>1, <1>2 DEF Inv, Calendars, CopyGids, Copies
<1>3. ASSUME NEW p \in Passes, NEW e \in Locals, Adds(p, e) PROVE Calendars'
  <2> DEFINE h == Copy(pass[p].box, e)
  <2>1. /\ h \in EventKind /\ NewEvent(h) /\ google' = google \cup {h}
        /\ h.gid = <<e, Cardinality(Copies(e)) + 1>> /\ Cardinality(Copies(e)) + 1 \in 1..MaxPost
        /\ h.at <= scene.changes + Cardinality(CopyGids \cup {h.gid})
    BY <1>3, AddsFacts
  <2> HIDE DEF h
  <2> QED BY <1>1, <2>1, CalendarsAdd
<1>4. ASSUME NEW b \in Boxes, NEW i \in Theirs, GoogleCreates(b, i) PROVE Calendars'
  <2>1. PICK h \in EventKind : h.gid = i /\ NewEvent(h) /\ h.at <= scene.changes /\ google' = google \cup {h}
    BY <1>4, CreatedFacts DEF Inv
  <2> QED BY <1>1, <2>1, CalendarsAdd
<1>5. ASSUME NEW g \in google, GoogleChanges(g) PROVE Calendars'
  BY <1>5, CalendarsChange
<1> QED BY <1>2, <1>3, <1>4, <1>5, PassGoogle, UserShape

-----------------------------------------------------------------------------
(* Who has an account in hand, and whose it is.                            *)

\* A pass gets to know an account from load_accounts alone.
LEMMA PassKnows ==
  ASSUME Inv, NEW p \in Passes, NEW r, Works(p, r), NEW q \in Passes, NEW b \in Boxes, NEW id \in 1..MaxAccount, Knows(q, b, id)'
  PROVE  Knows(q, b, id) \/ (q = p /\ Loads(p, r) /\ Connected(b) /\ id = acct[b].id)
<1>1. TypeOK /\ Stages /\ IdsOnce /\ pass'[p] = r /\ (q # p => pass'[q] = pass[q])
  BY PassFacts DEF Inv, Works
<1>2. None \notin Boxes
  BY CalendarAssumption
<1> QED BY <1>1, <1>2, PassAccount DEF Knows, KnowsOf, Takes

\* So no account gets to another mailbox by a pass.
LEMMA PassOwns ==
  ASSUME Inv, NEW p \in Passes, NEW r, Works(p, r), NEW b \in Boxes, NEW id \in 1..MaxAccount, Owns(b, id)'
  PROVE  Owns(b, id)
BY PassKnows, PassShape DEF Owns, SameIds

\* An account that appears has the id its callback brought.
LEMMA UserAccounts ==
  ASSUME Inv, Users, NEW b \in Boxes
  PROVE  /\ acct'[b] = NoAccount <=> acct'[b].id = Null
         /\ \/ acct'[b].id = acct[b].id /\ acct'[b].token = acct[b].token
            \/ acct'[b] = NoAccount /\ DeleteAccount(b)
            \/ /\ UpsertAccount(b) /\ acct[b] = NoAccount /\ callback[b] # None
               /\ acct'[b].id = callback[b].id /\ acct'[b].token = Null
<1>1. TypeOK /\ IdsOnce
  BY DEF Inv
<1>2. acct \in [Boxes -> AccountKind] /\ (acct[b].id = Null => acct[b] = NoAccount) /\ acct[b] \in AccountKind
  BY <1>1 DEF TypeOK, IdsOnce
<1>3. NoAccount.id = Null /\ NoAccount.token = Null
  BY NoAccountFacts
<1>4. CASE UNCHANGED acct
  BY <1>2, <1>3, <1>4
<1>5. ASSUME NEW c \in Boxes, DeleteAccount(c)
      PROVE /\ acct'[b] = NoAccount <=> acct'[b].id = Null
            /\ (acct'[b] = acct[b]) \/ (acct'[b] = NoAccount /\ DeleteAccount(b))
  BY <1>2, <1>3, <1>5 DEF DeleteAccount
<1>6. ASSUME NEW c \in Boxes, UpsertAccount(c), c # b PROVE acct'[b] = acct[b]
  BY <1>2, <1>6 DEF UpsertAccount
<1>7. ASSUME UpsertAccount(b)
      PROVE /\ acct'[b].id \in 1..MaxAccount /\ acct'[b].id # Null
            /\ \/ acct'[b].id = acct[b].id /\ acct'[b].token = acct[b].token
               \/ acct[b] = NoAccount /\ callback[b] # None /\ acct'[b].id = callback[b].id /\ acct'[b].token = Null
  <2>1. callback[b] # None /\ callback[b] \in ConsentKind
    BY <1>1, <1>7 DEF UpsertAccount, TypeOK
  <2>2. callback[b].id \in 1..MaxAccount
    BY <2>1 DEF ConsentKind
  <2> DEFINE row == IF acct[b] = NoAccount THEN [acct[b] EXCEPT !.id = callback[b].id] ELSE acct[b]
  <2>3. acct'[b] = [row EXCEPT !.status = "connected", !.key = callback[b].id, !.rkey = callback[b].rkey]
    BY <1>2, <1>7 DEF UpsertAccount
  <2>4. row \in [id : Ids, status : {"none", "connected", "error"}, token : Tokens, key : Ids, rkey : Ids]
        /\ row.token = acct[b].token /\ row.id = IF acct[b] = NoAccount THEN callback[b].id ELSE acct[b].id
    BY <1>2, <2>2 DEF AccountKind, Ids
  <2> HIDE DEF row
  <2>5. acct'[b].id = row.id /\ acct'[b].token = row.token
    BY <2>3, <2>4
  <2>6. acct[b] # NoAccount => acct[b].id \in 1..MaxAccount
    BY <1>2 DEF AccountKind, Ids
  <2>7. Null \notin 1..MaxAccount
    BY BoundsFacts DEF Null
  <2> QED BY <1>3, <2>1, <2>2, <2>4, <2>5, <2>6, <2>7
<1>8. acct'[b] = acct[b] => (acct'[b] = NoAccount <=> acct'[b].id = Null)
  BY <1>2, <1>3
<1> QED BY <1>3, <1>4, <1>5, <1>6, <1>7, <1>8, UserShape

\* A user gives a mailbox the account its callback brought.
LEMMA UserOwns ==
  ASSUME Inv, Users, NEW b \in Boxes, NEW id \in 1..MaxAccount, Owns(b, id)'
  PROVE  Owns(b, id) \/ (UpsertAccount(b) /\ callback[b] # None /\ id = callback[b].id)
<1>1. UNCHANGED pass /\ Null \notin 1..MaxAccount
  BY UserShape, BoundsFacts DEF Null
<1> QED BY <1>1, UserAccounts, NoAccountFacts DEF Owns, Knows

\* Account ids stay unique while a pass works.
LEMMA IdsPass ==
  ASSUME Inv, NEW p \in Passes, NEW r, Works(p, r)
  PROVE  IdsOnce'
<1>1. IdsOnce /\ TypeOK
  BY DEF Inv
<1>2. SameIds /\ UNCHANGED <<callback, nextId>> /\ (UNCHANGED links \/ Binds(p, r))
  BY PassShape DEF Others
<1>3. (\A b \in Boxes : acct[b].id = Null => acct[b] = NoAccount)'
  BY <1>1, <1>2 DEF IdsOnce, SameIds
<1>4. (\A b \in Boxes, id \in 1..MaxAccount : Owns(b, id) => id <= nextId)'
  BY <1>1, <1>2, PassOwns DEF IdsOnce
<1>5. (\A b, c \in Boxes, id \in 1..MaxAccount : Owns(b, id) /\ Owns(c, id) => b = c)'
  BY <1>1, PassOwns DEF IdsOnce
<1>6. ASSUME NEW b \in Boxes, callback[b] # None, NEW id \in 1..MaxAccount, id = callback[b].id
      PROVE  /\ id <= nextId
             /\ \A c \in Boxes : /\ ~Owns(c, id)'
                                 /\ c # b /\ callback[c] # None => callback[c].id # id
             /\ \A l \in links' : l.acct # id
  <2>1. \A c \in Boxes : ~Owns(c, id)
    BY <1>1, <1>6 DEF IdsOnce
  <2>2. \A c \in Boxes : ~Owns(c, id)'
    BY <2>1, PassOwns
  <2>3. ASSUME Binds(p, r) PROVE pass[p].id # id
    <3>1. pass[p].box # None
      BY <1>1, <2>3, MeFacts DEF Binds, Inv, StageOf
    <3> QED BY <2>1, <3>1, HandFacts
  <2> QED BY <1>1, <1>2, <1>6, <2>2, <2>3 DEF IdsOnce, Binds, NewLinkOf
<1>7. \A b \in Boxes : callback[b] # None => callback[b].id \in 1..MaxAccount
  BY <1>1 DEF TypeOK, ConsentKind
<1> QED BY <1>2, <1>3, <1>4, <1>5, <1>6, <1>7 DEF IdsOnce, Owns, Knows

\* The ids that are given out never get less.
LEMMA NextIdGrows ==
  ASSUME Inv, Users
  PROVE  nextId' \in Nat /\ nextId \in Nat /\ nextId <= nextId'
<1>1. UNCHANGED nextId \/ \E b \in Boxes : Exchange(b) \/ UpsertAccount(b)
  BY UserShape
<1>2. nextId \in Nat
  BY BoundsFacts DEF Inv, TypeOK
<1>3. UNCHANGED nextId \/ nextId' = nextId + 1
  BY <1>1 DEF Exchange, UpsertAccount
<1> QED BY <1>2, <1>3

\* And while the users connect and disconnect.
LEMMA IdsUser ==
  ASSUME Inv, Users
  PROVE  IdsOnce'
<1>1. IdsOnce /\ TypeOK /\ LinksKnown
  BY DEF Inv
<1>2. UNCHANGED <<pass, links>>
  BY UserShape
<1>3. (\A b \in Boxes : acct[b].id = Null => acct[b] = NoAccount)'
  BY UserAccounts
<1>4. nextId' \in Nat /\ nextId \in Nat /\ nextId <= nextId'
  BY NextIdGrows
<1>5. (\A b \in Boxes, id \in 1..MaxAccount : Owns(b, id) => id <= nextId)'
  <2>1. ASSUME NEW b \in Boxes, NEW id \in 1..MaxAccount, Owns(b, id)' PROVE id <= nextId
    BY <1>1, <2>1, UserOwns DEF IdsOnce
  <2> QED BY <1>4, <2>1, BoundsFacts
<1>6. (\A b, c \in Boxes, id \in 1..MaxAccount : Owns(b, id) /\ Owns(c, id) => b = c)'
  <2>1. ASSUME NEW b \in Boxes, NEW c \in Boxes, NEW id \in 1..MaxAccount, Owns(b, id)', Owns(c, id)' PROVE b = c
    <3>1. /\ Owns(b, id) \/ (callback[b] # None /\ id = callback[b].id)
          /\ Owns(c, id) \/ (callback[c] # None /\ id = callback[c].id)
      BY <2>1, UserOwns
    <3> QED BY <1>1, <3>1 DEF IdsOnce
  <2> QED BY <2>1
<1>7. ASSUME NEW b \in Boxes, callback'[b] # None, NEW id \in 1..MaxAccount, id = callback'[b].id
      PROVE  /\ id <= nextId'
             /\ \A c \in Boxes : /\ ~Owns(c, id)'
                                 /\ c # b /\ callback'[c] # None => callback'[c].id # id
             /\ \A l \in links : l.acct # id
  <2>1. \A c \in Boxes : callback[c] # None => callback[c].id \in 1..MaxAccount
    BY <1>1 DEF TypeOK, ConsentKind
  <2>2. ASSUME callback[b] = callback'[b], \A c \in Boxes : callback'[c] # None => callback'[c] = callback[c]
        PROVE  /\ id <= nextId'
               /\ \A c \in Boxes : c # b /\ callback'[c] # None => callback'[c].id # id
               /\ \A l \in links : l.acct # id
               /\ \A c \in Boxes : Owns(c, id)' => UpsertAccount(c) /\ callback[c] # None /\ id = callback[c].id
    <3>1. id <= nextId /\ \A c \in Boxes : ~Owns(c, id)
      BY <1>1, <1>7, <2>2 DEF IdsOnce
    <3>2. id <= nextId'
      BY <1>4, <3>1, BoundsFacts
    <3> QED BY <1>1, <1>7, <2>2, <3>1, <3>2, UserOwns DEF IdsOnce
  <2>3. \A c \in Boxes : UpsertAccount(c) => callback'[c] = None
    BY <1>1 DEF UpsertAccount, TypeOK
  <2>4. CASE callback[b] = callback'[b] /\ \A c \in Boxes : callback'[c] # None => callback'[c] = callback[c]
    <3>1. ASSUME NEW c \in Boxes, Owns(c, id)' PROVE FALSE
      <4>1. UpsertAccount(c) /\ callback[c] # None /\ id = callback[c].id
        BY <2>2, <2>4, <3>1
      <4>2. c = b
        BY <1>1, <1>7, <2>4, <4>1 DEF IdsOnce
      <4> QED BY <1>7, <2>3, <4>1, <4>2
    <3> QED BY <2>2, <2>4, <3>1
  <2>5. ASSUME NEW d \in Boxes, Exchange(d)
        PROVE  /\ id <= nextId'
               /\ \A c \in Boxes : /\ ~Owns(c, id)'
                                   /\ c # b /\ callback'[c] # None => callback'[c].id # id
               /\ \A l \in links : l.acct # id
    <3>1. /\ UNCHANGED <<acct, pass, links>> /\ nextId' = nextId + 1 /\ callback[d] = None
          /\ \A c \in Boxes : c # d => callback'[c] = callback[c]
          /\ callback'[d].id = nextId'
      BY <1>1, <2>5 DEF Exchange, Tables, TypeOK
    <3>2. \A c \in Boxes : Owns(c, id)' => Owns(c, id)
      BY <3>1 DEF Owns, Knows
    <3>3. \A c \in Boxes : callback[c] # None => callback[c].id <= nextId /\ callback[c].id \in Nat
      BY <1>1, <2>1, BoundsFacts DEF IdsOnce
    <3>4. \A l \in links : l.acct <= nextId /\ l.acct \in Nat
      BY <1>1, BoundsFacts DEF LinksKnown, TypeOK, LinkKind
    <3>5. CASE b = d
      <4>1. id = nextId + 1
        BY <1>7, <3>1, <3>5
      <4>2. \A c \in Boxes : ~Owns(c, id)
        BY <1>1, <1>4, <4>1 DEF IdsOnce
      <4>3. \A c \in Boxes : c # b /\ callback'[c] # None => callback'[c].id # id
        BY <1>4, <3>1, <3>3, <3>5, <4>1
      <4>4. \A l \in links : l.acct # id
        BY <1>4, <3>4, <4>1
      <4>5. id <= nextId'
        BY <1>4, <3>1, <4>1
      <4> QED BY <3>2, <4>2, <4>3, <4>4, <4>5
    <3>6. CASE b # d
      <4>1. callback'[b] = callback[b] /\ callback[b] # None /\ id = callback[b].id
        BY <1>7, <3>1, <3>6
      <4>2. id <= nextId /\ \A c \in Boxes : ~Owns(c, id)
        BY <1>1, <4>1 DEF IdsOnce
      <4>3. \A c \in Boxes : c # b /\ c # d /\ callback'[c] # None => callback'[c].id # id
        BY <1>1, <3>1, <4>1 DEF IdsOnce
      <4>4. callback'[d].id # id /\ id <= nextId'
        BY <1>4, <3>1, <4>2, BoundsFacts
      <4>5. \A l \in links : l.acct # id
        BY <1>1, <4>1 DEF IdsOnce
      <4> QED BY <3>2, <4>2, <4>3, <4>4, <4>5
    <3> QED BY <3>5, <3>6
  <2>6. ASSUME NEW d \in Boxes, UpsertAccount(d)
        PROVE callback[b] = callback'[b] /\ \A c \in Boxes : callback'[c] # None => callback'[c] = callback[c]
    BY <1>1, <1>7, <2>6 DEF UpsertAccount, TypeOK
  <2>7. UNCHANGED callback => callback[b] = callback'[b] /\ \A c \in Boxes : callback'[c] # None => callback'[c] = callback[c]
    OBVIOUS
  <2> QED BY <2>4, <2>5, <2>6, <2>7, UserShape
<1>8. ASSUME NEW b \in Boxes, callback'[b] # None PROVE callback'[b].id \in 1..MaxAccount
  BY <1>8, UserTypes DEF TypeOK, ConsentKind
<1> QED BY <1>2, <1>3, <1>5, <1>6, <1>7, <1>8 DEF IdsOnce, Owns, Knows

\* Two passes come to one mailbox only by load_accounts, which is remembered.
LEMMA HandPass ==
  ASSUME Inv, NEW p \in Passes, NEW r, Works(p, r)
  PROVE  OneHand'
<1>1. TypeOK /\ Stages /\ OneHand
  BY DEF Inv
<1>2. SUFFICES ASSUME NEW b \in Boxes, Alone(b)', NEW q1 \in Passes, NEW q2 \in Passes,
                      NEW id1 \in 1..MaxAccount, NEW id2 \in 1..MaxAccount, Knows(q1, b, id1)', Knows(q2, b, id2)'
               PROVE  q1 = q2 /\ id1 = id2
  BY DEF OneHand
<1>3. Alone(b)
  BY <1>2, PassShape DEF Alone, SeenGrows
<1>4. Loads(p, r) => \A id \in 1..MaxAccount : ~Knows(p, b, id)
  <2>1. StageOf(pass[p]) /\ None \notin Boxes
    BY <1>1, CalendarAssumption DEF Stages
  <2> QED BY <2>1 DEF Loads, StageOf, Knows, KnowsOf
<1>5. Loads(p, r) /\ Connected(b) => \A q \in Passes, id \in 1..MaxAccount : ~Knows(q, b, id)
  BY <1>2 DEF Loads, Alone, InHand, Knows, KnowsOf
<1> QED BY <1>1, <1>2, <1>3, <1>4, <1>5, PassKnows DEF OneHand

\* A user makes nothing of the kind undone.
LEMMA UserAlone ==
  ASSUME Inv, Users, NEW b \in Boxes
  PROVE  (Alone(b)' => Alone(b)) /\ (Steady(b)' => Steady(b)) /\ ("late" \notin seen'[b] => "late" \notin seen[b])
         /\ ("relist" \in seen[b] => "relist" \in seen'[b])
BY UserShape DEF Alone, Steady

\* Nor has a user an account in hand.
LEMMA HandUser ==
  ASSUME Inv, Users
  PROVE  OneHand'
BY UserAlone, UserShape DEF Inv, OneHand, Knows

-----------------------------------------------------------------------------
(* Links, listings and tokens.                                             *)

\* An event keeps its id and its calendar, whatever changes at Google.
LEMMA MovesFacts ==
  ASSUME Inv, GoogleMoves
  PROVE  /\ \A g \in google, h \in google' : h.gid = g.gid => Successor(g, h)
         /\ \A h \in google' : (\E g \in google : g.gid = h.gid) \/ NewEvent(h)
         /\ \A g \in google : \E h \in google' : Successor(g, h)
BY DEF Inv, GoogleMoves, Calendars, NewEvent, Successor

\* What a new link is of.
LEMMA BindFacts ==
  ASSUME Inv, NEW p \in Passes, NEW r, Binds(p, r)
  PROVE  LET n == NewLinkOf(pass[p]) IN
         /\ links' = links \cup {n}
         /\ n.acct = pass[p].id /\ n.local = pass[p].found /\ n.gid = pass[p].item.gid
         /\ pass[p].box \in Boxes /\ pass[p].id \in 1..MaxAccount /\ pass[p].id <= nextId
         /\ pass[p].item \in EventKind /\ Held(pass[p], pass[p].item) /\ NewLink(pass[p])
         /\ \E g \in google : g.gid = n.gid /\ g.box = pass[p].box
         /\ \A g \in google : g.gid = n.gid => g.box = pass[p].box
         /\ \A b \in Boxes : Owns(b, n.acct) => b = pass[p].box
         /\ \A x \in rows : x.id = n.local => x.box = pass[p].box
<1>1. TypeOK /\ Stages /\ Listing /\ Finding
  BY DEF Inv
<1>2. pass[p] \in PassKind /\ StageOf(pass[p]) /\ FoundOf(pass[p]) /\ GenuineOf(pass[p]) /\ pass[p].pc \in {"link", "linkpost"}
  BY <1>1, MeFacts DEF Binds, Finding, Listing
<1>3. pass[p].box # None /\ pass[p].item # None
  BY <1>2 DEF StageOf
<1>4. pass[p].item \in EventKind /\ Held(pass[p], pass[p].item)
  BY <1>2, <1>3 DEF PassKind, Held
<1>5. \E g \in google : g.gid = pass[p].item.gid /\ g.box = pass[p].box
  BY <1>2, <1>4 DEF GenuineOf, Genuine
<1>6. \A g \in google : g.gid = pass[p].item.gid => g.box = pass[p].box
  BY <1>4, ItemFacts
<1>7. \A x \in rows : x.id = pass[p].found => x.box = pass[p].box
  BY <1>2 DEF FoundOf, StageOf, Pushes
<1>8. /\ pass[p].box \in Boxes /\ pass[p].id \in 1..MaxAccount /\ pass[p].id <= nextId
      /\ \A b \in Boxes : Owns(b, pass[p].id) => b = pass[p].box
  BY <1>3, HandFacts
<1>9. links' = links \cup {NewLinkOf(pass[p])} /\ NewLink(pass[p])
  BY <1>2 DEF Binds, NewLink
<1> QED BY <1>4, <1>5, <1>6, <1>7, <1>8, <1>9 DEF NewLinkOf

\* The row of an import has an id no link has, and other rows keep theirs.
LEMMA RowsPass ==
  ASSUME Inv, NEW p \in Passes, NEW r, Works(p, r), NEW x \in rows'
  PROVE  \/ \E y \in rows : x.id = y.id /\ x.box = y.box /\ x.source = y.source
         \/ /\ Imports(p, r) /\ x.id = r.found /\ x.box = r.box /\ x.source = "google" /\ x.ver = r.item.at
            /\ x.id \in RowIds \ Used
<1>1. TypeOK /\ Stages
  BY DEF Inv
<1>2. CASE Updates(p, r)
  <2>1. pass[p].item \in EventKind
    BY <1>1, <1>2, MeFacts DEF Updates, Writes, StageOf, PassKind
  <2>2. pass[p].item.at \in 0..LastSeq
    BY <2>1, BoundsFacts DEF EventKind
  <2> QED BY <1>1, <1>2, <2>2, RowsWritten DEF Updates
<1> QED BY <1>2, PassShape DEF Deletes, Imports

\* The rows after a step of a user are those before, or one just created.
LEMMA RowsUser ==
  ASSUME Inv, Users, NEW x \in rows'
  PROVE  \/ \E y \in rows : x.id = y.id /\ x.box = y.box /\ x.source = y.source /\ (x.ver = Mine \/ x.ver = y.ver)
         \/ /\ Create(x.box, x.id) /\ x.box \in Boxes /\ x.id \in Locals /\ x.source = "local" /\ x.ver = Mine
            /\ x.id \notin removed /\ (\A y \in rows : y.id # x.id) /\ \A l \in links : l.local # x.id
<1>1. TypeOK
  BY DEF Inv
<1>2. ASSUME NEW y \in rows, Update(y) \/ Remove(y)
      PROVE \E z \in rows : x.id = z.id /\ x.box = z.box /\ x.source = z.source /\ (x.ver = Mine \/ x.ver = z.ver)
  BY <1>1, <1>2, UpdatedFacts DEF Remove
<1>3. ASSUME NEW b \in Boxes, DeleteImported(b) PROVE x \in rows
  BY <1>3 DEF DeleteImported
<1>4. ASSUME NEW b \in Boxes, NEW e \in Locals, Create(b, e)
      PROVE  \/ x \in rows
             \/ /\ Create(x.box, x.id) /\ x.box \in Boxes /\ x.id \in Locals /\ x.source = "local" /\ x.ver = Mine
                /\ x.id \notin removed /\ (\A y \in rows : y.id # x.id) /\ \A l \in links : l.local # x.id
  BY <1>4 DEF Create
<1> QED BY <1>2, <1>3, <1>4, UserShape

\* A link a pass makes is of an event of its mailbox.
LEMMA LinksPass ==
  ASSUME Inv, NEW p \in Passes, NEW r, Works(p, r)
  PROVE  LinksKnown'
<1>1. LinksKnown /\ TypeOK
  BY DEF Inv
<1>2. UNCHANGED nextId /\ (UNCHANGED links \/ Binds(p, r))
  BY PassShape DEF Others
<1>3. GoogleMoves
  BY GoogleStep
<1> DEFINE n == NewLinkOf(pass[p])
<1>4. \A l \in links' : l \in links \/ (Binds(p, r) /\ l = n)
  BY <1>2, BindFacts
<1>5. Binds(p, r) => UNCHANGED <<google, rows>>
  BY DEF Binds
<1>6. ASSUME NEW l \in links' PROVE l.acct <= nextId /\ \E g \in google : g.gid = l.gid
  BY <1>1, <1>4, BindFacts DEF LinksKnown
<1>7. ASSUME NEW l \in links', NEW g \in google, l.gid = g.gid
      PROVE  /\ \A b \in Boxes : Owns(b, l.acct) => g.box = b
             /\ \A x \in rows : l.local = x.id => x.box = g.box
  BY <1>1, <1>4, <1>7, BindFacts DEF LinksKnown
<1>8. \A l \in links' : l.acct \in 1..MaxAccount
  BY <1>1, <1>4, BindFacts DEF TypeOK, LinkKind
<1>9. ASSUME NEW l \in links' PROVE l.acct <= nextId' /\ \E h \in google' : h.gid = l.gid
  BY <1>2, <1>3, <1>6, MovesFacts DEF Successor
<1>10. ASSUME NEW l \in links', NEW h \in google', l.gid = h.gid
       PROVE  \E g \in google : g.gid = h.gid /\ g.box = h.box
  BY <1>3, <1>6, <1>10, MovesFacts DEF Successor
<1>11. ASSUME NEW l \in links', NEW h \in google', l.gid = h.gid, NEW b \in Boxes, Owns(b, l.acct)'
       PROVE  h.box = b
  <2>1. Owns(b, l.acct)
    <3> DEFINE id == l.acct
    <3>1. id \in 1..MaxAccount /\ Owns(b, id)'
      BY <1>8, <1>11
    <3> HIDE DEF id
    <3>2. Owns(b, id)
      BY <3>1, PassOwns
    <3> QED BY <3>2 DEF id
  <2> QED BY <1>7, <1>10, <1>11, <2>1
<1>12. ASSUME NEW l \in links', NEW h \in google', l.gid = h.gid, NEW x \in rows', l.local = x.id
       PROVE  x.box = h.box
  <2>1. CASE \E y \in rows : x.id = y.id /\ x.box = y.box
    BY <1>7, <1>10, <1>12, <2>1
  <2>2. CASE Imports(p, r) /\ x.id \in RowIds \ Used
    <3>1. l \in links
      BY <2>2 DEF Imports, Writes
    <3> QED BY <1>12, <2>2, <3>1 DEF Used
  <2> QED BY <2>1, <2>2, RowsPass
<1> QED BY <1>9, <1>10, <1>11, <1>12 DEF LinksKnown

\* A link stays what it is while the users connect and edit.
LEMMA LinksUser ==
  ASSUME Inv, Users
  PROVE  LinksKnown'
<1>1. LinksKnown /\ TypeOK /\ IdsOnce
  BY DEF Inv
<1>2. UNCHANGED links /\ GoogleMoves
  BY UserShape, GoogleStep
<1>3. nextId <= nextId' /\ nextId \in Nat /\ nextId' \in Nat
  BY NextIdGrows
<1>4. \A l \in links : l.acct \in 1..MaxAccount
  BY <1>1 DEF TypeOK, LinkKind
<1>5. ASSUME NEW l \in links PROVE l.acct <= nextId' /\ \E h \in google' : h.gid = l.gid
  <2>1. l.acct <= nextId /\ \E g \in google : g.gid = l.gid
    BY <1>1 DEF LinksKnown
  <2>2. l.acct <= nextId'
    BY <1>3, <1>4, <2>1, BoundsFacts
  <2> QED BY <1>2, <2>1, <2>2, MovesFacts DEF Successor
<1>6. ASSUME NEW l \in links, NEW h \in google', l.gid = h.gid
      PROVE  \E g \in google : g.gid = h.gid /\ g.box = h.box
  <2>1. \E g \in google : g.gid = l.gid
    BY <1>1 DEF LinksKnown
  <2> QED BY <1>2, <1>6, <2>1, MovesFacts DEF Successor
<1>7. ASSUME NEW l \in links, NEW h \in google', l.gid = h.gid, NEW b \in Boxes, Owns(b, l.acct)'
      PROVE  h.box = b
  <2>1. Owns(b, l.acct)
    <3> DEFINE id == l.acct
    <3>1. id \in 1..MaxAccount /\ Owns(b, id)' /\ \A c \in Boxes : callback[c] # None => id # callback[c].id
      BY <1>1, <1>4, <1>7 DEF IdsOnce
    <3> HIDE DEF id
    <3>2. Owns(b, id)
      BY <3>1, UserOwns
    <3> QED BY <3>2 DEF id
  <2> QED BY <1>1, <1>6, <1>7, <2>1 DEF LinksKnown
<1>8. ASSUME NEW l \in links, NEW h \in google', l.gid = h.gid, NEW x \in rows', l.local = x.id
      PROVE  x.box = h.box
  BY <1>1, <1>6, <1>8, RowsUser DEF LinksKnown
<1> QED BY <1>2, <1>5, <1>7, <1>8 DEF LinksKnown

\* A pass with something in its hands is at a mailbox.
LEMMA AtWork ==
  ASSUME TypeOK, NEW q \in Passes, StageOf(pass[q]),
         (\E i \in EventKind : Held(pass[q], i)) \/ (\E e \in Locals : Pushes(pass[q], e)) \/ NewLink(pass[q])
  PROVE  pass[q].box # None /\ pass[q].box \in Boxes
<1>1. pass[q] \in PassKind /\ None \notin EventKind
  BY CalendarAssumption DEF TypeOK
<1> QED BY <1>1 DEF StageOf, Held, Pushes, NewLink, PassKind

\* What a pass has listed is the version there is, or older than one to come.
LEMMA ListingStep ==
  ASSUME Inv, Users \/ \E p \in Passes : \E r : Works(p, r)
  PROVE  Listing'
<1> DEFINE After(me, i, g) == g.gid = i.gid /\ g.box = me.box /\ (g = i \/ (i.live /\ g.at > i.at /\ g.at > me.next))
           Then(me, i) == i.box = me.box /\ \E g \in google' : After(me, i, g)
<1>1. TypeOK /\ Stages /\ Listing /\ Calendars /\ TokenBounds /\ GoogleMoves
  BY GoogleStep DEF Inv
<1>2. ASSUME NEW me \in PassKind, me.box \in Boxes, Reached(me.box, me.next), NEW i \in EventKind, Genuine(me, i)
      PROVE  Then(me, i)
  <2>1. PICK g \in google : /\ g.gid = i.gid /\ g.box = me.box
                            /\ g = i \/ (i.live /\ g.at > i.at /\ g.at > me.next)
    BY <1>2 DEF Genuine
  <2>2. PICK h \in google' : Successor(g, h)
    BY <1>1, MovesFacts
  <2>3. g.at \in Nat /\ i.at \in Nat /\ me.next \in Int /\ Seq(g.box) \in Nat /\ g.at <= Seq(g.box)
    <3>1. g \in EventKind /\ g.box \in Boxes
      BY <1>1, <1>2, <2>1 DEF TypeOK
    <3> QED BY <1>1, <3>1, SeqFacts, BoundsFacts DEF EventKind, PassKind, Tokens, Null
  <2>4. me.next <= Seq(g.box)
    BY <1>1, <1>2, <2>1, <2>3, ReachedSeq
  <2> QED BY <1>2, <2>1, <2>2, <2>3, <2>4 DEF Genuine, Successor
<1>3. ASSUME NEW q \in Passes, NEW i \in EventKind, Held(pass[q], i) PROVE Then(pass[q], i)
  <2>1. pass[q] \in PassKind /\ StageOf(pass[q]) /\ Genuine(pass[q], i) /\ Reached(pass[q].box, pass[q].next)
    BY <1>1, <1>3, MeFacts DEF Listing, GenuineOf, TokenBounds
  <2>2. pass[q].box \in Boxes
    BY <1>1, <1>3, <2>1, AtWork
  <2> QED BY <1>2, <2>1, <2>2
<1>4. ASSUME Users PROVE Listing'
  <2>1. \A q \in Passes, i \in EventKind : Held(pass[q], i) => Then(pass[q], i)
    BY <1>3
  <2>2. UNCHANGED pass
    BY <1>4, UserShape
  <2> QED BY <2>1, <2>2 DEF Listing, GenuineOf, Genuine, Held
<1>5. ASSUME NEW p \in Passes, NEW r, Works(p, r), NEW i \in EventKind, Held(r, i) PROVE Then(r, i)
  <2>1. CASE Held(pass[p], i) /\ r.next = pass[p].next /\ SameAccount(r, pass[p])
    <3>1. Then(pass[p], i)
      BY <1>3, <2>1
    <3> QED BY <2>1, <3>1 DEF Genuine, SameAccount
  <2>2. CASE Lists(p, r) /\ i \in r.items
    <3>1. i \in google /\ i.box = pass[p].box /\ r.box = pass[p].box /\ UNCHANGED google
      BY <2>2 DEF Lists, Answers, SameAccount, Quiet
    <3> QED BY <3>1 DEF Genuine
  <2>3. CASE Posts(p, r) /\ i = r.item
    <3>1. Adds(p, r.found) /\ r.item = Copy(r.box, r.found) /\ r.box = pass[p].box
      BY <2>3 DEF Posts, SameAccount
    <3> DEFINE h == Copy(pass[p].box, r.found)
    <3>2. h \in google' /\ h.box = pass[p].box
      <4>1. google' = google \cup {h} /\ h.box = pass[p].box
        BY <3>1, AddsFacts
      <4> QED BY <4>1
    <3> QED BY <2>3, <3>1, <3>2 DEF Genuine
  <2> QED BY <1>1, <1>5, <2>1, <2>2, <2>3, PassHeld
<1>6. ASSUME NEW p \in Passes, NEW r, Works(p, r) PROVE Listing'
  <2>1. pass'[p] = r /\ \A q \in Passes : q # p => pass'[q] = pass[q]
    BY <1>1, <1>6, PassFacts DEF Works
  <2>2. ASSUME NEW q \in Passes, NEW i \in EventKind, Held(pass'[q], i) PROVE Then(pass'[q], i)
    <3>1. CASE q = p
      BY <1>5, <1>6, <2>1, <2>2, <3>1
    <3>2. CASE q # p
      BY <1>3, <2>1, <2>2, <3>2
    <3> QED BY <3>1, <3>2
  <2> QED BY <2>2 DEF Listing, GenuineOf, Held, Genuine
<1> QED BY <1>4, <1>6

\* What the log has got to, it keeps.
ReachedThen(b, n) == n <= 0 \/ \E g \in google' : g.box = b /\ n <= g.at

\* The log never goes back.
LEMMA ReachedStep ==
  ASSUME Inv, GoogleMoves, NEW b, NEW n \in Int, Reached(b, n)
  PROVE  ReachedThen(b, n)
<1>1. TypeOK
  BY DEF Inv
<1>2. CASE n <= 0
  BY <1>2 DEF ReachedThen
<1>3. ASSUME NEW g \in google, g.box = b, n <= g.at PROVE ReachedThen(b, n)
  <2>1. PICK h \in google' : Successor(g, h)
    BY MovesFacts
  <2>2. g.at \in Nat /\ Seq(g.box) \in Nat /\ g.at <= Seq(g.box)
    <3>1. g \in EventKind /\ g.box \in Boxes
      BY <1>1 DEF TypeOK, EventKind
    <3> QED BY <1>1, <3>1, SeqFacts, BoundsFacts DEF EventKind
  <2>3. h.box = b /\ (h = g \/ h.at = Seq(g.box) + 1)
    BY <1>3, <2>1 DEF Successor
  <2>4. n <= h.at
    BY <1>3, <2>2, <2>3
  <2> QED BY <2>1, <2>3, <2>4 DEF ReachedThen
<1> QED BY <1>2, <1>3 DEF Reached

\* Tokens are numbers, or less than all of them.
LEMMA TokenTypes ==
  ASSUME TypeOK
  PROVE  /\ Null \in Int /\ Null < 0
         /\ \A p \in Passes : pass[p].next \in Int /\ pass[p].next >= Null
         /\ \A b \in Boxes : acct[b].token \in Int /\ acct[b].token >= Null
<1>1. \A t \in Tokens : t \in Int /\ t >= Null
  BY BoundsFacts DEF Tokens, Null
<1>2. \A p \in Passes : pass[p].next \in Tokens
  BY DEF TypeOK, PassKind
<1>3. \A b \in Boxes : acct[b].token \in Tokens
  BY AccountFacts
<1> QED BY <1>1, <1>2, <1>3 DEF Null

\* No token is beyond the log of its calendar.
LEMMA BoundsStep ==
  ASSUME Inv, Users \/ \E p \in Passes : \E r : Works(p, r)
  PROVE  TokenBounds'
<1>1. TypeOK /\ Stages /\ TokenBounds /\ GoogleMoves
  BY GoogleStep DEF Inv
<1>2. \A b : ReachedThen(b, Null)
  BY DEF ReachedThen, Null
<1>3. \A b \in Boxes : ReachedThen(b, acct[b].token)
  BY <1>1, TokenTypes, ReachedStep DEF TokenBounds
<1>4. \A p \in Passes : ReachedThen(pass[p].box, pass[p].next)
  BY <1>1, TokenTypes, ReachedStep DEF TokenBounds
<1>5. SUFFICES /\ \A b \in Boxes : ReachedThen(b, acct'[b].token)
               /\ \A p \in Passes : ReachedThen(pass'[p].box, pass'[p].next)
  BY DEF TokenBounds, Reached, ReachedThen
<1>6. CASE Users
  <2>1. \A b \in Boxes : acct'[b].token = acct[b].token \/ acct'[b].token = Null
    BY <1>6, UserAccounts, NoAccountFacts
  <2>2. UNCHANGED pass
    BY <1>6, UserShape
  <2> QED BY <1>2, <1>3, <1>4, <2>1, <2>2
<1>7. ASSUME NEW p \in Passes, NEW r, Works(p, r)
      PROVE  /\ \A b \in Boxes : ReachedThen(b, acct'[b].token)
             /\ \A q \in Passes : ReachedThen(pass'[q].box, pass'[q].next)
  <2>1. pass'[p] = r /\ \A q \in Passes : q # p => pass'[q] = pass[q]
    BY <1>1, <1>7, PassFacts DEF Works
  <2>2. ReachedThen(r.box, r.next)
    <3>1. CASE Lists(p, r)
      <4>1. pass[p].box \in Boxes /\ r.box = pass[p].box /\ r.next = Seq(pass[p].box)
        BY <1>1, <3>1, MeFacts DEF Lists, SameAccount, StageOf
      <4>2. Reached(pass[p].box, Seq(pass[p].box)) /\ Seq(pass[p].box) \in Int
        BY <1>1, <4>1, SeqReached, SeqFacts
      <4> QED BY <1>1, <4>1, <4>2, ReachedStep
    <3> QED BY <1>2, <1>4, <1>7, <3>1, PassNext DEF SameAccount
  <2>3. ASSUME NEW b \in Boxes PROVE ReachedThen(b, acct'[b].token)
    <3>1. CASE SameTokens
      BY <1>3, <3>1 DEF SameTokens
    <3>2. CASE Forgets(p, r)
      BY <1>2, <1>3, <3>2 DEF Forgets, Stores
    <3>3. CASE Marks(p, r) /\ Stores(pass[p].id, pass[p].next)
      <4>1. pass[p].box # None
        BY <1>1, <3>3, MeFacts DEF Marks, StageOf
      <4>2. acct[b].id = pass[p].id => b = pass[p].box
        BY <4>1, HandFacts
      <4> QED BY <1>3, <1>4, <3>3, <4>2 DEF Stores
    <3> QED BY <1>7, <3>1, <3>2, <3>3, PassShape
  <2> QED BY <1>4, <2>1, <2>2, <2>3
<1> QED BY <1>6, <1>7

-----------------------------------------------------------------------------
(* What a pass has found out.                                              *)

TakenThen(id) == id \in removed' \/ (\E x \in rows' : x.id = id) \/ (\E l \in links' : l.local = id)

FoundThen(me) ==
  /\ me.pc = "apply" /\ me.found # None =>
       \E l \in links' : l.acct = me.id /\ l.local = me.found /\ l.gid = me.item.gid
  /\ me.pc = "link" => /\ \A x \in rows' : x.id = me.found => x.box = me.box
                       /\ \A l \in links' : l.local # me.found
  /\ \A e \in Locals : Pushes(me, e) => TakenThen(e) /\ \A x \in rows' : x.id = e => x.box = me.box

\* An id that is taken stays so while a pass works.
LEMMA TakenPass ==
  ASSUME Inv, NEW p \in Passes, NEW r, Works(p, r), NEW e, Taken(e)
  PROVE  TakenThen(e)
<1>1. TypeOK /\ Stages /\ Finding
  BY DEF Inv
<1>2. UNCHANGED removed /\ links \subseteq links'
  BY PassShape DEF Binds
<1>3. ASSUME NEW x \in rows, x.id = e PROVE TakenThen(e)
  <2>1. CASE Deletes(p, r)
    <3>1. pass[p].pc = "apply" /\ pass[p].found # None /\ rows' = {y \in rows : y.id # pass[p].found}
      BY <2>1 DEF Deletes, Writes
    <3>2. \E l \in links : l.local = pass[p].found
      BY <1>1, <3>1 DEF Finding, FoundOf
    <3> QED BY <1>2, <1>3, <3>1, <3>2 DEF TakenThen
  <2>2. CASE Updates(p, r)
    <3>1. pass[p].item \in EventKind
      BY <1>1, <2>2, MeFacts DEF Updates, Writes, StageOf, PassKind
    <3>2. pass[p].item.at \in 0..LastSeq
      BY <3>1, BoundsFacts DEF EventKind
    <3>3. \E y \in rows' : y.id = x.id
      BY <1>1, <2>2, <3>2, RowsWritten DEF Updates
    <3> QED BY <1>3, <3>3 DEF TakenThen
  <2>3. CASE rows \subseteq rows'
    BY <1>3, <2>3 DEF TakenThen
  <2> QED BY <2>1, <2>2, <2>3, PassShape DEF Imports
<1> QED BY <1>2, <1>3 DEF Taken, TakenThen

\* What another pass has found stays so.
LEMMA FoundPass ==
  ASSUME Inv, NEW p \in Passes, NEW r, Works(p, r), NEW q \in Passes, q # p
  PROVE  FoundThen(pass[q])
<1> DEFINE me == pass[q]
<1>1. TypeOK /\ Stages /\ Finding
  BY DEF Inv
<1>2. FoundOf(me) /\ StageOf(me) /\ ApartOf(me, pass[p])
  BY <1>1 DEF Finding, Stages
<1>3. me.found \in Used
  BY DEF Used
<1>4. UNCHANGED links \/ Binds(p, r)
  BY PassShape
<1>5. \A l \in links' : l \in links \/ (Binds(p, r) /\ l.local = pass[p].found)
  BY <1>4 DEF Binds, NewLinkOf
<1>6. links \subseteq links'
  BY <1>4 DEF Binds
<1>7. \A e \in Locals : Taken(e) => TakenThen(e)
  BY TakenPass
<1>8. \A x \in rows' : (\E y \in rows : x.id = y.id /\ x.box = y.box) \/ (x.id \in RowIds /\ x.id \notin Used)
  BY RowsPass
<1>9. Locals \cap RowIds = {}
  BY CalendarAssumption
<1> HIDE DEF me
<1>10. me.pc = "link" => pass[p].found # me.found
  BY <1>2 DEF ApartOf
<1> QED BY <1>2, <1>3, <1>5, <1>6, <1>7, <1>8, <1>9, <1>10 DEF FoundOf, FoundThen, me

\* What a pass finds is so.
LEMMA FoundOwn ==
  ASSUME Inv, NEW p \in Passes, NEW r, Works(p, r)
  PROVE  FoundThen(r)
<1> DEFINE me == pass[p]
<1>1. TypeOK /\ Stages /\ Finding
  BY DEF Inv
<1>2. FoundOf(me) /\ StageOf(me) /\ StageOf(r) /\ r \in PassKind /\ me \in PassKind
  BY <1>1, MeFacts DEF Finding, Works, Becomes
<1>3. r.pc = "apply" /\ r.found # None => \E l \in links' : l.acct = r.id /\ l.local = r.found /\ l.gid = r.item.gid
  <2>1. ASSUME r.pc = "apply", r.found # None PROVE Finds(p, r)
    BY <2>1 DEF Works, Loads, Quits, LetsGo, Takes, Reads, Lists, Forgets, Deletes, Updates, Imports, Binds, Selects,
            Skips, Posts, Loses, Marks
  <2> QED BY <2>1 DEF Finds, SameAccount, Quiet
<1>4. r.pc = "link" => /\ \A x \in rows' : x.id = r.found => x.box = r.box
                       /\ \A l \in links' : l.local # r.found
  <2>1. ASSUME r.pc = "link" PROVE Imports(p, r)
    BY <2>1 DEF Works, Loads, Quits, LetsGo, Takes, Reads, Lists, Forgets, Finds, Deletes, Updates, Binds, Selects,
            Skips, Posts, Loses, Marks
  <2>2. Imports(p, r) => r.found \in RowIds \ Used /\ UNCHANGED links
                         /\ rows' = rows \cup {[id |-> r.found, box |-> r.box, source |-> "google", ver |-> r.item.at]}
    BY DEF Imports, Writes
  <2> QED BY <2>1, <2>2 DEF Used
<1>5. ASSUME NEW e \in Locals, Pushes(r, e) PROVE TakenThen(e) /\ \A x \in rows' : x.id = e => x.box = r.box
  <2>1. CASE Pushes(me, e) /\ SameAccount(r, me)
    <3>1. Taken(e) /\ \A x \in rows : x.id = e => x.box = r.box
      BY <1>2, <2>1 DEF FoundOf, SameAccount
    <3>2. Locals \cap RowIds = {}
      BY CalendarAssumption
    <3>3. \A x \in rows' : (\E y \in rows : x.id = y.id /\ x.box = y.box) \/ x.id \in RowIds
      BY RowsPass
    <3> QED BY <3>1, <3>2, <3>3, TakenPass
  <2>2. CASE Selects(p, r) /\ e \in r.push
    <3>1. UNCHANGED <<rows, links, removed>> /\ r.box = me.box /\ e \in Unlinked(me.box)
      BY <2>2 DEF Selects, Quiet, SameAccount
    <3>2. \E x \in rows : x.id = e /\ x.box = me.box
      BY <3>1 DEF Unlinked
    <3> QED BY <1>1, <3>1, <3>2 DEF TakenThen, TypeOK
  <2> QED BY <1>1, <1>5, <2>1, <2>2, PassPushes
<1> QED BY <1>3, <1>4, <1>5 DEF FoundThen

\* No two passes import under one id, or push one event from two mailboxes.
LEMMA ApartPass ==
  ASSUME Inv, NEW p \in Passes, NEW r, Works(p, r), NEW q \in Passes, q # p
  PROVE  ApartOf(r, pass[q]) /\ ApartOf(pass[q], r)
<1> DEFINE me == pass[p] you == pass[q]
<1>1. TypeOK /\ Stages /\ Finding
  BY DEF Inv
<1>2. FoundOf(me) /\ FoundOf(you) /\ StageOf(me) /\ StageOf(you) /\ StageOf(r) /\ ApartOf(me, you) /\ ApartOf(you, me)
  BY <1>1, MeFacts DEF Finding, Works, Becomes
<1>3. r.pc = "link" => you.found # r.found
  <2>1. ASSUME r.pc = "link" PROVE Imports(p, r)
    BY <2>1 DEF Works, Loads, Quits, LetsGo, Takes, Reads, Lists, Forgets, Finds, Deletes, Updates, Binds, Selects,
            Skips, Posts, Loses, Marks
  <2> QED BY <2>1 DEF Imports, Used
<1>4. you.pc = "link" => r.found # you.found
  <2>0. None \notin RowIds /\ Locals \cap RowIds = {}
    BY CalendarAssumption
  <2>1. you.pc = "link" => you.found \in RowIds /\ \A l \in links : l.local # you.found
    BY <1>2 DEF StageOf, FoundOf
  <2>2. r.found # None => r.pc \in {"apply", "link", "linkpost"}
    BY <1>2 DEF StageOf
  <2>3. r.pc = "linkpost" => r.found \in Locals
    BY <1>2 DEF StageOf
  <2>4. you.found \in Used
    BY DEF Used
  <2>5. r.pc = "link" => r.found \notin Used
    <3>1. ASSUME r.pc = "link" PROVE Imports(p, r)
      BY <3>1 DEF Works, Loads, Quits, LetsGo, Takes, Reads, Lists, Forgets, Finds, Deletes, Updates, Binds, Selects,
            Skips, Posts, Loses, Marks
    <3> QED BY <3>1 DEF Imports
  <2>6. r.pc = "apply" /\ r.found # None => \E l \in links : l.local = r.found
    <3>1. ASSUME r.pc = "apply" PROVE Finds(p, r)
      BY <3>1 DEF Works, Loads, Quits, LetsGo, Takes, Reads, Lists, Forgets, Deletes, Updates, Imports, Binds, Selects,
            Skips, Posts, Loses, Marks
    <3> QED BY <3>1 DEF Finds
  <2> HIDE DEF you
  <2> QED BY <2>0, <2>1, <2>2, <2>3, <2>4, <2>5, <2>6
<1>5. ASSUME NEW e \in Locals, Pushes(r, e), Pushes(you, e) PROVE r.box = you.box
  <2>1. CASE Pushes(me, e) /\ SameAccount(r, me)
    BY <1>2, <1>5, <2>1 DEF ApartOf, SameAccount
  <2>2. CASE Selects(p, r) /\ e \in r.push
    <3>1. r.box = me.box /\ e \in Unlinked(me.box)
      BY <2>2 DEF Selects, SameAccount
    <3>2. \E x \in rows : x.id = e /\ x.box = me.box
      BY <3>1 DEF Unlinked
    <3> QED BY <1>2, <1>5, <3>1, <3>2 DEF FoundOf
  <2> QED BY <1>1, <1>5, <2>1, <2>2, PassPushes
<1> QED BY <1>3, <1>4, <1>5 DEF ApartOf

\* Together: what passes have found, after a step of one.
LEMMA FindingPass ==
  ASSUME Inv, NEW p \in Passes, NEW r, Works(p, r)
  PROVE  Finding'
<1>1. TypeOK /\ Finding
  BY DEF Inv
<1>2. pass'[p] = r /\ \A q \in Passes : q # p => pass'[q] = pass[q]
  BY <1>1, PassFacts DEF Works
<1>3. \A x \in rows' : x.source = "local" <=> x.id \in Locals
  BY <1>1, RowsPass, CalendarAssumption DEF Finding
<1>4. \A q \in Passes : FoundThen(pass'[q])
  BY <1>2, FoundPass, FoundOwn
<1>5. \A q1, q2 \in Passes : q1 # q2 => ApartOf(pass'[q1], pass'[q2])
  BY <1>1, <1>2, ApartPass DEF Finding
<1>6. \A q \in Passes : FoundOf(pass[q])'
  BY <1>4 DEF FoundThen, FoundOf, TakenThen, Taken, Pushes
<1>7. \A q1, q2 \in Passes : q1 # q2 => ApartOf(pass[q1], pass[q2])'
  BY <1>5 DEF ApartOf, Pushes
<1> QED BY <1>3, <1>6, <1>7 DEF Finding

\* And after a step of a user.
LEMMA FindingUser ==
  ASSUME Inv, Users
  PROVE  Finding'
<1>1. TypeOK /\ Finding
  BY DEF Inv
<1>2. UNCHANGED <<pass, links>>
  BY UserShape
<1>3. \A x \in rows' : x.source = "local" <=> x.id \in Locals
  BY <1>1, RowsUser DEF Finding
<1>4. ASSUME NEW e \in Locals, Taken(e) PROVE TakenThen(e)
  <2>1. removed \subseteq removed'
    BY UserShape DEF Remove
  <2>2. ASSUME NEW x \in rows, x.id = e PROVE TakenThen(e)
    <3>1. ASSUME NEW b \in Boxes, DeleteImported(b) PROVE x \in rows'
      BY <1>1, <2>2, <3>1 DEF DeleteImported, Finding
    <3>2. ASSUME NEW b \in Boxes, NEW d \in Locals, Create(b, d) PROVE x \in rows'
      BY <3>2 DEF Create
    <3>3. ASSUME NEW y \in rows, Update(y) PROVE \E z \in rows' : z.id = x.id
      BY <1>1, <3>3, UpdatedFacts
    <3>4. ASSUME NEW y \in rows, Remove(y) PROVE x \in rows' \/ x.id \in removed'
      BY <3>4 DEF Remove
    <3> QED BY <2>2, <3>1, <3>2, <3>3, <3>4, UserShape DEF TakenThen
  <2> QED BY <1>2, <1>4, <2>1, <2>2 DEF Taken, TakenThen
<1>5. ASSUME NEW q \in Passes PROVE FoundThen(pass[q])
  <2>1. FoundOf(pass[q]) /\ StageOf(pass[q])
    BY <1>1 DEF Finding, Inv, Stages
  <2>2. Locals \cap RowIds = {}
    BY CalendarAssumption
  <2>3. pass[q].pc = "link" => pass[q].found \in RowIds
    BY <2>1 DEF StageOf
  <2>4. \A x \in rows' : (\E y \in rows : x.id = y.id /\ x.box = y.box) \/ (x.id \in Locals /\ ~Taken(x.id))
    BY RowsUser DEF Taken
  <2> QED BY <1>2, <1>4, <2>1, <2>2, <2>3, <2>4 DEF FoundOf, FoundThen
<1>6. \A q \in Passes : FoundOf(pass[q])'
  BY <1>2, <1>5 DEF FoundThen, FoundOf, TakenThen, Taken, Pushes
<1>7. \A q1, q2 \in Passes : q1 # q2 => ApartOf(pass[q1], pass[q2])'
  BY <1>1, <1>2 DEF Finding, ApartOf, Pushes
<1> QED BY <1>3, <1>6, <1>7 DEF Finding

-----------------------------------------------------------------------------
(* An event is linked once.                                                *)

NewThen(me) ==
  me.box # None /\ "raced" \notin seen'[me.box] =>
    /\ NewLink(me) => \A l \in links' : ~(l.acct = me.id /\ l.gid = me.item.gid)
    /\ \A e \in Locals : Pushes(me, e) => \A l \in links' : l.local # e

\* A mailbox that is not raced after a step of a pass was not so before it.
LEMMA AlonePass ==
  ASSUME NEW p \in Passes, NEW r, Works(p, r), NEW b \in Boxes, "raced" \notin seen'[b]
  PROVE  Alone(b)
BY PassShape DEF SeenGrows, Alone

\* The link that is made is the only one of its event and of its row.
LEMMA BindNew ==
  ASSUME Inv, NEW p \in Passes, NEW r, Binds(p, r), Alone(pass[p].box), NEW l \in links
  PROVE  /\ ~(l.acct = pass[p].id /\ l.gid = pass[p].item.gid) /\ l.local # pass[p].found
         /\ pass[p].found \notin pass[p].push
<1>1. TypeOK /\ Stages /\ Finding /\ LinkedOnce
  BY DEF Inv
<1>2. pass[p].pc \in {"link", "linkpost"} /\ NewLink(pass[p])
  BY DEF Binds, NewLink
<1>3. StageOf(pass[p]) /\ FoundOf(pass[p]) /\ NewOf(pass[p]) /\ pass[p].box # None
  BY <1>1, <1>2, MeFacts DEF Finding, LinkedOnce, StageOf
<1>4. ~(l.acct = pass[p].id /\ l.gid = pass[p].item.gid)
  BY <1>2, <1>3 DEF NewOf, LinksOf
<1>5. l.local # pass[p].found
  <2>1. CASE pass[p].pc = "link"
    BY <1>3, <2>1 DEF FoundOf
  <2>2. CASE pass[p].pc = "linkpost"
    BY <1>3, <2>2 DEF NewOf, StageOf, Pushes
  <2> QED BY <1>2, <2>1, <2>2
<1>6. pass[p].found \notin pass[p].push
  BY <1>2, <1>3 DEF StageOf
<1> QED BY <1>4, <1>5, <1>6

\* A link another pass makes is of another account, and another row.
LEMMA NewPass ==
  ASSUME Inv, NEW p \in Passes, NEW r, Works(p, r), NEW q \in Passes, q # p
  PROVE  NewThen(pass[q])
<1> DEFINE you == pass[q]
<1>1. TypeOK /\ Stages /\ Finding /\ LinkedOnce
  BY DEF Inv
<1>2. SUFFICES ASSUME you.box # None, "raced" \notin seen'[you.box]
               PROVE  /\ NewLink(you) => \A l \in links' : ~(l.acct = you.id /\ l.gid = you.item.gid)
                      /\ \A e \in Locals : Pushes(you, e) => \A l \in links' : l.local # e
  BY DEF NewThen
<1>3. you.box \in Boxes /\ Alone(you.box) /\ NewOf(you)
  BY <1>1, <1>2, MeFacts, AlonePass DEF LinkedOnce
<1>4. CASE UNCHANGED links
  BY <1>2, <1>3, <1>4 DEF NewOf, LinksOf
<1>5. CASE Binds(p, r)
  <2>1. pass[p].box # you.box
    <3>1. pass[p].box # None
      BY <1>5, BindFacts, CalendarAssumption
    <3> QED BY <1>3, <3>1, SameHand
  <2>2. pass[p].id # you.id
    <3>1. \A b \in Boxes : Owns(b, pass[p].id) => b = pass[p].box
      BY <1>5, BindFacts DEF NewLinkOf
    <3>2. Owns(you.box, you.id)
      BY <1>2, HandFacts
    <3> QED BY <1>3, <2>1, <3>1, <3>2
  <2>3. \A e \in Locals : Pushes(you, e) => e # pass[p].found
    <3>1. pass[p].found \in Locals => Pushes(pass[p], pass[p].found)
      <4>1. StageOf(pass[p]) /\ pass[p].pc \in {"link", "linkpost"}
        BY <1>1, <1>5 DEF Stages, Binds
      <4> QED BY <4>1, CalendarAssumption DEF StageOf, Pushes
    <3>2. ApartOf(pass[p], you)
      BY <1>1 DEF Finding
    <3> QED BY <2>1, <3>1, <3>2 DEF ApartOf
  <2>4. \A l \in links' : l \in links \/ (l.acct = pass[p].id /\ l.local = pass[p].found)
    BY <1>5 DEF Binds, NewLinkOf
  <2> HIDE DEF you
  <2> QED BY <1>2, <1>3, <2>2, <2>3, <2>4 DEF NewOf, LinksOf
<1> QED BY <1>4, <1>5, PassShape

\* What a pass is about to link is not linked yet.
LEMMA NewOwn ==
  ASSUME Inv, NEW p \in Passes, NEW r, Works(p, r)
  PROVE  NewThen(r)
<1> DEFINE me == pass[p]
<1>1. TypeOK /\ Stages /\ Finding /\ LinkedOnce /\ LinksKnown
  BY DEF Inv
<1>2. StageOf(me) /\ StageOf(r) /\ r \in PassKind /\ me \in PassKind /\ NewOf(me)
  BY <1>1, MeFacts DEF Works, Becomes, LinkedOnce
<1>3. SUFFICES ASSUME r.box # None, "raced" \notin seen'[r.box]
               PROVE  /\ NewLink(r) => \A l \in links' : ~(l.acct = r.id /\ l.gid = r.item.gid)
                      /\ \A e \in Locals : Pushes(r, e) => \A l \in links' : l.local # e
  BY DEF NewThen
<1>4. r.box \in Boxes /\ Alone(r.box)
  BY <1>2, <1>3, AlonePass DEF PassKind
<1>5. ASSUME NewLink(r), NEW l \in links' PROVE ~(l.acct = r.id /\ l.gid = r.item.gid)
  <2>1. CASE NewLink(me) /\ r.item = me.item /\ Imports(p, r)
    <3>1. SameAccount(r, me) /\ UNCHANGED links
      BY <2>1 DEF Imports, Writes
    <3> QED BY <1>2, <1>3, <1>4, <1>5, <2>1, <3>1 DEF NewOf, LinksOf, SameAccount
  <2>2. CASE Finds(p, r) /\ LinksOf(r.id, r.item.gid) = {}
    BY <1>5, <2>2 DEF Finds, Quiet, LinksOf
  <2>3. CASE Posts(p, r)
    <3>1. Adds(p, r.found) /\ r.item = Copy(me.box, r.found) /\ UNCHANGED links
      BY <2>3 DEF Posts, SameAccount, Adds
    <3>2. NewEvent(Copy(me.box, r.found))
      BY <3>1, AddsFacts
    <3> QED BY <1>1, <1>5, <3>1, <3>2 DEF NewEvent, LinksKnown
  <2> QED BY <1>1, <1>5, <2>1, <2>2, <2>3, PassLinks
<1>6. ASSUME NEW e \in Locals, Pushes(r, e), NEW l \in links' PROVE l.local # e
  <2>1. CASE Pushes(me, e) /\ SameAccount(r, me)
    <3>1. \A k \in links : k.local # e
      BY <1>2, <1>3, <1>4, <2>1 DEF NewOf, SameAccount
    <3>2. CASE Binds(p, r)
      <4>1. e # me.found
        <5>1. e \in me.push
          BY <1>2, <1>6, <3>2 DEF Binds, Pushes
        <5>2. me.found \notin me.push
          BY <1>2, <3>2 DEF Binds, StageOf
        <5> QED BY <5>1, <5>2
      <4> QED BY <3>1, <3>2, <4>1 DEF Binds, NewLinkOf
    <3> QED BY <1>6, <3>1, <3>2, PassShape
  <2>2. CASE Selects(p, r) /\ e \in r.push
    <3>1. UNCHANGED links /\ e \in Unlinked(me.box)
      BY <2>2 DEF Selects, Quiet
    <3> QED BY <1>6, <3>1 DEF Unlinked
  <2> QED BY <1>1, <1>6, <2>1, <2>2, PassPushes
<1> QED BY <1>5, <1>6

\* So a link that a pass makes is the only one of its event and of its row.
LEMMA LinkedOncePass ==
  ASSUME Inv, NEW p \in Passes, NEW r, Works(p, r)
  PROVE  LinkedOnce'
<1>1. TypeOK /\ LinkedOnce /\ LinksKnown /\ GoogleMoves
  BY GoogleStep DEF Inv
<1>2. pass'[p] = r /\ \A q \in Passes : q # p => pass'[q] = pass[q]
  BY <1>1, PassFacts DEF Works
<1>3. \A q \in Passes : NewThen(pass'[q])
  BY <1>2, NewPass, NewOwn
<1>4. (\A q \in Passes : NewOf(pass[q]))'
  BY <1>3 DEF NewThen, NewOf, LinksOf, Alone, NewLink, Pushes
<1>5. \A l \in links' : l \in links \/ (Binds(p, r) /\ l = NewLinkOf(pass[p]))
  BY PassShape, BindFacts
<1>6. ASSUME NEW l \in links', NEW h \in google', h.gid = l.gid, "raced" \notin seen'[h.box]
      PROVE  \E g \in google : g.gid = l.gid /\ g.box = h.box /\ Alone(g.box)
  <2>1. \E g \in google : g.gid = l.gid
    BY <1>1, <1>5, BindFacts DEF LinksKnown
  <2>2. PICK g \in google : g.gid = l.gid /\ g.box = h.box
    BY <1>1, <1>6, <2>1, MovesFacts DEF Successor
  <2>3. g.box \in Boxes
    BY <1>1 DEF TypeOK, EventKind
  <2> QED BY <1>6, <2>2, <2>3, AlonePass
<1>7. ASSUME NEW l1 \in links', NEW l2 \in links', NEW h1 \in google', NEW h2 \in google',
             h1.gid = l1.gid, "raced" \notin seen'[h1.box], h2.gid = l2.gid, "raced" \notin seen'[h2.box],
             (l1.acct = l2.acct /\ l1.gid = l2.gid) \/ l1.local = l2.local
      PROVE  l1 = l2
  <2>1. PICK g1 \in google : g1.gid = l1.gid /\ Alone(g1.box)
    BY <1>6, <1>7
  <2>2. PICK g2 \in google : g2.gid = l2.gid /\ Alone(g2.box)
    BY <1>6, <1>7
  <2>3. CASE l1 \in links /\ l2 \in links
    BY <1>1, <1>7, <2>1, <2>2, <2>3 DEF LinkedOnce
  <2>4. ASSUME Binds(p, r), NEW l \in links, NEW g \in google, g.gid = pass[p].item.gid, Alone(g.box)
        PROVE ~(l.acct = pass[p].id /\ l.gid = pass[p].item.gid) /\ l.local # pass[p].found
    <3>1. g.box = pass[p].box
      BY <2>4, BindFacts
    <3> QED BY <2>4, <3>1, BindNew
  <2>5. NewLinkOf(pass[p]).acct = pass[p].id /\ NewLinkOf(pass[p]).local = pass[p].found /\ NewLinkOf(pass[p]).gid = pass[p].item.gid
    BY DEF NewLinkOf
  <2> QED BY <1>5, <1>7, <2>1, <2>2, <2>3, <2>4, <2>5
<1> QED BY <1>4, <1>7 DEF LinkedOnce, Alone

\* The users make no link.
LEMMA LinkedOnceUser ==
  ASSUME Inv, Users
  PROVE  LinkedOnce'
<1>1. TypeOK /\ Stages /\ LinkedOnce /\ LinksKnown /\ GoogleMoves
  BY GoogleStep DEF Inv
<1>2. UNCHANGED <<pass, links>>
  BY UserShape
<1>3. ASSUME NEW q \in Passes PROVE NewThen(pass[q])
  <2>1. pass[q].box # None => pass[q].box \in Boxes /\ ("raced" \notin seen'[pass[q].box] => Alone(pass[q].box))
    BY <1>1, MeFacts, UserAlone DEF Alone
  <2> QED BY <1>1, <1>2, <2>1 DEF LinkedOnce, NewOf, NewThen, LinksOf
<1>4. (\A q \in Passes : NewOf(pass[q]))'
  BY <1>2, <1>3 DEF NewThen, NewOf, LinksOf, Alone, NewLink, Pushes
<1>5. ASSUME NEW l \in links, NEW h \in google', h.gid = l.gid, "raced" \notin seen'[h.box]
      PROVE  \E g \in google : g.gid = l.gid /\ Alone(g.box)
  <2>1. \E g \in google : g.gid = l.gid
    BY <1>1 DEF LinksKnown
  <2>2. PICK g \in google : g.gid = l.gid /\ g.box = h.box
    BY <1>1, <1>5, <2>1, MovesFacts DEF Successor
  <2>3. g.box \in Boxes
    BY <1>1 DEF TypeOK, EventKind
  <2> QED BY <1>5, <2>2, <2>3, UserAlone DEF Alone
<1>6. ASSUME NEW l1 \in links, NEW l2 \in links, NEW h1 \in google', NEW h2 \in google',
             h1.gid = l1.gid, "raced" \notin seen'[h1.box], h2.gid = l2.gid, "raced" \notin seen'[h2.box],
             (l1.acct = l2.acct /\ l1.gid = l2.gid) \/ l1.local = l2.local
      PROVE  l1 = l2
  BY <1>1, <1>5, <1>6 DEF LinkedOnce
<1> QED BY <1>2, <1>4, <1>6 DEF LinkedOnce, Alone

-----------------------------------------------------------------------------
(* The token a pass goes by.                                               *)

TokenedThen(me, b) ==
  /\ \A id \in 1..MaxAccount : KnowsOf(me, b, id) /\ id # acct'[b].id => acct'[b].token = Null
  /\ \A a \in me.todo : a.box = b /\ a.id = acct'[b].id => a.token = acct'[b].token
  /\ me.box = b /\ me.id = acct'[b].id =>
       /\ me.pc \in {"auth", "list"} => me.token = acct'[b].token
       /\ \A i \in EventKind : Held(me, i) => i.at > acct'[b].token
       /\ \A i \in EventKind : ToStore(me, i) => i.at <= me.next

\* A pass stores a token for the account it has in hand.
LEMMA StoresFacts ==
  ASSUME Inv, NEW p \in Passes, pass[p].box # None, NEW new, Stores(pass[p].id, new), NEW b \in Boxes
  PROVE  acct'[b].id = acct[b].id /\ \/ acct'[b].token = acct[b].token
                                     \/ b = pass[p].box /\ acct[b].id = pass[p].id /\ acct'[b].token = new
BY HandFacts DEF Stores, SameIds

\* The accounts a pass has still to do are of mailboxes.
LEMMA TodoTypes ==
  ASSUME TypeOK, NEW p \in Passes
  PROVE  \A a \in pass[p].todo : a.id \in 1..MaxAccount /\ a.box \in Boxes
BY DEF TypeOK, PassKind, SnapshotKind

\* No other pass knows a mailbox that one is at.
LEMMA OnlyHand ==
  ASSUME Inv, NEW p \in Passes, pass[p].box # None, Alone(pass[p].box), NEW q \in Passes, q # p
  PROVE  /\ \A id \in 1..MaxAccount : ~Knows(q, pass[p].box, id)
         /\ \A a \in pass[q].todo : a.box # pass[p].box
         /\ pass[q].box # pass[p].box
<1>1. TypeOK /\ OneHand
  BY DEF Inv
<1>2. \A id \in 1..MaxAccount : ~Knows(q, pass[p].box, id)
  BY <1>1, HandFacts DEF OneHand
<1>3. \A a \in pass[q].todo : a.id \in 1..MaxAccount
  BY <1>1, TodoTypes
<1> QED BY <1>2, <1>3, HandFacts DEF Knows, KnowsOf

\* The token of a mailbox changes under no pass but the one at it.
LEMMA TokenedOther ==
  ASSUME Inv, NEW p \in Passes, NEW r, Works(p, r), NEW b \in Boxes, "raced" \notin seen'[b], NEW q \in Passes, q # p
  PROVE  TokenedThen(pass[q], b)
<1>1. TypeOK /\ Stages /\ Tokened
  BY DEF Inv
<1>2. Alone(b) /\ TokenedOf(pass[q], b) /\ acct'[b].id = acct[b].id
  BY <1>1, AlonePass, PassShape DEF Tokened, SameIds
<1>3. CASE acct'[b].token = acct[b].token
  BY <1>2, <1>3 DEF TokenedOf, TokenedThen, AtAccount
<1>4. CASE acct'[b].token # acct[b].token
  <2>1. pass[p].box # None /\ \E new : Stores(pass[p].id, new)
    <3>1. Forgets(p, r) \/ (Marks(p, r) /\ Stores(pass[p].id, pass[p].next))
      BY <1>4, PassShape DEF SameTokens
    <3> QED BY <1>1, <3>1, MeFacts DEF Forgets, Marks, StageOf
  <2>2. b = pass[p].box
    BY <1>4, <2>1, StoresFacts
  <2>3. /\ \A id \in 1..MaxAccount : ~Knows(q, b, id)
        /\ \A a \in pass[q].todo : a.box # b
        /\ pass[q].box # b
    BY <1>2, <2>1, <2>2, OnlyHand
  <2> QED BY <2>3 DEF TokenedThen, Knows
<1> QED BY <1>3, <1>4

\* A pass goes by the token of the account, or by none.
LEMMA TokenedOwn ==
  ASSUME Inv, NEW p \in Passes, NEW r, Works(p, r), NEW b \in Boxes, "raced" \notin seen'[b]
  PROVE  TokenedThen(r, b)
<1> DEFINE me == pass[p]
<1>1. TypeOK /\ Stages /\ Tokened /\ IdsOnce /\ OneHand /\ TokenBounds
  BY DEF Inv
<1>2. Alone(b) /\ TokenedOf(me, b) /\ acct'[b].id = acct[b].id
  BY <1>1, AlonePass, PassShape DEF Tokened, SameIds
<1>3. StageOf(me) /\ StageOf(r) /\ r \in PassKind /\ me \in PassKind
  BY <1>1, MeFacts DEF Works, Becomes
<1>4. /\ \A a \in r.todo : a \in me.todo \/ (Loads(p, r) /\ Connected(a.box) /\ a.id = acct[a.box].id)
      /\ r.box = None \/ (r.box = me.box /\ r.id = me.id)
                      \/ (Takes(p, r) /\ \E a \in me.todo : r.box = a.box /\ r.id = a.id)
  BY <1>1, PassAccount
<1>5. None \notin Boxes
  BY CalendarAssumption
<1>6. CASE acct'[b].token = acct[b].token
  <2>1. \A id \in 1..MaxAccount : KnowsOf(r, b, id) /\ id # acct[b].id => acct[b].token = Null
    BY <1>2, <1>4, <1>5 DEF TokenedOf, KnowsOf
  <2>2. \A a \in r.todo : a.box = b /\ a.id = acct[b].id => a.token = acct[b].token
    <3>1. Loads(p, r) => \A a \in r.todo : a.token = acct[a.box].token
      BY <1>1, SnapshotsFacts DEF Loads
    <3> QED BY <1>2, <1>4, <3>1 DEF TokenedOf
  <2>3. ASSUME r.box = b, r.id = acct[b].id, r.pc \in {"auth", "list"} PROVE r.token = acct[b].token
    <3>1. Takes(p, r) \/ Reads(p, r)
      BY <2>3 DEF Works, Loads, Quits, LetsGo, Lists, Forgets, Finds, Deletes, Updates, Imports, Binds,
              Selects, Skips, Posts, Loses, Marks
    <3> QED BY <1>2, <2>3, <3>1 DEF Takes, Reads, SameAccount, TokenedOf, AtAccount
  <2>4. ASSUME r.box = b, r.id = acct[b].id, NEW i \in EventKind, Held(r, i) PROVE i.at > acct[b].token
    <3>1. CASE Held(me, i) /\ SameAccount(r, me)
      BY <1>2, <2>4, <3>1 DEF TokenedOf, AtAccount, SameAccount
    <3>2. CASE Lists(p, r) /\ i \in r.items
      <4>1. me.token = acct[b].token
        BY <1>2, <2>4, <3>2 DEF Lists, SameAccount, TokenedOf, AtAccount
      <4>2. me.token # Null => i.at > me.token
        BY <3>2 DEF Lists, Answers
      <4>3. i.at > Null
        BY BoundsFacts DEF EventKind, Null
      <4> QED BY <4>1, <4>2, <4>3
    <3>3. CASE Posts(p, r) /\ i = r.item
      <4>1. Adds(p, r.found) /\ i = Copy(me.box, r.found) /\ me.box = b
        BY <2>4, <3>3 DEF Posts, SameAccount
      <4>2. i.at = Seq(b) + 1
        <5> DEFINE h == Copy(me.box, r.found)
        <5>1. NewEvent(h) /\ h.box = me.box
          BY <4>1, AddsFacts
        <5> QED BY <4>1, <5>1 DEF NewEvent
      <4>3. acct[b].token <= Seq(b) /\ Seq(b) \in Int /\ acct[b].token \in Int
        BY <1>1, ReachedSeq, TokenTypes, SeqFacts DEF TokenBounds
      <4> QED BY <4>2, <4>3
    <3> QED BY <1>1, <2>4, <3>1, <3>2, <3>3, PassHeld
  <2>5. ASSUME r.box = b, r.id = acct[b].id, NEW i \in EventKind, ToStore(r, i) PROVE i.at <= r.next
    <3>1. CASE ToStore(me, i) /\ r.next = me.next /\ SameAccount(r, me)
      BY <1>2, <2>5, <3>1 DEF TokenedOf, AtAccount, SameAccount
    <3>2. CASE Lists(p, r) /\ i \in r.items
      <4>1. i \in google /\ i.box = b /\ r.next = Seq(b)
        BY <2>5, <3>2 DEF Lists, Answers, SameAccount
      <4> QED BY <1>1, <4>1, SeqFacts
    <3> QED BY <1>1, <2>5, <3>1, <3>2, PassStores
  <2> QED BY <1>2, <1>6, <2>1, <2>2, <2>3, <2>4, <2>5 DEF TokenedThen
<1>7. CASE acct'[b].token # acct[b].token
  <2>1. Forgets(p, r) \/ (Marks(p, r) /\ Stores(me.id, me.next))
    BY <1>7, PassShape DEF SameTokens
  <2>2. me.box # None /\ (Stores(me.id, Null) \/ Stores(me.id, me.next)) /\ r.todo \subseteq me.todo
        /\ r.pc \in {"select", "idle", "next", "error"} /\ (r.box = None \/ (r.box = me.box /\ r.id = me.id))
    BY <1>3, <2>1 DEF Forgets, Marks, LetsGo, StageOf, SameAccount
  <2>3. b = me.box /\ acct[b].id = me.id /\ me.id \in 1..MaxAccount
    BY <1>7, <2>2, StoresFacts, HandFacts
  <2>4. \A a \in r.todo : a.box # b
    BY <1>3, <2>2, <2>3 DEF StageOf
  <2>5. \A id \in 1..MaxAccount : KnowsOf(r, b, id) => id = acct[b].id
    BY <1>5, <2>2, <2>3, <2>4 DEF KnowsOf
  <2>6. \A i \in EventKind : ~Held(r, i) /\ ~ToStore(r, i)
    BY <1>3, <2>2, CalendarAssumption DEF StageOf, Held, ToStore
  <2> QED BY <1>2, <2>2, <2>4, <2>5, <2>6 DEF TokenedThen
<1> QED BY <1>6, <1>7

\* Together: the tokens that passes go by, after a step of one.
LEMMA TokenedPass ==
  ASSUME Inv, NEW p \in Passes, NEW r, Works(p, r)
  PROVE  Tokened'
<1>1. TypeOK
  BY DEF Inv
<1>2. pass'[p] = r /\ \A q \in Passes : q # p => pass'[q] = pass[q]
  BY <1>1, PassFacts DEF Works
<1>3. \A b \in Boxes : "raced" \notin seen'[b] => \A q \in Passes : TokenedThen(pass'[q], b)
  BY <1>2, TokenedOther, TokenedOwn
<1> QED BY <1>3 DEF Tokened, Alone, TokenedThen, TokenedOf, AtAccount, KnowsOf, Held, ToStore

\* And after a step of a user.
LEMMA TokenedUser ==
  ASSUME Inv, Users
  PROVE  Tokened'
<1>1. TypeOK /\ Stages /\ Tokened /\ IdsOnce
  BY DEF Inv
<1>2. UNCHANGED pass
  BY UserShape
<1>3. ASSUME NEW b \in Boxes, "raced" \notin seen'[b], NEW q \in Passes PROVE TokenedThen(pass[q], b)
  <2>1. TokenedOf(pass[q], b)
    BY <1>1, <1>3, UserAlone DEF Tokened, Alone
  <2>2. pass[q].box # None => pass[q].id \in 1..MaxAccount
    BY <1>1, MeFacts
  <2>3. None \notin Boxes /\ Null \notin 1..MaxAccount
    BY CalendarAssumption DEF Null
  <2>4. \A a \in pass[q].todo : a.id \in 1..MaxAccount
    BY <1>1, TodoTypes
  <2>5. CASE acct'[b].id = acct[b].id /\ acct'[b].token = acct[b].token
    BY <2>1, <2>5 DEF TokenedOf, TokenedThen, AtAccount
  <2>6. CASE acct'[b] = NoAccount
    BY <2>2, <2>3, <2>4, <2>6, NoAccountFacts DEF TokenedThen
  <2>7. CASE callback[b] # None /\ acct'[b].id = callback[b].id /\ acct'[b].token = Null
    <3>1. \A id \in 1..MaxAccount : KnowsOf(pass[q], b, id) => id # callback[b].id
      BY <1>1, <2>7 DEF IdsOnce, Owns, Knows
    <3> QED BY <2>2, <2>3, <2>4, <2>7, <3>1 DEF TokenedThen, KnowsOf
  <2> QED BY <1>3, <2>5, <2>6, <2>7, UserAccounts
<1>4. \A b \in Boxes : "raced" \notin seen'[b] => \A q \in Passes : TokenedThen(pass'[q], b)
  BY <1>2, <1>3
<1> QED BY <1>4 DEF Tokened, Alone, TokenedThen, TokenedOf, AtAccount, KnowsOf, Held, ToStore

-----------------------------------------------------------------------------
(* The rows of what is linked.                                             *)

HasRowThen(id) == id \in removed' \/ \E x \in rows' : x.id = id
ShowsThen(id, at) == \A x \in rows' : x.id = id => x.ver = Mine \/ x.ver >= at

InPlaceThen(me, b) ==
  me.box = b /\ me.id = acct'[b].id =>
    /\ me.pc = "link" => HasRowThen(me.found) /\ ShowsThen(me.found, me.item.at)
    /\ \A e \in Locals : Pushes(me, e) => HasRowThen(e)

\* A cancelled event stays cancelled.
LEMMA DeadStays ==
  ASSUME Inv, GoogleMoves, NEW g \in google, ~g.live
  PROVE  g \in google'
BY MovesFacts DEF Successor

\* No pass mends a disconnect that has stopped half-way.
LEMMA WholePass ==
  ASSUME NEW p \in Passes, NEW r, Works(p, r), NEW b \in Boxes, Whole(b)'
  PROVE  Whole(b)
BY PassShape DEF SeenGrows, Whole, Alone

\* What the rows of a pass are, where it writes one.
LEMMA RowsThen ==
  ASSUME Inv, NEW p \in Passes, NEW r, Works(p, r)
  PROVE  /\ UNCHANGED removed
         /\ \A y \in rows : (\E x \in rows' : x.id = y.id) \/ (Deletes(p, r) /\ y.id = pass[p].found)
         /\ \A x \in rows' : \/ \E y \in rows : x.id = y.id /\ (x.ver = y.ver \/ (Updates(p, r) /\ x.id = pass[p].found /\ x.ver = pass[p].item.at))
                             \/ Imports(p, r) /\ x.id = r.found /\ x.ver = r.item.at
<1>1. TypeOK /\ Stages
  BY DEF Inv
<1>2. UNCHANGED removed
  BY PassShape
<1>3. CASE UNCHANGED rows
  BY <1>2, <1>3
<1>4. CASE Deletes(p, r)
  BY <1>2, <1>4 DEF Deletes
<1>5. CASE Updates(p, r)
  <2>1. pass[p].item \in EventKind
    BY <1>1, <1>5, MeFacts DEF Updates, Writes, StageOf, PassKind
  <2>2. pass[p].item.at \in 0..LastSeq
    BY <2>1, BoundsFacts DEF EventKind
  <2>3. /\ \A x \in rows' : \E y \in rows : x.id = y.id /\ x.ver = IF y.id = pass[p].found THEN pass[p].item.at ELSE y.ver
        /\ \A y \in rows : \E x \in rows' : x.id = y.id
    BY <1>1, <1>5, <2>2, RowsWritten DEF Updates
  <2> QED BY <1>2, <1>5, <2>3
<1>6. CASE Imports(p, r)
  BY <1>2, <1>6 DEF Imports
<1> QED BY <1>3, <1>4, <1>5, <1>6, PassShape

\* A row goes while a pass works only where it was cancelled at Google.
LEMMA HasPass ==
  ASSUME Inv, NEW p \in Passes, NEW r, Works(p, r), NEW id, HasRow(id), Deletes(p, r) => id # pass[p].found
  PROVE  HasRowThen(id)
BY RowsThen DEF HasRow, HasRowThen

\* A pass writes to the row it found, and to no other.
LEMMA ShowsPass ==
  ASSUME Inv, NEW p \in Passes, NEW r, Works(p, r), NEW id, NEW at, ShowsAt(id, at),
         Updates(p, r) => id # pass[p].found, Imports(p, r) => id # r.found
  PROVE  ShowsThen(id, at)
<1>1. \A x \in rows' : x.id = id => \E y \in rows : x.id = y.id /\ x.ver = y.ver
  BY RowsThen
<1> QED BY <1>1 DEF ShowsAt, ShowsThen

\* A row goes while the users work only by its owner, or by a disconnect.
LEMMA HasUser ==
  ASSUME Inv, Users, NEW id, HasRow(id), NEW b \in Boxes, "cut" \notin seen'[b] \/ DeleteAccount(b),
         \A x \in rows : x.id = id => x.box = b
  PROVE  HasRowThen(id)
<1>1. TypeOK
  BY DEF Inv
<1>2. removed \subseteq removed'
  BY UserShape DEF Remove
<1>3. ASSUME NEW x \in rows, x.id = id PROVE HasRowThen(id)
  <2>1. ASSUME NEW c \in Boxes, DeleteImported(c) PROVE x \in rows'
    <3>1. c # b
      <4>1. "cut" \in seen'[c] /\ ~DeleteAccount(b)
        <5>1. acct[c] # NoAccount /\ UNCHANGED acct /\ c \notin leaving /\ leaving' = leaving \cup {c}
          BY <2>1 DEF DeleteImported
        <5>2. "cut" \in seen'[c]
          BY <1>1, <2>1 DEF DeleteImported, TypeOK
        <5>3. ~DeleteAccount(b)
          BY <5>1 DEF DeleteAccount
        <5> QED BY <5>2, <5>3
      <4> QED BY <4>1
    <3> QED BY <1>3, <2>1, <3>1 DEF DeleteImported
  <2>2. ASSUME NEW c \in Boxes, NEW d \in Locals, Create(c, d) PROVE x \in rows'
    BY <2>2 DEF Create
  <2>3. ASSUME NEW y \in rows, Update(y) PROVE \E z \in rows' : z.id = x.id
    BY <1>1, <2>3, UpdatedFacts
  <2>4. ASSUME NEW y \in rows, Remove(y) PROVE x \in rows' \/ x.id \in removed'
    BY <2>4 DEF Remove
  <2> QED BY <1>3, <2>1, <2>2, <2>3, <2>4, UserShape DEF HasRowThen
<1> QED BY <1>2, <1>3 DEF HasRow, HasRowThen

\* What users write, a row shows.
LEMMA ShowsUser ==
  ASSUME Inv, Users, NEW id, NEW at, ShowsAt(id, at)
  PROVE  ShowsThen(id, at)
BY RowsUser DEF ShowsAt, ShowsThen

\* The rows that another pass will link stay.
LEMMA InPlaceOther ==
  ASSUME Inv, NEW p \in Passes, NEW r, Works(p, r), NEW b \in Boxes, Whole(b)', NEW q \in Passes, q # p
  PROVE  InPlaceThen(pass[q], b)
<1> DEFINE you == pass[q]
<1>1. TypeOK /\ Stages /\ Finding /\ LinkedOnce /\ InPlace
  BY DEF Inv
<1>2. Whole(b) /\ Alone(b) /\ InPlaceOf(you, b) /\ acct'[b].id = acct[b].id
  BY <1>1, WholePass, PassShape DEF InPlace, Whole, SameIds
<1>3. FoundOf(you) /\ NewOf(you) /\ FoundOf(pass[p]) /\ StageOf(you)
  BY <1>1 DEF Finding, LinkedOnce, Stages
<1>4. Deletes(p, r) \/ Updates(p, r) => \E l \in links : l.local = pass[p].found
  BY <1>3 DEF Deletes, Updates, Writes, FoundOf
<1>5. you.pc = "link" => /\ Deletes(p, r) \/ Updates(p, r) => you.found # pass[p].found
                         /\ Imports(p, r) => you.found # r.found
  <2>1. you.pc = "link" => \A l \in links : l.local # you.found
    BY <1>3 DEF FoundOf
  <2>2. you.found \in Used
    BY DEF Used
  <2>3. Imports(p, r) => r.found \notin Used
    BY DEF Imports
  <2> QED BY <1>4, <2>1, <2>2, <2>3
<1>6. ASSUME you.box = b, NEW e \in Locals, Pushes(you, e) PROVE Deletes(p, r) => e # pass[p].found
  BY <1>2, <1>3, <1>4, <1>6, CalendarAssumption DEF NewOf
<1> QED BY <1>2, <1>5, <1>6, HasPass, ShowsPass DEF InPlaceOf, InPlaceThen, AtAccount

\* The row a pass will link is there, as it wrote it.
LEMMA InPlaceOwn ==
  ASSUME Inv, NEW p \in Passes, NEW r, Works(p, r), NEW b \in Boxes, Whole(b)'
  PROVE  InPlaceThen(r, b)
<1> DEFINE me == pass[p]
<1>1. TypeOK /\ Stages /\ Finding /\ LinkedOnce /\ InPlace
  BY DEF Inv
<1>2. Whole(b) /\ InPlaceOf(me, b) /\ acct'[b].id = acct[b].id
  BY <1>1, WholePass, PassShape DEF InPlace, SameIds
<1>3. StageOf(me) /\ StageOf(r) /\ r \in PassKind /\ me \in PassKind
  BY <1>1, MeFacts DEF Works, Becomes
<1>4. ASSUME r.pc = "link" PROVE HasRowThen(r.found) /\ ShowsThen(r.found, r.item.at)
  <2>1. Imports(p, r)
    BY <1>4 DEF Works, Loads, Quits, LetsGo, Takes, Reads, Lists, Forgets, Finds, Deletes, Updates, Binds, Selects,
            Skips, Posts, Loses, Marks
  <2> DEFINE x == [id |-> r.found, box |-> r.box, source |-> "google", ver |-> r.item.at]
  <2>2. rows' = rows \cup {x} /\ r.found \notin Used
    BY <2>1 DEF Imports
  <2>3. x.id = r.found /\ x.ver = r.item.at
    OBVIOUS
  <2>4. r.item \in EventKind
    BY <1>3, <1>4 DEF StageOf, PassKind
  <2>5. r.item.at \in Nat
    BY <2>4, BoundsFacts DEF EventKind
  <2>6. \A y \in rows : y.id # r.found
    BY <2>2 DEF Used
  <2> HIDE DEF x
  <2>7. x.ver >= r.item.at
    BY <2>3, <2>5
  <2> QED BY <2>2, <2>3, <2>6, <2>7 DEF HasRowThen, ShowsThen
<1>5. ASSUME r.box = b, r.id = acct[b].id, NEW e \in Locals, Pushes(r, e) PROVE HasRowThen(e)
  <2>1. HasRow(e)
    <3>1. CASE Pushes(me, e) /\ SameAccount(r, me)
      BY <1>2, <1>5, <3>1 DEF InPlaceOf, AtAccount, SameAccount
    <3>2. CASE Selects(p, r) /\ e \in r.push
      BY <3>2 DEF Selects, Unlinked, HasRow
    <3> QED BY <1>1, <1>5, <3>1, <3>2, PassPushes
  <2>2. ~Deletes(p, r)
    BY <1>3, <1>5 DEF Deletes, Pushes, StageOf
  <2> QED BY <2>1, <2>2, HasPass
<1> QED BY <1>2, <1>4, <1>5 DEF InPlaceThen

\* The row of a link is there, deleted by its owner, or cancelled.
LEMMA LinksInPlacePass ==
  ASSUME Inv, NEW p \in Passes, NEW r, Works(p, r), NEW b \in Boxes, Whole(b)', NEW l \in links', l.acct = acct[b].id
  PROVE  HasRowThen(l.local) \/ \E g \in google' : g.gid = l.gid /\ ~g.live
<1> DEFINE me == pass[p]
<1>1. TypeOK /\ Stages /\ Finding /\ LinkedOnce /\ InPlace /\ LinksKnown /\ Listing
  BY DEF Inv
<1>2. GoogleMoves
  BY GoogleStep
<1>3. Whole(b) /\ Alone(b) /\ LinksInPlace(b) /\ InPlaceOf(me, b)
  BY <1>1, WholePass DEF InPlace, Whole
<1>4. CASE l \in links
  <2>1. HasRow(l.local) \/ \E g \in google : g.gid = l.gid /\ ~g.live
    BY <1>3, <1>4 DEF LinksInPlace
  <2>2. CASE Deletes(p, r) /\ l.local = me.found /\ l.local \notin removed /\ HasRow(l.local)
    <3>1. me.pc = "apply" /\ me.found # None /\ ~me.item.live
      BY <2>2 DEF Deletes, Writes
    <3>2. PICK k \in links : k.acct = me.id /\ k.local = me.found /\ k.gid = me.item.gid
      BY <1>1, <3>1 DEF Finding, FoundOf
    <3>3. me.box # None /\ me.item \in EventKind
      BY <1>1, <3>1, MeFacts DEF StageOf, PassKind
    <3>4. Owns(me.box, me.id) /\ me.box \in Boxes /\ Owns(b, l.acct)
      BY <1>4, <3>3, HandFacts DEF Owns
    <3>5. PICK g \in google : g.gid = k.gid
      BY <1>1 DEF LinksKnown
    <3>6. PICK h \in google : h.gid = l.gid
      BY <1>1, <1>4 DEF LinksKnown
    <3>7. g.box = me.box /\ h.box = b
      BY <1>1, <1>4, <3>2, <3>4, <3>5, <3>6 DEF LinksKnown
    <3>8. PICK x \in rows : x.id = me.found
      BY <2>2 DEF HasRow
    <3>9. x.box = g.box /\ x.box = h.box
      BY <1>1, <1>4, <2>2, <3>2, <3>5, <3>6, <3>8 DEF LinksKnown
    <3>10. l = k
      BY <1>1, <1>3, <1>4, <2>2, <3>2, <3>5, <3>6, <3>7, <3>9 DEF LinkedOnce
    <3>11. g = me.item
      BY <3>1, <3>2, <3>3, <3>5, ItemFacts DEF Held
    <3> QED BY <1>2, <3>1, <3>5, <3>10, <3>11, DeadStays
  <2>3. HasRow(l.local) /\ ~(Deletes(p, r) /\ l.local = me.found /\ l.local \notin removed) => HasRowThen(l.local)
    <3>1. l.local \in removed => HasRowThen(l.local)
      BY PassShape DEF HasRowThen
    <3> QED BY <3>1, HasPass
  <2>4. (\E g \in google : g.gid = l.gid /\ ~g.live) => \E g \in google' : g.gid = l.gid /\ ~g.live
    BY <1>2, DeadStays
  <2> QED BY <2>1, <2>2, <2>3, <2>4
<1>5. CASE l \notin links
  <2>1. Binds(p, r)
    BY <1>5, PassShape
  <2>2. l.acct = me.id /\ l.local = me.found /\ me.pc \in {"link", "linkpost"}
    BY <1>5, <2>1 DEF Binds, NewLinkOf
  <2>3. StageOf(me) /\ me.box # None
    BY <1>1, <2>2, MeFacts DEF StageOf
  <2>4. me.box = b /\ me.id = acct[b].id
    BY <2>2, <2>3, HandFacts
  <2>5. HasRow(me.found)
    BY <1>3, <2>2, <2>3, <2>4 DEF InPlaceOf, AtAccount, Pushes, StageOf
  <2> QED BY <2>1, <2>2, <2>5 DEF Binds, HasRow, HasRowThen
<1> QED BY <1>4, <1>5

\* Together: the rows of what is linked, after a step of a pass.
LEMMA InPlacePass ==
  ASSUME Inv, NEW p \in Passes, NEW r, Works(p, r)
  PROVE  InPlace'
<1>1. TypeOK
  BY DEF Inv
<1>2. pass'[p] = r /\ \A q \in Passes : q # p => pass'[q] = pass[q]
  BY <1>1, PassFacts DEF Works
<1>3. \A b \in Boxes : Whole(b)' => \A q \in Passes : InPlaceThen(pass'[q], b)
  BY <1>2, InPlaceOther, InPlaceOwn
<1>4. \A b \in Boxes : acct'[b].id = acct[b].id
  BY PassShape DEF SameIds
<1>5. \A b \in Boxes : Whole(b)' => \A l \in links' : l.acct = acct'[b].id =>
        HasRowThen(l.local) \/ \E g \in google' : g.gid = l.gid /\ ~g.live
  BY <1>4, LinksInPlacePass
<1> QED BY <1>3, <1>5 DEF InPlace, InPlaceThen, InPlaceOf, LinksInPlace, HasRow, HasRowThen, ShowsAt, ShowsThen, AtAccount, Pushes

\* Only the end of a disconnect mends what one has cut, and then no account is there.
LEMMA WholeUser ==
  ASSUME Inv, Users, NEW b \in Boxes, Whole(b)'
  PROVE  Whole(b) \/ (DeleteAccount(b) /\ acct'[b].id = Null)
<1>1. TypeOK
  BY DEF Inv
<1>2. Alone(b)
  BY UserAlone DEF Whole
<1>3. "cut" \in seen[b] => DeleteAccount(b)
  <2>1. ASSUME NEW c \in Boxes, DeleteImported(c) PROVE seen[b] \subseteq seen'[b]
    BY <1>1, <2>1 DEF DeleteImported, TypeOK
  <2>2. ASSUME NEW c \in Boxes, DeleteAccount(c), c # b PROVE seen[b] \subseteq seen'[b]
    BY <1>1, <2>2 DEF DeleteAccount, TypeOK
  <2> QED BY <2>1, <2>2, UserShape DEF Whole
<1>4. DeleteAccount(b) => acct'[b].id = Null
  BY <1>1, NoAccountFacts DEF DeleteAccount, TypeOK
<1> QED BY <1>2, <1>3, <1>4 DEF Whole

\* The links and the passes of an account that is new, or gone, are none.
LEMMA NewAccount ==
  ASSUME Inv, Users, NEW b \in Boxes, acct'[b].id # acct[b].id
  PROVE  /\ \A l \in links : l.acct # acct'[b].id
         /\ \A p \in Passes : ~(pass[p].box = b /\ pass[p].id = acct'[b].id)
<1>1. TypeOK /\ Stages /\ IdsOnce
  BY DEF Inv
<1>2. Null \notin 1..MaxAccount /\ None \notin Boxes
  BY CalendarAssumption DEF Null
<1>3. \A l \in links : l.acct \in 1..MaxAccount
  BY <1>1 DEF TypeOK, LinkKind
<1>4. \A p \in Passes : pass[p].box = b => pass[p].id \in 1..MaxAccount /\ Owns(b, pass[p].id)
  BY <1>2, HandFacts
<1>5. CASE acct'[b] = NoAccount
  BY <1>2, <1>3, <1>4, <1>5, NoAccountFacts
<1>6. CASE callback[b] # None /\ acct'[b].id = callback[b].id
  <2>1. ~Owns(b, callback[b].id) /\ \A l \in links : l.acct # callback[b].id
    BY <1>1, <1>6 DEF IdsOnce
  <2> QED BY <1>4, <1>6, <2>1
<1> QED BY <1>5, <1>6, UserAccounts

\* And after a step of a user.
LEMMA InPlaceUser ==
  ASSUME Inv, Users
  PROVE  InPlace'
<1>1. TypeOK /\ Stages /\ InPlace /\ LinksKnown /\ Finding /\ GoogleMoves
  BY GoogleStep DEF Inv
<1>2. UNCHANGED <<pass, links>>
  BY UserShape
<1>3. ASSUME NEW b \in Boxes, Whole(b)'
      PROVE  /\ \A l \in links : l.acct = acct'[b].id =>
                  HasRowThen(l.local) \/ \E g \in google' : g.gid = l.gid /\ ~g.live
             /\ \A q \in Passes : InPlaceThen(pass[q], b)
  <2>1. CASE acct'[b].id # acct[b].id
    BY <2>1, NewAccount DEF InPlaceThen
  <2>2. CASE acct'[b].id = acct[b].id
    <3>1. Whole(b) \/ (DeleteAccount(b) /\ acct'[b].id = Null)
      BY <1>3, WholeUser
    <3>2. CASE acct'[b].id = Null
      <4>1. Null \notin 1..MaxAccount /\ None \notin Boxes
        BY CalendarAssumption DEF Null
      <4>2. \A l \in links : l.acct # Null
        BY <1>1, <4>1 DEF TypeOK, LinkKind
      <4>3. \A q \in Passes : pass[q].box = b => pass[q].id # Null
        BY <4>1, HandFacts
      <4> QED BY <3>2, <4>2, <4>3 DEF InPlaceThen
    <3>3. CASE Whole(b)
      <4>1. LinksInPlace(b) /\ \A q \in Passes : InPlaceOf(pass[q], b)
        BY <1>1, <3>3 DEF InPlace
      <4>2. "cut" \notin seen'[b]
        BY <1>3 DEF Whole
      <4>3. ASSUME NEW l \in links, l.acct = acct[b].id
            PROVE  HasRowThen(l.local) \/ \E g \in google' : g.gid = l.gid /\ ~g.live
        <5>1. \A x \in rows : x.id = l.local => x.box = b
          <6>1. PICK g \in google : g.gid = l.gid
            BY <1>1 DEF LinksKnown
          <6>2. g.box = b
            BY <1>1, <4>3, <6>1 DEF LinksKnown, Owns
          <6> QED BY <1>1, <6>1, <6>2 DEF LinksKnown
        <5>2. HasRow(l.local) => HasRowThen(l.local)
          BY <4>2, <5>1, HasUser
        <5> QED BY <1>1, <4>1, <4>3, <5>2, DeadStays DEF LinksInPlace
      <4>4. ASSUME NEW q \in Passes PROVE InPlaceThen(pass[q], b)
        <5>1. FoundOf(pass[q]) /\ InPlaceOf(pass[q], b)
          BY <1>1, <4>1 DEF Finding
        <5>2. ASSUME pass[q].box = b, NEW id, HasRow(id), \A x \in rows : x.id = id => x.box = pass[q].box PROVE HasRowThen(id)
          BY <4>2, <5>2, HasUser
        <5>3. pass[q].box = b /\ pass[q].id = acct[b].id /\ pass[q].pc = "link" =>
                HasRowThen(pass[q].found) /\ ShowsThen(pass[q].found, pass[q].item.at)
          BY <5>1, <5>2, ShowsUser DEF FoundOf, InPlaceOf, AtAccount
        <5>4. pass[q].box = b /\ pass[q].id = acct[b].id => \A e \in Locals : Pushes(pass[q], e) => HasRowThen(e)
          BY <5>1, <5>2 DEF FoundOf, InPlaceOf, AtAccount
        <5> QED BY <2>2, <5>3, <5>4 DEF InPlaceThen
      <4> QED BY <2>2, <4>3, <4>4
    <3> QED BY <2>2, <3>1, <3>2, <3>3
  <2> QED BY <2>1, <2>2
<1>4. \A b \in Boxes : Whole(b)' =>
        /\ \A l \in links' : l.acct = acct'[b].id =>
             HasRowThen(l.local) \/ \E g \in google' : g.gid = l.gid /\ ~g.live
        /\ \A q \in Passes : InPlaceThen(pass'[q], b)
  BY <1>2, <1>3
<1> QED BY <1>4 DEF InPlace, InPlaceThen, InPlaceOf, LinksInPlace, HasRow, HasRowThen, ShowsAt, ShowsThen, AtAccount, Pushes

-----------------------------------------------------------------------------
(* What the calendar shows.                                                *)

ShownThen(b, g) ==
  IF g.live THEN g.timed /\ g \notin missed' =>
                   /\ \E l \in links' : l.acct = acct'[b].id /\ l.gid = g.gid
                   /\ \A l \in links' : l.acct = acct'[b].id /\ l.gid = g.gid => ShowsThen(l.local, g.at)
            ELSE \/ "relist" \in seen'[b]
                 \/ \A l \in links' : l.acct = acct'[b].id /\ l.gid = g.gid => \A x \in rows' : x.id # l.local

\* Google has not replaced it since what the account, or a pass at it, has got to.
Settled(b, g) ==
  g.at <= acct[b].token \/ \E q \in Passes : AtAccount(pass[q], b) /\ g.at <= pass[q].next

\* Such an event, in the hands of a pass, is the version there is, and it was listed.
LEMMA SettledItem ==
  ASSUME Inv, NEW b \in Boxes, Alone(b), NEW p \in Passes, AtAccount(pass[p], b),
         NEW i \in EventKind, Held(pass[p], i), NEW g \in google, g.gid = i.gid, Settled(b, g)
  PROVE  g = i /\ g.at <= pass[p].next
<1>1. TypeOK /\ Tokened
  BY DEF Inv
<1>2. None \notin Boxes
  BY CalendarAssumption
<1>3. g = i \/ (g.at > i.at /\ g.at > pass[p].next)
  BY ItemFacts
<1>4. i.at > acct[b].token
  BY <1>1 DEF Tokened, TokenedOf
<1>5. g.at <= acct[b].token \/ g.at <= pass[p].next
  <2>1. ASSUME NEW q \in Passes, AtAccount(pass[q], b) PROVE q = p
    BY <1>2, <2>1, SameHand DEF AtAccount
  <2> QED BY <2>1 DEF Settled
<1>6. g.at \in Int /\ i.at \in Int /\ acct[b].token \in Int /\ pass[p].next \in Int
  BY <1>1, TokenTypes, BoundsFacts DEF TypeOK, EventKind
<1> QED BY <1>3, <1>4, <1>5, <1>6

\* The link a pass has found is the only one of its row, and of its event.
LEMMA FoundLink ==
  ASSUME Inv, NEW p \in Passes, pass[p].pc = "apply", pass[p].found # None
  PROVE  \E k \in links : /\ k.acct = pass[p].id /\ k.local = pass[p].found /\ k.gid = pass[p].item.gid
                          /\ \A l \in links, b \in Boxes :
                               /\ (\E x \in rows : x.id = l.local) /\ l.local = pass[p].found /\ Alone(b)
                                    /\ l.acct = acct[b].id => l = k /\ pass[p].box = b
                               /\ l.acct = pass[p].id /\ l.gid = pass[p].item.gid /\ Alone(pass[p].box) => l = k
<1> DEFINE me == pass[p]
<1>1. TypeOK /\ Stages /\ Finding /\ LinkedOnce /\ LinksKnown
  BY DEF Inv
<1>2. PICK k \in links : k.acct = me.id /\ k.local = me.found /\ k.gid = me.item.gid
  BY <1>1 DEF Finding, FoundOf
<1>3. me.box # None
  BY <1>1, MeFacts DEF StageOf
<1>4. PICK g \in google : g.gid = k.gid
  BY <1>1 DEF LinksKnown
<1>5. g.box = me.box
  BY <1>1, <1>2, <1>3, <1>4, HandFacts DEF LinksKnown
<1>6. ASSUME NEW l \in links, NEW b \in Boxes, NEW x \in rows, x.id = l.local, l.local = me.found, Alone(b), l.acct = acct[b].id
      PROVE  l = k /\ me.box = b
  <2>1. PICK h \in google : h.gid = l.gid
    BY <1>1 DEF LinksKnown
  <2>2. h.box = b /\ x.box = h.box /\ x.box = g.box
    BY <1>1, <1>2, <1>4, <1>6, <2>1 DEF LinksKnown, Owns
  <2> QED BY <1>1, <1>2, <1>4, <1>5, <1>6, <2>1, <2>2 DEF LinkedOnce
<1>7. ASSUME NEW l \in links, l.acct = me.id, l.gid = me.item.gid, Alone(me.box) PROVE l = k
  BY <1>1, <1>2, <1>4, <1>5, <1>7 DEF LinkedOnce
<1> HIDE DEF me
<1>8. \A l \in links, b \in Boxes :
        /\ (\E x \in rows : x.id = l.local) /\ l.local = me.found /\ Alone(b)
             /\ l.acct = acct[b].id => l = k /\ me.box = b
        /\ l.acct = me.id /\ l.gid = me.item.gid /\ Alone(me.box) => l = k
  BY <1>6, <1>7
<1> QED BY <1>2, <1>8 DEF me

\* What is shown stays shown while a pass works.
LEMMA ShownPass ==
  ASSUME Inv, missed \subseteq missed', NEW p \in Passes, NEW r, Works(p, r), NEW b \in Boxes, Whole(b)',
         NEW g \in google, g.box = b, Shown(b, g), Settled(b, g)
  PROVE  ShownThen(b, g)
<1> DEFINE me == pass[p]
<1>1. TypeOK /\ Stages /\ InPlace
  BY DEF Inv
<1>2. Whole(b) /\ Alone(b) /\ acct'[b].id = acct[b].id /\ ("relist" \in seen[b] => "relist" \in seen'[b])
  BY WholePass, PassShape DEF Whole, SameIds, SeenGrows
<1>3. ASSUME NEW l \in links, l.acct = acct[b].id, l.gid = g.gid, ShowsAt(l.local, g.at) PROVE ShowsThen(l.local, g.at)
  <2>1. CASE Updates(p, r) /\ l.local = me.found
    <3>1. me.pc = "apply" /\ me.found # None
      BY <2>1 DEF Updates, Writes
    <3>2. PICK k \in links : /\ k.acct = me.id /\ k.local = me.found /\ k.gid = me.item.gid
                             /\ (\E x \in rows : x.id = l.local) => l = k /\ me.box = b
      BY <1>2, <1>3, <2>1, <3>1, FoundLink
    <3>3. CASE \E x \in rows : x.id = l.local
      <4>1. me.item \in EventKind /\ Held(me, me.item) /\ AtAccount(me, b) /\ g.gid = me.item.gid
        BY <1>1, <1>3, <3>1, <3>2, <3>3, MeFacts DEF StageOf, PassKind, Held, AtAccount
      <4>2. g = me.item
        BY <1>2, <4>1, SettledItem
      <4>3. \A x \in rows' : x.id = l.local => x.ver = g.at \/ \E y \in rows : y.id = x.id /\ x.ver = y.ver
        BY <2>1, <4>2, RowsThen DEF Updates, Imports
      <4>4. g.at \in Int
        BY <1>1, BoundsFacts DEF TypeOK, EventKind
      <4>5. \A x \in rows' : x.id = l.local /\ x.ver = g.at => x.ver >= g.at
        BY <4>4
      <4> QED BY <1>3, <4>3, <4>5 DEF ShowsAt, ShowsThen
    <3>4. CASE ~ \E x \in rows : x.id = l.local
      BY <2>1, <3>4, RowsThen DEF Updates, Imports, ShowsThen
    <3> QED BY <3>3, <3>4
  <2>2. CASE ~(Updates(p, r) /\ l.local = me.found)
    <3>1. Imports(p, r) => l.local # r.found
      BY DEF Imports, Used
    <3> QED BY <1>3, <2>2, <3>1, ShowsPass
  <2> QED BY <2>1, <2>2
<1>4. ASSUME NEW l \in links, \A x \in rows : x.id # l.local PROVE \A x \in rows' : x.id # l.local
  <2>1. Imports(p, r) => l.local # r.found
    BY DEF Imports, Used
  <2> QED BY <1>4, <2>1, RowsThen
<1>5. ASSUME NEW l \in links', l \notin links, l.acct = acct[b].id, l.gid = g.gid
      PROVE  g.live /\ ShowsThen(l.local, g.at)
  <2>1. Binds(p, r) /\ l.acct = me.id /\ l.local = me.found /\ l.gid = me.item.gid
    BY <1>5, PassShape DEF Binds, NewLinkOf
  <2>2. me.item \in EventKind /\ Held(me, me.item) /\ me.box \in Boxes
    BY <2>1, BindFacts
  <2>3. AtAccount(me, b)
    BY <1>5, <2>1, <2>2, HandFacts, CalendarAssumption DEF AtAccount
  <2>4. g = me.item /\ g.at <= me.next
    BY <1>2, <1>5, <2>1, <2>2, <2>3, SettledItem
  <2>5. me.pc = "link"
    <3>1. me.pc = "linkpost" => me.item.at > me.next
      BY <1>1, MeFacts DEF StageOf
    <3>2. g.at \in Int /\ me.next \in Int
      BY <1>1, TokenTypes, BoundsFacts DEF TypeOK, EventKind
    <3> QED BY <2>1, <2>4, <3>1, <3>2 DEF Binds
  <2>6. me.item.live /\ ShowsAt(me.found, me.item.at)
    BY <1>1, <1>2, <2>3, <2>5, MeFacts DEF InPlace, InPlaceOf, StageOf
  <2> QED BY <2>1, <2>4, <2>6 DEF Binds, ShowsAt, ShowsThen
<1>6. links \subseteq links'
  BY PassShape DEF Binds
<1>7. CASE g.live
  BY <1>2, <1>3, <1>5, <1>6, <1>7 DEF Shown, ShownThen, LinksOf
<1>8. CASE ~g.live
  BY <1>2, <1>4, <1>5, <1>6, <1>8 DEF Shown, ShownThen, LinksOf
<1> QED BY <1>7, <1>8

\* What a pass had to store, it has stored, or has still to.
LEMMA StoredPass ==
  ASSUME Inv, NEW p \in Passes, NEW r, Works(p, r), NEW b \in Boxes, Whole(b)', AtAccount(pass[p], b),
         NEW g \in google, g.box = b, g.at <= pass[p].next, r.next = pass[p].next, SameAccount(r, pass[p]),
         NEW i \in EventKind, ToStore(pass[p], i), i.gid = g.gid
  PROVE  ShownThen(b, g) \/ ToStore(r, i)
<1> DEFINE me == pass[p]
<1>1. TypeOK /\ Stages /\ Finding /\ LinkedOnce /\ InPlace
  BY DEF Inv
<1>2. Whole(b) /\ Alone(b) /\ acct'[b].id = acct[b].id /\ me.id = acct[b].id /\ me.box = b
  BY WholePass, PassShape DEF Whole, SameIds, AtAccount
<1>3. StageOf(me) /\ StageOf(r) /\ NewOf(me) /\ FoundOf(me) /\ me \in PassKind
  BY <1>1, MeFacts DEF Works, Becomes, LinkedOnce, Finding
<1>4. g = i
  BY <1>2, SettledItem DEF Settled, ToStore, Held
<1>5. me.pc \in {"items", "apply", "link"} /\ (me.pc = "items" => i \in me.items)
      /\ (i \notin me.items => i = me.item /\ me.pc \in {"apply", "link"})
  BY <1>3 DEF StageOf, ToStore
<1>6. r.next # Null => r.pc \notin {"idle", "next", "error", "auth", "list"}
  BY <1>3 DEF StageOf
<1>7. me.next # Null
  <2>1. g.at \in Int /\ g.at > 0
    BY <1>1, BoundsFacts DEF TypeOK, EventKind
  <2> QED BY <2>1 DEF Null
<1>8. Finds(p, r) \/ Deletes(p, r) \/ Updates(p, r) \/ Imports(p, r) \/ Binds(p, r)
  BY <1>5, <1>6, <1>7 DEF Works, Loads, Quits, LetsGo, Takes, Reads, Lists, Forgets, Selects, Skips, Posts, Loses, Adds, Marks
<1>9. CASE Finds(p, r)
  <2>1. i \in me.items /\ me.pc = "items"
    BY <1>5, <1>9 DEF Finds
  <2>2. PICK d \in me.items : /\ r.items = me.items \ {d}
                              /\ \/ r.pc = "apply" /\ r.item = d
                                 \/ IF d.live THEN ~d.timed ELSE LinksOf(me.id, d.gid) = {}
    BY <1>9, <2>1 DEF Finds
  <2>3. CASE i # d \/ (r.pc = "apply" /\ r.item = d)
    BY <2>1, <2>2, <2>3 DEF ToStore
  <2>5. CASE i = d /\ d.live /\ ~d.timed
    BY <1>4, <2>5 DEF ShownThen
  <2>4. CASE i = d /\ LinksOf(me.id, d.gid) = {} /\ ~d.live
    BY <1>2, <1>4, <1>9, <2>4 DEF Finds, Quiet, ShownThen, LinksOf
  <2> QED BY <2>2, <2>3, <2>4, <2>5
<1>10. CASE Imports(p, r)
  BY <1>5, <1>10 DEF Imports, Writes, ToStore
<1>11. CASE Deletes(p, r) \/ Updates(p, r)
  <2>1. me.pc = "apply" /\ me.found # None /\ r.items = me.items /\ UNCHANGED links
    BY <1>11 DEF Deletes, Updates, Writes
  <2>2. CASE i \in me.items
    BY <2>1, <2>2 DEF ToStore
  <2>3. CASE i = me.item
    <3>1. PICK k \in links : /\ k.acct = me.id /\ k.local = me.found /\ k.gid = me.item.gid
                             /\ \A l \in links : l.acct = me.id /\ l.gid = me.item.gid => l = k
      BY <1>2, <2>1, FoundLink
    <3>2. CASE Deletes(p, r)
      <4>1. ~g.live /\ rows' = {x \in rows : x.id # me.found}
        BY <1>4, <2>3, <3>2 DEF Deletes
      <4> QED BY <1>2, <1>4, <2>1, <2>3, <3>1, <4>1 DEF ShownThen
    <3>3. CASE Updates(p, r)
      <4>1. g.live
        BY <1>4, <2>3, <3>3 DEF Updates
      <4>2. \A x \in rows' : x.id = me.found => x.ver = g.at \/ \E y \in rows : y.id = x.id /\ x.ver = y.ver
        BY <1>4, <2>3, <3>3, RowsThen DEF Updates, Imports
      <4>3. \A x \in rows' : x.id = me.found => x.ver = g.at
        <5>1. rows' = {IF x.id = me.found THEN [x EXCEPT !.ver = g.at] ELSE x : x \in rows}
          BY <1>4, <2>3, <3>3 DEF Updates, Written
        <5>2. g.at \in 0..LastSeq
          BY <1>1, BoundsFacts DEF TypeOK, EventKind
        <5>3. rows' = Written(me.found, g.at)
          BY <5>1 DEF Written
        <5>4. \A x \in rows' : \E y \in rows : x.id = y.id /\ x.ver = IF y.id = me.found THEN g.at ELSE y.ver
          BY <1>1, <5>2, <5>3, RowsWritten
        <5> QED BY <5>4
      <4>4. g.at \in Int
        BY <1>1, BoundsFacts DEF TypeOK, EventKind
      <4>5. \A x \in rows' : x.id = me.found => x.ver >= g.at
        BY <4>3, <4>4
      <4> QED BY <1>2, <1>4, <2>1, <2>3, <3>1, <4>1, <4>5 DEF ShownThen, ShowsThen
    <3> QED BY <1>11, <3>2, <3>3
  <2> QED BY <1>5, <2>2, <2>3
<1>12. CASE Binds(p, r)
  <2>1. me.pc = "link" /\ r.items = me.items /\ UNCHANGED <<rows, seen>>
    BY <1>5, <1>12 DEF Binds
  <2>2. CASE i \in me.items
    BY <2>1, <2>2 DEF ToStore
  <2>3. CASE i = me.item
    <3>1. g.live /\ ShowsAt(me.found, g.at)
      BY <1>1, <1>2, <1>3, <1>4, <2>1, <2>3 DEF StageOf, InPlace, InPlaceOf, AtAccount
    <3>2. LinksOf(me.id, g.gid) = {}
      <4>1. me.box # None /\ NewLink(me)
        BY <1>2, <2>1, CalendarAssumption DEF NewLink
      <4> QED BY <1>2, <1>3, <1>4, <2>3, <4>1 DEF NewOf
    <3>3. \A l \in links' : l.acct = me.id /\ l.gid = g.gid => l = NewLinkOf(me)
      BY <1>12, <3>2 DEF Binds, LinksOf
    <3>4. NewLinkOf(me) \in links' /\ NewLinkOf(me).acct = me.id /\ NewLinkOf(me).gid = g.gid /\ NewLinkOf(me).local = me.found
      BY <1>4, <1>12, <2>3 DEF Binds, NewLinkOf
    <3>5. ShowsThen(me.found, g.at)
      BY <2>1, <3>1 DEF ShowsAt, ShowsThen
    <3> QED BY <1>2, <3>1, <3>3, <3>4, <3>5 DEF ShownThen
  <2> QED BY <1>5, <2>2, <2>3
<1> QED BY <1>8, <1>9, <1>10, <1>11, <1>12

CoversThen(me, b) ==
  me.box = b /\ me.id = acct'[b].id => \A g \in google' : g.box = b /\ g.at <= me.next =>
    ShownThen(b, g) \/ \E i \in EventKind : ToStore(me, i) /\ i.gid = g.gid

\* An event that is new is above what any pass or account has got to.
LEMMA AboveAll ==
  ASSUME Inv, NEW h, h.at = Seq(h.box) + 1, h.box \in Boxes
  PROVE  ~Settled(h.box, h)
<1>1. TypeOK /\ TokenBounds
  BY DEF Inv
<1>2. acct[h.box].token <= Seq(h.box)
  BY <1>1, TokenTypes, ReachedSeq DEF TokenBounds
<1>3. \A q \in Passes : pass[q].box = h.box => pass[q].next <= Seq(h.box)
  BY <1>1, TokenTypes, ReachedSeq DEF TokenBounds
<1>4. Seq(h.box) \in Int /\ acct[h.box].token \in Int /\ \A q \in Passes : pass[q].next \in Int
  BY <1>1, TokenTypes, SeqFacts
<1> QED BY <1>2, <1>3, <1>4 DEF Settled, AtAccount

\* So what an account or a pass has got to was there before the step.
LEMMA OldEvent ==
  ASSUME Inv, GoogleMoves, NEW h \in google', Settled(h.box, h)
  PROVE  h \in google
<1>1. h \in EventKind /\ h.box \in Boxes
  BY DEF GoogleMoves, EventKind
<1>2. h.at # Seq(h.box) + 1
  BY <1>1, AboveAll
<1> QED BY <1>2 DEF GoogleMoves, NewEvent, Successor

\* What another pass has listed is shown, or that one will store it.
LEMMA CoversOther ==
  ASSUME Inv, missed \subseteq missed', NEW p \in Passes, NEW r, Works(p, r), NEW b \in Boxes, Whole(b)', NEW q \in Passes, q # p
  PROVE  CoversThen(pass[q], b)
<1>1. Covered /\ GoogleMoves
  BY GoogleStep DEF Inv
<1>2. Whole(b) /\ CoversOf(pass[q], b) /\ acct'[b].id = acct[b].id
  BY <1>1, WholePass, PassShape DEF Covered, SameIds
<1>3. ASSUME pass[q].box = b, pass[q].id = acct[b].id, NEW h \in google', h.box = b, h.at <= pass[q].next
      PROVE  ShownThen(b, h) \/ \E i \in EventKind : ToStore(pass[q], i) /\ i.gid = h.gid
  <2>1. Settled(b, h)
    BY <1>3 DEF Settled, AtAccount
  <2>2. h \in google
    BY <1>1, <1>3, <2>1, OldEvent
  <2> QED BY <1>2, <1>3, <2>1, <2>2, ShownPass DEF CoversOf, AtAccount
<1> QED BY <1>2, <1>3 DEF CoversThen

\* So is what this one has listed: a step stores what it lets go.
LEMMA CoversOwn ==
  ASSUME Inv, missed \subseteq missed', NEW p \in Passes, NEW r, Works(p, r), NEW b \in Boxes, Whole(b)'
  PROVE  CoversThen(r, b)
<1> DEFINE me == pass[p]
<1>1. Covered /\ GoogleMoves /\ TypeOK /\ Stages /\ Tokened
  BY GoogleStep DEF Inv
<1>2. Whole(b) /\ Alone(b) /\ CoversOf(me, b) /\ TokenedOf(me, b) /\ acct'[b].id = acct[b].id
  BY <1>1, WholePass, PassShape DEF Covered, SameIds, Whole, Tokened
<1>3. SUFFICES ASSUME r.box = b, r.id = acct[b].id, NEW h \in google', h.box = b, h.at <= r.next
               PROVE  ShownThen(b, h) \/ \E i \in EventKind : ToStore(r, i) /\ i.gid = h.gid
  BY <1>2 DEF CoversThen
<1>4. h \in EventKind /\ h.at \in Int /\ h.at > Null /\ h.at > 0
  BY <1>1, BoundsFacts DEF GoogleMoves, EventKind, Null
<1>5. r.next # Null
  BY <1>3, <1>4 DEF Null
<1>6. CASE r.next = me.next /\ SameAccount(r, me)
  <2>1. AtAccount(me, b)
    BY <1>3, <1>6 DEF SameAccount, AtAccount
  <2>2. Settled(b, h)
    BY <1>3, <1>6, <2>1 DEF Settled
  <2>3. h \in google
    BY <1>1, <1>3, <2>2, OldEvent
  <2>4. CASE Shown(b, h)
    BY <1>3, <2>2, <2>3, <2>4, ShownPass
  <2>5. ASSUME NEW i \in EventKind, ToStore(me, i), i.gid = h.gid PROVE ShownThen(b, h) \/ ToStore(r, i)
    BY <1>3, <1>6, <2>1, <2>3, <2>5, StoredPass
  <2> QED BY <1>2, <1>3, <1>6, <2>1, <2>3, <2>4, <2>5 DEF CoversOf
<1>7. CASE Lists(p, r)
  <2>1. /\ me.pc = "list" /\ me.box = b /\ me.id = acct[b].id /\ r.pc = "items" /\ Answers(b, me.token, r.items)
        /\ UNCHANGED <<rows, links, google>>
        /\ me.token = Null /\ (\E l \in links : l.acct = me.id) => "relist" \in seen'[b]
    BY <1>3, <1>7 DEF Lists, SameAccount, Quiet
  <2>2. me.token = acct[b].token
    BY <1>2, <2>1 DEF TokenedOf, AtAccount
  <2>3. h \in google
    BY <2>1
  <2>4. h \in r.items => ToStore(r, h)
    BY DEF ToStore
  <2>5. CASE me.token = Null
    <3>1. h.live /\ h \notin missed' => h \in r.items
      BY <1>3, <2>1, <2>3, <2>5 DEF Answers
    <3>2. ~h.live \/ h \in missed' => ShownThen(b, h)
      BY <1>2, <2>1, <2>5 DEF ShownThen
    <3> QED BY <1>4, <2>4, <3>1, <3>2
  <2>6. CASE me.token # Null
    <3>1. h.at > me.token => h \in r.items
      BY <1>3, <2>1, <2>3, <2>6 DEF Answers
    <3>2. h.at <= acct[b].token => ShownThen(b, h)
      <4>1. ASSUME h.at <= acct[b].token PROVE Shown(b, h) /\ Settled(b, h)
        BY <1>1, <1>2, <1>3, <2>3, <4>1 DEF Covered, Settled
      <4> QED BY <1>3, <2>3, <4>1, ShownPass
    <3>3. acct[b].token \in Int
      BY <1>1, TokenTypes
    <3> QED BY <1>4, <2>2, <2>4, <3>1, <3>2, <3>3
  <2> QED BY <2>5, <2>6
<1> QED BY <1>5, <1>6, <1>7, PassNext

\* Together: what is shown, after a step of a pass; mark_synced stores a token
\* when there is nothing left to store.
LEMMA CoveredPass ==
  ASSUME Inv, missed \subseteq missed', NEW p \in Passes, NEW r, Works(p, r)
  PROVE  Covered'
<1>1. Covered /\ GoogleMoves /\ TypeOK /\ Stages
  BY GoogleStep DEF Inv
<1>2. pass'[p] = r /\ \A q \in Passes : q # p => pass'[q] = pass[q]
  BY <1>1, PassFacts DEF Works
<1>3. ASSUME NEW b \in Boxes, Whole(b)', NEW h \in google', h.box = b, h.at <= acct'[b].token PROVE ShownThen(b, h)
  <2>1. Whole(b)
    BY <1>3, WholePass
  <2>2. CASE acct'[b].token = acct[b].token
    <3>1. Settled(b, h)
      BY <1>3, <2>2 DEF Settled
    <3>2. h \in google
      BY <1>1, <1>3, <3>1, OldEvent
    <3>3. Shown(b, h)
      BY <1>1, <1>3, <2>1, <2>2, <3>2 DEF Covered
    <3> QED BY <1>3, <3>1, <3>2, <3>3, ShownPass
  <2>3. CASE Forgets(p, r) /\ acct'[b].token = Null
    <3>1. h.at \in Int /\ h.at > Null
      BY <1>1, BoundsFacts DEF GoogleMoves, EventKind, Null
    <3> QED BY <1>3, <2>3, <3>1 DEF Null
  <2>4. CASE Marks(p, r) /\ acct'[b].token = pass[p].next /\ b = pass[p].box /\ acct[b].id = pass[p].id
    <3>1. AtAccount(pass[p], b) /\ CoversOf(pass[p], b)
      BY <1>1, <2>1, <2>4 DEF AtAccount, Covered
    <3>2. Settled(b, h)
      BY <1>3, <2>4, <3>1 DEF Settled
    <3>3. h \in google
      BY <1>1, <1>3, <3>2, OldEvent
    <3>4. \A i \in EventKind : ~ToStore(pass[p], i)
      BY <1>1, <2>4, MeFacts DEF Marks, StageOf, ToStore
    <3>5. Shown(b, h)
      BY <1>3, <2>4, <3>1, <3>3, <3>4 DEF CoversOf
    <3> QED BY <1>3, <3>2, <3>3, <3>5, ShownPass
  <2>5. Forgets(p, r) \/ Marks(p, r) => pass[p].box # None
    BY <1>1, MeFacts DEF Forgets, Marks, StageOf
  <2>6. ASSUME Forgets(p, r) PROVE acct'[b].token = acct[b].token \/ acct'[b].token = Null
    BY <2>6 DEF Forgets, Stores
  <2>7. ASSUME Marks(p, r), Stores(pass[p].id, pass[p].next)
        PROVE  acct'[b].token = acct[b].token \/ (acct'[b].token = pass[p].next /\ b = pass[p].box /\ acct[b].id = pass[p].id)
    BY <2>5, <2>7, StoresFacts
  <2>8. SameTokens => acct'[b].token = acct[b].token
    BY DEF SameTokens
  <2> QED BY <2>2, <2>3, <2>4, <2>6, <2>7, <2>8, PassShape
<1>4. \A b \in Boxes : Whole(b)' => \A q \in Passes : CoversThen(pass'[q], b)
  BY <1>2, CoversOther, CoversOwn
<1> QED BY <1>3, <1>4 DEF Covered, CoversThen, CoversOf, ShownThen, Shown, LinksOf, ShowsThen, ShowsAt, AtAccount, ToStore

\* What is shown stays shown while the users are at it.
LEMMA ShownUser ==
  ASSUME Inv, Users, NEW b \in Boxes, acct'[b].id = acct[b].id, NEW g \in google, Shown(b, g)
  PROVE  ShownThen(b, g)
<1>1. UNCHANGED <<links, missed>> /\ ("relist" \in seen[b] => "relist" \in seen'[b])
  BY UserShape, UserAlone
<1>2. \A l \in links : ShowsAt(l.local, g.at) => ShowsThen(l.local, g.at)
  BY ShowsUser
<1>3. ASSUME NEW l \in links, \A x \in rows : x.id # l.local PROVE \A x \in rows' : x.id # l.local
  BY <1>3, RowsUser
<1>4. CASE g.live
  BY <1>1, <1>2, <1>4 DEF Shown, ShownThen, LinksOf
<1>5. CASE ~g.live
  BY <1>1, <1>3, <1>5 DEF Shown, ShownThen, LinksOf
<1> QED BY <1>4, <1>5

\* And after a step of a user.
LEMMA CoveredUser ==
  ASSUME Inv, Users
  PROVE  Covered'
<1>1. TypeOK /\ Covered /\ GoogleMoves
  BY GoogleStep DEF Inv
<1>2. UNCHANGED <<pass, links>>
  BY UserShape
<1>3. ASSUME NEW h \in google' PROVE h.at \in Int /\ h.at > Null
  BY <1>1, BoundsFacts DEF GoogleMoves, EventKind, Null
<1>4. ASSUME NEW b \in Boxes, Whole(b)'
      PROVE  /\ \A h \in google' : h.box = b /\ h.at <= acct'[b].token => ShownThen(b, h)
             /\ \A q \in Passes : CoversThen(pass[q], b)
  <2>1. CASE acct'[b].id = Null \/ acct'[b].id # acct[b].id
    <3>1. acct'[b].token = Null
      BY <2>1, UserAccounts, NoAccountFacts
    <3>2. \A q \in Passes : ~(pass[q].box = b /\ pass[q].id = acct'[b].id)
      <4>1. Null \notin 1..MaxAccount /\ None \notin Boxes
        BY CalendarAssumption DEF Null
      <4>2. \A q \in Passes : pass[q].box = b => pass[q].id # Null
        BY <4>1, HandFacts
      <4> QED BY <2>1, <4>2, NewAccount
    <3>3. \A h \in google' : ~(h.at <= acct'[b].token)
      BY <1>3, <3>1 DEF Null
    <3> QED BY <3>2, <3>3 DEF CoversThen
  <2>2. CASE acct'[b].id # Null /\ acct'[b].id = acct[b].id
    <3>1. Whole(b)
      BY <1>4, <2>2, WholeUser
    <3>2. acct'[b].token = acct[b].token
      BY <2>2, UserAccounts, NoAccountFacts
    <3>3. ASSUME NEW h \in google', h.box = b, Settled(b, h)
          PROVE  h \in google /\ (Shown(b, h) => ShownThen(b, h))
      BY <1>1, <2>2, <3>3, OldEvent, ShownUser
    <3>4. ASSUME NEW h \in google', h.box = b, h.at <= acct'[b].token PROVE ShownThen(b, h)
      BY <1>1, <3>1, <3>2, <3>3, <3>4 DEF Covered, Settled
    <3>5. ASSUME NEW q \in Passes, pass[q].box = b, pass[q].id = acct[b].id, NEW h \in google', h.box = b, h.at <= pass[q].next
          PROVE  ShownThen(b, h) \/ \E i \in EventKind : ToStore(pass[q], i) /\ i.gid = h.gid
      BY <1>1, <3>1, <3>3, <3>5 DEF Covered, CoversOf, Settled, AtAccount
    <3> QED BY <2>2, <3>4, <3>5 DEF CoversThen
  <2> QED BY <2>1, <2>2
<1> QED BY <1>2, <1>4 DEF Covered, CoversThen, CoversOf, ShownThen, Shown, LinksOf, ShowsThen, ShowsAt, AtAccount, ToStore

-----------------------------------------------------------------------------
(* Once in each calendar.                                                  *)

LinkedThen(e, h) == \/ \E l \in links' : l.local = e /\ l.gid = h.gid
                    \/ \E q \in Passes : LinkedBy(pass'[q], e, h)

OnceThen(me, b) ==
  /\ \A id \in 1..MaxAccount : KnowsOf(me, b, id) => id = acct'[b].id
  /\ me.box = b /\ NewLink(me) /\ me.pc # "linkpost" => me.item.gid \in Theirs

OnceLinksThen(b) ==
  /\ \A l \in links', h \in google' : h.box = b /\ l.gid = h.gid =>
       l.acct = acct'[b].id /\ (l.local \in RowIds => l.gid \in Theirs)
  /\ \A e \in Locals, h \in google' : h.box = b /\ h.gid \in {e} \X (1..MaxPost) => LinkedThen(e, h)

\* What is to be shown after a step.
LEMMA OnceFolds ==
  ASSUME \A b \in Boxes : Steady(b)' => OnceLinksThen(b) /\ \A q \in Passes : OnceThen(pass'[q], b)
  PROVE  Once'
BY DEF Once, OnceLinksThen, OnceThen, LinkedThen, OnceLinks, OnceOf, Linked, LinkedBy, Copies, KnowsOf, NewLink, Steady

\* A mailbox that is steady after a step of a pass was so before it.
LEMMA SteadyPass ==
  ASSUME NEW p \in Passes, NEW r, Works(p, r), NEW b \in Boxes, Steady(b)'
  PROVE  Steady(b) /\ Alone(b) /\ acct'[b].id = acct[b].id
BY PassShape DEF SeenGrows, SameIds, Steady, Alone

\* A copy here that no link of the account names is in the hands of the pass that
\* posted it.
LEMMA CopyLinked ==
  ASSUME Inv, NEW b \in Boxes, Steady(b), NEW g \in google, g.box = b, g.gid \notin Theirs
  PROVE  \/ \E l \in links : l.acct = acct[b].id /\ l.gid = g.gid
         \/ \E q \in Passes, e \in Locals : LinkedBy(pass[q], e, g)
<1>1. TypeOK /\ Once
  BY DEF Inv
<1>2. PICK e \in Locals : g.gid \in {e} \X (1..MaxPost)
  BY <1>1 DEF TypeOK, EventKind, Gids
<1>3. g \in Copies(e)
  BY <1>2 DEF Copies
<1>4. Linked(e, g)
  BY <1>1, <1>3 DEF Once, OnceLinks
<1> QED BY <1>1, <1>4 DEF Linked, Once, OnceLinks

\* A pass imports nothing that was posted from here.
LEMMA OnceOwn ==
  ASSUME Inv, NEW p \in Passes, NEW r, Works(p, r), NEW b \in Boxes, Steady(b)'
  PROVE  OnceThen(r, b)
<1> DEFINE me == pass[p]
<1>1. TypeOK /\ Stages /\ Once /\ Listing
  BY DEF Inv
<1>2. Steady(b) /\ Alone(b) /\ acct'[b].id = acct[b].id /\ OnceOf(me, b) /\ pass'[p] = r
  BY <1>1, SteadyPass, PassFacts DEF Once, Works
<1>3. ASSUME NEW id \in 1..MaxAccount, KnowsOf(r, b, id) PROVE id = acct[b].id
  <2>1. Knows(p, b, id)'
    BY <1>2, <1>3 DEF Knows, KnowsOf
  <2> QED BY <1>2, <2>1, PassKnows DEF Knows, OnceOf
<1>4. ASSUME r.box = b, NewLink(r), r.pc # "linkpost" PROVE r.item.gid \in Theirs
  <2>1. CASE NewLink(me) /\ r.item = me.item /\ Imports(p, r)
    BY <1>2, <1>4, <2>1 DEF Imports, Writes, SameAccount, OnceOf
  <2>2. CASE Finds(p, r) /\ r.item \in me.items /\ LinksOf(r.id, r.item.gid) = {}
    <3>1. me.pc = "items" /\ me.box = b /\ r.id = me.id /\ r.item \in EventKind
      BY <1>1, <1>4, <2>2, MeFacts DEF Finds, SameAccount, PassKind
    <3>2. PICK g \in google : g.gid = r.item.gid /\ g.box = b
      BY <1>1, <2>2, <3>1 DEF Listing, GenuineOf, Genuine, Held
    <3>3. me.box # None
      BY <3>1, CalendarAssumption
    <3>4. me.id = acct[b].id
      BY <1>2, <3>1, <3>3, HandFacts DEF Knows, OnceOf
    <3>5. ~ \E l \in links : l.acct = acct[b].id /\ l.gid = g.gid
      BY <2>2, <3>1, <3>2, <3>4 DEF LinksOf
    <3>6. ASSUME NEW q \in Passes, NEW e \in Locals, LinkedBy(pass[q], e, g) PROVE FALSE
      <4>1. q = p
        BY <1>2, <3>1, <3>2, <3>3, <3>6, SameHand DEF LinkedBy
      <4> QED BY <3>1, <3>6, <4>1 DEF LinkedBy
    <3> QED BY <1>2, <3>2, <3>5, <3>6, CopyLinked
  <2>3. CASE Posts(p, r)
    BY <1>4, <2>3 DEF Posts
  <2> QED BY <1>1, <1>4, <2>1, <2>2, <2>3, PassLinks
<1> QED BY <1>2, <1>3, <1>4 DEF OnceThen

\* A copy is linked, or in the hands of its pass: what is lost is remembered.
LEMMA LinkedPass ==
  ASSUME Inv, NEW p \in Passes, NEW r, Works(p, r), NEW b \in Boxes, Steady(b)',
         NEW e \in Locals, NEW h \in google', h.box = b, h.gid \in {e} \X (1..MaxPost)
  PROVE  LinkedThen(e, h)
<1> DEFINE me == pass[p]
<1>1. TypeOK /\ Stages /\ Once /\ GoogleMoves
  BY GoogleStep DEF Inv
<1>2. Steady(b) /\ pass'[p] = r /\ (\A q \in Passes : q # p => pass'[q] = pass[q]) /\ "lost" \notin seen'[b]
  BY <1>1, SteadyPass, PassFacts DEF Works, Steady
<1>3. CASE \E g \in google : g.gid = h.gid
  <2>1. PICK g \in google : g.gid = h.gid /\ g.box = b
    BY <1>1, <1>3, MovesFacts DEF Successor
  <2>2. Linked(e, g)
    BY <1>1, <1>2, <2>1 DEF Once, OnceLinks, Copies
  <2>3. ASSUME NEW l \in links, l.local = e, l.gid = g.gid PROVE LinkedThen(e, h)
    BY <2>1, <2>3, PassShape DEF Binds, LinkedThen
  <2>4. ASSUME NEW q \in Passes, q # p, LinkedBy(pass[q], e, g) PROVE LinkedThen(e, h)
    BY <1>2, <2>1, <2>4 DEF LinkedThen, LinkedBy
  <2>5. ASSUME LinkedBy(me, e, g) PROVE LinkedThen(e, h)
    <3>1. me.pc = "linkpost" /\ me.box = b /\ me.found = e /\ me.item.gid = h.gid
      BY <2>1, <2>5 DEF LinkedBy
    <3>2. Quits(p, r) \/ Binds(p, r)
      BY <3>1 DEF Works, Loads, Takes, Reads, Lists, Forgets, Finds, Deletes, Updates, Imports, Writes,
                  Selects, Skips, Posts, Loses, Adds, Marks
    <3>3. ~Quits(p, r)
      BY <1>2, <3>1 DEF Quits
    <3>4. NewLinkOf(me) \in links'
      BY <3>2, <3>3 DEF Binds
    <3>5. NewLinkOf(me).local = e /\ NewLinkOf(me).gid = h.gid
      BY <3>1 DEF NewLinkOf
    <3> QED BY <3>4, <3>5 DEF LinkedThen
  <2> QED BY <2>2, <2>3, <2>4, <2>5 DEF Linked
<1>4. CASE ~ \E g \in google : g.gid = h.gid
  <2>1. Posts(p, r) \/ Loses(p, r)
    BY <1>4, PassShape
  <2>2. ASSUME NEW d, Adds(p, d) PROVE h = Copy(me.box, d) /\ h.box = me.box /\ d = e
    <3> DEFINE c == Copy(me.box, d)
    <3>1. google' = google \cup {c} /\ c.box = me.box /\ c.gid = <<d, Cardinality(Copies(d)) + 1>>
      BY <2>2, AddsFacts
    <3> HIDE DEF c
    <3>2. h = c
      BY <1>4, <3>1
    <3> QED BY <3>1, <3>2 DEF c
  <2>3. ~Loses(p, r)
    BY <1>2, <2>2 DEF Loses
  <2>4. r.pc = "linkpost" /\ r.box = me.box /\ Adds(p, r.found) /\ r.item = Copy(me.box, r.found)
    BY <2>1, <2>3 DEF Posts, SameAccount
  <2>5. r.item = h /\ r.box = h.box /\ r.found = e
    BY <2>2, <2>4
  <2> QED BY <1>2, <2>4, <2>5 DEF LinkedThen, LinkedBy
<1> QED BY <1>3, <1>4

\* Together: links and copies, after a step of a pass.
LEMMA OncePass ==
  ASSUME Inv, NEW p \in Passes, NEW r, Works(p, r)
  PROVE  Once'
<1>1. TypeOK /\ Stages /\ Once /\ GoogleMoves /\ LinksKnown
  BY GoogleStep DEF Inv
<1>2. pass'[p] = r /\ \A q \in Passes : q # p => pass'[q] = pass[q]
  BY <1>1, PassFacts DEF Works
<1>3. ASSUME NEW b \in Boxes, Steady(b)', NEW q \in Passes PROVE OnceThen(pass'[q], b)
  <2>1. CASE q = p
    BY <1>2, <1>3, <2>1, OnceOwn
  <2>2. CASE q # p
    BY <1>1, <1>2, <1>3, <2>2, SteadyPass DEF Once, OnceOf, OnceThen
  <2> QED BY <2>1, <2>2
<1>4. ASSUME NEW b \in Boxes, Steady(b)', NEW l \in links', NEW h \in google', h.box = b, l.gid = h.gid
      PROVE  l.acct = acct'[b].id /\ (l.local \in RowIds => l.gid \in Theirs)
  <2>1. Steady(b) /\ acct'[b].id = acct[b].id
    BY <1>4, SteadyPass
  <2>2. CASE l \in links
    <3>1. PICK g \in google : g.gid = l.gid
      BY <1>1, <2>2 DEF LinksKnown
    <3>2. g.box = b
      BY <1>1, <1>4, <3>1, MovesFacts DEF Successor
    <3> QED BY <1>1, <2>1, <2>2, <3>1, <3>2 DEF Once, OnceLinks
  <2>3. CASE Binds(p, r) /\ l = NewLinkOf(pass[p])
    <3>1. /\ l.acct = pass[p].id /\ l.local = pass[p].found /\ l.gid = pass[p].item.gid /\ NewLink(pass[p])
          /\ pass[p].box \in Boxes /\ pass[p].pc \in {"link", "linkpost"}
      BY <2>3, BindFacts DEF Binds
    <3>2. PICK g \in google : g.gid = l.gid /\ g.box = pass[p].box
      BY <2>3, BindFacts
    <3>3. pass[p].box = b
      BY <1>1, <1>4, <3>2, MovesFacts DEF Successor
    <3>4. pass[p].id = acct[b].id
      BY <1>1, <2>1, <3>1, <3>3, HandFacts, CalendarAssumption DEF Once, OnceOf, Knows
    <3>5. l.local \in RowIds => pass[p].pc # "linkpost"
      BY <1>1, <3>1, CalendarAssumption DEF Stages, StageOf
    <3>6. pass[p].pc # "linkpost" => l.gid \in Theirs
      BY <1>1, <2>1, <3>1, <3>3 DEF Once, OnceOf
    <3> QED BY <2>1, <3>1, <3>4, <3>5, <3>6
  <2> QED BY <2>2, <2>3, PassShape DEF Binds
<1>5. \A b \in Boxes : Steady(b)' => OnceLinksThen(b)
  BY <1>4, LinkedPass DEF OnceLinksThen
<1> QED BY <1>3, <1>5, OnceFolds

\* And after a step of a user.
LEMMA OnceUser ==
  ASSUME Inv, Users
  PROVE  Once'
<1>1. TypeOK /\ Once /\ GoogleMoves /\ LinksKnown
  BY GoogleStep DEF Inv
<1>2. UNCHANGED <<pass, links>> /\ Null \notin 1..MaxAccount
  BY UserShape, CalendarAssumption DEF Null
<1>3. ASSUME NEW b \in Boxes, Steady(b)' PROVE Steady(b) /\ (acct[b].id # Null => acct'[b].id = acct[b].id)
  <2>1. DeleteAccount(b) => "left" \in seen'[b]
    BY <1>1 DEF DeleteAccount, TypeOK
  <2>2. ~DeleteAccount(b)
    BY <1>3, <2>1 DEF Steady
  <2> QED BY <1>3, <2>2, UserAlone, UserAccounts, NoAccountFacts
<1>4. ASSUME NEW b \in Boxes, Steady(b)', NEW q \in Passes PROVE OnceThen(pass'[q], b)
  BY <1>1, <1>2, <1>3, <1>4 DEF Once, OnceOf, OnceThen
<1>5. ASSUME NEW h \in google' PROVE (\E g \in google : g.gid = h.gid /\ g.box = h.box) \/ h.gid \in Theirs
  <2>1. ASSUME NEW c \in Boxes, NEW i \in Theirs, GoogleCreates(c, i), h \notin google PROVE h.gid \in Theirs
    BY <1>1, <2>1, CreatedFacts
  <2>2. ASSUME NEW g \in google, GoogleChanges(g), h \notin google PROVE h.gid = g.gid /\ h.box = g.box
    BY <1>1, <2>2, ChangedFacts
  <2> QED BY <2>1, <2>2, UserShape
<1>6. ASSUME NEW b \in Boxes, Steady(b)', NEW l \in links, NEW h \in google', h.box = b, l.gid = h.gid
      PROVE  l.acct = acct'[b].id /\ (l.local \in RowIds => l.gid \in Theirs)
  <2>1. PICK g \in google : g.gid = l.gid
    BY <1>1 DEF LinksKnown
  <2>2. g.box = b
    BY <1>1, <1>6, <2>1, MovesFacts DEF Successor
  <2>3. l.acct = acct[b].id /\ (l.local \in RowIds => l.gid \in Theirs)
    BY <1>1, <1>3, <1>6, <2>1, <2>2 DEF Once, OnceLinks
  <2>4. l.acct # Null
    BY <1>1, <1>2 DEF TypeOK, LinkKind
  <2> QED BY <1>3, <1>6, <2>3, <2>4
<1>7. ASSUME NEW b \in Boxes, Steady(b)', NEW e \in Locals, NEW h \in google', h.box = b, h.gid \in {e} \X (1..MaxPost)
      PROVE  LinkedThen(e, h)
  <2>1. h.gid \notin Theirs
    BY <1>7, CalendarAssumption
  <2>2. PICK g \in google : g.gid = h.gid /\ g.box = h.box
    BY <1>5, <2>1
  <2>3. Linked(e, g)
    BY <1>1, <1>3, <1>7, <2>2 DEF Once, OnceLinks, Copies
  <2> QED BY <1>2, <2>2, <2>3 DEF Linked, LinkedThen, LinkedBy
<1>8. \A b \in Boxes : Steady(b)' => OnceLinksThen(b)
  BY <1>2, <1>6, <1>7 DEF OnceLinksThen
<1> QED BY <1>4, <1>8, OnceFolds

-----------------------------------------------------------------------------
(* What is left behind.                                                    *)

\* A mailbox that is not connected, or is being disconnected.
Bare(b) == "late" \notin seen[b] /\ (acct[b] = NoAccount \/ b \in leaving)

\* No pass comes to a mailbox that is disconnected but one that is late.
LEMMA OrphansPass ==
  ASSUME Inv, NEW p \in Passes, NEW r, Works(p, r)
  PROVE  Orphans'
<1>1. TypeOK /\ Stages /\ Orphans
  BY DEF Inv
<1>2. ASSUME NEW b \in Boxes, Bare(b)' PROVE Bare(b)
  BY <1>2, PassShape DEF Bare, SameIds, SeenGrows, Others
<1>3. ASSUME NEW b \in Boxes, Bare(b)', NEW q \in Passes, NEW id \in 1..MaxAccount PROVE ~Knows(q, b, id)'
  <2>1. ~Knows(q, b, id)
    BY <1>1, <1>2, <1>3 DEF Orphans, Bare
  <2>2. ~(Loads(p, r) /\ Connected(b))
    <3>1. Connected(b) => acct[b] # NoAccount
      BY DEF Connected, NoAccount
    <3>2. Loads(p, r) /\ Connected(b) /\ b \in leaving => "late" \in seen'[b]
      BY DEF Loads
    <3> QED BY <1>2, <1>3, <3>1, <3>2 DEF Bare
  <2> QED BY <2>1, <2>2, PassKnows
<1>4. ASSUME NEW b \in Boxes, Bare(b)', NEW x \in rows', x.box = b PROVE x.source = "local"
  <2>1. ASSUME Imports(p, r), x.box = r.box PROVE FALSE
    <3>1. pass[p].pc = "apply" /\ r.box = pass[p].box
      BY <2>1 DEF Imports, Writes, SameAccount
    <3>2. pass[p].id \in 1..MaxAccount /\ Knows(p, b, pass[p].id)
      BY <1>4, <2>1, <3>1, HandFacts, CalendarAssumption
    <3> QED BY <1>1, <1>2, <1>4, <3>2 DEF Orphans, Bare
  <2>2. \A y \in rows : y.box = b => y.source = "local"
    BY <1>1, <1>2, <1>4 DEF Orphans, Bare
  <2> QED BY <1>4, <2>1, <2>2, RowsPass
<1>5. \A b \in Boxes : Bare(b)' =>
        /\ \A q \in Passes, id \in 1..MaxAccount : ~Knows(q, b, id)'
        /\ \A x \in rows' : x.box = b => x.source = "local"
  BY <1>3, <1>4
<1> QED BY <1>5 DEF Orphans, Bare, Knows, KnowsOf

\* A disconnect leaves no imports, and nobody is at work on what it has left.
LEMMA OrphansUser ==
  ASSUME Inv, Users
  PROVE  Orphans'
<1>1. TypeOK /\ Orphans
  BY DEF Inv
<1>2. UNCHANGED pass
  BY UserShape
<1>3. ASSUME NEW b \in Boxes, Bare(b)'
      PROVE  /\ \A q \in Passes, id \in 1..MaxAccount : ~Knows(q, b, id)
             /\ \A x \in rows' : x.box = b => x.source = "local"
  <2>1. CASE Bare(b)
    <3>1. /\ \A q \in Passes, id \in 1..MaxAccount : ~Knows(q, b, id)
          /\ \A y \in rows : y.box = b => y.source = "local"
      BY <1>1, <2>1 DEF Orphans, Bare
    <3> QED BY <3>1, RowsUser
  <2>2. CASE ~Bare(b)
    <3>1. "late" \notin seen[b] /\ acct[b] # NoAccount /\ b \notin leaving
      BY <1>3, <2>2, UserAlone DEF Bare
    <3>2. ~DeleteAccount(b)
      BY <3>1 DEF DeleteAccount
    <3>3. acct'[b] # NoAccount
      <4>1. acct[b].id # Null
        BY <3>1 DEF Inv, IdsOnce
      <4> QED BY <3>2, <4>1, UserAccounts, NoAccountFacts
    <3>4. DeleteImported(b)
      <4>1. b \in leaving'
        BY <1>3, <3>3 DEF Bare
      <4> QED BY <3>1, <4>1, UserShape DEF DeleteImported, DeleteAccount, StopLeaving
    <3>5. ~ \E q \in Passes : InHand(q, b)
      BY <1>1, <1>3, <3>4 DEF DeleteImported, TypeOK, Bare
    <3>6. \A q \in Passes, id \in 1..MaxAccount : ~Knows(q, b, id)
      BY <3>5 DEF InHand, Knows, KnowsOf
    <3>7. \A x \in rows' : x.box = b => x.source = "local"
      BY <1>1, <3>4 DEF DeleteImported, TypeOK, RowKind
    <3> QED BY <3>6, <3>7
  <2> QED BY <2>1, <2>2
<1>4. \A b \in Boxes : Bare(b)' =>
        /\ \A q \in Passes, id \in 1..MaxAccount : ~Knows(q, b, id)
        /\ \A x \in rows' : x.box = b => x.source = "local"
  BY <1>3
<1> QED BY <1>2, <1>4 DEF Orphans, Bare, Knows, KnowsOf

-----------------------------------------------------------------------------
(* The invariant.                                                          *)

\* It holds when nothing has happened.
LEMMA Begins == Init => Inv
<1> SUFFICES ASSUME Init PROVE Inv
  OBVIOUS
<1>1. /\ \A b \in Boxes : acct[b] = NoAccount /\ callback[b] = None /\ seen[b] = {}
      /\ \A p \in Passes : pass[p] = Idle
      /\ rows = {} /\ links = {} /\ google = {} /\ removed = {} /\ leaving = {} /\ nextId = 0
      /\ missed = {}
  BY DEF Init
<1>2. /\ Idle.pc = "idle" /\ Idle.todo = {} /\ Idle.box = None /\ Idle.id = Null /\ Idle.items = {} /\ Idle.next = Null
      /\ Idle.item = None /\ Idle.found = None /\ Idle.push = {}
  BY DEF Idle
<1>3. Null \notin 1..MaxAccount /\ None \notin Boxes /\ None \notin EventKind /\ Null <= 0
  BY CalendarAssumption DEF Null
<1>4. TypeOK
  <2>1. scene \in Scenes /\ acct \in [Boxes -> AccountKind] /\ pass \in [Passes -> PassKind]
    BY NoAccountFacts, IdleFacts DEF Init
  <2>2. nextId \in 0..MaxAccount /\ faults \in 0..MaxFault
    BY BoundsFacts DEF Init
  <2>3. callback \in [Boxes -> ConsentKind \cup {None}] /\ seen \in [Boxes -> SUBSET Events]
    BY DEF Init
  <2> QED BY <1>1, <1>2, <2>1, <2>2, <2>3 DEF TypeOK
<1>5. Stages
  BY <1>1, IdleFacts DEF Stages
<1>6. \A p \in Passes, b \in Boxes, id \in 1..MaxAccount : ~Knows(p, b, id)
  BY <1>1, <1>2, <1>3 DEF Knows, KnowsOf
<1>7. \A b \in Boxes, id \in 1..MaxAccount : ~Owns(b, id)
  BY <1>1, <1>3, <1>6, NoAccountFacts DEF Owns
<1>8. \A p \in Passes : /\ \A i \in EventKind : ~Held(pass[p], i) /\ ~ToStore(pass[p], i)
                        /\ \A e \in Locals : ~Pushes(pass[p], e)
                        /\ ~NewLink(pass[p]) /\ pass[p].box = None /\ pass[p].next = Null
                        /\ pass[p].pc = "idle" /\ pass[p].todo = {}
  BY <1>1, <1>2, <1>3 DEF Held, ToStore, Pushes, NewLink
<1>9. Calendars
  <2>1. \A e \in Locals : {g.gid : g \in Copies(e)} = {e} \X (1..0)
    BY <1>1 DEF Copies
  <2> QED BY <1>1, <2>1, BoundsFacts DEF Calendars
<1>10. IdsOnce /\ OneHand
  BY <1>1, <1>6, <1>7 DEF IdsOnce, OneHand
<1>11. LinksKnown /\ Listing /\ Finding /\ LinkedOnce
  BY <1>1, <1>8 DEF LinksKnown, Listing, GenuineOf, Finding, FoundOf, ApartOf, LinkedOnce, NewOf
<1>12. TokenBounds
  BY <1>1, <1>3, <1>8, NoAccountFacts DEF TokenBounds, Reached
<1>13. Tokened /\ InPlace /\ Covered
  <2>1. \A p \in Passes, b \in Boxes : ~AtAccount(pass[p], b) /\ \A id \in 1..MaxAccount : ~KnowsOf(pass[p], b, id)
    BY <1>3, <1>6, <1>8 DEF AtAccount, Knows
  <2> QED BY <1>1, <1>8, <2>1 DEF Tokened, TokenedOf, InPlace, InPlaceOf, LinksInPlace, Covered, CoversOf
<1>14. Once /\ Orphans
  <2>1. \A p \in Passes, b \in Boxes, id \in 1..MaxAccount : ~KnowsOf(pass[p], b, id)
    BY <1>6 DEF Knows
  <2> QED BY <1>1, <1>6, <1>8, <2>1 DEF Once, OnceLinks, OnceOf, Copies, Orphans
<1> QED BY <1>4, <1>5, <1>9, <1>10, <1>11, <1>12, <1>13, <1>14 DEF Inv

\* And where nothing does.
LEMMA Stutters ==
  ASSUME Inv, UNCHANGED vars
  PROVE  Inv'
<1>1. UNCHANGED <<scene, acct, rows, links, google, pass, callback, leaving, nextId, faults, removed, seen, missed>>
  BY DEF vars
<1>2. (TypeOK /\ Stages)'
  BY TypesStep
<1>3. Calendars'
  BY <1>1 DEF Inv, Calendars, CopyGids, Copies
<1>4. (IdsOnce /\ OneHand)'
  BY <1>1 DEF Inv, IdsOnce, OneHand, Owns, Knows, Alone
<1>5. (LinksKnown /\ Listing)'
  BY <1>1 DEF Inv, LinksKnown, Listing, GenuineOf, Genuine, Owns, Knows
<1>6. (Finding /\ LinkedOnce)'
  BY <1>1 DEF Inv, Finding, FoundOf, Taken, LinkedOnce, NewOf, Alone, LinksOf
<1>7. (TokenBounds /\ Tokened)'
  BY <1>1 DEF Inv, TokenBounds, Reached, Tokened, TokenedOf, AtAccount, Alone
<1>8. (InPlace /\ Covered)'
  BY <1>1 DEF Inv, InPlace, InPlaceOf, LinksInPlace, Covered, CoversOf, Shown, ShowsAt, HasRow, Whole, Alone, AtAccount, LinksOf
<1>9. (Once /\ Orphans)'
  BY <1>1 DEF Inv, Once, OnceOf, OnceLinks, Linked, LinkedBy, Copies, Steady, Orphans, Knows
<1> QED BY <1>2, <1>3, <1>4, <1>5, <1>6, <1>7, <1>8, <1>9 DEF Inv

\* What a listing left out is not forgotten.
LEMMA MissedGrows ==
  ASSUME [Next]_vars
  PROVE  missed \subseteq missed'
<1>1. ASSUME NEW p \in scene.passes, Sync(p) PROVE missed \subseteq missed'
  BY <1>1 DEF Sync, LoadAccounts, NextAccount, ValidAccessToken, Pull, Expired, FindLink, Apply, InsertLink, SelectLocal,
              Post, MarkSynced, MarkError
<1>2. ASSUME NEW p \in scene.passes, Fail(p) \/ Drop(p) PROVE missed \subseteq missed'
  BY <1>2 DEF Fail, Drop
<1>3. ASSUME Users PROVE missed \subseteq missed'
  BY <1>3 DEF Users, Exchange, UpsertAccount, DeleteImported, DeleteAccount, StopLeaving, Create,
              GoogleCreates, Update, Remove, GoogleChanges
<1> QED BY <1>1, <1>2, <1>3 DEF Next, vars

\* And after a step of a user or of a pass.
LEMMA Moves ==
  ASSUME Inv, Users \/ \E p \in Passes : \E r : Works(p, r), [Next]_vars
  PROVE  Inv'
<1>1. TypeOK' /\ Stages' /\ Calendars' /\ Listing' /\ TokenBounds'
  BY TypesStep, CalendarsStep, ListingStep, BoundsStep
<1>2. CASE Users
  <2>1. IdsOnce' /\ OneHand' /\ LinksKnown' /\ Finding' /\ LinkedOnce'
    BY <1>2, IdsUser, HandUser, LinksUser, FindingUser, LinkedOnceUser
  <2>2. Tokened' /\ InPlace' /\ Covered' /\ Once' /\ Orphans'
    BY <1>2, TokenedUser, InPlaceUser, CoveredUser, OnceUser, OrphansUser
  <2> QED BY <1>1, <2>1, <2>2 DEF Inv
<1>3. ASSUME NEW p \in Passes, NEW r, Works(p, r) PROVE Inv'
  <2>1. IdsOnce' /\ OneHand' /\ LinksKnown' /\ Finding' /\ LinkedOnce'
    BY <1>3, IdsPass, HandPass, LinksPass, FindingPass, LinkedOncePass
  <2>2. Tokened' /\ InPlace' /\ Covered' /\ Once' /\ Orphans'
    BY <1>3, MissedGrows, TokenedPass, InPlacePass, CoveredPass, OncePass, OrphansPass
  <2> QED BY <1>1, <2>1, <2>2 DEF Inv
<1> QED BY <1>2, <1>3

\* And so after every step.
LEMMA Inductive ==
  ASSUME Inv, [Next]_vars
  PROVE  Inv'
<1>1. CASE UNCHANGED vars
  BY <1>1, Stutters
<1>2. CASE Users
  BY <1>2, Moves
<1>3. ASSUME NEW p \in scene.passes, Sync(p) \/ Fail(p) \/ Drop(p) PROVE Inv'
  <2>1. p \in Passes
    BY SceneFacts DEF Inv
  <2>2. \E r : Works(p, r)
    BY <1>3, <2>1, PassWorks
  <2> QED BY <2>1, <2>2, Moves
<1> QED BY <1>1, <1>2, <1>3 DEF Next

\* And so always.
LEMMA Always == Spec => []Inv
BY Begins, Inductive, PTL DEF Spec

-----------------------------------------------------------------------------
(* What the invariant comes to.                                            *)

\* What is shown up to the token is what TokenCovers asks for.
LEMMA Coverage == Inv => TokenCovers
<1> SUFFICES ASSUME Inv, NEW b \in Boxes, seen[b] \cap {"raced", "cut"} = {},
                    NEW g \in google, g.box = b, g.at <= acct[b].token
             PROVE  /\ g.live /\ g.timed /\ g \notin missed =>
                         /\ LinksOf(acct[b].id, g.gid) # {}
                         /\ \A l \in LinksOf(acct[b].id, g.gid) :
                              l.local \in removed \/ \E r \in Mirror(b, g) : r.id = l.local
                         /\ \A r \in Mirror(b, g) : r.ver = Mine \/ r.ver >= g.at
                    /\ ~g.live /\ "relist" \notin seen[b] => Mirror(b, g) = {}
  BY DEF TokenCovers
<1>1. Calendars /\ InPlace /\ Covered
  BY DEF Inv
<1>2. Whole(b)
  BY DEF Whole, Alone
<1>3. Shown(b, g) /\ LinksInPlace(b)
  BY <1>1, <1>2 DEF Covered, InPlace
<1>4. ASSUME g.live, NEW l \in LinksOf(acct[b].id, g.gid)
      PROVE  l.local \in removed \/ \E r \in Mirror(b, g) : r.id = l.local
  <2>1. l \in links /\ l.acct = acct[b].id /\ l.gid = g.gid
    BY <1>4 DEF LinksOf
  <2>2. HasRow(l.local)
    BY <1>1, <1>3, <1>4, <2>1 DEF LinksInPlace, Calendars
  <2> QED BY <1>4, <2>2 DEF HasRow, Mirror
<1>5. ASSUME g.live, g.timed, g \notin missed, NEW r \in Mirror(b, g) PROVE r.ver = Mine \/ r.ver >= g.at
  BY <1>3, <1>5 DEF Mirror, Shown, ShowsAt
<1>6. ASSUME ~g.live, "relist" \notin seen[b] PROVE Mirror(b, g) = {}
  BY <1>3, <1>6 DEF Mirror, Shown
<1>7. g.live /\ g.timed /\ g \notin missed => LinksOf(acct[b].id, g.gid) # {}
  BY <1>3 DEF Shown
<1> QED BY <1>4, <1>5, <1>6, <1>7

\* Two copies of an event in one calendar are one.
LEMMA OneCopy ==
  ASSUME Inv, NEW b \in Boxes, Steady(b), NEW e \in Locals,
         NEW g \in Copies(e), g.box = b, NEW h \in Copies(e), h.box = b
  PROVE  g = h
<1>1. TypeOK /\ Stages /\ Calendars /\ LinkedOnce /\ Once
  BY DEF Inv
<1>2. Alone(b) /\ b # None
  BY CalendarAssumption DEF Steady, Alone
<1>3. g \in google /\ h \in google /\ Linked(e, g) /\ Linked(e, h)
  BY <1>1 DEF Once, OnceLinks, Copies
<1>4. SUFFICES g.gid = h.gid
  BY <1>1, <1>3 DEF Calendars
<1>5. ASSUME NEW l \in links, l.local = e, NEW q \in Passes, NEW c, c.box = b, LinkedBy(pass[q], e, c) PROVE FALSE
  BY <1>1, <1>2, <1>5 DEF LinkedBy, LinkedOnce, NewOf, Pushes
<1>6. ASSUME NEW p \in Passes, NEW q \in Passes, LinkedBy(pass[p], e, g), LinkedBy(pass[q], e, h) PROVE g.gid = h.gid
  BY <1>2, <1>6, SameHand DEF LinkedBy
<1>7. ASSUME NEW l1 \in links, NEW l2 \in links, l1.local = e, l2.local = e, l1.gid = g.gid, l2.gid = h.gid PROVE g.gid = h.gid
  BY <1>1, <1>2, <1>3, <1>7 DEF LinkedOnce
<1> QED BY <1>3, <1>5, <1>6, <1>7 DEF Linked

\* One link for an event, and one for a row, is what OnceEach asks for.
LEMMA Doubles == Inv => OnceEach
<1> SUFFICES ASSUME Inv, NEW b \in Boxes, seen[b] \cap {"raced", "lost", "left", "late", "cut"} = {}
             PROVE  /\ \A l1, l2 \in links : l1.acct = acct[b].id /\ l2.acct = acct[b].id
                                               /\ (l1.gid = l2.gid \/ l1.local = l2.local) => l1 = l2
                    /\ \A e \in Locals : Cardinality({g \in Copies(e) : g.box = b}) <= 1
                    /\ \A r \in rows : r.box = b /\ r.source = "google" =>
                         \A l \in links : l.local = r.id => l.gid \in Theirs
  BY DEF OnceEach
<1>1. TypeOK /\ LinksKnown /\ Finding /\ LinkedOnce /\ Once
  BY DEF Inv
<1>2. Steady(b) /\ Alone(b)
  BY DEF Steady, Alone
<1>3. ASSUME NEW l \in links, l.acct = acct[b].id PROVE \E g \in google : g.gid = l.gid /\ g.box = b
  <2>1. PICK g \in google : g.gid = l.gid
    BY <1>1 DEF LinksKnown
  <2> QED BY <1>1, <1>3, <2>1 DEF LinksKnown, Owns
<1>4. ASSUME NEW l1 \in links, NEW l2 \in links, l1.acct = acct[b].id, l2.acct = acct[b].id,
             l1.gid = l2.gid \/ l1.local = l2.local
      PROVE  l1 = l2
  BY <1>1, <1>2, <1>3, <1>4 DEF LinkedOnce
<1>5. ASSUME NEW e \in Locals PROVE Cardinality({g \in Copies(e) : g.box = b}) <= 1
  <2> DEFINE S == {g \in Copies(e) : g.box = b}
  <2>1. CASE S = {}
    BY <2>1, FS_EmptySet
  <2>2. ASSUME NEW g \in S PROVE Cardinality(S) <= 1
    <3>1. g \in S
      BY <2>2
    <3>2. \A h \in S : h = g
      BY <1>2, <3>1, OneCopy
    <3> HIDE DEF S
    <3>3. S = {g}
      BY <3>1, <3>2
    <3>4. Cardinality({g}) = 1
      BY FS_Singleton
    <3> QED BY <3>3, <3>4
  <2> QED BY <2>1, <2>2
<1>6. ASSUME NEW r \in rows, r.box = b, r.source = "google", NEW l \in links, l.local = r.id PROVE l.gid \in Theirs
  <2>1. l.local \in RowIds
    BY <1>1, <1>6 DEF Finding, TypeOK, LinkKind
  <2>2. PICK g \in google : g.gid = l.gid
    BY <1>1 DEF LinksKnown
  <2>3. g.box = b
    BY <1>1, <1>6, <2>2 DEF LinksKnown
  <2> QED BY <1>1, <1>2, <2>1, <2>2, <2>3 DEF Once, OnceLinks
<1> QED BY <1>4, <1>5, <1>6

\* The types: calendar_google.rs and the tables of its ensure_schema hold what
\* they are declared to, and a pass that is at work has an account.
THEOREM TypeCorrect == Spec => []TypeOK
<1>1. Inv => TypeOK
  BY DEF Inv
<1> QED BY <1>1, Always, PTL

\* An account id is given to one mailbox, ever: what a pass still has in hand of an
\* account that is gone never names another one (upsert_account, mark_synced).
THEOREM AccountIdsOnce == Spec => []IdsOnce
<1>1. Inv => IdsOnce
  BY DEF Inv
<1> QED BY <1>1, Always, PTL

\* What a pass has listed of a calendar is in it, or it will still be stored:
\* pull_google_events, upsert_from_google and insert_link leave out nothing between
\* the listing and mark_synced but events without a start.  An event that the
\* listing itself missed, outside its 180 days, is promised nothing.
THEOREM NothingBetween == Spec => []Covered
<1>1. Inv => Covered
  BY DEF Inv
<1> QED BY <1>1, Always, PTL

\* Nothing is lost behind a sync token that mark_synced stored, but for events
\* without a start and those a listing without a token has missed.
THEOREM TokensCover == Spec => []TokenCovers
BY Always, Coverage, PTL

\* No event doubles, and a mailbox that is disconnected keeps no imports, but for
\* the histories that NoDoublesNorOrphans names.
THEOREM EventsOnce == Spec => []NoDoublesNorOrphans
<1>1. Inv => OrphansWereInFlight
  BY DEF Inv, Orphans, OrphansWereInFlight
<1>2. Inv => NoDoublesNorOrphans
  BY <1>1, Doubles DEF NoDoublesNorOrphans
<1> QED BY <1>2, Always, PTL
=============================================================================
