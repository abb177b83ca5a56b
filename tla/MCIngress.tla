----------------------------- MODULE MCIngress -----------------------------
(***************************************************************************)
(* Small instances of Ingress: two addresses of one domain and one of      *)
(* another; a mailbox that is reached by its own address, as a catch-all,  *)
(* by an alias of either kind, in all domains, or not at all.              *)
(***************************************************************************)
EXTENDS Ingress

Address(l, d) == [local |-> l, domain |-> d]
Ann == Address("ann", "a")
Bob == Address("bob", "a")
Else == Address("ann", "b")
MCRecipients == {Ann, Bob, Else}

Box(id, a, all, catch) == [id |-> id, at |-> a, all |-> all, catch |-> catch]
Table(boxes, aliases, sendAs, forwards) ==
  [boxes |-> boxes, aliases |-> aliases, sendAs |-> sendAs, forwards |-> forwards]

\* The message is wanted by all, or Bob's filters reject it.
MCUnwanteds == {{}, {Bob}}

MCTables ==
  {Table({Box(1, Ann, FALSE, FALSE)}, {}, {[at |-> Bob, box |-> 1]}, {}),
   Table({}, {}, {}, {"b"})}

Two == {{}, {Box(1, Ann, FALSE, FALSE)}, {Box(1, Ann, TRUE, FALSE), Box(2, Bob, FALSE, TRUE)},
        {Box(1, Ann, FALSE, TRUE), Box(2, Else, TRUE, TRUE)}}
Rows == SUBSET [at : {Bob, Else}, box : {1}]
AllTables == {Table(b, x, y, f) : b \in Two, x \in Rows, y \in Rows, f \in {{}, {"a"}, {"a", "b"}}}

\* What resolve_recipient is for: an address with a mailbox leads there and nowhere
\* else, one that any table names leads somewhere, and one that none names nowhere;
\* where there are mailboxes only it answers as resolve_address does.
ASSUME RoutingAssumption ==
  \A t \in AllTables, a \in MCRecipients :
    LET box == {b \in t.boxes : b.at = a}
        named == \/ \E b \in t.boxes : b.at = a \/ (b.all /\ b.at.local = a.local)
                                       \/ (b.catch /\ b.at.domain = a.domain)
                 \/ \E r \in t.aliases \cup t.sendAs : r.at = a /\ \E b \in t.boxes : b.id = r.box
                 \/ a.domain \in t.forwards IN
    /\ box # {} => Resolve(t, a) = {b.id : b \in box}
    /\ Accepted(t, a) <=> named
    /\ Nil \in Resolve(t, a) => Resolve(t, a) = {Nil}
    /\ t.aliases = {} /\ t.sendAs = {} /\ t.forwards = {} /\ (\A b \in t.boxes : ~b.all)
         => Resolve(t, a) = ResolveAddress(t, a)
=============================================================================
