---------------------------- MODULE MCOutbound ----------------------------
(* Small instances of Outbound: four mails cover a plain note, one address in  *)
(* two spellings, hidden local recipients with a thread, and a foreign sender. *)
EXTENDS Outbound

MCBoxes == {"ann", "bob", "cas"}
MCAddresses == {"bob", "BOB", "cas", "far", "off"}
MCNorm(a) == IF a = "BOB" THEN "bob" ELSE a
MCBox(n) == IF n \in MCBoxes THEN n ELSE "none"

Note(from) == [from |-> from, to |-> {"far"}, cc |-> {}, bcc |-> {}, thread |-> "none", files |-> 0]
Twice == [from |-> "own", to |-> {"bob", "far"}, cc |-> {"BOB"}, bcc |-> {}, thread |-> "none", files |-> 1]
Hidden == [from |-> "own", to |-> {"bob"}, cc |-> {}, bcc |-> {"cas"}, thread |-> "t1", files |-> 0]
Wide == [from |-> "own", to |-> {"far", "off"}, cc |-> {"bob"}, bcc |-> {}, thread |-> "none", files |-> 0]

Conf(admin, cloudflare, mailchannels, smtp, production, loops) ==
  [admin |-> admin, cloudflare |-> cloudflare, mailchannels |-> mailchannels, smtp |-> smtp,
   production |-> production, loops |-> loops]

Full == Conf(TRUE, TRUE, TRUE, TRUE, TRUE, TRUE)
Bare == Conf(FALSE, FALSE, FALSE, FALSE, FALSE, FALSE)
Relay == Conf(FALSE, FALSE, FALSE, TRUE, TRUE, FALSE)

Singles == {Note("alias"), Note("foreign"), Twice, Hidden, Wide}
Pairs == {Note("own"), Note("alias"), Note("foreign"), Hidden}

\* A message through the whole chain; two messages on a server without relays.
MCScenarios ==
  {[batch |-> <<m>>, conf |-> Full] : m \in Singles}
    \cup {[batch |-> <<m, n>>, conf |-> Bare] : m \in Pairs, n \in Pairs}
    \cup {[batch |-> <<Twice>>, conf |-> Relay]}
===========================================================================
