----------------------------- MODULE MCInbound -----------------------------
(* Small instances of Inbound.  The mailbox decides how much happens around a   *)
(* delivery: "ann" has filters of every kind, a contact to block and a vacation *)
(* responder; "bob" and "cas" have none of it and get two concurrent letters of *)
(* one conversation; "dan" has a vacation responder only.                       *)
EXTENDS Inbound

MCBoxes == {"ann", "bob", "cas", "dan"}
Eve == {<<"ann", "eve">>}

MCRules(b) ==
  IF b = "ann"
  THEN {"none", "reject", "block", "forward", "move_inbox", "move_work", "legacy_work",
        "legacy_reject"}
  ELSE {"none"}

Letter(b, from, n, hush) ==
  [box |-> b, from |-> from, subject |-> "s", auto |-> FALSE, quiet |-> hush, files |-> n,
   forced |-> None]

Letters == {Letter("bob", "eve", 1, FALSE), Letter("cas", "eve", 0, FALSE)}
Plain == {Letter("ann", "eve", 0, FALSE), Letter("ann", "eve", 1, TRUE),
          [Letter("ann", "eve", 0, FALSE) EXCEPT !.forced = "Inbox"]}
Holiday == {Letter("dan", "eve", 0, TRUE),
            [Letter("dan", "eve", 0, TRUE) EXCEPT !.auto = TRUE], Letter("dan", "dan", 0, TRUE)}
MCMails == Letters \cup Plain \cup Holiday

\* Two letters at once, or one message through the filters.
First == CHOOSE d \in Deliveries : TRUE
MCTraffic == [Deliveries -> Letters]
  \cup {[d \in Deliveries |-> IF d = First THEN m ELSE None] : m \in Plain}

HolidayTraffic == [Deliveries -> Holiday]
=============================================================================
