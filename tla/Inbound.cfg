\* Two deliveries of one conversation; one delivery through every filter.
CONSTANTS
  Deliveries = {d1, d2}
  Mails <- MCMails
  Traffic <- MCTraffic
  Boxes <- MCBoxes
  Senders = {"eve", "dan"}
  Contacts <- Eve
  Away = {"ann", "dan"}
  Rules <- MCRules
  Interval = 1
  MaxTime = 1
  None = None
CHECK_DEADLOCK FALSE
SPECIFICATION Spec
INVARIANTS
  TypeOK
  AcknowledgedWhole
  WellPlaced
PROPERTIES
  KeepsForwarding
