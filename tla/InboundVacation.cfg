\* Two messages of one correspondent to a mailbox with a vacation responder.
CONSTANTS
  Deliveries = {d1, d2}
  Mails <- MCMails
  Traffic <- HolidayTraffic
  Boxes <- MCBoxes
  Senders = {"eve", "dan"}
  Contacts <- Eve
  Away = {"ann", "dan"}
  Rules <- MCRules
  Interval = 1
  MaxTime = 1
  None = None
CHECK_DEADLOCK FALSE
SPECIFICATION Spec
INVARIANTS
  OneReplyPerInterval
