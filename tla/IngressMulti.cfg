\* What a 250 for several recipients is worth.
CONSTANTS
  Addresses <- MCRecipients
  Recipients <- MCRecipients
  Ids = {1}
  Nil = 0
  Tables <- MCTables
  PerMails = {2}
  Unwanteds <- MCUnwanteds
  MaxFaults = 2
  MaxEdits = 1
  None = None
CHECK_DEADLOCK FALSE
SPECIFICATION Spec
INVARIANTS
  KeptIfAcknowledged
