\* One recipient per transaction, or two of three, while the routes are edited once.
CONSTANTS
  Addresses <- MCRecipients
  Recipients <- MCRecipients
  Ids = {1}
  Nil = 0
  Tables <- MCTables
  PerMails = {1, 2}
  Unwanteds <- MCUnwanteds
  MaxFaults = 2
  MaxEdits = 1
  None = None
CHECK_DEADLOCK FALSE
SPECIFICATION LiveSpec
INVARIANTS
  TypeOK
  KeptIfAlone
  DuplicatesWereUnheard
PROPERTIES
  Settles
