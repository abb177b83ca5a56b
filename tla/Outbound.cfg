\* One message through every transport; batches of two, one of which may be foreign.
CONSTANTS
  Scenarios <- MCScenarios
  Addresses <- MCAddresses
  Boxes <- MCBoxes
  Box <- MCBox
  Norm <- MCNorm
  Sender = "ann"
  Other = "cas"
  Threads = {"t1"}
  None = "none"
CHECK_DEADLOCK FALSE
SPECIFICATION Spec
INVARIANTS
  TypeOK
  NoneIfOneForeign
  FiledWasAccepted
  DuplicatesAreUnsure
  LocalCopies
