SPECIFICATION FairSpec
CONSTANTS
  Replicas = {"r1", "r2"}
  ElectionID <- sharedId
  Ings = {"i1"}
  Twins = {"i1"}
  PublishStatusAddress = "1.2.3.4"
  NoAddress = ""
  MaxFaults = 1
INVARIANT
  TypeOK
PROPERTIES
  WritersAccountable
  StatusConverges
  StopReturns
CHECK_DEADLOCK FALSE
