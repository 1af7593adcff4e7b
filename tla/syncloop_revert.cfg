SPECIFICATION Spec
CONSTANTS
  Res <- singleRes
  Keys <- singleKeys
  ResKind <- singleKind
  Val <- singleVal
  OnClass = {"on"}
  Absent = Absent
  Forced = "force"
  None = None
  RingCap = 1
  MaxEvents = 2
  MaxFailures = 1
  MaxClock = 2
INVARIANT
  NilMeansSynced
