SPECIFICATION Spec
CONSTANTS
  Res <- pairRes
  Keys <- pairKeys
  ResKind <- pairKind
  Val <- pairVal
  OnClass = {"on"}
  Absent = Absent
  Forced = "force"
  None = None
  RingCap = 1
  MaxEvents = 2
  MaxFailures = 1
  MaxClock = 2
INVARIANTS
  TypeOK
  NoLostUpdate
  NilMeansSyncedIfWhole
