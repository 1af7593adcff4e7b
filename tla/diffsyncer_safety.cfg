SPECIFICATION Spec
CONSTANTS
  w1 = w1
  w2 = w2
  w3 = w3
  Obj <- fullObj
  Kind <- fullKind
  Conf <- fullConf
  Refs <- fullRefs
  Absent = Absent
  Workers <- twoWorkers
  EventChanCap = 1
  MaxFailures = 1
SYMMETRY WorkerSymmetry
INVARIANTS
  TypeOK
  InFlightExact
  PhaseBarrier
  MirrorsManba
  SuccessMeansSynced
PROPERTY
  DanglingBlamesFailure
