SPECIFICATION FairSpec
CONSTANTS
  w1 = w1
  w2 = w2
  w3 = w3
  Obj <- flatObj
  Kind <- flatKind
  Conf <- flatConf
  Refs <- flatRefs
  Absent = Absent
  Workers <- threeWorkers
  EventChanCap = 2
  MaxFailures = 2
INVARIANT
  NoErrorLost
PROPERTIES
  ReconcileSpec
  Termination
