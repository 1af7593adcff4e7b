SPECIFICATION Spec
CONSTANTS
  Ids <- ids19
  Str <- str19
  Decimal <- decimal19
  NoName = ""
  Replicas = {"r1", "r2"}
  Order <- order
  Wishes <- onlySmall
  Invalid = {}
  IdMod = 20
  Gaps = {0}
  MaxStamp = 9
  MaxSyncs = 2
  MaxFailures = 1
  MaxDrifts = 0
INVARIANT
  ReplicasServe
