SPECIFICATION Spec
CONSTANTS
  Ids <- ids4
  Str <- str4
  Decimal <- decimal4
  NoName = ""
  Replicas = {"r1"}
  Order <- order
  Wishes <- splits
  Invalid = {}
  IdMod = 5
  Gaps = {0, 1}
  MaxStamp = 8
  MaxSyncs = 3
  MaxFailures = 0
  MaxDrifts = 0
PROPERTY
  NilMeansCorrect
