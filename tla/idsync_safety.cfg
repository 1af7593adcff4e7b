SPECIFICATION Spec
CONSTANTS
  Ids <- ids19
  Str <- str19
  Decimal <- decimal19
  NoName = ""
  Replicas = {"r1"}
  Order <- order
  Wishes <- moves
  Invalid <- s2Invalid
  IdMod = 20
  Gaps = {0}
  MaxStamp = 19
  MaxSyncs = 4
  MaxFailures = 1
  MaxDrifts = 1
INVARIANTS
  TypeOK
  OneRowPerName
  ErrorsExplained
PROPERTIES
  NilMeansFaithful
  WishedKept
