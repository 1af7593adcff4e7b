SPECIFICATION Spec
CONSTANTS
  Stores <- safeStores
  ClusterOrder <- refOrder
  AddrOrder <- addrOrder
  Numbers <- numbers
  NoPolicy <- noPolicy
  MaxBuilds = 2
INVARIANTS
  TypeOK
  RoutesReached
  AdmittedIsServed
  SameStoreSameConfig
  RepeatedBlamesServices
  RoutingsAnchored
  QPSDivided
  NameClashNeedsTwoDigits
  EveryParameterOnce
