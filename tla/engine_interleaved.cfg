SPECIFICATION Spec
CONSTANTS
  c1 = c1
  c2 = c2
  iwlwifi = iwlwifi
  nvidia = nvidia
  nouveau = nouveau
  good = good
  NoPackage = NoPackage
  NoRequest = NoRequest
  Free = Free
  Drivers <- MCDrivers
  Tracked <- MCTracked
  Callers <- MCCallers
  Foreign = {}
  InTree <- MCInTree
  Incompatible = {}
  Conflicting <- MCNoConflicts
  Requests <- MCFewRequests
  Packages <- MCGood
  Trusted <- MCGood
  Loadable <- MCGood
  Autoload <- MCNvidia
  InUse <- MCNone
  Transient = TRUE
  MayCrash = TRUE
  AutoDetect = TRUE
  DevMode = FALSE
  AllowUnsigned = FALSE
SYMMETRY Symmetry
INVARIANTS
  TypeOK
  TrackerMatchesEngine
PROPERTIES
  FailedLeavesInventory
  LifecycleSpec
