SPECIFICATION FairSpec
CONSTANTS
  c1 = c1
  c2 = c2
  iwlwifi = iwlwifi
  nvidia = nvidia
  nouveau = nouveau
  good = good
  NoPackage = NoPackage
  NoRequest = NoRequest
  Free = Free
  Drivers <- MCDrivers
  Tracked <- MCTracked
  Callers <- MCOneCaller
  Foreign <- MCForeign
  InTree <- MCInTree
  Incompatible = {}
  Conflicting <- MCConflicting
  Requests <- MCRequests
  Packages <- MCGood
  Trusted <- MCGood
  Loadable <- MCGood
  Autoload <- MCNone
  InUse <- MCModules
  Transient = TRUE
  MayCrash = TRUE
  AutoDetect = TRUE
  DevMode = FALSE
  AllowUnsigned = TRUE
INVARIANTS
  RemovedIsUnloaded
  TrackedLoadedIsOperational
  UnforcedRemovalKeepsTracked
PROPERTIES
  FailedLeavesModule
  BusyModuleSurvives
  EngineFinishes
