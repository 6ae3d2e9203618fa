SPECIFICATION Spec
CONSTANTS
  c1 = c1
  c2 = c2
  iwlwifi = iwlwifi
  nvidia = nvidia
  nouveau = nouveau
  good = good
  NoPackage = NoPackage
  NoRequest = NoRequest
  Free = Free
  Drivers <- MCDrivers
  Tracked <- MCTracked
  Callers <- MCOneCaller
  Foreign <- MCForeign
  InTree <- MCInTree
  Incompatible = {}
  Conflicting <- MCConflicting
  Requests <- MCUpdates
  Packages <- MCGood
  Trusted <- MCGood
  Loadable <- MCGood
  Autoload <- MCNone
  InUse <- MCNone
  Transient = FALSE
  MayCrash = FALSE
  AutoDetect = TRUE
  DevMode = FALSE
  AllowUnsigned = FALSE
PROPERTIES
  UpdatedIsLoaded
