SPECIFICATION Spec
CONSTANTS
  small = small
  large = large
  partials = partials
  Digest <- MCDigest
  Size <- MCSize
  Subdir = partials
  User = user
  Clearers = {clearer}
  MaxSize = 3
  MaxEntries = 1
  MayFail = TRUE
INVARIANTS
  TypeOK
  EntriesAreWhole
PROPERTIES
  NothingIsLost
  StoredIsDescribed
  EnforceMeetsLimits
