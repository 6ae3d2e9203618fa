SPECIFICATION Spec
CONSTANTS
  default = default
  short = short
  long = long
  Savers = {s1, s2}
  Values <- MCValues
  Default = default
  Length <- MCLength
  Inodes = {i1, i2, i3}
  NoInode = none
  Torn = torn
  Exclusive = TRUE
INVARIANTS
  TypeOK
  FileIsWhole
  SaveIsDurable
PROPERTIES
  NoSilentDefault
