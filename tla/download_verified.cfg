SPECIFICATION FairSpec
CONSTANTS
  Size = 2
  MaxSize = 3
  MaxBody = 4
  MaxRetries = 1
  Expectations <- MCExpectations
  NoFile = NoFile
INVARIANTS
  TypeOK
  OkIsVerified
  FreshIsFaithful
PROPERTIES
  DownloadReturns
