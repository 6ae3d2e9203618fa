SPECIFICATION Spec
CONSTANTS
  key = key
  hint = hint
  note = note
  Skew = 2
  MaxAge = 4
  Drifts <- MCDrifts
  Lifetimes <- MCLifetimes
  EndOfTime = 9
  MaxPublished = 2
  RepositoryKey = key
  TrustedKeys <- MCKeys
  Malformed <- MCMalformed
INVARIANTS
  ReplayIsBounded
  FreshIsAccepted
