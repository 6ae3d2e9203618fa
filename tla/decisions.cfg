SPECIFICATION Questions
CONSTANT
  None = None
  U64Max = 21
CHECK_DEADLOCK FALSE
INVARIANTS
  VersionsAreOrdered
  MatchesAreSound
  SelectionIsBest
  DescriptionsAreUsable
  FirewallIsFaithful
