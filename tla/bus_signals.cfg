SPECIFICATION Spec
CONSTANTS
  c1 = c1
  c2 = c2
  Calls <- MCCalls
  Health = health
  Poll = poll
SYMMETRY MCSymmetry
CHECK_DEADLOCK FALSE
INVARIANTS
  TypeOK
  ChangesAreAnnounced
  GrantIsOnRecord
PROPERTIES
  NumbersOrder
