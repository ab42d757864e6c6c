SPECIFICATION Spec
CONSTANTS
  Sockets = {s1, s2}
  Scripts <- MCScripts
  Sizes = {1, 2}
  MaxOps = 2
  s1 = s1
  s2 = s2
INVARIANTS
  StreamExact
  VerifiedAsAsked
  SessionOwned
PROPERTY
  ReadReturns
CHECK_DEADLOCK FALSE
