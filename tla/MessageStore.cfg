CONSTANTS
  Keys = {"a", "b", "cast"}
  CastKeys = {"cast"}
  Signers = {"s1", "s2"}
  None = None
  Messages <- Collisions
  BatchSize = 2
  Limits = {2, 3}
  Revocable = {"s2"}
SPECIFICATION Spec
INVARIANTS TypeOK WinnersStored IndexMatches CompactHolds
PROPERTIES LimitHolds
CHECK_DEADLOCK FALSE
