SPECIFICATION Spec
CONSTANTS
  N = 2
  States <- State
  Genesis <- InitState
  Exec <- Replay
  RootOf <- Root
  BlockEventsOf <- BlockEvents
  MaxSeq = 3
  Quorums <- SomeQuorum
  Payloads <- AnyOrderPayloads
  Keys = {1}
  MaxStamp = 2
  LendSeqs = {2}
  MaxHeight = 2
  MaxRound <- TwoThenOne
  MaxTime = 1
  MaxCrashes = 0
  None = None
INVARIANTS ParentIsPrevious
PROPERTIES CommitsDecided ImplementsLedger
CHECK_DEADLOCK FALSE
