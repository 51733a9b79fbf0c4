SPECIFICATION FairSpec
CONSTANTS
  N = 2
  States <- State
  Genesis <- InitState
  Exec <- Replay
  RootOf <- Root
  BlockEventsOf <- BlockEvents
  MaxSeq = 3
  Quorums <- SomeQuorum
  Payloads <- AnyOrderPayloads
  Keys = {1}
  MaxStamp = 2
  LendSeqs = {2}
  MaxHeight = 1
  MaxRound <- OneHeight
  MaxTime = 0
  MaxCrashes = 2
  None = None
INVARIANTS TypeOK ChunksAreDecided StateIsExecution NoEquivocation DecidedReplays
PROPERTY EveryNodeCommits
CHECK_DEADLOCK FALSE
