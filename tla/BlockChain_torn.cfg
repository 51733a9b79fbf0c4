CONSTANTS
  N = 2
  Quorums <- BothNodes
  Readers = {2}
  Shards = {1}
  Messages <- LendRevokeKey
  Payloads <- SomePayloads
  Interval = 2
  MaxHeight = 2
  MaxRound <- OneThenTwo
  MaxShard <- TwoChunks
  MaxCrashes = 1
  Heartbeat = Heartbeat
  None = None
SPECIFICATION Spec
INVARIANTS DecidedReplays
CHECK_DEADLOCK FALSE
