CONSTANTS
  N = 2
  Quorums <- BothNodes
  Readers = {2}
  Shards = {1, 2}
  Messages <- LendRevokeKey
  Payloads <- SomePayloads
  Interval = 2
  MaxHeight = 2
  MaxRound <- OneThenTwo
  MaxShard <- OneShardAhead
  MaxCrashes = 1
  Heartbeat = Heartbeat
  None = None
SPECIFICATION Spec
INVARIANTS TypeOK WitnessesAreInOrder EventsAreNumbered AnnouncedOnceUntilRevoked ValidatorsReplay
CHECK_DEADLOCK FALSE
