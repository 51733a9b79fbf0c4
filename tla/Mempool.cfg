CONSTANTS
  Shards = {1}
  Messages = {"cast", "keyAdd", "rent"}
  Kind <- KindOf
  FidShard <- OnShardOne
  Rank <- Ranks
  MaxPull = 1
  Capacity = 1
  Batch = 2
  QueueSize = 1
  ChannelSize = 1
  MaxAbandoned <- OnShardOneOnly
  Limited = TRUE
  Quota = 1
  None = None
SPECIFICATION FairSpec
INVARIANTS TypeOK ProposalIsFresh
PROPERTIES AdmittedIsProposed RequestsAreTaken
CHECK_DEADLOCK FALSE
