CONSTANTS
  FirstSeq = 9
  LastOf <- AcrossTen
  TimeOf <- SameSecond
  MayBeInvalid <- TheFourth
  MayBeMissing <- TheThird
  FidOf <- TwoFids
  BatchSize = 1
  MaxPull = 2
  Capacity = 3
  MaxLost = 2
  MaxEarly = 1
SPECIFICATION FairSpec
INVARIANTS TypeOK SubmittedAfterTheGap
PROPERTIES EveryBlockBringsOne
CHECK_DEADLOCK FALSE
