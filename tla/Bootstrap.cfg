CONSTANTS
    Vts <- ThreeVts
    Nibble <- TwoHalves
    Parallel <- OneOrTwo
    Pages <- ThreePages
    Account <- TwoAccounts
    Changed <- FirstAndLastChanged
    MaxSession = 0
    MaxFails = 2
SPECIFICATION FairSpec
INVARIANTS TypeOK ProgressIsDurable SerialVerifies PromotedIsTheSnapshot
PROPERTIES BootstrapEnds
