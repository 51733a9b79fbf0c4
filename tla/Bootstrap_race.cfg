CONSTANTS
    Vts <- TwoVts
    Nibble <- TwoHalves
    Parallel <- Two
    Pages <- TwoPages
    Account <- TwoAccounts
    Changed <- NoChange
    MaxSession = 1
    MaxFails = 0
SPECIFICATION Spec
INVARIANTS FinishedVerifies
