CONSTANTS
    Keys <- TwoFids
    Uncompacted = 2
    MaxBulk = 1
    MaxOps = 2
    MaxPage = 1
SPECIFICATION Spec
INVARIANTS SerializedChildrenExist
