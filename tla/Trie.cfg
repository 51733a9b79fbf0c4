CONSTANTS
    Keys <- FourKeys
    Uncompacted = 2
    MaxBulk = 2
    MaxOps = 2
    MaxPage = 3
SPECIFICATION Spec
INVARIANTS TypeOK RootIsCanonical SubtreesAreCurrent StoredTrie PagesListAll
