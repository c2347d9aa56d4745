SPECIFICATION FairSpec
CONSTANTS
    a = a
    b = b
    c = c
    Master = Master
    Slaves = {s1, s2}
    Cells = {a, b, c}
    Edges <- Graph
    Blocks = 3
    FragmentLength = 2
    MaxCollections = 2
CHECK_DEADLOCK FALSE
INVARIANTS TypeOK AllReachableMarked OnlyReachableMarked OpaqueRootsMerged MutatorRunsAlone
           EveryBlockCopiedOnce
PROPERTIES CollectionIsAtomic CollectionFinishes
