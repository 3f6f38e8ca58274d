SPECIFICATION FairSpec
CONSTANTS
    NThreads = 3
    Counts = {1, 2, 4}
    Sizes = {0, 1, 2}
    Aborts = TRUE
    Graphs = 2
    Settled = TRUE
INVARIANTS
    TypeOK
    BarrierCounts
    SuccessMeansDone
    DispatchedOnce
PROPERTIES
    CallsReturnUnlessAborted
    WorkersSettle
    ImplementsLockstep
