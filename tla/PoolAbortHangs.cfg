SPECIFICATION FairSpec
CONSTANTS
    NThreads = 2
    Counts = {2}
    Sizes = {1}
    Aborts = TRUE
    Graphs = 1
    Settled = TRUE
PROPERTY
    CallsReturn
