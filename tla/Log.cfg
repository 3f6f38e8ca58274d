SPECIFICATION FairSpec
CONSTANTS
    a1 = a1
    a2 = a2
    a3 = a3
    Adders = {a1, a2, a3}
    PerAdder = 1
    Quiet <- FirstQuiet
    Capacity = 2
    Calls = 2
    Careful = TRUE
INVARIANTS
    ConsoleInOrder
    FilesComplete
PROPERTIES
    CallsReturn
    ImplementsLogQueue
