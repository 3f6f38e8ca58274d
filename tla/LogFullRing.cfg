SPECIFICATION Spec
CONSTANTS
    a1 = a1
    a2 = a2
    a3 = a3
    Adders = {a1}
    PerAdder = 2
    Quiet <- NoQuiet
    Capacity = 2
    Calls = 1
    Careful = FALSE
INVARIANT
    ConsoleInOrder
