CONSTANTS
    NB = 6
    LM = 27
    Width = 5
    Height = 2
    Fills = 3
    XBase = 3
    IntWidth = 8
    Fine = 4
    Samples = 4
SPECIFICATION Spec
INVARIANTS TicksPlaced
