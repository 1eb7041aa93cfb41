CONSTANTS
    Keys <- MCKeys
    Units <- MCUnits
    ValueParsers <- MCValueParsers
    Files <- MCFiles
    Depth = 3
SPECIFICATION Spec
INVARIANTS PrettyEnds
