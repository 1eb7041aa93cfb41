CONSTANTS
    Keys <- MCKeys
    Units <- MCUnits
    Running <- MCRunning
    Cycles <- MCCycles
    MinGCs = 1
    Infinity = 999
SPECIFICATION FairSpec
INVARIANTS ResultParses NoResultsWithoutRun TraceIsTrue LostOnlyIfTorn
PROPERTIES RunEnds
