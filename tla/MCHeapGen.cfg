CONSTANTS
    IntBits = 6
    Gens <- MCGens
    Goals = {0, 5}
    ProcCounts = {1, 2, 3}
    Garbage = 1
    MaxOther = 2
SPECIFICATION FairSpec
INVARIANTS MeasureExact PanicsOnlyWhen RetainsAll CoversGoal
PROPERTIES GenerateReturns
