CONSTANTS
    G = {g1, g2}
    Main = Main
    Runs = {r1, r2}
    NoRun = NoRun
    HasBallast = TRUE
    GCTrigger = 2
SPECIFICATION FairSpec
INVARIANTS NoPanic BarrierHolds GCSawSmallStacks OnlyCurrentRunChurns
PROPERTIES ImplementsPhases StopReturns
