CONSTANTS
    NB = 4
    LM = 10
    Calls = {c1, c2, c3}
    Durations <- MCDurations
    Quantiles <- MCQuantiles
    WaitForAdds = FALSE
SPECIFICATION Spec
SYMMETRY MCSymmetry
INVARIANT QuantileInRange
