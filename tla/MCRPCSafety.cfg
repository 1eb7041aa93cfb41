CONSTANTS
    Shards = {s1, s2}
    Reqs = {q1, q2}
    Conns = {c1, c2}
    NoConn = NoConn
SPECIFICATION Spec
SYMMETRY MCSymmetry
INVARIANTS PoolIsIdle OneOutstanding WaitedForAll NothingLeaked StartedEndsCleanly
