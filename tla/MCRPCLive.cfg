CONSTANTS
    Shards = {s1}
    Reqs = {q1, q2}
    Conns = {c1}
    NoConn = NoConn
SPECIFICATION FairSpec
PROPERTIES ImplementsDrain BenchmarkEnds ClientFollows
