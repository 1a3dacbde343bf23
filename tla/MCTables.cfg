CONSTANTS
    None = None
    k1 = k1
    k2 = k2
    t1 = t1
    t2 = t2
    Threads = {t1, t2}
    Creator = t1
    Packets = {p1, p2, p3}
    DefaultSize = 1
    MaxBatch = 2
    MaxGets = 2
    w1 = w1
    w2 = w2
    r1 = r1
    v1 = v1
    v2 = v2
    v3 = v3
    v4 = v4
    v5 = v5
SPECIFICATION MCSpec
SYMMETRY Interchangeable
CHECK_DEADLOCK FALSE
INVARIANTS TablesInv PacketsOnce EntriesKept
PROPERTIES Matches
