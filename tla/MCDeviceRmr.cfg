CONSTANTS
    t1 = t1
    t2 = t2
    t3 = t3
    None = None
    Threads = {t1, t2, t3}
    NetMaxSends = 5
    Threshold = 3
    Progressors = {t1, t2}
    Pollers = {t1, t2}
    Binder = t1
    NPackets = 4
    NetMaxRecvs = 3
    MaxPolls = 1
    Endpoints = {"ep0", "ep1"}
    NRanks = 2
    QpNums <- MCQpNums
    MaxQpNum = 9
    QpSends = 1
    Calls <- MCCalls
    CqPolls = 2
    MaxCqes = 2
    Users = {t1, t2}
    Buffers <- MCBuffers
    Alignment = 2
    MaxRegions = 4
    MaxEvents = 1
SPECIFICATION MCFairSpec
INVARIANTS RmrKeepsUserBase
