CONSTANTS
    t1 = t1
    t2 = t2
    t3 = t3
    r1 = r1
    r2 = r2
    NoThread = NoThread
    Settings = {"whole", "split", "fair"}
    Posters = {t1, t2}
    Progressers = {t2, t3}
    Drainers = {t1, t2}
    Ranks = {r1, r2}
    Targets = {r1, r2}
    Kinds = {"send", "putImm", "putImms"}
    SupportPutimm = FALSE
    MaxPosts = 2
SPECIFICATION MCFairSpec
INVARIANTS EndpointInv PostOrder
PROPERTIES BacklogDrains
