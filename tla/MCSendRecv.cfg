CONSTANTS
    s1 = s1
    s2 = s2
    s3 = s3
    r1 = r1
    r2 = r2
    null = null
SPECIFICATION FairSpec
INVARIANTS NothingLost CompletesOnce ReturnsRight
PROPERTIES EverythingCompletes
