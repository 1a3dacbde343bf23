CONSTANTS
    Threads = {t1, t2, t3, t4}
    MaxRounds = 3
    p1 = p1
    p2 = p2
    c1 = c1
    c2 = c2
    c3 = c3
    a = a
    b = b
    c = c
    d = d
    start = start
    end = end
    main = main
    t1 = t1
    t2 = t2
    s1 = s1
    s2 = s2
    s3 = s3
    w1 = w1
    w2 = w2
SPECIFICATION MCFairSpec
INVARIANTS CompletionInv TriggeredInOrder RoundDelivered IInv BarrierHolds QueueReturns
PROPERTIES EveryStartCompletes
