SPECIFICATION FairSpec
CONSTANTS
    worker = worker
    replayer = replayer
    p1 = p1
    p2 = p2
    p3 = p3
    t1 = t1
    t2 = t2
    t3 = t3
    alice = alice
    Procs = {worker}
    Live = worker
    Pools = {p1, p2, p3}
    Tokens = {t1, t2, t3}
    blockOf <- MCBlockOf
    tokenOf <- MCTokenOf
    creatorOf <- MCCreatorOf
    MaxSpan <- MCMaxSpan
    Poison = {p2}
    Preexisting = {p3}
    MaxBlock = 3
    StuckLimit = 2
    Quota = 1
    Day = 2
    HeadLag = 2
    MaxFaults = 3
    SameToken = FALSE
INVARIANTS
    AbandonedOnlyWhenStuck
PROPERTIES
    CursorReachesHead
