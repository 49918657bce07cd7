SPECIFICATION FairSpec
CONSTANTS
    worker = worker
    replayer = replayer
    p1 = p1
    p2 = p2
    p3 = p3
    t1 = t1
    t2 = t2
    t3 = t3
    alice = alice
    Procs = {worker}
    Live = worker
    Pools = {p1}
    Tokens = {t1}
    blockOf <- MCBlockOf
    tokenOf <- MCTokenOf
    creatorOf <- MCCreatorOf
    MaxSpan <- MCMaxSpan
    Poison = {}
    Preexisting = {}
    MaxBlock = 3
    StuckLimit = 2
    Quota = 1
    Day = 2
    HeadLag = 2
    MaxFaults = 1
    SameToken = FALSE
PROPERTY
    LaunchGetsJob
