SPECIFICATION Spec
CONSTANTS
    worker = worker
    replayer = replayer
    p1 = p1
    p2 = p2
    p3 = p3
    t1 = t1
    t2 = t2
    t3 = t3
    alice = alice
    Procs = {worker, replayer}
    Live = worker
    Pools = {p2, p3}
    Tokens = {t2}
    blockOf <- MCBlockOf
    tokenOf <- MCTokenOf
    creatorOf <- MCCreatorOf
    MaxSpan <- MCMaxSpan
    Poison = {p2}
    Preexisting = {}
    MaxBlock = 3
    StuckLimit = 1
    Quota = 1
    Day = 2
    HeadLag = 2
    MaxFaults = 1
    SameToken = TRUE
INVARIANTS
    TypeOK
    NoSilentSkip
PROPERTY
    ImplementsLaunchLane
