SPECIFICATION Spec
CONSTANTS
    live = live
    backfill = backfill
    l1 = l1
    l2 = l2
    b1 = b1
    sell = sell
    insider = insider
    alive = alive
    NoClock = NoClock
    Labels = {sell, insider, alive}
    Live = live
    MaxRows = 2
    Broken = {}
    Resettable = {2}
    Sweepers = {live, backfill}
    Runs = {l1, l2, b1}
    Backoff = 1
    GiveUp = 2
    MaxFaults = 1
    MaxResets = 1
    label <- MCLabel
    rank <- MCRank
    grid <- MCGrid
    applies <- MCAllApply
    owner <- MCOwner
    wanted <- MCWanted
    fair <- MCFair
    Batch <- MCBatch
    Concurrency <- MCConcurrency
SYMMETRY MCRunSymmetry
INVARIANTS
    TypeOK
    UnresolvableIsNoOutcome
    GiveUpEarned
