SPECIFICATION FairSpec
CONSTANTS
    live = live
    backfill = backfill
    l1 = l1
    l2 = l2
    b1 = b1
    sell = sell
    insider = insider
    alive = alive
    NoClock = NoClock
    Labels = {sell, insider, alive}
    Live = live
    MaxRows = 4
    Broken = {2}
    Resettable = {3}
    Sweepers = {live}
    Runs = {l1, l2}
    Backoff = 1
    GiveUp = 1
    MaxFaults = 1
    MaxResets = 1
    label <- MCLabel
    rank <- MCRank
    grid <- MCGrid
    applies <- MCApplies
    owner <- MCOwner
    wanted <- MCWanted
    fair <- MCFair
    Batch <- MCBatch
    Concurrency <- MCConcurrency
PROPERTIES
    FinalStays
    FairAcrossLabels
    EventuallySettled
