SPECIFICATION DSpec
CONSTANTS
    Modes = {"gateway"}
    Reserve = 1
    LowWater = 3
    PhantomTolerance = 0
    MinGrade = 2
    AnomalyPct = 50
    AnomalyEpochs = 1
    IdsBand = 0
    FirstBalance = 4
    TopUpUsd = 2
    MaxEvents = 0
    Launches = {1}
    SweepLimit = 1
    CapPerRun = 1
    DailyCap = 1
    Trailing = {0}
    StepOver = 0
    MaxJobs = 2
    MaxCharged = 3
INVARIANTS
    PhantomMeansForeign
