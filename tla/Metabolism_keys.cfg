SPECIFICATION DFairSpec
CONSTANTS
    Modes = {"managed", "observe", "gateway"}
    Reserve = 1
    LowWater = 3
    PhantomTolerance = 0
    MinGrade = 2
    AnomalyPct = 50
    AnomalyEpochs = 1
    IdsBand = 0
    FirstBalance = 2
    TopUpUsd = 2
    MaxEvents = 4
    Launches = {}
    SweepLimit = 1
    CapPerRun = 1
    DailyCap = 1
    Trailing = {0}
    StepOver = 0
    MaxJobs = 0
    MaxCharged = 0
INVARIANTS
    HaltHolds
    OnlyLostKeyDiverges
PROPERTIES
    EventuallyServes
