SPECIFICATION FairSpec
CONSTANTS
    Worker = worker
    Procs = {worker, cli}
    MaxReports = 2
    MaxLeaves = 1
    IntervalAge = 1
    ExpiryAge = 1
    MaxFaults = 1
INVARIANTS
    AnchoredProof
PROPERTIES
    EventuallyCommitted
