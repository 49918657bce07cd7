SPECIFICATION Spec
CONSTANTS
    Worker = worker
    Procs = {worker}
    MaxReports = 3
    MaxLeaves = 2
    IntervalAge = 1
    ExpiryAge = 1
    MaxFaults = 3
INVARIANTS
    TypeOK
    AnchoredProof
    ResentOnlyIfForgotten
PROPERTIES
    CommitIdStable
    ImplementsReportAnchor
