SPECIFICATION FairSpec
CONSTANTS
    w1 = w1
    b1 = b1
    b2 = b2
    receipt = receipt
    block = block
    NoKey = NoKey
    Calls = {w1, b1, b2}
    Keys = {receipt, block}
    tier <- MCTier
    key <- MCKey
    MaxInFlight = 2
    Burst = 2
    MaxEntries = 1
    rlRetries = 1
INVARIANTS
    TypeOK
    NoLostWakeup
    SlotsMatchCalls
    NoFrozenNull
PROPERTIES
    AdmittedInOrder
    TopTierServed
