SPECIFICATION PSpec
CONSTANTS
    d1 = d1
    Null = Null
    Drv = {d1}
    Feature = {}
    Builder = {b1, b2}
    Submitter = {s1}
    Offered <- MCOffersAll
    MaxJobs = 2
    LeaseTimeout = 0
    WithInputs = {}
    MaxLines = 1
    LogCapacity = 1
    Reannounce = TRUE
    MaxFaults = 1
INVARIANTS
    PTypeOK
    ExclusiveExecution
    ExecutionHoldsLease
    StreamInStep
    AckMeansAccepted
PROPERTY
    ImplementsRestarts
SYMMETRY MCSymmetry
CHECK_DEADLOCK FALSE
