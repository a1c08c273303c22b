SPECIFICATION Spec
CONSTANTS
    b1 = b1
    b2 = b2
    f1 = f1
    Null = Null
    Drv = {d1, d2}
    Feature = {f1}
    Builder = {b1, b2}
    Submitter = {s1, s2}
    Offered <- MCOffered
    MaxJobs = 3
    LeaseTimeout = 1
INVARIANTS
    TypeOK
    OnePlace
    NoJobLost
    OutcomeOfFinishedJob
    FetchedExactlyOnce
PROPERTY
    ImplementsLifecycle
SYMMETRY MCSymmetry
CHECK_DEADLOCK FALSE
