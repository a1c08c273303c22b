\* The command ends: nothing is left to do.
CHECK_DEADLOCK FALSE
SPECIFICATION BPFairSpec
CONSTANTS
    A = A
    kvm = kvm
    Null = Null
    Drv = {A, B, C}
    Feature = {kvm}
    Builder = {b1, b2}
    Submitter = {s}
    MaxJobs = 3
    LeaseTimeout = 0
    Needs <- MCNeeds
    Offered <- MCOffered
INVARIANTS
    BPTypeOK
    DependenciesFirst
    PlannedOnce
    PlanIsComplete
    StopsWhenOver
    DependenciesStartFirst
PROPERTIES
    ImplementsRun
    PushEnds
