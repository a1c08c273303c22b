SPECIFICATION CSpec
CONSTANTS
    Null = Null
    Drv = {d1, d2}
    Feature = {}
    Builder = {b1}
    Submitter = {s1, s2}
    Offered <- MCOffered
    MaxJobs = 3
    LeaseTimeout = 0
INVARIANTS
    CTypeOK
    PollOfLiveJobIsAtomic
    HookVerdictIsReal
CHECK_DEADLOCK FALSE
