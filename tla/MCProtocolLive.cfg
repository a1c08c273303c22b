SPECIFICATION FairSpec
CONSTANTS
    d1 = d1
    Null = Null
    Drv = {d1}
    Feature = {}
    Builder = {b1, b2}
    Submitter = {s1}
    Offered <- MCOffersAll
    MaxJobs = 2
    LeaseTimeout = 0
    WithInputs <- MCWithInputs
    MaxLines = 2
    LogCapacity = 1
    Reannounce = TRUE
    MaxFaults = 0
PROPERTY
    EveryJobEnds
CHECK_DEADLOCK FALSE
