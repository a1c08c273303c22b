SPECIFICATION FairSpec
CONSTANTS
    d1 = d1
    Null = Null
    Drv = {d1}
    Feature = {}
    Builder = {b1}
    Submitter = {s1}
    Offered <- MCOffersAll
    MaxJobs = 1
    LeaseTimeout = 0
    WithInputs <- MCWithInputs
    MaxLines = 0
    LogCapacity = 1
    Reannounce = TRUE
    MaxFaults = 1
PROPERTY
    LostLeaseReturns
CHECK_DEADLOCK FALSE
