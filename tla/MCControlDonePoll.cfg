SPECIFICATION CSpec
CONSTANTS
    Null = Null
    Drv = {d1}
    Feature = {}
    Builder = {b1}
    Submitter = {s1}
    Offered <- MCOffered
    MaxJobs = 1
    LeaseTimeout = 0
INVARIANT
    PollOfDoneJobAnswersOutcome
CHECK_DEADLOCK FALSE
