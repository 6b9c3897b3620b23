SPECIFICATION FairSpec
CONSTANTS
    r1 = r1
    r2 = r2
    r3 = r3
    registration = registration
    integration = integration
    Requests <- LiveRequests
    JobIDs <- MCJobIDs
    JobID <- MCJobID
    PendingCap = 1
    None = None
PROPERTIES
    EveryRequestAnswered
    AnsweredWithoutTimer
