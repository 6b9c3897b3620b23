SPECIFICATION Spec
CONSTANTS
    r1 = r1
    r2 = r2
    r3 = r3
    registration = registration
    integration = integration
    Requests <- MCRequests
    JobIDs <- MCJobIDs
    JobID <- MCJobID
    PendingCap = 1
    None = None
INVARIANTS
    RegisteredWhileWaiting
    SendBlocksOnlyIfDisturbed
    IInv
PROPERTY
    ImplementsExchange
