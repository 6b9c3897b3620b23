SPECIFICATION FairSpec
CONSTANTS
    j1 = j1
    j2 = j2
    s1 = s1
    w1 = w1
    w2 = w2
    Jobs <- MCJobs
    Whole <- MCWhole
    Workers <- MCWorkers
    None = None
    DeadPolls = 2
    MaxChanges = 2
INVARIANTS
    BusyIsLeased
    OneAwaitedPerWorker
    LeaseInv
PROPERTIES
    ImplementsLease
    EveryJobReturns
