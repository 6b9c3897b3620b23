SPECIFICATION FairSpec
CONSTANTS
    f1 = f1
    f2 = f2
    f3 = f3
    w1 = w1
    w2 = w2
    Frames <- MCFrames
    Workers <- MCWorkers
    Leftovers <- MCLeftovers
    None = None
INVARIANTS
    TypeOK
    PartialShortfallRecovered
    NoWorkRepeated
PROPERTIES
    AcceptedFileStable
    EveryFrameSettled
