SPECIFICATION Spec
CONSTANTS
    f1 = f1
    f2 = f2
    f3 = f3
    w1 = w1
    w2 = w2
    Frames <- MCFrames
    Workers <- MCWorkers
    Leftovers <- MCLeftovers
    None = None
INVARIANT NoFrameLost
