SPECIFICATION ShimSpec
CONSTANTS
    g1 = g1
    g2 = g2
    g3 = g3
    f1 = f1
    f2 = f2
    f3 = f3
    f4 = f4
    xfit = xfit
    xxisf = xxisf
    yfit = yfit
    stemx = stemx
    stemy = stemy
    pc1 = pc1
    pc2 = pc2
    registration = registration
    calibration = calibration
    Groups <- MCGroups
    Queues <- MCQueues
    Items <- MCItems
    Names <- MCNames
    Base <- MCBase
    Pos <- MCPos
    Stems <- MCStems
    Stem <- MCStem
    Computers <- MCComputers
    Labels <- MCLabels
    Sizes <- MCSizes
    NWorkers = 2
    Costs <- MCCosts
    MaxGroups = 6
SYMMETRY Symmetry
INVARIANT DescriptorFinite
