SPECIFICATION JobSpec
CONSTANTS
    f1 = f1
    f2 = f2
    f3 = f3
    w1 = w1
    w2 = w2
    u1 = u1
    u2 = u2
    u3 = u3
    c1 = c1
    c2 = c2
    n1 = n1
    n2 = n2
    n3 = n3
    Server = Server
    None = None
    Frames <- MCFrames
    Workers <- MCWorkers
    Leftovers <- MCLeftovers
    Exposed <- MCLeftovers
    Places <- MCPlaces
    Uploads <- MCUploads
    Contents <- MCContents
    Content <- MCContent
    Packed <- MCPacked
    Params = {"masterDarkPath", "outputDirectory", "targetFrames", "clipLow", "weights",
              "outputPostfix", "overwriteExistingFiles", "showImages", "generateDrizzleData"}
    FileRefs = {"masterDarkPath"}
    DirField = "outputDirectory"
    TargetsField = "targetFrames"
    Tables = {"targetFrames", "weights"}
    MaxSet = 3
    Nodes <- MCNodes
    JobSizes <- MCJobSizes
    Rates <- MCRates
    One = 20
SYMMETRY Symmetry
INVARIANTS
    JobTypeOK
    DrizzleReadsThisRun
    SourceFound
    StrangersAreOld
    StoredFileWhole
    KeptOnlyByPackedFailure
    ExecutedAsConfigured
    ShardsPartitionInputs
    ProportionalShares
