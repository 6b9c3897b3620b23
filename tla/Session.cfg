SPECIFICATION FairSpec
CONSTANTS
    Last = 3
    Polls = 1
    Image = "wbpp-sidecar-windows-amd64.exe"
    None = None
INVARIANTS
    TypeOK
    WBPPOnce
    KeyFileGone
    OutlivesOnlyCrash
    CacheFresh
PROPERTIES
    ServerGetsWBPP
