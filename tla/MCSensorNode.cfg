CONSTANTS
    MaxOrbit = 2
    MaxBoots = 2
    MaxLines = 2
    MaxFaults = 3
SPECIFICATION FairNodeSpec
INVARIANTS
    NodeTypeOK
    FileHoldsItsOrbit
    NoGaps
    CompleteUpToPosition
    OnlySentIsOverwritten
PROPERTIES
    SentOnce
    LostFixStaysLost
    ScanEnds
    ImplementsArchive
    ComesRound
CHECK_DEADLOCK FALSE
