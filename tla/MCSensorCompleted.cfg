CONSTANTS
    MaxOrbit = 2
    MaxBoots = 1
    MaxLines = 2
    MaxFaults = 0
SPECIFICATION FairNodeSpec
INVARIANTS
    CompletedIsSent
CHECK_DEADLOCK FALSE
