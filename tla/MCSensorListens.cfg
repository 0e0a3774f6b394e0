CONSTANTS
    MaxOrbit = 2
    MaxBoots = 1
    MaxLines = 1
    MaxFaults = 0
SPECIFICATION FairNodeSpec
PROPERTIES
    ListensUntilScience
CHECK_DEADLOCK FALSE
