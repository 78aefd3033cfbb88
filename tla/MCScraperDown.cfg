\* Does a device that goes down between two scrapes fail the discovery?
SPECIFICATION SpecDown
CONSTANTS
    Devices <- OneRepeater
    Configs <- RightCredentials
    Parts <- NoParts
    MaxFaults = 3
CHECK_DEADLOCK FALSE
INVARIANTS
    UnreachableFailsDiscovery
