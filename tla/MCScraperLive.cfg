\* Do scrapes return and, once the faults are over, deliver everything?
SPECIFICATION Spec
CONSTANTS
    Devices <- LiveDevices
    Configs <- Listing
    Parts <- EmptyPart
    MaxFaults = 2
CHECK_DEADLOCK FALSE
PROPERTIES
    ScrapeReturns
    EventuallyComplete
    ResourceSticks
