\* Scrapes of five devices with hosts.active, or with the other opt-in metrics.
SPECIFICATION Spec
CONSTANTS
    Devices <- AllDevices
    Configs <- Both
    Parts <- SomeParts
    MaxFaults = 2
CHECK_DEADLOCK FALSE
INVARIANTS
    TypeOK
    UnaffectedGroupsExport
    DataIsWhole
    CapabilityGapsDontFail
    FailuresReported
    
    MutexNotHeld
