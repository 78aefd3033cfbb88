\* Is a failing radio reported?
SPECIFICATION Spec
CONSTANTS
    Devices <- AllDevices
    Configs <- Default
    Parts <- NoParts
    MaxFaults = 1
CHECK_DEADLOCK FALSE
INVARIANTS
    RadioFailuresReported
