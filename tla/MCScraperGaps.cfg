\* Do missing credentials never fail a scrape with hosts.active?
SPECIFICATION Spec
CONSTANTS
    Devices <- OneHostCounter
    Configs <- Counting
    Parts <- NoParts
    MaxFaults = 1
CHECK_DEADLOCK FALSE
INVARIANTS
    HostEntryGapsDontFail
