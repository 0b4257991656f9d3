\* A week of failing calls, with the program's own delays in seconds.
SPECIFICATION WatchSpec
CONSTANTS
    Uid = {1}
    RetriggerInterval = 600
    SupportsIdle = TRUE
    PollInterval = 60
    ShortDelay = 5
    BusyDelay = 20
    BaseBackoff = 30
    MaxBackoff = 600
    FirstReconnect = 5
    MaxReconnect = 300
    FloatBits = 1024
    Took <- Brisk
    MaxFailures = 1030
    MaxFaults = 0
INVARIANTS
    BacksOff
