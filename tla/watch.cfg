\* The watcher's loop under its health check; the unit of time is thirty seconds.
SPECIFICATION FairHeartbeat
CONSTANTS
    Uid = {1, 2}
    RetriggerInterval = 12
    SupportsIdle = TRUE
    PollInterval = 2
    ShortDelay = 1
    BusyDelay = 1
    BaseBackoff = 1
    MaxBackoff = 8
    FirstReconnect = 1
    MaxReconnect = 4
    FloatBits = 1024
    Took <- Slow
    MaxFailures = 5
    MaxFaults = 2
    ImapTimeout = 2
    IdleTimeout = 8
    RequestTimeout = 30
    Margin = 4
    CheckInterval = 2
    UnhealthyAfter = 3
INVARIANTS
    WatcherTypeOK
    BacksOff
    WorkingIsNotReplaced
PROPERTIES
    EveryMailIsReported
    StuckIsReplaced
