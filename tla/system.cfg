\* The watcher and one instance with two threads.
SPECIFICATION FairSystem
CONSTANTS
    Uid = {1, 2}
    Proc = {"t1", "t2"}
    Instance = {"svc"}
    InstanceOf <- Single
    Nobody = "nobody"
    InvokerSet = TRUE
    AudienceSet = TRUE
    MoveSupport = "MOVE"
    KeywordsPersist = TRUE
    SearchHonoured = TRUE
    Answer <- LargeFirst
    NumRetries = 0
    LabelWanted = FALSE
    Unfetchable = {}
    Threshold = 2
    QuarantineMode = "keyword"
    MinPerRun = 1
    OwnerTakes = {}
    OwnerDeletes = {}
    MaxFaults = 2
    RetriggerInterval = 6
    SupportsIdle = FALSE
    PollInterval = 1
    ShortDelay = 1
    BusyDelay = 1
    BaseBackoff = 1
    MaxBackoff = 2
    FirstReconnect = 1
    MaxReconnect = 1
    FloatBits = 1024
    Took <- Brisk
    MaxFailures = 2
INVARIANTS
    LockIsHeld
    OneRunAtATime
PROPERTIES
    MailIsDelivered
    QuietWhenDone
    LockIsReturned
    AnsweredMailIsSettled
