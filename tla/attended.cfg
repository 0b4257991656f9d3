\* Two messages, an instance with one thread, the watcher and the operator.
SPECIFICATION FairAttended
CONSTANTS
    Uid = {1, 2}
    Proc = {"t1"}
    Instance = {"svc"}
    InstanceOf <- Single
    Nobody = "nobody"
    InvokerSet = TRUE
    AudienceSet = TRUE
    MoveSupport = "MOVE"
    KeywordsPersist = TRUE
    SearchHonoured = TRUE
    Answer <- SecondMayFail
    NumRetries = 0
    LabelWanted = FALSE
    Unfetchable = {}
    Threshold = 2
    QuarantineMode = "keyword"
    MinPerRun = 2
    OwnerTakes = {}
    OwnerDeletes = {}
    MaxFaults = 1
    RetriggerInterval = 3
    SupportsIdle = FALSE
    PollInterval = 1
    ShortDelay = 1
    BusyDelay = 1
    BaseBackoff = 1
    MaxBackoff = 1
    FirstReconnect = 1
    MaxReconnect = 1
    FloatBits = 1024
    Took <- Brisk
    MaxFailures = 1
    MaxRequeues = 1
INVARIANTS
    CliTypeOK
    DuplicatesArePaid
    MarkersAreTrue
    NotInGmailIsPaid
PROPERTIES
    ProofIsKept
    RequeuedMailIsPickedUp
