\* Two revisions during a rollout, one of them with two threads.
SPECIFICATION ServerSpec
CONSTANTS
    old = old
    new1 = new1
    new2 = new2
    Uid = {1}
    Proc = {old, new1, new2}
    Instance = {"old", "new"}
    InstanceOf <- Rollout
    Nobody = nobody
    InvokerSet = TRUE
    AudienceSet = TRUE
    MoveSupport = "MOVE"
    KeywordsPersist = TRUE
    SearchHonoured = FALSE
    Answer <- AnyFate
    NumRetries = 1
    LabelWanted = FALSE
    Unfetchable = {}
    Threshold = 1
    QuarantineMode = "keyword"
    MinPerRun = 0
    OwnerTakes = {}
    OwnerDeletes = {}
    MaxFaults = 2
SYMMETRY NewThreads
INVARIANTS
    ServerTypeOK
    LockIsHeld
    OneRunAtATime
    DuplicatesPerInstance
PROPERTIES
    ImplementsDelivery
    BlamedOnlyOnVerdict
