\* retry of a message that carries both quarantine keywords.
SPECIFICATION CliSystem
CONSTANTS
    Uid = {1}
    Proc = {"svc"}
    MoveSupport = "MOVE"
    KeywordsPersist = TRUE
    SearchHonoured = TRUE
    Answer <- Delivered
    NumRetries = 0
    LabelWanted = TRUE
    Unfetchable = {}
    Threshold = 2
    QuarantineMode = "keyword"
    MinPerRun = 1
    OwnerTakes = {1}
    OwnerDeletes = {}
    MaxFaults = 1
    MaxRequeues = 0
PROPERTIES
    RetryRequeues
