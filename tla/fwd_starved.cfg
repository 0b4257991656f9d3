\* As many rejected messages as the breaker's threshold use up every run.
SPECIFICATION FairSpec
CONSTANTS
    Uid = {1, 2, 3, 4}
    Proc = {"svc"}
    MoveSupport = "MOVE"
    KeywordsPersist = TRUE
    SearchHonoured = TRUE
    Answer <- BadHead
    NumRetries = 0
    LabelWanted = TRUE
    Unfetchable = {}
    Threshold = 3
    QuarantineMode = "keyword"
    MinPerRun = 3
    OwnerTakes = {}
    OwnerDeletes = {}
    MaxFaults = 0
PROPERTIES
    GoodMailIsDelivered
