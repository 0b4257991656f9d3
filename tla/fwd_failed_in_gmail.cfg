\* A lost reply, then a rejection of the same message.
SPECIFICATION Spec
CONSTANTS
    Uid = {1}
    Proc = {"svc"}
    MoveSupport = "MOVE"
    KeywordsPersist = TRUE
    SearchHonoured = TRUE
    Answer <- AnyFate
    NumRetries = 1
    LabelWanted = TRUE
    Unfetchable = {}
    Threshold = 3
    QuarantineMode = "keyword"
    MinPerRun = 1
    OwnerTakes = {}
    OwnerDeletes = {}
    MaxFaults = 1
INVARIANTS
    FailedIsNotInGmail
