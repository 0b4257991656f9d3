\* Progress behind a head to be retried, around a message that cannot be fetched.
SPECIFICATION FairSpec
CONSTANTS
    Uid = {1, 2, 3, 4}
    Proc = {"svc", "cli"}
    MoveSupport = "MOVE"
    KeywordsPersist = TRUE
    SearchHonoured = TRUE
    Answer <- SlowHead
    NumRetries = 1
    LabelWanted = TRUE
    Unfetchable = {3}
    Threshold = 1
    QuarantineMode = "folder"
    MinPerRun = 2
    OwnerTakes = {3}
    OwnerDeletes = {}
    MaxFaults = 1
PROPERTIES
    GoodMailIsDelivered
    OversizedMailIsParked
