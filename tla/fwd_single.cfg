\* One forwarder, an owner who interferes, a UIDPLUS server that ignores NOT KEYWORD.
SPECIFICATION Spec
CONSTANTS
    Uid = {1, 2, 3}
    Proc = {"svc"}
    MoveSupport = "UIDPLUS"
    KeywordsPersist = TRUE
    SearchHonoured = FALSE
    Answer <- AnyVerdict
    NumRetries = 1
    LabelWanted = TRUE
    Unfetchable = {}
    Threshold = 2
    QuarantineMode = "keyword"
    MinPerRun = 0
    OwnerTakes = {1}
    OwnerDeletes = {2}
    MaxFaults = 2
INVARIANTS
    TypeOK
    TrashIsInGmail
    MarkersAreTrue
    HiddenIsKept
    DuplicatesArePaid
PROPERTIES
    NothingVanishes
    NeverResent
    SettledAtReturn
    ImplementsDelivery
    BlamedOnlyOnVerdict
