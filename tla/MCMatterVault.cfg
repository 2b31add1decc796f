SPECIFICATION Spec
CONSTANTS
    driver = driver
    clerk = clerk
    operator = operator
    box = box
    Procs <- AllProcs
    Boxes = {box}
    Box <- OneBox
    Drivers = {driver}
    Clerks = {clerk}
    Archivist = operator
    Closer = operator
    MaxTokens = 2
    MaxVaults = 2
    MaxWork = 2
    MaxStalls = 1
    MaxCrashes = 2
INVARIANTS SnapshotsWhole LossAccounted RecordTruthful
PROPERTIES SerialAppends CallFenced DestroyedIsBackedUp HoldHonoured
CHECK_DEADLOCK FALSE
