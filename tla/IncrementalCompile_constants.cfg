SPECIFICATION Spec
CONSTANTS
    Versions <- MCVersions
    Content <- MCContent
    Missing = "missing"
    Intrinsics <- MCIntrinsics
    Modules <- MCModules
    Invocations = {"c1", "c2"}
    Pids = {"p1", "p2"}
    PidOf <- TwoPidOf
    EntryOf <- TwoEntryOf
    InitialFiles <- ConstFiles
    Editable <- ConstEditable
    MaxEdits = 1
    MaxCrashes = 0
    MaxIoErrors = 0
PROPERTIES
    AgreesWithFresh
CHECK_DEADLOCK FALSE
