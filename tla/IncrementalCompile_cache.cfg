SPECIFICATION Spec
CONSTANTS
    Versions <- MCVersions
    Content <- MCContent
    Missing = "missing"
    Intrinsics <- MCIntrinsics
    Modules <- MCModules
    Invocations = {"c1", "c2"}
    Pids = {"p1", "p2"}
    PidOf <- TwoPidOf
    EntryOf <- TwoEntryOf
    InitialFiles <- MCFiles
    Editable <- MCEditable
    MaxEdits = 2
    MaxCrashes = 1
    MaxIoErrors = 1
INVARIANTS
    SessionsAreSnapshots
PROPERTIES
    ReplayIsFresh
    AgreesWithFresh
CHECK_DEADLOCK FALSE
