SPECIFICATION FairSpec
CONSTANTS
    Versions <- MCVersions
    Content <- MCContent
    Missing = "missing"
    Intrinsics <- MCIntrinsics
    Modules <- MCModules
    Invocations <- MCInvocations
    Pids <- MCPids
    PidOf <- MCPidOf
    EntryOf <- MCEntryOf
    InitialFiles <- MCFiles
    Editable <- MCEditable
    MaxEdits = 0
    MaxCrashes = 1
    MaxIoErrors = 1
INVARIANTS
    PublishedComplete
    InterferesWithinProcess
PROPERTIES
    CompileTerminates
CHECK_DEADLOCK FALSE
