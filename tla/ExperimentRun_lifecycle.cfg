SPECIFICATION FairSpec
CONSTANTS
    Layouts <- MCLayouts
    DeviceCount = 2
    MaxRuns = 2
INVARIANTS
    ProgramOfPoint
    TraversalInOrder
    OneCompilation
    StopWithinOnePoint
    RowsMatchAttempts
    OkMeansComplete
    CleanupComplete
PROPERTIES
    StopEndsRun
    UnpausedRunEnds
