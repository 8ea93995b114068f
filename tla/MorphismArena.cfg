CONSTANTS
    Definitions = {"d"}
    Operations = {"p"}
    Channels = {"c"}
    Durations = {"t"}
    Counts = {"n"}
    Arguments <- MCArguments
    BoardCalls <- MCBoardCalls
    MaxNodes = 4
    MaxLeaves = 2
    MaxTemplates = 1
    MaxChildren = 2
SPECIFICATION Spec
INVARIANTS ChildrenPrecede BuilderDenotes FinishPreserves FinishErrorsJustified
CHECK_DEADLOCK FALSE
