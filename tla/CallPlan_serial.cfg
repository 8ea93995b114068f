CONSTANTS
    Operations <- MCOperations
    HardInitCycles = 250
    FixedOverhead = 15
    IterationOverhead = 24
    LargeCount = 128
    LargeIterationOverhead = 25
    Programs <- MCSerialPrograms
    BoardSeq <- MCBoardSeq
    Boards <- MCBoards
    Bindings <- MCBindings
    OpaqueBindings = {"f"}
    InstructionCost <- MCInstructionCost
    OpaqueBoard = "rwg0"
    VisitBudget = 40
SPECIFICATION Spec
INVARIANT SerialOrderKept
