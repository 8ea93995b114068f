CONSTANTS
    Operations <- MCOperations
    HardInitCycles = 250
    FixedOverhead = 15
    IterationOverhead = 24
    LargeCount = 128
    LargeIterationOverhead = 25
    Programs <- MCPrograms
    BoardSeq <- MCBoardSeq
    Boards <- MCBoards
    Bindings <- MCBindings
    OpaqueBindings = {"f"}
    InstructionCost <- MCInstructionCost
    OpaqueBoard = "rwg0"
    VisitBudget = 40
SPECIFICATION Spec
INVARIANTS TtlLevelsRealised NeverEarly LogicalDurationIsFurthest OpaqueExclusive Rendezvous LoopsAccounted PlaysItsLoad
