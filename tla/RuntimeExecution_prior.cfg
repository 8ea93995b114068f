SPECIFICATION FairSpec
CONSTANTS
    main = main
    rwg0 = rwg0
    other = other
    Stranger = Stranger
    Boards <- MCBoards
    BoardOrder <- MCBoardOrder
    IchLen <- MCIchLen
    Configs <- MCPreflightConfigs
    IcaAddressSpace = 4
    MaxNotAcceptedRetries = 1
    PriorBoards = {rwg0}
    RxCapacity = 1
    MaxResults = 0
    MaxFaults = 1
    MaxLost = 0
    MaxMalformed = 1
    Noisy = TRUE
PROPERTIES
    Termination
    EvidenceMonotone
    ImplementsContract
INVARIANTS
    OutcomeAgreesWithEvidence
    FullyObservedIsComplete
