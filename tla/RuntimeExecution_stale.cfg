SPECIFICATION Spec
CONSTANTS
    main = main
    rwg0 = rwg0
    other = other
    Stranger = Stranger
    Boards <- MCBoards
    BoardOrder <- MCBoardOrder
    IchLen <- MCIchLen
    Configs <- MCConfigs
    IcaAddressSpace = 4
    MaxNotAcceptedRetries = 1
    PriorBoards <- MCBoards
    RxCapacity = 2
    MaxResults = 0
    MaxFaults = 0
    MaxLost = 0
    MaxMalformed = 0
    Noisy = FALSE
INVARIANTS
    SuccessIsTrusted
