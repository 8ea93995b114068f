SPECIFICATION Spec
CONSTANTS
    main = main
    rwg0 = rwg0
    other = other
    Stranger = Stranger
    Boards <- MCBoards
    BoardOrder <- MCBoardOrder
    IchLen <- MCIchLen
    Configs <- MCConfigs
    IcaAddressSpace = 4
    MaxNotAcceptedRetries = 1
    PriorBoards = {}
    RxCapacity = 2
    MaxResults = 1
    MaxFaults = 2
    MaxLost = 1
    MaxMalformed = 0
    Noisy = FALSE
INVARIANTS
    TypeOK
    NotStartedMeansNoLaunch
    FramesOnceInOrder
    SuccessIsTrusted
    ResultsComplete
    AddressCorrelated
