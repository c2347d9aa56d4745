SPECIFICATION FairSpec
CONSTANTS
    ui = ui
    web = web
    plugin = plugin
    NoEnd = NoEnd
    RunLoops = {ui, web}
    Ends <- TwoEnds
    LoopOf <- TwoLoopOf
    PeerOf <- TwoPeerOf
    OnlyMarked = {"wu"}
    ExitOnFailure = {"wu"}
    CloseOnTermination = {"uw"}
    MayInvalidate = {}
    MayCrash = {}
    MayNest = {}
    MayTimeOut = {}
    SecondaryThreads = {worker}
    SecondaryEnd <- WorkerEnd
    MaxSync <- OneEach
    MaxAsync <- FromWeb
    MaxNesting = 0
    SocketCapacity = 9
CHECK_DEADLOCK FALSE
INVARIANTS TypeOK OnlyFlaggedOvertakes
PROPERTIES SentIsHandled SecondaryReturns
