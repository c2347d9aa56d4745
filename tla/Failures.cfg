SPECIFICATION FairSpec
CONSTANTS
    ui = ui
    web = web
    plugin = plugin
    NoEnd = NoEnd
    RunLoops = {ui, web}
    Ends <- TwoEnds
    LoopOf <- TwoLoopOf
    PeerOf <- TwoPeerOf
    OnlyMarked = {"wu"}
    ExitOnFailure = {"wu"}
    CloseOnTermination = {"uw"}
    MayInvalidate = {"uw"}
    MayCrash = {ui, web}
    MayNest = {}
    MayTimeOut = {"uw"}
    SecondaryThreads = {}
    SecondaryEnd <- WorkerEnd
    MaxSync <- OneEach
    MaxAsync <- FromUI
    MaxNesting = 0
    SocketCapacity = 9
CHECK_DEADLOCK FALSE
INVARIANTS MarkedCountsHandlers NoLostWakeup CloseComesLast
PROPERTIES ChannelPromise ReturnsToRunLoop
