SPECIFICATION Spec
CONSTANTS
    ui = ui
    web = web
    plugin = plugin
    NoEnd = NoEnd
    RunLoops = {ui, web}
    Ends <- TwoEnds
    LoopOf <- TwoLoopOf
    PeerOf <- TwoPeerOf
    OnlyMarked = {"wu"}
    ExitOnFailure = {"wu"}
    CloseOnTermination = {"uw"}
    MayInvalidate = {}
    MayCrash = {}
    MayNest = {web}
    MayTimeOut = {"uw"}
    SecondaryThreads = {worker}
    SecondaryEnd <- WorkerEnd
    MaxSync <- TwoFromUI
    MaxAsync <- None
    MaxNesting = 1
    SocketCapacity = 1
CHECK_DEADLOCK FALSE
INVARIANTS HandledOnce PendingReplyIsOurs ReplyAnswersRequest
