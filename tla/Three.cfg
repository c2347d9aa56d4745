SPECIFICATION Spec
CONSTANTS
    ui = ui
    web = web
    plugin = plugin
    NoEnd = NoEnd
    RunLoops = {ui, web, plugin}
    Ends <- ThreeEnds
    LoopOf <- ThreeLoopOf
    PeerOf <- ThreePeerOf
    OnlyMarked = {"wu", "pw"}
    ExitOnFailure = {"wu"}
    CloseOnTermination = {"uw"}
    MayInvalidate = {}
    MayCrash = {}
    MayNest = {}
    MayTimeOut = {}
    SecondaryThreads = {}
    SecondaryEnd <- WorkerEnd
    MaxSync <- NotFromUI
    MaxAsync <- FromUI
    MaxNesting = 0
    SocketCapacity = 9
CHECK_DEADLOCK FALSE
INVARIANTS ReceivedIsScheduled NoSyncDeadlock
