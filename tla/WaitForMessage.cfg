SPECIFICATION FairSpec
CONSTANT MaxMessages = 4
INVARIANTS TypeOK FunctionsCoverQueue HandledOnce OthersInOrder
PROPERTIES ArrivedIsHandled
CHECK_DEADLOCK FALSE
