----------------------------- MODULE Connection -----------------------------
(***************************************************************************)
(* CoreIPC::Connection of WebKit2 on the Unix/Qt back end                   *)
(* (Platform/CoreIPC/Connection.cpp, unix/ConnectionUnix.cpp).              *)
(*                                                                         *)
(* A connection has two ends, each in a process of its own.  An end is used *)
(* by two threads: the client thread, which runs the process's client run   *)
(* loop, handlers and synchronous sends, and the thread of the connection's *)
(* work queue, which reads and writes the socket.  All the connections of a *)
(* run loop share one SyncMessageState: a queue of messages to dispatch     *)
(* even while the client thread waits for a synchronous reply, and the      *)
(* semaphore that wakes it.                                                 *)
(***************************************************************************)
EXTENDS Integers, Sequences, SequencesExt

CONSTANTS
    RunLoops,            \* client run loops, one per process
    Ends,                \* ends of connections (Connection objects)
    NoEnd,               \* the null Connection*
    LoopOf,              \* m_clientRunLoop
    PeerOf,              \* the end at the other side of the socket pair
    OnlyMarked,          \* ends with m_onlySendMessagesAsDispatchWhenWaiting...
    ExitOnFailure,       \* ends with m_shouldExitOnSyncMessageSendFailure
    CloseOnTermination,  \* ends closed by setShouldCloseConnectionOnProcessTermination
    MayInvalidate,       \* ends whose owner may call invalidate()
    MayCrash,            \* run loops whose process may die at any moment
    MayNest,             \* run loops whose handlers may spin a nested loop
    MayTimeOut,          \* ends that pass a timeout to sendSync
    SecondaryThreads,    \* threads other than the client thread that sendSync
    SecondaryEnd,        \* the connection each of them uses
    MaxSync,             \* bound: synchronous requests per end
    MaxAsync,            \* bound: asynchronous messages per end
    MaxNesting,          \* bound: nested loops per run loop
    SocketCapacity       \* messages a socket buffer holds before EAGAIN

ASSUME LoopAssumption == LoopOf \in [Ends -> RunLoops]
ASSUME PeerAssumption ==
    /\ PeerOf \in [Ends -> Ends]
    /\ \A e \in Ends : PeerOf[PeerOf[e]] = e /\ PeerOf[e] # e
ASSUME NoEndAssumption == NoEnd \notin Ends
ASSUME FlagsAssumption ==
    /\ OnlyMarked \subseteq Ends
    /\ ExitOnFailure \subseteq Ends
    /\ CloseOnTermination \subseteq Ends
    /\ MayInvalidate \subseteq Ends
    /\ MayTimeOut \subseteq Ends
    /\ MayCrash \subseteq RunLoops
    /\ MayNest \subseteq RunLoops
ASSUME SecondaryAssumption == SecondaryEnd \in [SecondaryThreads -> Ends]
ASSUME BoundsAssumption ==
    /\ MaxSync \in [Ends -> Nat]
    /\ MaxAsync \in [Ends -> Nat]
    /\ MaxNesting \in Nat
    /\ SocketCapacity \in Nat

VARIABLES
    client,        \* m_client is not null: isValid()
    connected,     \* m_isConnected
    shouldWait,    \* m_shouldWaitForSyncReplies
    syncRequestID, \* m_syncRequestID
    marked,        \* m_inDispatchMessageMarkedDispatchWhenWaitingForSyncReplyCount
    pending,       \* m_pendingSyncReplies
    incoming,      \* m_incomingMessages
    outgoing,      \* m_outgoingMessages
    wire,          \* messages in the socket buffer that end e reads
    queue,         \* functions on m_connectionQueue
    waking,        \* its thread is about to call wakeUpClientRunLoop()
    toDispatch,    \* m_messagesToDispatchWhileWaitingForSyncReply
    scheduled,     \* m_didScheduleDispatchMessagesWorkSet
    semaphore,     \* m_waitForSyncReplySemaphore
    functions,     \* RunLoop::m_functionQueue
    stack,         \* the C++ call stack of the client thread
    alive,         \* the process is running
    secondary,     \* sendSyncMessageFromSecondaryThread, per thread
    serial,        \* history: requests and messages sent so far at each end
    handled        \* history: messages each end has passed to its client

endVars == <<client, connected, shouldWait, syncRequestID, marked, pending>>
queueVars == <<incoming, outgoing, wire, queue, waking>>
loopVars == <<toDispatch, scheduled, semaphore, functions, stack, alive>>
vars == <<endVars, queueVars, loopVars, secondary, serial, handled>>

-----------------------------------------------------------------------------
(* A message: a synchronous request carries its request id, a reply the id   *)
(* of its request.  serial numbers the requests and asynchronous messages of *)
(* an end in sending order; a reply repeats the serial of what it answers.   *)
Message == [type : {"async", "sync", "reply"}, id : Nat, serial : Nat, flagged : BOOLEAN]

NoMessage == [type |-> "async", id |-> 0, serial |-> 0, flagged |-> FALSE]

ConnectionAndMessage == [conn : Ends, msg : Message]

(* A frame of the client thread's stack: "handle" is dispatchMessage inside  *)
(* the client's handler, "swap" and "dispatch" are the two parts of          *)
(* dispatchMessages(conn), "check" and "sleep" those of waitForSyncReply for *)
(* request msg, "nested" is a nested event loop.                             *)
Frame == [at : {"handle", "swap", "dispatch", "check", "sleep", "nested"},
          conn : Ends \cup {NoEnd}, msg : Message,
          todo : Seq(ConnectionAndMessage), putBack : Seq(ConnectionAndMessage)]

NewFrame(at, e, m) ==
    [at |-> at, conn |-> e, msg |-> m, todo |-> <<>>, putBack |-> <<>>]

Function == [fn : {"dispatchOneMessage", "dispatchMessagesForConnection",
                   "dispatchConnectionDidClose"}, conn : Ends]

Top(l) == stack[l][Len(stack[l])]
At(l, where) == stack[l] # <<>> /\ Top(l).at \in where

(* The client thread is in its run loop, or runs code of the client.         *)
InRunLoop(l) == alive[l] /\ (stack[l] = <<>> \/ At(l, {"nested"}))
InClient(l) == alive[l] /\ (stack[l] = <<>> \/ At(l, {"nested", "handle"}))

(* The work queue's thread of end e is free to take its next function.       *)
QueueFree(e) == alive[LoopOf[e]] /\ ~waking[e]

Idle == [phase |-> "idle", id |-> 0, serial |-> 0, reply |-> 0, signalled |-> FALSE]

Init ==
    /\ client = [e \in Ends |-> TRUE]
    /\ connected = [e \in Ends |-> TRUE]
    /\ shouldWait = [e \in Ends |-> TRUE]
    /\ syncRequestID = [e \in Ends |-> 0]
    /\ marked = [e \in Ends |-> 0]
    /\ pending = [e \in Ends |-> <<>>]
    /\ incoming = [e \in Ends |-> <<>>]
    /\ outgoing = [e \in Ends |-> <<>>]
    /\ wire = [e \in Ends |-> <<>>]
    /\ queue = [e \in Ends |-> <<>>]
    /\ waking = [e \in Ends |-> FALSE]
    /\ toDispatch = [l \in RunLoops |-> <<>>]
    /\ scheduled = [l \in RunLoops |-> {}]
    /\ semaphore = [l \in RunLoops |-> FALSE]
    /\ functions = [l \in RunLoops |-> <<>>]
    /\ stack = [l \in RunLoops |-> <<>>]
    /\ alive = [l \in RunLoops |-> TRUE]
    /\ secondary = [t \in SecondaryThreads |-> Idle]
    /\ serial = [e \in Ends |-> 0]
    /\ handled = [e \in Ends |-> <<>>]

-----------------------------------------------------------------------------
(* Sending.                                                                  *)

(* A mutant of Flagged. *)
FlaggedIgnoringHandlers(e) == e \notin OnlyMarked

(* What sendMessage() decides about the DispatchMessageEvenWhenWaiting flag. *)
Flagged(e) == e \notin OnlyMarked \/ marked[e] > 0

(* sendMessage() on a valid connection.                                      *)
sendMessage(e, m) ==
    /\ outgoing' = [outgoing EXCEPT ![e] = Append(@, m)]
    /\ queue' = [queue EXCEPT ![e] = Append(@, "sendOutgoingMessages")]

(* Client code sends an asynchronous message, with or without asking for it  *)
(* to be dispatched while the receiver waits for a reply.                    *)
SendAsync(e, ask) ==
    /\ InClient(LoopOf[e])
    /\ client[e]
    /\ serial[e] - syncRequestID[e] < MaxAsync[e]
    /\ sendMessage(e, [type |-> "async", id |-> 0, serial |-> serial[e] + 1,
                       flagged |-> ask /\ Flagged(e)])
    /\ serial' = [serial EXCEPT ![e] = @ + 1]
    /\ UNCHANGED <<endVars, incoming, wire, waking, loopVars, secondary, handled>>

(* The client thread leaves the process: exit() or a crash.  The kernel      *)
(* closes its sockets; what it had already written can still be read.        *)
ProcessExits(l) ==
    LET Lost(f, v) == [e \in Ends |-> IF LoopOf[e] = l THEN v ELSE f[e]]
    IN  /\ alive' = [alive EXCEPT ![l] = FALSE]
        /\ stack' = [stack EXCEPT ![l] = <<>>]
        /\ functions' = [functions EXCEPT ![l] = <<>>]
        /\ toDispatch' = [toDispatch EXCEPT ![l] = <<>>]
        /\ scheduled' = [scheduled EXCEPT ![l] = {}]
        /\ semaphore' = [semaphore EXCEPT ![l] = FALSE]
        /\ client' = Lost(client, FALSE)
        /\ connected' = Lost(connected, FALSE)
        /\ marked' = Lost(marked, 0)
        /\ pending' = Lost(pending, <<>>)
        /\ incoming' = Lost(incoming, <<>>)
        /\ outgoing' = Lost(outgoing, <<>>)
        /\ wire' = Lost(wire, <<>>)
        /\ queue' = Lost(queue, <<>>)
        /\ waking' = Lost(waking, FALSE)
        /\ secondary' = [t \in SecondaryThreads |->
               IF LoopOf[SecondaryEnd[t]] = l THEN Idle ELSE secondary[t]]
        /\ UNCHANGED <<shouldWait, syncRequestID, serial, handled>>

Crash(l) == l \in MayCrash /\ alive[l] /\ ProcessExits(l)

(* sendSyncMessage() up to the first dispatchMessages(0) of waitForSyncReply:*)
(* push the pending reply, send the request, start to wait.                  *)
SendSync(e) ==
    LET l == LoopOf[e]
        m == [type |-> "sync", id |-> syncRequestID[e] + 1,
              serial |-> serial[e] + 1, flagged |-> Flagged(e)]
    IN  /\ InClient(l)
        /\ syncRequestID[e] < MaxSync[e]
        /\ client[e]
        /\ shouldWait[e]
        /\ syncRequestID' = [syncRequestID EXCEPT ![e] = @ + 1]
        /\ pending' = [pending EXCEPT ![e] = Append(@, [id |-> m.id, reply |-> 0])]
        /\ sendMessage(e, m)
        /\ stack' = [stack EXCEPT ![l] =
               Append(Append(@, NewFrame("check", e, m)), NewFrame("swap", NoEnd, NoMessage))]
        /\ serial' = [serial EXCEPT ![e] = @ + 1]
        /\ UNCHANGED <<client, connected, shouldWait, marked, incoming, wire, waking,
                       toDispatch, scheduled, semaphore, functions, alive, secondary, handled>>

(* sendSyncMessage() on a connection that is invalid or closed.              *)
SendSyncFails(e) ==
    /\ InClient(LoopOf[e])
    /\ ~client[e] \/ ~shouldWait[e]
    /\ e \in ExitOnFailure
    /\ ProcessExits(LoopOf[e])

(* invalidate(), called by client code.                                      *)
Invalidate(e) ==
    /\ e \in MayInvalidate
    /\ InClient(LoopOf[e])
    /\ client[e]
    /\ client' = [client EXCEPT ![e] = FALSE]
    /\ queue' = [queue EXCEPT ![e] = Append(@, "platformInvalidate")]
    /\ UNCHANGED <<connected, shouldWait, syncRequestID, marked, pending, incoming,
                   outgoing, wire, waking, loopVars, secondary, serial, handled>>

-----------------------------------------------------------------------------
(* Dispatching on the client thread.                                         *)

(* A mutant of EnterMarked. *)
EnterUncounted(e, m) == UNCHANGED marked

(* The count of marked messages being dispatched.                            *)
EnterMarked(e, m) == marked' = [marked EXCEPT ![e] = IF m.flagged THEN @ + 1 ELSE @]

(* A mutant of LeaveMarked. *)
LeaveIfValid(e, m) ==
    marked' = [marked EXCEPT ![e] = IF m.flagged /\ client[e] THEN @ - 1 ELSE @]

LeaveMarked(e, m) == marked' = [marked EXCEPT ![e] = IF m.flagged THEN @ - 1 ELSE @]

(* A mutant of dispatchMessage. *)
DispatchToAnybody(l, e, m, below) ==
    /\ stack' = [stack EXCEPT ![l] = Append(below, NewFrame("handle", e, m))]
    /\ EnterMarked(e, m)
    /\ handled' = [handled EXCEPT ![e] = Append(@, [serial |-> m.serial, flagged |-> m.flagged])]

(* dispatchMessage() up to the client's handler; below is the stack the      *)
(* handler runs on.  A message for an invalidated connection is dropped.     *)
dispatchMessage(l, e, m, below) ==
    \/ /\ ~client[e]
       /\ stack' = [stack EXCEPT ![l] = below]
       /\ UNCHANGED <<marked, handled>>
    \/ /\ client[e]
       /\ stack' = [stack EXCEPT ![l] = Append(below, NewFrame("handle", e, m))]
       /\ EnterMarked(e, m)
       /\ handled' = [handled EXCEPT ![e] = Append(@, [serial |-> m.serial, flagged |-> m.flagged])]

(* The handler returns: the rest of dispatchSyncMessage() and                *)
(* dispatchMessage().                                                        *)
HandlerReturns(l) ==
    /\ alive[l]
    /\ At(l, {"handle"})
    /\ LET e == Top(l).conn
           m == Top(l).msg
       IN  /\ IF m.type = "sync" /\ client[e]
              THEN sendMessage(e, [m EXCEPT !.type = "reply", !.flagged = FALSE])
              ELSE UNCHANGED <<outgoing, queue>>
           /\ LeaveMarked(e, m)
    /\ stack' = [stack EXCEPT ![l] = Front(@)]
    /\ UNCHANGED <<client, connected, shouldWait, syncRequestID, pending, incoming, wire,
                   waking, toDispatch, scheduled, semaphore, functions, alive, secondary,
                   serial, handled>>

(* A handler spins an event loop of its own (a modal dialog), and leaves it. *)
EnterNestedLoop(l) ==
    /\ l \in MayNest
    /\ alive[l]
    /\ At(l, {"handle"})
    /\ Len(SelectSeq(stack[l], LAMBDA f : f.at = "nested")) < MaxNesting
    /\ stack' = [stack EXCEPT ![l] = Append(@, NewFrame("nested", NoEnd, NoMessage))]
    /\ UNCHANGED <<endVars, queueVars, toDispatch, scheduled, semaphore, functions, alive,
                   secondary, serial, handled>>

ExitNestedLoop(l) ==
    /\ alive[l]
    /\ At(l, {"nested"})
    /\ stack' = [stack EXCEPT ![l] = Front(@)]
    /\ UNCHANGED <<endVars, queueVars, toDispatch, scheduled, semaphore, functions, alive,
                   secondary, serial, handled>>

(* RunLoop::performWork() takes the next function of the queue.              *)
NextFunction(l, fn) ==
    /\ InRunLoop(l)
    /\ functions[l] # <<>>
    /\ Head(functions[l]).fn = fn
    /\ functions' = [functions EXCEPT ![l] = Tail(@)]

dispatchOneMessage(l) ==
    /\ NextFunction(l, "dispatchOneMessage")
    /\ LET e == Head(functions[l]).conn
       IN  \/ /\ incoming[e] = <<>>
              /\ UNCHANGED <<incoming, stack, marked, handled>>
           \/ /\ incoming[e] # <<>>
              /\ incoming' = [incoming EXCEPT ![e] = Tail(@)]
              /\ dispatchMessage(l, e, Head(incoming[e]), stack[l])
    /\ UNCHANGED <<client, connected, shouldWait, syncRequestID, pending, outgoing, wire,
                   queue, waking, toDispatch, scheduled, semaphore, alive, secondary, serial>>

Unschedule(l, e) == scheduled' = [scheduled EXCEPT ![l] = @ \ {e}]

dispatchMessagesForConnection(l) ==
    /\ NextFunction(l, "dispatchMessagesForConnection")
    /\ LET e == Head(functions[l]).conn
       IN  /\ Unschedule(l, e)
           /\ stack' = [stack EXCEPT ![l] = Append(@, NewFrame("swap", e, NoMessage))]
    /\ UNCHANGED <<endVars, queueVars, toDispatch, semaphore, alive, secondary, serial, handled>>

dispatchConnectionDidClose(l) ==
    /\ NextFunction(l, "dispatchConnectionDidClose")
    /\ client' = [client EXCEPT ![Head(functions[l]).conn] = FALSE]
    /\ UNCHANGED <<connected, shouldWait, syncRequestID, marked, pending, queueVars,
                   toDispatch, scheduled, semaphore, stack, alive, secondary, serial, handled>>

(* A mutant of SwapMessages. *)
CopyMessages(l) ==
    /\ alive[l]
    /\ At(l, {"swap"})
    /\ stack' = [stack EXCEPT ![l] =
           Append(Front(@), [Top(l) EXCEPT !.at = "dispatch", !.todo = toDispatch[l]])]
    /\ UNCHANGED <<endVars, queueVars, toDispatch, scheduled, semaphore, functions, alive, secondary,
                   serial, handled>>

(* dispatchMessages(): take the whole queue ...                              *)
SwapMessages(l) ==
    /\ alive[l]
    /\ At(l, {"swap"})
    /\ stack' = [stack EXCEPT ![l] =
           Append(Front(@), [Top(l) EXCEPT !.at = "dispatch", !.todo = toDispatch[l]])]
    /\ toDispatch' = [toDispatch EXCEPT ![l] = <<>>]
    /\ UNCHANGED <<endVars, queueVars, scheduled, semaphore, functions, alive, secondary,
                   serial, handled>>

(* ... dispatch its messages or keep them to be put back ...                 *)
DispatchNext(l) ==
    /\ alive[l]
    /\ At(l, {"dispatch"})
    /\ Top(l).todo # <<>>
    /\ LET f == Top(l)
           next == Head(f.todo)
       IN  \/ /\ f.conn \notin {NoEnd, next.conn}
              /\ stack' = [stack EXCEPT ![l] = Append(Front(@),
                     [f EXCEPT !.todo = Tail(@), !.putBack = Append(@, next)])]
              /\ UNCHANGED <<marked, handled>>
           \/ /\ f.conn \in {NoEnd, next.conn}
              /\ dispatchMessage(l, next.conn, next.msg,
                     Append(Front(stack[l]), [f EXCEPT !.todo = Tail(@)]))
    /\ UNCHANGED <<client, connected, shouldWait, syncRequestID, pending, queueVars,
                   toDispatch, scheduled, semaphore, functions, alive, secondary, serial>>

(* ... and return.                                                           *)
EndDispatchMessages(l) ==
    /\ alive[l]
    /\ At(l, {"dispatch"})
    /\ Top(l).todo = <<>>
    /\ toDispatch' = [toDispatch EXCEPT ![l] = @ \o Top(l).putBack]
    /\ stack' = [stack EXCEPT ![l] = Front(@)]
    /\ UNCHANGED <<endVars, queueVars, scheduled, semaphore, functions, alive, secondary,
                   serial, handled>>

-----------------------------------------------------------------------------
(* waitForSyncReply() and the end of sendSyncMessage().                      *)

(* A mutant of removeLastPendingReply. *)
removeFirstPendingReply(e) == pending' = [pending EXCEPT ![e] = Tail(@)]

removeLastPendingReply(e) == pending' = [pending EXCEPT ![e] = Front(@)]

PopPendingReply(l, e) ==
    /\ removeLastPendingReply(e)
    /\ stack' = [stack EXCEPT ![l] = Front(@)]
    /\ UNCHANGED <<client, connected, shouldWait, syncRequestID, marked, queueVars, toDispatch,
                   scheduled, semaphore, functions, alive, secondary, serial, handled>>

(* No reply: didFailToSendSyncMessage() may exit the process.                *)
SyncSendFails(l, e) ==
    \/ e \in ExitOnFailure /\ ProcessExits(l)
    \/ e \notin ExitOnFailure /\ PopPendingReply(l, e)

(* The reply at the top of the stack of pending replies, or the reason to    *)
(* give up, or sleep on the semaphore.                                       *)
ReturnReply(l) ==
    /\ alive[l]
    /\ At(l, {"check"})
    /\ Last(pending[Top(l).conn]).reply # 0
    /\ PopPendingReply(l, Top(l).conn)

GiveUp(l) ==
    /\ alive[l]
    /\ At(l, {"check"})
    /\ LET e == Top(l).conn
       IN  /\ Last(pending[e]).reply = 0
           /\ ~shouldWait[e] \/ ~client[e]
           /\ SyncSendFails(l, e)

Sleep(l) ==
    /\ alive[l]
    /\ At(l, {"check"})
    /\ LET e == Top(l).conn
       IN  Last(pending[e]).reply = 0 /\ shouldWait[e] /\ client[e]
    /\ stack' = [stack EXCEPT ![l] = Append(Front(@), [Top(l) EXCEPT !.at = "sleep"])]
    /\ UNCHANGED <<endVars, queueVars, toDispatch, scheduled, semaphore, functions, alive,
                   secondary, serial, handled>>

(* BinarySemaphore::wait() returns true; the loop of waitForSyncReply starts *)
(* over with dispatchMessages(0).                                            *)
WakeUp(l) ==
    /\ alive[l]
    /\ At(l, {"sleep"})
    /\ semaphore[l]
    /\ semaphore' = [semaphore EXCEPT ![l] = FALSE]
    /\ stack' = [stack EXCEPT ![l] =
           Append(Append(Front(@), [Top(l) EXCEPT !.at = "check"]),
                  NewFrame("swap", NoEnd, NoMessage))]
    /\ UNCHANGED <<endVars, queueVars, toDispatch, scheduled, functions, alive, secondary,
                   serial, handled>>

(* BinarySemaphore::wait() times out: no reply, even if the semaphore was    *)
(* signalled before the thread could take the mutex again.                   *)
TimeOut(l) ==
    /\ alive[l]
    /\ At(l, {"sleep"})
    /\ Top(l).conn \in MayTimeOut
    /\ SyncSendFails(l, Top(l).conn)

-----------------------------------------------------------------------------
(* The connection's work queue: one thread, one function at a time.          *)

NextQueued(e, fn) == QueueFree(e) /\ queue[e] # <<>> /\ Head(queue[e]) = fn

(* sendOutgoingMessage(): sendmsg succeeds on the message for end p; it fails *)
(* with EAGAIN when the socket buffer is full, and when the peer has closed.  *)
SocketTakes(p) == connected[p] /\ Len(wire[p]) < SocketCapacity

(* sendOutgoingMessages(): return if not connected or nothing is left; else  *)
(* take the first message and write it to the socket.  When that fails the   *)
(* message is gone and the loop ends.                                        *)
sendOutgoingMessages(e) ==
    LET p == PeerOf[e]
        sends == connected[e] /\ outgoing[e] # <<>>
        sent == sends /\ SocketTakes(p)
    IN  /\ NextQueued(e, "sendOutgoingMessages")
        /\ outgoing' = [outgoing EXCEPT ![e] = IF sends THEN Tail(@) ELSE @]
        /\ wire' = [wire EXCEPT ![p] = IF sent THEN Append(@, Head(outgoing[e])) ELSE @]
        /\ queue' = [queue EXCEPT ![e] = IF sent /\ Len(outgoing[e]) > 1 THEN @ ELSE Tail(@)]
        /\ UNCHANGED <<endVars, incoming, waking, loopVars, secondary, serial, handled>>

(* platformInvalidate(), dispatched by invalidate(): the socket is closed    *)
(* and what it held is lost.                                                 *)
PlatformInvalidate(e) ==
    /\ NextQueued(e, "platformInvalidate")
    /\ queue' = [queue EXCEPT ![e] = Tail(@)]
    /\ connected' = [connected EXCEPT ![e] = FALSE]
    /\ wire' = [wire EXCEPT ![e] = <<>>]
    /\ UNCHANGED <<client, shouldWait, syncRequestID, marked, pending, incoming, outgoing,
                   waking, loopVars, secondary, serial, handled>>

(* readyReadHandler() and processIncomingMessage(), one action per kind of   *)
(* message.                                                                  *)
Receive(e) ==
    /\ QueueFree(e)
    /\ connected[e]
    /\ wire[e] # <<>>
    /\ wire' = [wire EXCEPT ![e] = Tail(@)]

(* A mutant of SetReply. *)
SetInnermostReply(e, i, m) == pending' = [pending EXCEPT ![e][Len(pending[e])].reply = m.serial]

SetReply(e, i, m) == pending' = [pending EXCEPT ![e][i].reply = m.serial]

(* A mutant of WakesClient. *)
WakesNobody(e, i) == FALSE

WakesClient(e, i) == i = Len(pending[e])

(* processIncomingSyncReply(): a reply to a pending request of the client    *)
(* thread wakes it only if the request is the last one ...                   *)
ReceiveReply(e) ==
    /\ Receive(e)
    /\ Head(wire[e]).type = "reply"
    /\ \E i \in DOMAIN pending[e] :
        /\ pending[e][i].id = Head(wire[e]).id
        /\ \A j \in DOMAIN pending[e] : j > i => pending[e][j].id # Head(wire[e]).id
        /\ SetReply(e, i, Head(wire[e]))
        /\ semaphore' = [semaphore EXCEPT ![LoopOf[e]] = @ \/ WakesClient(e, i)]
    /\ UNCHANGED <<client, connected, shouldWait, syncRequestID, marked, incoming, outgoing,
                   queue, waking, toDispatch, scheduled, functions, stack, alive, secondary,
                   serial, handled>>

(* A mutant of WithReply. *)
WithUnsignalledReply(wait, m) == [wait EXCEPT !.reply = m.serial]

WithReply(wait, m) == [wait EXCEPT !.reply = m.serial, !.signalled = TRUE]

(* ... any other goes to the secondary thread that waits for it, if one does.*)
ReceiveOtherReply(e) ==
    /\ Receive(e)
    /\ Head(wire[e]).type = "reply"
    /\ \A i \in DOMAIN pending[e] : pending[e][i].id # Head(wire[e]).id
    /\ secondary' = [t \in SecondaryThreads |->
           IF SecondaryEnd[t] = e /\ secondary[t].phase # "idle" /\ secondary[t].id = Head(wire[e]).id
           THEN WithReply(secondary[t], Head(wire[e]))
           ELSE secondary[t]]
    /\ UNCHANGED <<endVars, incoming, outgoing, queue, waking, loopVars, serial, handled>>

(* A mutant of WithDispatch. *)
WithoutDispatch(l, e) == functions[l]

(* At most one function per connection is scheduled.                         *)
WithDispatch(l, e) ==
    IF e \in scheduled[l] THEN functions[l]
    ELSE Append(functions[l], [fn |-> "dispatchMessagesForConnection", conn |-> e])

(* SyncMessageState::processIncomingMessage(), up to its wakeUpClientRunLoop.*)
ReceiveFlagged(e) ==
    LET l == LoopOf[e]
    IN  /\ Receive(e)
        /\ Head(wire[e]).type # "reply"
        /\ Head(wire[e]).flagged
        /\ scheduled' = [scheduled EXCEPT ![l] = @ \cup {e}]
        /\ functions' = [functions EXCEPT ![l] = WithDispatch(l, e)]
        /\ toDispatch' = [toDispatch EXCEPT ![l] = Append(@, [conn |-> e, msg |-> Head(wire[e])])]
        /\ waking' = [waking EXCEPT ![e] = TRUE]
        /\ UNCHANGED <<endVars, incoming, outgoing, queue, semaphore, stack, alive, secondary,
                       serial, handled>>

wakeUpClientRunLoop(e) ==
    /\ alive[LoopOf[e]]
    /\ waking[e]
    /\ waking' = [waking EXCEPT ![e] = FALSE]
    /\ semaphore' = [semaphore EXCEPT ![LoopOf[e]] = TRUE]
    /\ UNCHANGED <<endVars, incoming, outgoing, wire, queue, toDispatch, scheduled, functions,
                   stack, alive, secondary, serial, handled>>

(* A mutant of AppendIncoming. *)
PrependIncoming(e, m) == incoming' = [incoming EXCEPT ![e] = <<m>> \o @]

AppendIncoming(e, m) == incoming' = [incoming EXCEPT ![e] = Append(@, m)]

(* enqueueIncomingMessage().                                                 *)
ReceiveUnflagged(e) ==
    /\ Receive(e)
    /\ Head(wire[e]).type # "reply"
    /\ ~Head(wire[e]).flagged
    /\ AppendIncoming(e, Head(wire[e]))
    /\ functions' = [functions EXCEPT ![LoopOf[e]] =
           Append(@, [fn |-> "dispatchOneMessage", conn |-> e])]
    /\ UNCHANGED <<endVars, outgoing, queue, waking, toDispatch, scheduled, semaphore, stack,
                   alive, secondary, serial, handled>>

(* connectionDidClose(): the socket reports end of file, or, for the end     *)
(* that launched its peer, the peer's process has finished.                  *)
ClosedByPeer(e) ==
    \/ /\ e \notin CloseOnTermination
       /\ connected[e] /\ wire[e] = <<>> /\ ~connected[PeerOf[e]]
    \/ /\ e \in CloseOnTermination
       /\ ~alive[LoopOf[PeerOf[e]]]

(* A mutant of SomeoneWaits. *)
NobodyWaits(e) == FALSE

SomeoneWaits(e) == pending[e] # <<>>

(* A mutant of WithClose. *)
WithCloseFirst(fns, e) == <<[fn |-> "dispatchConnectionDidClose", conn |-> e]>> \o fns

WithClose(fns, e) == Append(fns, [fn |-> "dispatchConnectionDidClose", conn |-> e])

connectionDidClose(e) ==
    /\ QueueFree(e)
    /\ ClosedByPeer(e)
    /\ shouldWait[e]
    /\ connected' = [connected EXCEPT ![e] = FALSE]
    /\ wire' = [wire EXCEPT ![e] = <<>>]
    /\ shouldWait' = [shouldWait EXCEPT ![e] = FALSE]
    /\ semaphore' = [semaphore EXCEPT ![LoopOf[e]] = @ \/ SomeoneWaits(e)]
    /\ secondary' = [t \in SecondaryThreads |->
           IF SecondaryEnd[t] = e /\ secondary[t].phase # "idle"
           THEN [secondary[t] EXCEPT !.signalled = TRUE] ELSE secondary[t]]
    /\ functions' = [functions EXCEPT ![LoopOf[e]] = WithClose(@, e)]
    /\ UNCHANGED <<client, syncRequestID, marked, pending, incoming, outgoing, queue, waking,
                   toDispatch, scheduled, stack, alive, serial, handled>>

-----------------------------------------------------------------------------
(* sendSyncMessageFromSecondaryThread().                                     *)

SecondaryRegister(t) ==
    LET e == SecondaryEnd[t]
    IN  /\ alive[LoopOf[e]]
        /\ secondary[t].phase = "idle"
        /\ syncRequestID[e] < MaxSync[e]
        /\ client[e]
        /\ shouldWait[e]
        /\ syncRequestID' = [syncRequestID EXCEPT ![e] = @ + 1]
        /\ secondary' = [secondary EXCEPT ![t] =
               [Idle EXCEPT !.phase = "registered", !.id = syncRequestID[e] + 1]]
        /\ UNCHANGED <<client, connected, shouldWait, marked, pending, queueVars, loopVars,
                       serial, handled>>

(* sendMessage() looks at the connection again and may silently do nothing.  *)
SecondarySend(t) ==
    LET e == SecondaryEnd[t]
    IN  /\ alive[LoopOf[e]]
        /\ secondary[t].phase = "registered"
        /\ \/ /\ ~client[e]
              /\ secondary' = [secondary EXCEPT ![t].phase = "waiting"]
              /\ UNCHANGED <<outgoing, queue, serial>>
           \/ /\ client[e]
              /\ secondary' = [secondary EXCEPT ![t].phase = "waiting", ![t].serial = serial[e] + 1]
              /\ sendMessage(e, [type |-> "sync", id |-> secondary[t].id,
                                 serial |-> serial[e] + 1, flagged |-> FALSE])
              /\ serial' = [serial EXCEPT ![e] = @ + 1]
        /\ UNCHANGED <<endVars, incoming, wire, waking, loopVars, handled>>

SecondaryReturn(t) ==
    /\ alive[LoopOf[SecondaryEnd[t]]]
    /\ secondary[t].phase = "waiting"
    /\ secondary[t].signalled \/ SecondaryEnd[t] \in MayTimeOut
    /\ secondary' = [secondary EXCEPT ![t] = Idle]
    /\ UNCHANGED <<endVars, queueVars, loopVars, serial, handled>>

-----------------------------------------------------------------------------
(* What each thread does by itself, and what the client decides.             *)

performWork(l) ==
    \/ dispatchOneMessage(l)
    \/ dispatchMessagesForConnection(l)
    \/ dispatchConnectionDidClose(l)

ClientThread(l) ==
    \/ performWork(l)
    \/ SwapMessages(l)
    \/ DispatchNext(l)
    \/ EndDispatchMessages(l)
    \/ ReturnReply(l)
    \/ GiveUp(l)
    \/ Sleep(l)
    \/ WakeUp(l)
    \/ HandlerReturns(l)
    \/ ExitNestedLoop(l)

ConnectionQueue(e) ==
    \/ sendOutgoingMessages(e)
    \/ PlatformInvalidate(e)
    \/ ReceiveReply(e)
    \/ ReceiveOtherReply(e)
    \/ ReceiveFlagged(e)
    \/ wakeUpClientRunLoop(e)
    \/ ReceiveUnflagged(e)
    \/ connectionDidClose(e)

ClientDecides(e) ==
    \/ \E ask \in BOOLEAN : SendAsync(e, ask)
    \/ SendSync(e)
    \/ SendSyncFails(e)
    \/ Invalidate(e)

Next ==
    \/ \E l \in RunLoops : ClientThread(l) \/ EnterNestedLoop(l) \/ TimeOut(l) \/ Crash(l)
    \/ \E e \in Ends : ConnectionQueue(e) \/ ClientDecides(e)
    \/ \E t \in SecondaryThreads : SecondaryRegister(t) \/ SecondarySend(t) \/ SecondaryReturn(t)

Spec == Init /\ [][Next]_vars

(* The operating system schedules every thread; client code and handlers     *)
(* return.  Nothing forces a client to send, to invalidate or to crash.      *)
Fairness ==
    /\ \A l \in RunLoops : WF_vars(ClientThread(l))
    /\ \A e \in Ends : WF_vars(ConnectionQueue(e))
    /\ \A t \in SecondaryThreads : WF_vars(SecondarySend(t) \/ SecondaryReturn(t))

FairSpec == Spec /\ Fairness

-----------------------------------------------------------------------------
(* Properties.                                                               *)

(* Every variable holds a value of the type its C++ counterpart has.         *)
TypeOK ==
    /\ client \in [Ends -> BOOLEAN]
    /\ connected \in [Ends -> BOOLEAN]
    /\ shouldWait \in [Ends -> BOOLEAN]
    /\ syncRequestID \in [Ends -> Nat]
    /\ marked \in [Ends -> Nat]
    /\ pending \in [Ends -> Seq([id : Nat, reply : Nat])]
    /\ incoming \in [Ends -> Seq(Message)]
    /\ outgoing \in [Ends -> Seq(Message)]
    /\ wire \in [Ends -> Seq(Message)]
    /\ queue \in [Ends -> Seq({"sendOutgoingMessages", "platformInvalidate"})]
    /\ waking \in [Ends -> BOOLEAN]
    /\ toDispatch \in [RunLoops -> Seq(ConnectionAndMessage)]
    /\ scheduled \in [RunLoops -> SUBSET Ends]
    /\ semaphore \in [RunLoops -> BOOLEAN]
    /\ functions \in [RunLoops -> Seq(Function)]
    /\ stack \in [RunLoops -> Seq(Frame)]
    /\ alive \in [RunLoops -> BOOLEAN]
    /\ secondary \in [SecondaryThreads ->
           [phase : {"idle", "registered", "waiting"}, id : Nat, serial : Nat,
            reply : Nat, signalled : BOOLEAN]]
    /\ serial \in [Ends -> Nat]
    /\ handled \in [Ends -> Seq([serial : Nat, flagged : BOOLEAN])]

Waits(f) == f.at \in {"check", "sleep"}

(* The assertions of sendSyncMessage and waitForSyncReply: however requests  *)
(* and handlers nest, and whatever closes or times out meanwhile, the last   *)
(* pending reply of a connection is the one its innermost wait is about.     *)
PendingReplyIsOurs ==
    \A l \in RunLoops : At(l, {"check", "sleep"}) =>
        LET e == Top(l).conn
        IN  pending[e] # <<>> /\ Last(pending[e]).id = Top(l).msg.id

(* processIncomingSyncReply gives a reply to the request it answers, on the  *)
(* client thread and on secondary threads, never to another one.             *)
ReplyAnswersRequest ==
    /\ \A l \in RunLoops : \A i \in DOMAIN stack[l] : Waits(stack[l][i]) =>
           LET f == stack[l][i]
           IN  \A j \in DOMAIN pending[f.conn] : pending[f.conn][j].id = f.msg.id =>
                   pending[f.conn][j].reply \in {0, f.msg.serial}
    /\ \A t \in SecondaryThreads : secondary[t].reply \in {0, secondary[t].serial}

(* A message reaches its handler at most once, although dispatchMessages     *)
(* moves messages between the shared queue and vectors on the stack.         *)
HandledOnce ==
    \A e \in Ends : \A i, j \in DOMAIN handled[e] :
        i # j => handled[e][i].serial # handled[e][j].serial

(* Only a message sent to be dispatched while waiting for a sync reply is    *)
(* handled before a message sent earlier (what WebProcess::initializeConnec- *)
(* tion relies on for its messages to the UI process).                       *)
OnlyFlaggedOvertakes ==
    \A e \in Ends : \A i, j \in DOMAIN handled[e] :
        i < j /\ handled[e][j].serial < handled[e][i].serial => handled[e][i].flagged

(* Messages to end e, as its client sees them.  Handlers that spin an event  *)
(* loop give up the order: dispatchMessages() goes on with what it had taken *)
(* when the loop, which may have handled newer messages, returns.            *)
Channel(e) == INSTANCE MessageChannel WITH InOrder <- MayNest = {},
    sent <- serial[PeerOf[e]], sending <- client[PeerOf[e]],
    delivered <- handled[e], receiving <- client[e]

(* Each direction of a connection keeps what MessageChannel promises: through*)
(* the three queues, the vectors of dispatchMessages(), crashes, timeouts and*)
(* invalidations, a message is handled at most once and only if it was sent, *)
(* an end that was invalidated or closed neither sends nor handles anything, *)
(* and a message that is not flagged is never followed by an older one.      *)
ChannelPromise ==
    /\ \A e \in Ends : Channel(e)!Init
    /\ [][\A e \in Ends : [Channel(e)!Next]_(Channel(e)!vars)]_vars

(* The counter that decides the flag of what an end sends counts the marked  *)
(* messages being handled, through invalidations and nested waits.           *)
MarkedCountsHandlers ==
    \A e \in Ends : marked[e] = Cardinality({i \in DOMAIN stack[LoopOf[e]] :
        LET f == stack[LoopOf[e]][i]
        IN  f.at = "handle" /\ f.conn = e /\ f.msg.flagged})

(* A client thread that sleeps in waitForSyncReply although there is         *)
(* something for it to look at has been signalled, or is about to be.        *)
NoLostWakeup ==
    \A l \in RunLoops : At(l, {"sleep"}) =>
        LET e == Top(l).conn
        IN  \/ toDispatch[l] = <<>> /\ Last(pending[e]).reply = 0 /\ shouldWait[e]
            \/ semaphore[l]
            \/ \E d \in Ends : LoopOf[d] = l /\ waking[d]

(* Every message received and not yet taken has a function in the run loop   *)
(* that will dispatch it.                                                    *)
ReceivedIsScheduled ==
    \A l \in RunLoops :
        /\ \A i \in DOMAIN toDispatch[l] :
               \/ At(l, {"swap"})
               \/ \E k \in DOMAIN functions[l] : functions[l][k] =
                      [fn |-> "dispatchMessagesForConnection", conn |-> toDispatch[l][i].conn]
        /\ \A e \in Ends : LoopOf[e] = l =>
               Len(incoming[e]) = Cardinality({k \in DOMAIN functions[l] :
                   functions[l][k] = [fn |-> "dispatchOneMessage", conn |-> e]})

(* The client is told that its connection closed only after every message    *)
(* that had arrived on it was dispatched.                                    *)
CloseComesLast ==
    \A l \in RunLoops : InRunLoop(l) /\ functions[l] # <<>> =>
        LET e == Head(functions[l]).conn
        IN  Head(functions[l]).fn = "dispatchConnectionDidClose" =>
                /\ incoming[e] = <<>>
                /\ \A i \in DOMAIN toDispatch[l] : toDispatch[l][i].conn # e

(* Nothing can happen any more unless a client decides something.            *)
Quiescent ==
    /\ \A l \in RunLoops : alive[l] =>
           \/ stack[l] = <<>> /\ functions[l] = <<>>
           \/ At(l, {"sleep"}) /\ ~semaphore[l]
    /\ \A e \in Ends : alive[LoopOf[e]] =>
           queue[e] = <<>> /\ wire[e] = <<>> /\ ~waking[e] /\ ~(ClosedByPeer(e) /\ shouldWait[e])

(* Two or more client threads never wait for each other's replies with no    *)
(* message left that could wake one of them.                                 *)
NoSyncDeadlock ==
    Quiescent => \A l \in RunLoops : stack[l] = <<>>

(* Where client threads cannot deadlock. A process never waits if no end of  *)
(* it sends synchronous requests; an end supervises its peer if it flags all *)
(* it sends and its peer's process has no other connection. In a hierarchy   *)
(* each connection has a process that never waits or an end that supervises. *)
NeverWaits(l) == \A e \in Ends : LoopOf[e] = l => MaxSync[e] = 0
Supervises(e) ==
    /\ e \notin OnlyMarked
    /\ \A d \in Ends : LoopOf[d] = LoopOf[PeerOf[e]] => d = PeerOf[e]
Hierarchy ==
    \A e \in Ends :
        \/ NeverWaits(LoopOf[e]) \/ NeverWaits(LoopOf[PeerOf[e]])
        \/ Supervises(e) \/ Supervises(PeerOf[e])

(* sendmsg() never meets EAGAIN: every socket buffer has room for a message. *)
SocketsHaveRoom == \A e \in Ends : Len(wire[e]) < SocketCapacity

(* Every client thread gets back to its run loop: each synchronous send gets *)
(* its reply or fails, each handler is run to its end.                       *)
ReturnsToRunLoop == \A l \in RunLoops : []<>(stack[l] = <<>>)

(* Every message sent is handled by the peer's client, unless an end of the  *)
(* connection is invalidated or closed.                                      *)
SentIsHandled ==
    \A e \in Ends : \A n \in 1 .. MaxSync[e] + MaxAsync[e] :
        serial[e] >= n ~>
            \/ \E i \in DOMAIN handled[PeerOf[e]] : handled[PeerOf[e]][i].serial = n
            \/ ~client[e] \/ ~client[PeerOf[e]]

(* A secondary thread's synchronous send returns.                            *)
SecondaryReturns ==
    \A t \in SecondaryThreads : secondary[t].phase # "idle" ~> secondary[t].phase = "idle"
=============================================================================
