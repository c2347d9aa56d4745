# TLA+ models of QtWebKit's concurrent core

This directory is a verification development for the QtWebKit repository. Most of
WebKit is large sequential code. What is hard to test in it is a small amount of
concurrent code everything else relies on: the connection that carries messages
between the UI process, the web process and the plug-in processes (WebKit2's
CoreIPC), the threads that mark and copy the JavaScript heap together
(JavaScriptCore's parallel collector), and the two places where a page's data
are kept by a thread of their own, local storage and Web SQL (WebCore). These are
modelled and model-checked with TLC, and the safety properties that the runs check are
proved with TLAPS for any number of processes, threads, messages, items or transactions,
some of them under conditions that are stated with the proofs.

| module | models | theorems |
| --- | --- | --- |
| `Connection` | `CoreIPC::Connection`, `SyncMessageState`, `BinarySemaphore`, the function queue of `RunLoop`, the Qt `WorkQueue` | |
| `MessageChannel` | no code: the abstract channel that each direction of a connection is to its clients | |
| `MCConnection` | process topologies and bounds for `Connection` | |
| `ConnectionProof` | types, the counter of marked messages and the stack of pending replies | 3, and their lemmas |
| `ConnectionReplyProof` | replies and wakeups | 2, and their lemmas |
| `ConnectionOrderProof` | the order in which messages are scheduled and handled, the refinement of `MessageChannel`, and that synchronous sends do not deadlock | 6, and their lemmas |
| `WaitForMessage` | `Connection::waitForMessage` against the work queue | |
| `WaitForMessageProof` | the inductive invariant of `WaitForMessage` | 5, and their lemmas |
| `ParallelGC` | `GCThread`, `GCThreadSharedData`, `SlotVisitor`, `CopyVisitor`, and `Heap`'s use of them | |
| `Collection` | no code: a collection as one step from the roots to what they reach, which `ParallelGC` implements | |
| `MCParallelGC` | a small heap for `ParallelGC` | |
| `ParallelGCProof` | the inductive invariant of `ParallelGC` and the refinement of `Collection` | 8, and their lemmas |
| `StorageAreaSync` | `StorageAreaImpl`, `StorageAreaSync` and `StorageThread` | |
| `StorageAreaSyncProof` | the inductive invariant of `StorageAreaSync` | 5, and their lemmas |
| `ReadersWriterLock` | no code: the abstract lock that transactions are promised | |
| `SQLTransactionCoordinator` | `SQLTransactionCoordinator`, which implements `ReadersWriterLock` | |
| `SQLTransactionCoordinatorProof` | the invariant of the coordinator and the refinement | 3, and their lemmas |
| `SQLTransaction` | `SQLTransaction`, `SQLTransactionBackend`, `DatabaseBackend`, `DatabaseThread` and its `MessageQueue`, composed with a coordinator per context | |
| `SQLTransactionProof` | the inductive invariant of `SQLTransaction` and the refinement | 6, and their lemmas |
| `MCSQLTransaction` | handles and transactions for `SQLTransaction` | |

`PROJECT.json` maps every definition to the source lines it translates and lists
the runs, mutants, findings, hazards and theorems. A *mutant* is a faulty variant of
a definition, kept next to it (its comment says so); it is used nowhere else, and
shows that the property it is listed with notices that fault.

## Inventory

### CoreIPC connections (`Source/WebKit2/Platform/CoreIPC`)

State of a `Connection`: the client and whether it is valid, whether the socket is
open (`m_isConnected`), whether synchronous replies are worth waiting for
(`m_shouldWaitForSyncReplies`), the stack of pending synchronous replies, the
count of marked messages in dispatch, incoming and outgoing queues, the map of waits
of `waitForMessage`, the map of waits of secondary threads. State shared by all
connections of a run loop (`SyncMessageState`): the queue of messages to dispatch
while waiting for a synchronous reply, the connections for which a dispatch is
scheduled, one binary semaphore.

Two threads use a connection. The client thread runs handlers, sends, and blocks in
`waitForSyncReply` and `waitForMessage`. The thread of the connection's work queue
reads and writes the socket and hands over messages. Worker threads may also send
synchronous messages.

What is hard: handlers send synchronous messages themselves, so waits nest; both
sides may send at once; a message may have to be dispatched in the middle of a wait,
which lets it overtake others; one semaphore serves every wait of every connection;
handlers may run a nested event loop, which re-enters `performWork`; a peer may die,
a socket may be full, a wait may time out while the answer is arriving.

What makes it correct: a reply reaches the request it answers; a message is handled
once, in order unless it was allowed to overtake; no wakeup is lost; processes do not
wait for each other for ever; every message is handled and every wait ends, also when
the peer dies; the close is told last.

### Run loop and work queue (`WebCore/platform/RunLoop.cpp`, `WebKit2/Platform/qt/WorkQueueQt.cpp`)

A queue of functions under a lock and a wakeup. `performWork` runs them one at a
time and may be re-entered by a nested event loop. The Qt work queue is a thread
with an event loop: functions, socket notifications and the termination of a child
process are events of it.

### Parallel collector (`Source/JavaScriptCore/heap`)

State of `GCThreadSharedData`: the phase, the flag that keeps threads in it, two
counters (threads in a phase, active markers), the exit flag, the shared mark stack,
the shared opaque roots, the blocks to copy and the index of the next one. State of a
visitor: its mark stack, its opaque roots, its borrowed block. Four condition
variables under four locks.

What is hard: the master decides that marking is over from a counter and a stack,
while threads may not have started, may be between two loops, or may have donated;
four conditions and six places that wake them; flags left over from the previous
collection; a thread that wakes up late for a phase.

What makes it correct: everything reachable is marked and nothing else; opaque roots
are complete when weak handles are judged; when the mutator runs no GC thread does;
every block is evacuated once; a collection and the destructor finish.

### Local storage (`Source/WebCore/storage`)

State on the main thread: the map of items, whether anyone uses the area, the timer
that closes the database of an unused area, the changes since the last sync, whether
everything was cleared, the sync timer, the balance of sudden-termination calls. Shared
with the storage thread: the items to be written next, two flags about the sync that is
scheduled and the one in progress, the request to close, whether the import is complete.
On the storage thread: the database, and what `performSync` took.

What is hard: a key can be changed, cleared and changed again while older changes of it
are at any of three stages; a timer may fire while the sync before is still running; the
import is done by the other thread; a statement may fail; the process may be killed
whenever sudden termination is enabled; the database is closed after a delay.

What makes it correct: what the page sees is what the rows will be once everything is
written, in the order of the changes; at rest, and whenever the process may be killed,
it is what they are; the timers come to rest. The code keeps this only with the exceptions
named under `StorageAreaSync`.

### Web SQL (`Source/WebCore/Modules/webdatabase`)

A transaction is a pair of objects, a frontend on the script thread and a backend on the
database thread of its context. They share one state machine: each side runs the states
that are its own and posts the other a request for the next. A database handle runs one
transaction at a time and queues the rest. A coordinator per database thread lets
transactions of one origin run together when all of them only read. Across threads, a
writer holds the origin's lock from the start of its SQLite transaction to the commit. A
reference cycle keeps both halves alive until `doCleanup` breaks it.

What is hard: a transaction can be cut short at any point, because its database is
deleted, its context stopped or its worker interrupted, and `SQLTransactionBackend.cpp`
describes five phases in which a different piece of code is to clean it up; the other
half may already be on its way with a request; locks are held over many tasks; the main
thread waits for a database thread.

What makes it correct: writers run alone; the lock is fair; the two halves always find
each other in a state in which the request makes sense; every transaction ends and
gives back what it holds; every thread that waits for another gets its answer.

### Other components

`PROJECT.json` lists them, with what is left out of the modelled ones.

Not modelled, and why:

* Child-process lifetime and the responsiveness timer, drawing areas, the IndexedDB
  coordinator, worker start and termination, the block allocator: small protocols of the
  same kind as the ones here, which were taken first because more code depends on them.
* Message receivers, `WebProcessProxy`, resource loading, `ScriptRunner`: registries and
  queues used by one thread, where a unit test reaches every order.
* Serialisation of messages and attachments: conversion of bytes.
* The JavaScript engine's compilers, DOM, CSS, layout and rendering: sequential code
  over large data structures. They are almost all of the repository's lines and out of
  reach of an explicit-state model.
* Third-party code, and back ends the Qt build does not compile.

## Connection

An *end* is one `Connection` object; `LoopOf` gives its run loop (one per process)
and `PeerOf` the end at the other side. The constants also say how the owner set it
up: `OnlyMarked` is
`setOnlySendMessagesAsDispatchWhenWaitingForSyncReplyWhenProcessingSuchAMessage`
(the web process to the UI process, the plug-in to the web process),
`ExitOnFailure` is `setShouldExitOnSyncMessageSendFailure`, `CloseOnTermination` is
`setShouldCloseConnectionOnProcessTermination`. An end with the latter never sees an
end of file: `ProcessLauncherQt.cpp` keeps the child's socket open in the UI process,
so the notification of the process's end is what closes it, and what the socket still
held is lost then.

The client thread's C++ call stack is the variable `stack`, a sequence of frames,
because nesting is where the code is subtle:

| frame | the thread is in |
| --- | --- |
| `handle` | `dispatchMessage`, in the client's handler |
| `swap`, `dispatch` | `SyncMessageState::dispatchMessages`, before and after it takes the queue |
| `check`, `sleep` | `waitForSyncReply`, before and in `BinarySemaphore::wait` |
| `nested` | an event loop run by a handler |

The vectors on `dispatchMessages`'s stack are fields of its frame. A handler is
arbitrary client code: in `handle`, at the run loop and in a nested loop the client may
send (`SendAsync`, `SendSync`), invalidate, start a nested loop or return. An action
is the code between two points where another thread can see a difference: the client
thread gives up a lock, calls a handler or blocks. `ReceiveFlagged` and
`wakeUpClientRunLoop` are two actions because the lock is released between them.

A message is a type, a request id, the flag to be dispatched during waits and a
*serial*, the sending order at its end. `serial` and `handled` are histories for the
properties; no guard but the bound on asynchronous messages reads them.

Abstractions. A read takes one message from the socket: `readyReadHandler` processes
every complete message it read, in order, so interleaving sends between two of them
adds behaviours and removes none. `ProcessExits` stands for `exit()`, a crash and
being killed alike. A secondary thread shares its process's fate. The
`SpinRunLoopWhileWaitingForReply` flag does something only on Mac. Not modelled:
work-queue message receivers, invalid messages, delayed replies (a handler always
replies when it returns), the code of `didClose` handlers, `open()` (an end starts
open).

### Runs

| run | who | what is allowed | checks |
| --- | --- | --- | --- |
| `TwoProcesses` | UI, web and a worker thread of it | a request per end, an asynchronous message of the web process, fair threads | `TypeOK`, `OnlyFlaggedOvertakes`, `SentIsHandled`, `SecondaryReturns` |
| `Failures` | UI, web | a request per end, an asynchronous message of the UI process; either crashes, UI invalidates and times out, fair threads | `MarkedCountsHandlers`, `NoLostWakeup`, `CloseComesLast`, `ChannelPromise`, `ReturnsToRunLoop` |
| `Three` | UI, web, plug-in | a request per end, an asynchronous message instead from the UI process | `ReceivedIsScheduled`, `NoSyncDeadlock` |
| `Nested` | UI, web and a worker thread of it | two requests of the UI process, one of the web process, timeouts, nested loops, a socket that holds one message | `HandledOnce`, `PendingReplyIsOurs`, `ReplyAnswersRequest` |

Bounds. One request per end already gives crossing requests, a request inside the
handler of a request, and through the shared `SyncMessageState` requests of two
connections interleaved on one thread; two requests of the UI process in `Nested` give
two pending replies on one connection answered in either order, and a late reply
meeting a newer request. A longer run of messages repeats these. `SocketCapacity` is
larger than the number of messages, except in `Nested`. Only the UI process's end may
be invalidated: a child that invalidates its end stops its run loop or exits as well,
which is `Crash`. Sends are bounded, so every behaviour ends: TLC's own deadlock check
is off, and `NoSyncDeadlock` states the deadlock that matters, with `Quiescent` saying
that no thread can move.

Fairness. `FairSpec` assumes weak fairness of each client thread's own steps (which
includes that handlers and nested loops return), of each work queue, and of a secondary
thread that has started a send: the operating system schedules them and each loops
unconditionally. Nothing is assumed of what the client decides: sends, invalidation,
crashes and timeouts may never come.

`ChannelPromise` says that, for each end `e`, what the model does to the messages from
`e`'s peer to `e` is a behaviour of `MessageChannel`: `sent` is the peer's `serial`,
`delivered` is `handled[e]`, and an end is in use while its client is
set. The channel says at once what `HandledOnce` and `OnlyFlaggedOvertakes` say of
states, and what they do not: nothing is delivered that was not sent before, delivered
messages are never taken back, and after `invalidate` or a close nothing more is
delivered to, or sent by, that end. It promises an order only if no handler runs a nested
event loop (`InOrder`), since otherwise there is none (see below).

### Known disagreements

Some properties hold in the runs only within their bounds. `MCConnection` reproduces this
with other constants:

* `NoSyncDeadlock`, with `RunLoops`, `Ends`, `LoopOf`, `PeerOf` and `OnlyMarked` of
  `Three`, one request of each of the UI and the web process to each other and an
  asynchronous message of each of the web and the plug-in process to each other. The
  plug-in process sends the web process a flagged message `m1`, and the UI process sends
  it a synchronous request `m2`. A `dispatchMessages` of the web process takes both in
  one `swap` and dispatches `m1`, whose handler sends a synchronous request to the UI
  process. It is not flagged, because `m1` came over another connection. The UI process
  sleeps until `m2` is answered, and `m2` is in a local vector of the outer
  `dispatchMessages`, where the one of the inner wait cannot see it. Only a timeout ends
  this: `Connection::sendSync` has none by default, `ChildProcessProxy::sendSync`, which
  the UI process's own callers use, one of a second. This topology is not a `Hierarchy`
  (see the proofs). The comment at `Connection.cpp:654`
  says that these messages go to `SyncMessageState` because otherwise "we'll end up with a
  deadlock where both sync message senders are stuck waiting for a reply".
* `ReceivedIsScheduled`, with the same processes, `MayNest = {web}`, `MaxNesting = 1`, no
  requests and an asynchronous message from every end but the web process's to the UI
  process. `dispatchMessages(A)` puts messages of `B` back after the handler
  (`Connection.cpp:191`). If that handler ran a nested event loop, the function
  scheduled for `B` ran there, found nothing, and is gone. The messages wait for the next
  flagged message of `B` or the next synchronous wait. Meanwhile an unflagged message of
  `B` sent later is handled (`OnlyFlaggedOvertakes` fails with three messages of the UI
  process), or the close of `B` is reported (`CloseComesLast`, if the plug-in process may
  crash). The put-back does not signal the semaphore either, and a wait inside the nested
  loop may have used up the signal of the message's arrival, so `NoLostWakeup` has no proof
  with nested loops.

### Proofs

The theorems are for any processes, connections, secondary threads, options and bounds,
from the assumptions of `Connection`, all of which say that a constant has its type or
that `PeerOf` pairs the ends. The inductive invariant is built in layers, each one proved
preserved by every action from itself and the ones before it.

* `Types` and `OwnConnections`: everything a run loop holds is about its own ends. Without
  this a step of one process could disturb another's state.
* `MarkedIsCount`: `marked` counts the frames of marked handlers. `TypeOK` needs it, because
  `marked` is decremented without a test (`TypeCorrect`, `MarkedCorrect`).
* `PendingMatchesStack`: on each connection the ids of the pending replies increase, so do
  those of the waits on the stack, and they are the same ids. The innermost wait is then
  about the last pending reply (`PendingRepliesMatch`), whatever handlers and nested loops
  are in between.
* `RequestsNumbered`: a request or reply that is under way between two ends (sent, in a
  socket, queued, held by `dispatchMessages`, being handled) with the id of a wait has the
  serial of that wait; ids under way were given out; ids of secondary threads are apart from
  those of the client thread. A reply that arrives therefore has the right serial
  (`RepliesAnswer`). `UnderWayStep` says how a step moves what is under way, so that the
  rest of the argument does not look at queues.
* `Order`: of the messages from one end to another, those received, held or handled were
  sent before those in the socket, and these before those not yet written; received, held
  and handled are disjoint; no vector of a `dispatchMessages` shares a message with another
  or with the queue. So nothing is handled twice (`MessagesHandledOnce`).

These hold with nested event loops. The other three layers assume `MayNest = {}`, that no
handler runs a loop of its own, since their theorems are false otherwise (see above). The
run loop then takes functions only when the stack is empty (`Shallow`).

* `Wakeups`: `WakeupDue`, if there is something in the queue then a `dispatchMessages` is
  about to take it, or nobody waits, or the semaphore is or will be signalled; and
  `SleepsInformed`, the same for a reply and a close (`WakeupsArrive`).
* `Schedule`: as many `dispatchOneMessage` as messages in `m_incomingMessages`; for each held
  message that the current `dispatchMessages` will not take, a
  `dispatchMessagesForConnection` in the run loop (`ReceivedScheduled`), and the unflagged
  messages whose functions come before that one are older (`Comes`); no function of a
  connection behind its `dispatchConnectionDidClose` (`CloseReportedLast`). The middle part
  is what the order needs: the one function that `m_didScheduleDispatchMessagesWorkSet`
  allows per connection may be in the queue long before the message it will dispatch.
* `Overtaking`: all that is held is flagged, and an unflagged message that was handled is
  older than everything received and not handled, and than everything handled after it
  (`FlaggedOvertakes`). `ScheduleOne` is the step that matters: when `dispatchOneMessage`
  takes an unflagged message, `Comes` says that no older flagged one is still held.

`ConnectionImplementsChannels` is the refinement, `Spec => ChannelPromise`, and assumes
nothing about nested loops: `InOrder` is `MayNest = {}`. `StepChange` says what any action
can do to the four variables of the channel, which only `dispatchMessage` (through
`DispatchChange`), the sends and the steps that end a connection touch; `ChannelHandle` gets
from `Order` that the message handled was sent and not handled, and from `Overtaking` that
the ones handled before with later serials are flagged.

`NoDeadlock` is `Spec /\ []SocketsHaveRoom => []NoSyncDeadlock`, where besides
`MayNest = {}` nobody calls `invalidate` (`MayInvalidate = {}`) and the processes form a
`Hierarchy`: of each connection, one of the two processes never sends a synchronous request
on any connection, or one end *supervises* the other, which means that it flags all it sends
(the UI process towards the web process, the web process towards a plug-in process) and that
the process at the other end has no other connection. Processes may crash, waits may time out,
secondary threads may send. A UI process and a web process are a hierarchy, and `Three` is one: the UI
process sends no request, and the web process supervises the plug-in process. In `Three`
sockets always have room, because `SocketCapacity` exceeds the number of messages. The
hypotheses are not for the prover's sake. Without a hierarchy the theorem is false (the first
disagreement above). A full socket is a wait for a `POLLOUT` that the model leaves to the
reader of the socket, and a close that `invalidate` causes is another way for a wait to end;
neither is part of the argument, and whether it holds with them is open.

The invariant is `Unblocked`, which adds to the layers above:

* `Closing`: an end is closed only after its peer or its own process is gone, and a dead
  process runs nothing. `Flushed`: a message not written yet has a queued function that will
  write it.
* `Conserved`: between two open ends no request is lost. While its wait is unanswered, it is
  not written yet, in the socket, received, held or in its handler, or its reply is on the
  way back. `OutKept`, `WireKept`, `IncomingKept` and `HeldKept` follow it from place to
  place, `TransitStep` puts them together.
* `ReceivedUnflagged`, `AllCovered` and `WaitsFlagged`: what is not handed to
  `SyncMessageState` is not flagged; a `dispatchMessages` that is not on top runs the handler
  of a flagged message; and a request is flagged if its end flags all it sends or if it was
  sent inside the handler of a marked message of its own connection.
* `Uncrossed`: on one connection, it never happens that each side waits above the other
  side's request. The later of the two was sent when the other's wait was already there.

When nothing can happen any more, a process that is not in its run loop sleeps in
`waitForSyncReply` with nothing queued (`Asleep`), so `Conserved` leaves one place for its
request: the stack of its peer, below a wait of the peer, which sleeps as well
(`AsleepOnPeer`). If the sleeper supervises, its request is flagged, hence carried by or under
the handler of a marked message; the peer has no other connection, so its own last request is
flagged too, was dispatched despite the supervisor's wait, and lies below that wait, which
`Uncrossed` excludes (`SupervisorReturns`). So in a hierarchy the peer of a sleeper supervises
it, and as it sleeps too, it is supervised by the process it waits for. It then has only one
connection, and sleeps as the supervisor at its end (`NobodyIsStuck`). Here `StackStep` says which six things a
step can do to a stack, so that the lemmas about stacks do not look at actions.

## WaitForMessage

One end, one awaited kind of message, numbered in order of arrival. `entry` is the
entry of `m_waitForMessageMap`: absent, announced and empty (`NoMessage`), or holding a
message. `inHand` is the message for which the work queue found no waiter and which it
has not enqueued yet: the two take different locks. Spurious wakeups only repeat the
look at the entry and are left out. A message with the flag to be dispatched during
waits never gets here. Appending a message and dispatching its `dispatchOneMessage` are one
step, where `Connection.cpp:789` unlocks in between: nobody but the run loop takes functions,
and the queue is covered (`FunctionsCoverQueue`) once both are done.

`WaitForMessage` (four messages, each awaited or not: enough for two deposits in one
wait and two others around it) checks that there is always a `dispatchOneMessage`
for every queued message although the wait takes messages from the middle of the
queue, that no message is handled twice or after being freed, that the others keep
their order, and, with fair threads, that every message is handled unless the wait
freed it: a deposit is overwritten by the next one, or goes with the entry at a timeout.
Strong fairness of `dispatchOneMessage` says that the run loop is reached between waits,
which are finite.

`OldestFirst` states what `DrawingAreaProxyImpl.cpp:349` relies on, that
"waitForAndDispatchImmediately will always return the oldest DidUpdateBackingStoreState
message that hasn't yet been processed". It does not hold, already with
`MaxMessages = 2`: a message enqueued between the search of the queue and the announcement
of the wait (`Connection.cpp:419`) is bypassed by a newer one.

### Proofs

`WaitForMessageProof` proves `TypeOK` (`TypeCorrect`), `FunctionsCoverQueue`
(`QueueCovered`), `HandledOnce` (`NeverHandledTwice`) and `OthersInOrder`
(`OthersKeepOrder`) for any number of messages, from `MaxMessagesAssumption` alone.
The last two talk about what was handled, and a step handles a message from the queue or
from the entry, so the invariant `Inv` (`Invariance`) also says where else a message can
be:

* `QueueInOrder`: the queue is in order of arrival and the message in hand is the newest,
  so enqueueing it keeps the order.
* `DepositApart`, `DroppedApart`, `HandledApart`: a message that was deposited, freed or
  handled is in none of the other places. Without them a handled message could still
  be queued.
* `OthersFromFront`: a message of another kind was handled before everything now in
  the queue or in hand arrived. It holds because only the awaited kind is taken from
  the middle; the next message from the front therefore keeps `OthersInOrder`.
* `EntryWhileWaiting`: the map has an entry exactly while the client is between the
  insertion and the removal, so a deposit has an entry to go to and the insertion
  overwrites none.

`RemoveAtFacts` says what the removal from the middle of a sequence leaves, and
`HandledMore` and `HandledFromQueue` are the argument the two ways to handle a queued
message share.

## ParallelGC

A thread is at a program point `pc`; if it is in `asleep` it waits on the condition
variable of that point. A critical section is one action; a step of `drain` that
appends one child is one action, since other threads see its mark bit. `asleep` with
`Wake` models broadcasts, and `SpuriousWakeup` lets any waiter return. Where the code
signals (`m_activityCondition`, `m_loanedBlocksCondition`) only the collecting thread can
be waiting, so waking all is the same.

| actions | code |
| --- | --- |
| `LeavePhase`, `EnterPhase` | `GCThread::waitForNextPhase`, both loops |
| `didStartMarking`, `didFinishMarking`, `endCurrentPhase`, `AwaitThreads`, `Destroy`, `Join` | `GCThreadSharedData` |
| `AppendRoots`, `RootsDone`, `VisitWeak`, `SkipCopying` | `Heap::markRoots`, `Heap::copyBackingStores` |
| `VisitCell`, `VisitChild`, `donateKnownParallel`, `DrainDone` | `SlotVisitor::drain` |
| `EnterDrainFromShared`, `stealSomeCells`, `MasterTerminates`, `SlaveReturns`, `WaitForWork` | `SlotVisitor::drainFromShared` |
| `didStartCopying`, `StartCopyingMaster`, `getNextBlocksToCopy`, `EvacuateBlock`, `doneCopying`, `AwaitLoans` | the copying phase |

Abstractions. Mark stacks are sets, and how many cells a donation or a steal takes is
any number of them: the real number depends on segments. The unlocked read of the shared
stack's size only decides whether to donate, so a donation is allowed whatever it is.
Roots are any cells, in any number of rounds, and weak handles make any unmarked cells
live. A visitor may donate once between two visits. A visitor's opaque roots are reduced
to whether it has any that are not in the shared set. `roots`, `copied` and `collections`
are histories.

`Collections` runs two collections in a row of three cells in a cycle by three threads,
with three blocks in fragments of two, so that the last fragment is short, marks and
flags are reused, and threads of one phase can be late for the next; it also checks that
a collection finishes and that the whole implements `Collection` (`CollectionIsAtomic`). Two slaves are needed
for a slave to steal what another donated while the master waits; a third adds no new
role. Fairness is weak fairness of every thread; that the mutator collects, or destroys
the heap, is not assumed.

### Proofs

`ParallelGCProof` proves, for any finite set of threads, any heap, any number of blocks
and any fragment length, from the four named assumptions of `ParallelGC`:

| theorem | property |
| --- | --- |
| `TypeCorrect` | `TypeOK`; the unsigned counters never go below zero |
| `MarkingComplete` | `AllReachableMarked` |
| `MarkingPrecise` | `OnlyReachableMarked` |
| `OpaqueRootsComplete` | `OpaqueRootsMerged` |
| `ThreadsParked` | `MutatorRunsAlone` |
| `BlocksCopiedOnce` | `EveryBlockCopiedOnce` |
| `MarkingImplementsAtomicCollection` | `CollectionIsAtomic` |

None of these is inductive. `Invariance` proves `Inv`, the conjunction of:

* `Counted`: the two counters are the cardinalities of the threads at certain points.
  Everything the code concludes from a counter being zero starts here.
* `WorkWhileDraining`: a visitor has cells on its stack, children to append or opaque
  roots to merge only while it drains, hence while it counts as an active marker
  (or is the master).
* `NoWorkLeft`: after the master's termination test the shared stack is empty and no one
  drains. It holds when the test succeeds by `Counted` and `WorkWhileDraining`, and
  is stable because only a draining thread makes work, and only `VisitWeak` by
  the master restarts it.
* `WorkIsMarked` and `Tricolour`: everything on a stack is marked; a marked cell is on a
  stack, being scanned, or has all its children marked or about to be appended. With no
  work left this is closure under edges.
* `InsideClosedSets`: everything marked or about to be is in every closed set that
  contains the roots.
* `BetweenPhases`: which points the threads can be at, given the phase and
  `m_gcThreadsShouldWait`, and that a thread active in no phase waits for the next.
* `CopyingThreadsBorrow` and `BlocksHandedOut`: who copies holds a loan; each block is
  not yet handed out, in one fragment, or copied once.

Each conjunct has its step lemma with one step per action; `TypeStep` uses
`CountersPositive`, that a decrement finds its own thread counted. `MarkingActions` and
`BlockActions` say once which actions can touch marking and blocks at all.

`MarkingImplementsAtomicCollection` is the refinement of `Collection`. The view of a state
is who works (`CollectorState`, from the collecting thread's program point), the roots, and
the live cells (`KnownLive`: the marked ones from the end of tracing to the next collection,
before that none). Every step of a slave leaves this view alone (`SlaveKeepsView`), and so
does the collecting thread's own marking (`VisitorKeepsView`), since cells are marked only
while it traces (`NoWorkLeft`). The step that terminates the drain is the abstract `Trace`:
`MarkedIsReachable` gets from `Tricolour` and `InsideClosedSets` that the marks are exactly
what the roots reach.

## StorageAreaSync

One origin's local storage. The map the page sees, the timers and the changes since the
last sync are the main thread's; the storage thread takes functions off `queue` and is
at `pc` between two points where the other thread can see a difference. A sync is a
function of `queue` that holds what it took in `items` and `clearItems`.

| actions | code |
| --- | --- |
| `setItem` (with `Null`: `removeItem`), `clear`, `decrementAccessCount`, `incrementAccessCount`, `closeDatabaseTimerFired` | `StorageAreaImpl` and the `schedule...` function each calls |
| `TimerFires`, `scheduleSync`, `scheduleFinalSync` | `StorageAreaSync::syncTimerFired`, reached from the timer, from `sync()`, and from `StorageNamespaceImpl::close` with what that dispatches next |
| `performImport`, `ImportOpens`, `importItems`, `markImported` | `StorageAreaSync::performImport` |
| `performSync`, `SyncSkips`, `SyncOpens`, `SyncCloses`, `SyncWrites`, `SyncEnds` | `StorageAreaSync::performSync` and `sync` |
| `deleteEmptyDatabase`, `performTerminate` | the functions that end the thread's work |

A map of changes has `Unchanged` for a key without an entry and `Null` for one to be
removed. Which keys a partial sync takes is any choice, as it is the order of a hash table.
A transaction of SQLite is one step: what an error leaves of it is any subset of the items,
because the code commits after a failed statement. `lost` is a history: the keys whose last
change the code gave up. There are four ways: the database cannot be opened or read, a
statement fails, the sync that took the change closes the database, or a partial sync drops
the change in favour of an older one. The first two are failures; the last two lose a change
although nothing failed, and are described below. Every property but `CloseLosesNothing` says
what holds for the other keys; a new change of a key takes it out of `lost`.

`StorageSync` has two keys, one value besides `Null`, batches of one item, two changes of
each key, one clear, one release of the area, one request to sync, and a database that may
fail. Two keys and batches of one are needed for a partial sync, whose rest has to wait;
two changes of a key for an older and a newer one to be at different stages; a clear is
enough to come before, between or after them. The database may hold any items at the start.
Fairness is weak fairness of the storage thread and of the sync timer; nothing forces the
page to change anything or the area to be released.

* `LayersAddUp`: rows, items being written, pending items and changed items, applied in
  this order, are what the page sees, for every key that is not in `lost`.
* `SyncedAtRest`: with no timer running and the thread idle, the rows are what the page sees,
  for every key that is not in `lost`.
* `SuddenTerminationIsSafe`: until `sync()` is first called, so they are whenever sudden
  termination has been enabled as often as it was disabled.
* `EventuallyAtRest`: the timer is not restarted for ever, and the thread gets idle.

### Finding and known disagreements

`LostOnClose` violates `CloseLosesNothing`, `SyncedAtRest` without the history: the sync
that is to close the database took items to write, closes and returns
(`StorageAreaSync.cpp:400`). Further, met while modelling; the first two can be reproduced:

* A partial sync removes from `m_changedItems` every key that is pending
  (`StorageAreaSync.cpp:199`), also one whose newer change it did not take; the comment at
  `:217` says "If we didn't finish syncing, then we need to finish the job later". With
  `MaxReleases = 0`, `MaxiumItemsToSync = 1` and `MaxChanges = 2` in `LostOnClose.cfg`, no
  database is closed and `CloseLosesNothing` fails by this alone: two keys are changed, the
  timer takes the first, which is changed again, and the timer takes the second and removes
  the newer change of the first. The rows keep the older value. `StorageSync` reaches the
  same states and excuses them by `lost`.
* `scheduleSync()` (`StorageAreaSync.cpp:521`) calls `syncTimerFired()` without having
  disabled sudden termination, which that function enables (`:223`): each call leaves the
  balance one lower. The comments at `:122` and `:221` call the two "balanced", and
  `SuddenTermination.h` says that "fast shutdown is not valid until enableSuddenTermination()
  has been called an equal number of times". `SuddenTerminationIsSafe` without `syncs = 0`
  fails within the bounds of `StorageSync`: an item is set, `sync()` is called, and the
  final sync is scheduled; the balance is zero and the item is not written. Outside the Mac
  both calls are empty inline functions, so the Qt port does not feel it.
* When `CREATE TABLE` fails, `openDatabase()` marks the import complete with the database
  open, and `performImport` goes on to add items to a map the main thread uses.

Not modelled: `StorageTracker` and `clearForOriginDeletion` (inactive in the Qt port),
quota, storage events, private browsing, a close timer after the final sync.

### Proofs

`StorageAreaSyncProof` proves `TypeOK` (`TypeCorrect`), `LayersAddUp` (`NothingOvertaken`),
`SyncedAtRest` (`WrittenAtRest`) and `SuddenTerminationIsSafe` (`KillLosesNothing`) for
any keys, values, batch size and bounds, from `NullAssumption` and `BoundAssumption`. The
invariant `Inv` (`Invariance`) adds to `LayersAddUp`, per key in `Layers`:

* `NothingBeforeImport`: until the import is complete every layer is empty and, once
  `importItems` ran, map and rows agree. It makes `Layers` true when it starts to matter.
* `HeldWhileSyncing` and `RowsInFile`: outside a sync the thread's layer is empty; a
  database without a file has no rows, so making the file changes none.
* `ChangesHaveTimer`, `PendingHaveSync`, `ScheduledOnce`: a layer that is not empty has
  something that will empty it, a running timer or the one `performSync` in the queue.
  At rest there is neither, so every layer but the rows is empty and `Layers` is
  `SyncedAtRest`.
* `DisabledOften`: sudden termination is disabled once for each of the timer, the scheduled
  sync and the sync in progress, less one for each call of `sync()`. Before the first such
  call a balance of zero means that there is none of them; `KillLosesNothing` says no more.

## Web SQL

`SQLTransactionCoordinator` is one origin's entry of the coordinator, whose two operations
both end in `processPendingTransactions`; it is a specification of its own. `SQLTransaction`
has everything else and an instance of it per context, `Coordinator(c)`, whose operators
its actions apply. `ReadersWriterLock` is the abstract specification. It is instantiated by
both: `LockPromise` says that the coordinator by itself implements it for callers that
ask once and release what they have, `LockIsFair` that the transactions of the composition
get the same lock.

A *context* is a document or worker with its database thread and queue of tasks. Documents
share the main thread (`SameThread`), a worker has a script thread. A *handle* is a
`Database`; all are of one origin, since the coordinator keeps origins apart. Both state
machines are fields of a record per transaction: `tx` is the backend's and `front` the
frontend's. `next` and `requested` are the code's `m_nextState` and `m_requestedState`,
`frontend` is the reference cycle, `sqlite` what `m_sqliteTransaction` points to.

| actions | code |
| --- | --- |
| `runTransaction`, `scheduleTransaction` (in it and in `cleanupAndTerminate`) | `Database`, `DatabaseBackend` |
| `performPendingCallback`, `deliver...`, `sendToBackendState` | `SQLTransaction` and `SQLTransactionStateMachine`, on the script thread |
| `performNextStep`, `CleanupInterrupted`, `acquireLock` to `cleanupAndTerminate`, `sendToFrontendState` | `SQLTransactionBackend`, on the database thread |
| `markAsDeletedAndClose`, `performCloseTask`, `close` | deletion of a database by the user: the main thread waits for the database thread |
| `interruptAllDatabases`, `stopDatabases`, `shutdown`, `closeOpenDatabase`, `threadEnds` | a worker or document going away |

One state function is one action: the other thread can act between any two. A statement is
whether it ran, hit the quota or was reported; what it does to the data is left out, except
that SQLite may roll the transaction back. Anything can fail in a transaction of `Failing`.
A statement is added from a callback, at most `MaxStatements` per transaction. Only the
transactions of `HasCallback` have a callback to deliver; `changeVersion()` may be called
without one, and its transaction goes straight to its statements. That the
databases of a stopped document are closed on its own thread while the document's pending
callbacks are still delivered is modelled; what scripts do in callbacks other than adding
statements is not.

Simplified: a worker's callbacks are dropped once its run loop is killed, where the code
drops them a little earlier, as soon as it is terminated or closing (`WorkerRunLoop.cpp:222`).
The error callback of a transaction that finds the handle's queue disabled
(`Database.cpp:200`) touches nothing that is modelled and is left out. Setting `m_deleted`
and prepending the close task are one step (`Database.cpp:140`). The asynchronous
`Database::closeImmediately` has no action.

| run | who | what is allowed | checks |
| --- | --- | --- | --- |
| `SQLTransactions` | a document with three handles: a reader and a writer on one, a reader, a writer | a statement each, one raise of the quota; anything fails in the writer and reader that have error callbacks; only the reader has a statement error callback | `TypeOK`, `OpenWritesAreAlone`, `LockIsFair`, `EveryTransactionEnds` |
| `SQLInterruptions` | a document with a reader and a writer without a callback on one handle, a worker with a writer | the document is stopped, its database deleted, the worker interrupted and stopped, at any point | `AssertionsHold`, `NothingLeaked`, `EveryTransactionEnds`, `DeletionReturns` |

Two readers and two writers, of which two are on one handle, give the queue of a handle,
readers let in together, a reader that waits behind a writer though it could share, and a
grant from each way of releasing. `SQLTransactions` neither stops nor deletes: with a second
handle on a context that is stopped or deleted the two findings below happen. In
`SQLInterruptions` a handle has a transaction in progress and one in its queue, and the
origin lock is wanted by two threads; scripts add no statements, because an interruption
between statements is the same as one before the commit.

Fairness is weak fairness of each database thread, of each script thread's pending callbacks
and of what a callback returns to, and of stopping the databases of a worker that was
interrupted, the task `WorkerThread::stop` posts at once. Nothing is assumed of scripts,
of stopping a document or of deletion.

### Findings and known disagreements

* `SQLShutdown`: the loop over the pending transactions in `shutdown()`
  (`SQLTransactionCoordinator.cpp:143`) takes none off, so with one pending it does not
  end, and neither does the thread (`ThreadEnds`).
* `SQLDeletion`: `MessageQueue::removeIf` destroys tasks under the queue's mutex
  (`MessageQueue.h:200`); the destructor cleans the transaction up, which may grant the lock
  to another handle's, which appends to the same queue (`CleanupOfTasksReturns`).

Further, met while modelling; the first can be reproduced with other constants:

* With `Failing = {w1}`, `HasStatementErrorCallback = {w1}` and `MaxRaises = 0`,
  `EveryTransactionEnds` fails: after a quota error that is not raised, the statement stays
  the current one and is delivered again and again (`SQLTransactionBackend.cpp:653`, where
  `SQLTransaction.cpp:187` says "Otherwise, continue to loop through the statement queue").
* Two documents of an origin: the main thread waits in `markAsDeletedAndClose` for one
  database thread, which waits for the origin lock, whose holder on the other needs the main
  thread for its next callback.
* A worker's queue killed with a close task in it never runs that task, and the main thread
  waits for it.
* A failed commit gives the origin lock back while SQLite's transaction is still in progress.

The runs stay away from the first three: the writer that may fail has no statement error
callback, there is one document, and only the document's handle is deleted. The last happens in
`SQLTransactions`, where no other thread wants the lock.

### Proofs

`SQLTransactionCoordinatorProof` proves, for any set of transactions and without
assumptions, that a write runs alone (`WritesRunAlone`) and that the coordinator implements
`ReadersWriterLock` (`CoordinatorIsFairLock`: `Spec => LockPromise`). The invariant
(`Invariance`) is `Good(info)`: types, `Alone`, which is `WriteRunsAlone` of an entry, and
`NoneTwice`: nobody is twice in the queue, or in it and a holder. The last is what the
refinement needs: letting somebody in, the coordinator only compares the kind of the first in
the queue with the sets, while the abstract lock asks whether *different* clients conflict.
`ProcessLetsIn` is the heart: `processPendingTransactions` lets in a prefix of the queue
after which the next one conflicts. `LeadingReadersStop` says that the loop over readers has
a first writer to stop at, from the least element of a set of naturals.

`SQLTransactionProof` proves the four safety invariants of the composition (`TypeCorrect`,
`WritesAreAlone`, `NoAssertionFails`, `NothingIsLeaked`) and its refinement of
`ReadersWriterLock` in every context (`LockImplementsFairLock`: `Spec => LockIsFair`). It
assumes `ConstantsAssumption`: contexts, handles and transactions are arbitrary sets, anything
may be deleted, stopped or fail as the constants say, so the theorems also cover the instances
in which the findings above make a liveness property fail. One assumption is about the model's
names only: a transaction is not a handle, since either stands for its task in `tasks`.

None of the properties is inductive. Most of what they rest on is not in any variable, but in
where a transaction is. `Inv` says

* that a transaction's next step is in one place at most (`Apart`): the queue of its
  handle, the tasks of the thread, the thread, the coordinator's queue, the callbacks, or the
  script thread (`Queued`, `Posted`, `Running`, `Waiting`, `Called`, `Active`), and that
  no queue holds anything twice;
* that in each place the records are ready for the step that is next (`UnderWayFine`,
  `PostedFine`, `RunningFine`, `CalledFine`, `ActiveFine`, `WaitingFine`; `LockReady` and
  `StatementReady` say what each state function needs). These speak of a request only while
  the database can still be used, since an interruption leaves stale requests behind;
* that the coordinator and the backends agree on who has the lock (`HolderFine`) until
  `shutdown` has cleaned up the holders, and that each entry is `Good`, which
  `SQLTransactionCoordinatorProof` provides: its lemmas are about an entry, and `Entry`
  instantiates them;
* that a handle has one transaction that is out of its queue and not cleaned up, and that
  `m_transactionInProgress` says so while the handle is open (`OneInProgress`). This is what
  justifies that `close` gives back one lock at most;
* that a transaction which is still to be cleaned up and has not had its lock is where `close`
  or the coordinator finds it, and on an open handle if it is in a queue (`FreshFine`,
  `PostedFine`). `NothingLeaked` at the end of a thread follows from it: all handles are
  closed, the coordinator's queue is empty and nothing is running;
* that the origin lock belongs to a transaction with its lock (`OriginLockFine`).

There is one lemma per action. Most transactions are untouched by a step (`Same`,
`SameIsFine`); the others go from one place to another, and `BackendStep`, `FrontStep`,
`LetInIsFine` and `NowhereIsFine` say what that takes. The queues are handled by what is in
them (`AppendSet`, `TailSet`, `ConcatSet`, `SplitSet`); `RemoveIfSet` says that `removeIf`
keeps what it should. `removeIf` is a recursive function on the queue's indices: that it has
the value its definition says (`RemoveIfUnfolds`) is proved by looking at the least index at
which it would not. For the refinement, `AcquireLockAsks`, `TerminateLeaves`, `InterruptedLeaves`, `CloseLeaves` and
`ShutdownCloses` say which step of the abstract lock each action is; no other touches it.

## Only model-checked

* Liveness, everywhere: it needs fairness and `ENABLED`, which the prover does not have.
* `NoSyncDeadlock` outside the hypotheses of `NoDeadlock`. It is false where processes do not
  form a hierarchy (see `Connection`), and open with invalidation and full sockets.
* The properties of the runs that expect a violation (the findings).

## Plan

The remaining small protocols of the inventory: the block allocator, worker start and
termination, the IndexedDB coordinator, drawing areas.
