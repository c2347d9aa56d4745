--------------------------- MODULE SQLTransaction ---------------------------
(***************************************************************************)
(* Web SQL transactions: SQLTransaction (the frontend, on the script       *)
(* thread) and SQLTransactionBackend (on the database thread) run one      *)
(* state machine between them by posting each other requests; Database-    *)
(* Backend queues the transactions of a database handle; DatabaseThread    *)
(* performs the tasks of a context's handles and, when the context is      *)
(* stopped, shuts down; SQLTransactionCoordinator and the origin lock      *)
(* decide who may run.  Databases are closed under running transactions    *)
(* when the user deletes them, contexts are stopped, workers interrupted.  *)
(*                                                                         *)
(* All handles are of one origin.  A context is a DatabaseContext with its *)
(* DatabaseThread.  The documents share the main thread, a worker has a    *)
(* script thread of its own.                                               *)
(***************************************************************************)
EXTENDS Naturals, Sequences, FiniteSets, SequencesExt

CONSTANTS Contexts, Databases, Transactions,
          ContextOf,         \* the context of a database handle
          DatabaseOf,        \* the handle a transaction is run on
          ReadOnly,          \* the transactions made by readTransaction()
          HasCallback,       \* the transactions given a callback: all but changeVersion()'s
                             \*   have one
          HasErrorCallback,  \* the transactions given an error callback
          HasStatementErrorCallback,  \* those whose statements are given one
          Failing,           \* the transactions in which anything may fail
          Workers,           \* the contexts of workers
          Stoppable,         \* the contexts that may be stopped
          Deletable,         \* the handles whose database may be deleted
          MaxStatements,     \* bound on the statements a script adds to a transaction
          MaxRaises,         \* how often the quota is raised for a transaction
          None

ASSUME ConstantsAssumption ==
  /\ ContextOf \in [Databases -> Contexts]
  /\ DatabaseOf \in [Transactions -> Databases]
  /\ ReadOnly \subseteq Transactions
  /\ HasCallback \subseteq Transactions
  /\ HasErrorCallback \subseteq Transactions
  /\ HasStatementErrorCallback \subseteq Transactions
  /\ Failing \subseteq Transactions
  /\ Workers \subseteq Contexts
  /\ Stoppable \subseteq Contexts
  /\ Deletable \subseteq Databases
  /\ MaxStatements \in Nat /\ MaxRaises \in Nat
  /\ None \notin Transactions \cup Databases
  /\ Transactions \cap Databases = {}

VARIABLES
  db,          \* per handle: the members of Database and DatabaseBackend
  tx,          \* per transaction: the members of SQLTransactionBackend
  front,       \* per transaction: the members of SQLTransaction
  created,     \* the transactions that runTransaction() has made
  info,        \* per context: the coordinator's entry for the origin
  tasks,       \* per context: DatabaseThread::m_queue; a transaction stands for a
               \*   DatabaseTransactionTask, a handle for a DatabaseCloseTask
  killed,      \* per context: m_queue.killed()
  interrupted, \* per context: isInterrupted() of its handles
  phase,       \* per context: where DatabaseThread::databaseThread() is
  running,     \* per context: the transaction in runStateMachine() on its thread
  callbacks,   \* per context: the DeliverPendingCallbackTasks of its script thread
  originLock,  \* the transaction that holds the origin's OriginLock
  deleting     \* the handle whose closing the main thread waits for

vars == <<db, tx, front, created, info, tasks, killed, interrupted, phase,
          running, callbacks, originLock, deleting>>

threadVars == <<killed, interrupted, deleting>>

-----------------------------------------------------------------------------
\* SQLTransactionState
States == {"End", "Idle", "AcquireLock", "OpenTransactionAndPreflight",
           "RunStatements", "PostflightAndCommit", "CleanupAndTerminate",
           "CleanupAfterTransactionErrorCallback", "DeliverTransactionCallback",
           "DeliverTransactionErrorCallback", "DeliverStatementCallback",
           "DeliverQuotaIncreaseCallback", "DeliverSuccessCallback"}

\* The states the backend may be asked to run, and those of the frontend.
BackendStates  == {"AcquireLock", "OpenTransactionAndPreflight", "RunStatements",
                   "PostflightAndCommit", "CleanupAndTerminate",
                   "CleanupAfterTransactionErrorCallback"}
FrontendStates == {"DeliverTransactionCallback", "DeliverTransactionErrorCallback",
                   "DeliverStatementCallback", "DeliverQuotaIncreaseCallback",
                   "DeliverSuccessCallback"}

\* runStateMachine() stops at Idle and at End.
AtRest(state) == state \in {"Idle", "End"}

Context(t) == ContextOf[DatabaseOf[t]]
HandlesOf(c) == {d \in Databases : ContextOf[d] = c}
TransactionsOf(c) == {t \in Transactions : Context(t) = c}

\* What both computeNextStateAndCleanupIfNeeded() ask before they honour a
\* request.
Usable(t) == db[DatabaseOf[t]].opened /\ ~ interrupted[Context(t)]

ShuttingDown(c) == phase[c] \in {"looping", "closing", "finished"}

Coordinator(c) == INSTANCE SQLTransactionCoordinator WITH
                    info <- info[c], isShuttingDown <- ShuttingDown(c)

Init ==
  /\ db = [d \in Databases |->
             [transactionQueue |-> <<>>, transactionInProgress |-> FALSE,
              queueEnabled |-> TRUE, opened |-> TRUE, deleted |-> FALSE]]
  /\ tx = [t \in Transactions |->
             [next |-> "Idle", requested |-> "AcquireLock", frontend |-> TRUE,
              lockAcquired |-> FALSE, sqlite |-> "none", statements |-> 0,
              current |-> "none", retry |-> FALSE]]
  /\ front = [t \in Transactions |->
                [next |-> "Idle", requested |-> "Idle", issued |-> 0, raises |-> 0]]
  /\ created = {}
  /\ info = [c \in Contexts |-> Coordinator(c)!EmptyInfo]
  /\ tasks = [c \in Contexts |-> <<>>]
  /\ killed = [c \in Contexts |-> FALSE]
  /\ interrupted = [c \in Contexts |-> FALSE]
  /\ phase = [c \in Contexts |-> "loop"]
  /\ running = [c \in Contexts |-> None]
  /\ callbacks = [c \in Contexts |-> <<>>]
  /\ originLock = None
  /\ deleting = None

-----------------------------------------------------------------------------
(***************************************************************************)
(* Pieces that several operations share                                    *)
(***************************************************************************)

\* doCleanup() of the backend r: a second call returns at once.
doCleanup(r) ==
  IF r.frontend THEN [r EXCEPT !.frontend = FALSE, !.statements = 0, !.sqlite = "none"]
                ELSE r

\* The transactions of T whose doCleanup() gives the coordinator's lock back.
Holding(T) == {t \in T : tx[t].frontend /\ tx[t].lockAcquired}

\* lockAcquired(), up to the request it posts.
lockAcquired(r) == [r EXCEPT !.lockAcquired = TRUE,
                             !.requested = "OpenTransactionAndPreflight"]

\* releaseOriginLockIfNeeded() of the transactions T, and a mutant in which
\* doCleanup() forgets it.
KeepOriginLock(T) == originLock
OriginLockWithout(T) == IF originLock \in T THEN None ELSE originLock

\* The coordinator's entry of c and the queue q that it grants from, after the
\* transaction t gave the lock back.
AfterRelease(c, t) == Coordinator(c)!Released(info[c], t)
GrantedBy(c, t) == Coordinator(c)!Granted(info[c].pending, AfterRelease(c, t))

\* DatabaseBackend::scheduleTransaction() on the handle h: the handle and the
\* tasks that are posted.  The mutant forgets m_transactionInProgress = false.
StaysInProgress(h) ==
  IF h.queueEnabled /\ h.transactionQueue # <<>>
  THEN [handle |-> [h EXCEPT !.transactionQueue = Tail(@), !.transactionInProgress = TRUE],
        posted |-> <<Head(h.transactionQueue)>>]
  ELSE [handle |-> h, posted |-> <<>>]

scheduleTransaction(h) ==
  IF h.queueEnabled /\ h.transactionQueue # <<>>
  THEN [handle |-> [h EXCEPT !.transactionQueue = Tail(@), !.transactionInProgress = TRUE],
        posted |-> <<Head(h.transactionQueue)>>]
  ELSE [handle |-> [h EXCEPT !.transactionInProgress = FALSE], posted |-> <<>>]

\* SQLTransactionBackend and SQLTransaction have this one alike.
nextStateForTransactionError(t) ==
  IF t \in HasErrorCallback THEN "DeliverTransactionErrorCallback"
                            ELSE "CleanupAfterTransactionErrorCallback"

\* The backend state function running on the thread of c returns.
Return(c, t, r) ==
  /\ tx' = [tx EXCEPT ![t] = r]
  /\ running' = [running EXCEPT ![c] = IF AtRest(r.next) THEN None ELSE t]

\* The thread of c is about to run the state function of `state' for t.
Runs(c, t, state) == running[c] = t /\ tx[t].next = state

-----------------------------------------------------------------------------
(***************************************************************************)
(* The script threads                                                      *)
(***************************************************************************)

\* The contexts whose scripts run on the script thread of c, and whether that
\* thread is between two tasks.
SameThread(c) == IF c \in Workers THEN {c} ELSE Contexts \ Workers
ScriptFree(c) ==
  /\ c \notin Workers => deleting = None
  /\ \A t \in Transactions : Context(t) \in SameThread(c) => AtRest(front[t].next)

MainThreadFree == deleting = None

\* Database::runTransaction() on a handle that still takes transactions.
runTransaction(t) ==
  LET d == DatabaseOf[t]
      queued == [db[d] EXCEPT !.transactionQueue = Append(@, t)]
      s == scheduleTransaction(queued)
  IN
  /\ t \notin created
  /\ ScriptFree(Context(t))
  /\ ~ (Context(t) \in Workers /\ killed[Context(t)])
  /\ db[d].queueEnabled
  /\ created' = created \cup {t}
  /\ IF db[d].transactionInProgress
     THEN /\ db' = [db EXCEPT ![d] = queued]
          /\ UNCHANGED tasks
     ELSE /\ db' = [db EXCEPT ![d] = s.handle]
          /\ tasks' = [tasks EXCEPT ![Context(t)] = @ \o s.posted]
  /\ UNCHANGED <<tx, front, info, phase, running, callbacks, originLock, threadVars>>

\* SQLTransaction::performPendingCallback(), up to the state machine's loop.
\* The run loop of a worker that is being stopped drops the task.
performPendingCallback(c) ==
  /\ callbacks[c] # <<>>
  /\ ScriptFree(c)
  /\ callbacks' = [callbacks EXCEPT ![c] = Tail(@)]
  /\ LET t == Head(callbacks[c]) IN
     front' = [front EXCEPT ![t] =
                 IF c \in Workers /\ killed[c] THEN @
                 ELSE IF Usable(t) THEN [@ EXCEPT !.next = front[t].requested, !.requested = "Idle"]
                 ELSE [@ EXCEPT !.next = "CleanupAndTerminate"]]
  /\ UNCHANGED <<db, tx, created, info, tasks, phase, running, originLock, threadVars>>

\* In a callback the script may add a statement with executeSQL().
ScriptCallback(t, states) ==
  \E s \in states, n \in 0 .. 1 :
    /\ front[t].issued + n <= MaxStatements
    /\ n = 1 => db[DatabaseOf[t]].opened
    /\ front' = [front EXCEPT ![t].next = s, ![t].issued = @ + n]
    /\ tx' = [tx EXCEPT ![t].statements = @ + n,
                        ![t].current = IF @ = "quota" THEN "reported" ELSE @]

deliverTransactionCallback(t) ==
  /\ front[t].next = "DeliverTransactionCallback"
  /\ ScriptCallback(t, {"RunStatements"} \cup
                       IF t \in Failing THEN {"DeliverTransactionErrorCallback"} ELSE {})
  /\ UNCHANGED <<db, created, info, tasks, phase, running, callbacks, originLock, threadVars>>

deliverTransactionErrorCallback(t) ==
  /\ front[t].next = "DeliverTransactionErrorCallback"
  /\ front' = [front EXCEPT ![t].next = "CleanupAfterTransactionErrorCallback"]
  /\ UNCHANGED <<db, tx, created, info, tasks, phase, running, callbacks, originLock, threadVars>>

\* performCallback() takes the statement's callbacks, so a statement that is
\* delivered again calls nothing.
deliverStatementCallback(t) ==
  /\ front[t].next = "DeliverStatementCallback"
  /\ IF tx[t].current = "reported"
     THEN /\ front' = [front EXCEPT ![t].next = "RunStatements"]
          /\ UNCHANGED tx
     ELSE ScriptCallback(t, {"RunStatements"} \cup
                            IF t \in Failing THEN {nextStateForTransactionError(t)} ELSE {})
  /\ UNCHANGED <<db, created, info, tasks, phase, running, callbacks, originLock, threadVars>>

\* The client raises the quota or does not.
deliverQuotaIncreaseCallback(t) ==
  /\ front[t].next = "DeliverQuotaIncreaseCallback"
  /\ \E n \in 0 .. 1 :
       /\ front[t].raises + n <= MaxRaises
       /\ tx' = [tx EXCEPT ![t].retry = (n = 1)]
       /\ front' = [front EXCEPT ![t].next = "RunStatements", ![t].raises = @ + n]
  /\ UNCHANGED <<db, created, info, tasks, phase, running, callbacks, originLock, threadVars>>

deliverSuccessCallback(t) ==
  /\ front[t].next = "DeliverSuccessCallback"
  /\ front' = [front EXCEPT ![t].next = "CleanupAndTerminate"]
  /\ UNCHANGED <<db, tx, created, info, tasks, phase, running, callbacks, originLock, threadVars>>

\* sendToBackendState() and the backend's requestTransitToState().
sendToBackendState(t) ==
  /\ front[t].next \in {"RunStatements", "CleanupAndTerminate",
                        "CleanupAfterTransactionErrorCallback"}
  /\ tx' = [tx EXCEPT ![t].requested = front[t].next]
  /\ tasks' = [tasks EXCEPT ![Context(t)] = Append(@, t)]
  /\ front' = [front EXCEPT ![t].next = "Idle"]
  /\ UNCHANGED <<db, created, info, phase, running, callbacks, originLock, threadVars>>

\* Has the database thread of c been asked to terminate?  The mutant is a caller
\* that does not ask.
NeverAsked(c) == FALSE
terminationRequested(c) == killed[c]

\* DatabaseTracker::deleteDatabaseFile() calls markAsDeletedAndClose() for an
\* open handle: the close task goes to the front of the queue and the main
\* thread waits for it.
markAsDeletedAndClose(d) ==
  LET c == ContextOf[d] IN
  /\ MainThreadFree
  /\ \A t \in Transactions : Context(t) \notin Workers => AtRest(front[t].next)
  /\ db[d].opened /\ ~ db[d].deleted
  /\ db' = [db EXCEPT ![d].deleted = TRUE]
  /\ IF terminationRequested(c)
     THEN UNCHANGED <<tasks, deleting>>
     ELSE /\ tasks' = [tasks EXCEPT ![c] = <<d>> \o @]
          /\ deleting' = d
  /\ UNCHANGED <<tx, front, created, info, phase, running, callbacks, originLock,
                 killed, interrupted>>

\* DatabaseManager::interruptAllDatabasesForContext() from WorkerThread::stop()
\* on the main thread, which then posts the task that stops the databases.
interruptAllDatabases(c) ==
  /\ MainThreadFree
  /\ ~ interrupted[c]
  /\ interrupted' = [interrupted EXCEPT ![c] = TRUE]
  /\ UNCHANGED <<db, tx, front, created, info, tasks, phase, running, callbacks,
                 originLock, killed, deleting>>

\* DatabaseContext::stopDatabases(), on the script thread of the context.
stopDatabases(c) ==
  /\ ScriptFree(c)
  /\ c \in Workers => interrupted[c]
  /\ ~ killed[c]
  /\ killed' = [killed EXCEPT ![c] = TRUE]
  /\ UNCHANGED <<db, tx, front, created, info, tasks, phase, running, callbacks,
                 originLock, interrupted, deleting>>

-----------------------------------------------------------------------------
(***************************************************************************)
(* The database threads                                                    *)
(***************************************************************************)

\* waitForMessage() gives the thread its next task.
TakesTask(c) ==
  /\ phase[c] = "loop" /\ running[c] = None
  /\ ~ killed[c]
  /\ tasks[c] # <<>>

\* performNextStep(): the request is honoured, ...
performNextStep(c) ==
  LET t == Head(tasks[c]) IN
  /\ TakesTask(c) /\ t \in Transactions
  /\ Usable(t)
  /\ tasks' = [tasks EXCEPT ![c] = Tail(@)]
  /\ Return(c, t, [tx[t] EXCEPT !.next = tx[t].requested, !.requested = "Idle"])
  /\ UNCHANGED <<db, front, created, info, phase, callbacks, originLock, threadVars>>

\* What an interruption makes of the backend r; the mutant leaves its state, so
\* that the frontend's answer finds it again.
InterruptedAsIs(r) == doCleanup([r EXCEPT !.sqlite = "none"])
Interrupted(r) == doCleanup([r EXCEPT !.next = "End", !.sqlite = "none"])

\* ... or the database is closed or interrupted: the transaction ends here.
CleanupInterrupted(c) ==
  LET t == Head(tasks[c])
      first == tx[t].next # "End"
      freed == first /\ t \in Holding({t})
      granted == IF freed THEN GrantedBy(c, t) ELSE <<>>
  IN
  /\ TakesTask(c) /\ t \in Transactions
  /\ ~ Usable(t)
  /\ tasks' = [tasks EXCEPT ![c] = Tail(@) \o granted]
  /\ tx' = [s \in Transactions |->
              IF s \in ToSet(granted) THEN lockAcquired(tx[s])
              ELSE IF s = t /\ first THEN Interrupted(tx[t])
              ELSE tx[s]]
  /\ info' = IF freed THEN [info EXCEPT ![c] = AfterRelease(c, t)] ELSE info
  /\ front' = IF first THEN [front EXCEPT ![t].requested = "End"] ELSE front
  /\ callbacks' = IF first THEN [callbacks EXCEPT ![c] = Append(@, t)] ELSE callbacks
  /\ originLock' = IF first THEN OriginLockWithout({t}) ELSE originLock
  /\ UNCHANGED <<db, created, phase, running, threadVars>>

acquireLock(c, t) ==
  LET i == Coordinator(c)!Acquired(info[c], t)
      granted == Coordinator(c)!Granted(Append(info[c].pending, t), i)
      idle == [tx EXCEPT ![t].next = "Idle"]
  IN
  /\ Runs(c, t, "AcquireLock")
  /\ info' = [info EXCEPT ![c] = i]
  /\ tx' = [s \in Transactions |->
              IF s \in ToSet(granted) THEN lockAcquired(idle[s]) ELSE idle[s]]
  /\ tasks' = [tasks EXCEPT ![c] = @ \o granted]
  /\ running' = [running EXCEPT ![c] = None]
  /\ UNCHANGED <<db, front, created, phase, callbacks, originLock, threadVars>>

\* Who takes the origin lock; the mutant forgets the test of m_readOnly.
Everyone(t) == TRUE
NeedsOriginLock(t) == t \notin ReadOnly

\* Without a callback there is nothing for the script thread to do yet.
nextStateAfterPreflight(t) ==
  IF t \in HasCallback THEN "DeliverTransactionCallback" ELSE "RunStatements"

\* A writer waits here for the origin lock, whoever's thread has it.
openTransactionAndPreflight(c, t) ==
  /\ Runs(c, t, "OpenTransactionAndPreflight")
  /\ IF db[DatabaseOf[t]].deleted
     THEN /\ Return(c, t, [tx[t] EXCEPT !.next = nextStateForTransactionError(t)])
          /\ UNCHANGED originLock
     ELSE /\ IF NeedsOriginLock(t) THEN originLock = None /\ originLock' = t
                                   ELSE UNCHANGED originLock
          /\ \/ Return(c, t, [tx[t] EXCEPT !.next = nextStateAfterPreflight(t), !.sqlite = "open"])
             \/ /\ t \in Failing
                /\ Return(c, t, [tx[t] EXCEPT !.next = nextStateForTransactionError(t)])
  /\ UNCHANGED <<db, front, created, info, tasks, phase, callbacks, threadVars>>

\* Anything may fail in a failing transaction, and a statement fails when it was
\* added to a deleted database or is interrupted.
MayFail(t) ==
  t \in Failing \/ db[DatabaseOf[t]].deleted \/ interrupted[Context(t)]

\* After a statement of the backend r of t failed.
nextStateForCurrentStatementError(t, r) ==
  IF t \in HasStatementErrorCallback /\ r.sqlite # "rolledBack"
  THEN "DeliverStatementCallback" ELSE nextStateForTransactionError(t)

\* What executing the current statement makes of the backend r of t.  SQLite
\* may roll the transaction back when a statement fails.
Executed(t, r) ==
  {[r EXCEPT !.next = s, !.current = "ran"] : s \in {"RunStatements", "DeliverStatementCallback"}}
  \cup
  {[f EXCEPT !.next = nextStateForCurrentStatementError(t, f), !.current = "ran"] :
     f \in IF MayFail(t) THEN {[r EXCEPT !.sqlite = x] : x \in {r.sqlite, "rolledBack"}} ELSE {}}
  \cup
  {[r EXCEPT !.next = "DeliverQuotaIncreaseCallback", !.current = "quota", !.sqlite = x] :
     x \in IF t \in Failing \ ReadOnly THEN {r.sqlite, "rolledBack"} ELSE {}}

\* One round of the loop in runStatements().
runStatements(c, t) ==
  LET r == tx[t] IN
  /\ Runs(c, t, "RunStatements")
  /\ \E s \in IF r.retry /\ r.sqlite # "rolledBack"
                THEN Executed(t, [r EXCEPT !.retry = FALSE])
              ELSE IF r.current \in {"quota", "reported"}
                THEN {[r EXCEPT !.next = nextStateForCurrentStatementError(t, r)]}
              ELSE IF r.statements = 0
                THEN {[r EXCEPT !.next = "PostflightAndCommit", !.current = "none"]}
              ELSE Executed(t, [r EXCEPT !.statements = @ - 1]) :
       Return(c, t, s)
  /\ UNCHANGED <<db, front, created, info, tasks, phase, callbacks, originLock, threadVars>>

\* The postflight of changeVersion() fails and the origin lock is kept, or the
\* COMMIT is tried and the lock given back whether it worked or not.
postflightAndCommit(c, t) ==
  LET failed == [tx[t] EXCEPT !.next = nextStateForTransactionError(t)]
      couldFail == t \in Failing \/ tx[t].sqlite = "rolledBack"
  IN
  /\ Runs(c, t, "PostflightAndCommit")
  /\ \/ /\ t \in Failing
        /\ Return(c, t, failed)
        /\ UNCHANGED originLock
     \/ /\ originLock' = OriginLockWithout({t})
        /\ \/ /\ tx[t].sqlite = "open"
              /\ Return(c, t, [tx[t] EXCEPT !.next = "DeliverSuccessCallback",
                                            !.sqlite = "committed"])
           \/ couldFail /\ Return(c, t, failed)
  /\ UNCHANGED <<db, front, created, info, tasks, phase, callbacks, threadVars>>

cleanupAfterTransactionErrorCallback(c, t) ==
  /\ Runs(c, t, "CleanupAfterTransactionErrorCallback")
  /\ Return(c, t, [tx[t] EXCEPT !.next = "CleanupAndTerminate", !.sqlite = "none"])
  /\ originLock' = OriginLockWithout({t})
  /\ UNCHANGED <<db, front, created, info, tasks, phase, callbacks, threadVars>>

\* doCleanup() gives the lock back and may let others in; then
\* inProgressTransactionCompleted() schedules the handle's next transaction.
cleanupAndTerminate(c, t) ==
  LET d == DatabaseOf[t]
      freed == t \in Holding({t})
      granted == IF freed THEN GrantedBy(c, t) ELSE <<>>
      s == scheduleTransaction(db[d])
  IN
  /\ Runs(c, t, "CleanupAndTerminate")
  /\ info' = IF freed THEN [info EXCEPT ![c] = AfterRelease(c, t)] ELSE info
  /\ tx' = [u \in Transactions |->
              IF u \in ToSet(granted) THEN lockAcquired(tx[u])
              ELSE IF u = t THEN doCleanup([tx[t] EXCEPT !.next = "End"])
              ELSE tx[u]]
  /\ originLock' = OriginLockWithout({t})
  /\ db' = [db EXCEPT ![d] = s.handle]
  /\ tasks' = [tasks EXCEPT ![c] = @ \o granted \o s.posted]
  /\ running' = [running EXCEPT ![c] = None]
  /\ UNCHANGED <<front, created, phase, callbacks, threadVars>>

\* sendToFrontendState() and the frontend's requestTransitToState().
sendToFrontendState(c, t) ==
  /\ running[c] = t
  /\ tx[t].next \in FrontendStates
  /\ front' = [front EXCEPT ![t].requested = tx[t].next]
  /\ callbacks' = [callbacks EXCEPT ![c] = Append(@, t)]
  /\ Return(c, t, [tx[t] EXCEPT !.next = "Idle"])
  /\ UNCHANGED <<db, created, info, tasks, phase, originLock, threadVars>>

-----------------------------------------------------------------------------
\* MessageQueue::removeIf(): what stays in the queue q without the tasks X.
removeIf(q, X) ==
  LET rest[n \in 0 .. Len(q)] ==
        IF n = 0 THEN <<>>
        ELSE IF q[n] \in X THEN rest[n - 1] ELSE Append(rest[n - 1], q[n])
  IN rest[Len(q)]

\* DatabaseBackend::close(): the transactions that wait in the handle's queue
\* are cleaned up, the handle is closed, and its tasks are taken off the
\* thread's queue.  removeIf() deletes each of them with the queue's mutex
\* locked, and a transaction whose step is deleted is cleaned up as well: if
\* giving its lock back lets another transaction in, lockAcquired() appends to
\* the same queue, and the thread waits for the mutex that it holds.  A handle
\* has one transaction in progress (OpenWritesAreAlone says so), so one at most
\* gives its lock back.
close(c, d) ==
  LET unscheduled == {t \in ToSet(tasks[c]) \cap Transactions : DatabaseOf[t] = d}
      dropped == unscheduled \cup ToSet(db[d].transactionQueue)
      freed == IF ShuttingDown(c) THEN {} ELSE Holding(unscheduled)
      after == IF freed = {} THEN info[c]
               ELSE Coordinator(c)!Released(info[c], CHOOSE t \in freed : TRUE)
      granted == ToSet(Coordinator(c)!Granted(info[c].pending, after))
  IN
  /\ db' = [db EXCEPT ![d] = [@ EXCEPT !.transactionQueue = <<>>, !.queueEnabled = FALSE,
                                       !.transactionInProgress = FALSE, !.opened = FALSE]]
  /\ tx' = [t \in Transactions |->
              IF t \in granted THEN lockAcquired(tx[t])
              ELSE IF t \in dropped THEN doCleanup(tx[t]) ELSE tx[t]]
  /\ originLock' = OriginLockWithout({t \in dropped : tx[t].frontend})
  /\ info' = [info EXCEPT ![c] = after]
  /\ tasks' = [tasks EXCEPT ![c] = removeIf(@, {d} \cup unscheduled)]
  /\ phase' = IF granted = {} THEN phase ELSE [phase EXCEPT ![c] = "deadlocked"]
  /\ deleting' = IF granted = {} /\ ~ ShuttingDown(c) /\ deleting = d THEN None ELSE deleting

\* A DatabaseCloseTask tells the main thread that it is done.
performCloseTask(c) ==
  /\ TakesTask(c) /\ Head(tasks[c]) \in Databases
  /\ close(c, Head(tasks[c]))
  /\ UNCHANGED <<front, created, killed, interrupted, running, callbacks>>

\* The transactions of the coordinator's entry i that shutdown() notifies: of
\* those that wait it gets to the first only.  The mutant forgets the readers.
NotifiedWriter(i) == i.activeWrite
Notified(i) ==
  i.activeWrite \cup i.activeReads \cup
  (IF i.pending = <<>> THEN {} ELSE {Head(i.pending)})

\* The queue was killed: SQLTransactionCoordinator::shutdown() cleans up the
\* transactions that hold the lock and those that wait for it.
shutdown(c) ==
  LET i == info[c]
      told == Notified(i)
  IN
  /\ phase[c] = "loop" /\ running[c] = None
  /\ killed[c]
  /\ tx' = [t \in Transactions |-> IF t \in told THEN doCleanup(tx[t]) ELSE tx[t]]
  /\ originLock' = OriginLockWithout({t \in told : tx[t].frontend})
  /\ phase' = [phase EXCEPT ![c] = IF i.pending = <<>> THEN "closing" ELSE "looping"]
  /\ info' = IF i.pending = <<>> THEN [info EXCEPT ![c] = Coordinator(c)!EmptyInfo] ELSE info
  /\ UNCHANGED <<db, front, created, tasks, running, callbacks, threadVars>>

\* Then the thread closes the databases that are still open ...
closeOpenDatabase(c, d) ==
  /\ phase[c] = "closing"
  /\ db[d].opened
  /\ close(c, d)
  /\ UNCHANGED <<front, created, killed, interrupted, running, callbacks>>

\* ... and ends.
threadEnds(c) ==
  /\ phase[c] = "closing"
  /\ \A d \in HandlesOf(c) : ~ db[d].opened
  /\ phase' = [phase EXCEPT ![c] = "finished"]
  /\ UNCHANGED <<db, tx, front, created, info, tasks, running, callbacks, originLock,
                 threadVars>>

-----------------------------------------------------------------------------
ThreadStep(c) ==
  \/ performNextStep(c)
  \/ CleanupInterrupted(c)
  \/ performCloseTask(c)
  \/ \E t \in TransactionsOf(c) :
       \/ acquireLock(c, t)
       \/ openTransactionAndPreflight(c, t)
       \/ runStatements(c, t)
       \/ postflightAndCommit(c, t)
       \/ cleanupAfterTransactionErrorCallback(c, t)
       \/ cleanupAndTerminate(c, t)
       \/ sendToFrontendState(c, t)
  \/ shutdown(c)
  \/ \E d \in HandlesOf(c) : closeOpenDatabase(c, d)
  \/ threadEnds(c)

ScriptStep(c) ==
  \/ performPendingCallback(c)
  \/ /\ c \notin Workers => deleting = None
     /\ \E t \in TransactionsOf(c) :
          \/ deliverTransactionCallback(t)
          \/ deliverTransactionErrorCallback(t)
          \/ deliverStatementCallback(t)
          \/ deliverQuotaIncreaseCallback(t)
          \/ deliverSuccessCallback(t)
          \/ sendToBackendState(t)

Next ==
  \/ \E t \in Transactions : runTransaction(t)
  \/ \E d \in Deletable : markAsDeletedAndClose(d)
  \/ \E c \in Stoppable \cap Workers : interruptAllDatabases(c)
  \/ \E c \in Stoppable : stopDatabases(c)
  \/ \E c \in Contexts : ThreadStep(c) \/ ScriptStep(c)

Spec == Init /\ [][Next]_vars

\* Database threads and script threads run on, callbacks return, and a worker
\* that was interrupted gets to the task that stops its databases.
FairSpec ==
  /\ Spec
  /\ \A c \in Contexts : WF_vars(ThreadStep(c)) /\ WF_vars(ScriptStep(c))
  /\ \A c \in Stoppable \cap Workers : WF_vars(interrupted[c] /\ stopDatabases(c))

-----------------------------------------------------------------------------
(***************************************************************************)
(* Properties                                                              *)
(***************************************************************************)

BackendRecords ==
  [next : States, requested : States, frontend : BOOLEAN, lockAcquired : BOOLEAN,
   sqlite : {"none", "open", "rolledBack", "committed"}, statements : 0 .. MaxStatements,
   current : {"none", "ran", "quota", "reported"}, retry : BOOLEAN]

\* Every member has its type.
TypeOK ==
  /\ tx \in [Transactions -> BackendRecords]
  /\ front \in [Transactions -> [next : States, requested : States,
                                 issued : 0 .. MaxStatements, raises : 0 .. MaxRaises]]
  /\ \A d \in Databases :
       /\ db[d].transactionQueue \in Seq(created)
       /\ <<db[d].transactionInProgress, db[d].queueEnabled, db[d].opened, db[d].deleted>>
            \in BOOLEAN \X BOOLEAN \X BOOLEAN \X BOOLEAN
  /\ created \subseteq Transactions
  /\ \A c \in Contexts :
       /\ info[c] \in Coordinator(c)!Infos
       /\ tasks[c] \in Seq(created \cup Databases)
       /\ callbacks[c] \in Seq(created)
       /\ running[c] \in created \cup {None}
       /\ phase[c] \in {"loop", "deadlocked", "looping", "closing", "finished"}
  /\ killed \in [Contexts -> BOOLEAN]
  /\ interrupted \in [Contexts -> BOOLEAN]
  /\ originLock \in (Transactions \ ReadOnly) \cup {None}
  /\ deleting \in Databases \cup {None}

\* In every context, through errors, closed databases, interruptions and
\* shutdown, transactions are let in by processPendingTransactions() in the
\* order in which they asked, a writer alone, and nobody waits who could be let
\* in: the readers-writer lock that SQLTransactionCoordinator is by itself is
\* also what these callers get from it.
FairLock(c) == INSTANCE ReadersWriterLock WITH
                 Clients <- Transactions, Readers <- ReadOnly,
                 waiting <- IF ShuttingDown(c) THEN <<>> ELSE info[c].pending,
                 holders <- IF ShuttingDown(c) THEN {}
                            ELSE info[c].activeWrite \cup info[c].activeReads,
                 closed  <- ShuttingDown(c)
LockIsFair ==
  /\ \A c \in Contexts : FairLock(c)!Init
  /\ [][\A c \in Contexts : [FairLock(c)!Next]_(FairLock(c)!vars)]_vars

\* While a transaction that writes has an SQLite transaction open, no other
\* transaction on the same database thread has one, and a handle never has two
\* transactions past lockAcquired(), although the statements of each are spread
\* over many tasks and callbacks: m_sqliteTransaction, m_transactionInProgress
\* and the coordinator agree on every path, also on those that end a
\* transaction early.
OpenWritesAreAlone ==
  \A t, u \in created :
    t # u =>
      /\ Context(t) = Context(u) /\ tx[t].sqlite # "none" /\ tx[u].sqlite # "none" =>
           t \in ReadOnly /\ u \in ReadOnly
      /\ DatabaseOf[t] = DatabaseOf[u] => Cardinality(Holding({t, u})) <= 1

\* The assertions of both state machines: a task or a callback always finds its
\* machine idle with a request that this side runs, so that unreachableState()
\* is not reached; a transaction that is cut short still has its frontend to
\* tell; every state function finds the lock, the SQLite transaction and the
\* statement that it asserts.
AssertionsHold ==
  \A t \in created :
    LET c == Context(t)
        r == tx[t]
        f == front[t]
        served == phase[c] = "loop" /\ ~ killed[c]
    IN
    /\ served /\ t \in ToSet(tasks[c]) =>
         IF Usable(t) THEN r.next = "Idle" /\ r.requested \in BackendStates
                      ELSE r.next # "End" => r.frontend
    /\ t \in ToSet(callbacks[c]) /\ Usable(t) =>
         f.next = "Idle" /\ f.requested \in FrontendStates
    /\ running[c] = t =>
         /\ ~ AtRest(r.next) /\ r.frontend
         /\ r.next # "AcquireLock" => r.lockAcquired
         /\ r.next = "OpenTransactionAndPreflight" => r.sqlite = "none"
         /\ r.next = "PostflightAndCommit" => r.sqlite # "none"
         /\ r.next = "CleanupAndTerminate" => r.sqlite \in {"none", "committed"}
    /\ f.next = "DeliverStatementCallback" => r.current # "none"
    /\ f.next = "DeliverQuotaIncreaseCallback" => ~ r.retry /\ r.current # "none"

\* Whatever interrupts a transaction, what it holds is given back: the origin
\* lock and the coordinator's lock belong to transactions that are still to be
\* cleaned up, and a database thread that has ended leaves no transaction with
\* its reference cycle, an SQLite transaction or the origin lock.
NothingLeaked ==
  /\ originLock # None => tx[originLock].frontend /\ tx[originLock].lockAcquired
  /\ \A c \in Contexts :
       /\ phase[c] = "loop" =>
            \A t \in info[c].activeWrite \cup info[c].activeReads : tx[t].frontend
       /\ phase[c] = "finished" =>
            \A t \in created \cap TransactionsOf(c) :
              ~ tx[t].frontend /\ tx[t].sqlite = "none" /\ originLock # t

\* Of the transactions that are ever run, every one is cleaned up in the end:
\* none waits for ever behind others, for its lock, for the origin lock or for an answer of the other
\* side, whatever is closed, interrupted or stopped meanwhile.
EveryTransactionEnds == <>[](\A t \in created : ~ tx[t].frontend)

\* A database thread that is asked to terminate does so: its worker waits for
\* that in WorkerThreadShutdownStartTask.
ThreadEnds == \A c \in Contexts : killed[c] ~> phase[c] = "finished"

\* The main thread gets back from markAsDeletedAndClose().
DeletionReturns == deleting # None ~> deleting = None

\* removeIf() deletes tasks that are not performed, and that deletion cleans up
\* their transactions (phase 2 of the life-cycle described at the top of
\* SQLTransactionBackend.cpp); the thread gets through it.
CleanupOfTasksReturns == \A c \in Contexts : phase[c] # "deadlocked"
=============================================================================
