----------------------------- MODULE ParallelGC -----------------------------
(***************************************************************************)
(* The parallel phases of a JavaScriptCore collection: the collecting       *)
(* thread (Heap::markRoots, Heap::copyBackingStores) and the GC threads     *)
(* (GCThread::gcThreadMain) trace the heap together with work stealing      *)
(* (SlotVisitor::drainFromShared), then evacuate blocks together            *)
(* (CopyVisitor::copyFromShared).  GCThreadSharedData starts and ends the   *)
(* phases.                                                                  *)
(*                                                                         *)
(* A step between two points where a thread gives up a lock is one action.  *)
(* A thread in `asleep' waits on the condition variable of the loop its pc  *)
(* names, until a signal, a broadcast or a spurious wakeup.                 *)
(***************************************************************************)
EXTENDS Integers, FiniteSets

CONSTANTS
    Master,          \* the thread that collects, with Heap::m_slotVisitor
    Slaves,          \* the GC threads
    Cells,           \* heap cells
    Edges,           \* the cells that visitChildren of a cell appends
    Blocks,          \* how many blocks m_blocksToCopy has
    FragmentLength,  \* s_blockFragmentLength
    MaxCollections   \* bound: collections before the heap is destroyed

ASSUME ThreadsAssumption == IsFiniteSet(Slaves) /\ Master \notin Slaves
ASSUME HeapAssumption == Edges \in [Cells -> SUBSET Cells]
ASSUME CopyAssumption == Blocks \in Nat /\ FragmentLength \in Nat \ {0}
ASSUME CollectionsAssumption == MaxCollections \in Nat

Visitors == Slaves \cup {Master}

VARIABLES
    pc,             \* where each thread is
    asleep,         \* threads blocked on a condition variable
    phase,          \* m_currentPhase
    shouldWait,     \* m_gcThreadsShouldWait
    activeThreads,  \* m_numberOfActiveGCThreads
    activeMarkers,  \* m_numberOfActiveParallelMarkers
    shouldExit,     \* m_parallelMarkersShouldExit
    marked,         \* the mark bits
    stack,          \* SlotVisitor::m_stack
    scanning,       \* children of the cell being visited, not yet appended
    shared,         \* m_sharedMarkStack
    mayDonate,      \* visitors that have reached donateKnownParallel
    unmerged,       \* visitors whose m_opaqueRoots is not empty
    roots,          \* history: cells appended by markRoots itself
    copyIndex,      \* m_copyIndex
    fragment,       \* blocks each visitor is evacuating
    loaned,         \* visitors that hold a block of CopiedSpace
    copied,         \* history: how often each block was evacuated
    collections     \* history: collections started

phaseVars == <<phase, shouldWait, activeThreads>>
markVars == <<marked, stack, scanning, shared, mayDonate, unmerged, roots>>
markerVars == <<activeMarkers, shouldExit>>
copyVars == <<copyIndex, fragment, loaned, copied>>
vars == <<pc, asleep, phaseVars, markerVars, markVars, copyVars, collections>>

(* The constructor of GCThreadSharedData has started the threads and, if     *)
(* there are any, waits for them to get to the right place.                  *)
Init ==
    /\ pc = [v \in Visitors |-> IF v = Master THEN "construct" ELSE "waitEnd"]
    /\ asleep = IF Slaves = {} THEN {} ELSE {Master}
    /\ phase = "NoPhase"
    /\ shouldWait = FALSE
    /\ activeThreads = Cardinality(Slaves)
    /\ activeMarkers = 0
    /\ shouldExit = FALSE
    /\ marked = {}
    /\ stack = [v \in Visitors |-> {}]
    /\ scanning = [v \in Visitors |-> {}]
    /\ shared = {}
    /\ mayDonate = {}
    /\ unmerged = {}
    /\ roots = {}
    /\ copyIndex = 0
    /\ fragment = [v \in Visitors |-> {}]
    /\ loaned = {}
    /\ copied = [b \in 1 .. Blocks |-> 0]
    /\ collections = 0

(* The condition variables, by the loops that wait on them.                  *)
PhaseCondition == {"waitEnd", "waitStart"}
ActivityCondition == {"construct", "endMark", "endCopy"}
MarkingCondition == {"wait", "masterWait"}
LoanedBlocksCondition == {"loan"}

(* Sleeping(condition) are the threads a broadcast of condition leaves asleep*)
Runs(v, at) == pc[v] = at /\ v \notin asleep
GoTo(v, at) == pc' = [pc EXCEPT ![v] = at]
Sleep(v) == asleep' = asleep \cup {v} /\ UNCHANGED pc
Sleeping(condition) == {v \in asleep : pc[v] \notin condition}
Wake(condition) == asleep' = Sleeping(condition)

SpuriousWakeup(v) ==
    /\ v \in asleep
    /\ asleep' = asleep \ {v}
    /\ UNCHANGED <<pc, phaseVars, markerVars, markVars, copyVars, collections>>

-----------------------------------------------------------------------------
(* GCThread::waitForNextPhase(): the first loop, then the decrement, the     *)
(* signal and the first test of the second loop under the same lock.         *)
LeavePhase(s) ==
    /\ Runs(s, "waitEnd")
    /\ \/ /\ shouldWait
          /\ Sleep(s)
          /\ UNCHANGED activeThreads
       \/ /\ ~shouldWait
          /\ activeThreads' = activeThreads - 1
          /\ GoTo(s, "waitStart")
          /\ asleep' = Sleeping(IF activeThreads = 1 THEN ActivityCondition ELSE {})
                           \cup (IF phase = "NoPhase" THEN {s} ELSE {})
    /\ UNCHANGED <<phase, shouldWait, markerVars, markVars, copyVars, collections>>

(* The second loop, and the branch of gcThreadMain() for the new phase.      *)
BranchOf(p) == CASE p = "Mark" -> "enter" [] p = "Copy" -> "copy" [] OTHER -> "exited"

EnterPhase(s) ==
    /\ Runs(s, "waitStart")
    /\ \/ /\ phase = "NoPhase"
          /\ Sleep(s)
          /\ UNCHANGED activeThreads
       \/ /\ phase # "NoPhase"
          /\ activeThreads' = activeThreads + 1
          /\ GoTo(s, BranchOf(phase))
          /\ UNCHANGED asleep
    /\ UNCHANGED <<phase, shouldWait, markerVars, markVars, copyVars, collections>>

-----------------------------------------------------------------------------
(* GCThreadSharedData, on the collecting thread.                             *)

startNextPhase(p) ==
    /\ phase' = p
    /\ shouldWait' = TRUE
    /\ Wake(PhaseCondition)

(* A mutant of clearMarks. *)
KeepMarks == UNCHANGED marked

clearMarks == marked' = {}

(* clearMarks() and didStartMarking().                                       *)
didStartMarking ==
    /\ Runs(Master, "idle")
    /\ collections < MaxCollections
    /\ collections' = collections + 1
    /\ clearMarks
    /\ roots' = {}
    /\ shouldExit' = FALSE
    /\ startNextPhase("Mark")
    /\ GoTo(Master, "roots")
    /\ UNCHANGED <<activeThreads, activeMarkers, stack, scanning, shared, mayDonate, unmerged, copyVars>>

(* didFinishMarking() up to endCurrentPhase().                               *)
didFinishMarking ==
    /\ Runs(Master, "finish")
    /\ shouldExit' = TRUE
    /\ Wake(MarkingCondition)
    /\ GoTo(Master, "endMarkPhase")
    /\ UNCHANGED <<phaseVars, activeMarkers, markVars, copyVars, collections>>

(* endCurrentPhase() up to the first test of its loop.                       *)
endCurrentPhase(at, next) ==
    /\ Runs(Master, at)
    /\ phase' = "NoPhase"
    /\ shouldWait' = FALSE
    /\ asleep' = Sleeping(PhaseCondition) \cup (IF activeThreads = 0 THEN {} ELSE {Master})
    /\ GoTo(Master, next)
    /\ UNCHANGED <<activeThreads, markerVars, markVars, copyVars, collections>>

(* A mutant of AwaitThreads. *)
AwaitOnce(at, next) ==
    /\ Runs(Master, at)
    /\ \/ activeThreads # 0 /\ Sleep(Master)
       \/ activeThreads >= 0 /\ GoTo(Master, next) /\ UNCHANGED asleep
    /\ UNCHANGED <<phaseVars, markerVars, markVars, copyVars, collections>>

(* The loop of endCurrentPhase() and of the constructor.                     *)
AwaitThreads(at, next) ==
    /\ Runs(Master, at)
    /\ \/ activeThreads # 0 /\ Sleep(Master)
       \/ activeThreads = 0 /\ GoTo(Master, next) /\ UNCHANGED asleep
    /\ UNCHANGED <<phaseVars, markerVars, markVars, copyVars, collections>>

(* copyBackingStores(): didStartCopying() with its startCopying() calls for  *)
(* the GC threads, if CopiedSpace asks for a copying phase.                  *)
didStartCopying ==
    /\ Runs(Master, "collected")
    /\ copyIndex' = 0
    /\ copied' = [b \in 1 .. Blocks |-> 0]
    /\ loaned' = Slaves
    /\ startNextPhase("Copy")
    /\ GoTo(Master, "startCopying")
    /\ UNCHANGED <<activeThreads, markerVars, markVars, fragment, collections>>

SkipCopying ==
    /\ Runs(Master, "collected")
    /\ GoTo(Master, "idle")
    /\ UNCHANGED <<asleep, phaseVars, markerVars, markVars, copyVars, collections>>

(* ~GCThreadSharedData(): tell the threads to exit and join them.            *)
Destroy ==
    /\ Runs(Master, "idle")
    /\ shouldExit' = TRUE
    /\ shouldWait' = FALSE
    /\ phase' = "Exit"
    /\ Wake(PhaseCondition)
    /\ GoTo(Master, "join")
    /\ UNCHANGED <<activeThreads, activeMarkers, markVars, copyVars, collections>>

Join ==
    /\ Runs(Master, "join")
    /\ \A s \in Slaves : pc[s] = "exited"
    /\ GoTo(Master, "exited")
    /\ UNCHANGED <<asleep, phaseVars, markerVars, markVars, copyVars, collections>>

-----------------------------------------------------------------------------
(* Marking.                                                                  *)

(* internalAppend(): testAndSetMarked(), and push if that marked the cell.   *)
internalAppend(v, cells) ==
    /\ marked' = marked \cup cells
    /\ stack' = [stack EXCEPT ![v] = @ \cup (cells \ marked)]

(* markRoots() appends the roots of one kind and calls donateAndDrain() ...  *)
AppendRoots ==
    /\ Runs(Master, "roots")
    /\ \E cells \in SUBSET Cells :
           /\ ~(cells \subseteq roots)
           /\ roots' = roots \cup cells
           /\ internalAppend(Master, cells)
    /\ mayDonate' = mayDonate \cup {Master}
    /\ GoTo(Master, "rootDrain")
    /\ UNCHANGED <<asleep, phaseVars, markerVars, scanning, shared, unmerged, copyVars, collections>>

(* ... and, when there are no more kinds, drainFromShared(MasterDrain).      *)
RootsDone ==
    /\ Runs(Master, "roots")
    /\ GoTo(Master, "enter")
    /\ UNCHANGED <<asleep, phaseVars, markerVars, markVars, copyVars, collections>>

(* A mutant of VisitWeak. *)
VisitWeakOnce ==
    /\ Runs(Master, "harvest")
    /\ \E cells \in SUBSET (Cells \ marked) :
           /\ roots' = roots \cup cells
           /\ internalAppend(Master, cells)
    /\ GoTo(Master, "finish")
    /\ UNCHANGED <<mayDonate, asleep, phaseVars, markerVars, scanning, shared, unmerged, copyVars,
                   collections>>

(* visitWeakSets() and harvestWeakReferences() append what is live because   *)
(* of the rest of the heap; nothing appended ends the loop.                  *)
VisitWeak ==
    /\ Runs(Master, "harvest")
    /\ \E cells \in SUBSET (Cells \ marked) :
           /\ roots' = roots \cup cells
           /\ internalAppend(Master, cells)
           /\ IF cells = {}
              THEN GoTo(Master, "finish") /\ UNCHANGED mayDonate
              ELSE GoTo(Master, "weakDrain") /\ mayDonate' = mayDonate \cup {Master}
    /\ UNCHANGED <<asleep, phaseVars, markerVars, scanning, shared, unmerged, copyVars, collections>>

Draining == {"rootDrain", "weakDrain", "drain"}

(* drain(): take a cell and visit its children, one internalAppend() each.   *)
(* visitChildren may also add opaque roots to the visitor's own set.         *)
VisitCell(v) ==
    /\ pc[v] \in Draining
    /\ scanning[v] = {}
    /\ \E c \in stack[v] :
           /\ stack' = [stack EXCEPT ![v] = @ \ {c}]
           /\ scanning' = [scanning EXCEPT ![v] = Edges[c]]
    /\ unmerged' \in {unmerged, unmerged \cup {v}}
    /\ mayDonate' = mayDonate \cup {v}
    /\ UNCHANGED <<pc, asleep, phaseVars, markerVars, marked, shared, roots, copyVars, collections>>

VisitChild(v) ==
    /\ \E c \in scanning[v] :
           /\ scanning' = [scanning EXCEPT ![v] = @ \ {c}]
           /\ internalAppend(v, {c})
    /\ UNCHANGED <<pc, asleep, phaseVars, markerVars, shared, mayDonate, unmerged, roots, copyVars,
                   collections>>

(* donateKnownParallel(), after some visits.  The size of the shared stack   *)
(* is read without the lock, so cells may be donated to a stack that is not  *)
(* empty any more; how many depends on the segments of the stack.            *)
donateKnownParallel(v) ==
    /\ pc[v] \in Draining
    /\ scanning[v] = {}
    /\ v \in mayDonate
    /\ \E c, d \in stack[v] : c # d
    /\ \E cells \in SUBSET stack[v] :
           /\ cells # {}
           /\ stack' = [stack EXCEPT ![v] = @ \ cells]
           /\ shared' = shared \cup cells
    /\ mayDonate' = mayDonate \ {v}
    /\ Wake(IF activeMarkers < Cardinality(Visitors) THEN MarkingCondition ELSE {})
    /\ UNCHANGED <<pc, phaseVars, markerVars, marked, scanning, unmerged, roots, copyVars, collections>>

(* A mutant of mergeOpaqueRootsIfNecessary. *)
KeepOpaqueRoots(v) == UNCHANGED unmerged

mergeOpaqueRootsIfNecessary(v) == unmerged' = unmerged \ {v}

(* The end of drain().                                                       *)
DrainDone(v) ==
    /\ pc[v] \in Draining
    /\ stack[v] = {}
    /\ scanning[v] = {}
    /\ mergeOpaqueRootsIfNecessary(v)
    /\ mayDonate' = mayDonate \ {v}
    /\ GoTo(v, CASE pc[v] = "rootDrain" -> "roots" [] pc[v] = "weakDrain" -> "enter"
                  [] OTHER -> "detach")
    /\ UNCHANGED <<asleep, phaseVars, markerVars, marked, stack, scanning, shared, roots, copyVars,
                   collections>>

(* A mutant of EnterDrainFromShared. *)
EnterUncounted(v) ==
    /\ Runs(v, "enter")
    /\ activeMarkers' = activeMarkers
    /\ GoTo(v, "detach")
    /\ UNCHANGED <<asleep, phaseVars, shouldExit, markVars, copyVars, collections>>

(* drainFromShared(): become an active marker.                               *)
EnterDrainFromShared(v) ==
    /\ Runs(v, "enter")
    /\ activeMarkers' = activeMarkers + 1
    /\ GoTo(v, "detach")
    /\ UNCHANGED <<asleep, phaseVars, shouldExit, markVars, copyVars, collections>>

(* The critical section of its loop, entered from "detach" with the          *)
(* decrement, or again after a wait.  Others are the active markers then.    *)
WaitPoint(v) == IF v = Master THEN "masterWait" ELSE "wait"
InSection(v) == Runs(v, "detach") \/ Runs(v, WaitPoint(v))
Others(v) == IF pc[v] = "detach" THEN activeMarkers - 1 ELSE activeMarkers

(* A mutant of SleepingAfterDetach. *)
TellNobody(v) == asleep

(* A slave that was the last active marker tells the master.                 *)
SleepingAfterDetach(v) ==
    Sleeping(IF v # Master /\ pc[v] = "detach" /\ Others(v) = 0 /\ shared = {}
             THEN MarkingCondition ELSE {})

stealSomeCells(v) ==
    /\ InSection(v)
    /\ v # Master => ~shouldExit
    /\ \E cells \in SUBSET shared :
           /\ cells # {}
           /\ stack' = [stack EXCEPT ![v] = @ \cup cells]
           /\ shared' = shared \ cells
    /\ activeMarkers' = Others(v) + 1
    /\ GoTo(v, "drain")
    /\ UNCHANGED <<asleep, phaseVars, shouldExit, marked, scanning, mayDonate, unmerged, roots, copyVars,
                   collections>>

(* A mutant of Termination. *)
TerminationOnEmptyStack == shared = {}

Termination == shared = {} /\ Others(Master) = 0

MasterTerminates ==
    /\ InSection(Master)
    /\ Termination
    /\ activeMarkers' = 0
    /\ Wake(MarkingCondition)
    /\ GoTo(Master, "harvest")
    /\ UNCHANGED <<phaseVars, shouldExit, markVars, copyVars, collections>>

SlaveReturns(s) ==
    /\ InSection(s)
    /\ shouldExit
    /\ activeMarkers' = Others(s)
    /\ asleep' = SleepingAfterDetach(s)
    /\ GoTo(s, "waitEnd")
    /\ UNCHANGED <<phaseVars, shouldExit, markVars, copyVars, collections>>

WaitForWork(v) ==
    /\ InSection(v)
    /\ shared = {}
    /\ IF v = Master THEN Others(v) # 0 ELSE ~shouldExit
    /\ activeMarkers' = Others(v)
    /\ asleep' = SleepingAfterDetach(v) \cup {v}
    /\ GoTo(v, WaitPoint(v))
    /\ UNCHANGED <<phaseVars, shouldExit, markVars, copyVars, collections>>

-----------------------------------------------------------------------------
(* Copying.                                                                  *)

(* The collecting thread borrows its own block after the phase has started.  *)
StartCopyingMaster ==
    /\ Runs(Master, "startCopying")
    /\ loaned' = loaned \cup {Master}
    /\ GoTo(Master, "copy")
    /\ UNCHANGED <<asleep, phaseVars, markerVars, markVars, copyIndex, fragment, copied, collections>>

(* copyFromShared(): getNextBlocksToCopy() ...                               *)
EndOfFragment == IF copyIndex + FragmentLength < Blocks THEN copyIndex + FragmentLength ELSE Blocks

(* A mutant of getNextBlocksToCopy. *)
OverlappingBlocks(v) ==
    /\ Runs(v, "copy")
    /\ fragment[v] = {}
    /\ copyIndex < EndOfFragment
    /\ fragment' = [fragment EXCEPT ![v] = copyIndex + 1 .. EndOfFragment]
    /\ copyIndex' = EndOfFragment - 1
    /\ UNCHANGED <<pc, asleep, phaseVars, markerVars, markVars, loaned, copied, collections>>

getNextBlocksToCopy(v) ==
    /\ Runs(v, "copy")
    /\ fragment[v] = {}
    /\ copyIndex < EndOfFragment
    /\ fragment' = [fragment EXCEPT ![v] = copyIndex + 1 .. EndOfFragment]
    /\ copyIndex' = EndOfFragment
    /\ UNCHANGED <<pc, asleep, phaseVars, markerVars, markVars, loaned, copied, collections>>

(* ... evacuate one of them and recycle it ...                               *)
EvacuateBlock(v) ==
    /\ Runs(v, "copy")
    /\ \E b \in fragment[v] :
           /\ fragment' = [fragment EXCEPT ![v] = @ \ {b}]
           /\ copied' = [copied EXCEPT ![b] = @ + 1]
    /\ UNCHANGED <<pc, asleep, phaseVars, markerVars, markVars, copyIndex, loaned, collections>>

(* ... and doneCopying() when nothing is left.                               *)
doneCopying(v) ==
    /\ Runs(v, "copy")
    /\ fragment[v] = {}
    /\ copyIndex = Blocks
    /\ loaned' = loaned \ {v}
    /\ Wake(IF loaned = {v} THEN LoanedBlocksCondition ELSE {})
    /\ GoTo(v, IF v = Master THEN "loan" ELSE "waitEnd")
    /\ UNCHANGED <<phaseVars, markerVars, markVars, copyIndex, fragment, copied, collections>>

(* CopiedSpace::doneCopying().                                               *)
AwaitLoans ==
    /\ Runs(Master, "loan")
    /\ \/ loaned # {} /\ Sleep(Master)
       \/ loaned = {} /\ GoTo(Master, "endCopyPhase") /\ UNCHANGED asleep
    /\ UNCHANGED <<phaseVars, markerVars, markVars, copyVars, collections>>

-----------------------------------------------------------------------------
(* Steps of any visitor, of a GC thread, and of the collecting thread.       *)
VisitorStep(v) ==
    \/ VisitCell(v)
    \/ VisitChild(v)
    \/ donateKnownParallel(v)
    \/ DrainDone(v)
    \/ EnterDrainFromShared(v)
    \/ stealSomeCells(v)
    \/ WaitForWork(v)
    \/ getNextBlocksToCopy(v)
    \/ EvacuateBlock(v)
    \/ doneCopying(v)

SlaveStep(s) ==
    \/ VisitorStep(s)
    \/ LeavePhase(s)
    \/ EnterPhase(s)
    \/ SlaveReturns(s)

CollectorStep ==
    \/ VisitorStep(Master)
    \/ AwaitThreads("construct", "idle")
    \/ AppendRoots
    \/ RootsDone
    \/ MasterTerminates
    \/ VisitWeak
    \/ didFinishMarking
    \/ endCurrentPhase("endMarkPhase", "endMark")
    \/ AwaitThreads("endMark", "collected")
    \/ didStartCopying
    \/ SkipCopying
    \/ StartCopyingMaster
    \/ AwaitLoans
    \/ endCurrentPhase("endCopyPhase", "endCopy")
    \/ AwaitThreads("endCopy", "idle")
    \/ Join

Next ==
    \/ CollectorStep
    \/ didStartMarking
    \/ Destroy
    \/ \E s \in Slaves : SlaveStep(s)
    \/ \E v \in Visitors : SpuriousWakeup(v)

Spec == Init /\ [][Next]_vars

(* Every thread that can run is scheduled; the mutator need not collect.     *)
Fairness == WF_vars(CollectorStep) /\ \A s \in Slaves : WF_vars(SlaveStep(s))

FairSpec == Spec /\ Fairness

-----------------------------------------------------------------------------
(* Properties.                                                               *)

MasterPoints == {"construct", "idle", "roots", "rootDrain", "weakDrain", "enter", "detach", "drain",
    "masterWait", "harvest", "finish", "endMarkPhase", "endMark", "collected", "startCopying", "copy",
    "loan", "endCopyPhase", "endCopy", "join", "exited"}
SlavePoints == {"waitEnd", "waitStart", "enter", "detach", "drain", "wait", "copy", "exited"}

(* Every variable holds a value of the type its C++ counterpart has; the     *)
(* unsigned counters never go below zero.                                    *)
TypeOK ==
    /\ pc \in [Visitors -> MasterPoints \cup SlavePoints]
    /\ pc[Master] \in MasterPoints
    /\ \A s \in Slaves : pc[s] \in SlavePoints
    /\ asleep \subseteq Visitors
    /\ phase \in {"NoPhase", "Mark", "Copy", "Exit"}
    /\ shouldWait \in BOOLEAN
    /\ activeThreads \in Nat
    /\ activeMarkers \in Nat
    /\ shouldExit \in BOOLEAN
    /\ marked \subseteq Cells
    /\ stack \in [Visitors -> SUBSET Cells]
    /\ scanning \in [Visitors -> SUBSET Cells]
    /\ shared \subseteq Cells
    /\ mayDonate \subseteq Visitors
    /\ unmerged \subseteq Visitors
    /\ roots \subseteq Cells
    /\ copyIndex \in 0 .. Blocks
    /\ fragment \in [Visitors -> SUBSET (1 .. Blocks)]
    /\ loaned \subseteq Visitors
    /\ copied \in [1 .. Blocks -> Nat]
    /\ collections \in 0 .. MaxCollections

(* The collecting thread has returned from the last drainFromShared() and    *)
(* decides, or has decided, that marking is over.                            *)
MarkingOver == {"harvest", "finish", "endMarkPhase", "endMark", "collected", "startCopying", "copy",
    "loan", "endCopyPhase", "endCopy", "idle"}

ClosedUnderEdges(cells) == \A c \in cells : Edges[c] \subseteq cells

(* When drainFromShared(MasterDrain) returns, and until the next collection, *)
(* every cell reachable from the roots is marked: no GC thread still holds   *)
(* or can still produce work.                                                *)
AllReachableMarked ==
    pc[Master] \in MarkingOver => roots \subseteq marked /\ ClosedUnderEdges(marked)

(* Marking marks nothing else: marked is inside every set of cells that      *)
(* contains the roots and is closed under edges.                             *)
OnlyReachableMarked ==
    \A cells \in SUBSET Cells : roots \subseteq cells /\ ClosedUnderEdges(cells) => marked \subseteq cells

(* Weak handles are judged with the complete set of opaque roots: the        *)
(* assertion of containsOpaqueRoot(), for the sets of all threads.           *)
OpaqueRootsMerged == pc[Master] \in MarkingOver => unmerged = {}

(* No GC thread runs a phase while the mutator runs or between two phases,   *)
(* so slotVisitor()->reset() and the next startNextPhase() are safe.         *)
MutatorRunsAlone ==
    pc[Master] \in {"idle", "collected"} =>
        \A s \in Slaves : pc[s] = "waitStart" /\ stack[s] = {} /\ scanning[s] = {}

(* At the end of the copying phase every block was evacuated exactly once.   *)
EveryBlockCopiedOnce ==
    /\ \A b \in 1 .. Blocks : copied[b] <= 1
    /\ pc[Master] \in {"endCopyPhase", "endCopy"} => \A b \in 1 .. Blocks : copied[b] = 1

(* The points of the collecting thread at which the heap is being traced.    *)
Tracing == {"roots", "rootDrain", "weakDrain", "enter", "detach", "drain", "masterWait"}

(* A collection as the rest of the program sees it.                          *)
CollectorState ==
    CASE pc[Master] = "construct" -> "constructing"
      [] pc[Master] = "idle" -> "mutator"
      [] pc[Master] \in Tracing -> "tracing"
      [] pc[Master] = "harvest" -> "traced"
      [] pc[Master] \in {"join", "exited"} -> "destroyed"
      [] OTHER -> "decided"
KnownLive == IF pc[Master] \in MarkingOver THEN marked ELSE {}

AtomicCollection == INSTANCE Collection WITH state <- CollectorState, live <- KnownLive

(* The threads of markRoots() together implement a collection that traces    *)
(* the heap in one step: drainFromShared(MasterDrain) returns with exactly   *)
(* what the roots reach, what weak handles add is traced before the loop of  *)
(* harvestWeakReferences() ends, and no thread marks a cell after that,      *)
(* while blocks are copied and the mutator runs, until the next collection.  *)
CollectionIsAtomic == AtomicCollection!Spec

(* A collection that starts finishes, and the destructor can join every      *)
(* thread: no wakeup is lost and no thread waits for ever.                   *)
CollectionFinishes == pc[Master] \notin {"idle", "exited"} ~> pc[Master] \in {"idle", "exited"}
=============================================================================
