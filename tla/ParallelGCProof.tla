-------------------------- MODULE ParallelGCProof ---------------------------
(***************************************************************************)
(* Proofs about ParallelGC, for any number of GC threads, any heap and any  *)
(* number of blocks.                                                        *)
(***************************************************************************)
EXTENDS ParallelGC, FiniteSetTheorems, TLAPS

(* The counters count the threads they are meant to count.                   *)
ActiveMarkers == {v \in Visitors : pc[v] \in {"detach", "drain"}}
ActiveThreads == {s \in Slaves : pc[s] # "waitStart"}
Counted ==
    /\ activeMarkers = Cardinality(ActiveMarkers)
    /\ activeThreads = Cardinality(ActiveThreads)

(* A visitor has work, or opaque roots of its own, only while it drains.     *)
WorkWhileDraining ==
    \A v \in Visitors : pc[v] \notin Draining =>
        stack[v] = {} /\ scanning[v] = {} /\ v \notin unmerged

(* Outside the tracing part of markRoots() no work is left anywhere.         *)
NoWorkLeft ==
    pc[Master] \notin Tracing => shared = {} /\ \A v \in Visitors : pc[v] \notin Draining

(* Cells with work to do are marked; a marked cell without has only children *)
(* that are marked or about to be appended.                                  *)
WorkIsMarked ==
    roots \subseteq marked /\ shared \subseteq marked /\ \A v \in Visitors : stack[v] \subseteq marked
HasWork(x) == x \in shared \/ \E v \in Visitors : x \in stack[v]
Tricolour ==
    \A x \in marked : HasWork(x) \/
        \A y \in Edges[x] : y \in marked \/ \E v \in Visitors : y \in scanning[v]

(* Only cells in every closed set around the roots are marked or scanned.    *)
InsideClosedSets ==
    \A cells \in SUBSET Cells : roots \subseteq cells /\ ClosedUnderEdges(cells) =>
        marked \subseteq cells /\ \A v \in Visitors : scanning[v] \subseteq cells

(* Where the collecting thread is when no phase is on, and the threads then. *)
BetweenPhases ==
    /\ pc[Master] \in {"construct", "idle", "endMark", "collected", "endCopy"} => phase = "NoPhase"
    /\ pc[Master] \in {"startCopying", "copy", "loan", "endCopyPhase"} => phase = "Copy"
    /\ pc[Master] \in Tracing \cup {"harvest", "finish", "endMarkPhase"} => phase = "Mark"
    /\ pc[Master] \in {"join", "exited"} => phase = "Exit"
    /\ shouldWait <=> phase \in {"Mark", "Copy"}
    /\ pc[Master] \in {"idle", "collected"} => \A s \in Slaves : pc[s] = "waitStart"

(* The blocks handed out are those below the index; each is being evacuated  *)
(* by one visitor or was evacuated once.                                     *)
BlocksHandedOut ==
    /\ \A v \in Visitors : \A x \in fragment[v] : x <= copyIndex /\ copied[x] = 0
    /\ \A v, w \in Visitors : v # w => fragment[v] \cap fragment[w] = {}
    /\ \A x \in 1 .. Blocks : copied[x] = IF x <= copyIndex /\ \A v \in Visitors : x \notin fragment[v]
                                          THEN 1 ELSE 0

(* A thread that copies, or will, holds a loaned block until it is done.     *)
CopyingThreadsBorrow ==
    /\ \A v \in Visitors : pc[v] # "copy" => fragment[v] = {}
    /\ \A v \in Visitors : pc[v] = "copy" => v \in loaned /\ phase = "Copy"
    /\ phase = "Copy" => \A s \in Slaves : pc[s] = "waitStart" => s \in loaned
    /\ pc[Master] \in {"endCopyPhase"} => loaned = {}
    /\ pc[Master] \in {"loan", "endCopyPhase", "endCopy"} => copyIndex = Blocks
-----------------------------------------------------------------------------
(* Counting.                                                                 *)

(* The visitors are the GC threads and the collecting thread.                *)
LEMMA VisitorsFinite == IsFiniteSet(Visitors)
  BY ThreadsAssumption, FS_AddElement DEF Visitors

(* Adding a new element to a finite set, or removing one, changes its        *)
(* cardinality by one.                                                       *)
LEMMA CountOneMore ==
    ASSUME NEW S, IsFiniteSet(S), NEW x, x \notin S
    PROVE  Cardinality(S \cup {x}) = Cardinality(S) + 1
  BY FS_AddElement

LEMMA CountOneLess ==
    ASSUME NEW S, IsFiniteSet(S), NEW x \in S
    PROVE  Cardinality(S) \in Nat \ {0} /\ Cardinality(S \ {x}) = Cardinality(S) - 1
  BY FS_RemoveElement, FS_EmptySet, FS_CardinalityType

(* The sets that the counters count are finite.                              *)
LEMMA CountsAreFinite ==
    /\ IsFiniteSet(ActiveMarkers) /\ Cardinality(ActiveMarkers) \in Nat
    /\ IsFiniteSet(ActiveThreads) /\ Cardinality(ActiveThreads) \in Nat
    BY VisitorsFinite, ThreadsAssumption, FS_Subset, FS_CardinalityType DEF ActiveMarkers,
     ActiveThreads

(* The constructor of GCThreadSharedData establishes types and counters.     *)
LEMMA InitType == Init => TypeOK /\ Counted
<1> SUFFICES ASSUME Init PROVE TypeOK /\ Counted  OBVIOUS
<1> USE DEF Init
<1>1. Cardinality(Slaves) \in Nat
  BY ThreadsAssumption, FS_CardinalityType
<1>2. pc \in [Visitors -> MasterPoints \cup SlavePoints]
  BY DEF MasterPoints, SlavePoints
<1>3. pc[Master] \in MasterPoints /\ \A s \in Slaves : pc[s] \in SlavePoints
  BY ThreadsAssumption DEF Visitors, MasterPoints, SlavePoints
<1>4. asleep \subseteq Visitors
  BY DEF Visitors
<1>5. copyIndex \in 0 .. Blocks /\ collections \in 0 .. MaxCollections /\ copied \in [1 .. Blocks -> Nat]
  BY CopyAssumption, CollectionsAssumption
<1>6. TypeOK
  BY <1>1, <1>2, <1>3, <1>4, <1>5 DEF TypeOK
<1>7. ActiveMarkers = {} /\ ActiveThreads = Slaves
  BY ThreadsAssumption DEF ActiveMarkers, ActiveThreads, Visitors
<1>8. QED
  BY <1>6, <1>7, FS_EmptySet DEF Counted
(* A thread that is counted makes its counter positive, so that a decrement  *)
(* of the unsigned counter does not wrap.                                    *)
LEMMA CountersPositive ==
    ASSUME TypeOK, Counted
    PROVE  /\ \A v \in Visitors : pc[v] \in {"detach", "drain"} => activeMarkers > 0
           /\ \A s \in Slaves : pc[s] # "waitStart" => activeThreads > 0
<1>1. ASSUME NEW v \in Visitors, pc[v] \in {"detach", "drain"} PROVE activeMarkers > 0
  <2>1. v \in ActiveMarkers
    BY <1>1 DEF ActiveMarkers
  <2>2. Cardinality(ActiveMarkers) \in Nat \ {0}
    BY <2>1, CountsAreFinite, CountOneLess
  <2>3. QED
    BY <2>2 DEF Counted
<1>2. ASSUME NEW s \in Slaves, pc[s] # "waitStart" PROVE activeThreads > 0
  <2>1. s \in ActiveThreads
    BY <1>2 DEF ActiveThreads
  <2>2. Cardinality(ActiveThreads) \in Nat \ {0}
    BY <2>1, CountsAreFinite, CountOneLess
  <2>3. QED
    BY <2>2 DEF Counted
<1>3. QED
  BY <1>1, <1>2

(* Every step keeps the types.                                               *)
LEMMA TypeStep == TypeOK /\ Counted /\ Next => TypeOK'
<1> SUFFICES ASSUME TypeOK, Counted, Next PROVE TypeOK'
  OBVIOUS
<1> USE ThreadsAssumption, HeapAssumption, CopyAssumption
    DEF TypeOK, phaseVars, markVars, markerVars, copyVars, Runs, GoTo, Sleep, Wake, Sleeping,
        MasterPoints, SlavePoints, Visitors
<1>1. ASSUME NEW v \in Visitors, VisitCell(v) PROVE TypeOK'
  BY <1>1 DEF VisitCell
<1>2. ASSUME NEW v \in Visitors, VisitChild(v) PROVE TypeOK'
  BY <1>2 DEF VisitChild, internalAppend
<1>3. ASSUME NEW v \in Visitors, donateKnownParallel(v) PROVE TypeOK'
  BY <1>3 DEF donateKnownParallel
<1>4. ASSUME NEW v \in Visitors, DrainDone(v) PROVE TypeOK'
  BY <1>4 DEF DrainDone, mergeOpaqueRootsIfNecessary
<1>5. ASSUME NEW v \in Visitors, EnterDrainFromShared(v) PROVE TypeOK'
  BY <1>5 DEF EnterDrainFromShared
<1>6. ASSUME NEW v \in Visitors, stealSomeCells(v) PROVE TypeOK'
  BY <1>6 DEF stealSomeCells, InSection, WaitPoint, Others
<1>7. ASSUME NEW v \in Visitors, WaitForWork(v) PROVE TypeOK'
  <2>1. asleep' \subseteq Visitors /\ activeMarkers' \in Nat /\ activeThreads' \in Nat
    BY <1>7, CountersPositive DEF WaitForWork, InSection, WaitPoint, Others, SleepingAfterDetach
  <2>2. QED
    BY <1>7, <2>1 DEF WaitForWork, InSection, WaitPoint, Others, SleepingAfterDetach
<1>8. ASSUME NEW v \in Visitors, getNextBlocksToCopy(v) PROVE TypeOK'
  BY <1>8 DEF getNextBlocksToCopy, EndOfFragment
<1>9. ASSUME NEW v \in Visitors, EvacuateBlock(v) PROVE TypeOK'
  BY <1>9 DEF EvacuateBlock
<1>10. ASSUME NEW v \in Visitors, doneCopying(v) PROVE TypeOK'
  BY <1>10 DEF doneCopying
<1>11. ASSUME NEW v \in Visitors, SpuriousWakeup(v) PROVE TypeOK'
  BY <1>11 DEF SpuriousWakeup
<1>12. ASSUME NEW s \in Slaves, LeavePhase(s) PROVE TypeOK'
  <2>1. asleep' \subseteq Visitors /\ activeMarkers' \in Nat /\ activeThreads' \in Nat
    BY <1>12, CountersPositive DEF LeavePhase
  <2>2. QED
    BY <1>12, <2>1 DEF LeavePhase
<1>13. ASSUME NEW s \in Slaves, EnterPhase(s) PROVE TypeOK'
  BY <1>13, SMTT(30) DEF EnterPhase, BranchOf
<1>14. ASSUME NEW s \in Slaves, SlaveReturns(s) PROVE TypeOK'
  <2>1. asleep' \subseteq Visitors /\ activeMarkers' \in Nat /\ activeThreads' \in Nat
    BY <1>14, CountersPositive DEF SlaveReturns, InSection, WaitPoint, Others, SleepingAfterDetach
  <2>2. QED
    BY <1>14, <2>1 DEF SlaveReturns, InSection, WaitPoint, Others, SleepingAfterDetach
<1>15. ASSUME AwaitThreads("construct", "idle") PROVE TypeOK'
  BY <1>15 DEF AwaitThreads
<1>16. ASSUME AppendRoots PROVE TypeOK'
  BY <1>16 DEF AppendRoots, internalAppend
<1>17. ASSUME RootsDone PROVE TypeOK'
  BY <1>17 DEF RootsDone
<1>18. ASSUME MasterTerminates PROVE TypeOK'
  BY <1>18 DEF MasterTerminates, Termination, InSection, WaitPoint, Others
<1>19. ASSUME VisitWeak PROVE TypeOK'
  <2>1. PICK cells \in SUBSET (Cells \ marked) : VisitWeak!2!(cells)
    BY <1>19 DEF VisitWeak
  <2>2. pc' \in [Visitors -> MasterPoints \cup SlavePoints] /\ pc'[Master] \in MasterPoints
        /\ (\A s \in Slaves : pc'[s] \in SlavePoints) /\ mayDonate' \subseteq Visitors
    BY <2>1
  <2>3. QED
    BY <1>19, <2>1, <2>2 DEF VisitWeak, internalAppend
<1>20. ASSUME didFinishMarking PROVE TypeOK'
  BY <1>20 DEF didFinishMarking
<1>21. ASSUME endCurrentPhase("endMarkPhase", "endMark") PROVE TypeOK'
  BY <1>21 DEF endCurrentPhase
<1>22. ASSUME AwaitThreads("endMark", "collected") PROVE TypeOK'
  BY <1>22 DEF AwaitThreads
<1>23. ASSUME didStartCopying PROVE TypeOK'
  BY <1>23 DEF didStartCopying, startNextPhase
<1>24. ASSUME SkipCopying PROVE TypeOK'
  BY <1>24 DEF SkipCopying
<1>25. ASSUME StartCopyingMaster PROVE TypeOK'
  BY <1>25 DEF StartCopyingMaster
<1>26. ASSUME AwaitLoans PROVE TypeOK'
  BY <1>26 DEF AwaitLoans
<1>27. ASSUME endCurrentPhase("endCopyPhase", "endCopy") PROVE TypeOK'
  BY <1>27 DEF endCurrentPhase
<1>28. ASSUME AwaitThreads("endCopy", "idle") PROVE TypeOK'
  BY <1>28 DEF AwaitThreads
<1>29. ASSUME Join PROVE TypeOK'
  BY <1>29 DEF Join
<1>30. ASSUME didStartMarking PROVE TypeOK'
  <2>1. collections' \in 0 .. MaxCollections
    BY <1>30, CollectionsAssumption DEF didStartMarking, clearMarks
  <2>2. QED
    BY <1>30, <2>1 DEF didStartMarking, clearMarks, startNextPhase
<1>31. ASSUME Destroy PROVE TypeOK'
  BY <1>31 DEF Destroy
<1>32. QED
    BY <1>1, <1>2, <1>3, <1>4, <1>5, <1>6, <1>7, <1>8, <1>9, <1>10, <1>11, <1>12, <1>13, <1>14,
     <1>15, <1>16, <1>17, <1>18, <1>19, <1>20, <1>21, <1>22, <1>23, <1>24, <1>25, <1>26, <1>27,
     <1>28, <1>29, <1>30, <1>31
     DEF Next, CollectorStep, SlaveStep, VisitorStep, Visitors

(* Every step keeps the counters equal to the number of threads they count.  *)
LEMMA CountedStep == TypeOK /\ Counted /\ Next => Counted'
<1> SUFFICES ASSUME TypeOK, Counted, Next PROVE Counted'
  OBVIOUS
<1> USE ThreadsAssumption DEF TypeOK, phaseVars, markVars, markerVars, copyVars, Runs, GoTo, Sleep
<1> DEFINE Same == /\ ActiveMarkers' = ActiveMarkers /\ activeMarkers' = activeMarkers
                   /\ ActiveThreads' = ActiveThreads /\ activeThreads' = activeThreads
<1>0. Same => Counted'
  BY DEF Counted
<1>1. ASSUME NEW v \in Visitors, VisitCell(v) PROVE Counted'
  <2>1. Same
    BY <1>1 DEF VisitCell, ActiveMarkers, ActiveThreads, Visitors
  <2>2. QED
    BY <1>0, <2>1
<1>2. ASSUME NEW v \in Visitors, VisitChild(v) PROVE Counted'
  <2>1. Same
    BY <1>2 DEF VisitChild, internalAppend, ActiveMarkers, ActiveThreads, Visitors
  <2>2. QED
    BY <1>0, <2>1
<1>3. ASSUME NEW v \in Visitors, donateKnownParallel(v) PROVE Counted'
  <2>1. Same
    BY <1>3 DEF donateKnownParallel, ActiveMarkers, ActiveThreads, Visitors
  <2>2. QED
    BY <1>0, <2>1
<1>4. ASSUME NEW v \in Visitors, DrainDone(v) PROVE Counted'
  <2>1. Same
    BY <1>4 DEF DrainDone, mergeOpaqueRootsIfNecessary, ActiveMarkers, ActiveThreads, Visitors, Draining
  <2>2. QED
    BY <1>0, <2>1
<1>5. ASSUME NEW v \in Visitors, EnterDrainFromShared(v) PROVE Counted'
  <2>1. v \notin ActiveMarkers /\ ActiveMarkers' = ActiveMarkers \cup {v}
    BY <1>5 DEF EnterDrainFromShared, ActiveMarkers
  <2>2. ActiveThreads' = ActiveThreads /\ activeThreads' = activeThreads
    BY <1>5 DEF EnterDrainFromShared, ActiveThreads, Visitors
  <2>3. QED
    BY <1>5, <2>1, <2>2, CountsAreFinite, CountOneMore DEF EnterDrainFromShared, Counted
<1>6. ASSUME NEW v \in Visitors, stealSomeCells(v) PROVE Counted'
  <2>1. ActiveMarkers' = ActiveMarkers \cup {v}
    BY <1>6 DEF stealSomeCells, ActiveMarkers
  <2>2. v \in ActiveMarkers <=> pc[v] = "detach"
    BY <1>6 DEF stealSomeCells, InSection, WaitPoint, ActiveMarkers
  <2>3. activeMarkers' = IF v \in ActiveMarkers THEN activeMarkers ELSE activeMarkers + 1
    BY <1>6, <2>2 DEF stealSomeCells, Others
  <2>4. ActiveThreads' = ActiveThreads /\ activeThreads' = activeThreads
    BY <1>6 DEF stealSomeCells, InSection, WaitPoint, ActiveThreads, Visitors
  <2>5. CASE v \in ActiveMarkers
    <3>1. ActiveMarkers' = ActiveMarkers
      BY <2>1, <2>5
    <3>2. QED
      BY <3>1, <2>3, <2>4, <2>5 DEF Counted
  <2>6. CASE v \notin ActiveMarkers
    BY <2>1, <2>3, <2>4, <2>6, CountsAreFinite, CountOneMore DEF Counted
  <2>7. QED
    BY <2>5, <2>6
<1>7. ASSUME NEW v \in Visitors, WaitForWork(v) PROVE Counted'
  <2>1. ActiveMarkers' = ActiveMarkers \ {v}
    BY <1>7 DEF WaitForWork, InSection, WaitPoint, ActiveMarkers, Visitors
  <2>2. v \in ActiveMarkers <=> pc[v] = "detach"
    BY <1>7 DEF WaitForWork, InSection, WaitPoint, ActiveMarkers, Visitors
  <2>3. activeMarkers' = IF v \in ActiveMarkers THEN activeMarkers - 1 ELSE activeMarkers
    BY <1>7, <2>2 DEF WaitForWork, Others
  <2>4. ActiveThreads' = ActiveThreads /\ activeThreads' = activeThreads
    BY <1>7 DEF WaitForWork, InSection, WaitPoint, ActiveThreads, Visitors
  <2>5. CASE v \in ActiveMarkers
    BY <2>1, <2>3, <2>4, <2>5, CountsAreFinite, CountOneLess DEF Counted
  <2>6. CASE v \notin ActiveMarkers
    <3>1. ActiveMarkers' = ActiveMarkers
      BY <2>1, <2>6
    <3>2. QED
      BY <3>1, <2>3, <2>4, <2>6 DEF Counted
  <2>7. QED
    BY <2>5, <2>6
<1>8. ASSUME NEW v \in Visitors, getNextBlocksToCopy(v) PROVE Counted'
  <2>1. Same
    BY <1>8 DEF getNextBlocksToCopy, EndOfFragment, ActiveMarkers, ActiveThreads, Visitors
  <2>2. QED
    BY <1>0, <2>1
<1>9. ASSUME NEW v \in Visitors, EvacuateBlock(v) PROVE Counted'
  <2>1. Same
    BY <1>9 DEF EvacuateBlock, ActiveMarkers, ActiveThreads, Visitors
  <2>2. QED
    BY <1>0, <2>1
<1>10. ASSUME NEW v \in Visitors, doneCopying(v) PROVE Counted'
  <2>1. Same
    BY <1>10 DEF doneCopying, ActiveMarkers, ActiveThreads, Visitors
  <2>2. QED
    BY <1>0, <2>1
<1>11. ASSUME NEW v \in Visitors, SpuriousWakeup(v) PROVE Counted'
  <2>1. Same
    BY <1>11 DEF SpuriousWakeup, ActiveMarkers, ActiveThreads, Visitors
  <2>2. QED
    BY <1>0, <2>1
<1>12. ASSUME NEW s \in Slaves, LeavePhase(s) PROVE Counted'
  <2>1. ActiveMarkers' = ActiveMarkers /\ activeMarkers' = activeMarkers
    BY <1>12 DEF LeavePhase, ActiveMarkers, Visitors
  <2>2. CASE shouldWait
    BY <1>12, <2>1, <2>2 DEF LeavePhase, Counted, ActiveThreads
  <2>3. CASE ~shouldWait
    <3>1. s \in ActiveThreads /\ ActiveThreads' = ActiveThreads \ {s}
      BY <1>12, <2>3 DEF LeavePhase, ActiveThreads, Visitors
    <3>2. QED
      BY <1>12, <2>1, <2>3, <3>1, CountsAreFinite, CountOneLess DEF LeavePhase, Counted
  <2>4. QED
    BY <2>2, <2>3
<1>13. ASSUME NEW s \in Slaves, EnterPhase(s) PROVE Counted'
  <2>1. ActiveMarkers' = ActiveMarkers /\ activeMarkers' = activeMarkers
    BY <1>13 DEF EnterPhase, BranchOf, ActiveMarkers, Visitors
  <2>2. CASE phase = "NoPhase"
    BY <1>13, <2>1, <2>2 DEF EnterPhase, Counted, ActiveThreads
  <2>3. CASE phase # "NoPhase"
    <3>1. s \notin ActiveThreads /\ ActiveThreads' = ActiveThreads \cup {s}
      BY <1>13, <2>3 DEF EnterPhase, BranchOf, ActiveThreads, Visitors
    <3>2. QED
      BY <1>13, <2>1, <2>3, <3>1, CountsAreFinite, CountOneMore DEF EnterPhase, Counted
  <2>4. QED
    BY <2>2, <2>3
<1>14. ASSUME NEW s \in Slaves, SlaveReturns(s) PROVE Counted'
  <2>1. ActiveMarkers' = ActiveMarkers \ {s}
    BY <1>14 DEF SlaveReturns, InSection, WaitPoint, ActiveMarkers, Visitors
  <2>2. s \in ActiveMarkers <=> pc[s] = "detach"
    BY <1>14 DEF SlaveReturns, InSection, WaitPoint, ActiveMarkers, Visitors
  <2>3. activeMarkers' = IF s \in ActiveMarkers THEN activeMarkers - 1 ELSE activeMarkers
    BY <1>14, <2>2 DEF SlaveReturns, Others
  <2>4. ActiveThreads' = ActiveThreads /\ activeThreads' = activeThreads
    BY <1>14 DEF SlaveReturns, InSection, WaitPoint, ActiveThreads, Visitors
  <2>5. CASE s \in ActiveMarkers
    BY <2>1, <2>3, <2>4, <2>5, CountsAreFinite, CountOneLess DEF Counted
  <2>6. CASE s \notin ActiveMarkers
    <3>1. ActiveMarkers' = ActiveMarkers
      BY <2>1, <2>6
    <3>2. QED
      BY <3>1, <2>3, <2>4, <2>6 DEF Counted
  <2>7. QED
    BY <2>5, <2>6
<1>15. ASSUME AwaitThreads("construct", "idle") PROVE Counted'
  <2>1. Same
    BY <1>15 DEF AwaitThreads, ActiveMarkers, ActiveThreads, Visitors
  <2>2. QED
    BY <1>0, <2>1
<1>16. ASSUME AppendRoots PROVE Counted'
  <2>1. Same
    BY <1>16 DEF AppendRoots, internalAppend, ActiveMarkers, ActiveThreads, Visitors
  <2>2. QED
    BY <1>0, <2>1
<1>17. ASSUME RootsDone PROVE Counted'
  <2>1. Same
    BY <1>17 DEF RootsDone, ActiveMarkers, ActiveThreads, Visitors
  <2>2. QED
    BY <1>0, <2>1
<1>18. ASSUME MasterTerminates PROVE Counted'
  <2>1. ActiveMarkers' = ActiveMarkers \ {Master}
    BY <1>18 DEF MasterTerminates, Termination, InSection, WaitPoint, ActiveMarkers, Visitors
  <2>2. Master \in ActiveMarkers <=> pc[Master] = "detach"
    BY <1>18 DEF MasterTerminates, Termination, InSection, WaitPoint, ActiveMarkers, Visitors
  <2>3. activeMarkers' = IF Master \in ActiveMarkers THEN activeMarkers - 1 ELSE activeMarkers
    BY <1>18, <2>2 DEF MasterTerminates, Termination, Others
  <2>4. ActiveThreads' = ActiveThreads /\ activeThreads' = activeThreads
    BY <1>18 DEF MasterTerminates, Termination, InSection, WaitPoint, ActiveThreads, Visitors
  <2>5. CASE Master \in ActiveMarkers
    BY <2>1, <2>3, <2>4, <2>5, CountsAreFinite, CountOneLess DEF Counted
  <2>6. CASE Master \notin ActiveMarkers
    <3>1. ActiveMarkers' = ActiveMarkers
      BY <2>1, <2>6
    <3>2. QED
      BY <3>1, <2>3, <2>4, <2>6 DEF Counted
  <2>7. QED
    BY <2>5, <2>6
<1>19. ASSUME VisitWeak PROVE Counted'
  <2>1. Same
    BY <1>19 DEF VisitWeak, internalAppend, ActiveMarkers, ActiveThreads, Visitors
  <2>2. QED
    BY <1>0, <2>1
<1>20. ASSUME didFinishMarking PROVE Counted'
  <2>1. Same
    BY <1>20 DEF didFinishMarking, ActiveMarkers, ActiveThreads, Visitors
  <2>2. QED
    BY <1>0, <2>1
<1>21. ASSUME endCurrentPhase("endMarkPhase", "endMark") PROVE Counted'
  <2>1. Same
    BY <1>21 DEF endCurrentPhase, ActiveMarkers, ActiveThreads, Visitors
  <2>2. QED
    BY <1>0, <2>1
<1>22. ASSUME AwaitThreads("endMark", "collected") PROVE Counted'
  <2>1. Same
    BY <1>22 DEF AwaitThreads, ActiveMarkers, ActiveThreads, Visitors
  <2>2. QED
    BY <1>0, <2>1
<1>23. ASSUME didStartCopying PROVE Counted'
  <2>1. Same
    BY <1>23 DEF didStartCopying, startNextPhase, ActiveMarkers, ActiveThreads, Visitors
  <2>2. QED
    BY <1>0, <2>1
<1>24. ASSUME SkipCopying PROVE Counted'
  <2>1. Same
    BY <1>24 DEF SkipCopying, ActiveMarkers, ActiveThreads, Visitors
  <2>2. QED
    BY <1>0, <2>1
<1>25. ASSUME StartCopyingMaster PROVE Counted'
  <2>1. Same
    BY <1>25 DEF StartCopyingMaster, ActiveMarkers, ActiveThreads, Visitors
  <2>2. QED
    BY <1>0, <2>1
<1>26. ASSUME AwaitLoans PROVE Counted'
  <2>1. Same
    BY <1>26 DEF AwaitLoans, ActiveMarkers, ActiveThreads, Visitors
  <2>2. QED
    BY <1>0, <2>1
<1>27. ASSUME endCurrentPhase("endCopyPhase", "endCopy") PROVE Counted'
  <2>1. Same
    BY <1>27 DEF endCurrentPhase, ActiveMarkers, ActiveThreads, Visitors
  <2>2. QED
    BY <1>0, <2>1
<1>28. ASSUME AwaitThreads("endCopy", "idle") PROVE Counted'
  <2>1. Same
    BY <1>28 DEF AwaitThreads, ActiveMarkers, ActiveThreads, Visitors
  <2>2. QED
    BY <1>0, <2>1
<1>29. ASSUME Join PROVE Counted'
  <2>1. Same
    BY <1>29 DEF Join, ActiveMarkers, ActiveThreads, Visitors
  <2>2. QED
    BY <1>0, <2>1
<1>30. ASSUME didStartMarking PROVE Counted'
  <2>1. Same
    BY <1>30 DEF didStartMarking, clearMarks, startNextPhase, ActiveMarkers, ActiveThreads, Visitors
  <2>2. QED
    BY <1>0, <2>1
<1>31. ASSUME Destroy PROVE Counted'
  <2>1. Same
    BY <1>31 DEF Destroy, ActiveMarkers, ActiveThreads, Visitors
  <2>2. QED
    BY <1>0, <2>1
<1>32. QED
    BY <1>1, <1>2, <1>3, <1>4, <1>5, <1>6, <1>7, <1>8, <1>9, <1>10, <1>11, <1>12, <1>13, <1>14,
     <1>15, <1>16, <1>17, <1>18, <1>19, <1>20, <1>21, <1>22, <1>23, <1>24, <1>25, <1>26, <1>27,
     <1>28, <1>29, <1>30, <1>31
     DEF Next, CollectorStep, SlaveStep, VisitorStep, Visitors

-----------------------------------------------------------------------------
(* Marking.                                                                  *)

(* Every step keeps work with draining visitors only; the collecting thread  *)
(* leaves drainFromShared() when no marker is active and the shared stack is *)
(* empty, and then nothing is left anywhere.                                 *)
LEMMA WorkStep ==
    ASSUME TypeOK, Counted, WorkWhileDraining, NoWorkLeft, Next
    PROVE  WorkWhileDraining' /\ NoWorkLeft'
<1> USE ThreadsAssumption
    DEF TypeOK, WorkWhileDraining, NoWorkLeft, Tracing, Draining, phaseVars, markVars, markerVars,
        copyVars, Runs, GoTo, Sleep, Visitors
<1>1. ASSUME NEW v \in Visitors, VisitCell(v) PROVE WorkWhileDraining' /\ NoWorkLeft'
  BY <1>1 DEF VisitCell
<1>2. ASSUME NEW v \in Visitors, VisitChild(v) PROVE WorkWhileDraining' /\ NoWorkLeft'
  BY <1>2 DEF VisitChild, internalAppend
<1>3. ASSUME NEW v \in Visitors, donateKnownParallel(v) PROVE WorkWhileDraining' /\ NoWorkLeft'
  BY <1>3 DEF donateKnownParallel
<1>4. ASSUME NEW v \in Visitors, DrainDone(v) PROVE WorkWhileDraining' /\ NoWorkLeft'
  BY <1>4 DEF DrainDone, mergeOpaqueRootsIfNecessary
<1>5. ASSUME NEW v \in Visitors, EnterDrainFromShared(v) PROVE WorkWhileDraining' /\ NoWorkLeft'
  BY <1>5 DEF EnterDrainFromShared
<1>6. ASSUME NEW v \in Visitors, stealSomeCells(v) PROVE WorkWhileDraining' /\ NoWorkLeft'
  BY <1>6 DEF stealSomeCells, InSection, WaitPoint, Others
<1>7. ASSUME NEW v \in Visitors, WaitForWork(v) PROVE WorkWhileDraining' /\ NoWorkLeft'
  BY <1>7 DEF WaitForWork, InSection, WaitPoint, Others, SleepingAfterDetach
<1>8. ASSUME NEW v \in Visitors, getNextBlocksToCopy(v) PROVE WorkWhileDraining' /\ NoWorkLeft'
  BY <1>8 DEF getNextBlocksToCopy, EndOfFragment
<1>9. ASSUME NEW v \in Visitors, EvacuateBlock(v) PROVE WorkWhileDraining' /\ NoWorkLeft'
  BY <1>9 DEF EvacuateBlock
<1>10. ASSUME NEW v \in Visitors, doneCopying(v) PROVE WorkWhileDraining' /\ NoWorkLeft'
  BY <1>10 DEF doneCopying
<1>11. ASSUME NEW v \in Visitors, SpuriousWakeup(v) PROVE WorkWhileDraining' /\ NoWorkLeft'
  BY <1>11 DEF SpuriousWakeup
<1>12. ASSUME NEW s \in Slaves, LeavePhase(s) PROVE WorkWhileDraining' /\ NoWorkLeft'
  BY <1>12 DEF LeavePhase
<1>13. ASSUME NEW s \in Slaves, EnterPhase(s) PROVE WorkWhileDraining' /\ NoWorkLeft'
  BY <1>13 DEF EnterPhase, BranchOf
<1>14. ASSUME NEW s \in Slaves, SlaveReturns(s) PROVE WorkWhileDraining' /\ NoWorkLeft'
  BY <1>14 DEF SlaveReturns, InSection, WaitPoint, Others, SleepingAfterDetach
<1>15. ASSUME AwaitThreads("construct", "idle") PROVE WorkWhileDraining' /\ NoWorkLeft'
  BY <1>15 DEF AwaitThreads
<1>16. ASSUME AppendRoots PROVE WorkWhileDraining' /\ NoWorkLeft'
  BY <1>16 DEF AppendRoots, internalAppend
<1>17. ASSUME RootsDone PROVE WorkWhileDraining' /\ NoWorkLeft'
  BY <1>17 DEF RootsDone
<1>18. ASSUME MasterTerminates PROVE WorkWhileDraining' /\ NoWorkLeft'
  <2>1. ActiveMarkers \subseteq {Master}
    <3>1. CASE pc[Master] = "detach"
      <4>1. Master \in ActiveMarkers /\ Cardinality(ActiveMarkers) = 1
        BY <1>18, <3>1 DEF MasterTerminates, Termination, Others, Counted, ActiveMarkers
      <4>2. Cardinality(ActiveMarkers \ {Master}) = 0 /\ IsFiniteSet(ActiveMarkers \ {Master})
        BY <4>1, CountsAreFinite, CountOneLess, FS_Subset
      <4>3. ActiveMarkers \ {Master} = {}
        BY <4>2, FS_EmptySet
      <4>4. QED
        BY <4>3
    <3>2. CASE pc[Master] # "detach"
      <4>1. Cardinality(ActiveMarkers) = 0
        BY <1>18, <3>2 DEF MasterTerminates, Termination, Others, Counted
      <4>2. QED
        BY <4>1, CountsAreFinite, FS_EmptySet
    <3>3. QED
      BY <3>1, <3>2
  <2>2. \A s \in Slaves : pc[s] \notin {"detach", "drain"}
    BY <2>1 DEF ActiveMarkers
  <2>3. QED
    BY <1>18, <2>2 DEF MasterTerminates, Termination, InSection, WaitPoint, SlavePoints
<1>19. ASSUME VisitWeak PROVE WorkWhileDraining' /\ NoWorkLeft'
  BY <1>19 DEF VisitWeak, internalAppend
<1>20. ASSUME didFinishMarking PROVE WorkWhileDraining' /\ NoWorkLeft'
  BY <1>20 DEF didFinishMarking
<1>21. ASSUME endCurrentPhase("endMarkPhase", "endMark") PROVE WorkWhileDraining' /\ NoWorkLeft'
  BY <1>21 DEF endCurrentPhase
<1>22. ASSUME AwaitThreads("endMark", "collected") PROVE WorkWhileDraining' /\ NoWorkLeft'
  BY <1>22 DEF AwaitThreads
<1>23. ASSUME didStartCopying PROVE WorkWhileDraining' /\ NoWorkLeft'
  BY <1>23 DEF didStartCopying, startNextPhase
<1>24. ASSUME SkipCopying PROVE WorkWhileDraining' /\ NoWorkLeft'
  BY <1>24 DEF SkipCopying
<1>25. ASSUME StartCopyingMaster PROVE WorkWhileDraining' /\ NoWorkLeft'
  BY <1>25 DEF StartCopyingMaster
<1>26. ASSUME AwaitLoans PROVE WorkWhileDraining' /\ NoWorkLeft'
  BY <1>26 DEF AwaitLoans
<1>27. ASSUME endCurrentPhase("endCopyPhase", "endCopy") PROVE WorkWhileDraining' /\ NoWorkLeft'
  BY <1>27 DEF endCurrentPhase
<1>28. ASSUME AwaitThreads("endCopy", "idle") PROVE WorkWhileDraining' /\ NoWorkLeft'
  BY <1>28 DEF AwaitThreads
<1>29. ASSUME Join PROVE WorkWhileDraining' /\ NoWorkLeft'
  BY <1>29 DEF Join
<1>30. ASSUME didStartMarking PROVE WorkWhileDraining' /\ NoWorkLeft'
  BY <1>30 DEF didStartMarking, clearMarks, startNextPhase
<1>31. ASSUME Destroy PROVE WorkWhileDraining' /\ NoWorkLeft'
  BY <1>31 DEF Destroy
<1>32. QED
    BY <1>1, <1>2, <1>3, <1>4, <1>5, <1>6, <1>7, <1>8, <1>9, <1>10, <1>11, <1>12, <1>13, <1>14,
     <1>15, <1>16, <1>17, <1>18, <1>19, <1>20, <1>21, <1>22, <1>23, <1>24, <1>25, <1>26, <1>27,
     <1>28, <1>29, <1>30, <1>31
     DEF Next, CollectorStep, SlaveStep, VisitorStep, Visitors

(* The actions that touch the marking state.                                 *)
LEMMA MarkingActions ==
    ASSUME Next
    PROVE  \/ UNCHANGED <<marked, stack, scanning, shared, roots>>
           \/ \E v \in Visitors : VisitCell(v) \/ VisitChild(v) \/ donateKnownParallel(v) \/ stealSomeCells(v)
           \/ AppendRoots \/ VisitWeak \/ didStartMarking
<1> USE DEF markVars
<1> DEFINE Same == UNCHANGED <<marked, stack, scanning, shared, roots>>
<1>1. ASSUME NEW v \in Visitors, DrainDone(v) PROVE Same
  BY <1>1 DEF DrainDone, mergeOpaqueRootsIfNecessary
<1>2. ASSUME NEW v \in Visitors, EnterDrainFromShared(v) PROVE Same
  BY <1>2 DEF EnterDrainFromShared
<1>3. ASSUME NEW v \in Visitors, WaitForWork(v) PROVE Same
  BY <1>3 DEF WaitForWork
<1>4. ASSUME NEW v \in Visitors, getNextBlocksToCopy(v) PROVE Same
  BY <1>4 DEF getNextBlocksToCopy
<1>5. ASSUME NEW v \in Visitors, EvacuateBlock(v) PROVE Same
  BY <1>5 DEF EvacuateBlock
<1>6. ASSUME NEW v \in Visitors, doneCopying(v) PROVE Same
  BY <1>6 DEF doneCopying
<1>7. ASSUME NEW v \in Visitors, SpuriousWakeup(v) PROVE Same
  BY <1>7 DEF SpuriousWakeup
<1>8. ASSUME NEW s \in Slaves, LeavePhase(s) PROVE Same
  BY <1>8 DEF LeavePhase
<1>9. ASSUME NEW s \in Slaves, EnterPhase(s) PROVE Same
  BY <1>9 DEF EnterPhase
<1>10. ASSUME NEW s \in Slaves, SlaveReturns(s) PROVE Same
  BY <1>10 DEF SlaveReturns
<1>11. ASSUME AwaitThreads("construct", "idle") PROVE Same
  BY <1>11 DEF AwaitThreads
<1>12. ASSUME RootsDone PROVE Same
  BY <1>12 DEF RootsDone
<1>13. ASSUME MasterTerminates PROVE Same
  BY <1>13 DEF MasterTerminates, Termination
<1>14. ASSUME didFinishMarking PROVE Same
  BY <1>14 DEF didFinishMarking
<1>15. ASSUME endCurrentPhase("endMarkPhase", "endMark") PROVE Same
  BY <1>15 DEF endCurrentPhase
<1>16. ASSUME AwaitThreads("endMark", "collected") PROVE Same
  BY <1>16 DEF AwaitThreads
<1>17. ASSUME didStartCopying PROVE Same
  BY <1>17 DEF didStartCopying
<1>18. ASSUME SkipCopying PROVE Same
  BY <1>18 DEF SkipCopying
<1>19. ASSUME StartCopyingMaster PROVE Same
  BY <1>19 DEF StartCopyingMaster
<1>20. ASSUME AwaitLoans PROVE Same
  BY <1>20 DEF AwaitLoans
<1>21. ASSUME endCurrentPhase("endCopyPhase", "endCopy") PROVE Same
  BY <1>21 DEF endCurrentPhase
<1>22. ASSUME AwaitThreads("endCopy", "idle") PROVE Same
  BY <1>22 DEF AwaitThreads
<1>23. ASSUME Join PROVE Same
  BY <1>23 DEF Join
<1>24. ASSUME Destroy PROVE Same
  BY <1>24 DEF Destroy
<1>25. QED
    BY <1>1, <1>2, <1>3, <1>4, <1>5, <1>6, <1>7, <1>8, <1>9, <1>10, <1>11, <1>12, <1>13, <1>14,
     <1>15, <1>16, <1>17, <1>18, <1>19, <1>20, <1>21, <1>22, <1>23, <1>24
     DEF Next, CollectorStep, SlaveStep, VisitorStep, Visitors

(* Every step keeps roots and work inside the marked cells.                  *)
LEMMA WorkIsMarkedStep ==
    ASSUME TypeOK, WorkWhileDraining, NoWorkLeft, WorkIsMarked, Next
    PROVE  WorkIsMarked'
<1> USE ThreadsAssumption, HeapAssumption DEF TypeOK, WorkIsMarked
<1>1. CASE UNCHANGED <<marked, stack, scanning, shared, roots>>
  BY <1>1
<1>2. ASSUME NEW v \in Visitors, VisitCell(v) PROVE WorkIsMarked'
  BY <1>2 DEF VisitCell
<1>3. ASSUME NEW v \in Visitors, VisitChild(v) PROVE WorkIsMarked'
  BY <1>3 DEF VisitChild, internalAppend
<1>4. ASSUME NEW v \in Visitors, donateKnownParallel(v) PROVE WorkIsMarked'
  BY <1>4 DEF donateKnownParallel
<1>5. ASSUME NEW v \in Visitors, stealSomeCells(v) PROVE WorkIsMarked'
  BY <1>5 DEF stealSomeCells, InSection, WaitPoint, Others
<1>6. ASSUME AppendRoots PROVE WorkIsMarked'
  BY <1>6 DEF AppendRoots, internalAppend
<1>7. ASSUME VisitWeak PROVE WorkIsMarked'
  BY <1>7 DEF VisitWeak, internalAppend
<1>8. ASSUME didStartMarking PROVE WorkIsMarked'
    BY <1>8 DEF didStartMarking, clearMarks, startNextPhase, WorkWhileDraining, NoWorkLeft, Tracing, Draining,
     Runs
<1>9. QED
  BY <1>1, <1>2, <1>3, <1>4, <1>5, <1>6, <1>7, <1>8, MarkingActions

(* Every step keeps the children of visited cells marked or about to be.     *)
LEMMA TricolourStep ==
    ASSUME TypeOK, WorkWhileDraining, NoWorkLeft, WorkIsMarked, Tricolour, Next
    PROVE  Tricolour'
<1> USE ThreadsAssumption, HeapAssumption DEF TypeOK, WorkIsMarked, Tricolour, HasWork
<1>1. CASE UNCHANGED <<marked, stack, scanning, shared, roots>>
  BY <1>1
<1>2. ASSUME NEW v \in Visitors, VisitCell(v) PROVE Tricolour'
  BY <1>2 DEF VisitCell
<1>3. ASSUME NEW v \in Visitors, VisitChild(v) PROVE Tricolour'
  BY <1>3 DEF VisitChild, internalAppend
<1>4. ASSUME NEW v \in Visitors, donateKnownParallel(v) PROVE Tricolour'
  BY <1>4 DEF donateKnownParallel
<1>5. ASSUME NEW v \in Visitors, stealSomeCells(v) PROVE Tricolour'
  BY <1>5 DEF stealSomeCells, InSection, WaitPoint, Others
<1>6. ASSUME AppendRoots PROVE Tricolour'
  <2>1. PICK cells \in SUBSET Cells : marked' = marked \cup cells
                                     /\ stack' = [stack EXCEPT ![Master] = @ \cup (cells \ marked)]
    BY <1>6 DEF AppendRoots, internalAppend
  <2>2. UNCHANGED <<scanning, shared>>
    BY <1>6 DEF AppendRoots
  <2>3. ASSUME NEW x \in cells, x \notin marked PROVE x \in stack'[Master] /\ Master \in Visitors
    BY <2>1, <2>3 DEF Visitors
  <2>4. ASSUME NEW v \in Visitors PROVE stack[v] \subseteq stack'[v]
    BY <2>1
  <2>5. QED
    BY <2>1, <2>2, <2>3, <2>4
<1>7. ASSUME VisitWeak PROVE Tricolour'
  <2>1. PICK cells \in SUBSET Cells : marked' = marked \cup cells
                                     /\ stack' = [stack EXCEPT ![Master] = @ \cup (cells \ marked)]
    BY <1>7 DEF VisitWeak, internalAppend
  <2>2. UNCHANGED <<scanning, shared>>
    BY <1>7 DEF VisitWeak
  <2>3. ASSUME NEW x \in cells, x \notin marked PROVE x \in stack'[Master] /\ Master \in Visitors
    BY <2>1, <2>3 DEF Visitors
  <2>4. ASSUME NEW v \in Visitors PROVE stack[v] \subseteq stack'[v]
    BY <2>1
  <2>5. QED
    BY <2>1, <2>2, <2>3, <2>4
<1>8. ASSUME didStartMarking PROVE Tricolour'
    BY <1>8 DEF didStartMarking, clearMarks, startNextPhase, WorkWhileDraining, NoWorkLeft, Tracing, Draining,
     Runs
<1>9. QED
  BY <1>1, <1>2, <1>3, <1>4, <1>5, <1>6, <1>7, <1>8, MarkingActions

(* Every step keeps marking inside the closed sets around the roots.         *)
LEMMA InsideStep ==
    ASSUME TypeOK, WorkWhileDraining, NoWorkLeft, WorkIsMarked, InsideClosedSets, Next
    PROVE  InsideClosedSets'
<1> USE ThreadsAssumption, HeapAssumption DEF TypeOK, WorkIsMarked, InsideClosedSets, ClosedUnderEdges
<1>1. CASE UNCHANGED <<marked, stack, scanning, shared, roots>>
  BY <1>1
<1>2. ASSUME NEW v \in Visitors, VisitCell(v) PROVE InsideClosedSets'
  BY <1>2 DEF VisitCell
<1>3. ASSUME NEW v \in Visitors, VisitChild(v) PROVE InsideClosedSets'
  BY <1>3 DEF VisitChild, internalAppend
<1>4. ASSUME NEW v \in Visitors, donateKnownParallel(v) PROVE InsideClosedSets'
  BY <1>4 DEF donateKnownParallel
<1>5. ASSUME NEW v \in Visitors, stealSomeCells(v) PROVE InsideClosedSets'
  BY <1>5 DEF stealSomeCells, InSection, WaitPoint, Others
<1>6. ASSUME AppendRoots PROVE InsideClosedSets'
  BY <1>6 DEF AppendRoots, internalAppend
<1>7. ASSUME VisitWeak PROVE InsideClosedSets'
  BY <1>7 DEF VisitWeak, internalAppend
<1>8. ASSUME didStartMarking PROVE InsideClosedSets'
    BY <1>8 DEF didStartMarking, clearMarks, startNextPhase, WorkWhileDraining, NoWorkLeft, Tracing, Draining,
     Runs
<1>9. QED
  BY <1>1, <1>2, <1>3, <1>4, <1>5, <1>6, <1>7, <1>8, MarkingActions

-----------------------------------------------------------------------------
(* Phases and copying.                                                       *)

(* Every step keeps the phase in line with where the collecting thread is.   *)
LEMMA PhaseStep ==
    ASSUME TypeOK, Counted, BetweenPhases, Next
    PROVE  BetweenPhases'
<1> USE ThreadsAssumption
    DEF TypeOK, BetweenPhases, Tracing, Draining, phaseVars, Runs, GoTo, Sleep, Visitors,
        SlavePoints, MasterPoints
<1>0. ASSUME activeThreads = 0 PROVE \A s \in Slaves : pc[s] = "waitStart"
  <2>1. ActiveThreads = {}
    BY <1>0, CountsAreFinite, FS_EmptySet DEF Counted
  <2>2. QED
    BY <2>1 DEF ActiveThreads
<1>1. ASSUME NEW v \in Visitors, VisitCell(v) PROVE BetweenPhases'
  BY <1>1 DEF VisitCell
<1>2. ASSUME NEW v \in Visitors, VisitChild(v) PROVE BetweenPhases'
  BY <1>2 DEF VisitChild, internalAppend
<1>3. ASSUME NEW v \in Visitors, donateKnownParallel(v) PROVE BetweenPhases'
  BY <1>3 DEF donateKnownParallel
<1>4. ASSUME NEW v \in Visitors, DrainDone(v) PROVE BetweenPhases'
  BY <1>4 DEF DrainDone, mergeOpaqueRootsIfNecessary
<1>5. ASSUME NEW v \in Visitors, EnterDrainFromShared(v) PROVE BetweenPhases'
  BY <1>5 DEF EnterDrainFromShared
<1>6. ASSUME NEW v \in Visitors, stealSomeCells(v) PROVE BetweenPhases'
  BY <1>6 DEF stealSomeCells, InSection, WaitPoint, Others
<1>7. ASSUME NEW v \in Visitors, WaitForWork(v) PROVE BetweenPhases'
  BY <1>7 DEF WaitForWork, InSection, WaitPoint, Others, SleepingAfterDetach
<1>8. ASSUME NEW v \in Visitors, getNextBlocksToCopy(v) PROVE BetweenPhases'
  BY <1>8 DEF getNextBlocksToCopy, EndOfFragment
<1>9. ASSUME NEW v \in Visitors, EvacuateBlock(v) PROVE BetweenPhases'
  BY <1>9 DEF EvacuateBlock
<1>10. ASSUME NEW v \in Visitors, doneCopying(v) PROVE BetweenPhases'
  BY <1>10 DEF doneCopying
<1>11. ASSUME NEW v \in Visitors, SpuriousWakeup(v) PROVE BetweenPhases'
  BY <1>11 DEF SpuriousWakeup
<1>12. ASSUME NEW s \in Slaves, LeavePhase(s) PROVE BetweenPhases'
  BY <1>12 DEF LeavePhase
<1>13. ASSUME NEW s \in Slaves, EnterPhase(s) PROVE BetweenPhases'
  BY <1>13 DEF EnterPhase, BranchOf
<1>14. ASSUME NEW s \in Slaves, SlaveReturns(s) PROVE BetweenPhases'
  BY <1>14 DEF SlaveReturns, InSection, WaitPoint, Others, SleepingAfterDetach
<1>15. ASSUME AwaitThreads("construct", "idle") PROVE BetweenPhases'
  BY <1>0, <1>15 DEF AwaitThreads
<1>16. ASSUME AppendRoots PROVE BetweenPhases'
  BY <1>16 DEF AppendRoots, internalAppend
<1>17. ASSUME RootsDone PROVE BetweenPhases'
  BY <1>17 DEF RootsDone
<1>18. ASSUME MasterTerminates PROVE BetweenPhases'
  BY <1>18 DEF MasterTerminates, Termination, InSection, WaitPoint, Others
<1>19. ASSUME VisitWeak PROVE BetweenPhases'
  BY <1>19 DEF VisitWeak, internalAppend
<1>20. ASSUME didFinishMarking PROVE BetweenPhases'
  BY <1>20 DEF didFinishMarking
<1>21. ASSUME endCurrentPhase("endMarkPhase", "endMark") PROVE BetweenPhases'
  BY <1>21 DEF endCurrentPhase
<1>22. ASSUME AwaitThreads("endMark", "collected") PROVE BetweenPhases'
  BY <1>0, <1>22 DEF AwaitThreads
<1>23. ASSUME didStartCopying PROVE BetweenPhases'
  BY <1>23 DEF didStartCopying, startNextPhase
<1>24. ASSUME SkipCopying PROVE BetweenPhases'
  BY <1>24 DEF SkipCopying
<1>25. ASSUME StartCopyingMaster PROVE BetweenPhases'
  BY <1>25 DEF StartCopyingMaster
<1>26. ASSUME AwaitLoans PROVE BetweenPhases'
  BY <1>26 DEF AwaitLoans
<1>27. ASSUME endCurrentPhase("endCopyPhase", "endCopy") PROVE BetweenPhases'
  BY <1>27 DEF endCurrentPhase
<1>28. ASSUME AwaitThreads("endCopy", "idle") PROVE BetweenPhases'
  BY <1>0, <1>28 DEF AwaitThreads
<1>29. ASSUME Join PROVE BetweenPhases'
  BY <1>29 DEF Join
<1>30. ASSUME didStartMarking PROVE BetweenPhases'
  BY <1>30 DEF didStartMarking, clearMarks, startNextPhase
<1>31. ASSUME Destroy PROVE BetweenPhases'
  BY <1>31 DEF Destroy
<1>32. QED
    BY <1>1, <1>2, <1>3, <1>4, <1>5, <1>6, <1>7, <1>8, <1>9, <1>10, <1>11, <1>12, <1>13, <1>14,
     <1>15, <1>16, <1>17, <1>18, <1>19, <1>20, <1>21, <1>22, <1>23, <1>24, <1>25, <1>26, <1>27,
     <1>28, <1>29, <1>30, <1>31
     DEF Next, CollectorStep, SlaveStep, VisitorStep, Visitors

(* Every step keeps a block on loan to each thread that copies or will copy. *)
LEMMA CopyStep ==
    ASSUME TypeOK, BetweenPhases, CopyingThreadsBorrow, Next
    PROVE  CopyingThreadsBorrow'
<1> USE ThreadsAssumption, CopyAssumption
    DEF TypeOK, BetweenPhases, CopyingThreadsBorrow, Tracing, Draining, phaseVars, copyVars, Runs, GoTo,
        Sleep, Visitors, SlavePoints, MasterPoints
<1>1. ASSUME NEW v \in Visitors, VisitCell(v) PROVE CopyingThreadsBorrow'
  BY <1>1 DEF VisitCell
<1>2. ASSUME NEW v \in Visitors, VisitChild(v) PROVE CopyingThreadsBorrow'
  BY <1>2 DEF VisitChild, internalAppend
<1>3. ASSUME NEW v \in Visitors, donateKnownParallel(v) PROVE CopyingThreadsBorrow'
  BY <1>3 DEF donateKnownParallel
<1>4. ASSUME NEW v \in Visitors, DrainDone(v) PROVE CopyingThreadsBorrow'
  BY <1>4 DEF DrainDone, mergeOpaqueRootsIfNecessary
<1>5. ASSUME NEW v \in Visitors, EnterDrainFromShared(v) PROVE CopyingThreadsBorrow'
  BY <1>5 DEF EnterDrainFromShared
<1>6. ASSUME NEW v \in Visitors, stealSomeCells(v) PROVE CopyingThreadsBorrow'
  BY <1>6 DEF stealSomeCells, InSection, WaitPoint, Others
<1>7. ASSUME NEW v \in Visitors, WaitForWork(v) PROVE CopyingThreadsBorrow'
  BY <1>7 DEF WaitForWork, InSection, WaitPoint, Others, SleepingAfterDetach
<1>8. ASSUME NEW v \in Visitors, getNextBlocksToCopy(v) PROVE CopyingThreadsBorrow'
  BY <1>8 DEF getNextBlocksToCopy, EndOfFragment
<1>9. ASSUME NEW v \in Visitors, EvacuateBlock(v) PROVE CopyingThreadsBorrow'
  BY <1>9 DEF EvacuateBlock
<1>10. ASSUME NEW v \in Visitors, doneCopying(v) PROVE CopyingThreadsBorrow'
  BY <1>10 DEF doneCopying
<1>11. ASSUME NEW v \in Visitors, SpuriousWakeup(v) PROVE CopyingThreadsBorrow'
  BY <1>11 DEF SpuriousWakeup
<1>12. ASSUME NEW s \in Slaves, LeavePhase(s) PROVE CopyingThreadsBorrow'
  BY <1>12 DEF LeavePhase
<1>13. ASSUME NEW s \in Slaves, EnterPhase(s) PROVE CopyingThreadsBorrow'
  BY <1>13 DEF EnterPhase, BranchOf
<1>14. ASSUME NEW s \in Slaves, SlaveReturns(s) PROVE CopyingThreadsBorrow'
  BY <1>14 DEF SlaveReturns, InSection, WaitPoint, Others, SleepingAfterDetach
<1>15. ASSUME AwaitThreads("construct", "idle") PROVE CopyingThreadsBorrow'
  BY <1>15 DEF AwaitThreads
<1>16. ASSUME AppendRoots PROVE CopyingThreadsBorrow'
  BY <1>16 DEF AppendRoots, internalAppend
<1>17. ASSUME RootsDone PROVE CopyingThreadsBorrow'
  BY <1>17 DEF RootsDone
<1>18. ASSUME MasterTerminates PROVE CopyingThreadsBorrow'
  BY <1>18 DEF MasterTerminates, Termination, InSection, WaitPoint, Others
<1>19. ASSUME VisitWeak PROVE CopyingThreadsBorrow'
  BY <1>19 DEF VisitWeak, internalAppend
<1>20. ASSUME didFinishMarking PROVE CopyingThreadsBorrow'
  BY <1>20 DEF didFinishMarking
<1>21. ASSUME endCurrentPhase("endMarkPhase", "endMark") PROVE CopyingThreadsBorrow'
  BY <1>21 DEF endCurrentPhase
<1>22. ASSUME AwaitThreads("endMark", "collected") PROVE CopyingThreadsBorrow'
  BY <1>22 DEF AwaitThreads
<1>23. ASSUME didStartCopying PROVE CopyingThreadsBorrow'
  BY <1>23 DEF didStartCopying, startNextPhase
<1>24. ASSUME SkipCopying PROVE CopyingThreadsBorrow'
  BY <1>24 DEF SkipCopying
<1>25. ASSUME StartCopyingMaster PROVE CopyingThreadsBorrow'
  BY <1>25 DEF StartCopyingMaster
<1>26. ASSUME AwaitLoans PROVE CopyingThreadsBorrow'
  BY <1>26 DEF AwaitLoans
<1>27. ASSUME endCurrentPhase("endCopyPhase", "endCopy") PROVE CopyingThreadsBorrow'
  BY <1>27 DEF endCurrentPhase
<1>28. ASSUME AwaitThreads("endCopy", "idle") PROVE CopyingThreadsBorrow'
  BY <1>28 DEF AwaitThreads
<1>29. ASSUME Join PROVE CopyingThreadsBorrow'
  BY <1>29 DEF Join
<1>30. ASSUME didStartMarking PROVE CopyingThreadsBorrow'
  BY <1>30 DEF didStartMarking, clearMarks, startNextPhase
<1>31. ASSUME Destroy PROVE CopyingThreadsBorrow'
  BY <1>31 DEF Destroy
<1>32. QED
    BY <1>1, <1>2, <1>3, <1>4, <1>5, <1>6, <1>7, <1>8, <1>9, <1>10, <1>11, <1>12, <1>13, <1>14,
     <1>15, <1>16, <1>17, <1>18, <1>19, <1>20, <1>21, <1>22, <1>23, <1>24, <1>25, <1>26, <1>27,
     <1>28, <1>29, <1>30, <1>31
     DEF Next, CollectorStep, SlaveStep, VisitorStep, Visitors

(* The actions that hand out or evacuate blocks.                             *)
LEMMA BlockActions ==
    ASSUME Next
    PROVE  \/ UNCHANGED <<copyIndex, fragment, copied>>
           \/ \E v \in Visitors : getNextBlocksToCopy(v) \/ EvacuateBlock(v)
           \/ didStartCopying
<1> USE DEF copyVars
<1> DEFINE Same == UNCHANGED <<copyIndex, fragment, copied>>
<1>1. ASSUME NEW v \in Visitors, VisitCell(v) PROVE Same
  BY <1>1 DEF VisitCell
<1>2. ASSUME NEW v \in Visitors, VisitChild(v) PROVE Same
  BY <1>2 DEF VisitChild
<1>3. ASSUME NEW v \in Visitors, donateKnownParallel(v) PROVE Same
  BY <1>3 DEF donateKnownParallel
<1>4. ASSUME NEW v \in Visitors, DrainDone(v) PROVE Same
  BY <1>4 DEF DrainDone, mergeOpaqueRootsIfNecessary
<1>5. ASSUME NEW v \in Visitors, EnterDrainFromShared(v) PROVE Same
  BY <1>5 DEF EnterDrainFromShared
<1>6. ASSUME NEW v \in Visitors, stealSomeCells(v) PROVE Same
  BY <1>6 DEF stealSomeCells
<1>7. ASSUME NEW v \in Visitors, WaitForWork(v) PROVE Same
  BY <1>7 DEF WaitForWork
<1>8. ASSUME NEW v \in Visitors, doneCopying(v) PROVE Same
  BY <1>8 DEF doneCopying
<1>9. ASSUME NEW v \in Visitors, SpuriousWakeup(v) PROVE Same
  BY <1>9 DEF SpuriousWakeup
<1>10. ASSUME NEW s \in Slaves, LeavePhase(s) PROVE Same
  BY <1>10 DEF LeavePhase
<1>11. ASSUME NEW s \in Slaves, EnterPhase(s) PROVE Same
  BY <1>11 DEF EnterPhase
<1>12. ASSUME NEW s \in Slaves, SlaveReturns(s) PROVE Same
  BY <1>12 DEF SlaveReturns
<1>13. ASSUME AwaitThreads("construct", "idle") PROVE Same
  BY <1>13 DEF AwaitThreads
<1>14. ASSUME AppendRoots PROVE Same
  BY <1>14 DEF AppendRoots
<1>15. ASSUME RootsDone PROVE Same
  BY <1>15 DEF RootsDone
<1>16. ASSUME MasterTerminates PROVE Same
  BY <1>16 DEF MasterTerminates, Termination
<1>17. ASSUME VisitWeak PROVE Same
  BY <1>17 DEF VisitWeak
<1>18. ASSUME didFinishMarking PROVE Same
  BY <1>18 DEF didFinishMarking
<1>19. ASSUME endCurrentPhase("endMarkPhase", "endMark") PROVE Same
  BY <1>19 DEF endCurrentPhase
<1>20. ASSUME AwaitThreads("endMark", "collected") PROVE Same
  BY <1>20 DEF AwaitThreads
<1>21. ASSUME SkipCopying PROVE Same
  BY <1>21 DEF SkipCopying
<1>22. ASSUME StartCopyingMaster PROVE Same
  BY <1>22 DEF StartCopyingMaster
<1>23. ASSUME AwaitLoans PROVE Same
  BY <1>23 DEF AwaitLoans
<1>24. ASSUME endCurrentPhase("endCopyPhase", "endCopy") PROVE Same
  BY <1>24 DEF endCurrentPhase
<1>25. ASSUME AwaitThreads("endCopy", "idle") PROVE Same
  BY <1>25 DEF AwaitThreads
<1>26. ASSUME Join PROVE Same
  BY <1>26 DEF Join
<1>27. ASSUME didStartMarking PROVE Same
  BY <1>27 DEF didStartMarking, clearMarks
<1>28. ASSUME Destroy PROVE Same
  BY <1>28 DEF Destroy
<1>29. QED
    BY <1>1, <1>2, <1>3, <1>4, <1>5, <1>6, <1>7, <1>8, <1>9, <1>10, <1>11, <1>12, <1>13, <1>14,
     <1>15, <1>16, <1>17, <1>18, <1>19, <1>20, <1>21, <1>22, <1>23, <1>24, <1>25, <1>26, <1>27,
     <1>28
     DEF Next, CollectorStep, SlaveStep, VisitorStep, Visitors

(* Every step keeps the handed-out blocks disjoint and counted once.         *)
LEMMA BlocksStep ==
    ASSUME TypeOK, BetweenPhases, CopyingThreadsBorrow, BlocksHandedOut, Next
    PROVE  BlocksHandedOut'
<1> USE ThreadsAssumption, CopyAssumption DEF TypeOK, BlocksHandedOut
<1>1. CASE UNCHANGED <<copyIndex, fragment, copied>>
  BY <1>1
<1>2. ASSUME NEW v \in Visitors, getNextBlocksToCopy(v) PROVE BlocksHandedOut'
  BY <1>2 DEF getNextBlocksToCopy, EndOfFragment
<1>3. ASSUME NEW v \in Visitors, EvacuateBlock(v) PROVE BlocksHandedOut'
  BY <1>3 DEF EvacuateBlock
<1>4. ASSUME didStartCopying PROVE BlocksHandedOut'
  BY <1>4 DEF didStartCopying, Runs, BetweenPhases, CopyingThreadsBorrow, Visitors
<1>5. QED
  BY <1>1, <1>2, <1>3, <1>4, BlockActions

-----------------------------------------------------------------------------
(* The inductive invariant and what follows from it.                         *)

(* AllReachableMarked is not inductive: that the collecting thread may leave *)
(* drainFromShared() depends on the counter of active markers (Counted), on  *)
(* who may hold work (WorkWhileDraining) and on what unfinished work means   *)
(* for the mark bits (Tricolour).                                            *)
Inv ==
    /\ TypeOK
    /\ Counted
    /\ WorkWhileDraining
    /\ NoWorkLeft
    /\ WorkIsMarked
    /\ Tricolour
    /\ InsideClosedSets
    /\ BetweenPhases
    /\ CopyingThreadsBorrow
    /\ BlocksHandedOut

(* The initial states satisfy the inductive invariant.                       *)
LEMMA InitInv == Init => Inv
<1> SUFFICES ASSUME Init PROVE Inv
  OBVIOUS
<1>1. TypeOK /\ Counted
  BY InitType
<1>2. WorkWhileDraining /\ NoWorkLeft
  BY ThreadsAssumption DEF Init, WorkWhileDraining, NoWorkLeft, Draining, Visitors
<1>3. WorkIsMarked /\ Tricolour
  BY DEF Init, WorkIsMarked, Tricolour
<1>4. InsideClosedSets
  BY DEF Init, InsideClosedSets
<1>5. BetweenPhases
  BY ThreadsAssumption DEF Init, BetweenPhases, Visitors, Tracing
<1>6. CopyingThreadsBorrow /\ BlocksHandedOut
  BY ThreadsAssumption, CopyAssumption DEF Init, CopyingThreadsBorrow, BlocksHandedOut, Visitors
<1>7. QED
  BY <1>1, <1>2, <1>3, <1>4, <1>5, <1>6 DEF Inv

(* Every step, and every stuttering step, preserves the inductive invariant. *)
LEMMA InvStep == Inv /\ [Next]_vars => Inv'
<1> SUFFICES ASSUME Inv, [Next]_vars PROVE Inv'
  OBVIOUS
<1>1. CASE Next
  BY <1>1, TypeStep, CountedStep, WorkStep, WorkIsMarkedStep, TricolourStep, InsideStep, PhaseStep,
     CopyStep, BlocksStep DEF Inv
<1>2. CASE UNCHANGED vars
  BY <1>2 DEF vars, phaseVars, markVars, markerVars, copyVars, Inv, TypeOK, Counted, ActiveMarkers,
     ActiveThreads, WorkWhileDraining, NoWorkLeft, WorkIsMarked, Tricolour, HasWork, InsideClosedSets,
     BetweenPhases, CopyingThreadsBorrow, BlocksHandedOut
<1>3. QED
  BY <1>1, <1>2

(* Every reachable state satisfies the inductive invariant.                  *)
THEOREM Invariance == Spec => []Inv
  BY InitInv, InvStep, PTL DEF Spec

(* Every variable keeps its type; in particular the unsigned counters of     *)
(* active markers and threads never go below zero.                           *)
THEOREM TypeCorrect == Spec => []TypeOK
<1>1. Inv => TypeOK
  BY DEF Inv
<1>2. QED
  BY <1>1, Invariance, PTL

(* When drainFromShared(MasterDrain) has returned, everything reachable from *)
(* the roots is marked.                                                      *)
THEOREM MarkingComplete == Spec => []AllReachableMarked
<1>1. ASSUME Inv PROVE AllReachableMarked
  <2> SUFFICES ASSUME pc[Master] \in MarkingOver PROVE roots \subseteq marked /\ ClosedUnderEdges(marked)
    BY DEF AllReachableMarked
  <2>1. shared = {} /\ \A v \in Visitors : stack[v] = {} /\ scanning[v] = {}
    BY <1>1 DEF Inv, NoWorkLeft, WorkWhileDraining, MarkingOver, Tracing
  <2>2. \A x \in marked : \A y \in Edges[x] : y \in marked
    BY <1>1, <2>1 DEF Inv, Tricolour, HasWork
  <2>3. QED
    BY <1>1, <2>2 DEF Inv, WorkIsMarked, ClosedUnderEdges, TypeOK
<1>2. QED
  BY <1>1, Invariance, PTL

(* Nothing but what is reachable from the roots is ever marked.              *)
THEOREM MarkingPrecise == Spec => []OnlyReachableMarked
<1>1. Inv => OnlyReachableMarked
  BY DEF Inv, InsideClosedSets, OnlyReachableMarked
<1>2. QED
  BY <1>1, Invariance, PTL

(* Every thread's opaque roots are in the shared set when weak handles are   *)
(* visited.                                                                  *)
THEOREM OpaqueRootsComplete == Spec => []OpaqueRootsMerged
<1>1. Inv => OpaqueRootsMerged
  BY DEF Inv, NoWorkLeft, WorkWhileDraining, OpaqueRootsMerged, MarkingOver, Tracing, TypeOK
<1>2. QED
  BY <1>1, Invariance, PTL

(* Between phases every GC thread is parked and has no work.                 *)
THEOREM ThreadsParked == Spec => []MutatorRunsAlone
<1>1. Inv => MutatorRunsAlone
  BY DEF Inv, BetweenPhases, WorkWhileDraining, Draining, MutatorRunsAlone, Visitors
<1>2. QED
  BY <1>1, Invariance, PTL

(* The copying phase evacuates every block exactly once.                     *)
THEOREM BlocksCopiedOnce == Spec => []EveryBlockCopiedOnce
<1>1. ASSUME Inv PROVE EveryBlockCopiedOnce
  <2>1. \A x \in 1 .. Blocks : copied[x] <= 1
    BY <1>1 DEF Inv, BlocksHandedOut
  <2>2. ASSUME pc[Master] \in {"endCopyPhase", "endCopy"}, NEW x \in 1 .. Blocks PROVE copied[x] = 1
    <3>1. \A v \in Visitors : pc[v] # "copy"
      BY <1>1, <2>2 DEF Inv, BetweenPhases, CopyingThreadsBorrow, TypeOK
    <3>2. \A v \in Visitors : fragment[v] = {}
      BY <1>1, <3>1 DEF Inv, CopyingThreadsBorrow
    <3>3. copyIndex = Blocks
      BY <1>1, <2>2 DEF Inv, CopyingThreadsBorrow
    <3>4. QED
      BY <1>1, <3>2, <3>3, CopyAssumption DEF Inv, BlocksHandedOut
  <2>3. QED
    BY <2>1, <2>2 DEF EveryBlockCopiedOnce
<1>2. QED
  BY <1>1, Invariance, PTL

-----------------------------------------------------------------------------
(* The collection is atomic: every step of the threads is a step of          *)
(* Collection or leaves what it speaks of alone.                             *)

(* While the constructor waits for the threads nothing has been appended.    *)
NoRootsYet == CollectorState = "constructing" => roots = {}

(* What the threads trace in parallel is what one step of Collection would   *)
(* find: at every point where marking is over the marks are the cells that   *)
(* the roots reach.                                                          *)
LEMMA MarkedIsReachable ==
    ASSUME Inv, shared = {}, \A v \in Visitors : stack[v] = {} /\ scanning[v] = {}
    PROVE  marked = AtomicCollection!Reachable(roots)
<1>1. \A x \in marked : \A y \in Edges[x] : y \in marked
  BY DEF Inv, Tricolour, HasWork
<1>2. \A x \in marked : Edges[x] \subseteq marked
  BY <1>1
<1>3. marked \in SUBSET Cells /\ roots \subseteq marked
  BY DEF Inv, TypeOK, WorkIsMarked
<1>4. AtomicCollection!Reachable(roots) \subseteq marked
  BY <1>2, <1>3 DEF AtomicCollection!Reachable
<1>5. \A cells \in SUBSET Cells :
          roots \subseteq cells /\ (\A y \in cells : Edges[y] \subseteq cells) => marked \subseteq cells
  BY DEF Inv, InsideClosedSets, ClosedUnderEdges
<1>6. marked \subseteq AtomicCollection!Reachable(roots)
  BY <1>3, <1>5 DEF AtomicCollection!Reachable
<1>7. QED
  BY <1>4, <1>6

(* The points at which the collector has decided what is live.               *)
Decided == {"finish", "endMarkPhase", "endMark", "collected", "startCopying", "copy", "loan",
    "endCopyPhase", "endCopy"}

(* A step that leaves the view of a collection alone.                        *)
SameView == UNCHANGED <<CollectorState, roots, KnownLive>>

(* The collecting thread stays where it is and nothing is marked.            *)
LEMMA StaysPut ==
    ASSUME pc'[Master] = pc[Master], roots' = roots, marked' = marked
    PROVE  SameView
  BY DEF SameView, CollectorState, KnownLive

(* While the collecting thread traces, no cell is known to be live.          *)
LEMMA StaysTracing ==
    ASSUME pc[Master] \in Tracing, pc'[Master] \in Tracing, roots' = roots
    PROVE  SameView
<1>1. CollectorState = "tracing" /\ CollectorState' = "tracing"
  BY DEF CollectorState, Tracing
<1>2. KnownLive = {} /\ KnownLive' = {}
  BY DEF KnownLive, Tracing, MarkingOver
<1>3. QED
  BY <1>1, <1>2 DEF SameView

(* Once it has decided, the marks are the live cells, at every point.        *)
LEMMA StaysDecided ==
    ASSUME pc[Master] \in Decided, pc'[Master] \in Decided, roots' = roots, marked' = marked
    PROVE  SameView
<1>1. CollectorState = "decided" /\ CollectorState' = "decided"
  BY DEF CollectorState, Tracing, Decided
<1>2. KnownLive = marked /\ KnownLive' = marked'
  BY DEF KnownLive, Decided, MarkingOver
<1>3. QED
  BY <1>1, <1>2 DEF SameView

(* No step of a visitor other than those of markRoots() itself changes the   *)
(* view: cells are marked only while the collecting thread traces.           *)
LEMMA VisitorKeepsView ==
    ASSUME Inv, NEW v \in Visitors, VisitorStep(v)
    PROVE  SameView
<1> USE DEF markVars
<1>0. pc \in [Visitors -> MasterPoints \cup SlavePoints] /\ Master \in Visitors
  BY DEF Inv, TypeOK, Visitors
<1>1. CASE VisitCell(v)
  BY <1>1, <1>0, StaysPut DEF VisitCell
<1>2. CASE VisitChild(v)
  <2>1. pc[v] \in Draining
    BY <1>2 DEF Inv, WorkWhileDraining, VisitChild
  <2>2. pc[Master] \in Tracing
    BY <2>1 DEF Inv, NoWorkLeft
  <2>3. pc' = pc /\ roots' = roots
    BY <1>2 DEF VisitChild
  <2>4. QED
    BY <2>2, <2>3, StaysTracing
<1>3. CASE donateKnownParallel(v)
  BY <1>3, <1>0, StaysPut DEF donateKnownParallel
<1>4. CASE DrainDone(v)
  <2>1. roots' = roots /\ marked' = marked
    BY <1>4 DEF DrainDone
  <2>2. CASE v = Master
    <3>1. pc[Master] \in Tracing /\ pc'[Master] \in Tracing
      BY <1>0, <1>4, <2>2 DEF DrainDone, GoTo, Tracing, Draining
    <3>2. QED
      BY <3>1, <2>1, StaysTracing
  <2>3. CASE v # Master
    <3>1. pc'[Master] = pc[Master]
      BY <1>0, <1>4, <2>3 DEF DrainDone, GoTo
    <3>2. QED
      BY <3>1, <2>1, StaysPut
  <2>4. QED
    BY <2>2, <2>3
<1>5. CASE EnterDrainFromShared(v)
  <2>1. roots' = roots /\ marked' = marked
    BY <1>5 DEF EnterDrainFromShared
  <2>2. CASE v = Master
    <3>1. pc[Master] \in Tracing /\ pc'[Master] \in Tracing
      BY <1>0, <1>5, <2>2 DEF EnterDrainFromShared, Runs, GoTo, Tracing
    <3>2. QED
      BY <3>1, <2>1, StaysTracing
  <2>3. CASE v # Master
    <3>1. pc'[Master] = pc[Master]
      BY <1>0, <1>5, <2>3 DEF EnterDrainFromShared, GoTo
    <3>2. QED
      BY <3>1, <2>1, StaysPut
  <2>4. QED
    BY <2>2, <2>3
<1>6. CASE stealSomeCells(v)
  <2>1. roots' = roots /\ marked' = marked
    BY <1>6 DEF stealSomeCells
  <2>2. CASE v = Master
    <3>1. pc[Master] \in Tracing /\ pc'[Master] \in Tracing
      BY <1>0, <1>6, <2>2 DEF stealSomeCells, InSection, WaitPoint, Runs, GoTo, Tracing
    <3>2. QED
      BY <3>1, <2>1, StaysTracing
  <2>3. CASE v # Master
    <3>1. pc'[Master] = pc[Master]
      BY <1>0, <1>6, <2>3 DEF stealSomeCells, GoTo
    <3>2. QED
      BY <3>1, <2>1, StaysPut
  <2>4. QED
    BY <2>2, <2>3
<1>7. CASE WaitForWork(v)
  <2>1. roots' = roots /\ marked' = marked
    BY <1>7 DEF WaitForWork
  <2>2. CASE v = Master
    <3>1. pc[Master] \in Tracing /\ pc'[Master] \in Tracing
      BY <1>0, <1>7, <2>2 DEF WaitForWork, InSection, WaitPoint, Runs, GoTo, Tracing
    <3>2. QED
      BY <3>1, <2>1, StaysTracing
  <2>3. CASE v # Master
    <3>1. pc'[Master] = pc[Master]
      BY <1>0, <1>7, <2>3 DEF WaitForWork, GoTo
    <3>2. QED
      BY <3>1, <2>1, StaysPut
  <2>4. QED
    BY <2>2, <2>3
<1>8. CASE getNextBlocksToCopy(v)
  BY <1>8, <1>0, StaysPut DEF getNextBlocksToCopy
<1>9. CASE EvacuateBlock(v)
  BY <1>9, <1>0, StaysPut DEF EvacuateBlock
<1>10. CASE doneCopying(v)
  <2>1. roots' = roots /\ marked' = marked
    BY <1>10 DEF doneCopying
  <2>2. CASE v = Master
    <3>1. pc[Master] \in Decided /\ pc'[Master] \in Decided
      BY <1>0, <1>10, <2>2 DEF doneCopying, Runs, GoTo, Decided
    <3>2. QED
      BY <3>1, <2>1, StaysDecided
  <2>3. CASE v # Master
    <3>1. pc'[Master] = pc[Master]
      BY <1>0, <1>10, <2>3 DEF doneCopying, GoTo
    <3>2. QED
      BY <3>1, <2>1, StaysPut
  <2>4. QED
    BY <2>2, <2>3
<1>11. QED
  BY <1>1, <1>2, <1>3, <1>4, <1>5, <1>6, <1>7, <1>8, <1>9, <1>10 DEF VisitorStep

(* The phases of a GC thread, and a spurious wakeup, do not touch the view.  *)
LEMMA SlaveKeepsView ==
    ASSUME Inv, \/ \E s \in Slaves : SlaveStep(s)
                \/ \E v \in Visitors : SpuriousWakeup(v)
    PROVE  SameView
<1> USE DEF markVars
<1>0. pc \in [Visitors -> MasterPoints \cup SlavePoints] /\ Master \in Visitors
      /\ \A s \in Slaves : s \in Visitors /\ s # Master
  BY ThreadsAssumption DEF Inv, TypeOK, Visitors
<1>1. ASSUME NEW s \in Slaves, LeavePhase(s) PROVE SameView
  <2>1. pc'[Master] = pc[Master] /\ roots' = roots /\ marked' = marked
    BY <1>0, <1>1 DEF LeavePhase, GoTo, Sleep
  <2>2. QED
    BY <2>1, StaysPut
<1>2. ASSUME NEW s \in Slaves, EnterPhase(s) PROVE SameView
  <2>1. pc'[Master] = pc[Master] /\ roots' = roots /\ marked' = marked
    BY <1>0, <1>2 DEF EnterPhase, GoTo, Sleep
  <2>2. QED
    BY <2>1, StaysPut
<1>3. ASSUME NEW s \in Slaves, SlaveReturns(s) PROVE SameView
  <2>1. pc'[Master] = pc[Master] /\ roots' = roots /\ marked' = marked
    BY <1>0, <1>3 DEF SlaveReturns, GoTo
  <2>2. QED
    BY <2>1, StaysPut
<1>4. ASSUME NEW v \in Visitors, SpuriousWakeup(v) PROVE SameView
  BY <1>4, StaysPut DEF SpuriousWakeup
<1>5. QED
  BY <1>0, <1>1, <1>2, <1>3, <1>4, VisitorKeepsView DEF SlaveStep

(* The steps of the collecting thread: most leave the view alone, the others *)
(* are each one step of Collection.                                          *)
ViewStep == SameView \/ AtomicCollection!Next

LEMMA CollectorRefines ==
    ASSUME Inv, NoRootsYet, CollectorStep \/ didStartMarking \/ Destroy
    PROVE  ViewStep
<1> USE DEF markVars
<1>0. pc \in [Visitors -> MasterPoints \cup SlavePoints] /\ Master \in Visitors
  BY DEF Inv, TypeOK, Visitors
<1>1. CASE VisitorStep(Master)
  BY <1>0, <1>1, VisitorKeepsView DEF ViewStep
<1>2. CASE AwaitThreads("construct", "idle")
  <2>1. pc[Master] = "construct" /\ roots' = roots /\ marked' = marked
    BY <1>2 DEF AwaitThreads, Runs
  <2>2. marked = {}
    <3>1. CollectorState = "constructing"
      BY <2>1 DEF CollectorState, Tracing
    <3>2. roots = {} /\ {} \in SUBSET Cells /\ ClosedUnderEdges({})
      BY <3>1 DEF NoRootsYet, ClosedUnderEdges
    <3>3. QED
      BY <3>2 DEF Inv, InsideClosedSets
  <2>3. CASE pc'[Master] = pc[Master]
    BY <2>1, <2>3, StaysPut DEF ViewStep
  <2>4. CASE pc'[Master] = "idle"
    <3>1. CollectorState = "constructing" /\ CollectorState' = "mutator"
      BY <2>1, <2>4 DEF CollectorState, Tracing
    <3>2. KnownLive = {} /\ KnownLive' = {}
      BY <2>1, <2>2 DEF KnownLive, MarkingOver
    <3>3. AtomicCollection!StartMutator
      BY <2>1, <3>1, <3>2 DEF AtomicCollection!StartMutator
    <3>4. QED
      BY <3>3 DEF ViewStep, AtomicCollection!Next
  <2>5. QED
    BY <1>0, <1>2, <2>3, <2>4 DEF AwaitThreads, GoTo, Sleep
<1>3. CASE AppendRoots
  <2>1. pc[Master] \in Tracing /\ pc'[Master] \in Tracing
    BY <1>0, <1>3 DEF AppendRoots, Runs, GoTo, Tracing
  <2>2. CollectorState = "tracing" /\ CollectorState' = "tracing"
    BY <2>1 DEF CollectorState, Tracing
  <2>3. KnownLive = {} /\ KnownLive' = {}
    BY <2>1 DEF KnownLive, Tracing, MarkingOver
  <2>4. \E cells \in SUBSET Cells : roots' = roots \cup cells
    BY <1>3 DEF AppendRoots
  <2>5. AtomicCollection!AddRoots
    BY <2>2, <2>3, <2>4 DEF AtomicCollection!AddRoots
  <2>6. QED
    BY <2>5 DEF ViewStep, AtomicCollection!Next
<1>4. CASE RootsDone
  <2>1. pc[Master] \in Tracing /\ pc'[Master] \in Tracing /\ roots' = roots
    BY <1>0, <1>4 DEF RootsDone, Runs, GoTo, Tracing
  <2>2. QED
    BY <2>1, StaysTracing DEF ViewStep
<1>5. CASE MasterTerminates
  <2>1. pc[Master] \in {"detach", "masterWait"} /\ pc'[Master] = "harvest"
    BY <1>0, <1>5 DEF MasterTerminates, InSection, WaitPoint, Runs, GoTo
  <2>2. CollectorState = "tracing" /\ CollectorState' = "traced"
    BY <2>1 DEF CollectorState, Tracing
  <2>3. roots' = roots /\ marked' = marked /\ stack' = stack /\ scanning' = scanning /\ shared' = shared
    BY <1>5 DEF MasterTerminates
  <2>4. Inv'
    BY <1>5, InvStep DEF Next, CollectorStep
  <2>5. shared = {} /\ \A v \in Visitors : stack[v] = {} /\ scanning[v] = {}
    <3>1. shared' = {} /\ \A v \in Visitors : stack'[v] = {} /\ scanning'[v] = {}
      BY <2>1, <2>4 DEF Inv, NoWorkLeft, WorkWhileDraining, Tracing
    <3>2. QED
      BY <2>3, <3>1
  <2>6. KnownLive' = AtomicCollection!Reachable(roots)
    BY <2>1, <2>3, <2>5, MarkedIsReachable DEF KnownLive, MarkingOver
  <2>7. AtomicCollection!Trace
    BY <2>2, <2>3, <2>6 DEF AtomicCollection!Trace
  <2>8. QED
    BY <2>7 DEF ViewStep, AtomicCollection!Next
<1>6. CASE VisitWeak
  <2>1. pc[Master] = "harvest"
    BY <1>6 DEF VisitWeak, Runs
  <2>2. CollectorState = "traced" /\ KnownLive = marked
    BY <2>1 DEF CollectorState, KnownLive, Tracing, MarkingOver
  <2>3. PICK cells \in SUBSET (Cells \ marked) :
           /\ roots' = roots \cup cells
           /\ internalAppend(Master, cells)
           /\ IF cells = {}
              THEN GoTo(Master, "finish") /\ UNCHANGED mayDonate
              ELSE GoTo(Master, "weakDrain") /\ mayDonate' = mayDonate \cup {Master}
    BY <1>6 DEF VisitWeak
  <2>4. CASE cells = {}
    <3>1. pc'[Master] = "finish" /\ roots' = roots /\ marked' = marked
      BY <1>0, <2>3, <2>4 DEF GoTo, internalAppend
    <3>2. CollectorState' = "decided" /\ KnownLive' = KnownLive
      BY <2>2, <3>1 DEF CollectorState, KnownLive, Tracing, MarkingOver
    <3>3. AtomicCollection!Decide
      BY <2>2, <3>1, <3>2 DEF AtomicCollection!Decide
    <3>4. QED
      BY <3>3 DEF ViewStep, AtomicCollection!Next
  <2>5. CASE cells # {}
    <3>1. pc'[Master] = "weakDrain"
      BY <1>0, <2>3, <2>5 DEF GoTo
    <3>2. CollectorState' = "tracing" /\ KnownLive' = {}
      BY <3>1 DEF CollectorState, KnownLive, Tracing, MarkingOver
    <3>3. cells \in SUBSET (Cells \ KnownLive) /\ cells # {} /\ roots' = roots \cup cells
      BY <2>2, <2>3, <2>5
    <3>4. AtomicCollection!AddWeakRoots
      BY <2>2, <3>2, <3>3 DEF AtomicCollection!AddWeakRoots
    <3>5. QED
      BY <3>4 DEF ViewStep, AtomicCollection!Next
  <2>6. QED
    BY <2>4, <2>5
<1>7. CASE \/ didFinishMarking \/ endCurrentPhase("endMarkPhase", "endMark")
           \/ AwaitThreads("endMark", "collected") \/ didStartCopying \/ StartCopyingMaster
           \/ AwaitLoans \/ endCurrentPhase("endCopyPhase", "endCopy")
  <2>1. pc[Master] \in Decided /\ pc'[Master] \in Decided
    BY <1>0, <1>7 DEF didFinishMarking, endCurrentPhase, AwaitThreads, didStartCopying,
       StartCopyingMaster, AwaitLoans, Runs, GoTo, Sleep, Decided
  <2>2. roots' = roots /\ marked' = marked
    BY <1>7 DEF didFinishMarking, endCurrentPhase, AwaitThreads, didStartCopying,
       StartCopyingMaster, AwaitLoans
  <2>3. QED
    BY <2>1, <2>2, StaysDecided DEF ViewStep
<1>8. CASE SkipCopying \/ AwaitThreads("endCopy", "idle")
  <2>1. pc[Master] \in Decided /\ pc'[Master] \in {"endCopy", "idle"} /\ (pc'[Master] = "endCopy" => pc'[Master] = pc[Master])
    BY <1>0, <1>8 DEF SkipCopying, AwaitThreads, Runs, GoTo, Sleep, Decided
  <2>2. roots' = roots /\ marked' = marked
    BY <1>8 DEF SkipCopying, AwaitThreads
  <2>3. CASE pc'[Master] = pc[Master]
    BY <2>2, <2>3, StaysPut DEF ViewStep
  <2>4. CASE pc'[Master] = "idle"
    <3>1. CollectorState = "decided" /\ CollectorState' = "mutator"
      BY <2>1, <2>4 DEF CollectorState, Tracing, Decided
    <3>2. KnownLive' = KnownLive
      BY <2>1, <2>2, <2>4 DEF KnownLive, MarkingOver, Decided
    <3>3. AtomicCollection!ResumeMutator
      BY <2>2, <3>1, <3>2 DEF AtomicCollection!ResumeMutator
    <3>4. QED
      BY <3>3 DEF ViewStep, AtomicCollection!Next
  <2>5. QED
    BY <2>1, <2>3, <2>4
<1>9. CASE Join
  <2>1. pc[Master] = "join" /\ pc'[Master] = "exited" /\ roots' = roots
    BY <1>0, <1>9 DEF Join, Runs, GoTo
  <2>2. CollectorState' = CollectorState /\ KnownLive' = KnownLive
    BY <2>1 DEF CollectorState, KnownLive, Tracing, MarkingOver
  <2>3. QED
    BY <2>1, <2>2 DEF ViewStep, SameView
<1>10. CASE didStartMarking
  <2>1. pc[Master] = "idle" /\ pc'[Master] = "roots" /\ roots' = {}
    BY <1>0, <1>10 DEF didStartMarking, Runs, GoTo
  <2>2. CollectorState = "mutator" /\ CollectorState' = "tracing" /\ KnownLive' = {}
    BY <2>1 DEF CollectorState, KnownLive, Tracing, MarkingOver
  <2>3. AtomicCollection!StartCollection
    BY <2>1, <2>2 DEF AtomicCollection!StartCollection
  <2>4. QED
    BY <2>3 DEF ViewStep, AtomicCollection!Next
<1>11. CASE Destroy
  <2>1. pc[Master] = "idle" /\ pc'[Master] = "join" /\ roots' = roots
    BY <1>0, <1>11 DEF Destroy, Runs, GoTo
  <2>2. CollectorState = "mutator" /\ CollectorState' = "destroyed" /\ KnownLive' = {}
    BY <2>1 DEF CollectorState, KnownLive, Tracing, MarkingOver
  <2>3. AtomicCollection!DestroyHeap
    BY <2>1, <2>2 DEF AtomicCollection!DestroyHeap
  <2>4. QED
    BY <2>3 DEF ViewStep, AtomicCollection!Next
<1>12. QED
  BY <1>1, <1>2, <1>3, <1>4, <1>5, <1>6, <1>7, <1>8, <1>9, <1>10, <1>11 DEF CollectorStep

(* Every step of the threads is a step of Collection or none.                *)
LEMMA ThreadsRefine ==
    ASSUME Inv, NoRootsYet, [Next]_vars
    PROVE  ViewStep
<1>1. CASE UNCHANGED vars
  BY <1>1, StaysPut DEF vars, markVars, ViewStep
<1>2. CASE CollectorStep \/ didStartMarking \/ Destroy
  BY <1>2, CollectorRefines
<1>3. CASE (\E s \in Slaves : SlaveStep(s)) \/ (\E v \in Visitors : SpuriousWakeup(v))
  BY <1>3, SlaveKeepsView DEF ViewStep
<1>4. QED
  BY <1>1, <1>2, <1>3 DEF Next

(* No step of Collection returns to the constructor.                         *)
LEMMA NoRootsYetStep ==
    ASSUME NoRootsYet, ViewStep
    PROVE  NoRootsYet'
<1>1. CASE SameView
  BY <1>1 DEF SameView, NoRootsYet
<1>2. CASE AtomicCollection!Next
  <2>1. CollectorState' # "constructing"
    BY <1>2 DEF AtomicCollection!Next, AtomicCollection!StartMutator, AtomicCollection!StartCollection,
       AtomicCollection!AddRoots, AtomicCollection!Trace, AtomicCollection!AddWeakRoots,
       AtomicCollection!Decide, AtomicCollection!ResumeMutator, AtomicCollection!DestroyHeap
  <2>2. QED
    BY <2>1 DEF NoRootsYet
<1>3. QED
  BY <1>1, <1>2 DEF ViewStep

(* The threads of a parallel collection implement a collection that traces   *)
(* the heap in one step: with any number of GC threads and any heap, what    *)
(* each interleaving marks is what the roots reach, decided once and not     *)
(* changed until the next collection.                                        *)
THEOREM MarkingImplementsAtomicCollection == Spec => CollectionIsAtomic
<1>1. Init => AtomicCollection!Init /\ NoRootsYet
  <2> SUFFICES ASSUME Init PROVE AtomicCollection!Init /\ NoRootsYet
    OBVIOUS
  <2>1. pc[Master] = "construct" /\ roots = {} /\ Master \in Visitors
    BY DEF Init, Visitors
  <2>2. CollectorState = "constructing" /\ KnownLive = {}
    BY <2>1 DEF CollectorState, Tracing, KnownLive, MarkingOver
  <2>3. QED
    BY <2>1, <2>2 DEF AtomicCollection!Init, NoRootsYet
<1>2. Inv /\ NoRootsYet /\ [Next]_vars => NoRootsYet'
  BY ThreadsRefine, NoRootsYetStep
<1>3. Inv /\ NoRootsYet /\ [Next]_vars => [AtomicCollection!Next]_(AtomicCollection!vars)
  BY ThreadsRefine DEF ViewStep, SameView, AtomicCollection!vars
<1>4. QED
  BY <1>1, <1>2, <1>3, Invariance, PTL DEF Spec, CollectionIsAtomic, AtomicCollection!Spec
=============================================================================
