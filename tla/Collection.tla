----------------------------- MODULE Collection -----------------------------
(***************************************************************************)
(* What the rest of JavaScriptCore is promised about a garbage collection,  *)
(* however many threads trace the heap: the set of live cells is computed   *)
(* in one step, from roots nobody changes meanwhile; it is exactly what the *)
(* roots reach; cells that weak handles keep alive are added between two    *)
(* such steps and traced like roots; and once the collector has decided     *)
(* what is live, that does not change until the next collection.            *)
(* ParallelGC implements this.                                              *)
(***************************************************************************)
CONSTANTS Cells,   \* heap cells
          Edges    \* the cells each cell refers to

VARIABLES state,   \* who works: the mutator, or the collector at some stage
          roots,   \* the cells that are live whatever refers to them
          live     \* the result of tracing, {} while it is not known

vars == <<state, roots, live>>

Init ==
  /\ state = "constructing"
  /\ roots = {}
  /\ live = {}

\* The cells in every set that contains the cells of r and is closed under Edges.
Reachable(r) ==
  {x \in Cells : \A cells \in SUBSET Cells :
                     r \subseteq cells /\ (\A y \in cells : Edges[y] \subseteq cells) => x \in cells}

StartMutator ==
  /\ state = "constructing"
  /\ state' = "mutator"
  /\ UNCHANGED <<roots, live>>

StartCollection ==
  /\ state = "mutator"
  /\ state' = "tracing"
  /\ roots' = {}
  /\ live' = {}

AddRoots ==
  /\ state = "tracing"
  /\ \E cells \in SUBSET Cells : roots' = roots \cup cells
  /\ UNCHANGED <<state, live>>

Trace ==
  /\ state = "tracing"
  /\ state' = "traced"
  /\ live' = Reachable(roots)
  /\ UNCHANGED roots

AddWeakRoots ==
  /\ state = "traced"
  /\ state' = "tracing"
  /\ \E cells \in SUBSET (Cells \ live) : cells # {} /\ roots' = roots \cup cells
  /\ live' = {}

Decide ==
  /\ state = "traced"
  /\ state' = "decided"
  /\ UNCHANGED <<roots, live>>

ResumeMutator ==
  /\ state = "decided"
  /\ state' = "mutator"
  /\ UNCHANGED <<roots, live>>

DestroyHeap ==
  /\ state = "mutator"
  /\ state' = "destroyed"
  /\ live' = {}
  /\ UNCHANGED roots

Next ==
  \/ StartMutator
  \/ StartCollection
  \/ AddRoots
  \/ Trace
  \/ AddWeakRoots
  \/ Decide
  \/ ResumeMutator
  \/ DestroyHeap

Spec == Init /\ [][Next]_vars
=============================================================================
