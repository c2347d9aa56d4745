---------------------------- MODULE MCParallelGC ----------------------------
(***************************************************************************)
(* A heap for model checking ParallelGC: a cell reached along two paths in  *)
(* a cycle.                                                                 *)
(***************************************************************************)
EXTENDS ParallelGC

CONSTANTS a, b, c

Graph == [x \in {a, b, c} |-> CASE x = a -> {b, c} [] x = b -> {c} [] x = c -> {a}]
=============================================================================
