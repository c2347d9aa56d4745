-------------------------- MODULE MCSQLTransaction --------------------------
(***************************************************************************)
(* Values of the constant functions of SQLTransaction for the model        *)
(* checker.                                                                *)
(***************************************************************************)
EXTENDS SQLTransaction

CONSTANTS page, worker,                \* contexts: a document and a worker
          d1, d2, d3, d4,              \* handles
          r1, r2, w1, w2, w3           \* transactions that read and that write

\* The handles of the document and the one of the worker.
OpenedBy == [d \in Databases |-> IF d = d3 THEN worker ELSE page]

\* Each transaction's handle.
RunOn == [t \in Transactions |-> IF t = w3 THEN d3 ELSE IF t \in {r1, w1} THEN d1
                              ELSE IF t = r2 THEN d2 ELSE d4]
=============================================================================
