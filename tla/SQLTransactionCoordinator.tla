--------------------- MODULE SQLTransactionCoordinator ---------------------
(***************************************************************************)
(* SQLTransactionCoordinator: which transactions of one origin may run at  *)
(* the same time on one database thread.  All of it runs on that thread.   *)
(* The state is the CoordinationInfo of one origin; its fields keep their  *)
(* names, and the pointer activeWriteTransaction is the set of what it     *)
(* points to.                                                              *)
(***************************************************************************)
EXTENDS Naturals, Sequences

CONSTANTS Transactions,
          ReadOnly        \* the transactions made by readTransaction()

VARIABLES info,           \* the origin's entry of m_coordinationInfoMap
          isShuttingDown  \* m_isShuttingDown

vars == <<info, isShuttingDown>>

\* An entry that has just been made, and the lookup of an entry that is not
\* in the map.
EmptyInfo == [activeWrite |-> {}, activeReads |-> {}, pending |-> <<>>]

Infos == [activeWrite : SUBSET Transactions,
          activeReads : SUBSET Transactions,
          pending     : Seq(Transactions)]

-----------------------------------------------------------------------------
\* Mutants: an if for the loop that lets readers in together; a writer that does
\* not wait for the readers.
OneReader(q) == 1

WriterBesideReaders(i) ==
  LET q == i.pending IN
  IF i.activeWrite # {} \/ q = <<>> THEN i
  ELSE IF q[1] \in ReadOnly THEN
    [i EXCEPT !.activeReads = @ \cup {q[1]}, !.pending = Tail(q)]
  ELSE [i EXCEPT !.activeWrite = {q[1]}, !.pending = Tail(q)]

\* How many transactions the do-while loop takes off a queue whose first
\* element is read-only: it stops in front of the first one that writes.
LeadingReaders(q) ==
  CHOOSE n \in 1 .. Len(q) :
    /\ \A i \in 1 .. n : q[i] \in ReadOnly
    /\ n < Len(q) => q[n + 1] \notin ReadOnly

processPendingTransactions(i) ==
  LET q == i.pending IN
  IF i.activeWrite # {} \/ q = <<>> THEN i
  ELSE IF q[1] \in ReadOnly THEN
    LET n == LeadingReaders(q) IN
    [i EXCEPT !.activeReads = @ \cup {q[j] : j \in 1 .. n},
              !.pending = SubSeq(q, n + 1, Len(q))]
  ELSE IF i.activeReads = {} THEN
    [i EXCEPT !.activeWrite = {q[1]}, !.pending = Tail(q)]
  ELSE i

\* What acquireLock() and releaseLock() make of the entry.
Acquired(i, t) == processPendingTransactions([i EXCEPT !.pending = Append(@, t)])

Released(i, t) ==
  processPendingTransactions(
    IF t \in ReadOnly THEN [i EXCEPT !.activeReads = @ \ {t}]
                      ELSE [i EXCEPT !.activeWrite = {}])

\* The transactions whose lockAcquired() is called when an entry with the queue q becomes j,
\* in the order of the calls.
Granted(q, j) == SubSeq(q, 1, Len(q) - Len(j.pending))

-----------------------------------------------------------------------------
Holders == info.activeWrite \cup info.activeReads

Init ==
  /\ info = EmptyInfo
  /\ isShuttingDown = FALSE

\* A transaction asks once, from its AcquireLock state.
acquireLock(t) ==
  /\ ~ isShuttingDown
  /\ t \notin Holders
  /\ \A i \in 1 .. Len(info.pending) : info.pending[i] # t
  /\ info' = Acquired(info, t)
  /\ UNCHANGED isShuttingDown

\* doCleanup() releases only what lockAcquired() told it that it has.
releaseLock(t) ==
  /\ ~ isShuttingDown
  /\ t \in IF t \in ReadOnly THEN info.activeReads ELSE info.activeWrite
  /\ info' = Released(info, t)
  /\ UNCHANGED isShuttingDown

\* m_isShuttingDown makes releaseLock() leave the entry alone while every
\* transaction in it is told to clean up.  The map is cleared after that; but
\* the loop over pendingTransactions never takes a transaction off it, so with
\* one pending the loop has no end.
shutdown ==
  /\ ~ isShuttingDown
  /\ isShuttingDown' = TRUE
  /\ info' = IF info.pending = <<>> THEN EmptyInfo ELSE info

Next == shutdown \/ \E t \in Transactions : acquireLock(t) \/ releaseLock(t)

Spec == Init /\ [][Next]_vars

-----------------------------------------------------------------------------
Lock == INSTANCE ReadersWriterLock WITH
          Clients <- Transactions, Readers <- ReadOnly,
          waiting <- IF isShuttingDown THEN <<>> ELSE info.pending,
          holders <- IF isShuttingDown THEN {} ELSE Holders,
          closed  <- isShuttingDown

\* processPendingTransactions(), called after every change of the entry, makes
\* it a readers-writer lock that is fair in the order of the requests and that
\* never keeps out a transaction that could run.
LockPromise == Lock!Spec

\* A write transaction runs while nothing else of its origin runs on this
\* thread.
WriteRunsAlone ==
  /\ info.activeWrite # {} => info.activeReads = {}
  /\ \A s, t \in info.activeWrite : s = t
  /\ info.activeReads \subseteq ReadOnly
  /\ info.activeWrite \cap ReadOnly = {}
=============================================================================
