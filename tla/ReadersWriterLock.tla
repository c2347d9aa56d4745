------------------------- MODULE ReadersWriterLock -------------------------
(***************************************************************************)
(* What the transactions of one origin are promised about their database   *)
(* lock, whatever queues and sets it is made of: clients are served in the *)
(* order in which they asked; any number of readers may hold the lock      *)
(* together, a writer holds it alone; and nobody who could be let in is    *)
(* kept waiting.  SQLTransactionCoordinator implements this.               *)
(***************************************************************************)
EXTENDS Naturals, Sequences

CONSTANTS Clients,   \* whoever may ask for the lock
          Readers    \* those of them that ask for it shared

VARIABLES waiting,   \* the clients that asked and were not let in, oldest first
          holders,   \* the clients that hold the lock
          closed     \* the lock is no longer in service

vars == <<waiting, holders, closed>>

Init ==
  /\ waiting = <<>>
  /\ holders = {}
  /\ closed = FALSE

\* May the clients H hold the lock at the same time?
Compatible(H) == \A x, y \in H : x = y \/ (x \in Readers /\ y \in Readers)

\* From the queue q and the holders H, as many clients as possible are let in,
\* strictly from the front of the queue.
Admit(q, H) ==
  \E n \in 0 .. Len(q) :
    /\ waiting' = SubSeq(q, n + 1, Len(q))
    /\ holders' = H \cup {q[i] : i \in 1 .. n}
    /\ Compatible(holders')
    /\ n < Len(q) => ~ Compatible(holders' \cup {q[n + 1]})

Ask(c) ==
  /\ ~ closed
  /\ c \notin holders
  /\ \A i \in 1 .. Len(waiting) : waiting[i] # c
  /\ Admit(Append(waiting, c), holders)
  /\ UNCHANGED closed

Leave(c) ==
  /\ ~ closed
  /\ c \in holders
  /\ Admit(waiting, holders \ {c})
  /\ UNCHANGED closed

Close ==
  /\ closed' = TRUE
  /\ waiting' = <<>>
  /\ holders' = {}

Next == Close \/ \E c \in Clients : Ask(c) \/ Leave(c)

Spec == Init /\ [][Next]_vars
=============================================================================
