------------------------ MODULE SQLTransactionProof ------------------------
(***************************************************************************)
(* Proofs about SQLTransaction, for any contexts, handles and transactions *)
(* and any number of statements: the safety invariants that its runs       *)
(* check, and that every context's transactions get the readers-writer     *)
(* lock that SQLTransactionCoordinator is.  The inductive invariant says   *)
(* of every transaction in which one of six places its next step waits and *)
(* that its records are ready for that step, and of each handle, each      *)
(* coordinator's entry and the origin lock that they agree with the        *)
(* transactions' records.                                                  *)
(***************************************************************************)
EXTENDS SQLTransaction, SequenceTheorems, FiniteSetTheorems, WellFoundedInduction, TLAPS

\* The lemmas about the coordinator's entry.  None of those that are used
\* mentions the coordinator's variables.
Entry == INSTANCE SQLTransactionCoordinatorProof WITH info <- info, isShuttingDown <- FALSE

\* No element is in the sequence s twice.
Unique(s) == \A i, j \in 1 .. Len(s) : s[i] = s[j] => i = j

-----------------------------------------------------------------------------
(***************************************************************************)
(* The inductive invariant                                                 *)
(***************************************************************************)

FrontRecords == [next : States, requested : States,
                 issued : 0 .. MaxStatements, raises : 0 .. MaxRaises]
HandleRecords == [transactionQueue : Seq(Transactions), transactionInProgress : BOOLEAN,
                  queueEnabled : BOOLEAN, opened : BOOLEAN, deleted : BOOLEAN]
Phases == {"loop", "deadlocked", "looping", "closing", "finished"}

Types ==
  /\ db \in [Databases -> HandleRecords]
  /\ tx \in [Transactions -> BackendRecords]
  /\ front \in [Transactions -> FrontRecords]
  /\ created \subseteq Transactions
  /\ info \in [Contexts -> Entry!Infos]
  /\ tasks \in [Contexts -> Seq(Transactions \cup Databases)]
  /\ killed \in [Contexts -> BOOLEAN]
  /\ interrupted \in [Contexts -> BOOLEAN]
  /\ phase \in [Contexts -> Phases]
  /\ running \in [Contexts -> Transactions \cup {None}]
  /\ callbacks \in [Contexts -> Seq(Transactions)]
  /\ originLock \in (Transactions \ ReadOnly) \cup {None}
  /\ deleting \in Databases \cup {None}

\* What the records of a transaction are before its first step.
FreshBackend ==
  [next |-> "Idle", requested |-> "AcquireLock", frontend |-> TRUE,
   lockAcquired |-> FALSE, sqlite |-> "none", statements |-> 0,
   current |-> "none", retry |-> FALSE]
FreshFront == [next |-> "Idle", requested |-> "Idle", issued |-> 0, raises |-> 0]

\* The places where the next step of t may be waiting: the queue of its handle,
\* the tasks of the database thread, the thread itself, the coordinator, the
\* callbacks of the script thread, and the script thread itself.
Queued(t)  == t \in ToSet(db[DatabaseOf[t]].transactionQueue)
Posted(t)  == t \in ToSet(tasks[Context(t)])
Running(t) == running[Context(t)] = t
Waiting(t) == t \in ToSet(info[Context(t)].pending)
Called(t)  == t \in ToSet(callbacks[Context(t)])
Active(t)  == front[t].next # "Idle"

Holds(t)    == t \in Entry!HoldersOf(info[Context(t)])
Opened(t)   == db[DatabaseOf[t]].opened
Stopping(t) == ShuttingDown(Context(t))

\* What a state function of the state s finds in the backend r: the lock and the
\* SQLite transaction, and the current statement.
LockReady(s, r) ==
  /\ r.lockAcquired <=> s # "AcquireLock"
  /\ s \in {"AcquireLock", "OpenTransactionAndPreflight"} => r.sqlite = "none"
  /\ s \in {"RunStatements", "PostflightAndCommit", "DeliverTransactionCallback",
            "DeliverStatementCallback", "DeliverQuotaIncreaseCallback"} =>
       r.sqlite \in {"open", "rolledBack"}
  /\ s = "CleanupAndTerminate" => r.sqlite \in {"none", "committed"}
  /\ s = "DeliverSuccessCallback" => r.sqlite = "committed"

StatementReady(s, r) ==
  /\ s = "DeliverStatementCallback" => r.current # "none"
  /\ s = "DeliverQuotaIncreaseCallback" => ~ r.retry /\ r.current \in {"quota", "reported"}

\* The backend r and the frontend f of a transaction agree.
RecordsFine(r, f) ==
  /\ ~ r.frontend => r.sqlite = "none"
  /\ r.next = "End" => ~ r.frontend
  /\ r.sqlite # "none" => r.lockAcquired
  /\ r.statements <= f.issued
  /\ r.retry => r.current \in {"quota", "reported"}
  /\ f.next \in FrontendStates \cup {"Idle", "RunStatements", "CleanupAndTerminate",
                                     "CleanupAfterTransactionErrorCallback"}
  /\ StatementReady(f.next, r)

\* A transaction is in one place at most.
Apart(t) ==
  /\ Queued(t) => ~ Posted(t) /\ ~ Running(t) /\ ~ Waiting(t) /\ ~ Called(t) /\ ~ Active(t)
  /\ Posted(t) => ~ Running(t) /\ ~ Waiting(t) /\ ~ Called(t) /\ ~ Active(t)
  /\ Running(t) => ~ Waiting(t) /\ ~ Called(t) /\ ~ Active(t)
  /\ Waiting(t) => ~ Called(t) /\ ~ Active(t)
  /\ Called(t) => ~ Active(t)

\* While a request is under way between the two sides the backend rests, and it
\* has ended only if the database can no longer be used.
UnderWayFine(t) ==
  Posted(t) \/ Called(t) \/ Active(t) =>
    /\ tx[t].next \in {"Idle", "End"}
    /\ tx[t].next = "End" => ~ Usable(t)
    /\ ~ Stopping(t) => tx[t].frontend \/ tx[t].next = "End"

PostedFine(t) ==
  Posted(t) =>
    /\ tx[t].requested \in BackendStates
    /\ Usable(t) /\ ~ Stopping(t) => LockReady(tx[t].requested, tx[t])
    /\ tx[t].frontend /\ ~ tx[t].lockAcquired => Opened(t)

RunningFine(t) ==
  Running(t) =>
    /\ phase[Context(t)] = "loop"
    /\ tx[t].frontend
    /\ tx[t].next \in BackendStates \cup FrontendStates
    /\ LockReady(tx[t].next, tx[t])
    /\ StatementReady(tx[t].next, tx[t])

CalledFine(t) ==
  Called(t) /\ Usable(t) =>
    /\ front[t].requested \in FrontendStates
    /\ StatementReady(front[t].requested, tx[t])
    /\ ~ Stopping(t) => LockReady(front[t].requested, tx[t])

ActiveFine(t) ==
  Active(t) /\ Usable(t) /\ ~ Stopping(t) => LockReady(front[t].next, tx[t])

WaitingFine(t) ==
  Waiting(t) =>
    /\ tx[t].next = "Idle" /\ ~ tx[t].lockAcquired
    /\ ~ Stopping(t) => tx[t].frontend

\* The coordinator and the transactions agree on who has the lock, until
\* shutdown() has cleaned up those who have it.
HolderFine(t) ==
  /\ ~ Stopping(t) => (Holds(t) <=> tx[t].frontend /\ tx[t].lockAcquired)
  /\ Stopping(t) => ~ (tx[t].frontend /\ tx[t].lockAcquired)

\* Before its first step a transaction is as it was made; one that has not had
\* its lock yet, and is to be cleaned up, is where somebody will find it.
FreshFine(t) ==
  /\ t \notin created =>
       ~ Queued(t) /\ ~ Posted(t) /\ ~ Running(t) /\ ~ Waiting(t) /\ ~ Called(t)
  /\ t \notin created \/ Queued(t) => tx[t] = FreshBackend /\ front[t] = FreshFront
  /\ Queued(t) => Opened(t)
  /\ t \in created /\ tx[t].frontend /\ ~ tx[t].lockAcquired =>
       Queued(t) \/ Posted(t) \/ Running(t) \/ Waiting(t)
  /\ (Called(t) \/ Active(t)) /\ tx[t].frontend => tx[t].lockAcquired

Fine(t) ==
  /\ RecordsFine(tx[t], front[t])
  /\ Apart(t) /\ UnderWayFine(t) /\ PostedFine(t) /\ RunningFine(t) /\ CalledFine(t)
  /\ ActiveFine(t) /\ WaitingFine(t) /\ HolderFine(t) /\ FreshFine(t)

HandleFine(d) ==
  /\ db[d].queueEnabled <=> db[d].opened
  /\ Unique(db[d].transactionQueue)
  /\ \A t \in ToSet(db[d].transactionQueue) : DatabaseOf[t] = d

ThreadFine(c) ==
  /\ Unique(tasks[c])
  /\ \A t \in ToSet(tasks[c]) \cap Transactions : Context(t) = c
  /\ \A d \in ToSet(tasks[c]) \cap Databases : ContextOf[d] = c /\ db[d].deleted
  /\ Unique(callbacks[c])
  /\ \A t \in ToSet(callbacks[c]) : Context(t) = c
  /\ running[c] # None => Context(running[c]) = c

EntryFine(c) ==
  /\ Entry!Good(info[c])
  /\ \A t \in ToSet(info[c].pending) \cup Entry!HoldersOf(info[c]) : Context(t) = c
  /\ phase[c] \in {"closing", "finished"} => info[c].pending = <<>>
  /\ phase[c] = "finished" => \A d \in HandlesOf(c) : ~ db[d].opened

\* A handle has one transaction at a time that is out of its queue and is not
\* cleaned up, and m_transactionInProgress says so while the handle is open.
InProgress(t) == t \in created /\ tx[t].frontend /\ ~ Queued(t)

OneInProgress ==
  /\ \A t, u \in Transactions :
       InProgress(t) /\ InProgress(u) /\ DatabaseOf[t] = DatabaseOf[u] => t = u
  /\ \A t \in Transactions :
       InProgress(t) /\ Opened(t) => db[DatabaseOf[t]].transactionInProgress

OriginLockFine ==
  originLock # None => tx[originLock].frontend /\ tx[originLock].lockAcquired

Inv ==
  /\ Types
  /\ \A d \in Databases : HandleFine(d)
  /\ \A c \in Contexts : ThreadFine(c) /\ EntryFine(c)
  /\ \A t \in Transactions : Fine(t)
  /\ OneInProgress
  /\ OriginLockFine

\* Nothing that Fine(t) depends on changes for the worse.
Same(t) ==
  /\ tx'[t] = tx[t] /\ front'[t] = front[t]
  /\ t \in created' <=> t \in created
  /\ Queued(t)' <=> Queued(t)
  /\ Posted(t)' <=> Posted(t)
  /\ Running(t)' <=> Running(t)
  /\ Waiting(t)' <=> Waiting(t)
  /\ Called(t)' <=> Called(t)
  /\ Holds(t)' <=> Holds(t)
  /\ Opened(t) /\ (Queued(t) \/ Posted(t)) => Opened(t)'
  /\ Usable(t)' => Usable(t)
  /\ Stopping(t)' <=> Stopping(t)
  /\ Running(t) => phase'[Context(t)] = phase[Context(t)]

-----------------------------------------------------------------------------
(***************************************************************************)
(* Queues and the sets of what is in them                                  *)
(***************************************************************************)

(* The elements of a sequence, by their indices.                           *)
LEMMA Elements ==
  ASSUME NEW S, NEW s \in Seq(S)
  PROVE  /\ Len(s) \in Nat
         /\ \A x : x \in ToSet(s) <=> \E i \in 1 .. Len(s) : s[i] = x
         /\ ToSet(s) \subseteq S
         /\ s = <<>> <=> ToSet(s) = {}
<1>1. DOMAIN s = 1 .. Len(s) /\ Len(s) \in Nat
  OBVIOUS
<1>2. \A x : x \in ToSet(s) <=> \E i \in 1 .. Len(s) : s[i] = x
  BY <1>1 DEF ToSet
<1>3. ToSet(s) \subseteq S
  BY <1>2
<1>4. s = <<>> => ToSet(s) = {}
  BY <1>2
<1>5. s # <<>> => ToSet(s) # {}
  <2>1. s # <<>> => 1 \in 1 .. Len(s)
    BY <1>1
  <2> QED BY <1>2, <2>1
<1> QED BY <1>1, <1>2, <1>3, <1>4, <1>5

(* The empty queue.                                                        *)
LEMMA EmptySet == ToSet(<<>>) = {} /\ Unique(<<>>)
BY DEF ToSet, Unique

(* A queue of one element.                                                 *)
LEMMA SingletonSet ==
  ASSUME NEW S, NEW x \in S
  PROVE  <<x>> \in Seq(S) /\ ToSet(<<x>>) = {x} /\ Unique(<<x>>)
<1>1. PICK s : s = <<x>>
  OBVIOUS
<1>2. s \in Seq(S) /\ Len(s) = 1 /\ s[1] = x
  BY <1>1
<1>3. \A i : i \in 1 .. Len(s) <=> i = 1
  BY <1>2
<1>4. ToSet(s) = {x}
  BY <1>2, <1>3, Elements
<1>5. Unique(s)
  BY <1>3 DEF Unique
<1> QED BY <1>1, <1>2, <1>4, <1>5

(* Appending adds one element.                                             *)
LEMMA AppendSet ==
  ASSUME NEW S, NEW s \in Seq(S), NEW x \in S
  PROVE  /\ Append(s, x) \in Seq(S)
         /\ ToSet(Append(s, x)) = ToSet(s) \cup {x}
         /\ Unique(s) /\ x \notin ToSet(s) => Unique(Append(s, x))
<1> DEFINE a == Append(s, x)
<1>1. /\ a \in Seq(S) /\ Len(s) \in Nat /\ Len(a) = Len(s) + 1 /\ a[Len(s) + 1] = x
      /\ \A i \in 1 .. Len(s) : a[i] = s[i]
  OBVIOUS
<1> HIDE DEF a
<1>2. \A i : i \in 1 .. Len(a) <=> i \in 1 .. Len(s) \/ i = Len(s) + 1
  BY <1>1
<1>3. ToSet(a) = ToSet(s) \cup {x}
  BY <1>1, <1>2, Elements
<1>4. Unique(s) /\ x \notin ToSet(s) => Unique(a)
  BY <1>1, <1>2, Elements DEF Unique
<1> QED BY <1>1, <1>3, <1>4 DEF a

(* Taking the first element off removes it, if it is there once.           *)
LEMMA TailSet ==
  ASSUME NEW S, NEW s \in Seq(S), s # <<>>
  PROVE  /\ Tail(s) \in Seq(S) /\ Head(s) \in S /\ Head(s) \in ToSet(s)
         /\ ToSet(s) = {Head(s)} \cup ToSet(Tail(s))
         /\ Unique(s) => Unique(Tail(s)) /\ Head(s) \notin ToSet(Tail(s))
<1> DEFINE u == Tail(s)
<1>1. /\ u \in Seq(S) /\ Len(s) \in Nat /\ Len(s) > 0 /\ Len(u) = Len(s) - 1
      /\ Head(s) = s[1] /\ \A i \in 1 .. Len(u) : u[i] = s[i + 1]
  OBVIOUS
<1> HIDE DEF u
<1>2. \A i : i \in 1 .. Len(s) <=> i = 1 \/ (i - 1 \in 1 .. Len(u) /\ i \in Nat)
  BY <1>1
<1>3. ToSet(s) = {Head(s)} \cup ToSet(u)
  <2>1. ToSet(s) \subseteq {Head(s)} \cup ToSet(u)
    <3> SUFFICES ASSUME NEW x \in ToSet(s), x # s[1] PROVE x \in ToSet(u)
      BY <1>1
    <3>1. PICK i \in 1 .. Len(s) : s[i] = x
      BY Elements
    <3>2. i - 1 \in 1 .. Len(u) /\ u[i - 1] = x
      BY <1>1, <3>1
    <3> QED BY <3>2, <1>1, Elements
  <2>2. {Head(s)} \cup ToSet(u) \subseteq ToSet(s)
    <3>1. 1 \in 1 .. Len(s)
      BY <1>1
    <3>2. \A i \in 1 .. Len(u) : i + 1 \in 1 .. Len(s)
      BY <1>1
    <3> QED BY <1>1, <3>1, <3>2, Elements
  <2> QED BY <2>1, <2>2
<1>4. Unique(s) => Unique(u)
  BY <1>1 DEF Unique
<1>5. Unique(s) => Head(s) \notin ToSet(u)
  <2> SUFFICES ASSUME Unique(s), Head(s) \in ToSet(u) PROVE FALSE
    OBVIOUS
  <2>1. PICK i \in 1 .. Len(u) : u[i] = Head(s)
    BY <1>1, Elements
  <2>2. s[i + 1] = s[1] /\ i + 1 \in 1 .. Len(s) /\ 1 \in 1 .. Len(s) /\ i + 1 # 1
    BY <1>1, <2>1
  <2> QED BY <2>2 DEF Unique
<1>6. Head(s) \in S
  BY <1>1
<1> QED BY <1>1, <1>3, <1>4, <1>5, <1>6 DEF u

(* A queue that is appended to another one.                                *)
LEMMA ConcatSet ==
  ASSUME NEW S, NEW s \in Seq(S), NEW u \in Seq(S)
  PROVE  /\ s \o u \in Seq(S)
         /\ ToSet(s \o u) = ToSet(s) \cup ToSet(u)
         /\ Unique(s) /\ Unique(u) /\ ToSet(s) \cap ToSet(u) = {} => Unique(s \o u)
<1> DEFINE a == s \o u
<1>1. /\ a \in Seq(S) /\ Len(s) \in Nat /\ Len(u) \in Nat /\ Len(a) = Len(s) + Len(u)
      /\ \A i \in 1 .. Len(s) : a[i] = s[i]
      /\ \A i \in 1 .. Len(u) : a[i + Len(s)] = u[i]
  BY ConcatProperties
<1> HIDE DEF a
<1>2. ASSUME NEW i \in 1 .. Len(a)
      PROVE  \/ i \in 1 .. Len(s) /\ a[i] = s[i] /\ a[i] \in ToSet(s)
             \/ i - Len(s) \in 1 .. Len(u) /\ a[i] = u[i - Len(s)] /\ a[i] \in ToSet(u)
                /\ i \notin 1 .. Len(s)
  <2>1. CASE i \in 1 .. Len(s)
    BY <2>1, <1>1, Elements
  <2>2. CASE i \notin 1 .. Len(s)
    <3>1. i - Len(s) \in 1 .. Len(u) /\ (i - Len(s)) + Len(s) = i
      BY <1>1, <2>2
    <3>2. a[i] = u[i - Len(s)]
      BY <1>1, <3>1
    <3>3. a[i] \in ToSet(u)
      BY <3>1, <3>2, Elements
    <3> QED BY <3>1, <3>2, <3>3, <2>2
  <2> QED BY <2>1, <2>2
<1>a. \A x : x \in ToSet(a) <=> \E i \in 1 .. Len(a) : a[i] = x
  BY <1>1, Elements
<1>3. ToSet(a) \subseteq ToSet(s) \cup ToSet(u)
  BY <1>a, <1>2
<1>4. ToSet(s) \cup ToSet(u) \subseteq ToSet(a)
  <2>1. ASSUME NEW x \in ToSet(s) PROVE x \in ToSet(a)
    <3>1. PICK i \in 1 .. Len(s) : s[i] = x
      BY Elements
    <3>2. i \in 1 .. Len(a) /\ a[i] = x
      BY <1>1, <3>1
    <3> QED BY <3>2, <1>a
  <2>2. ASSUME NEW x \in ToSet(u) PROVE x \in ToSet(a)
    <3>1. PICK i \in 1 .. Len(u) : u[i] = x
      BY Elements
    <3>2. i + Len(s) \in 1 .. Len(a) /\ a[i + Len(s)] = x
      BY <1>1, <3>1
    <3> QED BY <3>2, <1>a
  <2> QED BY <2>1, <2>2
<1>5. Unique(s) /\ Unique(u) /\ ToSet(s) \cap ToSet(u) = {} => Unique(a)
  <2> SUFFICES ASSUME Unique(s), Unique(u), ToSet(s) \cap ToSet(u) = {},
                      NEW i \in 1 .. Len(a), NEW j \in 1 .. Len(a), a[i] = a[j]
               PROVE  i = j
    BY DEF Unique
  <2>1. CASE i \in 1 .. Len(s) /\ j \in 1 .. Len(s)
    BY <2>1, <1>1 DEF Unique
  <2>2. CASE i \notin 1 .. Len(s) /\ j \notin 1 .. Len(s)
    <3>1. i - Len(s) = j - Len(s)
      BY <2>2, <1>2 DEF Unique
    <3> QED BY <3>1, <1>1
  <2>3. CASE (i \in 1 .. Len(s)) # (j \in 1 .. Len(s))
    BY <2>3, <1>2
  <2> QED BY <2>1, <2>2, <2>3
<1> QED BY <1>1, <1>3, <1>4, <1>5 DEF a

(* A queue that is cut in two.                                             *)
LEMMA SplitSet ==
  ASSUME NEW S, NEW s \in Seq(S), NEW n \in 0 .. Len(s)
  PROVE  LET a == SubSeq(s, 1, n)
             b == SubSeq(s, n + 1, Len(s)) IN
         /\ a \in Seq(S) /\ b \in Seq(S) /\ Len(b) = Len(s) - n
         /\ ToSet(a) = {s[i] : i \in 1 .. n}
         /\ ToSet(s) = ToSet(a) \cup ToSet(b)
         /\ Unique(s) => Unique(a) /\ Unique(b) /\ ToSet(a) \cap ToSet(b) = {}
<1> DEFINE a == SubSeq(s, 1, n)
           b == SubSeq(s, n + 1, Len(s))
<1>1. /\ a \in Seq(S) /\ b \in Seq(S) /\ Len(s) \in Nat /\ n \in Nat
      /\ Len(a) = n /\ Len(b) = Len(s) - n
      /\ \A i \in 1 .. n : a[i] = s[i]
      /\ \A i \in 1 .. Len(b) : b[i] = s[n + i]
  BY SubSeqProperties
<1> HIDE DEF a, b
<1>2. ToSet(a) = {s[i] : i \in 1 .. n}
  BY <1>1, Elements
<1>3. ToSet(s) = ToSet(a) \cup ToSet(b)
  <2>1. /\ \A x : x \in ToSet(a) <=> \E i \in 1 .. n : a[i] = x
        /\ \A x : x \in ToSet(b) <=> \E i \in 1 .. Len(b) : b[i] = x
    BY <1>1, Elements
  <2>2. ASSUME NEW x \in ToSet(s) PROVE x \in ToSet(a) \cup ToSet(b)
    <3>1. PICK i \in 1 .. Len(s) : s[i] = x
      BY Elements
    <3>2. CASE i \in 1 .. n
      BY <1>1, <2>1, <3>1, <3>2
    <3>3. CASE i \notin 1 .. n
      <4>1. i - n \in 1 .. Len(b) /\ n + (i - n) = i
        BY <1>1, <3>3
      <4>2. b[i - n] = x
        BY <1>1, <3>1, <4>1
      <4> QED BY <2>1, <4>1, <4>2
    <3> QED BY <3>2, <3>3
  <2>3. ASSUME NEW x \in ToSet(a) PROVE x \in ToSet(s)
    <3>1. PICK i \in 1 .. n : a[i] = x
      BY <2>1
    <3>2. i \in 1 .. Len(s) /\ s[i] = x
      BY <1>1, <3>1
    <3> QED BY <3>2, Elements
  <2>4. ASSUME NEW x \in ToSet(b) PROVE x \in ToSet(s)
    <3>1. PICK i \in 1 .. Len(b) : b[i] = x
      BY <2>1
    <3>2. n + i \in 1 .. Len(s) /\ s[n + i] = x
      BY <1>1, <3>1
    <3> QED BY <3>2, Elements
  <2> QED BY <2>2, <2>3, <2>4
<1>4. Unique(s) => Unique(a) /\ Unique(b)
  <2> SUFFICES ASSUME Unique(s) PROVE Unique(a) /\ Unique(b)
    OBVIOUS
  <2>1. Unique(a)
    BY <1>1 DEF Unique
  <2>2. ASSUME NEW i \in 1 .. Len(b), NEW j \in 1 .. Len(b), b[i] = b[j] PROVE i = j
    <3>1. n + i \in 1 .. Len(s) /\ n + j \in 1 .. Len(s) /\ s[n + i] = s[n + j]
      BY <1>1, <2>2
    <3>2. n + i = n + j
      BY <3>1 DEF Unique
    <3> QED BY <1>1, <3>2
  <2> QED BY <2>1, <2>2 DEF Unique
<1>5. Unique(s) => ToSet(a) \cap ToSet(b) = {}
  <2> SUFFICES ASSUME Unique(s), NEW x \in ToSet(a), x \in ToSet(b) PROVE FALSE
    OBVIOUS
  <2>1. PICK i \in 1 .. n : a[i] = x
    BY <1>1, Elements
  <2>2. PICK j \in 1 .. Len(b) : b[j] = x
    BY <1>1, Elements
  <2>3. i \in 1 .. Len(s) /\ n + j \in 1 .. Len(s) /\ i # n + j /\ s[i] = s[n + j]
    BY <1>1, <2>1, <2>2
  <2> QED BY <2>3 DEF Unique
<1> QED BY <1>1, <1>2, <1>3, <1>4, <1>5 DEF a, b

(* Every set of numbers has a least element.                               *)
LEMMA LeastNumber ==
  ASSUME NEW S \in SUBSET Nat, S # {}
  PROVE  \E m \in S : \A k \in S : ~ (k < m)
<1> DEFINE R == {p \in Nat \X Nat : p[1] < p[2]}
<1>1. \E m \in S : \A k \in S : <<k, m>> \notin R
  <2>1. IsWellFoundedOn(R, Nat)
    BY NatLessThanWellFounded, Zenon DEF OpToRel
  <2> HIDE DEF R
  <2> QED BY <2>1, WFMin
<1>2. \A k, m \in S : k < m => <<k, m>> \in R
  OBVIOUS
<1> HIDE DEF R
<1> QED BY <1>1, <1>2

(* removeIf() goes through the queue element by element: the recursion in  *)
(* its definition has a value.                                             *)
LEMMA RemoveIfUnfolds ==
  ASSUME NEW S, NEW s \in Seq(S), NEW X
  PROVE  \E F : /\ removeIf(s, X) = F[Len(s)]
               /\ F[0] = <<>>
               /\ \A n \in 1 .. Len(s) :
                    F[n] = IF s[n] \in X THEN F[n - 1] ELSE Append(F[n - 1], s[n])
<1> DEFINE G(f, n) == IF n = 0 THEN <<>>
                      ELSE IF s[n] \in X THEN f[n - 1] ELSE Append(f[n - 1], s[n])
           Upto(n) == \E f : f = [k \in 0 .. n |-> G(f, k)]
           Bad == {n \in 0 .. Len(s) : ~ Upto(n)}
           F == CHOOSE f : f = [k \in 0 .. Len(s) |-> G(f, k)]
<1>1. Len(s) \in Nat
  OBVIOUS
<1>2. Bad = {}
  <2> SUFFICES ASSUME Bad # {} PROVE FALSE
    OBVIOUS
  <2>1. Bad \in SUBSET Nat
    BY <1>1
  <2>2. PICK m \in Bad : \A k \in Bad : ~ (k < m)
    <3> HIDE DEF Bad
    <3> QED BY <2>1, LeastNumber
  <2>3. CASE m = 0
    <3>1. [k \in 0 .. 0 |-> <<>>] = [k \in 0 .. 0 |-> G([j \in 0 .. 0 |-> <<>>], k)]
      OBVIOUS
    <3> QED BY <2>3, <3>1
  <2>4. CASE m # 0
    <3>1. m \in Nat /\ m - 1 \in 0 .. Len(s) /\ m - 1 < m /\ m - 1 \in Nat
      BY <1>1, <2>4
    <3>2. Upto(m - 1)
      BY <2>2, <3>1
    <3>3. PICK f : f = [k \in 0 .. (m - 1) |-> G(f, k)]
      BY <3>2
    <3> DEFINE g == [k \in 0 .. m |-> IF k = m THEN G(f, m) ELSE f[k]]
    <3>4. ASSUME NEW k \in 0 .. m PROVE g[k] = G(g, k)
      <4>1. CASE k = 0
        BY <4>1, <3>1, <3>3, <2>4
      <4>2. CASE k # 0 /\ k # m
        <5>1. k \in 0 .. (m - 1) /\ k - 1 \in 0 .. m /\ k - 1 # m
          BY <3>1, <4>2
        <5>2. f[k] = G(f, k)
          BY <3>3, <5>1
        <5>3. g[k] = f[k] /\ g[k - 1] = f[k - 1]
          BY <5>1, <4>2
        <5> HIDE DEF g
        <5> QED BY <5>2, <5>3, <4>2
      <4>3. CASE k = m
        <5>1. m - 1 \in 0 .. m /\ m - 1 # m
          BY <3>1
        <5>2. g[k] = G(f, m) /\ g[m - 1] = f[m - 1]
          BY <5>1, <4>3
        <5> HIDE DEF g
        <5> QED BY <5>2, <4>3, <2>4
      <4> QED BY <4>1, <4>2, <4>3
    <3>5. g = [k \in 0 .. m |-> G(g, k)]
      <4>1. g = [k \in 0 .. m |-> g[k]]
        OBVIOUS
      <4> HIDE DEF g
      <4> QED BY <4>1, <3>4
    <3> HIDE DEF g
    <3> QED BY <3>5, <2>2
  <2> QED BY <2>3, <2>4
<1>3. Upto(Len(s))
  <2>1. Len(s) \in 0 .. Len(s)
    BY <1>1
  <2> HIDE DEF Upto
  <2> QED BY <1>2, <2>1
<1>4. removeIf(s, X) = F[Len(s)]
  BY DEF removeIf
<1>5. F = [k \in 0 .. Len(s) |-> G(F, k)]
  <2>1. F = CHOOSE f : f = [k \in 0 .. Len(s) |-> G(f, k)]
    OBVIOUS
  <2> HIDE DEF F
  <2> QED BY <1>3, <2>1
<1> HIDE DEF F
<1>6. F[0] = <<>>
  BY <1>1, <1>5
<1>7. ASSUME NEW n \in 1 .. Len(s)
      PROVE  F[n] = IF s[n] \in X THEN F[n - 1] ELSE Append(F[n - 1], s[n])
  <2>1. n \in 0 .. Len(s) /\ n # 0
    BY <1>1
  <2>2. F[n] = G(F, n)
    BY <1>5, <2>1
  <2> QED BY <2>1, <2>2
<1> QED BY <1>4, <1>6, <1>7

(* removeIf() keeps the elements that are not in X, and no other.          *)
LEMMA RemoveIfSet ==
  ASSUME NEW S, NEW s \in Seq(S), NEW X
  PROVE  /\ removeIf(s, X) \in Seq(S)
         /\ ToSet(removeIf(s, X)) = ToSet(s) \ X
         /\ Unique(s) => Unique(removeIf(s, X))
<1>1. PICK F : /\ removeIf(s, X) = F[Len(s)]
               /\ F[0] = <<>>
               /\ \A n \in 1 .. Len(s) :
                    F[n] = IF s[n] \in X THEN F[n - 1] ELSE Append(F[n - 1], s[n])
  BY RemoveIfUnfolds
<1> DEFINE First(n) == {s[i] : i \in 1 .. n}
           Good(n) == /\ F[n] \in Seq(S)
                      /\ ToSet(F[n]) = First(n) \ X
                      /\ Unique(s) => Unique(F[n])
           Bad == {n \in 0 .. Len(s) : ~ Good(n)}
<1>2. Len(s) \in Nat
  OBVIOUS
<1>3. Good(0)
  <2>1. First(0) = {}
    OBVIOUS
  <2> QED BY <1>1, <2>1, EmptySet
<1>4. ASSUME NEW n \in 1 .. Len(s), Good(n - 1) PROVE Good(n)
  <2>1. First(n) = First(n - 1) \cup {s[n]} /\ s[n] \in S
    <3>1. n \in Nat /\ \A i : i \in 1 .. n <=> i \in 1 .. (n - 1) \/ i = n
      BY <1>2
    <3> QED BY <3>1
  <2>2. CASE s[n] \in X
    <3>1. F[n] = F[n - 1] /\ First(n) \ X = First(n - 1) \ X
      BY <1>1, <2>1, <2>2
    <3> HIDE DEF First
    <3> QED BY <3>1, <1>4
  <2>3. CASE s[n] \notin X
    <3>1. F[n] = Append(F[n - 1], s[n])
      BY <1>1, <2>3
    <3>2. First(n) \ X = (First(n - 1) \ X) \cup {s[n]}
      BY <2>1, <2>3
    <3>3. Unique(s) => s[n] \notin First(n - 1)
      <4> SUFFICES ASSUME Unique(s), NEW i \in 1 .. (n - 1), s[i] = s[n] PROVE FALSE
        OBVIOUS
      <4>1. i \in 1 .. Len(s) /\ i # n
        BY <1>2
      <4> QED BY <4>1 DEF Unique
    <3> HIDE DEF First
    <3> QED BY <3>1, <3>2, <3>3, <1>4, <2>1, AppendSet
  <2> QED BY <2>2, <2>3
<1>5. Bad = {}
  <2> SUFFICES ASSUME Bad # {} PROVE FALSE
    OBVIOUS
  <2> HIDE DEF Good
  <2>1. PICK m \in Bad : \A k \in Bad : ~ (k < m)
    <3>1. Bad \in SUBSET Nat
      BY <1>2
    <3> HIDE DEF Bad
    <3> QED BY <3>1, LeastNumber
  <2>2. m \in 1 .. Len(s) /\ m - 1 \in 0 .. Len(s) /\ m - 1 < m
    BY <1>2, <1>3
  <2>3. Good(m - 1)
    BY <2>1, <2>2
  <2> QED BY <2>2, <2>3, <1>4
<1>6. Good(Len(s))
  <2>1. Len(s) \in 0 .. Len(s)
    BY <1>2
  <2> HIDE DEF Good
  <2> QED BY <1>5, <2>1
<1>7. First(Len(s)) = ToSet(s)
  BY Elements
<1> HIDE DEF First
<1> QED BY <1>1, <1>6, <1>7

-----------------------------------------------------------------------------
(***************************************************************************)
(* The coordinator's entry                                                 *)
(***************************************************************************)

(* The operators of the coordinator of a context do not depend on the      *)
(* context.                                                                *)
LEMMA SameEntry ==
  ASSUME NEW c, NEW i, NEW q, NEW t
  PROVE  /\ Coordinator(c)!Released(i, t) = Entry!Released(i, t)
         /\ Coordinator(c)!Acquired(i, t) = Entry!Acquired(i, t)
         /\ Coordinator(c)!Granted(q, i) = Entry!Granted(q, i)
         /\ Coordinator(c)!Infos = Entry!Infos
         /\ Coordinator(c)!EmptyInfo = Entry!EmptyInfo
<1>1. \A x : Coordinator(c)!LeadingReaders(x) = Entry!LeadingReaders(x)
  BY DEF Coordinator!LeadingReaders, Entry!LeadingReaders
<1>2. \A x : Coordinator(c)!processPendingTransactions(x) = Entry!processPendingTransactions(x)
  BY <1>1, Zenon DEF Coordinator!processPendingTransactions, Entry!processPendingTransactions
<1>3. Coordinator(c)!Released(i, t) = Entry!Released(i, t)
  <2>1. CASE t \in ReadOnly
    BY <1>2, <2>1 DEF Coordinator!Released, Entry!Released
  <2>2. CASE t \notin ReadOnly
    BY <1>2, <2>2 DEF Coordinator!Released, Entry!Released
  <2> QED BY <2>1, <2>2
<1>4. Coordinator(c)!Acquired(i, t) = Entry!Acquired(i, t)
  BY <1>2, Zenon DEF Coordinator!Acquired, Entry!Acquired
<1>5. Coordinator(c)!Granted(q, i) = Entry!Granted(q, i)
  BY DEF Coordinator!Granted, Entry!Granted
<1>6. Coordinator(c)!Infos = Entry!Infos
  BY DEF Coordinator!Infos, Entry!Infos
<1>7. Coordinator(c)!EmptyInfo = Entry!EmptyInfo
  BY DEF Coordinator!EmptyInfo, Entry!EmptyInfo
<1> QED BY <1>3, <1>4, <1>5, <1>6, <1>7

(* The fields of an entry, and what makes it good, said of the sets.       *)
LEMMA GoodFields ==
  ASSUME NEW i, Entry!Good(i)
  PROVE  /\ i \in Entry!Infos
         /\ i.pending \in Seq(Transactions) /\ ToSet(i.pending) \subseteq Transactions
         /\ Entry!HoldersOf(i) \subseteq Transactions
         /\ Unique(i.pending)
         /\ ToSet(i.pending) \cap Entry!HoldersOf(i) = {}
         /\ \A t \in Entry!HoldersOf(i) :
              t \in IF t \in ReadOnly THEN i.activeReads ELSE i.activeWrite
         /\ \A s, t \in Entry!HoldersOf(i) : s # t => s \in ReadOnly /\ t \in ReadOnly
<1>1. i \in Entry!Infos /\ Entry!Alone(i) /\ Entry!NoneTwice(i)
  BY DEF Entry!Good
<1>2. /\ i.pending \in Seq(Transactions)
      /\ i.activeWrite \subseteq Transactions /\ i.activeReads \subseteq Transactions
  BY <1>1 DEF Entry!Infos
<1>3. ToSet(i.pending) \subseteq Transactions
  BY <1>2, Elements
<1>4. Unique(i.pending)
  BY <1>1 DEF Entry!NoneTwice, Unique
<1>5. ToSet(i.pending) \cap Entry!HoldersOf(i) = {}
  <2>1. \A x : x \in ToSet(i.pending) => \E j \in 1 .. Len(i.pending) : i.pending[j] = x
    BY <1>2, Elements
  <2> QED BY <1>1, <2>1 DEF Entry!NoneTwice
<1>6. /\ i.activeWrite # {} => i.activeReads = {}
      /\ \A s, t \in i.activeWrite : s = t
      /\ i.activeReads \subseteq ReadOnly
      /\ i.activeWrite \cap ReadOnly = {}
  BY <1>1 DEF Entry!Alone
<1> QED BY <1>1, <1>2, <1>3, <1>4, <1>5, <1>6 DEF Entry!HoldersOf

(* The entry that has just been made.                                      *)
LEMMA EmptyEntry ==
  /\ Entry!Good(Entry!EmptyInfo)
  /\ ToSet(Entry!EmptyInfo.pending) = {} /\ Entry!EmptyInfo.pending = <<>>
  /\ Entry!HoldersOf(Entry!EmptyInfo) = {}
<1>1. Entry!Good(Entry!EmptyInfo)
  BY Entry!EmptyIsGood
<1> QED BY <1>1, EmptySet DEF Entry!EmptyInfo, Entry!HoldersOf

\* Of the transactions W that waited those of g are let in and join the holders
\* H in the entry j.
LetIn(W, H, j, g) ==
  /\ Entry!Good(j)
  /\ g \in Seq(Transactions) /\ Unique(g)
  /\ W = ToSet(g) \cup ToSet(j.pending)
  /\ ToSet(g) \cap ToSet(j.pending) = {}
  /\ Entry!HoldersOf(j) = H \cup ToSet(g)

(* processPendingTransactions() moves the transactions that it tells of    *)
(* their lock from the queue to the holders.                               *)
LEMMA ProcessMoves ==
  ASSUME NEW a, Entry!Good(a), NEW j, j = Entry!processPendingTransactions(a),
         NEW g, g = Entry!Granted(a.pending, j)
  PROVE  /\ Entry!Good(j)
         /\ g \in Seq(Transactions) /\ Unique(g)
         /\ ToSet(a.pending) = ToSet(g) \cup ToSet(j.pending)
         /\ ToSet(g) \cap ToSet(j.pending) = {}
         /\ Entry!HoldersOf(j) = Entry!HoldersOf(a) \cup ToSet(g)
         /\ \E n : Entry!LetsIn(a, j, n)
<1>1. a \in Entry!Infos /\ a.pending \in Seq(Transactions) /\ Unique(a.pending)
  BY GoodFields
<1>2. Entry!Good(j) /\ \E n : Entry!LetsIn(a, j, n)
  BY <1>1, Entry!ProcessLetsIn
<1>3. PICK n : Entry!LetsIn(a, j, n)
  BY <1>2
<1>4. /\ n \in 0 .. Len(a.pending)
      /\ j.pending = SubSeq(a.pending, n + 1, Len(a.pending))
      /\ Entry!HoldersOf(j) = Entry!HoldersOf(a) \cup {a.pending[k] : k \in 1 .. n}
  BY <1>3 DEF Entry!LetsIn
<1>5. Len(j.pending) = Len(a.pending) - n
  BY <1>1, <1>4, SplitSet
<1>6. Len(a.pending) - Len(j.pending) = n
  BY <1>1, <1>4, <1>5
<1>7. g = SubSeq(a.pending, 1, n)
  BY <1>6 DEF Entry!Granted
<1> QED BY <1>1, <1>2, <1>4, <1>7, SplitSet

(* releaseLock(): the transaction is no holder any more, and the ones that *)
(* are told become holders.                                                *)
LEMMA ReleaseMoves ==
  ASSUME NEW c, NEW i, Entry!Good(i), NEW t \in Entry!HoldersOf(i),
         NEW j, j = Coordinator(c)!Released(i, t),
         NEW g, g = Coordinator(c)!Granted(i.pending, j)
  PROVE  LetIn(ToSet(i.pending), Entry!HoldersOf(i) \ {t}, j, g)
<1> DEFINE a == IF t \in ReadOnly THEN [i EXCEPT !.activeReads = @ \ {t}]
                                  ELSE [i EXCEPT !.activeWrite = {}]
<1>1. /\ i \in Entry!Infos /\ t \in Transactions
      /\ t \in IF t \in ReadOnly THEN i.activeReads ELSE i.activeWrite
  BY GoodFields
<1>2. /\ Entry!Good(a) /\ a.pending = i.pending
      /\ Entry!HoldersOf(a) = Entry!HoldersOf(i) \ {t}
  BY <1>1, Entry!RemovingIsGood
<1>3. j = Entry!processPendingTransactions(a)
  BY SameEntry DEF Entry!Released
<1>4. g = Entry!Granted(i.pending, j)
  BY SameEntry
<1> HIDE DEF a
<1>5. /\ Entry!Good(j)
      /\ g \in Seq(Transactions) /\ Unique(g)
      /\ ToSet(a.pending) = ToSet(g) \cup ToSet(j.pending)
      /\ ToSet(g) \cap ToSet(j.pending) = {}
      /\ Entry!HoldersOf(j) = Entry!HoldersOf(a) \cup ToSet(g)
      /\ \E n : Entry!LetsIn(a, j, n)
  BY <1>2, <1>3, <1>4, ProcessMoves
<1> QED BY <1>2, <1>5 DEF LetIn

(* acquireLock(): the transaction goes to the end of the queue, then the   *)
(* ones that are told become holders.                                      *)
LEMMA AcquireMoves ==
  ASSUME NEW c, NEW i, Entry!Good(i), NEW t \in Transactions,
         t \notin Entry!HoldersOf(i), t \notin ToSet(i.pending),
         NEW j, j = Coordinator(c)!Acquired(i, t),
         NEW g, g = Coordinator(c)!Granted(Append(i.pending, t), j)
  PROVE  LetIn(ToSet(i.pending) \cup {t}, Entry!HoldersOf(i), j, g)
<1> DEFINE a == [i EXCEPT !.pending = Append(@, t)]
<1>1. i \in Entry!Infos /\ i.pending \in Seq(Transactions)
  BY GoodFields
<1>2. \A k \in 1 .. Len(i.pending) : i.pending[k] # t
  BY <1>1, Elements
<1>3. /\ Entry!Good(a) /\ a.pending = Append(i.pending, t)
      /\ Entry!HoldersOf(a) = Entry!HoldersOf(i)
  BY <1>1, <1>2, Entry!AppendingIsGood
<1>4. j = Entry!processPendingTransactions(a)
  BY SameEntry DEF Entry!Acquired
<1>5. g = Entry!Granted(a.pending, j)
  BY <1>3, SameEntry
<1> HIDE DEF a
<1>6. /\ Entry!Good(j)
      /\ g \in Seq(Transactions) /\ Unique(g)
      /\ ToSet(a.pending) = ToSet(g) \cup ToSet(j.pending)
      /\ ToSet(g) \cap ToSet(j.pending) = {}
      /\ Entry!HoldersOf(j) = Entry!HoldersOf(a) \cup ToSet(g)
      /\ \E n : Entry!LetsIn(a, j, n)
  BY <1>3, <1>4, <1>5, ProcessMoves
<1>7. ToSet(a.pending) = ToSet(i.pending) \cup {t}
  BY <1>1, <1>3, AppendSet
<1> QED BY <1>3, <1>6, <1>7 DEF LetIn
-----------------------------------------------------------------------------
(***************************************************************************)
(* What the steps have in common                                           *)
(***************************************************************************)

(* The handle and the context of a transaction.                            *)
LEMMA Owners ==
  ASSUME NEW t \in Transactions
  PROVE  DatabaseOf[t] \in Databases /\ Context(t) \in Contexts /\ Context(t) = ContextOf[DatabaseOf[t]]
BY ConstantsAssumption DEF Context

(* A transaction that a step leaves alone stays fine.                      *)
LEMMA SameIsFine ==
  ASSUME NEW t \in Transactions, Fine(t), Same(t)
  PROVE  Fine(t)'
<1> USE DEF Same
<1>1. RecordsFine(tx[t], front[t])'
  BY DEF Fine
<1>2. Active(t)' <=> Active(t)
  BY DEF Active
<1>3. Apart(t)'
  BY <1>2 DEF Fine, Apart
<1>4. UnderWayFine(t)'
  BY <1>2 DEF Fine, UnderWayFine
<1>5. PostedFine(t)'
  BY DEF Fine, PostedFine
<1>6. RunningFine(t)'
  BY DEF Fine, RunningFine
<1>7. CalledFine(t)'
  BY DEF Fine, CalledFine
<1>8. ActiveFine(t)'
  BY <1>2 DEF Fine, ActiveFine
<1>9. WaitingFine(t)'
  BY DEF Fine, WaitingFine
<1>10. HolderFine(t)'
  BY DEF Fine, HolderFine
<1>11. FreshFine(t)'
  BY <1>2 DEF Fine, FreshFine
<1> QED BY <1>1, <1>3, <1>4, <1>5, <1>6, <1>7, <1>8, <1>9, <1>10, <1>11 DEF Fine

(* A handle still has one transaction in progress when no transaction      *)
(* comes out of its queue and no open handle forgets the one it has.       *)
LEMMA InProgressKept ==
  ASSUME OneInProgress,
         \A t \in Transactions : InProgress(t)' => InProgress(t),
         \A t \in Transactions :
           Opened(t)' => /\ Opened(t)
                         /\ db[DatabaseOf[t]].transactionInProgress =>
                              db'[DatabaseOf[t]].transactionInProgress
  PROVE  OneInProgress'
BY DEF OneInProgress

(* The parts of the invariant about a handle and about the coordinator     *)
(* depend on nothing else.                                                 *)
LEMMA HandlesKept ==
  ASSUME \A d \in Databases : HandleFine(d), UNCHANGED db
  PROVE  \A d \in Databases : HandleFine(d)'
BY DEF HandleFine

(* The same of the coordinator's entries.                                  *)
LEMMA EntriesKept ==
  ASSUME \A c \in Contexts : EntryFine(c), UNCHANGED <<info, phase>>,
         \A d \in Databases : db'[d].opened => db[d].opened
  PROVE  \A c \in Contexts : EntryFine(c)'
BY DEF EntryFine, HandlesOf

(* What is known of the transaction that a database thread runs.           *)
LEMMA RunningFacts ==
  ASSUME Inv, NEW t \in Transactions, Running(t)
  PROVE  /\ ~ Queued(t) /\ ~ Posted(t) /\ ~ Waiting(t) /\ ~ Called(t) /\ ~ Active(t)
         /\ t \in created /\ ~ Stopping(t) /\ front[t].next = "Idle"
         /\ RecordsFine(tx[t], front[t]) /\ RunningFine(t) /\ HolderFine(t)
<1>1. Fine(t)
  BY DEF Inv
<1>2. ~ Queued(t) /\ ~ Posted(t) /\ ~ Waiting(t) /\ ~ Called(t) /\ ~ Active(t)
  BY <1>1 DEF Fine, Apart
<1>3. t \in created
  BY <1>1 DEF Fine, FreshFine
<1>4. ~ Stopping(t)
  BY <1>1 DEF Fine, RunningFine, Stopping, ShuttingDown
<1> QED BY <1>1, <1>2, <1>3, <1>4 DEF Fine, Active

(* A state function of the backend returns: it keeps the lock and the      *)
(* frontend, and the next state function finds what it needs.              *)
LEMMA BackendStep ==
  ASSUME Inv, NEW c \in Contexts, NEW t \in TransactionsOf(c), running[c] = t,
         NEW r \in BackendRecords, Return(c, t, r),
         UNCHANGED <<db, front, created, info, tasks, phase, callbacks, threadVars>>,
         tx[t].lockAcquired, r.lockAcquired, r.frontend,
         r.next \in BackendStates \cup FrontendStates,
         LockReady(r.next, r), StatementReady(r.next, r),
         r.statements <= tx[t].statements,
         r.retry => r.current \in {"quota", "reported"},
         originLock' \in {originLock, None, t}, originLock' = t => t \notin ReadOnly
  PROVE  Inv'
<1>1. t \in Transactions /\ Context(t) = c /\ Running(t)
  BY DEF TransactionsOf, Running
<1>2. Types /\ OneInProgress /\ OriginLockFine /\ t # None
  BY <1>1, ConstantsAssumption DEF Inv
<1>3. ~ AtRest(r.next)
  BY DEF AtRest, BackendStates, FrontendStates
<1>4. tx' = [tx EXCEPT ![t] = r] /\ running' = running
  <2>1. running' = [running EXCEPT ![c] = t]
    BY <1>3 DEF Return
  <2> QED BY <2>1, <1>2 DEF Return, Types
<1>5. tx'[t] = r /\ \A u \in Transactions : u # t => tx'[u] = tx[u]
  BY <1>1, <1>2, <1>4 DEF Types
<1>6. /\ RecordsFine(tx[t], front[t]) /\ RunningFine(t) /\ HolderFine(t) /\ tx[t].frontend
      /\ ~ Queued(t) /\ ~ Posted(t) /\ ~ Waiting(t) /\ ~ Called(t) /\ ~ Active(t)
      /\ t \in created /\ ~ Stopping(t) /\ front[t].next = "Idle"
  BY <1>1, RunningFacts DEF RunningFine
<1>7. Types'
  BY <1>2, <1>4, <1>1 DEF Types, threadVars
<1>8. \A u \in Transactions :
        /\ Queued(u)' <=> Queued(u)
        /\ Posted(u)' <=> Posted(u)
        /\ Running(u)' <=> Running(u)
        /\ Waiting(u)' <=> Waiting(u)
        /\ Called(u)' <=> Called(u)
        /\ Active(u)' <=> Active(u)
        /\ Holds(u)' <=> Holds(u)
        /\ Opened(u)' <=> Opened(u)
        /\ Usable(u)' <=> Usable(u)
        /\ Stopping(u)' <=> Stopping(u)
  BY <1>4 DEF Queued, Posted, Running, Waiting, Called, Active, Holds, Opened, Usable,
              Stopping, ShuttingDown, threadVars
<1>9. Fine(t)'
  <2>1. RecordsFine(tx[t], front[t])'
    <3>1. r.sqlite # "none" => r.lockAcquired
      OBVIOUS
    <3>2. r.next # "End"
      BY DEF BackendStates, FrontendStates
    <3>3. r.statements <= front[t].issued
      <4>1. r.statements \in Nat /\ tx[t].statements \in Nat /\ front[t].issued \in Nat
        <5>1. tx[t] \in BackendRecords /\ front[t] \in FrontRecords
          BY <1>1, <1>2 DEF Types
        <5> QED BY <5>1, ConstantsAssumption DEF BackendRecords, FrontRecords
      <4>2. tx[t].statements <= front[t].issued
        BY <1>6 DEF RecordsFine
      <4> QED BY <4>1, <4>2
    <3> QED BY <1>5, <1>6, <3>1, <3>2, <3>3 DEF RecordsFine, StatementReady
  <2>2. Apart(t)' /\ UnderWayFine(t)' /\ PostedFine(t)' /\ CalledFine(t)' /\ ActiveFine(t)'
        /\ WaitingFine(t)'
    BY <1>1, <1>6, <1>8 DEF Apart, UnderWayFine, PostedFine, CalledFine, ActiveFine, WaitingFine
  <2>3. RunningFine(t)'
    BY <1>5, <1>6, <1>1 DEF RunningFine
  <2>4. HolderFine(t)'
    BY <1>1, <1>5, <1>6, <1>8 DEF HolderFine
  <2>5. FreshFine(t)'
    BY <1>1, <1>5, <1>6, <1>8 DEF FreshFine
  <2> QED BY <2>1, <2>2, <2>3, <2>4, <2>5 DEF Fine
<1>10. ASSUME NEW u \in Transactions PROVE Fine(u)'
  <2>1. CASE u # t
    BY <2>1, <1>5, <1>8, SameIsFine DEF Same, Inv
  <2> QED BY <2>1, <1>9
<1>11. \A d \in Databases : HandleFine(d)'
  BY HandlesKept DEF Inv
<1>12. \A e \in Contexts : ThreadFine(e)'
  BY <1>4 DEF Inv, ThreadFine
<1>13. \A e \in Contexts : EntryFine(e)'
  BY EntriesKept DEF Inv
<1>14. OneInProgress'
  BY <1>2, <1>5, <1>6, <1>8, InProgressKept DEF InProgress
<1>15. OriginLockFine'
  <2>1. originLock' # None => tx'[originLock'].frontend /\ tx'[originLock'].lockAcquired
    <3>1. CASE originLock' = t
      BY <3>1, <1>5
    <3>2. CASE originLock' # t /\ originLock' # None
      BY <3>2, <1>2, <1>5 DEF OriginLockFine, Types
    <3> QED BY <3>1, <3>2
  <2> QED BY <2>1 DEF OriginLockFine
<1> QED BY <1>7, <1>10, <1>11, <1>12, <1>13, <1>14, <1>15 DEF Inv

-----------------------------------------------------------------------------
(***************************************************************************)
(* The state functions of the backend                                      *)
(***************************************************************************)

(* After an error the error callback is next, or the cleanup.              *)
LEMMA ErrorStates ==
  ASSUME NEW t, NEW r
  PROVE  /\ nextStateForTransactionError(t) \in
              {"DeliverTransactionErrorCallback", "CleanupAfterTransactionErrorCallback"}
         /\ nextStateForCurrentStatementError(t, r) \in
              {"DeliverStatementCallback", "DeliverTransactionErrorCallback",
               "CleanupAfterTransactionErrorCallback"}
         /\ nextStateForCurrentStatementError(t, r) = "DeliverStatementCallback" =>
              r.sqlite # "rolledBack"
BY DEF nextStateForTransactionError, nextStateForCurrentStatementError

(* What is known of the transaction whose state function runs.             *)
LEMMA RunsFacts ==
  ASSUME Inv, NEW c \in Contexts, NEW t \in TransactionsOf(c), running[c] = t
  PROVE  /\ t \in Transactions /\ Context(t) = c /\ Running(t)
         /\ tx[t] \in BackendRecords /\ front[t] \in FrontRecords
         /\ tx[t].frontend
         /\ tx[t].next # "AcquireLock" => tx[t].lockAcquired
         /\ LockReady(tx[t].next, tx[t]) /\ StatementReady(tx[t].next, tx[t])
         /\ RecordsFine(tx[t], front[t])
<1>1. t \in Transactions /\ Context(t) = c /\ Running(t)
  BY DEF TransactionsOf, Running
<1>2. tx[t] \in BackendRecords /\ front[t] \in FrontRecords
  BY <1>1 DEF Inv, Types
<1>3. RunningFine(t) /\ RecordsFine(tx[t], front[t])
  BY <1>1, RunningFacts
<1>4. /\ tx[t].frontend /\ LockReady(tx[t].next, tx[t])
      /\ StatementReady(tx[t].next, tx[t])
  BY <1>1, <1>3 DEF RunningFine
<1>5. tx[t].next # "AcquireLock" => tx[t].lockAcquired
  BY <1>4 DEF LockReady
<1> QED BY <1>1, <1>2, <1>3, <1>4, <1>5

(* The backend goes to an error state; its SQLite transaction stays.       *)
LEMMA ErrorReturn ==
  ASSUME Inv, NEW c \in Contexts, NEW t \in TransactionsOf(c), running[c] = t,
         tx[t].next # "AcquireLock",
         Return(c, t, [tx[t] EXCEPT !.next = nextStateForTransactionError(t)]),
         UNCHANGED <<db, front, created, info, tasks, phase, callbacks, threadVars>>,
         originLock' \in {originLock, None, t}, originLock' = t => t \notin ReadOnly
  PROVE  Inv'
<1> DEFINE r == [tx[t] EXCEPT !.next = nextStateForTransactionError(t)]
<1>1. /\ tx[t] \in BackendRecords /\ tx[t].frontend /\ tx[t].lockAcquired
      /\ RecordsFine(tx[t], front[t])
  BY RunsFacts
<1>2. /\ r \in BackendRecords /\ r.frontend /\ r.lockAcquired
      /\ r.next = nextStateForTransactionError(t)
      /\ r.statements = tx[t].statements /\ r.retry = tx[t].retry /\ r.current = tx[t].current
  BY <1>1, ErrorStates DEF BackendRecords, States
<1>3. r.statements <= tx[t].statements
  BY <1>1, <1>2, ConstantsAssumption DEF BackendRecords
<1> HIDE DEF r
<1>4. LockReady(r.next, r) /\ StatementReady(r.next, r)
  BY <1>2, ErrorStates DEF LockReady, StatementReady
<1>5. r.next \in BackendStates \cup FrontendStates
  BY <1>2, ErrorStates DEF BackendStates, FrontendStates
<1>6. r.retry => r.current \in {"quota", "reported"}
  BY <1>1, <1>2 DEF RecordsFine
<1> QED BY <1>1, <1>2, <1>3, <1>4, <1>5, <1>6, BackendStep DEF r

(* openTransactionAndPreflight(): the transaction takes the origin lock if *)
(* it writes, and opens its SQLite transaction or fails.                   *)
LEMMA OpenStep ==
  ASSUME Inv, NEW c \in Contexts, NEW t \in TransactionsOf(c), openTransactionAndPreflight(c, t)
  PROVE  Inv'
<1>1. /\ running[c] = t /\ tx[t].next = "OpenTransactionAndPreflight"
      /\ UNCHANGED <<db, front, created, info, tasks, phase, callbacks, threadVars>>
  BY DEF openTransactionAndPreflight, Runs
<1>2. originLock' \in {originLock, None, t} /\ (originLock' = t => t \notin ReadOnly)
  <2>1. originLock = t => t \notin ReadOnly
    <3>1. t # None
      BY ConstantsAssumption DEF TransactionsOf
    <3> QED BY <3>1 DEF Inv, Types
  <2> QED BY <2>1 DEF openTransactionAndPreflight, NeedsOriginLock
<1>3. CASE Return(c, t, [tx[t] EXCEPT !.next = nextStateForTransactionError(t)])
  BY <1>1, <1>2, <1>3, ErrorReturn
<1>4. CASE Return(c, t, [tx[t] EXCEPT !.next = nextStateAfterPreflight(t), !.sqlite = "open"])
  <2> DEFINE r == [tx[t] EXCEPT !.next = nextStateAfterPreflight(t), !.sqlite = "open"]
  <2>0. nextStateAfterPreflight(t) \in {"DeliverTransactionCallback", "RunStatements"}
    BY DEF nextStateAfterPreflight
  <2>1. /\ tx[t] \in BackendRecords /\ tx[t].frontend /\ tx[t].lockAcquired
        /\ RecordsFine(tx[t], front[t])
    BY <1>1, RunsFacts
  <2>2. /\ r \in BackendRecords /\ r.frontend /\ r.lockAcquired
        /\ r.next \in {"DeliverTransactionCallback", "RunStatements"} /\ r.sqlite = "open"
        /\ r.statements = tx[t].statements /\ r.retry = tx[t].retry /\ r.current = tx[t].current
    BY <2>0, <2>1 DEF BackendRecords, States
  <2>3. r.statements <= tx[t].statements
    BY <2>1, <2>2, ConstantsAssumption DEF BackendRecords
  <2> HIDE DEF r
  <2>4. LockReady(r.next, r) /\ StatementReady(r.next, r)
    BY <2>2 DEF LockReady, StatementReady
  <2>5. r.next \in BackendStates \cup FrontendStates
    BY <2>2 DEF BackendStates, FrontendStates
  <2>6. r.retry => r.current \in {"quota", "reported"}
    BY <2>1, <2>2 DEF RecordsFine
  <2> QED BY <1>1, <1>2, <1>4, <2>1, <2>2, <2>3, <2>4, <2>5, <2>6, BackendStep DEF r
<1> QED BY <1>3, <1>4 DEF openTransactionAndPreflight

(* What executing a statement makes of the backend q.                      *)
LEMMA ExecutedFacts ==
  ASSUME NEW t, NEW q \in BackendRecords, q.frontend, q.lockAcquired, ~ q.retry,
         q.sqlite \in {"open", "rolledBack"}, NEW r \in Executed(t, q)
  PROVE  /\ r \in BackendRecords /\ r.frontend /\ r.lockAcquired /\ ~ r.retry
         /\ r.statements = q.statements
         /\ r.next \in BackendStates \cup FrontendStates
         /\ LockReady(r.next, r) /\ StatementReady(r.next, r)
<1>1. CASE \E s \in {"RunStatements", "DeliverStatementCallback"} :
             r = [q EXCEPT !.next = s, !.current = "ran"]
  BY <1>1, ZenonT(60) DEF BackendRecords, States, BackendStates, FrontendStates, LockReady, StatementReady
<1>2. CASE \E x \in {q.sqlite, "rolledBack"} :
             LET f == [q EXCEPT !.sqlite = x] IN
             r = [f EXCEPT !.next = nextStateForCurrentStatementError(t, f), !.current = "ran"]
  <2>1. PICK x \in {q.sqlite, "rolledBack"} :
             LET f == [q EXCEPT !.sqlite = x] IN
             r = [f EXCEPT !.next = nextStateForCurrentStatementError(t, f), !.current = "ran"]
    BY <1>2
  <2>2. PICK s : /\ r = [q EXCEPT !.sqlite = x, !.next = s, !.current = "ran"]
                 /\ s \in {"DeliverStatementCallback", "DeliverTransactionErrorCallback",
                           "CleanupAfterTransactionErrorCallback"}
    <3> DEFINE f == [q EXCEPT !.sqlite = x]
    <3>1. nextStateForCurrentStatementError(t, f) \in
            {"DeliverStatementCallback", "DeliverTransactionErrorCallback",
             "CleanupAfterTransactionErrorCallback"}
      BY ErrorStates
    <3>2. r = [f EXCEPT !.next = nextStateForCurrentStatementError(t, f), !.current = "ran"]
      BY <2>1
    <3>3. \A s : [f EXCEPT !.next = s, !.current = "ran"] =
                 [q EXCEPT !.sqlite = x, !.next = s, !.current = "ran"]
      BY DEF BackendRecords
    <3> QED BY <3>1, <3>2, <3>3
  <2> QED BY <2>2, ZenonT(60) DEF BackendRecords, States, BackendStates, FrontendStates, LockReady, StatementReady
<1>3. CASE \E x \in {q.sqlite, "rolledBack"} :
             r = [q EXCEPT !.next = "DeliverQuotaIncreaseCallback", !.current = "quota", !.sqlite = x]
  BY <1>3, ZenonT(60) DEF BackendRecords, States, BackendStates, FrontendStates, LockReady, StatementReady
<1> QED BY <1>1, <1>2, <1>3, ZenonT(60) DEF Executed

(* One round of runStatements(): a statement is executed or tried again,   *)
(* its error is reported, or there is none left.                           *)
LEMMA RunStatementsStep ==
  ASSUME Inv, NEW c \in Contexts, NEW t \in TransactionsOf(c), runStatements(c, t)
  PROVE  Inv'
<1> DEFINE q == tx[t]
<1>1. /\ running[c] = t /\ q.next = "RunStatements"
      /\ UNCHANGED <<db, front, created, info, tasks, phase, callbacks, originLock, threadVars>>
  BY DEF runStatements, Runs
<1>2. /\ q \in BackendRecords /\ q.frontend /\ q.lockAcquired
      /\ RecordsFine(q, front[t]) /\ LockReady(q.next, q)
  BY <1>1, RunsFacts
<1>3. /\ q.sqlite \in {"open", "rolledBack"}
      /\ q.retry => q.current \in {"quota", "reported"}
      /\ q.statements \in Nat /\ q.statements \in 0 .. MaxStatements /\ MaxStatements \in Nat
  BY <1>1, <1>2, ConstantsAssumption DEF LockReady, RecordsFine, BackendRecords
<1>4. originLock' \in {originLock, None, t} /\ (originLock' = t => t \notin ReadOnly)
  <2>1. t # None
    BY ConstantsAssumption DEF TransactionsOf
  <2> QED BY <2>1, <1>1 DEF Inv, Types
<1>5. ASSUME NEW r \in BackendRecords, r.frontend, r.lockAcquired,
             r.retry => r.current \in {"quota", "reported"},
             r.statements <= q.statements,
             r.next \in BackendStates \cup FrontendStates,
             LockReady(r.next, r), StatementReady(r.next, r), Return(c, t, r)
      PROVE  Inv'
  BY <1>1, <1>2, <1>4, <1>5, BackendStep
<1>6. CASE \E r \in Executed(t, [q EXCEPT !.retry = FALSE]) : Return(c, t, r)
  <2> DEFINE p == [q EXCEPT !.retry = FALSE]
  <2>1. /\ p \in BackendRecords /\ p.frontend /\ p.lockAcquired /\ ~ p.retry
        /\ p.sqlite \in {"open", "rolledBack"} /\ p.statements = q.statements
    BY <1>2, <1>3 DEF BackendRecords
  <2>2. PICK r \in Executed(t, p) : Return(c, t, r)
    BY <1>6
  <2> HIDE DEF p
  <2>3. /\ r \in BackendRecords /\ r.frontend /\ r.lockAcquired /\ ~ r.retry
        /\ r.statements = p.statements
        /\ r.next \in BackendStates \cup FrontendStates
        /\ LockReady(r.next, r) /\ StatementReady(r.next, r)
    BY <2>1, <2>2, ExecutedFacts
  <2>4. r.statements <= q.statements
    BY <2>1, <2>3, <1>3
  <2> QED BY <2>2, <2>3, <2>4, <1>5
<1>7. CASE /\ q.current \notin {"quota", "reported"} /\ q.statements # 0
           /\ \E r \in Executed(t, [q EXCEPT !.statements = @ - 1]) : Return(c, t, r)
  <2> DEFINE p == [q EXCEPT !.statements = @ - 1]
  <2>1. /\ q.statements - 1 \in 0 .. MaxStatements /\ q.statements - 1 <= q.statements
        /\ ~ q.retry
    BY <1>3, <1>7
  <2>2. /\ p \in BackendRecords /\ p.frontend /\ p.lockAcquired /\ ~ p.retry
        /\ p.sqlite \in {"open", "rolledBack"} /\ p.statements = q.statements - 1
    BY <1>2, <1>3, <2>1 DEF BackendRecords
  <2>3. PICK r \in Executed(t, p) : Return(c, t, r)
    BY <1>7
  <2> HIDE DEF p
  <2>4. /\ r \in BackendRecords /\ r.frontend /\ r.lockAcquired /\ ~ r.retry
        /\ r.statements = p.statements
        /\ r.next \in BackendStates \cup FrontendStates
        /\ LockReady(r.next, r) /\ StatementReady(r.next, r)
    BY <2>2, <2>3, ExecutedFacts
  <2>5. r.statements <= q.statements
    BY <2>1, <2>2, <2>4, <1>3
  <2> QED BY <2>3, <2>4, <2>5, <1>5
<1>8. CASE /\ q.current \in {"quota", "reported"}
           /\ Return(c, t, [q EXCEPT !.next = nextStateForCurrentStatementError(t, q)])
  <2>1. PICK s : /\ s = nextStateForCurrentStatementError(t, q)
                 /\ s \in {"DeliverStatementCallback", "DeliverTransactionErrorCallback",
                           "CleanupAfterTransactionErrorCallback"}
    BY ErrorStates
  <2> DEFINE r == [q EXCEPT !.next = s]
  <2>2. /\ r \in BackendRecords /\ r.frontend /\ r.lockAcquired /\ r.next = s
        /\ r.sqlite = q.sqlite /\ r.current = q.current
        /\ r.statements = q.statements /\ r.retry = q.retry
    BY <1>2, <2>1 DEF BackendRecords, States
  <2> HIDE DEF r
  <2>3. LockReady(r.next, r) /\ StatementReady(r.next, r)
    BY <1>3, <1>8, <2>1, <2>2 DEF LockReady, StatementReady
  <2>4. r.next \in BackendStates \cup FrontendStates /\ r.statements <= q.statements
    BY <1>3, <2>1, <2>2 DEF BackendStates, FrontendStates
  <2> QED BY <1>3, <1>5, <1>8, <2>1, <2>2, <2>3, <2>4 DEF r
<1>9. CASE /\ q.current \notin {"quota", "reported"}
           /\ Return(c, t, [q EXCEPT !.next = "PostflightAndCommit", !.current = "none"])
  <2> DEFINE r == [q EXCEPT !.next = "PostflightAndCommit", !.current = "none"]
  <2>1. /\ r \in BackendRecords /\ r.frontend /\ r.lockAcquired
        /\ r.next = "PostflightAndCommit" /\ r.sqlite = q.sqlite
        /\ r.statements = q.statements /\ r.retry = q.retry
    BY <1>2 DEF BackendRecords, States
  <2> HIDE DEF r
  <2>2. LockReady(r.next, r) /\ StatementReady(r.next, r)
    BY <1>3, <2>1 DEF LockReady, StatementReady
  <2>3. r.next \in BackendStates \cup FrontendStates /\ r.statements <= q.statements
    BY <1>3, <2>1 DEF BackendStates, FrontendStates
  <2>4. ~ r.retry
    BY <1>3, <1>9, <2>1
  <2> QED BY <1>3, <1>5, <1>9, <2>1, <2>2, <2>3, <2>4 DEF r
<1> QED BY <1>6, <1>7, <1>8, <1>9 DEF runStatements

(* postflightAndCommit(): the commit works, or the transaction goes to an  *)
(* error state.                                                            *)
LEMMA PostflightStep ==
  ASSUME Inv, NEW c \in Contexts, NEW t \in TransactionsOf(c), postflightAndCommit(c, t)
  PROVE  Inv'
<1>1. /\ running[c] = t /\ tx[t].next = "PostflightAndCommit"
      /\ UNCHANGED <<db, front, created, info, tasks, phase, callbacks, threadVars>>
  BY DEF postflightAndCommit, Runs
<1>2. originLock' \in {originLock, None, t} /\ (originLock' = t => t \notin ReadOnly)
  <2>1. t # None
    BY ConstantsAssumption DEF TransactionsOf
  <2> QED BY <2>1 DEF postflightAndCommit, OriginLockWithout, Inv, Types
<1>3. CASE Return(c, t, [tx[t] EXCEPT !.next = nextStateForTransactionError(t)])
  BY <1>1, <1>2, <1>3, ErrorReturn
<1>4. CASE Return(c, t, [tx[t] EXCEPT !.next = "DeliverSuccessCallback", !.sqlite = "committed"])
  <2> DEFINE r == [tx[t] EXCEPT !.next = "DeliverSuccessCallback", !.sqlite = "committed"]
  <2>1. /\ tx[t] \in BackendRecords /\ tx[t].frontend /\ tx[t].lockAcquired
        /\ RecordsFine(tx[t], front[t])
    BY <1>1, RunsFacts
  <2>2. /\ r \in BackendRecords /\ r.frontend /\ r.lockAcquired
        /\ r.next = "DeliverSuccessCallback" /\ r.sqlite = "committed"
        /\ r.statements = tx[t].statements /\ r.retry = tx[t].retry /\ r.current = tx[t].current
    BY <2>1 DEF BackendRecords, States
  <2>3. r.statements <= tx[t].statements
    BY <2>1, <2>2, ConstantsAssumption DEF BackendRecords
  <2> HIDE DEF r
  <2>4. LockReady(r.next, r) /\ StatementReady(r.next, r)
    BY <2>2 DEF LockReady, StatementReady
  <2>5. r.next \in BackendStates \cup FrontendStates
    BY <2>2 DEF BackendStates, FrontendStates
  <2>6. r.retry => r.current \in {"quota", "reported"}
    BY <2>1, <2>2 DEF RecordsFine
  <2> QED BY <1>1, <1>2, <1>4, <2>1, <2>2, <2>3, <2>4, <2>5, <2>6, BackendStep DEF r
<1> QED BY <1>3, <1>4 DEF postflightAndCommit

(* cleanupAfterTransactionErrorCallback() rolls back and gives the origin  *)
(* lock back.                                                              *)
LEMMA CleanupAfterErrorStep ==
  ASSUME Inv, NEW c \in Contexts, NEW t \in TransactionsOf(c),
         cleanupAfterTransactionErrorCallback(c, t)
  PROVE  Inv'
<1>1. /\ running[c] = t /\ tx[t].next = "CleanupAfterTransactionErrorCallback"
      /\ UNCHANGED <<db, front, created, info, tasks, phase, callbacks, threadVars>>
      /\ Return(c, t, [tx[t] EXCEPT !.next = "CleanupAndTerminate", !.sqlite = "none"])
  BY DEF cleanupAfterTransactionErrorCallback, Runs
<1>2. originLock' \in {originLock, None, t} /\ (originLock' = t => t \notin ReadOnly)
  <2>1. t # None
    BY ConstantsAssumption DEF TransactionsOf
  <2> QED BY <2>1 DEF cleanupAfterTransactionErrorCallback, OriginLockWithout, Inv, Types
<1> DEFINE r == [tx[t] EXCEPT !.next = "CleanupAndTerminate", !.sqlite = "none"]
<1>3. /\ tx[t] \in BackendRecords /\ tx[t].frontend /\ tx[t].lockAcquired
      /\ RecordsFine(tx[t], front[t])
  BY <1>1, RunsFacts
<1>4. /\ r \in BackendRecords /\ r.frontend /\ r.lockAcquired
      /\ r.next = "CleanupAndTerminate" /\ r.sqlite = "none"
      /\ r.statements = tx[t].statements /\ r.retry = tx[t].retry /\ r.current = tx[t].current
  BY <1>3 DEF BackendRecords, States
<1>5. r.statements <= tx[t].statements
  BY <1>3, <1>4, ConstantsAssumption DEF BackendRecords
<1> HIDE DEF r
<1>6. LockReady(r.next, r) /\ StatementReady(r.next, r)
  BY <1>4 DEF LockReady, StatementReady
<1>7. r.next \in BackendStates \cup FrontendStates
  BY <1>4 DEF BackendStates, FrontendStates
<1>8. r.retry => r.current \in {"quota", "reported"}
  BY <1>3, <1>4 DEF RecordsFine
<1> QED BY <1>1, <1>2, <1>3, <1>4, <1>5, <1>6, <1>7, <1>8, BackendStep DEF r

-----------------------------------------------------------------------------
(***************************************************************************)
(* The state functions of the frontend                                     *)
(***************************************************************************)

(* What is known of the transaction that the script thread is running.     *)
LEMMA ActiveFacts ==
  ASSUME Inv, NEW t \in Transactions, Active(t)
  PROVE  /\ ~ Queued(t) /\ ~ Posted(t) /\ ~ Running(t) /\ ~ Waiting(t) /\ ~ Called(t)
         /\ t \in created
         /\ tx[t] \in BackendRecords /\ front[t] \in FrontRecords
         /\ RecordsFine(tx[t], front[t])
<1>1. Fine(t) /\ tx[t] \in BackendRecords /\ front[t] \in FrontRecords
  BY DEF Inv, Types
<1>2. ~ Queued(t) /\ ~ Posted(t) /\ ~ Running(t) /\ ~ Waiting(t) /\ ~ Called(t)
  BY <1>1 DEF Fine, Apart
<1>3. t \in created
  BY <1>1 DEF Fine, FreshFine, FreshFront, Active
<1> QED BY <1>1, <1>2, <1>3 DEF Fine

(* A callback returns: the backend keeps its state, its lock, its frontend *)
(* and its SQLite transaction, and the next state function finds what it   *)
(* needs.                                                                  *)
LEMMA FrontStep ==
  ASSUME Inv, NEW t \in Transactions, Active(t),
         tx' \in [Transactions -> BackendRecords], front' \in [Transactions -> FrontRecords],
         \A u \in Transactions : u # t => tx'[u] = tx[u] /\ front'[u] = front[u],
         UNCHANGED <<db, created, info, tasks, phase, running, callbacks, originLock, threadVars>>,
         tx'[t].next = tx[t].next, tx'[t].frontend = tx[t].frontend,
         tx'[t].lockAcquired = tx[t].lockAcquired, tx'[t].sqlite = tx[t].sqlite,
         RecordsFine(tx'[t], front'[t]), front'[t].next # "Idle",
         LockReady(front[t].next, tx[t]) => LockReady(front'[t].next, tx'[t])
  PROVE  Inv'
<1>1. Types /\ OneInProgress /\ OriginLockFine /\ Fine(t)
  BY DEF Inv
<1>2. Types'
  BY <1>1 DEF Types, threadVars
<1>3. \A u \in Transactions :
        /\ Queued(u)' <=> Queued(u)
        /\ Posted(u)' <=> Posted(u)
        /\ Running(u)' <=> Running(u)
        /\ Waiting(u)' <=> Waiting(u)
        /\ Called(u)' <=> Called(u)
        /\ Holds(u)' <=> Holds(u)
        /\ Opened(u)' <=> Opened(u)
        /\ Usable(u)' <=> Usable(u)
        /\ Stopping(u)' <=> Stopping(u)
  BY DEF Queued, Posted, Running, Waiting, Called, Holds, Opened, Usable,
         Stopping, ShuttingDown, threadVars
<1>4. Fine(t)'
  <2>1. /\ ~ Queued(t)' /\ ~ Posted(t)' /\ ~ Running(t)' /\ ~ Waiting(t)' /\ ~ Called(t)'
        /\ t \in created /\ t \in created'
    BY <1>3, ActiveFacts
  <2>2. RecordsFine(tx[t], front[t])'
    OBVIOUS
  <2>3. Apart(t)' /\ PostedFine(t)' /\ CalledFine(t)' /\ WaitingFine(t)' /\ RunningFine(t)'
    BY <2>1 DEF Apart, PostedFine, CalledFine, WaitingFine, RunningFine
  <2>4. UnderWayFine(t)'
    BY <1>1, <1>3 DEF Fine, UnderWayFine
  <2>5. ActiveFine(t)'
    BY <1>1, <1>3 DEF Fine, ActiveFine
  <2>6. HolderFine(t)'
    BY <1>1, <1>3 DEF Fine, HolderFine
  <2>7. FreshFine(t)'
    BY <1>1, <1>3, <2>1 DEF Fine, FreshFine
  <2> QED BY <2>2, <2>3, <2>4, <2>5, <2>6, <2>7 DEF Fine
<1>5. ASSUME NEW u \in Transactions PROVE Fine(u)'
  <2>1. CASE u # t
    BY <2>1, <1>3, SameIsFine DEF Same, Inv
  <2> QED BY <2>1, <1>4
<1>6. \A d \in Databases : HandleFine(d)'
  BY HandlesKept DEF Inv
<1>7. \A e \in Contexts : ThreadFine(e)'
  BY DEF Inv, ThreadFine
<1>8. \A e \in Contexts : EntryFine(e)'
  BY EntriesKept DEF Inv
<1>9. OneInProgress'
  <2>1. \A u \in Transactions : InProgress(u)' => InProgress(u)
    BY <1>3 DEF InProgress
  <2> QED BY <1>1, <1>3, <2>1, InProgressKept
<1>10. OriginLockFine'
  <2>1. \A u \in Transactions : tx'[u].frontend = tx[u].frontend /\ tx'[u].lockAcquired = tx[u].lockAcquired
    OBVIOUS
  <2> QED BY <1>1, <2>1 DEF OriginLockFine, Types
<1> QED BY <1>2, <1>5, <1>6, <1>7, <1>8, <1>9, <1>10 DEF Inv

(* A frontend state that changes nothing but the frontend's next state.    *)
LEMMA FrontMove ==
  ASSUME Inv, NEW t \in Transactions, Active(t),
         NEW s \in {"RunStatements", "CleanupAndTerminate", "CleanupAfterTransactionErrorCallback"},
         front' = [front EXCEPT ![t].next = s],
         UNCHANGED <<db, tx, created, info, tasks, phase, running, callbacks, originLock, threadVars>>,
         LockReady(front[t].next, tx[t]) => LockReady(s, tx[t])
  PROVE  Inv'
<1>1. Types /\ RecordsFine(tx[t], front[t]) /\ front[t] \in FrontRecords
  BY ActiveFacts DEF Inv
<1>2. /\ front' \in [Transactions -> FrontRecords]
      /\ \A u \in Transactions : u # t => front'[u] = front[u]
      /\ front'[t].next = s /\ front'[t].issued = front[t].issued
  BY <1>1 DEF Types, FrontRecords, States
<1>3. tx' \in [Transactions -> BackendRecords]
  BY <1>1 DEF Types
<1>4. RecordsFine(tx'[t], front'[t])
  BY <1>1, <1>2 DEF RecordsFine, StatementReady
<1> QED BY <1>2, <1>3, <1>4, FrontStep

(* A callback of the script, in which it may add a statement.              *)
LEMMA ScriptCallbackStep ==
  ASSUME Inv, NEW t \in Transactions, Active(t),
         NEW T \in SUBSET {"RunStatements", "DeliverTransactionErrorCallback",
                           "CleanupAfterTransactionErrorCallback"},
         ScriptCallback(t, T),
         UNCHANGED <<db, created, info, tasks, phase, running, callbacks, originLock, threadVars>>,
         front[t].next \in {"DeliverTransactionCallback", "DeliverStatementCallback"}
  PROVE  Inv'
<1>1. /\ Types /\ RecordsFine(tx[t], front[t]) /\ front[t] \in FrontRecords
      /\ tx[t] \in BackendRecords
  BY ActiveFacts DEF Inv
<1>2. PICK s \in T, n \in 0 .. 1 :
        /\ front[t].issued + n <= MaxStatements
        /\ front' = [front EXCEPT ![t].next = s, ![t].issued = @ + n]
        /\ tx' = [tx EXCEPT ![t].statements = @ + n,
                            ![t].current = IF @ = "quota" THEN "reported" ELSE @]
  BY DEF ScriptCallback
<1>3. s \in States /\ s # "Idle"
  BY DEF States
<1>4. /\ front[t].issued \in 0 .. MaxStatements /\ tx[t].statements \in 0 .. MaxStatements
      /\ MaxStatements \in Nat /\ tx[t].statements <= front[t].issued
  BY <1>1, ConstantsAssumption DEF FrontRecords, BackendRecords, RecordsFine
<1>5. /\ front[t].issued + n \in 0 .. MaxStatements
      /\ tx[t].statements + n \in 0 .. MaxStatements
      /\ tx[t].statements + n <= front[t].issued + n
  BY <1>2, <1>4
<1>6. /\ front' \in [Transactions -> FrontRecords]
      /\ \A u \in Transactions : u # t => front'[u] = front[u]
      /\ front'[t].next = s /\ front'[t].issued = front[t].issued + n
  BY <1>1, <1>2, <1>3, <1>5 DEF Types, FrontRecords
<1>7. PICK k \in {"none", "ran", "quota", "reported"} :
        /\ k = IF tx[t].current = "quota" THEN "reported" ELSE tx[t].current
        /\ tx[t].current \in {"quota", "reported"} => k \in {"quota", "reported"}
  BY <1>1 DEF BackendRecords
<1>8. tx' = [tx EXCEPT ![t] = [tx[t] EXCEPT !.statements = tx[t].statements + n, !.current = k]]
  BY <1>1, <1>2, <1>7 DEF Types, BackendRecords
<1>9. /\ tx' \in [Transactions -> BackendRecords]
      /\ \A u \in Transactions : u # t => tx'[u] = tx[u]
      /\ tx'[t].next = tx[t].next /\ tx'[t].frontend = tx[t].frontend
      /\ tx'[t].lockAcquired = tx[t].lockAcquired /\ tx'[t].sqlite = tx[t].sqlite
      /\ tx'[t].statements = tx[t].statements + n /\ tx'[t].current = k
      /\ tx'[t].retry = tx[t].retry
  BY <1>1, <1>5, <1>8 DEF Types, BackendRecords
<1>10. RecordsFine(tx'[t], front'[t])
  BY <1>1, <1>5, <1>6, <1>7, <1>9 DEF RecordsFine, StatementReady, FrontendStates
<1>11. LockReady(front[t].next, tx[t]) => LockReady(front'[t].next, tx'[t])
  BY <1>6, <1>9 DEF LockReady
<1> QED BY <1>3, <1>6, <1>9, <1>10, <1>11, FrontStep

(* deliverTransactionCallback(): the script gets the transaction.          *)
LEMMA DeliverTransactionStep ==
  ASSUME Inv, NEW t \in Transactions, deliverTransactionCallback(t)
  PROVE  Inv'
<1>1. front[t].next = "DeliverTransactionCallback" /\ Active(t)
  BY DEF deliverTransactionCallback, Active
<1>2. PICK T : /\ T = {"RunStatements"} \cup
                     IF t \in Failing THEN {"DeliverTransactionErrorCallback"} ELSE {}
               /\ ScriptCallback(t, T)
  BY DEF deliverTransactionCallback
<1>3. T \in SUBSET {"RunStatements", "DeliverTransactionErrorCallback",
                    "CleanupAfterTransactionErrorCallback"}
  BY <1>2
<1>4. UNCHANGED <<db, created, info, tasks, phase, running, callbacks, originLock, threadVars>>
  BY DEF deliverTransactionCallback
<1> QED BY <1>1, <1>2, <1>3, <1>4, ScriptCallbackStep

(* deliverStatementCallback(): the script gets the result of the current   *)
(* statement, once.                                                        *)
LEMMA DeliverStatementStep ==
  ASSUME Inv, NEW t \in Transactions, deliverStatementCallback(t)
  PROVE  Inv'
<1>1. /\ front[t].next = "DeliverStatementCallback" /\ Active(t)
      /\ UNCHANGED <<db, created, info, tasks, phase, running, callbacks, originLock, threadVars>>
  BY DEF deliverStatementCallback, Active
<1>2. CASE tx[t].current = "reported"
  <2>1. front' = [front EXCEPT ![t].next = "RunStatements"] /\ UNCHANGED tx
    BY <1>2 DEF deliverStatementCallback
  <2>2. LockReady(front[t].next, tx[t]) => LockReady("RunStatements", tx[t])
    BY <1>1 DEF LockReady
  <2> QED BY <1>1, <2>1, <2>2, FrontMove
<1>3. CASE tx[t].current # "reported"
  <2>1. PICK T : /\ T = {"RunStatements"} \cup
                       IF t \in Failing THEN {nextStateForTransactionError(t)} ELSE {}
                 /\ ScriptCallback(t, T)
    BY <1>3 DEF deliverStatementCallback
  <2>2. T \in SUBSET {"RunStatements", "DeliverTransactionErrorCallback",
                      "CleanupAfterTransactionErrorCallback"}
    BY <2>1, ErrorStates
  <2> QED BY <1>1, <2>1, <2>2, ScriptCallbackStep
<1> QED BY <1>2, <1>3

(* deliverTransactionErrorCallback(): the cleanup after the error is next. *)
LEMMA DeliverErrorStep ==
  ASSUME Inv, NEW t \in Transactions, deliverTransactionErrorCallback(t)
  PROVE  Inv'
<1>1. front[t].next = "DeliverTransactionErrorCallback" /\ Active(t)
  BY DEF deliverTransactionErrorCallback, Active
<1>2. LockReady(front[t].next, tx[t]) => LockReady("CleanupAfterTransactionErrorCallback", tx[t])
  BY <1>1 DEF LockReady
<1> QED BY <1>1, <1>2, FrontMove DEF deliverTransactionErrorCallback

(* deliverSuccessCallback(): the last cleanup is next.                     *)
LEMMA DeliverSuccessStep ==
  ASSUME Inv, NEW t \in Transactions, deliverSuccessCallback(t)
  PROVE  Inv'
<1>1. front[t].next = "DeliverSuccessCallback" /\ Active(t)
  BY DEF deliverSuccessCallback, Active
<1>2. LockReady(front[t].next, tx[t]) => LockReady("CleanupAndTerminate", tx[t])
  BY <1>1 DEF LockReady
<1> QED BY <1>1, <1>2, FrontMove DEF deliverSuccessCallback

(* deliverQuotaIncreaseCallback(): the current statement may be tried      *)
(* again.                                                                  *)
LEMMA DeliverQuotaStep ==
  ASSUME Inv, NEW t \in Transactions, deliverQuotaIncreaseCallback(t)
  PROVE  Inv'
<1>1. /\ front[t].next = "DeliverQuotaIncreaseCallback" /\ Active(t)
      /\ UNCHANGED <<db, created, info, tasks, phase, running, callbacks, originLock, threadVars>>
  BY DEF deliverQuotaIncreaseCallback, Active
<1>2. /\ Types /\ RecordsFine(tx[t], front[t]) /\ front[t] \in FrontRecords
      /\ tx[t] \in BackendRecords
  BY <1>1, ActiveFacts DEF Inv
<1>3. PICK n \in 0 .. 1 :
        /\ front[t].raises + n <= MaxRaises
        /\ tx' = [tx EXCEPT ![t].retry = (n = 1)]
        /\ front' = [front EXCEPT ![t].next = "RunStatements", ![t].raises = @ + n]
  BY DEF deliverQuotaIncreaseCallback
<1>4. front[t].raises + n \in 0 .. MaxRaises
  BY <1>2, <1>3, ConstantsAssumption DEF FrontRecords
<1>5. /\ front' \in [Transactions -> FrontRecords]
      /\ \A u \in Transactions : u # t => front'[u] = front[u]
      /\ front'[t].next = "RunStatements" /\ front'[t].issued = front[t].issued
  BY <1>2, <1>3, <1>4 DEF Types, FrontRecords, States
<1>6. PICK b \in BOOLEAN : b = (n = 1)
  OBVIOUS
<1>7. tx' = [tx EXCEPT ![t] = [tx[t] EXCEPT !.retry = b]]
  BY <1>2, <1>3, <1>6 DEF Types, BackendRecords
<1>8. /\ tx' \in [Transactions -> BackendRecords]
      /\ \A u \in Transactions : u # t => tx'[u] = tx[u]
      /\ tx'[t].next = tx[t].next /\ tx'[t].frontend = tx[t].frontend
      /\ tx'[t].lockAcquired = tx[t].lockAcquired /\ tx'[t].sqlite = tx[t].sqlite
      /\ tx'[t].statements = tx[t].statements /\ tx'[t].current = tx[t].current
  BY <1>2, <1>7 DEF Types, BackendRecords
<1>9. tx[t].current \in {"quota", "reported"}
  BY <1>1, <1>2 DEF RecordsFine, StatementReady
<1>10. RecordsFine(tx'[t], front'[t])
  BY <1>2, <1>5, <1>8, <1>9 DEF RecordsFine, StatementReady
<1>11. LockReady(front[t].next, tx[t]) => LockReady(front'[t].next, tx'[t])
  BY <1>1, <1>5, <1>8 DEF LockReady
<1> QED BY <1>1, <1>5, <1>8, <1>10, <1>11, FrontStep

-----------------------------------------------------------------------------
(***************************************************************************)
(* The requests that the two sides post each other                         *)
(***************************************************************************)

(* sendToBackendState(): the transaction goes from the script thread to    *)
(* the tasks of its database thread.                                       *)
LEMMA SendToBackendStep ==
  ASSUME Inv, NEW t \in Transactions, sendToBackendState(t)
  PROVE  Inv'
<1> DEFINE c == Context(t)
<1>1. /\ front[t].next \in {"RunStatements", "CleanupAndTerminate",
                            "CleanupAfterTransactionErrorCallback"}
      /\ tx' = [tx EXCEPT ![t].requested = front[t].next]
      /\ tasks' = [tasks EXCEPT ![c] = Append(@, t)]
      /\ front' = [front EXCEPT ![t].next = "Idle"]
      /\ UNCHANGED <<db, created, info, phase, running, callbacks, originLock, threadVars>>
  BY DEF sendToBackendState
<1>2. Active(t) /\ c \in Contexts
  BY <1>1, Owners DEF Active
<1>3. /\ Types /\ OneInProgress /\ OriginLockFine /\ Fine(t) /\ ThreadFine(c)
      /\ tx[t] \in BackendRecords /\ front[t] \in FrontRecords
      /\ ~ Queued(t) /\ ~ Posted(t) /\ ~ Running(t) /\ ~ Waiting(t) /\ ~ Called(t)
      /\ t \in created /\ RecordsFine(tx[t], front[t])
  BY <1>2, ActiveFacts DEF Inv
<1>4. /\ tx' \in [Transactions -> BackendRecords]
      /\ \A u \in Transactions : u # t => tx'[u] = tx[u]
      /\ tx'[t].requested = front[t].next /\ tx'[t].next = tx[t].next
      /\ tx'[t].frontend = tx[t].frontend /\ tx'[t].lockAcquired = tx[t].lockAcquired
      /\ tx'[t].sqlite = tx[t].sqlite /\ tx'[t].statements = tx[t].statements
      /\ tx'[t].current = tx[t].current /\ tx'[t].retry = tx[t].retry
  BY <1>1, <1>3 DEF Types, BackendRecords, States
<1>5. /\ front' \in [Transactions -> FrontRecords]
      /\ \A u \in Transactions : u # t => front'[u] = front[u]
      /\ front'[t].next = "Idle" /\ front'[t].issued = front[t].issued
  BY <1>1, <1>3 DEF Types, FrontRecords, States
<1>6. /\ tasks' \in [Contexts -> Seq(Transactions \cup Databases)]
      /\ \A e \in Contexts : e # c => tasks'[e] = tasks[e]
      /\ tasks'[c] = Append(tasks[c], t)
      /\ tasks[c] \in Seq(Transactions \cup Databases)
  BY <1>1, <1>2, <1>3 DEF Types
<1> HIDE DEF c
<1>7. ToSet(tasks'[c]) = ToSet(tasks[c]) \cup {t} /\ Unique(tasks'[c])
  BY <1>3, <1>6, AppendSet DEF ThreadFine, Posted, c
<1>8. Types'
  BY <1>1, <1>3, <1>4, <1>5, <1>6 DEF Types, threadVars
<1>9. \A u \in Transactions :
        /\ Queued(u)' <=> Queued(u)
        /\ Posted(u)' <=> Posted(u) \/ u = t
        /\ Running(u)' <=> Running(u)
        /\ Waiting(u)' <=> Waiting(u)
        /\ Called(u)' <=> Called(u)
        /\ Holds(u)' <=> Holds(u)
        /\ Opened(u)' <=> Opened(u)
        /\ Usable(u)' <=> Usable(u)
        /\ Stopping(u)' <=> Stopping(u)
  <2>1. \A u \in Transactions : Posted(u)' <=> Posted(u) \/ u = t
    BY <1>6, <1>7, Owners DEF Posted, c
  <2> QED BY <1>1, <2>1 DEF Queued, Running, Waiting, Called, Holds, Opened, Usable,
                            Stopping, ShuttingDown, threadVars
<1>10. Fine(t)'
  <2>1. RecordsFine(tx[t], front[t])'
    BY <1>3, <1>4, <1>5 DEF RecordsFine, StatementReady
  <2>2. ~ Active(t)' /\ t \in created'
    BY <1>1, <1>3, <1>5 DEF Active
  <2>3. Apart(t)' /\ RunningFine(t)' /\ CalledFine(t)' /\ ActiveFine(t)' /\ WaitingFine(t)'
    BY <1>3, <1>9, <2>2 DEF Apart, RunningFine, CalledFine, ActiveFine, WaitingFine
  <2>4. UnderWayFine(t)'
    BY <1>2, <1>3, <1>4, <1>9 DEF Fine, UnderWayFine
  <2>5. PostedFine(t)'
    <3>1. tx'[t].requested \in BackendStates
      BY <1>1, <1>4 DEF BackendStates
    <3>2. ASSUME Usable(t), ~ Stopping(t) PROVE LockReady(tx'[t].requested, tx'[t])
      <4>1. LockReady(front[t].next, tx[t])
        BY <1>2, <1>3, <3>2 DEF Fine, ActiveFine
      <4> QED BY <1>4, <4>1 DEF LockReady
    <3>3. tx[t].frontend => tx[t].lockAcquired
      BY <1>2, <1>3 DEF Fine, FreshFine
    <3> QED BY <1>4, <1>9, <3>1, <3>2, <3>3 DEF PostedFine
  <2>6. HolderFine(t)'
    BY <1>3, <1>4, <1>9 DEF Fine, HolderFine
  <2>7. FreshFine(t)'
    BY <1>3, <1>4, <1>9, <2>2 DEF FreshFine
  <2> QED BY <2>1, <2>3, <2>4, <2>5, <2>6, <2>7 DEF Fine
<1>11. ASSUME NEW u \in Transactions PROVE Fine(u)'
  <2>1. CASE u # t
    BY <2>1, <1>1, <1>4, <1>5, <1>9, SameIsFine DEF Same, Inv
  <2> QED BY <2>1, <1>10
<1>12. \A d \in Databases : HandleFine(d)'
  BY <1>1, HandlesKept DEF Inv
<1>13. ASSUME NEW e \in Contexts PROVE ThreadFine(e)'
  <2>1. CASE e = c
    BY <2>1, <1>1, <1>3, <1>7, ConstantsAssumption DEF ThreadFine, c
  <2>2. CASE e # c
    BY <2>2, <1>1, <1>6 DEF Inv, ThreadFine
  <2> QED BY <2>1, <2>2
<1>14. \A e \in Contexts : EntryFine(e)'
  BY <1>1, EntriesKept DEF Inv
<1>15. OneInProgress'
  <2>1. \A u \in Transactions : InProgress(u)' => InProgress(u)
    BY <1>1, <1>4, <1>9 DEF InProgress
  <2> QED BY <1>1, <1>3, <1>9, <2>1, InProgressKept
<1>16. OriginLockFine'
  <2>1. \A u \in Transactions : tx'[u].frontend = tx[u].frontend /\ tx'[u].lockAcquired = tx[u].lockAcquired
    BY <1>4
  <2> QED BY <1>1, <1>3, <2>1 DEF OriginLockFine, Types
<1> QED BY <1>8, <1>11, <1>12, <1>13, <1>14, <1>15, <1>16 DEF Inv

(* performPendingCallback(): the transaction goes from the callbacks to    *)
(* the script thread, or is dropped with its context.                      *)
LEMMA CallbackStep ==
  ASSUME Inv, NEW c \in Contexts, performPendingCallback(c)
  PROVE  Inv'
<1>t. PICK t : t = Head(callbacks[c])
  OBVIOUS
<1> DEFINE f == front[t]
<1>1. /\ callbacks[c] # <<>>
      /\ callbacks' = [callbacks EXCEPT ![c] = Tail(@)]
      /\ front' = [front EXCEPT ![t] =
                     IF c \in Workers /\ killed[c] THEN f
                     ELSE IF Usable(t) THEN [f EXCEPT !.next = f.requested, !.requested = "Idle"]
                     ELSE [f EXCEPT !.next = "CleanupAndTerminate"]]
      /\ UNCHANGED <<db, tx, created, info, tasks, phase, running, originLock, threadVars>>
  BY <1>t DEF performPendingCallback
<1>2. Types /\ OneInProgress /\ OriginLockFine /\ ThreadFine(c) /\ callbacks[c] \in Seq(Transactions)
  BY DEF Inv, Types
<1>3. /\ Tail(callbacks[c]) \in Seq(Transactions) /\ t \in Transactions /\ t \in ToSet(callbacks[c])
      /\ ToSet(callbacks[c]) = {t} \cup ToSet(Tail(callbacks[c]))
      /\ Unique(Tail(callbacks[c])) /\ t \notin ToSet(Tail(callbacks[c]))
  BY <1>t, <1>1, <1>2, TailSet DEF ThreadFine
<1>4. Context(t) = c /\ Called(t) /\ f \in FrontRecords /\ tx[t] \in BackendRecords /\ Fine(t)
  BY <1>2, <1>3 DEF ThreadFine, Called, Types, Inv
<1>5. /\ ~ Queued(t) /\ ~ Posted(t) /\ ~ Running(t) /\ ~ Waiting(t) /\ ~ Active(t) /\ t \in created
      /\ f.next = "Idle"
  BY <1>4 DEF Fine, Apart, FreshFine, Active
<1>6. /\ callbacks' \in [Contexts -> Seq(Transactions)]
      /\ callbacks'[c] = Tail(callbacks[c])
      /\ \A e \in Contexts : e # c => callbacks'[e] = callbacks[e]
  BY <1>1, <1>2, <1>3 DEF Types
<1>7. \A u \in Transactions :
        /\ Queued(u)' <=> Queued(u)
        /\ Posted(u)' <=> Posted(u)
        /\ Running(u)' <=> Running(u)
        /\ Waiting(u)' <=> Waiting(u)
        /\ Called(u)' <=> Called(u) /\ u # t
        /\ Holds(u)' <=> Holds(u)
        /\ Opened(u)' <=> Opened(u)
        /\ Usable(u)' <=> Usable(u)
        /\ Stopping(u)' <=> Stopping(u)
  <2>1. \A u \in Transactions : Called(u)' <=> Called(u) /\ u # t
    BY <1>3, <1>4, <1>6, Owners DEF Called
  <2> QED BY <1>1, <2>1 DEF Queued, Posted, Running, Waiting, Holds, Opened, Usable,
                            Stopping, ShuttingDown, threadVars
<1>8. PICK g \in FrontRecords :
        /\ front' = [front EXCEPT ![t] = g]
        /\ g.issued = f.issued
        /\ \/ g = f
           \/ Usable(t) /\ g.next = f.requested /\ f.requested # "Idle"
           \/ ~ Usable(t) /\ g.next = "CleanupAndTerminate"
  <2>1. CASE c \in Workers /\ killed[c]
    BY <1>1, <1>4, <2>1
  <2>2. CASE ~ (c \in Workers /\ killed[c]) /\ Usable(t)
    <3>1. f.requested \in FrontendStates
      BY <1>4, <2>2 DEF Fine, CalledFine
    <3> DEFINE g == [f EXCEPT !.next = f.requested, !.requested = "Idle"]
    <3>2. g \in FrontRecords /\ g.issued = f.issued /\ g.next = f.requested
      BY <1>4, <3>1 DEF FrontRecords, States
    <3>3. f.requested # "Idle" /\ front' = [front EXCEPT ![t] = g]
      BY <1>1, <2>2, <3>1 DEF FrontendStates
    <3> QED BY <2>2, <3>2, <3>3
  <2>3. CASE ~ (c \in Workers /\ killed[c]) /\ ~ Usable(t)
    <3> DEFINE g == [f EXCEPT !.next = "CleanupAndTerminate"]
    <3>1. g \in FrontRecords /\ g.issued = f.issued /\ g.next = "CleanupAndTerminate"
      BY <1>4 DEF FrontRecords, States
    <3>2. front' = [front EXCEPT ![t] = g]
      BY <1>1, <2>3
    <3> QED BY <2>3, <3>1, <3>2
  <2> QED BY <2>1, <2>2, <2>3
<1>9. /\ front' \in [Transactions -> FrontRecords] /\ front'[t] = g
      /\ \A u \in Transactions : u # t => front'[u] = front[u]
  BY <1>2, <1>3, <1>8 DEF Types
<1>10. Types'
  BY <1>1, <1>2, <1>6, <1>9 DEF Types, threadVars
<1>11. Fine(t)'
  <2>1. Usable(t) => f.requested \in FrontendStates /\ StatementReady(f.requested, tx[t])
    BY <1>4 DEF Fine, CalledFine
  <2>2. RecordsFine(tx[t], front[t])'
    <3>1. RecordsFine(tx[t], f) /\ tx'[t] = tx[t]
      BY <1>1, <1>4 DEF Fine
    <3>2. g.next \in FrontendStates \cup {"Idle", "RunStatements", "CleanupAndTerminate",
                                          "CleanupAfterTransactionErrorCallback"}
      BY <1>5, <1>8, <2>1
    <3>3. StatementReady(g.next, tx[t])
      BY <1>5, <1>8, <2>1 DEF StatementReady
    <3> QED BY <1>8, <1>9, <3>1, <3>2, <3>3 DEF RecordsFine
  <2>3. Active(t)' <=> g.next # "Idle"
    BY <1>9 DEF Active
  <2>4. Apart(t)' /\ PostedFine(t)' /\ RunningFine(t)' /\ CalledFine(t)' /\ WaitingFine(t)'
    BY <1>3, <1>5, <1>7 DEF Apart, PostedFine, RunningFine, CalledFine, WaitingFine
  <2>5. UnderWayFine(t)'
    BY <1>1, <1>3, <1>4, <1>7 DEF Fine, UnderWayFine
  <2>6. ActiveFine(t)'
    <3> SUFFICES ASSUME Active(t)', Usable(t), ~ Stopping(t) PROVE LockReady(g.next, tx[t])
      BY <1>1, <1>3, <1>7, <1>9 DEF ActiveFine
    <3>1. g.next = f.requested
      BY <1>5, <1>8, <2>3
    <3> QED BY <1>4, <3>1 DEF Fine, CalledFine
  <2>7. HolderFine(t)'
    BY <1>1, <1>3, <1>4, <1>7 DEF Fine, HolderFine
  <2>8. FreshFine(t)'
    BY <1>1, <1>3, <1>4, <1>5, <1>7 DEF Fine, FreshFine
  <2> QED BY <2>2, <2>4, <2>5, <2>6, <2>7, <2>8 DEF Fine
<1>12. ASSUME NEW u \in Transactions PROVE Fine(u)'
  <2>1. CASE u # t
    BY <2>1, <1>1, <1>7, <1>9, SameIsFine DEF Same, Inv
  <2> QED BY <2>1, <1>11
<1>13. \A d \in Databases : HandleFine(d)'
  BY <1>1, HandlesKept DEF Inv
<1>14. ASSUME NEW e \in Contexts PROVE ThreadFine(e)'
  <2>1. CASE e = c
    BY <2>1, <1>1, <1>2, <1>3, <1>6 DEF ThreadFine
  <2>2. CASE e # c
    BY <2>2, <1>1, <1>6 DEF Inv, ThreadFine
  <2> QED BY <2>1, <2>2
<1>15. \A e \in Contexts : EntryFine(e)'
  BY <1>1, EntriesKept DEF Inv
<1>16. OneInProgress'
  <2>1. \A u \in Transactions : InProgress(u)' => InProgress(u)
    BY <1>1, <1>7 DEF InProgress
  <2> QED BY <1>1, <1>2, <1>7, <2>1, InProgressKept
<1>17. OriginLockFine'
  BY <1>1, <1>2 DEF OriginLockFine
<1> QED BY <1>10, <1>12, <1>13, <1>14, <1>15, <1>16, <1>17 DEF Inv

(* performNextStep(): the transaction goes from the tasks to the database  *)
(* thread.                                                                 *)
LEMMA NextStepStep ==
  ASSUME Inv, NEW c \in Contexts, performNextStep(c)
  PROVE  Inv'
<1>t. PICK t : t = Head(tasks[c])
  OBVIOUS
<1> DEFINE r == [tx[t] EXCEPT !.next = tx[t].requested, !.requested = "Idle"]
<1>1. /\ TakesTask(c) /\ t \in Transactions /\ Usable(t)
      /\ tasks' = [tasks EXCEPT ![c] = Tail(@)]
      /\ Return(c, t, r)
      /\ UNCHANGED <<db, front, created, info, phase, callbacks, originLock, threadVars>>
  BY <1>t DEF performNextStep
<1>2. Types /\ OneInProgress /\ OriginLockFine /\ ThreadFine(c) /\ t # None
      /\ tasks[c] \in Seq(Transactions \cup Databases)
  BY <1>1, ConstantsAssumption DEF Inv, Types
<1>3. tasks[c] # <<>> /\ phase[c] = "loop" /\ running[c] = None
  BY <1>1 DEF TakesTask
<1>4. /\ Tail(tasks[c]) \in Seq(Transactions \cup Databases) /\ t \in ToSet(tasks[c])
      /\ ToSet(tasks[c]) = {t} \cup ToSet(Tail(tasks[c]))
      /\ Unique(Tail(tasks[c])) /\ t \notin ToSet(Tail(tasks[c]))
  BY <1>t, <1>2, <1>3, TailSet DEF ThreadFine
<1>5. Context(t) = c /\ Posted(t) /\ tx[t] \in BackendRecords /\ Fine(t) /\ ~ Stopping(t)
  BY <1>1, <1>2, <1>3, <1>4 DEF ThreadFine, Posted, Types, Inv, Stopping, ShuttingDown
<1>6. /\ ~ Queued(t) /\ ~ Waiting(t) /\ ~ Called(t) /\ ~ Active(t) /\ t \in created
      /\ tx[t].requested \in BackendStates /\ LockReady(tx[t].requested, tx[t])
      /\ tx[t].frontend
  BY <1>1, <1>5 DEF Fine, Apart, FreshFine, PostedFine, UnderWayFine
<1>7. /\ r \in BackendRecords /\ r.next = tx[t].requested /\ r.frontend = tx[t].frontend
      /\ r.lockAcquired = tx[t].lockAcquired /\ r.sqlite = tx[t].sqlite
      /\ r.statements = tx[t].statements /\ r.current = tx[t].current /\ r.retry = tx[t].retry
  BY <1>5 DEF BackendRecords, States
<1>8. tx' = [tx EXCEPT ![t] = r] /\ running' = [running EXCEPT ![c] = t]
  <2>1. ~ AtRest(r.next)
    BY <1>6, <1>7 DEF AtRest, BackendStates
  <2> QED BY <1>1, <2>1 DEF Return
<1> HIDE DEF r
<1>9. /\ tx' \in [Transactions -> BackendRecords] /\ tx'[t] = r
      /\ \A u \in Transactions : u # t => tx'[u] = tx[u]
      /\ running' \in [Contexts -> Transactions \cup {None}] /\ running'[c] = t
      /\ \A e \in Contexts : e # c => running'[e] = running[e]
      /\ tasks' \in [Contexts -> Seq(Transactions \cup Databases)] /\ tasks'[c] = Tail(tasks[c])
      /\ \A e \in Contexts : e # c => tasks'[e] = tasks[e]
  BY <1>1, <1>2, <1>4, <1>7, <1>8 DEF Types
<1>10. Types'
  BY <1>1, <1>2, <1>9 DEF Types, threadVars
<1>11. \A u \in Transactions :
        /\ Queued(u)' <=> Queued(u)
        /\ Posted(u)' <=> Posted(u) /\ u # t
        /\ Running(u)' <=> Running(u) \/ u = t
        /\ Waiting(u)' <=> Waiting(u)
        /\ Called(u)' <=> Called(u)
        /\ Active(u)' <=> Active(u)
        /\ Holds(u)' <=> Holds(u)
        /\ Opened(u)' <=> Opened(u)
        /\ Usable(u)' <=> Usable(u)
        /\ Stopping(u)' <=> Stopping(u)
  <2>1. \A u \in Transactions : Posted(u)' <=> Posted(u) /\ u # t
    BY <1>4, <1>5, <1>9, Owners DEF Posted
  <2>2. \A u \in Transactions : Running(u)' <=> Running(u) \/ u = t
    BY <1>3, <1>5, <1>9, Owners, ConstantsAssumption DEF Running
  <2> QED BY <1>1, <2>1, <2>2 DEF Queued, Waiting, Called, Active, Holds, Opened, Usable,
                            Stopping, ShuttingDown, threadVars
<1>12. Fine(t)'
  <2>1. RecordsFine(tx[t], front[t])'
    <3>1. RecordsFine(tx[t], front[t]) /\ r.next # "End"
      BY <1>5, <1>6, <1>7 DEF Fine, BackendStates
    <3> QED BY <1>1, <1>7, <1>9, <3>1 DEF RecordsFine, StatementReady
  <2>2. /\ Apart(t)' /\ UnderWayFine(t)' /\ PostedFine(t)' /\ CalledFine(t)' /\ ActiveFine(t)'
        /\ WaitingFine(t)'
    BY <1>1, <1>6, <1>11 DEF Apart, UnderWayFine, PostedFine, CalledFine, ActiveFine, WaitingFine
  <2>3. RunningFine(t)'
    <3>1. LockReady(r.next, r) /\ StatementReady(r.next, r)
      BY <1>6, <1>7 DEF LockReady, StatementReady, BackendStates
    <3> QED BY <1>1, <1>3, <1>5, <1>6, <1>7, <1>9, <3>1 DEF RunningFine
  <2>4. HolderFine(t)'
    BY <1>1, <1>5, <1>7, <1>9, <1>11 DEF Fine, HolderFine
  <2>5. FreshFine(t)'
    BY <1>1, <1>6, <1>9, <1>11 DEF FreshFine
  <2> QED BY <2>1, <2>2, <2>3, <2>4, <2>5 DEF Fine
<1>13. ASSUME NEW u \in Transactions PROVE Fine(u)'
  <2>1. CASE u # t
    BY <2>1, <1>1, <1>9, <1>11, SameIsFine DEF Same, Inv
  <2> QED BY <2>1, <1>12
<1>14. \A d \in Databases : HandleFine(d)'
  BY <1>1, HandlesKept DEF Inv
<1>15. ASSUME NEW e \in Contexts PROVE ThreadFine(e)'
  <2>1. CASE e = c
    BY <2>1, <1>1, <1>2, <1>4, <1>5, <1>9 DEF ThreadFine
  <2>2. CASE e # c
    BY <2>2, <1>1, <1>9 DEF Inv, ThreadFine
  <2> QED BY <2>1, <2>2
<1>16. \A e \in Contexts : EntryFine(e)'
  BY <1>1, EntriesKept DEF Inv
<1>17. \A u \in Transactions : tx'[u].frontend = tx[u].frontend /\ tx'[u].lockAcquired = tx[u].lockAcquired
  BY <1>7, <1>9
<1>18. OneInProgress'
  <2>1. \A u \in Transactions : InProgress(u)' => InProgress(u)
    BY <1>1, <1>11, <1>17 DEF InProgress
  <2> QED BY <1>1, <1>2, <1>11, <2>1, InProgressKept
<1>19. OriginLockFine'
  BY <1>1, <1>2, <1>17 DEF OriginLockFine, Types
<1> QED BY <1>10, <1>13, <1>14, <1>15, <1>16, <1>18, <1>19 DEF Inv

(* sendToFrontendState(): the transaction goes from the database thread to *)
(* the callbacks of its script thread.                                     *)
LEMMA SendToFrontendStep ==
  ASSUME Inv, NEW c \in Contexts, NEW t \in TransactionsOf(c), sendToFrontendState(c, t)
  PROVE  Inv'
<1> DEFINE r == [tx[t] EXCEPT !.next = "Idle"]
<1>1. /\ running[c] = t /\ tx[t].next \in FrontendStates
      /\ front' = [front EXCEPT ![t].requested = tx[t].next]
      /\ callbacks' = [callbacks EXCEPT ![c] = Append(@, t)]
      /\ Return(c, t, r)
      /\ UNCHANGED <<db, created, info, tasks, phase, originLock, threadVars>>
  BY DEF sendToFrontendState
<1>2. /\ t \in Transactions /\ Context(t) = c /\ Running(t) /\ tx[t].frontend
      /\ tx[t] \in BackendRecords /\ front[t] \in FrontRecords
      /\ LockReady(tx[t].next, tx[t]) /\ StatementReady(tx[t].next, tx[t])
      /\ tx[t].next # "AcquireLock" /\ tx[t].lockAcquired
  BY <1>1, RunsFacts DEF FrontendStates
<1>3. /\ Types /\ OneInProgress /\ OriginLockFine /\ ThreadFine(c) /\ Fine(t)
      /\ ~ Queued(t) /\ ~ Posted(t) /\ ~ Waiting(t) /\ ~ Called(t) /\ ~ Active(t)
      /\ t \in created /\ ~ Stopping(t) /\ t # None
  BY <1>2, RunningFacts, ConstantsAssumption DEF Inv
<1>4. /\ r \in BackendRecords /\ r.next = "Idle" /\ r.frontend = tx[t].frontend
      /\ r.lockAcquired = tx[t].lockAcquired /\ r.sqlite = tx[t].sqlite
      /\ r.statements = tx[t].statements /\ r.current = tx[t].current /\ r.retry = tx[t].retry
  BY <1>2 DEF BackendRecords, States
<1>5. tx' = [tx EXCEPT ![t] = r] /\ running' = [running EXCEPT ![c] = None]
  BY <1>1, <1>4 DEF Return, AtRest
<1> HIDE DEF r
<1>6. /\ tx' \in [Transactions -> BackendRecords] /\ tx'[t] = r
      /\ \A u \in Transactions : u # t => tx'[u] = tx[u]
      /\ running' \in [Contexts -> Transactions \cup {None}] /\ running'[c] = None
      /\ \A e \in Contexts : e # c => running'[e] = running[e]
  BY <1>2, <1>3, <1>4, <1>5 DEF Types
<1>7. /\ front' \in [Transactions -> FrontRecords]
      /\ \A u \in Transactions : u # t => front'[u] = front[u]
      /\ front'[t].requested = tx[t].next /\ front'[t].next = front[t].next
      /\ front'[t].issued = front[t].issued
  BY <1>1, <1>2, <1>3 DEF Types, FrontRecords, States, FrontendStates
<1>8. /\ callbacks' \in [Contexts -> Seq(Transactions)]
      /\ ToSet(callbacks'[c]) = ToSet(callbacks[c]) \cup {t} /\ Unique(callbacks'[c])
      /\ \A e \in Contexts : e # c => callbacks'[e] = callbacks[e]
  <2>1. callbacks[c] \in Seq(Transactions) /\ t \notin ToSet(callbacks[c])
    BY <1>2, <1>3 DEF Types, Called
  <2>2. /\ Append(callbacks[c], t) \in Seq(Transactions)
        /\ ToSet(Append(callbacks[c], t)) = ToSet(callbacks[c]) \cup {t}
        /\ Unique(Append(callbacks[c], t))
    BY <1>2, <1>3, <2>1, AppendSet DEF ThreadFine
  <2> QED BY <1>1, <1>3, <2>2 DEF Types
<1>9. Types'
  BY <1>1, <1>3, <1>6, <1>7, <1>8 DEF Types, threadVars
<1>10. \A u \in Transactions :
        /\ Queued(u)' <=> Queued(u)
        /\ Posted(u)' <=> Posted(u)
        /\ Running(u)' <=> Running(u) /\ u # t
        /\ Waiting(u)' <=> Waiting(u)
        /\ Called(u)' <=> Called(u) \/ u = t
        /\ Active(u)' <=> Active(u)
        /\ Holds(u)' <=> Holds(u)
        /\ Opened(u)' <=> Opened(u)
        /\ Usable(u)' <=> Usable(u)
        /\ Stopping(u)' <=> Stopping(u)
  <2>1. \A u \in Transactions : Called(u)' <=> Called(u) \/ u = t
    BY <1>2, <1>8, Owners DEF Called
  <2>2. \A u \in Transactions : Running(u)' <=> Running(u) /\ u # t
    BY <1>1, <1>2, <1>6, Owners, ConstantsAssumption DEF Running
  <2>3. \A u \in Transactions : Active(u)' <=> Active(u)
    BY <1>7 DEF Active
  <2> QED BY <1>1, <2>1, <2>2, <2>3 DEF Queued, Waiting, Posted, Holds, Opened, Usable,
                            Stopping, ShuttingDown, threadVars
<1>11. Fine(t)'
  <2>1. RecordsFine(tx[t], front[t])'
    BY <1>3, <1>4, <1>6, <1>7 DEF Fine, RecordsFine, StatementReady
  <2>2. /\ Apart(t)' /\ PostedFine(t)' /\ RunningFine(t)' /\ ActiveFine(t)' /\ WaitingFine(t)'
    BY <1>2, <1>3, <1>10 DEF Apart, PostedFine, RunningFine, ActiveFine, WaitingFine
  <2>3. UnderWayFine(t)'
    BY <1>2, <1>4, <1>6 DEF UnderWayFine
  <2>4. CalledFine(t)'
    <3>1. /\ front'[t].requested \in FrontendStates
          /\ StatementReady(front'[t].requested, tx'[t])
          /\ LockReady(front'[t].requested, tx'[t])
      BY <1>1, <1>2, <1>4, <1>6, <1>7 DEF LockReady, StatementReady
    <3> QED BY <3>1 DEF CalledFine
  <2>5. HolderFine(t)'
    BY <1>2, <1>3, <1>4, <1>6, <1>10 DEF Fine, HolderFine
  <2>6. FreshFine(t)'
    BY <1>1, <1>2, <1>3, <1>4, <1>6, <1>10 DEF FreshFine
  <2> QED BY <2>1, <2>2, <2>3, <2>4, <2>5, <2>6 DEF Fine
<1>12. ASSUME NEW u \in Transactions PROVE Fine(u)'
  <2>1. CASE u # t
    BY <2>1, <1>1, <1>6, <1>7, <1>10, SameIsFine DEF Same, Inv
  <2> QED BY <2>1, <1>11
<1>13. \A d \in Databases : HandleFine(d)'
  BY <1>1, HandlesKept DEF Inv
<1>14. ASSUME NEW e \in Contexts PROVE ThreadFine(e)'
  <2>1. CASE e = c
    BY <2>1, <1>1, <1>2, <1>3, <1>6, <1>8 DEF ThreadFine
  <2>2. CASE e # c
    BY <2>2, <1>1, <1>6, <1>8 DEF Inv, ThreadFine
  <2> QED BY <2>1, <2>2
<1>15. \A e \in Contexts : EntryFine(e)'
  BY <1>1, EntriesKept DEF Inv
<1>16. \A u \in Transactions : tx'[u].frontend = tx[u].frontend /\ tx'[u].lockAcquired = tx[u].lockAcquired
  BY <1>4, <1>6
<1>17. OneInProgress'
  <2>1. \A u \in Transactions : InProgress(u)' => InProgress(u)
    BY <1>1, <1>10, <1>16 DEF InProgress
  <2> QED BY <1>1, <1>3, <1>10, <2>1, InProgressKept
<1>18. OriginLockFine'
  BY <1>1, <1>3, <1>16 DEF OriginLockFine, Types
<1> QED BY <1>9, <1>12, <1>13, <1>14, <1>15, <1>17, <1>18 DEF Inv

-----------------------------------------------------------------------------
(***************************************************************************)
(* Stopping and interrupting                                               *)
(***************************************************************************)

(* A step that no transaction and no queue takes part in.                  *)
LEMMA AsideStep ==
  ASSUME Inv, killed' \in [Contexts -> BOOLEAN], interrupted' \in [Contexts -> BOOLEAN],
         phase' \in [Contexts -> Phases], deleting' \in Databases \cup {None},
         UNCHANGED <<db, tx, front, created, info, tasks, running, callbacks, originLock>>,
         \A c \in Contexts : interrupted[c] => interrupted'[c],
         \A c \in Contexts : phase'[c] # phase[c] =>
           /\ phase[c] = "closing" /\ phase'[c] = "finished"
           /\ \A d \in HandlesOf(c) : ~ db[d].opened
  PROVE  Inv'
<1>1. Types' /\ OneInProgress /\ OriginLockFine
  BY DEF Inv, Types
<1>2. \A c \in Contexts : ShuttingDown(c)' <=> ShuttingDown(c)
  BY DEF ShuttingDown
<1>3. ASSUME NEW u \in Transactions PROVE Fine(u)'
  <2>1. Context(u) \in Contexts /\ Fine(u)
    BY Owners DEF Inv
  <2>2. /\ Queued(u)' <=> Queued(u)
        /\ Posted(u)' <=> Posted(u)
        /\ Running(u)' <=> Running(u)
        /\ Waiting(u)' <=> Waiting(u)
        /\ Called(u)' <=> Called(u)
        /\ Holds(u)' <=> Holds(u)
        /\ Opened(u)' <=> Opened(u)
    BY DEF Queued, Posted, Running, Waiting, Called, Holds, Opened
  <2>3. Usable(u)' => Usable(u)
    BY <2>1 DEF Usable
  <2>4. Stopping(u)' <=> Stopping(u)
    BY <1>2, <2>1 DEF Stopping
  <2>5. Running(u) => phase'[Context(u)] = phase[Context(u)]
    BY <2>1 DEF Fine, RunningFine
  <2> QED BY <2>1, <2>2, <2>3, <2>4, <2>5, SameIsFine DEF Same
<1>4. \A d \in Databases : HandleFine(d)'
  BY HandlesKept DEF Inv
<1>5. \A c \in Contexts : ThreadFine(c)'
  BY DEF Inv, ThreadFine
<1>6. \A c \in Contexts : EntryFine(c)'
  BY DEF Inv, EntryFine, HandlesOf
<1>7. OneInProgress' /\ OriginLockFine'
  BY <1>1 DEF OneInProgress, InProgress, Queued, Opened, OriginLockFine
<1> QED BY <1>1, <1>3, <1>4, <1>5, <1>6, <1>7 DEF Inv

(* interruptAllDatabases(): the databases are usable no longer.            *)
LEMMA InterruptStep ==
  ASSUME Inv, NEW c \in Contexts, interruptAllDatabases(c)
  PROVE  Inv'
<1>1. Types
  BY DEF Inv
<1> QED BY <1>1, AsideStep DEF interruptAllDatabases, Types

(* stopDatabases(): the thread's queue is killed.                          *)
LEMMA StopStep ==
  ASSUME Inv, NEW c \in Contexts, stopDatabases(c)
  PROVE  Inv'
<1>1. Types
  BY DEF Inv
<1> QED BY <1>1, AsideStep DEF stopDatabases, Types

(* The database thread ends when its databases are closed.                 *)
LEMMA ThreadEndsStep ==
  ASSUME Inv, NEW c \in Contexts, threadEnds(c)
  PROVE  Inv'
<1>1. Types
  BY DEF Inv
<1>2. /\ phase' \in [Contexts -> Phases] /\ phase'[c] = "finished" /\ phase[c] = "closing"
      /\ \A e \in Contexts : e # c => phase'[e] = phase[e]
      /\ \A d \in HandlesOf(c) : ~ db[d].opened
  BY <1>1 DEF threadEnds, Types, Phases
<1> QED BY <1>1, <1>2, AsideStep DEF threadEnds, Types, threadVars

(* markAsDeletedAndClose(): a close task is put in front of the tasks.     *)
LEMMA DeleteStep ==
  ASSUME Inv, NEW d \in Databases, markAsDeletedAndClose(d)
  PROVE  Inv'
<1> DEFINE c == ContextOf[d]
<1>1. /\ ~ db[d].deleted
      /\ db' = [db EXCEPT ![d].deleted = TRUE]
      /\ \/ UNCHANGED <<tasks, deleting>>
         \/ tasks' = [tasks EXCEPT ![c] = <<d>> \o @] /\ deleting' = d
      /\ UNCHANGED <<tx, front, created, info, phase, running, callbacks, originLock,
                     killed, interrupted>>
  BY DEF markAsDeletedAndClose
<1>2. Types /\ OneInProgress /\ OriginLockFine /\ c \in Contexts
  BY ConstantsAssumption DEF Inv
<1> HIDE DEF c
<1>3. /\ db' \in [Databases -> HandleRecords]
      /\ \A e \in Databases :
           /\ db'[e].transactionQueue = db[e].transactionQueue
           /\ db'[e].transactionInProgress = db[e].transactionInProgress
           /\ db'[e].queueEnabled = db[e].queueEnabled
           /\ db'[e].opened = db[e].opened
           /\ db[e].deleted => db'[e].deleted
      /\ db'[d].deleted
  <2>1. db[d] \in HandleRecords /\ db'[d] = [db[d] EXCEPT !.deleted = TRUE]
        /\ \A e \in Databases : e # d => db'[e] = db[e]
    BY <1>1, <1>2 DEF Types
  <2>2. /\ db'[d] \in HandleRecords /\ db'[d].deleted
        /\ db'[d].transactionQueue = db[d].transactionQueue
        /\ db'[d].transactionInProgress = db[d].transactionInProgress
        /\ db'[d].queueEnabled = db[d].queueEnabled
        /\ db'[d].opened = db[d].opened
    BY <2>1 DEF HandleRecords
  <2>3. db' \in [Databases -> HandleRecords]
    BY <1>1, <1>2, <2>1, <2>2 DEF Types
  <2> QED BY <2>1, <2>2, <2>3
<1>4. /\ tasks' \in [Contexts -> Seq(Transactions \cup Databases)]
      /\ \A e \in Contexts : e # c => tasks'[e] = tasks[e]
      /\ ToSet(tasks'[c]) \subseteq ToSet(tasks[c]) \cup {d}
      /\ ToSet(tasks[c]) \subseteq ToSet(tasks'[c])
      /\ Unique(tasks'[c])
  <2>1. tasks[c] \in Seq(Transactions \cup Databases) /\ Unique(tasks[c]) /\ d \notin ToSet(tasks[c])
    BY <1>1, <1>2 DEF Types, Inv, ThreadFine
  <2>2. CASE UNCHANGED tasks
    BY <1>2, <2>1, <2>2 DEF Types
  <2>3. CASE tasks' = [tasks EXCEPT ![c] = <<d>> \o @]
    <3>1. <<d>> \in Seq(Transactions \cup Databases) /\ ToSet(<<d>>) = {d} /\ Unique(<<d>>)
      BY SingletonSet
    <3>2. PICK s : s = <<d>>
      OBVIOUS
    <3>3. s \in Seq(Transactions \cup Databases) /\ ToSet(s) = {d} /\ Unique(s)
      BY <3>1, <3>2
    <3>4. PICK q : q = tasks[c]
      OBVIOUS
    <3>5. q \in Seq(Transactions \cup Databases) /\ Unique(q) /\ ToSet(s) \cap ToSet(q) = {}
      BY <2>1, <3>3, <3>4
    <3>6. /\ s \o q \in Seq(Transactions \cup Databases)
          /\ ToSet(s \o q) = ToSet(s) \cup ToSet(q)
          /\ Unique(s \o q)
      BY <3>3, <3>5, ConcatSet
    <3>7. tasks' = [tasks EXCEPT ![c] = s \o q]
      BY <2>3, <3>2, <3>4
    <3> QED BY <1>2, <2>1, <3>3, <3>4, <3>6, <3>7 DEF Types
  <2> QED BY <1>1, <2>2, <2>3
<1>5. Types'
  BY <1>1, <1>2, <1>3, <1>4 DEF Types
<1>6. ASSUME NEW u \in Transactions PROVE Fine(u)'
  <2>1. Context(u) \in Contexts /\ DatabaseOf[u] \in Databases /\ Fine(u) /\ u # d
    BY Owners, ConstantsAssumption DEF Inv
  <2>2. Posted(u)' <=> Posted(u)
    BY <1>4, <2>1 DEF Posted
  <2>3. Queued(u)' <=> Queued(u)
    BY <1>3, <2>1 DEF Queued
  <2>4. (Opened(u)' <=> Opened(u)) /\ (Usable(u)' <=> Usable(u))
    BY <1>1, <1>3, <2>1 DEF Opened, Usable
  <2>5. /\ Running(u)' <=> Running(u)
        /\ Waiting(u)' <=> Waiting(u)
        /\ Called(u)' <=> Called(u)
        /\ Holds(u)' <=> Holds(u)
        /\ Stopping(u)' <=> Stopping(u)
    BY <1>1 DEF Running, Waiting, Called, Holds, Stopping, ShuttingDown
  <2> QED BY <1>1, <2>1, <2>2, <2>3, <2>4, <2>5, SameIsFine DEF Same
<1>7. \A e \in Databases : HandleFine(e)'
  BY <1>3 DEF Inv, HandleFine
<1>8. ASSUME NEW e \in Contexts PROVE ThreadFine(e)'
  <2>1. ThreadFine(e)
    BY DEF Inv
  <2>2. CASE e # c
    BY <1>1, <1>3, <1>4, <2>1, <2>2 DEF ThreadFine
  <2>3. CASE e = c
    <3>1. \A t \in ToSet(tasks'[e]) \cap Transactions : Context(t) = e
      BY <1>4, <2>1, <2>3, ConstantsAssumption DEF ThreadFine
    <3>2. \A x \in ToSet(tasks'[e]) \cap Databases : ContextOf[x] = e /\ db'[x].deleted
      BY <1>3, <1>4, <2>1, <2>3 DEF ThreadFine, c
    <3> QED BY <1>1, <1>4, <2>1, <2>3, <3>1, <3>2 DEF ThreadFine
  <2> QED BY <2>2, <2>3
<1>9. \A e \in Contexts : EntryFine(e)'
  BY <1>1, <1>3, EntriesKept DEF Inv
<1>10. OneInProgress'
  <2>1. \A u \in Transactions : DatabaseOf[u] \in Databases
    BY Owners
  <2>2. \A u \in Transactions : InProgress(u)' => InProgress(u)
    BY <1>1, <1>3, <2>1 DEF InProgress, Queued
  <2>3. \A u \in Transactions :
           Opened(u)' => /\ Opened(u)
                         /\ db[DatabaseOf[u]].transactionInProgress =>
                              db'[DatabaseOf[u]].transactionInProgress
    BY <1>3, <2>1 DEF Opened
  <2> QED BY <1>2, <2>2, <2>3, InProgressKept
<1>11. OriginLockFine'
  BY <1>1, <1>2 DEF OriginLockFine
<1> QED BY <1>5, <1>6, <1>7, <1>8, <1>9, <1>10, <1>11 DEF Inv

-----------------------------------------------------------------------------
(***************************************************************************)
(* The queue of a handle                                                   *)
(***************************************************************************)

(* A transaction as it was made, on an open handle, that is posted to the  *)
(* database thread is fine.                                                *)
LEMMA FirstPostIsFine ==
  ASSUME NEW t \in Transactions, tx'[t] = FreshBackend, front'[t] = FreshFront,
         t \in created', ~ Queued(t)', Posted(t)', ~ Running(t)', ~ Waiting(t)', ~ Called(t)',
         ~ Stopping(t)' => ~ Holds(t)', Opened(t)'
  PROVE  Fine(t)'
<1>1. /\ tx'[t].next = "Idle" /\ tx'[t].requested = "AcquireLock" /\ tx'[t].frontend
      /\ ~ tx'[t].lockAcquired /\ tx'[t].sqlite = "none" /\ tx'[t].statements = 0
      /\ tx'[t].current = "none" /\ ~ tx'[t].retry
  BY DEF FreshBackend
<1>2. front'[t].next = "Idle" /\ front'[t].issued = 0 /\ ~ Active(t)'
  BY DEF FreshFront, Active
<1>3. RecordsFine(tx[t], front[t])'
  BY <1>1, <1>2 DEF RecordsFine, StatementReady
<1>4. Apart(t)' /\ RunningFine(t)' /\ CalledFine(t)' /\ ActiveFine(t)' /\ WaitingFine(t)'
  BY <1>2 DEF Apart, RunningFine, CalledFine, ActiveFine, WaitingFine
<1>5. UnderWayFine(t)' /\ PostedFine(t)'
  BY <1>1 DEF UnderWayFine, PostedFine, LockReady, BackendStates
<1>6. HolderFine(t)' /\ FreshFine(t)'
  BY <1>1, <1>2 DEF HolderFine, FreshFine
<1> QED BY <1>3, <1>4, <1>5, <1>6 DEF Fine

(* So is one that waits in the queue of an open handle.                    *)
LEMMA QueuedIsFine ==
  ASSUME NEW t \in Transactions, tx'[t] = FreshBackend, front'[t] = FreshFront,
         t \in created', Queued(t)', ~ Posted(t)', ~ Running(t)', ~ Waiting(t)', ~ Called(t)',
         ~ Stopping(t)' => ~ Holds(t)', Opened(t)'
  PROVE  Fine(t)'
<1>1. /\ tx'[t].next = "Idle" /\ tx'[t].requested = "AcquireLock" /\ tx'[t].frontend
      /\ ~ tx'[t].lockAcquired /\ tx'[t].sqlite = "none" /\ tx'[t].statements = 0
      /\ tx'[t].current = "none" /\ ~ tx'[t].retry
  BY DEF FreshBackend
<1>2. front'[t].next = "Idle" /\ front'[t].issued = 0 /\ ~ Active(t)'
  BY DEF FreshFront, Active
<1>3. RecordsFine(tx[t], front[t])'
  BY <1>1, <1>2 DEF RecordsFine, StatementReady
<1>4. Apart(t)' /\ RunningFine(t)' /\ CalledFine(t)' /\ ActiveFine(t)' /\ WaitingFine(t)'
  BY <1>2 DEF Apart, RunningFine, CalledFine, ActiveFine, WaitingFine
<1>5. UnderWayFine(t)' /\ PostedFine(t)'
  BY <1>1, <1>2 DEF UnderWayFine, PostedFine
<1>6. HolderFine(t)' /\ FreshFine(t)'
  BY <1>1, <1>2 DEF HolderFine, FreshFine
<1> QED BY <1>3, <1>4, <1>5, <1>6 DEF Fine

(* What is known of a transaction as it was made.                          *)
LEMMA FreshFacts ==
  ASSUME Inv, NEW t \in Transactions, t \notin created \/ Queued(t)
  PROVE  /\ tx[t] = FreshBackend /\ front[t] = FreshFront /\ ~ Active(t)
         /\ tx[t].frontend /\ ~ tx[t].lockAcquired
         /\ ~ Posted(t) /\ ~ Running(t) /\ ~ Waiting(t) /\ ~ Called(t)
         /\ ~ Stopping(t) => ~ Holds(t)
         /\ Queued(t) => Opened(t) /\ t \in created
<1>1. Fine(t)
  BY DEF Inv
<1>2. tx[t] = FreshBackend /\ front[t] = FreshFront
  BY <1>1 DEF Fine, FreshFine
<1>3. tx[t].frontend /\ ~ tx[t].lockAcquired /\ ~ Active(t)
  BY <1>2 DEF FreshBackend, FreshFront, Active
<1>4. ~ Posted(t) /\ ~ Running(t) /\ ~ Waiting(t) /\ ~ Called(t)
  BY <1>1 DEF Fine, FreshFine, Apart
<1>5. ~ Stopping(t) => ~ Holds(t)
  BY <1>1, <1>3 DEF Fine, HolderFine
<1>6. Queued(t) => Opened(t) /\ t \in created
  BY <1>1 DEF Fine, FreshFine
<1> QED BY <1>2, <1>3, <1>4, <1>5, <1>6

(* runTransaction() on a handle that has a transaction in progress: the    *)
(* new one waits in the handle's queue.                                    *)
LEMMA QueueStep ==
  ASSUME Inv, NEW t \in Transactions, runTransaction(t), db[DatabaseOf[t]].transactionInProgress
  PROVE  Inv'
<1> DEFINE d == DatabaseOf[t]
<1>1. /\ t \notin created /\ db[d].queueEnabled
      /\ created' = created \cup {t}
      /\ db' = [db EXCEPT ![d] = [db[d] EXCEPT !.transactionQueue = Append(@, t)]]
      /\ UNCHANGED <<tasks, tx, front, info, phase, running, callbacks, originLock, threadVars>>
  BY DEF runTransaction
<1>2. Types /\ OneInProgress /\ OriginLockFine /\ d \in Databases
  BY Owners DEF Inv
<1>3. /\ tx[t] = FreshBackend /\ front[t] = FreshFront
      /\ ~ Posted(t) /\ ~ Running(t) /\ ~ Waiting(t) /\ ~ Called(t) /\ ~ Queued(t)
      /\ ~ Stopping(t) => ~ Holds(t)
  BY <1>1, FreshFacts
<1> HIDE DEF d
<1>4. HandleFine(d) /\ db[d] \in HandleRecords
  BY <1>2 DEF Inv, Types
<1>5. db[d].transactionQueue \in Seq(Transactions) /\ t \notin ToSet(db[d].transactionQueue)
  BY <1>3, <1>4 DEF HandleRecords, Queued, d
<1>6. /\ Append(db[d].transactionQueue, t) \in Seq(Transactions)
      /\ ToSet(Append(db[d].transactionQueue, t)) = ToSet(db[d].transactionQueue) \cup {t}
      /\ Unique(Append(db[d].transactionQueue, t))
  BY <1>4, <1>5, AppendSet DEF HandleFine
<1>7. /\ db' \in [Databases -> HandleRecords]
      /\ \A e \in Databases : e # d => db'[e] = db[e]
      /\ \A e \in Databases :
           /\ db'[e].transactionInProgress = db[e].transactionInProgress
           /\ db'[e].queueEnabled = db[e].queueEnabled
           /\ db'[e].opened = db[e].opened
           /\ db'[e].deleted = db[e].deleted
      /\ db'[d].transactionQueue = Append(db[d].transactionQueue, t)
  <2>1. PICK q \in Seq(Transactions) : q = Append(db[d].transactionQueue, t)
    BY <1>6
  <2>2. db' = [db EXCEPT ![d] = [db[d] EXCEPT !.transactionQueue = q]]
    BY <1>1, <2>1
  <2>3. /\ db'[d] \in HandleRecords /\ db'[d].transactionQueue = q
        /\ db'[d].transactionInProgress = db[d].transactionInProgress
        /\ db'[d].queueEnabled = db[d].queueEnabled
        /\ db'[d].opened = db[d].opened
        /\ db'[d].deleted = db[d].deleted
    BY <1>2, <1>4, <2>2 DEF Types, HandleRecords
  <2>4. db' \in [Databases -> HandleRecords] /\ \A e \in Databases : e # d => db'[e] = db[e]
    BY <1>2, <2>2, <2>3 DEF Types
  <2> QED BY <2>1, <2>3, <2>4
<1>8. Types'
  BY <1>1, <1>2, <1>7 DEF Types, threadVars
<1>9. \A u \in Transactions :
        /\ Queued(u)' <=> Queued(u) \/ u = t
        /\ Posted(u)' <=> Posted(u)
        /\ Running(u)' <=> Running(u)
        /\ Waiting(u)' <=> Waiting(u)
        /\ Called(u)' <=> Called(u)
        /\ Holds(u)' <=> Holds(u)
        /\ Opened(u)' <=> Opened(u)
        /\ Usable(u)' <=> Usable(u)
        /\ Stopping(u)' <=> Stopping(u)
  <2>1. ASSUME NEW u \in Transactions PROVE Queued(u)' <=> Queued(u) \/ u = t
    <3>1. CASE DatabaseOf[u] = d
      BY <1>6, <1>7, <3>1 DEF Queued
    <3>2. CASE DatabaseOf[u] # d
      BY <1>7, <3>2, Owners DEF Queued, d
    <3> QED BY <3>1, <3>2
  <2>2. \A u \in Transactions : (Opened(u)' <=> Opened(u)) /\ (Usable(u)' <=> Usable(u))
    BY <1>1, <1>7, Owners DEF Opened, Usable, threadVars
  <2> QED BY <1>1, <2>1, <2>2 DEF Posted, Running, Waiting, Called, Holds, Stopping, ShuttingDown
<1>10. Fine(t)'
  <2>1. Opened(t)
    BY <1>1, <1>4 DEF HandleFine, Opened, d
  <2> QED BY <1>1, <1>3, <1>9, <2>1, QueuedIsFine
<1>11. ASSUME NEW u \in Transactions PROVE Fine(u)'
  <2>1. CASE u # t
    BY <2>1, <1>1, <1>9, SameIsFine DEF Same, Inv
  <2> QED BY <2>1, <1>10
<1>12. ASSUME NEW e \in Databases PROVE HandleFine(e)'
  <2>1. CASE e # d
    BY <1>7, <2>1 DEF Inv, HandleFine
  <2>2. CASE e = d
    BY <1>4, <1>6, <1>7, <2>2 DEF HandleFine, d
  <2> QED BY <2>1, <2>2
<1>13. \A e \in Contexts : ThreadFine(e)'
  BY <1>1, <1>7 DEF Inv, ThreadFine
<1>14. \A e \in Contexts : EntryFine(e)'
  BY <1>1, <1>7, EntriesKept DEF Inv
<1>15. OneInProgress'
  <2>1. \A u \in Transactions : InProgress(u)' => InProgress(u)
    BY <1>1, <1>9 DEF InProgress
  <2>2. \A u \in Transactions :
           Opened(u)' => /\ Opened(u)
                         /\ db[DatabaseOf[u]].transactionInProgress =>
                              db'[DatabaseOf[u]].transactionInProgress
    BY <1>7, <1>9, Owners
  <2> QED BY <1>2, <2>1, <2>2, InProgressKept
<1>16. OriginLockFine'
  BY <1>1, <1>2 DEF OriginLockFine
<1> QED BY <1>8, <1>11, <1>12, <1>13, <1>14, <1>15, <1>16 DEF Inv

(* scheduleTransaction() takes the first transaction out of the queue of a *)
(* handle, if there is one, and posts it; m_transactionInProgress says     *)
(* whether it did.                                                         *)
LEMMA ScheduleMoves ==
  ASSUME NEW h \in HandleRecords, Unique(h.transactionQueue),
         h.queueEnabled \/ h.transactionQueue = <<>>,
         NEW s, s = scheduleTransaction(h)
  PROVE  /\ s.handle \in HandleRecords
         /\ s.posted \in Seq(Transactions) /\ Unique(s.posted)
         /\ Unique(s.handle.transactionQueue)
         /\ ToSet(h.transactionQueue) = ToSet(s.posted) \cup ToSet(s.handle.transactionQueue)
         /\ ToSet(s.posted) \cap ToSet(s.handle.transactionQueue) = {}
         /\ ToSet(s.posted) # {} <=> s.handle.transactionInProgress
         /\ ToSet(s.posted) = {} => ToSet(h.transactionQueue) = {}
         /\ \E x : ToSet(s.posted) \subseteq {x}
         /\ s.handle.queueEnabled = h.queueEnabled /\ s.handle.opened = h.opened
         /\ s.handle.deleted = h.deleted
<1>1. PICK q \in Seq(Transactions) : q = h.transactionQueue
  BY DEF HandleRecords
<1>2. CASE q = <<>>
  <2>1. s = [handle |-> [h EXCEPT !.transactionInProgress = FALSE], posted |-> <<>>]
    BY <1>1, <1>2 DEF scheduleTransaction
  <2>2. /\ s.handle = [h EXCEPT !.transactionInProgress = FALSE] /\ s.posted = <<>>
    BY <2>1
  <2>3. /\ s.handle \in HandleRecords /\ s.handle.transactionQueue = q
        /\ ~ s.handle.transactionInProgress
        /\ s.handle.queueEnabled = h.queueEnabled /\ s.handle.opened = h.opened
        /\ s.handle.deleted = h.deleted
    BY <1>1, <2>2 DEF HandleRecords
  <2>4. s.posted \in Seq(Transactions) /\ ToSet(s.posted) = {} /\ Unique(s.posted)
    BY <2>2, EmptySet
  <2> QED BY <1>1, <1>2, <2>3, <2>4, EmptySet
<1>3. CASE q # <<>>
  <2>1. s = [handle |-> [h EXCEPT !.transactionQueue = Tail(@), !.transactionInProgress = TRUE],
             posted |-> <<Head(q)>>]
    BY <1>1, <1>3 DEF scheduleTransaction
  <2>2. PICK x \in Transactions, r \in Seq(Transactions) :
          /\ x = Head(q) /\ r = Tail(q) /\ ToSet(q) = {x} \cup ToSet(r)
          /\ Unique(r) /\ x \notin ToSet(r)
    BY <1>1, <1>3, TailSet
  <2>3. /\ s.handle = [h EXCEPT !.transactionQueue = r, !.transactionInProgress = TRUE]
        /\ s.posted = <<x>>
    BY <1>1, <2>1, <2>2 DEF HandleRecords
  <2>4. /\ s.handle \in HandleRecords /\ s.handle.transactionQueue = r
        /\ s.handle.transactionInProgress
        /\ s.handle.queueEnabled = h.queueEnabled /\ s.handle.opened = h.opened
        /\ s.handle.deleted = h.deleted
    BY <2>3 DEF HandleRecords
  <2>5. PICK p \in Seq(Transactions) : p = <<x>> /\ ToSet(p) = {x} /\ Unique(p)
    BY SingletonSet
  <2>6. s.posted = p
    BY <2>3, <2>5
  <2> QED BY <1>1, <2>2, <2>4, <2>5, <2>6
<1> QED BY <1>2, <1>3

(* Transactions that are in none of the tasks of c are posted to it.       *)
LEMMA PostingMoves ==
  ASSUME Inv, NEW c \in Contexts, NEW q \in Seq(Transactions \cup Databases), Unique(q),
         NEW g \in Seq(Transactions), Unique(g), ToSet(q) \cap ToSet(g) = {},
         ToSet(q) \subseteq ToSet(tasks[c]), ToSet(tasks[c]) \cap Databases \subseteq ToSet(q),
         \A u \in ToSet(g) : Context(u) = c,
         tasks' = [tasks EXCEPT ![c] = q \o g]
  PROVE  /\ tasks' \in [Contexts -> Seq(Transactions \cup Databases)]
         /\ ToSet(tasks'[c]) = ToSet(q) \cup ToSet(g)
         /\ \A e \in Contexts : Unique(tasks'[e])
         /\ \A e \in Contexts : \A u \in ToSet(tasks'[e]) \cap Transactions : Context(u) = e
         /\ \A e \in Contexts : \A d \in ToSet(tasks'[e]) \cap Databases : d \in ToSet(tasks[e])
         /\ \A u \in Transactions : Posted(u)' <=>
              IF Context(u) = c THEN u \in ToSet(q) \/ u \in ToSet(g) ELSE Posted(u)
<1>1. Types /\ ThreadFine(c)
  BY DEF Inv
<1>2. g \in Seq(Transactions \cup Databases) /\ ToSet(g) \subseteq Transactions
  BY Elements
<1>3. PICK p : p = q \o g
  OBVIOUS
<1>4. p \in Seq(Transactions \cup Databases) /\ ToSet(p) = ToSet(q) \cup ToSet(g) /\ Unique(p)
  BY <1>2, <1>3, ConcatSet
<1>5. /\ tasks' \in [Contexts -> Seq(Transactions \cup Databases)]
      /\ tasks'[c] = p /\ \A e \in Contexts : e # c => tasks'[e] = tasks[e]
  BY <1>1, <1>3, <1>4 DEF Types
<1>6. \A u \in Transactions : Posted(u)' <=>
        IF Context(u) = c THEN u \in ToSet(q) \/ u \in ToSet(g) ELSE Posted(u)
  BY <1>4, <1>5, Owners DEF Posted
<1>7. ASSUME NEW e \in Contexts
      PROVE  /\ Unique(tasks'[e])
             /\ \A u \in ToSet(tasks'[e]) \cap Transactions : Context(u) = e
             /\ \A d \in ToSet(tasks'[e]) \cap Databases : d \in ToSet(tasks[e])
  <2>1. CASE e = c
    BY <1>1, <1>2, <1>4, <1>5, <2>1, ConstantsAssumption DEF ThreadFine
  <2>2. CASE e # c
    BY <1>5, <2>2 DEF Inv, ThreadFine
  <2> QED BY <2>1, <2>2
<1> QED BY <1>4, <1>5, <1>6, <1>7

(* A handle whose queue is replaced.                                       *)
LEMMA HandleMoves ==
  ASSUME Inv, NEW d \in Databases, NEW h \in HandleRecords, db' = [db EXCEPT ![d] = h],
         Unique(h.transactionQueue), h.queueEnabled <=> h.opened,
         \A u \in ToSet(h.transactionQueue) : DatabaseOf[u] = d,
         h.deleted = db[d].deleted
  PROVE  /\ db' \in [Databases -> HandleRecords] /\ db'[d] = h
         /\ \A e \in Databases : e # d => db'[e] = db[e]
         /\ \A e \in Databases : HandleFine(e)' /\ db'[e].deleted = db[e].deleted
         /\ \A u \in Transactions :
              /\ Queued(u)' <=> IF DatabaseOf[u] = d THEN u \in ToSet(h.transactionQueue)
                                                     ELSE Queued(u)
              /\ Opened(u)' <=> IF DatabaseOf[u] = d THEN h.opened ELSE Opened(u)
<1>1. db \in [Databases -> HandleRecords]
  BY DEF Inv, Types
<1>2. /\ db' \in [Databases -> HandleRecords] /\ db'[d] = h
      /\ \A e \in Databases : e # d => db'[e] = db[e]
  BY <1>1
<1>3. \A e \in Databases : HandleFine(e)' /\ db'[e].deleted = db[e].deleted
  BY <1>2 DEF Inv, HandleFine
<1>4. \A u \in Transactions :
        /\ Queued(u)' <=> IF DatabaseOf[u] = d THEN u \in ToSet(h.transactionQueue) ELSE Queued(u)
        /\ Opened(u)' <=> IF DatabaseOf[u] = d THEN h.opened ELSE Opened(u)
  BY <1>2, Owners DEF Queued, Opened
<1> QED BY <1>2, <1>3, <1>4

(* runTransaction() on a handle with nothing in progress: the transaction  *)
(* is put into the queue, and the first one of the queue is posted.        *)
LEMMA StartStep ==
  ASSUME Inv, NEW t \in Transactions, runTransaction(t), ~ db[DatabaseOf[t]].transactionInProgress
  PROVE  Inv'
<1> DEFINE d == DatabaseOf[t]
           c == Context(t)
<1>1. PICK h, s :
        /\ h = [db[d] EXCEPT !.transactionQueue = Append(@, t)]
        /\ s = scheduleTransaction(h)
        /\ t \notin created /\ db[d].queueEnabled
        /\ created' = created \cup {t}
        /\ db' = [db EXCEPT ![d] = s.handle]
        /\ tasks' = [tasks EXCEPT ![c] = @ \o s.posted]
        /\ UNCHANGED <<tx, front, info, phase, running, callbacks, originLock, threadVars>>
  BY DEF runTransaction
<1>2. /\ Types /\ OneInProgress /\ OriginLockFine /\ d \in Databases /\ c \in Contexts
      /\ c = ContextOf[d] /\ ~ db[d].transactionInProgress
  BY Owners DEF Inv
<1>3. ~ Queued(t)
  BY <1>1, FreshFacts
<1>a. t \in ToSet(h.transactionQueue) => DatabaseOf[t] = d
  OBVIOUS
<1> HIDE DEF d, c
<1>4. HandleFine(d) /\ db[d] \in HandleRecords
  BY <1>2 DEF Inv, Types
<1>5. db[d].transactionQueue \in Seq(Transactions) /\ t \notin ToSet(db[d].transactionQueue)
  BY <1>3, <1>4 DEF HandleRecords, Queued, d
<1>6. PICK q \in Seq(Transactions) :
        /\ q = Append(db[d].transactionQueue, t)
        /\ ToSet(q) = ToSet(db[d].transactionQueue) \cup {t}
        /\ Unique(q)
  BY <1>4, <1>5, AppendSet DEF HandleFine
<1>7. /\ h \in HandleRecords /\ h.transactionQueue = q /\ h.queueEnabled = db[d].queueEnabled
      /\ h.opened = db[d].opened /\ h.deleted = db[d].deleted
  <2>1. h = [db[d] EXCEPT !.transactionQueue = q]
    BY <1>1, <1>6
  <2> QED BY <1>4, <2>1 DEF HandleRecords
<1>8. PICK g \in Seq(Transactions), k \in HandleRecords :
        /\ g = s.posted /\ k = s.handle /\ Unique(g) /\ Unique(k.transactionQueue)
        /\ ToSet(q) = ToSet(g) \cup ToSet(k.transactionQueue)
        /\ ToSet(g) \cap ToSet(k.transactionQueue) = {}
        /\ ToSet(g) # {} <=> k.transactionInProgress
        /\ ToSet(g) = {} => ToSet(q) = {}
        /\ \E x : ToSet(g) \subseteq {x}
        /\ k.queueEnabled = h.queueEnabled /\ k.opened = h.opened
        /\ k.deleted = h.deleted
  <2>1. h \in HandleRecords /\ Unique(h.transactionQueue) /\ h.queueEnabled /\ s = scheduleTransaction(h)
    BY <1>1, <1>6, <1>7
  <2>2. /\ s.handle \in HandleRecords
        /\ s.posted \in Seq(Transactions) /\ Unique(s.posted)
        /\ Unique(s.handle.transactionQueue)
        /\ ToSet(h.transactionQueue) = ToSet(s.posted) \cup ToSet(s.handle.transactionQueue)
        /\ ToSet(s.posted) \cap ToSet(s.handle.transactionQueue) = {}
        /\ ToSet(s.posted) # {} <=> s.handle.transactionInProgress
        /\ ToSet(s.posted) = {} => ToSet(h.transactionQueue) = {}
        /\ \E x : ToSet(s.posted) \subseteq {x}
        /\ s.handle.queueEnabled = h.queueEnabled /\ s.handle.opened = h.opened
        /\ s.handle.deleted = h.deleted
    BY <2>1, ScheduleMoves
  <2> QED BY <1>7, <2>2
<1>9. \A u \in ToSet(q) : DatabaseOf[u] = d /\ u \in Transactions /\ Context(u) = c
  BY <1>2, <1>4, <1>6, Elements DEF HandleFine, d, c, Context
<1>10. /\ db' \in [Databases -> HandleRecords] /\ db'[d] = k
       /\ \A e \in Databases : e # d => db'[e] = db[e]
       /\ \A e \in Databases : HandleFine(e)' /\ db'[e].deleted = db[e].deleted
       /\ \A u \in Transactions :
            /\ Queued(u)' <=> IF DatabaseOf[u] = d THEN u \in ToSet(k.transactionQueue)
                                                   ELSE Queued(u)
            /\ Opened(u)' <=> IF DatabaseOf[u] = d THEN k.opened ELSE Opened(u)
  <2>1. k.queueEnabled <=> k.opened
    BY <1>4, <1>7, <1>8 DEF HandleFine
  <2>2. \A u \in ToSet(k.transactionQueue) : DatabaseOf[u] = d
    BY <1>8, <1>9
  <2>3. db' = [db EXCEPT ![d] = k] /\ k.deleted = db[d].deleted /\ Unique(k.transactionQueue)
    BY <1>1, <1>7, <1>8
  <2> QED BY <1>2, <2>1, <2>2, <2>3, HandleMoves
<1>11. ASSUME NEW u \in Transactions PROVE Opened(u)' <=> Opened(u)
  BY <1>7, <1>8, <1>10 DEF Opened
<1>12. \A u \in ToSet(q) : u \in Transactions /\ (u \notin created \/ Queued(u)) /\ Opened(u)
  BY <1>1, <1>4, <1>6, <1>9 DEF Queued, Opened, HandleFine
<1>13. /\ tasks' \in [Contexts -> Seq(Transactions \cup Databases)]
       /\ \A e \in Contexts : Unique(tasks'[e])
       /\ \A e \in Contexts : \A u \in ToSet(tasks'[e]) \cap Transactions : Context(u) = e
       /\ \A e \in Contexts : \A x \in ToSet(tasks'[e]) \cap Databases : x \in ToSet(tasks[e])
       /\ \A u \in Transactions : Posted(u)' <=> Posted(u) \/ u \in ToSet(g)
  <2>1. PICK w : w = tasks[c]
    OBVIOUS
  <2>2. w \in Seq(Transactions \cup Databases) /\ Unique(w)
    BY <1>2, <2>1 DEF Types, Inv, ThreadFine
  <2>3. ToSet(w) \cap ToSet(g) = {}
    <3>1. \A u \in ToSet(g) : ~ Posted(u) /\ Context(u) = c
      BY <1>8, <1>9, <1>12, FreshFacts
    <3> QED BY <2>1, <3>1 DEF Posted
  <2>4. tasks' = [tasks EXCEPT ![c] = w \o g]
    BY <1>1, <1>8, <2>1
  <2>5. \A u \in ToSet(g) : Context(u) = c
    BY <1>8, <1>9
  <2>6. /\ tasks' \in [Contexts -> Seq(Transactions \cup Databases)]
        /\ \A e \in Contexts : Unique(tasks'[e])
        /\ \A e \in Contexts : \A u \in ToSet(tasks'[e]) \cap Transactions : Context(u) = e
        /\ \A e \in Contexts : \A x \in ToSet(tasks'[e]) \cap Databases : x \in ToSet(tasks[e])
        /\ \A u \in Transactions : Posted(u)' <=>
             IF Context(u) = c THEN u \in ToSet(w) \/ u \in ToSet(g) ELSE Posted(u)
    <3>1. Unique(g) /\ ToSet(w) \subseteq ToSet(tasks[c]) /\ ToSet(tasks[c]) \cap Databases \subseteq ToSet(w)
      BY <1>8, <2>1
    <3> QED BY <1>2, <2>2, <2>3, <2>4, <2>5, <3>1, PostingMoves, ZenonT(60)
  <2> QED BY <2>1, <2>5, <2>6 DEF Posted
<1>14. Types'
  BY <1>1, <1>2, <1>10, <1>13 DEF Types, threadVars
<1>15. \A u \in Transactions :
        /\ Queued(u)' <=> (Queued(u) \/ u = t) /\ u \notin ToSet(g)
        /\ Running(u)' <=> Running(u)
        /\ Waiting(u)' <=> Waiting(u)
        /\ Called(u)' <=> Called(u)
        /\ Holds(u)' <=> Holds(u)
        /\ Usable(u)' <=> Usable(u)
        /\ Stopping(u)' <=> Stopping(u)
  <2>1. ASSUME NEW u \in Transactions
        PROVE  Queued(u)' <=> (Queued(u) \/ u = t) /\ u \notin ToSet(g)
    <3>1. CASE DatabaseOf[u] = d
      <4>1. Queued(u) \/ u = t <=> u \in ToSet(q)
        BY <1>6, <3>1 DEF Queued
      <4> QED BY <1>8, <1>10, <3>1, <4>1
    <3>2. CASE DatabaseOf[u] # d
      BY <1>8, <1>9, <1>10, <3>2 DEF d
    <3> QED BY <3>1, <3>2
  <2>2. \A u \in Transactions : Usable(u)' <=> Usable(u)
    BY <1>1, <1>11 DEF Usable, Opened, threadVars
  <2> QED BY <1>1, <2>1, <2>2 DEF Running, Waiting, Called, Holds, Stopping, ShuttingDown
<1>16. ASSUME NEW u \in Transactions PROVE Fine(u)'
  <2>1. CASE u \in ToSet(q)
    <3>1. /\ tx[u] = FreshBackend /\ front[u] = FreshFront
          /\ ~ Posted(u) /\ ~ Running(u) /\ ~ Waiting(u) /\ ~ Called(u)
          /\ ~ Stopping(u) => ~ Holds(u)
          /\ Opened(u)
      BY <1>12, <2>1, FreshFacts
    <3>2. u \in created' /\ (u = t \/ Queued(u))
      <4>1. u = t \/ Queued(u)
        BY <1>6, <1>9, <2>1 DEF Queued
      <4> QED BY <1>1, <4>1, FreshFacts
    <3>3. CASE u \in ToSet(g)
      BY <1>1, <1>11, <1>13, <1>15, <3>1, <3>2, <3>3, FirstPostIsFine
    <3>4. CASE u \notin ToSet(g)
      BY <1>1, <1>11, <1>13, <1>15, <3>1, <3>2, <3>4, QueuedIsFine
    <3> QED BY <3>3, <3>4
  <2>2. CASE u \notin ToSet(q)
    <3>1. u # t /\ u \notin ToSet(g)
      BY <1>6, <1>8, <2>2
    <3> QED BY <3>1, <1>1, <1>11, <1>13, <1>15, SameIsFine DEF Same, Inv
  <2> QED BY <2>1, <2>2
<1>17. \A e \in Contexts : ThreadFine(e)'
  BY <1>1, <1>10, <1>13, ZenonT(60) DEF Inv, ThreadFine
<1>18. \A e \in Contexts : EntryFine(e)'
  <2>1. \A e \in Databases : db'[e].opened => db[e].opened
    BY <1>7, <1>8, <1>10
  <2> QED BY <1>1, <2>1, EntriesKept DEF Inv
<1>19. OneInProgress'
  <2>1. ASSUME NEW u \in Transactions PROVE InProgress(u)' <=> InProgress(u) \/ u \in ToSet(g)
    <3>1. ASSUME u \in ToSet(g) PROVE tx[u].frontend /\ u \in created'
      <4>a. u = t \/ Queued(u)
        BY <1>6, <1>8, <1>9, <3>1 DEF Queued
      <4>1. u = t \/ (u \in created /\ tx[u].frontend)
        BY <4>a, FreshFacts
      <4>2. tx[t].frontend
        BY <1>1, FreshFacts
      <4> QED BY <1>1, <4>1, <4>2
    <3>2. u = t /\ u \notin ToSet(g) => Queued(u)'
      BY <1>15
    <3> QED BY <1>1, <1>15, <3>1, <3>2 DEF InProgress
  <2>2. ASSUME NEW u \in Transactions, InProgress(u) PROVE DatabaseOf[u] # d
    BY <1>1, <1>2, <1>4, <2>2 DEF OneInProgress, HandleFine, Opened
  <2>3. \A u \in ToSet(g) : DatabaseOf[u] = d
    BY <1>8, <1>9
  <2>4. \A u, v \in Transactions :
          InProgress(u)' /\ InProgress(v)' /\ DatabaseOf[u] = DatabaseOf[v] => u = v
    BY <1>2, <1>8, <2>1, <2>2, <2>3 DEF OneInProgress
  <2>5. ASSUME NEW u \in Transactions, InProgress(u)', Opened(u)'
        PROVE  db'[DatabaseOf[u]].transactionInProgress
    <3>1. CASE u \in ToSet(g)
      BY <1>8, <1>10, <2>3, <3>1
    <3>2. CASE u \notin ToSet(g)
      BY <1>2, <1>10, <1>11, <2>1, <2>2, <2>5, <3>2, Owners DEF OneInProgress
    <3> QED BY <3>1, <3>2
  <2> QED BY <2>4, <2>5 DEF OneInProgress
<1>20. OriginLockFine'
  BY <1>1, <1>2 DEF OriginLockFine
<1> QED BY <1>10, <1>14, <1>16, <1>17, <1>18, <1>19, <1>20 DEF Inv

-----------------------------------------------------------------------------
(***************************************************************************)
(* Giving the lock to others                                               *)
(***************************************************************************)

(* A transaction that has just been told of its lock is fine, whether or   *)
(* not its task was posted.                                                *)
LEMMA GrantedIsFine ==
  ASSUME NEW t \in Transactions, RecordsFine(tx'[t], front'[t]), t \in created',
         tx'[t].next = "Idle", tx'[t].requested = "OpenTransactionAndPreflight",
         tx'[t].frontend, tx'[t].lockAcquired, tx'[t].sqlite = "none",
         ~ Queued(t)', ~ Running(t)', ~ Waiting(t)', ~ Called(t)', ~ Active(t)',
         Holds(t)', ~ Stopping(t)'
  PROVE  Fine(t)'
<1>1. Apart(t)' /\ RunningFine(t)' /\ CalledFine(t)' /\ ActiveFine(t)' /\ WaitingFine(t)'
  BY DEF Apart, RunningFine, CalledFine, ActiveFine, WaitingFine
<1>2. UnderWayFine(t)' /\ PostedFine(t)'
  BY DEF UnderWayFine, PostedFine, LockReady, BackendStates
<1>3. HolderFine(t)' /\ FreshFine(t)'
  BY DEF HolderFine, FreshFine
<1> QED BY <1>1, <1>2, <1>3 DEF Fine

(* A transaction that was cleaned up and is in no queue any more is fine.  *)
LEMMA NowhereIsFine ==
  ASSUME NEW t \in Transactions, RecordsFine(tx'[t], front'[t]), t \in created',
         ~ tx'[t].frontend,
         ~ Queued(t)', ~ Posted(t)', ~ Running(t)', ~ Waiting(t)', ~ Called(t)', ~ Active(t)',
         ~ Stopping(t)' => ~ Holds(t)'
  PROVE  Fine(t)'
<1>1. /\ Apart(t)' /\ RunningFine(t)' /\ CalledFine(t)' /\ ActiveFine(t)' /\ WaitingFine(t)'
      /\ UnderWayFine(t)' /\ PostedFine(t)'
  BY DEF Apart, RunningFine, CalledFine, ActiveFine, WaitingFine, UnderWayFine, PostedFine
<1>2. HolderFine(t)' /\ FreshFine(t)'
  BY DEF HolderFine, FreshFine
<1> QED BY <1>1, <1>2 DEF Fine

(* What is known of a transaction that waits for its lock, and what        *)
(* lockAcquired() makes of it.                                             *)
LEMMA WaitingFacts ==
  ASSUME Inv, NEW t \in Transactions, Waiting(t), ~ Stopping(t)
  PROVE  LET r == lockAcquired(tx[t]) IN
         /\ ~ Queued(t) /\ ~ Posted(t) /\ ~ Running(t) /\ ~ Called(t) /\ ~ Active(t)
         /\ t \in created /\ tx[t].frontend /\ ~ tx[t].lockAcquired
         /\ r \in BackendRecords /\ RecordsFine(r, front[t])
         /\ r.next = "Idle" /\ r.requested = "OpenTransactionAndPreflight"
         /\ r.frontend /\ r.lockAcquired /\ r.sqlite = "none"
<1> DEFINE r == lockAcquired(tx[t])
<1>1. Fine(t) /\ tx[t] \in BackendRecords
  BY DEF Inv, Types
<1>2. ~ Queued(t) /\ ~ Posted(t) /\ ~ Running(t) /\ ~ Called(t) /\ ~ Active(t) /\ t \in created
  BY <1>1 DEF Fine, Apart, FreshFine
<1>3. tx[t].next = "Idle" /\ ~ tx[t].lockAcquired /\ tx[t].frontend
  BY <1>1 DEF Fine, WaitingFine
<1>4. RecordsFine(tx[t], front[t]) /\ tx[t].sqlite = "none"
  BY <1>1, <1>3 DEF Fine, RecordsFine
<1>5. /\ r \in BackendRecords /\ r.next = tx[t].next
      /\ r.requested = "OpenTransactionAndPreflight" /\ r.lockAcquired
      /\ r.frontend = tx[t].frontend /\ r.sqlite = tx[t].sqlite /\ r.retry = tx[t].retry
      /\ r.current = tx[t].current /\ r.statements = tx[t].statements
  BY <1>1 DEF lockAcquired, BackendRecords, States
<1> HIDE DEF r
<1>6. RecordsFine(r, front[t])
  BY <1>3, <1>4, <1>5 DEF RecordsFine, StatementReady
<1> QED BY <1>2, <1>3, <1>4, <1>5, <1>6 DEF r

(* The coordinator's entries after a transaction gave its lock back.       *)
LEMMA ReleaseStep ==
  ASSUME Inv, NEW c \in Contexts, NEW t \in Transactions, Context(t) = c, Holds(t),
         NEW g, g = GrantedBy(c, t), info' = [info EXCEPT ![c] = AfterRelease(c, t)]
  PROVE  /\ info' \in [Contexts -> Entry!Infos]
         /\ g \in Seq(Transactions) /\ Unique(g)
         /\ \A u \in ToSet(g) : u \in Transactions /\ Context(u) = c /\ Waiting(u) /\ u # t
         /\ \A u \in Transactions :
              /\ Waiting(u)' <=> Waiting(u) /\ u \notin ToSet(g)
              /\ Holds(u)' <=> (Holds(u) /\ u # t) \/ u \in ToSet(g)
         /\ \A e \in Contexts :
              /\ Entry!Good(info'[e])
              /\ \A u \in ToSet(info'[e].pending) \cup Entry!HoldersOf(info'[e]) : Context(u) = e
              /\ info[e].pending = <<>> => info'[e].pending = <<>>
<1>1. PICK i, j : /\ i = info[c] /\ j = Coordinator(c)!Released(i, t)
                  /\ g = Coordinator(c)!Granted(i.pending, j)
                  /\ info' = [info EXCEPT ![c] = j]
  BY DEF GrantedBy, AfterRelease
<1>2. info \in [Contexts -> Entry!Infos]
  BY DEF Inv, Types
<1>3. /\ Entry!Good(i) /\ t \in Entry!HoldersOf(i)
      /\ \A u \in ToSet(i.pending) \cup Entry!HoldersOf(i) : Context(u) = c
  BY <1>1 DEF Inv, EntryFine, Holds
<1>4. /\ Entry!Good(j)
      /\ g \in Seq(Transactions) /\ Unique(g)
      /\ ToSet(i.pending) = ToSet(g) \cup ToSet(j.pending)
      /\ ToSet(g) \cap ToSet(j.pending) = {}
      /\ Entry!HoldersOf(j) = (Entry!HoldersOf(i) \ {t}) \cup ToSet(g)
  <2>1. /\ Entry!Good(i) /\ t \in Entry!HoldersOf(i)
        /\ j = Coordinator(c)!Released(i, t) /\ g = Coordinator(c)!Granted(i.pending, j)
    BY <1>1, <1>3
  <2>2. LetIn(ToSet(i.pending), Entry!HoldersOf(i) \ {t}, j, g)
    BY <2>1, ReleaseMoves
  <2> QED BY <2>2 DEF LetIn
<1>5. /\ i.pending \in Seq(Transactions) /\ ToSet(i.pending) \subseteq Transactions
      /\ ToSet(i.pending) \cap Entry!HoldersOf(i) = {}
      /\ j \in Entry!Infos /\ j.pending \in Seq(Transactions)
  BY <1>3, <1>4, GoodFields
<1>6. /\ info' \in [Contexts -> Entry!Infos] /\ info'[c] = j
      /\ \A e \in Contexts : e # c => info'[e] = info[e]
  BY <1>1, <1>2, <1>5
<1>7. ASSUME NEW u \in ToSet(g) PROVE u \in Transactions /\ Context(u) = c /\ Waiting(u) /\ u # t
  BY <1>1, <1>3, <1>4, <1>5 DEF Waiting
<1>8. ASSUME NEW u \in Transactions
      PROVE  /\ Waiting(u)' <=> Waiting(u) /\ u \notin ToSet(g)
             /\ Holds(u)' <=> (Holds(u) /\ u # t) \/ u \in ToSet(g)
  <2>1. CASE Context(u) = c
    BY <1>1, <1>4, <1>6, <2>1 DEF Waiting, Holds
  <2>2. CASE Context(u) # c
    BY <1>6, <1>7, <2>2, Owners DEF Waiting, Holds
  <2> QED BY <2>1, <2>2
<1>9. ASSUME NEW e \in Contexts
      PROVE  /\ Entry!Good(info'[e])
             /\ \A u \in ToSet(info'[e].pending) \cup Entry!HoldersOf(info'[e]) : Context(u) = e
             /\ info[e].pending = <<>> => info'[e].pending = <<>>
  <2>1. CASE e # c
    BY <1>6, <2>1 DEF Inv, EntryFine
  <2>2. CASE e = c
    <3>1. i.pending = <<>> => j.pending = <<>>
      BY <1>4, <1>5, Elements, EmptySet
    <3> QED BY <1>1, <1>3, <1>4, <1>6, <2>2, <3>1
  <2> QED BY <2>1, <2>2
<1> QED BY <1>4, <1>6, <1>7, <1>8, <1>9

(* A transaction that another one let in is fine after the step.           *)
LEMMA LetInIsFine ==
  ASSUME Inv, NEW u \in Transactions, Waiting(u), ~ Stopping(u),
         tx'[u] = lockAcquired(tx[u]), front'[u] = front[u], u \in created => u \in created',
         Queued(u)' => Queued(u), Running(u)' => Running(u), ~ Waiting(u)',
         Called(u)' => Called(u), Holds(u)', ~ Stopping(u)'
  PROVE  Fine(u)'
<1>1. PICK r : r = lockAcquired(tx[u])
  OBVIOUS
<1>2. /\ ~ Queued(u) /\ ~ Posted(u) /\ ~ Running(u) /\ ~ Called(u) /\ ~ Active(u)
      /\ u \in created /\ RecordsFine(r, front[u])
      /\ r.next = "Idle" /\ r.requested = "OpenTransactionAndPreflight"
      /\ r.frontend /\ r.lockAcquired /\ r.sqlite = "none"
  BY <1>1, WaitingFacts
<1>3. ~ Active(u)'
  BY <1>2 DEF Active
<1> QED BY <1>1, <1>2, <1>3, GrantedIsFine

(* doCleanup() of the backend r.                                           *)
LEMMA CleanupFacts ==
  ASSUME NEW r \in BackendRecords, ~ r.frontend => r.sqlite = "none", NEW q, q = doCleanup(r)
  PROVE  /\ q \in BackendRecords /\ ~ q.frontend /\ q.sqlite = "none"
         /\ q.next = r.next /\ q.requested = r.requested /\ q.lockAcquired = r.lockAcquired
         /\ q.current = r.current /\ q.retry = r.retry
         /\ q.statements <= r.statements
<1>1. 0 \in 0 .. MaxStatements /\ r.statements \in Nat
  BY ConstantsAssumption DEF BackendRecords
<1>2. CASE r.frontend
  <2>1. q = [r EXCEPT !.frontend = FALSE, !.statements = 0, !.sqlite = "none"]
    BY <1>2 DEF doCleanup
  <2>2. q.statements = 0 /\ 0 <= r.statements
    BY <1>1, <2>1 DEF BackendRecords
  <2>3. q \in BackendRecords
    BY <1>1, <2>1 DEF BackendRecords
  <2>4. /\ ~ q.frontend /\ q.sqlite = "none"
        /\ q.next = r.next /\ q.requested = r.requested /\ q.lockAcquired = r.lockAcquired
        /\ q.current = r.current /\ q.retry = r.retry
    BY <2>1 DEF BackendRecords
  <2> QED BY <2>2, <2>3, <2>4
<1>3. CASE ~ r.frontend
  BY <1>1, <1>3 DEF doCleanup, BackendRecords
<1> QED BY <1>2, <1>3

(* The records of a transaction that is cleaned up still agree.            *)
LEMMA CleanupIsFine ==
  ASSUME NEW r \in BackendRecords, NEW f \in FrontRecords, RecordsFine(r, f),
         NEW q \in BackendRecords, ~ q.frontend, q.sqlite = "none",
         q.current = r.current, q.retry = r.retry, q.statements <= r.statements
  PROVE  RecordsFine(q, f)
<1>1. q.statements \in Nat /\ r.statements \in Nat /\ f.issued \in Nat
  BY ConstantsAssumption DEF BackendRecords, FrontRecords
<1>2. q.statements <= f.issued
  BY <1>1 DEF RecordsFine
<1> QED BY <1>2 DEF RecordsFine, StatementReady

(* The origin lock after the transactions T gave it back.                  *)
LEMMA OriginLockKept ==
  ASSUME NEW T, OriginLockFine, originLock' = OriginLockWithout(T),
         originLock # None /\ originLock \notin T => tx'[originLock].frontend /\ tx'[originLock].lockAcquired
  PROVE  OriginLockFine' /\ originLock' \in {originLock, None}
BY DEF OriginLockFine, OriginLockWithout

(* The parts about the thread and the coordinator's entry, when handles    *)
(* stay as they are.                                                       *)
LEMMA CoordinatorKept ==
  ASSUME Inv,
         \A e \in Contexts :
           /\ Entry!Good(info'[e])
           /\ \A u \in ToSet(info'[e].pending) \cup Entry!HoldersOf(info'[e]) : Context(u) = e
           /\ info[e].pending = <<>> => info'[e].pending = <<>>,
         UNCHANGED phase, \A d \in Databases : db'[d].opened => db[d].opened
  PROVE  \A e \in Contexts : EntryFine(e)'
BY DEF Inv, EntryFine, HandlesOf

(* The task of a transaction whose database is closed or interrupted: the  *)
(* transaction ends, its lock goes to others and the frontend is told.     *)
LEMMA InterruptedFirst ==
  ASSUME Inv, NEW c \in Contexts, CleanupInterrupted(c),
         NEW t, t = Head(tasks[c]), tx[t].next # "End"
  PROVE  Inv'
<1> DEFINE freed == t \in Holding({t})
<1>1. PICK g : g = IF freed THEN GrantedBy(c, t) ELSE <<>>
  OBVIOUS
<1>2. /\ TakesTask(c) /\ t \in Transactions /\ ~ Usable(t)
      /\ tasks' = [tasks EXCEPT ![c] = Tail(@) \o g]
      /\ tx' = [s \in Transactions |->
                  IF s \in ToSet(g) THEN lockAcquired(tx[s])
                  ELSE IF s = t THEN Interrupted(tx[t])
                  ELSE tx[s]]
      /\ info' = IF freed THEN [info EXCEPT ![c] = AfterRelease(c, t)] ELSE info
      /\ front' = [front EXCEPT ![t].requested = "End"]
      /\ callbacks' = [callbacks EXCEPT ![c] = Append(@, t)]
      /\ originLock' = OriginLockWithout({t})
      /\ UNCHANGED <<db, created, phase, running, threadVars>>
  BY <1>1 DEF CleanupInterrupted
<1>3. /\ Types /\ OneInProgress /\ OriginLockFine /\ ThreadFine(c) /\ Fine(t)
      /\ phase[c] = "loop" /\ running[c] = None /\ tasks[c] # <<>>
      /\ tx[t] \in BackendRecords /\ front[t] \in FrontRecords /\ t # None
  BY <1>2, ConstantsAssumption DEF Inv, TakesTask, Types
<1>4. /\ tasks[c] \in Seq(Transactions \cup Databases)
      /\ Tail(tasks[c]) \in Seq(Transactions \cup Databases) /\ t \in ToSet(tasks[c])
      /\ ToSet(tasks[c]) = {t} \cup ToSet(Tail(tasks[c]))
      /\ Unique(Tail(tasks[c])) /\ t \notin ToSet(Tail(tasks[c]))
  <2>1. tasks[c] \in Seq(Transactions \cup Databases) /\ Unique(tasks[c])
    BY <1>3 DEF Types, ThreadFine
  <2> QED BY <1>3, <2>1, TailSet
<1>5. Context(t) = c /\ Posted(t)
  BY <1>2, <1>3, <1>4 DEF ThreadFine, Posted
<1>6. /\ ~ Queued(t) /\ ~ Running(t) /\ ~ Waiting(t) /\ ~ Called(t) /\ ~ Active(t)
      /\ t \in created /\ ~ Stopping(t)
      /\ tx[t].next = "Idle" /\ tx[t].frontend
  <2>1. ~ Stopping(t)
    BY <1>3, <1>5 DEF Stopping, ShuttingDown
  <2>2. ~ Queued(t) /\ ~ Running(t) /\ ~ Waiting(t) /\ ~ Called(t) /\ ~ Active(t)
    BY <1>3, <1>5 DEF Fine, Apart
  <2>3. t \in created
    BY <1>3, <1>5 DEF Fine, FreshFine
  <2>4. tx[t].next = "Idle" /\ tx[t].frontend
    BY <1>3, <1>5, <2>1 DEF Fine, UnderWayFine
  <2> QED BY <2>1, <2>2, <2>3, <2>4
<1>7. freed <=> Holds(t)
  BY <1>3, <1>6 DEF Holding, Fine, HolderFine
<1> HIDE DEF freed
<1>8. /\ info' \in [Contexts -> Entry!Infos]
      /\ g \in Seq(Transactions) /\ Unique(g)
      /\ \A u \in ToSet(g) : u \in Transactions /\ Context(u) = c /\ Waiting(u) /\ u # t
      /\ \A u \in Transactions :
           /\ Waiting(u)' <=> Waiting(u) /\ u \notin ToSet(g)
           /\ Holds(u)' <=> (Holds(u) /\ u # t) \/ u \in ToSet(g)
      /\ \A e \in Contexts :
           /\ Entry!Good(info'[e])
           /\ \A u \in ToSet(info'[e].pending) \cup Entry!HoldersOf(info'[e]) : Context(u) = e
           /\ info[e].pending = <<>> => info'[e].pending = <<>>
  <2>1. CASE freed
    <3>1. g = GrantedBy(c, t) /\ info' = [info EXCEPT ![c] = AfterRelease(c, t)] /\ Holds(t)
      BY <1>1, <1>2, <1>7, <2>1
    <3> QED BY <1>2, <1>5, <3>1, ReleaseStep
  <2>2. CASE ~ freed
    <3>1. g = <<>> /\ info' = info /\ ~ Holds(t)
      BY <1>1, <1>2, <1>7, <2>2
    <3>2. g \in Seq(Transactions) /\ Unique(g) /\ ToSet(g) = {}
      BY <3>1, EmptySet
    <3> QED BY <1>3, <3>1, <3>2 DEF Types, Inv, EntryFine, Waiting, Holds
  <2> QED BY <2>1, <2>2
<1>9. PICK r \in BackendRecords :
        /\ r = Interrupted(tx[t]) /\ ~ r.frontend /\ r.sqlite = "none" /\ r.next = "End"
        /\ RecordsFine(r, front[t])
  <2>1. PICK q : q = [tx[t] EXCEPT !.next = "End", !.sqlite = "none"]
    OBVIOUS
  <2>2. /\ q \in BackendRecords /\ q.sqlite = "none" /\ q.next = "End"
        /\ q.current = tx[t].current /\ q.retry = tx[t].retry /\ q.statements = tx[t].statements
    <3>1. tx[t] \in BackendRecords
      BY <1>3
    <3>2. "End" \in States
      BY DEF States
    <3>3. q \in BackendRecords
      BY <2>1, <3>1, <3>2 DEF BackendRecords
    <3> QED BY <2>1, <3>1, <3>3 DEF BackendRecords
  <2>3. PICK r : r = doCleanup(q)
    OBVIOUS
  <2>4. /\ r \in BackendRecords /\ ~ r.frontend /\ r.sqlite = "none" /\ r.next = "End"
        /\ r.current = q.current /\ r.retry = q.retry /\ r.statements <= q.statements
    BY <2>2, <2>3, CleanupFacts
  <2>5. RecordsFine(r, front[t])
    BY <1>3, <2>2, <2>4, CleanupIsFine DEF Fine
  <2>6. r = Interrupted(tx[t])
    BY <2>1, <2>3 DEF Interrupted
  <2> QED BY <2>4, <2>5, <2>6
<1>10. ASSUME NEW u \in Transactions
       PROVE  /\ tx'[u] \in BackendRecords
              /\ u \in ToSet(g) => /\ tx'[u] = lockAcquired(tx[u])
                                   /\ tx'[u].frontend = tx[u].frontend /\ tx'[u].lockAcquired
              /\ u = t => tx'[u] = r
              /\ u # t /\ u \notin ToSet(g) => tx'[u] = tx[u]
  <2>1. CASE u \in ToSet(g)
    <3>1. tx'[u] = lockAcquired(tx[u]) /\ u # t
      BY <1>2, <1>8, <2>1
    <3>2. Waiting(u) /\ ~ Stopping(u)
      BY <1>5, <1>6, <1>8, <2>1 DEF Stopping
    <3>3. PICK q : q = lockAcquired(tx[u])
      OBVIOUS
    <3>4. q \in BackendRecords /\ q.frontend /\ q.lockAcquired /\ tx[u].frontend
      BY <3>2, <3>3, WaitingFacts
    <3>5. tx[u] \in BackendRecords
      BY <1>3 DEF Types
    <3> QED BY <3>1, <3>3, <3>4, <3>5, <2>1 DEF BackendRecords
  <2>2. CASE u \notin ToSet(g)
    BY <1>2, <1>3, <1>9, <2>2 DEF Types
  <2> QED BY <2>1, <2>2
<1>11. /\ tx' \in [Transactions -> BackendRecords] /\ tx'[t] = r
  BY <1>2, <1>10
<1>12. /\ front' \in [Transactions -> FrontRecords]
       /\ \A u \in Transactions : u # t => front'[u] = front[u]
       /\ front'[t].next = front[t].next /\ front'[t].issued = front[t].issued
  BY <1>2, <1>3 DEF Types, FrontRecords, States
<1>13. /\ callbacks' \in [Contexts -> Seq(Transactions)]
       /\ ToSet(callbacks'[c]) = ToSet(callbacks[c]) \cup {t} /\ Unique(callbacks'[c])
       /\ \A e \in Contexts : e # c => callbacks'[e] = callbacks[e]
  <2>1. callbacks[c] \in Seq(Transactions) /\ t \notin ToSet(callbacks[c])
    BY <1>3, <1>5, <1>6 DEF Types, Called
  <2>2. /\ Append(callbacks[c], t) \in Seq(Transactions)
        /\ ToSet(Append(callbacks[c], t)) = ToSet(callbacks[c]) \cup {t}
        /\ Unique(Append(callbacks[c], t))
    BY <1>2, <1>3, <2>1, AppendSet DEF ThreadFine
  <2> QED BY <1>2, <1>3, <2>2 DEF Types
<1>14. /\ tasks' \in [Contexts -> Seq(Transactions \cup Databases)]
       /\ \A e \in Contexts : Unique(tasks'[e])
       /\ \A e \in Contexts : \A u \in ToSet(tasks'[e]) \cap Transactions : Context(u) = e
       /\ \A e \in Contexts : \A x \in ToSet(tasks'[e]) \cap Databases : x \in ToSet(tasks[e])
       /\ \A u \in Transactions : Posted(u)' <=> (Posted(u) /\ u # t) \/ u \in ToSet(g)
  <2>1. PICK w : w = Tail(tasks[c])
    OBVIOUS
  <2>2. /\ w \in Seq(Transactions \cup Databases) /\ Unique(w)
        /\ ToSet(tasks[c]) = {t} \cup ToSet(w) /\ t \notin ToSet(w)
    BY <1>4, <2>1
  <2>3. ToSet(w) \cap ToSet(g) = {}
    <3>1. \A u \in ToSet(g) : ~ Posted(u) /\ Context(u) = c
      BY <1>5, <1>6, <1>8, WaitingFacts DEF Stopping
    <3> QED BY <2>2, <3>1 DEF Posted
  <2>4. tasks' = [tasks EXCEPT ![c] = w \o g]
    BY <1>2, <2>1
  <2>5. \A u \in ToSet(g) : Context(u) = c
    BY <1>8
  <2>6. ToSet(w) \subseteq ToSet(tasks[c]) /\ ToSet(tasks[c]) \cap Databases \subseteq ToSet(w)
    BY <1>2, <2>2, ConstantsAssumption
  <2>7. g \in Seq(Transactions) /\ Unique(g)
    BY <1>8
  <2>8. /\ tasks' \in [Contexts -> Seq(Transactions \cup Databases)]
        /\ \A e \in Contexts : Unique(tasks'[e])
        /\ \A e \in Contexts : \A u \in ToSet(tasks'[e]) \cap Transactions : Context(u) = e
        /\ \A e \in Contexts : \A x \in ToSet(tasks'[e]) \cap Databases : x \in ToSet(tasks[e])
        /\ \A u \in Transactions : Posted(u)' <=>
             IF Context(u) = c THEN u \in ToSet(w) \/ u \in ToSet(g) ELSE Posted(u)
    BY <2>2, <2>3, <2>4, <2>5, <2>6, <2>7, PostingMoves
  <2> QED BY <1>5, <2>2, <2>5, <2>8 DEF Posted
<1>15. /\ OriginLockFine' /\ originLock' \in {originLock, None}
  <2>1. originLock # None /\ originLock \notin {t} =>
          tx'[originLock].frontend /\ tx'[originLock].lockAcquired
    BY <1>3, <1>10 DEF OriginLockFine, Types
  <2> QED BY <1>2, <1>3, <2>1, OriginLockKept
<1>16. Types'
  BY <1>2, <1>3, <1>8, <1>11, <1>12, <1>13, <1>14, <1>15 DEF Types, threadVars
<1>17. \A u \in Transactions :
        /\ Queued(u)' <=> Queued(u)
        /\ Running(u)' <=> Running(u)
        /\ Called(u)' <=> Called(u) \/ u = t
        /\ Opened(u)' <=> Opened(u)
        /\ Usable(u)' <=> Usable(u)
        /\ Stopping(u)' <=> Stopping(u)
  <2>1. \A u \in Transactions : Called(u)' <=> Called(u) \/ u = t
    BY <1>5, <1>13, Owners DEF Called
  <2> QED BY <1>2, <2>1 DEF Queued, Running, Opened, Usable, Stopping, ShuttingDown, threadVars
<1>18. Fine(t)'
  <2>1. RecordsFine(tx[t], front[t])'
    BY <1>9, <1>11, <1>12 DEF RecordsFine
  <2>2. ~ Posted(t)' /\ ~ Holds(t)' /\ ~ Waiting(t)' /\ ~ Active(t)' /\ Called(t)'
    BY <1>2, <1>6, <1>8, <1>12, <1>14, <1>17 DEF Active
  <2>3. /\ Apart(t)' /\ PostedFine(t)' /\ RunningFine(t)' /\ CalledFine(t)' /\ ActiveFine(t)'
        /\ WaitingFine(t)'
    BY <1>2, <1>6, <1>17, <2>2 DEF Apart, PostedFine, RunningFine, CalledFine, ActiveFine, WaitingFine
  <2>4. UnderWayFine(t)'
    BY <1>2, <1>9, <1>11, <1>17 DEF UnderWayFine
  <2>5. HolderFine(t)' /\ FreshFine(t)'
    BY <1>2, <1>6, <1>9, <1>11, <1>17, <2>2 DEF HolderFine, FreshFine
  <2> QED BY <2>1, <2>3, <2>4, <2>5 DEF Fine
<1>19. ASSUME NEW u \in Transactions PROVE Fine(u)'
  <2>1. CASE u = t
    BY <2>1, <1>18
  <2>2. CASE u \in ToSet(g)
    <3>1. Waiting(u) /\ ~ Stopping(u) /\ u # t
      BY <1>5, <1>6, <1>8, <2>2 DEF Stopping
    <3>3. /\ Queued(u)' => Queued(u)
          /\ Running(u)' => Running(u)
          /\ Called(u)' => Called(u)
          /\ ~ Waiting(u)' /\ Holds(u)' /\ ~ Stopping(u)'
      BY <1>8, <1>17, <2>2, <3>1
    <3>4. tx'[u] = lockAcquired(tx[u]) /\ front'[u] = front[u]
      BY <1>10, <1>12, <2>2, <3>1
    <3> QED BY <1>2, <3>1, <3>3, <3>4, LetInIsFine
  <2>3. CASE u # t /\ u \notin ToSet(g)
    BY <2>3, <1>2, <1>8, <1>10, <1>12, <1>14, <1>17, SameIsFine DEF Same, Inv
  <2> QED BY <2>1, <2>2, <2>3
<1>20. \A d \in Databases : HandleFine(d)'
  BY <1>2, HandlesKept DEF Inv
<1>21. ASSUME NEW e \in Contexts PROVE ThreadFine(e)'
  <2>1. CASE e = c
    BY <2>1, <1>2, <1>3, <1>5, <1>13, <1>14 DEF ThreadFine
  <2>2. CASE e # c
    BY <2>2, <1>2, <1>13, <1>14 DEF Inv, ThreadFine
  <2> QED BY <2>1, <2>2
<1>22. \A e \in Contexts : EntryFine(e)'
  BY <1>2, <1>8, CoordinatorKept
<1>23. OneInProgress'
  <2>1. \A u \in Transactions : InProgress(u)' => InProgress(u)
    BY <1>2, <1>6, <1>10, <1>17 DEF InProgress
  <2> QED BY <1>2, <1>3, <1>17, <2>1, InProgressKept
<1> QED BY <1>15, <1>16, <1>19, <1>20, <1>21, <1>22, <1>23 DEF Inv

(* A later task of a transaction that was ended: nothing is done.          *)
LEMMA InterruptedAgain ==
  ASSUME Inv, NEW c \in Contexts, CleanupInterrupted(c),
         NEW t, t = Head(tasks[c]), tx[t].next = "End"
  PROVE  Inv'
<1>1. PICK g : g = <<>>
  OBVIOUS
<1>2. /\ TakesTask(c) /\ t \in Transactions
      /\ tasks' = [tasks EXCEPT ![c] = Tail(@) \o g]
      /\ tx' = [s \in Transactions |-> IF s \in ToSet(g) THEN lockAcquired(tx[s]) ELSE tx[s]]
      /\ UNCHANGED <<db, front, created, info, phase, running, callbacks, originLock, threadVars>>
  BY <1>1 DEF CleanupInterrupted
<1>3. /\ Types /\ OneInProgress /\ OriginLockFine /\ ThreadFine(c) /\ Fine(t)
      /\ phase[c] = "loop" /\ tasks[c] # <<>>
  BY <1>2 DEF Inv, TakesTask
<1>4. PICK w \in Seq(Transactions \cup Databases) :
        /\ w = Tail(tasks[c]) /\ t \in ToSet(tasks[c]) /\ Unique(w)
        /\ ToSet(tasks[c]) = {t} \cup ToSet(w) /\ t \notin ToSet(w)
  <2>1. tasks[c] \in Seq(Transactions \cup Databases) /\ Unique(tasks[c])
    BY <1>3 DEF Types, ThreadFine
  <2> QED BY <1>3, <2>1, TailSet
<1>5. Context(t) = c /\ Posted(t)
  BY <1>2, <1>3, <1>4 DEF ThreadFine, Posted
<1>6. /\ ~ Queued(t) /\ ~ Running(t) /\ ~ Waiting(t) /\ ~ Called(t) /\ ~ Active(t)
      /\ t \in created /\ RecordsFine(tx[t], front[t]) /\ ~ tx[t].frontend
      /\ ~ Stopping(t) => ~ Holds(t)
  BY <1>3, <1>5 DEF Fine, Apart, FreshFine, RecordsFine, HolderFine
<1>7. g \in Seq(Transactions) /\ Unique(g) /\ ToSet(g) = {}
  BY <1>1, EmptySet
<1>8. tx' = tx
  BY <1>2, <1>3, <1>7 DEF Types
<1>9. /\ tasks' \in [Contexts -> Seq(Transactions \cup Databases)]
      /\ \A e \in Contexts : Unique(tasks'[e])
      /\ \A e \in Contexts : \A u \in ToSet(tasks'[e]) \cap Transactions : Context(u) = e
      /\ \A e \in Contexts : \A x \in ToSet(tasks'[e]) \cap Databases : x \in ToSet(tasks[e])
      /\ \A u \in Transactions : Posted(u)' <=> Posted(u) /\ u # t
  <2>1. tasks' = [tasks EXCEPT ![c] = w \o g]
    BY <1>2, <1>4
  <2>2. ToSet(w) \subseteq ToSet(tasks[c]) /\ ToSet(tasks[c]) \cap Databases \subseteq ToSet(w)
    BY <1>2, <1>4, ConstantsAssumption
  <2>3. ToSet(w) \cap ToSet(g) = {} /\ Unique(w) /\ Unique(g) /\ g \in Seq(Transactions)
        /\ \A u \in ToSet(g) : Context(u) = c
    BY <1>4, <1>7
  <2>4. /\ tasks' \in [Contexts -> Seq(Transactions \cup Databases)]
        /\ \A e \in Contexts : Unique(tasks'[e])
        /\ \A e \in Contexts : \A u \in ToSet(tasks'[e]) \cap Transactions : Context(u) = e
        /\ \A e \in Contexts : \A x \in ToSet(tasks'[e]) \cap Databases : x \in ToSet(tasks[e])
        /\ \A u \in Transactions : Posted(u)' <=>
             IF Context(u) = c THEN u \in ToSet(w) \/ u \in ToSet(g) ELSE Posted(u)
    BY <2>1, <2>2, <2>3, PostingMoves
  <2> QED BY <1>4, <1>5, <1>7, <2>4 DEF Posted
<1>10. Types'
  BY <1>2, <1>3, <1>8, <1>9 DEF Types, threadVars
<1>11. \A u \in Transactions :
        /\ Queued(u)' <=> Queued(u)
        /\ Running(u)' <=> Running(u)
        /\ Waiting(u)' <=> Waiting(u)
        /\ Called(u)' <=> Called(u)
        /\ Active(u)' <=> Active(u)
        /\ Holds(u)' <=> Holds(u)
        /\ Opened(u)' <=> Opened(u)
        /\ Usable(u)' <=> Usable(u)
        /\ Stopping(u)' <=> Stopping(u)
  BY <1>2 DEF Queued, Running, Waiting, Called, Active, Holds, Opened, Usable, Stopping,
              ShuttingDown, threadVars
<1>12. ASSUME NEW u \in Transactions PROVE Fine(u)'
  <2>1. CASE u = t
    BY <2>1, <1>2, <1>6, <1>8, <1>9, <1>11, NowhereIsFine
  <2>2. CASE u # t
    BY <2>2, <1>2, <1>8, <1>9, <1>11, SameIsFine DEF Same, Inv
  <2> QED BY <2>1, <2>2
<1>13. \A d \in Databases : HandleFine(d)'
  BY <1>2, HandlesKept DEF Inv
<1>14. \A e \in Contexts : ThreadFine(e)'
  BY <1>2, <1>9 DEF Inv, ThreadFine
<1>15. \A e \in Contexts : EntryFine(e)'
  BY <1>2, EntriesKept DEF Inv
<1>16. OneInProgress' /\ OriginLockFine'
  BY <1>2, <1>3, <1>8 DEF OneInProgress, InProgress, Queued, Opened, OriginLockFine
<1> QED BY <1>10, <1>12, <1>13, <1>14, <1>15, <1>16 DEF Inv

(* acquireLock(): the transaction waits, or has its lock at once.          *)
LEMMA AcquireLockStep ==
  ASSUME Inv, NEW c \in Contexts, NEW t \in TransactionsOf(c), acquireLock(c, t)
  PROVE  Inv'
<1>a. PICK i : i = info[c]
  OBVIOUS
<1>b. PICK j : j = Coordinator(c)!Acquired(i, t)
  OBVIOUS
<1>c. PICK g : g = Coordinator(c)!Granted(Append(i.pending, t), j)
  OBVIOUS
<1>d. PICK idle : idle = [tx EXCEPT ![t].next = "Idle"]
  OBVIOUS
<1>1.   /\ i = info[c] /\ j = Coordinator(c)!Acquired(i, t)
        /\ g = Coordinator(c)!Granted(Append(i.pending, t), j)
        /\ idle = [tx EXCEPT ![t].next = "Idle"]
        /\ running[c] = t /\ tx[t].next = "AcquireLock"
        /\ info' = [info EXCEPT ![c] = j]
        /\ tx' = [s \in Transactions |->
                    IF s \in ToSet(g) THEN lockAcquired(idle[s]) ELSE idle[s]]
        /\ tasks' = [tasks EXCEPT ![c] = @ \o g]
        /\ running' = [running EXCEPT ![c] = None]
        /\ UNCHANGED <<db, front, created, phase, callbacks, originLock, threadVars>>
  BY <1>a, <1>b, <1>c, <1>d DEF acquireLock, Runs
<1>2. /\ t \in Transactions /\ Context(t) = c /\ Running(t) /\ tx[t].frontend
      /\ tx[t] \in BackendRecords /\ front[t] \in FrontRecords
      /\ RecordsFine(tx[t], front[t]) /\ LockReady(tx[t].next, tx[t])
  BY <1>1, RunsFacts
<1>3. /\ Types /\ OneInProgress /\ OriginLockFine /\ ThreadFine(c) /\ HolderFine(t)
      /\ ~ Queued(t) /\ ~ Posted(t) /\ ~ Waiting(t) /\ ~ Called(t) /\ ~ Active(t)
      /\ t \in created /\ ~ Stopping(t) /\ t # None
  BY <1>2, RunningFacts, ConstantsAssumption DEF Inv
<1>4. ~ tx[t].lockAcquired /\ tx[t].sqlite = "none" /\ ~ Holds(t)
  BY <1>1, <1>2, <1>3 DEF LockReady, HolderFine
<1>5. /\ Entry!Good(i) /\ t \notin Entry!HoldersOf(i) /\ t \notin ToSet(i.pending)
      /\ \A u \in ToSet(i.pending) \cup Entry!HoldersOf(i) : Context(u) = c
  BY <1>1, <1>2, <1>3, <1>4 DEF Inv, EntryFine, Holds, Waiting
<1>6. /\ Entry!Good(j)
      /\ g \in Seq(Transactions) /\ Unique(g)
      /\ ToSet(i.pending) \cup {t} = ToSet(g) \cup ToSet(j.pending)
      /\ ToSet(g) \cap ToSet(j.pending) = {}
      /\ Entry!HoldersOf(j) = Entry!HoldersOf(i) \cup ToSet(g)
  <2>1. /\ t \in Transactions /\ Entry!Good(i)
        /\ t \notin Entry!HoldersOf(i) /\ t \notin ToSet(i.pending)
        /\ j = Coordinator(c)!Acquired(i, t)
        /\ g = Coordinator(c)!Granted(Append(i.pending, t), j)
    BY <1>1, <1>2, <1>5
  <2>2. LetIn(ToSet(i.pending) \cup {t}, Entry!HoldersOf(i), j, g)
    BY <2>1, AcquireMoves
  <2> QED BY <2>2 DEF LetIn
<1>7. j \in Entry!Infos /\ i.pending \in Seq(Transactions) /\ ToSet(i.pending) \subseteq Transactions
  BY <1>5, <1>6, GoodFields
<1>8. /\ info' \in [Contexts -> Entry!Infos] /\ info'[c] = j
      /\ \A e \in Contexts : e # c => info'[e] = info[e]
  BY <1>1, <1>3, <1>7 DEF Types
<1>9. \A u \in ToSet(g) : u \in Transactions /\ Context(u) = c /\ (Waiting(u) \/ u = t)
  BY <1>1, <1>2, <1>5, <1>6, <1>7 DEF Waiting
<1>10. ASSUME NEW u \in Transactions
       PROVE  /\ Waiting(u)' <=> (Waiting(u) \/ u = t) /\ u \notin ToSet(g)
              /\ Holds(u)' <=> Holds(u) \/ u \in ToSet(g)
  <2>1. CASE Context(u) = c
    BY <1>1, <1>6, <1>8, <2>1 DEF Waiting, Holds
  <2>2. CASE Context(u) # c
    BY <1>2, <1>8, <1>9, <2>2, Owners DEF Waiting, Holds
  <2> QED BY <2>1, <2>2
<1>11. PICK r \in BackendRecords :
        /\ r = [tx[t] EXCEPT !.next = "Idle"] /\ r.next = "Idle" /\ r.frontend
        /\ ~ r.lockAcquired /\ r.sqlite = "none" /\ RecordsFine(r, front[t])
  <2>1. PICK r : r = [tx[t] EXCEPT !.next = "Idle"]
    OBVIOUS
  <2>2. /\ r \in BackendRecords /\ r.next = "Idle" /\ r.frontend = tx[t].frontend
        /\ r.lockAcquired = tx[t].lockAcquired /\ r.sqlite = tx[t].sqlite
        /\ r.statements = tx[t].statements /\ r.current = tx[t].current /\ r.retry = tx[t].retry
    BY <1>2, <2>1 DEF BackendRecords, States
  <2>3. RecordsFine(r, front[t])
    BY <1>2, <2>2 DEF RecordsFine, StatementReady
  <2> QED BY <1>2, <1>4, <2>1, <2>2, <2>3
<1>12. PICK q \in BackendRecords :
        /\ q = lockAcquired(r) /\ q.next = "Idle" /\ q.requested = "OpenTransactionAndPreflight"
        /\ q.frontend /\ q.lockAcquired /\ q.sqlite = "none" /\ RecordsFine(q, front[t])
  <2>1. PICK q : q = lockAcquired(r)
    OBVIOUS
  <2>2. /\ q \in BackendRecords /\ q.next = r.next
        /\ q.requested = "OpenTransactionAndPreflight" /\ q.lockAcquired
        /\ q.frontend = r.frontend /\ q.sqlite = r.sqlite /\ q.retry = r.retry
        /\ q.current = r.current /\ q.statements = r.statements
    BY <2>1 DEF lockAcquired, BackendRecords, States
  <2>3. RecordsFine(q, front[t])
    BY <1>11, <2>2 DEF RecordsFine, StatementReady
  <2> QED BY <1>11, <2>1, <2>2, <2>3
<1>13. idle[t] = r /\ \A u \in Transactions : u # t => idle[u] = tx[u]
  BY <1>1, <1>2, <1>3, <1>11 DEF Types
<1>14. ASSUME NEW u \in Transactions
       PROVE  /\ tx'[u] \in BackendRecords
              /\ u \in ToSet(g) /\ u # t => tx'[u] = lockAcquired(tx[u])
              /\ u \in ToSet(g) => tx'[u].lockAcquired
              /\ tx'[u].frontend = tx[u].frontend
              /\ u = t => tx'[u] = IF t \in ToSet(g) THEN q ELSE r
              /\ u # t /\ u \notin ToSet(g) => tx'[u] = tx[u]
  <2>1. CASE u \in ToSet(g) /\ u # t
    <3>1. tx'[u] = lockAcquired(tx[u])
      BY <1>1, <1>13, <2>1
    <3>2. Waiting(u) /\ ~ Stopping(u)
      BY <1>2, <1>3, <1>9, <2>1 DEF Stopping
    <3>3. PICK p : p = lockAcquired(tx[u])
      OBVIOUS
    <3>4. p \in BackendRecords /\ p.frontend /\ p.lockAcquired /\ tx[u].frontend
      BY <3>2, <3>3, WaitingFacts
    <3>5. tx[u] \in BackendRecords
      BY <1>3 DEF Types
    <3> QED BY <3>1, <3>3, <3>4, <3>5, <2>1 DEF BackendRecords
  <2>2. CASE u \notin ToSet(g) /\ u # t
    BY <1>1, <1>3, <1>13, <2>2 DEF Types
  <2>3. CASE u = t
    <3>1. tx'[u] = IF t \in ToSet(g) THEN q ELSE r
      BY <1>1, <1>12, <1>13, <2>3
    <3> QED BY <1>2, <1>11, <1>12, <2>3, <3>1
  <2> QED BY <2>1, <2>2, <2>3
<1>15. tx' \in [Transactions -> BackendRecords]
  BY <1>1, <1>14
<1>16. /\ running' \in [Contexts -> Transactions \cup {None}] /\ running'[c] = None
       /\ \A e \in Contexts : e # c => running'[e] = running[e]
  BY <1>1, <1>3 DEF Types
<1>17. /\ tasks' \in [Contexts -> Seq(Transactions \cup Databases)]
       /\ \A e \in Contexts : Unique(tasks'[e])
       /\ \A e \in Contexts : \A u \in ToSet(tasks'[e]) \cap Transactions : Context(u) = e
       /\ \A e \in Contexts : \A x \in ToSet(tasks'[e]) \cap Databases : x \in ToSet(tasks[e])
       /\ \A u \in Transactions : Posted(u)' <=> Posted(u) \/ u \in ToSet(g)
  <2>1. PICK w : w = tasks[c]
    OBVIOUS
  <2>2. w \in Seq(Transactions \cup Databases) /\ Unique(w)
    BY <1>3, <2>1 DEF Types, ThreadFine
  <2>3. ToSet(w) \cap ToSet(g) = {}
    <3>1. \A u \in ToSet(g) : ~ Posted(u) /\ Context(u) = c
      BY <1>2, <1>3, <1>9, WaitingFacts DEF Stopping
    <3> QED BY <2>1, <3>1 DEF Posted
  <2>4. tasks' = [tasks EXCEPT ![c] = w \o g]
    BY <1>1, <2>1
  <2>5. /\ \A u \in ToSet(g) : Context(u) = c
        /\ ToSet(w) \subseteq ToSet(tasks[c]) /\ ToSet(tasks[c]) \cap Databases \subseteq ToSet(w)
        /\ g \in Seq(Transactions) /\ Unique(g)
    BY <1>6, <1>9, <2>1
  <2>6. /\ tasks' \in [Contexts -> Seq(Transactions \cup Databases)]
        /\ \A e \in Contexts : Unique(tasks'[e])
        /\ \A e \in Contexts : \A u \in ToSet(tasks'[e]) \cap Transactions : Context(u) = e
        /\ \A e \in Contexts : \A x \in ToSet(tasks'[e]) \cap Databases : x \in ToSet(tasks[e])
        /\ \A u \in Transactions : Posted(u)' <=>
             IF Context(u) = c THEN u \in ToSet(w) \/ u \in ToSet(g) ELSE Posted(u)
    BY <2>2, <2>3, <2>4, <2>5, PostingMoves
  <2> QED BY <2>1, <2>5, <2>6 DEF Posted
<1>18. Types'
  BY <1>1, <1>3, <1>8, <1>15, <1>16, <1>17 DEF Types, threadVars
<1>19. \A u \in Transactions :
        /\ Queued(u)' <=> Queued(u)
        /\ Running(u)' <=> Running(u) /\ u # t
        /\ Called(u)' <=> Called(u)
        /\ Active(u)' <=> Active(u)
        /\ Opened(u)' <=> Opened(u)
        /\ Usable(u)' <=> Usable(u)
        /\ Stopping(u)' <=> Stopping(u)
  <2>1. \A u \in Transactions : Running(u)' <=> Running(u) /\ u # t
    BY <1>1, <1>2, <1>16, Owners, ConstantsAssumption DEF Running
  <2> QED BY <1>1, <2>1 DEF Queued, Called, Active, Opened, Usable, Stopping, ShuttingDown, threadVars
<1>20. Fine(t)'
  <2>1. CASE t \in ToSet(g)
    <3>1. tx'[t] = q /\ front'[t] = front[t]
      BY <1>1, <1>2, <1>14, <2>1
    <3>2. /\ ~ Queued(t)' /\ ~ Running(t)' /\ ~ Waiting(t)' /\ ~ Called(t)' /\ ~ Active(t)'
          /\ Holds(t)' /\ ~ Stopping(t)' /\ t \in created'
      BY <1>1, <1>2, <1>3, <1>10, <1>19, <2>1
    <3> QED BY <1>2, <1>12, <3>1, <3>2, GrantedIsFine
  <2>2. CASE t \notin ToSet(g)
    <3>1. tx'[t] = r /\ front'[t] = front[t]
      BY <1>1, <1>2, <1>14, <2>2
    <3>2. /\ ~ Queued(t)' /\ ~ Running(t)' /\ Waiting(t)' /\ ~ Called(t)' /\ ~ Active(t)'
          /\ ~ Holds(t)' /\ ~ Stopping(t)' /\ t \in created' /\ ~ Posted(t)'
      BY <1>1, <1>2, <1>3, <1>4, <1>10, <1>17, <1>19, <2>2
    <3>3. Apart(t)' /\ UnderWayFine(t)' /\ PostedFine(t)' /\ RunningFine(t)' /\ CalledFine(t)'
          /\ ActiveFine(t)'
      BY <3>2 DEF Apart, UnderWayFine, PostedFine, RunningFine, CalledFine, ActiveFine
    <3>4. WaitingFine(t)' /\ HolderFine(t)' /\ FreshFine(t)'
      BY <1>11, <3>1, <3>2 DEF WaitingFine, HolderFine, FreshFine
    <3> QED BY <1>11, <3>1, <3>3, <3>4 DEF Fine
  <2> QED BY <2>1, <2>2
<1>21. ASSUME NEW u \in Transactions PROVE Fine(u)'
  <2>1. CASE u = t
    BY <2>1, <1>20
  <2>2. CASE u \in ToSet(g) /\ u # t
    <3>1. Waiting(u) /\ ~ Stopping(u)
      BY <1>2, <1>3, <1>9, <2>2 DEF Stopping
    <3>2. /\ Queued(u)' => Queued(u)
          /\ Running(u)' => Running(u)
          /\ Called(u)' => Called(u)
          /\ ~ Waiting(u)' /\ Holds(u)' /\ ~ Stopping(u)'
      BY <1>10, <1>19, <2>2, <3>1
    <3>3. tx'[u] = lockAcquired(tx[u]) /\ front'[u] = front[u]
      BY <1>1, <1>14, <2>2
    <3> QED BY <1>1, <3>1, <3>2, <3>3, LetInIsFine
  <2>3. CASE u # t /\ u \notin ToSet(g)
    BY <2>3, <1>1, <1>10, <1>14, <1>17, <1>19, SameIsFine DEF Same, Inv
  <2> QED BY <2>1, <2>2, <2>3
<1>22. \A d \in Databases : HandleFine(d)'
  BY <1>1, HandlesKept DEF Inv
<1>23. ASSUME NEW e \in Contexts PROVE ThreadFine(e)'
  <2>1. CASE e = c
    BY <2>1, <1>1, <1>3, <1>16, <1>17 DEF ThreadFine
  <2>2. CASE e # c
    BY <2>2, <1>1, <1>16, <1>17 DEF Inv, ThreadFine
  <2> QED BY <2>1, <2>2
<1>24. ASSUME NEW e \in Contexts PROVE EntryFine(e)'
  <2>1. CASE e # c
    BY <2>1, <1>1, <1>8 DEF Inv, EntryFine, HandlesOf
  <2>2. CASE e = c
    <3>1. phase'[c] \notin {"closing", "finished"}
      BY <1>1, <1>2, <1>3 DEF Stopping, ShuttingDown
    <3>2. \A u \in ToSet(j.pending) \cup Entry!HoldersOf(j) : Context(u) = c
      BY <1>2, <1>5, <1>6
    <3> QED BY <1>6, <1>8, <2>2, <3>1, <3>2 DEF EntryFine
  <2> QED BY <2>1, <2>2
<1>25. OneInProgress'
  <2>1. \A u \in Transactions : InProgress(u)' => InProgress(u)
    BY <1>1, <1>14, <1>19 DEF InProgress
  <2> QED BY <1>1, <1>3, <1>19, <2>1, InProgressKept
<1>26. OriginLockFine'
  BY <1>1, <1>3, <1>4, <1>14 DEF OriginLockFine, Types
<1> QED BY <1>18, <1>21, <1>22, <1>23, <1>24, <1>25, <1>26 DEF Inv

(* The queue of a handle that is closed is empty.                          *)
LEMMA ClosedIsEmpty ==
  ASSUME Inv, NEW d \in Databases, ~ db[d].opened
  PROVE  db[d].transactionQueue = <<>>
<1>1. HandleFine(d) /\ db[d].transactionQueue \in Seq(Transactions)
  BY DEF Inv, Types, HandleRecords
<1>2. \A u \in ToSet(db[d].transactionQueue) : u \in Transactions /\ DatabaseOf[u] = d
  BY <1>1, Elements DEF HandleFine
<1>3. ASSUME NEW u \in ToSet(db[d].transactionQueue) PROVE FALSE
  <2>1. Queued(u) /\ ~ Opened(u) /\ u \in Transactions
    BY <1>2 DEF Queued, Opened
  <2> QED BY <2>1, FreshFacts
<1> QED BY <1>1, <1>3, Elements

(* cleanupAndTerminate(): the transaction ends, its lock goes to others,   *)
(* and the next transaction of the handle is posted.                       *)
LEMMA TerminateStep ==
  ASSUME Inv, NEW c \in Contexts, NEW t \in TransactionsOf(c), cleanupAndTerminate(c, t)
  PROVE  Inv'
<1> DEFINE d == DatabaseOf[t]
<1>1. /\ running[c] = t /\ tx[t].next = "CleanupAndTerminate"
  BY DEF cleanupAndTerminate, Runs
<1>2. /\ t \in Transactions /\ Context(t) = c /\ Running(t) /\ tx[t].frontend
      /\ tx[t] \in BackendRecords /\ front[t] \in FrontRecords
      /\ RecordsFine(tx[t], front[t]) /\ tx[t].lockAcquired
  BY <1>1, RunsFacts
<1>3. /\ Types /\ OneInProgress /\ OriginLockFine /\ ThreadFine(c) /\ HolderFine(t)
      /\ ~ Queued(t) /\ ~ Posted(t) /\ ~ Waiting(t) /\ ~ Called(t) /\ ~ Active(t)
      /\ t \in created /\ ~ Stopping(t) /\ t # None
      /\ d \in Databases /\ c = ContextOf[d]
  BY <1>2, RunningFacts, Owners, ConstantsAssumption DEF Inv
<1>4. Holds(t) /\ t \in Holding({t})
  BY <1>2, <1>3 DEF HolderFine, Holding
<1>5. PICK g : g = GrantedBy(c, t)
  OBVIOUS
<1>6. PICK s : s = scheduleTransaction(db[d])
  OBVIOUS
<1>7. PICK r : r = doCleanup([tx[t] EXCEPT !.next = "End"])
  OBVIOUS
<1>8. /\ info' = [info EXCEPT ![c] = AfterRelease(c, t)]
      /\ tx' = [u \in Transactions |->
                  IF u \in ToSet(g) THEN lockAcquired(tx[u]) ELSE IF u = t THEN r ELSE tx[u]]
      /\ originLock' = OriginLockWithout({t})
      /\ db' = [db EXCEPT ![d] = s.handle]
      /\ tasks' = [tasks EXCEPT ![c] = @ \o g \o s.posted]
      /\ running' = [running EXCEPT ![c] = None]
      /\ UNCHANGED <<front, created, phase, callbacks, threadVars>>
  BY <1>4, <1>5, <1>6, <1>7 DEF cleanupAndTerminate
<1> HIDE DEF d
<1>9. /\ info' \in [Contexts -> Entry!Infos]
      /\ g \in Seq(Transactions) /\ Unique(g)
      /\ \A u \in ToSet(g) : u \in Transactions /\ Context(u) = c /\ Waiting(u) /\ u # t
      /\ \A u \in Transactions :
           /\ Waiting(u)' <=> Waiting(u) /\ u \notin ToSet(g)
           /\ Holds(u)' <=> (Holds(u) /\ u # t) \/ u \in ToSet(g)
      /\ \A e \in Contexts :
           /\ Entry!Good(info'[e])
           /\ \A u \in ToSet(info'[e].pending) \cup Entry!HoldersOf(info'[e]) : Context(u) = e
           /\ info[e].pending = <<>> => info'[e].pending = <<>>
  BY <1>2, <1>4, <1>5, <1>8, ReleaseStep
<1>10. PICK h \in HandleRecords : h = db[d] /\ HandleFine(d)
  BY <1>3 DEF Inv, Types
<1>11. PICK p \in Seq(Transactions), k \in HandleRecords :
        /\ p = s.posted /\ k = s.handle /\ Unique(p) /\ Unique(k.transactionQueue)
        /\ ToSet(h.transactionQueue) = ToSet(p) \cup ToSet(k.transactionQueue)
        /\ ToSet(p) \cap ToSet(k.transactionQueue) = {}
        /\ ToSet(p) # {} <=> k.transactionInProgress
        /\ \E x : ToSet(p) \subseteq {x}
        /\ k.queueEnabled = h.queueEnabled /\ k.opened = h.opened
        /\ k.deleted = h.deleted
  <2>1. Unique(h.transactionQueue) /\ s = scheduleTransaction(h)
        /\ (h.queueEnabled \/ h.transactionQueue = <<>>)
    BY <1>3, <1>6, <1>10, ClosedIsEmpty DEF HandleFine
  <2>2. /\ s.handle \in HandleRecords
        /\ s.posted \in Seq(Transactions) /\ Unique(s.posted)
        /\ Unique(s.handle.transactionQueue)
        /\ ToSet(h.transactionQueue) = ToSet(s.posted) \cup ToSet(s.handle.transactionQueue)
        /\ ToSet(s.posted) \cap ToSet(s.handle.transactionQueue) = {}
        /\ ToSet(s.posted) # {} <=> s.handle.transactionInProgress
        /\ \E x : ToSet(s.posted) \subseteq {x}
        /\ s.handle.queueEnabled = h.queueEnabled /\ s.handle.opened = h.opened
        /\ s.handle.deleted = h.deleted
    BY <2>1, ScheduleMoves
  <2> QED BY <2>2
<1>12. \A u \in ToSet(h.transactionQueue) :
         u \in Transactions /\ DatabaseOf[u] = d /\ Context(u) = c /\ Queued(u)
  <2>1. ToSet(h.transactionQueue) \subseteq Transactions
    BY Elements DEF HandleRecords
  <2> QED BY <1>3, <1>10, <2>1 DEF HandleFine, Queued, Context
<1>13. \A u \in ToSet(p) : /\ u \in Transactions /\ DatabaseOf[u] = d /\ Context(u) = c
                          /\ Queued(u) /\ u # t /\ ~ Waiting(u) /\ u \notin ToSet(g)
  BY <1>3, <1>9, <1>11, <1>12, FreshFacts
<1>14. /\ db' \in [Databases -> HandleRecords] /\ db'[d] = k
       /\ \A e \in Databases : e # d => db'[e] = db[e]
       /\ \A e \in Databases : HandleFine(e)' /\ db'[e].deleted = db[e].deleted
       /\ \A u \in Transactions :
            /\ Queued(u)' <=> IF DatabaseOf[u] = d THEN u \in ToSet(k.transactionQueue)
                                                   ELSE Queued(u)
            /\ Opened(u)' <=> IF DatabaseOf[u] = d THEN k.opened ELSE Opened(u)
  <2>1. k.queueEnabled <=> k.opened
    BY <1>10, <1>11 DEF HandleFine
  <2>2. \A u \in ToSet(k.transactionQueue) : DatabaseOf[u] = d
    BY <1>11, <1>12
  <2>3. db' = [db EXCEPT ![d] = k] /\ k.deleted = db[d].deleted /\ Unique(k.transactionQueue)
    BY <1>8, <1>10, <1>11
  <2> QED BY <1>3, <2>1, <2>2, <2>3, HandleMoves
<1>15. \A u \in Transactions : /\ Opened(u)' <=> Opened(u)
                               /\ Queued(u)' <=> Queued(u) /\ u \notin ToSet(p)
  BY <1>10, <1>11, <1>13, <1>14 DEF Opened, Queued
<1>16. /\ r \in BackendRecords /\ ~ r.frontend /\ RecordsFine(r, front[t])
  <2>1. PICK q : q = [tx[t] EXCEPT !.next = "End"]
    OBVIOUS
  <2>2. "End" \in States
    BY DEF States
  <2>3. /\ q \in BackendRecords /\ q.frontend = tx[t].frontend
        /\ q.current = tx[t].current /\ q.retry = tx[t].retry /\ q.statements = tx[t].statements
    BY <1>2, <2>1, <2>2 DEF BackendRecords
  <2>4. /\ r \in BackendRecords /\ ~ r.frontend /\ r.sqlite = "none"
        /\ r.current = q.current /\ r.retry = q.retry /\ r.statements <= q.statements
    BY <1>2, <1>7, <2>1, <2>3, CleanupFacts
  <2>5. RecordsFine(r, front[t])
    BY <1>2, <2>3, <2>4, CleanupIsFine
  <2> QED BY <2>4, <2>5
<1>17. ASSUME NEW u \in Transactions
       PROVE  /\ tx'[u] \in BackendRecords
              /\ u \in ToSet(g) => /\ tx'[u] = lockAcquired(tx[u])
                                   /\ tx'[u].frontend = tx[u].frontend /\ tx'[u].lockAcquired
              /\ u = t => tx'[u] = r
              /\ u # t /\ u \notin ToSet(g) => tx'[u] = tx[u]
  <2>1. CASE u \in ToSet(g)
    <3>1. tx'[u] = lockAcquired(tx[u]) /\ u # t
      BY <1>8, <1>9, <2>1
    <3>2. Waiting(u) /\ ~ Stopping(u)
      BY <1>2, <1>3, <1>9, <2>1 DEF Stopping
    <3>3. PICK q : q = lockAcquired(tx[u])
      OBVIOUS
    <3>4. q \in BackendRecords /\ q.frontend /\ q.lockAcquired /\ tx[u].frontend
      BY <3>2, <3>3, WaitingFacts
    <3>5. tx[u] \in BackendRecords
      BY <1>3 DEF Types
    <3> QED BY <3>1, <3>3, <3>4, <3>5, <2>1 DEF BackendRecords
  <2>2. CASE u \notin ToSet(g)
    BY <1>3, <1>8, <1>16, <2>2 DEF Types
  <2> QED BY <2>1, <2>2
<1>18. tx' \in [Transactions -> BackendRecords] /\ tx'[t] = r
  BY <1>2, <1>8, <1>17
<1>19. /\ running' \in [Contexts -> Transactions \cup {None}] /\ running'[c] = None
       /\ \A e \in Contexts : e # c => running'[e] = running[e]
  BY <1>3, <1>8 DEF Types
<1>20. /\ tasks' \in [Contexts -> Seq(Transactions \cup Databases)]
       /\ \A e \in Contexts : Unique(tasks'[e])
       /\ \A e \in Contexts : \A u \in ToSet(tasks'[e]) \cap Transactions : Context(u) = e
       /\ \A e \in Contexts : \A x \in ToSet(tasks'[e]) \cap Databases : x \in ToSet(tasks[e])
       /\ \A u \in Transactions : Posted(u)' <=> Posted(u) \/ u \in ToSet(g) \/ u \in ToSet(p)
  <2>1. PICK w : w = tasks[c]
    OBVIOUS
  <2>2. w \in Seq(Transactions \cup Databases) /\ Unique(w)
    BY <1>3, <2>1 DEF Types, ThreadFine
  <2>3. PICK v : v = g \o p
    OBVIOUS
  <2>4. v \in Seq(Transactions) /\ ToSet(v) = ToSet(g) \cup ToSet(p) /\ Unique(v)
    <3>1. ToSet(g) \cap ToSet(p) = {} /\ Unique(g) /\ Unique(p) /\ g \in Seq(Transactions)
      BY <1>9, <1>11, <1>13
    <3> QED BY <2>3, <3>1, ConcatSet
  <2>5. ToSet(w) \cap ToSet(v) = {}
    <3>1. \A u \in ToSet(g) : ~ Posted(u) /\ Context(u) = c
      BY <1>2, <1>3, <1>9, WaitingFacts DEF Stopping
    <3>2. \A u \in ToSet(p) : ~ Posted(u) /\ Context(u) = c
      BY <1>13, FreshFacts
    <3> QED BY <2>1, <2>4, <3>1, <3>2 DEF Posted
  <2>6. tasks' = [tasks EXCEPT ![c] = w \o v]
    <3>1. w \o g \o p = w \o v
      BY <1>9, <2>2, <2>3, ConcatAssociative
    <3> QED BY <1>8, <1>11, <2>1, <3>1
  <2>7. /\ \A u \in ToSet(v) : Context(u) = c
        /\ ToSet(w) \subseteq ToSet(tasks[c]) /\ ToSet(tasks[c]) \cap Databases \subseteq ToSet(w)
    BY <1>9, <1>13, <2>1, <2>4
  <2>8. /\ tasks' \in [Contexts -> Seq(Transactions \cup Databases)]
        /\ \A e \in Contexts : Unique(tasks'[e])
        /\ \A e \in Contexts : \A u \in ToSet(tasks'[e]) \cap Transactions : Context(u) = e
        /\ \A e \in Contexts : \A x \in ToSet(tasks'[e]) \cap Databases : x \in ToSet(tasks[e])
        /\ \A u \in Transactions : Posted(u)' <=>
             IF Context(u) = c THEN u \in ToSet(w) \/ u \in ToSet(v) ELSE Posted(u)
    BY <2>2, <2>4, <2>5, <2>6, <2>7, PostingMoves
  <2> QED BY <2>1, <2>4, <2>7, <2>8 DEF Posted
<1>21. /\ OriginLockFine' /\ originLock' \in {originLock, None}
  <2>1. originLock # None /\ originLock \notin {t} =>
          tx'[originLock].frontend /\ tx'[originLock].lockAcquired
    BY <1>3, <1>17 DEF OriginLockFine, Types
  <2> QED BY <1>3, <1>8, <2>1, OriginLockKept
<1>22. Types'
  BY <1>3, <1>8, <1>9, <1>14, <1>18, <1>19, <1>20, <1>21 DEF Types, threadVars
<1>23. \A u \in Transactions :
        /\ Running(u)' <=> Running(u) /\ u # t
        /\ Called(u)' <=> Called(u)
        /\ Active(u)' <=> Active(u)
        /\ Usable(u)' <=> Usable(u)
        /\ Stopping(u)' <=> Stopping(u)
  <2>1. \A u \in Transactions : Running(u)' <=> Running(u) /\ u # t
    BY <1>1, <1>2, <1>19, Owners, ConstantsAssumption DEF Running
  <2>2. \A u \in Transactions : Usable(u)' <=> Usable(u)
    BY <1>8, <1>15 DEF Usable, Opened, threadVars
  <2> QED BY <1>8, <2>1, <2>2 DEF Called, Active, Stopping, ShuttingDown
<1>24. ASSUME NEW u \in Transactions PROVE Fine(u)'
  <2>1. CASE u = t
    <3>1. /\ ~ Queued(t)' /\ ~ Posted(t)' /\ ~ Running(t)' /\ ~ Waiting(t)' /\ ~ Called(t)'
          /\ ~ Active(t)' /\ ~ Holds(t)' /\ t \in created'
      BY <1>2, <1>3, <1>8, <1>9, <1>13, <1>15, <1>20, <1>23
    <3>2. RecordsFine(tx'[t], front'[t]) /\ ~ tx'[t].frontend
      BY <1>8, <1>16, <1>18
    <3> QED BY <1>2, <2>1, <3>1, <3>2, NowhereIsFine
  <2>2. CASE u \in ToSet(g)
    <3>1. Waiting(u) /\ ~ Stopping(u) /\ u # t
      BY <1>2, <1>3, <1>9, <2>2 DEF Stopping
    <3>2. /\ Queued(u)' => Queued(u)
          /\ Running(u)' => Running(u)
          /\ Called(u)' => Called(u)
          /\ ~ Waiting(u)' /\ Holds(u)' /\ ~ Stopping(u)'
      BY <1>9, <1>15, <1>23, <2>2, <3>1
    <3>3. tx'[u] = lockAcquired(tx[u]) /\ front'[u] = front[u]
      BY <1>8, <1>17, <2>2, <3>1
    <3> QED BY <1>8, <3>1, <3>2, <3>3, LetInIsFine
  <2>3. CASE u \in ToSet(p)
    <3>1. u # t /\ u \notin ToSet(g) /\ Queued(u)
      BY <1>13, <2>3
    <3>2. /\ tx[u] = FreshBackend /\ front[u] = FreshFront
          /\ ~ Running(u) /\ ~ Waiting(u) /\ ~ Called(u) /\ Opened(u) /\ u \in created
          /\ ~ Stopping(u) => ~ Holds(u)
      BY <3>1, FreshFacts
    <3>3. tx'[u] = FreshBackend /\ front'[u] = FreshFront /\ u \in created'
      BY <1>8, <1>17, <3>1, <3>2
    <3>4. /\ ~ Queued(u)' /\ Posted(u)' /\ ~ Running(u)' /\ ~ Waiting(u)' /\ ~ Called(u)' /\ Opened(u)'
          /\ ~ Stopping(u)' => ~ Holds(u)'
      BY <1>9, <1>15, <1>20, <1>23, <2>3, <3>1, <3>2
    <3> QED BY <3>3, <3>4, FirstPostIsFine
  <2>4. CASE u # t /\ u \notin ToSet(g) /\ u \notin ToSet(p)
    BY <2>4, <1>8, <1>9, <1>15, <1>17, <1>20, <1>23, SameIsFine DEF Same, Inv
  <2> QED BY <2>1, <2>2, <2>3, <2>4
<1>25. ASSUME NEW e \in Contexts PROVE ThreadFine(e)'
  <2>1. CASE e = c
    BY <2>1, <1>3, <1>8, <1>14, <1>19, <1>20 DEF ThreadFine
  <2>2. CASE e # c
    BY <2>2, <1>8, <1>14, <1>19, <1>20 DEF Inv, ThreadFine
  <2> QED BY <2>1, <2>2
<1>26. \A e \in Contexts : EntryFine(e)'
  <2>1. \A e \in Databases : db'[e].opened => db[e].opened
    BY <1>10, <1>11, <1>14
  <2> QED BY <1>8, <1>9, <2>1, CoordinatorKept
<1>27. OneInProgress'
  <2>1. ASSUME NEW u \in Transactions, InProgress(u)'
        PROVE  (InProgress(u) /\ u # t) \/ u \in ToSet(p)
    BY <1>8, <1>15, <1>16, <1>17, <1>18, <2>1 DEF InProgress
  <2>2. InProgress(t)
    BY <1>2, <1>3 DEF InProgress
  <2>3. ASSUME NEW u \in Transactions, InProgress(u), u # t PROVE DatabaseOf[u] # d
    BY <1>2, <1>3, <2>2, <2>3 DEF OneInProgress, d
  <2>4. \A u \in ToSet(p) : DatabaseOf[u] = d
    BY <1>13
  <2>5. \A u, v \in Transactions :
          InProgress(u)' /\ InProgress(v)' /\ DatabaseOf[u] = DatabaseOf[v] => u = v
    BY <1>3, <1>11, <2>1, <2>3, <2>4 DEF OneInProgress
  <2>6. ASSUME NEW u \in Transactions, InProgress(u)', Opened(u)'
        PROVE  db'[DatabaseOf[u]].transactionInProgress
    <3>1. CASE u \in ToSet(p)
      BY <1>11, <1>14, <2>4, <3>1
    <3>2. CASE u \notin ToSet(p)
      BY <1>3, <1>14, <1>15, <2>1, <2>3, <2>6, <3>2, Owners DEF OneInProgress
    <3> QED BY <3>1, <3>2
  <2> QED BY <2>5, <2>6 DEF OneInProgress
<1> QED BY <1>14, <1>21, <1>22, <1>24, <1>25, <1>26, <1>27 DEF Inv

-----------------------------------------------------------------------------
(***************************************************************************)
(* Closing a handle and shutting the thread down                           *)
(***************************************************************************)

(* DatabaseBackend::close(): the transactions of the handle that have not  *)
(* ended are cleaned up, and those that one of them kept out are let in.   *)
LEMMA CloseStep ==
  ASSUME Inv, NEW c \in Contexts, NEW d \in Databases, ContextOf[d] = c, close(c, d),
         running[c] = None, phase[c] \in {"loop", "closing"},
         UNCHANGED <<front, created, killed, interrupted, running, callbacks>>
  PROVE  Inv'
<1>a. PICK X : X = {t \in ToSet(tasks[c]) \cap Transactions : DatabaseOf[t] = d}
  OBVIOUS
<1>b. PICK D : D = X \cup ToSet(db[d].transactionQueue)
  OBVIOUS
<1>c. PICK F : F = IF ShuttingDown(c) THEN {} ELSE Holding(X)
  OBVIOUS
<1>d. PICK a : a = IF F = {} THEN info[c] ELSE Coordinator(c)!Released(info[c], CHOOSE t \in F : TRUE)
  OBVIOUS
<1>e. PICK G : G = ToSet(Coordinator(c)!Granted(info[c].pending, a))
  OBVIOUS
<1>1. /\ db' = [db EXCEPT ![d] = [@ EXCEPT !.transactionQueue = <<>>, !.queueEnabled = FALSE,
                                           !.transactionInProgress = FALSE, !.opened = FALSE]]
      /\ tx' = [t \in Transactions |->
                  IF t \in G THEN lockAcquired(tx[t])
                  ELSE IF t \in D THEN doCleanup(tx[t]) ELSE tx[t]]
      /\ originLock' = OriginLockWithout({t \in D : tx[t].frontend})
      /\ info' = [info EXCEPT ![c] = a]
      /\ tasks' = [tasks EXCEPT ![c] = removeIf(@, {d} \cup X)]
      /\ phase' = IF G = {} THEN phase ELSE [phase EXCEPT ![c] = "deadlocked"]
      /\ deleting' \in {deleting, None}
  BY <1>a, <1>b, <1>c, <1>d, <1>e DEF close
<1>2. /\ Types /\ OneInProgress /\ OriginLockFine /\ ThreadFine(c) /\ EntryFine(c) /\ HandleFine(d)
      /\ tasks[c] \in Seq(Transactions \cup Databases)
      /\ db[d].transactionQueue \in Seq(Transactions) /\ db[d] \in HandleRecords
  BY DEF Inv, Types, HandleRecords
<1>3. ASSUME NEW u \in Transactions
      PROVE  /\ u \in X <=> Posted(u) /\ DatabaseOf[u] = d
             /\ u \in D <=> (Posted(u) \/ Queued(u)) /\ DatabaseOf[u] = d
             /\ DatabaseOf[u] = d => Context(u) = c
  <2>1. DatabaseOf[u] = d => Context(u) = c
    BY DEF Context
  <2>2. u \in X <=> Posted(u) /\ DatabaseOf[u] = d
    BY <1>a, <2>1 DEF Posted
  <2>3. u \in ToSet(db[d].transactionQueue) <=> Queued(u) /\ DatabaseOf[u] = d
    BY <1>2 DEF HandleFine, Queued
  <2> QED BY <1>b, <2>1, <2>2, <2>3
<1>4. X \subseteq Transactions /\ D \subseteq Transactions
  BY <1>2, <1>a, <1>b, Elements
<1>5. \A u \in Transactions : u \in F <=> u \in X /\ ~ ShuttingDown(c) /\ tx[u].frontend /\ tx[u].lockAcquired
  BY <1>c DEF Holding
<1>6. F \subseteq X
  BY <1>c DEF Holding
<1>7. ASSUME NEW u \in D
      PROVE  /\ u \in Transactions /\ u \in created /\ Fine(u) /\ tx[u] \in BackendRecords
             /\ front[u] \in FrontRecords /\ RecordsFine(tx[u], front[u])
             /\ ~ Running(u) /\ ~ Waiting(u) /\ ~ Called(u) /\ ~ Active(u)
             /\ ~ Stopping(u) /\ Holds(u) => u \in F
  <2>1. /\ u \in Transactions /\ Fine(u) /\ tx[u] \in BackendRecords
        /\ front[u] \in FrontRecords /\ (Posted(u) \/ Queued(u))
    BY <1>2, <1>3, <1>4 DEF Inv, Types
  <2>2. ~ Running(u) /\ ~ Waiting(u) /\ ~ Called(u) /\ ~ Active(u)
    BY <2>1 DEF Fine, Apart
  <2>3. u \in created /\ RecordsFine(tx[u], front[u])
    BY <2>1 DEF Fine, FreshFine
  <2>4. ASSUME ~ Stopping(u), Holds(u) PROVE u \in F
    <3>1. tx[u].frontend /\ tx[u].lockAcquired /\ ~ ShuttingDown(c)
      BY <1>3, <2>1, <2>4 DEF Fine, HolderFine, Stopping
    <3>2. ~ Queued(u)
      BY <2>1, <3>1, FreshFacts
    <3> QED BY <1>3, <1>5, <2>1, <3>1, <3>2
  <2> QED BY <2>1, <2>2, <2>3, <2>4
<1>8. ASSUME NEW u \in F PROVE InProgress(u) /\ DatabaseOf[u] = d /\ Holds(u) /\ Context(u) = c /\ u \in Transactions
  <2>1. u \in Transactions /\ u \in X /\ u \in D /\ ~ ShuttingDown(c) /\ tx[u].frontend /\ tx[u].lockAcquired
    BY <1>4, <1>5, <1>6, <1>b
  <2>2. DatabaseOf[u] = d /\ Context(u) = c /\ Posted(u)
    BY <1>3, <2>1
  <2>3. u \in created /\ Fine(u)
    BY <1>7, <2>1
  <2>4. ~ Queued(u)
    BY <2>1, FreshFacts
  <2>5. Holds(u)
    BY <2>1, <2>2, <2>3 DEF Fine, HolderFine, Stopping
  <2> QED BY <2>1, <2>2, <2>3, <2>4, <2>5 DEF InProgress
<1>9. /\ info' \in [Contexts -> Entry!Infos]
      /\ \A u \in G : u \in Transactions /\ Context(u) = c /\ Waiting(u)
      /\ G # {} => ~ ShuttingDown(c)
      /\ \A u \in Transactions :
           /\ Waiting(u)' <=> Waiting(u) /\ u \notin G
           /\ Holds(u)' <=> (Holds(u) /\ u \notin F) \/ u \in G
      /\ \A e \in Contexts :
           /\ Entry!Good(info'[e])
           /\ \A u \in ToSet(info'[e].pending) \cup Entry!HoldersOf(info'[e]) : Context(u) = e
           /\ info[e].pending = <<>> => info'[e].pending = <<>>
  <2>1. CASE F = {}
    <3>1. a = info[c] /\ info' = info
      BY <1>1, <1>2, <1>d, <2>1 DEF Types
    <3>2. PICK q \in Seq(Transactions) : q = info[c].pending
      BY <1>2, GoodFields DEF EntryFine
    <3>3. G = ToSet(SubSeq(q, 1, Len(q) - Len(q)))
      BY <1>e, <3>1, <3>2, SameEntry DEF Entry!Granted
    <3>4. SubSeq(q, 1, Len(q) - Len(q)) = <<>>
      BY SubSeqProperties
    <3>5. G = {}
      BY <3>3, <3>4, EmptySet
    <3> QED BY <1>2, <2>1, <3>1, <3>5 DEF Types, Inv, EntryFine, Waiting, Holds
  <2>2. CASE F # {}
    <3>1. PICK x : x = CHOOSE t \in F : TRUE
      OBVIOUS
    <3>2. x \in F
      BY <2>2, <3>1
    <3>3. x \in Transactions /\ Context(x) = c /\ Holds(x) /\ ~ ShuttingDown(c)
      BY <1>5, <1>8, <3>2
    <3>4. F = {x}
      BY <1>2, <1>8, <3>2 DEF OneInProgress
    <3>5. PICK g : g = GrantedBy(c, x)
      OBVIOUS
    <3>6. a = AfterRelease(c, x) /\ G = ToSet(g)
      BY <1>d, <1>e, <2>2, <3>1, <3>5 DEF AfterRelease, GrantedBy
    <3>7. info' = [info EXCEPT ![c] = AfterRelease(c, x)]
      BY <1>1, <3>6
    <3>8. /\ info' \in [Contexts -> Entry!Infos]
          /\ \A u \in ToSet(g) : u \in Transactions /\ Context(u) = c /\ Waiting(u) /\ u # x
          /\ \A u \in Transactions :
               /\ Waiting(u)' <=> Waiting(u) /\ u \notin ToSet(g)
               /\ Holds(u)' <=> (Holds(u) /\ u # x) \/ u \in ToSet(g)
          /\ \A e \in Contexts :
               /\ Entry!Good(info'[e])
               /\ \A u \in ToSet(info'[e].pending) \cup Entry!HoldersOf(info'[e]) : Context(u) = e
               /\ info[e].pending = <<>> => info'[e].pending = <<>>
      BY <3>3, <3>5, <3>7, ReleaseStep
    <3> QED BY <3>3, <3>4, <3>6, <3>8
  <2> QED BY <2>1, <2>2
<1>10. \A u \in G : u \notin D /\ ~ Stopping(u)
  BY <1>7, <1>9 DEF Stopping
<1>11. /\ phase' \in [Contexts -> Phases]
       /\ \A e \in Contexts : phase'[e] = phase[e] \/ (e = c /\ phase'[c] = "deadlocked" /\ ~ ShuttingDown(c))
  BY <1>1, <1>2, <1>9 DEF Types, Phases
<1>12. \A e \in Contexts : /\ ShuttingDown(e)' <=> ShuttingDown(e)
                           /\ phase'[e] \in {"closing", "finished"} => phase'[e] = phase[e]
  BY <1>11 DEF ShuttingDown
<1>13. PICK k \in HandleRecords :
         /\ db' = [db EXCEPT ![d] = k] /\ k.transactionQueue = <<>> /\ ~ k.queueEnabled
         /\ ~ k.opened /\ k.deleted = db[d].deleted
  <2>1. PICK k : k = [db[d] EXCEPT !.transactionQueue = <<>>, !.queueEnabled = FALSE,
                                   !.transactionInProgress = FALSE, !.opened = FALSE]
    OBVIOUS
  <2>2. /\ k \in HandleRecords /\ k.transactionQueue = <<>> /\ ~ k.queueEnabled
        /\ ~ k.opened /\ k.deleted = db[d].deleted
    <3>1. db[d] \in HandleRecords /\ <<>> \in Seq(Transactions)
      BY <1>2
    <3>2. k \in HandleRecords
      BY <2>1, <3>1 DEF HandleRecords
    <3> QED BY <2>1, <3>1, <3>2 DEF HandleRecords
  <2>3. db' = [db EXCEPT ![d] = k]
    BY <1>1, <2>1
  <2> QED BY <2>2, <2>3
<1>14. /\ db' \in [Databases -> HandleRecords]
       /\ \A e \in Databases : e # d => db'[e] = db[e]
       /\ \A e \in Databases : HandleFine(e)' /\ db'[e].deleted = db[e].deleted
       /\ \A e \in Databases : db'[e].opened => db[e].opened
       /\ \A u \in Transactions : /\ Queued(u)' <=> Queued(u) /\ DatabaseOf[u] # d
                                  /\ Opened(u)' <=> Opened(u) /\ DatabaseOf[u] # d
  <2>1. ToSet(k.transactionQueue) = {} /\ Unique(k.transactionQueue)
    BY <1>13, EmptySet
  <2>2. /\ db' \in [Databases -> HandleRecords] /\ db'[d] = k
        /\ \A e \in Databases : e # d => db'[e] = db[e]
        /\ \A e \in Databases : HandleFine(e)' /\ db'[e].deleted = db[e].deleted
        /\ \A u \in Transactions :
             /\ Queued(u)' <=> IF DatabaseOf[u] = d THEN u \in ToSet(k.transactionQueue)
                                                    ELSE Queued(u)
             /\ Opened(u)' <=> IF DatabaseOf[u] = d THEN k.opened ELSE Opened(u)
    <3>1. /\ db' = [db EXCEPT ![d] = k] /\ Unique(k.transactionQueue)
          /\ k.queueEnabled <=> k.opened
          /\ \A u \in ToSet(k.transactionQueue) : DatabaseOf[u] = d
          /\ k.deleted = db[d].deleted
      BY <1>13, <2>1
    <3> QED BY <3>1, HandleMoves
  <2> QED BY <1>13, <2>1, <2>2
<1>15. /\ tasks' \in [Contexts -> Seq(Transactions \cup Databases)]
       /\ ToSet(tasks'[c]) = ToSet(tasks[c]) \ ({d} \cup X) /\ Unique(tasks'[c])
       /\ \A e \in Contexts : e # c => tasks'[e] = tasks[e]
  <2>1. PICK q : q = removeIf(tasks[c], {d} \cup X)
    OBVIOUS
  <2>2. /\ q \in Seq(Transactions \cup Databases)
        /\ ToSet(q) = ToSet(tasks[c]) \ ({d} \cup X) /\ Unique(q)
    BY <1>2, <2>1, RemoveIfSet DEF ThreadFine
  <2>3. tasks' = [tasks EXCEPT ![c] = q]
    BY <1>1, <2>1
  <2> QED BY <1>2, <2>2, <2>3 DEF Types
<1>16. ASSUME NEW u \in Transactions PROVE Posted(u)' <=> Posted(u) /\ DatabaseOf[u] # d
  <2>1. CASE Context(u) = c
    <3>1. u # d
      BY ConstantsAssumption
    <3> QED BY <1>3, <1>15, <2>1, <3>1 DEF Posted
  <2>2. CASE Context(u) # c
    BY <1>3, <1>15, <2>2, Owners DEF Posted
  <2> QED BY <2>1, <2>2
<1>17. \A u \in Transactions :
        /\ Running(u)' <=> Running(u)
        /\ Called(u)' <=> Called(u)
        /\ Active(u)' <=> Active(u)
        /\ Usable(u)' => Usable(u)
        /\ Stopping(u)' <=> Stopping(u)
  <2>1. \A u \in Transactions : Stopping(u)' <=> Stopping(u)
    BY <1>12, Owners DEF Stopping
  <2>2. \A u \in Transactions : Usable(u)' => Usable(u)
    BY <1>14 DEF Usable, Opened
  <2> QED BY <2>1, <2>2 DEF Running, Called, Active
<1>18. ASSUME NEW u \in D
       PROVE  /\ tx'[u] \in BackendRecords /\ ~ tx'[u].frontend
              /\ RecordsFine(tx'[u], front'[u])
  <2>1. PICK q : q = doCleanup(tx[u])
    OBVIOUS
  <2>2. /\ tx[u] \in BackendRecords /\ front[u] \in FrontRecords /\ RecordsFine(tx[u], front[u])
    BY <1>7
  <2>3. ~ tx[u].frontend => tx[u].sqlite = "none"
    BY <2>2 DEF RecordsFine
  <2>4. /\ q \in BackendRecords /\ ~ q.frontend /\ q.sqlite = "none"
        /\ q.current = tx[u].current /\ q.retry = tx[u].retry
        /\ q.statements <= tx[u].statements
    BY <2>1, <2>2, <2>3, CleanupFacts
  <2>5. RecordsFine(q, front[u])
    BY <2>2, <2>4, CleanupIsFine
  <2>6. tx'[u] = q
    BY <1>1, <1>4, <1>10, <2>1
  <2> QED BY <2>4, <2>5, <2>6
<1>19. ASSUME NEW u \in G
       PROVE  /\ tx'[u] = lockAcquired(tx[u]) /\ tx'[u] \in BackendRecords
              /\ tx'[u].frontend /\ tx'[u].lockAcquired /\ tx[u].frontend
  <2>1. u \in Transactions /\ Waiting(u) /\ ~ Stopping(u)
    BY <1>9, <1>10
  <2>2. PICK q : q = lockAcquired(tx[u])
    OBVIOUS
  <2>3. q \in BackendRecords /\ q.frontend /\ q.lockAcquired /\ tx[u].frontend
    BY <2>1, <2>2, WaitingFacts
  <2>4. tx'[u] = q
    BY <1>1, <2>1, <2>2
  <2> QED BY <2>2, <2>3, <2>4
<1>20. \A u \in Transactions : u \notin D /\ u \notin G => tx'[u] = tx[u]
  BY <1>1
<1>21. tx' \in [Transactions -> BackendRecords]
  <2>1. \A u \in Transactions : tx'[u] \in BackendRecords
    BY <1>2, <1>18, <1>19, <1>20 DEF Types
  <2> QED BY <1>1, <2>1
<1>22. OriginLockFine' /\ originLock' \in {originLock, None}
  <2>1. ASSUME originLock # None, originLock \notin {t \in D : tx[t].frontend}
        PROVE  tx'[originLock].frontend /\ tx'[originLock].lockAcquired
    <3>1. /\ originLock \in Transactions /\ tx[originLock].frontend
          /\ tx[originLock].lockAcquired
      BY <1>2, <2>1 DEF OriginLockFine, Types
    <3>2. originLock \notin D
      BY <2>1, <3>1
    <3> QED BY <1>19, <1>20, <3>1, <3>2
  <2> QED BY <1>1, <1>2, <2>1, OriginLockKept
<1>23. Types'
  BY <1>1, <1>2, <1>9, <1>11, <1>14, <1>15, <1>21, <1>22 DEF Types
<1>24. ASSUME NEW u \in Transactions PROVE Fine(u)'
  <2>1. CASE u \in D
    <3>1. /\ u \in created' /\ ~ Running(u)' /\ ~ Waiting(u)' /\ ~ Called(u)' /\ ~ Active(u)'
      BY <1>7, <1>9, <1>17, <2>1
    <3>2. ~ Queued(u)' /\ ~ Posted(u)'
      BY <1>3, <1>14, <1>16, <2>1
    <3>3. ~ Stopping(u)' => ~ Holds(u)'
      BY <1>7, <1>9, <1>10, <1>17, <2>1
    <3> QED BY <1>18, <2>1, <3>1, <3>2, <3>3, NowhereIsFine
  <2>2. CASE u \in G
    <3>1. Waiting(u) /\ ~ Stopping(u)
      BY <1>9, <1>10, <2>2
    <3>2. /\ Queued(u)' => Queued(u)
          /\ Running(u)' => Running(u)
          /\ Called(u)' => Called(u)
          /\ ~ Waiting(u)' /\ Holds(u)' /\ ~ Stopping(u)'
      BY <1>9, <1>14, <1>17, <2>2, <3>1
    <3>3. tx'[u] = lockAcquired(tx[u]) /\ front'[u] = front[u]
      BY <1>19, <2>2
    <3> QED BY <3>1, <3>2, <3>3, LetInIsFine
  <2>3. CASE u \notin D /\ u \notin G
    <3>1. u \notin F
      BY <1>6, <1>b, <2>3
    <3>2. tx'[u] = tx[u]
      BY <1>20, <2>3
    <3>3. /\ Queued(u)' <=> Queued(u)
          /\ Posted(u)' <=> Posted(u)
          /\ Opened(u) /\ (Queued(u) \/ Posted(u)) => Opened(u)'
      BY <1>3, <1>14, <1>16, <2>3
    <3>4. Running(u) => phase'[Context(u)] = phase[Context(u)]
      <4>1. Running(u) => Context(u) # c
        BY ConstantsAssumption DEF Running
      <4> QED BY <1>11, <4>1, Owners
    <3>5. (Waiting(u)' <=> Waiting(u)) /\ (Holds(u)' <=> Holds(u))
      BY <1>9, <2>3, <3>1
    <3> QED BY <1>17, <3>2, <3>3, <3>4, <3>5, SameIsFine DEF Same, Inv
  <2> QED BY <2>1, <2>2, <2>3
<1>25. ASSUME NEW e \in Contexts PROVE ThreadFine(e)'
  <2>1. CASE e = c
    <3>1. \A u \in ToSet(tasks'[e]) : u \in ToSet(tasks[e])
      BY <1>15, <2>1
    <3> QED BY <1>2, <1>14, <1>15, <2>1, <3>1 DEF ThreadFine
  <2>2. CASE e # c
    BY <1>14, <1>15, <2>2 DEF Inv, ThreadFine
  <2> QED BY <2>1, <2>2
<1>26. ASSUME NEW e \in Contexts PROVE EntryFine(e)'
  BY <1>9, <1>12, <1>14 DEF Inv, EntryFine, HandlesOf
<1>27. OneInProgress'
  <2>1. ASSUME NEW u \in Transactions, InProgress(u)' PROVE InProgress(u)
    <3>1. u \notin D
      BY <1>18, <2>1 DEF InProgress
    <3>2. tx[u].frontend
      BY <1>19, <1>20, <2>1, <3>1 DEF InProgress
    <3>3. ~ Queued(u)
      BY <1>3, <1>14, <2>1, <3>1 DEF InProgress
    <3> QED BY <2>1, <3>2, <3>3 DEF InProgress
  <2>2. \A u \in Transactions :
          Opened(u)' => /\ Opened(u)
                        /\ db[DatabaseOf[u]].transactionInProgress =>
                             db'[DatabaseOf[u]].transactionInProgress
    BY <1>14, Owners
  <2> QED BY <1>2, <2>1, <2>2, InProgressKept
<1> QED BY <1>14, <1>22, <1>23, <1>24, <1>25, <1>26, <1>27 DEF Inv

(* The close task of a handle is performed.                                *)
LEMMA CloseTaskStep ==
  ASSUME Inv, NEW c \in Contexts, performCloseTask(c)
  PROVE  Inv'
<1>1. PICK d : d = Head(tasks[c])
  OBVIOUS
<1>2. /\ phase[c] = "loop" /\ running[c] = None /\ tasks[c] # <<>> /\ d \in Databases
      /\ close(c, d)
      /\ UNCHANGED <<front, created, killed, interrupted, running, callbacks>>
  BY <1>1 DEF performCloseTask, TakesTask
<1>3. tasks[c] \in Seq(Transactions \cup Databases) /\ ThreadFine(c)
  BY DEF Inv, Types
<1>4. d \in ToSet(tasks[c])
  BY <1>1, <1>2, <1>3, TailSet
<1>5. ContextOf[d] = c
  BY <1>2, <1>3, <1>4 DEF ThreadFine
<1> QED BY <1>2, <1>5, CloseStep

(* The thread that ends closes a handle.                                   *)
LEMMA CloseOpenStep ==
  ASSUME Inv, NEW c \in Contexts, NEW d \in HandlesOf(c), closeOpenDatabase(c, d)
  PROVE  Inv'
<1>1. /\ d \in Databases /\ ContextOf[d] = c /\ phase[c] = "closing" /\ close(c, d)
      /\ UNCHANGED <<front, created, killed, interrupted, running, callbacks>>
  BY DEF closeOpenDatabase, HandlesOf
<1>2. running[c] = None
  <2> SUFFICES ASSUME running[c] # None PROVE FALSE
    OBVIOUS
  <2>1. PICK t \in Transactions : t = running[c]
    BY DEF Inv, Types
  <2>2. Context(t) = c /\ Running(t)
    BY <2>1 DEF Inv, ThreadFine, Running
  <2>3. RunningFine(t)
    BY <2>2, RunningFacts
  <2> QED BY <1>1, <2>2, <2>3 DEF RunningFine
<1> QED BY <1>1, <1>2, CloseStep

(* SQLTransactionCoordinator::shutdown(): all that hold the lock, and the  *)
(* first of those that wait, are cleaned up.                               *)
LEMMA ShutdownStep ==
  ASSUME Inv, NEW c \in Contexts, shutdown(c)
  PROVE  Inv'
<1>a. PICK i : i = info[c]
  OBVIOUS
<1>b. PICK T : T = Notified(i)
  OBVIOUS
<1>1. /\ phase[c] = "loop" /\ running[c] = None
      /\ tx' = [t \in Transactions |-> IF t \in T THEN doCleanup(tx[t]) ELSE tx[t]]
      /\ originLock' = OriginLockWithout({t \in T : tx[t].frontend})
      /\ phase' = [phase EXCEPT ![c] = IF i.pending = <<>> THEN "closing" ELSE "looping"]
      /\ info' = IF i.pending = <<>> THEN [info EXCEPT ![c] = Entry!EmptyInfo] ELSE info
      /\ UNCHANGED <<db, front, created, tasks, running, callbacks, threadVars>>
  BY <1>a, <1>b, SameEntry DEF shutdown
<1>2. /\ Types /\ OneInProgress /\ OriginLockFine /\ Entry!Good(i)
      /\ \A u \in ToSet(i.pending) \cup Entry!HoldersOf(i) : Context(u) = c
      /\ ~ ShuttingDown(c)
  BY <1>a, <1>1 DEF Inv, EntryFine, ShuttingDown
<1>3. /\ i.pending \in Seq(Transactions) /\ ToSet(i.pending) \subseteq Transactions
      /\ Entry!HoldersOf(i) \subseteq Transactions
  BY <1>2, GoodFields
<1>4. Entry!HoldersOf(i) \subseteq T /\ T \subseteq Entry!HoldersOf(i) \cup ToSet(i.pending)
  <2>1. i.pending # <<>> => Head(i.pending) \in ToSet(i.pending)
    BY <1>3, TailSet
  <2> QED BY <1>b, <2>1 DEF Notified, Entry!HoldersOf
<1>5. \A u \in T : u \in Transactions /\ Context(u) = c /\ (Holds(u) \/ Waiting(u))
  BY <1>2, <1>3, <1>4, <1>a DEF Holds, Waiting
<1>6. /\ phase' \in [Contexts -> Phases]
      /\ phase'[c] = IF i.pending = <<>> THEN "closing" ELSE "looping"
      /\ \A e \in Contexts : e # c => phase'[e] = phase[e]
  BY <1>1, <1>2 DEF Types, Phases
<1>7. ShuttingDown(c)' /\ \A e \in Contexts : e # c => (ShuttingDown(e)' <=> ShuttingDown(e))
  BY <1>6 DEF ShuttingDown
<1>8. ASSUME NEW u \in Transactions
      PROVE  /\ tx[u] \in BackendRecords /\ tx'[u] \in BackendRecords
             /\ u \notin T => tx'[u] = tx[u]
             /\ u \in T => ~ tx'[u].frontend
             /\ RecordsFine(tx'[u], front'[u])
             /\ tx'[u].frontend => tx[u].frontend
             /\ tx'[u].next = tx[u].next /\ tx'[u].requested = tx[u].requested
             /\ tx'[u].lockAcquired = tx[u].lockAcquired
             /\ tx'[u].current = tx[u].current /\ tx'[u].retry = tx[u].retry
  <2>1. tx[u] \in BackendRecords /\ front[u] \in FrontRecords /\ RecordsFine(tx[u], front[u])
    BY <1>2 DEF Types, Inv, Fine
  <2>2. CASE u \notin T
    BY <1>1, <2>1, <2>2
  <2>3. CASE u \in T
    <3>1. PICK q : q = doCleanup(tx[u])
      OBVIOUS
    <3>2. ~ tx[u].frontend => tx[u].sqlite = "none"
      BY <2>1 DEF RecordsFine
    <3>3. /\ q \in BackendRecords /\ ~ q.frontend /\ q.sqlite = "none"
          /\ q.next = tx[u].next /\ q.requested = tx[u].requested
          /\ q.lockAcquired = tx[u].lockAcquired
          /\ q.current = tx[u].current /\ q.retry = tx[u].retry
          /\ q.statements <= tx[u].statements
      BY <2>1, <3>1, <3>2, CleanupFacts
    <3>4. RecordsFine(q, front[u])
      BY <2>1, <3>3, CleanupIsFine
    <3>5. tx'[u] = q /\ front'[u] = front[u]
      BY <1>1, <2>3, <3>1
    <3> QED BY <2>1, <2>3, <3>3, <3>4, <3>5
  <2> QED BY <2>2, <2>3
<1>9. tx' \in [Transactions -> BackendRecords]
  BY <1>1, <1>8
<1>10. /\ info' \in [Contexts -> Entry!Infos]
       /\ \A e \in Contexts : e # c => info'[e] = info[e]
       /\ i.pending = <<>> => info'[c] = Entry!EmptyInfo
       /\ i.pending # <<>> => info'[c] = i
  <2>1. Entry!EmptyInfo \in Entry!Infos
    BY EmptyEntry, GoodFields
  <2> QED BY <1>1, <1>2, <1>a, <2>1 DEF Types
<1>11. OriginLockFine' /\ originLock' \in {originLock, None}
  <2>1. ASSUME originLock # None, originLock \notin {t \in T : tx[t].frontend}
        PROVE  tx'[originLock].frontend /\ tx'[originLock].lockAcquired
    <3>1. /\ originLock \in Transactions /\ tx[originLock].frontend
          /\ tx[originLock].lockAcquired
      BY <1>2, <2>1 DEF OriginLockFine, Types
    <3>2. originLock \notin T
      BY <2>1, <3>1
    <3> QED BY <1>8, <3>1, <3>2
  <2> QED BY <1>1, <1>2, <2>1, OriginLockKept
<1>12. Types'
  BY <1>1, <1>2, <1>6, <1>9, <1>10, <1>11 DEF Types, threadVars
<1>13. \A u \in Transactions :
        /\ Queued(u)' <=> Queued(u)
        /\ Posted(u)' <=> Posted(u)
        /\ Running(u)' <=> Running(u)
        /\ Called(u)' <=> Called(u)
        /\ Active(u)' <=> Active(u)
        /\ Opened(u)' <=> Opened(u)
        /\ Usable(u)' <=> Usable(u)
  BY <1>1 DEF Queued, Posted, Running, Called, Active, Opened, Usable, threadVars
<1>14. ASSUME NEW u \in Transactions, Context(u) = c PROVE Fine(u)'
  <2>1. Fine(u) /\ ~ Stopping(u) /\ Stopping(u)' /\ ~ Running(u)
    BY <1>1, <1>2, <1>7, <1>14, ConstantsAssumption DEF Inv, Stopping, Running
  <2>2. Waiting(u)' <=> Waiting(u)
    <3>1. CASE i.pending = <<>>
      BY <1>10, <1>14, <1>a, <3>1, EmptyEntry, EmptySet DEF Waiting
    <3>2. CASE i.pending # <<>>
      BY <1>10, <1>14, <1>a, <3>2 DEF Waiting
    <3> QED BY <3>1, <3>2
  <2>3. u \in T => ~ Queued(u) /\ u \in created
    <3>1. u \in T /\ Waiting(u) => ~ Queued(u) /\ u \in created
      BY <2>1 DEF Fine, Apart, FreshFine
    <3>2. Holds(u) => tx[u].lockAcquired
      BY <2>1 DEF Fine, HolderFine
    <3>3. tx[u].lockAcquired => ~ Queued(u) /\ u \in created
      BY FreshFacts
    <3> QED BY <1>5, <3>1, <3>2, <3>3
  <2>4. Apart(u)'
    BY <1>13, <2>1, <2>2 DEF Fine, Apart
  <2>5. UnderWayFine(u)'
    BY <1>8, <1>13, <2>1 DEF Fine, UnderWayFine
  <2>6. PostedFine(u)'
    BY <1>8, <1>13, <2>1 DEF Fine, PostedFine
  <2>7. RunningFine(u)' /\ ActiveFine(u)'
    BY <1>13, <2>1 DEF RunningFine, ActiveFine
  <2>8. CalledFine(u)'
    BY <1>1, <1>8, <1>13, <2>1 DEF Fine, CalledFine, StatementReady
  <2>9. WaitingFine(u)'
    BY <1>8, <2>1, <2>2 DEF Fine, WaitingFine
  <2>10. HolderFine(u)'
    <3>1. tx[u].frontend /\ tx[u].lockAcquired => u \in T
      BY <1>4, <1>14, <1>a, <2>1 DEF Fine, HolderFine, Holds
    <3> QED BY <1>8, <2>1, <3>1 DEF HolderFine
  <2>11. FreshFine(u)'
    <3>1. (u \notin created \/ Queued(u)) => tx'[u] = tx[u]
      BY <1>8, <2>3
    <3>2. u \notin created' =>
            ~ Queued(u)' /\ ~ Posted(u)' /\ ~ Running(u)' /\ ~ Waiting(u)' /\ ~ Called(u)'
      BY <1>1, <1>13, <2>1, <2>2 DEF Fine, FreshFine
    <3>3. (u \notin created' \/ Queued(u)') => tx'[u] = FreshBackend /\ front'[u] = FreshFront
      BY <1>1, <1>13, <2>1, <3>1 DEF Fine, FreshFine
    <3>4. Queued(u)' => Opened(u)'
      BY <1>13, <2>1 DEF Fine, FreshFine
    <3>5. u \in created' /\ tx'[u].frontend /\ ~ tx'[u].lockAcquired =>
            Queued(u)' \/ Posted(u)' \/ Running(u)' \/ Waiting(u)'
      BY <1>1, <1>8, <1>13, <2>1, <2>2 DEF Fine, FreshFine
    <3>6. (Called(u)' \/ Active(u)') /\ tx'[u].frontend => tx'[u].lockAcquired
      BY <1>8, <1>13, <2>1 DEF Fine, FreshFine
    <3> QED BY <3>2, <3>3, <3>4, <3>5, <3>6 DEF FreshFine
  <2> QED BY <1>8, <2>4, <2>5, <2>6, <2>7, <2>8, <2>9, <2>10, <2>11 DEF Fine
<1>15. ASSUME NEW u \in Transactions PROVE Fine(u)'
  <2>1. CASE Context(u) = c
    BY <1>14, <2>1
  <2>2. CASE Context(u) # c
    <3>1. tx'[u] = tx[u] /\ Context(u) \in Contexts
      BY <1>5, <1>8, <2>2, Owners
    <3>2. /\ Waiting(u)' <=> Waiting(u)
          /\ Holds(u)' <=> Holds(u)
      BY <1>10, <2>2, <3>1 DEF Waiting, Holds
    <3>3. (Stopping(u)' <=> Stopping(u)) /\ phase'[Context(u)] = phase[Context(u)]
      BY <1>6, <1>7, <2>2, <3>1 DEF Stopping
    <3> QED BY <1>1, <1>13, <3>1, <3>2, <3>3, SameIsFine DEF Same, Inv
  <2> QED BY <2>1, <2>2
<1>16. \A d \in Databases : HandleFine(d)'
  BY <1>1, HandlesKept DEF Inv
<1>17. \A e \in Contexts : ThreadFine(e)'
  BY <1>1 DEF Inv, ThreadFine
<1>18. ASSUME NEW e \in Contexts PROVE EntryFine(e)'
  <2>1. CASE e # c
    BY <1>1, <1>6, <1>10, <2>1 DEF Inv, EntryFine, HandlesOf
  <2>2. CASE e = c /\ i.pending = <<>>
    BY <1>6, <1>10, <2>2, EmptyEntry DEF EntryFine
  <2>3. CASE e = c /\ i.pending # <<>>
    BY <1>2, <1>6, <1>10, <2>3 DEF EntryFine
  <2> QED BY <2>1, <2>2, <2>3
<1>19. OneInProgress'
  <2>1. \A u \in Transactions : InProgress(u)' => InProgress(u)
    BY <1>1, <1>8, <1>13 DEF InProgress
  <2> QED BY <1>1, <1>2, <1>13, <2>1, InProgressKept
<1> QED BY <1>11, <1>12, <1>15, <1>16, <1>17, <1>18, <1>19 DEF Inv

-----------------------------------------------------------------------------
(***************************************************************************)
(* Theorems                                                                *)
(***************************************************************************)

(* The invariant holds when no transaction was made.                       *)
LEMMA InitInv == Init => Inv
<1> SUFFICES ASSUME Init PROVE Inv
  OBVIOUS
<1>1. /\ \A d \in Databases :
           db[d] = [transactionQueue |-> <<>>, transactionInProgress |-> FALSE,
                    queueEnabled |-> TRUE, opened |-> TRUE, deleted |-> FALSE]
      /\ tx = [t \in Transactions |-> FreshBackend]
      /\ front = [t \in Transactions |-> FreshFront]
      /\ created = {} /\ originLock = None /\ deleting = None
  BY DEF Init, FreshBackend, FreshFront
<1>2. \A c \in Contexts :
        /\ info[c] = Entry!EmptyInfo /\ tasks[c] = <<>> /\ phase[c] = "loop"
        /\ running[c] = None /\ callbacks[c] = <<>>
  BY SameEntry DEF Init
<1>3. /\ FreshBackend \in BackendRecords /\ FreshFront \in FrontRecords
  BY ConstantsAssumption DEF FreshBackend, FreshFront, BackendRecords, FrontRecords, States
<1>4. Types
  <2>1. db \in [Databases -> HandleRecords]
    BY DEF Init, HandleRecords
  <2>2. tx \in [Transactions -> BackendRecords] /\ front \in [Transactions -> FrontRecords]
    BY <1>1, <1>3
  <2>3. info \in [Contexts -> Entry!Infos]
    <3>1. Entry!EmptyInfo \in Entry!Infos
      BY EmptyEntry, GoodFields
    <3>2. info = [c \in Contexts |-> Entry!EmptyInfo]
      BY <1>2 DEF Init
    <3> QED BY <3>1, <3>2
  <2>4. /\ tasks \in [Contexts -> Seq(Transactions \cup Databases)]
        /\ killed \in [Contexts -> BOOLEAN] /\ interrupted \in [Contexts -> BOOLEAN]
        /\ phase \in [Contexts -> Phases]
        /\ running \in [Contexts -> Transactions \cup {None}]
        /\ callbacks \in [Contexts -> Seq(Transactions)]
    BY DEF Init, Phases
  <2> QED BY <1>1, <2>1, <2>2, <2>3, <2>4 DEF Types
<1>5. ASSUME NEW t \in Transactions PROVE Fine(t)
  <2>1. DatabaseOf[t] \in Databases /\ Context(t) \in Contexts
    BY Owners
  <2>2. /\ ~ Queued(t) /\ ~ Posted(t) /\ ~ Running(t) /\ ~ Waiting(t) /\ ~ Called(t)
        /\ ~ Holds(t) /\ ~ Stopping(t)
    BY <1>1, <1>2, <2>1, EmptySet, EmptyEntry, ConstantsAssumption
       DEF Queued, Posted, Running, Waiting, Called, Holds, Stopping, ShuttingDown
  <2>3. tx[t] = FreshBackend /\ front[t] = FreshFront /\ t \notin created
    BY <1>1
  <2>4. /\ tx[t].next = "Idle" /\ tx[t].frontend
        /\ ~ tx[t].lockAcquired /\ tx[t].sqlite = "none" /\ tx[t].statements = 0
        /\ tx[t].current = "none" /\ ~ tx[t].retry
        /\ front[t].next = "Idle" /\ front[t].issued = 0 /\ ~ Active(t)
    BY <2>3 DEF FreshBackend, FreshFront, Active
  <2>5. RecordsFine(tx[t], front[t])
    BY <2>4 DEF RecordsFine, StatementReady
  <2>6. /\ Apart(t) /\ UnderWayFine(t) /\ PostedFine(t) /\ RunningFine(t) /\ CalledFine(t)
        /\ ActiveFine(t) /\ WaitingFine(t)
    BY <2>2, <2>4 DEF Apart, UnderWayFine, PostedFine, RunningFine, CalledFine, ActiveFine, WaitingFine
  <2>7. HolderFine(t) /\ FreshFine(t)
    BY <2>2, <2>3, <2>4 DEF HolderFine, FreshFine
  <2> QED BY <2>5, <2>6, <2>7 DEF Fine
<1>6. \A d \in Databases : HandleFine(d)
  BY <1>1, EmptySet DEF HandleFine
<1>7. \A c \in Contexts : ThreadFine(c) /\ EntryFine(c)
  BY <1>2, EmptySet, EmptyEntry DEF ThreadFine, EntryFine
<1>8. OneInProgress /\ OriginLockFine
  BY <1>1 DEF OneInProgress, InProgress, OriginLockFine
<1> QED BY <1>4, <1>5, <1>6, <1>7, <1>8 DEF Inv

(* A step that changes nothing.                                            *)
LEMMA StutterInv ==
  ASSUME Inv, UNCHANGED vars
  PROVE  Inv'
BY AsideStep DEF Inv, Types, vars

(* Every step of a script thread, of a database thread, of the user and of *)
(* a context that is stopped preserves the invariant.                      *)
LEMMA NextInv ==
  ASSUME Inv, [Next]_vars
  PROVE  Inv'
<1>1. CASE UNCHANGED vars
  BY <1>1, StutterInv
<1>2. ASSUME NEW t \in Transactions, runTransaction(t) PROVE Inv'
  BY <1>2, QueueStep, StartStep
<1>3. ASSUME NEW d \in Deletable, markAsDeletedAndClose(d) PROVE Inv'
  BY <1>3, DeleteStep, ConstantsAssumption
<1>4. ASSUME NEW c \in Stoppable \cap Workers, interruptAllDatabases(c) PROVE Inv'
  BY <1>4, InterruptStep, ConstantsAssumption
<1>5. ASSUME NEW c \in Stoppable, stopDatabases(c) PROVE Inv'
  BY <1>5, StopStep, ConstantsAssumption
<1>6. ASSUME NEW c \in Contexts, ThreadStep(c) PROVE Inv'
  <2>1. CASE performNextStep(c)
    BY <2>1, NextStepStep
  <2>2. CASE CleanupInterrupted(c)
    <3>1. PICK t : t = Head(tasks[c])
      OBVIOUS
    <3> QED BY <2>2, <3>1, InterruptedFirst, InterruptedAgain
  <2>3. CASE performCloseTask(c)
    BY <2>3, CloseTaskStep
  <2>4. ASSUME NEW t \in TransactionsOf(c), acquireLock(c, t) PROVE Inv'
    BY <2>4, AcquireLockStep
  <2>5. ASSUME NEW t \in TransactionsOf(c), openTransactionAndPreflight(c, t) PROVE Inv'
    BY <2>5, OpenStep
  <2>6. ASSUME NEW t \in TransactionsOf(c), runStatements(c, t) PROVE Inv'
    BY <2>6, RunStatementsStep
  <2>7. ASSUME NEW t \in TransactionsOf(c), postflightAndCommit(c, t) PROVE Inv'
    BY <2>7, PostflightStep
  <2>8. ASSUME NEW t \in TransactionsOf(c), cleanupAfterTransactionErrorCallback(c, t) PROVE Inv'
    BY <2>8, CleanupAfterErrorStep
  <2>9. ASSUME NEW t \in TransactionsOf(c), cleanupAndTerminate(c, t) PROVE Inv'
    BY <2>9, TerminateStep
  <2>10. ASSUME NEW t \in TransactionsOf(c), sendToFrontendState(c, t) PROVE Inv'
    BY <2>10, SendToFrontendStep
  <2>11. CASE shutdown(c)
    BY <2>11, ShutdownStep
  <2>12. ASSUME NEW d \in HandlesOf(c), closeOpenDatabase(c, d) PROVE Inv'
    BY <2>12, CloseOpenStep
  <2>13. CASE threadEnds(c)
    BY <2>13, ThreadEndsStep
  <2> QED BY <1>6, <2>1, <2>2, <2>3, <2>4, <2>5, <2>6, <2>7, <2>8, <2>9, <2>10, <2>11, <2>12,
             <2>13 DEF ThreadStep
<1>7. ASSUME NEW c \in Contexts, ScriptStep(c) PROVE Inv'
  <2>1. CASE performPendingCallback(c)
    BY <2>1, CallbackStep
  <2>2. ASSUME NEW t \in TransactionsOf(c), deliverTransactionCallback(t) PROVE Inv'
    BY <2>2, DeliverTransactionStep DEF TransactionsOf
  <2>3. ASSUME NEW t \in TransactionsOf(c), deliverTransactionErrorCallback(t) PROVE Inv'
    BY <2>3, DeliverErrorStep DEF TransactionsOf
  <2>4. ASSUME NEW t \in TransactionsOf(c), deliverStatementCallback(t) PROVE Inv'
    BY <2>4, DeliverStatementStep DEF TransactionsOf
  <2>5. ASSUME NEW t \in TransactionsOf(c), deliverQuotaIncreaseCallback(t) PROVE Inv'
    BY <2>5, DeliverQuotaStep DEF TransactionsOf
  <2>6. ASSUME NEW t \in TransactionsOf(c), deliverSuccessCallback(t) PROVE Inv'
    BY <2>6, DeliverSuccessStep DEF TransactionsOf
  <2>7. ASSUME NEW t \in TransactionsOf(c), sendToBackendState(t) PROVE Inv'
    BY <2>7, SendToBackendStep DEF TransactionsOf
  <2> QED BY <1>7, <2>1, <2>2, <2>3, <2>4, <2>5, <2>6, <2>7 DEF ScriptStep
<1> QED BY <1>1, <1>2, <1>3, <1>4, <1>5, <1>6, <1>7 DEF Next

(* The invariant is inductive: every transaction is in one place at most,  *)
(* its records fit the step that is next, and the handle, the coordinator, *)
(* the origin lock and the backends agree on who is in progress and on who *)
(* has the lock.                                                           *)
THEOREM Invariance == Spec => []Inv
<1>1. Init => Inv
  BY InitInv
<1>2. Inv /\ [Next]_vars => Inv'
  BY NextInv
<1> QED BY <1>1, <1>2, PTL DEF Spec

-----------------------------------------------------------------------------
(***************************************************************************)
(* The properties                                                          *)
(***************************************************************************)

(* A queue of elements of T.                                               *)
LEMMA QueueOf ==
  ASSUME NEW S, NEW s \in Seq(S), NEW T, ToSet(s) \subseteq T
  PROVE  s \in Seq(T)
<1>1. Len(s) \in Nat /\ s = [i \in 1 .. Len(s) |-> s[i]]
  OBVIOUS
<1>2. \A i \in 1 .. Len(s) : s[i] \in ToSet(s)
  BY Elements
<1>3. \A i \in 1 .. Len(s) : s[i] \in T
  BY <1>2
<1>4. s \in [1 .. Len(s) -> T]
  BY <1>1, <1>3
<1> QED BY <1>1, <1>4, SeqDef

(* Whatever is in a queue, on a thread or in the coordinator was made.     *)
LEMMA QueuedWasMade ==
  ASSUME Inv, NEW t \in Transactions, t \notin created
  PROVE  ~ Queued(t) /\ ~ Posted(t) /\ ~ Running(t) /\ ~ Waiting(t) /\ ~ Called(t)
BY DEF Inv, Fine, FreshFine

(* The members of the classes, the queues of the threads and the           *)
(* coordinator's entries have their types, and every queue holds only      *)
(* transactions that runTransaction() has made.                            *)
THEOREM TypeCorrect == Spec => []TypeOK
<1>1. Inv => TypeOK
  <2> SUFFICES ASSUME Inv PROVE TypeOK
    OBVIOUS
  <2>1. Types
    BY DEF Inv
  <2>2. ASSUME NEW d \in Databases
        PROVE  /\ db[d].transactionQueue \in Seq(created)
               /\ <<db[d].transactionInProgress, db[d].queueEnabled, db[d].opened, db[d].deleted>>
                    \in BOOLEAN \X BOOLEAN \X BOOLEAN \X BOOLEAN
    <3>1. db[d] \in HandleRecords /\ HandleFine(d)
      BY <2>1 DEF Types, Inv
    <3>2. PICK q : q = db[d].transactionQueue
      OBVIOUS
    <3>3. /\ q \in Seq(Transactions)
          /\ <<db[d].transactionInProgress, db[d].queueEnabled, db[d].opened, db[d].deleted>>
               \in BOOLEAN \X BOOLEAN \X BOOLEAN \X BOOLEAN
      BY <3>1, <3>2 DEF HandleRecords
    <3>4. ToSet(q) \subseteq created
      <4> SUFFICES ASSUME NEW t \in ToSet(q), t \notin created PROVE FALSE
        OBVIOUS
      <4>1. t \in Transactions
        BY <3>3, Elements
      <4>2. Queued(t)
        BY <3>1, <3>2 DEF HandleFine, Queued
      <4> QED BY <4>1, <4>2, QueuedWasMade
    <3> QED BY <3>2, <3>3, <3>4, QueueOf
  <2>3. ASSUME NEW c \in Contexts
        PROVE  /\ info[c] \in Coordinator(c)!Infos
               /\ tasks[c] \in Seq(created \cup Databases)
               /\ callbacks[c] \in Seq(created)
               /\ running[c] \in created \cup {None}
               /\ phase[c] \in {"loop", "deadlocked", "looping", "closing", "finished"}
    <3>1. ThreadFine(c)
      BY DEF Inv
    <3>2. info[c] \in Coordinator(c)!Infos
      BY <2>1, SameEntry DEF Types
    <3>3. tasks[c] \in Seq(created \cup Databases)
      <4>1. PICK q : q = tasks[c]
        OBVIOUS
      <4>2. q \in Seq(Transactions \cup Databases)
        BY <2>1, <4>1 DEF Types
      <4>3. ToSet(q) \subseteq Transactions \cup Databases
        BY <4>2, Elements
      <4>4. ASSUME NEW t \in ToSet(q), t \in Transactions PROVE t \in created
        BY <4>1, <4>4, <3>1, QueuedWasMade DEF ThreadFine, Posted
      <4>5. ToSet(q) \subseteq created \cup Databases
        BY <4>3, <4>4
      <4> QED BY <4>1, <4>2, <4>5, QueueOf
    <3>4. callbacks[c] \in Seq(created)
      <4>1. PICK q : q = callbacks[c]
        OBVIOUS
      <4>2. q \in Seq(Transactions)
        BY <2>1, <4>1 DEF Types
      <4>3. ToSet(q) \subseteq Transactions
        BY <4>2, Elements
      <4>4. ASSUME NEW t \in ToSet(q) PROVE t \in created
        BY <4>1, <4>3, <3>1, QueuedWasMade DEF ThreadFine, Called
      <4> QED BY <4>1, <4>2, <4>4, QueueOf
    <3>5. running[c] \in created \cup {None}
      BY <2>1, <3>1, QueuedWasMade DEF Types, ThreadFine, Running
    <3>6. phase[c] \in {"loop", "deadlocked", "looping", "closing", "finished"}
      BY <2>1 DEF Types, Phases
    <3> QED BY <3>2, <3>3, <3>4, <3>5, <3>6
  <2>4. front \in [Transactions -> [next : States, requested : States,
                                    issued : 0 .. MaxStatements, raises : 0 .. MaxRaises]]
    BY <2>1 DEF Types, FrontRecords
  <2> QED BY <2>1, <2>2, <2>3, <2>4 DEF Types, TypeOK
<1> QED BY <1>1, Invariance, PTL

(* An SQLite transaction is open only while the lock is held.              *)
LEMMA OpenHoldsLock ==
  ASSUME Inv, NEW t \in Transactions, tx[t].sqlite # "none"
  PROVE  tx[t].frontend /\ tx[t].lockAcquired /\ Holds(t) /\ ~ Stopping(t)
<1>1. Fine(t)
  BY DEF Inv
<1>2. tx[t] \in BackendRecords
  BY DEF Inv, Types
<1>3. tx[t].frontend /\ tx[t].lockAcquired
  BY <1>1, <1>2 DEF Fine, RecordsFine, BackendRecords
<1> QED BY <1>1, <1>3 DEF Fine, HolderFine

(* The SQLite transactions that are open on one database thread are those  *)
(* of readers, or of one writer; and no handle has two transactions that   *)
(* have their lock, whatever ended the one before.                         *)
THEOREM WritesAreAlone == Spec => []OpenWritesAreAlone
<1>1. Inv => OpenWritesAreAlone
  <2> SUFFICES ASSUME Inv, NEW t \in created, NEW u \in created, t # u
               PROVE  /\ Context(t) = Context(u) /\ tx[t].sqlite # "none" /\ tx[u].sqlite # "none" =>
                           t \in ReadOnly /\ u \in ReadOnly
                      /\ DatabaseOf[t] = DatabaseOf[u] => Cardinality(Holding({t, u})) <= 1
    BY DEF OpenWritesAreAlone
  <2>1. t \in Transactions /\ u \in Transactions
    BY DEF Inv, Types
  <2>2. ASSUME Context(t) = Context(u), tx[t].sqlite # "none", tx[u].sqlite # "none"
        PROVE  t \in ReadOnly /\ u \in ReadOnly
    <3>1. Holds(t) /\ Holds(u)
      BY <2>1, <2>2, OpenHoldsLock
    <3>2. PICK i : i = info[Context(t)]
      OBVIOUS
    <3>3. t \in Entry!HoldersOf(i) /\ u \in Entry!HoldersOf(i)
      BY <2>2, <3>1, <3>2 DEF Holds
    <3>4. Entry!Good(i)
      BY <2>1, <3>2, Owners DEF Inv, EntryFine
    <3> QED BY <3>3, <3>4, GoodFields
  <2>3. ASSUME DatabaseOf[t] = DatabaseOf[u]
        PROVE  Cardinality(Holding({t, u})) <= 1
    <3>1. ASSUME NEW x \in Holding({t, u}) PROVE InProgress(x) /\ x \in {t, u}
      <4>1. x \in {t, u} /\ x \in created /\ x \in Transactions /\ tx[x].frontend /\ tx[x].lockAcquired
        BY <2>1 DEF Holding
      <4>2. ~ Queued(x)
        BY <4>1, FreshFacts
      <4> QED BY <4>1, <4>2 DEF InProgress
    <3>2. ~ (t \in Holding({t, u}) /\ u \in Holding({t, u}))
      BY <2>1, <2>3, <3>1 DEF Inv, OneInProgress
    <3>3. \/ Holding({t, u}) = {}
          \/ Holding({t, u}) = {t}
          \/ Holding({t, u}) = {u}
      BY <3>1, <3>2
    <3>4. Cardinality({}) = 0 /\ Cardinality({t}) = 1 /\ Cardinality({u}) = 1
      BY FS_EmptySet, FS_Singleton
    <3> QED BY <3>3, <3>4
  <2> QED BY <2>2, <2>3
<1> QED BY <1>1, Invariance, PTL

(* The assertions of the two state machines hold: unreachableState() is    *)
(* not reached, and each state function finds the lock, the SQLite         *)
(* transaction and the statement that it asserts.                          *)
THEOREM NoAssertionFails == Spec => []AssertionsHold
<1>1. Inv => AssertionsHold
  <2> SUFFICES ASSUME Inv, NEW t \in created
      PROVE
        LET c == Context(t)
            r == tx[t]
            f == front[t]
            served == phase[c] = "loop" /\ ~ killed[c]
        IN
        /\ served /\ t \in ToSet(tasks[c]) =>
             IF Usable(t) THEN r.next = "Idle" /\ r.requested \in BackendStates
                          ELSE r.next # "End" => r.frontend
        /\ t \in ToSet(callbacks[c]) /\ Usable(t) =>
             f.next = "Idle" /\ f.requested \in FrontendStates
        /\ running[c] = t =>
             /\ ~ AtRest(r.next) /\ r.frontend
             /\ r.next # "AcquireLock" => r.lockAcquired
             /\ r.next = "OpenTransactionAndPreflight" => r.sqlite = "none"
             /\ r.next = "PostflightAndCommit" => r.sqlite # "none"
             /\ r.next = "CleanupAndTerminate" => r.sqlite \in {"none", "committed"}
        /\ f.next = "DeliverStatementCallback" => r.current # "none"
        /\ f.next = "DeliverQuotaIncreaseCallback" => ~ r.retry /\ r.current # "none"
    BY DEF AssertionsHold
  <2>1. t \in Transactions /\ Fine(t)
    BY DEF Inv, Types
  <2>2. ASSUME phase[Context(t)] = "loop", Posted(t)
        PROVE  IF Usable(t) THEN tx[t].next = "Idle" /\ tx[t].requested \in BackendStates
                            ELSE tx[t].next # "End" => tx[t].frontend
    <3>1. ~ Stopping(t)
      BY <2>2 DEF Stopping, ShuttingDown
    <3> QED BY <2>1, <2>2, <3>1 DEF Fine, UnderWayFine, PostedFine
  <2>3. Called(t) /\ Usable(t) => front[t].next = "Idle" /\ front[t].requested \in FrontendStates
    BY <2>1 DEF Fine, Apart, CalledFine, Active
  <2>4. ASSUME Running(t)
        PROVE  /\ ~ AtRest(tx[t].next) /\ tx[t].frontend
               /\ tx[t].next # "AcquireLock" => tx[t].lockAcquired
               /\ tx[t].next = "OpenTransactionAndPreflight" => tx[t].sqlite = "none"
               /\ tx[t].next = "PostflightAndCommit" => tx[t].sqlite # "none"
               /\ tx[t].next = "CleanupAndTerminate" => tx[t].sqlite \in {"none", "committed"}
    BY <2>1, <2>4 DEF Fine, RunningFine, LockReady, AtRest, BackendStates, FrontendStates
  <2>5. /\ front[t].next = "DeliverStatementCallback" => tx[t].current # "none"
        /\ front[t].next = "DeliverQuotaIncreaseCallback" => ~ tx[t].retry /\ tx[t].current # "none"
    BY <2>1 DEF Fine, RecordsFine, StatementReady
  <2> QED BY <2>2, <2>3, <2>4, <2>5 DEF Posted, Called, Running
<1> QED BY <1>1, Invariance, PTL

(* What a transaction holds is given back however it ends: the origin lock *)
(* and the coordinator's lock belong to transactions that are still to be  *)
(* cleaned up, and a thread that has ended leaves none of its transactions *)
(* with its reference cycle, an SQLite transaction or the origin lock.     *)
THEOREM NothingIsLeaked == Spec => []NothingLeaked
<1>1. Inv => NothingLeaked
  <2> SUFFICES ASSUME Inv PROVE NothingLeaked
    OBVIOUS
  <2>1. originLock # None => tx[originLock].frontend /\ tx[originLock].lockAcquired
    BY DEF Inv, OriginLockFine
  <2>2. ASSUME NEW c \in Contexts, phase[c] = "loop",
               NEW t \in info[c].activeWrite \cup info[c].activeReads
        PROVE  tx[t].frontend
    <3>1. t \in Entry!HoldersOf(info[c])
      BY DEF Entry!HoldersOf
    <3>2. EntryFine(c)
      BY DEF Inv
    <3>3. t \in Transactions /\ Context(t) = c
      BY <3>1, <3>2, GoodFields DEF EntryFine
    <3>4. Holds(t) /\ ~ Stopping(t)
      BY <2>2, <3>1, <3>3 DEF Holds, Stopping, ShuttingDown
    <3> QED BY <3>3, <3>4 DEF Inv, Fine, HolderFine
  <2>3. ASSUME NEW c \in Contexts, phase[c] = "finished",
               NEW t \in created, t \in TransactionsOf(c)
        PROVE  ~ tx[t].frontend /\ tx[t].sqlite = "none" /\ originLock # t
    <3>1. t \in Transactions /\ Context(t) = c /\ Fine(t) /\ EntryFine(c)
      BY <2>3 DEF Inv, Types, TransactionsOf
    <3>2. Stopping(t)
      BY <2>3, <3>1 DEF Stopping, ShuttingDown
    <3>3. ~ (tx[t].frontend /\ tx[t].lockAcquired)
      BY <3>1, <3>2 DEF Fine, HolderFine
    <3>4. ~ Opened(t)
      BY <2>3, <3>1, Owners DEF EntryFine, HandlesOf, Opened
    <3>5. ~ Queued(t)
      BY <3>1, <3>4 DEF Fine, FreshFine
    <3>6. ~ Waiting(t)
      <4>1. info[c].pending = <<>>
        BY <2>3, <3>1 DEF EntryFine
      <4> QED BY <3>1, <4>1, EmptySet DEF Waiting
    <3>7. ~ Running(t)
      BY <2>3, <3>1 DEF Fine, RunningFine
    <3>8. ~ (tx[t].frontend /\ ~ tx[t].lockAcquired)
      BY <3>1, <3>4, <3>5, <3>6, <3>7 DEF Fine, FreshFine, PostedFine
    <3>9. ~ tx[t].frontend
      BY <3>3, <3>8
    <3>10. tx[t].sqlite = "none"
      BY <3>1, <3>9 DEF Fine, RecordsFine
    <3>11. originLock # t
      BY <2>1, <3>1, <3>9, ConstantsAssumption
    <3> QED BY <3>9, <3>10, <3>11
  <2> QED BY <2>1, <2>2, <2>3 DEF NothingLeaked
<1> QED BY <1>1, Invariance, PTL

-----------------------------------------------------------------------------
(***************************************************************************)
(* The lock that the transactions of a context get                         *)
(***************************************************************************)

(* A step after which the coordinator's entry of c is as it was, or in     *)
(* which c was shutting down all the time.                                 *)
LEMMA LockKept ==
  ASSUME NEW c,
         ShuttingDown(c)' <=> ShuttingDown(c),
         ShuttingDown(c) \/ info'[c] = info[c]
  PROVE  UNCHANGED FairLock(c)!vars
<1>1. ShuttingDown(c)' = ShuttingDown(c)
  BY DEF ShuttingDown
<1>2. (IF ShuttingDown(c) THEN <<>> ELSE info[c].pending)' =
      (IF ShuttingDown(c) THEN <<>> ELSE info[c].pending)
  BY <1>1
<1>3. (IF ShuttingDown(c) THEN {} ELSE info[c].activeWrite \cup info[c].activeReads)' =
      (IF ShuttingDown(c) THEN {} ELSE info[c].activeWrite \cup info[c].activeReads)
  BY <1>1
<1> QED BY <1>1, <1>2, <1>3 DEF FairLock!vars

(* Letting in is what the abstract lock does when it admits.               *)
LEMMA LettingInAdmits ==
  ASSUME NEW c, NEW a, NEW n, Entry!LetsIn(a, info'[c], n), Entry!Good(info'[c]),
         ~ ShuttingDown(c)'
  PROVE  FairLock(c)!Admit(a.pending, Entry!HoldersOf(a))
<1>1. PICK j : j = info'[c]
  OBVIOUS
<1>2. \A H : FairLock(c)!Compatible(H) <=> Entry!Lock!Compatible(H)
  BY DEF FairLock!Compatible, Entry!Lock!Compatible
<1>3. FairLock(c)!Compatible(Entry!HoldersOf(j))
  BY <1>1, GoodFields DEF FairLock!Compatible
<1>4. /\ n \in 0 .. Len(a.pending)
      /\ j.pending = SubSeq(a.pending, n + 1, Len(a.pending))
      /\ Entry!HoldersOf(j) = Entry!HoldersOf(a) \cup {a.pending[k] : k \in 1 .. n}
      /\ n < Len(a.pending) => ~ FairLock(c)!Compatible(Entry!HoldersOf(j) \cup {a.pending[n + 1]})
  BY <1>1, <1>2 DEF Entry!LetsIn
<1>5. Entry!HoldersOf(j) = info'[c].activeWrite \cup info'[c].activeReads
  BY <1>1 DEF Entry!HoldersOf
<1> QED BY <1>1, <1>3, <1>4, <1>5 DEF FairLock!Admit

(* A transaction gives the lock back.                                      *)
LEMMA LeaveStep ==
  ASSUME NEW c, Entry!Good(info[c]), NEW t \in Entry!HoldersOf(info[c]),
         ~ ShuttingDown(c), ~ ShuttingDown(c)',
         info'[c] = Coordinator(c)!Released(info[c], t)
  PROVE  FairLock(c)!Next
<1>1. PICK i : i = info[c]
  OBVIOUS
<1> DEFINE a == IF t \in ReadOnly THEN [i EXCEPT !.activeReads = @ \ {t}]
                                  ELSE [i EXCEPT !.activeWrite = {}]
<1>2. /\ i \in Entry!Infos /\ Entry!Good(i) /\ t \in Entry!HoldersOf(i) /\ t \in Transactions
      /\ t \in IF t \in ReadOnly THEN i.activeReads ELSE i.activeWrite
  BY <1>1, GoodFields
<1>3. /\ Entry!Good(a) /\ a.pending = i.pending
      /\ Entry!HoldersOf(a) = Entry!HoldersOf(i) \ {t}
  BY <1>2, Entry!RemovingIsGood
<1>4. info'[c] = Entry!processPendingTransactions(a)
  BY <1>1, SameEntry DEF Entry!Released
<1> HIDE DEF a
<1>5. a \in Entry!Infos
  BY <1>3 DEF Entry!Good
<1>6. Entry!Good(info'[c]) /\ \E n : Entry!LetsIn(a, info'[c], n)
  BY <1>3, <1>4, <1>5, Entry!ProcessLetsIn
<1>7. PICK n : Entry!LetsIn(a, info'[c], n)
  BY <1>6
<1>8. FairLock(c)!Admit(a.pending, Entry!HoldersOf(a))
  BY <1>6, <1>7, LettingInAdmits
<1>9. FairLock(c)!Admit(i.pending, Entry!HoldersOf(i) \ {t})
  BY <1>3, <1>8
<1>10. /\ (IF ShuttingDown(c) THEN <<>> ELSE info[c].pending) = i.pending
       /\ (IF ShuttingDown(c) THEN {} ELSE info[c].activeWrite \cup info[c].activeReads) =
            Entry!HoldersOf(i)
  BY <1>1 DEF Entry!HoldersOf
<1>11. ShuttingDown(c)' = ShuttingDown(c)
  BY DEF ShuttingDown
<1>12. FairLock(c)!Leave(t)
  BY <1>2, <1>9, <1>10, <1>11 DEF FairLock!Leave
<1> QED BY <1>2, <1>12 DEF FairLock!Next

(* A transaction asks for the lock.                                        *)
LEMMA AskStep ==
  ASSUME NEW c, Entry!Good(info[c]), NEW t \in Transactions,
         t \notin Entry!HoldersOf(info[c]), t \notin ToSet(info[c].pending),
         ~ ShuttingDown(c), ~ ShuttingDown(c)',
         info'[c] = Coordinator(c)!Acquired(info[c], t)
  PROVE  FairLock(c)!Next
<1>1. PICK i : i = info[c]
  OBVIOUS
<1> DEFINE a == [i EXCEPT !.pending = Append(@, t)]
<1>2. /\ i \in Entry!Infos /\ Entry!Good(i) /\ i.pending \in Seq(Transactions)
      /\ t \notin Entry!HoldersOf(i)
  BY <1>1, GoodFields
<1>3. \A k \in 1 .. Len(i.pending) : i.pending[k] # t
  BY <1>1, <1>2, Elements
<1>4. /\ Entry!Good(a) /\ a.pending = Append(i.pending, t)
      /\ Entry!HoldersOf(a) = Entry!HoldersOf(i)
  BY <1>2, <1>3, Entry!AppendingIsGood
<1>5. info'[c] = Entry!processPendingTransactions(a)
  BY <1>1, SameEntry, SMTT(30) DEF Entry!Acquired
<1> HIDE DEF a
<1>6. a \in Entry!Infos
  BY <1>4 DEF Entry!Good
<1>7. Entry!Good(info'[c]) /\ \E n : Entry!LetsIn(a, info'[c], n)
  BY <1>4, <1>5, <1>6, Entry!ProcessLetsIn
<1>8. PICK n : Entry!LetsIn(a, info'[c], n)
  BY <1>7
<1>9. FairLock(c)!Admit(a.pending, Entry!HoldersOf(a))
  BY <1>7, <1>8, LettingInAdmits
<1>10. FairLock(c)!Admit(Append(i.pending, t), Entry!HoldersOf(i))
  BY <1>4, <1>9
<1>11. /\ (IF ShuttingDown(c) THEN <<>> ELSE info[c].pending) = i.pending
       /\ (IF ShuttingDown(c) THEN {} ELSE info[c].activeWrite \cup info[c].activeReads) =
            Entry!HoldersOf(i)
  BY <1>1 DEF Entry!HoldersOf
<1>12. ShuttingDown(c)' = ShuttingDown(c)
  BY DEF ShuttingDown
<1>13. FairLock(c)!Ask(t)
  BY <1>2, <1>3, <1>10, <1>11, <1>12 DEF FairLock!Ask
<1> QED BY <1>13 DEF FairLock!Next

\* What the abstract lock of the context e sees of a step.
LockStep(e) == [FairLock(e)!Next]_(FairLock(e)!vars)

(* A step that changes the entry and the phase of c only leaves the locks  *)
(* of the other contexts alone.                                            *)
LEMMA OtherLocks ==
  ASSUME Inv, NEW c \in Contexts, NEW e \in Contexts, e # c,
         NEW i, info' = info \/ info' = [info EXCEPT ![c] = i],
         NEW p, phase' = phase \/ phase' = [phase EXCEPT ![c] = p]
  PROVE  LockStep(e)
<1>1. info'[e] = info[e] /\ phase'[e] = phase[e]
  BY DEF Inv, Types
<1>2. ShuttingDown(e)' <=> ShuttingDown(e)
  BY <1>1 DEF ShuttingDown
<1> QED BY <1>1, <1>2, LockKept DEF LockStep

(* So does a step that changes neither.                                    *)
LEMMA NoLock ==
  ASSUME NEW e, UNCHANGED <<info, phase>>
  PROVE  LockStep(e)
<1>1. (ShuttingDown(e)' <=> ShuttingDown(e)) /\ info'[e] = info[e]
  BY DEF ShuttingDown
<1> QED BY <1>1, LockKept DEF LockStep

(* acquireLock() asks for the lock.                                        *)
LEMMA AcquireLockAsks ==
  ASSUME Inv, NEW c \in Contexts, NEW t \in TransactionsOf(c), acquireLock(c, t),
         NEW e \in Contexts
  PROVE  LockStep(e)
<1>1. PICK j : j = Coordinator(c)!Acquired(info[c], t)
  OBVIOUS
<1>2. info' = [info EXCEPT ![c] = j] /\ phase' = phase
  BY <1>1 DEF acquireLock
<1>3. CASE e # c
  BY <1>2, <1>3, OtherLocks
<1>4. CASE e = c
  <2>1. t \in Transactions /\ Context(t) = c /\ running[c] = t /\ tx[t].next = "AcquireLock"
    BY DEF acquireLock, Runs, TransactionsOf
  <2>2. Fine(t) /\ Running(t) /\ Entry!Good(info[c])
    BY <2>1 DEF Inv, Running, EntryFine
  <2>3. phase[c] = "loop" /\ ~ tx[t].lockAcquired /\ ~ Waiting(t)
    BY <2>1, <2>2 DEF Fine, RunningFine, LockReady, Apart
  <2>4. ~ ShuttingDown(c) /\ ~ ShuttingDown(c)' /\ ~ Stopping(t)
    BY <1>2, <2>1, <2>3 DEF ShuttingDown, Stopping
  <2>5. t \notin Entry!HoldersOf(info[c]) /\ t \notin ToSet(info[c].pending)
    BY <2>1, <2>2, <2>3, <2>4 DEF Fine, HolderFine, Holds, Waiting
  <2>6. info'[c] = Coordinator(c)!Acquired(info[c], t)
    BY <1>1, <1>2 DEF Inv, Types
  <2>7. FairLock(c)!Next
    BY <2>1, <2>2, <2>4, <2>5, <2>6, AskStep
  <2> QED BY <1>4, <2>7 DEF LockStep
<1> QED BY <1>3, <1>4

(* A transaction of c that has the lock gives it back.                     *)
LEMMA ReleaseLeaves ==
  ASSUME Inv, NEW c \in Contexts, NEW t \in Transactions, Context(t) = c,
         tx[t].frontend, tx[t].lockAcquired,
         info' = [info EXCEPT ![c] = Coordinator(c)!Released(info[c], t)],
         ~ ShuttingDown(c),
         phase' = phase \/ phase' = [phase EXCEPT ![c] = "deadlocked"],
         NEW e \in Contexts
  PROVE  LockStep(e)
<1>1. CASE e # c
  BY <1>1, OtherLocks
<1>2. CASE e = c
  <2>1. Fine(t) /\ Entry!Good(info[c])
    BY DEF Inv, EntryFine
  <2>2. t \in Entry!HoldersOf(info[c])
    BY <2>1 DEF Fine, HolderFine, Holds, Stopping
  <2>3. info'[c] = Coordinator(c)!Released(info[c], t)
    BY DEF Inv, Types
  <2>4. ~ ShuttingDown(c)'
    BY DEF ShuttingDown, Inv, Types
  <2>5. FairLock(c)!Next
    BY <2>1, <2>2, <2>3, <2>4, LeaveStep
  <2> QED BY <1>2, <2>5 DEF LockStep
<1> QED BY <1>1, <1>2

(* cleanupAndTerminate() gives back the lock that the transaction has.     *)
LEMMA TerminateLeaves ==
  ASSUME Inv, NEW c \in Contexts, NEW t \in TransactionsOf(c), cleanupAndTerminate(c, t),
         NEW e \in Contexts
  PROVE  LockStep(e)
<1>1. t \in Transactions /\ Context(t) = c /\ Running(t) /\ Fine(t)
  BY DEF cleanupAndTerminate, Runs, TransactionsOf, Running, Inv
<1>2. ~ ShuttingDown(c)
  BY <1>1 DEF Fine, RunningFine, ShuttingDown
<1>3. CASE t \in Holding({t})
  BY <1>1, <1>2, <1>3, ReleaseLeaves DEF cleanupAndTerminate, Holding, AfterRelease
<1>4. CASE t \notin Holding({t})
  BY <1>4, NoLock DEF cleanupAndTerminate
<1> QED BY <1>3, <1>4

(* So does the end of a transaction that is interrupted.                   *)
LEMMA InterruptedLeaves ==
  ASSUME Inv, NEW c \in Contexts, CleanupInterrupted(c), NEW e \in Contexts
  PROVE  LockStep(e)
<1>1. PICK t : t = Head(tasks[c])
  OBVIOUS
<1>2. phase[c] = "loop" /\ tasks[c] # <<>> /\ t \in Transactions /\ phase' = phase
  BY <1>1 DEF CleanupInterrupted, TakesTask
<1>3. tasks[c] \in Seq(Transactions \cup Databases) /\ ThreadFine(c)
  BY DEF Inv, Types
<1>4. t \in ToSet(tasks[c])
  BY <1>1, <1>2, <1>3, TailSet
<1>5. Context(t) = c
  BY <1>2, <1>3, <1>4 DEF ThreadFine
<1>6. ~ ShuttingDown(c)
  BY <1>2 DEF ShuttingDown
<1>7. CASE tx[t].next # "End" /\ t \in Holding({t})
  <2>1. info' = [info EXCEPT ![c] = AfterRelease(c, t)]
    BY <1>1, <1>7 DEF CleanupInterrupted
  <2> QED BY <1>2, <1>5, <1>6, <1>7, <2>1, ReleaseLeaves DEF Holding, AfterRelease
<1>8. CASE ~ (tx[t].next # "End" /\ t \in Holding({t}))
  <2>1. info' = info
    BY <1>1, <1>8 DEF CleanupInterrupted
  <2> QED BY <1>2, <2>1, NoLock
<1> QED BY <1>7, <1>8

(* DatabaseBackend::close() gives back the lock of the transaction of the  *)
(* handle that has it, if its next step is still in the thread's queue.    *)
LEMMA CloseLeaves ==
  ASSUME Inv, NEW c \in Contexts, NEW d \in Databases, ContextOf[d] = c, close(c, d),
         phase[c] \in {"loop", "closing"}, NEW e \in Contexts
  PROVE  LockStep(e)
<1>a. PICK X : X = {t \in ToSet(tasks[c]) \cap Transactions : DatabaseOf[t] = d}
  OBVIOUS
<1>b. PICK F : F = IF ShuttingDown(c) THEN {} ELSE Holding(X)
  OBVIOUS
<1>c. PICK a : a = IF F = {} THEN info[c] ELSE Coordinator(c)!Released(info[c], CHOOSE t \in F : TRUE)
  OBVIOUS
<1>d. PICK g : g = Coordinator(c)!Granted(info[c].pending, a)
  OBVIOUS
<1>1. /\ info' = [info EXCEPT ![c] = a]
      /\ phase' = IF ToSet(g) = {} THEN phase ELSE [phase EXCEPT ![c] = "deadlocked"]
  BY <1>a, <1>b, <1>c, <1>d DEF close
<1>2. phase' = phase \/ phase' = [phase EXCEPT ![c] = "deadlocked"]
  BY <1>1
<1>3. CASE F # {}
  <2>1. PICK x : x = CHOOSE t \in F : TRUE
    OBVIOUS
  <2>2. x \in F /\ a = Coordinator(c)!Released(info[c], x)
    BY <1>3, <1>c, <2>1
  <2>3. ~ ShuttingDown(c) /\ x \in X /\ tx[x].frontend /\ tx[x].lockAcquired
    BY <1>3, <1>b, <2>2 DEF Holding
  <2>4. x \in Transactions /\ Context(x) = c
    BY <1>a, <2>3 DEF Context
  <2> QED BY <1>1, <1>2, <2>2, <2>3, <2>4, ReleaseLeaves
<1>4. CASE F = {}
  <2>1. a = info[c] /\ info' = info
    BY <1>1, <1>4, <1>c DEF Inv, Types
  <2>2. ASSUME ShuttingDown(c) PROVE phase' = phase
    <3>1. info[c].pending = <<>>
      BY <2>2 DEF Inv, EntryFine, ShuttingDown
    <3>2. g = SubSeq(<<>>, 1, Len(<<>>) - Len(<<>>))
      <4>1. g = Entry!Granted(info[c].pending, info[c])
        BY <1>d, <2>1, SameEntry
      <4> QED BY <3>1, <4>1 DEF Entry!Granted
    <3>3. Len(<<>>) - Len(<<>>) = 0
      OBVIOUS
    <3>4. g = <<>>
      BY <3>2, <3>3
    <3> QED BY <1>1, <3>4, EmptySet
  <2>3. ShuttingDown(c)' <=> ShuttingDown(c)
    BY <1>2, <2>2 DEF ShuttingDown, Inv, Types
  <2>4. CASE e = c
    BY <2>1, <2>3, <2>4, LockKept DEF LockStep
  <2>5. CASE e # c
    BY <1>2, <2>1, <2>5, OtherLocks
  <2> QED BY <2>4, <2>5
<1> QED BY <1>3, <1>4

(* shutdown() takes the lock out of service.                               *)
LEMMA ShutdownCloses ==
  ASSUME Inv, NEW c \in Contexts, shutdown(c), NEW e \in Contexts
  PROVE  LockStep(e)
<1>1. PICK p : p = IF info[c].pending = <<>> THEN "closing" ELSE "looping"
  OBVIOUS
<1>2. PICK i : i = Coordinator(c)!EmptyInfo
  OBVIOUS
<1>3. /\ info' = info \/ info' = [info EXCEPT ![c] = i]
      /\ phase' = [phase EXCEPT ![c] = p]
  BY <1>1, <1>2 DEF shutdown
<1>4. CASE e # c
  BY <1>3, <1>4, OtherLocks
<1>5. CASE e = c
  <2>1. ShuttingDown(c)' = TRUE
    BY <1>1, <1>3 DEF ShuttingDown, Inv, Types
  <2>2. FairLock(c)!Close
    BY <2>1 DEF FairLock!Close
  <2> QED BY <1>5, <2>2 DEF LockStep, FairLock!Next
<1> QED BY <1>4, <1>5

(* The thread that has closed its databases ends; its lock was taken out   *)
(* of service before.                                                      *)
LEMMA EndKeepsClosed ==
  ASSUME Inv, NEW c \in Contexts, threadEnds(c), NEW e \in Contexts
  PROVE  LockStep(e)
<1>1. phase[c] = "closing" /\ phase' = [phase EXCEPT ![c] = "finished"] /\ info' = info
  BY DEF threadEnds
<1>2. ShuttingDown(e)' <=> ShuttingDown(e)
  BY <1>1 DEF ShuttingDown, Inv, Types
<1> QED BY <1>1, <1>2, LockKept DEF LockStep

(* In every step, every context's lock does what a fair readers-writer     *)
(* lock may do.                                                            *)
LEMMA LockSteps ==
  ASSUME Inv, [Next]_vars, NEW e \in Contexts
  PROVE  LockStep(e)
<1>1. CASE UNCHANGED vars
  BY <1>1, NoLock DEF vars
<1>2. ASSUME NEW t \in Transactions, runTransaction(t) PROVE LockStep(e)
  BY <1>2, NoLock DEF runTransaction
<1>3. ASSUME NEW d \in Deletable, markAsDeletedAndClose(d) PROVE LockStep(e)
  BY <1>3, NoLock DEF markAsDeletedAndClose
<1>4. ASSUME NEW c \in Stoppable \cap Workers, interruptAllDatabases(c) PROVE LockStep(e)
  BY <1>4, NoLock DEF interruptAllDatabases
<1>5. ASSUME NEW c \in Stoppable, stopDatabases(c) PROVE LockStep(e)
  BY <1>5, NoLock DEF stopDatabases
<1>6. ASSUME NEW c \in Contexts, ThreadStep(c) PROVE LockStep(e)
  <2>1. CASE performNextStep(c)
    BY <2>1, NoLock DEF performNextStep
  <2>2. CASE CleanupInterrupted(c)
    BY <2>2, InterruptedLeaves
  <2>3. CASE performCloseTask(c)
    <3>1. PICK d : d = Head(tasks[c])
      OBVIOUS
    <3>2. d \in Databases /\ close(c, d) /\ phase[c] = "loop" /\ tasks[c] # <<>>
      BY <2>3, <3>1 DEF performCloseTask, TakesTask
    <3>3. tasks[c] \in Seq(Transactions \cup Databases) /\ ThreadFine(c)
      BY DEF Inv, Types
    <3>4. d \in ToSet(tasks[c])
      BY <3>1, <3>2, <3>3, TailSet
    <3>5. ContextOf[d] = c
      BY <3>2, <3>3, <3>4 DEF ThreadFine
    <3> QED BY <3>2, <3>5, CloseLeaves
  <2>4. ASSUME NEW t \in TransactionsOf(c), acquireLock(c, t) PROVE LockStep(e)
    BY <2>4, AcquireLockAsks
  <2>5. ASSUME NEW t \in TransactionsOf(c), openTransactionAndPreflight(c, t) PROVE LockStep(e)
    BY <2>5, NoLock DEF openTransactionAndPreflight
  <2>6. ASSUME NEW t \in TransactionsOf(c), runStatements(c, t) PROVE LockStep(e)
    BY <2>6, NoLock DEF runStatements
  <2>7. ASSUME NEW t \in TransactionsOf(c), postflightAndCommit(c, t) PROVE LockStep(e)
    BY <2>7, NoLock DEF postflightAndCommit
  <2>8. ASSUME NEW t \in TransactionsOf(c), cleanupAfterTransactionErrorCallback(c, t)
        PROVE  LockStep(e)
    BY <2>8, NoLock DEF cleanupAfterTransactionErrorCallback
  <2>9. ASSUME NEW t \in TransactionsOf(c), cleanupAndTerminate(c, t) PROVE LockStep(e)
    BY <2>9, TerminateLeaves
  <2>10. ASSUME NEW t \in TransactionsOf(c), sendToFrontendState(c, t) PROVE LockStep(e)
    BY <2>10, NoLock DEF sendToFrontendState
  <2>11. CASE shutdown(c)
    BY <2>11, ShutdownCloses
  <2>12. ASSUME NEW d \in HandlesOf(c), closeOpenDatabase(c, d) PROVE LockStep(e)
    BY <2>12, CloseLeaves DEF closeOpenDatabase, HandlesOf
  <2>13. CASE threadEnds(c)
    BY <2>13, EndKeepsClosed
  <2> QED BY <1>6, <2>1, <2>2, <2>3, <2>4, <2>5, <2>6, <2>7, <2>8, <2>9, <2>10, <2>11, <2>12,
             <2>13 DEF ThreadStep
<1>7. ASSUME NEW c \in Contexts, ScriptStep(c) PROVE LockStep(e)
  <2>1. CASE performPendingCallback(c)
    BY <2>1, NoLock DEF performPendingCallback
  <2>2. ASSUME NEW t \in TransactionsOf(c), deliverTransactionCallback(t) PROVE LockStep(e)
    BY <2>2, NoLock DEF deliverTransactionCallback
  <2>3. ASSUME NEW t \in TransactionsOf(c), deliverTransactionErrorCallback(t) PROVE LockStep(e)
    BY <2>3, NoLock DEF deliverTransactionErrorCallback
  <2>4. ASSUME NEW t \in TransactionsOf(c), deliverStatementCallback(t) PROVE LockStep(e)
    BY <2>4, NoLock DEF deliverStatementCallback
  <2>5. ASSUME NEW t \in TransactionsOf(c), deliverQuotaIncreaseCallback(t) PROVE LockStep(e)
    BY <2>5, NoLock DEF deliverQuotaIncreaseCallback
  <2>6. ASSUME NEW t \in TransactionsOf(c), deliverSuccessCallback(t) PROVE LockStep(e)
    BY <2>6, NoLock DEF deliverSuccessCallback
  <2>7. ASSUME NEW t \in TransactionsOf(c), sendToBackendState(t) PROVE LockStep(e)
    BY <2>7, NoLock DEF sendToBackendState
  <2> QED BY <1>7, <2>1, <2>2, <2>3, <2>4, <2>5, <2>6, <2>7 DEF ScriptStep
<1> QED BY <1>1, <1>2, <1>3, <1>4, <1>5, <1>6, <1>7 DEF Next

(* In every context, through errors, closed databases, interruptions and   *)
(* shutdown, the transactions get a readers-writer lock that is fair in    *)
(* the order in which they asked: what SQLTransactionCoordinator promises  *)
(* by itself is also what these callers get from it.                       *)
THEOREM LockImplementsFairLock == Spec => LockIsFair
<1>1. Init => \A c \in Contexts : FairLock(c)!Init
  <2> SUFFICES ASSUME Init, NEW c \in Contexts PROVE FairLock(c)!Init
    OBVIOUS
  <2>1. info[c] = Entry!EmptyInfo /\ phase[c] = "loop"
    BY SameEntry DEF Init
  <2>2. ShuttingDown(c) = FALSE
    BY <2>1 DEF ShuttingDown
  <2>3. info[c].pending = <<>> /\ info[c].activeWrite = {} /\ info[c].activeReads = {}
    BY <2>1 DEF Entry!EmptyInfo
  <2> QED BY <2>2, <2>3 DEF FairLock!Init
<1>2. Inv /\ [Next]_vars =>
        [\A c \in Contexts : [FairLock(c)!Next]_(FairLock(c)!vars)]_vars
  BY LockSteps DEF LockStep
<1> QED BY <1>1, <1>2, Invariance, PTL DEF Spec, LockIsFair
=============================================================================
