------------------- MODULE SQLTransactionCoordinatorProof -------------------
(***************************************************************************)
(* Proofs about SQLTransactionCoordinator, for any set of transactions: a  *)
(* write transaction runs alone, and the coordinator is the readers-writer *)
(* lock of ReadersWriterLock.                                              *)
(***************************************************************************)
EXTENDS SQLTransactionCoordinator, SequenceTheorems, WellFoundedInduction, TLAPS

HoldersOf(i) == i.activeWrite \cup i.activeReads

\* WriteRunsAlone, of any entry.
Alone(i) ==
  /\ i.activeWrite # {} => i.activeReads = {}
  /\ \A s, t \in i.activeWrite : s = t
  /\ i.activeReads \subseteq ReadOnly
  /\ i.activeWrite \cap ReadOnly = {}

\* No transaction is in an entry twice: neither in the queue, nor in the queue
\* and among those that run.
NoneTwice(i) ==
  /\ \A j, k \in 1 .. Len(i.pending) : i.pending[j] = i.pending[k] => j = k
  /\ \A j \in 1 .. Len(i.pending) : i.pending[j] \notin HoldersOf(i)

Good(i) == i \in Infos /\ Alone(i) /\ NoneTwice(i)

\* j is the entry i after the n transactions at the front of its queue were let
\* in, and no more of them could be.
LetsIn(i, j, n) ==
  /\ n \in 0 .. Len(i.pending)
  /\ j.pending = SubSeq(i.pending, n + 1, Len(i.pending))
  /\ HoldersOf(j) = HoldersOf(i) \cup {i.pending[k] : k \in 1 .. n}
  /\ n < Len(i.pending) => ~ Lock!Compatible(HoldersOf(j) \cup {i.pending[n + 1]})

Inv == Good(info) /\ isShuttingDown \in BOOLEAN

-----------------------------------------------------------------------------
\* The loop that takes readers off the queue takes at least one and stops at the
\* end of the queue or in front of a transaction that writes.
LEMMA LeadingReadersStop ==
  ASSUME NEW q \in Seq(Transactions), q # <<>>, q[1] \in ReadOnly
  PROVE  LET n == LeadingReaders(q) IN
         /\ n \in 1 .. Len(q)
         /\ \A k \in 1 .. n : q[k] \in ReadOnly
         /\ n < Len(q) => q[n + 1] \notin ReadOnly
<1> DEFINE Stops(n) == /\ \A k \in 1 .. n : q[k] \in ReadOnly
                       /\ n < Len(q) => q[n + 1] \notin ReadOnly
           Writers == {k \in 1 .. Len(q) : q[k] \notin ReadOnly}
<1>1. Len(q) \in Nat /\ Len(q) >= 1
  BY EmptySeq
<1>2. \E n \in 1 .. Len(q) : Stops(n)
  <2>1. CASE Writers = {}
    BY <1>1, <2>1
  <2>2. CASE Writers # {}
    <3>1. \E m \in Writers : \A k \in Writers : ~ (k < m)
      <4> DEFINE R == {p \in Nat \X Nat : p[1] < p[2]}
      <4>1. \E m \in Writers : \A k \in Writers : <<k, m>> \notin R
        <5>1. IsWellFoundedOn(R, Nat)
          BY NatLessThanWellFounded, Zenon DEF OpToRel
        <5>2. Writers \subseteq Nat
          BY <1>1
        <5> HIDE DEF Writers, R
        <5> QED BY <5>1, <5>2, <2>2, WFMin
      <4>2. \A k, m \in Writers : k < m => <<k, m>> \in R
        BY <1>1
      <4> HIDE DEF Writers, R
      <4> QED BY <4>1, <4>2
    <3>2. PICK m \in Writers : \A k \in Writers : ~ (k < m)
      BY <3>1
    <3>3. m \in 2 .. Len(q)
      <4>1. m # 1
        OBVIOUS
      <4> QED BY <4>1, <1>1
    <3>4. Stops(m - 1)
      BY <3>2, <3>3, <1>1
    <3>5. m - 1 \in 1 .. Len(q)
      BY <3>3, <1>1
    <3> QED BY <3>4, <3>5
  <2> QED BY <2>1, <2>2
<1> QED BY <1>2 DEF LeadingReaders

\* An entry stays good when transactions from the front of its queue are let in
\* and the entry they make keeps readers and writers apart.
LEMMA LettingInIsGood ==
  ASSUME NEW i \in Infos, NEW j \in Infos, NEW n, NoneTwice(i), Alone(j), LetsIn(i, j, n)
  PROVE  Good(j)
<1> DEFINE q == i.pending
<1>1. q \in Seq(Transactions) /\ Len(q) \in Nat
  BY DEF Infos
<1>2. n \in 0 .. Len(q) /\ j.pending = SubSeq(q, n + 1, Len(q))
  BY DEF LetsIn
<1>3. HoldersOf(j) = HoldersOf(i) \cup {q[k] : k \in 1 .. n}
  BY DEF LetsIn
<1>4. /\ Len(j.pending) = Len(q) - n
      /\ \A k \in 1 .. Len(j.pending) : j.pending[k] = q[n + k]
  BY <1>1, <1>2
<1>5. /\ \A k, l \in 1 .. Len(q) : q[k] = q[l] => k = l
      /\ \A k \in 1 .. Len(q) : q[k] \notin HoldersOf(i)
  BY DEF NoneTwice
<1>6. \A k, l \in 1 .. Len(j.pending) : j.pending[k] = j.pending[l] => k = l
  <2> TAKE k, l \in 1 .. Len(j.pending)
  <2>1. n + k \in 1 .. Len(q) /\ n + l \in 1 .. Len(q)
    BY <1>1, <1>2, <1>4
  <2> QED BY <2>1, <1>2, <1>1, <1>4, <1>5
<1>7. \A k \in 1 .. Len(j.pending) : j.pending[k] \notin HoldersOf(j)
  <2> TAKE k \in 1 .. Len(j.pending)
  <2>1. n + k \in 1 .. Len(q) /\ \A l \in 1 .. n : l \in 1 .. Len(q) /\ l # n + k
    BY <1>1, <1>2, <1>4
  <2> QED BY <2>1, <1>3, <1>4, <1>5
<1> QED BY <1>6, <1>7 DEF Good, NoneTwice

\* processPendingTransactions() lets in as many as it may.
LEMMA ProcessLetsIn ==
  ASSUME NEW i \in Infos, Good(i)
  PROVE  LET j == processPendingTransactions(i) IN
         Good(j) /\ \E n : LetsIn(i, j, n)
<1> DEFINE q == i.pending
           j == processPendingTransactions(i)
<1>1. /\ q \in Seq(Transactions) /\ Len(q) \in Nat
      /\ i.activeWrite \subseteq Transactions /\ i.activeReads \subseteq Transactions
      /\ i = [activeWrite |-> i.activeWrite, activeReads |-> i.activeReads, pending |-> q]
  BY DEF Infos
<1>2. Alone(i) /\ NoneTwice(i)
  BY DEF Good
<1>3. SubSeq(q, 1, Len(q)) = q
  BY <1>1, SubSeqFull
<1>4. ASSUME NEW x \in Transactions, NEW H, NEW y \in H, x # y,
             ~ (x \in ReadOnly /\ y \in ReadOnly)
      PROVE  ~ Lock!Compatible(H \cup {x})
  BY <1>4 DEF Lock!Compatible
<1>5. SUFFICES j \in Infos /\ Alone(j) /\ \E n : LetsIn(i, j, n)
  BY <1>2, LettingInIsGood
<1>6. CASE i.activeWrite # {} \/ q = <<>>
  <2>1. j = i
    BY <1>6 DEF processPendingTransactions
  <2>2. LetsIn(i, i, 0)
    <3>1. ASSUME 0 < Len(q) PROVE ~ Lock!Compatible(HoldersOf(i) \cup {q[1]})
      <4>1. PICK w \in i.activeWrite : TRUE
        BY <1>6, <3>1, EmptySeq
      <4>2. w \in HoldersOf(i) /\ w \notin ReadOnly
        BY <1>2 DEF Alone, HoldersOf
      <4>3. q[1] \in Transactions /\ q[1] \notin HoldersOf(i)
        BY <1>1, <1>2, <3>1, ElementOfSeq DEF NoneTwice
      <4> QED BY <4>2, <4>3, <1>4
    <3> QED BY <1>1, <1>3, <3>1 DEF LetsIn, HoldersOf
  <2> QED BY <2>1, <2>2, <1>2
<1>7. CASE /\ i.activeWrite = {} /\ q # <<>>
           /\ q[1] \in ReadOnly
  <2> DEFINE n == LeadingReaders(q)
             new == {q[k] : k \in 1 .. n}
  <2>1. /\ n \in 1 .. Len(q)
        /\ \A k \in 1 .. n : q[k] \in ReadOnly
        /\ n < Len(q) => q[n + 1] \notin ReadOnly
    BY <1>1, <1>7, LeadingReadersStop
  <2> HIDE DEF n
  <2>2. j = [activeWrite |-> {}, activeReads |-> i.activeReads \cup new,
             pending |-> SubSeq(q, n + 1, Len(q))]
    BY <1>1, <1>7 DEF processPendingTransactions, n
  <2>3. SubSeq(q, n + 1, Len(q)) \in Seq(Transactions) /\ new \subseteq Transactions
    BY <1>1, <2>1, ElementOfSeq, SubSeqProperties
  <2>4. j \in Infos
    BY <2>2, <2>3, <1>1 DEF Infos
  <2>5. Alone(j)
    BY <2>2, <2>1, <1>2 DEF Alone
  <2>6. LetsIn(i, j, n)
    <3> HIDE DEF j
    <3>1. HoldersOf(j) = HoldersOf(i) \cup new
      BY <2>2, <1>7 DEF HoldersOf
    <3>2. ASSUME n < Len(q) PROVE ~ Lock!Compatible(HoldersOf(j) \cup {q[n + 1]})
      <4>1. q[1] \in HoldersOf(j)
        BY <3>1, <2>1
      <4>2. q[n + 1] \in Transactions
        BY <3>2, <2>1, <1>1, ElementOfSeq
      <4> QED BY <4>1, <4>2, <3>2, <2>1, <1>4, <1>7
    <3>3. j.pending = SubSeq(q, n + 1, Len(q))
      BY <2>2
    <3> QED BY <3>1, <3>2, <3>3, <2>1 DEF LetsIn
  <2> QED BY <2>4, <2>5, <2>6
<1>8. CASE /\ i.activeWrite = {} /\ q # <<>>
           /\ q[1] \notin ReadOnly /\ i.activeReads = {}
  <2>1. j = [activeWrite |-> {q[1]}, activeReads |-> {}, pending |-> Tail(q)]
    BY <1>1, <1>8 DEF processPendingTransactions
  <2>2. Len(q) >= 1 /\ q[1] \in Transactions /\ Tail(q) \in Seq(Transactions)
    BY <1>1, <1>8, EmptySeq, ElementOfSeq, HeadTailProperties
  <2>3. Tail(q) = SubSeq(q, 1 + 1, Len(q))
    BY <1>1, <1>8, TailIsSubSeq
  <2>4. j \in Infos /\ Alone(j)
    BY <2>1, <2>2, <1>8 DEF Infos, Alone
  <2>5. LetsIn(i, j, 1)
    <3>1. {q[k] : k \in 1 .. 1} = {q[1]}
      OBVIOUS
    <3>2. HoldersOf(j) = HoldersOf(i) \cup {q[k] : k \in 1 .. 1}
      BY <2>1, <3>1, <1>8 DEF HoldersOf
    <3>3. ASSUME 1 < Len(q) PROVE ~ Lock!Compatible(HoldersOf(j) \cup {q[1 + 1]})
      <4>1. q[1] \in HoldersOf(j)
        BY <2>1 DEF HoldersOf
      <4>2. q[2] \in Transactions /\ q[2] # q[1]
        BY <3>3, <1>1, <1>2, ElementOfSeq DEF NoneTwice
      <4> QED BY <4>1, <4>2, <1>4, <1>8
    <3>4. j.pending = SubSeq(q, 1 + 1, Len(q))
      BY <2>1, <2>3
    <3> HIDE DEF j
    <3> QED BY <3>2, <3>3, <3>4, <2>2, <1>1 DEF LetsIn
  <2> QED BY <2>4, <2>5
<1>9. CASE /\ i.activeWrite = {} /\ q # <<>>
           /\ q[1] \notin ReadOnly /\ i.activeReads # {}
  <2>1. j = i
    BY <1>9 DEF processPendingTransactions
  <2>2. LetsIn(i, i, 0)
    <3>1. PICK r \in i.activeReads : TRUE
      BY <1>9
    <3>2. r \in HoldersOf(i) /\ r \in ReadOnly
      BY <1>2 DEF Alone, HoldersOf
    <3>3. Len(q) >= 1 /\ q[1] \in Transactions
      BY <1>1, <1>9, EmptySeq, ElementOfSeq
    <3>4. ~ Lock!Compatible(HoldersOf(i) \cup {q[1]})
      BY <3>2, <3>3, <1>4, <1>9
    <3> QED BY <1>1, <1>3, <3>4 DEF LetsIn, HoldersOf
  <2> QED BY <2>1, <2>2, <1>2
<1> QED BY <1>6, <1>7, <1>8, <1>9

-----------------------------------------------------------------------------
\* A transaction that asks and is not in the entry yet goes to the end of the
\* queue, which leaves the entry good.
LEMMA AppendingIsGood ==
  ASSUME NEW i \in Infos, Good(i), NEW t \in Transactions, t \notin HoldersOf(i),
         \A k \in 1 .. Len(i.pending) : i.pending[k] # t
  PROVE  LET a == [i EXCEPT !.pending = Append(@, t)] IN
         /\ Good(a)
         /\ a.pending = Append(i.pending, t)
         /\ HoldersOf(a) = HoldersOf(i)
<1> DEFINE q == i.pending
           a == [activeWrite |-> i.activeWrite, activeReads |-> i.activeReads,
                 pending |-> Append(q, t)]
<1>1. /\ q \in Seq(Transactions) /\ Len(q) \in Nat
      /\ i = [activeWrite |-> i.activeWrite, activeReads |-> i.activeReads, pending |-> q]
  BY DEF Infos
<1>2. [i EXCEPT !.pending = Append(@, t)] = a
  <2>1. \A p : [i EXCEPT !.pending = p] =
              [activeWrite |-> i.activeWrite, activeReads |-> i.activeReads, pending |-> p]
    BY <1>1, SMTT(30)
  <2> QED BY <2>1
<1>3. /\ Append(q, t) \in Seq(Transactions)
      /\ Len(Append(q, t)) = Len(q) + 1
      /\ Append(q, t)[Len(q) + 1] = t
      /\ \A k \in 1 .. Len(q) : Append(q, t)[k] = q[k]
  BY <1>1
<1>4. a \in Infos
  BY <1>3 DEF Infos
<1>5. Alone(a)
  BY DEF Good, Alone
<1>6. NoneTwice(a)
  <2>1. a.pending = Append(q, t) /\ HoldersOf(a) = HoldersOf(i)
    BY DEF HoldersOf
  <2>2. /\ \A j, k \in 1 .. Len(q) : q[j] = q[k] => j = k
        /\ \A j \in 1 .. Len(q) : q[j] \notin HoldersOf(i)
    BY DEF Good, NoneTwice
  <2>3. \A k \in 1 .. Len(q) + 1 : k = Len(q) + 1 \/ k \in 1 .. Len(q)
    BY <1>1
  <2> HIDE DEF a
  <2> QED BY <2>1, <2>2, <2>3, <1>1, <1>3 DEF NoneTwice
<1>7. a.pending = Append(q, t) /\ HoldersOf(a) = HoldersOf(i)
  BY DEF HoldersOf
<1> QED BY <1>2, <1>4, <1>5, <1>6, <1>7 DEF Good

\* What a transaction that runs leaves when it gives the lock back is good.
LEMMA RemovingIsGood ==
  ASSUME NEW i \in Infos, Good(i), NEW t \in Transactions,
         t \in IF t \in ReadOnly THEN i.activeReads ELSE i.activeWrite
  PROVE  LET a == IF t \in ReadOnly THEN [i EXCEPT !.activeReads = @ \ {t}]
                                    ELSE [i EXCEPT !.activeWrite = {}] IN
         /\ Good(a)
         /\ a.pending = i.pending
         /\ HoldersOf(a) = HoldersOf(i) \ {t}
<1> DEFINE a == IF t \in ReadOnly THEN [i EXCEPT !.activeReads = @ \ {t}]
                                  ELSE [i EXCEPT !.activeWrite = {}]
<1>1. /\ i.pending \in Seq(Transactions)
      /\ i.activeWrite \subseteq Transactions /\ i.activeReads \subseteq Transactions
      /\ i = [activeWrite |-> i.activeWrite, activeReads |-> i.activeReads,
              pending |-> i.pending]
  BY DEF Infos
<1>2. Alone(i) /\ NoneTwice(i)
  BY DEF Good
<1>3. a = [activeWrite |-> IF t \in ReadOnly THEN i.activeWrite ELSE {},
           activeReads |-> IF t \in ReadOnly THEN i.activeReads \ {t} ELSE i.activeReads,
           pending |-> i.pending]
  BY <1>1
<1> HIDE DEF a
<1>4. a.pending = i.pending
  BY <1>3
<1>5. HoldersOf(a) = HoldersOf(i) \ {t}
  <2>1. CASE t \in ReadOnly
    BY <2>1, <1>2, <1>3 DEF HoldersOf, Alone
  <2>2. CASE t \notin ReadOnly
    BY <2>2, <1>2, <1>3 DEF HoldersOf, Alone
  <2> QED BY <2>1, <2>2
<1>6. a \in Infos
  BY <1>1, <1>3 DEF Infos
<1>7. Alone(a)
  BY <1>2, <1>3 DEF Alone
<1>8. NoneTwice(a)
  BY <1>2, <1>4, <1>5 DEF NoneTwice
<1> QED BY <1>4, <1>5, <1>6, <1>7, <1>8 DEF Good, a

-----------------------------------------------------------------------------
\* What acquireLock() does: the queue becomes longer by one, then the front of it
\* is let in.
LEMMA AcquireStep ==
  ASSUME Inv, NEW t \in Transactions, acquireLock(t)
  PROVE  /\ Inv'
         /\ \E a : /\ a.pending = Append(info.pending, t)
                  /\ HoldersOf(a) = HoldersOf(info)
                  /\ \E n : LetsIn(a, info', n)
<1> DEFINE a == [info EXCEPT !.pending = Append(@, t)]
<1>1. Good(info) /\ info \in Infos /\ t \notin HoldersOf(info)
  BY DEF Inv, Good, acquireLock, Holders, HoldersOf
<1>2. \A k \in 1 .. Len(info.pending) : info.pending[k] # t
  BY DEF acquireLock
<1>3. Good(a) /\ a.pending = Append(info.pending, t) /\ HoldersOf(a) = HoldersOf(info)
  BY <1>1, <1>2, AppendingIsGood
<1>4. info' = processPendingTransactions(a)
  BY DEF acquireLock, Acquired
<1>5. isShuttingDown' \in BOOLEAN
  BY DEF acquireLock, Inv
<1> HIDE DEF a
<1>6. Good(info') /\ \E n : LetsIn(a, info', n)
  BY <1>3, <1>4, ProcessLetsIn DEF Good
<1> QED BY <1>3, <1>5, <1>6 DEF Inv

\* What releaseLock() does: the transaction is no longer among those that run,
\* then the front of the queue is let in.
LEMMA ReleaseStep ==
  ASSUME Inv, NEW t \in Transactions, releaseLock(t)
  PROVE  /\ Inv'
         /\ \E a : /\ a.pending = info.pending
                  /\ HoldersOf(a) = HoldersOf(info) \ {t}
                  /\ \E n : LetsIn(a, info', n)
<1> DEFINE a == IF t \in ReadOnly THEN [info EXCEPT !.activeReads = @ \ {t}]
                                  ELSE [info EXCEPT !.activeWrite = {}]
<1>1. Good(info) /\ info \in Infos
  BY DEF Inv, Good
<1>2. t \in IF t \in ReadOnly THEN info.activeReads ELSE info.activeWrite
  BY DEF releaseLock
<1>3. Good(a) /\ a.pending = info.pending /\ HoldersOf(a) = HoldersOf(info) \ {t}
  BY <1>1, <1>2, RemovingIsGood
<1>4. info' = processPendingTransactions(a)
  BY DEF releaseLock, Released
<1>5. isShuttingDown' \in BOOLEAN
  BY DEF releaseLock, Inv
<1> HIDE DEF a
<1>6. Good(info') /\ \E n : LetsIn(a, info', n)
  BY <1>3, <1>4, ProcessLetsIn DEF Good
<1> QED BY <1>3, <1>5, <1>6 DEF Inv

\* An entry that has just been made is good.
LEMMA EmptyIsGood == Good(EmptyInfo)
<1>1. <<>> \in Seq(Transactions) /\ Len(<<>>) = 0
  BY EmptySeq
<1>2. EmptyInfo \in Infos
  BY <1>1 DEF EmptyInfo, Infos
<1> QED BY <1>1, <1>2 DEF EmptyInfo, Good, Alone, NoneTwice

\* The entry of an origin is good in every state: who runs is compatible, and no
\* transaction is in it twice, through every order of acquireLock(),
\* releaseLock() and shutdown().
THEOREM Invariance == Spec => []Inv
<1>1. Init => Inv
  BY EmptyIsGood DEF Init, Inv
<1>2. Inv /\ [Next]_vars => Inv'
  <2> SUFFICES ASSUME Inv, [Next]_vars PROVE Inv'
    OBVIOUS
  <2>1. ASSUME NEW t \in Transactions, acquireLock(t) PROVE Inv'
    BY <2>1, AcquireStep
  <2>2. ASSUME NEW t \in Transactions, releaseLock(t) PROVE Inv'
    BY <2>2, ReleaseStep
  <2>3. CASE shutdown
    BY <2>3, EmptyIsGood DEF shutdown, Inv
  <2>4. CASE UNCHANGED vars
    BY <2>4 DEF vars, Inv
  <2> QED BY <2>1, <2>2, <2>3, <2>4 DEF Next
<1> QED BY <1>1, <1>2, PTL DEF Spec

\* A write transaction runs while nothing else of its origin runs on this
\* thread: activeWriteTransaction and activeReadTransactions are never both
\* set, and hold transactions of their own kind.
THEOREM WritesRunAlone == Spec => []WriteRunsAlone
<1>1. Inv => WriteRunsAlone
  BY DEF Inv, Good, Alone, WriteRunsAlone
<1> QED BY <1>1, Invariance, PTL

\* Letting in is what the abstract lock does when it admits.
LEMMA LettingInAdmits ==
  ASSUME NEW a, NEW n, LetsIn(a, info', n), Alone(info'), ~ isShuttingDown'
  PROVE  Lock!Admit(a.pending, HoldersOf(a))
<1>1. Holders' = HoldersOf(info')
  BY DEF Holders, HoldersOf
<1>2. Lock!Compatible(HoldersOf(info'))
  BY DEF Alone, HoldersOf, Lock!Compatible
<1> QED BY <1>1, <1>2 DEF LetsIn, Lock!Admit

\* The coordinator is a readers-writer lock that is fair in the order of the
\* requests: processPendingTransactions(), called after every change, lets in
\* exactly the transactions at the front of the queue that may run.
THEOREM CoordinatorIsFairLock == Spec => LockPromise
<1>1. Init => Lock!Init
  BY DEF Init, EmptyInfo, Holders, Lock!Init
<1>2. Inv /\ [Next]_vars => [Lock!Next]_(Lock!vars)
  <2> SUFFICES ASSUME Inv, [Next]_vars PROVE [Lock!Next]_(Lock!vars)
    OBVIOUS
  <2>1. ASSUME NEW t \in Transactions, acquireLock(t) PROVE Lock!Ask(t)
    <3>1. Inv' /\ ~ isShuttingDown /\ ~ isShuttingDown'
      BY <2>1, AcquireStep DEF acquireLock
    <3>2. PICK a : /\ a.pending = Append(info.pending, t)
                   /\ HoldersOf(a) = HoldersOf(info)
                   /\ \E n : LetsIn(a, info', n)
      BY <2>1, AcquireStep
    <3>3. Lock!Admit(a.pending, HoldersOf(a))
      BY <3>1, <3>2, LettingInAdmits DEF Inv, Good
    <3>4. Holders = HoldersOf(info)
      BY DEF Holders, HoldersOf
    <3>5. Lock!Admit(Append(info.pending, t), Holders)
      BY <3>2, <3>3, <3>4
    <3> QED BY <2>1, <3>1, <3>5 DEF acquireLock, Lock!Ask
  <2>2. ASSUME NEW t \in Transactions, releaseLock(t) PROVE Lock!Leave(t)
    <3>1. Inv' /\ ~ isShuttingDown /\ ~ isShuttingDown'
      BY <2>2, ReleaseStep DEF releaseLock
    <3>2. PICK a : /\ a.pending = info.pending
                   /\ HoldersOf(a) = HoldersOf(info) \ {t}
                   /\ \E n : LetsIn(a, info', n)
      BY <2>2, ReleaseStep
    <3>3. Lock!Admit(a.pending, HoldersOf(a))
      BY <3>1, <3>2, LettingInAdmits DEF Inv, Good
    <3>4. Holders = HoldersOf(info) /\ t \in Holders
      BY <2>2 DEF Holders, HoldersOf, releaseLock
    <3>5. Lock!Admit(info.pending, Holders \ {t})
      BY <3>2, <3>3, <3>4
    <3> QED BY <2>2, <3>1, <3>4, <3>5 DEF releaseLock, Lock!Leave
  <2>3. CASE shutdown
    BY <2>3 DEF shutdown, Lock!Next, Lock!Close
  <2>4. CASE UNCHANGED vars
    BY <2>4 DEF vars, Lock!vars, Holders
  <2> QED BY <2>1, <2>2, <2>3, <2>4 DEF Next, Lock!Next
<1> QED BY <1>1, <1>2, Invariance, PTL DEF Spec, LockPromise, Lock!Spec
=============================================================================
