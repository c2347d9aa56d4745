------------------------ MODULE StorageAreaSyncProof ------------------------
(***************************************************************************)
(* Proofs about StorageAreaSync, for any set of keys and values, any limit  *)
(* on the items of one sync and any number of changes, clears, closes and   *)
(* failures.                                                                *)
(***************************************************************************)
EXTENDS StorageAreaSync, TLAPS

Functions == {"performImport", "performSync", "deleteEmptyDatabase", "performTerminate"}
Places == {"idle", "opening", "importing", "imported", "sync", "writing", "synced", "ended"}
Syncing == {"sync", "writing", "synced"}

-----------------------------------------------------------------------------
(* Types.                                                                    *)

(* The part of TypeOK that concerns the queue and the place of the thread.   *)
QueueOK == queue \in Seq(Functions)

DataOK ==
    /\ map \in Items /\ table \in Items
    /\ changedItems \in Changes /\ itemsPendingSync \in Changes /\ items \in Changes

FlagsOK ==
    /\ accessed \in BOOLEAN /\ closeDatabaseTimer \in BOOLEAN /\ itemsCleared \in BOOLEAN
    /\ syncTimer \in BOOLEAN /\ finalSyncScheduled \in BOOLEAN
    /\ clearItemsWhileSyncing \in BOOLEAN /\ syncScheduled \in BOOLEAN
    /\ syncInProgress \in BOOLEAN /\ syncCloseDatabase \in BOOLEAN /\ importComplete \in BOOLEAN
    /\ clearItems \in BOOLEAN /\ isOpen \in BOOLEAN /\ databaseOpenFailed \in BOOLEAN
    /\ fileExists \in BOOLEAN

PlaceOK ==
    /\ pc \in Places
    /\ syncInProgress <=> pc \in Syncing

CountsOK ==
    /\ sudden \in Int
    /\ changes \in [Keys -> Nat]
    /\ clears \in Nat /\ releases \in Nat /\ syncs \in Nat
    /\ lost \subseteq Keys

Types == DataOK /\ FlagsOK /\ QueueOK /\ PlaceOK /\ CountsOK

(* Types is TypeOK, in parts.                                                *)
LEMMA TypeParts == TypeOK <=> Types
BY DEF Types, TypeOK, DataOK, FlagsOK, QueueOK, PlaceOK, CountsOK, Functions, Places, Syncing

(* What performSync() and its relatives leave of the queue.                  *)
LEMMA TailOfQueue ==
    ASSUME NEW q \in Seq(Functions), q # <<>>
    PROVE  /\ Tail(q) \in Seq(Functions)
           /\ Len(q) \in Nat /\ Len(q) > 0
           /\ Len(Tail(q)) = Len(q) - 1
           /\ Head(q) = q[1]
           /\ \A i \in 1..Len(q) - 1 : Tail(q)[i] = q[i + 1]
OBVIOUS

(* What dispatch() makes of the queue.                                       *)
LEMMA Dispatched ==
    ASSUME NEW q \in Seq(Functions), NEW r \in Seq(Functions)
    PROVE  /\ q \o r \in Seq(Functions)
           /\ Len(q) \in Nat /\ Len(r) \in Nat
           /\ Len(q \o r) = Len(q) + Len(r)
           /\ \A i \in 1..Len(q) : (q \o r)[i] = q[i]
           /\ \A i \in 1..Len(r) : (q \o r)[Len(q) + i] = r[i]
OBVIOUS

(* syncTimerFired() keeps the types, whoever calls it.                       *)
LEMMA TimerFiredTypes ==
    ASSUME Types, NEW final \in BOOLEAN, NEW active \in BOOLEAN, NEW count \in Int,
           NEW rest \in Seq(Functions), syncTimerFired(final, active, count, rest)
    PROVE  /\ changedItems' \in Changes /\ itemsPendingSync' \in Changes
           /\ itemsCleared' \in BOOLEAN /\ clearItemsWhileSyncing' \in BOOLEAN
           /\ syncTimer' \in BOOLEAN /\ syncScheduled' \in BOOLEAN
           /\ syncInProgress' = syncInProgress
           /\ sudden' \in Int /\ QueueOK' /\ lost' \subseteq Keys
<1> USE DEF Types
<1>1. CASE syncInProgress /\ ~final /\ syncTimer' = TRUE /\ sudden' = count
           /\ UNCHANGED <<changedItems, itemsCleared, sharedVars, queue, lost>>
  BY <1>1 DEF sharedVars, DataOK, FlagsOK, QueueOK, CountsOK
<1>2. CASE ~(syncInProgress /\ ~final)
  <2>1. PICK batch \in Batches(final) :
          /\ itemsPendingSync' = Moved(batch)
          /\ changedItems' = Remaining(batch)
          /\ lost' = lost \cup IF batch # Changed(changedItems) THEN Overlooked(batch) ELSE {}
          /\ syncTimer' = (active \/ batch # Changed(changedItems))
          /\ sudden' = count + (IF syncScheduled THEN 0 ELSE 1)
                             - (IF batch # Changed(changedItems) THEN 0 ELSE 1)
    BY <1>2 DEF syncTimerFired
  <2>2. /\ itemsCleared' = FALSE
        /\ clearItemsWhileSyncing' = (clearItemsWhileSyncing \/ itemsCleared)
        /\ syncScheduled' = TRUE
        /\ syncInProgress' = syncInProgress
        /\ queue' = queue \o (IF syncScheduled THEN <<>> ELSE <<"performSync">>) \o rest
    BY <1>2 DEF syncTimerFired
  <2>3. changedItems' \in Changes /\ itemsPendingSync' \in Changes
    BY <2>1 DEF DataOK, Changes, Moved, Remaining
  <2>4. lost' \subseteq Keys
    BY <2>1 DEF CountsOK, Overlooked, Changed
  <2>5. sudden' \in Int
    BY <2>1
  <2>6. QueueOK'
    <3>1. <<>> \in Seq(Functions) /\ <<"performSync">> \in Seq(Functions)
      BY DEF Functions
    <3>2. QED BY <2>2, <3>1, Dispatched DEF QueueOK
  <2>7. QED BY <2>1, <2>2, <2>3, <2>4, <2>5, <2>6 DEF FlagsOK
<1>3. QED BY <1>1, <1>2 DEF syncTimerFired

(* Every step keeps the types.                                               *)
LEMMA TypeStep ==
    ASSUME Types, [Next]_vars
    PROVE  Types'
<1> USE DEF Types, DataOK, FlagsOK, PlaceOK, CountsOK
<1>1. CASE UNCHANGED vars
  BY <1>1 DEF vars, mainVars, sharedVars, threadVars, databaseVars, bounds, QueueOK
<1>2. ASSUME NEW k \in Keys, NEW v \in Values \cup {Null}, setItem(k, v) PROVE Types'
  BY <1>2 DEF setItem, scheduleItemForSync, StartTimer, Items, Changes, QueueOK, sharedVars,
     threadVars, databaseVars
<1>3. CASE clear
  BY <1>3 DEF clear, scheduleClear, StartTimer, NoItems, NoChanges, Items, Changes, QueueOK,
     sharedVars, threadVars, databaseVars
<1>4. CASE decrementAccessCount
  <2>1. DataOK'
    BY <1>4 DEF decrementAccessCount, sharedVars, threadVars, databaseVars
  <2>2. FlagsOK'
    BY <1>4 DEF decrementAccessCount, sharedVars, threadVars, databaseVars
  <2>3. QueueOK'
    BY <1>4 DEF decrementAccessCount, sharedVars, threadVars, databaseVars, QueueOK
  <2>4. PlaceOK'
    BY <1>4 DEF decrementAccessCount, sharedVars, threadVars, databaseVars
  <2>5. CountsOK'
    BY <1>4 DEF decrementAccessCount, sharedVars, threadVars, databaseVars
  <2>6. QED BY <2>1, <2>2, <2>3, <2>4, <2>5
<1>5. CASE incrementAccessCount
  BY <1>5, ZenonT(60) DEF incrementAccessCount, QueueOK, sharedVars, threadVars, databaseVars, bounds
<1>6. CASE closeDatabaseTimerFired
  <2>1. DataOK'
    BY <1>6 DEF closeDatabaseTimerFired, scheduleCloseDatabase, StartTimer, sharedVars,
       threadVars, databaseVars, bounds
  <2>2. FlagsOK'
    BY <1>6, ZenonT(60) DEF closeDatabaseTimerFired, scheduleCloseDatabase, StartTimer, sharedVars,
       threadVars, databaseVars, bounds
  <2>3. QueueOK'
    BY <1>6 DEF closeDatabaseTimerFired, scheduleCloseDatabase, StartTimer, sharedVars,
       threadVars, databaseVars, bounds, QueueOK
  <2>4. PlaceOK'
    BY <1>6 DEF closeDatabaseTimerFired, scheduleCloseDatabase, StartTimer, sharedVars,
       threadVars, databaseVars, bounds
  <2>5. CountsOK'
    BY <1>6 DEF closeDatabaseTimerFired, scheduleCloseDatabase, StartTimer, sharedVars,
       threadVars, databaseVars, bounds
  <2>6. QED BY <2>1, <2>2, <2>3, <2>4, <2>5
<1>7. CASE TimerFires
  <2>1. <<>> \in Seq(Functions)
    OBVIOUS
  <2>2. QED BY <1>7, <2>1, TimerFiredTypes, ZenonT(60) DEF TimerFires, threadVars, databaseVars, bounds
<1>8. CASE scheduleSync
  <2>1. <<>> \in Seq(Functions)
    OBVIOUS
  <2>2. syncTimerFired(FALSE, syncTimer, sudden, <<>>)
    BY <1>8 DEF scheduleSync
  <2>3. syncTimer \in BOOLEAN /\ sudden \in Int
    OBVIOUS
  <2>4. /\ changedItems' \in Changes /\ itemsPendingSync' \in Changes
        /\ itemsCleared' \in BOOLEAN /\ clearItemsWhileSyncing' \in BOOLEAN
        /\ syncTimer' \in BOOLEAN /\ syncScheduled' \in BOOLEAN
        /\ syncInProgress' = syncInProgress
        /\ sudden' \in Int /\ QueueOK' /\ lost' \subseteq Keys
    BY <2>1, <2>2, <2>3, TimerFiredTypes
  <2>5. QED BY <1>8, <2>4 DEF scheduleSync, threadVars, databaseVars
<1>9. CASE scheduleFinalSync
  <2>1. <<"deleteEmptyDatabase", "performTerminate">> \in Seq(Functions)
    BY DEF Functions
  <2>2. (IF syncTimer THEN sudden ELSE sudden + 1) \in Int
    OBVIOUS
  <2>3. QED BY <1>9, <2>1, <2>2, TimerFiredTypes, ZenonT(60) DEF scheduleFinalSync, threadVars, databaseVars, bounds
<1>10. ASSUME NEW f, Runs(f) PROVE QueueOK'
  BY <1>10, TailOfQueue DEF Runs, QueueOK
<1>11. CASE performImport
  BY <1>10, <1>11 DEF performImport, Runs, mainVars, sharedVars, databaseVars, bounds, Places, Syncing
<1>12. CASE ImportOpens
  <2>1. DataOK'
    BY <1>12 DEF ImportOpens, openDatabase, mainVars, sharedVars, bounds, Places, Syncing
  <2>2. FlagsOK'
    <3>1. /\ isOpen' \in BOOLEAN /\ fileExists' \in BOOLEAN
          /\ databaseOpenFailed' \in BOOLEAN /\ importComplete' \in BOOLEAN
      BY <1>12 DEF ImportOpens, openDatabase
    <3>2. UNCHANGED <<mainVars, sharedVars, syncCloseDatabase, clearItems>>
      BY <1>12 DEF ImportOpens
    <3>3. QED BY <3>1, <3>2 DEF mainVars, sharedVars
  <2>3. QueueOK'
    BY <1>12 DEF ImportOpens, openDatabase, mainVars, sharedVars, bounds, Places, Syncing,
       QueueOK
  <2>4. PlaceOK'
    BY <1>12 DEF ImportOpens, openDatabase, mainVars, sharedVars, bounds, Places, Syncing
  <2>5. CountsOK'
    BY <1>12 DEF ImportOpens, openDatabase, mainVars, sharedVars, bounds, Places, Syncing
  <2>6. QED BY <2>1, <2>2, <2>3, <2>4, <2>5
<1>13. CASE importItems
  BY <1>13 DEF importItems, Goes, Items, QueueOK, sharedVars, databaseVars, bounds, Places, Syncing
<1>14. CASE markImported
  BY <1>14 DEF markImported, Goes, QueueOK, mainVars, sharedVars, databaseVars, bounds, Places, Syncing
<1>15. CASE performSync
  BY <1>10, <1>15, ZenonT(60) DEF performSync, NoChanges, Changes, mainVars, databaseVars, bounds, Places, Syncing
<1>16. CASE SyncSkips
  <2>1. DataOK'
    BY <1>16 DEF SyncSkips, Goes, Newest, mainVars, sharedVars, databaseVars, bounds, Places,
       Syncing
  <2>2. FlagsOK'
    <3>1. syncCloseDatabase' \in BOOLEAN
      BY <1>16 DEF SyncSkips
    <3>2. UNCHANGED <<mainVars, sharedVars, importComplete, clearItems, databaseVars>>
      BY <1>16 DEF SyncSkips
    <3>3. QED BY <3>1, <3>2 DEF mainVars, sharedVars, databaseVars
  <2>3. QueueOK'
    BY <1>16 DEF SyncSkips, Goes, Newest, mainVars, sharedVars, databaseVars, bounds, Places,
       Syncing, QueueOK
  <2>4. PlaceOK'
    BY <1>16 DEF SyncSkips, Goes, Newest, mainVars, sharedVars, databaseVars, bounds, Places,
       Syncing
  <2>5. CountsOK'
    BY <1>16 DEF SyncSkips, Goes, Newest, mainVars, sharedVars, databaseVars, bounds, Places,
       Syncing
  <2>6. QED BY <2>1, <2>2, <2>3, <2>4, <2>5
<1>17. CASE SyncOpens
  <2>1. DataOK'
    BY <1>17 DEF SyncOpens, openDatabase, Newest, mainVars, sharedVars, bounds, Places, Syncing
  <2>2. FlagsOK'
    BY <1>17, ZenonT(60) DEF SyncOpens, openDatabase, Newest, mainVars, sharedVars, bounds, Places, Syncing
  <2>3. QueueOK'
    BY <1>17 DEF SyncOpens, openDatabase, Newest, mainVars, sharedVars, bounds, Places,
       Syncing, QueueOK
  <2>4. PlaceOK'
    BY <1>17 DEF SyncOpens, openDatabase, Newest, mainVars, sharedVars, bounds, Places, Syncing
  <2>5. CountsOK'
    BY <1>17 DEF SyncOpens, openDatabase, Newest, mainVars, sharedVars, bounds, Places, Syncing
  <2>6. QED BY <2>1, <2>2, <2>3, <2>4, <2>5
<1>18. CASE SyncCloses
  BY <1>18, ZenonT(60) DEF SyncCloses, Goes, Newest, QueueOK, mainVars, sharedVars, bounds, Places, Syncing
<1>19. CASE SyncWrites
  <2>1. \A done \in SUBSET Changed(items) : Written(done) \in Items
    BY DEF Written, Items, Changes, Changed
  <2>2. table' \in Items /\ lost' \subseteq Keys
    BY <1>19, <2>1 DEF SyncWrites, Newest
  <2>3. QED BY <1>19, <2>2 DEF SyncWrites, Goes, QueueOK, mainVars, sharedVars, bounds, Places, Syncing
<1>20. CASE SyncEnds
  <2>1. DataOK'
    BY <1>20 DEF SyncEnds, Goes, NoChanges, Changes, mainVars, databaseVars, bounds, Places,
       Syncing
  <2>2. FlagsOK'
    BY <1>20, ZenonT(60) DEF SyncEnds, Goes, NoChanges, Changes, mainVars, databaseVars, bounds, Places,
       Syncing
  <2>3. QueueOK'
    BY <1>20 DEF SyncEnds, Goes, NoChanges, Changes, mainVars, databaseVars, bounds, Places,
       Syncing, QueueOK
  <2>4. PlaceOK'
    BY <1>20 DEF SyncEnds, Goes, NoChanges, Changes, mainVars, databaseVars, bounds, Places,
       Syncing
  <2>5. CountsOK'
    BY <1>20 DEF SyncEnds, Goes, NoChanges, Changes, mainVars, databaseVars, bounds, Places,
       Syncing
  <2>6. QED BY <2>1, <2>2, <2>3, <2>4, <2>5
<1>21. CASE deleteEmptyDatabase
  <2>1. DataOK'
    BY <1>10, <1>21, BoundAssumption DEF deleteEmptyDatabase, mainVars, sharedVars, threadVars,
       bounds
  <2>2. FlagsOK'
    <3>1. isOpen' \in BOOLEAN /\ fileExists' \in BOOLEAN
      BY <1>21, BoundAssumption DEF deleteEmptyDatabase
    <3>2. UNCHANGED <<mainVars, sharedVars, syncCloseDatabase, importComplete, threadVars, databaseOpenFailed>>
      BY <1>21 DEF deleteEmptyDatabase
    <3>3. QED BY <3>1, <3>2 DEF mainVars, sharedVars, threadVars
  <2>3. QueueOK'
    BY <1>10, <1>21, BoundAssumption DEF deleteEmptyDatabase, mainVars, sharedVars, threadVars,
       bounds, QueueOK
  <2>4. PlaceOK'
    BY <1>10, <1>21, BoundAssumption DEF deleteEmptyDatabase, mainVars, sharedVars, threadVars,
       bounds
  <2>5. CountsOK'
    BY <1>10, <1>21, BoundAssumption DEF deleteEmptyDatabase, mainVars, sharedVars, threadVars,
       bounds
  <2>6. QED BY <2>1, <2>2, <2>3, <2>4, <2>5
<1>22. CASE performTerminate
  BY <1>10, <1>22 DEF performTerminate, Runs, mainVars, sharedVars, databaseVars, bounds, Places, Syncing
<1>23. QED
  BY <1>1, <1>2, <1>3, <1>4, <1>5, <1>6, <1>7, <1>8, <1>9, <1>11, <1>12, <1>13, <1>14, <1>15, <1>16,
     <1>17, <1>18, <1>19, <1>20, <1>21, <1>22 DEF Next, MainThread, Timers, threadEntryPoint

(* They hold initially.                                                      *)
LEMMA TypeInit == Init => Types
<1> SUFFICES ASSUME Init PROVE Types
  OBVIOUS
<1>1. DataOK
  BY DEF Init, DataOK, NoItems, NoChanges, Items, Changes
<1>2. FlagsOK
  BY DEF Init, FlagsOK
<1>3. QueueOK
  BY DEF Init, QueueOK, Functions
<1>4. PlaceOK
  BY DEF Init, PlaceOK, Places, Syncing
<1>5. CountsOK
  BY DEF Init, CountsOK
<1>6. QED BY <1>1, <1>2, <1>3, <1>4, <1>5 DEF Types

-----------------------------------------------------------------------------
(* The inductive invariant.                                                  *)

(* The thread holds changes only while it syncs.                             *)
HeldWhileSyncing ==
    pc \notin Syncing => items = NoChanges /\ clearItems = FALSE

(* Until the import is complete nothing else happens, and at its end the map *)
(* is what the database has.                                                 *)
NothingBeforeImport ==
    ~importComplete =>
        /\ queue \in {<<>>, <<"performImport">>}
        /\ pc \in {"idle", "opening", "importing", "imported"}
        /\ changedItems = NoChanges /\ itemsCleared = FALSE
        /\ itemsPendingSync = NoChanges /\ clearItemsWhileSyncing = FALSE
        /\ syncTimer = FALSE
        /\ pc # "imported" => map = NoItems
        /\ pc = "imported" => \A k \in Keys \ lost : map[k] = table[k]

(* There are no rows without a file, and the thread writes to an open        *)
(* database.                                                                 *)
RowsInFile ==
    /\ isOpen => fileExists
    /\ ~fileExists => table = NoItems
    /\ pc = "writing" => isOpen

(* Changes wait only for a timer that runs, ...                              *)
ChangesHaveTimer == ~syncTimer => changedItems = NoChanges /\ itemsCleared = FALSE

(* ... and pending items only for a sync that is in the queue, once.         *)
PendingHaveSync == ~syncScheduled => itemsPendingSync = NoChanges /\ clearItemsWhileSyncing = FALSE

ScheduledOnce ==
    /\ syncScheduled <=> \E i \in 1..Len(queue) : queue[i] = "performSync"
    /\ \A i, j \in 1..Len(queue) : queue[i] = "performSync" /\ queue[j] = "performSync" => i = j

One(condition) == IF condition THEN 1 ELSE 0

(* Sudden termination is disabled for a timer, a scheduled sync and a sync   *)
(* in progress, once each, but for the requests to sync at once.             *)
DisabledOften == sudden + syncs >= One(syncTimer) + One(syncScheduled) + One(syncInProgress)

(* What the layers say of a key, from the newest to the database.            *)
Row(k) ==
    IF pc = "synced" THEN table[k]
    ELSE IF items[k] # Unchanged THEN items[k]
    ELSE IF clearItems THEN Null ELSE table[k]

Pending(k) ==
    IF itemsPendingSync[k] # Unchanged THEN itemsPendingSync[k]
    ELSE IF clearItemsWhileSyncing THEN Null ELSE Row(k)

Newer(k) ==
    IF changedItems[k] # Unchanged THEN changedItems[k]
    ELSE IF itemsCleared THEN Null ELSE Pending(k)

Layers == importComplete => \A k \in Keys \ lost : map[k] = Newer(k)

Inv ==
    /\ Types
    /\ HeldWhileSyncing
    /\ NothingBeforeImport
    /\ RowsInFile
    /\ ChangesHaveTimer
    /\ PendingHaveSync
    /\ ScheduledOnce
    /\ DisabledOften
    /\ Layers

(* Layers is LayersAddUp.                                                    *)
LEMMA LayersParts == Layers <=> LayersAddUp
BY DEF Layers, LayersAddUp, Newer, Pending, Row, Rows, Apply

(* The main thread leaves the storage thread's state alone.                  *)
LEMMA MainLeaves ==
    ASSUME MainThread \/ Timers \/ UNCHANGED vars
    PROVE  UNCHANGED <<threadVars, databaseVars, importComplete>>
BY DEF MainThread, Timers, vars, setItem, clear, decrementAccessCount, incrementAccessCount, scheduleSync,
   scheduleFinalSync, TimerFires, closeDatabaseTimerFired

(* The storage thread leaves the main thread's state alone, but for the map. *)
LEMMA ThreadLeaves ==
    ASSUME threadEntryPoint
    PROVE  UNCHANGED <<changedItems, itemsCleared, syncTimer, finalSyncScheduled, syncs>>
BY DEF threadEntryPoint, mainVars, bounds, performImport, ImportOpens, importItems, markImported, performSync,
   SyncSkips, SyncOpens, SyncCloses, SyncWrites, SyncEnds, deleteEmptyDatabase, performTerminate

(* What the thread held it has dropped when it leaves performSync().         *)
LEMMA HeldStep ==
    ASSUME Inv, [Next]_vars
    PROVE  HeldWhileSyncing'
<1> USE DEF HeldWhileSyncing, Syncing
<1>0. HeldWhileSyncing
  BY DEF Inv
<1>1. CASE MainThread \/ Timers \/ UNCHANGED vars
  BY <1>0, <1>1, MainLeaves DEF threadVars
<1>2. CASE performImport \/ ImportOpens \/ importItems \/ markImported
  BY <1>0, <1>2 DEF performImport, Runs, ImportOpens, importItems, markImported, Goes
<1>3. CASE performSync
  BY <1>3 DEF performSync
<1>4. CASE SyncSkips \/ SyncOpens \/ SyncCloses \/ SyncWrites
  BY <1>4 DEF SyncSkips, SyncOpens, SyncCloses, SyncWrites, Goes
<1>5. CASE SyncEnds
  BY <1>5 DEF SyncEnds
<1>6. CASE deleteEmptyDatabase \/ performTerminate
  BY <1>0, <1>6 DEF deleteEmptyDatabase, performTerminate, Runs, threadVars
<1>7. QED
  BY <1>1, <1>2, <1>3, <1>4, <1>5, <1>6 DEF Next, threadEntryPoint

(* A file with rows stays, and writing happens in an open database.          *)
LEMMA RowsStep ==
    ASSUME Inv, [Next]_vars
    PROVE  RowsInFile'
<1> USE DEF RowsInFile
<1>0. RowsInFile /\ isOpen \in BOOLEAN /\ fileExists \in BOOLEAN
  BY DEF Inv, Types, FlagsOK
<1>1. CASE MainThread \/ Timers \/ UNCHANGED vars
  BY <1>0, <1>1, MainLeaves DEF threadVars, databaseVars
<1>2. CASE performImport \/ importItems \/ markImported \/ performSync \/ SyncEnds \/ performTerminate
  BY <1>0, <1>2 DEF performImport, importItems, markImported, performSync, SyncEnds, performTerminate, Goes,
     databaseVars
<1>3. CASE ImportOpens
  BY <1>0, <1>3 DEF ImportOpens, openDatabase
<1>4. CASE SyncSkips
  BY <1>0, <1>4 DEF SyncSkips, Goes, databaseVars
<1>5. CASE SyncOpens
  BY <1>0, <1>5 DEF SyncOpens, openDatabase
<1>6. CASE SyncCloses
  BY <1>0, <1>6 DEF SyncCloses, Goes
<1>7. CASE SyncWrites
  BY <1>0, <1>7 DEF SyncWrites, Goes
<1>8. CASE deleteEmptyDatabase
  <2>1. pc' = "idle" /\ table' = table
    BY <1>8 DEF deleteEmptyDatabase, Runs, threadVars
  <2>2. \/ isOpen' = FALSE /\ table = NoItems
        \/ UNCHANGED <<isOpen, fileExists>>
    BY <1>8 DEF deleteEmptyDatabase
  <2>3. CASE isOpen' = FALSE /\ table = NoItems
    BY <2>1, <2>3
  <2>4. CASE UNCHANGED <<isOpen, fileExists>>
    BY <1>0, <2>1, <2>4
  <2>5. QED BY <2>2, <2>3, <2>4
<1>9. QED
  BY <1>1, <1>2, <1>3, <1>4, <1>5, <1>6, <1>7, <1>8 DEF Next, threadEntryPoint

(* The two ways of syncTimerFired().                                         *)
LEMMA TimerFiredCases ==
    ASSUME NEW final, NEW active, NEW count, NEW rest, syncTimerFired(final, active, count, rest)
    PROVE  \/ /\ syncInProgress /\ ~final /\ syncTimer' = TRUE /\ sudden' = count
              /\ UNCHANGED <<changedItems, itemsCleared, sharedVars, queue, lost>>
           \/ /\ itemsCleared' = FALSE
              /\ clearItemsWhileSyncing' = (clearItemsWhileSyncing \/ itemsCleared)
              /\ syncScheduled' = TRUE
              /\ syncInProgress' = syncInProgress
              /\ queue' = queue \o (IF syncScheduled THEN <<>> ELSE <<"performSync">>) \o rest
              /\ \E batch \in SUBSET Changed(changedItems) :
                    /\ itemsPendingSync' = Moved(batch)
                    /\ changedItems' = Remaining(batch)
                    /\ lost' = lost \cup IF batch # Changed(changedItems) THEN Overlooked(batch) ELSE {}
                    /\ syncTimer' = (active \/ batch # Changed(changedItems))
                    /\ sudden' = count + (IF syncScheduled THEN 0 ELSE 1)
                                       - (IF batch # Changed(changedItems) THEN 0 ELSE 1)
<1>1. Batches(final) \subseteq SUBSET Changed(changedItems)
  BY DEF Batches
<1>2. QED BY <1>1 DEF syncTimerFired

(* The three callers of syncTimerFired(), and what each passes.              *)
FiresTimer ==
    \/ syncTimer /\ syncTimerFired(FALSE, FALSE, sudden, <<>>) /\ UNCHANGED <<syncs, map>>
    \/ syncTimerFired(FALSE, syncTimer, sudden, <<>>) /\ syncs' = syncs + 1 /\ UNCHANGED map
    \/ /\ syncTimerFired(TRUE, FALSE, IF syncTimer THEN sudden ELSE sudden + 1,
                         <<"deleteEmptyDatabase", "performTerminate">>)
       /\ UNCHANGED <<syncs, map>>

(* They are the only ones.                                                   *)
LEMMA FiresTimerSteps ==
    ASSUME TimerFires \/ scheduleSync \/ scheduleFinalSync
    PROVE  FiresTimer
BY DEF TimerFires, scheduleSync, scheduleFinalSync, FiresTimer, bounds

(* The timer runs until all changes are pending.                             *)
LEMMA TimerStep ==
    ASSUME Inv, [Next]_vars
    PROVE  ChangesHaveTimer'
<1> USE DEF ChangesHaveTimer
<1>0. ChangesHaveTimer /\ Types
  BY DEF Inv
<1>1. CASE threadEntryPoint \/ UNCHANGED vars
  BY <1>0, <1>1, ThreadLeaves DEF vars, mainVars
<1>2. CASE TimerFires \/ scheduleSync \/ scheduleFinalSync
  <2>1. ASSUME NEW final, NEW active, NEW count, NEW rest, syncTimerFired(final, active, count, rest)
        PROVE  ChangesHaveTimer'
    <3>1. Remaining(Changed(changedItems)) = NoChanges
      BY DEF Remaining, NoChanges
    <3>2. QED BY <2>1, <3>1, TimerFiredCases
  <2>2. QED BY <1>2, <2>1 DEF TimerFires, scheduleSync, scheduleFinalSync
<1>3. CASE \E k \in Keys, v \in Values \cup {Null} : setItem(k, v)
  BY <1>3 DEF setItem, scheduleItemForSync, StartTimer
<1>4. CASE clear
  BY <1>4 DEF clear, scheduleClear, StartTimer
<1>5. CASE decrementAccessCount \/ incrementAccessCount
  BY <1>0, <1>5 DEF decrementAccessCount, incrementAccessCount
<1>6. CASE closeDatabaseTimerFired
  BY <1>0, <1>6 DEF closeDatabaseTimerFired, scheduleCloseDatabase, StartTimer
<1>7. QED
  BY <1>1, <1>2, <1>3, <1>4, <1>5, <1>6 DEF Next, MainThread, Timers

(* What is pending is in the queue to be written.                            *)
LEMMA PendingStep ==
    ASSUME Inv, [Next]_vars
    PROVE  PendingHaveSync'
<1> USE DEF PendingHaveSync
<1>0. PendingHaveSync /\ Types
  BY DEF Inv
<1>1. CASE TimerFires \/ scheduleSync \/ scheduleFinalSync
  <2>1. ASSUME NEW final, NEW active, NEW count, NEW rest, syncTimerFired(final, active, count, rest)
        PROVE  PendingHaveSync'
    BY <1>0, <2>1, TimerFiredCases DEF sharedVars
  <2>2. QED BY <1>1, <2>1 DEF TimerFires, scheduleSync, scheduleFinalSync
<1>2. CASE performSync
  BY <1>2 DEF performSync
<1>3. CASE ~(TimerFires \/ scheduleSync \/ scheduleFinalSync \/ performSync)
  <2>1. UNCHANGED <<syncScheduled, itemsPendingSync, clearItemsWhileSyncing>>
    BY <1>3 DEF Next, MainThread, Timers, threadEntryPoint, vars, sharedVars, setItem, clear,
       decrementAccessCount, incrementAccessCount, closeDatabaseTimerFired, performImport, ImportOpens,
       importItems, markImported, SyncSkips, SyncOpens, SyncCloses, SyncWrites, SyncEnds,
       deleteEmptyDatabase, performTerminate
  <2>2. QED BY <1>0, <2>1
<1>4. QED BY <1>1, <1>2, <1>3

(* A sync is in the queue when it is scheduled, and never twice.             *)
LEMMA ScheduledStep ==
    ASSUME Inv, [Next]_vars
    PROVE  ScheduledOnce'
<1>0. ScheduledOnce /\ QueueOK /\ syncScheduled \in BOOLEAN
  BY DEF Inv, Types, FlagsOK
<1>1. CASE TimerFires \/ scheduleSync \/ scheduleFinalSync
  <2>1. ASSUME NEW rest \in Seq(Functions),
               \A i \in 1..Len(rest) : rest[i] # "performSync",
               NEW final, NEW active, NEW count, syncTimerFired(final, active, count, rest)
        PROVE  ScheduledOnce'
    <3> DEFINE sync == IF syncScheduled THEN <<>> ELSE <<"performSync">>
               q == queue \o sync
    <3>1. CASE UNCHANGED <<queue, syncScheduled>>
      BY <1>0, <3>1 DEF ScheduledOnce
    <3>2. CASE syncScheduled' = TRUE /\ queue' = q \o rest
      <4>1. /\ sync \in Seq(Functions)
            /\ Len(sync) \in Nat
            /\ syncScheduled => Len(sync) = 0
            /\ ~syncScheduled => Len(sync) = 1 /\ sync[1] = "performSync"
        <5>1. CASE syncScheduled
          <6>1. sync = <<>>
            BY <5>1
          <6> HIDE DEF sync
          <6>2. QED BY <5>1, <6>1
        <5>2. CASE ~syncScheduled
          <6>1. sync = <<"performSync">> /\ "performSync" \in Functions
            BY <5>2 DEF Functions
          <6> HIDE DEF sync
          <6>2. QED BY <5>2, <6>1
        <5>3. QED BY <5>1, <5>2
      <4> HIDE DEF sync
      <4>2. /\ q \in Seq(Functions)
            /\ Len(queue) \in Nat /\ Len(q) = Len(queue) + Len(sync)
            /\ \A i \in 1..Len(queue) : q[i] = queue[i]
            /\ \A i \in 1..Len(sync) : q[Len(queue) + i] = sync[i]
        BY <1>0, <4>1, Dispatched DEF QueueOK
      <4> HIDE DEF q
      <4>3. /\ Len(q) \in Nat /\ Len(rest) \in Nat
            /\ Len(q \o rest) = Len(q) + Len(rest)
            /\ \A i \in 1..Len(q) : (q \o rest)[i] = q[i]
            /\ \A i \in 1..Len(rest) : (q \o rest)[Len(q) + i] = rest[i]
        BY <2>1, <4>2, Dispatched
      <4>4. PICK n \in 1..Len(q) : \A i \in 1..Len(q) : q[i] = "performSync" <=> i = n
        <5>1. CASE syncScheduled
          <6>1. PICK n \in 1..Len(queue) : queue[n] = "performSync"
            BY <1>0, <5>1 DEF ScheduledOnce
          <6>2. Len(q) = Len(queue)
            BY <4>1, <4>2, <5>1
          <6>3. \A i \in 1..Len(q) : q[i] = "performSync" <=> i = n
            BY <1>0, <4>2, <6>1, <6>2 DEF ScheduledOnce
          <6>4. QED BY <6>1, <6>2, <6>3
        <5>2. CASE ~syncScheduled
          <6>0. Len(sync) = 1 /\ sync[1] = "performSync" /\ Len(q) = Len(queue) + 1
            BY <4>1, <4>2, <5>2
          <6>1. Len(q) \in 1..Len(q) /\ q[Len(q)] = "performSync"
            BY <4>2, <6>0
          <6>2. ASSUME NEW i \in 1..Len(q), i # Len(q)
                PROVE  q[i] # "performSync"
            <7>1. i \in 1..Len(queue)
              BY <4>2, <6>0, <6>2
            <7>2. queue[i] # "performSync"
              BY <1>0, <5>2, <7>1 DEF ScheduledOnce
            <7>3. QED BY <4>2, <7>1, <7>2
          <6>3. QED BY <6>1, <6>2
        <5>3. QED BY <5>1, <5>2
      <4>5. \A i \in 1..Len(queue') : queue'[i] = "performSync" <=> i = n
        <5>1. SUFFICES ASSUME NEW i \in 1..Len(q \o rest)
                       PROVE  (q \o rest)[i] = "performSync" <=> i = n
          BY <3>2
        <5>2. CASE i \in 1..Len(q)
          BY <4>3, <4>4, <5>2
        <5>3. CASE i \notin 1..Len(q)
          <6>1. i - Len(q) \in 1..Len(rest) /\ i = Len(q) + (i - Len(q))
            BY <4>3, <5>3
          <6>2. QED BY <2>1, <4>3, <4>4, <6>1, <5>3
        <5>4. QED BY <5>2, <5>3
      <4>6. n \in 1..Len(queue')
        BY <3>2, <4>3, <4>4
      <4>7. QED BY <3>2, <4>5, <4>6 DEF ScheduledOnce
    <3>3. QED BY <2>1, <3>1, <3>2, TimerFiredCases DEF sharedVars
  <2>2. /\ <<>> \in Seq(Functions) /\ \A i \in 1..Len(<<>>) : <<>>[i] # "performSync"
    OBVIOUS
  <2>3. LET r == <<"deleteEmptyDatabase", "performTerminate">>
        IN  r \in Seq(Functions) /\ \A i \in 1..Len(r) : r[i] # "performSync"
    BY DEF Functions
  <2>4. QED BY <1>1, <2>1, <2>2, <2>3 DEF TimerFires, scheduleSync, scheduleFinalSync
<1>2. ASSUME NEW f, Runs(f) PROVE
        /\ Len(queue) \in Nat /\ Len(queue) > 0 /\ queue[1] = f
        /\ Len(queue') = Len(queue) - 1
        /\ \A i \in 1..Len(queue) - 1 : queue'[i] = queue[i + 1]
  BY <1>0, <1>2, TailOfQueue DEF Runs, QueueOK
<1>3. CASE performSync
  BY <1>0, <1>2, <1>3 DEF performSync, ScheduledOnce
<1>4. CASE performImport \/ deleteEmptyDatabase \/ performTerminate
  <2>1. PICK f \in Functions \ {"performSync"} : Runs(f)
    <3>1. \E f \in {"performImport", "deleteEmptyDatabase", "performTerminate"} : Runs(f)
      BY <1>4 DEF performImport, deleteEmptyDatabase, performTerminate
    <3>2. {"performImport", "deleteEmptyDatabase", "performTerminate"} \subseteq Functions \ {"performSync"}
      BY DEF Functions
    <3>3. QED BY <3>1, <3>2
  <2>2. syncScheduled' = syncScheduled
    BY <1>4 DEF performImport, deleteEmptyDatabase, performTerminate, sharedVars
  <2>3. (\E i \in 1..Len(queue) : queue[i] = "performSync") <=> \E i \in 1..Len(queue') : queue'[i] = "performSync"
    <3>1. ASSUME NEW i \in 1..Len(queue), queue[i] = "performSync"
          PROVE  i - 1 \in 1..Len(queue') /\ queue'[i - 1] = "performSync"
      BY <1>2, <2>1, <3>1
    <3>2. ASSUME NEW i \in 1..Len(queue'), queue'[i] = "performSync"
          PROVE  i + 1 \in 1..Len(queue) /\ queue[i + 1] = "performSync"
      BY <1>2, <2>1, <3>2
    <3>3. QED BY <3>1, <3>2
  <2>4. ASSUME NEW i \in 1..Len(queue'), NEW j \in 1..Len(queue'),
               queue'[i] = "performSync", queue'[j] = "performSync"
        PROVE  i = j
    <3>1. /\ i + 1 \in 1..Len(queue) /\ queue[i + 1] = "performSync"
          /\ j + 1 \in 1..Len(queue) /\ queue[j + 1] = "performSync"
      BY <1>2, <2>1, <2>4
    <3>2. i + 1 = j + 1
      BY <1>0, <3>1 DEF ScheduledOnce
    <3>3. QED BY <3>2
  <2>5. QED BY <1>0, <2>2, <2>3, <2>4 DEF ScheduledOnce
<1>5. CASE ~(TimerFires \/ scheduleSync \/ scheduleFinalSync \/ performSync \/ performImport
             \/ deleteEmptyDatabase \/ performTerminate)
  <2>1. UNCHANGED <<syncScheduled, queue>>
    BY <1>5 DEF Next, MainThread, Timers, threadEntryPoint, vars, sharedVars, setItem, clear,
       decrementAccessCount, incrementAccessCount, closeDatabaseTimerFired, ImportOpens,
       importItems, markImported, SyncSkips, SyncOpens, SyncCloses, SyncWrites, SyncEnds
  <2>2. QED BY <1>0, <2>1 DEF ScheduledOnce
<1>6. QED BY <1>1, <1>3, <1>4, <1>5

(* The import comes first.                                                   *)
LEMMA ImportStep ==
    ASSUME Inv, [Next]_vars
    PROVE  NothingBeforeImport'
<1> SUFFICES ASSUME ~importComplete'
             PROVE  NothingBeforeImport'
  BY DEF NothingBeforeImport
<1>1. ~importComplete
  <2>1. CASE MainThread \/ Timers \/ UNCHANGED vars
    BY <2>1, MainLeaves
  <2>2. CASE threadEntryPoint
    BY <2>2 DEF threadEntryPoint, performImport, ImportOpens, openDatabase, importItems, markImported,
       performSync, SyncSkips, SyncOpens, SyncCloses, SyncWrites, SyncEnds, deleteEmptyDatabase,
       performTerminate
  <2>3. QED BY <2>1, <2>2 DEF Next
<1>2. /\ queue \in {<<>>, <<"performImport">>}
      /\ pc \in {"idle", "opening", "importing", "imported"}
      /\ changedItems = NoChanges /\ itemsCleared = FALSE
      /\ itemsPendingSync = NoChanges /\ clearItemsWhileSyncing = FALSE
      /\ syncTimer = FALSE
      /\ pc # "imported" => map = NoItems
      /\ pc = "imported" => \A k \in Keys \ lost : map[k] = table[k]
  BY <1>1 DEF Inv, NothingBeforeImport
<1>3. CASE decrementAccessCount \/ incrementAccessCount \/ UNCHANGED vars
  BY <1>2, <1>3 DEF decrementAccessCount, incrementAccessCount, vars, mainVars, sharedVars, threadVars,
     databaseVars, NothingBeforeImport
<1>4. ASSUME NEW f, Runs(f) PROVE f = "performImport" /\ queue' = <<>> /\ pc = "idle"
  BY <1>2, <1>4, SMTT(30) DEF Runs
<1>5. CASE performImport
  <2>1. fileExists \/ table = NoItems
    BY DEF Inv, RowsInFile
  <2>2. /\ queue' = <<>> /\ pc' \in {"opening", "imported"} /\ map = NoItems
        /\ pc' = "imported" => table = NoItems
    BY <1>2, <1>4, <1>5, <2>1 DEF performImport
  <2>3. QED BY <1>2, <1>5, <2>2 DEF performImport, mainVars, sharedVars, databaseVars, NothingBeforeImport
<1>6. CASE ImportOpens
  BY <1>2, <1>6 DEF ImportOpens, openDatabase, mainVars, sharedVars, NothingBeforeImport
<1>7. CASE importItems
  <2>1. pc = "importing" /\ pc' = "imported" /\ map = NoItems /\ table' = table
    BY <1>2, <1>7 DEF importItems, Goes, databaseVars
  <2>2. \A k \in Keys \ lost' : map'[k] = table'[k]
    BY <1>7, <2>1 DEF importItems, NoItems
  <2>3. QED BY <1>2, <1>7, <2>1, <2>2 DEF importItems, sharedVars, NothingBeforeImport
<1>8. QED
  <2>1. ~Ready /\ ~TimerFires
    BY <1>1, <1>2 DEF Ready, TimerFires
  <2>2. /\ \A k \in Keys, v \in Values \cup {Null} : ~setItem(k, v)
        /\ ~clear /\ ~scheduleSync /\ ~scheduleFinalSync /\ ~closeDatabaseTimerFired
    BY <2>1 DEF setItem, clear, scheduleSync, scheduleFinalSync, closeDatabaseTimerFired
  <2>3. ~performSync /\ ~deleteEmptyDatabase /\ ~performTerminate
    <3>1. ~Runs("performSync") /\ ~Runs("deleteEmptyDatabase") /\ ~Runs("performTerminate")
      BY <1>2 DEF Runs
    <3>2. QED BY <3>1 DEF performSync, deleteEmptyDatabase, performTerminate
  <2>4. ~SyncSkips /\ ~SyncOpens /\ ~SyncCloses /\ ~SyncWrites /\ ~SyncEnds
    BY <1>2 DEF SyncSkips, SyncOpens, SyncCloses, SyncWrites, SyncEnds, Goes
  <2>5. ~markImported
    BY DEF markImported
  <2>6. QED BY <1>3, <1>5, <1>6, <1>7, <2>1, <2>2, <2>3, <2>4, <2>5
            DEF Next, MainThread, Timers, threadEntryPoint

(* Sudden termination stays disabled as often as there is a reason.          *)
LEMMA SuddenStep ==
    ASSUME Inv, [Next]_vars
    PROVE  DisabledOften'
<1>0. /\ DisabledOften
      /\ sudden \in Int /\ syncs \in Nat
      /\ syncTimer \in BOOLEAN /\ syncScheduled \in BOOLEAN /\ syncInProgress \in BOOLEAN
  BY DEF Inv, Types, CountsOK, FlagsOK
<1>1. CASE StartTimer /\ UNCHANGED <<syncs, syncScheduled, syncInProgress>>
  BY <1>0, <1>1 DEF StartTimer, DisabledOften, One
<1>2. CASE UNCHANGED <<sudden, syncs, syncTimer, syncScheduled, syncInProgress>>
  BY <1>0, <1>2 DEF DisabledOften, One
<1>3. CASE FiresTimer
  <2>1. ASSUME NEW final \in BOOLEAN, NEW active \in BOOLEAN, NEW count \in Int, NEW rest,
               syncTimerFired(final, active, count, rest),
               syncs' \in Nat,
               count + syncs' >= 1 + One(active) + One(syncScheduled) + One(syncInProgress)
        PROVE  DisabledOften'
    <3>0. \A c \in BOOLEAN : One(c) \in Int /\ 0 <= One(c) /\ One(c) <= 1
      BY DEF One
    <3>1. CASE syncTimer' = TRUE /\ sudden' = count /\ UNCHANGED sharedVars
      <4>1. One(syncTimer') = 1 /\ syncScheduled' = syncScheduled /\ syncInProgress' = syncInProgress
        BY <3>1 DEF One, sharedVars
      <4>2. QED BY <1>0, <2>1, <3>0, <3>1, <4>1 DEF DisabledOften
    <3>2. CASE ~(syncTimer' = TRUE /\ sudden' = count /\ UNCHANGED sharedVars)
      <4>1. PICK batch \in SUBSET Changed(changedItems) :
              /\ itemsPendingSync' = Moved(batch)
              /\ changedItems' = Remaining(batch)
              /\ lost' = lost \cup IF batch # Changed(changedItems) THEN Overlooked(batch) ELSE {}
              /\ syncTimer' = (active \/ batch # Changed(changedItems))
              /\ sudden' = count + (IF syncScheduled THEN 0 ELSE 1)
                                 - (IF batch # Changed(changedItems) THEN 0 ELSE 1)
        BY <2>1, <3>2, TimerFiredCases
      <4>2. syncScheduled' = TRUE /\ syncInProgress' = syncInProgress
        BY <2>1, <3>2, TimerFiredCases
      <4> DEFINE partialSync == batch # Changed(changedItems)
      <4>3. /\ sudden' = count + (1 - One(syncScheduled)) - (1 - One(partialSync))
            /\ One(syncTimer') <= One(active) + One(partialSync)
            /\ One(syncScheduled') = 1
        BY <1>0, <2>1, <4>1, <4>2 DEF One
      <4>4. One(partialSync) \in Int /\ One(syncTimer') \in Int
        BY <4>1 DEF One
      <4> HIDE DEF partialSync
      <4>5. QED BY <1>0, <2>1, <3>0, <4>2, <4>3, <4>4 DEF DisabledOften
    <3>3. QED BY <3>1, <3>2
  <2>2. CASE syncTimer /\ syncTimerFired(FALSE, FALSE, sudden, <<>>) /\ UNCHANGED <<syncs, map>>
    <3>1. sudden + syncs' >= 1 + One(FALSE) + One(syncScheduled) + One(syncInProgress)
      BY <1>0, <2>2 DEF DisabledOften, One
    <3>2. QED BY <1>0, <2>1, <2>2, <3>1
  <2>3. CASE syncTimerFired(FALSE, syncTimer, sudden, <<>>) /\ syncs' = syncs + 1 /\ UNCHANGED map
    <3>1. sudden + syncs' >= 1 + One(syncTimer) + One(syncScheduled) + One(syncInProgress)
      BY <1>0, <2>3 DEF DisabledOften, One
    <3>2. syncs' \in Nat
      BY <1>0, <2>3
    <3>3. syncTimerFired(FALSE, syncTimer, sudden, <<>>)
      BY <2>3
    <3>4. QED BY <1>0, <2>1, <3>1, <3>2, <3>3
  <2>4. CASE /\ syncTimerFired(TRUE, FALSE, IF syncTimer THEN sudden ELSE sudden + 1,
                               <<"deleteEmptyDatabase", "performTerminate">>)
             /\ UNCHANGED <<syncs, map>>
    <3> DEFINE count == IF syncTimer THEN sudden ELSE sudden + 1
    <3>1. count \in Int /\ count + syncs' >= 1 + One(FALSE) + One(syncScheduled) + One(syncInProgress)
      BY <1>0, <2>4 DEF DisabledOften, One
    <3> HIDE DEF count
    <3>2. syncTimerFired(TRUE, FALSE, count, <<"deleteEmptyDatabase", "performTerminate">>)
      BY <2>4 DEF count
    <3>3. QED BY <1>0, <2>1, <2>4, <3>1, <3>2
  <2>5. QED BY <1>3, <2>2, <2>3, <2>4 DEF FiresTimer
<1>4. CASE performSync
  <2>1. syncScheduled
    <3>1. queue \in Seq(Functions) /\ queue # <<>> /\ Head(queue) = "performSync"
      BY <1>4 DEF performSync, Runs, Inv, Types, QueueOK
    <3>2. 1 \in 1..Len(queue) /\ queue[1] = "performSync"
      BY <3>1, TailOfQueue
    <3>3. QED BY <3>2 DEF Inv, ScheduledOnce
  <2>2. /\ UNCHANGED <<sudden, syncs, syncTimer>>
        /\ syncScheduled' = FALSE /\ syncInProgress' = TRUE /\ ~syncInProgress
    BY <1>4 DEF performSync, Runs, mainVars, bounds, Inv, Types, PlaceOK, Syncing
  <2>3. QED BY <1>0, <2>1, <2>2 DEF DisabledOften, One
<1>5. CASE SyncEnds
  <2>1. /\ UNCHANGED <<syncs, syncTimer, syncScheduled>>
        /\ sudden' = sudden - 1 /\ syncInProgress' = FALSE /\ syncInProgress
    BY <1>5 DEF SyncEnds, Goes, mainVars, bounds, Inv, Types, PlaceOK, Syncing
  <2>2. QED BY <1>0, <2>1 DEF DisabledOften, One
<1>6. CASE \/ \E k \in Keys, v \in Values \cup {Null} : setItem(k, v)
           \/ clear \/ closeDatabaseTimerFired
  BY <1>1, <1>2, <1>6 DEF setItem, scheduleItemForSync, clear, scheduleClear, closeDatabaseTimerFired,
     scheduleCloseDatabase, sharedVars, bounds
<1>7. CASE decrementAccessCount \/ incrementAccessCount \/ UNCHANGED vars
  BY <1>2, <1>7 DEF decrementAccessCount, incrementAccessCount, vars, mainVars, sharedVars, bounds
<1>8. CASE performImport \/ ImportOpens \/ importItems \/ markImported \/ SyncSkips \/ SyncOpens
           \/ SyncCloses \/ SyncWrites \/ deleteEmptyDatabase \/ performTerminate
  BY <1>2, <1>8 DEF performImport, ImportOpens, importItems, markImported, SyncSkips, SyncOpens,
     SyncCloses, SyncWrites, deleteEmptyDatabase, performTerminate, mainVars, sharedVars, bounds
<1>9. QED
  BY <1>3, <1>4, <1>5, <1>6, <1>7, <1>8, FiresTimerSteps DEF Next, MainThread, Timers, threadEntryPoint

(* No step but those that give a change up lets the layers lose it.          *)
LEMMA LayersStep ==
    ASSUME Inv, [Next]_vars
    PROVE  Layers'
<1>0. /\ Layers /\ Types /\ HeldWhileSyncing
      /\ map \in Items /\ table \in Items
      /\ changedItems \in Changes /\ itemsPendingSync \in Changes /\ items \in Changes
      /\ itemsCleared \in BOOLEAN /\ clearItemsWhileSyncing \in BOOLEAN /\ clearItems \in BOOLEAN
  BY DEF Inv, Types, DataOK, FlagsOK
<1>a. CASE UNCHANGED <<map, changedItems, itemsCleared, itemsPendingSync, clearItemsWhileSyncing,
                       importComplete, lost, pc, items, clearItems, table>>
  BY <1>0, <1>a DEF Layers, Newer, Pending, Row
<1>1. ASSUME NEW k \in Keys, NEW v \in Values \cup {Null}, setItem(k, v) PROVE Layers'
  <2>1. /\ map' = [map EXCEPT ![k] = v] /\ changedItems' = [changedItems EXCEPT ![k] = v]
        /\ lost' = lost \ {k} /\ v # Unchanged /\ importComplete
        /\ UNCHANGED <<itemsCleared, itemsPendingSync, clearItemsWhileSyncing, pc, items, clearItems, table>>
    BY <1>1, NullAssumption DEF setItem, Ready, scheduleItemForSync, sharedVars, threadVars, databaseVars
  <2>2. ASSUME NEW j \in Keys \ lost' PROVE map'[j] = Newer(j)'
    <3>1. CASE j = k
      BY <1>0, <2>1, <3>1 DEF Newer, Items, Changes
    <3>2. CASE j # k
      <4>1. map[j] = Newer(j)
        BY <1>0, <2>1, <2>2, <3>2 DEF Layers
      <4>2. QED BY <1>0, <2>1, <3>2, <4>1 DEF Newer, Pending, Row, Items, Changes
    <3>3. QED BY <3>1, <3>2
  <2>3. QED BY <2>2 DEF Layers
<1>2. CASE clear
  BY <1>2 DEF clear, scheduleClear, NoItems, NoChanges, Layers, Newer
<1>3. CASE FiresTimer /\ UNCHANGED <<threadVars, databaseVars, importComplete>>
  <2>1. ASSUME NEW final, NEW active, NEW count, NEW rest, syncTimerFired(final, active, count, rest),
               UNCHANGED <<map, threadVars, databaseVars, importComplete>>
        PROVE  Layers'
    <3>0. UNCHANGED <<map, pc, items, clearItems, table, importComplete>>
      BY <2>1 DEF threadVars, databaseVars
    <3>1. CASE UNCHANGED <<changedItems, itemsCleared, sharedVars, queue, lost>>
      BY <1>a, <3>0, <3>1 DEF sharedVars
    <3>2. CASE ~UNCHANGED <<changedItems, itemsCleared, sharedVars, queue, lost>>
      <4>1. PICK batch \in SUBSET Changed(changedItems) :
              /\ itemsPendingSync' = Moved(batch)
              /\ changedItems' = Remaining(batch)
              /\ lost' = lost \cup IF batch # Changed(changedItems) THEN Overlooked(batch) ELSE {}
              /\ syncTimer' = (active \/ batch # Changed(changedItems))
              /\ sudden' = count + (IF syncScheduled THEN 0 ELSE 1)
                                 - (IF batch # Changed(changedItems) THEN 0 ELSE 1)
        BY <2>1, <3>2, TimerFiredCases
      <4>2. itemsCleared' = FALSE /\ clearItemsWhileSyncing' = (clearItemsWhileSyncing \/ itemsCleared)
        BY <2>1, <3>2, TimerFiredCases
      <4>3. SUFFICES ASSUME importComplete, NEW k \in Keys \ lost'
                     PROVE  map'[k] = Newer(k)'
        BY <3>0 DEF Layers
      <4>4. map'[k] = Newer(k)
        BY <1>0, <3>0, <4>1, <4>3 DEF Layers
      <4>5. CASE k \in batch
        <5>1. changedItems[k] # Unchanged
          BY <4>1, <4>5 DEF Changed
        <5>2. Moved(batch)[k] = changedItems[k]
          BY <4>5 DEF Moved
        <5>3. Remaining(batch)[k] = Unchanged
          BY <5>1, <5>2 DEF Remaining
        <5>4. QED BY <4>1, <4>2, <4>4, <5>1, <5>2, <5>3 DEF Newer, Pending
      <4>6. CASE k \notin batch /\ changedItems[k] = Unchanged
        <5>1. changedItems'[k] = Unchanged
          BY <4>1, <4>6 DEF Remaining
        <5>2. itemsPendingSync'[k] = IF itemsCleared THEN Unchanged ELSE itemsPendingSync[k]
          BY <4>1, <4>6 DEF Moved
        <5>3. Row(k)' = Row(k)
          BY <3>0 DEF Row
        <5>4. QED BY <1>0, <4>2, <4>4, <4>6, <5>1, <5>2, <5>3 DEF Newer, Pending
      <4>7. CASE k \notin batch /\ changedItems[k] # Unchanged
        <5>1. batch # Changed(changedItems)
          BY <4>7 DEF Changed
        <5>2. Moved(batch)[k] = Unchanged
          BY <4>1, <4>3, <4>7, <5>1 DEF Overlooked, Changed
        <5>3. changedItems'[k] = changedItems[k]
          BY <4>1, <5>1, <5>2 DEF Remaining
        <5>4. QED BY <4>4, <4>7, <5>3 DEF Newer
      <4>8. QED BY <4>5, <4>6, <4>7
    <3>3. QED BY <3>1, <3>2
  <2>2. QED BY <1>3, <2>1 DEF FiresTimer
<1>4. CASE performSync
  <2>1. /\ pc = "idle" /\ pc' = "sync" /\ items' = itemsPendingSync /\ clearItems' = clearItemsWhileSyncing
        /\ itemsPendingSync' = NoChanges /\ clearItemsWhileSyncing' = FALSE
        /\ UNCHANGED <<map, changedItems, itemsCleared, importComplete, lost, table>>
    BY <1>4 DEF performSync, Runs, mainVars, databaseVars
  <2>2. items = NoChanges /\ clearItems = FALSE
    BY <1>0, <2>1 DEF HeldWhileSyncing, Syncing
  <2>3. ASSUME NEW k \in Keys PROVE Newer(k)' = Newer(k)
    <3>1. Row(k) = table[k] /\ Pending(k)' = Row(k)'
      BY <2>1, <2>2 DEF Row, Pending, NoChanges
    <3>2. Row(k)' = Pending(k)
      BY <2>1, <3>1 DEF Row, Pending
    <3>3. QED BY <2>1, <3>1, <3>2 DEF Newer
  <2>4. QED BY <1>0, <2>1, <2>3 DEF Layers
<1>5. ASSUME /\ pc \in {"sync", "writing"}
             /\ UNCHANGED <<map, changedItems, itemsCleared, itemsPendingSync, clearItemsWhileSyncing,
                            items, clearItems>>,
             importComplete' => importComplete,
             \A k \in Keys \ lost' : k \notin lost /\ (Row(k)' = Row(k) \/ k \notin Newest),
             \A k \in Keys : (items[k] = Unchanged /\ ~clearItems) => Row(k)' = Row(k)
      PROVE  Layers'
  <2>1. SUFFICES ASSUME importComplete, NEW k \in Keys \ lost'
                 PROVE  map'[k] = Newer(k)'
    BY <1>5 DEF Layers
  <2>2. map'[k] = Newer(k)
    BY <1>0, <1>5, <2>1 DEF Layers
  <2>3. CASE Row(k)' = Row(k)
    BY <1>5, <2>2, <2>3 DEF Newer, Pending
  <2>4. CASE Row(k)' # Row(k)
    <3>1. k \notin Newest /\ (items[k] # Unchanged \/ clearItems)
      BY <1>5, <2>1, <2>4
    <3>2. \/ itemsPendingSync[k] # Unchanged \/ clearItemsWhileSyncing
          \/ changedItems[k] # Unchanged \/ itemsCleared
      BY <3>1 DEF Newest
    <3>3. QED BY <1>5, <2>2, <3>2 DEF Newer, Pending
  <2>5. QED BY <2>3, <2>4
<1>6. pc \in Syncing => importComplete
  BY DEF Inv, NothingBeforeImport, Syncing
<1>7. CASE SyncSkips \/ SyncCloses
  <2>1. /\ pc \in {"sync", "writing"} /\ pc' = "synced"
        /\ UNCHANGED <<map, changedItems, itemsCleared, itemsPendingSync, clearItemsWhileSyncing,
                       items, clearItems, table, importComplete>>
        /\ lost' = lost \cup Newest
    BY <1>7 DEF SyncSkips, SyncCloses, Goes, mainVars, sharedVars, databaseVars
  <2>2. \A k \in Keys : (items[k] = Unchanged /\ ~clearItems) => Row(k)' = Row(k)
    BY <2>1 DEF Row
  <2>3. QED BY <1>5, <2>1, <2>2
<1>8. CASE SyncOpens
  <2>1. /\ pc = "sync" /\ pc' = IF isOpen' THEN "writing" ELSE "synced"
        /\ UNCHANGED <<map, changedItems, itemsCleared, itemsPendingSync, clearItemsWhileSyncing,
                       items, clearItems, table>>
        /\ lost' = IF isOpen' THEN lost ELSE lost \cup Newest
    BY <1>8 DEF SyncOpens, mainVars, sharedVars
  <2>2. /\ \A k \in Keys : (items[k] = Unchanged /\ ~clearItems) => Row(k)' = Row(k)
        /\ isOpen' => \A k \in Keys : Row(k)' = Row(k)
    BY <2>1 DEF Row
  <2>3. importComplete
    BY <1>6, <2>1 DEF Syncing
  <2>4. QED BY <1>5, <2>1, <2>2, <2>3
<1>9. CASE SyncWrites
  <2>1. /\ pc = "writing" /\ pc' = "synced"
        /\ UNCHANGED <<map, changedItems, itemsCleared, itemsPendingSync, clearItemsWhileSyncing,
                       items, clearItems, importComplete>>
    BY <1>9 DEF SyncWrites, Goes, mainVars, sharedVars
  <2>2. ASSUME NEW done \in SUBSET Changed(items), table' = Written(done),
               lost' = lost \cup (Newest \cap (Changed(items) \ done))
        PROVE  Layers'
    <3>1. \A k \in Keys : k \in done \/ k \notin Changed(items) => Row(k)' = Row(k)
      BY <2>1, <2>2 DEF Row, Written, Changed
    <3>2. \A k \in Keys : (items[k] = Unchanged /\ ~clearItems) => Row(k)' = Row(k)
      BY <3>1 DEF Changed
    <3>3. \A k \in Keys \ lost' : k \notin lost /\ (Row(k)' = Row(k) \/ k \notin Newest)
      BY <2>2, <3>1
    <3>4. QED BY <1>5, <2>1, <3>2, <3>3
  <2>3. CASE table' = Written(Changed(items)) /\ UNCHANGED lost
    BY <2>2, <2>3
  <2>4. CASE UNCHANGED table /\ lost' = lost \cup Newest
    <3>1. \A k \in Keys : (items[k] = Unchanged /\ ~clearItems) => Row(k)' = Row(k)
      BY <2>1, <2>4 DEF Row
    <3>2. QED BY <1>5, <2>1, <2>4, <3>1
  <2>5. QED BY <1>9, <2>2, <2>3, <2>4 DEF SyncWrites
<1>10. CASE SyncEnds
  <2>1. /\ pc = "synced" /\ pc' = "idle" /\ items' = NoChanges /\ clearItems' = FALSE
        /\ UNCHANGED <<map, changedItems, itemsCleared, itemsPendingSync, clearItemsWhileSyncing,
                       importComplete, lost, table>>
    BY <1>10 DEF SyncEnds, Goes, mainVars, databaseVars
  <2>2. \A k \in Keys : Row(k)' = Row(k)
    BY <2>1 DEF Row, NoChanges
  <2>3. \A k \in Keys : Newer(k)' = Newer(k)
    BY <2>1, <2>2 DEF Newer, Pending
  <2>4. QED BY <1>0, <2>1, <2>3 DEF Layers
<1>11. ASSUME pc # "synced", pc' # "synced",
              UNCHANGED <<map, changedItems, itemsCleared, itemsPendingSync, clearItemsWhileSyncing,
                          importComplete, lost, items, clearItems, table>>
       PROVE  Layers'
  BY <1>0, <1>11 DEF Layers, Newer, Pending, Row
<1>12. CASE ImportOpens
  <2>1. CASE lost' = Keys
    BY <2>1 DEF Layers
  <2>2. CASE lost' # Keys
    BY <1>11, <1>12, <2>2 DEF ImportOpens, openDatabase, mainVars, sharedVars
  <2>3. QED BY <2>1, <2>2
<1>13. CASE importItems
  BY <1>13 DEF importItems, Layers
<1>14. CASE markImported
  <2>1. /\ pc = "imported" /\ pc' = "idle"
        /\ UNCHANGED <<map, changedItems, itemsCleared, itemsPendingSync, clearItemsWhileSyncing,
                       lost, items, clearItems, table>>
    BY <1>14 DEF markImported, Goes, mainVars, sharedVars, databaseVars
  <2>2. CASE importComplete
    BY <1>11, <1>14, <2>1, <2>2 DEF markImported
  <2>3. CASE ~importComplete
    <3>1. /\ changedItems = NoChanges /\ itemsCleared = FALSE
          /\ itemsPendingSync = NoChanges /\ clearItemsWhileSyncing = FALSE
          /\ \A k \in Keys \ lost : map[k] = table[k]
      BY <2>1, <2>3 DEF Inv, NothingBeforeImport
    <3>2. items = NoChanges /\ clearItems = FALSE
      BY <1>0, <2>1 DEF HeldWhileSyncing, Syncing
    <3>3. \A k \in Keys : Newer(k)' = table[k]
      BY <2>1, <3>1, <3>2 DEF Newer, Pending, Row, NoChanges
    <3>4. QED BY <2>1, <3>1, <3>3 DEF Layers
  <2>4. QED BY <2>2, <2>3
<1>15. CASE performImport \/ deleteEmptyDatabase \/ performTerminate
  BY <1>11, <1>15 DEF performImport, deleteEmptyDatabase, performTerminate, Runs, mainVars, sharedVars,
     threadVars, databaseVars
<1>16. CASE decrementAccessCount \/ incrementAccessCount \/ closeDatabaseTimerFired \/ UNCHANGED vars
  BY <1>a, <1>16 DEF decrementAccessCount, incrementAccessCount, closeDatabaseTimerFired, vars, mainVars,
     sharedVars, threadVars, databaseVars
<1>17. CASE TimerFires \/ scheduleSync \/ scheduleFinalSync
  BY <1>3, <1>17, FiresTimerSteps, MainLeaves DEF MainThread, Timers
<1>18. QED
  BY <1>1, <1>2, <1>4, <1>7, <1>8, <1>9, <1>10, <1>12, <1>13, <1>14, <1>15, <1>16, <1>17
     DEF Next, MainThread, Timers, threadEntryPoint

-----------------------------------------------------------------------------
(* The theorems.                                                             *)

(* It holds initially.                                                       *)
LEMMA InvInit == Init => Inv
<1> SUFFICES ASSUME Init PROVE Inv
  OBVIOUS
<1>1. Types
  BY TypeInit
<1>2. HeldWhileSyncing /\ NothingBeforeImport /\ RowsInFile /\ ChangesHaveTimer /\ PendingHaveSync /\ Layers
  BY DEF Init, HeldWhileSyncing, NothingBeforeImport, RowsInFile, ChangesHaveTimer, PendingHaveSync, Layers
<1>3. ScheduledOnce
  BY DEF Init, ScheduledOnce
<1>4. DisabledOften
  BY DEF Init, DisabledOften, One
<1>5. QED BY <1>1, <1>2, <1>3, <1>4 DEF Inv

(* The inductive invariant holds in every reachable state.                   *)
THEOREM Invariance == Spec => []Inv
<1>1. Inv /\ [Next]_vars => Inv'
  BY TypeStep, HeldStep, ImportStep, RowsStep, TimerStep, PendingStep, ScheduledStep, SuddenStep, LayersStep
     DEF Inv
<1>2. QED BY InvInit, <1>1, PTL DEF Spec

(* The variables keep their types, and the thread is where m_syncInProgress  *)
(* says it is.                                                               *)
THEOREM TypeCorrect == Spec => []TypeOK
<1>1. Inv => TypeOK
  BY TypeParts DEF Inv
<1>2. QED BY Invariance, <1>1, PTL

(* Between setItem() and the database no change is lost or overtaken, for    *)
(* any batch limit and any failures, unless a sync gives it up.              *)
THEOREM NothingOvertaken == Spec => []LayersAddUp
<1>1. Inv => LayersAddUp
  BY LayersParts DEF Inv
<1>2. QED BY Invariance, <1>1, PTL

(* With nothing held or pending or changed the database is what the page     *)
(* sees.                                                                     *)
LEMMA NothingLeft ==
    ASSUME Inv, importComplete, ~syncTimer, ~syncScheduled, ~syncInProgress
    PROVE  Synced
<1>1. changedItems = NoChanges /\ itemsCleared = FALSE
  BY DEF Inv, ChangesHaveTimer
<1>2. itemsPendingSync = NoChanges /\ clearItemsWhileSyncing = FALSE
  BY DEF Inv, PendingHaveSync
<1>3. pc # "synced" /\ items = NoChanges /\ clearItems = FALSE
  BY DEF Inv, HeldWhileSyncing, Types, PlaceOK, Syncing
<1>4. \A k \in Keys : Newer(k) = table[k]
  BY <1>1, <1>2, <1>3 DEF Newer, Pending, Row, NoChanges
<1>5. QED BY <1>4 DEF Inv, Layers, Synced

(* What a restart would find when nothing is left to do is what the page     *)
(* sees, but for the changes that the code gives up.                         *)
THEOREM WrittenAtRest == Spec => []SyncedAtRest
<1>1. Inv => SyncedAtRest
  <2> SUFFICES ASSUME Inv, AtRest PROVE Synced
    BY DEF SyncedAtRest
  <2>1. importComplete /\ ~syncTimer /\ queue = <<>> /\ pc \notin Syncing
    BY DEF AtRest, Syncing
  <2>2. ~syncInProgress
    BY <2>1 DEF Inv, Types, PlaceOK
  <2>3. ~syncScheduled
    BY <2>1 DEF Inv, ScheduledOnce
  <2>4. QED BY <2>1, <2>2, <2>3, NothingLeft
<1>2. QED BY Invariance, <1>1, PTL

(* Until sync() is first called, killing the process while sudden            *)
(* termination is enabled loses only what the code has given up already.     *)
THEOREM KillLosesNothing == Spec => []SuddenTerminationIsSafe
<1>1. Inv => SuddenTerminationIsSafe
  <2> SUFFICES ASSUME Inv, importComplete, syncs = 0, sudden <= 0 PROVE Synced
    BY DEF SuddenTerminationIsSafe
  <2>1. sudden \in Int /\ sudden >= One(syncTimer) + One(syncScheduled) + One(syncInProgress)
    BY DEF Inv, DisabledOften, Types, CountsOK
  <2>2. \A c : One(c) \in {0, 1} /\ (c => One(c) = 1)
    BY DEF One
  <2>3. ~syncTimer /\ ~syncScheduled /\ ~syncInProgress
    <3>1. /\ One(syncTimer) \in {0, 1} /\ One(syncScheduled) \in {0, 1} /\ One(syncInProgress) \in {0, 1}
      BY <2>2
    <3>2. One(syncTimer) = 0 /\ One(syncScheduled) = 0 /\ One(syncInProgress) = 0
      BY <2>1, <3>1
    <3>3. QED BY <3>2 DEF One
  <2>4. QED BY <2>3, NothingLeft
<1>2. QED BY Invariance, <1>1, PTL
=============================================================================
