-------------------------- MODULE StorageAreaSync --------------------------
(***************************************************************************)
(* Local storage of one origin: the main thread changes a map in memory    *)
(* (StorageAreaImpl) and collects the changes; a timer moves them, in      *)
(* batches, to items a storage thread (StorageThread) writes to a database.*)
(* The map starts with what the storage thread imports.                    *)
(*                                                                         *)
(* The main thread and the storage thread share what m_syncLock and        *)
(* m_importLock protect and, unprotected, m_syncCloseDatabase and whether  *)
(* the database is open.                                                   *)
(***************************************************************************)
EXTENDS Integers, Sequences, FiniteSets

CONSTANTS
    Keys, Values,
    Null,              \* the null String: no such item, or to be removed
    Unchanged,         \* no entry in a map of changes
    MaxiumItemsToSync, \* the most items one sync moves
    MaxChanges,        \* per key, bounds setItem and removeItem
    MaxClears,         \* bounds clear
    MaxReleases,       \* bounds how often the area becomes unused
    MaxSyncs,          \* bounds requests to sync at once
    MayFail            \* whether the database may fail

ASSUME NullAssumption == Null \notin Values /\ Unchanged \notin Values \cup {Null}
ASSUME BoundAssumption ==
    /\ MaxiumItemsToSync \in Nat \ {0}
    /\ {MaxChanges, MaxClears, MaxReleases, MaxSyncs} \subseteq Nat
    /\ MayFail \in BOOLEAN

VARIABLES
    \* The main thread, StorageAreaImpl: the items, whether a Storage object
    \* uses the area, m_closeDatabaseTimer.
    map, accessed, closeDatabaseTimer,
    \* StorageAreaSync: m_changedItems, m_itemsCleared, m_syncTimer is active,
    \* m_finalSyncScheduled, calls to disable minus calls to enable sudden
    \* termination.
    changedItems, itemsCleared, syncTimer, finalSyncScheduled, sudden,
    \* Shared with the storage thread.
    itemsPendingSync, clearItemsWhileSyncing, syncScheduled, syncInProgress,
    syncCloseDatabase, importComplete,
    \* The storage thread: its queue, where it is, and performSync's locals.
    queue, pc, items, clearItems,
    \* m_database.isOpen(), m_databaseOpenFailed, the rows of ItemTable and
    \* whether the file exists.
    isOpen, databaseOpenFailed, table, fileExists,
    \* Bounds: changes per key, clears, releases, requests.
    changes, clears, releases, syncs,
    \* History: the keys whose last change the code has given up (see Synced).
    lost

mainVars == <<map, accessed, closeDatabaseTimer, changedItems, itemsCleared, syncTimer, finalSyncScheduled>>
sharedVars == <<itemsPendingSync, clearItemsWhileSyncing, syncScheduled, syncInProgress>>
databaseVars == <<isOpen, databaseOpenFailed, table, fileExists>>
threadVars == <<pc, items, clearItems>>
bounds == <<changes, clears, releases, syncs>>
vars == <<mainVars, sudden, sharedVars, syncCloseDatabase, importComplete, queue, threadVars, databaseVars, bounds, lost>>

Items == [Keys -> Values \cup {Null}]
Changes == [Keys -> Values \cup {Null, Unchanged}]
NoItems == [k \in Keys |-> Null]
NoChanges == [k \in Keys |-> Unchanged]
Changed(c) == {k \in Keys : c[k] # Unchanged}

Init ==
    /\ map = NoItems
    /\ accessed = TRUE
    /\ closeDatabaseTimer = FALSE
    /\ changedItems = NoChanges
    /\ itemsCleared = FALSE
    /\ syncTimer = FALSE
    /\ finalSyncScheduled = FALSE
    /\ sudden = 0
    /\ itemsPendingSync = NoChanges
    /\ clearItemsWhileSyncing = FALSE
    /\ syncScheduled = FALSE
    /\ syncInProgress = FALSE
    /\ syncCloseDatabase = FALSE
    /\ importComplete = FALSE
    /\ queue = <<"performImport">>
    /\ pc = "idle"
    /\ items = NoChanges
    /\ clearItems = FALSE
    /\ isOpen = FALSE
    /\ databaseOpenFailed = FALSE
    /\ fileExists \in BOOLEAN
    /\ table \in Items
    /\ ~fileExists => table = NoItems
    /\ changes = [k \in Keys |-> 0]
    /\ clears = 0
    /\ releases = 0
    /\ syncs = 0
    /\ lost = {}

-----------------------------------------------------------------------------
(* The main thread.  Every operation of StorageAreaImpl first blocks until   *)
(* the import is complete.                                                   *)

(* A mutant of Ready. *)
ReadyWhileImporting == ~finalSyncScheduled

Ready == importComplete /\ ~finalSyncScheduled

(* A mutant of StartTimer. *)
StartTimerUncounted == syncTimer' = TRUE /\ UNCHANGED sudden

(* scheduleItemForSync(), scheduleClear() and scheduleCloseDatabase() start  *)
(* the timer unless it runs.                                                 *)
StartTimer ==
    /\ syncTimer' = TRUE
    /\ sudden' = IF syncTimer THEN sudden ELSE sudden + 1

scheduleItemForSync(k, v) ==
    /\ changedItems' = [changedItems EXCEPT ![k] = v]
    /\ StartTimer

(* setItem(), or removeItem() with v = Null.                                 *)
setItem(k, v) ==
    /\ Ready
    /\ accessed
    /\ changes[k] < MaxChanges
    /\ map[k] # v
    /\ map' = [map EXCEPT ![k] = v]
    /\ scheduleItemForSync(k, v)
    /\ changes' = [changes EXCEPT ![k] = @ + 1]
    /\ lost' = lost \ {k}
    /\ UNCHANGED <<accessed, closeDatabaseTimer, itemsCleared, finalSyncScheduled, sharedVars,
                   syncCloseDatabase, importComplete, queue, threadVars, databaseVars,
                   clears, releases, syncs>>

scheduleClear ==
    /\ changedItems' = NoChanges
    /\ itemsCleared' = TRUE
    /\ StartTimer

clear ==
    /\ Ready
    /\ accessed
    /\ clears < MaxClears
    /\ map # NoItems
    /\ map' = NoItems
    /\ scheduleClear
    /\ clears' = clears + 1
    /\ lost' = {}
    /\ UNCHANGED <<accessed, closeDatabaseTimer, finalSyncScheduled, sharedVars, syncCloseDatabase,
                   importComplete, queue, threadVars, databaseVars, changes, releases, syncs>>

(* The last Storage object goes, or one is created.                          *)
decrementAccessCount ==
    /\ accessed
    /\ ~finalSyncScheduled
    /\ releases < MaxReleases
    /\ accessed' = FALSE
    /\ closeDatabaseTimer' = TRUE
    /\ releases' = releases + 1
    /\ UNCHANGED <<map, changedItems, itemsCleared, syncTimer, finalSyncScheduled, sudden, sharedVars,
                   syncCloseDatabase, importComplete, queue, threadVars, databaseVars,
                   changes, clears, syncs, lost>>

incrementAccessCount ==
    /\ ~accessed
    /\ ~finalSyncScheduled
    /\ accessed' = TRUE
    /\ closeDatabaseTimer' = FALSE
    /\ UNCHANGED <<map, changedItems, itemsCleared, syncTimer, finalSyncScheduled, sudden, sharedVars,
                   syncCloseDatabase, importComplete, queue, threadVars, databaseVars, bounds, lost>>

scheduleCloseDatabase ==
    \/ /\ isOpen
       /\ syncCloseDatabase' = TRUE
       /\ StartTimer
    \/ /\ ~isOpen
       /\ UNCHANGED <<syncCloseDatabase, syncTimer, sudden>>

closeDatabaseTimerFired ==
    /\ closeDatabaseTimer
    /\ Ready
    /\ closeDatabaseTimer' = FALSE
    /\ scheduleCloseDatabase
    /\ UNCHANGED <<map, accessed, changedItems, itemsCleared, finalSyncScheduled, sharedVars,
                   importComplete, queue, threadVars, databaseVars, bounds, lost>>

(* What a sync may take of m_changedItems: all of it, or as much as the limit*)
(* allows, in the order of the hash table, which is any order.               *)
Batches(final) ==
    IF final \/ Cardinality(Changed(changedItems)) <= MaxiumItemsToSync
    THEN {Changed(changedItems)}
    ELSE {b \in SUBSET Changed(changedItems) : Cardinality(b) = MaxiumItemsToSync}

(* m_itemsPendingSync after the batch was added.                             *)
Moved(batch) ==
    [k \in Keys |-> IF k \in batch THEN changedItems[k]
                    ELSE IF itemsCleared THEN Unchanged ELSE itemsPendingSync[k]]

(* A mutant of Remaining. *)
NothingRemains(batch) == NoChanges

(* What is left of m_changedItems: a partial sync removes whatever is pending*)
(* now, another one everything.                                              *)
Remaining(batch) ==
    [k \in Keys |-> IF batch = Changed(changedItems) \/ Moved(batch)[k] # Unchanged
                    THEN Unchanged ELSE changedItems[k]]

(* What a partial sync removes without having taken it, because an older     *)
(* change of the same key is pending: a newer change that nobody writes.     *)
Overlooked(batch) ==
    {k \in Changed(changedItems) \ batch : Moved(batch)[k] # Unchanged}

(* The body of syncTimerFired(), entered with the timer active or not and    *)
(* sudden termination disabled count times.  rest is what its caller         *)
(* dispatches to the storage thread after it.                                *)
syncTimerFired(final, active, count, rest) ==
    \/ /\ syncInProgress
       /\ ~final
       /\ syncTimer' = TRUE
       /\ sudden' = count
       /\ UNCHANGED <<changedItems, itemsCleared, sharedVars, queue, lost>>
    \/ /\ ~syncInProgress \/ final
       /\ itemsCleared' = FALSE
       /\ clearItemsWhileSyncing' = (clearItemsWhileSyncing \/ itemsCleared)
       /\ \E batch \in Batches(final) :
              LET partialSync == batch # Changed(changedItems)
              IN  /\ itemsPendingSync' = Moved(batch)
                  /\ changedItems' = Remaining(batch)
                  /\ lost' = lost \cup IF partialSync THEN Overlooked(batch) ELSE {}
                  /\ syncTimer' = (active \/ partialSync)
                  /\ sudden' = count + (IF syncScheduled THEN 0 ELSE 1)
                                     - (IF partialSync THEN 0 ELSE 1)
       /\ syncScheduled' = TRUE
       /\ queue' = queue \o (IF syncScheduled THEN <<>> ELSE <<"performSync">>) \o rest
       /\ UNCHANGED syncInProgress

TimerFires ==
    /\ syncTimer
    /\ ~finalSyncScheduled
    /\ syncTimerFired(FALSE, FALSE, sudden, <<>>)
    /\ UNCHANGED <<map, accessed, closeDatabaseTimer, finalSyncScheduled, syncCloseDatabase,
                   importComplete, threadVars, databaseVars, bounds>>

(* sync(), for all the areas of a namespace: the timer is not asked.         *)
scheduleSync ==
    /\ Ready
    /\ syncs < MaxSyncs
    /\ syncTimerFired(FALSE, syncTimer, sudden, <<>>)
    /\ syncs' = syncs + 1
    /\ UNCHANGED <<map, accessed, closeDatabaseTimer, finalSyncScheduled, syncCloseDatabase,
                   importComplete, threadVars, databaseVars, changes, clears, releases>>

(* StorageNamespaceImpl::close(): scheduleFinalSync(), then                  *)
(* StorageThread::terminate().                                               *)
scheduleFinalSync ==
    /\ Ready
    /\ finalSyncScheduled' = TRUE
    /\ syncTimerFired(TRUE, FALSE, IF syncTimer THEN sudden ELSE sudden + 1,
                      <<"deleteEmptyDatabase", "performTerminate">>)
    /\ UNCHANGED <<map, accessed, closeDatabaseTimer, syncCloseDatabase, importComplete, threadVars,
                   databaseVars, bounds>>

-----------------------------------------------------------------------------
(* The storage thread.                                                       *)

Runs(function) ==
    /\ pc = "idle"
    /\ queue # <<>>
    /\ Head(queue) = function
    /\ queue' = Tail(queue)

Goes(from, to) == pc = from /\ pc' = to

(* The changes the thread holds, and nothing newer supersedes.               *)
Newest ==
    {k \in Keys : /\ items[k] # Unchanged \/ clearItems
                  /\ itemsPendingSync[k] = Unchanged /\ ~clearItemsWhileSyncing
                  /\ changedItems[k] = Unchanged /\ ~itemsCleared}

(* openDatabase() opens the file, fails to, or fails to make the table in a  *)
(* database it leaves open.  Both failures let the main thread go on.        *)
openDatabase ==
    \/ /\ isOpen' = TRUE
       /\ fileExists' = TRUE
       /\ UNCHANGED <<databaseOpenFailed, importComplete>>
    \/ /\ MayFail
       /\ databaseOpenFailed' = TRUE
       /\ importComplete' = TRUE
       /\ \/ isOpen' = TRUE /\ fileExists' = TRUE
          \/ UNCHANGED <<isOpen, fileExists>>

(* performImport() opens the database if there is one.                       *)
performImport ==
    /\ Runs("performImport")
    /\ pc' = IF fileExists THEN "opening" ELSE "imported"
    /\ UNCHANGED <<mainVars, sudden, sharedVars, syncCloseDatabase, importComplete, items, clearItems,
                   databaseVars, bounds, lost>>

ImportOpens ==
    /\ pc = "opening"
    /\ openDatabase
    /\ pc' = IF isOpen' THEN "importing" ELSE "imported"
    /\ lost' = IF databaseOpenFailed' THEN Keys ELSE lost
    /\ UNCHANGED <<mainVars, sudden, sharedVars, syncCloseDatabase, queue, items, clearItems, table,
                   bounds>>

(* It adds all items to the map or, if reading fails, none.  The map is      *)
(* there first: an item that exists is not replaced.                         *)
importItems ==
    /\ Goes("importing", "imported")
    /\ \/ /\ map' = [k \in Keys |-> IF map[k] # Null THEN map[k] ELSE table[k]]
          /\ lost' = IF importComplete THEN Keys ELSE lost
       \/ MayFail /\ UNCHANGED map /\ lost' = Keys
    /\ UNCHANGED <<accessed, closeDatabaseTimer, changedItems, itemsCleared, syncTimer,
                   finalSyncScheduled, sudden, sharedVars, syncCloseDatabase, importComplete, queue,
                   items, clearItems, databaseVars, bounds>>

(* A mutant of markImported. *)
markImportedIfOpen ==
    /\ Goes("imported", "idle")
    /\ importComplete' = ~databaseOpenFailed
    /\ UNCHANGED <<mainVars, sudden, sharedVars, syncCloseDatabase, queue, items, clearItems,
                   databaseVars, bounds, lost>>

markImported ==
    /\ Goes("imported", "idle")
    /\ importComplete' = TRUE
    /\ UNCHANGED <<mainVars, sudden, sharedVars, syncCloseDatabase, queue, items, clearItems,
                   databaseVars, bounds, lost>>

(* performSync() takes what is pending, ...                                  *)
performSync ==
    /\ Runs("performSync")
    /\ pc' = "sync"
    /\ items' = itemsPendingSync
    /\ clearItems' = clearItemsWhileSyncing
    /\ itemsPendingSync' = NoChanges
    /\ clearItemsWhileSyncing' = FALSE
    /\ syncScheduled' = FALSE
    /\ syncInProgress' = TRUE
    /\ UNCHANGED <<mainVars, sudden, syncCloseDatabase, importComplete, databaseVars, bounds, lost>>

NothingToSync == items = NoChanges /\ ~clearItems /\ ~syncCloseDatabase

(* ... calls sync(), which may have nothing to do or no database ...         *)
SyncSkips ==
    /\ Goes("sync", "synced")
    /\ \/ /\ NothingToSync \/ databaseOpenFailed
          /\ UNCHANGED syncCloseDatabase
       \/ /\ ~databaseOpenFailed
          /\ ~isOpen
          /\ syncCloseDatabase
          /\ syncCloseDatabase' = FALSE
    /\ lost' = lost \cup Newest
    /\ UNCHANGED <<mainVars, sudden, sharedVars, importComplete, queue, items, clearItems,
                   databaseVars, bounds>>

SyncOpens ==
    /\ pc = "sync"
    /\ ~NothingToSync
    /\ ~databaseOpenFailed
    /\ isOpen \/ ~syncCloseDatabase
    /\ \/ isOpen /\ UNCHANGED <<isOpen, fileExists, databaseOpenFailed, importComplete>>
       \/ ~isOpen /\ openDatabase
    /\ pc' = IF isOpen' THEN "writing" ELSE "synced"
    /\ lost' = IF isOpen' THEN lost ELSE lost \cup Newest
    /\ UNCHANGED <<mainVars, sudden, sharedVars, syncCloseDatabase, queue, items, clearItems,
                   table, bounds>>

SyncCloses ==
    /\ Goes("writing", "synced")
    /\ syncCloseDatabase
    /\ syncCloseDatabase' = FALSE
    /\ isOpen' = FALSE
    /\ lost' = lost \cup Newest
    /\ UNCHANGED <<mainVars, sudden, sharedVars, importComplete, queue, items, clearItems,
                   databaseOpenFailed, table, fileExists, bounds>>

(* The rows after the clear, if there is one, and the items of the set done. *)
Written(done) ==
    [k \in Keys |-> IF k \in done THEN items[k] ELSE IF clearItems THEN Null ELSE table[k]]

(* A statement that fails ends the loop; the transaction is committed. If it *)
(* is the clear, nothing is written.                                         *)
SyncWrites ==
    /\ Goes("writing", "synced")
    /\ ~syncCloseDatabase
    /\ \/ table' = Written(Changed(items)) /\ UNCHANGED lost
       \/ /\ MayFail
          /\ \E done \in SUBSET Changed(items) :
                 /\ table' = Written(done)
                 /\ lost' = lost \cup (Newest \cap (Changed(items) \ done))
       \/ MayFail /\ UNCHANGED table /\ lost' = lost \cup Newest
    /\ UNCHANGED <<mainVars, sudden, sharedVars, syncCloseDatabase, importComplete, queue, items,
                   clearItems, isOpen, databaseOpenFailed, fileExists, bounds>>

(* A mutant of SyncEnds. *)
SyncEndsInProgress ==
    /\ Goes("synced", "idle")
    /\ items' = NoChanges
    /\ clearItems' = FALSE
    /\ sudden' = sudden - 1
    /\ UNCHANGED <<mainVars, sharedVars, syncCloseDatabase, importComplete, queue, databaseVars, bounds, lost>>

(* ... and allows the next one.                                              *)
SyncEnds ==
    /\ Goes("synced", "idle")
    /\ syncInProgress' = FALSE
    /\ items' = NoChanges
    /\ clearItems' = FALSE
    /\ sudden' = sudden - 1
    /\ UNCHANGED <<mainVars, itemsPendingSync, clearItemsWhileSyncing, syncScheduled, syncCloseDatabase,
                   importComplete, queue, databaseVars, bounds, lost>>

(* deleteEmptyDatabase(), with the StorageTracker inactive as in the Qt port.*)
deleteEmptyDatabase ==
    /\ Runs("deleteEmptyDatabase")
    /\ \/ /\ isOpen
          /\ table = NoItems
          /\ isOpen' = FALSE
          /\ fileExists' \in {FALSE, MayFail}
       \/ /\ ~isOpen \/ table # NoItems \/ MayFail
          /\ UNCHANGED <<isOpen, fileExists>>
    /\ UNCHANGED <<mainVars, sudden, sharedVars, syncCloseDatabase, importComplete, threadVars,
                   databaseOpenFailed, table, bounds, lost>>

performTerminate ==
    /\ Runs("performTerminate")
    /\ pc' = "ended"
    /\ UNCHANGED <<mainVars, sudden, sharedVars, syncCloseDatabase, importComplete, items, clearItems,
                   databaseVars, bounds, lost>>

-----------------------------------------------------------------------------
MainThread ==
    \/ \E k \in Keys, v \in Values \cup {Null} : setItem(k, v)
    \/ clear
    \/ decrementAccessCount
    \/ incrementAccessCount
    \/ scheduleSync
    \/ scheduleFinalSync

Timers == TimerFires \/ closeDatabaseTimerFired

threadEntryPoint ==
    \/ performImport \/ ImportOpens \/ importItems \/ markImported
    \/ performSync \/ SyncSkips \/ SyncOpens \/ SyncCloses \/ SyncWrites \/ SyncEnds
    \/ deleteEmptyDatabase \/ performTerminate

Next == MainThread \/ Timers \/ threadEntryPoint

Spec == Init /\ [][Next]_vars

(* The storage thread runs, and timers fire.  Nothing forces a change.       *)
FairSpec == Spec /\ WF_vars(threadEntryPoint) /\ WF_vars(TimerFires)

-----------------------------------------------------------------------------
(* Properties.                                                               *)

(* The maps of changes and items have their types, and the thread is in one  *)
(* of performImport, performSync or its queue.                               *)
TypeOK ==
    /\ map \in Items /\ table \in Items
    /\ changedItems \in Changes /\ itemsPendingSync \in Changes /\ items \in Changes
    /\ {accessed, closeDatabaseTimer, itemsCleared, syncTimer, finalSyncScheduled,
        clearItemsWhileSyncing, syncScheduled, syncInProgress, syncCloseDatabase, importComplete,
        clearItems, isOpen, databaseOpenFailed, fileExists} \subseteq BOOLEAN
    /\ sudden \in Int
    /\ queue \in Seq({"performImport", "performSync", "deleteEmptyDatabase", "performTerminate"})
    /\ pc \in {"idle", "opening", "importing", "imported", "sync", "writing", "synced", "ended"}
    /\ syncInProgress <=> pc \in {"sync", "writing", "synced"}
    /\ changes \in [Keys -> Nat] /\ {clears, releases, syncs} \subseteq Nat
    /\ lost \subseteq Keys

(* What rows become when changes, after a clear or not, are applied to them. *)
Apply(cleared, c, rows) ==
    [k \in Keys |-> IF c[k] # Unchanged THEN c[k] ELSE IF cleared THEN Null ELSE rows[k]]

Rows == IF pc = "synced" THEN table ELSE Apply(clearItems, items, table)

(* For every key whose last change was not given up (see Synced), the rows,  *)
(* the items being written, those pending and those changed since, applied   *)
(* in this order, are what the page sees: between setItem() and the database *)
(* no other change is lost, and none overtakes another.                      *)
LayersAddUp ==
    importComplete => \A k \in Keys \ lost :
        map[k] = Apply(itemsCleared, changedItems, Apply(clearItemsWhileSyncing, itemsPendingSync, Rows))[k]

(* The rows are what the page sees, but for changes that were given up. The  *)
(* code gives a change up when the database cannot be opened or read, when a *)
(* statement fails, when the sync that took the change closes the database   *)
(* (CloseLosesNothing), and when a partial sync removes it in favour of an   *)
(* older one (Overlooked).  The last two lose it although nothing failed.    *)
Synced == \A k \in Keys \ lost : table[k] = map[k]

AtRest == importComplete /\ ~syncTimer /\ queue = <<>> /\ pc \in {"idle", "ended"}

(* When no timer runs and the storage thread has nothing to do, the database *)
(* holds what the page sees, to be found after a restart, but for changes    *)
(* given up in one of the four ways that Synced names: a failed open or      *)
(* import, a failed statement, a sync that closes the database, and a change *)
(* that a partial sync drops.  Nothing else leaves the two apart.            *)
SyncedAtRest == AtRest => Synced

(* Until sync() is first called, killing the process while sudden            *)
(* termination is enabled, that is, enabled as often as it was disabled,     *)
(* loses only changes that were given up anyway: the calls of the other      *)
(* functions on the two threads balance.  After sync() it may lose more, for *)
(* syncTimerFired() then enables what nobody has disabled.                   *)
SuddenTerminationIsSafe == importComplete /\ syncs = 0 /\ sudden <= 0 => Synced

(* The import ends, after the last change everything is written, a database  *)
(* that is to be closed is closed unless it is unusable, and the thread has  *)
(* nothing left to do: the timer is not restarted for ever.                  *)
EventuallyAtRest ==
    <>[](AtRest /\ ~syncScheduled /\ (syncCloseDatabase => databaseOpenFailed))

(* The delayed close does not lose items: the sync that closes the database, *)
(* or a later one, writes them.                                              *)
CloseLosesNothing == AtRest => table = map
=============================================================================
