----------------------------- MODULE StateStore -----------------------------
(***************************************************************************)
(* The durable store (internal/state/store.go): creating, opening,         *)
(* migrating and updating state.db, with a process that may be killed      *)
(* between any two steps.  SQLite is external: a transaction writes the    *)
(* old pages to a rollback journal first, and deleting the journal is the  *)
(* commit; a database opened with a journal beside it is rolled back.      *)
(* Browser session rows are in BrowserSessions.                            *)
(***************************************************************************)
EXTENDS Naturals

CONSTANTS
    Aggregates,     \* values of PersistentState
    None            \* no database, no journal, no aggregate

ASSUME StoreConstants == None \notin Aggregates

VARIABLES
    db,             \* state.db as the file system has it
    journal,        \* what state.db-journal would roll back to
    entrySynced,    \* the directory entry of state.db is on disk
    process,        \* where the process is, and the aggregate it is writing
    acked           \* the aggregate last reported as stored or loaded

storeVars == <<db, journal, entrySynced, process, acked>>

Legacy == 4
Current == 5        \* sqliteSchemaVersion

\* A database file: which tables it has, the version row and the aggregate.
Files == [tables : {0, Legacy, Current}, version : {0, Legacy, Current},
          agg : Aggregates \cup {None}]

ASSUME NoneIsNoFile == None \notin Files

EmptyFile == [tables |-> 0, version |-> 0, agg |-> None]

Database(v, a) == [tables |-> v, version |-> v, agg |-> a]

\* What opening state.db finds.
Recovered == IF journal = None THEN db ELSE journal

At(p) == process.at = p

Goto(p) == process' = [process EXCEPT !.at = p]

\* A process serves only from a complete database of the current version.
StoreTypeOK ==
    /\ db \in Files \cup {None}
    /\ journal \in Files \cup {None}
    /\ entrySynced \in BOOLEAN
    /\ process.at \in {"down", "create", "empty", "initTables", "initRows", "sync",
                       "reopen", "removeDb", "removeJournal", "failed", "uncleaned", "open",
                       "refused", "migrate", "migrateRows", "serving", "writing"}
    /\ process.agg \in Aggregates \cup {None}
    /\ acked \in Aggregates \cup {None}
    /\ At("serving") => journal = None /\ db \in {Database(Current, a) : a \in Aggregates}

\* An empty state directory, or one an earlier release has left.
StoreInit ==
    /\ acked \in Aggregates \cup {None}
    /\ db = IF acked = None THEN None ELSE Database(Legacy, acked)
    /\ journal = None
    /\ entrySynced = TRUE
    /\ process = [at |-> "down", agg |-> None]

----------------------------------------------------------------------------
(* LoadOrCreate.                                                            *)

\* A directory without state.db must be empty.
Start(a) ==
    /\ At("down")
    /\ process' = [agg |-> a,
                   at |-> CASE db # None -> "open"
                            [] db = None /\ journal = None -> "create"
                            [] OTHER -> "refused"]
    /\ UNCHANGED <<db, journal, entrySynced, acked>>

\* createInitialStateLocked: O_CREATE|O_EXCL, 0600.
CreateFile ==
    /\ At("create")
    /\ db' = EmptyFile
    /\ entrySynced' = FALSE
    /\ Goto("empty")
    /\ UNCHANGED <<journal, acked>>

\* The file could not be created: nothing to clean up.
CreateFileFails ==
    /\ At("create")
    /\ Goto("failed")
    /\ UNCHANGED <<db, journal, entrySynced, acked>>

\* initializeSQLiteSchemaAndState: one transaction makes the tables, the version
\* row and the initial aggregate.  SQLite syncs a new journal and its directory
\* before it writes to the database (synchronous=FULL).
InitTables ==
    /\ At("empty")
    /\ journal' = db
    /\ entrySynced' = TRUE
    /\ db' = [db EXCEPT !.tables = Current]
    /\ Goto("initTables")
    /\ UNCHANGED acked

InitRows ==
    /\ At("initTables")
    /\ db' = [db EXCEPT !.version = Current, !.agg = process.agg]
    /\ Goto("initRows")
    /\ UNCHANGED <<journal, entrySynced, acked>>

InitCommit ==
    /\ At("initRows")
    /\ journal' = None
    /\ Goto("sync")
    /\ UNCHANGED <<db, entrySynced, acked>>

SyncDirectory == Goto("reopen") /\ entrySynced' = TRUE

\* validateSQLiteSchema, Close, syncStateFile, syncDirectory.
Sync ==
    /\ At("sync")
    /\ SyncDirectory
    /\ UNCHANGED <<db, journal, acked>>

Reopen ==
    /\ At("reopen")
    /\ acked' = process.agg
    /\ Goto("serving")
    /\ UNCHANGED <<db, journal, entrySynced>>

\* Any step after the file was created fails.  The transaction's rollback deletes
\* the journal, or fails too and leaves it.
CreateFails ==
    /\ process.at \in {"empty", "initTables", "initRows", "sync", "reopen"}
    /\ Goto("removeDb")
    /\ \/ db' = Recovered /\ journal' = None
       \/ UNCHANGED <<db, journal>>
    /\ UNCHANGED <<entrySynced, acked>>

\* removeIncompleteSQLiteState: a removal that fails does not stop the next one.
RemoveDb ==
    /\ At("removeDb")
    /\ db' \in {None, db}
    /\ Goto("removeJournal")
    /\ UNCHANGED <<journal, entrySynced, acked>>

\* Then syncDirectory.  Errors of the clean-up are joined to the creation's.
RemoveJournal ==
    /\ At("removeJournal")
    /\ journal' \in {None, journal}
    /\ \/ /\ entrySynced' = TRUE
          /\ Goto(IF db = None /\ journal' = None THEN "failed" ELSE "uncleaned")
       \/ /\ UNCHANGED entrySynced
          /\ Goto("uncleaned")
    /\ UNCHANGED <<db, acked>>

\* openExistingLocked and loadLocked; the version decides on migration.
Open ==
    /\ At("open")
    /\ db' = Recovered
    /\ journal' = None
    /\ IF db'.version \notin {Legacy, Current} \/ db'.tables # db'.version
       THEN Goto("refused") /\ UNCHANGED acked
       ELSE IF db'.version = Legacy
            THEN Goto("migrate") /\ UNCHANGED acked
            ELSE Goto("serving") /\ acked' = db'.agg
    /\ UNCHANGED entrySynced

BeginMigration == journal' = db

\* migrateSQLiteSchema: tables and profile rows, then the version, one transaction.
MigrateTables ==
    /\ At("migrate")
    /\ BeginMigration
    /\ db' = [db EXCEPT !.tables = Current]
    /\ Goto("migrateRows")
    /\ UNCHANGED <<entrySynced, acked>>

MigrateCommit ==
    /\ At("migrateRows")
    /\ db' = [db EXCEPT !.version = Current]
    /\ journal' = None
    /\ acked' = db.agg
    /\ Goto("serving")
    /\ UNCHANGED entrySynced

MigrateFails ==
    /\ At("migrateRows")
    /\ \/ db' = Recovered /\ journal' = None
       \/ UNCHANGED <<db, journal>>
    /\ Goto("failed")
    /\ UNCHANGED <<entrySynced, acked>>

----------------------------------------------------------------------------
(* Save and Update: replacePersistentStateTx deletes every row and inserts  *)
(* the candidate's.                                                         *)

BeginWrite(a) ==
    /\ At("serving")
    /\ journal' = db
    /\ db' = [db EXCEPT !.agg = None]
    /\ process' = [at |-> "writing", agg |-> a]
    /\ UNCHANGED <<entrySynced, acked>>

CommitWrite ==
    /\ At("writing")
    /\ db' = [db EXCEPT !.agg = process.agg]
    /\ journal' = None
    /\ acked' = process.agg
    /\ Goto("serving")
    /\ UNCHANGED entrySynced

\* The callback, validation or a statement fails.
RollbackWrite ==
    /\ At("writing")
    /\ db' = Recovered
    /\ journal' = None
    /\ Goto("serving")
    /\ UNCHANGED <<entrySynced, acked>>

----------------------------------------------------------------------------

\* The process returns its error or closes the store.
Exit ==
    /\ process.at \in {"failed", "uncleaned", "refused", "serving"}
    /\ process' = [at |-> "down", agg |-> None]
    /\ UNCHANGED <<db, journal, entrySynced, acked>>

\* The process is killed: the file system keeps what it has.
Kill ==
    /\ ~At("down")
    /\ UNCHANGED <<db, journal, entrySynced>>

\* The machine fails, also long after a kill: an entry that was not synced may be gone.
EntryLost ==
    /\ ~entrySynced
    /\ db' = None
    /\ journal' = None
    /\ entrySynced' = TRUE

Crash ==
    /\ Kill \/ EntryLost
    /\ process' = [at |-> "down", agg |-> None]
    /\ UNCHANGED acked

\* Every step of a start: creating, opening, migrating, and cleaning up.
StartSteps ==
    \/ CreateFile \/ CreateFileFails \/ InitTables \/ InitRows \/ InitCommit \/ Sync
    \/ Reopen \/ CreateFails \/ RemoveDb \/ RemoveJournal
    \/ Open \/ MigrateTables \/ MigrateCommit \/ MigrateFails

----------------------------------------------------------------------------
(* Properties.                                                              *)

\* What the store has reported as loaded or stored is what every later start
\* finds, and in a form openExistingLocked accepts: no crash inside a save, an
\* update, the creation or the migration loses it or locks the service out.
AcknowledgedIsLoadable ==
    acked # None =>
        /\ Recovered # None
        /\ Recovered \in {Database(v, acked) : v \in {Legacy, Current}}

\* A creation that fails and whose clean-up reports no error leaves an empty
\* directory, with no journal that validateEmptyStateDir would refuse, so the next
\* LoadOrCreate can retry.
FailedCreateIsRetryable ==
    At("failed") /\ acked = None => db = None /\ journal = None

\* With them, a process serves only from a complete database.
StoreInv == StoreTypeOK /\ AcknowledgedIsLoadable /\ FailedCreateIsRetryable

\* Claimed by the comments on createInitialStateLocked and LoadOrCreate: the
\* creation is transactional and an incomplete database does not stand in the
\* way of a later start.  Not an invariant: a kill during the first creation,
\* or a clean-up that fails, leaves what every later start refuses.
StartIsNeverRefused == ~At("refused")
=============================================================================
