--------------------------- MODULE ProviderProofs ---------------------------
(***************************************************************************)
(* Proofs about login and refresh over the store: whatever fails, is       *)
(* retried or is cut off by a kill, the database stays loadable and whole, *)
(* and after a reported success the stored tokens are the provider's, for  *)
(* any accounts, attempts and number of tokens.  And about when refreshes  *)
(* are scheduled: in time for the session, and spaced after a failure, for *)
(* any lifetimes and intervals.                                            *)
(***************************************************************************)
EXTENDS ProviderRefresh, RefreshSchedule, TLAPS

----------------------------------------------------------------------------
(* The store.                                                               *)

\* Aggregates of one account: none, the iOS session of an older release, or both
\* profiles of one user.
Whole == {a \in [Profiles -> Sessions \cup {NoSession}] :
             a["windows"] = NoSession \/ a["ios"].user = a["windows"].user}

Processes == [at : {"down", "create", "empty", "initTables", "initRows", "sync",
                    "reopen", "removeDb", "removeJournal", "failed", "uncleaned", "open",
                    "refused", "migrate", "migrateRows", "serving", "writing"},
              agg : Whole \cup {None}]

FilesTyped ==
    /\ db \in Files \cup {None} /\ journal \in Files \cup {None}
    /\ entrySynced \in BOOLEAN
    /\ process \in Processes
    /\ acked \in Whole \cup {None}

\* The file of a creation whose tables have no rows yet.
TablesOnly == [EmptyFile EXCEPT !.tables = Current]

\* What a creation that nobody has acknowledged may have left.
Unacknowledged == {None, EmptyFile, TablesOnly, Database(Current, SignedOut)}

\* What opening the database finds: the acknowledged aggregate, or before there is
\* one what the creation has left.
RecoveredKnown ==
    /\ acked # None => Recovered \in {Database(Legacy, acked), Database(Current, acked)}
    /\ acked = None => db \in Unacknowledged /\ journal \in {None, EmptyFile}

\* The file and its journal at each step of the first creation.
CreationStages ==
    /\ process.at \in {"create", "empty", "initTables", "initRows", "sync", "reopen",
                       "removeDb", "removeJournal"} => acked = None
    /\ process.at \in {"create", "empty", "initTables", "initRows", "sync", "reopen"} =>
          process.agg = SignedOut
    /\ At("create") => db = None /\ journal = None
    /\ At("empty") => db = EmptyFile /\ journal = None
    /\ At("initTables") => db = TablesOnly /\ journal = EmptyFile
    /\ At("initRows") => db = Database(Current, SignedOut) /\ journal = EmptyFile
    /\ process.at \in {"sync", "reopen"} => db = Database(Current, SignedOut) /\ journal = None
    /\ At("failed") /\ acked = None => db = None /\ journal = None
    /\ ~entrySynced => acked = None /\ db \in {None, EmptyFile} /\ journal = None

\* The file and its journal while the store is opened, migrated and written.
OpenStages ==
    /\ At("open") => Recovered # None
    /\ process.at \in {"migrate", "migrateRows", "serving", "writing"} => acked # None
    /\ At("migrate") => db = Database(Legacy, acked) /\ journal = None
    /\ At("migrateRows") => /\ db = [Database(Legacy, acked) EXCEPT !.tables = Current]
                            /\ journal = Database(Legacy, acked)
    /\ At("serving") => db = Database(Current, acked) /\ journal = None
    /\ At("writing") => /\ db = Database(Current, None)
                        /\ journal = Database(Current, acked)
                        /\ process.agg # None

\* The inductive invariant of the store.
StoreFollows == FilesTyped /\ RecoveredKnown /\ CreationStages /\ OpenStages

----------------------------------------------------------------------------
(* The operation.                                                           *)

Branches == [at : {"off", "config", "login", "renew", "done", "failed"},
             tries : 1 .. Attempts, session : Sessions \cup {NoSession}]

OperationTyped ==
    /\ op \in {"idle", "sessions", "profiles", "commit", "committing"}
    /\ kind \in {"login", "refresh"}
    /\ branches \in [Profiles -> Branches]
    /\ fetches \in [Calls -> [at : {"off", "call", "ok"}, tries : 1 .. Attempts]]
    /\ valid \in [Profiles -> Sessions \cup {NoSession}]
    /\ succeeded \in BOOLEAN

\* A branch that renews has a session, and one that is done has the session the
\* provider accepts.
BranchesFollow ==
    \A p \in Profiles :
        /\ branches[p].at = "renew" => branches[p].session \in Sessions
        /\ branches[p].at = "config" /\ kind = "refresh" => branches[p].session \in Sessions
        /\ branches[p].at = "done" => branches[p].session = valid[p]

\* Both branches are done before their sessions are used, and what is written is
\* what they brought or, outside an operation, the signed-out aggregate.
OperationFollows ==
    /\ op \in {"sessions", "profiles", "commit"} => At("serving")
    /\ op \in {"profiles", "commit", "committing"} => \A p \in Profiles : branches[p].at = "done"
    /\ op = "committing" => At("writing") /\ process.agg = Aggregate
    /\ At("writing") /\ op = "idle" => process.agg = SignedOut
    /\ op # "idle" => ~succeeded

SuccessIsCurrent == succeeded => acked # None /\ (acked = SignedOut \/ acked = valid)

\* The inductive invariant.
PInv ==
    /\ StoreFollows
    /\ OperationTyped
    /\ BranchesFollow
    /\ OperationFollows
    /\ SuccessIsCurrent
    /\ SessionCallsJoined

----------------------------------------------------------------------------
(* Files.                                                                   *)

\* Every aggregate of one account is a value the store can hold.
LEMMA WholeIsStored == SignedOut \in Whole /\ None \notin Whole /\ Whole \subseteq Aggregates
<1>1. Whole \subseteq Aggregates
  BY AggregatesAreStored DEF Whole, AllAggregates
<1>2. SignedOut \in Whole
  <2>1. SignedOut \in [Profiles -> Sessions \cup {NoSession}]
    BY DEF SignedOut
  <2>2. SignedOut["windows"] = NoSession
    BY DEF SignedOut, Profiles
  <2> QED
    BY <2>1, <2>2 DEF Whole
<1> QED
  BY <1>1, <1>2, StoreConstants

\* A database of a version is a file, and neither absent nor empty.
LEMMA FileFacts ==
    /\ EmptyFile \in Files /\ EmptyFile # None
    /\ EmptyFile.version = 0 /\ EmptyFile.tables = 0
    /\ \A v \in {Legacy, Current} : \A a \in Whole \cup {None} :
          /\ Database(v, a) \in Files /\ Database(v, a) # None /\ Database(v, a) # EmptyFile
          /\ Database(v, a).version = v /\ Database(v, a).tables = v
          /\ Database(v, a).agg = a
<1>1. EmptyFile \in Files /\ EmptyFile # None /\ EmptyFile.version = 0 /\ EmptyFile.tables = 0
  BY NoneIsNoFile DEF EmptyFile, Files
<1>2. ASSUME NEW v \in {Legacy, Current}, NEW a \in Whole \cup {None}
      PROVE  /\ Database(v, a) \in Files /\ Database(v, a) # None /\ Database(v, a) # EmptyFile
             /\ Database(v, a).version = v /\ Database(v, a).tables = v
             /\ Database(v, a).agg = a
  <2>1. Database(v, a).version = v /\ Database(v, a).tables = v /\ Database(v, a).agg = a
    BY DEF Database
  <2>2. Database(v, a) \in Files
    BY WholeIsStored DEF Database, Files
  <2>3. v # 0
    BY DEF Legacy, Current
  <2> QED
    BY <1>1, <2>1, <2>2, <2>3, NoneIsNoFile
<1> QED
  BY <1>1, <1>2

\* A file with tables and no rows is neither absent nor empty, and has no version.
LEMMA TablesOnlyFacts ==
    /\ TablesOnly \in Files /\ TablesOnly # None /\ TablesOnly # EmptyFile
    /\ TablesOnly.tables = Current /\ TablesOnly.version = 0
BY NoneIsNoFile DEF TablesOnly, EmptyFile, Files, Current

\* The files the transactions of creation, migration and update make.
LEMMA PartialFiles ==
    /\ [TablesOnly EXCEPT !.version = Current, !.agg = SignedOut] = Database(Current, SignedOut)
    /\ \A a \in Whole :
          /\ [Database(Legacy, a) EXCEPT !.tables = Current] \in Files
          /\ [[Database(Legacy, a) EXCEPT !.tables = Current] EXCEPT !.version = Current]
                = Database(Current, a)
          /\ [Database(Legacy, a) EXCEPT !.tables = Current].agg = a
    /\ \A a, b \in Whole \cup {None} : [Database(Current, a) EXCEPT !.agg = b] = Database(Current, b)
<1>1. ASSUME NEW f \in Files, NEW g \in Files, f.tables = g.tables, f.version = g.version,
             f.agg = g.agg
      PROVE  f = g
  BY <1>1 DEF Files
<1>3. [TablesOnly EXCEPT !.version = Current, !.agg = SignedOut] = Database(Current, SignedOut)
  <2> DEFINE g == [TablesOnly EXCEPT !.version = Current, !.agg = SignedOut]
  <2>1. g \in Files /\ g.tables = Current /\ g.version = Current /\ g.agg = SignedOut
    BY TablesOnlyFacts, WholeIsStored DEF Files
  <2> HIDE DEF g
  <2>2. g = Database(Current, SignedOut)
    BY <1>1, <2>1, FileFacts, WholeIsStored
  <2> QED
    BY <2>2 DEF g
<1>4. ASSUME NEW a \in Whole
      PROVE  /\ [Database(Legacy, a) EXCEPT !.tables = Current] \in Files
             /\ [[Database(Legacy, a) EXCEPT !.tables = Current] EXCEPT !.version = Current]
                   = Database(Current, a)
             /\ [Database(Legacy, a) EXCEPT !.tables = Current].agg = a
  <2> DEFINE f == [Database(Legacy, a) EXCEPT !.tables = Current]
             g == [f EXCEPT !.version = Current]
  <2>1. f \in Files /\ f.tables = Current /\ f.agg = a
    BY FileFacts DEF Files
  <2> HIDE DEF f
  <2>2. g \in Files /\ g.tables = Current /\ g.version = Current /\ g.agg = a
    BY <2>1 DEF Files
  <2> HIDE DEF g
  <2>3. g = Database(Current, a)
    BY <1>1, <2>2, FileFacts
  <2> QED
    BY <2>1, <2>3 DEF g, f
<1>5. ASSUME NEW a \in Whole \cup {None}, NEW b \in Whole \cup {None}
      PROVE  [Database(Current, a) EXCEPT !.agg = b] = Database(Current, b)
  <2> DEFINE g == [Database(Current, a) EXCEPT !.agg = b]
  <2>1. g \in Files /\ g.tables = Current /\ g.version = Current /\ g.agg = b
    BY FileFacts, WholeIsStored DEF Files
  <2> HIDE DEF g
  <2>2. g = Database(Current, b)
    BY <1>1, <2>1, FileFacts
  <2> QED
    BY <2>2 DEF g
<1> QED
  BY <1>3, <1>4, <1>5

\* The process is in one of its places with an aggregate of one account.
LEMMA GotoKeepsAggregate ==
    ASSUME process \in Processes, NEW p, Goto(p), p \in {"empty", "initTables", "initRows", "sync",
               "reopen", "removeDb", "removeJournal", "failed", "uncleaned", "refused", "migrate",
               "migrateRows", "serving", "writing"}
    PROVE  process' \in Processes /\ process'.at = p /\ process'.agg = process.agg
BY DEF Processes, Goto

\* A directory that is empty or from an earlier release.
LEMMA StoreStart ==
    ASSUME StoreInit, acked \in Whole \cup {None} PROVE StoreFollows
<1>1. /\ journal = None /\ entrySynced = TRUE /\ process.at = "down" /\ process \in Processes
      /\ acked = None => db = None
      /\ acked # None => db = Database(Legacy, acked)
  BY DEF StoreInit, Processes
<1>2. FilesTyped
  BY <1>1, FileFacts DEF FilesTyped
<1>3. RecoveredKnown
  BY <1>1, FileFacts DEF RecoveredKnown, Unacknowledged, Recovered
<1> QED
  BY <1>1, <1>2, <1>3 DEF StoreFollows, CreationStages, OpenStages, At

\* LoadOrCreate chooses between opening and creating.
LEMMA StartChooses == ASSUME StoreFollows, Start(SignedOut) PROVE StoreFollows'
<1>1. /\ process' \in Processes /\ process'.agg = SignedOut
      /\ process'.at \in {"open", "create", "refused"}
      /\ process'.at = "open" => db # None
      /\ process'.at = "create" => db = None /\ journal = None
  <2> DEFINE place == CASE db # None -> "open"
                        [] db = None /\ journal = None -> "create"
                        [] OTHER -> "refused"
  <2>1. /\ place \in {"open", "create", "refused"}
        /\ place = "open" => db # None
        /\ place = "create" => db = None /\ journal = None
    BY Zenon
  <2>2. process' = [agg |-> SignedOut, at |-> place]
    BY DEF Start
  <2> HIDE DEF place
  <2> QED
    BY <2>1, <2>2, WholeIsStored DEF Processes
<1>2. UNCHANGED <<db, journal, entrySynced, acked>>
  BY DEF Start
<1>3. Recovered' = Recovered /\ (db # None => Recovered # None)
  BY <1>2 DEF Recovered
<1>4. process'.at = "create" => acked = None
  BY <1>1, FileFacts DEF StoreFollows, RecoveredKnown, Recovered, FilesTyped
<1> QED
  BY <1>1, <1>2, <1>3, <1>4
     DEF StoreFollows, FilesTyped, RecoveredKnown, CreationStages, OpenStages, At

----------------------------------------------------------------------------
(* Steps of the store.                                                      *)

\* Each step of the first creation, and its clean-up, keeps the stages.
LEMMA CreationKeeps ==
    ASSUME StoreFollows,
           \/ CreateFile \/ CreateFileFails \/ InitTables \/ InitRows \/ InitCommit \/ Sync
           \/ RemoveDb \/ RemoveJournal
    PROVE  StoreFollows' /\ acked' = acked
<1>0. process \in Processes /\ acked \in Whole \cup {None}
  BY DEF StoreFollows, FilesTyped
<1>1. CASE CreateFile
  <2>1. process' \in Processes /\ process'.at = "empty" /\ process'.agg = process.agg
    BY <1>0, <1>1, GotoKeepsAggregate DEF CreateFile
  <2>2. db' = EmptyFile /\ entrySynced' = FALSE /\ UNCHANGED <<journal, acked>>
    BY <1>0, <1>1 DEF CreateFile, StoreFollows, CreationStages, OpenStages, At
  <2> QED
    BY <1>0, <1>1, <2>1, <2>2, FileFacts, WholeIsStored, TablesOnlyFacts
       DEF CreateFile, StoreFollows, FilesTyped, RecoveredKnown, Unacknowledged,
           CreationStages, OpenStages,
           At, Recovered
<1>2. CASE CreateFileFails
  <2>1. process' \in Processes /\ process'.at = "failed" /\ process'.agg = process.agg
    BY <1>0, <1>2, GotoKeepsAggregate DEF CreateFileFails
  <2>2. /\ UNCHANGED <<db, journal, entrySynced, acked>>
        /\ db = None /\ journal = None /\ acked = None
    BY <1>0, <1>2 DEF CreateFileFails, StoreFollows, CreationStages, OpenStages, At
  <2> QED
    BY <1>0, <2>1, <2>2, FileFacts, WholeIsStored
       DEF StoreFollows, FilesTyped, RecoveredKnown, CreationStages, OpenStages, At, Recovered
<1>3. CASE InitTables
  <2>1. process' \in Processes /\ process'.at = "initTables" /\ process'.agg = process.agg
    BY <1>0, <1>3, GotoKeepsAggregate DEF InitTables
  <2>2. journal' = EmptyFile /\ db' = TablesOnly /\ entrySynced' = TRUE /\ acked' = acked
    BY <1>0, <1>3 DEF InitTables, TablesOnly, StoreFollows, CreationStages, OpenStages, At
  <2> QED
    BY <1>0, <1>3, <2>1, <2>2, FileFacts, WholeIsStored, TablesOnlyFacts
       DEF InitTables, StoreFollows, FilesTyped, RecoveredKnown, Unacknowledged,
           CreationStages, OpenStages,
           At, Recovered
<1>4. CASE InitRows
  <2>1. process' \in Processes /\ process'.at = "initRows" /\ process'.agg = process.agg
    BY <1>0, <1>4, GotoKeepsAggregate DEF InitRows
  <2>2. /\ db' = Database(Current, SignedOut) /\ UNCHANGED <<journal, entrySynced, acked>>
        /\ journal = EmptyFile /\ acked = None /\ process.agg = SignedOut
    BY <1>0, <1>4, PartialFiles DEF InitRows, StoreFollows, CreationStages, OpenStages, At
  <2> QED
    BY <1>0, <2>1, <2>2, FileFacts, WholeIsStored
       DEF StoreFollows, FilesTyped, RecoveredKnown, Unacknowledged, CreationStages, OpenStages, At, Recovered
<1>5. CASE InitCommit
  <2>1. process' \in Processes /\ process'.at = "sync" /\ process'.agg = process.agg
    BY <1>0, <1>5, GotoKeepsAggregate DEF InitCommit
  <2>2. journal' = None /\ UNCHANGED <<db, entrySynced, acked>>
    BY <1>0, <1>5 DEF InitCommit, StoreFollows, CreationStages, OpenStages, At
  <2> QED
    BY <1>0, <1>5, <2>1, <2>2, FileFacts, WholeIsStored, TablesOnlyFacts
       DEF InitCommit, StoreFollows, FilesTyped, RecoveredKnown, Unacknowledged,
           CreationStages, OpenStages,
           At, Recovered
<1>6. CASE Sync
  <2>1. process' \in Processes /\ process'.at = "reopen" /\ process'.agg = process.agg
    BY <1>0, <1>6, GotoKeepsAggregate DEF Sync, SyncDirectory
  <2>2. entrySynced' = TRUE /\ UNCHANGED <<db, journal, acked>>
    BY <1>0, <1>6 DEF Sync, SyncDirectory, StoreFollows, CreationStages, OpenStages, At
  <2> QED
    BY <1>0, <1>6, <2>1, <2>2, FileFacts, WholeIsStored, TablesOnlyFacts
       DEF Sync, StoreFollows, FilesTyped, RecoveredKnown, Unacknowledged, CreationStages, OpenStages, At, Recovered
<1>7. CASE RemoveDb
  <2>1. process' \in Processes /\ process'.at = "removeJournal" /\ process'.agg = process.agg
    BY <1>0, <1>7, GotoKeepsAggregate DEF RemoveDb
  <2>2. db' \in {None, db} /\ UNCHANGED <<journal, entrySynced, acked>>
    BY <1>0, <1>7 DEF RemoveDb, StoreFollows, CreationStages, OpenStages, At
  <2> QED
    BY <1>0, <1>7, <2>1, <2>2, FileFacts, WholeIsStored, TablesOnlyFacts
       DEF RemoveDb, StoreFollows, FilesTyped, RecoveredKnown, Unacknowledged, CreationStages, OpenStages, At,
           Recovered
<1>8. CASE RemoveJournal
  <2>1. /\ process' \in Processes /\ process'.at \in {"failed", "uncleaned"}
        /\ process'.at = "failed" => db = None /\ journal' = None
    BY <1>0, <1>8, GotoKeepsAggregate DEF RemoveJournal
  <2>2. /\ journal' \in {None, journal}
        /\ entrySynced' = TRUE \/ entrySynced' = entrySynced
        /\ UNCHANGED <<db, acked>> /\ acked = None
        /\ db \in Unacknowledged /\ journal \in {None, EmptyFile}
    BY <1>8 DEF RemoveJournal, StoreFollows, RecoveredKnown, CreationStages, At
  <2>3. FilesTyped' /\ RecoveredKnown'
    BY <2>1, <2>2 DEF StoreFollows, FilesTyped, RecoveredKnown
  <2>4. ~entrySynced' => ~entrySynced
    BY <2>2
  <2>5. CreationStages'
    BY <2>1, <2>2, <2>4 DEF StoreFollows, CreationStages, At
  <2>6. OpenStages'
    BY <2>1 DEF OpenStages, At
  <2> QED
    BY <2>2, <2>3, <2>5, <2>6 DEF StoreFollows
<1> QED
  BY <1>1, <1>2, <1>3, <1>4, <1>5, <1>6, <1>7, <1>8
     DEF CreateFile, CreateFileFails, InitTables, InitRows, InitCommit, Sync, RemoveDb,
         RemoveJournal

\* A creation that fails goes to its clean-up.
LEMMA CreateFailsKeeps == ASSUME StoreFollows, CreateFails PROVE StoreFollows' /\ acked' = acked
<1>1. /\ process \in Processes /\ acked = None /\ acked' = acked /\ entrySynced' = entrySynced
      /\ Goto("removeDb")
      /\ process.at \in {"empty", "initTables", "initRows", "sync", "reopen"}
  BY DEF CreateFails, StoreFollows, FilesTyped, CreationStages
<1>2. process' \in Processes /\ process'.at = "removeDb"
  BY <1>1, GotoKeepsAggregate
<1>3. \/ db' = Recovered /\ journal' = None
      \/ UNCHANGED <<db, journal>>
  BY DEF CreateFails
<1>4. Recovered' = Recovered
  BY <1>3 DEF Recovered
<1>5. /\ db' \in Files \cup {None} /\ db' \in Unacknowledged /\ journal' \in {None, EmptyFile}
      /\ ~entrySynced => db' \in {None, EmptyFile} /\ journal' = None
  BY <1>1, <1>3, FileFacts
     DEF StoreFollows, FilesTyped, RecoveredKnown, CreationStages, Recovered, Unacknowledged
<1> QED
  BY <1>1, <1>2, <1>4, <1>5, FileFacts
     DEF StoreFollows, FilesTyped, RecoveredKnown, CreationStages, OpenStages, At

\* The first creation is acknowledged when the store is opened again.
LEMMA ReopenKeeps == ASSUME StoreFollows, Reopen PROVE StoreFollows' /\ acked' = SignedOut
<1>1. /\ process \in Processes /\ acked = None /\ acked' = SignedOut /\ entrySynced' = entrySynced
      /\ db = Database(Current, SignedOut) /\ journal = None /\ UNCHANGED <<db, journal>>
      /\ Goto("serving") /\ entrySynced
  BY FileFacts, WholeIsStored DEF Reopen, StoreFollows, FilesTyped, CreationStages, At
<1>2. process' \in Processes /\ process'.at = "serving"
  BY <1>1, GotoKeepsAggregate
<1> QED
  BY <1>1, <1>2, FileFacts, WholeIsStored
     DEF StoreFollows, FilesTyped, RecoveredKnown, CreationStages, OpenStages, At, Recovered

\* Opening finds the acknowledged aggregate, or the one of an unacknowledged
\* creation, or refuses.
LEMMA OpenKeeps ==
    ASSUME StoreFollows, Open
    PROVE  StoreFollows' /\ (acked' = acked \/ (acked = None /\ acked' = SignedOut))
<1>1. /\ process \in Processes /\ acked \in Whole \cup {None} /\ entrySynced \in BOOLEAN
      /\ Recovered # None
      /\ acked # None => Recovered \in {Database(Legacy, acked), Database(Current, acked)}
      /\ acked = None => Recovered \in {EmptyFile, TablesOnly, Database(Current, SignedOut)}
      /\ ~entrySynced => acked = None /\ Recovered = EmptyFile
  BY FileFacts DEF Open, StoreFollows, FilesTyped, RecoveredKnown, CreationStages, OpenStages,
                   At, Recovered, Unacknowledged
<1>2. /\ db' = Recovered /\ journal' = None /\ entrySynced' = entrySynced
      /\ Recovered' = Recovered /\ Recovered \in Files
  BY <1>1, FileFacts, WholeIsStored, TablesOnlyFacts DEF Open, Recovered
<1>3. \/ Goto("refused") /\ acked' = acked
      \/ Recovered.version = Legacy /\ Goto("migrate") /\ acked' = acked
      \/ /\ Recovered.version = Current
         /\ Goto("serving") /\ acked' = Recovered.agg
  BY <1>2 DEF Open
<1>4. CASE Goto("refused") /\ acked' = acked
  <2>1. process' \in Processes /\ process'.at = "refused"
    BY <1>1, <1>4, GotoKeepsAggregate
  <2>2. FilesTyped' /\ RecoveredKnown'
    BY <1>1, <1>2, <1>4, <2>1 DEF FilesTyped, RecoveredKnown, Unacknowledged
  <2>3. CreationStages' /\ OpenStages'
    BY <1>1, <1>2, <1>4, <2>1 DEF CreationStages, OpenStages, At
  <2> QED
    BY <1>4, <2>2, <2>3 DEF StoreFollows
<1>5. CASE Recovered.version = Legacy /\ Goto("migrate") /\ acked' = acked
  <2>1. process' \in Processes /\ process'.at = "migrate"
    BY <1>1, <1>5, GotoKeepsAggregate
  <2>2. acked # None /\ Recovered = Database(Legacy, acked)
    BY <1>1, <1>5, FileFacts, TablesOnlyFacts, WholeIsStored DEF Legacy, Current
  <2>3. FilesTyped' /\ RecoveredKnown'
    BY <1>1, <1>2, <1>5, <2>1, <2>2 DEF FilesTyped, RecoveredKnown
  <2>4. CreationStages' /\ OpenStages'
    BY <1>1, <1>2, <1>5, <2>1, <2>2 DEF CreationStages, OpenStages, At
  <2> QED
    BY <1>5, <2>3, <2>4 DEF StoreFollows
<1>6. CASE Recovered.version = Current /\ Goto("serving") /\ acked' = Recovered.agg
  <2>1. process' \in Processes /\ process'.at = "serving"
    BY <1>1, <1>6, GotoKeepsAggregate
  <2>2. \/ acked # None /\ Recovered = Database(Current, acked)
        \/ acked = None /\ Recovered = Database(Current, SignedOut)
    BY <1>1, <1>6, FileFacts, TablesOnlyFacts, WholeIsStored DEF Legacy, Current
  <2>3. /\ acked' \in Whole /\ Recovered = Database(Current, acked')
        /\ acked' = acked \/ (acked = None /\ acked' = SignedOut)
    <3>1. CASE acked # None /\ Recovered = Database(Current, acked)
      BY <1>1, <1>6, <3>1, FileFacts
    <3>2. CASE acked = None /\ Recovered = Database(Current, SignedOut)
      BY <1>6, <3>2, FileFacts, WholeIsStored
    <3> QED
      BY <2>2, <3>1, <3>2
  <2>4. entrySynced
    BY <1>1, <1>6, FileFacts DEF Current
  <2> QED
    BY <1>1, <1>2, <2>1, <2>3, <2>4, WholeIsStored
       DEF StoreFollows, FilesTyped, RecoveredKnown, CreationStages, OpenStages, At
<1> QED
  BY <1>3, <1>4, <1>5, <1>6

\* The migration of an older release's database keeps its aggregate.
LEMMA MigrationKeeps ==
    ASSUME StoreFollows, MigrateTables \/ MigrateCommit \/ MigrateFails
    PROVE  StoreFollows' /\ acked' = acked
<1>0. /\ process \in Processes /\ acked \in Whole /\ entrySynced /\ entrySynced' = entrySynced
      /\ acked # None
  BY DEF StoreFollows, FilesTyped, OpenStages, CreationStages, MigrateTables, MigrateCommit,
         MigrateFails, At
<1>1. CASE MigrateTables
  <2>1. process' \in Processes /\ process'.at = "migrateRows"
    BY <1>0, <1>1, GotoKeepsAggregate DEF MigrateTables
  <2>2. /\ journal' = Database(Legacy, acked)
        /\ db' = [Database(Legacy, acked) EXCEPT !.tables = Current] /\ acked' = acked
    BY <1>1 DEF MigrateTables, BeginMigration, StoreFollows, OpenStages, At
  <2> QED
    BY <1>0, <2>1, <2>2, FileFacts, PartialFiles
       DEF StoreFollows, FilesTyped, RecoveredKnown, CreationStages, OpenStages, At, Recovered
<1>2. CASE MigrateCommit
  <2>1. process' \in Processes /\ process'.at = "serving"
    BY <1>0, <1>2, GotoKeepsAggregate DEF MigrateCommit
  <2>2. db = [Database(Legacy, acked) EXCEPT !.tables = Current]
    BY <1>2 DEF MigrateCommit, StoreFollows, OpenStages, At
  <2>3. journal' = None /\ db' = Database(Current, acked) /\ acked' = acked
    BY <1>0, <1>2, <2>2, PartialFiles DEF MigrateCommit
  <2> QED
    BY <1>0, <2>1, <2>3, FileFacts
       DEF StoreFollows, FilesTyped, RecoveredKnown, CreationStages, OpenStages, At, Recovered
<1>3. CASE MigrateFails
  <2>1. process' \in Processes /\ process'.at = "failed"
    BY <1>0, <1>3, GotoKeepsAggregate DEF MigrateFails
  <2>2. /\ acked' = acked
        /\ \/ db' = Recovered /\ journal' = None
           \/ UNCHANGED <<db, journal>>
    BY <1>3 DEF MigrateFails
  <2>3. Recovered' = Recovered /\ db' \in Files \cup {None} /\ journal' \in Files \cup {None}
    BY <1>0, <2>2 DEF Recovered, StoreFollows, FilesTyped
  <2> QED
    BY <1>0, <2>1, <2>2, <2>3
       DEF StoreFollows, FilesTyped, RecoveredKnown, CreationStages, OpenStages, At
<1> QED
  BY <1>1, <1>2, <1>3

\* A start never changes what was acknowledged.
LEMMA StartKeeps ==
    ASSUME StoreFollows, Start(SignedOut) \/ StartSteps
    PROVE  StoreFollows' /\ (acked' = acked \/ (acked = None /\ acked' = SignedOut))
<1>1. CASE Start(SignedOut)
  <2>1. StoreFollows'
    BY <1>1, StartChooses
  <2> QED
    BY <1>1, <2>1 DEF Start
<1>2. CASE \/ CreateFile \/ CreateFileFails \/ InitTables \/ InitRows \/ InitCommit \/ Sync
           \/ RemoveDb \/ RemoveJournal
  BY <1>2, CreationKeeps
<1>3. CASE CreateFails
  BY <1>3, CreateFailsKeeps
<1>4. CASE Reopen
  <2>1. StoreFollows' /\ acked' = SignedOut
    BY <1>4, ReopenKeeps
  <2>2. acked = None
    BY <1>4 DEF Reopen, StoreFollows, CreationStages, At
  <2> QED
    BY <2>1, <2>2
<1>5. CASE Open
  BY <1>5, OpenKeeps
<1>6. CASE MigrateTables \/ MigrateCommit \/ MigrateFails
  BY <1>6, MigrationKeeps
<1> QED
  BY <1>1, <1>2, <1>3, <1>4, <1>5, <1>6 DEF StartSteps

\* A write begins on the served database; its journal keeps the acknowledged one.
LEMMA BeginWriteKeeps ==
    ASSUME StoreFollows, NEW a \in Whole, BeginWrite(a)
    PROVE  /\ StoreFollows' /\ acked' = acked
           /\ process'.at = "writing" /\ process'.agg = a
<1>1. /\ acked \in Whole /\ acked # None /\ entrySynced /\ db = Database(Current, acked)
      /\ journal = None /\ At("serving")
  BY DEF BeginWrite, StoreFollows, FilesTyped, CreationStages, OpenStages, At
<1>2. process' \in Processes /\ process'.at = "writing" /\ process'.agg = a
  BY DEF BeginWrite, Processes
<1>3. /\ journal' = Database(Current, acked) /\ db' = Database(Current, None)
      /\ acked' = acked /\ entrySynced' = entrySynced
  BY <1>1, PartialFiles DEF BeginWrite
<1>4. a # None
  BY WholeIsStored
<1> QED
  BY <1>1, <1>2, <1>3, <1>4, FileFacts
     DEF StoreFollows, FilesTyped, RecoveredKnown, CreationStages, OpenStages, At, Recovered

\* A write that commits is acknowledged; one that rolls back leaves the old state.
LEMMA EndWriteKeeps ==
    ASSUME StoreFollows, CommitWrite \/ RollbackWrite
    PROVE  /\ StoreFollows' /\ process'.at = "serving"
           /\ CommitWrite => acked' = process.agg
           /\ RollbackWrite => acked' = acked
<1>1. /\ process \in Processes /\ acked \in Whole /\ acked # None /\ entrySynced
      /\ db = Database(Current, None) /\ journal = Database(Current, acked)
      /\ process.agg \in Whole
  BY DEF CommitWrite, RollbackWrite, StoreFollows, FilesTyped, CreationStages, OpenStages, At,
         Processes
<1>2. process' \in Processes /\ process'.at = "serving"
  BY <1>1, GotoKeepsAggregate DEF CommitWrite, RollbackWrite
<1>3. entrySynced' = entrySynced /\ journal' = None
  BY DEF CommitWrite, RollbackWrite
<1>4. /\ CommitWrite => acked' = process.agg /\ db' = Database(Current, process.agg)
      /\ RollbackWrite => acked' = acked /\ db' = Database(Current, acked)
  <2>1. CommitWrite => acked' = process.agg /\ db' = Database(Current, process.agg)
    BY <1>1, PartialFiles DEF CommitWrite
  <2>2. Recovered = Database(Current, acked)
    BY <1>1, FileFacts DEF Recovered
  <2>3. RollbackWrite => acked' = acked /\ db' = Database(Current, acked)
    BY <2>2 DEF RollbackWrite
  <2> QED
    BY <2>1, <2>3
<1>5. acked' \in Whole /\ acked' # None /\ db' = Database(Current, acked')
  BY <1>1, <1>4, WholeIsStored
<1> QED
  BY <1>1, <1>2, <1>3, <1>4, <1>5, FileFacts
     DEF StoreFollows, FilesTyped, RecoveredKnown, CreationStages, OpenStages, At, Recovered

\* A process that ends or is killed leaves what the next start can recover.
LEMMA StopKeeps ==
    ASSUME StoreFollows, Exit \/ Crash
    PROVE  StoreFollows' /\ acked' = acked /\ process'.at = "down"
<1>1. process' \in Processes /\ process'.at = "down" /\ acked' = acked
  BY DEF Exit, Crash, Processes
<1>2. CASE Exit
  <2>1. UNCHANGED <<db, journal, entrySynced>>
    BY <1>2 DEF Exit
  <2> QED
    BY <1>1, <2>1
       DEF StoreFollows, FilesTyped, RecoveredKnown, CreationStages, OpenStages, At, Recovered
<1>3. CASE Kill /\ Crash
  <2>1. UNCHANGED <<db, journal, entrySynced>>
    BY <1>3 DEF Kill
  <2> QED
    BY <1>1, <2>1
       DEF StoreFollows, FilesTyped, RecoveredKnown, CreationStages, OpenStages, At, Recovered
<1>4. CASE EntryLost /\ Crash
  <2>1. acked = None /\ db' = None /\ journal' = None /\ entrySynced' = TRUE
    BY <1>4 DEF EntryLost, StoreFollows, CreationStages
  <2> QED
    BY <1>1, <2>1 DEF StoreFollows, FilesTyped, RecoveredKnown, Unacknowledged, CreationStages,
                      OpenStages, At
<1> QED
  BY <1>2, <1>3, <1>4 DEF Crash

----------------------------------------------------------------------------
(* Steps of an operation.                                                   *)

\* Retries and tokens stay within their bounds.
LEMMA Bounds ==
    /\ 1 \in 1 .. Attempts
    /\ \A t \in 1 .. Attempts : NextTry(t) \in 1 .. Attempts
    /\ \A s \in Sessions \cup {NoSession} : s.token \in 0 .. MaxTokens
    /\ NoSession \notin Sessions
<1>1. 1 \in 1 .. Attempts
  BY ProviderConstants
<1>2. ASSUME NEW t \in 1 .. Attempts PROVE NextTry(t) \in 1 .. Attempts
  <2>1. t \in Nat /\ Attempts \in Nat /\ Attempts > 0
    BY ProviderConstants
  <2>2. t % Attempts \in 0 .. (Attempts - 1)
    BY <2>1
  <2> QED
    BY <2>1, <2>2 DEF NextTry
<1>3. ASSUME NEW s \in Sessions \cup {NoSession} PROVE s.token \in 0 .. MaxTokens
  BY ProviderConstants DEF Sessions, NoSession
<1>4. NoSession \notin Sessions
  BY DEF Sessions, NoSession
<1> QED
  BY <1>1, <1>2, <1>3, <1>4

\* The first state of the process and the provider.
LEMMA ProviderInit == Init => PInv
<1> SUFFICES ASSUME Init PROVE PInv
  OBVIOUS
<1>1. acked \in Whole \cup {None}
  <2>1. ASSUME NEW u \in Users
        PROVE  [SignedOut EXCEPT !["ios"] = [user |-> u, token |-> 1]] \in Whole
    <3>1. [user |-> u, token |-> 1] \in Sessions
      BY ProviderConstants DEF Sessions
    <3>2. [SignedOut EXCEPT !["ios"] = [user |-> u, token |-> 1]] \in
             [Profiles -> Sessions \cup {NoSession}]
      BY <3>1 DEF SignedOut, Profiles
    <3>3. [SignedOut EXCEPT !["ios"] = [user |-> u, token |-> 1]]["windows"] = NoSession
      BY DEF SignedOut, Profiles
    <3> QED
      BY <3>2, <3>3 DEF Whole
  <2> QED
    BY <2>1, WholeIsStored DEF Init
<1>2. StoreFollows
  BY <1>1, StoreStart DEF Init
<1>3. OperationTyped
  <2>1. Off \in Branches /\ NoFetch \in [at : {"off", "call", "ok"}, tries : 1 .. Attempts]
    BY Bounds DEF Off, NoFetch, Branches
  <2>2. valid \in [Profiles -> Sessions \cup {NoSession}]
    <3>1. CASE acked = None
      BY <3>1, WholeIsStored DEF Init, Whole
    <3>2. CASE acked # None
      BY <1>1, <3>2 DEF Init, Whole
    <3> QED
      BY <3>1, <3>2
  <2> QED
    BY <2>1, <2>2 DEF Init, OperationTyped
<1>4. \A p \in Profiles : branches[p].at = "off"
  BY DEF Init, Off
<1>5. BranchesFollow /\ SessionCallsJoined
  BY <1>4 DEF BranchesFollow, SessionCallsJoined
<1>6. OperationFollows /\ SuccessIsCurrent
  BY DEF Init, StoreInit, OperationFollows, SuccessIsCurrent, At
<1> QED
  BY <1>2, <1>3, <1>5, <1>6 DEF PInv

\* A start is under way only without an operation, and begins no write.
LEMMA StartPlaces ==
    ASSUME process \in Processes, Start(SignedOut) \/ StartSteps
    PROVE  process.at \notin {"serving", "writing"} /\ process'.at # "writing"
<1>1. CASE Start(SignedOut)
  <2>2. process'.at # "writing"
    <3> DEFINE place == CASE db # None -> "open"
                          [] db = None /\ journal = None -> "create"
                          [] OTHER -> "refused"
    <3>1. place \in {"open", "create", "refused"}
      BY Zenon
    <3>2. process' = [agg |-> SignedOut, at |-> place]
      BY <1>1 DEF Start
    <3> HIDE DEF place
    <3> QED
      BY <3>1, <3>2
  <2> QED
    BY <1>1, <2>2 DEF Start, At
<1>2. CASE StartSteps
  <2>1. \E p \in {"empty", "initTables", "initRows", "sync", "reopen", "removeDb",
                  "removeJournal", "failed", "uncleaned", "refused", "migrate", "migrateRows",
                  "serving"} :
           Goto(p)
    BY <1>2 DEF StartSteps, CreateFile, CreateFileFails, InitTables, InitRows, InitCommit,
                Sync, SyncDirectory, Reopen, CreateFails, RemoveDb, RemoveJournal, Open,
                MigrateTables, MigrateCommit, MigrateFails
  <2>2. process'.at # "writing"
    BY <2>1, GotoKeepsAggregate
  <2>3. process.at \notin {"serving", "writing"}
    BY <1>2 DEF StartSteps, CreateFile, CreateFileFails, InitTables, InitRows, InitCommit,
                Sync, Reopen, CreateFails, RemoveDb, RemoveJournal, Open,
                MigrateTables, MigrateCommit, MigrateFails, At
  <2> QED
    BY <2>2, <2>3
<1> QED
  BY <1>1, <1>2

\* Starting the process leaves the provider and its tokens alone.
LEMMA StartStep ==
    ASSUME PInv, Start(SignedOut) \/ StartSteps, UNCHANGED opVars PROVE PInv'
<1>1. StoreFollows' /\ (acked' = acked \/ (acked = None /\ acked' = SignedOut))
  BY StartKeeps DEF PInv
<1>2. process.at \notin {"serving", "writing"} /\ process'.at # "writing"
  BY StartPlaces DEF PInv, StoreFollows, FilesTyped
<1>3. op = "idle"
  BY <1>2 DEF PInv, OperationTyped, OperationFollows, At
<1>4. OperationTyped' /\ BranchesFollow' /\ SessionCallsJoined'
  BY DEF PInv, opVars, OperationTyped, BranchesFollow, SessionCallsJoined
<1>5. OperationFollows'
  BY <1>2, <1>3 DEF opVars, OperationFollows, At
<1>6. SuccessIsCurrent'
  BY <1>1 DEF PInv, opVars, SuccessIsCurrent
<1> QED
  BY <1>1, <1>4, <1>5, <1>6 DEF PInv

\* Login and Refresh start both branches from the beginning.
LEMMA BeginStep == ASSUME PInv, BeginLogin \/ BeginRefresh PROVE PInv'
<1>0. SignedOut \in [Profiles -> Sessions \cup {NoSession}]
  BY DEF SignedOut
<1>1. PICK k \in {"login", "refresh"}, so \in [Profiles -> Sessions \cup {NoSession}] :
         Begin(k, so) /\ (k = "refresh" => \A p \in Profiles : so[p] \in Sessions)
  <2>1. CASE BeginLogin
    BY <1>0, <2>1 DEF BeginLogin
  <2>2. CASE BeginRefresh
    <3>1. acked \in [Profiles -> Sessions \cup {NoSession}]
      BY <2>2 DEF BeginRefresh, PInv, StoreFollows, FilesTyped, OpenStages, At, Whole
    <3>2. \A p \in Profiles : acked[p] \in Sessions
      BY <2>2, <3>1 DEF BeginRefresh
    <3> QED
      BY <2>2, <3>1, <3>2 DEF BeginRefresh
  <2> QED
    BY <2>1, <2>2
<1>2. /\ At("serving") /\ op = "idle" /\ op' = "sessions" /\ kind' = k /\ succeeded' = FALSE
      /\ UNCHANGED <<storeVars, fetches, valid>>
  BY <1>1 DEF Begin
<1>3. /\ branches' \in [Profiles -> Branches]
      /\ \A p \in Profiles : branches'[p].at = "config" /\ branches'[p].session = so[p]
  BY <1>1, Bounds DEF Begin, Branches
<1>4. StoreFollows'
  BY <1>2 DEF PInv, StoreFollows, FilesTyped, RecoveredKnown, CreationStages, OpenStages, At,
              Recovered, storeVars
<1>5. OperationTyped'
  BY <1>2, <1>3 DEF PInv, OperationTyped
<1>6. BranchesFollow'
  BY <1>1, <1>2, <1>3 DEF BranchesFollow
<1> QED
  BY <1>2, <1>4, <1>5, <1>6
     DEF PInv, OperationFollows, SuccessIsCurrent, SessionCallsJoined, At, storeVars

\* One profile's goroutine goes on; a branch that ends holds the session the
\* provider now accepts.
LEMMA BranchStep ==
    ASSUME PInv, op = "sessions", NEW p \in Profiles, NEW b \in Branches, SetBranch(p, b),
           valid' \in [Profiles -> Sessions \cup {NoSession}],
           \A q \in Profiles : q # p => valid'[q] = valid[q],
           b.at = "renew" => b.session \in Sessions,
           b.at = "config" /\ kind = "refresh" => b.session \in Sessions,
           b.at = "done" => b.session = valid'[p],
           UNCHANGED <<storeVars, op, kind, fetches, succeeded>>
    PROVE  PInv'
<1>1. /\ branches' \in [Profiles -> Branches] /\ branches'[p] = b
      /\ \A q \in Profiles : q # p => branches'[q] = branches[q]
  BY DEF SetBranch, PInv, OperationTyped
<1>2. StoreFollows'
  BY DEF PInv, StoreFollows, FilesTyped, RecoveredKnown, CreationStages, OpenStages, At,
         Recovered, storeVars
<1>3. OperationTyped'
  BY <1>1 DEF PInv, OperationTyped
<1>4. BranchesFollow'
  BY <1>1 DEF PInv, BranchesFollow
<1>5. succeeded = FALSE /\ At("serving")
  BY DEF PInv, OperationFollows, OperationTyped
<1> QED
  BY <1>2, <1>3, <1>4, <1>5
     DEF PInv, OperationFollows, SuccessIsCurrent, SessionCallsJoined, At, storeVars

\* A call without an answer leaves the branch where it was or ends it.
LEMMA NoAnswerStays ==
    ASSUME NEW b \in Branches, NEW c \in NoAnswer(b)
    PROVE  c \in Branches /\ c.session = b.session /\ c.at \in {b.at, "failed"}
<1>1. CASE c = [b EXCEPT !.at = "failed"]
  BY <1>1 DEF Branches
<1>2. CASE c = [b EXCEPT !.tries = NextTry(b.tries)]
  <2>1. NextTry(b.tries) \in 1 .. Attempts
    BY Bounds DEF Branches
  <2> QED
    BY <1>2, <2>1 DEF Branches
<1> QED
  BY <1>1, <1>2 DEF NoAnswer

\* FetchClientConfig, the login and the renewal of one profile.
LEMMA SessionCallStep ==
    ASSUME PInv, NEW p \in Profiles, FetchClientConfig(p) \/ Login(p) \/ RefreshSession(p)
    PROVE  PInv'
<1>0. /\ op = "sessions" /\ branches[p] \in Branches
      /\ valid \in [Profiles -> Sessions \cup {NoSession}]
      /\ UNCHANGED <<storeVars, op, kind, fetches, succeeded>>
      /\ branches[p].at = "renew" => branches[p].session \in Sessions
      /\ branches[p].at = "config" /\ kind = "refresh" => branches[p].session \in Sessions
      /\ branches[p].at \in {"config", "login", "renew"}
  BY DEF PInv, OperationTyped, BranchesFollow, FetchClientConfig, Login, RefreshSession
<1>1. ASSUME NEW s \in Sessions \cup {NoSession}, NEW place \in {"login", "renew", "done"}
      PROVE  /\ Advance(branches[p], place, s) \in Branches
             /\ Advance(branches[p], place, s).at = place
             /\ Advance(branches[p], place, s).session = s
  BY Bounds DEF Advance, Branches
<1>2. ASSUME NEW b \in NoAnswer(branches[p]), SetBranch(p, b),
             valid' \in [Profiles -> Sessions \cup {NoSession}],
             \A q \in Profiles : q # p => valid'[q] = valid[q]
      PROVE  PInv'
  <2>1. b \in Branches /\ b.session = branches[p].session /\ b.at \in {branches[p].at, "failed"}
    BY <1>0, <1>2, NoAnswerStays
  <2>2. /\ b.at = "renew" => b.session \in Sessions
        /\ b.at = "config" /\ kind = "refresh" => b.session \in Sessions
        /\ b.at # "done"
    BY <1>0, <2>1
  <2> QED
    BY <1>0, <1>2, <2>1, <2>2, BranchStep
<1>3. ASSUME NEW u \in Users, valid[p].token < MaxTokens
      PROVE  Issue(p, u) \in Sessions
  <2>1. valid[p].token \in 0 .. MaxTokens
    BY <1>0, Bounds
  <2>2. valid[p].token + 1 \in 1 .. MaxTokens
    BY <1>3, <2>1, ProviderConstants
  <2> QED
    BY <2>2 DEF Issue, Sessions
<1>4. CASE FetchClientConfig(p)
  <2> DEFINE place == IF kind = "login" THEN "login" ELSE "renew"
             next == Advance(branches[p], place, branches[p].session)
  <2>1. branches[p].at = "config" /\ valid' = valid
    BY <1>4 DEF FetchClientConfig
  <2>2. /\ place \in {"login", "renew", "done"} /\ place \notin {"config", "done"}
        /\ place = "renew" => kind = "refresh"
    BY DEF PInv, OperationTyped
  <2>3. branches[p].session \in Sessions \cup {NoSession}
    BY <1>0 DEF Branches
  <2>4. PICK b \in NoAnswer(branches[p]) \cup {next} : SetBranch(p, b)
    BY <1>4 DEF FetchClientConfig
  <2> HIDE DEF place
  <2>5. next \in Branches /\ next.at = place /\ next.session = branches[p].session
    BY <1>1, <2>2, <2>3
  <2> HIDE DEF next
  <2>6. CASE b = next
    <3>1. next.at = "renew" => next.session \in Sessions
      BY <1>0, <2>1, <2>2, <2>5
    <3>2. next.at # "config" /\ next.at # "done"
      BY <2>2, <2>5
    <3> QED
      BY <1>0, <2>1, <2>4, <2>5, <2>6, <3>1, <3>2, BranchStep
  <2>7. CASE b \in NoAnswer(branches[p])
    BY <1>0, <1>2, <2>1, <2>4, <2>7
  <2> QED
    BY <2>4, <2>6, <2>7
<1>5. CASE Login(p)
  <2> DEFINE after == IF RequiresPostLoginRefresh(p) THEN "renew" ELSE "done"
             failed == [branches[p] EXCEPT !.at = "failed"]
  <2>1. after \in {"login", "renew", "done"} /\ after # "config"
    OBVIOUS
  <2>2. \/ SetBranch(p, failed) /\ valid' = valid
        \/ \E u \in Users :
              /\ valid[p].token < MaxTokens
              /\ valid' = [valid EXCEPT ![p] = Issue(p, u)]
              /\ \/ SetBranch(p, Advance(branches[p], after, Issue(p, u)))
                 \/ SetBranch(p, failed)
    BY <1>5 DEF Login
  <2>3. failed \in NoAnswer(branches[p])
    BY DEF NoAnswer
  <2> HIDE DEF after, failed
  <2>4. CASE SetBranch(p, failed) /\ valid' = valid
    BY <1>0, <1>2, <2>3, <2>4
  <2>5. ASSUME NEW u \in Users, valid[p].token < MaxTokens,
               valid' = [valid EXCEPT ![p] = Issue(p, u)],
               \/ SetBranch(p, Advance(branches[p], after, Issue(p, u)))
               \/ SetBranch(p, failed)
        PROVE  PInv'
    <3>1. Issue(p, u) \in Sessions
      BY <1>3, <2>5
    <3>2. /\ valid' \in [Profiles -> Sessions \cup {NoSession}] /\ valid'[p] = Issue(p, u)
          /\ \A q \in Profiles : q # p => valid'[q] = valid[q]
      BY <1>0, <2>5, <3>1
    <3>3. CASE SetBranch(p, failed)
      BY <1>2, <2>3, <3>2, <3>3
    <3>4. CASE SetBranch(p, Advance(branches[p], after, Issue(p, u)))
      <4> DEFINE b == Advance(branches[p], after, Issue(p, u))
      <4>1. b \in Branches /\ b.at = after /\ b.session = Issue(p, u)
        BY <1>1, <2>1, <3>1
      <4>2. SetBranch(p, b)
        BY <3>4
      <4> HIDE DEF b
      <4> QED
        BY <1>0, <2>1, <3>1, <3>2, <4>1, <4>2, BranchStep
    <3> QED
      BY <2>5, <3>3, <3>4
  <2> QED
    BY <2>2, <2>4, <2>5
<1>6. CASE RefreshSession(p)
  <2>1. branches[p].at = "renew" /\ branches[p].session \in Sessions
    BY <1>0, <1>6 DEF RefreshSession
  <2>2. \/ \E b \in NoAnswer(branches[p]) : SetBranch(p, b) /\ valid' = valid
        \/ \E s \in {valid[p]} \cup {t \in {Issue(p, valid[p].user)} : t.token <= MaxTokens} :
              /\ branches[p].session = valid[p]
              /\ valid' = [valid EXCEPT ![p] = s]
              /\ \E b \in NoAnswer(branches[p]) \cup {Advance(branches[p], "done", s)} :
                    SetBranch(p, b)
    BY <1>6 DEF RefreshSession, Renewed
  <2>3. CASE \E b \in NoAnswer(branches[p]) : SetBranch(p, b) /\ valid' = valid
    BY <1>0, <1>2, <2>3
  <2>4. ASSUME NEW s \in {valid[p]} \cup {t \in {Issue(p, valid[p].user)} : t.token <= MaxTokens},
               branches[p].session = valid[p],
               valid' = [valid EXCEPT ![p] = s],
               NEW b \in NoAnswer(branches[p]) \cup {Advance(branches[p], "done", s)},
               SetBranch(p, b)
        PROVE  PInv'
    <3>1. s \in Sessions
      <4>1. valid[p] \in Sessions /\ valid[p].user \in Users
        BY <2>1, <2>4 DEF Sessions
      <4>2. CASE s = Issue(p, valid[p].user) /\ s.token <= MaxTokens
        <5>1. s.token = valid[p].token + 1
          BY <4>2 DEF Issue
        <5>2. valid[p].token \in 0 .. MaxTokens
          BY <1>0, Bounds
        <5>3. valid[p].token < MaxTokens
          BY <4>2, <5>1, <5>2, ProviderConstants
        <5> QED
          BY <1>3, <4>1, <4>2, <5>3
      <4> QED
        BY <2>4, <4>1, <4>2
    <3>2. /\ valid' \in [Profiles -> Sessions \cup {NoSession}] /\ valid'[p] = s
          /\ \A q \in Profiles : q # p => valid'[q] = valid[q]
      BY <1>0, <2>4, <3>1
    <3>3. CASE b \in NoAnswer(branches[p])
      BY <1>2, <2>4, <3>2, <3>3
    <3>4. CASE b = Advance(branches[p], "done", s)
      <4>1. b \in Branches /\ b.at = "done" /\ b.session = s
        BY <1>1, <3>1, <3>4
      <4> QED
        BY <1>0, <2>4, <3>1, <3>2, <4>1, BranchStep
    <3> QED
      BY <2>4, <3>3, <3>4
  <2> QED
    BY <2>2, <2>3, <2>4
<1> QED
  BY <1>4, <1>5, <1>6

\* The operation goes on or fails while the store serves and no branch runs.
LEMMA ProgressStep ==
    ASSUME PInv, Join \/ (\E c \in Calls : Fetch(c)) \/ ProfilesFetched \/ CommitRefused
    PROVE  PInv'
<1>0. /\ UNCHANGED <<storeVars, kind, branches, valid, succeeded>>
      /\ op \in {"sessions", "profiles", "commit"}
  BY DEF Join, Fetch, ProfilesFetched, CommitRefused
<1>1. StoreFollows' /\ SuccessIsCurrent' /\ BranchesFollow'
  BY <1>0 DEF PInv, StoreFollows, FilesTyped, RecoveredKnown, CreationStages, OpenStages, At,
              Recovered, storeVars, SuccessIsCurrent, BranchesFollow
<1>2. At("serving") /\ ~succeeded
  BY <1>0 DEF PInv, OperationFollows
<1>3. /\ op' \in {"idle", "profiles", "commit"}
      /\ op' # "idle" => \A p \in Profiles : branches[p].at = "done"
      /\ \A p \in Profiles : branches[p].at \in {"off", "done", "failed"}
  <2>1. CASE Join
    BY <2>1 DEF Join, Joined, Fails
  <2>2. CASE (\E c \in Calls : Fetch(c)) \/ ProfilesFetched \/ CommitRefused
    BY <2>2 DEF Fetch, ProfilesFetched, CommitRefused, Fails, PInv, OperationFollows,
                SessionCallsJoined
  <2> QED
    BY <2>1, <2>2
<1>4. fetches' \in [Calls -> [at : {"off", "call", "ok"}, tries : 1 .. Attempts]]
  <2> DEFINE F == [at : {"off", "call", "ok"}, tries : 1 .. Attempts]
  <2>1. NoFetch \in F /\ [at |-> "call", tries |-> 1] \in F
    BY Bounds DEF NoFetch
  <2>2. fetches \in [Calls -> F]
    BY DEF PInv, OperationTyped
  <2>3. CASE Join
    BY <2>1, <2>2, <2>3 DEF Join, Fails
  <2>4. CASE ProfilesFetched \/ CommitRefused
    BY <2>1, <2>4 DEF ProfilesFetched, CommitRefused, Fails
  <2>5. ASSUME NEW c \in Calls, Fetch(c) PROVE fetches' \in [Calls -> F]
    <3>1. NextTry(fetches[c].tries) \in 1 .. Attempts
      BY <2>2, Bounds
    <3>2. \/ fetches' = [fetches EXCEPT ![c] = [fetches[c] EXCEPT !.at = "ok"]]
          \/ fetches' = [fetches EXCEPT ![c] =
                            [fetches[c] EXCEPT !.tries = NextTry(fetches[c].tries)]]
          \/ fetches' = [d \in Calls |-> NoFetch]
      BY <2>5 DEF Fetch, Fails
    <3>3. /\ [fetches[c] EXCEPT !.at = "ok"] \in F
          /\ [fetches[c] EXCEPT !.tries = NextTry(fetches[c].tries)] \in F
      BY <2>2, <3>1
    <3> HIDE DEF F
    <3> QED
      BY <2>1, <2>2, <3>2, <3>3
  <2> QED
    BY <2>3, <2>4, <2>5
<1>5. OperationTyped' /\ SessionCallsJoined'
  BY <1>0, <1>3, <1>4 DEF PInv, OperationTyped, SessionCallsJoined
<1>6. OperationFollows'
  BY <1>0, <1>2, <1>3 DEF OperationFollows, At, storeVars
<1> QED
  BY <1>1, <1>5, <1>6 DEF PInv

\* What a commit writes is what both branches brought: one account's sessions,
\* and the ones the provider accepts.
LEMMA AggregateOfBranches ==
    ASSUME PInv, op \in {"commit", "committing"}
    PROVE  Aggregate = valid /\ (SameUser(branches) => Aggregate \in Whole)
<1>1. \A p \in Profiles : branches[p].session = valid[p]
  BY DEF PInv, OperationFollows, BranchesFollow
<1>2. valid \in [Profiles -> Sessions \cup {NoSession}]
  BY DEF PInv, OperationTyped
<1>3. Aggregate = valid
  BY <1>1, <1>2 DEF Aggregate
<1>4. "ios" \in Profiles /\ "windows" \in Profiles
  BY DEF Profiles
<1>5. SameUser(branches) => valid["ios"].user = valid["windows"].user
  BY <1>1, <1>4 DEF SameUser
<1> QED
  BY <1>2, <1>3, <1>5 DEF Whole

\* A commit or a sign-out begins to write.
LEMMA WriteBeginsStep == ASSUME PInv, CommitBegins \/ ClearSession PROVE PInv'
<1>1. CASE CommitBegins
  <2>1. op = "commit" /\ op' = "committing" /\ BeginWrite(Aggregate)
        /\ UNCHANGED <<kind, branches, fetches, valid, succeeded>>
    BY <1>1 DEF CommitBegins
  <2>2. Aggregate \in Whole
    BY <1>1, <2>1, AggregateOfBranches DEF CommitBegins
  <2>3. StoreFollows' /\ acked' = acked /\ process'.at = "writing" /\ process'.agg = Aggregate
    BY <2>1, <2>2, BeginWriteKeeps DEF PInv
  <2>4. Aggregate' = Aggregate
    BY <2>1 DEF Aggregate
  <2>5. OperationTyped' /\ BranchesFollow' /\ SessionCallsJoined' /\ SuccessIsCurrent'
    BY <2>1, <2>3 DEF PInv, OperationTyped, BranchesFollow, SessionCallsJoined,
                      SuccessIsCurrent
  <2>6. OperationFollows'
    BY <2>1, <2>3, <2>4 DEF PInv, OperationFollows, At
  <2> QED
    BY <2>3, <2>5, <2>6 DEF PInv
<1>2. CASE ClearSession
  <2>1. op = "idle" /\ BeginWrite(SignedOut) /\ UNCHANGED opVars
    BY <1>2 DEF ClearSession
  <2>2. StoreFollows' /\ acked' = acked /\ process'.at = "writing" /\ process'.agg = SignedOut
    BY <2>1, BeginWriteKeeps, WholeIsStored DEF PInv
  <2>3. OperationTyped' /\ BranchesFollow' /\ SessionCallsJoined' /\ SuccessIsCurrent'
    BY <2>1, <2>2 DEF PInv, OperationTyped, BranchesFollow, SessionCallsJoined,
                      SuccessIsCurrent, opVars
  <2>4. OperationFollows'
    BY <2>1, <2>2 DEF OperationFollows, At, opVars
  <2> QED
    BY <2>2, <2>3, <2>4 DEF PInv
<1> QED
  BY <1>1, <1>2

\* The write ends; only a commit reports success.
LEMMA WriteEndsStep == ASSUME PInv, WriteEnds PROVE PInv'
<1>1. /\ op' = "idle" /\ UNCHANGED <<kind, branches, fetches, valid>>
      /\ \/ CommitWrite /\ succeeded' = (succeeded \/ op = "committing")
         \/ RollbackWrite /\ succeeded' = succeeded
  BY DEF WriteEnds
<1>2. At("writing") /\ op \in {"idle", "committing"} /\ acked # None
  BY <1>1 DEF CommitWrite, RollbackWrite, PInv, OperationTyped, OperationFollows, StoreFollows,
              OpenStages, At
<1>3. /\ StoreFollows' /\ process'.at = "serving"
      /\ CommitWrite => acked' = process.agg
      /\ RollbackWrite => acked' = acked
  BY <1>1, EndWriteKeeps DEF PInv
<1>4. acked' # None
  BY <1>3 DEF StoreFollows, OpenStages, At
<1>5. op = "idle" => process.agg = SignedOut
  BY <1>2 DEF PInv, OperationFollows
<1>6. op = "committing" => process.agg = valid
  BY AggregateOfBranches DEF PInv, OperationFollows
<1>7. SuccessIsCurrent'
  BY <1>1, <1>2, <1>3, <1>4, <1>5, <1>6 DEF PInv, SuccessIsCurrent
<1>8. OperationTyped'
  BY <1>1 DEF PInv, OperationTyped
<1>9. BranchesFollow' /\ SessionCallsJoined'
  BY <1>1, <1>2 DEF PInv, BranchesFollow, SessionCallsJoined
<1>10. OperationFollows'
  BY <1>1, <1>3 DEF OperationFollows, At
<1> QED
  BY <1>3, <1>7, <1>8, <1>9, <1>10 DEF PInv

\* A process that stops forgets its operation and nothing else.
LEMMA StopsStep == ASSUME PInv, Stops PROVE PInv'
<1>1. /\ op' = "idle" /\ UNCHANGED <<kind, valid, succeeded>>
      /\ branches' = [p \in Profiles |-> Off] /\ fetches' = [c \in Calls |-> NoFetch]
  BY DEF Stops
<1>2. StoreFollows' /\ acked' = acked /\ process'.at = "down"
  BY StopKeeps DEF Stops, PInv
<1>3. Off \in Branches /\ NoFetch \in [at : {"off", "call", "ok"}, tries : 1 .. Attempts]
  BY Bounds DEF Off, NoFetch, Branches
<1>4. OperationTyped'
  BY <1>1, <1>3 DEF PInv, OperationTyped
<1>5. \A p \in Profiles : branches'[p].at = "off"
  BY <1>1 DEF Off
<1> QED
  BY <1>1, <1>2, <1>4, <1>5
     DEF PInv, BranchesFollow, OperationFollows, SuccessIsCurrent, SessionCallsJoined, At

\* Every step preserves the invariant.
LEMMA ProviderStep == PInv /\ [Next]_vars => PInv'
<1> SUFFICES ASSUME PInv, [Next]_vars PROVE PInv'
  OBVIOUS
<1>1. CASE UNCHANGED vars
  BY <1>1 DEF vars, storeVars, opVars, PInv, StoreFollows, FilesTyped, RecoveredKnown,
              CreationStages, OpenStages, At, Recovered, OperationTyped, BranchesFollow,
              OperationFollows, SuccessIsCurrent, SessionCallsJoined, Aggregate
<1>2. CASE (Start(SignedOut) \/ StartSteps) /\ UNCHANGED opVars
  BY <1>2, StartStep
<1>3. CASE BeginLogin \/ BeginRefresh
  BY <1>3, BeginStep
<1>4. CASE SessionCalls
  BY <1>4, SessionCallStep DEF SessionCalls
<1>5. ASSUME NEW p \in Profiles, FetchAuthority(p) \/ FetchLines(p) PROVE PInv'
  <2>1. \E c \in Calls : Fetch(c)
    BY <1>5 DEF FetchAuthority, FetchLines, Calls
  <2> QED
    BY <2>1, ProgressStep
<1>6. CASE Join \/ ProfilesFetched \/ CommitRefused
  BY <1>6, ProgressStep
<1>7. CASE CommitBegins \/ ClearSession
  BY <1>7, WriteBeginsStep
<1>8. CASE WriteEnds
  BY <1>8, WriteEndsStep
<1>9. CASE Stops
  BY <1>9, StopsStep
<1> QED
  BY <1>1, <1>2, <1>3, <1>4, <1>5, <1>6, <1>7, <1>8, <1>9 DEF Next, OperationSteps

\* The invariant holds throughout every behaviour.
THEOREM ProviderInvariant == Spec => []PInv
BY ProviderInit, ProviderStep, PTL DEF Spec

\* Whatever failed, was retried or was cut off by a kill, the database is loadable
\* and holds one account, and no login or rotation is under way once the
\* operation has returned.
THEOREM ProviderInvHolds == Spec => []ProviderInv
<1>1. PInv => ProviderInv
  <2> SUFFICES ASSUME PInv PROVE ProviderInv
    OBVIOUS
  <2>1. StoreTypeOK
    BY WholeIsStored DEF PInv, StoreFollows, FilesTyped, OpenStages, StoreTypeOK, Processes, At
  <2>2. AcknowledgedIsLoadable
    <3> SUFFICES ASSUME acked # None
                 PROVE  /\ Recovered # None
                        /\ Recovered \in {Database(v, acked) : v \in {Legacy, Current}}
      BY DEF AcknowledgedIsLoadable
    <3>1. acked \in Whole /\ Recovered \in {Database(Legacy, acked), Database(Current, acked)}
      BY DEF PInv, StoreFollows, FilesTyped, RecoveredKnown
    <3> QED
      BY <3>1, FileFacts
  <2>3. FailedCreateIsRetryable
    BY DEF PInv, StoreFollows, CreationStages, FailedCreateIsRetryable
  <2>4. ProviderTypeOK
    <3>1. \A p \in Profiles : branches[p] \in Branches
      BY DEF PInv, OperationTyped
    <3> QED
      BY <3>1 DEF PInv, OperationTyped, ProviderTypeOK, Branches
  <2>5. AggregateIsWhole
    BY DEF PInv, StoreFollows, FilesTyped, Whole, AggregateIsWhole
  <2> QED
    BY <2>1, <2>2, <2>3, <2>4, <2>5 DEF PInv, ProviderInv, StoreInv
<1> QED
  BY <1>1, ProviderInvariant, PTL

\* After a login or refresh that reported success, and until the next one starts,
\* the stored tokens are the ones the provider accepts, also across restarts.
THEOREM CommittedTokensHold == Spec => []CommittedTokensAreCurrent
<1>1. PInv => CommittedTokensAreCurrent
  BY DEF PInv, SuccessIsCurrent, CommittedTokensAreCurrent
<1> QED
  BY <1>1, ProviderInvariant, PTL

----------------------------------------------------------------------------
(* The refresh schedule.                                                    *)

\* Expiries only move forward, and neither the schedule nor the expiry a retry was
\* computed from is ahead of the session's.
ScheduleFollows ==
    /\ expiresAt # Never => Lifetime < expiresAt /\ expiresAt <= now + Lifetime
    /\ nextRefreshAt # Never => nextRefreshAt + Budget <= expiresAt
    /\ Authenticated => expiresAt # Never
    /\ section # Free /\ (section.op # "login" \/ section.at = "record") => expiresAt # Never
    /\ worker.at \in {"refresh", "running", "failed", "read", "write"} => expiresAt # Never
    /\ worker.at = "write" => worker.expiry # Never /\ worker.expiry <= expiresAt

\* Long enough after the last failure, or in the last moment of the session.
Spaced(t) == t >= failedAt + MinPolicy \/ t + Budget >= expiresAt

\* While a session whose refresh failed lasts, its next attempt is spaced: in the
\* schedule, in what the worker is about to write, and in what it has read.
RetriesSpaced ==
    /\ failedAt <= now
    /\ section # Free /\ section.at = "record" => failedAt = 0
    /\ failedAt # 0 /\ ~Expired =>
           /\ worker.at \notin {"failed", "read", "write"} /\ nextRefreshAt # Never =>
                  Spaced(nextRefreshAt)
           /\ worker.at \in {"read", "write"} => failedAt <= worker.clock
           /\ worker.at = "write" => worker.expiry = expiresAt
           /\ worker.at = "expire" /\ worker.due => Spaced(now)
           /\ worker.at \in {"check", "refresh"} => Spaced(now)

\* The inductive invariant of the schedule.
RefreshInv == TypeOK /\ ScheduleFollows /\ RetriesSpaced

\* The clock as a number, a time, and with its bounds.
LEMMA ScheduleNumbers ==
    ASSUME TypeOK
    PROVE  /\ now \in Nat /\ now \in Times /\ now \in 0 .. MaxTime /\ 0 < now
           /\ expiresAt \in Nat /\ nextRefreshAt \in Nat /\ failedAt \in Nat
           /\ Lifetime \in Nat /\ Budget \in Nat /\ MinPolicy \in Nat /\ MaxTime \in Nat
BY ScheduleConstants DEF TypeOK, Times

\* The worker's records.
LEMMA WorkerShapes ==
    ASSUME TypeOK
    PROVE  /\ worker.at \in {"expire", "check"} =>
                 worker = [at |-> worker.at, due |-> worker.due] /\ worker.due \in BOOLEAN
           /\ worker.at \in {"ticker", "expire", "check", "refresh", "running", "failed",
                          "read", "write"}
BY DEF TypeOK, Waiting

\* Nothing is scheduled before the first login.
LEMMA ScheduleStart == ScheduleInit => RefreshInv
<1> SUFFICES ASSUME ScheduleInit PROVE RefreshInv
  OBVIOUS
<1>1. 1 \in 1 .. MaxTime /\ 0 \in Times /\ 0 \in 0 .. MaxTime /\ 0 \in 0 .. MaxRestarts
  BY ScheduleConstants DEF Times
<1>2. TypeOK
  BY <1>1 DEF ScheduleInit, TypeOK, Never
<1>3. ScheduleFollows /\ RetriesSpaced
  BY DEF ScheduleInit, ScheduleFollows, RetriesSpaced, Authenticated, Expired, Never, Waiting
<1> QED
  BY <1>2, <1>3 DEF RefreshInv

\* A session that is found over: its expiry moves to the present, and there is no
\* attempt for it any more.
LEMMA SessionIsOver ==
    ASSUME RefreshInv, Expired, section = Free, expiresAt' \in {expiresAt, now},
           service' \in {service, "expired"}, stored' \in BOOLEAN,
           UNCHANGED <<now, nextRefreshAt, section, restarts>>,
           failedAt' \in {failedAt, now},
           \/ worker' \in {worker, Waiting}
           \/ (worker' = [at |-> "failed"] /\ worker.at = "refresh")
    PROVE  RefreshInv'
<1> USE DEF RefreshInv
<1>1. TypeOK'
  <2>1. expiresAt' \in Times /\ failedAt' \in 0 .. MaxTime
    BY ScheduleNumbers DEF TypeOK
  <2> QED
    BY <2>1 DEF TypeOK
<1>2. /\ expiresAt' # Never /\ expiresAt <= expiresAt' /\ expiresAt' <= now
      /\ expiresAt' \in Nat /\ failedAt' \in Nat
  BY ScheduleNumbers DEF Expired, Never
<1>3. ScheduleFollows'
  <2>1. /\ Lifetime < expiresAt' /\ expiresAt' <= now + Lifetime
        /\ nextRefreshAt # Never => nextRefreshAt + Budget <= expiresAt'
    BY <1>2, ScheduleNumbers DEF ScheduleFollows, Expired
  <2>2. worker'.at = "write" => worker'.expiry # Never /\ worker'.expiry <= expiresAt'
    <3>1. CASE worker' = worker
      <4>1. worker.at = "write" => worker.expiry \in Nat
        BY ScheduleConstants DEF TypeOK, Times, Waiting
      <4> QED
        BY <3>1, <4>1, <1>2, ScheduleNumbers DEF ScheduleFollows
    <3> QED
      BY <3>1 DEF Waiting
  <2> QED
    BY <2>1, <2>2, <1>2 DEF ScheduleFollows
<1>4. Expired' /\ failedAt' <= now
  BY <1>2, ScheduleNumbers DEF Expired, RetriesSpaced
<1> QED
  BY <1>1, <1>3, <1>4 DEF RetriesSpaced

\* Requests: entering the section, success, failure, a session found over, logout.
LEMMA RequestSteps ==
    ASSUME RefreshInv, (\E asked \in {"login", "refresh"} : Request(asked)) \/ Succeeds
           \/ OperationFails \/ RecordRefresh \/ RequestTooLate \/ Logout
    PROVE  RefreshInv'
<1> USE DEF RefreshInv
<1>1. CASE (\E asked \in {"login", "refresh"} : Request(asked))
  <2>1. TypeOK'
    BY <1>1, ScheduleConstants
       DEF Request, TypeOK, Authenticated, Expired, Never, Times, Free, Waiting,
           ScheduleFollows
  <2>2. ScheduleFollows'
    BY <1>1, ScheduleConstants
       DEF Request, TypeOK, ScheduleFollows, Authenticated, Expired, Never,
           Times, Free, Waiting
  <2>3. RetriesSpaced'
    BY <1>1, ScheduleConstants
       DEF Request, TypeOK, ScheduleFollows, RetriesSpaced, Spaced, Authenticated,
           Expired, Never, Times, Free, Waiting
  <2> QED
    BY <2>1, <2>2, <2>3
<1>2. CASE Succeeds
  <2>1. TypeOK'
    BY <1>2, ScheduleConstants
       DEF Succeeds, TypeOK, Authenticated, Expired, Never, Times, Free, Waiting,
           ScheduleFollows
  <2>2. ScheduleFollows'
    BY <1>2, ScheduleConstants
       DEF Succeeds, TypeOK, ScheduleFollows, Authenticated, Expired, Never,
           Times, Free, Waiting
  <2>3. RetriesSpaced'
    BY <1>2, ScheduleConstants
       DEF Succeeds, TypeOK, ScheduleFollows, RetriesSpaced, Spaced, Authenticated,
           Expired, Never, Times, Free, Waiting
  <2> QED
    BY <2>1, <2>2, <2>3
<1>3. CASE OperationFails
  <2>1. TypeOK'
    <3>1. service' \in {"signed_out", "degraded", "expired"}
      BY <1>3 DEF OperationFails, FailedInto
    <3>2. expiresAt' \in Times /\ failedAt' \in 0 .. MaxTime
      BY <1>3, ScheduleNumbers DEF OperationFails, TypeOK
    <3>3. stored' \in BOOLEAN
      BY <1>3 DEF OperationFails, TypeOK, ClearActiveSession
    <3> QED
      BY <1>3, <3>1, <3>2, <3>3 DEF OperationFails, TypeOK
  <2>2. ScheduleFollows'
    BY <1>3, ScheduleConstants
       DEF OperationFails, FailedInto, TypeOK, ScheduleFollows, Authenticated, Expired, Never,
           Times, Free, Waiting
  <2>3. RetriesSpaced'
    BY <1>3, ScheduleConstants
       DEF OperationFails, FailedInto, TypeOK, ScheduleFollows, RetriesSpaced, Spaced,
           Authenticated, Expired, Never, Times, Free, Waiting
  <2> QED
    BY <2>1, <2>2, <2>3
<1>4. CASE RecordRefresh
  <2>1. TypeOK'
    BY <1>4, ScheduleConstants
       DEF RecordRefresh, BoundedRefreshAt, TypeOK, Authenticated, Expired, Never, Times, Free,
           Waiting,
           ScheduleFollows
  <2>2. ScheduleFollows'
    BY <1>4, ScheduleConstants
       DEF RecordRefresh, BoundedRefreshAt, TypeOK, ScheduleFollows, Authenticated, Expired, Never,
           Times, Free, Waiting
  <2>3. RetriesSpaced'
    BY <1>4, ScheduleConstants
       DEF RecordRefresh, BoundedRefreshAt, TypeOK, ScheduleFollows, RetriesSpaced, Spaced,
           Authenticated,
           Expired, Never, Times, Free, Waiting
  <2> QED
    BY <2>1, <2>2, <2>3
<1>5. CASE RequestTooLate
  <2>1. stored' \in BOOLEAN
    BY <1>5 DEF RequestTooLate, ClearActiveSession, TypeOK
  <2>2. /\ Expired /\ section = Free
        /\ expiresAt' \in {expiresAt, now} /\ service' \in {service, "expired"}
        /\ UNCHANGED <<now, nextRefreshAt, section, worker, failedAt, restarts>>
    BY <1>5 DEF RequestTooLate
  <2> QED
    BY <2>1, <2>2, SessionIsOver
<1>6. CASE Logout
  <2>1. TypeOK'
    BY <1>6, ScheduleConstants
       DEF Logout, TypeOK, Authenticated, Expired, Never, Times, Free, Waiting,
           ScheduleFollows
  <2>2. ScheduleFollows'
    BY <1>6, ScheduleConstants
       DEF Logout, TypeOK, ScheduleFollows, Authenticated, Expired, Never,
           Times, Free, Waiting
  <2>3. RetriesSpaced'
    BY <1>6, ScheduleConstants
       DEF Logout, TypeOK, ScheduleFollows, RetriesSpaced, Spaced, Authenticated,
           Expired, Never, Times, Free, Waiting
  <2> QED
    BY <2>1, <2>2, <2>3
<1> QED
  BY <1>1, <1>2, <1>3, <1>4, <1>5, <1>6

\* The heartbeat worker up to its attempt.
LEMMA BeatSteps ==
    ASSUME RefreshInv, Beat \/ BeatExpire \/ BeatCheck \/ BeatRefresh
    PROVE  RefreshInv'
<1> USE DEF RefreshInv
<1>1. CASE Beat
  <2>1. TypeOK'
    BY <1>1 DEF Beat, RefreshDue, TypeOK
  <2>2. ScheduleFollows'
    BY <1>1 DEF Beat, ScheduleFollows, Authenticated, Waiting
  <2>3. worker' = [at |-> "expire", due |-> RefreshDue]
    BY <1>1 DEF Beat
  <2>4. failedAt # 0 /\ ~Expired /\ RefreshDue => Spaced(now)
    BY <1>1, ScheduleNumbers DEF Beat, RetriesSpaced, Spaced, RefreshDue, Waiting
  <2>5. RetriesSpaced'
    BY <1>1, <2>3, <2>4 DEF Beat, RetriesSpaced, Spaced, Expired, Waiting
  <2> QED
    BY <2>1, <2>2, <2>5
<1>2. CASE BeatExpire
  <2>1. CASE Expired
    <3>1. stored' \in BOOLEAN
      BY <1>2, <2>1 DEF BeatExpire, ClearWhenExpired, ClearActiveSession, TypeOK
    <3>2. /\ section = Free /\ worker' = Waiting
          /\ expiresAt' \in {expiresAt, now} /\ service' \in {service, "expired"}
          /\ UNCHANGED <<now, nextRefreshAt, section, failedAt, restarts>>
      BY <1>2, <2>1 DEF BeatExpire
    <3> QED
      BY <2>1, <3>1, <3>2, SessionIsOver
  <2>2. CASE ~Expired
    <3>1. UNCHANGED <<now, service, expiresAt, nextRefreshAt, section, stored, failedAt, restarts>>
      BY <1>2, <2>2 DEF BeatExpire
    <3>2. /\ worker = [at |-> "expire", due |-> worker.due] /\ worker.due \in BOOLEAN
          /\ worker' = IF worker.due THEN [worker EXCEPT !.at = "check"] ELSE Waiting
      BY <1>2, <2>2, WorkerShapes DEF BeatExpire
    <3>3. worker' = IF worker.due THEN [at |-> "check", due |-> worker.due] ELSE Waiting
      BY <3>2
    <3>4. TypeOK'
      BY <3>1, <3>2, <3>3 DEF TypeOK
    <3>5. ScheduleFollows'
      BY <3>1, <3>3 DEF ScheduleFollows, Authenticated, Waiting
    <3>6. RetriesSpaced'
      BY <3>1, <3>2, <3>3, <2>2, <1>2
         DEF BeatExpire, RetriesSpaced, Spaced, Expired, Waiting
    <3> QED
      BY <3>4, <3>5, <3>6
  <2> QED
    BY <2>1, <2>2
<1>3. CASE BeatCheck
  <2>1. TypeOK'
    BY <1>3 DEF BeatCheck, TypeOK
  <2>2. ScheduleFollows'
    BY <1>3 DEF BeatCheck, Refreshable, ScheduleFollows, Authenticated, Waiting
  <2>3. RetriesSpaced'
    BY <1>3 DEF BeatCheck, RetriesSpaced, Spaced, Expired, Waiting
  <2> QED
    BY <2>1, <2>2, <2>3
<1>4. CASE BeatRefresh
  <2>1. CASE Authenticated /\ ~Expired
    <3>1. /\ UNCHANGED <<now, service, expiresAt, nextRefreshAt, stored, failedAt, restarts>>
          /\ section' = [op |-> "scheduled", at |-> "provider"]
          /\ worker' = [at |-> "running"] /\ worker.at = "refresh"
      BY <1>4, <2>1 DEF BeatRefresh
    <3>2. TypeOK'
      BY <3>1 DEF TypeOK
    <3>3. ScheduleFollows'
      BY <3>1 DEF ScheduleFollows, Authenticated
    <3>4. RetriesSpaced'
      BY <3>1 DEF RetriesSpaced, Spaced, Expired
    <3> QED
      BY <3>2, <3>3, <3>4
  <2>2. CASE Authenticated /\ Expired
    <3>1. stored' \in BOOLEAN
      BY <1>4, <2>2 DEF BeatRefresh, ClearActiveSession, TypeOK
    <3> QED
      BY <1>4, <2>2, <3>1, SessionIsOver DEF BeatRefresh
  <2>3. CASE ~Authenticated
    <3>1. /\ UNCHANGED <<now, service, expiresAt, nextRefreshAt, section, restarts>>
          /\ worker' = [at |-> "failed"] /\ failedAt' = now
          /\ worker.at = "refresh" /\ section = Free
      BY <1>4, <2>3 DEF BeatRefresh
    <3>2. stored' \in BOOLEAN
      BY <1>4, <2>3 DEF BeatRefresh, ClearActiveSession, TypeOK
    <3>3. TypeOK'
      BY <3>1, <3>2, ScheduleNumbers DEF TypeOK
    <3>4. ScheduleFollows'
      BY <3>1 DEF ScheduleFollows, Authenticated
    <3>5. RetriesSpaced'
      BY <3>1, ScheduleNumbers DEF RetriesSpaced, Expired
    <3> QED
      BY <3>3, <3>4, <3>5
  <2> QED
    BY <2>1, <2>2, <2>3
<1> QED
  BY <1>1, <1>2, <1>3, <1>4

\* scheduleRefreshRetry, which reads outside every section and writes later.
LEMMA RetrySteps ==
    ASSUME RefreshInv, RetryClock \/ RetryRead \/ RetryWrite
    PROVE  RefreshInv'
<1> USE DEF RefreshInv
<1>1. CASE RetryClock
  <2>1. TypeOK'
    BY <1>1, ScheduleConstants
       DEF RetryClock, TypeOK, Authenticated, Expired, Never, Times, Free, Waiting,
           ScheduleFollows
  <2>2. ScheduleFollows'
    BY <1>1, ScheduleConstants
       DEF RetryClock, TypeOK, ScheduleFollows, Authenticated, Expired, Never,
           Times, Free, Waiting
  <2>3. RetriesSpaced'
    BY <1>1, ScheduleConstants
       DEF RetryClock, TypeOK, ScheduleFollows, RetriesSpaced, Spaced, Authenticated,
           Expired, Never, Times, Free, Waiting
  <2> QED
    BY <2>1, <2>2, <2>3
<1>2. CASE RetryRead
  <2>1. TypeOK'
    BY <1>2, ScheduleConstants
       DEF RetryRead, TypeOK, Authenticated, Expired, Never, Times, Free, Waiting,
           ScheduleFollows
  <2>2. ScheduleFollows'
    BY <1>2, ScheduleConstants
       DEF RetryRead, TypeOK, ScheduleFollows, Authenticated, Expired, Never,
           Times, Free, Waiting
  <2>3. RetriesSpaced'
    BY <1>2, ScheduleConstants
       DEF RetryRead, TypeOK, ScheduleFollows, RetriesSpaced, Spaced, Authenticated,
           Expired, Never, Times, Free, Waiting
  <2> QED
    BY <2>1, <2>2, <2>3
<1>3. CASE RetryWrite
  <2>1. TypeOK'
    BY <1>3, ScheduleConstants
       DEF RetryWrite, TooLate, RetryAt, TypeOK, Authenticated, Expired, Never, Times, Free,
           Waiting,
           ScheduleFollows
  <2>2. ScheduleFollows'
    BY <1>3, ScheduleConstants
       DEF RetryWrite, TooLate, RetryAt, TypeOK, ScheduleFollows, Authenticated, Expired, Never,
           Times, Free, Waiting
  <2>3. RetriesSpaced'
    BY <1>3, ScheduleConstants
       DEF RetryWrite, TooLate, RetryAt, TypeOK, ScheduleFollows, RetriesSpaced, Spaced,
           Authenticated,
           Expired, Never, Times, Free, Waiting
  <2> QED
    BY <2>1, <2>2, <2>3
<1> QED
  BY <1>1, <1>2, <1>3

\* The clock and a new process.
LEMMA ClockAndRestart ==
    ASSUME RefreshInv, Tick \/ Restart \/ UNCHANGED scheduleVars
    PROVE  RefreshInv'
<1> USE DEF RefreshInv
<1>1. CASE Tick
  <2>1. TypeOK'
    BY <1>1, ScheduleConstants
       DEF Tick, TypeOK, Authenticated, Expired, Never, Times, Free, Waiting,
           ScheduleFollows
  <2>2. ScheduleFollows'
    BY <1>1, ScheduleConstants
       DEF Tick, TypeOK, ScheduleFollows, Authenticated, Expired, Never,
           Times, Free, Waiting
  <2>3. RetriesSpaced'
    BY <1>1, ScheduleConstants
       DEF Tick, TypeOK, ScheduleFollows, RetriesSpaced, Spaced, Authenticated,
           Expired, Never, Times, Free, Waiting
  <2> QED
    BY <2>1, <2>2, <2>3
<1>2. CASE Restart
  <2>1. restarts' \in 0 .. MaxRestarts
    BY <1>2, ScheduleConstants DEF Restart, TypeOK
  <2>2. nextRefreshAt' \in Times /\ expiresAt' \in Times
    BY <1>2, ScheduleConstants
       DEF Restart, BoundedRefreshAt, TypeOK, ScheduleFollows, Authenticated, Never, Times
  <2>3. service' \in {"ready", "signed_out"} /\ stored' \in BOOLEAN
    BY <1>2 DEF Restart, TypeOK
  <2>4. 0 \in 0 .. MaxTime
    BY ScheduleConstants
  <2>5. TypeOK'
    BY <1>2, <2>1, <2>2, <2>3, <2>4 DEF Restart, TypeOK
  <2>6. ScheduleFollows'
    BY <1>2, ScheduleConstants
       DEF Restart, BoundedRefreshAt, TypeOK, ScheduleFollows, Authenticated, Expired, Never,
           Times, Free, Waiting
  <2>7. RetriesSpaced'
    BY <1>2, ScheduleNumbers DEF Restart, RetriesSpaced, Free
  <2> QED
    BY <2>5, <2>6, <2>7
<1>3. CASE UNCHANGED scheduleVars
  <2>1. TypeOK'
    BY <1>3, ScheduleConstants
       DEF scheduleVars, TypeOK, Authenticated, Expired, Never, Times, Free, Waiting,
           ScheduleFollows
  <2>2. ScheduleFollows'
    BY <1>3, ScheduleConstants
       DEF scheduleVars, TypeOK, ScheduleFollows, Authenticated, Expired, Never,
           Times, Free, Waiting
  <2>3. RetriesSpaced'
    BY <1>3, ScheduleConstants
       DEF scheduleVars, TypeOK, ScheduleFollows, RetriesSpaced, Spaced, Authenticated,
           Expired, Never, Times, Free, Waiting
  <2> QED
    BY <2>1, <2>2, <2>3
<1> QED
  BY <1>1, <1>2, <1>3

\* RefreshInv holds in every reachable state.
THEOREM RefreshInvariant == ScheduleSpec => []RefreshInv
<1>1. RefreshInv /\ [ScheduleNext]_scheduleVars => RefreshInv'
  BY RequestSteps, BeatSteps, RetrySteps, ClockAndRestart DEF ScheduleNext, Worker
<1> QED
  BY ScheduleStart, <1>1, PTL DEF ScheduleSpec

\* The schedule of a served session leaves an attempt its time before the session
\* ends, whatever expiry a retry read before a login or refresh replaced it.
THEOREM ScheduleInvHolds == ScheduleSpec => []ScheduleInv
<1>1. RefreshInv => ScheduleInv
  BY ScheduleNumbers DEF RefreshInv, ScheduleFollows, ScheduleInv, ScheduledBeforeExpiry
<1> QED
  BY RefreshInvariant, <1>1, PTL

\* After a scheduled refresh failed, the next attempt for that session starts
\* MinPolicy later, or in the last moment that leaves it time.
THEOREM NoRetryStormHolds == ScheduleSpec => NoRetryStorm
<1>1. RefreshInv /\ [ScheduleNext]_scheduleVars => [AttemptsSpaced]_scheduleVars
  <2> SUFFICES ASSUME RefreshInv, ScheduleNext, worker.at = "refresh", worker'.at = "running",
                      failedAt # 0
               PROVE  now >= failedAt + MinPolicy \/ now >= expiresAt - Budget
    BY DEF AttemptsSpaced
  <2>1. BeatRefresh /\ Authenticated /\ ~Expired
    BY DEF ScheduleNext, Worker, Request, Succeeds, OperationFails, RecordRefresh, Logout,
           RequestTooLate, Beat, BeatExpire, BeatCheck, BeatRefresh, RetryClock, RetryRead, RetryWrite,
           Tick, Restart, Waiting
  <2> QED
    BY <2>1, ScheduleNumbers DEF RefreshInv, RetriesSpaced, Spaced
<1> QED
  BY RefreshInvariant, <1>1, PTL DEF ScheduleSpec, NoRetryStorm
=============================================================================
