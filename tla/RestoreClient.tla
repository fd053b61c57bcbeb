---------------------------- MODULE RestoreClient ----------------------------
(***************************************************************************)
(* The importer-based RestoreClient.RestoreTable (src/tests/               *)
(* br_gc_safepoint/run.sh): create the table, fetch its schema, open an    *)
(* engine, fan out one goroutine per file that calls RestoreFile and      *)
(* reports on the unbuffered errCh (closed by defer on return), collect   *)
(* len(table.Files) reports, then close, import and clean up the engine.  *)
(*                                                                         *)
(* The goroutines read the range variable `file` when they run, not when  *)
(* they are spawned (a variable shared by all iterations), so each reads  *)
(* the file of the iteration the loop is in at that moment.               *)
(*                                                                         *)
(* The table comes from InitBackupMeta: LoadBackupTables over the backup  *)
(* meta, then the first table of the first schema's database, which the  *)
(* caller looks up with GetDatabase.                                      *)
(***************************************************************************)
EXTENDS BackupMeta

CONSTANTS
    Metas,       \* backup metas: [files : Seq(file), schemas : Seq(schema)]
    MayFail,     \* importerClient.RestoreFile may fail
    MayCancel,   \* rc.ctx may be cancelled
    CreatedIDs,  \* table IDs TiDB may give the table CreateTable makes
    IndexIDs     \* index IDs TiDB may give its indexes

\* A nil *model.TableInfo.
NilInfo == [id |-> 0, indices |-> {}]

NoTable == [schema |-> [db |-> "", id |-> 0, indices |-> {}], files |-> <<>>]

VARIABLES
    meta,       \* the backup meta InitBackupMeta is given
    databases,  \* rc.databases: LoadBackupTables' result
    table,      \* the table RestoreTable restores
    tableInfo,  \* FetchTableInfo's result: the created table's schema
    tpc,        \* RestoreTable's position
    cur,        \* the range variable `file` (0 before the loop)
    next,       \* index of the next loop iteration
    got,        \* reports received so far
    retErr,     \* returnErr != nil
    result,     \* "none" until RestoreTable returns "nil" or "err"
    fpc,        \* per file goroutine: "none","run","senderr","sendnil","done"
    restored,   \* file -> successful RestoreFile calls on it
    failedFile, \* files whose RestoreFile failed
    errClosed,  \* close(errCh) has run
    cancelled,  \* rc.ctx is done
    panicked    \* "none" or where the process panicked

NFiles == Len(table.files)          \* len(table.Files)
Files == 1..NFiles
HasIndexes == table.schema.indices # {}

vars == <<meta, databases, table, tableInfo, tpc, cur, next, got, retErr, result, fpc, restored, failedFile,
          errClosed, cancelled, panicked>>

TPcs == {"init", "create", "fetch", "open", "loop", "recv", "close", "import",
         "cleanup", "analyze", "returned"}

Init ==
    /\ meta \in Metas /\ databases = [isNil |-> TRUE] /\ table = NoTable
    /\ tableInfo = NilInfo
    /\ tpc = "init" /\ cur = 0 /\ next = 1 /\ got = 0
    /\ retErr = FALSE /\ result = "none"
    /\ fpc = <<>>
    /\ restored = <<>>
    /\ failedFile = {}
    /\ errClosed = FALSE /\ cancelled = FALSE /\ panicked = "none"

\* InitBackupMeta stores LoadBackupTables' databases (its error is never
\* raised for well-formed metas); GetDatabase then reads the map, and a nil
\* map yields a nil *Database whose Tables the caller dereferences.
InitBackupMeta ==
    LET r == LoadBackupTables(meta)
        t == r.dbs[meta.schemas[1].db][1]
    IN  /\ tpc = "init"
        /\ databases' = r
        /\ IF r.isNil
             THEN panicked' = "nil Database" /\ UNCHANGED <<tpc, table, fpc, restored>>
             ELSE /\ table' = t /\ tpc' = "create"
                  /\ fpc' = [k \in 1..Len(t.files) |-> "none"]
                  /\ restored' = [f \in 1..Len(t.files) |-> 0]
                  /\ UNCHANGED panicked
        /\ UNCHANGED <<meta, tableInfo, cur, next, got, retErr, result, failedFile,
                       errClosed, cancelled>>

\* Return from RestoreTable; once errCh exists its deferred close runs.
Return(r) ==
    /\ tpc' = "returned" /\ result' = r
    /\ errClosed' = (tpc \notin {"create", "fetch", "open"})

\* A sequential step that calls one RPC: on error return it, else go on.
Step(from, to) ==
    /\ tpc = from
    /\ \/ tpc' = to /\ UNCHANGED <<result, errClosed>>
       \/ Return("err")
    /\ UNCHANGED <<meta, databases, table, tableInfo, cur, next, got, retErr, fpc,
                   restored, failedFile, cancelled, panicked>>

CreateTable == Step("create", "fetch")

\* FetchTableInfo (util.go): GET the table's schema from the status port,
\* read the body and unmarshal it; an HTTP, read or JSON error returns nil.
\* Otherwise it is the table CreateTable made: TiDB gave it a table ID and
\* its indexes (the source's names) index IDs of its own.
FetchedTableInfos(src) ==
    {NilInfo} \cup
    {[id |-> id, indices |-> {[name |-> i.name, id |-> ix[i]] : i \in src.indices}] :
        id \in CreatedIDs, ix \in [src.indices -> IndexIDs]}

\* RestoreTable keeps FetchTableInfo's error in returnErr, which OpenEngine
\* overwrites; GroupIDPairs then dereferences a nil destTable.Indices as
\* soon as the source table has an index.
FetchTableInfo ==
    /\ tpc = "fetch"
    /\ \E info \in FetchedTableInfos(table.schema) :
          \/ /\ info = NilInfo /\ HasIndexes
             /\ panicked' = "nil destTable in GroupIDPairs"
             /\ UNCHANGED <<tpc, tableInfo>>
          \/ /\ ~(info = NilInfo /\ HasIndexes)
             /\ tableInfo' = info /\ tpc' = "open"
             /\ UNCHANGED panicked
    /\ UNCHANGED <<meta, databases, table, cur, next, got, retErr, result,
                   fpc, restored, failedFile, errClosed, cancelled>>

OpenEngine == Step("open", "loop")

\* One iteration of the spawn loop: the range variable takes the next file,
\* then the select returns nil when ctx is done, or spawns the goroutine.
SpawnFile ==
    /\ tpc = "loop" /\ next <= NFiles
    /\ cur' = next
    /\ IF cancelled
         THEN /\ Return("nil")
              /\ UNCHANGED <<next, fpc>>
         ELSE /\ fpc' = [fpc EXCEPT ![next] = "run"]
              /\ next' = next + 1
              /\ UNCHANGED <<tpc, result, errClosed>>
    /\ UNCHANGED <<meta, databases, table, tableInfo, got, retErr, restored, failedFile, cancelled, panicked>>

LoopEnd ==
    /\ tpc = "loop" /\ next > NFiles
    /\ tpc' = "recv"
    /\ UNCHANGED <<meta, databases, table, tableInfo, cur, next, got, retErr, result,
                   fpc, restored, failedFile, errClosed, cancelled, panicked>>

\* Mutant: a failed RestoreFile is reported as nil only.
RestoreFileSilent(k) ==
    /\ fpc[k] = "run"
    /\ \/ /\ restored' = [restored EXCEPT ![cur] = @ + 1]
          /\ UNCHANGED failedFile
       \/ /\ MayFail
          /\ failedFile' = failedFile \cup {cur}
          /\ UNCHANGED restored
    /\ fpc' = [fpc EXCEPT ![k] = "sendnil"]
    /\ UNCHANGED <<meta, databases, table, tableInfo, tpc, cur, next, got, retErr,
                   result, errClosed, cancelled, panicked>>

\* The goroutine builds its request from `file` (the current value of the
\* range variable) and calls RestoreFile.
RestoreFile(k) ==
    /\ fpc[k] = "run"
    /\ \/ /\ restored' = [restored EXCEPT ![cur] = @ + 1]
          /\ fpc' = [fpc EXCEPT ![k] = "sendnil"]
          /\ UNCHANGED failedFile
       \/ /\ MayFail
          /\ failedFile' = failedFile \cup {cur}
          /\ fpc' = [fpc EXCEPT ![k] = "senderr"]
          /\ UNCHANGED restored
    /\ UNCHANGED <<meta, databases, table, tableInfo, tpc, cur, next, got, retErr,
                   result, errClosed, cancelled, panicked>>

\* Mutant: the collecting loop runs one time too many.
ReportOverRead(k) ==
    /\ fpc[k] \in {"senderr", "sendnil"}
    /\ IF errClosed
         THEN /\ panicked' = "send on closed errCh"
              /\ UNCHANGED <<got, retErr, fpc>>
         ELSE /\ tpc = "recv" /\ got <= NFiles
              /\ got' = got + 1
              /\ retErr' = (retErr \/ fpc[k] = "senderr")
              /\ fpc' = [fpc EXCEPT ![k] = IF @ = "senderr" THEN "sendnil" ELSE "done"]
              /\ UNCHANGED panicked
    /\ UNCHANGED <<meta, databases, table, tableInfo, tpc, cur, next, result, restored,
                   failedFile, errClosed, cancelled>>

\* An unbuffered send on errCh: it completes when RestoreTable is in its
\* collecting loop, `errCh <- err` is followed by `errCh <- nil`, and a send
\* on the closed channel panics.
Report(k) ==
    /\ fpc[k] \in {"senderr", "sendnil"}
    /\ IF errClosed
         THEN /\ panicked' = "send on closed errCh"
              /\ UNCHANGED <<got, retErr, fpc>>
         ELSE /\ tpc = "recv" /\ got < NFiles
              /\ got' = got + 1
              /\ retErr' = (retErr \/ fpc[k] = "senderr")
              /\ fpc' = [fpc EXCEPT ![k] = IF @ = "senderr" THEN "sendnil" ELSE "done"]
              /\ UNCHANGED panicked
    /\ UNCHANGED <<meta, databases, table, tableInfo, tpc, cur, next, result, restored,
                   failedFile, errClosed, cancelled>>

\* Mutant: the collecting loop also waits for every goroutine to be done.
CollectedAfterAll ==
    /\ tpc = "recv" /\ got = NFiles
    /\ \A k \in Files : fpc[k] = "done"
    /\ IF retErr THEN Return("err")
                 ELSE tpc' = "close" /\ UNCHANGED <<result, errClosed>>
    /\ UNCHANGED <<meta, databases, table, tableInfo, cur, next, got, retErr, fpc,
                   restored, failedFile, cancelled, panicked>>

\* After len(table.Files) reports: return the error, or close the engine.
Collected ==
    /\ tpc = "recv" /\ got = NFiles
    /\ IF retErr THEN Return("err")
                 ELSE tpc' = "close" /\ UNCHANGED <<result, errClosed>>
    /\ UNCHANGED <<meta, databases, table, tableInfo, cur, next, got, retErr, fpc,
                   restored, failedFile, cancelled, panicked>>

CloseEngine == Step("close", "import")
ImportEngine == Step("import", "cleanup")
CleanupEngine == Step("cleanup", "analyze")

\* AnalyzeTable's error (or nil) is what RestoreTable returns.
AnalyzeTable ==
    /\ tpc = "analyze"
    /\ \E r \in {"nil", "err"} : Return(r)
    /\ UNCHANGED <<meta, databases, table, tableInfo, cur, next, got, retErr, fpc,
                   restored, failedFile, cancelled, panicked>>

Cancel ==
    /\ MayCancel /\ ~cancelled
    /\ cancelled' = TRUE
    /\ UNCHANGED <<meta, databases, table, tableInfo, tpc, cur, next, got, retErr,
                   result, fpc, restored, failedFile, errClosed, panicked>>

\* The process ends when RestoreTable has returned and no goroutine can
\* move, or on a panic.
Terminated ==
    /\ \/ panicked # "none"
       \/ tpc = "returned" /\ \A k \in Files : fpc[k] \in {"none", "done"}
    /\ UNCHANGED vars

Alive == panicked = "none"

Next ==
    \/ Alive /\ InitBackupMeta
    \/ Alive /\ CreateTable
    \/ Alive /\ FetchTableInfo
    \/ Alive /\ OpenEngine
    \/ Alive /\ SpawnFile
    \/ Alive /\ LoopEnd
    \/ Alive /\ \E k \in Files : RestoreFile(k)
    \/ Alive /\ \E k \in Files : Report(k)
    \/ Alive /\ Collected
    \/ Alive /\ CloseEngine
    \/ Alive /\ ImportEngine
    \/ Alive /\ CleanupEngine
    \/ Alive /\ AnalyzeTable
    \/ Alive /\ Cancel
    \/ Terminated

Spec == Init /\ [][Next]_vars

\* The Go scheduler runs every runnable goroutine: RestoreTable's caller
\* and each file goroutine keep taking their enabled steps.  The context's
\* cancellation is the caller's choice and is not fair.
\* Every iteration index a table of the metas may have.
FileSlots == UNION {1..Len(m.files) : m \in Metas}

FairSpec ==
    /\ Spec
    /\ WF_vars(Alive /\ InitBackupMeta) /\ WF_vars(Alive /\ CreateTable)
    /\ WF_vars(Alive /\ FetchTableInfo) /\ WF_vars(Alive /\ OpenEngine)
    /\ WF_vars(Alive /\ SpawnFile) /\ WF_vars(Alive /\ LoopEnd)
    /\ WF_vars(Alive /\ Collected) /\ WF_vars(Alive /\ CloseEngine)
    /\ WF_vars(Alive /\ ImportEngine) /\ WF_vars(Alive /\ CleanupEngine)
    /\ WF_vars(Alive /\ AnalyzeTable)
    /\ \A k \in FileSlots : /\ WF_vars(Alive /\ k \in Files /\ RestoreFile(k))
                            /\ WF_vars(Alive /\ k \in Files /\ Report(k))

\* The importer's rewrite of an ID under a list of IdPairs: the pair's
\* NewId for its OldId, the ID itself when no pair names it.
RewriteID(pairs, id) ==
    IF \E p \in pairs : p.old = id THEN (CHOOSE p \in pairs : p.old = id).new ELSE id

-----------------------------------------------------------------------------
TypeOK ==
    /\ meta \in Metas
    /\ tpc \in TPcs
    /\ cur \in 0..NFiles /\ next \in 1..(NFiles + 1) /\ got \in 0..NFiles
    /\ retErr \in BOOLEAN /\ result \in {"none", "nil", "err"}
    /\ fpc \in [Files -> {"none", "run", "senderr", "sendnil", "done"}]
    /\ restored \in [Files -> 0..NFiles]
    /\ failedFile \subseteq Files

\* No goroutine sends on errCh after RestoreTable's deferred close(errCh).
NoSendOnClosedErrCh == panicked # "send on closed errCh"

\* Unless cancelled, RestoreTable returns nil only if no RestoreFile call
\* failed: although len(table.Files) reports are read out of more than that
\* many sends, a goroutine's error always precedes its own nil.
FailedFileReported == (result = "nil" /\ ~cancelled) => failedFile = {}

\* When RestoreTable returns nil and was not cancelled, every file of the
\* table was restored: the engine was imported with all its data.
AllFilesRestored ==
    (result = "nil" /\ ~cancelled) => \A f \in Files : restored[f] >= 1

\* RestoreTable always returns (or the process panics): the collecting loop
\* reads len(table.Files) reports, and the goroutines always send at least
\* that many, one nil each after an error, whatever order the unbuffered
\* sends complete in.
RestoreTableReturns == <>(result # "none" \/ panicked # "none")

\* The table restores exactly the write files of the backup whose keys lie
\* in it, each with the default file of the same base name (none when the
\* backup has no such file).
TableFilesLoaded ==
    tpc # "init" /\ panicked = "none" =>
        /\ {table.files[i].write : i \in Files}
              = {f \in ToSet(meta.files) : f.name[2] = "write" /\ f.start = table.schema.id}
        /\ \A i \in Files :
              LET b == table.files[i].write.name[1]
                  ds == {f \in ToSet(meta.files) : f.name = <<b, "default">>}
              IN  table.files[i].default = IF ds = {} THEN NoFile ELSE CHOOSE f \in ds : TRUE

\* Every key RestoreFile imports lands in the table CreateTable made: once
\* FetchTableInfo returned the created table and a file goroutine runs,
\* the TableIds that GroupIDPairs built for the request rewrite the
\* backup's table ID to tableInfo.ID, and its IndexIds rewrite each index
\* ID to that of the created table's index of the same name.
RewriteIntoCreatedTable ==
    (tableInfo # NilInfo /\ \E k \in Files : fpc[k] # "none") =>
        LET p == GroupIDPairs(table.schema, tableInfo)
        IN  /\ RewriteID(ToSet(p.tableIDs), table.schema.id) = tableInfo.id
            /\ \A i \in table.schema.indices, j \in tableInfo.indices :
                  i.name = j.name => RewriteID(p.indexIDs, i.id) = j.id
=============================================================================
