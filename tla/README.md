# TLA+ models of backupCLI

This directory holds TLA+ models of the concurrent parts of the backup/restore
tool and of the lightning duplicate-detection engine. It also holds the TLC
configurations that check them. `PROJECT.json` records:

- the components;
- the runs;
- the mutants used to show that each property can fail;
- the map from every TLA+ definition to the source lines it translates;
- the findings;
- the hazards.

Run a check from this directory with `tlc -workers 2 -config <run>.cfg MC_<Module>`.

## 1. The system: its parts and how they interact

| Part | Source | State | Operations | Interactions |
|---|---|---|---|---|
| tikvSender | `src/unnamed/part_000` 180–338 | `inCh`, `midCh` (buffered channels of size 1024); `wg` (2 workers); `tableWaiters` (sync.Map table → WaitGroup); per-worker `splitWorks` / `restoreWorks` WaitGroups; a split worker pool | `RestoreBatch`, `Close`; the `splitWorker` and `restoreWorker` goroutines; the split job callback; the restore goroutine callback; `registerTableIsRestoring`, `waitTablesDone` | The caller feeds batches. A batch is split, then restored. When every batch holding a table's ranges is restored, the table is emitted to a `chanTableSink`. A context can cancel the workers. |
| DuplicateManager | `src/unnamed/part_001` 66–598 | Per request goroutine: `regions`, `tryTimes`, `indexHandles`, `unfinishedRegions`, `waitingClients`, `watingRegions`. Shared: `wg`, `tableErr` (OnceError), the cancel function | `DuplicateTable`, `sendRequestToTiKV`, `storeDuplicateData`, `GetValues`, `getValuesFromRegion`, the request planner (`buildDuplicateRequests`) | One goroutine per request. Each scans regions, opens duplicate-detect streams, receives pairs, writes them to pebble, and fetches index-resolved rows with BatchGet. |
| brContextManager | `part_000` 50–138 | `hasTable` | `Enter`, `Leave`, `Close` | Placement rules around a table's restore. |
| conn.Mgr | `src/pkg/rtree/logging.go` 63–410 | `grpcClis.clis` map under a mutex | `NewMgr` (`GetAllTiKVStores`), `GetBackupClient`, `ResetBackupClient`, `Close` | Backup workers share the connections. |
| old RestoreClient | `src/tests/br_gc_safepoint/run.sh` 42–345 | an unbuffered `errCh` per call | `RestoreTable`, `RestoreDatabase`, `RestoreAll`, and the engine steps | Goroutines per file, table or database report on `errCh`. |
| Key codec | `part_001` 1–65 | none | `EncodeKeySuffix`, `DecodeKeySuffix` | Pure functions. |
| Backup metadata helpers | `src/pkg/restore/util.go` | none | `LoadBackupTables`, `GroupIDPairs`, `groupFiles`, `FetchTableInfo` | Pure functions, plus one HTTP fetch (the `FetchTableInfo` step of `RestoreClient`). |
| GC safe point | `src/pkg/backup/safe_point.go` 1–85 | a PD service safe point | check, update, and the keeper goroutine | Talks to PD. |
| Small utilities | `utils/retry.go`, `logutil/rate.go` | — | `WithRetry`, `TrivialRater` | — |

### Hard behaviours

These are the behaviours a unit test reaches badly:

- The interleaving of the split pool jobs, the restore goroutines and the table waiters.
- A table whose ranges span several batches.
- Cancellation in the middle of the pipeline.
- A failed split callback.
- Nil placeholders that `make(T, n)` leaves before the values appended after them.
- The retry passes of `sendRequestToTiKV`.
- A connection reset while other workers still use it.
- Double sends on a closed `errCh`.
- A backup file whose keys span two tables.
- Key encodings at the 8-byte group boundary, and negative row IDs.

## 2. Modules

| Module | Models | Kind |
|---|---|---|
| `RestoreSender` | tikvSender and chanTableSink | concurrent state machine |
| `DuplicateManager` | DuplicateTable, the request planner, sendRequestToTiKV, GetValues | concurrent state machine |
| `ConnPool` | conn.Mgr: NewMgr with GetAllTiKVStores, GetBackupClient, ResetBackupClient, Close | concurrent state machine |
| `BackupMeta` | util.go: groupFiles, LoadBackupTables, GroupIDPairs | pure operators |
| `RestoreClient` | InitBackupMeta and RestoreTable of the old restore client; EXTENDS BackupMeta | concurrent state machine |
| `KeyCodec` | EncodeKeySuffix, DecodeKeySuffix, codec.EncodeBytes/DecodeBytes | pure operators |
| `SafePointKeeper` | safe_point.go: CheckGCSafePoint, UpdateServiceSafePoint, StartServiceSafePointKeeper, with PD and the GC worker as environment | timed state machine |
| `ConnCache` | what conn.Mgr promises: one open connection cached per store, none leaked | abstract specification |

Each `MC_<Module>` instantiates one of them with model values and small constant data.

### RestoreSender (tikvSender)

**Variables.** The variables are records, one per piece of state in the code:

| Variable | Stands for |
|---|---|
| `caller` | the caller's position (sending, in `Close`, returned) and the batches sent |
| `inCh`, `midCh` | the two buffered channels: queue and closed flag |
| `split` | the splitWorker loop, the batch held in `pool.Apply`, and `splitWorks` |
| `sjob[b]` | the pool job of batch `b` |
| `tw` | `tableWaiters`. A WaitGroup is named `<<table, generation>>`, because `LoadAndDelete` can retire one while a later `LoadOrStore` creates another. It holds the WaitGroup counters and the WaitGroups `done()` of each batch releases. |
| `restore`, `rjob[b]` | restoreWorker with `restoreWorks`, and the restore goroutine of batch `b` |
| `sink` | chanTableSink: closed flag, tables emitted, `EmitError` calls |
| `senderWg` | `b.wg` |
| `panicked` | a runtime panic ended the process |

**Actions.** Each action is one atomic step of one goroutine, cut where the Go code blocks:

| Code | Action |
|---|---|
| a channel send or receive | `RestoreBatch`, `SplitRecv`, `SplitForward`, `RestoreRecv` |
| `pool.Apply` | `SplitApply` |
| a callback | `SplitFinish`, `RestoreDone` |
| `LoadAndDelete` | `WaitLoad` |
| `Wait` | `WaitWg`, `SplitExit`, `RestoreExit`, `CloseReturns` |

Failures of the split and restore RPCs are disjuncts, enabled by the `SplitMayFail` and `RestoreMayFail` constants. The owner of the context may cancel it (`Cancel`, enabled by `MayCancel`).

`MC_RestoreSender` uses three batches over two tables:

1. `{t1}`
2. `{t1, t2}`, reporting `t1`
3. `{t2}`, reporting `t2`

So each reported table has its ranges in two batches, and the second batch holding a table can be restored before the first. Two split workers let the split jobs overlap. `ChannelSize` is 1 in the safety runs, so senders block on full channels. In the cancellation run it is 3, as large as the number of batches, as the real 1024 is.

### DuplicateManager

`w[g]` holds the locals of goroutine `g`'s `sendRequestToTiKV`:

- `regions`
- `try`
- `handles` (`indexHandles`)
- `unfinished`
- `clients` (`waitingClients`)
- `cregions` (`watingRegions`)
- `idx`, the position in the current loop
- `recvd`, the responses received on the current stream

The shared variables are:

- `running`, the `wg`;
- `tableErr`;
- `cancelled`;
- `dtPc`, `DuplicateTable`'s own position.

A region is its position in a scan. `Nil` is the zero value that `make(T, n)` fills its n slots with.

The actions follow the phases of one pass of the loop:

| Action | Code |
|---|---|
| `Start` | scan |
| `LoopHead` | loop head, retry limit, preallocation |
| `Open` | one region of the opening loop |
| `GetValues` | `GetValues` on the nil handle prefix: the scan of the empty range is rejected and the handles come back |
| `Recv` | one `Recv` and its response handling, including `storeDuplicateData` |
| `PassEnd` | the retry accounting |
| `WaitAll` | `DuplicateTable`'s `wg.Wait()` |

`StoredHandles` gives the handles `storeDuplicateData` can return. `GetValues` is only ever called before any `Recv`, on the `make([][]byte, len(regions))` list. Every handle in that list is nil, so `startKey = endKey`. The scan of that empty range is rejected: `paginateScanRegion`, which is not in this repository, refuses `startKey >= endKey`. So `GetValues` returns its input, and its partition loop (line 392, which never advances `endIdx`) is not reached. `MC_DuplicateManager` has one public index and one non-public index, scans of up to two regions, and `regionConcurrency` 2.

### ConnPool (conn.Mgr)

| Variable | Stands for |
|---|---|
| `mgrPc`, `pdResp`, `behavior`, `stores` | `NewMgr`'s progress, the store list PD returned, the `StoreBehavior`, and the stores `GetAllTiKVStores` kept |
| `clis` | `grpcClis.clis`: store → connection (0 when absent) |
| `conn[c]` | whether connection `c` is open or closed |
| `dialed` | dials made so far, bounded by `MaxDials` |
| `wk[w]` | a backup worker: its position, store and connection |
| `mgrClosed` | `Mgr.Close` has run |

`NewMgr` chooses a PD response and a behaviour. `GetAllTiKVStores` is an operator: a fold of `FilterStep` over the list, which compacts the slice in place as the Go loop does. Each method that holds `grpcClis.mu` is one atomic step:

- `GetBackupClient`, with `getGrpcConnLocked`'s dial that may fail;
- `ResetBackupClient`, which closes the cached connection and re-dials;
- `Close`.

A worker's RPC on the connection it got (`Rpc`) is the environment. The MC module has two workers and two stores. Its three PD responses have no TiFlash store, a TiFlash second store, and a TiFlash first store. `MaxDials` is 4.

### BackupMeta and RestoreClient (old restore client)

`BackupMeta` gives `groupFiles`, `LoadBackupTables` and `GroupIDPairs` as operators.

- A file is `[name |-> <<base, kind>>, start, end]`. Its keys are the table IDs they decode to, and 0 means no table prefix.
- A schema is `[db, id, indices]`, and an index is `[name, id]`.
- `GroupIDPairs` returns the table pairs as a sequence and the index pairs as a set, since the importer looks pairs up by old ID.

`RestoreClient` EXTENDS it.

- `InitBackupMeta` loads the meta and picks the first table.
- `RestoreTable` follows the table through create, schema fetch, engine open, the file loop, the collecting loop, and close, import, cleanup and analyze.

| Variable | Stands for |
|---|---|
| `meta`, `databases`, `table` | the meta, `rc.databases`, and the table being restored |
| `tableInfo` | `FetchTableInfo`'s result, the created table's IDs (`NilInfo` for a nil pointer) |
| `tpc` | `RestoreTable`'s position |
| `cur`, `next` | the shared range variable `file` and the loop index |
| `fpc[k]` | the goroutine of iteration `k` |
| `restored[f]`, `failedFile` | what `RestoreFile` did to each file |
| `got`, `retErr`, `result` | the collecting loop and the return value |
| `errClosed` | the deferred `close(errCh)` has run |
| `cancelled`, `panicked` | the context, and a panic |

The goroutines read `cur` when they run, not when they are spawned, as the Go closure does.

`FetchTableInfo` reads back the table that `CreateTable` made. TiDB chooses its table ID from `CreatedIDs` and its index IDs from `IndexIDs`. The MC module allows the created table to keep the backup's ID 1, or to get ID 5 in a cluster that already used it. `RewriteID` is the importer's reading of an `IdPair` list, written from the `import_kvpb` protocol, which is not in this repository.

The MC module has two metas:

- a table with an index and three write files, one of them with no default file, plus a file outside any table and a second table;
- two databases.

`FetchedTableInfos` is `FetchTableInfo` of `util.go`: nil on an HTTP, read or JSON error, and otherwise the created table. When the result is nil and the table has an index, `GroupIDPairs` panics.

`FairSpec` gives weak fairness to `RestoreTable`'s steps and to every file goroutine's `RestoreFile` and `Report`.

### SafePointKeeper

| Variable | Stands for |
|---|---|
| `now` | a clock in seconds; timestamps use the same scale |
| `gcSP` | PD's GC safe point |
| `svc` | the service safe point "br" as `[sp, expire]` |
| `pc` | the caller: check, start, keep, done, failed |
| `ts`, `ttl` | `backupTS` and the keeper's TTL |
| `nextTick`, `fails` | the ticker's next firing, and the consecutive failed updates |

The actions are:

- `CheckGCSafePoint`: a read error is ignored, and `ts <= safePoint` fails;
- `StartServiceSafePointKeeper`: sets up a ticker of `max(ttl/5, 1)` seconds;
- `KeeperTick`: `UpdateServiceSafePoint` at `backupTS-1` in uint64 arithmetic, or a failure that is only logged;
- `Cancel`: the context ends the goroutine.

The environment has two actions:

- `GC` advances the GC safe point up to `now`, but never past a live service safe point.

Timestamps are counted from `now` minus the GC life time. So a GC safe point of `now` is what the GC worker may reach, and a `backupTS` of 2 stands for a backup taken with a `--timeago` just under the life time. `ReadMayFail` lets `getGCSafePoint` fail; `CheckGCSafePoint` then logs the error and accepts the timestamp, as its comment says.
- `Clock` advances time.

A due tick is taken before the clock moves on, so a slow RPC is counted as a failed one. uint64 wraps modulo `TSMax + 1`.

The bounds are:

- TTLs 5, 7 and 10, where `ttl/5` rounds down differently;
- `MaxFails` 3;
- `MaxTime` 13, which is past the longest TTL.

With `MaxFails` 4, TLC finds a lapse at TTL 5. So the bound is where the property stops holding, not a bound that hides it.

TTLs 1 to 4 all give `gapSec` 1. `keeper_short_ttl` takes TTL 1, the case with no margin at all, with `MaxFails` 0 and `MaxTime` 6. PD's expiry at the exact second of a refresh stands for a refresh that lands later after its tick than the one before it.

### ConnCache (refinement)

`ConnCache` states what `conn.Mgr` promises, with no workers, locks or dial counts:

- a store's cache slot holds one open connection or none;
- `Replace` swaps the connection, closing the old one;
- `Shutdown` closes every cached connection.

`ConnPool` instantiates it with these mappings:

- `cache <- clis`;
- `open <- ` the connections whose `conn` is open;
- `shut <- mgrClosed`.

`conn_safety` checks `ConnCacheRefined == Cache!Spec` as a `PROPERTY`.

### KeyCodec

`EncodeBytes` and `DecodeBytes` are RECURSIVE operators. They come from the TiDB codec library, which is not in this repository, so they are written from its documented format. The integers are encoded as 64-bit two's complement, byte by byte.

The only state is a pair `a, b` of inputs, and `Next` leaves it unchanged. TLC therefore checks every pair of inputs.

- The 11 keys are empty, end inside, exactly at, or past an 8-byte group, and hold 0x00 and 0xFF bytes.
- The integers are -1, 0, 1 and 256.

## 3. Runs

| Run | Expect | Shows |
|---|---|---|
| `sender_safety` | pass (13k states) | Split and restore failures and cancellation are enabled. No table is emitted before every batch with its ranges is restored (`TablesReportedAfterAllTheirRanges`). No send on a closed channel, and no wait on an unregistered table (`NoPanic`). |
| `sender_liveness` | pass | With splits that succeed and no cancellation, `Close` returns and every blank table is emitted exactly once (`SenderCompletes`), failed restores included. |
| `sender_split_error_hang` | violation | The split-error path never calls `splitWorks.Done()`, so `Close` hangs. |
| `sender_cancel_hang` | violation | After cancellation, batches are stranded in `midCh` while a restore goroutine waits for their tables, so `Close` hangs. |
| `conn_safety` | pass (9.9k states) | The manager keeps exactly the stores its behaviour selects (`StoresFiltered`). Two workers resetting and re-dialling never leak an open connection (`NoLeakedConn`) and never leave a closed one cached (`CachedConnIsOpen`). Every step of the manager is a step of `ConnCache` (`ConnCacheRefined`). |
| `rc_safety` | pass (9.9k states) | Under file failures, cancellation and fetch errors, `RestoreTable` never returns nil after a file failed unless cancelled (`FailedFileReported`). The restored table holds exactly its write files, each with its own default file (`TableFilesLoaded`). Under `FairSpec`, `RestoreTable` always returns or the process panics (`RestoreTableReturns`). |
| `rc_loopvar` | violation | The goroutines share the range variable, so one file is restored twice and another never. |
| `rc_id_pairs` | violation | When the created table gets a new ID, `GroupIDPairs` still pairs the backup's table ID with itself. The rows are imported under the old table ID, while the index entries are rewritten into the new table (`RewriteIntoCreatedTable`). With `NewId: destTable.ID` the run passes. |
| `keeper_safety` | pass (21k states) | While the backup runs, the service safe point, once registered, never lapses with up to 3 failed updates in a row (`SafePointKept`). Once the keeper has registered `backupTS-1`, no GC step reaches `backupTS` (`BackupTSKeptOnceRegistered`, an action property). This would fail if the `-1` were dropped. PD's reads may fail. |
| `keeper_window` | violation | The keeper registers nothing until its first tick, `gapSec` after it starts. Before that tick the GC worker moves the GC safe point to `backupTS` (`BackupTSProtected`, an action property). A keeper that calls `UpdateServiceSafePoint` once before starting its ticker passes the same run. |
| `keeper_short_ttl` | violation | With a TTL of 1 second, `gapSec = MaxInt(ttl/5, 1)` equals the TTL. Each refresh is due in the second the previous registration expires. With every update succeeding, GC moves the GC safe point to `backupTS` in that second, before the tick (`BackupTSKeptOnceRegistered`). This is the race of a refresh landing later after its tick than the one before it. |
| `codec_props` | pass (31k states) | `DecodeKeySuffix` inverts `EncodeKeySuffix` (`RoundTrip`). Byte order of encoded keys is the order of key, unsigned rowID and unsigned offset (`OrderPreserved`). |

The nil first request of every group, which `make(T, 1)` followed by `append` leaves, is kept as the `Panic("nil request")` outcome. Any call reaches it, so no run is spent on it. It means that the retry machinery of `sendRequestToTiKV` cannot be reached as the code stands. So `DuplicateManager` has no passing run. The parts after that point are still modelled, so the model stays faithful if the placeholders are fixed.

Every property of a passing run has a mutant in `PROJECT.json`: a plausible bug in a mapped definition that makes TLC report the property violated.

**Fairness.** `FairSpec` gives weak fairness to every goroutine's steps, because the Go scheduler runs every runnable goroutine. Cancellation is not fair: it is the caller's choice. The safety and violation runs that reach real stops set `CHECK_DEADLOCK FALSE`: a failed split hangs, and a panic ends the process. `sender_liveness`, `conn_safety`, `rc_safety`, `keeper_safety` and `codec_props` check deadlock.

`rc_safety` runs under RestoreClient's `FairSpec` for `RestoreTableReturns`. Its invariants hold in every reachable state, so fairness does not weaken them.

A bug that a unit test reaches in one call gets no violation run. These bugs stay in the model as outcomes, and `PROJECT.json` lists them as hazards:
- the nil first request in `DuplicateManager`;
- `LoadBackupTables` returning `(nil, nil)` for a file whose keys span two tables.

## 4. Not modelled

The following are not modelled, and may be modelled later:

- **brContextManager.** Its caller, the batcher, is not in the repository, and neither are the `Client` methods it calls (`SetupPlacementRules`, `WaitPlacementSchedule`, `ResetPlacementRules`). Any order of `Enter`, `Leave` and `Close` calls would be invented. Two of its partial failures are listed as hazards:
  - `Enter` marks tables in `hasTable` before the setup that may fail, so a later `Enter` skips them.
  - `Leave` forgets tables whose rule reset failed, so `Close` never resets them.
- **The keeper's caller.** The order of the check and the first registration is up to the caller, which is not in the repository.
- **`WithRetry` and `GetAllTiKVStoresWithRetry`.** The caller passes three arguments to a two-parameter `WithRetry`, so the pair does not build as written. `WithRetry` has no other caller. Its behaviour depends on a `Backoffer` (`NewPDReqBackoffer`) that is not in the repository.
- **`RestoreDatabase` and `RestoreAll`.** They repeat `RestoreTable`'s fan-out one level up, so its findings apply to them.

The rest is left out for good:

- The mocks are generated code.
- The logging marshalers only format.
- The shell scripts and tests are not the program.
- `TrivialRater` has no caller in the repository. Its `Rate` is a single float expression, listed as a hazard.
- The `logutil` zap marshalers only format values.
