------------------------------ MODULE ConnPool ------------------------------
(***************************************************************************)
(* conn.Mgr's cache of gRPC connections (src/pkg/rtree/logging.go): a map *)
(* storeID -> *grpc.ClientConn guarded by grpcClis.mu.  GetBackupClient,  *)
(* ResetBackupClient and Close hold the mutex for their whole body, dials *)
(* and retry sleeps included, so each is one atomic step here.  What      *)
(* interleaves is the backup workers' use of a client after the call has  *)
(* returned it.                                                           *)
(*                                                                         *)
(* A connection is named by the number of the dial that made it.  The     *)
(* workers (the backup push loop, not in this repository) get a client    *)
(* for a store, issue an RPC on it, and reset the store's client when the *)
(* RPC fails.                                                             *)
(*                                                                         *)
(* NewMgr comes first: it asks PD for its stores and keeps, by            *)
(* GetAllTiKVStores, those the StoreBehavior selects; the workers use the *)
(* stores it found.  A PD store is a record [id, tiflash].                *)
(***************************************************************************)
EXTENDS Naturals, Sequences, SequencesExt

CONSTANTS
    Workers,          \* goroutines using the manager
    Stores,           \* TiKV store IDs
    PDStores,         \* the store lists pdClient.GetAllStores may return
    MaxDials          \* bound on grpc.DialContext calls

ErrorOnTiFlash == 0
SkipTiFlash == 1
TiFlashOnly == 2
StoreBehaviors == {ErrorOnTiFlash, SkipTiFlash, TiFlashOnly}

\* Mutant: SkipTiFlash falls through instead of `continue`, so the
\* TiFlash store is kept.
FilterStepNoSkip(acc, store, behavior) ==
    IF acc.err THEN acc
    ELSE IF store.tiflash /\ behavior = ErrorOnTiFlash THEN [acc EXCEPT !.err = TRUE]
    ELSE IF ~store.tiflash /\ behavior = TiFlashOnly THEN acc
    ELSE [acc EXCEPT !.arr[acc.j + 1] = store, !.j = @ + 1]

\* One iteration of GetAllTiKVStores' loop: skip the store, fail, or write
\* it to stores[j] and advance j.  The loop reads stores[i] of the array it
\* writes to, but only at j <= i, so it reads the original store.
FilterStep(acc, store, behavior) ==
    IF acc.err THEN acc
    ELSE IF store.tiflash /\ behavior = SkipTiFlash THEN acc
    ELSE IF store.tiflash /\ behavior = ErrorOnTiFlash THEN [acc EXCEPT !.err = TRUE]
    ELSE IF ~store.tiflash /\ behavior = TiFlashOnly THEN acc
    ELSE [acc EXCEPT !.arr[acc.j + 1] = store, !.j = @ + 1]

\* GetAllTiKVStores over the list PD returned: an error, or stores[:j].
GetAllTiKVStores(resp, behavior) ==
    LET r == FoldLeft(LAMBDA acc, st : FilterStep(acc, st, behavior),
                      [arr |-> resp, j |-> 0, err |-> FALSE], resp)
    IN  IF r.err THEN [err |-> TRUE] ELSE [err |-> FALSE, stores |-> SubSeq(r.arr, 1, r.j)]

VARIABLES
    mgrPc,      \* "new" before NewMgr, then "ready" or "failed"
    pdResp,     \* the store list PD returned to NewMgr
    behavior,   \* NewMgr's storeBehavior
    stores,     \* the stores GetAllTiKVStores kept
    clis,       \* grpcClis.clis: store -> connection, 0 when absent
    conn,       \* connection -> "open" | "closed" ("none" before its dial)
    dialed,     \* dials made so far
    wk,         \* per worker: [pc, store, c], c the connection it uses
    mgrClosed   \* Mgr.Close has run

vars == <<mgrPc, pdResp, behavior, stores, clis, conn, dialed, wk, mgrClosed>>

Conns == 1..MaxDials

Init ==
    /\ mgrPc = "new" /\ pdResp = <<>> /\ behavior = SkipTiFlash /\ stores = <<>>
    /\ clis = [s \in Stores |-> 0]
    /\ conn = [c \in Conns |-> "none"]
    /\ dialed = 0
    /\ wk = [w \in Workers |-> [pc |-> "idle", store |-> CHOOSE s \in Stores : TRUE, c |-> 0]]
    /\ mgrClosed = FALSE

\* NewMgr: the PD controller, the version check or GetAllTiKVStores may
\* fail, and then no manager exists; otherwise the manager starts with an
\* empty connection map.  The count of Up stores is computed and not used.
NewMgr ==
    /\ mgrPc = "new"
    /\ \E resp \in PDStores, b \in StoreBehaviors :
          LET r == GetAllTiKVStores(resp, b)
          IN  /\ pdResp' = resp /\ behavior' = b
              /\ \/ ~r.err /\ mgrPc' = "ready" /\ stores' = r.stores
                 \/ mgrPc' = "failed" /\ UNCHANGED stores
    /\ UNCHANGED <<clis, conn, dialed, wk, mgrClosed>>

\* getGrpcConnLocked either fails (GetStore or DialContext error) or yields a
\* fresh open connection.
DialOk ==
    /\ dialed < MaxDials
    /\ dialed' = dialed + 1
DialFails == UNCHANGED dialed
NewConn == dialed + 1

\* GetBackupClient: the cached connection, or a dial that is cached on
\* success; a dial error is returned.
GetBackupClient(w, s) ==
    /\ mgrPc = "ready" /\ wk[w].pc = "idle" /\ ~mgrClosed
    /\ IF clis[s] # 0
         THEN /\ wk' = [wk EXCEPT ![w] = [pc |-> "rpc", store |-> s, c |-> clis[s]]]
              /\ UNCHANGED <<clis, conn, dialed>>
         ELSE \/ /\ DialOk
                 /\ clis' = [clis EXCEPT ![s] = NewConn]
                 /\ conn' = [conn EXCEPT ![NewConn] = "open"]
                 /\ wk' = [wk EXCEPT ![w] = [pc |-> "rpc", store |-> s, c |-> NewConn]]
              \/ /\ DialFails
                 /\ UNCHANGED <<clis, conn, wk>>
    /\ UNCHANGED <<mgrPc, pdResp, behavior, stores, mgrClosed>>

\* The worker's RPC on its client fails when the connection was closed
\* under it, and may fail for transport reasons on an open one.
Rpc(w) ==
    LET c == wk[w].c
    IN  /\ wk[w].pc = "rpc"
        /\ \/ conn[c] = "open" /\ wk' = [wk EXCEPT ![w].pc = "idle"]
           \/ wk' = [wk EXCEPT ![w].pc = "reset"]
        /\ UNCHANGED <<mgrPc, pdResp, behavior, stores, clis, conn, dialed, mgrClosed>>

\* Mutant: the caller goes on with the client although every dial failed.
ResetDialIgnoringErr(w, s) ==
    \/ /\ DialOk
       /\ clis' = [clis EXCEPT ![s] = NewConn]
       /\ wk' = [wk EXCEPT ![w] = [pc |-> "rpc", store |-> s, c |-> NewConn]]
    \/ /\ DialFails
       /\ clis' = [clis EXCEPT ![s] = 0]
       /\ wk' = [wk EXCEPT ![w] = [pc |-> "rpc", store |-> s, c |-> 0]]

\* The outcomes of the retry loop (resetRetryTimes dials with sleeps, all
\* under the mutex): the first successful dial caches a new connection;
\* when every dial fails the error is returned and the store has no entry.
ResetDial(w, s) ==
    \/ /\ DialOk
       /\ clis' = [clis EXCEPT ![s] = NewConn]
       /\ wk' = [wk EXCEPT ![w] = [pc |-> "rpc", store |-> s, c |-> NewConn]]
    \/ /\ DialFails
       /\ clis' = [clis EXCEPT ![s] = 0]
       /\ wk' = [wk EXCEPT ![w] = [pc |-> "idle", store |-> s, c |-> 0]]

\* Mutant: the cached connection is closed but left in the map.
ResetKeepsClosed(w) ==
    LET s == wk[w].store
        old == clis[s]
    IN  /\ wk[w].pc = "reset" /\ ~mgrClosed
        /\ \/ /\ DialOk
              /\ clis' = [clis EXCEPT ![s] = NewConn]
              /\ wk' = [wk EXCEPT ![w] = [pc |-> "rpc", store |-> s, c |-> NewConn]]
           \/ /\ DialFails
              /\ UNCHANGED clis
              /\ wk' = [wk EXCEPT ![w] = [pc |-> "idle", store |-> s, c |-> 0]]
        /\ conn' = [c \in Conns |-> IF c = old /\ old # 0 THEN "closed"
                                    ELSE IF c = NewConn /\ dialed' # dialed THEN "open"
                                    ELSE conn[c]]
        /\ UNCHANGED <<mgrPc, pdResp, behavior, stores, mgrClosed>>

\* Mutant: the cached connection is dropped from the map without Close().
ResetLeaks(w) ==
    LET s == wk[w].store
    IN  /\ wk[w].pc = "reset" /\ ~mgrClosed
        /\ ResetDial(w, s)
        /\ conn' = [c \in Conns |-> IF c = NewConn /\ dialed' # dialed THEN "open"
                                    ELSE conn[c]]
        /\ UNCHANGED <<mgrPc, pdResp, behavior, stores, mgrClosed>>

\* ResetBackupClient: close and delete whatever connection the map holds for
\* the store (not necessarily the one the caller saw fail), then dial.
ResetBackupClient(w) ==
    LET s == wk[w].store
        old == clis[s]
    IN  /\ wk[w].pc = "reset" /\ ~mgrClosed
        /\ ResetDial(w, s)
        /\ conn' = [c \in Conns |-> IF c = old /\ old # 0 THEN "closed"
                                    ELSE IF c = NewConn /\ dialed' # dialed THEN "open"
                                    ELSE conn[c]]
        /\ UNCHANGED <<mgrPc, pdResp, behavior, stores, mgrClosed>>

\* Mgr.Close, once the workers are done: Close() every cached connection;
\* the map keeps its entries.
Close ==
    /\ mgrPc = "ready" /\ ~mgrClosed
    /\ \A w \in Workers : wk[w].pc = "idle"
    /\ conn' = [c \in Conns |-> IF \E s \in Stores : clis[s] = c THEN "closed" ELSE conn[c]]
    /\ mgrClosed' = TRUE
    /\ UNCHANGED <<mgrPc, pdResp, behavior, stores, clis, dialed, wk>>

Terminated == (mgrClosed \/ mgrPc = "failed") /\ UNCHANGED vars

Next ==
    \/ NewMgr
    \/ \E w \in Workers, i \in DOMAIN stores : GetBackupClient(w, stores[i].id)
    \/ \E w \in Workers : Rpc(w)
    \/ \E w \in Workers : ResetBackupClient(w)
    \/ Close
    \/ Terminated

Spec == Init /\ [][Next]_vars

-----------------------------------------------------------------------------
TypeOK ==
    /\ mgrPc \in {"new", "ready", "failed"}
    /\ behavior \in StoreBehaviors
    /\ \A i \in DOMAIN stores : stores[i].id \in Stores
    /\ clis \in [Stores -> 0..MaxDials]
    /\ conn \in [Conns -> {"none", "open", "closed"}]
    /\ dialed \in 0..MaxDials
    /\ wk \in [Workers -> [pc : {"idle", "rpc", "reset"}, store : Stores, c : 0..MaxDials]]
    /\ \A w \in Workers : wk[w].pc # "idle" => wk[w].c \in Conns

\* No connection leaks: every open connection is the one the map caches for
\* its store, so ResetBackupClient and Mgr.Close can reach it and nothing
\* stays open after Close.
NoLeakedConn ==
    \A c \in Conns : conn[c] = "open" => \E s \in Stores : clis[s] = c

\* While the manager is open, GetBackupClient never hands out a closed
\* connection: whatever the map caches is open.
CachedConnIsOpen ==
    ~mgrClosed => \A s \in Stores : clis[s] # 0 => conn[clis[s]] = "open"

\* The manager uses exactly the PD stores its StoreBehavior selects, in PD's
\* order: the in-place compaction of GetAllTiKVStores keeps every TiKV
\* store (or every TiFlash store for TiFlashOnly) and no other, and
\* ErrorOnTiFlash admits no TiFlash store at all.
StoresFiltered ==
    mgrPc = "ready" =>
        /\ stores = SelectSeq(pdResp, LAMBDA st : st.tiflash = (behavior = TiFlashOnly))
        /\ behavior = ErrorOnTiFlash => \A i \in DOMAIN pdResp : ~pdResp[i].tiflash

\* conn.Mgr implements the connection cache it promises: the map is the
\* cache, the open connections are the open ones, Close is the shutdown.
\* Every step of GetBackupClient, ResetBackupClient (whose dial retries run
\* under the mutex) and Mgr.Close is a step of ConnCache or leaves it alone.
Cache == INSTANCE ConnCache WITH
            Stores <- Stores, Conns <- Conns, cache <- clis,
            open <- {c \in Conns : conn[c] = "open"}, shut <- mgrClosed

ConnCacheRefined == Cache!Spec

=============================================================================
