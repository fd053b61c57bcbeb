-------------------------- MODULE DuplicateManager --------------------------
(***************************************************************************)
(* DuplicateManager.DuplicateTable (src/unnamed/part_001): one goroutine   *)
(* per DuplicateRequest runs sendRequestToTiKV, a loop of passes over the *)
(* regions covering the request's range: open a duplicate-detect stream   *)
(* per region (at most regionConcurrency), fetch pending index handles    *)
(* with GetValues, drain every stream, store the pairs, and retry the     *)
(* regions that failed.                                                   *)
(*                                                                         *)
(* Keys and values are abstracted away.  A region is its position in the  *)
(* scan (1..MaxRegions, the last one has an empty EndKey); a stream       *)
(* client is named by its region; Nil is the zero value that make(T, n)   *)
(* puts in each of the n slots of a slice it preallocates, and that the   *)
(* code then appends after rather than overwriting.                       *)
(***************************************************************************)
EXTENDS Naturals, Sequences, FiniteSets

CONSTANTS
    Indexes,           \* Seq of BOOLEAN: is index i in state public?
    MaxRegions,        \* most regions a scan returns
    RegionConcurrency, \* manager.regionConcurrency
    MaxRetryTimes,     \* maxRetryTimes
    MaxRecv,           \* most data responses one stream yields
    Nil,               \* the nil pointer / nil slice element
    H                  \* the row handle an index pair decodes to

ASSUME MaxRegions >= 1 /\ RegionConcurrency >= 1 /\ MaxRetryTimes >= 1

\* Slice of n zero values, as make([]T, n) returns.
Nils(n) == [i \in 1..n |-> Nil]

-----------------------------------------------------------------------------
(* The request planner.                                                   *)

\* buildTableRequest: make(..., 1) then one append per KV range (a full int
\* range of a non-partitioned table is one KV range).
BuildTableRequest == Nils(1) \o <<[index |-> 0]>>

\* buildIndexRequest: the same shape for one index.
BuildIndexRequest(i) == Nils(1) \o <<[index |-> i]>>

\* buildDuplicateRequests: the table request, then one per public index.
RECURSIVE IndexRequests(_)
IndexRequests(i) ==
    IF i > Len(Indexes) THEN <<>>
    ELSE (IF Indexes[i] THEN BuildIndexRequest(i) ELSE <<>>) \o IndexRequests(i + 1)

Reqs == BuildTableRequest \o IndexRequests(1)
G == 1..Len(Reqs)

VARIABLES
    w,         \* per goroutine: the locals of sendRequestToTiKV
    running,   \* the WaitGroup wg of DuplicateTable
    tableErr,  \* OnceError: FALSE, or TRUE once a goroutine reported an error
    cancelled, \* rpcctx cancelled
    dtPc,      \* DuplicateTable: "wait" (in wg.Wait()) or "returned"
    panicked   \* "none" or where the process panicked

vars == <<w, running, tableErr, cancelled, dtPc, panicked>>

Pcs == {"start", "head", "open", "getvalues", "recv", "tail", "returned"}
Ref == (1..MaxRegions) \cup {Nil}

\* The scans paginateScanRegion can return: the first k regions.
Scans == {[i \in 1..k |-> i] : k \in 0..MaxRegions}

-----------------------------------------------------------------------------
Init ==
    /\ w = [g \in G |-> [pc |-> "start", regions |-> <<>>, try |-> 0,
                         handles |-> <<>>, unfinished |-> <<>>,
                         clients |-> <<>>, cregions |-> <<>>, idx |-> 1,
                         recvd |-> 0]]
    /\ running = Len(Reqs)
    /\ tableErr = FALSE
    /\ cancelled = FALSE
    /\ dtPc = "wait"
    /\ panicked = "none"

\* The goroutine's epilogue: on an error tableErr.Set(err) and cancel();
\* then wg.Done().
Return(g, failed) ==
    /\ w' = [w EXCEPT ![g].pc = "returned"]
    /\ running' = running - 1
    /\ tableErr' = (tableErr \/ failed)
    /\ cancelled' = (cancelled \/ failed)
    /\ UNCHANGED <<dtPc, panicked>>

Panic(where) ==
    /\ panicked' = where
    /\ UNCHANGED <<w, running, tableErr, cancelled, dtPc>>

\* Encode req.start (a nil req panics), then paginateScanRegion: an error is
\* returned; otherwise indexHandles := make([][]byte, len(regions)).
Start(g) ==
    /\ w[g].pc = "start"
    /\ IF Reqs[g] = Nil
         THEN Panic("nil request")
         ELSE \/ Return(g, TRUE)
              \/ \E s \in Scans :
                    /\ w' = [w EXCEPT ![g].regions = s, ![g].handles = Nils(Len(s)),
                                      ![g].pc = "head"]
                    /\ UNCHANGED <<running, tableErr, cancelled, dtPc, panicked>>

\* Loop head: no regions left ends the loop; tryTimes > maxRetryTimes is an
\* error; otherwise the pass preallocates its three slices.
LoopHead(g) ==
    LET n == Len(w[g].regions)
    IN  /\ w[g].pc = "head"
        /\ IF n = 0 THEN Return(g, FALSE)
           ELSE IF w[g].try > MaxRetryTimes THEN Return(g, TRUE)
           ELSE /\ w' = [w EXCEPT ![g].unfinished = Nils(n), ![g].clients = Nils(n),
                                  ![g].cregions = Nils(n), ![g].idx = 1,
                                  ![g].pc = "open"]
                /\ UNCHANGED <<running, tableErr, cancelled, dtPc, panicked>>

\* The per-region loop of a pass.  len(waitingClients) already counts the n
\* nil placeholders, so with more regions than regionConcurrency every
\* region is deferred at once; a nil region (a placeholder that the previous
\* pass carried into regions) panics on region.Region.  A stream that cannot
\* be opened defers the region (GetRegionByID refreshes the same region).
Open(g) ==
    LET r == w[g].regions
        i == w[g].idx
    IN  /\ w[g].pc = "open"
        /\ IF i > Len(r) THEN
              /\ w' = [w EXCEPT ![g].pc = "getvalues"]
              /\ UNCHANGED <<running, tableErr, cancelled, dtPc, panicked>>
           ELSE IF Len(w[g].clients) > RegionConcurrency THEN
              /\ w' = [w EXCEPT ![g].unfinished = @ \o SubSeq(r, i, Len(r)),
                                ![g].pc = "getvalues"]
              /\ UNCHANGED <<running, tableErr, cancelled, dtPc, panicked>>
           ELSE IF r[i] = Nil THEN Panic("nil region")
           ELSE /\ \/ w' = [w EXCEPT ![g].clients = Append(@, r[i]),
                                     ![g].cregions = Append(@, r[i]),
                                     ![g].idx = i + 1]
                   \/ w' = [w EXCEPT ![g].unfinished = Append(@, r[i]),
                                     ![g].idx = i + 1]
                /\ UNCHANGED <<running, tableErr, cancelled, dtPc, panicked>>

\* GetValues(ctx, indexHandles), called when len(indexHandles) > 0, before
\* any Recv: indexHandles is still make([][]byte, len(regions)), so every
\* handle is nil and startKey = endKey = EncodeBytes(nil).  The scan of that
\* empty range is rejected (paginateScanRegion's startKey >= endKey check,
\* outside this repository), so GetValues returns the handles it was given
\* and the caller keeps them (with no handles the call is skipped, to the
\* same effect).  The partition loop is not reached.
GetValues(g) ==
    /\ w[g].pc = "getvalues"
    /\ \A i \in DOMAIN w[g].handles : w[g].handles[i] = Nil
    /\ w' = [w EXCEPT ![g].pc = "recv", ![g].idx = 1]
    /\ UNCHANGED <<running, tableErr, cancelled, dtPc, panicked>>

\* The handles storeDuplicateData returns when getValuesFromRegion fails:
\* make([][]byte, len(resp.Pairs)) followed by one append per index pair
\* that decodes (a table request writes its pairs to the batch instead).
StoredHandles(g, npairs, decoded) ==
    Nils(npairs) \o (IF Reqs[g].index # 0 /\ decoded /\ npairs > 0 THEN <<H>> ELSE <<>>)

\* One cli.Recv() on waitingClients[idx] and the handling of its response.
\* The nil placeholders panic.  EOF ends the stream; a transport or key
\* error defers the region; a region error defers the re-scanned shards (or
\* the region itself when the re-scan fails); a data response goes to
\* storeDuplicateData, whose commit may fail maxRetryTimes times (an error
\* the goroutine returns), and whose getValuesFromRegion may fail (its
\* handles join indexHandles).
Recv(g) ==
    LET i == w[g].idx
        region == w[g].cregions[i]
        next == [w EXCEPT ![g].idx = i + 1, ![g].recvd = 0]
    IN  /\ w[g].pc = "recv"
        /\ IF i > Len(w[g].clients) THEN
              /\ w' = [w EXCEPT ![g].pc = "tail"]
              /\ UNCHANGED <<running, tableErr, cancelled, dtPc, panicked>>
           ELSE IF w[g].clients[i] = Nil THEN Panic("recv on nil stream")
           ELSE \/ /\ w' = next
                   /\ UNCHANGED <<running, tableErr, cancelled, dtPc, panicked>>
                \/ /\ w' = [next EXCEPT ![g].unfinished = Append(@, region)]
                   /\ UNCHANGED <<running, tableErr, cancelled, dtPc, panicked>>
                \/ /\ \E k \in 1..2 :
                        w' = [next EXCEPT ![g].unfinished = @ \o [j \in 1..k |-> region]]
                   /\ UNCHANGED <<running, tableErr, cancelled, dtPc, panicked>>
                \/ /\ w[g].recvd < MaxRecv
                   /\ \/ Return(g, TRUE)
                      \/ /\ \E np \in 0..1, dec \in BOOLEAN :
                              \/ w' = [w EXCEPT ![g].recvd = @ + 1]
                              \/ w' = [w EXCEPT ![g].recvd = @ + 1,
                                                ![g].handles = @ \o StoredHandles(g, np, dec)]
                         /\ UNCHANGED <<running, tableErr, cancelled, dtPc, panicked>>

\* End of a pass: when as many regions are unfinished as were tried, sleep
\* and count a retry; the unfinished list becomes the next pass's regions.
PassEnd(g) ==
    /\ w[g].pc = "tail"
    /\ w' = [w EXCEPT ![g].try = IF Len(w[g].unfinished) = Len(w[g].regions)
                                   THEN @ + 1 ELSE @,
                      ![g].regions = w[g].unfinished,
                      ![g].pc = "head"]
    /\ UNCHANGED <<running, tableErr, cancelled, dtPc, panicked>>

\* wg.Wait() returns once every goroutine called wg.Done(); DuplicateTable
\* then returns nil whatever tableErr holds.
WaitAll ==
    /\ dtPc = "wait"
    /\ running = 0
    /\ dtPc' = "returned"
    /\ UNCHANGED <<w, running, tableErr, cancelled, panicked>>

\* An unrecovered panic in any goroutine ends the process.
Alive == panicked = "none"

Next ==
    \/ Alive /\ \E g \in G : Start(g) \/ LoopHead(g) \/ Open(g) \/ GetValues(g)
                             \/ Recv(g) \/ PassEnd(g)
    \/ Alive /\ WaitAll

Spec == Init /\ [][Next]_vars

-----------------------------------------------------------------------------
(* Properties.                                                            *)

TypeOK ==
    /\ \A g \in G :
         /\ w[g].pc \in Pcs
         /\ w[g].try \in 0..(MaxRetryTimes + 1)
         /\ w[g].recvd \in 0..MaxRecv
         /\ \A f \in {"regions", "unfinished", "clients", "cregions"} :
               w[g][f] \in Seq(Ref)
         /\ w[g].handles \in Seq({Nil, H})
    /\ running \in 0..Len(Reqs)
    /\ tableErr \in BOOLEAN /\ cancelled \in BOOLEAN
    /\ dtPc \in {"wait", "returned"}

\* Every goroutine DuplicateTable spawns is handed a request to send: no
\* sendRequestToTiKV dereferences a nil *DuplicateRequest (the planner, spec
\* 4.5, emits one request per range and nothing else).
NoNilRequest == panicked # "nil request"

=============================================================================
