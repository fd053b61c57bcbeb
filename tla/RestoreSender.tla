--------------------------- MODULE RestoreSender ---------------------------
(***************************************************************************)
(* The restore-side batch sender `tikvSender` (src/unnamed/part_000).      *)
(*                                                                         *)
(* A caller pushes DrainResults ("batches") with RestoreBatch into the    *)
(* buffered channel inCh and finally calls Close.  The splitWorker        *)
(* goroutine receives each batch, registers a WaitGroup per table in      *)
(* tableWaiters, and hands the split to a bounded worker pool; a finished *)
(* split is forwarded through the buffered channel midCh.  The            *)
(* restoreWorker goroutine spawns one restore goroutine per batch whose   *)
(* callback releases the batch's table WaitGroups, waits for the          *)
(* WaitGroups of the tables the batch completes, and reports those        *)
(* tables to the sink.  Both workers also stop on context cancellation.   *)
(*                                                                         *)
(* Batches are indices into the constant sequence Batches; a WaitGroup is *)
(* named by <<table, generation>> because LoadAndDelete can retire a      *)
(* table's WaitGroup while a later LoadOrStore creates a fresh one.       *)
(* EmitError is taken not to block: the caller drains the error channel. *)
(***************************************************************************)
EXTENDS Naturals, Sequences, FiniteSets

CONSTANTS
    Tables,          \* table IDs (model values)
    Batches,         \* Seq of [tables: SUBSET Tables, blank: Seq(Tables)]
    ChannelSize,     \* capacity of inCh and midCh (defaultChannelSize)
    SplitConcurrency,\* size of the split worker pool
    SplitMayFail,    \* may SplitRangesAndThen report an error?
    RestoreMayFail,  \* may RestoreFilesAndThen report an error?
    MayCancel        \* may the context be cancelled?

N == Len(Batches)
BatchIds == 1..N
Gens == 1..N
NoRef == <<"none", 0>>

VARIABLES
    caller,    \* [pc: "send" | "close" (in Close) | "closed", sent: batches sent]
    inCh,      \* [q: Seq of batch ids, closed]
    midCh,     \* [q: Seq of batch ids, closed]: the channel `next`
    split,     \* splitWorker: [pc: "loop" | "apply" | "wait" | "exited",
               \*   held: the batch in pool.Apply, works: WaitGroup splitWorks]
    sjob,      \* per batch: its split pool job
    tw,        \* tableWaiters: [waiters: table -> generation (0 = absent),
               \*   gen: last generation per table, wgc: WaitGroup counters,
               \*   refs: per batch, the WaitGroups its done() releases]
    restore,   \* restoreWorker: [pc: "loop" | "wait" | "exited", works]
    rjob,      \* per batch: [pc, i, ref] of its restore goroutine
    sink,      \* [closed, emitted: table -> EmitTables count, errs]
    senderWg,  \* WaitGroup b.wg
    cancelled, \* ctx.Done() is closed
    panicked   \* "none" or the reason the process panicked

vars == <<caller, inCh, midCh, split, sjob, tw, restore, rjob, sink, senderWg,
          cancelled, panicked>>

\* NewTiKVSender: channels made, b.wg.Add(2), both workers started.  The
\* sink is put with PutSink before the first RestoreBatch.
Init ==
    /\ caller = [pc |-> "send", sent |-> 0]
    /\ inCh = [q |-> <<>>, closed |-> FALSE]
    /\ midCh = [q |-> <<>>, closed |-> FALSE]
    /\ split = [pc |-> "loop", held |-> 0, works |-> 0]
    /\ sjob = [b \in BatchIds |-> "none"]
    /\ tw = [waiters |-> [t \in Tables |-> 0], gen |-> [t \in Tables |-> 0],
             wgc |-> [t \in Tables |-> [g \in Gens |-> 0]],
             refs |-> [b \in BatchIds |-> {}]]
    /\ restore = [pc |-> "loop", works |-> 0]
    /\ rjob = [b \in BatchIds |-> [pc |-> "none", i |-> 1, ref |-> NoRef]]
    /\ sink = [closed |-> FALSE, emitted |-> [t \in Tables |-> 0], errs |-> 0]
    /\ senderWg = 2 /\ cancelled = FALSE /\ panicked = "none"

-----------------------------------------------------------------------------
(* The caller.                                                             *)

\* RestoreBatch: b.inCh <- ranges, blocking while inCh is full.
RestoreBatch ==
    /\ caller.pc = "send" /\ caller.sent < N /\ Len(inCh.q) < ChannelSize
    /\ inCh' = [inCh EXCEPT !.q = Append(@, caller.sent + 1)]
    /\ caller' = [caller EXCEPT !.sent = @ + 1]
    /\ UNCHANGED <<midCh, split, sjob, tw, restore, rjob, sink, senderWg,
                   cancelled, panicked>>

\* Close: close(b.inCh), then block in b.wg.Wait() ...
Close ==
    /\ caller.pc = "send" /\ caller.sent = N
    /\ inCh' = [inCh EXCEPT !.closed = TRUE]
    /\ caller' = [caller EXCEPT !.pc = "close"]
    /\ UNCHANGED <<midCh, split, sjob, tw, restore, rjob, sink, senderWg,
                   cancelled, panicked>>

\* ... until both workers are done.
CloseReturns ==
    /\ caller.pc = "close" /\ senderWg = 0
    /\ caller' = [caller EXCEPT !.pc = "closed"]
    /\ UNCHANGED <<inCh, midCh, split, sjob, tw, restore, rjob, sink, senderWg,
                   cancelled, panicked>>

\* The owner of the context passed to NewTiKVSender cancels it.
Cancel ==
    /\ MayCancel /\ ~cancelled
    /\ cancelled' = TRUE
    /\ UNCHANGED <<caller, inCh, midCh, split, sjob, tw, restore, rjob, sink,
                   senderWg, panicked>>

-----------------------------------------------------------------------------
(* splitWorker and the split pool jobs.                                    *)

\* registerTableIsRestoring: LoadOrStore a WaitGroup per table (a new one
\* when the table is absent), Add(1) to it, and capture it in done().
RegisterTables(b) ==
    LET ts     == Batches[b].tables
        ref(t) == IF tw.waiters[t] = 0 THEN tw.gen[t] + 1 ELSE tw.waiters[t]
    IN  tw' = [waiters |-> [t \in Tables |-> IF t \in ts THEN ref(t) ELSE tw.waiters[t]],
               gen     |-> [t \in Tables |-> IF t \in ts THEN ref(t) ELSE tw.gen[t]],
               wgc     |-> [t \in Tables |-> IF t \in ts THEN [tw.wgc[t] EXCEPT ![ref(t)] = @ + 1]
                                                         ELSE tw.wgc[t]],
               refs    |-> [tw.refs EXCEPT ![b] = {<<t, ref(t)>> : t \in ts}]]

\* `case result, ok := <-ranges`: on a closed, drained channel return to the
\* deferred splitWorks.Wait(); otherwise splitWorks.Add(1), register the
\* tables, and go on to pool.Apply.
SplitRecv ==
    /\ split.pc = "loop" /\ (inCh.q # <<>> \/ inCh.closed)
    /\ IF inCh.q = <<>>
         THEN split' = [split EXCEPT !.pc = "wait"] /\ UNCHANGED <<inCh, tw>>
         ELSE /\ inCh' = [inCh EXCEPT !.q = Tail(@)]
              /\ split' = [pc |-> "apply", held |-> Head(inCh.q), works |-> split.works + 1]
              /\ RegisterTables(Head(inCh.q))
    /\ UNCHANGED <<caller, midCh, sjob, restore, rjob, sink, senderWg, cancelled,
                   panicked>>

\* `case <-ctx.Done(): return`.
SplitCtxDone ==
    /\ split.pc = "loop" /\ cancelled
    /\ split' = [split EXCEPT !.pc = "wait"]
    /\ UNCHANGED <<caller, inCh, midCh, sjob, tw, restore, rjob, sink, senderWg,
                   cancelled, panicked>>

\* A pool job holds a worker from Apply until its function returns.
Busy == {b \in BatchIds : sjob[b] \in {"split", "send"}}

\* pool.Apply blocks until a worker is free, then runs the job in a goroutine.
SplitApply ==
    /\ split.pc = "apply" /\ Cardinality(Busy) < SplitConcurrency
    /\ sjob' = [sjob EXCEPT ![split.held] = "split"]
    /\ split' = [split EXCEPT !.pc = "loop", !.held = 0]
    /\ UNCHANGED <<caller, inCh, midCh, tw, restore, rjob, sink, senderWg,
                   cancelled, panicked>>

\* SplitRangesAndThen calls back: on error EmitError and return (the job
\* ends without splitWorks.Done()); otherwise go on to send on next.
SplitFinish(b) ==
    /\ sjob[b] = "split"
    /\ \/ sjob' = [sjob EXCEPT ![b] = "send"] /\ UNCHANGED sink
       \/ /\ SplitMayFail
          /\ sjob' = [sjob EXCEPT ![b] = "failed"]
          /\ sink' = [sink EXCEPT !.errs = @ + 1]
    /\ UNCHANGED <<caller, inCh, midCh, split, tw, restore, rjob, senderWg,
                   cancelled, panicked>>

\* Mutant: splitWorks.Done() called a second time after forwarding.
SplitForwardDoubleDone(b) ==
    /\ sjob[b] = "send" /\ Len(midCh.q) < ChannelSize /\ ~midCh.closed
    /\ midCh' = [midCh EXCEPT !.q = Append(@, b)]
    /\ split' = [split EXCEPT !.works = @ - 2]
    /\ sjob' = [sjob EXCEPT ![b] = "sent"]
    /\ UNCHANGED <<caller, inCh, tw, restore, rjob, sink, senderWg, cancelled,
                   panicked>>

\* next <- drainResultAndDone{...} (blocking while midCh is full), then
\* splitWorks.Done().  A send on a closed channel panics.
SplitForward(b) ==
    /\ sjob[b] = "send" /\ (Len(midCh.q) < ChannelSize \/ midCh.closed)
    /\ IF midCh.closed
         THEN panicked' = "send on closed next" /\ UNCHANGED <<midCh, split, sjob>>
         ELSE /\ midCh' = [midCh EXCEPT !.q = Append(@, b)]
              /\ split' = [split EXCEPT !.works = @ - 1]
              /\ sjob' = [sjob EXCEPT ![b] = "sent"]
              /\ UNCHANGED panicked
    /\ UNCHANGED <<caller, inCh, tw, restore, rjob, sink, senderWg, cancelled>>

\* The deferred function: splitWorks.Wait(); b.wg.Done(); close(next).
SplitExit ==
    /\ split.pc = "wait" /\ split.works = 0
    /\ split' = [split EXCEPT !.pc = "exited"]
    /\ senderWg' = senderWg - 1
    /\ midCh' = [midCh EXCEPT !.closed = TRUE]
    /\ UNCHANGED <<caller, inCh, sjob, tw, restore, rjob, sink, cancelled, panicked>>

-----------------------------------------------------------------------------
(* restoreWorker and the per-batch restore goroutines.                     *)

\* `case r, ok := <-ranges`: on a closed, drained channel return to the
\* deferred function; otherwise restoreWorks.Add(1) and spawn the restore.
RestoreRecv ==
    /\ restore.pc = "loop" /\ (midCh.q # <<>> \/ midCh.closed)
    /\ IF midCh.q = <<>>
         THEN restore' = [restore EXCEPT !.pc = "wait"] /\ UNCHANGED <<midCh, rjob>>
         ELSE /\ midCh' = [midCh EXCEPT !.q = Tail(@)]
              /\ restore' = [restore EXCEPT !.works = @ + 1]
              /\ rjob' = [rjob EXCEPT ![Head(midCh.q)].pc = "restoring"]
    /\ UNCHANGED <<caller, inCh, split, sjob, tw, sink, senderWg, cancelled,
                   panicked>>

\* `case <-ctx.Done(): return`.
RestoreCtxDone ==
    /\ restore.pc = "loop" /\ cancelled
    /\ restore' = [restore EXCEPT !.pc = "wait"]
    /\ UNCHANGED <<caller, inCh, midCh, split, sjob, tw, rjob, sink, senderWg,
                   cancelled, panicked>>

\* Mutant: the deferred function closes the sink without restoreWorks.Wait().
RestoreExitNoWait ==
    /\ restore.pc = "wait"
    /\ restore' = [restore EXCEPT !.pc = "exited"]
    /\ senderWg' = senderWg - 1
    /\ sink' = [sink EXCEPT !.closed = TRUE]
    /\ UNCHANGED <<caller, inCh, midCh, split, sjob, tw, rjob, cancelled, panicked>>

\* The deferred function: restoreWorks.Wait(); b.wg.Done(); b.sink.Close().
RestoreExit ==
    /\ restore.pc = "wait" /\ restore.works = 0
    /\ restore' = [restore EXCEPT !.pc = "exited"]
    /\ senderWg' = senderWg - 1
    /\ sink' = [sink EXCEPT !.closed = TRUE]
    /\ UNCHANGED <<caller, inCh, midCh, split, sjob, tw, rjob, cancelled, panicked>>

\* r.done(): Done() on every WaitGroup the batch registered.
ReleaseTables(b) ==
    tw' = [tw EXCEPT !.wgc = [t \in Tables |-> [g \in Gens |->
                                IF <<t, g>> \in tw.refs[b] THEN @[t][g] - 1 ELSE @[t][g]]]]

\* RestoreFilesAndThen calls back: EmitError on failure, then r.done().
RestoreDone(b) ==
    /\ rjob[b].pc = "restoring"
    /\ \/ UNCHANGED sink
       \/ RestoreMayFail /\ sink' = [sink EXCEPT !.errs = @ + 1]
    /\ ReleaseTables(b)
    /\ rjob' = [rjob EXCEPT ![b].pc = "load"]
    /\ UNCHANGED <<caller, inCh, midCh, split, sjob, restore, senderWg,
                   cancelled, panicked>>

\* Mutant: waitTablesDone deletes the WaitGroup but does not Wait() on it.
WaitLoadNoWait(b) ==
    LET t == Batches[b].blank[rjob[b].i]
    IN  /\ rjob[b].pc = "load" /\ rjob[b].i <= Len(Batches[b].blank)
        /\ tw.waiters[t] # 0
        /\ tw' = [tw EXCEPT !.waiters[t] = 0]
        /\ rjob' = [rjob EXCEPT ![b].i = @ + 1]
        /\ UNCHANGED <<caller, inCh, midCh, split, sjob, restore, sink, senderWg,
                       cancelled, panicked>>

\* waitTablesDone, one table at a time: LoadAndDelete its WaitGroup (a
\* missing one is log.Panic "table done before register") ...
WaitLoad(b) ==
    LET t == Batches[b].blank[rjob[b].i]
    IN  /\ rjob[b].pc = "load" /\ rjob[b].i <= Len(Batches[b].blank)
        /\ IF tw.waiters[t] = 0
             THEN panicked' = "table done before register" /\ UNCHANGED <<tw, rjob>>
             ELSE /\ tw' = [tw EXCEPT !.waiters[t] = 0]
                  /\ rjob' = [rjob EXCEPT ![b].pc = "wait", ![b].ref = <<t, tw.waiters[t]>>]
                  /\ UNCHANGED panicked
        /\ UNCHANGED <<caller, inCh, midCh, split, sjob, restore, sink, senderWg,
                       cancelled>>

\* ... then wg.Wait() on it.
WaitWg(b) ==
    /\ rjob[b].pc = "wait" /\ tw.wgc[rjob[b].ref[1]][rjob[b].ref[2]] = 0
    /\ rjob' = [rjob EXCEPT ![b] = [pc |-> "load", i |-> @.i + 1, ref |-> NoRef]]
    /\ UNCHANGED <<caller, inCh, midCh, split, sjob, tw, restore, sink, senderWg,
                   cancelled, panicked>>

\* How many times the sequence s holds each table.
Counts(s) == [t \in Tables |-> Cardinality({k \in DOMAIN s : s[k] = t})]

\* Mutant: EmitTables is passed the batch's TablesToSend instead of its
\* BlankTablesAfterSend.
EmitTablesToSend(b) ==
    /\ rjob[b].pc = "load" /\ rjob[b].i > Len(Batches[b].blank) /\ ~sink.closed
    /\ sink' = [sink EXCEPT !.emitted = [t \in Tables |->
                   @[t] + IF t \in Batches[b].tables THEN 1 ELSE 0]]
    /\ restore' = [restore EXCEPT !.works = @ - 1]
    /\ rjob' = [rjob EXCEPT ![b].pc = "finished"]
    /\ UNCHANGED <<caller, inCh, midCh, split, sjob, tw, senderWg, cancelled,
                   panicked>>

\* b.sink.EmitTables(BlankTablesAfterSend...) sends on the sink's channel
\* (a send on the closed channel panics); then restoreWorks.Done().
EmitTables(b) ==
    /\ rjob[b].pc = "load" /\ rjob[b].i > Len(Batches[b].blank)
    /\ IF sink.closed
         THEN panicked' = "send on closed sink" /\ UNCHANGED <<sink, restore, rjob>>
         ELSE /\ sink' = [sink EXCEPT !.emitted = [t \in Tables |->
                            @[t] + Counts(Batches[b].blank)[t]]]
              /\ restore' = [restore EXCEPT !.works = @ - 1]
              /\ rjob' = [rjob EXCEPT ![b].pc = "finished"]
              /\ UNCHANGED panicked
    /\ UNCHANGED <<caller, inCh, midCh, split, sjob, tw, senderWg, cancelled>>

-----------------------------------------------------------------------------
\* Close has returned; every goroutine has returned before it.
Terminated == caller.pc = "closed" /\ UNCHANGED vars

\* A panic ends the process: no goroutine takes another step.
Alive == panicked = "none"

Next ==
    \/ Alive /\ RestoreBatch
    \/ Alive /\ Close
    \/ Alive /\ CloseReturns
    \/ Alive /\ Cancel
    \/ Alive /\ SplitRecv
    \/ Alive /\ SplitCtxDone
    \/ Alive /\ SplitApply
    \/ Alive /\ SplitExit
    \/ Alive /\ \E b \in BatchIds : SplitFinish(b)
    \/ Alive /\ \E b \in BatchIds : SplitForward(b)
    \/ Alive /\ RestoreRecv
    \/ Alive /\ RestoreCtxDone
    \/ Alive /\ RestoreExit
    \/ Alive /\ \E b \in BatchIds : RestoreDone(b)
    \/ Alive /\ \E b \in BatchIds : WaitLoad(b)
    \/ Alive /\ \E b \in BatchIds : WaitWg(b)
    \/ Alive /\ \E b \in BatchIds : EmitTables(b)
    \/ Terminated

\* Every goroutine is scheduled by the Go runtime: each step that stays
\* enabled is eventually taken.  Cancel is the owner's choice, not fair.
Fairness ==
    /\ WF_vars(RestoreBatch) /\ WF_vars(Close) /\ WF_vars(CloseReturns)
    /\ WF_vars(SplitRecv) /\ WF_vars(SplitCtxDone) /\ WF_vars(SplitApply)
    /\ WF_vars(SplitExit)
    /\ WF_vars(RestoreRecv) /\ WF_vars(RestoreCtxDone) /\ WF_vars(RestoreExit)
    /\ \A b \in BatchIds :
          /\ WF_vars(SplitFinish(b)) /\ WF_vars(SplitForward(b))
          /\ WF_vars(RestoreDone(b)) /\ WF_vars(WaitLoad(b))
          /\ WF_vars(WaitWg(b)) /\ WF_vars(EmitTables(b))

Spec == Init /\ [][Next]_vars
FairSpec == Spec /\ Fairness

-----------------------------------------------------------------------------
TypeOK ==
    /\ caller.pc \in {"send", "close", "closed"} /\ caller.sent \in 0..N
    /\ Len(inCh.q) <= ChannelSize /\ Len(midCh.q) <= ChannelSize
    /\ split.pc \in {"loop", "apply", "wait", "exited"} /\ split.works \in Nat
    /\ sjob \in [BatchIds -> {"none", "split", "send", "failed", "sent"}]
    /\ tw.waiters \in [Tables -> 0..N] /\ tw.wgc \in [Tables -> [Gens -> Nat]]
    /\ restore.works \in Nat
    /\ \A b \in BatchIds : rjob[b].pc \in {"none", "restoring", "load", "wait", "finished"}
    /\ senderWg \in 0..2

\* done() of batch b has been called: its ranges are restored (or failed).
RangesDone(b) == rjob[b].pc \in {"load", "wait", "finished"}

\* The point of tableWaiters: EmitTables reports a table as restored only
\* after every batch carrying ranges of that table has finished its restore,
\* although the restore goroutines of different batches run concurrently
\* and complete in any order.
TablesReportedAfterAllTheirRanges ==
    \A t \in Tables :
        sink.emitted[t] > 0 =>
            \A b \in BatchIds : t \in Batches[b].tables => RangesDone(b)

\* No goroutine panics: no table's waitTablesDone runs before its
\* registerTableIsRestoring, no split job sends on the closed midCh, and no
\* restore callback calls EmitTables after restoreWorker closed the sink.
NoPanic == panicked = "none"

\* The tables the batcher hands over as complete.
ReportedTables ==
    UNION {{Batches[b].blank[k] : k \in DOMAIN Batches[b].blank} : b \in BatchIds}

\* Close returns: both workers exit and b.wg.Wait() is released, also when
\* the context is cancelled (both workers select on ctx.Done()).
CloseEventuallyReturns == <>(caller.pc = "closed")

\* Close returns, and every completed table has been reported exactly once.
SenderCompletes ==
    <>(caller.pc = "closed" /\ \A t \in ReportedTables : sink.emitted[t] = 1)
=============================================================================
