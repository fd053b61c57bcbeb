--------------------------- MODULE SafePointKeeper ---------------------------
(***************************************************************************)
(* The backup's GC protection, src/pkg/backup/safe_point.go.  Before a     *)
(* backup reads at backupTS the caller checks it against PD's GC safe     *)
(* point (CheckGCSafePoint) and starts StartServiceSafePointKeeper, whose *)
(* goroutine registers the service safe point "br" at backupTS-1 with a   *)
(* TTL on every tick, ttl/5 seconds apart (at least 1), until the context *)
(* is cancelled.  A failed update is only logged.                         *)
(*                                                                         *)
(* The environment is PD and the GC worker: PD keeps the service safe     *)
(* point until now reaches its expiry, and the GC worker advances the GC  *)
(* safe point, never beyond the present nor beyond a live service safe    *)
(* point.  Time is a clock in seconds; timestamps use the same scale,    *)
(* counted from now minus the GC life time, so the GC worker may move the *)
(* GC safe point up to now and a backupTS of a few seconds is one taken   *)
(* with a --timeago close to the life time.                               *)
(* An update RPC takes effect at its tick, and the keeper goroutine takes *)
(* a tick before the clock moves on: a slow or lost update is a failure.  *)
(* uint64 arithmetic is modulo TSMax + 1, the stand-in for 2^64.          *)
(***************************************************************************)
EXTENDS Naturals

CONSTANTS
    BackupTSs,  \* backup timestamps the caller may have got from GetTS
    Ttls,       \* values of the ttl argument (seconds)
    MaxTime,    \* last second the clock reaches
    MaxFails,   \* most consecutive update RPCs that fail
    TSMax,      \* largest uint64 timestamp
    ReadMayFail \* may PD's UpdateGCSafePoint(ctx, 0) fail?

VARIABLES
    now,       \* the clock
    gcSP,      \* PD's GC safe point
    svc,       \* the service safe point "br": [sp, expire]; expire 0 = never set
    pc,        \* the caller: "check", "start", "keep", "done", "failed"
    ts,        \* backupTS
    ttl,       \* the keeper's ttl
    nextTick,  \* when the ticker fires next
    fails      \* consecutive failed updates

vars == <<now, gcSP, svc, pc, ts, ttl, nextTick, fails>>

NoSvc == [sp |-> 0, expire |-> 0]

\* PD holds the service safe point until its TTL has run out.
Live == now < svc.expire

Init ==
    /\ now = 0 /\ gcSP = 0 /\ svc = NoSvc /\ pc = "check"
    /\ ts \in BackupTSs /\ ttl \in Ttls
    /\ nextTick = 0 /\ fails = 0

\* getGCSafePoint: UpdateGCSafePoint(ctx, 0) reads the GC safe point or fails.
\* CheckGCSafePoint: a read error is logged and ignored; ts <= safePoint is
\* the error "GC safepoint exceed TS".
CheckGCSafePoint ==
    /\ pc = "check"
    /\ \/ ReadMayFail /\ pc' = "start"
       \/ ts <= gcSP /\ pc' = "failed"
       \/ ts > gcSP /\ pc' = "start"
    /\ UNCHANGED <<now, gcSP, svc, ts, ttl, nextTick, fails>>

\* Mutant: the service safe point is backupTS itself.
ServiceSafePointAtTS(t) == t % (TSMax + 1)

\* UpdateServiceSafePoint: UpdateServiceGCSafePoint("br", ttl, backupTS-1)
\* with backupTS-1 in uint64; the returned minimum safe point is dropped.
ServiceSafePoint(t) == (t + TSMax) % (TSMax + 1)

UpdateServiceSafePoint ==
    svc' = [sp |-> ServiceSafePoint(ts), expire |-> now + ttl]

MaxInt(a, b) == IF a > b THEN a ELSE b

\* Mutant: the tick period is the whole ttl.
GapWholeTtl(t) == MaxInt(t, 1)

\* gapSec := utils.MaxInt(int(ttl/5), 1)
Gap(t) == MaxInt(t \div 5, 1)

\* StartServiceSafePointKeeper: time.NewTicker(gapSec) and the goroutine;
\* nothing is registered before the first tick.
StartServiceSafePointKeeper ==
    /\ pc = "start"
    /\ pc' = "keep" /\ nextTick' = now + Gap(ttl)
    /\ UNCHANGED <<now, gcSP, svc, ts, ttl, fails>>

\* `case <-tick.C`: UpdateServiceSafePoint succeeds, or fails and is logged.
KeeperTick ==
    /\ pc = "keep" /\ now = nextTick
    /\ \/ UpdateServiceSafePoint /\ fails' = 0
       \/ fails < MaxFails /\ fails' = fails + 1 /\ UNCHANGED svc
    /\ nextTick' = nextTick + Gap(ttl)
    /\ UNCHANGED <<now, gcSP, pc, ts, ttl>>

\* The backup ends and cancels the context: `case <-ctx.Done(): return`,
\* with the deferred tick.Stop().  The service safe point is left to expire.
Cancel ==
    /\ pc = "keep"
    /\ pc' = "done"
    /\ UNCHANGED <<now, gcSP, svc, ts, ttl, nextTick, fails>>

\* A second passes; a due tick is taken first.
Clock ==
    /\ now < MaxTime
    /\ pc = "keep" => now < nextTick
    /\ now' = now + 1
    /\ UNCHANGED <<gcSP, svc, pc, ts, ttl, nextTick, fails>>

\* The GC worker advances the GC safe point up to the present, and below a
\* live service safe point.
GC ==
    /\ \E v \in gcSP + 1 .. now :
          /\ Live => v <= svc.sp
          /\ gcSP' = v
    /\ UNCHANGED <<now, svc, pc, ts, ttl, nextTick, fails>>

\* The clock's bound is reached and nothing else is left to do.
Terminated == now = MaxTime /\ pc \in {"done", "failed"} /\ UNCHANGED vars

Next ==
    \/ CheckGCSafePoint
    \/ StartServiceSafePointKeeper
    \/ KeeperTick
    \/ Cancel
    \/ Clock
    \/ GC
    \/ Terminated

Spec == Init /\ [][Next]_vars

-----------------------------------------------------------------------------
\* Once the keeper has registered the service safe point, it never lapses
\* while the backup runs: as long as at most MaxFails updates in a row fail,
\* a successful refresh comes every Gap(ttl) seconds, before the ttl that
\* the last one set runs out, for every ttl of Ttls.
SafePointKept == pc = "keep" /\ svc # NoSvc => Live

\* Once the keeper has registered backupTS-1, no GC step reaches backupTS
\* while the backup runs: PD holds the service safe point (refreshed every
\* gapSec, through failed updates) and it lies below backupTS in uint64.
BackupTSKeptOnceRegistered ==
    [][pc = "keep" /\ svc # NoSvc /\ gcSP < ts => gcSP' < ts]_vars

\* StartServiceSafePointKeeper keeps backupTS from being collected: while
\* the keeper runs, no step moves the GC safe point from below backupTS to
\* backupTS or past it, from the keeper's start to its first tick too.
BackupTSProtected == [][pc = "keep" /\ gcSP < ts => gcSP' < ts]_vars
=============================================================================
