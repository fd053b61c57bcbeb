------------------------- MODULE MC_SafePointKeeper -------------------------
(* TTLs of 5, 7 and 10 seconds: periods of 1, 1 and 2 seconds, so five,   *)
(* seven and five ticks fall in one TTL.  The clock runs past two TTLs.    *)
EXTENDS SafePointKeeper

MCBackupTSs == {2}
MCTtls == {5, 7, 10}

(* A TTL of 1 second: gapSec is clamped to 1, the TTL itself.             *)
MCShortTtls == {1}
=============================================================================
