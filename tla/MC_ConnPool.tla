----------------------------- MODULE MC_ConnPool -----------------------------
(* Two workers sharing the connections to the stores NewMgr found.         *)
EXTENDS ConnPool

CONSTANTS w1, w2, s1, s2

MCWorkers == {w1, w2}
MCStores == {s1, s2}

\* PD lists with no TiFlash store, with one after a TiKV store, and with one
\* before it (so the compaction moves s2 to the front).
MCPDStores ==
    { << [id |-> s1, tiflash |-> FALSE], [id |-> s2, tiflash |-> FALSE] >>,
      << [id |-> s1, tiflash |-> FALSE], [id |-> s2, tiflash |-> TRUE] >>,
      << [id |-> s1, tiflash |-> TRUE],  [id |-> s2, tiflash |-> FALSE] >> }
=============================================================================
