------------------------- MODULE MC_RestoreSender -------------------------
(* Instantiation of RestoreSender for TLC: two tables, three batches.      *)
(* Table t1 spans batches 1 and 2 and is completed by batch 2; t2 spans    *)
(* batches 2 and 3 and is completed by batch 3, as the batcher emits them. *)
EXTENDS RestoreSender

CONSTANTS t1, t2

MCTables == {t1, t2}

MCBatches ==
    << [tables |-> {t1},     blank |-> <<>>],
       [tables |-> {t1, t2}, blank |-> <<t1>>],
       [tables |-> {t2},     blank |-> <<t2>>] >>
=============================================================================
