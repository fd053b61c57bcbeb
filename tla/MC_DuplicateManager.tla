------------------------ MODULE MC_DuplicateManager ------------------------
(* A table with one public and one non-public index, scans of at most two *)
(* regions, two streams in flight.                                        *)
EXTENDS DuplicateManager

MCIndexes == <<TRUE, FALSE>>
=============================================================================
