--------------------------- MODULE MC_RestoreClient ---------------------------
(* Backup metas for RestoreTable.  A file is [name, start, end], its keys'  *)
(* table IDs (0 outside the table key space); a schema is [db, id, indices], *)
(* an index [name, id].                                                    *)
EXTENDS RestoreClient

W(b, t) == [name |-> <<b, "write">>, start |-> t, end |-> t]
D(b, t) == [name |-> <<b, "default">>, start |-> t, end |-> t]

\* Table 1 (with an index) has three write files, one without a default
\* file; table 2 of the same database has one; one file lies outside the
\* table key space.
MetaThreeFiles ==
    [files |-> <<W("a", 1), D("a", 1), W("b", 1), W("m", 0), D("c", 1),
                 W("c", 1), W("d", 2), D("d", 2)>>,
     schemas |-> <<[db |-> "db1", id |-> 1, indices |-> {[name |-> "idx", id |-> 2]}],
                   [db |-> "db1", id |-> 2, indices |-> {}]>>]

\* A table without indices and two files, the second table in another
\* database.
MetaTwoFiles ==
    [files |-> <<W("a", 1), D("a", 1), W("b", 1), D("b", 1), W("c", 2)>>,
     schemas |-> <<[db |-> "db1", id |-> 1, indices |-> {}],
                   [db |-> "db2", id |-> 2, indices |-> {}]>>]

\* The created table gets the backup's table ID or another one (a restore into a
\* cluster that already used it), its index the same or another ID.
MCCreatedIDs == {1, 5}
MCIndexIDs == {1, 2}

MCSafetyMetas == {MetaThreeFiles, MetaTwoFiles}
MCTwoFileMetas == {MetaTwoFiles}
=============================================================================
