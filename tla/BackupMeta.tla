----------------------------- MODULE BackupMeta -----------------------------
(***************************************************************************)
(* The backup metadata helpers of src/pkg/restore/util.go, as operators:  *)
(* groupFiles pairs each "...write" SST file with its "...default" file,  *)
(* LoadBackupTables gives every schema of the backup meta the file pairs  *)
(* whose keys lie in its table and groups the tables by database.         *)
(*                                                                         *)
(* A file name is <<base, kind>> (kind "write" or "default"); a key is    *)
(* the ID of the table it belongs to, 0 for a key without the table       *)
(* prefix.  The JSON schemas are taken as well formed and every key with  *)
(* the table prefix as decodable.                                         *)
(***************************************************************************)
EXTENDS Naturals, Sequences, SequencesExt

NoFile == [name |-> <<"", "none">>, start |-> 0, end |-> 0]

\* The default file groupFiles pairs with a write file of base b: the last
\* file of that name, as the inner loop has no break; NoFile when none.
DefaultOf(files, b) ==
    FoldLeft(LAMBDA acc, f : IF f.name = <<b, "default">> THEN f ELSE acc, NoFile, files)

\* Mutant: the default file is looked up without its base name.
GroupFilesAnyDefault(files) ==
    LET writes == SelectSeq(files, LAMBDA f : f.name[2] = "write")
        anyDefault == FoldLeft(LAMBDA acc, f : IF f.name[2] = "default" THEN f ELSE acc,
                               NoFile, files)
    IN  [i \in 1..Len(writes) |-> [write |-> writes[i], default |-> anyDefault]]

\* groupFiles: one FilePair per write file, in the order of meta.Files.
GroupFiles(files) ==
    LET writes == SelectSeq(files, LAMBDA f : f.name[2] = "write")
    IN  [i \in 1..Len(writes) |-> [write |-> writes[i],
                                   default |-> DefaultOf(files, writes[i].name[1])]]

\* LoadBackupTables: for each schema, the pairs whose write file starts in
\* its table.  A file outside the table key space is skipped; a file whose
\* start and end keys lie in different tables makes the function return
\* errors.Trace(err) of a nil err, that is (nil, nil).  Each table is
\* appended to the Database of its db name, created on first use.
LoadBackupTables(meta) ==
    LET pairs == GroupFiles(meta.files)
        mismatch == \E i \in DOMAIN pairs :
                       pairs[i].write.start # 0 /\ pairs[i].write.start # pairs[i].write.end
        TableOf(sc) == [schema |-> sc,
                        files |-> SelectSeq(pairs, LAMBDA p : p.write.start # 0
                                                          /\ p.write.start = sc.id)]
        AddTable(dbs, sc) ==
            IF sc.db \in DOMAIN dbs
              THEN [dbs EXCEPT ![sc.db] = Append(@, TableOf(sc))]
              ELSE dbs @@ (sc.db :> <<TableOf(sc)>>)
    IN  IF meta.schemas # <<>> /\ mismatch
          THEN [isNil |-> TRUE]
          ELSE [isNil |-> FALSE,
                dbs |-> FoldLeft(AddTable, [d \in {} |-> <<>>], meta.schemas)]

\* GroupIDPairs: the importer's key rewrite rules for a table.  TableIds is
\* the one pair OldId srcTable.ID, NewId srcTable.ID; IndexIds pairs each
\* index of the source with each index of the destination of the same name
\* (a set: the importer looks pairs up by OldId).
GroupIDPairs(src, dest) ==
    [tableIDs |-> <<[old |-> src.id, new |-> src.id]>>,
     indexIDs |-> {[old |-> i.id, new |-> j.id] :
                      <<i, j>> \in {q \in src.indices \X dest.indices : q[1].name = q[2].name}}]
=============================================================================
