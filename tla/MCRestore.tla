----------------------------- MODULE MCRestore -----------------------------
(***************************************************************************)
(* Instances of the restore operation for TLC.  Of a pair of trees the     *)
(* archive is computed as an undisturbed save writes it.                   *)
(***************************************************************************)
EXTENDS RestorePipeline, SequencesExt, TLC

E(k, n) == [kind |-> k, size |-> n]

\* A root directory with a large file, two small files that share a block, and a
\* file of one block.
OneTree == << <<E("dir", 4), E("unique", 2), E("multi", 1), E("multi", 1),
                E("unique", 1)>> >>

\* A file with a hard link and two small files; and an empty tree.
TwoTrees == << <<E("dir", 4), E("unique", 1), E("link", 2), E("multi", 1), E("multi", 1)>>,
               <<E("dir", 0)>> >>

(***************************************************************************)
(* The records of an archive.  The small files of a tree share one block,  *)
(* which is put at the end of the tree.                                    *)
(***************************************************************************)
Packed(r) == [r EXCEPT !.packed = TRUE]

FileRecords(t, e) ==
  LET n == Trees[t][e].size
  IN  <<Rec("OBJT", t, <<e>>, 0)>>
      \o [i \in 1 .. n |-> Packed(Rec("BLKH", t, <<e>>, i - 1))]
      \o (IF n > 0 THEN <<Rec("FILF", t, <<e>>, 0)>> ELSE <<>>)

EntryRecords(t, e) ==
  CASE Trees[t][e].kind = "unique" -> FileRecords(t, e)
    [] Trees[t][e].kind \in {"dir", "meta", "link"} -> <<Rec("OBJT", t, <<e>>, 0)>>
    [] OTHER -> <<>>

SmallFiles(t) ==
  SelectSeq([e \in DOMAIN Trees[t] |-> e], LAMBDA e : Trees[t][e].kind = "multi")

GroupRecords(t) ==
  LET g == SmallFiles(t)
  IN  IF g = <<>> THEN <<>>
      ELSE [i \in DOMAIN g |-> Rec("OBJT", t, <<g[i]>>, Len(g))]
           \o <<Packed(Rec("BLKH", t, g, 0))>>

TreeRecords(t) ==
  LET body == FlattenSeq([e \in DOMAIN Trees[t] |-> EntryRecords(t, e)]) \o GroupRecords(t)
  IN  IF IsFS THEN <<Rec("FSYB", t, <<>>, 0)>> \o body \o <<Rec("DATF", t, <<>>, 0)>>
              ELSE body

Saved ==
  <<Rec("MAIN", 0, <<>>, 0)>>
  \o (IF IsFS THEN [t \in DOMAIN Trees |-> Rec("FSIN", 0, <<>>, t)]
              ELSE <<Rec("DIRS", 0, <<>>, 0)>>)
  \o FlattenSeq([t \in DOMAIN Trees |-> TreeRecords(t)])
  \o (IF IsFS THEN <<>> ELSE <<Rec("DATF", 0, <<>>, 0)>>)

\* The archive, split in two after its sixth record.
Vol(recs, mark) == [recs |-> recs, foot |-> mark]

SplitArchive == {<<Vol(SubSeq(Saved, 1, 6), "more"), Vol(SubSeq(Saved, 7, Len(Saved)), "last")>>}

\* No footer is missing in it, and nothing is behind the end of its file system.
ASSUME ArchivesUnbroken == \A a \in Archives : Unbroken(a)

Do(oper, wanted) == [oper |-> oper, wanted |-> wanted]

AnyJob   == {Do("restfs", {2}), Do("restfs", {1, 2}), Do("restfs", {3}),
             Do("restdir", {}), Do("archinfo", {})}
DirJobs  == {Do("restdir", {}), Do("restfs", {1}), Do("archinfo", {})}

\* The last file of OneTree; a small file of TwoTrees.
LastExcluded    == {<<1, 5>>}
SmallExcluded   == {<<1, 5>>}

DecompSymmetry == Permutations(DecompThreads)
=============================================================================
