------------------------------- MODULE MCSave -------------------------------
(***************************************************************************)
(* Instances of the save operation for TLC.                                *)
(***************************************************************************)
EXTENDS SavePipeline, TLC

E(k, n) == [kind |-> k, size |-> n]

\* A root directory with a subdirectory that holds a large file, two small
\* files that do not fit in one shared block, and an empty file.
OneTree == << <<E("dir", 5), E("dir", 1), E("unique", 2), E("multi", 1),
                E("multi", 1), E("unique", 0)>> >>

TwoTrees == << <<E("dir", 2), E("multi", 1), E("unique", 1)>>,
               <<E("dir", 2), E("self", 0), E("unique", 1)>> >>

SmallTree == << <<E("dir", 1), E("unique", 1)>> >>

CompSymmetry == Permutations(CompThreads)
=============================================================================
