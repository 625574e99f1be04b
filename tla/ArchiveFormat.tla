--------------------------- MODULE ArchiveFormat ---------------------------
(***************************************************************************)
(* What an archive is about and what its records say: the part that the    *)
(* operation that saves and the one that restores have in common.          *)
(*                                                                         *)
(* The trees are given as the sequence of the entries in the order in      *)
(* which createar_save_directory visits them.  An entry is                 *)
(*   "dir"     a directory, size = number of entries of the tree below it  *)
(*   "meta"    a symlink, device, fifo or socket                           *)
(*   "link"    a hard link to the file of entry size, its first link       *)
(*   "unique"  a regular file saved alone, size = its number of blocks     *)
(*   "multi"   a small file, size = its size in units of the shared block  *)
(*   "self"    volume number size of the archive that is being written     *)
(* The first entry of a tree is its root directory.                        *)
(***************************************************************************)
EXTENDS Integers, Sequences, FiniteSets

CONSTANTS
  ArchType,                 \* "filesystems" or "directories"
  Trees                     \* the trees, one per file system or argument

IsFS == ArchType = "filesystems"

Entry == [kind : {"dir", "meta", "link", "unique", "multi", "self"}, size : Nat]

(***************************************************************************)
(* A record is a header or a block.  It names the tree it belongs to (0    *)
(* for the archive) and the entries it describes; off is the position of a *)
(* block in its file, in blocks, or, in the header of a small file, the    *)
(* number of files that share the block; packed says whether the data of a *)
(* block is compressed (and encrypted).  A block without entries is zeros. *)
(***************************************************************************)
Magic == {"MAIN", "FSIN", "DIRS", "FSYB", "OBJT", "BLKH", "FILF", "DATF"}

Record == [magic  : Magic,
           tree   : Nat,
           objs   : Seq(Nat),
           off    : Nat,
           packed : BOOLEAN]

Rec(m, f, o, k) == [magic |-> m, tree |-> f, objs |-> o, off |-> k, packed |-> FALSE]

Blank == Rec("MAIN", 0, <<>>, 0)        \* in a variable that holds no record

KindAt(r) == Trees[r.tree][r.objs[1]].kind

\* Blocks of a file saved alone.  A volume of the archive itself that is found
\* in a tree is an ordinary file, of one block.
BlocksAt(r) ==
  IF KindAt(r) = "self" THEN 1 ELSE Trees[r.tree][r.objs[1]].size

\* A volume on the disk: its records, and what its footer says, if it has one.
StoredVolume == [recs : Seq(Record), foot : {"none", "more", "last"}]

\* The header of an object names one that there is.
NamesObject(r) ==
  /\ r.tree \in DOMAIN Trees
  /\ Len(r.objs) = 1
  /\ r.objs[1] \in DOMAIN Trees[r.tree]

SameObject(r, s) == r.tree = s.tree /\ r.objs = s.objs

\* The records before position p of an archive are those its reader needs to have
\* seen to make sense of the record at p.
InPlace(recs, p) ==
  LET r == recs[p]
  IN  CASE r.magic = "MAIN" -> p = 1
        [] r.magic = "BLKH" /\ KindAt(r) # "multi" ->
             /\ p > 1 /\ SameObject(recs[p - 1], r)
             /\ IF r.off = 0 THEN recs[p - 1].magic = "OBJT"
                             ELSE /\ recs[p - 1].magic = "BLKH"
                                  /\ recs[p - 1].off = r.off - 1
        [] r.magic = "BLKH" /\ KindAt(r) = "multi" ->
             LET n == Len(r.objs)
             IN  /\ p > n
                 /\ \A k \in 1 .. n : /\ recs[p - n + k - 1].magic = "OBJT"
                                      /\ recs[p - n + k - 1].tree = r.tree
                                      /\ recs[p - n + k - 1].objs = <<r.objs[k]>>
        [] r.magic = "FILF" ->
             /\ p > 1 /\ SameObject(recs[p - 1], r)
             /\ recs[p - 1].magic = "BLKH"
             /\ recs[p - 1].off = BlocksAt(r) - 1
        [] r.magic = "OBJT" ->
             /\ \A s \in 1 .. (p - 1) : recs[s].magic = "OBJT" => ~SameObject(recs[s], r)
             /\ \A s \in 1 .. (p - 1) : recs[s].magic = "DATF" => recs[s].tree # r.tree
             /\ IsFS => \E s \in 1 .. (p - 1) :
                          recs[s].magic = "FSYB" /\ recs[s].tree = r.tree
        [] OTHER -> p > 1 /\ recs[1].magic = "MAIN"

WellFormed(recs) == \A p \in DOMAIN recs : InPlace(recs, p)

(***************************************************************************)
(* What a reader makes use of in the volumes it is given, complete or not. *)
(***************************************************************************)
Places(volumes) ==
  UNION {{<<v, p>> : p \in DOMAIN volumes[v].recs} : v \in DOMAIN volumes}

RecordAt(volumes, a) == volumes[a[1]].recs[a[2]]

Before(a, b) == a[1] < b[1] \/ (a[1] = b[1] /\ a[2] < b[2])

SavedAlone(r) == r.objs # <<>> /\ KindAt(r) \in {"unique", "self"}

LargeBlock(r) == r.magic = "BLKH" /\ SavedAlone(r)

LinksTo(r, s) ==
  r.tree = s.tree /\ KindAt(r) = "link" /\ Trees[r.tree][r.objs[1]].size = s.objs[1]

\* No object comes twice, and none behind a hard link to it.
MayPrecede(r, s) ==
  r.magic = "OBJT" /\ s.magic = "OBJT" => ~SameObject(r, s) /\ ~LinksTo(r, s)

\* Behind the header r of an object, s belongs to something else: an object of
\* another file system, or a block of another file, ...
Foreign(r, s) ==
  /\ r.magic = "OBJT"
  /\ \/ IsFS /\ s.magic = "OBJT" /\ s.tree # r.tree
     \/ LargeBlock(s) /\ ~SameObject(r, s)

\* ... which begins with the header c.
Opens(c, s) ==
  IF s.magic = "OBJT" THEN c.magic = "FSYB" /\ c.tree = s.tree
                      ELSE c.magic = "OBJT" /\ SameObject(c, s)

EndsFile(r) == SavedAlone(r) /\ BlocksAt(r) > 0

\* An archive begins with its main header.
BeginsRight(volumes) ==
  volumes # <<>> /\ volumes[1].recs # <<>> => volumes[1].recs[1].magic = "MAIN"

NamesObjects(volumes) ==
  \A a \in Places(volumes) :
    RecordAt(volumes, a).magic = "OBJT" => NamesObject(RecordAt(volumes, a))

ReadsInOrder(volumes) ==
  /\ \A a, b \in Places(volumes) : Before(a, b) =>
       LET r == RecordAt(volumes, a)
           s == RecordAt(volumes, b)
       IN  /\ MayPrecede(r, s)
           /\ Foreign(r, s) => \E c \in Places(volumes) :
                /\ Before(a, c) /\ Before(c, b)
                /\ Opens(RecordAt(volumes, c), s)
  /\ \A a \in Places(volumes) :
       RecordAt(volumes, a).magic = "FILF" => EndsFile(RecordAt(volumes, a))

Restorable(volumes) == NamesObjects(volumes) /\ BeginsRight(volumes) /\ ReadsInOrder(volumes)

\* Behind the header r of a file with blocks its footer c comes before the next
\* object; and behind the end of a file system come only objects of later ones and
\* their ends, behind that of the directories none.
Closing(r) == r.magic = "OBJT" /\ EndsFile(r)

Footer(c, r) == c.magic = "FILF" /\ SameObject(c, r)

EndsApart(r, s) ==
  r.magic = "DATF" /\ s.magic \in {"OBJT", "DATF"} => IsFS /\ r.tree < s.tree

Unbroken(volumes) ==
  \A a, b \in Places(volumes) : Before(a, b) =>
    LET r == RecordAt(volumes, a)
        s == RecordAt(volumes, b)
    IN  /\ EndsApart(r, s)
        /\ Closing(r) /\ s.magic = "OBJT" => \E c \in Places(volumes) :
             Before(a, c) /\ Before(c, b) /\ Footer(RecordAt(volumes, c), r)
=============================================================================
