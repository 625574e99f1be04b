----------------------------- MODULE ItemTypes -----------------------------
(***************************************************************************)
(* How a save sorts what it finds: createar_item_stdattr (oper_save.c)     *)
(* with the table of hard links (dichl.c), for the files of one tree in    *)
(* the order in which the walk visits them.  The result is the sequence of *)
(* entries of ArchiveFormat.                                               *)
(*                                                                         *)
(* The table maps the numbers of a file to the path that was seen first.   *)
(* An entry is added only when there is none, so the table at an entry     *)
(* says the first of the files before it that have its key.                *)
(***************************************************************************)
EXTENDS Integers, Sequences

CONSTANTS
  smallfilethresh,          \* g_options.smallfilethresh
  datablocksize             \* g_options.datablocksize, in the same unit

ASSUME ItemTypesAssumption ==
  /\ smallfilethresh \in Nat
  /\ datablocksize \in Nat \ {0}

\* What lstat64 says of a file.  A device number st_dev and an inode number
\* identify it; size is that of a regular file, and of a directory the number
\* of files below it.
FileStat == [mode  : {"dir", "reg", "other"},
             dev   : Nat,
             ino   : Nat,
             nlink : Nat \ {0},
             size  : Nat]

SameFile(s, r) == s.dev = r.dev /\ s.ino = r.ino

\* The key of the table: st_rdev, which is 0 in a regular file, and the inode.
HardlinkKey(s) == <<0, s.ino>>

Hardlinked(s) == s.mode = "reg" /\ s.nlink > 1

\* dichl_get for the file at i of the list.
FirstsSeen(stats, i) ==
  {j \in 1 .. i - 1 : Hardlinked(stats[j]) /\ HardlinkKey(stats[j]) = HardlinkKey(stats[i])}

DataBlocks(n) == (n + datablocksize - 1) \div datablocksize

\* Variant: a small file shares a block whatever its links are.
SharesBlock_anylinks(s) == s.size > 0 /\ s.size < smallfilethresh

\* A small file with hard links would come later in the archive than they do.
SharesBlock(s) == s.size > 0 /\ s.size < smallfilethresh /\ s.nlink = 1

ItemType(stats, i) ==
  LET s == stats[i]
      seen == FirstsSeen(stats, i)
  IN  CASE s.mode = "dir"   -> [kind |-> "dir", size |-> s.size]
        [] s.mode = "other" -> [kind |-> "meta", size |-> 0]
        [] Hardlinked(s) /\ seen # {} ->
             [kind |-> "link", size |-> CHOOSE j \in seen : \A k \in seen : j <= k]
        [] s.mode = "reg" /\ ~(Hardlinked(s) /\ seen # {}) ->
             IF SharesBlock(s) THEN [kind |-> "multi", size |-> s.size]
             ELSE [kind |-> "unique", size |-> DataBlocks(s.size)]

createar_item_stdattr(stats) == [i \in DOMAIN stats |-> ItemType(stats, i)]
=============================================================================
