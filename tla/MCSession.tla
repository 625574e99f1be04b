----------------------------- MODULE MCSession -----------------------------
(***************************************************************************)
(* Instances of a session with one window for TLC.                         *)
(***************************************************************************)
EXTENDS Session

File(mode, dev, ino, nlink, size) ==
  [mode |-> mode, dev |-> dev, ino |-> ino, nlink |-> nlink, size |-> size]

\* A root directory with a small file, which is saved last, and a small file
\* that has two names.
OneListing ==
  << <<File("dir", 1, 1, 2, 3), File("reg", 1, 2, 1, 1), File("reg", 1, 3, 2, 1),
       File("reg", 1, 3, 2, 1)>> >>

\* A root directory with a large file and a small one.
FileListing == << <<File("dir", 1, 1, 2, 2), File("reg", 1, 2, 1, 1), File("reg", 1, 3, 1, 2)>> >>

\* A root directory with a large file.
SmallListing == << <<File("dir", 1, 1, 2, 1), File("reg", 1, 2, 1, 2)>> >>

\* A file with two names, and one of another device that is mounted below the
\* directory, with two names as well (the others are elsewhere).
MountListing ==
  << <<File("dir", 1, 1, 3, 2), File("reg", 1, 3, 2, 2), File("reg", 2, 3, 2, 2)>> >>

TreesOf(listing) == [t \in DOMAIN listing |-> createar_item_stdattr(listing[t])]

OneTree   == TreesOf(OneListing)
FileTree  == TreesOf(FileListing)
SmallTree == TreesOf(SmallListing)
MountTree == TreesOf(MountListing)

RestDir == {[oper |-> "restdir", wanted |-> {}]}
RestFS  == {[oper |-> "restfs", wanted |-> {1}]}
AnyJob  == RestDir \cup RestFS
=============================================================================
