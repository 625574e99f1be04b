----------------------------- MODULE ArchWriter -----------------------------
(***************************************************************************)
(* The archive that archwriter.c writes: a sequence of volumes, each with  *)
(* a volume header, records (headers and blocks) and a volume footer that  *)
(* says whether it is the last one.  A record goes to a new volume when it *)
(* would take the current one over the split size.                         *)
(*                                                                         *)
(* The records of all the volumes are kept in one sequence, "data"; volume *)
(* i holds the records data[first(i)] .. data[first(i + 1) - 1].  Sizes    *)
(* are in units: what matters is when a record does not fit.               *)
(*                                                                         *)
(* A write that fails leaves a part of the record in the file: the volume  *)
(* is "torn".                                                              *)
(***************************************************************************)
EXTENDS Integers, Sequences

CONSTANTS
  SplitSize,                \* g_options.splitsize, 0 when there is no splitting
  VolMarkSize,              \* size of a volume header and of a volume footer
  Overwrite,                \* g_options.overwrite
  FilesAt,                  \* volume numbers whose path is a regular file already
  SpecialAt                 \* volume numbers whose path exists and is no regular file

ASSUME ArchWriterAssumption ==
  /\ SplitSize \in Nat
  /\ VolMarkSize \in Nat
  /\ Overwrite \in BOOLEAN
  /\ FilesAt \subseteq Nat
  /\ SpecialAt \subseteq Nat

VARIABLES
  data,                     \* records written, over all the volumes
  vols,                     \* volumes created, in the order of ai->vollist
  curvol,                   \* ai->curvol
  archfd,                   \* whether ai->archfd is open
  unlinked                  \* whether the volumes have been removed again

avars == <<data, vols, curvol, archfd, unlinked>>

Volume == [num   : Nat,
           first : Nat \ {0},
           size  : Nat,
           head  : BOOLEAN,
           foot  : {"none", "more", "last"},
           torn  : BOOLEAN]

ATypeOK(Val) ==
  /\ data \in Seq(Val)
  /\ vols \in Seq(Volume)
  /\ curvol \in Nat
  /\ archfd \in BOOLEAN
  /\ unlinked \in BOOLEAN

archwriter_init ==
  /\ data = <<>>
  /\ vols = <<>>
  /\ curvol = 0
  /\ archfd = FALSE
  /\ unlinked = FALSE

\* stat64 and the two tests that follow it in archwriter_create.
VolumePathFree(n) ==
  /\ n \notin SpecialAt
  /\ n \in FilesAt => Overwrite

\* Volume n: number 0 for the first call, archwriter_incvolume for the others.
archwriter_create(n) ==
  /\ VolumePathFree(n)
  /\ curvol' = n
  /\ vols' = Append(vols, [num |-> n, first |-> Len(data) + 1, size |-> 0,
                           head |-> FALSE, foot |-> "none", torn |-> FALSE])
  /\ archfd' = TRUE
  /\ UNCHANGED <<data, unlinked>>

\* The path is taken, or open64 fails: the number has been counted already.
archwriter_create_fails(n) ==
  /\ curvol' = n
  /\ UNCHANGED <<data, vols, archfd, unlinked>>

archwriter_write_volheader ==
  /\ vols' = [vols EXCEPT ![Len(vols)].head = TRUE,
                          ![Len(vols)].size = @ + VolMarkSize]
  /\ UNCHANGED <<data, curvol, archfd, unlinked>>

\* Variant: a volume is split when it is already too large.
archwriter_split_check_late(size) ==
  SplitSize > 0 /\ vols[Len(vols)].size > SplitSize

archwriter_split_check(size) ==
  SplitSize > 0 /\ vols[Len(vols)].size + size > SplitSize

\* The footer is written whatever room is left, then archwriter_close.
archwriter_write_volfooter(mark) ==
  /\ vols' = [vols EXCEPT ![Len(vols)].foot = mark,
                          ![Len(vols)].size = @ + VolMarkSize]
  /\ archfd' = FALSE
  /\ UNCHANGED <<data, curvol, unlinked>>

archwriter_write_buffer(v, size) ==
  /\ data' = Append(data, v)
  /\ vols' = [vols EXCEPT ![Len(vols)].size = @ + size]
  /\ UNCHANGED <<curvol, archfd, unlinked>>

\* write() fails or is short, in any of the three functions above.
WriteFails ==
  /\ vols' = [vols EXCEPT ![Len(vols)].torn = TRUE]
  /\ UNCHANGED <<data, curvol, archfd, unlinked>>

\* archwriter_remove unlinks every volume of ai->vollist; ai->newarch holds
\* exactly when that list is not empty.
archwriter_remove ==
  /\ archfd' = FALSE
  /\ unlinked' = (unlinked \/ vols # <<>>)
  /\ UNCHANGED <<data, vols, curvol>>
=============================================================================
