--------------------------- MODULE ArchiveReading ---------------------------
(***************************************************************************)
(* What the reader and the decompression threads promise the main thread   *)
(* of a restore, without threads and locks: that it gets the records of    *)
(* the archive that are wanted, plain, in the order of the archive and of  *)
(* its volumes, each once and none altered, except that the data of a      *)
(* block that is damaged or does not uncompress is zeros and a damaged     *)
(* header is missing; and nothing more after the end has been declared.    *)
(***************************************************************************)
EXTENDS ArchiveFormat

CONSTANTS
  MayBeDamaged,             \* the archive need not be as it was written
  MayBeSpoilt               \* a block need not uncompress

VARIABLES
  volumes,                  \* the archive
  wanted,                   \* the file systems that are wanted
  vol, pos,                 \* what has been read: the volume and record that is next
  pending,                  \* read and not taken yet
  ended

readingVars == <<volumes, wanted, vol, pos, pending, ended>>

Records == volumes[vol].recs

IsWanted(r) == r.magic \in {"MAIN", "FSIN", "DIRS"} \/ (IF IsFS THEN r.tree - 1 ELSE 0) \in wanted

Plain(r) == [r EXCEPT !.packed = FALSE]

Damaged(r) == [r EXCEPT !.packed = FALSE, !.objs = <<>>]

ReadingInit ==
  /\ vol = 1 /\ pos = 1
  /\ pending = <<>>
  /\ ended = FALSE

Deliver ==
  /\ ~ended
  /\ vol \in DOMAIN volumes /\ pos \in DOMAIN Records
  /\ IsWanted(Records[pos])
  /\ \/ pending' = Append(pending, Plain(Records[pos]))
     \/ /\ MayBeDamaged /\ Records[pos].magic = "BLKH"
        /\ pending' = Append(pending, Damaged(Records[pos]))
  /\ pos' = pos + 1
  /\ UNCHANGED <<volumes, wanted, vol, ended>>

PassOver ==
  /\ ~ended
  /\ vol \in DOMAIN volumes /\ pos \in 1 .. Len(Records) + 1
  /\ MayBeDamaged \/ (pos \in DOMAIN Records /\ ~IsWanted(Records[pos]))
  /\ pos' = pos + 1
  /\ UNCHANGED <<volumes, wanted, vol, pending, ended>>

NextVolume ==
  /\ ~ended
  /\ vol \in DOMAIN volumes /\ pos = Len(Records) + 1
  /\ vol' = vol + 1 /\ pos' = 1
  /\ UNCHANGED <<volumes, wanted, pending, ended>>

Spoil ==
  /\ MayBeSpoilt
  /\ \E i \in DOMAIN pending :
       /\ pending[i].magic = "BLKH"
       /\ pending' = [pending EXCEPT ![i] = Damaged(@)]
  /\ UNCHANGED <<volumes, wanted, vol, pos, ended>>

Take ==
  /\ pending # <<>>
  /\ pending' = Tail(pending)
  /\ UNCHANGED <<volumes, wanted, vol, pos, ended>>

End ==
  /\ ended' = TRUE
  /\ UNCHANGED <<volumes, wanted, vol, pos, pending>>

ReadingNext == Deliver \/ PassOver \/ NextVolume \/ Spoil \/ Take \/ End

ReadingSpec == ReadingInit /\ [][ReadingNext]_readingVars
=============================================================================
