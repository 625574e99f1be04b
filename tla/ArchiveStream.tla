--------------------------- MODULE ArchiveStream ---------------------------
(***************************************************************************)
(* What the save pipeline promises, without threads, queue or volumes: a   *)
(* stream.  The records that the source puts in are stored in that order,  *)
(* none lost, none twice, none altered, until the store breaks; from then  *)
(* on nothing more is stored.  The archive is sealed only when the source  *)
(* has ended the stream and every record of it is stored.                  *)
(***************************************************************************)
EXTENDS Naturals, Sequences

CONSTANT Value

VARIABLES
  pending,                  \* put in and not stored yet
  stored,
  ended,                    \* the source puts nothing more in
  broken,
  sealed

streamVars == <<pending, stored, ended, broken, sealed>>

StreamInit ==
  /\ pending = <<>> /\ stored = <<>>
  /\ ended = FALSE /\ broken = FALSE /\ sealed = FALSE

Put ==
  /\ ~ended
  /\ Len(pending') = Len(pending) + 1
  /\ pending'[Len(pending')] \in Value
  /\ pending' = Append(pending, pending'[Len(pending')])
  /\ UNCHANGED <<stored, ended, broken, sealed>>

Store ==
  /\ ~broken
  /\ pending # <<>>
  /\ stored' = Append(stored, Head(pending))
  /\ pending' = Tail(pending)
  /\ UNCHANGED <<ended, broken, sealed>>

End ==
  /\ ended' = TRUE
  /\ UNCHANGED <<pending, stored, broken, sealed>>

\* The record that was being stored may be lost.
Break ==
  /\ ~sealed
  /\ broken' = TRUE
  /\ pending' \in {pending} \cup (IF pending = <<>> THEN {} ELSE {Tail(pending)})
  /\ UNCHANGED <<stored, ended, sealed>>

Discard ==
  /\ broken
  /\ pending # <<>>
  /\ pending' = Tail(pending)
  /\ UNCHANGED <<stored, ended, broken, sealed>>

Seal ==
  /\ ended /\ ~broken
  /\ pending = <<>>
  /\ sealed' = TRUE
  /\ UNCHANGED <<pending, stored, ended, broken>>

StreamNext == Put \/ Store \/ End \/ Break \/ Discard \/ Seal

StreamSpec == StreamInit /\ [][StreamNext]_streamVars
=============================================================================
