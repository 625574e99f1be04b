------------------------- MODULE SaveArchive_proofs -------------------------
(***************************************************************************)
(* What a save operation leaves on the disk: its volumes, the state it     *)
(* ends in, and the stream of records, for any trees, threads, limits and  *)
(* faults.                                                                 *)
(***************************************************************************)
EXTENDS SavePipeline_proofs

Broken == stop \/ wpc = "error"

Sealed == vols # <<>> /\ vols[Len(vols)].foot = "last"

-----------------------------------------------------------------------------
(***************************************************************************)
(* How the threads come to their end.  The writer leaves when the queue    *)
(* has ended, with the last footer or after a failure; when it could not   *)
(* be created nothing is ever put into the queue.                          *)
(***************************************************************************)
EndInv ==
  /\ mpc = "start" => wpc = "none" /\ list = <<>>
  /\ wpc = "none" /\ mpc # "start" => /\ list = <<>> /\ ret = -1
                                     /\ mpc \in {"cleanup", "join", "done"}
  /\ wpc = "drain" => stop
  /\ stop => wpc \in {"drain", "exit"}
  /\ wpc = "exit" => list = <<>> /\ endofqueue /\ (stop \/ Sealed)
  /\ wpc \in {"none", "create", "exit"} => ~archfd
  /\ Sealed => wpc = "exit"
  /\ mpc = "done" => AllJoined
  /\ unlinked => mpc = "done" /\ ret = -1

\* What a step of the main thread does to the writer, the archive and the queue.
LEMMA MainArchive ==
  ASSUME MainStep
  PROVE  \/ MStart /\ UNCHANGED <<qvars, avars, stop>>
         \/ MJoin /\ UNCHANGED <<qvars, stop, cvars, wvars>>
         \/ /\ UNCHANGED <<avars, stop, cvars, wvars>>
            /\ mpc \notin {"start", "join", "done"} /\ mpc' \notin {"start", "done"}
            /\ mpc = "cleanup" => mpc' = "join" /\ list' = list /\ ret' = ret
            /\ endofqueue => list' = list /\ endofqueue'
            /\ mpc' = "cleanup" /\ interrupted => ret' = -1
<1> USE DEF MGoto, MFail, NextEntry, Elsewhere
<1>1. CASE MStart
  BY <1>1 DEF MStart
<1>2. CASE MJoin
  BY <1>2 DEF MJoin
<1>3. CASE \/ MWriteMainHead \/ MAnalyse \/ MAnalyseFails \/ MNextTree \/ MBeginFS
           \/ MEndFS \/ MEndDir \/ MEndDirs \/ MFinal \/ MSetEndOfQueue
  BY <1>3
  DEF MWriteMainHead, MAnalyse, MAnalyseFails, MNextTree, MBeginFS, MEndFS, MEndDir,
      MEndDirs, MFinal, MSetEndOfQueue, queue_add_header, queue_set_end_of_queue, qvars
<1>4. CASE \/ MWalkEnds \/ MStatFails \/ MOpendirFails \/ MEntryUnreadable \/ MPassSelf
           \/ MVisit \/ MReadBlock \/ MReadFails \/ MFileInterrupted \/ MFileRead
           \/ MSmallFile \/ MPutAside
  BY <1>4
  DEF MWalkEnds, MStatFails, MOpendirFails, MEntryUnreadable, MPassSelf, MVisit,
      MReadBlock, MReadFails, MFileInterrupted, MFileRead, MSmallFile, MPutAside,
      Visiting, qvars
<1>5. CASE MAddObject \/ MAddBlock \/ MAddFooter \/ MEnqueueHeader \/ MEnqueueBlock
  BY <1>5
  DEF MAddObject, MAddBlock, MAddFooter, MEnqueueHeader, MEnqueueBlock,
      queue_add_header, queue_add_block, qvars
<1>6. QED
  BY <1>1, <1>2, <1>3, <1>4, <1>5 DEF MainStep

-----------------------------------------------------------------------------
(***************************************************************************)
(* What each function of the archive writer does to the last volume.       *)
(***************************************************************************)
Last == vols[Len(vols)]

\* Only the last volume changes, and its number does not.
LastChanged ==
  /\ Len(vols') = Len(vols) /\ DOMAIN vols' = DOMAIN vols /\ vols' # <<>>
  /\ Len(vols) \in DOMAIN vols
  /\ \A i \in DOMAIN vols : i # Len(vols) => vols'[i] = vols[i]
  /\ vols'[Len(vols)].num = Last.num /\ vols'[Len(vols)].first = Last.first

LEMMA LastVolume ==
  ASSUME vols \in Seq(Volume), vols # <<>>, vols' \in Seq(Volume),
         DOMAIN vols' = DOMAIN vols,
         \A i \in DOMAIN vols : i # Len(vols) => vols'[i] = vols[i],
         vols'[Len(vols)].num = Last.num, vols'[Len(vols)].first = Last.first
  PROVE  LastChanged
<1>1. /\ DOMAIN vols = 1 .. Len(vols) /\ Len(vols) \in Nat /\ Len(vols) # 0
      /\ DOMAIN vols' = 1 .. Len(vols') /\ Len(vols') \in Nat
  BY LenProperties, EmptySeq
<1>2. Len(vols') = Len(vols)
  BY <1>1
<1>3. vols' # <<>>
  BY <1>1, <1>2, EmptySeq
<1>4. QED
  BY <1>1, <1>2, <1>3 DEF LastChanged

LEMMA LastExists ==
  ASSUME vols \in Seq(Volume), vols # <<>>
  PROVE  Len(vols) \in DOMAIN vols /\ Len(vols) \in Nat \ {0} /\ Last \in Volume
<1>1. Len(vols) \in 1 .. Len(vols) /\ DOMAIN vols = 1 .. Len(vols) /\ Len(vols) \in Nat \ {0}
  BY LenProperties, EmptySeq
<1>2. QED
  BY <1>1, ElementOfSeq DEF Last

LEMMA HeaderWritten ==
  ASSUME vols \in Seq(Volume), vols # <<>>, archwriter_write_volheader
  PROVE  /\ LastChanged
         /\ LET v == vols'[Len(vols)]
            IN  /\ v.head /\ v.foot = Last.foot /\ v.torn = Last.torn
                /\ v.size = Last.size + VolMarkSize
<1> DEFINE n == Len(vols)
<1>1. n \in DOMAIN vols /\ Last \in Volume
  BY LastExists
<1>2. vols' = [vols EXCEPT ![n].head = TRUE, ![n].size = @ + VolMarkSize]
  BY DEF archwriter_write_volheader
<1>3. vols' \in Seq(Volume)
  BY <1>2, VolumesType, ArchWriterAssumption
<1>4. vols'[n] = [Last EXCEPT !.head = TRUE, !.size = @ + VolMarkSize]
  BY <1>1, <1>2 DEF Last
<1>5. /\ vols'[n].num = Last.num /\ vols'[n].first = Last.first
      /\ vols'[n].head /\ vols'[n].foot = Last.foot
      /\ vols'[n].torn = Last.torn /\ vols'[n].size = Last.size + VolMarkSize
  BY <1>1, <1>4 DEF Volume
<1>6. LastChanged
  BY <1>2, <1>3, <1>5, LastVolume
<1>7. QED
  BY <1>5, <1>6

LEMMA FooterWritten ==
  ASSUME vols \in Seq(Volume), vols # <<>>, NEW mark \in {"more", "last"},
         archwriter_write_volfooter(mark)
  PROVE  /\ LastChanged
         /\ LET v == vols'[Len(vols)]
            IN  /\ v.head = Last.head /\ v.foot = mark /\ v.torn = Last.torn
                /\ v.size = Last.size + VolMarkSize
<1> DEFINE n == Len(vols)
<1>1. n \in DOMAIN vols /\ Last \in Volume
  BY LastExists
<1>2. vols' = [vols EXCEPT ![n].foot = mark, ![n].size = @ + VolMarkSize]
  BY DEF archwriter_write_volfooter
<1>3. vols' \in Seq(Volume)
  BY <1>2, VolumesType, ArchWriterAssumption
<1>4. vols'[n] = [Last EXCEPT !.foot = mark, !.size = @ + VolMarkSize]
  BY <1>1, <1>2 DEF Last
<1>5. /\ vols'[n].num = Last.num /\ vols'[n].first = Last.first
      /\ vols'[n].head = Last.head /\ vols'[n].foot = mark
      /\ vols'[n].torn = Last.torn /\ vols'[n].size = Last.size + VolMarkSize
  BY <1>1, <1>4 DEF Volume
<1>6. LastChanged
  BY <1>2, <1>3, <1>5, LastVolume
<1>7. QED
  BY <1>5, <1>6

LEMMA BufferWritten ==
  ASSUME vols \in Seq(Volume), vols # <<>>, NEW r, NEW k \in Nat,
         archwriter_write_buffer(r, k)
  PROVE  /\ LastChanged
         /\ LET v == vols'[Len(vols)]
            IN  /\ v.head = Last.head /\ v.foot = Last.foot /\ v.torn = Last.torn
                /\ v.size = Last.size + k
<1> DEFINE n == Len(vols)
<1>1. n \in DOMAIN vols /\ Last \in Volume
  BY LastExists
<1>2. vols' = [vols EXCEPT ![n].size = @ + k]
  BY DEF archwriter_write_buffer
<1>3. vols' \in Seq(Volume)
  BY <1>2, VolumesType
<1>4. vols'[n] = [Last EXCEPT !.size = @ + k]
  BY <1>1, <1>2 DEF Last
<1>5. /\ vols'[n].num = Last.num /\ vols'[n].first = Last.first
      /\ vols'[n].head = Last.head /\ vols'[n].foot = Last.foot
      /\ vols'[n].torn = Last.torn /\ vols'[n].size = Last.size + k
  BY <1>1, <1>4 DEF Volume
<1>6. LastChanged
  BY <1>2, <1>3, <1>5, LastVolume
<1>7. QED
  BY <1>5, <1>6

LEMMA WriteTorn ==
  ASSUME vols \in Seq(Volume), vols # <<>>, WriteFails
  PROVE  /\ LastChanged
         /\ LET v == vols'[Len(vols)]
            IN  v.head = Last.head /\ v.foot = Last.foot /\ v.size = Last.size
<1> DEFINE n == Len(vols)
<1>1. n \in DOMAIN vols /\ Last \in Volume
  BY LastExists
<1>2. vols' = [vols EXCEPT ![n].torn = TRUE]
  BY DEF WriteFails
<1>3. vols' \in Seq(Volume)
  BY <1>2, VolumesType
<1>4. vols'[n] = [Last EXCEPT !.torn = TRUE]
  BY <1>1, <1>2 DEF Last
<1>5. /\ vols'[n].num = Last.num /\ vols'[n].first = Last.first
      /\ vols'[n].head = Last.head /\ vols'[n].foot = Last.foot
      /\ vols'[n].size = Last.size
  BY <1>1, <1>4 DEF Volume
<1>6. LastChanged
  BY <1>2, <1>3, <1>5, LastVolume
<1>7. QED
  BY <1>5, <1>6

LEMMA VolumeCreated ==
  ASSUME vols \in Seq(Volume), data \in Seq(Record), NEW k \in Nat, archwriter_create(k)
  PROVE  /\ Len(vols') = Len(vols) + 1 /\ vols' # <<>>
         /\ DOMAIN vols' = DOMAIN vols \cup {Len(vols')}
         /\ \A i \in DOMAIN vols : vols'[i] = vols[i] /\ i <= Len(vols)
         /\ LET v == vols'[Len(vols')]
            IN  v.num = k /\ ~v.torn /\ v.foot = "none" /\ v.size = 0
<1> DEFINE v == [num |-> k, first |-> Len(data) + 1, size |-> 0, head |-> FALSE,
                 foot |-> "none", torn |-> FALSE]
<1>1. v \in Volume /\ v.num = k /\ ~v.torn /\ v.foot = "none" /\ v.size = 0
  BY LenProperties DEF Volume
<1>2. vols' = Append(vols, v)
  BY DEF archwriter_create
<1> HIDE DEF v
<1>3. DOMAIN vols = 1 .. Len(vols) /\ Len(vols) \in Nat
  BY LenProperties
<1>4. /\ Len(vols') = Len(vols) + 1 /\ DOMAIN vols' = 1 .. Len(vols')
      /\ \A i \in 1 .. Len(vols) : vols'[i] = vols[i]
      /\ vols'[Len(vols')] = v
  BY <1>1, <1>2, <1>3, AppendProperties, LenProperties
<1>5. vols' # <<>>
  BY <1>3, <1>4, EmptySeq
<1>6. QED
  BY <1>1, <1>3, <1>4, <1>5

-----------------------------------------------------------------------------
(***************************************************************************)
(* The volumes.  The writer is at a volume, the last one; it is intact as  *)
(* long as nothing has gone wrong, and those before it are complete.       *)
(***************************************************************************)
VolInv ==
  /\ wpc \in {"none", "create"} => vols = <<>>
  /\ wpc \in {"volhead", "loop", "item", "newvol", "newhead", "record"}
       => vols # <<>> /\ curvol = Len(vols) - 1
  /\ ~Broken => \A i \in DOMAIN vols : ~vols[i].torn
  /\ \A i \in DOMAIN vols : vols[i].num = i - 1
  /\ \A i \in DOMAIN vols : i < Len(vols) \/ wpc = "newvol" =>
       vols[i].head /\ vols[i].foot = "more" /\ ~vols[i].torn
  /\ wpc \in {"loop", "item", "record"} => Last.head

LEMMA VolSame ==
  ASSUME VolInv, UNCHANGED <<vols, curvol, stop, wpc>>
  PROVE  VolInv'
BY DEF VolInv, Broken, Last

\* A write to the last volume that succeeds and is followed by another one.
LEMMA VolWritten ==
  ASSUME BaseInv, VolInv, LastChanged, UNCHANGED <<curvol, stop>>,
         wpc \in {"volhead", "loop", "item", "newhead", "record"},
         wpc' \in {"loop", "item", "newvol", "record", "exit"},
         vols'[Len(vols)].torn = Last.torn, vols'[Len(vols)].head,
         wpc' = "newvol" => ~Broken /\ vols'[Len(vols)].foot = "more",
         wpc = "loop" => wpc' = "exit"
  PROVE  VolInv'
<1>1. \A i \in DOMAIN vols : i # Len(vols) => vols'[i] = vols[i]
  BY DEF LastChanged
<1>2. Len(vols') = Len(vols) /\ DOMAIN vols' = DOMAIN vols /\ vols' # <<>>
  BY DEF LastChanged
<1>3. /\ vols # <<>> /\ vols \in Seq(Volume) /\ Len(vols) \in Nat
      /\ \A i \in DOMAIN vols : i <= Len(vols) /\ i \in Nat
  BY LenProperties DEF BaseInv, ATypeOK, VolInv
<1>4. ~Broken' => ~Broken
  BY DEF Broken
<1>5. ~Broken => ~Last.torn
  BY <1>3, LastExists DEF VolInv, Last
<1>6. ~Broken' => \A i \in DOMAIN vols' : ~vols'[i].torn
  BY <1>1, <1>2, <1>4, <1>5 DEF VolInv
<1>7. \A i \in DOMAIN vols' : vols'[i].num = i - 1
  BY <1>1, <1>2 DEF VolInv, LastChanged, Last
<1>8. ASSUME NEW i \in DOMAIN vols', i < Len(vols') \/ wpc' = "newvol"
      PROVE  vols'[i].head /\ vols'[i].foot = "more" /\ ~vols'[i].torn
  <2>1. CASE i = Len(vols)
    BY <1>2, <1>5, <1>8, <2>1 DEF VolInv
  <2>2. CASE i # Len(vols)
    BY <1>1, <1>2, <1>3, <1>8, <2>2 DEF VolInv
  <2>3. QED
    BY <2>1, <2>2
<1>9. Last'.head
  BY <1>2 DEF Last
<1>10. QED
  BY <1>2, <1>6, <1>7, <1>8, <1>9 DEF VolInv

LEMMA VolStep ==
  ASSUME BaseInv, EndInv, VolInv, [Next]_vars
  PROVE  VolInv'
<1>1. vols \in Seq(Volume) /\ data \in Seq(Record) /\ curvol \in Nat
  BY DEF BaseInv, ATypeOK
<1>2. CASE MainStep
  <2>1. CASE MStart /\ UNCHANGED <<qvars, avars, stop>>
    <3>1. wpc = "none" /\ wpc' \in {"none", "create"} /\ UNCHANGED <<vols, curvol, stop>>
      BY <2>1 DEF MStart, MGoto, MFail, EndInv, avars
    <3>2. QED
      BY <3>1 DEF VolInv, Broken, Last
  <2>2. CASE MJoin /\ UNCHANGED <<qvars, stop, cvars, wvars>>
    BY <2>2, VolSame DEF MJoin, archwriter_remove, avars, wvars
  <2>3. CASE UNCHANGED <<avars, stop, cvars, wvars>>
    BY <2>3, VolSame DEF avars, wvars
  <2>4. QED
    BY <1>2, <2>1, <2>2, <2>3, MainArchive
<1>3. ASSUME NEW t \in CompThreads, CompStep(t)
      PROVE  VolInv'
  BY <1>3, VolSame DEF CompStep, CTake, CReplace, CFail, CExit, avars, wvars
<1>4. CASE Signal \/ UNCHANGED vars
  BY <1>4, VolSame DEF Signal, vars, avars, wvars
<1>5. CASE WCreate
  <2>1. PICK k \in Nat : /\ archwriter_create(k)
                         /\ \/ wpc = "create" /\ wpc' = "volhead" /\ k = 0
                            \/ wpc = "newvol" /\ wpc' = "newhead" /\ k = curvol + 1
    BY <1>1, <1>5 DEF WCreate, WGoto
  <2>2. /\ Len(vols) \in Nat
        /\ \A i \in DOMAIN vols : i \in Nat /\ i <= Len(vols)
        /\ k = Len(vols) /\ curvol' = k /\ stop' = stop
    <3>1. Len(vols) \in Nat /\ \A i \in DOMAIN vols : i \in Nat /\ i <= Len(vols)
      BY <1>1, LenProperties
    <3>2. curvol' = k /\ stop' = stop
      BY <1>5, <2>1 DEF WCreate, archwriter_create, WElsewhere
    <3>3. k = Len(vols)
      BY <2>1, <3>1, EmptySeq DEF VolInv
    <3>4. QED
      BY <3>1, <3>2, <3>3
  <2>3. /\ Len(vols') = Len(vols) + 1 /\ vols' # <<>>
        /\ DOMAIN vols' = DOMAIN vols \cup {Len(vols')}
        /\ \A i \in DOMAIN vols : vols'[i] = vols[i]
        /\ vols'[Len(vols')].num = k /\ ~vols'[Len(vols')].torn
    BY <1>1, <2>1, VolumeCreated
  <2>4. ~Broken' => \A i \in DOMAIN vols' : ~vols'[i].torn
    BY <2>1, <2>2, <2>3 DEF VolInv, Broken
  <2>5. \A i \in DOMAIN vols' : vols'[i].num = i - 1
    BY <2>2, <2>3 DEF VolInv
  <2>6. ASSUME NEW i \in DOMAIN vols', i < Len(vols') \/ wpc' = "newvol"
        PROVE  vols'[i].head /\ vols'[i].foot = "more" /\ ~vols'[i].torn
    <3>1. i \in DOMAIN vols /\ vols'[i] = vols[i]
      BY <2>1, <2>3, <2>6
    <3>2. wpc = "newvol"
      BY <2>1, <2>2, <3>1 DEF VolInv
    <3>3. QED
      BY <3>1, <3>2 DEF VolInv
  <2>7. QED
    BY <2>1, <2>2, <2>3, <2>4, <2>5, <2>6 DEF VolInv
<1>6. CASE WCreateFails
  <2>1. wpc' = "error" /\ UNCHANGED vols
    BY <1>6 DEF WCreateFails, WGoto, archwriter_create_fails
  <2>2. QED
    BY <2>1 DEF VolInv, Broken
<1>7. CASE WVolHeader
  <2>1. /\ wpc \in {"volhead", "newhead"} /\ wpc' \in {"loop", "record"}
        /\ archwriter_write_volheader /\ UNCHANGED <<curvol, stop>>
    BY <1>7 DEF WVolHeader, WGoto, WElsewhere, archwriter_write_volheader
  <2>2. /\ LastChanged
        /\ vols'[Len(vols)].head /\ vols'[Len(vols)].torn = Last.torn
    BY <1>1, <2>1, HeaderWritten DEF VolInv
  <2>3. QED
    BY <2>1, <2>2, VolWritten
<1>8. CASE WSplit
  <2>1. CASE archwriter_split_check(SizeOf(witem))
    <3>1. /\ wpc = "item" /\ wpc' = "newvol"
          /\ archwriter_write_volfooter("more") /\ UNCHANGED <<curvol, stop>>
      BY <1>8, <2>1 DEF WSplit, WElsewhere, archwriter_write_volfooter
    <3>2. ~Broken
      BY <3>1 DEF EndInv, Broken
    <3>3. /\ LastChanged
          /\ vols'[Len(vols)].head /\ vols'[Len(vols)].torn = Last.torn
          /\ vols'[Len(vols)].foot = "more"
      BY <1>1, <3>1, FooterWritten DEF VolInv
    <3>4. QED
      BY <3>1, <3>2, <3>3, VolWritten
  <2>2. CASE ~archwriter_split_check(SizeOf(witem))
    BY <1>8, <2>2 DEF WSplit, WElsewhere, avars, VolInv, Broken, Last
  <2>3. QED
    BY <2>1, <2>2
<1>9. CASE WWriteRecord
  <2>1. /\ wpc = "record" /\ wpc' = "loop" /\ UNCHANGED <<curvol, stop>>
        /\ archwriter_write_buffer(witem, SizeOf(witem))
    BY <1>9 DEF WWriteRecord, WGoto, WElsewhere, archwriter_write_buffer
  <2>2. SizeOf(witem) \in Nat
    BY SaveAssumption DEF SizeOf
  <2>3. /\ LastChanged
        /\ vols'[Len(vols)].head /\ vols'[Len(vols)].torn = Last.torn
    BY <1>1, <2>1, <2>2, BufferWritten DEF VolInv
  <2>4. QED
    BY <2>1, <2>3, VolWritten
<1>10. CASE WLastFooter
  <2>1. /\ wpc = "loop" /\ wpc' = "exit" /\ UNCHANGED <<curvol, stop>>
        /\ archwriter_write_volfooter("last")
    BY <1>10 DEF WLastFooter, WGoto, WElsewhere, archwriter_write_volfooter
  <2>2. /\ LastChanged
        /\ vols'[Len(vols)].head /\ vols'[Len(vols)].torn = Last.torn
    BY <1>1, <2>1, FooterWritten DEF VolInv
  <2>3. QED
    BY <2>1, <2>2, VolWritten
<1>11. CASE WWriteFails
  <2>1. /\ wpc \in {"volhead", "newhead", "record", "item", "loop"} /\ wpc' = "error"
        /\ WriteFails
    BY <1>11 DEF WWriteFails
  <2>2. LastChanged
    BY <1>1, <2>1, WriteTorn DEF VolInv
  <2>3. \A i \in DOMAIN vols : i < Len(vols) => i # Len(vols)
    BY <1>1, LenProperties
  <2>4. QED
    BY <2>1, <2>2, <2>3 DEF VolInv, Broken, LastChanged, Last
<1>12. CASE WDequeue \/ WError \/ WDrain
  <2>1. /\ UNCHANGED <<vols, curvol>>
        /\ \/ wpc = "loop" /\ wpc' = "item" /\ stop' = stop
           \/ wpc = "error" /\ wpc' = "drain" /\ stop'
           \/ wpc = "drain" /\ wpc' \in {"drain", "exit"} /\ stop' = stop
    BY <1>12 DEF WDequeue, WError, WDrain, WGoto, WElsewhere, avars
  <2>2. QED
    BY <2>1 DEF VolInv, Broken, Last
<1>13. QED
  BY <1>2, <1>3, <1>4, <1>5, <1>6, <1>7, <1>8, <1>9, <1>10, <1>11, <1>12
  DEF Next, WriterStep, Done

-----------------------------------------------------------------------------
LEMMA EndSame ==
  ASSUME EndInv, UNCHANGED <<wpc, stop, vols, archfd, unlinked, mpc, ret>>,
         mpc = "done" => AllJoined',
         list = <<>> /\ (wpc = "exit" \/ mpc \in {"start", "cleanup", "join", "done"})
           => list' = <<>>,
         endofqueue => endofqueue'
  PROVE  EndInv'
<1>1. Sealed' <=> Sealed
  BY DEF Sealed
<1>2. QED
  BY <1>1 DEF EndInv

LEMMA EndStep ==
  ASSUME BaseInv, EndInv, VolInv, [Next]_vars
  PROVE  EndInv'
<1>1. vols \in Seq(Volume) /\ data \in Seq(Record) /\ curvol \in Nat
  BY DEF BaseInv, ATypeOK
<1>2. mpc = "done" => /\ \A t \in CompThreads : cpc[t] \in {"none", "exit"}
                      /\ wpc \in {"none", "exit"}
  BY DEF EndInv, AllJoined
<1>3. CASE MainStep
  <2>1. CASE MStart /\ UNCHANGED <<qvars, avars, stop>>
    <3>1. /\ wpc = "none" /\ list = <<>> /\ mpc = "start"
          /\ UNCHANGED <<list, vols, archfd, unlinked, stop>>
          /\ \/ wpc' = "create" /\ mpc' = "mainhead"
             \/ wpc' = "none" /\ mpc' = "cleanup" /\ ret' = -1
      BY <2>1 DEF MStart, MGoto, MFail, EndInv, avars, qvars
    <3>2. Sealed' <=> Sealed
      BY <3>1 DEF Sealed
    <3>3. QED
      BY <3>1, <3>2 DEF EndInv
  <2>2. CASE MJoin /\ UNCHANGED <<qvars, stop, cvars, wvars>>
    <3>1. /\ mpc = "join" /\ mpc' = "done" /\ AllJoined /\ AllJoined'
          /\ UNCHANGED <<list, endofqueue, vols, stop, wpc>>
          /\ archfd' = archfd \/ ~archfd'
          /\ ret' = ret \/ ret' = -1
      BY <2>2 DEF MJoin, MGoto, AllJoined, archwriter_remove, avars, cvars, wvars, qvars
    <3>2. unlinked' => ret' = -1
      <4>1. CASE ret = 0
        BY <2>2, <3>1, <4>1 DEF MJoin, avars, EndInv
      <4>2. CASE ret # 0
        BY <3>1, <4>2 DEF BaseInv, MainTypeOK
      <4>3. QED
        BY <4>1, <4>2
    <3>3. Sealed' <=> Sealed
      BY <3>1 DEF Sealed
    <3>4. QED
      BY <3>1, <3>2, <3>3 DEF EndInv
  <2>3. CASE /\ UNCHANGED <<avars, stop, cvars, wvars>>
             /\ mpc \notin {"start", "join", "done"} /\ mpc' \notin {"start", "done"}
             /\ mpc = "cleanup" => mpc' = "join" /\ list' = list /\ ret' = ret
             /\ endofqueue => list' = list /\ endofqueue'
    <3>1. Sealed' <=> Sealed
      BY <2>3 DEF Sealed, avars
    <3>2. QED
      BY <2>3, <3>1 DEF EndInv, avars, wvars
  <2>4. QED
    BY <1>3, <2>1, <2>2, <2>3, MainArchive
<1>4. ASSUME NEW t \in CompThreads, CompStep(t)
      PROVE  EndInv'
  <2>1. /\ UNCHANGED <<avars, stop, mvars, wvars>> /\ endofqueue' = endofqueue
        /\ mpc # "done"
    BY <1>2, <1>4 DEF CompStep, CTake, CReplace, CFail, CExit, qvars,
                      queue_get_first_block_todo, queue_replace_block
  <2>2. list = <<>> => list' = <<>>
    BY <1>4 DEF CompStep, CTake, CReplace, CFail, CExit, qvars,
                queue_get_first_block_todo, queue_replace_block, TodoPositions
  <2>3. QED
    BY <2>1, <2>2, EndSame DEF avars, mvars, wvars
<1>5. CASE Signal \/ UNCHANGED vars
  BY <1>5, EndSame DEF Signal, vars, qvars, avars, mvars, cvars, wvars, EndInv, AllJoined
<1>6. ASSUME WriterStep
      PROVE  /\ UNCHANGED <<mpc, ret>> /\ mpc # "done"
             /\ unlinked' = unlinked /\ endofqueue' = endofqueue
             /\ wpc \notin {"none", "exit"} /\ wpc' # "none" /\ wpc' # "create"
  BY <1>2, <1>6 DEF WriterStep, WCreate, WCreateFails, WVolHeader, WDequeue, WSplit,
     WWriteRecord, WLastFooter, WWriteFails, WError, WDrain, WElsewhere, WGoto, mvars,
     archwriter_create, archwriter_create_fails, archwriter_write_volheader,
     archwriter_write_volfooter, archwriter_write_buffer, WriteFails, avars, qvars,
     queue_dequeue_first, queue_destroy_first_item, RemoveHead
<1>7. itemcount = Len(list) /\ (list # <<>> => itemcount > 0)
  BY EmptySeq, LenProperties DEF BaseInv, QInv, QTypeOK, QueueSound
<1>8. CASE WCreate
  <2>1. PICK k \in Nat : /\ archwriter_create(k)
                         /\ wpc \in {"create", "newvol"} /\ wpc' \in {"volhead", "newhead"}
    BY <1>1, <1>8 DEF WCreate, WGoto
  <2>2. ~Sealed'
    BY <1>1, <2>1, VolumeCreated DEF Sealed
  <2>3. QED
    BY <1>6, <1>8, <2>1, <2>2 DEF WCreate, WElsewhere, WriterStep, qvars, EndInv
<1>9. CASE WCreateFails
  <2>1. wpc' = "error" /\ UNCHANGED <<vols, stop>>
    BY <1>9 DEF WCreateFails, WGoto, WElsewhere, archwriter_create_fails
  <2>2. Sealed' <=> Sealed
    BY <2>1 DEF Sealed
  <2>3. wpc # "exit" /\ wpc # "drain"
    BY <1>9 DEF WCreateFails, WGoto
  <2>4. QED
    BY <1>6, <1>9, <2>1, <2>2, <2>3 DEF WriterStep, EndInv
<1>10. CASE WVolHeader
  <2>1. /\ wpc \in {"volhead", "newhead"} /\ wpc' \in {"loop", "record"} /\ stop' = stop
        /\ archwriter_write_volheader
    BY <1>10 DEF WVolHeader, WGoto, WElsewhere
  <2>2. Sealed' <=> Sealed
    BY <1>1, <2>1, HeaderWritten DEF VolInv, LastChanged, Last, Sealed
  <2>3. QED
    BY <1>6, <1>10, <2>1, <2>2 DEF WriterStep, EndInv
<1>11. CASE WSplit
  <2>1. /\ wpc = "item" /\ wpc' \in {"newvol", "record"} /\ stop' = stop
    BY <1>11 DEF WSplit, WElsewhere
  <2>2. ~Sealed'
    <3>1. CASE archwriter_split_check(SizeOf(witem))
      <4>1. archwriter_write_volfooter("more")
        BY <1>11, <3>1 DEF WSplit
      <4>2. QED
        BY <1>1, <2>1, <4>1, FooterWritten DEF VolInv, LastChanged, Sealed
    <3>2. CASE ~archwriter_split_check(SizeOf(witem))
      BY <1>11, <2>1, <3>2 DEF WSplit, avars, EndInv, Sealed
    <3>3. QED
      BY <3>1, <3>2
  <2>3. QED
    BY <1>6, <1>11, <2>1, <2>2 DEF WriterStep, EndInv
<1>12. CASE WWriteRecord
  <2>1. /\ wpc = "record" /\ wpc' = "loop" /\ stop' = stop
        /\ archwriter_write_buffer(witem, SizeOf(witem))
    BY <1>12 DEF WWriteRecord, WGoto, WElsewhere
  <2>2. SizeOf(witem) \in Nat
    BY SaveAssumption DEF SizeOf
  <2>3. Sealed' <=> Sealed
    BY <1>1, <2>1, <2>2, BufferWritten DEF VolInv, LastChanged, Last, Sealed
  <2>4. QED
    BY <1>6, <1>12, <2>1, <2>3 DEF WriterStep, EndInv
<1>13. CASE WLastFooter
  <2>1. /\ wpc = "loop" /\ wpc' = "exit" /\ stop' = stop /\ ~archfd'
        /\ archwriter_write_volfooter("last") /\ list' = list
        /\ list = <<>> /\ endofqueue
    BY <1>7, <1>13 DEF WLastFooter, WGoto, WElsewhere, archwriter_write_volfooter, qvars,
                       queue_get_end_of_queue
  <2>2. Sealed'
    BY <1>1, <2>1, FooterWritten DEF VolInv, LastChanged, Sealed
  <2>3. QED
    BY <1>6, <1>13, <2>1, <2>2 DEF WriterStep, EndInv
<1>14. CASE WWriteFails
  <2>1. /\ wpc \in {"volhead", "newhead", "record", "item", "loop"} /\ wpc' = "error"
        /\ WriteFails /\ stop' = stop
    BY <1>14 DEF WWriteFails, WElsewhere
  <2>2. Sealed' <=> Sealed
    BY <1>1, <2>1, WriteTorn DEF VolInv, LastChanged, Last, Sealed
  <2>3. QED
    BY <1>6, <1>14, <2>1, <2>2 DEF WriterStep, EndInv
<1>15. CASE WDequeue \/ WError
  <2>1. /\ UNCHANGED vols
        /\ \/ wpc = "loop" /\ wpc' = "item" /\ stop' = stop
           \/ wpc = "error" /\ wpc' = "drain" /\ stop'
    BY <1>15 DEF WDequeue, WError, WGoto, WElsewhere, avars
  <2>2. Sealed' <=> Sealed
    BY <2>1 DEF Sealed
  <2>3. QED
    BY <1>6, <1>15, <2>1, <2>2 DEF WriterStep, EndInv
<1>16. CASE WDrain
  <2>1. /\ wpc = "drain" /\ stop' = stop /\ UNCHANGED vols
        /\ \/ wpc' = "exit" /\ ~archfd' /\ list' = <<>> /\ endofqueue'
           \/ wpc' = wpc /\ archfd' = archfd
    BY <1>7, <1>16 DEF WDrain, WElsewhere, qvars, queue_get_end_of_queue
  <2>2. Sealed' <=> Sealed
    BY <2>1 DEF Sealed
  <2>3. QED
    BY <1>6, <1>16, <2>1, <2>2 DEF WriterStep, EndInv
<1>17. QED
  BY <1>3, <1>4, <1>5, <1>8, <1>9, <1>10, <1>11, <1>12, <1>13, <1>14, <1>15, <1>16
  DEF Next, WriterStep, Done

-----------------------------------------------------------------------------
(***************************************************************************)
(* How large volumes get, when a record fits in an empty one.  Before a    *)
(* record is written there is room for it.                                 *)
(***************************************************************************)
Fits == SplitSize >= VolMarkSize + HeadSize /\ SplitSize >= VolMarkSize + BlockSize

SizeInv ==
  /\ \A i \in DOMAIN vols : vols[i].size <= SplitSize + VolMarkSize
  /\ wpc \in {"volhead", "newhead"} => Last.size = 0
  /\ wpc \in {"loop", "item"} => Last.size <= SplitSize
  /\ wpc = "record" => Last.size + SizeOf(witem) <= SplitSize

LEMMA SizeSame ==
  ASSUME SizeInv, UNCHANGED <<vols, witem>>,
         \/ wpc' = wpc
         \/ wpc' \notin {"volhead", "newhead", "loop", "item", "record"}
  PROVE  SizeInv'
BY DEF SizeInv, Last, SizeOf

LEMMA SizeStep ==
  ASSUME BaseInv, EndInv, VolInv, Fits, SizeInv, [Next]_vars
  PROVE  SizeInv'
<1>1. /\ vols \in Seq(Volume) /\ data \in Seq(Record) /\ curvol \in Nat
      /\ SplitSize \in Nat /\ VolMarkSize \in Nat /\ HeadSize \in Nat /\ BlockSize \in Nat
      /\ \A r : SizeOf(r) \in Nat /\ VolMarkSize + SizeOf(r) <= SplitSize
  BY SaveAssumption, ArchWriterAssumption DEF BaseInv, ATypeOK, Fits, SizeOf
<1>2. vols # <<>> => Last.size \in Nat
  BY <1>1, LastExists DEF Volume
<1>3. CASE MainStep
  <2>1. CASE MStart /\ UNCHANGED <<qvars, avars, stop>>
    <3>1. wpc' \in {"none", "create"} /\ UNCHANGED <<vols, witem>>
      BY <2>1 DEF MStart, avars
    <3>2. QED
      BY <3>1, SizeSame
  <2>2. CASE MJoin /\ UNCHANGED <<qvars, stop, cvars, wvars>>
    BY <2>2, SizeSame DEF MJoin, archwriter_remove, avars, wvars
  <2>3. CASE UNCHANGED <<avars, stop, cvars, wvars>>
    BY <2>3, SizeSame DEF avars, wvars
  <2>4. QED
    BY <1>3, <2>1, <2>2, <2>3, MainArchive
<1>4. ASSUME NEW t \in CompThreads, CompStep(t)
      PROVE  SizeInv'
  BY <1>4, SizeSame DEF CompStep, CTake, CReplace, CFail, CExit, avars, wvars
<1>5. CASE Signal \/ UNCHANGED vars
  BY <1>5, SizeSame DEF Signal, vars, avars, wvars
<1>6. CASE WCreate
  <2>1. PICK k \in Nat : archwriter_create(k) /\ wpc' \in {"volhead", "newhead"}
    BY <1>1, <1>6 DEF WCreate, WGoto
  <2>2. /\ DOMAIN vols' = DOMAIN vols \cup {Len(vols')}
        /\ \A i \in DOMAIN vols : vols'[i] = vols[i]
        /\ vols'[Len(vols')].size = 0
    BY <1>1, <2>1, VolumeCreated
  <2>3. 0 <= SplitSize + VolMarkSize
    BY <1>1
  <2>4. \A i \in DOMAIN vols' : vols'[i].size <= SplitSize + VolMarkSize
    BY <2>2, <2>3 DEF SizeInv
  <2>5. Last'.size = 0
    BY <2>2 DEF Last
  <2>6. QED
    BY <2>1, <2>4, <2>5 DEF SizeInv
<1>7. CASE WCreateFails \/ WError \/ WDrain
  <2>1. UNCHANGED vols /\ wpc' \notin {"volhead", "newhead", "loop", "item", "record"}
    BY <1>7 DEF WCreateFails, WError, WDrain, WGoto, archwriter_create_fails, avars
  <2>2. QED
    BY <2>1 DEF SizeInv
\* The last volume is the only one that grows.
<1>8. ASSUME LastChanged, vols'[Len(vols)].size <= SplitSize + VolMarkSize
      PROVE  /\ \A i \in DOMAIN vols' : vols'[i].size <= SplitSize + VolMarkSize
             /\ Last'.size = vols'[Len(vols)].size
  BY <1>8 DEF LastChanged, SizeInv, Last
<1>9. CASE WVolHeader
  <2>1. /\ wpc \in {"volhead", "newhead"} /\ wpc' \in {"loop", "record"} /\ witem' = witem
        /\ archwriter_write_volheader
    BY <1>9 DEF WVolHeader, WGoto
  <2>2. LastChanged /\ vols'[Len(vols)].size = VolMarkSize
    BY <1>1, <2>1, HeaderWritten DEF VolInv, SizeInv
  <2>3. VolMarkSize <= SplitSize /\ VolMarkSize + SizeOf(witem) <= SplitSize
    BY <1>1 DEF Fits
  <2>4. QED
    BY <1>1, <1>8, <2>1, <2>2, <2>3 DEF SizeInv, SizeOf
<1>10. CASE WSplit
  <2>1. wpc = "item" /\ vols # <<>> /\ Last.size <= SplitSize /\ witem' = witem
    BY <1>10 DEF WSplit, VolInv, SizeInv
  <2>2. CASE archwriter_split_check(SizeOf(witem))
    <3>1. archwriter_write_volfooter("more") /\ wpc' = "newvol"
      BY <1>10, <2>2 DEF WSplit
    <3>2. LastChanged /\ vols'[Len(vols)].size = Last.size + VolMarkSize
      BY <1>1, <2>1, <3>1, FooterWritten
    <3>3. QED
      BY <1>1, <1>2, <1>8, <2>1, <3>1, <3>2 DEF SizeInv
  <2>3. CASE ~archwriter_split_check(SizeOf(witem))
    <3>1. UNCHANGED <<vols, witem>> /\ wpc' = "record"
      BY <1>10, <2>3 DEF WSplit, avars
    <3>2. Last.size + SizeOf(witem) <= SplitSize
      <4>1. CASE SplitSize > 0
        BY <1>1, <1>2, <2>1, <2>3, <4>1 DEF archwriter_split_check, Last
      <4>2. CASE SplitSize = 0
        BY <1>1, <1>2, <2>1, <4>2
      <4>3. QED
        BY <1>1, <4>1, <4>2
    <3>3. QED
      BY <3>1, <3>2 DEF SizeInv, Last, SizeOf
  <2>4. QED
    BY <2>2, <2>3
<1>11. CASE WWriteRecord
  <2>1. /\ wpc = "record" /\ wpc' = "loop" /\ vols # <<>>
        /\ archwriter_write_buffer(witem, SizeOf(witem))
    BY <1>11 DEF WWriteRecord, WGoto, VolInv
  <2>2. LastChanged /\ vols'[Len(vols)].size = Last.size + SizeOf(witem)
    BY <1>1, <2>1, BufferWritten
  <2>3. vols'[Len(vols)].size <= SplitSize /\ vols'[Len(vols)].size \in Nat
    BY <1>1, <1>2, <2>1, <2>2 DEF SizeInv
  <2>4. QED
    BY <1>1, <1>8, <2>1, <2>2, <2>3 DEF SizeInv
<1>12. CASE WLastFooter
  <2>1. wpc = "loop" /\ wpc' = "exit" /\ vols # <<>> /\ archwriter_write_volfooter("last")
    BY <1>12 DEF WLastFooter, WGoto, VolInv
  <2>2. LastChanged /\ vols'[Len(vols)].size = Last.size + VolMarkSize
    BY <1>1, <2>1, FooterWritten
  <2>3. vols'[Len(vols)].size <= SplitSize + VolMarkSize
    BY <1>1, <1>2, <2>1, <2>2 DEF SizeInv
  <2>4. QED
    BY <1>8, <2>1, <2>2, <2>3 DEF SizeInv
<1>13. CASE WWriteFails
  <2>1. /\ wpc \in {"volhead", "newhead", "record", "item", "loop"} /\ wpc' = "error"
        /\ WriteFails /\ vols # <<>>
    BY <1>13 DEF WWriteFails, VolInv
  <2>2. LastChanged /\ vols'[Len(vols)].size = Last.size
    BY <1>1, <2>1, WriteTorn
  <2>3. Last.size <= SplitSize + VolMarkSize
    BY <1>1, <2>1, LastExists DEF SizeInv, Last
  <2>4. QED
    BY <1>8, <2>1, <2>2, <2>3 DEF SizeInv
<1>14. CASE WDequeue
  <2>1. wpc = "loop" /\ wpc' = "item" /\ UNCHANGED vols
    BY <1>14 DEF WDequeue, WGoto, avars
  <2>2. QED
    BY <2>1 DEF SizeInv, Last
<1>15. QED
  BY <1>3, <1>4, <1>5, <1>6, <1>7, <1>9, <1>10, <1>11, <1>12, <1>13, <1>14
  DEF Next, WriterStep, Done

-----------------------------------------------------------------------------
DiskInv == EndInv /\ VolInv /\ (Fits => SizeInv)

LEMMA DiskInit == Init => DiskInv
<1> SUFFICES ASSUME Init PROVE DiskInv
  OBVIOUS
<1>1. /\ vols = <<>> /\ DOMAIN vols = {} /\ list = <<>> /\ ~archfd /\ ~unlinked /\ ~stop
      /\ wpc = "none" /\ mpc = "start"
  BY DEF Init, archwriter_init, queue_init
<1>2. QED
  BY <1>1 DEF DiskInv, EndInv, VolInv, SizeInv, Sealed, Broken

LEMMA DiskStep == BaseInv /\ DiskInv /\ [Next]_vars => DiskInv'
<1>1. Fits' <=> Fits
  BY DEF Fits
<1>2. QED
  BY <1>1, EndStep, VolStep, SizeStep DEF DiskInv

LEMMA DiskInvariant == Spec => [](BaseInv /\ DiskInv)
BY DiskInit, DiskStep, BaseInvariant, PTL DEF Spec

\* In every behaviour the volumes are numbered from 0, all but the last are
\* complete, "last" is written when everything is, and none is over the split
\* size by more than its footer.
THEOREM VolumesCorrect == Spec => []VolumesSound
<1>1. BaseInv /\ DiskInv => VolumesSound
  <2> SUFFICES ASSUME BaseInv, DiskInv PROVE VolumesSound
    OBVIOUS
  <2>1. ASSUME NEW i \in DOMAIN vols
        PROVE  /\ vols[i].num = i - 1
               /\ i < Len(vols) => vols[i].head /\ vols[i].foot = "more" /\ ~vols[i].torn
    BY DEF DiskInv, VolInv
  <2>2. ASSUME NEW i \in DOMAIN vols, vols[i].foot = "last"
        PROVE  list = <<>> /\ endofqueue /\ wpc = "exit"
    <3>1. i \in 1 .. Len(vols) /\ Len(vols) \in Nat
      BY LenProperties DEF BaseInv, ATypeOK
    <3>2. i = Len(vols)
      BY <2>1, <2>2, <3>1
    <3>3. Sealed
      BY <2>2, <3>1, <3>2, EmptySeq DEF Sealed
    <3>4. QED
      BY <3>3 DEF DiskInv, EndInv
  <2>3. ASSUME NEW i \in DOMAIN vols,
               SplitSize >= VolMarkSize + HeadSize /\ SplitSize >= VolMarkSize + BlockSize
        PROVE  vols[i].size <= SplitSize + VolMarkSize
    BY <2>3 DEF DiskInv, Fits, SizeInv
  <2>4. QED
    BY <2>1, <2>2, <2>3 DEF VolumesSound
<1>2. QED
  BY <1>1, DiskInvariant, PTL

\* In every behaviour an operation that has ended has joined its threads and
\* closed its file, its queue is empty, and it does not say that it went well when
\* the archive has been removed.
THEOREM EndsCorrect == Spec => []EndsClean
<1>1. BaseInv /\ DiskInv => EndsClean
  <2> SUFFICES ASSUME BaseInv, DiskInv, mpc = "done" PROVE EndsClean
    BY DEF EndsClean
  <2>1. AllJoined /\ ~archfd /\ list = <<>>
    BY DEF DiskInv, EndInv, AllJoined
  <2>2. itemcount = 0 /\ blkcount = 0
    <3>1. Len(list) = 0 /\ BlockNums(list) = {}
      BY <2>1, EmptySeq DEF BlockNums
    <3>2. QED
      BY <3>1, FS_EmptySet DEF BaseInv, QInv, QueueSound
  <2>3. unlinked => ret = -1
    BY DEF DiskInv, EndInv
  <2>4. QED
    BY <2>1, <2>2, <2>3 DEF EndsClean
<1>2. QED
  BY <1>1, DiskInvariant, PTL

\* A main thread that comes to the clean-up while the stop or abort flag is set has
\* the result -1.  When the threads have been joined, a result that is not 0 leaves
\* nothing of the archive, and a result of 0 leaves all of it, every volume complete, unless
\* the writer has failed since the main thread looked.  The invariant is what
\* makes the second so: a writer that has ended without the stop flag has written
\* the last footer and torn nothing, and one that was never created has made the
\* result -1.
THEOREM LeavesWholeOrNone == Spec => WholeOrNone
<1>1. ASSUME DiskInv, MJoin
      PROVE  IF ret = 0 THEN Whole' \/ stop ELSE unlinked' \/ vols' = <<>>
  <2>1. AllJoined /\ wpc \in {"none", "exit"} /\ mpc = "join"
    BY <1>1 DEF MJoin, MGoto, AllJoined
  <2>2. CASE ret # 0
    BY <1>1, <2>2 DEF MJoin, archwriter_remove
  <2>3. CASE ret = 0 /\ ~stop
    <3>1. wpc = "exit"
      BY <1>1, <2>1, <2>3 DEF DiskInv, EndInv
    <3>2. Whole
      BY <1>1, <2>1, <2>3, <3>1 DEF DiskInv, EndInv, VolInv, Broken, Sealed, Whole
    <3>3. Whole'
      BY <1>1, <2>3, <3>2 DEF MJoin, avars, Whole
    <3>4. QED
      BY <2>3, <3>3
  <2>4. QED
    BY <2>2, <2>3
<1>2. ASSUME DiskInv, [Next]_vars, mpc = "join", mpc' = "done"
      PROVE  MJoin
  <2>1. MainStep
    BY <1>2 DEF Next, CompStep, CTake, CReplace, CFail, CExit, WriterStep, WCreate,
       WCreateFails, WVolHeader, WDequeue, WSplit, WWriteRecord, WLastFooter, WWriteFails,
       WError, WDrain, WElsewhere, Signal, Done, mvars, vars
  <2>2. QED
    BY <1>2, <2>1, MainArchive DEF MStart, MGoto, MFail
<1>3. ASSUME [Next]_vars, mpc # "cleanup", mpc' = "cleanup", interrupted
      PROVE  ret' = -1
  <2>1. MainStep
    BY <1>3 DEF Next, CompStep, CTake, CReplace, CFail, CExit, WriterStep, WCreate,
       WCreateFails, WVolHeader, WDequeue, WSplit, WWriteRecord, WLastFooter, WWriteFails,
       WError, WDrain, WElsewhere, Signal, Done, mvars, vars
  <2>2. CASE MStart
    BY <1>3, <2>2 DEF MStart, MGoto, MFail
  <2>3. CASE ~MStart
    BY <1>3, <2>1, <2>3, MainArchive DEF MJoin, MGoto
  <2>4. QED
    BY <2>2, <2>3
<1>4. DiskInv /\ [Next]_vars =>
        [/\ mpc # "cleanup" /\ mpc' = "cleanup" /\ interrupted => ret' = -1
         /\ mpc = "join" /\ mpc' = "done" =>
              IF ret = 0 THEN Whole' \/ stop ELSE unlinked' \/ vols' = <<>>]_vars
  BY <1>1, <1>2, <1>3
<1>5. QED
  BY <1>4, DiskInvariant, PTL DEF Spec, WholeOrNone

-----------------------------------------------------------------------------
(***************************************************************************)
(* The stream.  Under the refinement mapping of SavePipeline every step is *)
(* a step of the stream of ArchiveStream or changes nothing of it.         *)
(***************************************************************************)
\* The parts of the mapping.
Held == IF WriterHolds THEN <<Unpack(witem)>> ELSE <<>>

Queued(q) == [i \in DOMAIN q |-> Unpack(q[i].val)]

Written(d) == [p \in DOMAIN d |-> Unpack(d[p])]

-----------------------------------------------------------------------------
\* Facts about sequences.
LEMMA AppendBehind ==
  ASSUME NEW S, NEW h \in Seq(S), NEW s \in Seq(S), NEW x \in S
  PROVE  h \o Append(s, x) = Append(h \o s, x)
<1>1. <<x>> \in Seq(S) /\ h \o s \in Seq(S)
  BY ConcatProperties
<1>2. Append(s, x) = s \o <<x>> /\ Append(h \o s, x) = (h \o s) \o <<x>>
  BY <1>1, AppendIsConcat
<1>3. QED
  BY <1>1, <1>2, ConcatAssociative

LEMMA FirstAndRest ==
  ASSUME NEW S, NEW x \in S, NEW s \in Seq(S)
  PROVE  /\ <<x>> \o s \in Seq(S) /\ <<x>> \o s # <<>>
         /\ Head(<<x>> \o s) = x
         /\ Tail(<<x>> \o s) = s
<1> DEFINE q == <<x>> \o s
<1>1. <<x>> \in Seq(S) /\ Len(<<x>>) = 1 /\ <<x>>[1] = x
  OBVIOUS
<1>2. /\ q \in Seq(S) /\ Len(q) = 1 + Len(s) /\ Len(s) \in Nat
      /\ \A i \in 1 .. 1 + Len(s) : q[i] = IF i <= 1 THEN <<x>>[i] ELSE s[i - 1]
  BY <1>1, ConcatProperties, LenProperties
<1> HIDE DEF q
<1>3. q # <<>>
  BY <1>2, EmptySeq
<1>4. q[1] = x
  BY <1>1, <1>2
<1>5. Head(q) = x
  BY <1>2, <1>3, <1>4
<1>6. /\ Tail(q) \in Seq(S) /\ Len(Tail(q)) = Len(s)
      /\ \A i \in 1 .. Len(Tail(q)) : Tail(q)[i] = q[i + 1]
  BY <1>2, <1>3, HeadTailProperties
<1>7. \A i \in 1 .. Len(Tail(q)) : Tail(q)[i] = s[i]
  BY <1>2, <1>6
<1>8. Tail(q) = s
  BY <1>6, <1>7, SeqEqual
<1>9. QED
  BY <1>2, <1>3, <1>5, <1>8 DEF q

LEMMA HeadAndTail ==
  ASSUME NEW S, NEW s \in Seq(S), s # <<>>
  PROVE  s = <<Head(s)>> \o Tail(s)
<1>1. /\ Head(s) \in S /\ Tail(s) \in Seq(S) /\ Len(Tail(s)) = Len(s) - 1
      /\ \A i \in 1 .. Len(Tail(s)) : Tail(s)[i] = s[i + 1]
      /\ Len(s) \in Nat \ {0} /\ Head(s) = s[1]
  BY HeadTailProperties, LenProperties, EmptySeq
<1> DEFINE q == <<Head(s)>> \o Tail(s)
<1>2. <<Head(s)>> \in Seq(S) /\ Len(<<Head(s)>>) = 1 /\ <<Head(s)>>[1] = Head(s)
  BY <1>1
<1>3. /\ q \in Seq(S) /\ Len(q) = 1 + Len(Tail(s))
      /\ \A i \in 1 .. 1 + Len(Tail(s)) :
           q[i] = IF i <= 1 THEN <<Head(s)>>[i] ELSE Tail(s)[i - 1]
  BY <1>1, <1>2, ConcatProperties
<1> HIDE DEF q
<1>4. \A i \in 1 .. Len(q) : q[i] = s[i]
  <2> SUFFICES ASSUME NEW i \in 1 .. Len(q) PROVE q[i] = s[i]
    OBVIOUS
  <2>1. CASE i = 1
    BY <1>1, <1>2, <1>3, <2>1
  <2>2. CASE i > 1
    <3>1. i - 1 \in 1 .. Len(Tail(s)) /\ (i - 1) + 1 = i
      BY <1>1, <1>3, <2>2
    <3>2. Tail(s)[i - 1] = s[i]
      BY <1>1, <3>1
    <3>3. QED
      BY <1>1, <1>3, <2>2, <3>2
  <2>3. QED
    BY <1>1, <1>3, <2>1, <2>2
<1>5. q = s
  BY <1>1, <1>3, <1>4, SeqEqual
<1>6. QED
  BY <1>5 DEF q

-----------------------------------------------------------------------------
\* Facts about the mapping.
LEMMA UnpackType ==
  ASSUME NEW v \in Record
  PROVE  /\ Unpack(v) \in Record
         /\ Unpack(Pack(v)) = Unpack(v)
BY DEF Unpack, Pack, Record

LEMMA QueuedType ==
  ASSUME NEW q \in Seq(Item(Record))
  PROVE  /\ Queued(q) \in Seq(Record) /\ Len(Queued(q)) = Len(q)
         /\ \A i \in 1 .. Len(q) : Queued(q)[i] = Unpack(q[i].val)
         /\ DOMAIN q = 1 .. Len(q) /\ Len(q) \in Nat
<1>1. DOMAIN q = 1 .. Len(q) /\ Len(q) \in Nat
  BY LenProperties
<1>2. \A i \in DOMAIN q : Unpack(q[i].val) \in Record
  BY ItemAt, UnpackType DEF Item
<1>3. Queued(q) = [i \in DOMAIN q |-> Queued(q)[i]] /\ \A i \in DOMAIN q : Queued(q)[i] \in Record
  BY <1>2 DEF Queued
<1>4. Queued(q) \in Seq(Record) /\ Len(Queued(q)) = Len(q)
  BY <1>3, SeqOfFcn
<1>5. QED
  BY <1>1, <1>4 DEF Queued

LEMMA QueuedAppend ==
  ASSUME NEW q \in Seq(Item(Record)), NEW e \in Item(Record)
  PROVE  /\ Queued(Append(q, e)) = Append(Queued(q), Unpack(e.val))
         /\ Unpack(e.val) \in Record
<1>1. Unpack(e.val) \in Record
  BY UnpackType DEF Item
<1> DEFINE a == Append(q, e)
           b == Append(Queued(q), Unpack(e.val))
<1>2. /\ a \in Seq(Item(Record)) /\ Len(a) = Len(q) + 1
      /\ \A i \in 1 .. Len(q) : a[i] = q[i]
      /\ a[Len(q) + 1] = e
  BY AppendProperties
<1>3. /\ b \in Seq(Record) /\ Len(b) = Len(q) + 1
      /\ \A i \in 1 .. Len(q) : b[i] = Queued(q)[i]
      /\ b[Len(q) + 1] = Unpack(e.val)
  BY <1>1, QueuedType, AppendProperties
<1> HIDE DEF a, b
<1>4. \A i \in 1 .. Len(a) : Queued(a)[i] = b[i]
  <2> SUFFICES ASSUME NEW i \in 1 .. Len(a) PROVE Queued(a)[i] = b[i]
    OBVIOUS
  <2>1. Queued(a)[i] = Unpack(a[i].val)
    BY <1>2, QueuedType
  <2>2. i \in 1 .. Len(q) \/ i = Len(q) + 1
    BY <1>2, QueuedType
  <2>3. QED
    BY <1>2, <1>3, <2>1, <2>2, QueuedType
<1>5. Queued(a) = b
  BY <1>2, <1>3, <1>4, QueuedType, SeqEqual
<1>6. QED
  BY <1>1, <1>5 DEF a, b

LEMMA QueuedTail ==
  ASSUME NEW q \in Seq(Item(Record)), q # <<>>
  PROVE  /\ Queued(q) # <<>>
         /\ Head(Queued(q)) = Unpack(Head(q).val)
         /\ Tail(Queued(q)) = Queued(Tail(q))
         /\ Tail(q) \in Seq(Item(Record))
<1>1. /\ Tail(q) \in Seq(Item(Record)) /\ Len(Tail(q)) = Len(q) - 1
      /\ \A i \in 1 .. Len(Tail(q)) : Tail(q)[i] = q[i + 1]
      /\ Len(q) \in Nat \ {0} /\ Head(q) = q[1]
  BY HeadTailProperties, EmptySeq
<1> DEFINE u == Queued(q)
<1>2. /\ u \in Seq(Record) /\ Len(u) = Len(q)
      /\ \A i \in 1 .. Len(q) : u[i] = Unpack(q[i].val)
  BY QueuedType
<1> HIDE DEF u
<1>3. u # <<>>
  BY <1>1, <1>2, EmptySeq
<1>4. Head(u) = Unpack(Head(q).val)
  BY <1>1, <1>2, <1>3
<1>5. /\ Tail(u) \in Seq(Record) /\ Len(Tail(u)) = Len(u) - 1
      /\ \A i \in 1 .. Len(Tail(u)) : Tail(u)[i] = u[i + 1]
  BY <1>2, <1>3, HeadTailProperties
<1>6. \A i \in 1 .. Len(Tail(u)) : Tail(u)[i] = Queued(Tail(q))[i]
  <2> SUFFICES ASSUME NEW i \in 1 .. Len(Tail(u)) PROVE Tail(u)[i] = Queued(Tail(q))[i]
    OBVIOUS
  <2>1. i \in 1 .. Len(Tail(q)) /\ i + 1 \in 1 .. Len(q)
    BY <1>1, <1>2, <1>5
  <2>2. Queued(Tail(q))[i] = Unpack(Tail(q)[i].val)
    BY <1>1, <2>1, QueuedType
  <2>3. QED
    BY <1>1, <1>2, <1>5, <2>1, <2>2
<1>7. Tail(u) = Queued(Tail(q))
  <2>1. Queued(Tail(q)) \in Seq(Record) /\ Len(Queued(Tail(q))) = Len(q) - 1
    BY <1>1, QueuedType
  <2>2. Len(Tail(u)) = Len(q) - 1
    BY <1>2, <1>5
  <2>3. QED
    BY <1>5, <1>6, <2>1, <2>2, SeqEqual
<1>8. QED
  BY <1>1, <1>3, <1>4, <1>7 DEF u

LEMMA WrittenType ==
  ASSUME NEW s \in Seq(Record)
  PROVE  /\ Written(s) \in Seq(Record) /\ Len(Written(s)) = Len(s)
         /\ \A i \in 1 .. Len(s) : Written(s)[i] = Unpack(s[i])
         /\ Len(s) \in Nat
<1>1. DOMAIN s = 1 .. Len(s) /\ Len(s) \in Nat
  BY LenProperties
<1>2. \A i \in DOMAIN s : Unpack(s[i]) \in Record
  BY <1>1, ElementOfSeq, UnpackType
<1>3. Written(s) = [i \in DOMAIN s |-> Written(s)[i]] /\ \A i \in DOMAIN s : Written(s)[i] \in Record
  BY <1>2 DEF Written
<1>4. Written(s) \in Seq(Record) /\ Len(Written(s)) = Len(s)
  BY <1>3, SeqOfFcn
<1>5. QED
  BY <1>1, <1>4 DEF Written

LEMMA WrittenAppend ==
  ASSUME NEW d \in Seq(Record), NEW r \in Record
  PROVE  Written(Append(d, r)) = Append(Written(d), Unpack(r))
<1> DEFINE a == Append(d, r)
           b == Append(Written(d), Unpack(r))
<1>1. /\ a \in Seq(Record) /\ Len(a) = Len(d) + 1
      /\ \A i \in 1 .. Len(d) : a[i] = d[i]
      /\ a[Len(d) + 1] = r
  BY AppendProperties
<1>2. /\ b \in Seq(Record) /\ Len(b) = Len(d) + 1
      /\ \A i \in 1 .. Len(d) : b[i] = Written(d)[i]
      /\ b[Len(d) + 1] = Unpack(r)
  BY WrittenType, UnpackType, AppendProperties
<1> HIDE DEF a, b
<1>3. \A i \in 1 .. Len(a) : Written(a)[i] = b[i]
  <2> SUFFICES ASSUME NEW i \in 1 .. Len(a) PROVE Written(a)[i] = b[i]
    OBVIOUS
  <2>1. Written(a)[i] = Unpack(a[i])
    BY WrittenType, <1>1
  <2>2. i \in 1 .. Len(d) \/ i = Len(d) + 1
    BY WrittenType, <1>1
  <2>3. QED
    BY WrittenType, <1>1, <1>2, <2>1, <2>2
<1>4. Written(a) = b
  BY WrittenType, <1>1, <1>2, <1>3, SeqEqual
<1>5. QED
  BY <1>4 DEF a, b

-----------------------------------------------------------------------------
\* What is pending, before and after a step.
LEMMA Mapping ==
  /\ InFlight = Held \o Queued(list)
  /\ InFlight' = Held' \o Queued(list)'
BY DEF InFlight, Held, Queued

LEMMA HeldType ==
  ASSUME BaseInv
  PROVE  /\ Unpack(witem) \in Record /\ Held \in Seq(Record)
         /\ list \in Seq(Item(Record)) /\ Queued(list) \in Seq(Record)
         /\ InFlight \in Seq(Record) /\ data \in Seq(Record)
<1>1. Unpack(witem) \in Record
  BY UnpackType DEF BaseInv, WriterTypeOK
<1>2. <<Unpack(witem)>> \in Seq(Record) /\ <<>> \in Seq(Record)
  BY <1>1, EmptySeq
<1>3. Held \in Seq(Record)
  BY <1>2 DEF Held
<1>4. list \in Seq(Item(Record)) /\ data \in Seq(Record)
  BY DEF BaseInv, QInv, QTypeOK, ATypeOK
<1>5. Queued(list) \in Seq(Record)
  BY <1>4, QueuedType
<1>6. QED
  BY <1>1, <1>3, <1>4, <1>5, Mapping, ConcatProperties

\* A step that leaves what is pending, the archive's records and the three
\* conditions alone changes nothing of the stream; so does one that leaves the
\* writer's record and the unprocessed form of the queue alone.
LEMMA StutterInFlight ==
  ASSUME InFlight' = InFlight, UNCHANGED <<data, endofqueue>>,
         Broken' <=> Broken, Sealed' <=> Sealed
  PROVE  UNCHANGED Stream!streamVars
<1>1. Written(data)' = Written(data)
  BY DEF Written
<1>2. (Broken' = Broken) /\ (Sealed' = Sealed)
  BY DEF Broken, Sealed
<1>3. QED
  BY <1>1, <1>2 DEF Written, Broken, Sealed, Stream!streamVars

LEMMA Stutter ==
  ASSUME Held' = Held, Queued(list)' = Queued(list), UNCHANGED <<data, endofqueue>>,
         Broken' <=> Broken, Sealed' <=> Sealed
  PROVE  UNCHANGED Stream!streamVars
<1>1. InFlight' = InFlight
  BY Mapping
<1>2. QED
  BY <1>1, StutterInFlight

\* The steps of the stream in the names of this module.
Unmarked == (Broken' <=> Broken) /\ (Sealed' <=> Sealed)

LEMMA PutStep ==
  ASSUME Unmarked, ~endofqueue, UNCHANGED <<data, endofqueue>>,
         InFlight \in Seq(Record), NEW x \in Record, InFlight' = Append(InFlight, x)
  PROVE  Stream!Put
<1>1. Len(InFlight') = Len(InFlight) + 1 /\ InFlight'[Len(InFlight')] = x
  BY AppendProperties
<1>2. QED
  BY <1>1 DEF Stream!Put, Broken, Sealed, Unmarked

LEMMA StoreStep ==
  ASSUME Unmarked, ~Broken, UNCHANGED endofqueue, InFlight # <<>>,
         InFlight' = Tail(InFlight),
         Written(data)' = Append(Written(data), Head(InFlight))
  PROVE  Stream!Store
BY DEF Stream!Store, Broken, Sealed, Unmarked, Written

LEMMA DiscardStep ==
  ASSUME Unmarked, Broken, UNCHANGED <<data, endofqueue>>, InFlight # <<>>,
         InFlight' = Tail(InFlight)
  PROVE  Stream!Discard
BY DEF Stream!Discard, Broken, Sealed, Unmarked

LEMMA EndOfStream ==
  ASSUME Unmarked, endofqueue', InFlight' = InFlight, UNCHANGED data
  PROVE  Stream!End
BY DEF Stream!End, Broken, Sealed, Unmarked

LEMMA BreakStep ==
  ASSUME ~Sealed, ~Sealed', Broken', UNCHANGED <<data, endofqueue>>,
         \/ InFlight' = InFlight
         \/ InFlight # <<>> /\ InFlight' = Tail(InFlight)
  PROVE  Stream!Break
BY DEF Stream!Break, Broken, Sealed

LEMMA SealStep ==
  ASSUME endofqueue, ~Broken, ~Broken', InFlight = <<>>, InFlight' = <<>>, Sealed',
         UNCHANGED <<data, endofqueue>>
  PROVE  Stream!Seal
BY DEF Stream!Seal, Broken, Sealed

-----------------------------------------------------------------------------
\* The main thread puts records in, or ends the stream.
LEMMA MainStreamStep ==
  ASSUME BaseInv, EndInv, MainStep
  PROVE  Stream!StreamNext \/ UNCHANGED Stream!streamVars
<1>1. /\ UNCHANGED <<data, vols, stop, witem>>
      /\ wpc' = wpc \/ (wpc = "none" /\ wpc' \in {"none", "create"})
  <2>1. UNCHANGED <<data, vols, witem>>
    BY MainOthers
  <2>2. UNCHANGED stop /\ (MStart \/ wpc' = wpc)
    BY MainArchive DEF wvars
  <2>3. MStart => wpc = "none" /\ wpc' \in {"none", "create"}
    BY DEF MStart, MGoto, MFail, EndInv
  <2>4. QED
    BY <2>1, <2>2, <2>3
<1>2. Unmarked /\ Held' = Held
  BY <1>1 DEF Unmarked, Broken, Sealed, Held, WriterHolds
<1>3. ASSUME NEW v \in Record, ~endofqueue, NEW t \in {"block", "header"},
             NEW st \in {"todo", "done"}, AppendItem(t, st, v)
      PROVE  Stream!Put
  <2> DEFINE e == [num |-> curitemnum, type |-> t, status |-> st, val |-> v]
  <2>1. e \in Item(Record) /\ e.val = v
    BY DEF Item, BaseInv, QInv, QTypeOK
  <2>2. list' = Append(list, e) /\ endofqueue' = endofqueue
    BY <1>3 DEF AppendItem
  <2> HIDE DEF e
  <2>3. /\ Queued(list)' = Append(Queued(list), Unpack(v))
        /\ Unpack(v) \in Record
    <3>1. Queued(list)' = Queued(list')
      BY DEF Queued
    <3>2. QED
      BY <2>1, <2>2, <3>1, HeldType, QueuedAppend
  <2>4. InFlight' = Append(InFlight, Unpack(v))
    BY <1>2, <2>3, HeldType, Mapping, AppendBehind
  <2>5. QED
    BY <1>1, <1>2, <1>3, <2>2, <2>3, <2>4, HeldType, PutStep
<1>4. CASE UNCHANGED qvars
  <2>1. Queued(list)' = Queued(list) /\ endofqueue' = endofqueue
    BY <1>4 DEF Queued, qvars
  <2>2. QED
    BY <1>1, <1>2, <2>1, Stutter DEF Unmarked
<1>5. CASE queue_set_end_of_queue(TRUE)
  <2>1. endofqueue' /\ Queued(list)' = Queued(list)
    BY <1>5 DEF Queued, queue_set_end_of_queue
  <2>2. InFlight' = InFlight
    BY <1>2, <2>1, Mapping
  <2>3. QED
    BY <1>1, <1>2, <2>1, <2>2, EndOfStream DEF Stream!StreamNext
<1>6. ASSUME NEW v \in Record, queue_add_header(v) \/ queue_add_block(v, "todo")
      PROVE  Stream!Put
  BY <1>3, <1>6 DEF queue_add_header, queue_add_block
<1>7. QED
  BY <1>4, <1>5, <1>6, MainQueueSteps DEF MainQueueStep, Stream!StreamNext

\* What the compression threads do is not seen: the block that is put back is the
\* one that was taken, processed.
LEMMA CompStreamStep ==
  ASSUME BaseInv, WorkOwned, NEW t \in CompThreads, CompStep(t)
  PROVE  UNCHANGED Stream!streamVars
<1>1. /\ UNCHANGED <<data, vols, stop, wpc, witem>> /\ endofqueue' = endofqueue
  BY DEF CompStep, CTake, CReplace, CFail, CExit, queue_get_first_block_todo,
         queue_replace_block, qvars, avars, wvars
<1>2. /\ Broken' <=> Broken
      /\ Sealed' <=> Sealed
      /\ Held' = Held
  BY <1>1 DEF Broken, Sealed, Held, WriterHolds
<1>3. list \in Seq(Item(Record))
  BY HeldType
<1>4. ASSUME DOMAIN list' = DOMAIN list,
             \A i \in DOMAIN list : Unpack(list'[i].val) = Unpack(list[i].val)
      PROVE  Queued(list)' = Queued(list)
  BY <1>4 DEF Queued
<1>5. CASE CTake(t)
  <2>1. PICK k \in DOMAIN list : queue_get_first_block_todo(k)
    BY <1>5 DEF CTake
  <2>2. /\ DOMAIN list' = DOMAIN list
        /\ \A i \in DOMAIN list : i # k => list'[i] = list[i]
        /\ list'[k] = [list[k] EXCEPT !.status = "progress"]
        /\ list[k] \in Item(Record)
    BY <1>3, <2>1, ItemAt DEF queue_get_first_block_todo
  <2>3. list'[k].val = list[k].val
    BY <2>2 DEF Item
  <2>4. QED
    BY <1>1, <1>2, <1>4, <2>2, <2>3, Stutter
<1>6. CASE CReplace(t)
  <2> DEFINE v == Pack(cwork[t].val)
             n == cwork[t].num
  <2>1. /\ DOMAIN list' = DOMAIN list
        /\ \A i \in DOMAIN list :
             list'[i] = IF list[i].num = n
                          THEN [list[i] EXCEPT !.status = "done", !.val = v]
                          ELSE list[i]
    BY <1>6 DEF CReplace, queue_replace_block
  <2>2. PICK k \in DOMAIN list : list[k].num = n /\ list[k].val = cwork[t].val
    BY <1>6 DEF CReplace, WorkOwned
  <2>3. cwork[t].val \in Record
    BY DEF BaseInv, CompTypeOK
  <2>4. Unpack(v) = Unpack(cwork[t].val)
    BY <2>3, UnpackType
  <2> HIDE DEF v, n
  <2>5. ASSUME NEW i \in DOMAIN list
        PROVE  Unpack(list'[i].val) = Unpack(list[i].val)
    <3>1. CASE list[i].num = n
      <4>1. i = k
        <5>1. i \in Nat /\ k \in Nat
          BY <1>3, ItemAt
        <5>2. list[i].num \in Nat /\ list[k].num \in Nat
          BY <1>3, ItemAt
        <5>3. i < k => list[i].num < list[k].num
          BY DEF BaseInv, QInv, QueueSound
        <5>4. k < i => list[k].num < list[i].num
          BY DEF BaseInv, QInv, QueueSound
        <5>5. QED
          BY <2>2, <3>1, <5>1, <5>2, <5>3, <5>4
      <4>2. list[k] \in Item(Record)
        BY <1>3, ItemAt
      <4>3. list'[k].val = v
        BY <2>1, <2>2, <4>2 DEF Item
      <4>4. QED
        BY <2>2, <2>4, <4>1, <4>3
    <3>2. CASE list[i].num # n
      BY <2>1, <3>2
    <3>3. QED
      BY <3>1, <3>2
  <2>6. QED
    BY <1>1, <1>2, <1>4, <2>1, <2>5, Stutter
<1>7. CASE CFail(t) \/ CExit(t)
  <2>1. Queued(list)' = Queued(list)
    BY <1>7 DEF CFail, CExit, qvars, Queued
  <2>2. QED
    BY <1>1, <1>2, <2>1, Stutter
<1>8. QED
  BY <1>5, <1>6, <1>7 DEF CompStep

\* The writer stores what is first, loses it when it fails, discards the rest, or
\* seals the archive.
Taken ==
  Stream!Store \/ Stream!Discard \/ Stream!Break \/ Stream!Seal \/ UNCHANGED Stream!streamVars

LEMMA WriterStreamStep ==
  ASSUME BaseInv, EndInv, EndInv', WriterStep
  PROVE  Taken
<1>1. /\ list \in Seq(Item(Record)) /\ Queued(list) \in Seq(Record)
      /\ Unpack(witem) \in Record /\ data \in Seq(Record) /\ witem \in Record
  BY HeldType DEF BaseInv, WriterTypeOK
<1>2. /\ wpc # "exit" /\ ~Sealed /\ mpc' = mpc
      /\ stop => wpc = "drain"
  BY DEF EndInv, WriterStep, WCreate, WCreateFails, WVolHeader, WDequeue, WSplit,
         WWriteRecord, WLastFooter, WWriteFails, WError, WDrain, WElsewhere, WGoto, mvars
<1>3. /\ WriterHolds => InFlight = <<Unpack(witem)>> \o Queued(list)
      /\ ~WriterHolds => InFlight = Queued(list)
  BY <1>1, Mapping, ConcatEmptySeq DEF Held
<1>4. /\ WriterHolds' => InFlight' = <<Unpack(witem')>> \o Queued(list')
      /\ ~WriterHolds' /\ Queued(list') \in Seq(Record) => InFlight' = Queued(list')
  <2>1. Queued(list)' = Queued(list')
    BY DEF Queued
  <2>2. WriterHolds' => Held' = <<Unpack(witem')>>
    BY DEF Held, Unpack
  <2>3. ~WriterHolds' => Held' = <<>>
    BY DEF Held
  <2>4. QED
    BY <2>1, <2>2, <2>3, Mapping, ConcatEmptySeq
\* A record that the writer held and holds no longer was the first that was pending.
<1>5. ASSUME WriterHolds, ~WriterHolds', list' = list
      PROVE  /\ InFlight # <<>> /\ Head(InFlight) = Unpack(witem)
             /\ InFlight' = Tail(InFlight)
  BY <1>1, <1>3, <1>4, <1>5, FirstAndRest
<1>6. ASSUME WriterHolds' <=> WriterHolds, WriterHolds => witem' = witem, list' = list
      PROVE  InFlight' = InFlight
  BY <1>1, <1>3, <1>4, <1>6
<1>7. ASSUME Broken' <=> Broken, ~Sealed', InFlight' = InFlight,
             UNCHANGED <<data, endofqueue>>
      PROVE  Taken
  BY <1>2, <1>7, StutterInFlight DEF Taken
<1>8. CASE WCreate \/ WVolHeader \/ WSplit
  <2>1. /\ \/ wpc = "create" /\ wpc' = "volhead"
           \/ wpc = "newvol" /\ wpc' = "newhead"
           \/ wpc = "volhead" /\ wpc' = "loop"
           \/ wpc = "newhead" /\ wpc' = "record"
           \/ wpc = "item" /\ wpc' \in {"newvol", "record"}
        /\ UNCHANGED <<data, qvars, witem, stop>>
    BY <1>8 DEF WCreate, WVolHeader, WSplit, WGoto, WElsewhere, archwriter_create,
                archwriter_write_volheader, archwriter_write_volfooter, avars
  <2>2. Broken' <=> Broken
    BY <2>1 DEF Broken
  <2>3. ~Sealed'
    BY <2>1 DEF EndInv
  <2>4. InFlight' = InFlight
    BY <1>6, <2>1 DEF WriterHolds, qvars
  <2>5. QED
    BY <1>7, <2>1, <2>2, <2>3, <2>4 DEF qvars
<1>9. CASE WCreateFails \/ WWriteFails
  <2>1. /\ wpc \in {"create", "newvol", "volhead", "newhead", "record", "item", "loop"}
        /\ wpc' = "error" /\ UNCHANGED <<data, qvars>>
    BY <1>9 DEF WCreateFails, WWriteFails, WGoto, archwriter_create_fails, WriteFails
  <2>2. Broken' /\ ~Sealed' /\ ~WriterHolds'
    BY <2>1 DEF Broken, EndInv, WriterHolds
  <2>3. \/ InFlight' = InFlight
        \/ InFlight # <<>> /\ InFlight' = Tail(InFlight)
    <3>1. CASE WriterHolds
      BY <1>5, <2>1, <2>2, <3>1 DEF qvars
    <3>2. CASE ~WriterHolds
      BY <1>6, <2>1, <2>2, <3>2 DEF qvars
    <3>3. QED
      BY <3>1, <3>2
  <2>4. Stream!Break
    BY <1>2, <2>1, <2>2, <2>3, BreakStep DEF qvars
  <2>5. QED
    BY <2>4 DEF Taken
<1>10. CASE WDequeue
  <2>1. /\ wpc = "loop" /\ wpc' = "item" /\ UNCHANGED <<data, stop>>
        /\ list # <<>> /\ list' = Tail(list) /\ witem' = Head(list).val
        /\ endofqueue' = endofqueue
    BY <1>10 DEF WDequeue, WGoto, WElsewhere, avars, queue_dequeue_first, HeadIs, RemoveHead
  <2>2. /\ Queued(list) # <<>> /\ Head(Queued(list)) = Unpack(witem')
        /\ Tail(Queued(list)) = Queued(list')
    BY <1>1, <2>1, QueuedTail
  <2>3. InFlight = Queued(list) /\ InFlight' = <<Unpack(witem')>> \o Queued(list')
    BY <1>3, <1>4, <2>1 DEF WriterHolds
  <2>4. InFlight' = InFlight
    BY <1>1, <2>2, <2>3, HeadAndTail
  <2>5. (Broken' <=> Broken) /\ ~Sealed'
    BY <2>1 DEF Broken, EndInv
  <2>6. QED
    BY <1>7, <2>1, <2>4, <2>5
<1>11. CASE WWriteRecord
  <2>1. /\ wpc = "record" /\ wpc' = "loop" /\ UNCHANGED <<qvars, stop>>
        /\ data' = Append(data, witem)
    BY <1>11 DEF WWriteRecord, WGoto, WElsewhere, archwriter_write_buffer
  <2>2. ~Broken /\ ~Broken' /\ ~Sealed' /\ WriterHolds /\ ~WriterHolds'
    BY <1>2, <2>1 DEF Broken, EndInv, WriterHolds
  <2>3. /\ InFlight # <<>> /\ Head(InFlight) = Unpack(witem)
        /\ InFlight' = Tail(InFlight)
    BY <1>5, <2>1, <2>2 DEF qvars
  <2>4. Written(data)' = Append(Written(data), Head(InFlight))
    <3>1. Written(data)' = Written(data')
      BY DEF Written
    <3>2. QED
      BY <1>1, <2>1, <2>3, <3>1, WrittenAppend
  <2>5. Stream!Store
    BY <1>2, <2>1, <2>2, <2>3, <2>4, StoreStep DEF Unmarked, qvars
  <2>6. QED
    BY <2>5 DEF Taken
<1>12. CASE WLastFooter
  <2>1. /\ wpc = "loop" /\ wpc' = "exit" /\ UNCHANGED <<qvars, stop, data>>
        /\ queue_get_end_of_queue
    BY <1>12 DEF WLastFooter, WGoto, WElsewhere, archwriter_write_volfooter
  <2>2. list = <<>> /\ endofqueue
    BY <1>1, <2>1, EmptySeq DEF queue_get_end_of_queue, BaseInv, QInv, QTypeOK, QueueSound
  <2>3. ~Broken /\ ~Broken' /\ Sealed' /\ ~WriterHolds /\ ~WriterHolds'
    BY <1>2, <2>1 DEF Broken, EndInv, WriterHolds
  <2>4. Queued(list) = <<>>
    <3>1. Len(Queued(list)) = 0
      BY <1>1, <2>2, QueuedType, EmptySeq
    <3>2. QED
      BY <1>1, <3>1, EmptySeq
  <2>5. InFlight = <<>> /\ InFlight' = <<>>
    <3>1. list' = list
      BY <2>1 DEF qvars
    <3>2. QED
      BY <1>1, <1>3, <1>4, <2>3, <2>4, <3>1
  <2>6. Stream!Seal
    BY <2>1, <2>2, <2>3, <2>5, SealStep DEF qvars
  <2>7. QED
    BY <2>6 DEF Taken
<1>13. CASE WError
  <2>1. wpc = "error" /\ wpc' = "drain" /\ stop' /\ UNCHANGED <<qvars, data, witem>>
    BY <1>13 DEF WError, WGoto, avars
  <2>2. (Broken' <=> Broken) /\ ~Sealed'
    BY <2>1 DEF Broken, EndInv
  <2>3. InFlight' = InFlight
    BY <1>6, <2>1 DEF WriterHolds, qvars
  <2>4. QED
    BY <1>7, <2>1, <2>2, <2>3 DEF qvars
<1>14. CASE WDrain
  <2>1. /\ wpc = "drain" /\ wpc' \in {"drain", "exit"}
        /\ UNCHANGED <<data, vols, stop, witem>>
    BY <1>14 DEF WDrain, WElsewhere
  <2>2. Broken /\ Broken' /\ ~Sealed' /\ ~WriterHolds /\ ~WriterHolds'
    BY <1>2, <2>1 DEF Broken, EndInv, Sealed, WriterHolds
  <2>3. CASE UNCHANGED qvars
    BY <1>6, <1>7, <2>1, <2>2, <2>3 DEF qvars
  <2>4. CASE queue_destroy_first_item
    <3>1. list # <<>> /\ list' = Tail(list) /\ endofqueue' = endofqueue
      BY <2>4 DEF queue_destroy_first_item, HeadIs, RemoveHead
    <3>2. /\ Queued(list) # <<>> /\ Tail(Queued(list)) = Queued(list')
          /\ Queued(list') \in Seq(Record)
      BY <1>1, <3>1, QueuedTail, QueuedType
    <3>3. InFlight # <<>> /\ InFlight' = Tail(InFlight)
      BY <1>3, <1>4, <2>2, <3>2
    <3>4. Stream!Discard
      BY <1>2, <2>1, <2>2, <3>1, <3>3, DiscardStep DEF Unmarked
    <3>5. QED
      BY <3>4 DEF Taken
  <2>5. QED
    BY <1>14, <2>3, <2>4 DEF WDrain
<1>15. QED
  BY <1>8, <1>9, <1>10, <1>11, <1>12, <1>13, <1>14 DEF WriterStep

\* The pipeline implements the stream: records are stored in the order the main
\* thread puts them into the queue, none lost or twice, until the writer fails; and
\* the last footer is written only when all of them are stored.
THEOREM Implements == Spec => StreamImplemented
<1>1. Init => Stream!StreamInit
  <2> SUFFICES ASSUME Init PROVE Stream!StreamInit
    OBVIOUS
  <2>1. /\ list = <<>> /\ data = <<>> /\ vols = <<>> /\ ~endofqueue /\ ~stop
        /\ wpc = "none"
    BY DEF Init, queue_init, archwriter_init
  <2>2. BaseInv
    BY BaseInit
  <2>3. Queued(list) = <<>> /\ Written(data) = <<>>
    BY <2>1 DEF Queued, Written
  <2>4. InFlight = <<>>
    BY <2>1, <2>2, <2>3, HeldType, Mapping, ConcatEmptySeq DEF Held, WriterHolds
  <2>5. QED
    BY <2>1, <2>3, <2>4 DEF Stream!StreamInit, Written, Init, queue_init
<1>2. BaseInv /\ DiskInv /\ DiskInv' /\ WorkOwned /\ [Next]_vars
        => [Stream!StreamNext]_Stream!streamVars
  <2> SUFFICES ASSUME BaseInv, EndInv, EndInv', WorkOwned, [Next]_vars
               PROVE  Stream!StreamNext \/ UNCHANGED Stream!streamVars
    BY DEF DiskInv
  <2>1. CASE Signal \/ UNCHANGED vars
    <3>1. UNCHANGED <<qvars, avars, stop, wvars>>
      BY <2>1 DEF Signal, vars
    <3>2. /\ Held' = Held /\ Queued(list)' = Queued(list)
          /\ Broken' <=> Broken
          /\ Sealed' <=> Sealed
      BY <3>1 DEF qvars, avars, wvars, Held, WriterHolds, Queued, Broken, Sealed
    <3>3. QED
      BY <3>1, <3>2, Stutter DEF qvars, avars
  <2>2. QED
    BY <2>1, MainStreamStep, CompStreamStep, WriterStreamStep
    DEF Next, Done, Taken, Stream!StreamNext
<1>3. QED
  BY <1>1, <1>2, DiskInvariant, WorkCorrect, PTL DEF Spec, StreamImplemented, Stream!StreamSpec

-----------------------------------------------------------------------------
(***************************************************************************)
(* The records of the volumes: each record belongs to one volume, and the  *)
(* volumes follow one another.                                             *)
(***************************************************************************)
FirstInv ==
  /\ vols = <<>> => data = <<>>
  /\ vols # <<>> => vols[1].first = 1
  /\ \A i \in DOMAIN vols : vols[i].first <= Len(data) + 1
  /\ \A i, j \in DOMAIN vols : i < j => vols[i].first <= vols[j].first
  /\ \A n \in DOMAIN data : \E i \in DOMAIN vols :
       vols[i].first <= n /\ (i < Len(vols) => n < vols[i + 1].first)

\* The volumes are the same, and so are their beginnings.
FirstsStay ==
  /\ Len(vols') = Len(vols) /\ DOMAIN vols' = DOMAIN vols
  /\ vols' = <<>> <=> vols = <<>>
  /\ \A i \in DOMAIN vols : vols'[i].first = vols[i].first

LEMMA FirstSame ==
  ASSUME BaseInv, FirstInv, FirstsStay, data' = data
  PROVE  FirstInv'
<1> USE DEF FirstsStay
<1>1. /\ DOMAIN vols = 1 .. Len(vols) /\ Len(vols) \in Nat
      /\ vols # <<>> => 1 \in DOMAIN vols
      /\ \A i \in DOMAIN vols : i < Len(vols) => i + 1 \in DOMAIN vols
  BY LenProperties, EmptySeq DEF BaseInv, ATypeOK
<1>2. QED
  BY <1>1 DEF FirstInv

\* A record more, in the last volume.
LEMMA FirstMore ==
  ASSUME BaseInv, FirstInv, FirstsStay, vols # <<>>, NEW r \in Record, data' = Append(data, r)
  PROVE  FirstInv'
<1> USE DEF FirstsStay
<1>1. /\ DOMAIN vols = 1 .. Len(vols) /\ Len(vols) \in Nat
      /\ 1 \in DOMAIN vols /\ Len(vols) \in DOMAIN vols
      /\ \A i \in DOMAIN vols : i < Len(vols) => i + 1 \in DOMAIN vols
      /\ \A i \in DOMAIN vols : vols[i].first \in Nat
  <2>1. vols \in Seq(Volume)
    BY DEF BaseInv, ATypeOK
  <2>2. \A i \in DOMAIN vols : vols[i] \in Volume
    BY <2>1, ElementOfSeq, LenProperties
  <2>3. QED
    BY <2>1, <2>2, LenProperties, EmptySeq DEF Volume
<1>2. /\ Len(data) \in Nat /\ DOMAIN data = 1 .. Len(data) /\ Len(data') = Len(data) + 1
      /\ DOMAIN data' = 1 .. Len(data) + 1
  <2>1. data \in Seq(Record)
    BY DEF BaseInv, ATypeOK
  <2>2. QED
    BY <2>1, AppendProperties, LenProperties
<1>3. /\ vols'[1].first = 1
      /\ \A i \in DOMAIN vols' : vols'[i].first <= Len(data') + 1
      /\ \A i, j \in DOMAIN vols' : i < j => vols'[i].first <= vols'[j].first
  BY <1>1, <1>2 DEF FirstInv
<1>4. ASSUME NEW n \in DOMAIN data'
      PROVE  \E i \in DOMAIN vols' :
               vols'[i].first <= n /\ (i < Len(vols') => n < vols'[i + 1].first)
  <2>1. CASE n \in DOMAIN data
    BY <1>1, <2>1 DEF FirstInv
  <2>2. CASE n = Len(data) + 1
    BY <1>1, <1>2, <2>2 DEF FirstInv
  <2>3. QED
    BY <1>2, <2>1, <2>2
<1>5. QED
  BY <1>3, <1>4 DEF FirstInv

\* A volume more, which has no record yet.
LEMMA FirstNew ==
  ASSUME BaseInv, FirstInv, NEW k \in Nat, archwriter_create(k)
  PROVE  FirstInv'
<1> DEFINE v == [num |-> k, first |-> Len(data) + 1, size |-> 0, head |-> FALSE,
                 foot |-> "none", torn |-> FALSE]
           L == Len(vols)
<1>1. vols \in Seq(Volume) /\ data \in Seq(Record) /\ Len(data) \in Nat /\ DOMAIN data = 1 .. Len(data)
  BY LenProperties DEF BaseInv, ATypeOK
<1>2. v \in Volume /\ v.first = Len(data) + 1
  BY <1>1 DEF Volume
<1>3. vols' = Append(vols, v) /\ data' = data
  BY DEF archwriter_create
<1> HIDE DEF v
<1>4. /\ DOMAIN vols = 1 .. L /\ L \in Nat
      /\ Len(vols') = L + 1 /\ DOMAIN vols' = 1 .. L + 1
      /\ \A i \in 1 .. L : vols'[i] = vols[i]
      /\ vols'[L + 1] = v
  BY <1>1, <1>2, <1>3, AppendProperties, LenProperties
<1>5. /\ vols' # <<>> /\ (vols = <<>> <=> L = 0) /\ (data = <<>> => Len(data) = 0)
  BY <1>1, <1>4, EmptySeq
<1>6. \A i \in DOMAIN vols : vols[i].first \in Nat
  <2>1. \A i \in DOMAIN vols : vols[i] \in Volume
    BY <1>1, <1>4, ElementOfSeq
  <2>2. QED
    BY <2>1 DEF Volume
<1> HIDE DEF L
<1>7. vols'[1].first = 1
  BY <1>2, <1>4, <1>5 DEF FirstInv
<1>8. \A i \in DOMAIN vols' : vols'[i].first <= Len(data') + 1
  BY <1>1, <1>2, <1>3, <1>4 DEF FirstInv
<1>9. ASSUME NEW i \in DOMAIN vols', NEW j \in DOMAIN vols', i < j
      PROVE  vols'[i].first <= vols'[j].first
  <2>1. i \in DOMAIN vols /\ vols'[i] = vols[i]
    BY <1>4, <1>9
  <2>2. CASE j \in DOMAIN vols
    BY <1>4, <1>9, <2>1, <2>2 DEF FirstInv
  <2>3. CASE j = L + 1
    BY <1>2, <1>4, <2>1, <2>3 DEF FirstInv
  <2>4. QED
    BY <1>4, <2>2, <2>3
<1>10. ASSUME NEW n \in DOMAIN data
       PROVE  \E i \in DOMAIN vols' :
                vols'[i].first <= n /\ (i < Len(vols') => n < vols'[i + 1].first)
  <2>1. PICK i \in DOMAIN vols : vols[i].first <= n /\ (i < Len(vols) => n < vols[i + 1].first)
    BY DEF FirstInv
  <2>2. i \in DOMAIN vols' /\ vols'[i].first <= n
    BY <1>4, <2>1
  <2>3. CASE i < L
    BY <1>4, <2>1, <2>2, <2>3 DEF L
  <2>4. CASE i = L
    BY <1>1, <1>2, <1>4, <2>2, <2>4
  <2>5. QED
    BY <1>4, <2>3, <2>4
<1>11. QED
  BY <1>3, <1>5, <1>7, <1>8, <1>9, <1>10 DEF FirstInv

\* What is written to the last volume leaves the beginnings as they are.
LEMMA LastStays ==
  ASSUME LastChanged, vols # <<>>
  PROVE  FirstsStay
BY DEF LastChanged, Last, FirstsStay

LEMMA FirstInit == Init => FirstInv
BY DEF Init, archwriter_init, FirstInv

LEMMA FirstStep ==
  ASSUME BaseInv, VolInv, FirstInv, [Next]_vars
  PROVE  FirstInv'
<1>1. vols \in Seq(Volume) /\ data \in Seq(Record) /\ curvol \in Nat
      /\ (vols # <<>> => Len(vols) \in DOMAIN vols)
  BY LenProperties, EmptySeq DEF BaseInv, ATypeOK
<1>2. ASSUME UNCHANGED <<vols, data>>
      PROVE  FirstInv'
  <2>1. FirstsStay /\ data' = data
    BY <1>2 DEF FirstsStay
  <2>2. QED
    BY <2>1, FirstSame
<1>3. CASE MainStep
  <2>1. UNCHANGED <<vols, data>>
    BY <1>3, MainOthers
  <2>2. QED
    BY <1>2, <2>1
<1>4. ASSUME NEW t \in CompThreads, CompStep(t)
      PROVE  FirstInv'
  BY <1>2, <1>4 DEF CompStep, CTake, CReplace, CFail, CExit, avars
<1>5. CASE Signal \/ UNCHANGED vars
  BY <1>2, <1>5 DEF Signal, vars, avars
<1>6. CASE WCreate
  <2>1. PICK k \in Nat : archwriter_create(k)
    BY <1>1, <1>6 DEF WCreate
  <2>2. QED
    BY <2>1, FirstNew
<1>7. CASE WCreateFails \/ WDequeue \/ WError \/ WDrain
  BY <1>2, <1>7 DEF WCreateFails, WDequeue, WError, WDrain, archwriter_create_fails, avars
<1>8. ASSUME LastChanged, vols # <<>>, data' = data
      PROVE  FirstInv'
  BY <1>8, LastStays, FirstSame
<1>9. CASE WVolHeader
  <2>1. archwriter_write_volheader /\ vols # <<>> /\ data' = data
    BY <1>9 DEF WVolHeader, WGoto, VolInv, archwriter_write_volheader
  <2>2. QED
    BY <1>1, <1>8, <2>1, HeaderWritten
<1>10. CASE WSplit \/ WLastFooter
  <2>1. CASE UNCHANGED avars
    BY <1>2, <2>1 DEF avars
  <2>2. ASSUME NEW m \in {"more", "last"}, archwriter_write_volfooter(m)
        PROVE  FirstInv'
    <3>1. vols # <<>> /\ data' = data
      BY <1>10, <2>2 DEF WSplit, WLastFooter, WGoto, VolInv, archwriter_write_volfooter
    <3>2. QED
      BY <1>1, <1>8, <2>2, <3>1, FooterWritten
  <2>3. QED
    BY <1>10, <2>1, <2>2 DEF WSplit, WLastFooter
<1>11. CASE WWriteFails
  <2>1. WriteFails /\ vols # <<>> /\ data' = data
    BY <1>11 DEF WWriteFails, VolInv, WriteFails
  <2>2. QED
    BY <1>1, <1>8, <2>1, WriteTorn
<1>12. CASE WWriteRecord
  <2>1. /\ archwriter_write_buffer(witem, SizeOf(witem)) /\ vols # <<>>
        /\ data' = Append(data, witem) /\ witem \in Record
    BY <1>12 DEF WWriteRecord, WGoto, VolInv, archwriter_write_buffer, BaseInv, WriterTypeOK
  <2>2. SizeOf(witem) \in Nat
    BY SaveAssumption DEF SizeOf
  <2>3. LastChanged
    BY <1>1, <2>1, <2>2, BufferWritten
  <2>4. QED
    BY <2>1, <2>3, LastStays, FirstMore
<1>13. QED
  BY <1>3, <1>4, <1>5, <1>6, <1>7, <1>9, <1>10, <1>11, <1>12 DEF Next, WriterStep, Done
=============================================================================
