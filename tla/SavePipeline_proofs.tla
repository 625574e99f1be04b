------------------------ MODULE SavePipeline_proofs ------------------------
(***************************************************************************)
(* Safety of the save operation for any trees, any number of compression   *)
(* threads, any limits and any combination of faults.                      *)
(***************************************************************************)
EXTENDS SavePipeline, CQueue_proofs

\* Where the main thread is in the loop over the trees, and at an entry.
InTree ==
  mpc \in {"fsyb", "walk", "objt", "file", "block", "filf", "enqueue", "putaside",
           "flush", "endtree"}
    => tree \in DOMAIN Trees

InEntry ==
  mpc \in {"objt", "file", "block", "filf", "enqueue", "putaside"}
    => entry \in DOMAIN Trees[tree]

\* The inductive invariant of the types and of the queue.
BaseInv == QInv(Record) /\ ATypeOK(Record) /\ MainTypeOK /\ CompTypeOK /\ WriterTypeOK
           /\ stop \in BOOLEAN /\ abort \in BOOLEAN /\ InTree /\ InEntry

-----------------------------------------------------------------------------
\* The records that the program makes are records.
LEMMA RecType ==
  ASSUME NEW m \in Magic, NEW f \in Nat, NEW o \in Seq(Nat), NEW k \in Nat
  PROVE  /\ Rec(m, f, o, k) \in Record
         /\ Rec(m, f, o, k).magic = m
         /\ ~Rec(m, f, o, k).packed
BY DEF Rec, Record

LEMMA BlankType == Blank \in Record /\ NoWork \in [num : Nat, val : Record]
<1>1. <<>> \in Seq(Nat)
  BY EmptySeq
<1>2. Blank \in Record
  BY <1>1, RecType DEF Blank, Magic
<1>3. QED
  BY <1>2 DEF NoWork

LEMMA PackType ==
  ASSUME NEW v \in Record
  PROVE  Pack(v) \in Record
BY DEF Pack, Record

LEMMA TreesType ==
  ASSUME NEW f \in DOMAIN Trees
  PROVE  /\ f \in Nat \ {0}
         /\ Trees[f] \in Seq(Entry)
         /\ DOMAIN Trees[f] = 1 .. Len(Trees[f])
         /\ \A e \in DOMAIN Trees[f] : Trees[f][e] \in Entry
<1>1. Trees \in Seq(Seq(Entry)) /\ f \in 1 .. Len(Trees)
  BY SaveAssumption, LenProperties
<1>2. Trees[f] \in Seq(Entry)
  BY <1>1, ElementOfSeq
<1>3. \A e \in 1 .. Len(Trees[f]) : Trees[f][e] \in Entry
  BY <1>2, ElementOfSeq
<1>4. QED
  BY <1>1, <1>2, <1>3, LenProperties

\* At an entry of a tree, the entry's size is a number.
LEMMA ThisType ==
  ASSUME tree \in DOMAIN Trees, entry \in DOMAIN Trees[tree]
  PROVE  This \in Entry /\ This.size \in Nat /\ Blocks \in Nat
<1>1. This \in Entry
  BY TreesType DEF This
<1>2. QED
  BY <1>1 DEF Entry, Blocks

-----------------------------------------------------------------------------
\* What a step of the main thread can do to the queue: nothing, set its end, or
\* add a header or a block to do.
MainQueueStep ==
  \/ UNCHANGED qvars
  \/ queue_set_end_of_queue(TRUE)
  \/ \E v \in Record : /\ ~v.packed
                       /\ \/ v.magic # "BLKH" /\ queue_add_header(v)
                          \/ v.magic = "BLKH" /\ queue_add_block(v, "todo")

LEMMA MainQueueSteps ==
  ASSUME BaseInv, MainStep
  PROVE  MainQueueStep
<1> USE DEF BaseInv, MainTypeOK
<1>1. /\ <<>> \in Seq(Nat) /\ 0 \in Nat
      /\ tree \in Nat /\ <<entry>> \in Seq(Nat) /\ pos \in Nat
      /\ Magic = {"MAIN", "FSIN", "DIRS", "FSYB", "OBJT", "BLKH", "FILF", "DATF"}
  BY EmptySeq DEF Magic
<1>2. ASSUME NEW m \in Magic \ {"BLKH"}, NEW f \in Nat, NEW o \in Seq(Nat), NEW k \in Nat,
             queue_add_header(Rec(m, f, o, k))
      PROVE  MainQueueStep
  <2> DEFINE v == Rec(m, f, o, k)
  <2>1. v \in Record /\ v.magic # "BLKH" /\ ~v.packed
    BY RecType
  <2>2. queue_add_header(v)
    BY <1>2
  <2> HIDE DEF v
  <2>3. QED
    BY <2>1, <2>2 DEF MainQueueStep
<1>3. ASSUME NEW f \in Nat, NEW o \in Seq(Nat), NEW k \in Nat,
             queue_add_block(Rec("BLKH", f, o, k), "todo")
      PROVE  MainQueueStep
  <2> DEFINE v == Rec("BLKH", f, o, k)
  <2>1. v \in Record /\ v.magic = "BLKH" /\ ~v.packed
    BY <1>1, RecType
  <2>2. queue_add_block(v, "todo")
    BY <1>3
  <2> HIDE DEF v
  <2>3. QED
    BY <2>1, <2>2 DEF MainQueueStep
<1>4. CASE MEnqueueHeader
  <2>1. pos + 1 \in 1 .. Len(multi)
    BY <1>4, LenProperties DEF MEnqueueHeader
  <2>2. multi[pos + 1] \in Nat /\ <<multi[pos + 1]>> \in Seq(Nat)
    <3>1. \A x \in Nat : <<x>> \in Seq(Nat)
      OBVIOUS
    <3>2. QED
      BY <2>1, <3>1, ElementOfSeq
  <2>3. queue_add_header(Rec("OBJT", tree, <<multi[pos + 1]>>, Len(multi)))
    BY <1>4 DEF MEnqueueHeader
  <2>4. Len(multi) \in Nat
    BY LenProperties
  <2>5. QED
    BY <1>1, <1>2, <2>2, <2>3, <2>4
<1>5. CASE MEnqueueBlock
  BY <1>1, <1>3, <1>5 DEF MEnqueueBlock, MainQueueStep
<1>6. CASE MAddBlock
  BY <1>1, <1>3, <1>6 DEF MAddBlock
<1>7. CASE MAnalyse
  BY <1>1, <1>2, <1>7 DEF MAnalyse, MainQueueStep
<1>8. CASE MWriteMainHead \/ MBeginFS \/ MAddObject \/ MAddFooter \/ MEndFS \/ MEndDirs
  BY <1>1, <1>2, <1>8
  DEF MWriteMainHead, MBeginFS, MAddObject, MAddFooter, MEndFS, MEndDirs
<1>9. CASE MSetEndOfQueue
  BY <1>9 DEF MSetEndOfQueue, MainQueueStep
<1>10. CASE \/ MStart \/ MAnalyseFails \/ MNextTree \/ MWalkEnds \/ MStatFails
            \/ MOpendirFails \/ MEntryUnreadable \/ MPassSelf \/ MVisit \/ MReadBlock
            \/ MReadFails \/ MFileInterrupted \/ MFileRead \/ MSmallFile \/ MPutAside
            \/ MEndDir \/ MFinal \/ MJoin
  BY <1>10
  DEF MainQueueStep, MStart, MAnalyseFails, MNextTree, MWalkEnds, MStatFails,
      MOpendirFails, MEntryUnreadable, MPassSelf, MVisit, MReadBlock, MReadFails,
      MFileInterrupted, MFileRead, MSmallFile, MPutAside, MEndDir, MFinal, MJoin
<1>11. QED
  BY <1>4, <1>5, <1>6, <1>7, <1>8, <1>9, <1>10 DEF MainStep

LEMMA MainQueue ==
  ASSUME BaseInv, MainStep
  PROVE  QInv(Record)'
<1>1. MainQueueStep /\ QInv(Record)
  BY MainQueueSteps DEF BaseInv
<1>2. QED
  BY <1>1, SameQueueSound, SetEndOfQueueSound, AddHeaderSound, AddBlockSound
  DEF MainQueueStep

-----------------------------------------------------------------------------
\* The queue stays sound whatever the compression threads do, and what a thread
\* takes from it is a block.
LEMMA CompQueue ==
  ASSUME BaseInv, NEW t \in CompThreads, CompStep(t)
  PROVE  QInv(Record)' /\ CompTypeOK'
<1> USE DEF BaseInv
<1>1. CASE CTake(t)
  <2>1. PICK i \in DOMAIN list :
               /\ queue_get_first_block_todo(i)
               /\ cwork' = [cwork EXCEPT ![t] = [num |-> list[i].num, val |-> list[i].val]]
    BY <1>1 DEF CTake
  <2>2. list[i] \in Item(Record)
    BY ItemAt DEF QInv, QTypeOK
  <2>3. [num |-> list[i].num, val |-> list[i].val] \in [num : Nat, val : Record]
    BY <2>2 DEF Item
  <2>4. QInv(Record)'
    BY <2>1, GetFirstBlockTodoSound
  <2>5. QED
    BY <1>1, <2>1, <2>3, <2>4 DEF CTake, CompTypeOK
<1>2. CASE CReplace(t)
  <2>1. cwork[t] \in [num : Nat, val : Record]
    BY DEF CompTypeOK
  <2>2. Pack(cwork[t].val) \in Record
    BY <2>1, PackType
  <2>3. QInv(Record)'
    BY <1>2, <2>2, ReplaceBlockSound DEF CReplace
  <2>4. QED
    BY <1>2, <2>3, BlankType DEF CReplace, CompTypeOK
<1>3. CASE CFail(t) \/ CExit(t)
  <2>1. UNCHANGED qvars /\ UNCHANGED cwork /\ cpc' = [cpc EXCEPT ![t] = "exit"]
    BY <1>3 DEF CFail, CExit
  <2>2. QED
    BY <2>1, SameQueueSound DEF CompTypeOK
<1>4. QED
  BY <1>1, <1>2, <1>3 DEF CompStep

\* The writer removes items from the head of the queue only, and what it holds
\* is a record that was in the queue.
LEMMA WriterQueue ==
  ASSUME BaseInv, WriterStep
  PROVE  QInv(Record)' /\ WriterTypeOK'
<1> USE DEF BaseInv
<1>1. CASE WDequeue
  <2>1. QInv(Record)' /\ Head(list) \in Item(Record)
    BY <1>1, DequeueFirstSound DEF WDequeue
  <2>2. Head(list).val \in Record
    BY <2>1 DEF Item
  <2>3. QED
    BY <1>1, <2>1, <2>2 DEF WDequeue, WGoto, WriterTypeOK, WriterPC
<1>2. CASE WDrain
  <2>1. QInv(Record)'
    BY <1>2, DestroyFirstItemSound, SameQueueSound DEF WDrain
  <2>2. QED
    BY <1>2, <2>1 DEF WDrain, WriterTypeOK, WriterPC
<1>3. CASE WCreate \/ WCreateFails \/ WVolHeader \/ WSplit \/ WWriteRecord \/ WLastFooter
           \/ WWriteFails \/ WError
  <2>1. UNCHANGED qvars
    BY <1>3 DEF WCreate, WCreateFails, WVolHeader, WSplit, WWriteRecord, WLastFooter,
                WWriteFails, WError
  <2>2. witem' \in {witem, Blank}
    BY <1>3 DEF WCreate, WCreateFails, WVolHeader, WSplit, WWriteRecord, WLastFooter,
                WWriteFails, WError
  <2>3. wpc' \in WriterPC
    BY <1>3 DEF WCreate, WCreateFails, WVolHeader, WSplit, WWriteRecord, WLastFooter,
                WWriteFails, WError, WGoto, WriterPC
  <2>4. QED
    BY <2>1, <2>2, <2>3, BlankType, SameQueueSound DEF WriterTypeOK
<1>4. QED
  BY <1>1, <1>2, <1>3 DEF WriterStep

-----------------------------------------------------------------------------
\* The main thread's own variables, and its place in the trees.
LEMMA MainLocal ==
  ASSUME BaseInv, MainStep
  PROVE  MainTypeOK' /\ InTree' /\ InEntry'
<1> USE DEF BaseInv, MainTypeOK, InTree, InEntry, MainPC, MGoto
<1>1. CASE MStart \/ MWriteMainHead \/ MAnalyse \/ MAnalyseFails \/ MEndFS \/ MEndDir
           \/ MEndDirs \/ MFinal \/ MSetEndOfQueue \/ MJoin
  <2>1. CASE MStart
    BY <2>1 DEF MStart, MFail
  <2>2. CASE MWriteMainHead
    BY <2>2 DEF MWriteMainHead, MFail
  <2>3. CASE MAnalyse
    BY <2>3 DEF MAnalyse, MFail
  <2>4. CASE MAnalyseFails
    BY <2>4 DEF MAnalyseFails, MFail
  <2>5. CASE MEndFS
    BY <2>5 DEF MEndFS, MFail
  <2>6. CASE MEndDir
    BY <2>6 DEF MEndDir, MFail
  <2>7. CASE MEndDirs
    BY <2>7 DEF MEndDirs, MFail
  <2>8. CASE MFinal
    BY <2>8 DEF MFinal, MFail
  <2>9. CASE MSetEndOfQueue
    BY <2>9 DEF MSetEndOfQueue, MFail
  <2>10. CASE MJoin
    BY <2>10 DEF MJoin, MFail
  <2>11. QED
    BY <1>1, <2>1, <2>2, <2>3, <2>4, <2>5, <2>6, <2>7, <2>8, <2>9, <2>10
<1>2. CASE MNextTree \/ MBeginFS
  <2>1. DOMAIN Trees = 1 .. Len(Trees) /\ Len(Trees) \in Nat
    BY SaveAssumption, LenProperties
  <2>2. QED
    BY <1>2, <2>1 DEF MNextTree, MBeginFS
<1>3. ASSUME mpc = "walk", entry <= Len(Trees[tree])
      PROVE  entry \in DOMAIN Trees[tree]
  BY <1>3, TreesType
<1>4. CASE MVisit
  BY <1>3, <1>4 DEF MVisit, Visiting
<1>5. CASE MWalkEnds \/ MStatFails
  BY <1>5 DEF MWalkEnds, MStatFails, Visiting
<1>6. CASE MOpendirFails
  BY <1>3, <1>6, ThisType DEF MOpendirFails, Visiting, NextEntry
<1>7. CASE MEntryUnreadable \/ MPassSelf
  <2>1. CASE MEntryUnreadable
    BY <2>1 DEF MEntryUnreadable, Visiting, NextEntry
  <2>2. CASE MPassSelf
    BY <2>2 DEF MPassSelf, Visiting, NextEntry
  <2>3. QED
    BY <1>7, <2>1, <2>2
<1>8. CASE MAddObject \/ MAddFooter
  <2>1. CASE MAddObject
    <3>1. /\ mpc' \in {"file", "walk"} /\ mpc = "objt"
          /\ mpc' = "file" => entry' = entry
          /\ UNCHANGED <<tree, multi, multiused, walkret, ret, errs>>
      BY <2>1 DEF MAddObject, NextEntry
    <3>2. entry' \in Nat \ {0} /\ pos' \in Nat
      BY <2>1 DEF MAddObject, NextEntry
    <3>3. eof' \in BOOLEAN
      BY <2>1 DEF MAddObject
    <3>4. QED
      BY <3>1, <3>2, <3>3
  <2>2. CASE MAddFooter
    BY <2>2 DEF MAddFooter, NextEntry
  <2>3. QED
    BY <1>8, <2>1, <2>2
<1>9. CASE MReadBlock \/ MReadFails \/ MAddBlock \/ MFileInterrupted \/ MFileRead
  <2>1. CASE MReadBlock
    BY <2>1 DEF MReadBlock, NextEntry
  <2>2. CASE MReadFails
    BY <2>2 DEF MReadFails, NextEntry
  <2>3. CASE MAddBlock
    BY <2>3 DEF MAddBlock, NextEntry
  <2>4. CASE MFileInterrupted
    BY <2>4 DEF MFileInterrupted, NextEntry
  <2>5. CASE MFileRead
    BY <2>5 DEF MFileRead, NextEntry
  <2>6. QED
    BY <1>9, <2>1, <2>2, <2>3, <2>4, <2>5
<1>10. ASSUME tree \in DOMAIN Trees, entry \in DOMAIN Trees[tree], regmulti_save_addfile
       PROVE  multi' \in Seq(Nat) /\ multiused' \in Nat
  BY <1>10, ThisType, AppendProperties DEF regmulti_save_addfile
<1>11. CASE MSmallFile
  <2>1. /\ mpc = "walk" /\ tree \in DOMAIN Trees /\ entry \in DOMAIN Trees[tree]
        /\ errs' \in BOOLEAN
        /\ UNCHANGED <<tree, eof, walkret, ret>>
    BY <1>3, <1>11 DEF MSmallFile, Visiting
  <2>2. CASE RoomForSmallFile
    <3>1. regmulti_save_addfile /\ mpc' = "walk" /\ entry' = entry + 1 /\ pos' = 0
      BY <1>11, <2>2 DEF MSmallFile, NextEntry
    <3>2. QED
      BY <1>10, <2>1, <3>1
  <2>3. CASE ~RoomForSmallFile
    <3>1. mpc' = "enqueue" /\ pos' = 0 /\ UNCHANGED <<entry, multi, multiused>>
      BY <1>11, <2>3 DEF MSmallFile
    <3>2. QED
      BY <2>1, <3>1
  <2>4. QED
    BY <2>2, <2>3
<1>12. CASE MEnqueueHeader
  BY <1>12 DEF MEnqueueHeader
<1>13. CASE MEnqueueBlock
  <2>1. <<>> \in Seq(Nat)
    BY EmptySeq
  <2>2. QED
    BY <1>13, <2>1 DEF MEnqueueBlock
<1>14. CASE MPutAside
  <2>1. /\ mpc = "putaside" /\ mpc' = "walk" /\ entry' = entry + 1 /\ pos' = 0
        /\ UNCHANGED <<tree, eof, walkret, ret>>
    BY <1>14 DEF MPutAside, NextEntry
  <2>2. multi' \in Seq(Nat) /\ multiused' \in Nat
    BY <1>10, <1>14 DEF MPutAside
  <2>3. errs' \in BOOLEAN
    BY <1>14 DEF MPutAside
  <2>4. QED
    BY <2>1, <2>2, <2>3
<1>15. QED
  BY <1>1, <1>2, <1>4, <1>5, <1>6, <1>7, <1>8, <1>9, <1>11, <1>12, <1>13, <1>14
  DEF MainStep

\* What the main thread does to the other threads' variables.
LEMMA MainOthers ==
  ASSUME BaseInv, MainStep
  PROVE  /\ CompTypeOK' /\ WriterTypeOK' /\ stop' \in BOOLEAN /\ abort' \in BOOLEAN
         /\ data' = data /\ vols' = vols /\ curvol' = curvol
         /\ witem' = witem /\ cwork' = cwork
         /\ ATypeOK(Record)'
<1> USE DEF BaseInv, avars, cvars, wvars
<1>1. CASE MStart
  <2>1. cpc' \in [CompThreads -> {"none", "idle", "work", "exit"}]
    BY <1>1 DEF MStart
  <2>2. wpc' \in WriterPC
    BY <1>1 DEF MStart, WriterPC
  <2>3. UNCHANGED <<avars, stop, abort, cwork, witem>>
    BY <1>1 DEF MStart
  <2>4. QED
    BY <2>1, <2>2, <2>3 DEF CompTypeOK, WriterTypeOK, ATypeOK
<1>2. CASE MJoin
  <2>1. UNCHANGED <<stop, abort, cvars, wvars>>
    BY <1>2 DEF MJoin
  <2>2. UNCHANGED <<data, vols, curvol>>
    BY <1>2 DEF MJoin, archwriter_remove
  <2>3. archfd' \in BOOLEAN /\ unlinked' \in BOOLEAN
    BY <1>2 DEF MJoin, archwriter_remove, ATypeOK
  <2>4. QED
    BY <2>1, <2>2, <2>3 DEF CompTypeOK, WriterTypeOK, ATypeOK
<1>3. CASE Elsewhere
  BY <1>3 DEF Elsewhere, CompTypeOK, WriterTypeOK, ATypeOK
<1>4. MStart \/ MJoin \/ Elsewhere
  BY DEF MainStep, MWriteMainHead, MAnalyse, MAnalyseFails, MNextTree, MBeginFS,
         MWalkEnds, MStatFails, MOpendirFails, MEntryUnreadable, MPassSelf, MVisit,
         MAddObject, MReadBlock, MReadFails, MAddBlock, MFileInterrupted, MFileRead,
         MAddFooter, MSmallFile, MEnqueueHeader, MEnqueueBlock, MPutAside, MEndFS,
         MEndDir, MEndDirs, MFinal, MSetEndOfQueue
<1>5. QED
  BY <1>1, <1>2, <1>3, <1>4

-----------------------------------------------------------------------------
\* The last volume is changed in place.
LEMMA VolumesType ==
  ASSUME vols \in Seq(Volume), NEW k \in Nat, NEW m \in {"none", "more", "last"}
  PROVE  /\ [vols EXCEPT ![Len(vols)].head = TRUE, ![Len(vols)].size = @ + k] \in Seq(Volume)
         /\ [vols EXCEPT ![Len(vols)].foot = m, ![Len(vols)].size = @ + k] \in Seq(Volume)
         /\ [vols EXCEPT ![Len(vols)].size = @ + k] \in Seq(Volume)
         /\ [vols EXCEPT ![Len(vols)].torn = TRUE] \in Seq(Volume)
<1>1. \A i \in DOMAIN vols : vols[i] \in Volume
  BY LenProperties, ElementOfSeq
<1>2. ASSUME NEW f, f = [i \in DOMAIN vols |-> f[i]], \A i \in DOMAIN vols : f[i] \in Volume
      PROVE  f \in Seq(Volume)
  BY <1>2, SeqOfFcn
<1>3. [vols EXCEPT ![Len(vols)].head = TRUE, ![Len(vols)].size = @ + k] \in Seq(Volume)
  <2> DEFINE f == [vols EXCEPT ![Len(vols)].head = TRUE, ![Len(vols)].size = @ + k]
  <2>1. f = [i \in DOMAIN vols |-> f[i]]
    OBVIOUS
  <2>2. ASSUME NEW i \in DOMAIN vols
        PROVE  f[i] \in Volume
    <3>1. vols[i] \in Volume /\ vols[i].size + k \in Nat
      BY <1>1 DEF Volume
    <3>2. [vols[i] EXCEPT !.head = TRUE, !.size = vols[i].size + k] \in Volume
      BY <3>1 DEF Volume
    <3>3. f[i] = vols[i] \/ f[i] = [vols[i] EXCEPT !.head = TRUE, !.size = vols[i].size + k]
      OBVIOUS
    <3>4. QED
      BY <3>1, <3>2, <3>3
  <2> HIDE DEF f
  <2>3. f \in Seq(Volume)
    BY <1>2, <2>1, <2>2
  <2>4. QED
    BY <2>3 DEF f
<1>4. [vols EXCEPT ![Len(vols)].foot = m, ![Len(vols)].size = @ + k] \in Seq(Volume)
  <2> DEFINE f == [vols EXCEPT ![Len(vols)].foot = m, ![Len(vols)].size = @ + k]
  <2>1. f = [i \in DOMAIN vols |-> f[i]]
    OBVIOUS
  <2>2. ASSUME NEW i \in DOMAIN vols
        PROVE  f[i] \in Volume
    <3>1. vols[i] \in Volume /\ vols[i].size + k \in Nat
      BY <1>1 DEF Volume
    <3>2. [vols[i] EXCEPT !.foot = m, !.size = vols[i].size + k] \in Volume
      BY <3>1 DEF Volume
    <3>3. f[i] = vols[i] \/ f[i] = [vols[i] EXCEPT !.foot = m, !.size = vols[i].size + k]
      OBVIOUS
    <3>4. QED
      BY <3>1, <3>2, <3>3
  <2> HIDE DEF f
  <2>3. f \in Seq(Volume)
    BY <1>2, <2>1, <2>2
  <2>4. QED
    BY <2>3 DEF f
<1>5. [vols EXCEPT ![Len(vols)].size = @ + k] \in Seq(Volume)
  <2> DEFINE f == [vols EXCEPT ![Len(vols)].size = @ + k]
  <2>1. f = [i \in DOMAIN vols |-> f[i]]
    OBVIOUS
  <2>2. ASSUME NEW i \in DOMAIN vols
        PROVE  f[i] \in Volume
    <3>1. vols[i] \in Volume /\ vols[i].size + k \in Nat
      BY <1>1 DEF Volume
    <3>2. [vols[i] EXCEPT !.size = vols[i].size + k] \in Volume
      BY <3>1 DEF Volume
    <3>3. f[i] = vols[i] \/ f[i] = [vols[i] EXCEPT !.size = vols[i].size + k]
      OBVIOUS
    <3>4. QED
      BY <3>1, <3>2, <3>3
  <2> HIDE DEF f
  <2>3. f \in Seq(Volume)
    BY <1>2, <2>1, <2>2
  <2>4. QED
    BY <2>3 DEF f
<1>6. [vols EXCEPT ![Len(vols)].torn = TRUE] \in Seq(Volume)
  <2> DEFINE f == [vols EXCEPT ![Len(vols)].torn = TRUE]
  <2>1. f = [i \in DOMAIN vols |-> f[i]]
    OBVIOUS
  <2>2. \A i \in DOMAIN vols : f[i] \in Volume
    BY <1>1 DEF Volume
  <2> HIDE DEF f
  <2>3. f \in Seq(Volume)
    BY <1>2, <2>1, <2>2
  <2>4. QED
    BY <2>3 DEF f
<1>7. QED
  BY <1>3, <1>4, <1>5, <1>6

\* The archive's variables keep their types.
LEMMA WriterArchive ==
  ASSUME BaseInv, WriterStep
  PROVE  ATypeOK(Record)'
<1> USE DEF BaseInv, ATypeOK
<1>0. /\ HeadSize \in Nat /\ BlockSize \in Nat /\ VolMarkSize \in Nat
      /\ SizeOf(witem) \in Nat
  BY SaveAssumption, ArchWriterAssumption DEF SizeOf
<1>1. ASSUME NEW n \in Nat, archwriter_create(n)
      PROVE  ATypeOK(Record)'
  <2>1. Len(data) + 1 \in Nat \ {0}
    BY LenProperties
  <2>2. [num |-> n, first |-> Len(data) + 1, size |-> 0, head |-> FALSE,
         foot |-> "none", torn |-> FALSE] \in Volume
    BY <2>1 DEF Volume
  <2>3. vols' \in Seq(Volume)
    BY <1>1, <2>2, AppendProperties DEF archwriter_create
  <2>4. QED
    BY <1>1, <2>3 DEF archwriter_create
<1>2. CASE WCreate
  BY <1>1, <1>2 DEF WCreate
<1>3. CASE WCreateFails
  BY <1>3 DEF WCreateFails, archwriter_create_fails
<1>4. CASE WVolHeader
  BY <1>0, <1>4, VolumesType DEF WVolHeader, archwriter_write_volheader
<1>5. CASE WSplit
  BY <1>0, <1>5, VolumesType DEF WSplit, archwriter_write_volfooter, avars
<1>6. CASE WWriteRecord
  <2>1. data' \in Seq(Record)
    BY <1>6, AppendProperties DEF WWriteRecord, archwriter_write_buffer, WriterTypeOK
  <2>2. QED
    BY <1>0, <1>6, <2>1, VolumesType DEF WWriteRecord, archwriter_write_buffer
<1>7. CASE WLastFooter
  BY <1>0, <1>7, VolumesType DEF WLastFooter, archwriter_write_volfooter
<1>8. CASE WWriteFails
  BY <1>8, VolumesType DEF WWriteFails, WriteFails
<1>9. CASE WDequeue \/ WError
  BY <1>9 DEF WDequeue, WError, avars
<1>10. CASE WDrain
  BY <1>10 DEF WDrain
<1>11. QED
  BY <1>2, <1>3, <1>4, <1>5, <1>6, <1>7, <1>8, <1>9, <1>10 DEF WriterStep

-----------------------------------------------------------------------------
LEMMA BaseInit == Init => BaseInv
<1> SUFFICES ASSUME Init PROVE BaseInv
  OBVIOUS
<1>1. QInv(Record)
  BY InitSound DEF Init
<1>2. ATypeOK(Record)
  BY EmptySeq DEF Init, archwriter_init, ATypeOK
<1>3. MainTypeOK
  <2>1. multi \in Seq(Nat)
    BY EmptySeq DEF Init
  <2>2. /\ tree \in Nat \ {0} /\ entry \in Nat \ {0} /\ pos \in Nat /\ multiused \in Nat
        /\ mpc \in MainPC /\ walkret \in {0, -1} /\ ret \in {0, -1}
    BY DEF Init, MainPC
  <2>3. eof \in BOOLEAN /\ errs \in BOOLEAN
    BY DEF Init
  <2>4. QED
    BY <2>1, <2>2, <2>3 DEF MainTypeOK
<1>4. CompTypeOK /\ WriterTypeOK
  BY BlankType DEF Init, CompTypeOK, WriterTypeOK, WriterPC
<1>5. InTree /\ InEntry /\ stop \in BOOLEAN /\ abort \in BOOLEAN
  BY DEF Init, InTree, InEntry
<1>6. QED
  BY <1>1, <1>2, <1>3, <1>4, <1>5 DEF BaseInv

LEMMA BaseStep == BaseInv /\ [Next]_vars => BaseInv'
<1> SUFFICES ASSUME BaseInv, [Next]_vars PROVE BaseInv'
  OBVIOUS
<1>1. CASE MainStep
  BY <1>1, MainQueue, MainLocal, MainOthers DEF BaseInv
<1>2. ASSUME UNCHANGED mvars
      PROVE  MainTypeOK' /\ InTree' /\ InEntry'
  BY <1>2 DEF BaseInv, mvars, MainTypeOK, InTree, InEntry
<1>3. ASSUME UNCHANGED <<avars, stop, abort>>
      PROVE  ATypeOK(Record)' /\ stop' \in BOOLEAN /\ abort' \in BOOLEAN
  BY <1>3 DEF BaseInv, avars, ATypeOK
<1>4. ASSUME UNCHANGED wvars
      PROVE  WriterTypeOK'
  BY <1>4 DEF BaseInv, wvars, WriterTypeOK
<1>5. ASSUME UNCHANGED cvars
      PROVE  CompTypeOK'
  BY <1>5 DEF BaseInv, cvars, CompTypeOK
<1>6. ASSUME NEW t \in CompThreads, CompStep(t)
      PROVE  BaseInv'
  <2>1. UNCHANGED <<avars, stop, abort, mvars, wvars>>
    BY <1>6 DEF CompStep, CTake, CReplace, CFail, CExit
  <2>2. QED
    BY <1>2, <1>3, <1>4, <1>6, <2>1, CompQueue DEF BaseInv
<1>7. CASE WriterStep
  <2>1. UNCHANGED <<abort, mvars, cvars>> /\ stop' \in BOOLEAN
    BY <1>7 DEF BaseInv, WriterStep, WCreate, WCreateFails, WVolHeader, WDequeue, WSplit,
                WWriteRecord, WLastFooter, WWriteFails, WError, WDrain, WElsewhere
  <2>2. QED
    BY <1>2, <1>5, <1>7, <2>1, WriterQueue, WriterArchive DEF BaseInv
<1>8. CASE Signal
  BY <1>2, <1>4, <1>5, <1>8, SameQueueSound DEF Signal, BaseInv, avars, ATypeOK
<1>9. CASE UNCHANGED vars
  BY <1>2, <1>3, <1>4, <1>5, <1>9, SameQueueSound DEF vars, BaseInv
<1>10. QED
  BY <1>1, <1>6, <1>7, <1>8, <1>9 DEF Next, Done

\* In every behaviour of the operation, with any trees, threads, limits and
\* faults, the invariant holds ...
THEOREM BaseInvariant == Spec => []BaseInv
<1>1. QED
  BY BaseInit, BaseStep, PTL DEF Spec

\* ... so every variable has its type ...
THEOREM TypeCorrect == Spec => []TypeOK
<1>1. BaseInv => TypeOK
  BY DEF BaseInv, QInv, TypeOK
<1>2. QED
  BY <1>1, BaseInvariant, PTL

\* ... and the shared queue is sound: its counters agree with the list, numbers
\* are unique and ordered, and at most blkmax + 1 blocks are in it.
THEOREM QueueCorrect == Spec => []QueueSound
<1>1. BaseInv => QueueSound
  BY DEF BaseInv, QInv
<1>2. QED
  BY <1>1, BaseInvariant, PTL

-----------------------------------------------------------------------------
(***************************************************************************)
(* Blocks are written only after they have been processed.                 *)
(***************************************************************************)
ItemPacked(e) ==
  /\ e.type = "block" => (e.status = "done" <=> e.val.packed)
  /\ e.status = "done" /\ e.val.magic = "BLKH" => e.val.packed

PackInv ==
  /\ \A p \in DOMAIN data : data[p].magic = "BLKH" => data[p].packed
  /\ \A i \in DOMAIN list : ItemPacked(list[i])
  /\ witem.magic = "BLKH" => witem.packed

\* What the main thread adds.
LEMMA MainAdds ==
  ASSUME BaseInv, MainStep
  PROVE  \/ list' = list
         \/ \E e \in Item(Record) :
              /\ list' = Append(list, e)
              /\ e.num = curitemnum
              /\ \/ e.type = "block" /\ e.status = "todo" /\ ~e.val.packed
                 \/ e.type = "header" /\ e.status = "done" /\ e.val.magic # "BLKH"
<1> DEFINE Adds(e) ==
              /\ list' = Append(list, e)
              /\ e.num = curitemnum
              /\ \/ e.type = "block" /\ e.status = "todo" /\ ~e.val.packed
                 \/ e.type = "header" /\ e.status = "done" /\ e.val.magic # "BLKH"
<1>1. curitemnum \in Nat \ {0}
  BY DEF BaseInv, QInv, QTypeOK
<1>2. ASSUME NEW v \in Record, ~v.packed, v.magic # "BLKH", queue_add_header(v)
      PROVE  \E e \in Item(Record) : Adds(e)
  <2> DEFINE e == [num |-> curitemnum, type |-> "header", status |-> "done", val |-> v]
  <2>1. e \in Item(Record)
    BY <1>1 DEF Item
  <2>2. Adds(e)
    BY <1>2 DEF queue_add_header, AppendItem
  <2>3. QED
    BY <2>1, <2>2
<1>3. ASSUME NEW v \in Record, ~v.packed, v.magic = "BLKH", queue_add_block(v, "todo")
      PROVE  \E e \in Item(Record) : Adds(e)
  <2> DEFINE e == [num |-> curitemnum, type |-> "block", status |-> "todo", val |-> v]
  <2>1. e \in Item(Record)
    BY <1>1 DEF Item
  <2>2. Adds(e)
    BY <1>3 DEF queue_add_block, AppendItem
  <2>3. QED
    BY <2>1, <2>2
<1>4. CASE UNCHANGED qvars \/ queue_set_end_of_queue(TRUE)
  BY <1>4 DEF qvars, queue_set_end_of_queue
<1>5. QED
  BY <1>2, <1>3, <1>4, MainQueueSteps DEF MainQueueStep

LEMMA PackStep ==
  ASSUME BaseInv, PackInv, [Next]_vars
  PROVE  PackInv'
<1> USE DEF PackInv
<1>1. list \in Seq(Item(Record)) /\ data \in Seq(Record)
  BY DEF BaseInv, QInv, QTypeOK, ATypeOK
<1>2. ASSUME UNCHANGED <<data, list, witem>>
      PROVE  PackInv'
  BY <1>2
<1>3. CASE MainStep
  <2>1. UNCHANGED <<data, witem>>
    BY <1>3, MainOthers
  <2>2. CASE list' = list
    BY <1>2, <2>1, <2>2
  <2>3. ASSUME NEW e \in Item(Record), list' = Append(list, e),
               \/ e.type = "block" /\ e.status = "todo" /\ ~e.val.packed
               \/ e.type = "header" /\ e.status = "done" /\ e.val.magic # "BLKH"
        PROVE  PackInv'
    <3>1. ItemPacked(e)
      BY <2>3 DEF ItemPacked
    <3>2. QED
      BY <1>1, <2>1, <2>3, <3>1, AppendedItems
  <2>4. QED
    BY <1>3, <2>2, <2>3, MainAdds
<1>4. ASSUME NEW t \in CompThreads, CTake(t)
      PROVE  PackInv'
  <2>1. UNCHANGED <<data, witem>>
    BY <1>4 DEF CTake, avars, wvars
  <2>2. PICK k \in DOMAIN list : queue_get_first_block_todo(k)
    BY <1>4 DEF CTake
  <2>3. /\ DOMAIN list' = DOMAIN list
        /\ \A i \in DOMAIN list : i # k => list'[i] = list[i]
        /\ list'[k] = [list[k] EXCEPT !.status = "progress"]
        /\ list[k].type = "block" /\ list[k].status = "todo"
        /\ list[k] \in Item(Record)
    BY <1>1, <2>2, ItemAt DEF queue_get_first_block_todo, TodoPositions
  <2>4. /\ list'[k].type = "block" /\ list'[k].status = "progress"
        /\ list'[k].val = list[k].val
    BY <2>3 DEF Item
  <2>5. ItemPacked(list'[k])
    BY <2>3, <2>4 DEF ItemPacked
  <2>6. QED
    BY <2>1, <2>3, <2>5
<1>5. ASSUME NEW t \in CompThreads, CReplace(t)
      PROVE  PackInv'
  <2> DEFINE v == Pack(cwork[t].val)
  <2>1. UNCHANGED <<data, witem>>
    BY <1>5 DEF CReplace, avars, wvars
  <2>2. v \in Record /\ v.packed
    BY DEF Pack, BaseInv, CompTypeOK, Record
  <2> HIDE DEF v
  <2>3. /\ DOMAIN list' = DOMAIN list
        /\ \A i \in DOMAIN list :
             \/ list'[i] = list[i]
             \/ list'[i] = [list[i] EXCEPT !.status = "done", !.val = v]
    BY <1>5 DEF CReplace, queue_replace_block, v
  <2>4. ASSUME NEW i \in DOMAIN list
        PROVE  ItemPacked(list'[i])
    <3>1. list[i] \in Item(Record)
      BY <1>1, ItemAt
    <3>2. CASE list'[i] = [list[i] EXCEPT !.status = "done", !.val = v]
      <4>1. list'[i].status = "done" /\ list'[i].val = v
        BY <3>1, <3>2 DEF Item
      <4>2. QED
        BY <2>2, <4>1 DEF ItemPacked
    <3>3. QED
      BY <2>3, <3>2
  <2>5. QED
    BY <2>1, <2>3, <2>4
<1>6. ASSUME NEW t \in CompThreads, CFail(t) \/ CExit(t)
      PROVE  PackInv'
  BY <1>2, <1>6 DEF CFail, CExit, qvars, avars, wvars
<1>7. CASE WDequeue
  <2>1. /\ UNCHANGED data /\ witem' = Head(list).val
        /\ RemoveHead /\ list # <<>> /\ Head(list).status = "done"
    BY <1>7 DEF WDequeue, queue_dequeue_first, HeadIs, avars
  <2>2. \A i \in DOMAIN list' : ItemPacked(list'[i])
    BY <1>1, <2>1, RemainingItems
  <2>3. ItemPacked(Head(list))
    BY <1>1, <2>1, RemainingItems
  <2>4. QED
    BY <2>1, <2>2, <2>3 DEF ItemPacked
<1>8. CASE WWriteRecord
  <2>1. data' = Append(data, witem) /\ witem' = Blank /\ UNCHANGED list
    BY <1>8 DEF WWriteRecord, archwriter_write_buffer, qvars
  <2>2. witem \in Record
    BY DEF BaseInv, WriterTypeOK
  <2>3. \A p \in DOMAIN data' : data'[p] = witem \/ (p \in DOMAIN data /\ data'[p] = data[p])
    BY <1>1, <2>1, <2>2, AppendProperties, LenProperties
  <2>4. Blank.magic # "BLKH"
    BY DEF Blank, Rec
  <2>5. QED
    BY <2>1, <2>3, <2>4
<1>9. CASE WDrain
  <2>1. UNCHANGED <<data, witem>>
    BY <1>9 DEF WDrain
  <2>2. CASE UNCHANGED list
    BY <1>2, <2>1, <2>2
  <2>3. CASE queue_destroy_first_item
    BY <1>1, <2>1, <2>3, RemainingItems DEF queue_destroy_first_item, HeadIs
  <2>4. QED
    BY <1>9, <2>2, <2>3 DEF WDrain, qvars
<1>10. CASE WCreate \/ WCreateFails \/ WVolHeader \/ WSplit \/ WLastFooter \/ WWriteFails
            \/ WError
  <2>1. UNCHANGED <<data, list>> /\ witem' \in {witem, Blank}
    BY <1>10 DEF WCreate, WCreateFails, WVolHeader, WSplit, WLastFooter, WWriteFails, WError,
                 archwriter_create, archwriter_create_fails, archwriter_write_volheader,
                 archwriter_write_volfooter, WriteFails, avars, qvars
  <2>2. Blank.magic # "BLKH"
    BY DEF Blank, Rec
  <2>3. QED
    BY <2>1, <2>2
<1>11. CASE Signal \/ UNCHANGED vars
  BY <1>2, <1>11 DEF Signal, vars, qvars, avars, wvars
<1>12. QED
  BY <1>3, <1>4, <1>5, <1>6, <1>7, <1>8, <1>9, <1>10, <1>11
  DEF Next, CompStep, WriterStep, Done

\* In every behaviour no block is written, and none is ready to be written, that
\* has not been processed by a compression thread.
THEOREM PackedCorrect == Spec => []StoredBlocksPacked
<1>1. Init => PackInv
  BY DEF Init, PackInv, queue_init, archwriter_init, Blank, Rec
<1>2. BaseInv /\ PackInv /\ [Next]_vars => PackInv'
  BY PackStep
<1>3. PackInv => StoredBlocksPacked
  BY DEF PackInv, ItemPacked, StoredBlocksPacked
<1>4. QED
  BY <1>1, <1>2, <1>3, BaseInvariant, PTL DEF Spec

-----------------------------------------------------------------------------
(***************************************************************************)
(* A block in progress belongs to one thread and stays where it is.  The   *)
(* invariant adds that a thread that has taken nothing holds nothing, and  *)
(* that no thread runs before they are created.                            *)
(***************************************************************************)
OwnInv ==
  /\ WorkOwned
  /\ \A t \in CompThreads : cpc[t] \in {"none", "idle"} => cwork[t].num = 0
  /\ mpc = "start" => \A t \in CompThreads : cpc[t] = "none"

\* A queue operation that removes no block in progress and makes none keeps the
\* threads' blocks.
LEMMA OwnKept ==
  ASSUME OwnInv, UNCHANGED cwork,
         \A t \in CompThreads : cpc'[t] = "work" => cpc[t] = "work",
         \A t \in CompThreads : cpc'[t] \in {"none", "idle"} => cpc[t] \in {"none", "idle"},
         mpc' = "start" => mpc = "start" /\ UNCHANGED cpc,
         \A i \in DOMAIN list : list[i].status = "progress" =>
           \E j \in DOMAIN list' : list'[j] = list[i],
         \A i \in DOMAIN list' : list'[i].status = "progress" =>
           \E j \in DOMAIN list : list'[i] = list[j]
  PROVE  OwnInv'
<1>1. ASSUME NEW t \in CompThreads, cpc'[t] = "work"
      PROVE  \E i \in DOMAIN list' : /\ list'[i].num = cwork'[t].num
                                    /\ list'[i].val = cwork'[t].val
                                    /\ list'[i].status = "progress"
  <2>1. PICK i \in DOMAIN list : /\ list[i].num = cwork[t].num /\ list[i].val = cwork[t].val
                                /\ list[i].status = "progress"
    BY <1>1 DEF OwnInv, WorkOwned
  <2>2. PICK j \in DOMAIN list' : list'[j] = list[i]
    BY <2>1
  <2>3. QED
    BY <2>1, <2>2
<1>2. \A t, u \in CompThreads :
        cpc'[t] = "work" /\ cpc'[u] = "work" /\ cwork'[t].num = cwork'[u].num => t = u
  BY DEF OwnInv, WorkOwned
<1>3. ASSUME NEW i \in DOMAIN list', list'[i].status = "progress"
      PROVE  \E t \in CompThreads : cwork'[t].num = list'[i].num
  <2>1. PICK j \in DOMAIN list : list'[i] = list[j]
    BY <1>3
  <2>2. QED
    BY <1>3, <2>1 DEF OwnInv, WorkOwned
<1>4. QED
  BY <1>1, <1>2, <1>3 DEF OwnInv, WorkOwned

LEMMA OwnStep ==
  ASSUME BaseInv, OwnInv, [Next]_vars
  PROVE  OwnInv'
<1>1. /\ list \in Seq(Item(Record)) /\ list' \in Seq(Item(Record))
      /\ cpc \in [CompThreads -> {"none", "idle", "work", "exit"}]
      /\ cwork \in [CompThreads -> [num : Nat, val : Record]]
  BY BaseStep DEF BaseInv, QInv, QTypeOK, CompTypeOK
<1>2. ASSUME UNCHANGED <<list, cpc, cwork, mpc>>
      PROVE  OwnInv'
  BY <1>2 DEF OwnInv, WorkOwned
<1>3. CASE MainStep
  <2>1. cwork' = cwork /\ mpc' # "start"
    <3>1. cwork' = cwork
      BY <1>3, MainOthers
    <3>2. mpc' # "start"
      BY <1>3
      DEF MainStep, MStart, MWriteMainHead, MAnalyse, MAnalyseFails, MNextTree, MBeginFS,
          MWalkEnds, MStatFails, MOpendirFails, MEntryUnreadable, MPassSelf, MVisit,
          MAddObject, MReadBlock, MReadFails, MAddBlock, MFileInterrupted, MFileRead,
          MAddFooter, MSmallFile, MEnqueueHeader, MEnqueueBlock, MPutAside, MEndFS, MEndDir,
          MEndDirs, MFinal, MSetEndOfQueue, MJoin, MGoto, MFail, NextEntry
    <3>3. QED
      BY <3>1, <3>2
  <2>2. \/ UNCHANGED cpc
        \/ /\ \A t \in CompThreads : cpc[t] = "none" /\ cpc'[t] \in {"none", "idle"}
    <3>1. CASE MStart
      BY <3>1 DEF MStart, MGoto, MFail, OwnInv
    <3>2. CASE ~MStart
      BY <1>3, <3>2
      DEF MainStep, MWriteMainHead, MAnalyse, MAnalyseFails, MNextTree, MBeginFS,
          MWalkEnds, MStatFails, MOpendirFails, MEntryUnreadable, MPassSelf, MVisit,
          MAddObject, MReadBlock, MReadFails, MAddBlock, MFileInterrupted, MFileRead,
          MAddFooter, MSmallFile, MEnqueueHeader, MEnqueueBlock, MPutAside, MEndFS, MEndDir,
          MEndDirs, MFinal, MSetEndOfQueue, MJoin, Elsewhere, cvars
    <3>3. QED
      BY <3>1, <3>2
  <2>3. /\ \A i \in DOMAIN list : list[i].status = "progress" =>
             \E j \in DOMAIN list' : list'[j] = list[i]
        /\ \A i \in DOMAIN list' : list'[i].status = "progress" =>
             \E j \in DOMAIN list : list'[i] = list[j]
    <3>1. CASE list' = list
      BY <3>1
    <3>2. ASSUME NEW e \in Item(Record), list' = Append(list, e), e.status # "progress"
          PROVE  <2>3!1 /\ <2>3!2
      BY <1>1, <3>2, AppendedItems
    <3>3. QED
      BY <1>3, <3>1, <3>2, MainAdds
  <2>4. QED
    BY <2>1, <2>2, <2>3, OwnKept
<1>4. ASSUME NEW t \in CompThreads, CTake(t)
      PROVE  OwnInv'
  <2>1. PICK k \in DOMAIN list :
              /\ queue_get_first_block_todo(k)
              /\ cwork' = [cwork EXCEPT ![t] = [num |-> list[k].num, val |-> list[k].val]]
    BY <1>4 DEF CTake
  <2>2. /\ cpc[t] = "idle" /\ cpc' = [cpc EXCEPT ![t] = "work"]
        /\ cwork[t].num = 0 /\ mpc' = mpc
    BY <1>4 DEF CTake, OwnInv, mvars
  <2>3. /\ DOMAIN list' = DOMAIN list
        /\ \A i \in DOMAIN list : i # k => list'[i] = list[i]
        /\ list'[k] = [list[k] EXCEPT !.status = "progress"]
        /\ list[k].status = "todo"
        /\ list[k] \in Item(Record)
    BY <1>1, <2>1, ItemAt DEF queue_get_first_block_todo, TodoPositions
  <2>4. /\ list'[k].status = "progress"
        /\ list'[k].num = list[k].num /\ list'[k].val = list[k].val
    BY <2>3 DEF Item
  <2>5. \A i \in DOMAIN list : list[i].num # 0 /\ (i # k => list[i].num # list[k].num)
    <3>1. \A i \in DOMAIN list : i \in Nat /\ list[i].num \in Nat \ {0}
      BY <1>1, ItemAt
    <3>2. \A i, j \in DOMAIN list : i < j => list[i].num < list[j].num
      BY DEF BaseInv, QInv, QueueSound
    <3>3. QED
      BY <3>1, <3>2
  <2>6. /\ cwork'[t].num = list[k].num /\ cwork'[t].val = list[k].val /\ cpc'[t] = "work"
        /\ \A u \in CompThreads : u # t => cwork'[u] = cwork[u] /\ cpc'[u] = cpc[u]
    BY <1>1, <2>1, <2>2
  <2>7. ASSUME NEW u \in CompThreads, cpc[u] = "work"
        PROVE  /\ \E i \in DOMAIN list : /\ list[i].num = cwork[u].num
                                         /\ list[i].val = cwork[u].val
                                         /\ list[i].status = "progress" /\ i # k
               /\ cwork[u].num # list[k].num
    BY <2>3, <2>5, <2>7 DEF OwnInv, WorkOwned
  <2>8. ASSUME NEW u \in CompThreads, cpc'[u] = "work"
        PROVE  \E i \in DOMAIN list' : /\ list'[i].num = cwork'[u].num
                                      /\ list'[i].val = cwork'[u].val
                                      /\ list'[i].status = "progress"
    <3>1. CASE u = t
      <4>1. k \in DOMAIN list'
        BY <2>3
      <4>2. QED
        BY <2>4, <2>6, <3>1, <4>1
    <3>2. CASE u # t
      <4>1. cpc[u] = "work" /\ cwork'[u] = cwork[u]
        BY <2>6, <2>8, <3>2
      <4>2. PICK i \in DOMAIN list : /\ list[i].num = cwork[u].num
                                    /\ list[i].val = cwork[u].val
                                    /\ list[i].status = "progress" /\ i # k
        BY <2>7, <4>1
      <4>3. list'[i] = list[i] /\ i \in DOMAIN list'
        BY <2>3, <4>2
      <4>4. QED
        BY <4>1, <4>2, <4>3
    <3>3. QED
      BY <3>1, <3>2
  <2>9. \A u, w \in CompThreads :
          cpc'[u] = "work" /\ cpc'[w] = "work" /\ cwork'[u].num = cwork'[w].num => u = w
    BY <2>6, <2>7 DEF OwnInv, WorkOwned
  <2>10. ASSUME NEW i \in DOMAIN list', list'[i].status = "progress"
         PROVE  \E u \in CompThreads : cwork'[u].num = list'[i].num
    <3>1. CASE i = k
      BY <2>4, <2>6, <3>1
    <3>2. CASE i # k
      <4>1. PICK u \in CompThreads : cwork[u].num = list[i].num
        BY <2>3, <2>10, <3>2 DEF OwnInv, WorkOwned
      <4>2. u # t
        BY <2>2, <2>3, <2>5, <4>1
      <4>3. QED
        BY <2>3, <2>6, <3>2, <4>1, <4>2
    <3>3. QED
      BY <3>1, <3>2
  <2>11. QED
    BY <2>2, <2>6, <2>8, <2>9, <2>10 DEF OwnInv, WorkOwned
<1>5. ASSUME NEW t \in CompThreads, CReplace(t)
      PROVE  OwnInv'
  <2>1. /\ cpc[t] = "work" /\ cpc' = [cpc EXCEPT ![t] = "idle"]
        /\ cwork' = [cwork EXCEPT ![t] = NoWork] /\ mpc' = mpc
    BY <1>5 DEF CReplace, mvars
  <2>2. /\ cwork'[t].num = 0 /\ cpc'[t] = "idle"
        /\ \A u \in CompThreads : u # t => cwork'[u] = cwork[u] /\ cpc'[u] = cpc[u]
    BY <1>1, <2>1 DEF NoWork
  <2>3. /\ DOMAIN list' = DOMAIN list
        /\ \A i \in DOMAIN list : list[i].num # cwork[t].num => list'[i] = list[i]
        /\ \A i \in DOMAIN list : list[i].num = cwork[t].num => list'[i].status = "done"
    <3>1. \A i \in DOMAIN list : list[i] \in Item(Record)
      BY <1>1, ItemAt
    <3>2. QED
      BY <1>5, <3>1 DEF CReplace, queue_replace_block, Item
  <2>4. ASSUME NEW u \in CompThreads, cpc'[u] = "work"
        PROVE  \E i \in DOMAIN list' : /\ list'[i].num = cwork'[u].num
                                      /\ list'[i].val = cwork'[u].val
                                      /\ list'[i].status = "progress"
    <3>1. u # t /\ cpc[u] = "work" /\ cwork'[u] = cwork[u] /\ cwork[u].num # cwork[t].num
      BY <2>1, <2>2, <2>4 DEF OwnInv, WorkOwned
    <3>2. PICK i \in DOMAIN list : /\ list[i].num = cwork[u].num /\ list[i].val = cwork[u].val
                                  /\ list[i].status = "progress"
      BY <3>1 DEF OwnInv, WorkOwned
    <3>3. QED
      BY <2>3, <3>1, <3>2
  <2>5. \A u, w \in CompThreads :
          cpc'[u] = "work" /\ cpc'[w] = "work" /\ cwork'[u].num = cwork'[w].num => u = w
    BY <2>2 DEF OwnInv, WorkOwned
  <2>6. ASSUME NEW i \in DOMAIN list', list'[i].status = "progress"
        PROVE  \E u \in CompThreads : cwork'[u].num = list'[i].num
    <3>1. list[i].num # cwork[t].num /\ list'[i] = list[i]
      BY <2>3, <2>6
    <3>2. PICK u \in CompThreads : cwork[u].num = list[i].num
      BY <2>3, <2>6, <3>1 DEF OwnInv, WorkOwned
    <3>3. QED
      BY <2>2, <3>1, <3>2
  <2>7. QED
    BY <2>1, <2>2, <2>4, <2>5, <2>6 DEF OwnInv, WorkOwned
<1>6. ASSUME NEW t \in CompThreads, CFail(t) \/ CExit(t)
      PROVE  OwnInv'
  <2>1. /\ UNCHANGED <<list, cwork, mpc>>
        /\ cpc[t] # "none" /\ cpc' = [cpc EXCEPT ![t] = "exit"]
    BY <1>6 DEF CFail, CExit, qvars, mvars
  <2>2. mpc # "start"
    BY <2>1 DEF OwnInv
  <2>3. QED
    BY <1>1, <2>1, <2>2, OwnKept
<1>7. CASE WriterStep
  <2>1. UNCHANGED <<cpc, cwork, mpc>>
    BY <1>7 DEF WriterStep, WCreate, WCreateFails, WVolHeader, WDequeue, WSplit, WWriteRecord,
                WLastFooter, WWriteFails, WError, WDrain, WElsewhere, mvars, cvars
  <2>2. list' = list \/ (RemoveHead /\ HeadIs({"todo", "done"}))
    BY <1>7 DEF WriterStep, WCreate, WCreateFails, WVolHeader, WDequeue, WSplit, WWriteRecord,
                WLastFooter, WWriteFails, WError, WDrain, qvars, queue_dequeue_first,
                queue_destroy_first_item, HeadIs
  <2>3. CASE RemoveHead /\ HeadIs({"todo", "done"})
    <3>1. /\ \A i \in DOMAIN list' : i + 1 \in DOMAIN list /\ list'[i] = list[i + 1]
          /\ \A i \in DOMAIN list : i = 1 \/ (i - 1 \in DOMAIN list' /\ list'[i - 1] = list[i])
          /\ list[1].status # "progress"
      BY <1>1, <2>3, RemainingItems DEF HeadIs
    <3>2. QED
      BY <2>1, <3>1, OwnKept
  <2>4. QED
    BY <1>2, <2>1, <2>2, <2>3
<1>8. CASE Signal \/ UNCHANGED vars
  BY <1>2, <1>8 DEF Signal, vars, qvars, cvars, mvars
<1>9. QED
  BY <1>3, <1>4, <1>5, <1>6, <1>7, <1>8 DEF Next, CompStep, Done

\* In every behaviour a block that a compression thread works on is in the queue,
\* unchanged, and no other thread works on it: no block is freed under a thread,
\* taken twice or put back in the wrong place.
THEOREM WorkCorrect == Spec => []WorkOwned
<1>1. Init => OwnInv
  BY DEF Init, OwnInv, WorkOwned, queue_init, NoWork
<1>2. BaseInv /\ OwnInv /\ [Next]_vars => OwnInv'
  BY OwnStep
<1>3. OwnInv => WorkOwned
  BY DEF OwnInv
<1>4. QED
  BY <1>1, <1>2, <1>3, BaseInvariant, PTL DEF Spec
=============================================================================
