----------------------- MODULE RestorePipeline_proofs -----------------------
(***************************************************************************)
(* Safety of the restore operation for any archive that names existing     *)
(* objects, any job, any number of decompression threads, any limits and   *)
(* any combination of faults: its types, its queue, and which thread may   *)
(* touch a block; what was not asked for is left alone; an operation that  *)
(* has ended leaves nothing of it running; and the threads implement the   *)
(* reading of ArchiveReading.                                              *)
(***************************************************************************)
EXTENDS RestorePipeline, CQueue_proofs

\* What the reader may put into the queue: the header of an object names one.
Readable == {r \in Record : r.magic = "OBJT" => NamesObject(r)}

\* The objects the main thread has taken from the queue exist.
TakenExist ==
  /\ xpc \in {"file", "block", "close", "footer", "counting"} => NamesObject(file.hdr)
  /\ xpc \in {"group", "smallfiles"} =>
       group # <<>> /\ \A k \in DOMAIN group : NamesObject(group[k])

\* The reader is at a volume when it reads.
AtVolume ==
  /\ rpc \in {"none", "open"} => rvol = 1
  /\ rpc \in {"loop", "add"} => rvol \in DOMAIN archive

\* Before the threads are created none of them is anywhere.
StartsOnce ==
  xpc = "start" => rpc = "none" /\ \A t \in DecompThreads : dpc[t] = "none"

ArchiveOK == archive \in Seq(StoredVolume) /\ Restorable(archive)

WorkTypeOK ==
  /\ dpc \in [DecompThreads -> {"none", "new", "idle", "work", "exit"}]
  /\ dwork \in [DecompThreads -> [num : Nat, val : Readable]]

\* Only blocks are taken for decompression.
BlocksOnly ==
  /\ \A i \in DOMAIN list : list[i].status = "todo" => list[i].val.magic = "BLKH"
  /\ \A t \in DecompThreads : dpc[t] = "work" => dwork[t].val.magic = "BLKH"

\* The inductive invariant of the types and of the queue.
BaseInv ==
  /\ QInv(Readable) /\ MainTypeOK /\ ReaderTypeOK /\ WorkTypeOK
  /\ job \in Job /\ ArchiveOK
  /\ stop \in BOOLEAN /\ abort \in BOOLEAN
  /\ ritem \in Readable /\ TakenExist /\ AtVolume /\ StartsOnce /\ BlocksOnly

-----------------------------------------------------------------------------
\* The blank record and the absence of work.
LEMMA BlankType ==
  /\ Blank \in Readable /\ Blank \in Record
  /\ NoWork \in [num : Nat, val : Readable]
  /\ NoFile \in [hdr : Record, data : Seq(Record), closed : BOOLEAN, minor : BOOLEAN,
                 del : BOOLEAN]
<1>1. <<>> \in Seq(Nat) /\ <<>> \in Seq(Record)
  BY EmptySeq
<1>2. Blank \in Record /\ Blank.magic = "MAIN"
  BY <1>1 DEF Blank, Rec, Record, Magic
<1>3. Blank \in Readable
  BY <1>2 DEF Readable
<1>4. QED
  BY <1>1, <1>2, <1>3 DEF NoWork, NoFile

LEMMA TreesType ==
  ASSUME NEW t \in DOMAIN Trees
  PROVE  /\ DOMAIN Trees[t] = 1 .. Len(Trees[t])
         /\ \A e \in DOMAIN Trees[t] : Trees[t][e] \in Entry
<1>1. Trees \in Seq(Seq(Entry)) /\ t \in 1 .. Len(Trees)
  BY RestoreAssumption, LenProperties
<1>2. Trees[t] \in Seq(Entry)
  BY <1>1, ElementOfSeq
<1>3. DOMAIN Trees[t] = 1 .. Len(Trees[t])
  BY <1>2, LenProperties
<1>4. \A e \in 1 .. Len(Trees[t]) : Trees[t][e] \in Entry
  BY <1>2, ElementOfSeq
<1>5. QED
  BY <1>3, <1>4

\* The object a header names.
LEMMA ObjectExists ==
  ASSUME NEW r, NamesObject(r)
  PROVE  /\ ObjectOf(r) \in Objects
         /\ KindAt(r) \in {"dir", "meta", "link", "unique", "multi", "self"}
         /\ BlocksAt(r) \in Nat
         /\ KindAt(r) = "link" => FirstLink(ObjectOf(r)) \in Objects
<1>1. r.tree \in DOMAIN Trees /\ r.objs[1] \in DOMAIN Trees[r.tree]
  BY DEF NamesObject
<1>2. Trees[r.tree][r.objs[1]] \in Entry
  BY <1>1, TreesType
<1>3. ObjectOf(r) \in Objects
  BY <1>1 DEF ObjectOf, Objects
<1>4. KindAt(r) \in {"dir", "meta", "link", "unique", "multi", "self"} /\ BlocksAt(r) \in Nat
  BY <1>2 DEF KindAt, BlocksAt, Entry
<1>5. ASSUME KindAt(r) = "link"
      PROVE  FirstLink(ObjectOf(r)) \in Objects
  <2> DEFINE e == r.objs[1]
             k == Trees[r.tree][e].size
  <2>1. k \in 1 .. e - 1
    BY <1>1, <1>5, RestoreAssumption DEF KindAt
  <2>2. e \in 1 .. Len(Trees[r.tree]) /\ DOMAIN Trees[r.tree] = 1 .. Len(Trees[r.tree])
    BY <1>1, TreesType
  <2>3. k \in DOMAIN Trees[r.tree]
    <3> HIDE DEF e, k
    <3>1. QED
      BY <2>1, <2>2
  <2>4. FirstLink(ObjectOf(r)) = <<r.tree, k>>
    BY DEF FirstLink, ObjectOf
  <2>5. QED
    BY <1>1, <2>3, <2>4 DEF Objects
<1>6. QED
  BY <1>3, <1>4, <1>5

\* What the head of the queue is.
LEMMA HeadType ==
  ASSUME QInv(Readable), list # <<>>
  PROVE  /\ Head(list) \in Item(Readable) /\ Head(list).val \in Readable
         /\ Head(list).val \in Record
         /\ Head(list).val.magic = "OBJT" => NamesObject(Head(list).val)
<1>1. list \in Seq(Item(Readable))
  BY DEF QInv, QTypeOK
<1>2. Head(list) \in Item(Readable)
  BY <1>1, HeadTailProperties
<1>3. Head(list).val \in Readable
  BY <1>2 DEF Item
<1>4. QED
  BY <1>2, <1>3 DEF Readable

-----------------------------------------------------------------------------
\* What a step of the main thread can do to the queue: nothing, or remove the
\* head, unless a thread is working on that.
MainQueueStep ==
  \/ UNCHANGED qvars
  \/ HeadIs({"todo", "done"}) /\ RemoveHead

LEMMA DequeueSteps ==
  /\ queue_dequeue_header => HeadIs({"todo", "done"}) /\ RemoveHead
  /\ queue_dequeue_block => HeadIs({"todo", "done"}) /\ RemoveHead
  /\ queue_destroy_first_item => HeadIs({"todo", "done"}) /\ RemoveHead
  /\ \A m : Expect(m) => queue_dequeue_header
  /\ \A m : Disappoint(m) => UNCHANGED qvars \/ queue_dequeue_header
  /\ \A k : queue_dequeue_fails(k) => UNCHANGED qvars
  /\ \A k : Taking(k) => queue_dequeue_header
BY DEF queue_dequeue_header, queue_dequeue_block, queue_destroy_first_item, Expect,
       Disappoint, queue_dequeue_fails, Taking, HeadIs

LEMMA MainQueueSteps ==
  ASSUME MainStep
  PROVE  MainQueueStep
<1> USE DequeueSteps DEF MainQueueStep
<1>1. CASE \/ XStart \/ XMainHead \/ XFsInfo \/ XDirsInfo \/ XNextFS \/ XBeginFS
           \/ XTargetFails \/ XBeginDir \/ XNoPassword \/ XHeaderMissing
  BY <1>1 DEF XStart, XMainHead, XFsInfo, XDirsInfo, XNextFS, XBeginFS,
              XTargetFails, XBeginDir, XNoPassword, XHeaderMissing
<1>2. CASE \/ XSkipGarbage \/ XArchiveEnds \/ XForeignObject \/ XObject \/ XLink
           \/ XNextObject \/ XObjectsEnd \/ XEndFS \/ XEndFSFails
  BY <1>2 DEF XSkipGarbage, XArchiveEnds, XForeignObject, XObject, XLink,
              XNextObject, XObjectsEnd, XEndFS, XEndFSFails
<1>3. CASE \/ XOpenFile \/ XBlockLoop \/ XBlock \/ XBlockMissing \/ XWriteFails
           \/ XClose \/ XFooter \/ XCountFile
  BY <1>3 DEF XOpenFile, XBlockLoop, XBlock, XBlockMissing, XWriteFails, XClose, XFooter,
              XCountFile
<1>4. CASE \/ XFirstSmallFile \/ XGroupHeader \/ XGroupBlock \/ XGroupFails \/ XSmallFile
           \/ XSmallFileWriteFails \/ XFinal \/ XAskToStop \/ XAwaitBlocks \/ XDrain
           \/ XDestroy \/ XJoin
  BY <1>4 DEF XFirstSmallFile, XGroupHeader, XGroupBlock, XGroupFails, XSmallFile,
              XSmallFileWriteFails, XFinal, XAskToStop, XAwaitBlocks, XDrain, XDestroy, XJoin
<1>5. QED
  BY <1>1, <1>2, <1>3, <1>4 DEF MainStep

LEMMA MainQueue ==
  ASSUME QInv(Readable), MainStep
  PROVE  QInv(Readable)'
<1>1. MainQueueStep
  BY MainQueueSteps
<1>2. QED
  BY <1>1, SameQueueSound, RemoveHeadSound DEF MainQueueStep, HeadIs

-----------------------------------------------------------------------------
(***************************************************************************)
(* The main thread's own variables.                                        *)
(***************************************************************************)
LocalInv == MainTypeOK /\ TakenExist

Busy == {"file", "block", "close", "footer", "counting", "group", "smallfiles"}

\* A step to a place where the main thread holds no object.
LEMMA LocalFree ==
  ASSUME LocalInv,
         xpc' \in MainPC \ Busy, fs' \in Nat \ {0}, file' \in {file, NoFile},
         group' = group \/ group' \in Seq(Record), objerrs' \in BOOLEAN,
         counted' \subseteq Objects, failed' \subseteq Objects,
         disk' \in [Objects -> {"old", "absent", "wrong", "empty", "right"}],
         ret' \in {0, -1}
  PROVE  LocalInv'
BY BlankType DEF LocalInv, MainTypeOK, TakenExist, Busy

LEMMA LocalStart ==
  ASSUME LocalInv,
         XStart \/ XMainHead \/ XFsInfo \/ XDirsInfo \/ XNextFS \/ XBeginFS
           \/ XTargetFails \/ XBeginDir \/ XNoPassword \/ XHeaderMissing
  PROVE  LocalInv'
<1> USE DEF XGoto, XFail
<1>1. Mkfs \in [Objects -> {"old", "absent", "wrong", "empty", "right"}]
  BY DEF Mkfs, LocalInv, MainTypeOK
<1>2. /\ xpc' \in MainPC \ Busy
      /\ fs' \in {fs, fs + 1, 1}
      /\ UNCHANGED <<file, group, counted, failed>>
      /\ objerrs' \in {objerrs, FALSE} /\ ret' \in {ret, -1}
  BY DEF XStart, XMainHead, XFsInfo, XDirsInfo, XNextFS, XBeginFS, XTargetFails,
         XBeginDir, XNoPassword, XHeaderMissing, MainPC, Busy
<1>3. disk' \in {disk, Mkfs}
  BY DEF XStart, XMainHead, XFsInfo, XDirsInfo, XNextFS, XBeginFS, XTargetFails,
         XBeginDir, XNoPassword, XHeaderMissing
<1>4. /\ fs' \in Nat \ {0} /\ ret' \in {0, -1}
      /\ counted' \subseteq Objects /\ failed' \subseteq Objects
  BY <1>2 DEF LocalInv, MainTypeOK
<1>5. objerrs' \in BOOLEAN
  BY <1>2, Zenon DEF LocalInv, MainTypeOK
<1>6. disk' \in [Objects -> {"old", "absent", "wrong", "empty", "right"}]
  BY <1>1, <1>3 DEF LocalInv, MainTypeOK
<1>7. QED
  BY <1>2, <1>4, <1>5, <1>6, LocalFree

\* Steps in the loop over the objects that take no file.
LEMMA LocalObjects ==
  ASSUME LocalInv, QInv(Readable),
         XSkipGarbage \/ XArchiveEnds \/ XForeignObject \/ XObject \/ XLink
           \/ XNextObject \/ XObjectsEnd \/ XEndFS \/ XEndFSFails
  PROVE  LocalInv'
<1> USE DEF XGoto, XFail
<1>1. CASE XSkipGarbage
  BY <1>1 DEF XSkipGarbage, xvars, LocalInv, MainTypeOK, TakenExist
<1>2. CASE XArchiveEnds \/ XForeignObject \/ XNextObject \/ XObjectsEnd \/ XEndFS \/ XEndFSFails
  <2>1. /\ xpc' \in MainPC \ Busy
        /\ fs' \in {fs, fs + 1}
        /\ UNCHANGED <<file, group, counted, failed, disk>>
        /\ objerrs' \in {objerrs, TRUE} /\ ret' \in {ret, -1}
    BY <1>2 DEF XArchiveEnds, XForeignObject, XNextObject, XObjectsEnd, XEndFS, XEndFSFails,
                MainPC, Busy
  <2>2. /\ fs' \in Nat \ {0} /\ ret' \in {0, -1}
        /\ counted' \subseteq Objects /\ failed' \subseteq Objects
        /\ disk' \in [Objects -> {"old", "absent", "wrong", "empty", "right"}]
    BY <2>1 DEF LocalInv, MainTypeOK
  <2>3. objerrs' \in BOOLEAN
    BY <2>1, Zenon DEF LocalInv, MainTypeOK
  <2>4. QED
    BY <2>1, <2>2, <2>3, LocalFree
<1> DEFINE o == ObjectOf(Head(list).val)
<1>3. ASSUME NEW K, Taking(K)
      PROVE  NamesObject(Head(list).val) /\ o \in Objects
             /\ (KindAt(Head(list).val) = "link" => FirstLink(o) \in Objects)
  BY <1>3, HeadType, ObjectExists DEF Taking, HeadIs, HeadMagic
<1>4. CASE XObject
  <2>1. o \in Objects
    BY <1>3, <1>4 DEF XObject
  <2>2. /\ xpc' = "next" /\ UNCHANGED <<fs, file, group, objerrs, ret>>
        /\ counted' \in {counted, counted \cup {o}} /\ failed' \in {failed, failed \cup {o}}
        /\ disk' \in {disk, [disk EXCEPT ![o] = "right"]}
    BY <1>4 DEF XObject
  <2> HIDE DEF o
  <2>3. QED
    BY <2>1, <2>2, LocalFree DEF LocalInv, MainTypeOK, MainPC, Busy
<1>5. CASE XLink
  <2>1. o \in Objects /\ FirstLink(o) \in Objects
    BY <1>3, <1>5 DEF XLink, Taking
  <2>2. /\ xpc' = "next" /\ UNCHANGED <<fs, file, group, objerrs, ret>>
        /\ counted' \in {counted, counted \cup {o}} /\ failed' \in {failed, failed \cup {o}}
        /\ disk' \in {disk, [disk EXCEPT ![o] = disk[FirstLink(o)]]}
    BY <1>5 DEF XLink
  <2> HIDE DEF o
  <2>3. QED
    BY <2>1, <2>2, LocalFree DEF LocalInv, MainTypeOK, MainPC, Busy
<1>6. QED
  BY <1>1, <1>2, <1>4, <1>5

\* Steps with a regular file in hand.
LEMMA LocalFile ==
  ASSUME LocalInv, QInv(Readable),
         XOpenFile \/ XBlockLoop \/ XBlock \/ XBlockMissing \/ XWriteFails \/ XClose
           \/ XFooter \/ XCountFile
  PROVE  LocalInv'
<1> USE DEF XGoto, XFail, LocalInv
<1> DEFINE File == [hdr : Record, data : Seq(Record), closed : BOOLEAN, minor : BOOLEAN,
                    del : BOOLEAN]
<1>1. file \in File
  BY DEF MainTypeOK
<1>2. ASSUME xpc \in {"file", "block", "close", "footer", "counting"}
      PROVE  NamesObject(file.hdr) /\ This \in Objects
  BY <1>2, ObjectExists DEF TakenExist, This
<1>3. CASE XOpenFile
  <2> DEFINE r == Head(list).val
             o == ObjectOf(r)
  <2>1. NamesObject(r) /\ o \in Objects /\ r \in Record
    BY <1>3, HeadType, ObjectExists DEF XOpenFile, Taking, HeadIs, HeadMagic
  <2>2. /\ xpc' = "file" /\ UNCHANGED <<fs, group, objerrs, counted, failed, ret>>
        /\ \/ file' = [NoFile EXCEPT !.hdr = r]
           \/ file' = [NoFile EXCEPT !.hdr = r, !.minor = TRUE]
        /\ disk' \in {disk, [disk EXCEPT ![o] = "wrong"]}
    BY <1>3 DEF XOpenFile
  <2> HIDE DEF r
  <2>3. file' \in File /\ file'.hdr = r
    BY <2>1, <2>2, BlankType DEF NoFile
  <2>4. disk' \in [Objects -> {"old", "absent", "wrong", "empty", "right"}]
    BY <2>1, <2>2 DEF MainTypeOK
  <2>5. QED
    BY <2>1, <2>2, <2>3, <2>4 DEF MainTypeOK, MainPC, TakenExist
<1>4. CASE XBlockLoop
  BY <1>4 DEF XBlockLoop, MainTypeOK, MainPC, TakenExist
<1>5. CASE XBlock \/ XBlockMissing
  <2>1. /\ xpc = "block" /\ xpc' = "file"
        /\ UNCHANGED <<fs, group, objerrs, counted, failed, disk, ret>>
    BY <1>5 DEF XBlock, XBlockMissing
  <2>2. file' \in File /\ file'.hdr = file.hdr
    <3>1. ASSUME NEW r \in Record
          PROVE  /\ [file EXCEPT !.data = Append(@, r)] \in File
                 /\ [file EXCEPT !.data = Append(@, r)].hdr = file.hdr
      <4>1. Append(file.data, r) \in Seq(Record)
        BY <1>1, AppendProperties
      <4>2. QED
        BY <1>1, <4>1
    <3>2. /\ [file EXCEPT !.minor = TRUE, !.del = TRUE] \in File
          /\ [file EXCEPT !.minor = TRUE, !.del = TRUE].hdr = file.hdr
      BY <1>1
    <3>3. CASE XBlock
      <4>1. Head(list).val \in Record
        BY <3>3, HeadType DEF XBlock, queue_dequeue_block, HeadIs
      <4>2. QED
        BY <3>1, <3>2, <3>3, <4>1 DEF XBlock
    <3>4. CASE XBlockMissing
      BY <3>2, <3>4 DEF XBlockMissing
    <3>5. QED
      BY <1>5, <3>3, <3>4
  <2>3. QED
    BY <2>1, <2>2 DEF MainTypeOK, MainPC, TakenExist
<1>6. CASE XWriteFails
  <2>1. /\ xpc = "block" /\ xpc' = "teardown" /\ ret' = -1
        /\ UNCHANGED <<fs, file, group, objerrs, counted>>
        /\ disk' = [disk EXCEPT ![This] = "absent"] /\ failed' = failed \cup {This}
    BY <1>6 DEF XWriteFails
  <2>2. QED
    BY <1>2, <2>1, LocalFree DEF MainTypeOK, MainPC, Busy
<1>7. CASE XClose
  <2>1. /\ xpc = "close" /\ xpc' \in {"footer", "counting"}
        /\ UNCHANGED <<fs, group, objerrs, counted, failed, ret>>
        /\ disk' \in {disk, [disk EXCEPT ![This] = "right"]}
    BY <1>7 DEF XClose
  <2>2. file' \in File /\ file'.hdr = file.hdr
    <3>1. \/ file' = file
          \/ \E b \in BOOLEAN : file' = [file EXCEPT !.closed = TRUE, !.minor = b]
      BY <1>7 DEF XClose
    <3>2. QED
      BY <1>1, <3>1
  <2>3. QED
    BY <1>2, <2>1, <2>2 DEF MainTypeOK, MainPC, TakenExist
<1>8. CASE XFooter
  <2>1. /\ xpc = "footer" /\ xpc' = "counting"
        /\ UNCHANGED <<fs, group, objerrs, counted, failed, disk, ret>>
    BY <1>8 DEF XFooter
  <2>2. \/ file' = file
        \/ file' = [file EXCEPT !.minor = TRUE]
        \/ file' = [file EXCEPT !.minor = TRUE, !.del = TRUE]
    BY <1>8 DEF XFooter
  <2>3. file' \in File /\ file'.hdr = file.hdr
    BY <1>1, <2>2
  <2>4. QED
    BY <2>1, <2>3 DEF MainTypeOK, MainPC, TakenExist
<1>9. CASE XCountFile
  <2>1. /\ xpc = "counting" /\ xpc' = "next" /\ file' = NoFile
        /\ UNCHANGED <<fs, group, objerrs, ret>>
        /\ disk' \in {disk, [disk EXCEPT ![This] = "absent"]}
        /\ counted' \in {counted, counted \cup {This}}
        /\ failed' \in {failed, failed \cup {This}}
    BY <1>9 DEF XCountFile
  <2>2. QED
    BY <1>2, <2>1, LocalFree DEF MainTypeOK, MainPC, Busy
<1>10. QED
  BY <1>3, <1>4, <1>5, <1>6, <1>7, <1>8, <1>9

\* Steps with a group of small files in hand.
LEMMA LocalGroup ==
  ASSUME LocalInv, QInv(Readable),
         XFirstSmallFile \/ XGroupHeader \/ XGroupBlock \/ XGroupFails \/ XSmallFile
           \/ XSmallFileWriteFails
  PROVE  LocalInv'
<1> USE DEF XGoto, XFail, LocalInv
<1> DEFINE File == [hdr : Record, data : Seq(Record), closed : BOOLEAN, minor : BOOLEAN,
                    del : BOOLEAN]
           Held == {"old", "absent", "wrong", "empty", "right"}
<1>1. CASE XFirstSmallFile
  <2>1. NamesObject(Head(list).val) /\ Head(list).val \in Record
    BY <1>1, HeadType DEF XFirstSmallFile, Taking, HeadIs, HeadMagic
  <2>2. /\ xpc' = "group" /\ group' = <<Head(list).val>>
        /\ UNCHANGED <<fs, file, objerrs, counted, failed, disk, ret>>
    BY <1>1 DEF XFirstSmallFile
  <2>3. QED
    BY <2>1, <2>2 DEF MainTypeOK, MainPC, TakenExist
<1>2. CASE XGroupHeader
  <2>1. NamesObject(Head(list).val) /\ Head(list).val \in Record
    BY <1>2, HeadType DEF XGroupHeader, Expect, queue_dequeue_header, HeadIs
  <2>2. /\ xpc = "group" /\ group' = Append(group, Head(list).val)
        /\ UNCHANGED <<xpc, fs, file, objerrs, counted, failed, disk, ret>>
    BY <1>2 DEF XGroupHeader
  <2>3. /\ group \in Seq(Record) /\ group # <<>>
        /\ \A k \in DOMAIN group : NamesObject(group[k])
    BY <2>2 DEF MainTypeOK, TakenExist
  <2> DEFINE r == Head(list).val
  <2> HIDE DEF r
  <2>4. /\ Append(group, r) \in Seq(Record) /\ Append(group, r) # <<>>
        /\ \A k \in DOMAIN Append(group, r) :
             \/ k \in DOMAIN group /\ Append(group, r)[k] = group[k]
             \/ Append(group, r)[k] = r
    BY <2>1, <2>3, AppendProperties, LenProperties DEF r
  <2>5. /\ group' # <<>> /\ group' \in Seq(Record)
        /\ \A k \in DOMAIN group' : NamesObject(group'[k])
    BY <2>1, <2>2, <2>3, <2>4 DEF r
  <2>6. QED
    BY <2>2, <2>5 DEF MainTypeOK, TakenExist
<1>3. CASE XGroupBlock
  <2>1. Head(list).val \in Record
    BY <1>3, HeadType DEF XGroupBlock, queue_dequeue_block, HeadIs
  <2>2. /\ xpc = "group" /\ xpc' = "smallfiles" /\ UNCHANGED <<fs, group, objerrs, counted, failed, disk, ret>>
        /\ file' = [NoFile EXCEPT !.data = <<Head(list).val>>]
    BY <1>3 DEF XGroupBlock
  <2>3. file' \in File
    <3>1. <<Head(list).val>> \in Seq(Record)
      BY <2>1
    <3>2. QED
      BY <2>2, <3>1, BlankType DEF NoFile
  <2>4. QED
    BY <2>2, <2>3 DEF MainTypeOK, MainPC, TakenExist
<1>4. CASE XGroupFails
  <2>1. /\ xpc' = "teardown" /\ ret' = -1
        /\ UNCHANGED <<fs, file, group, objerrs, counted, failed, disk>>
    BY <1>4 DEF XGroupFails
  <2>2. QED
    BY <2>1, LocalFree DEF MainTypeOK, MainPC, Busy
<1>5. ASSUME xpc = "smallfiles"
      PROVE  /\ group \in Seq(Record) /\ group # <<>>
             /\ \A k \in DOMAIN group : NamesObject(group[k])
             /\ NamesObject(Head(group)) /\ ObjectOf(Head(group)) \in Objects
             /\ Tail(group) \in Seq(Record)
             /\ \A k \in DOMAIN Tail(group) : NamesObject(Tail(group)[k])
             /\ Len(group) > 1 => Tail(group) # <<>>
  <2>1. /\ group \in Seq(Record) /\ group # <<>>
        /\ \A k \in DOMAIN group : NamesObject(group[k])
    BY <1>5 DEF MainTypeOK, TakenExist
  <2>2. /\ Len(group) \in Nat /\ Len(group) > 0 /\ DOMAIN group = 1 .. Len(group)
        /\ Tail(group) \in Seq(Record) /\ Len(Tail(group)) = Len(group) - 1
        /\ DOMAIN Tail(group) = 1 .. Len(group) - 1
        /\ \A k \in 1 .. Len(group) - 1 : Tail(group)[k] = group[k + 1]
        /\ Head(group) = group[1]
    BY <2>1, HeadTailProperties, LenProperties, EmptySeq
  <2>3. NamesObject(Head(group))
    BY <2>1, <2>2
  <2>4. \A k \in DOMAIN Tail(group) : NamesObject(Tail(group)[k])
    BY <2>1, <2>2
  <2>5. Len(group) > 1 => Tail(group) # <<>>
    <3>1. Len(<<>>) = 0
      BY EmptySeq
    <3>2. Len(group) > 1 => Len(Tail(group)) # 0
      BY <2>2
    <3>3. QED
      BY <3>1, <3>2, Zenon
  <2>6. QED
    BY <2>1, <2>2, <2>3, <2>4, <2>5, ObjectExists
<1>6. CASE XSmallFile
  <2> DEFINE o == ObjectOf(Head(group))
  <2>1. xpc = "smallfiles" /\ o \in Objects
    BY <1>5, <1>6 DEF XSmallFile
  <2>2. PICK out \in SmallFileOutcomes(Head(group)) :
          /\ disk' = [disk EXCEPT ![o] = out.disk]
          /\ counted' = IF out.count = "ok" THEN counted \cup {o} ELSE counted
          /\ failed' = IF out.count = "error" THEN failed \cup {o} ELSE failed
    BY <1>6 DEF XSmallFile
  <2>3. out.disk \in Held
    <3>1. disk[o] \in Held
      BY <2>1 DEF MainTypeOK
    <3>2. \A d \in Held : Placed(Head(group), d) \in Held
      BY <3>1 DEF Placed
    <3>3. QED
      BY <3>1, <3>2 DEF SmallFileOutcomes
  <2>4. /\ xpc' = IF Len(group) > 1 THEN "smallfiles" ELSE "next"
        /\ group' = Tail(group) /\ file' \in {file, NoFile}
        /\ UNCHANGED <<fs, objerrs, ret>>
    BY <1>6 DEF XSmallFile
  <2> HIDE DEF o
  <2>5. MainTypeOK'
    <3>1. disk' \in [Objects -> Held] /\ counted' \subseteq Objects /\ failed' \subseteq Objects
      BY <2>1, <2>2, <2>3 DEF MainTypeOK
    <3>2. file' \in File /\ group' \in Seq(Record) /\ xpc' \in MainPC
      BY <1>5, <2>1, <2>4, BlankType DEF MainTypeOK, MainPC
    <3>3. fs' \in Nat \ {0} /\ objerrs' \in BOOLEAN /\ ret' \in {0, -1}
      BY <2>4 DEF MainTypeOK
    <3>4. QED
      BY <3>1, <3>2, <3>3 DEF MainTypeOK
  <2>6. TakenExist'
    BY <1>5, <2>1, <2>4 DEF TakenExist
  <2>7. QED
    BY <2>5, <2>6
<1>7. CASE XSmallFileWriteFails
  <2> DEFINE o == ObjectOf(Head(group))
  <2>1. xpc = "smallfiles" /\ o \in Objects
    BY <1>5, <1>7 DEF XSmallFileWriteFails
  <2>2. /\ xpc' = "teardown" /\ ret' = -1
        /\ UNCHANGED <<fs, file, group, objerrs, counted, failed>>
        /\ disk' = [disk EXCEPT ![o] = Placed(Head(group), "absent")]
    BY <1>7 DEF XSmallFileWriteFails
  <2>3. Placed(Head(group), "absent") \in Held
    BY <2>1 DEF Placed, MainTypeOK
  <2> HIDE DEF o
  <2>4. disk' \in [Objects -> Held]
    BY <2>1, <2>2, <2>3 DEF MainTypeOK
  <2>5. QED
    BY <2>2, <2>4, LocalFree DEF MainTypeOK, MainPC, Busy
<1>8. QED
  BY <1>1, <1>2, <1>3, <1>4, <1>6, <1>7

\* The end of the operation.
LEMMA LocalEnd ==
  ASSUME LocalInv,
         XFinal \/ XAskToStop \/ XAwaitBlocks \/ XDrain \/ XDestroy \/ XJoin
  PROVE  LocalInv'
<1>1. /\ xpc' \in MainPC \ Busy
      /\ UNCHANGED <<fs, file, group, objerrs, counted, failed, disk>>
      /\ ret' \in {ret, 0, -1}
  BY DEF XFinal, XAskToStop, XAwaitBlocks, XDrain, XDestroy, XJoin, Aside, XGoto, MainPC, Busy
<1>2. /\ fs' \in Nat \ {0} /\ objerrs' \in BOOLEAN /\ ret' \in {0, -1}
      /\ counted' \subseteq Objects /\ failed' \subseteq Objects
      /\ disk' \in [Objects -> {"old", "absent", "wrong", "empty", "right"}]
  BY <1>1 DEF LocalInv, MainTypeOK
<1>3. QED
  BY <1>1, <1>2, LocalFree

LEMMA MainLocal ==
  ASSUME LocalInv, QInv(Readable), MainStep
  PROVE  LocalInv'
BY LocalStart, LocalObjects, LocalFile, LocalGroup, LocalEnd DEF MainStep

\* What a step of the main thread does to the variables of the others.
LEMMA MainOthers ==
  ASSUME MainStep
  PROVE  /\ UNCHANGED <<abort, job, archive, damaged, rvol, rpos, ritem, dwork>>
         /\ xpc' # "start"
         /\ stop' = stop \/ stop' = TRUE \/ stop' = FALSE
         /\ UNCHANGED <<rpc, dpc>> \/ XStart
<1> USE DEF Elsewhere, Aside, rvars, dvars, xvars, XGoto, XFail
<1>1. CASE XStart
  BY <1>1 DEF XStart
<1>2. CASE \/ XMainHead \/ XFsInfo \/ XDirsInfo \/ XNextFS \/ XBeginFS
           \/ XTargetFails \/ XBeginDir \/ XNoPassword \/ XHeaderMissing
  BY <1>2 DEF XMainHead, XFsInfo, XDirsInfo, XNextFS, XBeginFS,
              XTargetFails, XBeginDir, XNoPassword, XHeaderMissing
<1>3. CASE \/ XSkipGarbage \/ XArchiveEnds \/ XForeignObject \/ XObject \/ XLink
           \/ XNextObject \/ XObjectsEnd \/ XEndFS \/ XEndFSFails
  BY <1>3 DEF XSkipGarbage, XArchiveEnds, XForeignObject, XObject, XLink,
              XNextObject, XObjectsEnd, XEndFS, XEndFSFails
<1>4. CASE \/ XOpenFile \/ XBlockLoop \/ XBlock \/ XBlockMissing \/ XWriteFails
           \/ XClose \/ XFooter \/ XCountFile
  BY <1>4 DEF XOpenFile, XBlockLoop, XBlock, XBlockMissing, XWriteFails, XClose, XFooter,
              XCountFile
<1>5. CASE \/ XFirstSmallFile \/ XGroupHeader \/ XGroupBlock \/ XGroupFails \/ XSmallFile
           \/ XSmallFileWriteFails \/ XFinal
  BY <1>5 DEF XFirstSmallFile, XGroupHeader, XGroupBlock, XGroupFails, XSmallFile,
              XSmallFileWriteFails, XFinal
<1>6. CASE XAskToStop \/ XAwaitBlocks \/ XDrain \/ XDestroy \/ XJoin
  BY <1>6 DEF XAskToStop, XAwaitBlocks, XDrain, XDestroy, XJoin
<1>7. QED
  BY <1>1, <1>2, <1>3, <1>4, <1>5, <1>6 DEF MainStep

-----------------------------------------------------------------------------
(***************************************************************************)
(* The threads.                                                            *)
(***************************************************************************)
LEMMA UnpackType ==
  ASSUME NEW v \in Readable
  PROVE  Unpack(v) \in Readable
BY DEF Unpack, Readable, Record, NamesObject

LEMMA ZerosType ==
  ASSUME NEW v \in Record, v.magic = "BLKH"
  PROVE  Zeros(v) \in Readable /\ Zeros(v) \in Record /\ Zeros(v).magic = "BLKH"
<1>1. <<>> \in Seq(Nat)
  BY EmptySeq
<1>2. Zeros(v) \in Record /\ Zeros(v).magic = "BLKH"
  BY <1>1 DEF Zeros, Record
<1>3. QED
  BY <1>2 DEF Readable

\* What the reader finds at a volume.
LEMMA VolumeType ==
  ASSUME ArchiveOK, NEW v \in DOMAIN archive
  PROVE  /\ DOMAIN archive = 1 .. Len(archive)
         /\ archive[v].recs \in Seq(Record) /\ Len(archive[v].recs) \in Nat
         /\ DOMAIN archive[v].recs = 1 .. Len(archive[v].recs)
         /\ \A p \in 1 .. Len(archive[v].recs) : archive[v].recs[p] \in Readable
         /\ archive[v].foot \in {"none", "more", "last"}
<1>1. archive \in Seq(StoredVolume) /\ NamesObjects(archive)
  BY DEF ArchiveOK, Restorable
<1>2. DOMAIN archive = 1 .. Len(archive) /\ archive[v] \in StoredVolume
  BY <1>1, LenProperties, ElementOfSeq
<1> DEFINE q == archive[v].recs
<1>3. q \in Seq(Record) /\ archive[v].foot \in {"none", "more", "last"}
  BY <1>2 DEF StoredVolume
<1>4. Len(q) \in Nat /\ DOMAIN q = 1 .. Len(q)
  BY <1>3, LenProperties
<1>5. \A p \in 1 .. Len(q) : q[p] \in Record
  BY <1>3, ElementOfSeq
<1>6. ASSUME NEW p \in DOMAIN q, q[p].magic = "OBJT"
      PROVE  NamesObject(q[p])
  <2>1. <<v, p>> \in Places(archive) /\ RecordAt(archive, <<v, p>>) = q[p]
    BY <1>6 DEF Places, RecordAt
  <2>2. QED
    BY <1>1, <1>6, <2>1 DEF NamesObjects
<1>7. QED
  BY <1>2, <1>3, <1>4, <1>5, <1>6 DEF Readable

\* What is lost has its type.
LEMMA LosesType ==
  ASSUME ReaderTypeOK, NEW fault, NEW part \in {"header", "data"}, NEW r \in Record,
         Loses(fault, part, r)
  PROVE  damaged' \subseteq [part : {"header", "data"}, of : Record]
BY DEF ReaderTypeOK, Loses

\* A decompression thread puts back what it has taken, unpacked, or zeros for it.
LEMMA DecompBase ==
  ASSUME QInv(Readable), WorkTypeOK, BlocksOnly, NEW t \in DecompThreads, DecompStep(t)
  PROVE  QInv(Readable)' /\ WorkTypeOK'
<1>1. CASE DTake(t)
  <2>1. PICK i \in DOMAIN list :
          /\ queue_get_first_block_todo(i)
          /\ dwork' = [dwork EXCEPT ![t] = [num |-> list[i].num, val |-> list[i].val]]
    BY <1>1 DEF DTake
  <2>2. list \in Seq(Item(Readable))
    BY DEF QInv, QTypeOK
  <2>3. list[i].num \in Nat /\ list[i].val \in Readable
    BY <2>2, ItemAt DEF Item
  <2>4. WorkTypeOK'
    BY <1>1, <2>1, <2>3 DEF WorkTypeOK, DTake
  <2>5. QED
    BY <2>1, <2>4, GetFirstBlockTodoSound
<1>2. CASE DReplace(t) \/ DReplaceSpoilt(t)
  <2>1. PICK v \in Readable : queue_replace_block(dwork[t].num, v, "done")
    <3>1. dwork[t].val \in Readable /\ Unpack(dwork[t].val) \in Readable
      BY UnpackType DEF WorkTypeOK
    <3>2. DReplaceSpoilt(t) => Zeros(dwork[t].val) \in Readable
      BY <3>1, ZerosType DEF DReplaceSpoilt, BlocksOnly, Readable
    <3>3. QED
      BY <1>2, <3>1, <3>2 DEF DReplace, DReplaceSpoilt
  <2>2. QInv(Readable)'
    BY <2>1, ReplaceBlockSound
  <2>3. /\ dpc' = [dpc EXCEPT ![t] = "idle"]
        /\ dwork' = [dwork EXCEPT ![t] = NoWork]
    BY <1>2 DEF DReplace, DReplaceSpoilt
  <2>4. NoWork \in [num : Nat, val : Readable]
    BY BlankType DEF NoWork
  <2>5. WorkTypeOK'
    BY <2>3, <2>4 DEF WorkTypeOK
  <2>6. QED
    BY <2>2, <2>5
<1>3. CASE DBegin(t) \/ DFail(t) \/ DExit(t)
  <2>1. UNCHANGED qvars /\ WorkTypeOK'
    BY <1>3 DEF DBegin, DFail, DExit, WorkTypeOK
  <2>2. QED
    BY <2>1, SameQueueSound
<1>4. QED
  BY <1>1, <1>2, <1>3 DEF DecompStep

\* What it does to the variables of the others: what it cannot uncompress is lost.
LEMMA DecompOthers ==
  ASSUME NEW t \in DecompThreads, DecompStep(t)
  PROVE  /\ UNCHANGED <<stop, abort, job, archive, xvars, rpc, rvol, rpos, ritem>>
         /\ DReplaceSpoilt(t) \/ UNCHANGED damaged
BY DEF DecompStep, DBegin, DTake, DReplace, DReplaceSpoilt, DFail, DExit, DElsewhere, rvars

\* The reader stays at the volumes there are.
LEMMA ReaderBase ==
  ASSUME QInv(Readable), ArchiveOK, ReaderTypeOK, ritem \in Readable, AtVolume,
         ReaderStep \/ RAsk
  PROVE  QInv(Readable)' /\ ReaderTypeOK' /\ ritem' \in Readable /\ AtVolume'
<1> USE DEF RGoto
<1>0. /\ rpc \in {"none", "open", "loop", "add", "ask", "error", "exit"}
      /\ rvol \in Nat \ {0} /\ rpos \in Nat \ {0}
      /\ damaged \subseteq [part : {"header", "data"}, of : Record]
  BY DEF ReaderTypeOK
<1>2. CASE ROpen
  <2>1. archive \in Seq(StoredVolume) /\ archive # <<>> /\ rvol = 1
    BY <1>2 DEF ROpen, FirstVolume, AtVolume, ArchiveOK
  <2>2. 1 \in DOMAIN archive
    BY <2>1, EmptySeq, LenProperties
  <2>3. Recs \in Seq(Record) /\ Recs # <<>>
    BY <1>2, <2>1, <2>2, VolumeType DEF ROpen, FirstVolume, Recs
  <2>4. 1 \in 1 .. Len(Recs)
    BY <2>3, EmptySeq, LenProperties
  <2>5. ritem' \in Readable /\ ritem' \in Record
    BY <1>2, <2>1, <2>2, <2>4, VolumeType DEF ROpen, Recs, Readable
  <2>6. rpc' = "add" /\ rpos' = 2 /\ UNCHANGED <<qvars, archive, rvol, damaged>>
    BY <1>2 DEF ROpen, RElsewhere
  <2>7. QED
    BY <1>0, <2>1, <2>2, <2>5, <2>6, SameQueueSound DEF ReaderTypeOK, AtVolume
<1>3. CASE RReadFails \/ RStop
  <2>1. rpc' = "error" /\ UNCHANGED <<qvars, archive, rvol, rpos, ritem, damaged>>
    BY <1>3 DEF RReadFails, RStop, RElsewhere
  <2>2. QED
    BY <2>1, SameQueueSound DEF ReaderTypeOK, AtVolume
<1>4. ASSUME rpc = "loop"
      PROVE  rvol \in DOMAIN archive /\ Len(Recs) \in Nat /\ foot \in {"none", "more", "last"}
             /\ (rpos <= Len(Recs) => Recs[rpos] \in Readable /\ Recs[rpos] \in Record)
  BY <1>0, <1>4, VolumeType DEF AtVolume, Recs, foot, Readable
<1>5. CASE RSkip \/ RRead
  <2>1. /\ rpc = "loop" /\ rpc' \in {"loop", "add"} /\ rpos <= Len(Recs) /\ rpos' = rpos + 1
        /\ ritem' = ritem \/ ritem' = Recs[rpos]
        /\ UNCHANGED <<qvars, archive, rvol, damaged>>
    BY <1>5 DEF RSkip, RRead, Reading, RElsewhere
  <2>2. ritem' \in Readable /\ ritem' \in Record
    BY <1>4, <2>1 DEF ReaderTypeOK
  <2>3. QED
    BY <1>0, <1>4, <2>1, <2>2, SameQueueSound DEF ReaderTypeOK, AtVolume
<1>6. CASE RDamagedBlock
  <2>1. /\ rpc = "loop" /\ rpc' = "add" /\ rpos <= Len(Recs) /\ rpos' = rpos + 1
        /\ Recs[rpos].magic = "BLKH" /\ ritem' = Zeros(Recs[rpos])
        /\ Loses("damage", "data", Recs[rpos])
        /\ UNCHANGED <<qvars, archive, rvol>>
    BY <1>6 DEF RDamagedBlock, Reading, RElsewhere
  <2>2. Recs[rpos] \in Record
    BY <1>4, <2>1
  <2>3. ritem' \in Record /\ ritem'.magic = "BLKH"
    BY <2>1, <2>2, ZerosType
  <2>4. ritem' \in Readable
    BY <2>3 DEF Readable
  <2>5. damaged' \subseteq [part : {"header", "data"}, of : Record]
    BY <2>1, <2>2, LosesType
  <2>6. QED
    BY <1>0, <1>4, <2>1, <2>3, <2>4, <2>5, SameQueueSound DEF ReaderTypeOK, AtVolume
<1>7. CASE RDamagedHeader
  <2>1. /\ rpc = "loop" /\ rpc' = "loop" /\ rpos' = rpos + 1
        /\ \/ rpos <= Len(Recs) /\ Loses("damage", "header", Recs[rpos])
           \/ Loses("damage", "header", Blank)
        /\ UNCHANGED <<qvars, archive, rvol, ritem>>
    BY <1>7 DEF RDamagedHeader, RElsewhere
  <2>2. damaged' \subseteq [part : {"header", "data"}, of : Record]
    BY <1>4, <2>1, BlankType, LosesType
  <2>3. QED
    BY <1>0, <1>4, <2>1, <2>2, SameQueueSound DEF ReaderTypeOK, AtVolume
<1>8. CASE RDamagedStart
  <2>1. /\ rpc = "open" /\ rpc' = "error" /\ FirstVolume /\ Loses("damage", "header", Recs[1])
        /\ UNCHANGED <<qvars, archive, rvol, rpos, ritem>>
    BY <1>8 DEF RDamagedStart, RElsewhere
  <2>2. archive \in Seq(StoredVolume) /\ archive # <<>> /\ rvol = 1
    BY <2>1 DEF FirstVolume, AtVolume, ArchiveOK
  <2>3. 1 \in DOMAIN archive
    BY <2>2, EmptySeq, LenProperties
  <2>4. Recs \in Seq(Record) /\ Recs # <<>>
    BY <2>1, <2>2, <2>3, VolumeType DEF FirstVolume, Recs
  <2>5. 1 \in 1 .. Len(Recs)
    BY <2>4, EmptySeq, LenProperties
  <2>6. Recs[1] \in Record
    BY <2>4, <2>5, ElementOfSeq
  <2>7. damaged' \subseteq [part : {"header", "data"}, of : Record]
    BY <2>1, <2>6, LosesType
  <2>8. QED
    BY <1>0, <2>1, <2>7, SameQueueSound DEF ReaderTypeOK, AtVolume
<1>9. CASE RAdd
  <2>1. /\ rpc = "add" /\ rpc' = "loop" /\ ritem' = Blank
        /\ UNCHANGED <<archive, damaged, rvol, rpos>>
    BY <1>9 DEF RAdd, RElsewhere
  <2>2. \/ \E st \in {"todo", "progress", "done"} : queue_add_block(ritem, st)
        \/ queue_add_header(ritem)
    BY <1>9 DEF RAdd
  <2>3. QInv(Readable)'
    BY <2>2, AddBlockSound, AddHeaderSound
  <2>4. QED
    BY <1>0, <2>1, <2>3, BlankType DEF ReaderTypeOK, AtVolume
<1>10. CASE RVolumeEnd
  <2>1. /\ rpc = "loop" /\ UNCHANGED <<qvars, archive, damaged, ritem>>
        /\ \/ rpc' = "error" /\ UNCHANGED <<rvol, rpos>>
           \/ /\ rvol' = rvol + 1 /\ rpos' = 1
              /\ (rvol < Len(archive) /\ rpc' = "loop") \/ rpc' = "ask"
    BY <1>10 DEF RVolumeEnd, RElsewhere
  <2>2. rvol < Len(archive) => rvol + 1 \in DOMAIN archive
    BY <1>0, <1>4, <2>1, VolumeType, LenProperties DEF ArchiveOK
  <2>3. QED
    BY <1>0, <2>1, <2>2, SameQueueSound DEF ReaderTypeOK, AtVolume
<1>11. CASE RAsk
  <2>1. /\ rpc = "ask" /\ rpc' = "loop" /\ rvol <= Len(archive)
        /\ UNCHANGED <<qvars, archive, damaged, rvol, rpos, ritem>>
    BY <1>11 DEF RAsk, RElsewhere
  <2>2. rvol \in DOMAIN archive
    BY <1>0, <2>1, LenProperties DEF ArchiveOK
  <2>3. QED
    BY <1>0, <2>1, <2>2, SameQueueSound DEF ReaderTypeOK, AtVolume
<1>12. CASE REnd
  <2>1. /\ rpc = "error" /\ rpc' = "exit"
        /\ UNCHANGED <<archive, damaged, rvol, rpos, ritem>>
    BY <1>12 DEF REnd, RElsewhere
  <2>2. QInv(Readable)'
    BY <1>12, SetEndOfQueueSound DEF REnd
  <2>3. QED
    BY <1>0, <2>1, <2>2 DEF ReaderTypeOK, AtVolume
<1>13. QED
  BY <1>2, <1>3, <1>5, <1>6, <1>7, <1>8, <1>9, <1>10, <1>11, <1>12 DEF ReaderStep

LEMMA ReaderOthers ==
  ASSUME ReaderStep \/ RAsk
  PROVE  UNCHANGED <<stop, abort, job, archive, xvars, dvars>>
BY DEF ReaderStep, RAsk, ROpen, RReadFails, RStop, RSkip, RRead, RDamagedBlock,
       RDamagedHeader, RDamagedStart, RAdd, RVolumeEnd, REnd, RElsewhere

\* Only blocks come to be processed, and stay blocks.
LEMMA BlocksStep ==
  ASSUME QInv(Readable), WorkTypeOK, BlocksOnly, StartsOnce, [Next]_vars
  PROVE  BlocksOnly'
<1>1. list \in Seq(Item(Readable))
  BY DEF QInv, QTypeOK
<1>2. ASSUME UNCHANGED dwork,
             \A t \in DecompThreads : dpc'[t] = "work" => dpc[t] = "work",
             \A i \in DOMAIN list' : list'[i].status = "todo" =>
               list'[i].val.magic = "BLKH" \/ \E j \in DOMAIN list : list'[i] = list[j]
      PROVE  BlocksOnly'
  BY <1>2 DEF BlocksOnly
<1>3. CASE MainStep
  <2>1. dwork' = dwork /\ (UNCHANGED dpc \/ XStart)
    BY <1>3, MainOthers
  <2>2. \A t \in DecompThreads : dpc'[t] = "work" => dpc[t] = "work"
    BY <2>1 DEF XStart
  <2>3. CASE UNCHANGED qvars
    BY <1>2, <2>1, <2>2, <2>3 DEF qvars
  <2>4. CASE HeadIs({"todo", "done"}) /\ RemoveHead
    <3>1. \A i \in DOMAIN list' : i + 1 \in DOMAIN list /\ list'[i] = list[i + 1]
      BY <1>1, <2>4, RemainingItems DEF HeadIs
    <3>2. QED
      BY <1>2, <2>1, <2>2, <3>1
  <2>5. QED
    BY <1>3, <2>3, <2>4, MainQueueSteps DEF MainQueueStep
<1>4. ASSUME NEW t \in DecompThreads, DTake(t)
      PROVE  BlocksOnly'
  <2>1. PICK k \in DOMAIN list :
              /\ queue_get_first_block_todo(k)
              /\ dwork' = [dwork EXCEPT ![t] = [num |-> list[k].num, val |-> list[k].val]]
    BY <1>4 DEF DTake
  <2>2. /\ DOMAIN list' = DOMAIN list
        /\ \A i \in DOMAIN list : i # k => list'[i] = list[i]
        /\ list'[k].status = "progress" /\ list[k].status = "todo"
    <3>1. list[k] \in Item(Readable)
      BY <1>1, ItemAt
    <3>2. QED
      BY <2>1, <3>1 DEF queue_get_first_block_todo, TodoPositions, Item
  <2>3. list[k].val.magic = "BLKH"
    BY <2>2 DEF BlocksOnly
  <2>4. /\ dwork'[t].val = list[k].val
        /\ \A u \in DecompThreads : u # t => dwork'[u] = dwork[u] /\ dpc'[u] = dpc[u]
    BY <1>4, <2>1 DEF WorkTypeOK, DTake
  <2>5. QED
    BY <2>2, <2>3, <2>4 DEF BlocksOnly
<1>5. ASSUME NEW t \in DecompThreads, DReplace(t) \/ DReplaceSpoilt(t)
      PROVE  BlocksOnly'
  <2>1. PICK v : queue_replace_block(dwork[t].num, v, "done")
    BY <1>5 DEF DReplace, DReplaceSpoilt
  <2>2. \A i \in DOMAIN list : list[i] \in Item(Readable)
    BY <1>1, ItemAt
  <2>3. /\ DOMAIN list' = DOMAIN list
        /\ \A i \in DOMAIN list : list'[i] = list[i] \/ list'[i].status = "done"
    BY <2>1, <2>2 DEF queue_replace_block, Item
  <2>4. /\ dpc'[t] = "idle"
        /\ \A u \in DecompThreads : u # t => dwork'[u] = dwork[u] /\ dpc'[u] = dpc[u]
    BY <1>5 DEF WorkTypeOK, DReplace, DReplaceSpoilt
  <2>5. QED
    BY <2>3, <2>4 DEF BlocksOnly
<1>6. ASSUME NEW t \in DecompThreads, DBegin(t) \/ DFail(t) \/ DExit(t)
      PROVE  BlocksOnly'
  <2>1. UNCHANGED <<list, dwork>> /\ \A u \in DecompThreads : dpc'[u] = "work" => dpc[u] = "work"
    BY <1>6 DEF DBegin, DFail, DExit, qvars, WorkTypeOK
  <2>2. QED
    BY <1>2, <2>1
<1>7. CASE ReaderStep \/ RAsk
  <2>1. UNCHANGED <<dpc, dwork>>
    BY <1>7, ReaderOthers DEF dvars
  <2>2. CASE RAdd
    <3>1. PICK st \in {"todo", "done"}, ty \in {"block", "header"} :
            AppendItem(ty, st, ritem) /\ (st = "todo" => ritem.magic = "BLKH")
      BY <2>2 DEF RAdd, queue_add_block, queue_add_header
    <3> DEFINE e == [num |-> curitemnum, type |-> ty, status |-> st, val |-> ritem]
    <3>2. list' = Append(list, e) /\ (e.status = "todo" => e.val.magic = "BLKH")
      BY <3>1 DEF AppendItem
    <3> HIDE DEF e
    <3>3. \A i \in DOMAIN list' : list'[i] = e \/ (i \in DOMAIN list /\ list'[i] = list[i])
      BY <1>1, <3>2, AppendProperties, LenProperties
    <3>4. QED
      BY <1>2, <2>1, <3>2, <3>3
  <2>3. CASE ~RAdd
    <3>1. list' = list
      BY <1>7, <2>3 DEF ReaderStep, RAsk, ROpen, RReadFails, RStop, RSkip, RRead, RDamagedBlock,
                RDamagedHeader, RDamagedStart, RVolumeEnd, REnd, qvars, queue_set_end_of_queue
    <3>2. QED
      BY <1>2, <2>1, <3>1
  <2>4. QED
    BY <2>2, <2>3
<1>8. CASE Signal \/ UNCHANGED vars
  BY <1>2, <1>8 DEF Signal, vars, qvars, dvars
<1>9. QED
  BY <1>3, <1>4, <1>5, <1>6, <1>7, <1>8 DEF Next, DecompStep, Done

-----------------------------------------------------------------------------
\* How an operation finds things when it starts.  That is what Init says but for the
\* flags, which an earlier operation of the process may have left set.
Fresh ==
  /\ queue_init /\ IdleInit
  /\ stop \in BOOLEAN /\ abort \in BOOLEAN
  /\ job \in Job /\ ArchiveOK

LEMMA InitFresh == Init => Fresh
BY RestoreAssumption DEF Init, Fresh, ArchiveOK

LEMMA BaseFresh == Fresh => BaseInv
<1> SUFFICES ASSUME Fresh PROVE BaseInv
  OBVIOUS
<1> USE DEF Fresh, IdleInit
<1>1. QInv(Readable)
  BY InitSound
<1>2. MainTypeOK
  <2>1. file \in [hdr : Record, data : Seq(Record), closed : BOOLEAN, minor : BOOLEAN,
                  del : BOOLEAN]
        /\ group \in Seq(Record)
    BY BlankType, EmptySeq
  <2>2. /\ xpc \in MainPC /\ fs \in Nat \ {0} /\ ret \in {0, -1}
        /\ counted \subseteq Objects /\ failed \subseteq Objects
        /\ disk \in [Objects -> {"old", "absent", "wrong", "empty", "right"}]
    BY DEF MainPC
  <2>3. objerrs \in BOOLEAN
    OBVIOUS
  <2>4. QED
    BY <2>1, <2>2, <2>3 DEF MainTypeOK
<1>3. ReaderTypeOK /\ WorkTypeOK /\ ritem \in Readable
  BY BlankType DEF ReaderTypeOK, WorkTypeOK
<1>4. job \in Job /\ ArchiveOK
  OBVIOUS
<1>5. stop \in BOOLEAN /\ abort \in BOOLEAN /\ TakenExist /\ AtVolume /\ StartsOnce /\ BlocksOnly
  BY DEF TakenExist, AtVolume, StartsOnce, BlocksOnly, queue_init
<1>6. QED
  BY <1>1, <1>2, <1>3, <1>4, <1>5 DEF BaseInv

LEMMA BaseStep == BaseInv /\ [Next]_vars => BaseInv'
<1> SUFFICES ASSUME BaseInv, [Next]_vars PROVE BaseInv'
  OBVIOUS
<1>0. BlocksOnly'
  BY BlocksStep DEF BaseInv
<1>1. CASE MainStep
  <2>1. QInv(Readable)' /\ MainTypeOK' /\ TakenExist'
    BY <1>1, MainQueue, MainLocal DEF BaseInv, LocalInv
  <2>2. /\ UNCHANGED <<abort, job, archive, damaged, rvol, rpos, ritem, dwork>>
        /\ stop' \in BOOLEAN
    BY <1>1, MainOthers DEF BaseInv
  <2>3. /\ rpc' \in {"none", "open"} => rpc = rpc' \/ rpc = "none"
        /\ rpc' \in {"loop", "add"} => rpc = rpc'
        /\ rpc' \in {"none", "open", "loop", "add", "ask", "error", "exit"}
        /\ dpc' \in [DecompThreads -> {"none", "new", "idle", "work", "exit"}]
    <3>1. CASE XStart
      BY <3>1 DEF XStart, BaseInv, StartsOnce, XGoto, XFail
    <3>2. CASE UNCHANGED <<rpc, dpc>>
      BY <3>2 DEF BaseInv, ReaderTypeOK, WorkTypeOK
    <3>3. QED
      BY <1>1, <3>1, <3>2, MainOthers
  <2>4. ReaderTypeOK' /\ WorkTypeOK' /\ AtVolume'
    BY <2>2, <2>3 DEF BaseInv, ReaderTypeOK, WorkTypeOK, AtVolume
  <2>5. QED
    BY <1>0, <1>1, <2>1, <2>2, <2>4, MainOthers DEF BaseInv, ArchiveOK, StartsOnce
<1>2. ASSUME UNCHANGED <<stop, job, archive, xvars>>, abort' \in BOOLEAN
      PROVE  MainTypeOK' /\ TakenExist' /\ job' \in Job /\ ArchiveOK' /\ stop' \in BOOLEAN
  BY <1>2 DEF BaseInv, xvars, MainTypeOK, TakenExist, ArchiveOK
<1>3. ASSUME NEW t \in DecompThreads, DecompStep(t)
      PROVE  BaseInv'
  <2>1. QInv(Readable)' /\ WorkTypeOK'
    BY <1>3, DecompBase DEF BaseInv
  <2>2. UNCHANGED <<stop, abort, job, archive, xvars, rpc, rvol, rpos, ritem>>
    BY <1>3, DecompOthers
  <2>3. damaged' \subseteq [part : {"header", "data"}, of : Record]
    <3>1. dwork[t].val \in Record
      BY DEF BaseInv, WorkTypeOK, Readable
    <3>2. DReplaceSpoilt(t) => Loses("uncompress", "data", dwork[t].val)
      BY DEF DReplaceSpoilt
    <3>3. DReplaceSpoilt(t) \/ damaged' = damaged
      BY <1>3, DecompOthers
    <3>4. QED
      BY <3>1, <3>2, <3>3, LosesType DEF BaseInv, ReaderTypeOK
  <2>4. ReaderTypeOK' /\ AtVolume' /\ ritem' \in Readable
    BY <2>2, <2>3 DEF BaseInv, ReaderTypeOK, AtVolume
  <2>5. StartsOnce'
    BY <1>3, <2>2 DEF BaseInv, StartsOnce, DecompStep, DBegin, DTake, DReplace, DReplaceSpoilt,
                      DFail, DExit, xvars
  <2>6. QED
    BY <1>0, <1>2, <2>1, <2>2, <2>4, <2>5 DEF BaseInv
<1>4. CASE ReaderStep \/ RAsk
  <2>1. QInv(Readable)' /\ ReaderTypeOK' /\ ritem' \in Readable /\ AtVolume'
    BY <1>4, ReaderBase DEF BaseInv
  <2>2. UNCHANGED <<stop, abort, job, archive, xvars, dvars>>
    BY <1>4, ReaderOthers
  <2>3. WorkTypeOK'
    BY <2>2 DEF BaseInv, WorkTypeOK, dvars
  <2>4. rpc # "none"
    BY <1>4 DEF ReaderStep, RAsk, ROpen, RReadFails, RStop, RSkip, RRead, RDamagedBlock,
                RDamagedHeader, RDamagedStart, RAdd, RVolumeEnd, REnd, RGoto, Reading
  <2>5. StartsOnce'
    BY <2>2, <2>4 DEF BaseInv, StartsOnce, xvars
  <2>6. QED
    BY <1>0, <1>2, <2>1, <2>2, <2>3, <2>5 DEF BaseInv
<1>5. CASE Signal \/ UNCHANGED vars
  <2>1. /\ UNCHANGED <<qvars, stop, job, archive, xvars, rvars, dvars>>
        /\ abort' \in BOOLEAN
    BY <1>5 DEF Signal, vars, BaseInv
  <2>2. QInv(Readable)' /\ ReaderTypeOK' /\ AtVolume' /\ ritem' \in Readable /\ WorkTypeOK'
    BY <2>1, SameQueueSound DEF BaseInv, ReaderTypeOK, AtVolume, rvars, WorkTypeOK, dvars
  <2>3. StartsOnce'
    BY <2>1 DEF BaseInv, StartsOnce, xvars, rvars, dvars
  <2>4. QED
    BY <1>0, <1>2, <2>1, <2>2, <2>3 DEF BaseInv
<1>6. QED
  BY <1>1, <1>3, <1>4, <1>5 DEF Next, Done

\* In every behaviour of the operation, with any archive, job, threads, limits and
\* faults, the invariant holds ...
THEOREM BaseInvariant == Spec => []BaseInv
<1>1. QED
  BY InitFresh, BaseFresh, BaseStep, PTL DEF Spec

\* ... so every variable has its type ...
THEOREM TypeCorrect == Spec => []TypeOK
<1>1. Readable \subseteq Record
  BY DEF Readable
<1>2. ASSUME BaseInv
      PROVE  TypeOK
  <2>1. list \in Seq(Item(Readable))
    BY <1>2 DEF BaseInv, QInv, QTypeOK
  <2>2. Item(Readable) \subseteq Item(Record)
    BY <1>1 DEF Item
  <2>3. list \in Seq(Item(Record))
    <3>1. \A i \in 1 .. Len(list) : list[i] \in Item(Record)
      BY <2>1, <2>2, ElementOfSeq
    <3>2. QED
      BY <2>1, <3>1
  <2>4. QTypeOK(Record)
    BY <1>2, <2>3 DEF BaseInv, QInv, QTypeOK
  <2>5. DecompTypeOK
    BY <1>1, <1>2 DEF BaseInv, WorkTypeOK, DecompTypeOK
  <2>6. QED
    BY <1>2, <2>4, <2>5 DEF BaseInv, ArchiveOK, TypeOK
<1>3. QED
  BY <1>2, BaseInvariant, PTL

\* ... and the shared queue is sound: its counters agree with the list, numbers
\* are unique and ordered, and at most blkmax + 1 blocks are in it.
THEOREM QueueCorrect == Spec => []QueueSound
<1>1. BaseInv => QueueSound
  BY DEF BaseInv, QInv
<1>2. QED
  BY <1>1, BaseInvariant, PTL

-----------------------------------------------------------------------------
(***************************************************************************)
(* A block in progress belongs to one thread and stays where it is.  The   *)
(* invariant adds that a thread that has taken nothing holds nothing.      *)
(***************************************************************************)
OwnInv ==
  /\ WorkOwned
  /\ \A t \in DecompThreads : dpc[t] \in {"none", "new", "idle"} => dwork[t].num = 0

\* A queue operation that removes no block in progress and makes none keeps the
\* threads' blocks.
LEMMA OwnKept ==
  ASSUME OwnInv, UNCHANGED dwork,
         \A t \in DecompThreads : dpc'[t] = "work" => dpc[t] = "work",
         \A t \in DecompThreads :
           dpc'[t] \in {"none", "new", "idle"} => dpc[t] \in {"none", "new", "idle"},
         \A i \in DOMAIN list : list[i].status = "progress" =>
           \E j \in DOMAIN list' : list'[j] = list[i],
         \A i \in DOMAIN list' : list'[i].status = "progress" =>
           \E j \in DOMAIN list : list'[i] = list[j]
  PROVE  OwnInv'
<1>1. ASSUME NEW t \in DecompThreads, dpc'[t] = "work"
      PROVE  \E i \in DOMAIN list' : /\ list'[i].num = dwork'[t].num
                                    /\ list'[i].val = dwork'[t].val
                                    /\ list'[i].status = "progress"
  <2>1. PICK i \in DOMAIN list : /\ list[i].num = dwork[t].num /\ list[i].val = dwork[t].val
                                /\ list[i].status = "progress"
    BY <1>1 DEF OwnInv, WorkOwned
  <2>2. PICK j \in DOMAIN list' : list'[j] = list[i]
    BY <2>1
  <2>3. QED
    BY <2>1, <2>2
<1>2. \A t, u \in DecompThreads :
        dpc'[t] = "work" /\ dpc'[u] = "work" /\ dwork'[t].num = dwork'[u].num => t = u
  BY DEF OwnInv, WorkOwned
<1>3. ASSUME NEW i \in DOMAIN list', list'[i].status = "progress"
      PROVE  \E t \in DecompThreads : dwork'[t].num = list'[i].num
  <2>1. PICK j \in DOMAIN list : list'[i] = list[j]
    BY <1>3
  <2>2. QED
    BY <1>3, <2>1 DEF OwnInv, WorkOwned
<1>4. QED
  BY <1>1, <1>2, <1>3 DEF OwnInv, WorkOwned

\* The head may go when no thread is working on it.
LEMMA OwnTaken ==
  ASSUME BaseInv, OwnInv, UNCHANGED dwork,
         \/ UNCHANGED dpc
         \/ \A t \in DecompThreads : dpc[t] = "none" /\ dpc'[t] \in {"none", "new"},
         list' = list \/ (RemoveHead /\ HeadIs({"todo", "done"}))
  PROVE  OwnInv'
<1>1. list \in Seq(Item(Readable))
  BY DEF BaseInv, QInv, QTypeOK
<1>2. CASE list' = list
  BY <1>2, OwnKept
<1>3. CASE RemoveHead /\ HeadIs({"todo", "done"})
  <2>1. /\ \A i \in DOMAIN list' : i + 1 \in DOMAIN list /\ list'[i] = list[i + 1]
        /\ \A i \in DOMAIN list : i = 1 \/ (i - 1 \in DOMAIN list' /\ list'[i - 1] = list[i])
        /\ list[1].status # "progress"
    BY <1>1, <1>3, RemainingItems DEF HeadIs
  <2>2. QED
    BY <2>1, OwnKept
<1>4. QED
  BY <1>2, <1>3

LEMMA OwnStep ==
  ASSUME BaseInv, OwnInv, [Next]_vars
  PROVE  OwnInv'
<1>1. /\ list \in Seq(Item(Readable)) /\ list' \in Seq(Item(Readable))
      /\ dpc \in [DecompThreads -> {"none", "new", "idle", "work", "exit"}]
      /\ dwork \in [DecompThreads -> [num : Nat, val : Readable]]
  BY BaseStep DEF BaseInv, QInv, QTypeOK, WorkTypeOK
<1>2. ASSUME UNCHANGED <<list, dpc, dwork>>
      PROVE  OwnInv'
  BY <1>2 DEF OwnInv, WorkOwned
<1>3. CASE MainStep
  <2>1. dwork' = dwork
    BY <1>3, MainOthers
  <2>2. \/ UNCHANGED dpc
        \/ \A t \in DecompThreads : dpc[t] = "none" /\ dpc'[t] \in {"none", "new"}
    <3>1. CASE XStart
      BY <3>1 DEF XStart, XGoto, XFail, BaseInv, StartsOnce
    <3>2. QED
      BY <1>3, <3>1, MainOthers
  <2>3. list' = list \/ (RemoveHead /\ HeadIs({"todo", "done"}))
    BY <1>3, MainQueueSteps DEF MainQueueStep, qvars
  <2>4. QED
    BY <2>1, <2>2, <2>3, OwnTaken
<1>4. ASSUME NEW t \in DecompThreads, DTake(t)
      PROVE  OwnInv'
  <2>1. PICK k \in DOMAIN list :
              /\ queue_get_first_block_todo(k)
              /\ dwork' = [dwork EXCEPT ![t] = [num |-> list[k].num, val |-> list[k].val]]
    BY <1>4 DEF DTake
  <2>2. /\ dpc[t] = "idle" /\ dpc' = [dpc EXCEPT ![t] = "work"]
        /\ dwork[t].num = 0
    BY <1>4 DEF DTake, OwnInv
  <2>3. /\ DOMAIN list' = DOMAIN list
        /\ \A i \in DOMAIN list : i # k => list'[i] = list[i]
        /\ list'[k] = [list[k] EXCEPT !.status = "progress"]
        /\ list[k].status = "todo"
        /\ list[k] \in Item(Readable)
    BY <1>1, <2>1, ItemAt DEF queue_get_first_block_todo, TodoPositions
  <2>4. /\ list'[k].status = "progress"
        /\ list'[k].num = list[k].num /\ list'[k].val = list[k].val
    BY <2>3 DEF Item
  <2>5. \A i \in DOMAIN list : list[i].num # 0 /\ (i # k => list[i].num # list[k].num)
    <3>1. \A i \in DOMAIN list : i \in Nat /\ list[i].num \in Nat \ {0}
      BY <1>1, ItemAt
    <3>2. \A i, j \in DOMAIN list : i < j => list[i].num < list[j].num
      BY DEF BaseInv, QInv, QueueSound
    <3>3. QED
      BY <3>1, <3>2
  <2>6. /\ dwork'[t].num = list[k].num /\ dwork'[t].val = list[k].val /\ dpc'[t] = "work"
        /\ \A u \in DecompThreads : u # t => dwork'[u] = dwork[u] /\ dpc'[u] = dpc[u]
    BY <1>1, <2>1, <2>2
  <2>7. ASSUME NEW u \in DecompThreads, dpc[u] = "work"
        PROVE  /\ \E i \in DOMAIN list : /\ list[i].num = dwork[u].num
                                         /\ list[i].val = dwork[u].val
                                         /\ list[i].status = "progress" /\ i # k
               /\ dwork[u].num # list[k].num
    BY <2>3, <2>5, <2>7 DEF OwnInv, WorkOwned
  <2>8. ASSUME NEW u \in DecompThreads, dpc'[u] = "work"
        PROVE  \E i \in DOMAIN list' : /\ list'[i].num = dwork'[u].num
                                      /\ list'[i].val = dwork'[u].val
                                      /\ list'[i].status = "progress"
    <3>1. CASE u = t
      <4>1. k \in DOMAIN list'
        BY <2>3
      <4>2. QED
        BY <2>4, <2>6, <3>1, <4>1
    <3>2. CASE u # t
      <4>1. dpc[u] = "work" /\ dwork'[u] = dwork[u]
        BY <2>6, <2>8, <3>2
      <4>2. PICK i \in DOMAIN list : /\ list[i].num = dwork[u].num
                                    /\ list[i].val = dwork[u].val
                                    /\ list[i].status = "progress" /\ i # k
        BY <2>7, <4>1
      <4>3. list'[i] = list[i] /\ i \in DOMAIN list'
        BY <2>3, <4>2
      <4>4. QED
        BY <4>1, <4>2, <4>3
    <3>3. QED
      BY <3>1, <3>2
  <2>9. \A u, w \in DecompThreads :
          dpc'[u] = "work" /\ dpc'[w] = "work" /\ dwork'[u].num = dwork'[w].num => u = w
    BY <2>6, <2>7 DEF OwnInv, WorkOwned
  <2>10. ASSUME NEW i \in DOMAIN list', list'[i].status = "progress"
         PROVE  \E u \in DecompThreads : dwork'[u].num = list'[i].num
    <3>1. CASE i = k
      BY <2>4, <2>6, <3>1
    <3>2. CASE i # k
      <4>1. PICK u \in DecompThreads : dwork[u].num = list[i].num
        BY <2>3, <2>10, <3>2 DEF OwnInv, WorkOwned
      <4>2. u # t
        BY <2>2, <2>3, <2>5, <4>1
      <4>3. QED
        BY <2>3, <2>6, <3>2, <4>1, <4>2
    <3>3. QED
      BY <3>1, <3>2
  <2>11. QED
    BY <2>2, <2>6, <2>8, <2>9, <2>10 DEF OwnInv, WorkOwned
<1>5. ASSUME NEW t \in DecompThreads, DReplace(t) \/ DReplaceSpoilt(t)
      PROVE  OwnInv'
  <2>1. /\ dpc[t] = "work" /\ dpc' = [dpc EXCEPT ![t] = "idle"]
        /\ dwork' = [dwork EXCEPT ![t] = NoWork]
    BY <1>5 DEF DReplace, DReplaceSpoilt
  <2>2. /\ dwork'[t].num = 0 /\ dpc'[t] = "idle"
        /\ \A u \in DecompThreads : u # t => dwork'[u] = dwork[u] /\ dpc'[u] = dpc[u]
    BY <1>1, <2>1 DEF NoWork
  <2>3. /\ DOMAIN list' = DOMAIN list
        /\ \A i \in DOMAIN list : list[i].num # dwork[t].num => list'[i] = list[i]
        /\ \A i \in DOMAIN list : list[i].num = dwork[t].num => list'[i].status = "done"
    <3>1. \A i \in DOMAIN list : list[i] \in Item(Readable)
      BY <1>1, ItemAt
    <3>2. \E v : list' = [i \in DOMAIN list |->
                           IF list[i].num = dwork[t].num
                           THEN [list[i] EXCEPT !.status = "done", !.val = v] ELSE list[i]]
      BY <1>5 DEF DReplace, DReplaceSpoilt, queue_replace_block
    <3>3. QED
      BY <3>1, <3>2 DEF Item
  <2>4. ASSUME NEW u \in DecompThreads, dpc'[u] = "work"
        PROVE  \E i \in DOMAIN list' : /\ list'[i].num = dwork'[u].num
                                      /\ list'[i].val = dwork'[u].val
                                      /\ list'[i].status = "progress"
    <3>1. u # t /\ dpc[u] = "work" /\ dwork'[u] = dwork[u] /\ dwork[u].num # dwork[t].num
      BY <2>1, <2>2, <2>4 DEF OwnInv, WorkOwned
    <3>2. PICK i \in DOMAIN list : /\ list[i].num = dwork[u].num /\ list[i].val = dwork[u].val
                                  /\ list[i].status = "progress"
      BY <3>1 DEF OwnInv, WorkOwned
    <3>3. QED
      BY <2>3, <3>1, <3>2
  <2>5. \A u, w \in DecompThreads :
          dpc'[u] = "work" /\ dpc'[w] = "work" /\ dwork'[u].num = dwork'[w].num => u = w
    BY <2>2 DEF OwnInv, WorkOwned
  <2>6. ASSUME NEW i \in DOMAIN list', list'[i].status = "progress"
        PROVE  \E u \in DecompThreads : dwork'[u].num = list'[i].num
    <3>1. list[i].num # dwork[t].num /\ list'[i] = list[i]
      BY <2>3, <2>6
    <3>2. PICK u \in DecompThreads : dwork[u].num = list[i].num
      BY <2>3, <2>6, <3>1 DEF OwnInv, WorkOwned
    <3>3. QED
      BY <2>2, <3>1, <3>2
  <2>7. QED
    BY <2>1, <2>2, <2>4, <2>5, <2>6 DEF OwnInv, WorkOwned
<1>6. ASSUME NEW t \in DecompThreads, DBegin(t) \/ DFail(t) \/ DExit(t)
      PROVE  OwnInv'
  <2>1. /\ UNCHANGED <<list, dwork>>
        /\ \/ dpc' = [dpc EXCEPT ![t] = "exit"]
           \/ dpc[t] = "new" /\ dpc' = [dpc EXCEPT ![t] = "idle"]
    BY <1>6 DEF DBegin, DFail, DExit, qvars
  <2>2. QED
    BY <1>1, <2>1, OwnKept
<1>7. CASE ReaderStep \/ RAsk
  <2>1. UNCHANGED <<dpc, dwork>>
    BY <1>7, ReaderOthers DEF dvars
  <2>2. CASE RAdd
    <3>1. PICK st \in {"todo", "done"}, ty \in {"block", "header"} : AppendItem(ty, st, ritem)
      BY <2>2 DEF RAdd, queue_add_block, queue_add_header
    <3> DEFINE e == [num |-> curitemnum, type |-> ty, status |-> st, val |-> ritem]
    <3>2. e \in Item(Readable) /\ e.status # "progress" /\ list' = Append(list, e)
      BY <3>1 DEF AppendItem, Item, BaseInv, QInv, QTypeOK
    <3> HIDE DEF e
    <3>3. /\ \A i \in DOMAIN list' : list'[i] = e \/ (i \in DOMAIN list /\ list'[i] = list[i])
          /\ \A i \in DOMAIN list : i \in DOMAIN list' /\ list'[i] = list[i]
      BY <1>1, <3>2, AppendedItems
    <3>4. QED
      BY <2>1, <3>2, <3>3, OwnKept
  <2>3. CASE ~RAdd
    <3>1. list' = list
      BY <1>7, <2>3 DEF ReaderStep, RAsk, ROpen, RReadFails, RStop, RSkip, RRead, RDamagedBlock,
                RDamagedHeader, RDamagedStart, RVolumeEnd, REnd, qvars, queue_set_end_of_queue
    <3>2. QED
      BY <1>2, <2>1, <3>1
  <2>4. QED
    BY <2>2, <2>3
<1>8. CASE Signal \/ UNCHANGED vars
  BY <1>2, <1>8 DEF Signal, vars, qvars, dvars
<1>9. QED
  BY <1>3, <1>4, <1>5, <1>6, <1>7, <1>8 DEF Next, DecompStep, Done

LEMMA OwnFresh == Fresh => OwnInv
BY DEF Fresh, IdleInit, OwnInv, WorkOwned, queue_init, NoWork

\* In every behaviour a block that a decompression thread works on is in the queue,
\* unchanged, and no other thread works on it: no block is freed under a thread,
\* taken twice or put back in the wrong place.
THEOREM WorkCorrect == Spec => []WorkOwned
<1>1. Init => OwnInv
  BY InitFresh, OwnFresh
<1>2. BaseInv /\ OwnInv /\ [Next]_vars => OwnInv'
  BY OwnStep
<1>3. OwnInv => WorkOwned
  BY DEF OwnInv
<1>4. QED
  BY <1>1, <1>2, <1>3, BaseInvariant, PTL DEF Spec

-----------------------------------------------------------------------------
(***************************************************************************)
(* What was not asked for.  The invariant follows the main thread: it does *)
(* not come to the objects unless the job suits the archive, and then it   *)
(* is in a file system that is wanted, with a file of that file system.    *)
(***************************************************************************)
InObjects == {"objects", "next", "fsend"} \cup Busy

SuitInv ==
  /\ xpc \in {"fsinfo", "dirsinfo", "filesystems", "fsyb", "destdir"} \cup InObjects => JobSuits
  /\ xpc \in {"filesystems", "fsyb", "destdir"} \cup InObjects => job.oper # "archinfo"
  /\ xpc \in {"dirsinfo", "destdir"} => ~IsFS
  /\ xpc \in {"fsyb"} \cup InObjects /\ IsFS => fs \in job.wanted
  /\ xpc \in {"file", "block", "close", "footer", "counting"} /\ IsFS => file.hdr.tree = fs

\* A step of the main thread keeps to what was asked for.
KeepsToJob ==
  /\ SuitInv'
  /\ \A o \in Objects : disk'[o] # disk[o] => Asked(o)

\* When the main thread is at the objects, those of its file system were asked
\* for.
LEMMA OursAsked ==
  ASSUME SuitInv, xpc \in {"fsyb"} \cup InObjects, NEW o, IsFS => o[1] = fs
  PROVE  Asked(o)
BY DEF SuitInv, Asked

LEMMA SuitStart ==
  ASSUME SuitInv,
         XStart \/ XMainHead \/ XFsInfo \/ XDirsInfo \/ XNextFS \/ XBeginFS
           \/ XTargetFails \/ XBeginDir \/ XNoPassword \/ XHeaderMissing
  PROVE  KeepsToJob
<1> USE DEF XGoto, XFail, Elsewhere
<1>1. CASE XStart \/ XNoPassword \/ XHeaderMissing
  <2>1. xpc' \in {"mainhead", "teardown"} /\ UNCHANGED disk
    BY <1>1 DEF XStart, XNoPassword, XHeaderMissing
  <2>2. QED
    BY <2>1 DEF KeepsToJob, SuitInv, InObjects, Busy
<1>2. CASE XMainHead \/ XFsInfo \/ XDirsInfo \/ XNextFS \/ XBeginDir
  <2>1. UNCHANGED <<disk, job, file>>
    BY <1>2 DEF XMainHead, XFsInfo, XDirsInfo, XNextFS, XBeginDir
  <2>2. SuitInv'
    BY <1>2, <2>1 DEF XMainHead, XFsInfo, XDirsInfo, XNextFS, XBeginDir, SuitInv, InObjects,
                      Busy, JobSuits
  <2>3. QED
    BY <2>1, <2>2 DEF KeepsToJob
<1>3. CASE XBeginFS \/ XTargetFails
  <2>1. disk' = disk \/ (xpc = "fsyb" /\ disk' = Mkfs)
    BY <1>3 DEF XBeginFS, XTargetFails
  <2>2. /\ \/ xpc' = "teardown"
           \/ xpc = "fsyb" /\ xpc' = "objects"
        /\ UNCHANGED <<job, fs, file>>
    BY <1>3 DEF XBeginFS, XTargetFails
  <2>3. \A o \in Objects : disk'[o] # disk[o] => Asked(o)
    BY <2>1, OursAsked DEF Mkfs
  <2>4. SuitInv'
    BY <2>2 DEF SuitInv, InObjects, Busy, JobSuits
  <2>5. QED
    BY <2>3, <2>4 DEF KeepsToJob
<1>4. QED
  BY <1>1, <1>2, <1>3

\* The steps among the objects.
LEMMA SuitObjects ==
  ASSUME BaseInv, SuitInv,
         XSkipGarbage \/ XArchiveEnds \/ XForeignObject \/ XObject \/ XLink
           \/ XNextObject \/ XObjectsEnd \/ XEndFS \/ XEndFSFails
  PROVE  KeepsToJob
<1> USE DEF XGoto, XFail, Elsewhere
<1> DEFINE o == ObjectOf(Head(list).val)
<1>1. ASSUME NEW K, Taking(K), Ours
      PROVE  xpc = "objects" /\ Asked(o)
  <2>1. xpc = "objects" /\ (IsFS => o[1] = fs)
    BY <1>1 DEF Taking, Ours, ObjectOf
  <2>2. QED
    BY <2>1, OursAsked DEF InObjects
<1>2. CASE XSkipGarbage \/ XArchiveEnds \/ XForeignObject \/ XNextObject \/ XObjectsEnd
           \/ XEndFS \/ XEndFSFails
  <2>1. /\ \/ xpc' = "teardown"
           \/ xpc' \in InObjects \ Busy /\ xpc \in InObjects /\ fs' = fs
           \/ xpc' = "filesystems" /\ xpc = "fsend"
           \/ xpc' = "final"
        /\ UNCHANGED <<job, file, disk>>
    BY <1>2 DEF XSkipGarbage, XArchiveEnds, XForeignObject, XNextObject, XObjectsEnd, XEndFS,
                XEndFSFails, Taking, xvars, InObjects, Busy
  <2>2. SuitInv'
    BY <2>1 DEF SuitInv, InObjects, Busy, JobSuits
  <2>3. QED
    BY <2>1, <2>2 DEF KeepsToJob
<1>3. CASE XObject \/ XLink
  <2>1. /\ xpc = "objects" /\ xpc' = "next" /\ UNCHANGED <<job, fs, file>> /\ Asked(o)
        /\ \E d : disk' \in {disk, [disk EXCEPT ![o] = d]}
    BY <1>1, <1>3 DEF XObject, XLink
  <2>2. \A p \in Objects : disk'[p] # disk[p] => Asked(p)
    BY <2>1 DEF BaseInv, MainTypeOK
  <2>3. SuitInv'
    BY <2>1 DEF SuitInv, InObjects, Busy, JobSuits
  <2>4. QED
    BY <2>2, <2>3 DEF KeepsToJob
<1>4. QED
  BY <1>2, <1>3

\* The steps with a file in hand.
LEMMA SuitFile ==
  ASSUME BaseInv, SuitInv,
         XOpenFile \/ XBlockLoop \/ XBlock \/ XBlockMissing \/ XWriteFails \/ XClose
           \/ XFooter \/ XCountFile
  PROVE  KeepsToJob
<1> USE DEF XGoto, XFail, Elsewhere
<1>1. CASE XOpenFile
  <2> DEFINE o == ObjectOf(Head(list).val)
  <2>1. /\ xpc = "objects" /\ xpc' = "file" /\ UNCHANGED <<job, fs>>
        /\ disk' \in {disk, [disk EXCEPT ![o] = "wrong"]}
        /\ IsFS => Head(list).val.tree = fs
    BY <1>1 DEF XOpenFile, Taking, Ours
  <2>2. file'.hdr = Head(list).val
    BY <1>1 DEF XOpenFile, NoFile
  <2>3. Asked(o)
    BY <2>1, OursAsked DEF InObjects, ObjectOf
  <2>4. \A p \in Objects : disk'[p] # disk[p] => Asked(p)
    BY <2>1, <2>3 DEF BaseInv, MainTypeOK
  <2>5. SuitInv'
    BY <2>1, <2>2 DEF SuitInv, InObjects, Busy, JobSuits
  <2>6. QED
    BY <2>4, <2>5 DEF KeepsToJob
<1>2. CASE XBlockLoop \/ XBlock \/ XBlockMissing \/ XWriteFails \/ XClose \/ XFooter \/ XCountFile
  <2>1. /\ xpc \in {"file", "block", "close", "footer", "counting"}
        /\ xpc' \in {"file", "block", "close", "footer", "counting", "next", "teardown"}
        /\ UNCHANGED <<job, fs>>
        /\ \E d : disk' \in {disk, [disk EXCEPT ![This] = d]}
    BY <1>2 DEF XBlockLoop, XBlock, XBlockMissing, XWriteFails, XClose, XFooter, XCountFile
  <2>2. xpc' \in {"file", "block", "close", "footer", "counting"} => file'.hdr = file.hdr
    BY <1>2 DEF XBlockLoop, XBlock, XBlockMissing, XWriteFails, XClose, XFooter, XCountFile,
                BaseInv, MainTypeOK
  <2>3. Asked(This)
    <3>1. IsFS => This[1] = fs
      BY <2>1 DEF SuitInv, This, ObjectOf
    <3>2. QED
      BY <2>1, <3>1, OursAsked DEF InObjects, Busy
  <2>4. \A p \in Objects : disk'[p] # disk[p] => Asked(p)
    BY <2>1, <2>3 DEF BaseInv, MainTypeOK
  <2>5. SuitInv'
    BY <2>1, <2>2 DEF SuitInv, InObjects, Busy, JobSuits
  <2>6. QED
    BY <2>4, <2>5 DEF KeepsToJob
<1>3. QED
  BY <1>1, <1>2

\* The steps with a group in hand, which may hold a file of another file system.
LEMMA SuitGroup ==
  ASSUME BaseInv, SuitInv,
         XFirstSmallFile \/ XGroupHeader \/ XGroupBlock \/ XGroupFails \/ XSmallFile
           \/ XSmallFileWriteFails
  PROVE  KeepsToJob
<1> USE DEF XGoto, XFail, Elsewhere
<1>1. /\ xpc \in {"objects", "group", "smallfiles"}
      /\ xpc' \in {"group", "smallfiles", "next", "teardown"}
      /\ UNCHANGED <<job, fs>>
  BY DEF XFirstSmallFile, XGroupHeader, XGroupBlock, XGroupFails, XSmallFile,
         XSmallFileWriteFails, Taking
<1>2. SuitInv'
  BY <1>1 DEF SuitInv, InObjects, Busy, JobSuits
<1>3. CASE XFirstSmallFile \/ XGroupHeader \/ XGroupBlock \/ XGroupFails
  <2>1. disk' = disk
    BY <1>3 DEF XFirstSmallFile, XGroupHeader, XGroupBlock, XGroupFails
  <2>2. QED
    BY <1>2, <2>1 DEF KeepsToJob
<1>4. CASE XSmallFile \/ XSmallFileWriteFails
  <2> DEFINE r == Head(group)
             o == ObjectOf(r)
  <2>1. xpc = "smallfiles" /\ \E d : disk' = [disk EXCEPT ![o] = d]
                                     /\ (d = disk[o] \/ \E c : d = Placed(r, c))
    <3>1. CASE XSmallFile
      <4>1. PICK out \in SmallFileOutcomes(r) : disk' = [disk EXCEPT ![o] = out.disk]
        BY <3>1 DEF XSmallFile
      <4>2. out.disk = disk[o] \/ \E c : out.disk = Placed(r, c)
        BY <4>1 DEF SmallFileOutcomes
      <4>3. QED
        BY <3>1, <4>1, <4>2 DEF XSmallFile
    <3>2. CASE XSmallFileWriteFails
      BY <3>2 DEF XSmallFileWriteFails
    <3>3. QED
      BY <1>4, <3>1, <3>2
  <2>2. PICK d : disk' = [disk EXCEPT ![o] = d] /\ (d = disk[o] \/ \E c : d = Placed(r, c))
    BY <2>1
  <2>3. d # disk[o] => (IsFS => o[1] = fs)
    BY <2>2 DEF Placed, ObjectOf
  <2>4. d # disk[o] => Asked(o)
    BY <2>1, <2>3, OursAsked DEF InObjects, Busy
  <2> HIDE DEF r, o
  <2>5. \A p \in Objects : disk'[p] # disk[p] => Asked(p)
    BY <2>2, <2>4 DEF BaseInv, MainTypeOK
  <2>6. QED
    BY <1>2, <2>5 DEF KeepsToJob
<1>5. QED
  BY <1>3, <1>4

LEMMA SuitStep ==
  ASSUME BaseInv, SuitInv, [Next]_vars
  PROVE  KeepsToJob /\ UNCHANGED job
<1>1. CASE XFinal \/ XAskToStop \/ XAwaitBlocks \/ XDrain \/ XDestroy \/ XJoin
  <2>1. /\ xpc' \in {"teardown", "pending", "drain", "destroy", "join", "done"}
        /\ UNCHANGED <<job, disk>>
    BY <1>1 DEF XFinal, XAskToStop, XAwaitBlocks, XDrain, XDestroy, XJoin, Aside, Elsewhere,
                XGoto
  <2>2. QED
    BY <2>1 DEF KeepsToJob, SuitInv, InObjects, Busy
<1>2. CASE MainStep
  BY <1>1, <1>2, SuitStart, SuitObjects, SuitFile, SuitGroup, MainOthers DEF MainStep
<1>3. ASSUME UNCHANGED <<job, xvars>>
      PROVE  KeepsToJob /\ UNCHANGED job
  BY <1>3 DEF KeepsToJob, SuitInv, xvars, JobSuits
<1>4. CASE ~MainStep
  <2>1. UNCHANGED <<job, xvars>>
    BY <1>4, DecompOthers, ReaderOthers DEF Next, Signal, Done, vars
  <2>2. QED
    BY <1>3, <2>1
<1>5. QED
  BY <1>2, <1>4

LEMMA OthersFresh == Fresh => SuitInv /\ OthersUntouched
BY DEF Fresh, IdleInit, SuitInv, InObjects, Busy, OthersUntouched

LEMMA OthersStep ==
  ASSUME BaseInv, SuitInv, OthersUntouched, [Next]_vars
  PROVE  SuitInv' /\ OthersUntouched'
<1>1. KeepsToJob /\ UNCHANGED job
  BY SuitStep
<1>2. QED
  BY <1>1 DEF KeepsToJob, OthersUntouched, Asked, JobSuits

\* In every behaviour, what was not asked for is left as it was, whatever headers
\* are lost and whatever fails.
THEOREM OthersCorrect == Spec => []OthersUntouched
<1>1. Init => SuitInv /\ OthersUntouched
  BY InitFresh, OthersFresh
<1>2. BaseInv /\ SuitInv /\ OthersUntouched /\ [Next]_vars => SuitInv' /\ OthersUntouched'
  BY OthersStep
<1>3. QED
  BY <1>1, <1>2, BaseInvariant, PTL DEF Spec

-----------------------------------------------------------------------------
(***************************************************************************)
(* The end.  The invariant says which threads there are: all or, when one  *)
(* could not be created, no reader and nothing in the queue; what a thread *)
(* that has ended left behind; and what the main thread has made sure of.  *)
(***************************************************************************)
EndInv ==
  /\ endofqueue <=> rpc = "exit"
  /\ rpc = "none" => list = <<>>
  /\ rpc # "none" => \A t \in DecompThreads : dpc[t] # "none"
  /\ \A t \in DecompThreads :
       dpc[t] = "exit" => (list = <<>> /\ endofqueue) \/ dwork[t] # NoWork
  /\ xpc \in {"join", "done"} => ~stop
  /\ xpc = "done" => AllJoined

LEMMA EndImplies ==
  ASSUME EndInv
  PROVE  EndsClean
<1>1. PICK t \in DecompThreads : TRUE
  BY RestoreAssumption
<1>2. QED
  BY <1>1 DEF EndInv, EndsClean, AllJoined

\* An operation that finds nothing in the queue puts nothing there.
LEMMA EndMain ==
  ASSUME BaseInv, EndInv, MainStep
  PROVE  EndInv'
<1>1. /\ UNCHANGED <<rvol, dwork>> /\ UNCHANGED endofqueue
      /\ list = <<>> => list' = <<>>
  <2>1. MainQueueStep
    BY MainQueueSteps
  <2>2. QED
    BY <2>1, MainOthers DEF MainQueueStep, qvars, RemoveHead, HeadIs
<1>2. /\ xpc' \in {"join", "done"} => ~stop'
      /\ xpc' = "done" => AllJoined /\ UNCHANGED <<rpc, dpc>>
  <2> USE DEF Elsewhere, Aside, xvars, XGoto, XFail, rvars, dvars
  <2>1. CASE XDrain \/ XJoin
    BY <2>1 DEF XDrain, XJoin, EndInv
  <2>2. CASE ~(XDrain \/ XJoin)
    <3>1. xpc' \notin {"join", "done"}
      <4>1. CASE \/ XStart \/ XMainHead \/ XFsInfo \/ XDirsInfo \/ XNextFS \/ XBeginFS
                 \/ XTargetFails \/ XBeginDir \/ XNoPassword \/ XHeaderMissing
        BY <4>1 DEF XStart, XMainHead, XFsInfo, XDirsInfo, XNextFS, XBeginFS,
                    XTargetFails, XBeginDir, XNoPassword, XHeaderMissing
      <4>2. CASE \/ XSkipGarbage \/ XArchiveEnds \/ XForeignObject \/ XObject \/ XLink
                 \/ XNextObject \/ XObjectsEnd \/ XEndFS \/ XEndFSFails
        BY <4>2 DEF XSkipGarbage, XArchiveEnds, XForeignObject, XObject, XLink,
                    XNextObject, XObjectsEnd, XEndFS, XEndFSFails
      <4>3. CASE \/ XOpenFile \/ XBlockLoop \/ XBlock \/ XBlockMissing \/ XWriteFails
                 \/ XClose \/ XFooter \/ XCountFile
        BY <4>3 DEF XOpenFile, XBlockLoop, XBlock, XBlockMissing, XWriteFails, XClose,
                    XFooter, XCountFile
      <4>4. CASE \/ XFirstSmallFile \/ XGroupHeader \/ XGroupBlock \/ XGroupFails
                 \/ XSmallFile \/ XSmallFileWriteFails \/ XFinal \/ XAskToStop
                 \/ XAwaitBlocks \/ XDestroy
        BY <4>4 DEF XFirstSmallFile, XGroupHeader, XGroupBlock, XGroupFails, XSmallFile,
                    XSmallFileWriteFails, XFinal, XAskToStop, XAwaitBlocks, XDestroy
      <4>5. QED
        BY <2>2, <4>1, <4>2, <4>3, <4>4 DEF MainStep
    <3>2. QED
      BY <3>1
  <2>3. QED
    BY <2>1, <2>2
<1>3. CASE XStart
  <2>1. /\ rpc' \in {"none", "open"} /\ rpc = "none"
        /\ rpc' # "none" => \A t \in DecompThreads : dpc'[t] # "none"
        /\ \A t \in DecompThreads : dpc'[t] # "exit"
    BY <1>3 DEF XStart, BaseInv, StartsOnce, XGoto, XFail
  <2>2. QED
    BY <1>1, <1>2, <2>1 DEF EndInv, AllJoined
<1>4. CASE UNCHANGED <<rpc, dpc>>
  BY <1>1, <1>2, <1>4 DEF EndInv, AllJoined
<1>5. QED
  BY <1>3, <1>4, MainOthers

\* A decompression thread ends when the queue has ended, or with its block.
LEMMA EndDecomp ==
  ASSUME BaseInv, OwnInv, EndInv, NEW t \in DecompThreads, DecompStep(t)
  PROVE  EndInv'
<1>1. /\ UNCHANGED <<stop, rpc, xpc>> /\ UNCHANGED endofqueue
  BY DecompOthers DEF xvars, DecompStep, DBegin, DTake, DReplace, DReplaceSpoilt, DFail, DExit,
                      qvars, queue_get_first_block_todo, queue_replace_block
<1>2. list = <<>> => list' = <<>>
  BY DEF DecompStep, DBegin, DTake, DReplace, DReplaceSpoilt, DFail, DExit, qvars,
         queue_get_first_block_todo, queue_replace_block
<1>3. \A u \in DecompThreads : u # t => dpc'[u] = dpc[u] /\ dwork'[u] = dwork[u]
  BY DEF DecompStep, DBegin, DTake, DReplace, DReplaceSpoilt, DFail, DExit, BaseInv, WorkTypeOK
<1>4. dpc[t] \in {"new", "idle", "work"} /\ dpc'[t] # "none"
  BY DEF DecompStep, DBegin, DTake, DReplace, DReplaceSpoilt, DFail, DExit, BaseInv, WorkTypeOK
<1>5. dpc'[t] = "exit" => (list' = <<>> /\ endofqueue') \/ dwork'[t] # NoWork
  <2>1. CASE DFail(t)
    <3>1. PICK i \in DOMAIN list : list[i].num = dwork[t].num
      BY <2>1 DEF OwnInv, WorkOwned, DFail
    <3>2. list[i].num # 0
      BY ItemAt DEF BaseInv, QInv, QTypeOK
    <3>3. QED
      BY <2>1, <3>1, <3>2 DEF DFail, NoWork
  <2>2. CASE DExit(t)
    <3>1. itemcount < 1 /\ endofqueue /\ UNCHANGED qvars
      BY <2>2 DEF DExit, queue_get_end_of_queue
    <3>2. Len(list) = 0 /\ list \in Seq(Item(Readable))
      BY <3>1 DEF BaseInv, QInv, QTypeOK, QueueSound
    <3>3. list = <<>>
      BY <3>2, EmptySeq
    <3>4. QED
      BY <3>1, <3>3 DEF qvars
  <2>3. CASE DBegin(t) \/ DTake(t) \/ DReplace(t) \/ DReplaceSpoilt(t)
    BY <2>3 DEF DBegin, DTake, DReplace, DReplaceSpoilt, BaseInv, WorkTypeOK
  <2>4. QED
    BY <2>1, <2>2, <2>3 DEF DecompStep
<1>6. QED
  BY <1>1, <1>2, <1>3, <1>4, <1>5 DEF EndInv, AllJoined

\* The reader declares the end of the queue when it ends, and adds nothing then.
LEMMA EndReader ==
  ASSUME BaseInv, EndInv, ReaderStep \/ RAsk
  PROVE  EndInv'
<1>1. UNCHANGED <<stop, xpc, dpc, dwork>>
  BY ReaderOthers DEF xvars, dvars
<1>2. rpc \notin {"none", "exit"} /\ rpc' # "none"
  BY DEF ReaderStep, RAsk, ROpen, RReadFails, RStop, RSkip, RRead, RDamagedBlock,
         RDamagedHeader, RDamagedStart, RAdd, RVolumeEnd, REnd, RGoto, Reading
<1>3. endofqueue' <=> rpc' = "exit"
  <2>1. CASE REnd
    BY <2>1 DEF REnd, queue_set_end_of_queue, RGoto
  <2>2. CASE ~REnd
    <3>1. endofqueue' = endofqueue /\ rpc' # "exit"
      BY <2>2
      DEF ReaderStep, RAsk, ROpen, RReadFails, RStop, RSkip, RRead, RDamagedBlock,
          RDamagedHeader, RDamagedStart, RAdd, RVolumeEnd, RGoto, Reading, qvars,
          queue_add_block, queue_add_header, AppendItem
    <3>2. QED
      BY <1>2, <3>1 DEF EndInv
  <2>3. QED
    BY <2>1, <2>2
<1>4. xpc # "done"
  BY <1>2 DEF EndInv, AllJoined
<1>5. \A t \in DecompThreads : dpc[t] = "exit" => dwork[t] # NoWork
  BY <1>2 DEF EndInv
<1>6. QED
  BY <1>1, <1>2, <1>3, <1>4, <1>5 DEF EndInv

LEMMA EndStep ==
  ASSUME BaseInv, OwnInv, EndInv, [Next]_vars
  PROVE  EndInv'
<1>1. CASE Signal \/ UNCHANGED vars
  BY <1>1 DEF Signal, vars, qvars, xvars, rvars, dvars, EndInv, AllJoined
<1>2. QED
  BY <1>1, EndMain, EndDecomp, EndReader DEF Next, Done

LEMMA EndFresh == Fresh => EndInv
BY DEF Fresh, IdleInit, EndInv, queue_init

\* In every behaviour, an operation that has ended has joined its threads, has
\* reset the stop flag and has left nothing in the queue but what failed threads
\* keep there.
THEOREM EndsCorrect == Spec => []EndsClean
<1>1. Init => EndInv /\ OwnInv
  BY InitFresh, EndFresh, OwnFresh
<1>2. BaseInv /\ OwnInv /\ EndInv /\ [Next]_vars => EndInv' /\ OwnInv'
  BY EndStep, OwnStep
<1>3. EndInv => EndsClean
  BY EndImplies
<1>4. QED
  BY <1>1, <1>2, <1>3, BaseInvariant, PTL DEF Spec

(***************************************************************************)
(* The reading: under the refinement mapping of RestorePipeline every step *)
(* is a step of ArchiveReading or changes nothing of it.                   *)
(***************************************************************************)
\* The parts of the mapping.
Queued(q) == [i \in DOMAIN q |-> Unpack(q[i].val)]

At == IF rpc = "add" THEN rpos - 1 ELSE rpos

\* What the reader holds is the record before its position, or zeros for it.
ReadInv ==
  /\ rpc \in {"none", "open"} => rpos = 1
  /\ rpc = "add" =>
       /\ rpos - 1 \in DOMAIN Recs /\ Wanted(Recs[rpos - 1])
       /\ \/ ritem = Recs[rpos - 1]
          \/ /\ "damage" \in Faults /\ Recs[rpos - 1].magic = "BLKH"
             /\ ritem = Zeros(Recs[rpos - 1])

-----------------------------------------------------------------------------
\* Facts about the mapping.
LEMMA QueuedType ==
  ASSUME NEW q \in Seq(Item(Readable))
  PROVE  /\ Queued(q) \in Seq(Readable) /\ Len(Queued(q)) = Len(q)
         /\ \A i \in 1 .. Len(q) : Queued(q)[i] = Unpack(q[i].val)
         /\ DOMAIN q = 1 .. Len(q) /\ Len(q) \in Nat
<1>1. DOMAIN q = 1 .. Len(q) /\ Len(q) \in Nat
  BY LenProperties
<1>2. \A i \in DOMAIN q : Unpack(q[i].val) \in Readable
  BY ItemAt, UnpackType DEF Item
<1>3. Queued(q) = [i \in DOMAIN q |-> Queued(q)[i]] /\ \A i \in DOMAIN q : Queued(q)[i] \in Readable
  BY <1>2 DEF Queued
<1>4. Queued(q) \in Seq(Readable) /\ Len(Queued(q)) = Len(q)
  BY <1>3, SeqOfFcn
<1>5. QED
  BY <1>1, <1>4 DEF Queued

LEMMA QueuedAppend ==
  ASSUME NEW q \in Seq(Item(Readable)), NEW e \in Item(Readable)
  PROVE  /\ Queued(Append(q, e)) = Append(Queued(q), Unpack(e.val))
         /\ Unpack(e.val) \in Readable
<1>1. Unpack(e.val) \in Readable
  BY UnpackType DEF Item
<1> DEFINE a == Append(q, e)
           b == Append(Queued(q), Unpack(e.val))
<1>2. /\ a \in Seq(Item(Readable)) /\ Len(a) = Len(q) + 1
      /\ \A i \in 1 .. Len(q) : a[i] = q[i]
      /\ a[Len(q) + 1] = e
  BY AppendProperties
<1>3. /\ b \in Seq(Readable) /\ Len(b) = Len(q) + 1
      /\ \A i \in 1 .. Len(q) : b[i] = Queued(q)[i]
      /\ b[Len(q) + 1] = Unpack(e.val)
  BY <1>1, QueuedType, AppendProperties
<1> HIDE DEF a, b
<1>4. \A i \in 1 .. Len(a) : Queued(a)[i] = b[i]
  <2> SUFFICES ASSUME NEW i \in 1 .. Len(a) PROVE Queued(a)[i] = b[i]
    OBVIOUS
  <2>1. Queued(a)[i] = Unpack(a[i].val)
    BY <1>2, QueuedType
  <2>2. i \in 1 .. Len(q) \/ i = Len(q) + 1
    BY <1>2, QueuedType
  <2>3. QED
    BY <1>2, <1>3, <2>1, <2>2, QueuedType
<1>5. Queued(a) = b
  BY <1>2, <1>3, <1>4, QueuedType, SeqEqual
<1>6. QED
  BY <1>1, <1>5 DEF a, b

LEMMA QueuedTail ==
  ASSUME NEW q \in Seq(Item(Readable)), q # <<>>
  PROVE  /\ Queued(q) # <<>>
         /\ Head(Queued(q)) = Unpack(Head(q).val)
         /\ Tail(Queued(q)) = Queued(Tail(q))
         /\ Tail(q) \in Seq(Item(Readable))
<1>1. /\ Tail(q) \in Seq(Item(Readable)) /\ Len(Tail(q)) = Len(q) - 1
      /\ \A i \in 1 .. Len(Tail(q)) : Tail(q)[i] = q[i + 1]
      /\ Len(q) \in Nat \ {0} /\ Head(q) = q[1]
  BY HeadTailProperties, EmptySeq
<1> DEFINE u == Queued(q)
<1>2. /\ u \in Seq(Readable) /\ Len(u) = Len(q)
      /\ \A i \in 1 .. Len(q) : u[i] = Unpack(q[i].val)
  BY QueuedType
<1> HIDE DEF u
<1>3. u # <<>>
  BY <1>1, <1>2, EmptySeq
<1>4. Head(u) = Unpack(Head(q).val)
  BY <1>1, <1>2, <1>3
<1>5. /\ Tail(u) \in Seq(Readable) /\ Len(Tail(u)) = Len(u) - 1
      /\ \A i \in 1 .. Len(Tail(u)) : Tail(u)[i] = u[i + 1]
  BY <1>2, <1>3, HeadTailProperties
<1>6. \A i \in 1 .. Len(Tail(u)) : Tail(u)[i] = Queued(Tail(q))[i]
  <2> SUFFICES ASSUME NEW i \in 1 .. Len(Tail(u)) PROVE Tail(u)[i] = Queued(Tail(q))[i]
    OBVIOUS
  <2>1. i \in 1 .. Len(Tail(q)) /\ i + 1 \in 1 .. Len(q)
    BY <1>1, <1>2, <1>5
  <2>2. Queued(Tail(q))[i] = Unpack(Tail(q)[i].val)
    BY <1>1, <2>1, QueuedType
  <2>3. QED
    BY <1>1, <1>2, <1>5, <2>1, <2>2
<1>7. Tail(u) = Queued(Tail(q))
  <2>1. Queued(Tail(q)) \in Seq(Readable) /\ Len(Queued(Tail(q))) = Len(q) - 1
    BY <1>1, QueuedType
  <2>2. Len(Tail(u)) = Len(q) - 1
    BY <1>2, <1>5
  <2>3. QED
    BY <1>5, <1>6, <2>1, <2>2, SeqEqual
<1>8. QED
  BY <1>1, <1>3, <1>4, <1>7 DEF u

\* The variables of the reading in the names of this module.
LEMMA Mapping ==
  /\ InOrder!readingVars = <<archive, g_fsbitmap, rvol, At, Queued(list), endofqueue>>
  /\ InOrder!readingVars' = <<archive', g_fsbitmap', rvol', At', Queued(list)', endofqueue'>>
BY DEF InOrder!readingVars, At, Queued

LEMMA SameWanted == \A r : InOrder!IsWanted(r) <=> Wanted(r)
BY DEF InOrder!IsWanted, InOrder!IsFS, IsFS, Wanted, Global, fsid

\* A step that leaves the reader's place and the unpacked form of the queue alone
\* changes nothing of the reading.
LEMMA Stutter ==
  ASSUME UNCHANGED <<archive, job, rvol, endofqueue>>, At' = At, Queued(list)' = Queued(list)
  PROVE  UNCHANGED InOrder!readingVars
BY Mapping DEF g_fsbitmap

\* The steps of the reading in the names of this module.
LEMMA DeliverStep ==
  ASSUME UNCHANGED <<archive, job, rvol, endofqueue>>, ~endofqueue,
         rvol \in DOMAIN archive, At \in DOMAIN Recs, Wanted(Recs[At]), At' = At + 1,
         \/ Queued(list)' = Append(Queued(list), Unpack(Recs[At]))
         \/ /\ "damage" \in Faults /\ Recs[At].magic = "BLKH"
            /\ Queued(list)' = Append(Queued(list), Zeros(Recs[At]))
  PROVE  InOrder!Deliver
<1>1. InOrder!IsWanted(Recs[At])
  BY SameWanted
<1>2. /\ InOrder!Plain(Recs[At]) = Unpack(Recs[At])
      /\ InOrder!Damaged(Recs[At]) = [Recs[At] EXCEPT !.packed = FALSE, !.objs = <<>>]
  BY DEF InOrder!Plain, InOrder!Damaged, Unpack
<1>3. Zeros(Recs[At]) = [Recs[At] EXCEPT !.packed = FALSE, !.objs = <<>>]
  BY DEF Zeros
<1>4. g_fsbitmap' = g_fsbitmap
  BY DEF g_fsbitmap
<1>5. QED
  BY <1>1, <1>2, <1>3, <1>4 DEF InOrder!Deliver, InOrder!Records, Recs, At, Queued

LEMMA PassOverStep ==
  ASSUME UNCHANGED <<archive, job, rvol, endofqueue>>, ~endofqueue,
         rvol \in DOMAIN archive, At \in 1 .. Len(Recs) + 1,
         "damage" \in Faults \/ (At \in DOMAIN Recs /\ ~Wanted(Recs[At])),
         At' = At + 1, Queued(list)' = Queued(list)
  PROVE  InOrder!PassOver
<1>1. At \in DOMAIN Recs /\ ~Wanted(Recs[At]) => ~InOrder!IsWanted(Recs[At])
  BY SameWanted
<1>2. g_fsbitmap' = g_fsbitmap
  BY DEF g_fsbitmap
<1>3. QED
  BY <1>1, <1>2 DEF InOrder!PassOver, InOrder!Records, Recs, At, Queued

LEMMA NextVolumeStep ==
  ASSUME UNCHANGED <<archive, job, endofqueue>>, ~endofqueue,
         rvol \in DOMAIN archive, At = Len(Recs) + 1,
         rvol' = rvol + 1, At' = 1, Queued(list)' = Queued(list)
  PROVE  InOrder!NextVolume
BY DEF InOrder!NextVolume, InOrder!Records, Recs, At, Queued, g_fsbitmap

LEMMA TakeStep ==
  ASSUME UNCHANGED <<archive, job, rvol, endofqueue>>, At' = At,
         Queued(list) # <<>>, Queued(list)' = Tail(Queued(list))
  PROVE  InOrder!Take
BY DEF InOrder!Take, At, Queued, g_fsbitmap

LEMMA EndStepOfReading ==
  ASSUME UNCHANGED <<archive, job, rvol>>, endofqueue', At' = At,
         Queued(list)' = Queued(list), endofqueue' \in BOOLEAN
  PROVE  InOrder!End
BY DEF InOrder!End, At, Queued, g_fsbitmap

-----------------------------------------------------------------------------
\* The main thread takes records.
LEMMA MainReading ==
  ASSUME BaseInv, ReadInv, MainStep
  PROVE  ReadInv' /\ (InOrder!ReadingNext \/ UNCHANGED InOrder!readingVars)
<1>1. UNCHANGED <<archive, job, rvol, rpos, ritem>>
  BY MainOthers
<1>2. rpc' = rpc \/ (rpc = "none" /\ rpc' \in {"none", "open"})
  BY MainOthers DEF XStart, BaseInv, StartsOnce, XGoto, XFail
<1>3. ReadInv' /\ At' = At
  BY <1>1, <1>2 DEF ReadInv, At, Recs, Wanted, g_fsbitmap
<1>4. MainQueueStep
  BY MainQueueSteps
<1>5. CASE UNCHANGED qvars
  <2>1. Queued(list)' = Queued(list) /\ UNCHANGED endofqueue
    BY <1>5 DEF Queued, qvars
  <2>2. QED
    BY <1>1, <1>3, <2>1, Stutter
<1>6. CASE HeadIs({"todo", "done"}) /\ RemoveHead
  <2>1. list \in Seq(Item(Readable)) /\ list # <<>> /\ list' = Tail(list) /\ UNCHANGED endofqueue
    BY <1>6 DEF BaseInv, QInv, QTypeOK, HeadIs, RemoveHead
  <2>2. Queued(list) # <<>> /\ Queued(list)' = Tail(Queued(list))
    <3>1. Queued(list)' = Queued(list')
      BY DEF Queued
    <3>2. QED
      BY <2>1, <3>1, QueuedTail
  <2>3. QED
    BY <1>1, <1>3, <2>1, <2>2, TakeStep DEF InOrder!ReadingNext
<1>7. QED
  BY <1>4, <1>5, <1>6 DEF MainQueueStep

\* A thread that puts its block back changes the one place it was taken from.
LEMMA Replaced ==
  ASSUME BaseInv, OwnInv, NEW t \in DecompThreads, NEW v, dpc[t] = "work",
         queue_replace_block(dwork[t].num, v, "done")
  PROVE  /\ DOMAIN list' = DOMAIN list
         /\ \E k \in DOMAIN list :
              /\ list[k].val = dwork[t].val /\ list'[k].val = v
              /\ list'[k].type = list[k].type
              /\ \A i \in DOMAIN list : i # k => list'[i] = list[i]
<1> DEFINE n == dwork[t].num
           new(i) == [list[i] EXCEPT !.status = "done", !.val = v]
<1>1. list \in Seq(Item(Readable))
  BY DEF BaseInv, QInv, QTypeOK
<1>2. PICK k \in DOMAIN list : list[k].num = n /\ list[k].val = dwork[t].val
  BY DEF OwnInv, WorkOwned
<1>3. \A i \in DOMAIN list : list[i].num = n <=> i = k
  <2>1. \A i \in DOMAIN list : i \in Nat /\ list[i].num \in Nat
    BY <1>1, ItemAt
  <2>2. \A i, j \in DOMAIN list : i < j => list[i].num < list[j].num
    BY DEF BaseInv, QInv, QueueSound
  <2>3. QED
    BY <1>2, <2>1, <2>2
<1>4. \A i \in DOMAIN list : new(i).val = v /\ new(i).type = list[i].type
  <2>1. \A i \in DOMAIN list : list[i] \in Item(Readable)
    BY <1>1, ItemAt
  <2>2. \A e \in Item(Readable) :
          /\ [e EXCEPT !.status = "done", !.val = v].val = v
          /\ [e EXCEPT !.status = "done", !.val = v].type = e.type
    BY DEF Item
  <2>3. QED
    BY <2>1, <2>2
<1>5. list' = [i \in DOMAIN list |-> IF list[i].num = n THEN new(i) ELSE list[i]]
  BY DEF queue_replace_block
<1> HIDE DEF n, new
<1>6. /\ DOMAIN list' = DOMAIN list
      /\ \A i \in DOMAIN list : list'[i] = IF list[i].num = n THEN new(i) ELSE list[i]
  BY <1>5
<1>7. QED
  BY <1>2, <1>3, <1>4, <1>6

\* A block whose data do not uncompress.
LEMMA SpoilStep ==
  ASSUME UNCHANGED <<archive, job, rvol, endofqueue>>, At' = At, "uncompress" \in Faults,
         NEW k \in DOMAIN Queued(list), Queued(list)[k].magic = "BLKH",
         Queued(list)' = [Queued(list) EXCEPT ![k] = Zeros(@)]
  PROVE  InOrder!Spoil
<1>1. InOrder!Damaged(Queued(list)[k]) = Zeros(Queued(list)[k])
  BY DEF InOrder!Damaged, Zeros
<1>2. g_fsbitmap' = g_fsbitmap
  BY DEF g_fsbitmap
<1>3. Queued(list)' = [Queued(list) EXCEPT ![k] = InOrder!Damaged(Queued(list)[k])]
  BY <1>1
<1>4. QED
  BY <1>2, <1>3 DEF InOrder!Spoil, At, Queued

\* What a decompression thread does to the records in the queue: nothing, or it
\* puts zeros in the place of the data of one that does not uncompress.
LEMMA DecompQueued ==
  ASSUME BaseInv, OwnInv, NEW t \in DecompThreads, DecompStep(t)
  PROVE  IF DReplaceSpoilt(t)
         THEN \E k \in DOMAIN Queued(list) :
                /\ Queued(list)[k].magic = "BLKH"
                /\ Queued(list)' = [Queued(list) EXCEPT ![k] = Zeros(@)]
         ELSE Queued(list)' = Queued(list)
<1>1. list \in Seq(Item(Readable)) /\ dwork[t].val \in Readable
  BY DEF BaseInv, QInv, QTypeOK, WorkTypeOK
<1>2. \A v \in Readable :
        /\ Unpack(Unpack(v)) = Unpack(v) /\ Unpack(v).magic = v.magic
        /\ Unpack(Zeros(v)) = Zeros(Unpack(v))
  BY DEF Unpack, Zeros, Readable, Record
<1>3. CASE DReplaceSpoilt(t)
  <2>1. /\ DOMAIN list' = DOMAIN list
        /\ \E k \in DOMAIN list :
             /\ list[k].val = dwork[t].val /\ list'[k].val = Zeros(dwork[t].val)
             /\ \A i \in DOMAIN list : i # k => list'[i] = list[i]
    BY <1>3, Replaced DEF DReplaceSpoilt
  <2>2. PICK k \in DOMAIN list :
          /\ list[k].val = dwork[t].val /\ list'[k].val = Zeros(dwork[t].val)
          /\ \A i \in DOMAIN list : i # k => list'[i] = list[i]
    BY <2>1
  <2>3. Unpack(dwork[t].val).magic = "BLKH"
    BY <1>1, <1>2, <1>3 DEF BaseInv, BlocksOnly, DReplaceSpoilt
  <2>4. /\ k \in DOMAIN Queued(list) /\ Queued(list)[k] = Unpack(dwork[t].val)
        /\ DOMAIN Queued(list) = DOMAIN list
        /\ \A i \in DOMAIN list : Queued(list)[i] = Unpack(list[i].val)
    BY <2>2 DEF Queued
  <2>5. \A i \in DOMAIN list :
          Unpack(list'[i].val) = IF i = k THEN Zeros(Queued(list)[k]) ELSE Queued(list)[i]
    BY <1>1, <1>2, <2>2, <2>4
  <2>6. Queued(list)' = [i \in DOMAIN list |-> Unpack(list'[i].val)]
    BY <2>1 DEF Queued
  <2>7. Queued(list)' = [Queued(list) EXCEPT ![k] = Zeros(@)]
    BY <2>4, <2>5, <2>6
  <2>8. QED
    BY <1>3, <2>3, <2>4, <2>7
<1>4. CASE ~DReplaceSpoilt(t)
  <2>1. DOMAIN list' = DOMAIN list /\ \A i \in DOMAIN list : Unpack(list'[i].val) = Unpack(list[i].val)
    <3>1. CASE DTake(t)
      <4>1. PICK k \in DOMAIN list : queue_get_first_block_todo(k)
        BY <3>1 DEF DTake
      <4>2. DOMAIN list' = DOMAIN list /\ \A i \in DOMAIN list : list'[i].val = list[i].val
        BY <1>1, <4>1, ItemAt DEF queue_get_first_block_todo, Item
      <4>3. QED
        BY <4>2
    <3>2. CASE DReplace(t)
      <4>1. /\ DOMAIN list' = DOMAIN list
            /\ \E k \in DOMAIN list :
                 /\ list[k].val = dwork[t].val /\ list'[k].val = Unpack(dwork[t].val)
                 /\ \A i \in DOMAIN list : i # k => list'[i] = list[i]
        BY <3>2, Replaced DEF DReplace
      <4>2. QED
        BY <1>1, <1>2, <4>1
    <3>3. CASE DBegin(t) \/ DFail(t) \/ DExit(t)
      BY <3>3 DEF DBegin, DFail, DExit, qvars
    <3>4. QED
      BY <1>4, <3>1, <3>2, <3>3 DEF DecompStep
  <2>2. Queued(list)' = Queued(list)
    BY <2>1 DEF Queued
  <2>3. QED
    BY <1>4, <2>2
<1>5. QED
  BY <1>3, <1>4

\* The decompression threads leave the records in the queue as they are, or put
\* zeros in the place of the data of one that does not uncompress.
LEMMA DecompReading ==
  ASSUME BaseInv, OwnInv, ReadInv, NEW t \in DecompThreads, DecompStep(t)
  PROVE  ReadInv' /\ (InOrder!ReadingNext \/ UNCHANGED InOrder!readingVars)
<1>1. UNCHANGED <<archive, job, rpc, rvol, rpos, ritem>>
  BY DecompOthers
<1>2. UNCHANGED endofqueue
  BY DEF DecompStep, DBegin, DTake, DReplace, DReplaceSpoilt, DFail, DExit, qvars,
         queue_get_first_block_todo, queue_replace_block
<1>3. ReadInv' /\ At' = At
  BY <1>1 DEF ReadInv, At, Recs, Wanted, g_fsbitmap
<1>4. CASE DReplaceSpoilt(t)
  <2>1. PICK k \in DOMAIN Queued(list) :
          /\ Queued(list)[k].magic = "BLKH"
          /\ Queued(list)' = [Queued(list) EXCEPT ![k] = Zeros(@)]
    BY <1>4, DecompQueued
  <2>2. "uncompress" \in Faults
    BY <1>4 DEF DReplaceSpoilt, Loses
  <2>3. QED
    BY <1>1, <1>2, <1>3, <2>1, <2>2, SpoilStep DEF InOrder!ReadingNext
<1>5. CASE ~DReplaceSpoilt(t)
  <2>1. Queued(list)' = Queued(list)
    BY <1>5, DecompQueued
  <2>2. QED
    BY <1>1, <1>2, <1>3, <2>1, Stutter
<1>6. QED
  BY <1>4, <1>5

\* The reader delivers what it has read and passes over the rest.
LEMMA ReaderReading ==
  ASSUME BaseInv, EndInv, ReadInv, ReaderStep \/ RAsk
  PROVE  ReadInv' /\ (InOrder!ReadingNext \/ UNCHANGED InOrder!readingVars)
<1> USE DEF RGoto
<1>1. /\ UNCHANGED <<archive, job>> /\ list \in Seq(Item(Readable)) /\ rpos \in Nat \ {0}
      /\ rpc \notin {"none", "exit"} => ~endofqueue
  BY ReaderOthers DEF BaseInv, QInv, QTypeOK, ReaderTypeOK, EndInv
<1>2. ASSUME rpc = "loop"
      PROVE  /\ rvol \in DOMAIN archive /\ Len(Recs) \in Nat /\ DOMAIN Recs = 1 .. Len(Recs)
             /\ At = rpos /\ ~endofqueue
  BY <1>1, <1>2, VolumeType DEF BaseInv, AtVolume, Recs, At
<1>3. ASSUME UNCHANGED <<list, endofqueue>>
      PROVE  Queued(list)' = Queued(list)
  BY <1>3 DEF Queued
<1>4. CASE ROpen
  <2>1. /\ rpc = "open" /\ rpc' = "add" /\ rpos = 1 /\ rpos' = 2 /\ FirstVolume
        /\ ritem' = Recs[1] /\ UNCHANGED <<qvars, rvol>>
    BY <1>4 DEF ROpen, ReadInv
  <2>2. rvol = 1 /\ archive \in Seq(StoredVolume) /\ BeginsRight(archive)
    BY <2>1 DEF BaseInv, AtVolume, ArchiveOK, Restorable
  <2>3. 1 \in DOMAIN archive /\ archive # <<>> /\ Recs # <<>>
    BY <2>1, <2>2, LenProperties, EmptySeq DEF FirstVolume
  <2>4. 1 \in DOMAIN Recs
    BY <2>2, <2>3, VolumeType, LenProperties, EmptySeq DEF BaseInv, Recs
  <2>5. Wanted(Recs[1])
    BY <2>2, <2>3 DEF BeginsRight, Recs, Wanted, Global
  <2>6. ReadInv'
    <3>1. Recs' = Recs
      BY <1>1, <2>1 DEF Recs
    <3>2. Wanted(Recs[1])'
      BY <1>1, <2>5, <3>1 DEF Wanted, g_fsbitmap
    <3>3. QED
      BY <2>1, <2>4, <3>1, <3>2 DEF ReadInv
  <2>7. At' = At
    BY <2>1 DEF At
  <2>8. QED
    BY <1>1, <1>3, <2>1, <2>6, <2>7, Stutter DEF qvars
<1>5. CASE RReadFails \/ RStop \/ RDamagedStart \/ RAsk
  <2>1. /\ UNCHANGED <<qvars, rvol, rpos, ritem>> /\ rpc # "add"
        /\ rpc' \in {"error", "loop"}
    BY <1>5 DEF RReadFails, RStop, RDamagedStart, RAsk
  <2>2. ReadInv' /\ At' = At
    BY <2>1 DEF ReadInv, At
  <2>3. QED
    BY <1>1, <1>3, <2>1, <2>2, Stutter DEF qvars
<1>6. CASE RSkip
  <2>1. /\ rpc = "loop" /\ rpc' = "loop" /\ rpos <= Len(Recs) /\ rpos' = rpos + 1
        /\ ~Wanted(Recs[rpos]) /\ UNCHANGED <<qvars, rvol>>
    BY <1>6 DEF RSkip, Reading
  <2>2. ReadInv' /\ At' = At + 1
    BY <1>2, <2>1 DEF ReadInv, At
  <2>3. QED
    BY <1>1, <1>2, <1>3, <2>1, <2>2, PassOverStep DEF qvars, InOrder!ReadingNext
<1>7. CASE RRead \/ RDamagedBlock
  <2>1. /\ rpc = "loop" /\ rpc' = "add" /\ rpos <= Len(Recs) /\ rpos' = rpos + 1
        /\ Wanted(Recs[rpos]) /\ UNCHANGED <<qvars, rvol>>
        /\ \/ ritem' = Recs[rpos]
           \/ /\ "damage" \in Faults /\ Recs[rpos].magic = "BLKH"
              /\ ritem' = Zeros(Recs[rpos])
    BY <1>7 DEF RRead, RDamagedBlock, Reading, Loses
  <2>2. Recs' = Recs /\ rpos' - 1 = rpos /\ rpos \in DOMAIN Recs
    BY <1>1, <1>2, <2>1 DEF Recs
  <2>3. ReadInv'
    BY <2>1, <2>2, <1>1 DEF ReadInv, Wanted, g_fsbitmap
  <2>4. At' = At
    BY <2>1, <2>2, <1>2 DEF At
  <2>5. QED
    BY <1>1, <1>3, <2>1, <2>3, <2>4, Stutter DEF qvars
<1>8. CASE RDamagedHeader
  <2>1. /\ rpc = "loop" /\ rpc' = "loop" /\ rpos <= Len(Recs) + 1 /\ rpos' = rpos + 1
        /\ "damage" \in Faults /\ UNCHANGED <<qvars, rvol>>
    <3>1. rpos <= Len(Recs) \/ rpos = Len(Recs) + 1
      BY <1>8 DEF RDamagedHeader
    <3>2. rpc = "loop" /\ rpc' = "loop" /\ UNCHANGED <<qvars, rvol>> /\ rpos' = rpos + 1
      BY <1>8 DEF RDamagedHeader
    <3>3. "damage" \in Faults
      BY <1>8 DEF RDamagedHeader, Loses
    <3>4. QED
      BY <1>1, <1>2, <3>1, <3>2, <3>3
  <2>2. ReadInv' /\ At' = At + 1 /\ At \in 1 .. Len(Recs) + 1
    BY <1>1, <1>2, <2>1 DEF ReadInv, At
  <2>3. QED
    BY <1>1, <1>2, <1>3, <2>1, <2>2, PassOverStep DEF qvars, InOrder!ReadingNext
<1>9. CASE RAdd
  <2>1. /\ rpc = "add" /\ rpc' = "loop" /\ UNCHANGED <<rvol, rpos>>
        /\ rvol \in DOMAIN archive /\ At = rpos - 1 /\ At' = At + 1
    BY <1>1, <1>9 DEF RAdd, BaseInv, AtVolume, At
  <2>2. PICK st \in {"todo", "done"}, ty \in {"block", "header"} : AppendItem(ty, st, ritem)
    BY <1>9 DEF RAdd, queue_add_block, queue_add_header
  <2> DEFINE e == [num |-> curitemnum, type |-> ty, status |-> st, val |-> ritem]
  <2>3. /\ e \in Item(Readable) /\ e.val = ritem
        /\ list' = Append(list, e) /\ UNCHANGED endofqueue
    BY <2>2 DEF AppendItem, Item, BaseInv, QInv, QTypeOK
  <2> HIDE DEF e
  <2>4. Queued(list)' = Append(Queued(list), Unpack(ritem))
    <3>1. Queued(list)' = Queued(list')
      BY DEF Queued
    <3>2. QED
      BY <1>1, <2>3, <3>1, QueuedAppend
  <2>5. ritem \in Record
    BY DEF BaseInv, ReaderTypeOK
  <2>6. /\ At \in DOMAIN Recs /\ Wanted(Recs[At])
        /\ \/ ritem = Recs[At]
           \/ "damage" \in Faults /\ Recs[At].magic = "BLKH" /\ ritem = Zeros(Recs[At])
    BY <2>1 DEF ReadInv
  <2>7. ritem = Zeros(Recs[At]) => Unpack(ritem) = Zeros(Recs[At])
    <3>1. Recs[At] \in Record
      BY <2>1, <2>6, VolumeType DEF BaseInv, Recs, Readable
    <3>2. \A r \in Record : Unpack(Zeros(r)) = Zeros(r)
      BY DEF Unpack, Zeros, Record
    <3>3. QED
      BY <3>1, <3>2
  <2>8. ReadInv'
    BY <2>1 DEF ReadInv
  <2>9. QED
    BY <1>1, <2>1, <2>3, <2>4, <2>6, <2>7, <2>8, DeliverStep DEF InOrder!ReadingNext
<1>10. CASE RVolumeEnd
  <2>1. /\ rpc = "loop" /\ rpos = Len(Recs) + 1 /\ UNCHANGED qvars
        /\ \/ rpc' = "error" /\ UNCHANGED <<rvol, rpos>>
           \/ rvol' = rvol + 1 /\ rpos' = 1 /\ rpc' \in {"loop", "ask"}
    BY <1>10 DEF RVolumeEnd
  <2>2. ReadInv'
    BY <2>1 DEF ReadInv
  <2>3. CASE rpc' = "error" /\ UNCHANGED <<rvol, rpos>>
    <3>1. At' = At
      BY <2>1, <2>3 DEF At
    <3>2. QED
      BY <1>1, <1>3, <2>1, <2>2, <2>3, <3>1, Stutter DEF qvars
  <2>4. CASE rvol' = rvol + 1 /\ rpos' = 1 /\ rpc' \in {"loop", "ask"}
    <3>1. At' = 1
      BY <2>4 DEF At
    <3>2. QED
      BY <1>1, <1>2, <1>3, <2>1, <2>2, <2>4, <3>1, NextVolumeStep DEF qvars, InOrder!ReadingNext
  <2>5. QED
    BY <2>1, <2>3, <2>4
<1>11. CASE REnd
  <2>1. /\ rpc = "error" /\ rpc' = "exit" /\ UNCHANGED <<list, rvol, rpos>> /\ endofqueue' = TRUE
    BY <1>11 DEF REnd, queue_set_end_of_queue
  <2>2. ReadInv' /\ At' = At
    BY <2>1 DEF ReadInv, At
  <2>3. Queued(list)' = Queued(list)
    BY <2>1 DEF Queued
  <2>4. QED
    BY <1>1, <2>1, <2>2, <2>3, EndStepOfReading DEF InOrder!ReadingNext
<1>12. QED
  BY <1>4, <1>5, <1>6, <1>7, <1>8, <1>9, <1>10, <1>11 DEF ReaderStep

-----------------------------------------------------------------------------
LEMMA ReadFresh == Fresh => ReadInv
BY DEF Fresh, IdleInit, ReadInv

\* In every behaviour the main thread gets the records that are wanted in the
\* order of the archive, each once and plain, whatever the threads do; only the
\* data of a block that is damaged, or that does not uncompress, are zeros.
THEOREM Implements == Spec => ReadingImplemented
<1>1. Init => OwnInv /\ EndInv /\ ReadInv /\ InOrder!ReadingInit
  <2> SUFFICES ASSUME Init PROVE OwnInv /\ EndInv /\ ReadInv /\ InOrder!ReadingInit
    OBVIOUS
  <2>1. OwnInv /\ EndInv /\ ReadInv
    BY InitFresh, OwnFresh, EndFresh, ReadFresh
  <2>2. InOrder!ReadingInit
    <3>1. [i \in DOMAIN list |-> Unpack(list[i].val)] = <<>>
      BY DEF Init, queue_init
    <3>2. QED
      BY <3>1 DEF Init, IdleInit, queue_init, InOrder!ReadingInit
  <2>3. QED
    BY <2>1, <2>2
<1>2. ASSUME BaseInv, OwnInv, EndInv, ReadInv, [Next]_vars
      PROVE  /\ OwnInv' /\ EndInv' /\ ReadInv'
             /\ [InOrder!ReadingNext]_(InOrder!readingVars)
  <2>1. OwnInv' /\ EndInv'
    BY <1>2, OwnStep, EndStep
  <2>2. CASE Signal \/ UNCHANGED vars
    <3>1. UNCHANGED <<qvars, archive, job, rvars>>
      BY <2>2 DEF Signal, vars
    <3>2. ReadInv' /\ At' = At
      <4>1. UNCHANGED <<archive, job, rpc, rvol, rpos, ritem>>
        BY <3>1 DEF rvars
      <4>2. QED
        BY <1>2, <4>1 DEF ReadInv, At, Recs, Wanted, g_fsbitmap
    <3>3. Queued(list)' = Queued(list) /\ UNCHANGED <<rvol, endofqueue>>
      BY <3>1 DEF Queued, rvars, qvars
    <3>4. QED
      BY <2>1, <3>1, <3>2, <3>3, Stutter
  <2>3. QED
    BY <1>2, <2>1, <2>2, MainReading, DecompReading, ReaderReading DEF Next, Done
<1>3. QED
  BY <1>1, <1>2, BaseInvariant, PTL DEF Spec, ReadingImplemented, InOrder!ReadingSpec
=============================================================================
