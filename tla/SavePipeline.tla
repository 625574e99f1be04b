---------------------------- MODULE SavePipeline ----------------------------
(***************************************************************************)
(* One save operation of the archiving engine: the main thread             *)
(* (oper_save.c, regmulti.c) walks the file systems or directories and     *)
(* fills the queue, the compression threads (thread_comp.c) process the    *)
(* blocks in place, and the writer thread (thread_archio.c, archwriter.c)  *)
(* takes the items from the head of the queue and writes the volumes.      *)
(* The threads share g_queue, g_stopfillqueue and the signal state.        *)
(***************************************************************************)
EXTENDS CQueue, ArchWriter, ArchiveFormat

CONSTANTS
  CompThreads,              \* the compression threads, g_options.compressjobs of them
  MultiItems,               \* FSA_MAX_SMALLFILECOUNT
  MultiSize,                \* size of the block shared by small files
  HeadSize, BlockSize,      \* sizes of a header and of a block in the archive
  Faults                    \* what may go wrong, a subset of FaultKinds

FaultKinds == {"thread",    \* pthread_create fails
               "mount",     \* a file system cannot be mounted or analysed
               "source",    \* a file or directory cannot be read in full
               "compress",  \* a block cannot be compressed or encrypted
               "write",     \* the archive cannot be created or written
               "signal"}    \* SIGINT or SIGTERM arrives

ASSUME SaveAssumption ==
  /\ ArchType \in {"filesystems", "directories"}
  /\ Trees \in Seq(Seq(Entry))
  /\ \A i \in DOMAIN Trees : Trees[i] # <<>> /\ Trees[i][1].kind = "dir"
  /\ IsFiniteSet(CompThreads) /\ CompThreads # {}
  /\ MultiItems \in Nat \ {0} /\ MultiSize \in Nat
  /\ HeadSize \in Nat /\ BlockSize \in Nat
  /\ Faults \subseteq FaultKinds

VARIABLES
  stop,                     \* g_stopfillqueue
  abort,                    \* a signal is pending or g_aborted is set
  mpc,                      \* where the main thread is
  tree, entry, pos,         \* its loop counters: tree, entry, block or header
  eof,                      \* the file turned out shorter than its size
  multi, multiused,         \* save->regmulti: the small files put aside
  walkret,                  \* result of createar_save_directory
  ret,                      \* result of oper_save
  errs,                     \* totalerr > 0
  cpc, cwork,               \* the compression threads and the blocks they hold
  wpc, witem                \* the writer and the item it has taken

mvars == <<mpc, tree, entry, pos, eof, multi, multiused, walkret, ret, errs>>
wvars == <<wpc, witem>>
cvars == <<cpc, cwork>>
vars  == <<qvars, avars, stop, abort, mvars, cvars, wvars>>

(***************************************************************************)
(* Abbreviations                                                           *)
(***************************************************************************)
SizeOf(v) == IF v.magic = "BLKH" THEN BlockSize ELSE HeadSize

NoWork == [num |-> 0, val |-> Blank]

interrupted == abort \/ stop            \* get_interrupted()

This == Trees[tree][entry]

\* A volume of the archive itself that is found in the tree is an ordinary file.
Blocks == IF This.kind = "self" THEN 1 ELSE This.size

Init ==
  /\ queue_init
  /\ archwriter_init
  /\ stop = FALSE /\ abort = FALSE
  /\ mpc = "start" /\ tree = 1 /\ entry = 1 /\ pos = 0 /\ eof = FALSE
  /\ multi = <<>> /\ multiused = 0
  /\ walkret = 0 /\ ret = 0 /\ errs = FALSE
  /\ cpc = [t \in CompThreads |-> "none"]
  /\ cwork = [t \in CompThreads |-> NoWork]
  /\ wpc = "none" /\ witem = Blank

(***************************************************************************)
(* The main thread.  An operation that only moves it leaves the rest:      *)
(***************************************************************************)
Elsewhere == UNCHANGED <<avars, stop, abort, cvars, wvars>>

MGoto(from, to) == mpc = from /\ mpc' = to

\* do_create_error: every failure ends with ret = -1 and the same clean-up.
MFail(from) == MGoto(from, "cleanup") /\ ret' = -1

NextEntry(n) ==
  /\ mpc' = "walk"
  /\ entry' = entry + n
  /\ pos' = 0

\* Arguments checked, compression threads and writer created; a failure
\* leaves the threads created so far waiting for the end of the queue.
MStart ==
  /\ \E created \in SUBSET CompThreads, writer \in BOOLEAN :
       /\ writer => created = CompThreads
       /\ ~writer => "thread" \in Faults
       /\ cpc' = [t \in CompThreads |-> IF t \in created THEN "idle" ELSE "none"]
       /\ wpc' = IF writer THEN "create" ELSE "none"
       /\ IF writer
            THEN MGoto("start", "mainhead") /\ UNCHANGED ret
            ELSE MFail("start")
  /\ UNCHANGED <<qvars, avars, stop, abort, cwork, witem, tree, entry, pos, eof,
                 multi, multiused, walkret, errs>>

MWriteMainHead ==
  /\ MGoto("mainhead", "analyse")
  /\ queue_add_header(Rec("MAIN", 0, <<>>, 0))
  /\ tree' = 1
  /\ Elsewhere
  /\ UNCHANGED <<entry, pos, eof, multi, multiused, walkret, ret, errs>>

\* Mount and evaluate; the evaluation puts no item in the queue.  One header
\* per file system, or one for all the directories.
MAnalyse ==
  /\ mpc = "analyse"
  /\ \/ /\ IsFS /\ tree <= Len(Trees)
        /\ queue_add_header(Rec("FSIN", 0, <<>>, tree))
        /\ tree' = tree + 1
        /\ UNCHANGED mpc
     \/ /\ ~IsFS
        /\ queue_add_header(Rec("DIRS", 0, <<>>, 0))
        /\ mpc' = "trees"
        /\ UNCHANGED tree
     \/ /\ IsFS /\ tree > Len(Trees)
        /\ mpc' = "trees"
        /\ tree' = 1
        /\ UNCHANGED qvars
  /\ Elsewhere
  /\ UNCHANGED <<entry, pos, eof, multi, multiused, walkret, ret, errs>>

MAnalyseFails ==
  /\ "mount" \in Faults
  /\ IsFS => tree <= Len(Trees)
  /\ MFail("analyse")
  /\ Elsewhere
  /\ UNCHANGED <<qvars, tree, entry, pos, eof, multi, multiused, walkret, errs>>

\* The loops of oper_save over the file systems and over the directories.
MNextTree ==
  /\ mpc = "trees"
  /\ IF tree <= Len(Trees) /\ ~interrupted
       THEN /\ mpc' = IF IsFS THEN "fsyb" ELSE "walk"
            /\ entry' = 1
            /\ walkret' = 0
       ELSE /\ mpc' = IF IsFS THEN "final" ELSE "datf"
            /\ UNCHANGED <<entry, walkret>>
  /\ Elsewhere
  /\ UNCHANGED <<qvars, tree, pos, eof, multi, multiused, ret, errs>>

MBeginFS ==
  /\ MGoto("fsyb", "walk")
  /\ queue_add_header(Rec("FSYB", tree, <<>>, 0))
  /\ Elsewhere
  /\ UNCHANGED <<tree, entry, pos, eof, multi, multiused, walkret, ret, errs>>

(***************************************************************************)
(* createar_save_directory and createar_save_file.  Every level of the     *)
(* recursion tests get_interrupted before each entry, except before the    *)
(* root itself, and returns at once when a level below it failed.          *)
(***************************************************************************)
Visiting(kinds) ==
  /\ mpc = "walk"
  /\ entry <= Len(Trees[tree])
  /\ entry > 1 => ~interrupted
  /\ This.kind \in kinds

\* Variant: the small files put aside are forgotten.
MWalkEnds_forgets ==
  /\ MGoto("walk", "endtree")
  /\ \/ entry > Len(Trees[tree])
     \/ entry > 1 /\ interrupted
  /\ pos' = 0
  /\ Elsewhere
  /\ UNCHANGED <<qvars, tree, entry, eof, multi, multiused, walkret, ret, errs>>

MWalkEnds ==
  /\ MGoto("walk", "flush")
  /\ \/ entry > Len(Trees[tree])
     \/ entry > 1 /\ interrupted
  /\ pos' = 0
  /\ Elsewhere
  /\ UNCHANGED <<qvars, tree, entry, eof, multi, multiused, walkret, ret, errs>>

\* A volume of the archive is met in the tree when it exists.
SelfExists == \E i \in DOMAIN vols : vols[i].num = This.size

\* lstat64 fails (the file went away), whatever it was: all levels return -1.
MStatFails ==
  /\ "source" \in Faults
  /\ \/ Visiting({"dir", "meta", "link", "unique", "multi"})
     \/ Visiting({"self"}) /\ SelfExists
  /\ mpc' = "flush"
  /\ pos' = 0
  /\ walkret' = -1
  /\ Elsewhere
  /\ UNCHANGED <<qvars, tree, entry, eof, multi, multiused, ret, errs>>

\* opendir fails: the level returns 0 and counts nothing.
MOpendirFails ==
  /\ "source" \in Faults
  /\ Visiting({"dir"})
  /\ NextEntry(1 + This.size)
  /\ Elsewhere
  /\ UNCHANGED <<qvars, tree, eof, multi, multiused, walkret, ret, errs>>

\* The attributes or the contents cannot be read: the entry is counted as an
\* error and leaves nothing in the archive.
MEntryUnreadable ==
  /\ "source" \in Faults
  /\ Visiting({"dir", "meta", "link", "unique", "multi"})
  /\ NextEntry(1)
  /\ errs' = TRUE
  /\ Elsewhere
  /\ UNCHANGED <<qvars, tree, eof, multi, multiused, walkret, ret>>

\* A volume of the archive in the tree: the one being written is refused, and
\* counted as an error.
MPassSelf ==
  /\ Visiting({"self"})
  /\ ~SelfExists \/ curvol = This.size
  /\ NextEntry(1)
  /\ errs' = (errs \/ SelfExists)
  /\ Elsewhere
  /\ UNCHANGED <<qvars, tree, eof, multi, multiused, walkret, ret>>

MVisit ==
  /\ \/ Visiting({"dir", "meta", "link", "unique"})
     \/ Visiting({"self"}) /\ SelfExists /\ curvol # This.size
  /\ mpc' = "objt"
  /\ Elsewhere
  /\ UNCHANGED <<qvars, tree, entry, pos, eof, multi, multiused, walkret, ret, errs>>

MAddObject ==
  /\ mpc = "objt"
  /\ queue_add_header(Rec("OBJT", tree, <<entry>>, 0))
  /\ IF This.kind \in {"unique", "self"}
       THEN mpc' = "file" /\ UNCHANGED <<entry, pos>>
       ELSE NextEntry(1)
  /\ eof' = FALSE
  /\ Elsewhere
  /\ UNCHANGED <<tree, multi, multiused, walkret, ret, errs>>

(***************************************************************************)
(* createar_obj_regfile_unique: the blocks of one file, then its footer.   *)
(***************************************************************************)
\* Once the file has come up short the remaining blocks are zeros.
MReadBlock ==
  /\ MGoto("file", "block")
  /\ pos < Blocks /\ ~interrupted
  /\ \/ UNCHANGED <<eof, errs>>
     \/ /\ "source" \in Faults /\ ~eof
        /\ eof' = TRUE
        /\ errs' = TRUE
  /\ Elsewhere
  /\ UNCHANGED <<qvars, tree, entry, pos, multi, multiused, walkret, ret>>

\* Variant: the footer is written although blocks are missing.
MReadFails_footer ==
  /\ "source" \in Faults
  /\ MGoto("file", "filf")
  /\ pos < Blocks /\ ~interrupted /\ ~eof
  /\ errs' = TRUE
  /\ Elsewhere
  /\ UNCHANGED <<qvars, tree, entry, pos, eof, multi, multiused, walkret, ret>>

\* Variant: the error is not counted.
MReadFails_silent ==
  /\ "source" \in Faults
  /\ mpc = "file"
  /\ pos < Blocks /\ ~interrupted /\ ~eof
  /\ NextEntry(1)
  /\ Elsewhere
  /\ UNCHANGED <<qvars, tree, eof, multi, multiused, walkret, ret, errs>>

MReadFails ==
  /\ "source" \in Faults
  /\ mpc = "file"
  /\ pos < Blocks /\ ~interrupted /\ ~eof
  /\ NextEntry(1)
  /\ errs' = TRUE
  /\ Elsewhere
  /\ UNCHANGED <<qvars, tree, eof, multi, multiused, walkret, ret>>

MAddBlock ==
  /\ MGoto("block", "file")
  /\ queue_add_block(Rec("BLKH", tree, <<entry>>, pos), "todo")
  /\ pos' = pos + 1
  /\ Elsewhere
  /\ UNCHANGED <<tree, entry, eof, multi, multiused, walkret, ret, errs>>

MFileInterrupted ==
  /\ mpc = "file"
  /\ interrupted
  /\ NextEntry(1)
  /\ errs' = TRUE
  /\ Elsewhere
  /\ UNCHANGED <<qvars, tree, eof, multi, multiused, walkret, ret>>

\* An empty file has no footer.
MFileRead ==
  /\ mpc = "file"
  /\ pos >= Blocks /\ ~interrupted
  /\ IF Blocks > 0
       THEN mpc' = "filf" /\ UNCHANGED <<entry, pos>>
       ELSE NextEntry(1)
  /\ Elsewhere
  /\ UNCHANGED <<qvars, tree, eof, multi, multiused, walkret, ret, errs>>

MAddFooter ==
  /\ mpc = "filf"
  /\ queue_add_header(Rec("FILF", tree, <<entry>>, 0))
  /\ NextEntry(1)
  /\ Elsewhere
  /\ UNCHANGED <<tree, eof, multi, multiused, walkret, ret, errs>>

(***************************************************************************)
(* Small files: createar_obj_regfile_multi and regmulti.c.  They are put   *)
(* aside, then queued together: their headers, then one shared block.      *)
(***************************************************************************)
RoomForSmallFile ==
  Len(multi) < MultiItems /\ multiused + This.size <= MultiSize

regmulti_save_addfile ==
  /\ multi' = Append(multi, entry)
  /\ multiused' = multiused + This.size

\* The file is read; one that came up short is padded and counted as an error.
MSmallFile ==
  /\ Visiting({"multi"})
  /\ errs' \in (IF "source" \in Faults THEN {errs, TRUE} ELSE {errs})
  /\ IF RoomForSmallFile
       THEN regmulti_save_addfile /\ NextEntry(1)
       ELSE mpc' = "enqueue" /\ pos' = 0 /\ UNCHANGED <<entry, multi, multiused>>
  /\ Elsewhere
  /\ UNCHANGED <<qvars, tree, eof, walkret, ret>>

\* regmulti_save_enqueue, called when the block is full and at the end of a tree
MEnqueueHeader ==
  /\ mpc \in {"enqueue", "flush"}
  /\ pos < Len(multi)
  /\ queue_add_header(Rec("OBJT", tree, <<multi[pos + 1]>>, Len(multi)))
  /\ pos' = pos + 1
  /\ Elsewhere
  /\ UNCHANGED <<mpc, tree, entry, eof, multi, multiused, walkret, ret, errs>>

MEnqueueBlock ==
  /\ mpc \in {"enqueue", "flush"}
  /\ pos = Len(multi)
  /\ IF multi = <<>>
       THEN UNCHANGED qvars
       ELSE queue_add_block(Rec("BLKH", tree, multi, 0), "todo")
  /\ mpc' = IF mpc = "enqueue" THEN "putaside" ELSE "endtree"
  /\ multi' = <<>>
  /\ multiused' = 0
  /\ Elsewhere
  /\ UNCHANGED <<tree, entry, pos, eof, walkret, ret, errs>>

\* The block is empty again; a file that does not fit even so is an error.
MPutAside ==
  /\ mpc = "putaside"
  /\ NextEntry(1)
  /\ IF RoomForSmallFile
       THEN regmulti_save_addfile /\ UNCHANGED errs
       ELSE errs' = TRUE /\ UNCHANGED <<multi, multiused>>
  /\ Elsewhere
  /\ UNCHANGED <<qvars, tree, eof, walkret, ret>>

(***************************************************************************)
(* The end of a tree, and of the operation.                                *)
(***************************************************************************)
\* createar_oper_savefs returns the result of the walk ...
MEndFS ==
  /\ IsFS
  /\ mpc = "endtree"
  /\ queue_add_header(Rec("DATF", tree, <<>>, 0))
  /\ IF walkret # 0
       THEN MFail("endtree") /\ UNCHANGED tree
       ELSE MGoto("endtree", "trees") /\ tree' = tree + 1 /\ UNCHANGED ret
  /\ Elsewhere
  /\ UNCHANGED <<entry, pos, eof, multi, multiused, walkret, errs>>

\* ... and createar_oper_savedir returns 0 whatever it was.
MEndDir ==
  /\ ~IsFS
  /\ MGoto("endtree", "trees")
  /\ tree' = tree + 1
  /\ Elsewhere
  /\ UNCHANGED <<qvars, entry, pos, eof, multi, multiused, walkret, ret, errs>>

MEndDirs ==
  /\ MGoto("datf", "final")
  /\ queue_add_header(Rec("DATF", 0, <<>>, 0))
  /\ Elsewhere
  /\ UNCHANGED <<tree, entry, pos, eof, multi, multiused, walkret, ret, errs>>

\* Variant: only a signal is taken for an interruption.
MFinal_signal ==
  /\ MGoto("final", "cleanup")
  /\ ret' = IF abort THEN -1 ELSE 0
  /\ Elsewhere
  /\ UNCHANGED <<qvars, tree, entry, pos, eof, multi, multiused, walkret, errs>>

\* The last test of get_interrupted: after it nothing tells this thread of a
\* failure of the others.
MFinal ==
  /\ MGoto("final", "cleanup")
  /\ ret' = IF interrupted THEN -1 ELSE 0
  /\ Elsewhere
  /\ UNCHANGED <<qvars, tree, entry, pos, eof, multi, multiused, walkret, errs>>

MSetEndOfQueue ==
  /\ MGoto("cleanup", "join")
  /\ queue_set_end_of_queue(TRUE)
  /\ Elsewhere
  /\ UNCHANGED <<tree, entry, pos, eof, multi, multiused, walkret, ret, errs>>

\* Variant: the writer is not joined.
AllJoined_comp == \A t \in CompThreads : cpc[t] \in {"none", "exit"}

AllJoined ==
  /\ \A t \in CompThreads : cpc[t] \in {"none", "exit"}
  /\ wpc \in {"none", "exit"}

\* Variant: what the writer failed with is left to the writer.
MJoin_keeps ==
  /\ MGoto("join", "done")
  /\ AllJoined
  /\ IF ret # 0 /\ ~stop THEN archwriter_remove ELSE UNCHANGED avars
  /\ ret' = IF errs THEN -1 ELSE ret
  /\ UNCHANGED <<qvars, stop, abort, cvars, wvars, tree, entry, pos, eof, multi,
                 multiused, walkret, errs>>

\* The archive of a failed operation is removed; errors that are not fatal
\* change the result only.
MJoin ==
  /\ MGoto("join", "done")
  /\ AllJoined
  /\ IF ret # 0 THEN archwriter_remove ELSE UNCHANGED avars
  /\ ret' = IF errs THEN -1 ELSE ret
  /\ UNCHANGED <<qvars, stop, abort, cvars, wvars, tree, entry, pos, eof, multi,
                 multiused, walkret, errs>>

MainStep ==
  \/ MStart \/ MWriteMainHead \/ MAnalyse \/ MAnalyseFails \/ MNextTree \/ MBeginFS
  \/ MWalkEnds \/ MStatFails \/ MOpendirFails \/ MEntryUnreadable \/ MPassSelf
  \/ MVisit \/ MAddObject \/ MReadBlock \/ MReadFails \/ MAddBlock
  \/ MFileInterrupted \/ MFileRead \/ MAddFooter \/ MSmallFile \/ MEnqueueHeader
  \/ MEnqueueBlock \/ MPutAside \/ MEndFS \/ MEndDir \/ MEndDirs \/ MFinal
  \/ MSetEndOfQueue \/ MJoin

(***************************************************************************)
(* compression_function: take the first block that is to do, process it,   *)
(* put it back.                                                            *)
(***************************************************************************)
Pack(v) == [v EXCEPT !.packed = TRUE]

CTake(t) ==
  /\ cpc[t] = "idle"
  /\ \E i \in DOMAIN list :
       /\ queue_get_first_block_todo(i)
       /\ cwork' = [cwork EXCEPT ![t] = [num |-> list[i].num, val |-> list[i].val]]
  /\ cpc' = [cpc EXCEPT ![t] = "work"]
  /\ UNCHANGED <<avars, stop, abort, mvars, wvars>>

CReplace(t) ==
  /\ cpc[t] = "work"
  /\ queue_replace_block(cwork[t].num, Pack(cwork[t].val), "done")
  /\ cwork' = [cwork EXCEPT ![t] = NoWork]
  /\ cpc' = [cpc EXCEPT ![t] = "idle"]
  /\ UNCHANGED <<avars, stop, abort, mvars, wvars>>

\* thread_comp_fct_error reads the stop flag and drops the value: the thread
\* ends, and its block stays in progress.
CFail(t) ==
  /\ "compress" \in Faults
  /\ cpc[t] = "work"
  /\ cpc' = [cpc EXCEPT ![t] = "exit"]
  /\ UNCHANGED <<qvars, avars, stop, abort, mvars, cwork, wvars>>

CExit(t) ==
  /\ cpc[t] = "idle"
  /\ queue_get_end_of_queue
  /\ cpc' = [cpc EXCEPT ![t] = "exit"]
  /\ UNCHANGED <<qvars, avars, stop, abort, mvars, cwork, wvars>>

CompStep(t) == CTake(t) \/ CReplace(t) \/ CFail(t) \/ CExit(t)

(***************************************************************************)
(* thread_writer_fct                                                       *)
(***************************************************************************)
WElsewhere == UNCHANGED <<stop, abort, mvars, cvars>>

WGoto(from, to) == wpc = from /\ wpc' = to

\* The first volume, or the next one when a record does not fit.
WCreate ==
  /\ \/ WGoto("create", "volhead") /\ archwriter_create(0)
     \/ WGoto("newvol", "newhead") /\ archwriter_create(curvol + 1)
  /\ WElsewhere
  /\ UNCHANGED <<qvars, witem>>

WCreateFails ==
  /\ \E from \in {"create", "newvol"} :
       LET n == IF from = "create" THEN 0 ELSE curvol + 1
       IN  /\ WGoto(from, "error")
           /\ VolumePathFree(n) => "write" \in Faults
           /\ archwriter_create_fails(n)
  /\ witem' = Blank
  /\ WElsewhere
  /\ UNCHANGED qvars

WVolHeader ==
  /\ WGoto("volhead", "loop") \/ WGoto("newhead", "record")
  /\ archwriter_write_volheader
  /\ WElsewhere
  /\ UNCHANGED <<qvars, witem>>

WDequeue ==
  /\ WGoto("loop", "item")
  /\ queue_dequeue_first
  /\ witem' = Head(list).val
  /\ WElsewhere
  /\ UNCHANGED avars

\* archwriter_split_if_necessary
WSplit ==
  /\ wpc = "item"
  /\ IF archwriter_split_check(SizeOf(witem))
       THEN archwriter_write_volfooter("more") /\ wpc' = "newvol"
       ELSE UNCHANGED avars /\ wpc' = "record"
  /\ WElsewhere
  /\ UNCHANGED <<qvars, witem>>

WWriteRecord ==
  /\ WGoto("record", "loop")
  /\ archwriter_write_buffer(witem, SizeOf(witem))
  /\ witem' = Blank
  /\ WElsewhere
  /\ UNCHANGED qvars

WLastFooter ==
  /\ WGoto("loop", "exit")
  /\ queue_get_end_of_queue
  /\ archwriter_write_volfooter("last")
  /\ WElsewhere
  /\ UNCHANGED <<qvars, witem>>

\* Any of the writes above fails.
WWriteFails ==
  /\ "write" \in Faults
  /\ \/ wpc \in {"volhead", "newhead", "record"}
     \/ wpc = "item" /\ archwriter_split_check(SizeOf(witem))
     \/ wpc = "loop" /\ queue_get_end_of_queue
  /\ wpc' = "error"
  /\ WriteFails
  /\ witem' = Blank
  /\ WElsewhere
  /\ UNCHANGED qvars

\* Variant: the writer leaves without emptying the queue.
WError_leaves ==
  /\ WGoto("error", "exit")
  /\ stop' = TRUE
  /\ UNCHANGED <<qvars, avars, abort, mvars, cvars, witem>>

WError ==
  /\ WGoto("error", "drain")
  /\ stop' = TRUE
  /\ UNCHANGED <<qvars, avars, abort, mvars, cvars, witem>>

WDrain ==
  /\ wpc = "drain"
  /\ IF queue_get_end_of_queue
       THEN wpc' = "exit" /\ archfd' = FALSE /\ UNCHANGED qvars
       ELSE queue_destroy_first_item /\ UNCHANGED <<wpc, archfd>>
  /\ WElsewhere
  /\ UNCHANGED <<data, vols, curvol, unlinked, witem>>

WriterStep ==
  \/ WCreate \/ WCreateFails \/ WVolHeader \/ WDequeue \/ WSplit \/ WWriteRecord
  \/ WLastFooter \/ WWriteFails \/ WError \/ WDrain

(***************************************************************************)
(* SIGINT and SIGTERM are blocked and looked for with sigpending, so one   *)
(* that has arrived is seen by every later get_abort.                      *)
(***************************************************************************)
Signal ==
  /\ "signal" \in Faults
  /\ mpc # "done"
  /\ abort' = TRUE
  /\ UNCHANGED <<qvars, avars, stop, mvars, cvars, wvars>>

Done == mpc = "done" /\ UNCHANGED vars

Next ==
  \/ MainStep
  \/ \E t \in CompThreads : CompStep(t)
  \/ WriterStep
  \/ Signal
  \/ Done

Spec == Init /\ [][Next]_vars

\* The kernel schedules every thread that is not blocked, and a thread that
\* waits on the queue looks again at least every second.
Fairness ==
  /\ WF_vars(MainStep)
  /\ \A t \in CompThreads : WF_vars(CompStep(t))
  /\ WF_vars(WriterStep)

FairSpec == Spec /\ Fairness

(***************************************************************************)
(* Properties                                                              *)
(***************************************************************************)
MainPC ==
  {"start", "mainhead", "analyse", "trees", "fsyb", "walk", "objt", "file", "block",
   "filf", "enqueue", "putaside", "flush", "endtree", "datf", "final", "cleanup",
   "join", "done"}

WriterPC ==
  {"none", "create", "volhead", "loop", "item", "newvol", "newhead", "record",
   "error", "drain", "exit"}

MainTypeOK ==
  /\ mpc \in MainPC
  /\ tree \in Nat \ {0} /\ entry \in Nat \ {0} /\ pos \in Nat
  /\ eof \in BOOLEAN /\ errs \in BOOLEAN
  /\ multi \in Seq(Nat) /\ multiused \in Nat
  /\ walkret \in {0, -1} /\ ret \in {0, -1}

CompTypeOK ==
  /\ cpc \in [CompThreads -> {"none", "idle", "work", "exit"}]
  /\ cwork \in [CompThreads -> [num : Nat, val : Record]]

WriterTypeOK == wpc \in WriterPC /\ witem \in Record

\* The variables have the types of the declarations they stand for.
TypeOK ==
  /\ QTypeOK(Record)
  /\ ATypeOK(Record)
  /\ MainTypeOK
  /\ CompTypeOK
  /\ WriterTypeOK
  /\ stop \in BOOLEAN /\ abort \in BOOLEAN

\* A block that a compression thread is working on is still in the queue,
\* marked and unchanged, and no other thread works on it; so the result goes
\* back to the place of the block it was made from.  A block in progress is
\* the business of a thread (one that failed leaves its block behind).
WorkOwned ==
  /\ \A t \in CompThreads : cpc[t] = "work" =>
       \E i \in DOMAIN list : /\ list[i].num = cwork[t].num
                              /\ list[i].val = cwork[t].val
                              /\ list[i].status = "progress"
  /\ \A t, u \in CompThreads :
       cpc[t] = "work" /\ cpc[u] = "work" /\ cwork[t].num = cwork[u].num => t = u
  /\ \A i \in DOMAIN list : list[i].status = "progress" =>
       \E t \in CompThreads : cwork[t].num = list[i].num

\* Blocks reach the archive only in the form the compression threads give
\* them, whatever the order in which the threads finish.
StoredBlocksPacked ==
  /\ \A p \in DOMAIN data : data[p].magic = "BLKH" => data[p].packed
  /\ \A i \in DOMAIN list :
       list[i].type = "block" => (list[i].status = "done" <=> list[i].val.packed)

\* The archive reads in order: an object's header, then its blocks one after
\* the other, then its footer; the headers of small files, then their shared
\* block; every object once, between the begin and the end of its file system.
\* The blocks went through several threads that finish in any order.
ArchiveReadable == WellFormed(data)

\* A volume that is followed by another one is complete, volumes are numbered
\* from 0, "last" is written after the last record and nothing after it, and a
\* volume is over the split size by its footer at most (when a record fits in
\* an empty volume at all).
VolumesSound ==
  /\ \A i \in DOMAIN vols :
       /\ vols[i].num = i - 1
       /\ i < Len(vols) => vols[i].head /\ vols[i].foot = "more" /\ ~vols[i].torn
       /\ vols[i].foot = "last" => list = <<>> /\ endofqueue /\ wpc = "exit"
       /\ SplitSize >= VolMarkSize + HeadSize /\ SplitSize >= VolMarkSize + BlockSize
            => vols[i].size <= SplitSize + VolMarkSize

\* The archive is on the disk, every volume of it complete.
Whole ==
  /\ vols # <<>> /\ ~unlinked
  /\ vols[Len(vols)].foot = "last"
  /\ \A i \in DOMAIN vols : ~vols[i].torn

\* An operation that has ended leaves no thread, no open file and no item behind,
\* and never says that it went well after it has removed the archive.
EndsClean ==
  mpc = "done" =>
    /\ AllJoined /\ ~archfd
    /\ list = <<>> /\ itemcount = 0 /\ blkcount = 0
    /\ unlinked => ret = -1

\* When all threads have come to their end the main thread leaves a whole archive
\* or none.  Whatever way it comes to the clean-up, a signal or a failure of the
\* writer until then makes its result an error, and then nothing stays on the
\* disk; a result of 0 leaves every volume complete, unless the writer has failed
\* after that.  (Errors that are not fatal are added to the result later and
\* change nothing in this.)
WholeOrNone ==
  [][/\ mpc # "cleanup" /\ mpc' = "cleanup" /\ interrupted => ret' = -1
     /\ mpc = "join" /\ mpc' = "done" =>
          IF ret = 0 THEN Whole' \/ stop ELSE unlinked' \/ vols' = <<>>]_vars

Stored(f, e) == {p \in DOMAIN data : data[p].tree = f /\ \E k \in DOMAIN data[p].objs :
                                                           data[p].objs[k] = e}

Saved(f, e) ==
  LET m == Trees[f][e].kind
      has(magic, n) == Cardinality({p \in Stored(f, e) : data[p].magic = magic}) = n
      n == Trees[f][e].size
  IN  /\ has("OBJT", 1)
      /\ m = "unique" => has("BLKH", n) /\ has("FILF", IF n = 0 THEN 0 ELSE 1)
      /\ m = "multi"  => has("BLKH", 1)

\* Below a directory that could not be opened, of which nothing is in the archive.
BelowUnopened(f, e) ==
  \E d \in 1 .. e : /\ Trees[f][d].kind = "dir"
                    /\ e <= d + Trees[f][d].size
                    /\ \A x \in d .. (d + Trees[f][d].size) : Stored(f, x) = {}

\* The entry is in the archive in full, or one of those.
SavedOrUnopened(f, e) ==
  Trees[f][e].kind = "self" \/ Saved(f, e) \/ BelowUnopened(f, e)

SavesAll == \A f \in DOMAIN Trees : \A e \in DOMAIN Trees[f] : SavedOrUnopened(f, e)

\* After a success of a file-system archive, the writer having got to its end,
\* the trees are in the archive in full: a directory that could not be opened
\* is the one thing that may be missing, with all that is below it.
SuccessSavesAll == mpc = "done" /\ ret = 0 /\ ~stop /\ IsFS => SavesAll

(***************************************************************************)
(* The pipeline implements the stream of ArchiveStream: what is pending is *)
(* the record the writer holds and those of the queue, whatever the        *)
(* compression threads have made of them.                                  *)
(***************************************************************************)
Unpack(v) == [v EXCEPT !.packed = FALSE]

WriterHolds == wpc \in {"item", "newvol", "newhead", "record"}

InFlight ==
  (IF WriterHolds THEN <<Unpack(witem)>> ELSE <<>>)
    \o [i \in DOMAIN list |-> Unpack(list[i].val)]

Stream == INSTANCE ArchiveStream WITH
  Value   <- Record,
  pending <- InFlight,
  stored  <- [p \in DOMAIN data |-> Unpack(data[p])],
  ended   <- endofqueue,
  broken  <- stop \/ wpc = "error",
  sealed  <- vols # <<>> /\ vols[Len(vols)].foot = "last"

\* Records are stored in the order the main thread queued them, although the
\* compression threads finish in any order; once the writer has failed nothing
\* more is stored, and the last footer is written when all is stored only.
StreamImplemented == Stream!StreamSpec

\* The operation ends, whoever fails or is interrupted.
Terminates == <>(mpc = "done")

(***************************************************************************)
(* What comments and messages of the program say, and does not hold.       *)
(***************************************************************************)
\* "other threads must not wait for more data from this thread": once the main
\* thread has set the end of the queue the other threads come to their end.
EndOfQueueEndsThreads == endofqueue ~> AllJoined

\* "The partition has been backed up successfully": the result that makes the
\* window say so is returned for a complete archive only.
SuccessMeansWhole == mpc = "done" /\ ret = 0 => Whole

\* "The backup of the directory was successful": the same for directories.
DirSuccessSavesAll == mpc = "done" /\ ret = 0 /\ ~stop /\ ~IsFS => SavesAll

\* "don't backup the archive file itself": no volume of the archive being
\* written is saved in it.
NoArchiveInside ==
  \A p \in DOMAIN data : data[p].magic = "OBJT" => KindAt(data[p]) # "self"
=============================================================================
