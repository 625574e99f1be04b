-------------------------- MODULE RestorePipeline --------------------------
(***************************************************************************)
(* One restore operation of the archiving engine, or one display of what   *)
(* an archive holds: the reader thread (thread_archio.c, archreader.c)     *)
(* reads the volumes and fills the queue, the decompression threads        *)
(* (thread_comp.c) process the blocks in place, and the main thread        *)
(* (oper_restore.c) takes the items from the head of the queue and makes   *)
(* the objects.  The threads share g_queue, g_stopfillqueue, the signal    *)
(* state and the counter of running threads.                               *)
(*                                                                         *)
(* The archive is the sequence of its volumes, whose records say what      *)
(* ArchiveFormat says, of the trees given there.                           *)
(***************************************************************************)
EXTENDS CQueue, ArchiveFormat

CONSTANTS
  Jobs,                     \* the operations that may be asked for, with their arguments
  Archives,                 \* the archives they may be given
  Excluded,                 \* objects that match a pattern to be excluded
  DecompThreads,            \* the decompression threads, g_options.compressjobs of them
  MaxDamage,                \* bound on the number of records whose contents are lost
  Faults                    \* what may go wrong, a subset of FaultKinds

FaultKinds == {"thread",    \* pthread_create fails
               "reject",    \* version, format or password of the archive is refused
               "read",      \* a volume cannot be opened or read
               "damage",    \* a header or the data of a block has a bad checksum
               "missing",   \* a volume is not found where it is looked for
               "uncompress",\* the algorithm does not accept the data of a block
               "decomp",    \* no memory or password for a block, or an unknown algorithm
               "target",    \* a file system, file or attribute cannot be made
               "write",     \* a file cannot be written (disk full)
               "signal"}    \* SIGINT or SIGTERM arrives

Job == [oper   : {"restfs", "restdir", "archinfo"},
        wanted : SUBSET (Nat \ {0})]    \* the file systems asked for, counted from 1

Objects == UNION {{<<t, e>> : e \in DOMAIN Trees[t]} : t \in DOMAIN Trees}

ASSUME RestoreAssumption ==
  /\ ArchType \in {"filesystems", "directories"}
  /\ Trees \in Seq(Seq(Entry))
  /\ \A t \in DOMAIN Trees : \A e \in DOMAIN Trees[t] :
       Trees[t][e].kind = "link" =>
         /\ Trees[t][e].size \in 1 .. e - 1
         /\ Trees[t][Trees[t][e].size].kind # "link"
  /\ Jobs \subseteq Job
  /\ Archives \subseteq Seq(StoredVolume)
  /\ \A a \in Archives : Restorable(a)
  /\ Excluded \subseteq Objects
  /\ IsFiniteSet(DecompThreads) /\ DecompThreads # {}
  /\ MaxDamage \in Nat
  /\ Faults \subseteq FaultKinds

VARIABLES
  stop,                     \* g_stopfillqueue
  abort,                    \* a signal is pending or g_aborted is set
  job, archive,             \* what was asked for; only read
  damaged,                  \* the records whose contents were lost on the way
  xpc,                      \* where the main thread is
  fs,                       \* its loop counter over the file systems
  file,                     \* the regular file being made
  group,                    \* regmulti: the headers of the small files
  objerrs,                  \* errors counted by extractar_extract_read_objects
  counted, failed,          \* objects counted in exar->stats as restored, as errors
  disk,                     \* what is at the place of each object
  ret,                      \* result of oper_restore
  rpc, rvol, rpos, ritem,   \* the reader, its place in the archive, what it has read
  dpc, dwork                \* the decompression threads and the blocks they hold

xvars == <<xpc, fs, file, group, objerrs, counted, failed, disk, ret>>
rvars == <<damaged, rpc, rvol, rpos, ritem>>
dvars == <<dpc, dwork>>
vars  == <<qvars, stop, abort, job, archive, xvars, rvars, dvars>>

(***************************************************************************)
(* Abbreviations                                                           *)
(***************************************************************************)
NoWork == [num |-> 0, val |-> Blank]

\* hdr: its header; data: the blocks written to it; closed: md5sumcalc has been
\* computed; minor and del: minorerr and delfile.
NoFile == [hdr |-> Blank, data |-> <<>>, closed |-> FALSE, minor |-> FALSE, del |-> FALSE]

interrupted == abort \/ stop            \* get_interrupted()

ObjectOf(r) == <<r.tree, r.objs[1]>>

\* The file system a record belongs to, and those the reader lets through.
fsid(r) == IF IsFS THEN r.tree - 1 ELSE 0

g_fsbitmap == CASE job.oper = "restfs"   -> {w - 1 : w \in job.wanted}
                [] job.oper = "restdir"  -> {0}
                [] job.oper = "archinfo" -> {}

Global(r) == r.magic \in {"MAIN", "FSIN", "DIRS"}

\* Before the operation starts.
IdleInit ==
  /\ damaged = {}
  /\ xpc = "start" /\ fs = 1 /\ file = NoFile /\ group = <<>> /\ objerrs = FALSE
  /\ counted = {} /\ failed = {}
  /\ disk = [o \in Objects |-> "old"]
  /\ ret = 0
  /\ rpc = "none" /\ rvol = 1 /\ rpos = 1 /\ ritem = Blank
  /\ dpc = [t \in DecompThreads |-> "none"]
  /\ dwork = [t \in DecompThreads |-> NoWork]

Init ==
  /\ queue_init
  /\ stop = FALSE /\ abort = FALSE
  /\ job \in Jobs /\ archive \in Archives
  /\ IdleInit

(***************************************************************************)
(* The main thread.  An operation that only moves it leaves the rest:      *)
(***************************************************************************)
Elsewhere == UNCHANGED <<stop, abort, job, archive, rvars, dvars>>

XGoto(from, to) == xpc = from /\ xpc' = to

\* do_extract_error: every failure ends with ret = -1 and the same teardown.
XFail(from) == XGoto(from, "teardown") /\ ret' = -1

\* The header the main thread asks for is m; or there is none, or another one.
Expect(m) == queue_dequeue_header /\ Head(list).val.magic = m

Disappoint(m) ==
  \/ queue_dequeue_fails("header")
  \/ queue_dequeue_header /\ Head(list).val.magic # m

\* Decompression threads and reader created: they count themselves among the
\* running threads when they come to run.  A failure leaves the threads created
\* so far waiting for the end of the queue.
XStart ==
  /\ \E created \in SUBSET DecompThreads, reader \in BOOLEAN :
       /\ reader => created = DecompThreads
       /\ ~reader => "thread" \in Faults
       /\ dpc' = [t \in DecompThreads |-> IF t \in created THEN "new" ELSE "none"]
       /\ rpc' = IF reader THEN "open" ELSE "none"
       /\ IF reader THEN XGoto("start", "mainhead") /\ UNCHANGED ret
                    ELSE XFail("start")
  /\ UNCHANGED <<qvars, stop, abort, job, archive, fs, file, group, objerrs, counted,
                 failed, disk, damaged, rvol, rpos, ritem, dwork>>

\* What was asked for must suit the archive.
JobSuits ==
  /\ job.oper = "restfs"  => IsFS
  /\ job.oper = "restdir" => ~IsFS
  /\ job.wanted \subseteq DOMAIN Trees

XMainHead ==
  /\ Expect("MAIN")
  /\ \/ /\ JobSuits
        /\ XGoto("mainhead", IF IsFS THEN "fsinfo" ELSE "dirsinfo")
        /\ UNCHANGED ret
     \/ /\ ~JobSuits \/ "reject" \in Faults
        /\ XFail("mainhead")
  /\ Elsewhere
  /\ UNCHANGED <<fs, file, group, objerrs, counted, failed, disk>>

XFsInfo ==
  /\ xpc = "fsinfo"
  /\ IF fs <= Len(Trees)
       THEN Expect("FSIN") /\ fs' = fs + 1 /\ UNCHANGED xpc
       ELSE /\ xpc' = IF job.oper = "archinfo" THEN "final" ELSE "filesystems"
            /\ fs' = 1
            /\ UNCHANGED qvars
  /\ Elsewhere
  /\ UNCHANGED <<file, group, objerrs, counted, failed, disk, ret>>

XDirsInfo ==
  /\ XGoto("dirsinfo", IF job.oper = "archinfo" THEN "final" ELSE "destdir")
  /\ Expect("DIRS")
  /\ Elsewhere
  /\ UNCHANGED <<fs, file, group, objerrs, counted, failed, disk, ret>>

\* Variant: a file system that was not asked for is extracted too.
XNextFS_every ==
  /\ xpc = "filesystems"
  /\ xpc' = IF fs <= Len(Trees) /\ ~abort THEN "fsyb" ELSE "final"
  /\ Elsewhere
  /\ UNCHANGED <<qvars, fs, file, group, objerrs, counted, failed, disk, ret>>

\* The loop of oper_restore over the file systems.
XNextFS ==
  /\ xpc = "filesystems"
  /\ IF fs <= Len(Trees) /\ ~abort
       THEN IF fs \in job.wanted THEN xpc' = "fsyb" /\ UNCHANGED fs
                                 ELSE fs' = fs + 1 /\ UNCHANGED xpc
       ELSE xpc' = "final" /\ UNCHANGED fs
  /\ Elsewhere
  /\ UNCHANGED <<qvars, file, group, objerrs, counted, failed, disk, ret>>

\* extractar_filesystem_extract: the header, then mkfs and mount.
Mkfs == [o \in Objects |-> IF o[1] = fs THEN "absent" ELSE disk[o]]

XBeginFS ==
  /\ XGoto("fsyb", "objects")
  /\ Expect("FSYB")
  /\ disk' = Mkfs
  /\ objerrs' = FALSE
  /\ Elsewhere
  /\ UNCHANGED <<fs, file, group, counted, failed, ret>>

\* The partition is mounted already; mkfs or mount fails; the directory to
\* restore to does not exist.
XTargetFails ==
  /\ "target" \in Faults
  /\ \/ XFail("fsyb") /\ UNCHANGED <<qvars, disk>>
     \/ XFail("fsyb") /\ Expect("FSYB") /\ disk' \in {disk, Mkfs}
     \/ XFail("destdir") /\ UNCHANGED <<qvars, disk>>
  /\ Elsewhere
  /\ UNCHANGED <<fs, file, group, objerrs, counted, failed>>

XBeginDir ==
  /\ XGoto("destdir", "objects")
  /\ Elsewhere
  /\ UNCHANGED <<qvars, fs, file, group, objerrs, counted, failed, disk, ret>>

\* The archive is encrypted and no password has been given.
XNoPassword ==
  /\ "reject" \in Faults
  /\ \/ XFail("destdir")
     \/ XFail("filesystems") /\ fs = 1
  /\ Elsewhere
  /\ UNCHANGED <<qvars, fs, file, group, objerrs, counted, failed, disk>>

\* A header that must be there is not the next item.
XHeaderMissing ==
  /\ \/ XFail("mainhead") /\ Disappoint("MAIN")
     \/ XFail("fsinfo") /\ fs <= Len(Trees) /\ Disappoint("FSIN")
     \/ XFail("dirsinfo") /\ Disappoint("DIRS")
     \/ XFail("fsyb") /\ Disappoint("FSYB")
  /\ Elsewhere
  /\ UNCHANGED <<fs, file, group, objerrs, counted, failed, disk>>

(***************************************************************************)
(* extractar_extract_read_objects                                          *)
(***************************************************************************)
HeadMagic(magics) == Head(list).type = "header" /\ Head(list).val.magic \in magics

XSkipGarbage ==
  /\ xpc = "objects"
  /\ HeadIs({"done"})
  /\ ~HeadMagic({"OBJT", "DATF"})
  /\ queue_destroy_first_item
  /\ Elsewhere
  /\ UNCHANGED xvars

XArchiveEnds ==
  /\ XFail("objects")
  /\ queue_get_end_of_queue
  /\ Elsewhere
  /\ UNCHANGED <<qvars, fs, file, group, objerrs, counted, failed, disk>>

\* The object at the head of the queue, taken.
Taking(kinds) ==
  /\ xpc = "objects"
  /\ HeadIs({"done"}) /\ HeadMagic({"OBJT"})
  /\ KindAt(Head(list).val) \in kinds
  /\ queue_dequeue_header

Ours == ~IsFS \/ Head(list).val.tree = fs

XForeignObject ==
  /\ Taking({"dir", "meta", "link", "unique", "multi", "self"})
  /\ ~Ours
  /\ xpc' = "next"
  /\ objerrs' = TRUE
  /\ Elsewhere
  /\ UNCHANGED <<fs, file, group, counted, failed, disk, ret>>

\* Directories, symlinks and special files: one that is excluded is counted as an
\* error, and so is one that cannot be made or has not all its attributes.
XObject ==
  /\ Taking({"dir", "meta"})
  /\ Ours
  /\ xpc' = "next"
  /\ LET o == ObjectOf(Head(list).val)
     IN  \/ /\ o \notin Excluded
            /\ disk' = [disk EXCEPT ![o] = "right"]
            /\ counted' = counted \cup {o}
            /\ UNCHANGED failed
         \/ /\ o \in Excluded \/ "target" \in Faults
            /\ disk' \in {disk, IF o \in Excluded THEN disk
                                ELSE [disk EXCEPT ![o] = "right"]}
            /\ failed' = failed \cup {o}
            /\ UNCHANGED counted
  /\ Elsewhere
  /\ UNCHANGED <<fs, file, group, objerrs, ret>>

FirstLink(o) == <<o[1], Trees[o[1]][o[2]].size>>

\* A hard link is made to what is at the place of its first link by now.
XLink ==
  /\ Taking({"link"})
  /\ Ours
  /\ xpc' = "next"
  /\ LET o == ObjectOf(Head(list).val)
         there == disk[FirstLink(o)] \notin {"old", "absent"}
         made == [disk EXCEPT ![o] = disk[FirstLink(o)]]
     IN  \/ /\ o \notin Excluded /\ there
            /\ disk' = made
            /\ counted' = counted \cup {o}
            /\ UNCHANGED failed
         \/ /\ o \in Excluded \/ ~there \/ "target" \in Faults
            /\ disk' \in {disk, IF o \notin Excluded /\ there THEN made ELSE disk}
            /\ failed' = failed \cup {o}
            /\ UNCHANGED counted
  /\ Elsewhere
  /\ UNCHANGED <<fs, file, group, objerrs, ret>>

\* After each object the abort state is looked at.
XNextObject ==
  /\ XGoto("next", IF abort THEN "fsend" ELSE "objects")
  /\ Elsewhere
  /\ UNCHANGED <<qvars, fs, file, group, objerrs, counted, failed, disk, ret>>

XObjectsEnd ==
  /\ XGoto("objects", "fsend")
  /\ HeadIs({"done"}) /\ HeadMagic({"DATF"})
  /\ Elsewhere
  /\ UNCHANGED <<qvars, fs, file, group, objerrs, counted, failed, disk, ret>>

\* The directories are at their end; a file system has its end header taken,
\* whose magic changes no result, and is unmounted.
XEndFS ==
  /\ xpc = "fsend"
  /\ IF IsFS
       THEN /\ ~objerrs
            /\ queue_dequeue_header
            /\ xpc' = "filesystems"
            /\ fs' = fs + 1
       ELSE xpc' = "final" /\ UNCHANGED <<qvars, fs>>
  /\ Elsewhere
  /\ UNCHANGED <<file, group, objerrs, counted, failed, disk, ret>>

XEndFSFails ==
  /\ IsFS
  /\ XFail("fsend")
  /\ \/ objerrs /\ UNCHANGED qvars
     \/ queue_dequeue_fails("header")
     \/ "target" \in Faults /\ queue_dequeue_header
  /\ Elsewhere
  /\ UNCHANGED <<fs, file, group, objerrs, counted, failed, disk>>

(***************************************************************************)
(* extractar_restore_obj_regfile_unique                                    *)
(***************************************************************************)
This == ObjectOf(file.hdr)

\* The file is opened, which empties it; one that is excluded is read all the
\* same, and not written.
XOpenFile ==
  /\ Taking({"unique", "self"})
  /\ Ours
  /\ xpc' = "file"
  /\ LET r == Head(list).val
         o == ObjectOf(r)
     IN  \/ /\ file' = [NoFile EXCEPT !.hdr = r]
            /\ disk' = IF o \in Excluded THEN disk ELSE [disk EXCEPT ![o] = "wrong"]
         \/ /\ "target" \in Faults /\ o \notin Excluded
            /\ file' = [NoFile EXCEPT !.hdr = r, !.minor = TRUE]
            /\ UNCHANGED disk
  /\ Elsewhere
  /\ UNCHANGED <<fs, group, objerrs, counted, failed, ret>>

\* The loop's condition, with the look at the flags in it.
XBlockLoop ==
  /\ XGoto("file", IF /\ ~file.minor /\ ~interrupted
                     /\ Len(file.data) < BlocksAt(file.hdr) THEN "block" ELSE "close")
  /\ Elsewhere
  /\ UNCHANGED <<qvars, fs, file, group, objerrs, counted, failed, disk, ret>>

XBlock ==
  /\ XGoto("block", "file")
  /\ queue_dequeue_block
  /\ file' = IF Head(list).val.off = Len(file.data)
               THEN [file EXCEPT !.data = Append(@, Head(list).val)]
               ELSE [file EXCEPT !.minor = TRUE, !.del = TRUE]
  /\ Elsewhere
  /\ UNCHANGED <<fs, group, objerrs, counted, failed, disk, ret>>

XBlockMissing ==
  /\ XGoto("block", "file")
  /\ queue_dequeue_fails("block")
  /\ file' = [file EXCEPT !.minor = TRUE, !.del = TRUE]
  /\ Elsewhere
  /\ UNCHANGED <<fs, group, objerrs, counted, failed, disk, ret>>

\* The disk is full: the file is removed and the whole operation fails.
XWriteFails ==
  /\ XFail("block")
  /\ "write" \in Faults /\ This \notin Excluded
  /\ queue_dequeue_block
  /\ Head(list).val.off = Len(file.data)
  /\ disk' = [disk EXCEPT ![This] = "absent"]
  /\ failed' = failed \cup {This}
  /\ Elsewhere
  /\ UNCHANGED <<fs, file, group, objerrs, counted>>

\* The blocks d are the contents of the file with header or footer r.  The
\* checksum of the file is modelled by this: it tells contents apart.
ContentsOf(d, r) ==
  /\ Len(d) = BlocksAt(r)
  /\ \A i \in DOMAIN d : SameObject(d[i], r) /\ d[i].off = i - 1 /\ ~d[i].packed

\* datafile_close and the attributes, both of which may fail.
XClose ==
  /\ XGoto("close", IF BlocksAt(file.hdr) > 0 THEN "footer" ELSE "counting")
  /\ IF file.minor
       THEN UNCHANGED <<file, disk>>
       ELSE /\ \E fails \in {FALSE, "target" \in Faults /\ This \notin Excluded} :
                 file' = [file EXCEPT !.closed = TRUE, !.minor = fails]
            /\ disk' = IF This \notin Excluded /\ ContentsOf(file.data, file.hdr)
                         THEN [disk EXCEPT ![This] = "right"] ELSE disk
  /\ Elsewhere
  /\ UNCHANGED <<qvars, fs, group, objerrs, counted, failed, ret>>

\* The checksum of a file that was not closed is not initialized.
SumAgrees(footer) ==
  IF file.closed THEN {ContentsOf(file.data, footer)} ELSE BOOLEAN

\* Variant: the checksum is not compared.
XFooter_ignores ==
  /\ XGoto("footer", "counting")
  /\ \/ queue_dequeue_fails("header")
     \/ queue_dequeue_header
  /\ Elsewhere
  /\ UNCHANGED <<fs, file, group, objerrs, counted, failed, disk, ret>>

\* The next header, whatever it is, is taken as the footer of the file.
XFooter ==
  /\ XGoto("footer", "counting")
  /\ \/ /\ queue_dequeue_fails("header")
        /\ file' = [file EXCEPT !.minor = TRUE]
     \/ /\ queue_dequeue_header
        /\ IF This \in Excluded
             THEN UNCHANGED file
             ELSE IF Head(list).val.magic # "FILF"
             THEN file' = [file EXCEPT !.minor = TRUE]
             ELSE \E agrees \in SumAgrees(Head(list).val) :
                    file' = IF agrees THEN file
                            ELSE [file EXCEPT !.minor = TRUE, !.del = TRUE]
  /\ Elsewhere
  /\ UNCHANGED <<fs, group, objerrs, counted, failed, disk, ret>>

\* Variant: a minor error does not matter for the count.
XCountFile_always ==
  /\ XGoto("counting", "next")
  /\ disk' = IF file.del THEN [disk EXCEPT ![This] = "absent"] ELSE disk
  /\ counted' = IF This \in Excluded THEN counted ELSE counted \cup {This}
  /\ file' = NoFile
  /\ Elsewhere
  /\ UNCHANGED <<qvars, fs, group, objerrs, failed, ret>>

\* Whether the file is excluded matters for the count, not for the removal.
XCountFile ==
  /\ XGoto("counting", "next")
  /\ disk' = IF file.del THEN [disk EXCEPT ![This] = "absent"] ELSE disk
  /\ counted' = IF This \in Excluded \/ file.minor THEN counted ELSE counted \cup {This}
  /\ failed' = IF This \notin Excluded /\ file.minor THEN failed \cup {This} ELSE failed
  /\ file' = NoFile
  /\ Elsewhere
  /\ UNCHANGED <<qvars, fs, group, objerrs, ret>>

(***************************************************************************)
(* extractar_restore_obj_regfile_multi: the headers of the files of a      *)
(* group, the block they share, then the files.                            *)
(***************************************************************************)
XFirstSmallFile ==
  /\ Taking({"multi"})
  /\ Ours
  /\ xpc' = "group"
  /\ group' = <<Head(list).val>>
  /\ Elsewhere
  /\ UNCHANGED <<fs, file, objerrs, counted, failed, disk, ret>>

\* Any object's header will do.
XGroupHeader ==
  /\ xpc = "group"
  /\ Len(group) < group[1].off
  /\ Expect("OBJT")
  /\ group' = Append(group, Head(list).val)
  /\ Elsewhere
  /\ UNCHANGED <<xpc, fs, file, objerrs, counted, failed, disk, ret>>

XGroupBlock ==
  /\ XGoto("group", "smallfiles")
  /\ Len(group) = group[1].off
  /\ queue_dequeue_block
  /\ file' = [NoFile EXCEPT !.data = <<Head(list).val>>]
  /\ Elsewhere
  /\ UNCHANGED <<fs, group, objerrs, counted, failed, disk, ret>>

XGroupFails ==
  /\ XFail("group")
  /\ IF Len(group) < group[1].off THEN Disappoint("OBJT") ELSE queue_dequeue_fails("block")
  /\ Elsewhere
  /\ UNCHANGED <<fs, file, group, objerrs, counted, failed, disk>>

\* The data of the object o is in the shared block.
InBlock(o) ==
  LET v == file.data[1]
  IN  ~v.packed /\ v.tree = o[1] /\ \E k \in DOMAIN v.objs : v.objs[k] = o[2]

\* Variant: the checksum of a small file is not compared.
SmallFileOutcomes_unchecked(r) ==
  LET o == ObjectOf(r)
  IN  {[disk |-> IF InBlock(o) THEN "right" ELSE "wrong", count |-> "ok"]}

\* A group that goes on behind damaged headers may take files of the next file
\* system, which come into this one.
Placed(r, d) == IF IsFS /\ r.tree # fs THEN disk[ObjectOf(r)] ELSE d

\* What happens to one small file: what is then at its place, and whether it is
\* counted as restored, as an error or not at all.
SmallFileOutcomes(r) ==
  LET o == ObjectOf(r)
      outcome(d, c) == [disk |-> Placed(r, d), count |-> c]
  IN  IF KindAt(r) # "multi" THEN {outcome(disk[o], "error")}
      ELSE IF o \in Excluded THEN {outcome(disk[o], "none")}
      ELSE {IF InBlock(o) THEN outcome("right", "ok") ELSE outcome("empty", "error")}
           \cup (IF "target" \notin Faults THEN {}
                 ELSE {outcome(disk[o], "error")}
                      \cup (IF InBlock(o) THEN {outcome("right", "error")} ELSE {}))

XSmallFile ==
  /\ XGoto("smallfiles", IF Len(group) > 1 THEN "smallfiles" ELSE "next")
  /\ LET o == ObjectOf(Head(group))
     IN  \E out \in SmallFileOutcomes(Head(group)) :
           /\ disk' = [disk EXCEPT ![o] = out.disk]
           /\ counted' = IF out.count = "ok" THEN counted \cup {o} ELSE counted
           /\ failed' = IF out.count = "error" THEN failed \cup {o} ELSE failed
  /\ group' = Tail(group)
  /\ file' = IF Len(group) > 1 THEN file ELSE NoFile
  /\ Elsewhere
  /\ UNCHANGED <<qvars, fs, objerrs, ret>>

XSmallFileWriteFails ==
  /\ "write" \in Faults
  /\ XFail("smallfiles")
  /\ LET r == Head(group)
     IN  /\ KindAt(r) = "multi" /\ ObjectOf(r) \notin Excluded
         /\ disk' = [disk EXCEPT ![ObjectOf(r)] = Placed(r, "absent")]
  /\ Elsewhere
  /\ UNCHANGED <<qvars, fs, file, group, objerrs, counted, failed>>

(***************************************************************************)
(* The end of the operation.                                               *)
(***************************************************************************)
\* Variant: an interruption does not change the result.
XFinal_ignores ==
  /\ XGoto("final", "teardown")
  /\ ret' = 0
  /\ Elsewhere
  /\ UNCHANGED <<qvars, fs, file, group, objerrs, counted, failed, disk>>

XFinal ==
  /\ XGoto("final", "teardown")
  /\ ret' = IF interrupted THEN -1 ELSE 0
  /\ Elsewhere
  /\ UNCHANGED <<qvars, fs, file, group, objerrs, counted, failed, disk>>

Aside == UNCHANGED <<abort, job, archive, fs, file, group, objerrs, counted, failed, disk,
                     rvars, dvars>>

XAskToStop ==
  /\ XGoto("teardown", "pending")
  /\ stop' = TRUE
  /\ Aside
  /\ UNCHANGED <<qvars, ret>>

\* Let the decompression threads process all the pending blocks.
XAwaitBlocks ==
  /\ XGoto("pending", "drain")
  /\ queue_count_items_todo = 0
  /\ Aside
  /\ UNCHANGED <<qvars, stop, ret>>

\* A thread that was created and has not come to run is not counted.
secthreads ==
  Cardinality({t \in DecompThreads : dpc[t] \in {"idle", "work"}})
    + (IF rpc \in {"none", "open", "exit"} THEN 0 ELSE 1)

\* Variant: the queue is emptied once, without waiting for the reader.
XDrain_once ==
  /\ xpc = "drain"
  /\ IF secthreads > 0 /\ list # <<>>
       THEN xpc' = "destroy" /\ UNCHANGED stop
       ELSE xpc' = "join" /\ stop' = FALSE
  /\ Aside
  /\ UNCHANGED <<qvars, ret>>

\* Variant: the stop flag stays set.
XDrain_keeps ==
  /\ xpc = "drain"
  /\ xpc' = IF secthreads > 0 /\ ~queue_get_end_of_queue THEN "destroy" ELSE "join"
  /\ Aside
  /\ UNCHANGED <<qvars, stop, ret>>

XDrain ==
  /\ xpc = "drain"
  /\ IF secthreads > 0 /\ ~queue_get_end_of_queue
       THEN xpc' = "destroy" /\ UNCHANGED stop
       ELSE xpc' = "join" /\ stop' = FALSE
  /\ Aside
  /\ UNCHANGED <<qvars, ret>>

XDestroy ==
  /\ XGoto("destroy", "drain")
  /\ \/ queue_destroy_first_item
     \/ queue_get_end_of_queue /\ UNCHANGED qvars
  /\ Aside
  /\ UNCHANGED <<stop, ret>>

\* Variant: the decompression threads are not joined.
AllJoined_reader == rpc \in {"none", "exit"}

AllJoined ==
  /\ \A t \in DecompThreads : dpc[t] \in {"none", "exit"}
  /\ rpc \in {"none", "exit"}

\* Errors that are not fatal change the result only.
XJoin ==
  /\ XGoto("join", "done")
  /\ AllJoined
  /\ ret' = IF failed # {} THEN -1 ELSE ret
  /\ Aside
  /\ UNCHANGED <<qvars, stop>>

MainStep ==
  \/ XStart \/ XMainHead \/ XFsInfo \/ XDirsInfo \/ XNextFS \/ XBeginFS \/ XTargetFails
  \/ XBeginDir \/ XNoPassword \/ XHeaderMissing \/ XSkipGarbage \/ XArchiveEnds \/ XForeignObject
  \/ XObject \/ XLink \/ XNextObject \/ XObjectsEnd \/ XEndFS \/ XEndFSFails \/ XOpenFile
  \/ XBlockLoop \/ XBlock \/ XBlockMissing \/ XWriteFails \/ XClose \/ XFooter
  \/ XCountFile \/ XFirstSmallFile \/ XGroupHeader \/ XGroupBlock \/ XGroupFails
  \/ XSmallFile \/ XSmallFileWriteFails \/ XFinal \/ XAskToStop \/ XAwaitBlocks
  \/ XDrain \/ XDestroy \/ XJoin

(***************************************************************************)
(* thread_decomp_fct and its compression_function.                         *)
(***************************************************************************)
Zeros(v) == [v EXCEPT !.objs = <<>>, !.packed = FALSE]

Unpack(v) == [v EXCEPT !.packed = FALSE]

\* The contents of a record are lost, for one of the reasons in Faults.
Loses(fault, part, r) ==
  /\ fault \in Faults
  /\ Cardinality(damaged) < MaxDamage
  /\ damaged' = damaged \cup {[part |-> part, of |-> r]}

DElsewhere == UNCHANGED <<stop, abort, job, archive, xvars, rvars>>

\* inc_secthreads, by the thread itself.
DBegin(t) ==
  /\ dpc[t] = "new"
  /\ dpc' = [dpc EXCEPT ![t] = "idle"]
  /\ DElsewhere
  /\ UNCHANGED <<qvars, dwork>>

DTake(t) ==
  /\ dpc[t] = "idle"
  /\ \E i \in DOMAIN list :
       /\ queue_get_first_block_todo(i)
       /\ dwork' = [dwork EXCEPT ![t] = [num |-> list[i].num, val |-> list[i].val]]
  /\ dpc' = [dpc EXCEPT ![t] = "work"]
  /\ DElsewhere

DReplace(t) ==
  /\ dpc[t] = "work"
  /\ queue_replace_block(dwork[t].num, Unpack(dwork[t].val), "done")
  /\ dwork' = [dwork EXCEPT ![t] = NoWork]
  /\ dpc' = [dpc EXCEPT ![t] = "idle"]
  /\ DElsewhere

\* The block does not uncompress, although its checksum is good: it is put back
\* as done like any other, with zeros in the place of its data.
DReplaceSpoilt(t) ==
  /\ dpc[t] = "work"
  /\ Loses("uncompress", "data", dwork[t].val)
  /\ queue_replace_block(dwork[t].num, Zeros(dwork[t].val), "done")
  /\ dwork' = [dwork EXCEPT ![t] = NoWork]
  /\ dpc' = [dpc EXCEPT ![t] = "idle"]
  /\ UNCHANGED <<stop, abort, job, archive, xvars, rpc, rvol, rpos, ritem>>

\* No memory, no password, an algorithm that was not compiled in: the thread
\* ends, and its block stays in progress.
DFail(t) ==
  /\ "decomp" \in Faults
  /\ dpc[t] = "work"
  /\ dpc' = [dpc EXCEPT ![t] = "exit"]
  /\ DElsewhere
  /\ UNCHANGED <<qvars, dwork>>

DExit(t) ==
  /\ dpc[t] = "idle"
  /\ queue_get_end_of_queue
  /\ dpc' = [dpc EXCEPT ![t] = "exit"]
  /\ DElsewhere
  /\ UNCHANGED <<qvars, dwork>>

DecompStep(t) == DBegin(t) \/ DTake(t) \/ DReplace(t) \/ DReplaceSpoilt(t) \/ DFail(t) \/ DExit(t)

(***************************************************************************)
(* thread_reader_fct                                                       *)
(***************************************************************************)
RElsewhere == UNCHANGED <<stop, abort, job, archive, xvars, dvars>>

RGoto(from, to) == rpc = from /\ rpc' = to

Recs == archive[rvol].recs
foot == archive[rvol].foot

FirstVolume == archive # <<>> /\ Recs # <<>>

\* The volume header and the main header; both are required.
ROpen ==
  /\ RGoto("open", "add")
  /\ FirstVolume
  /\ ritem' = Recs[1]
  /\ rpos' = 2
  /\ RElsewhere
  /\ UNCHANGED <<qvars, damaged, rvol>>

\* There is no archive, a header or block cannot be read, or the file is at its
\* end.
RReadFails ==
  /\ \/ /\ RGoto("open", "error")
        /\ FirstVolume => "read" \in Faults
     \/ /\ RGoto("loop", "error") /\ ~stop
        /\ \/ "read" \in Faults
           \/ rpos > Len(Recs) + (IF foot = "none" THEN 0 ELSE 1)
  /\ RElsewhere
  /\ UNCHANGED <<qvars, damaged, rvol, rpos, ritem>>

RStop ==
  /\ RGoto("loop", "error")
  /\ stop
  /\ RElsewhere
  /\ UNCHANGED <<qvars, damaged, rvol, rpos, ritem>>

Reading ==
  /\ rpc = "loop"
  /\ ~stop
  /\ rpos <= Len(Recs)
  /\ rpos' = rpos + 1

Wanted(r) == Global(r) \/ fsid(r) \in g_fsbitmap

\* What belongs to another file system is passed over.
RSkip ==
  /\ Reading
  /\ ~Wanted(Recs[rpos])
  /\ RElsewhere
  /\ UNCHANGED <<qvars, damaged, rvol, rpc, ritem>>

RRead ==
  /\ Reading
  /\ Wanted(Recs[rpos])
  /\ ritem' = Recs[rpos]
  /\ rpc' = "add"
  /\ RElsewhere
  /\ UNCHANGED <<qvars, damaged, rvol>>

\* archreader_read_block: zeros take the place of the data.
RDamagedBlock ==
  /\ Reading
  /\ Recs[rpos].magic = "BLKH" /\ Wanted(Recs[rpos])
  /\ Loses("damage", "data", Recs[rpos])
  /\ ritem' = Zeros(Recs[rpos])
  /\ rpc' = "add"
  /\ RElsewhere
  /\ UNCHANGED <<qvars, rvol>>

\* A header with a bad checksum is passed over, with the block that follows it;
\* the volume footer, which is behind the last record, may be the one.
RDamagedHeader ==
  /\ rpc = "loop" /\ ~stop
  /\ \/ rpos <= Len(Recs) /\ Loses("damage", "header", Recs[rpos])
     \/ rpos = Len(Recs) + 1 /\ foot # "none" /\ Loses("damage", "header", Blank)
  /\ rpos' = rpos + 1
  /\ RElsewhere
  /\ UNCHANGED <<qvars, rpc, rvol, ritem>>

RDamagedStart ==
  /\ RGoto("open", "error")
  /\ FirstVolume
  /\ Loses("damage", "header", Recs[1])
  /\ RElsewhere
  /\ UNCHANGED <<qvars, rvol, rpos, ritem>>

RAdd ==
  /\ RGoto("add", "loop")
  /\ IF ritem.magic = "BLKH"
       THEN queue_add_block(ritem, IF ritem.packed THEN "todo" ELSE "done")
       ELSE queue_add_header(ritem)
  /\ ritem' = Blank
  /\ RElsewhere
  /\ UNCHANGED <<damaged, rvol, rpos>>

\* The volume footer: the end of the archive, or the next volume.
RVolumeEnd ==
  /\ rpc = "loop" /\ ~stop
  /\ rpos = Len(Recs) + 1
  /\ \/ /\ foot = "last"
        /\ rpc' = "error"
        /\ UNCHANGED <<rvol, rpos>>
     \/ /\ foot = "more"
        /\ rvol' = rvol + 1
        /\ rpos' = 1
        /\ \/ rvol < Len(archive) /\ rpc' = "loop"
           \/ rvol = Len(archive) /\ rpc' = "ask"
           \/ "missing" \in Faults /\ rpc' = "ask"
  /\ RElsewhere
  /\ UNCHANGED <<qvars, damaged, ritem>>

\* The path of the volume is asked for when the queue is empty, and again until
\* it is one of a file; nothing else ends this.
RAsk ==
  /\ RGoto("ask", "loop")
  /\ rvol <= Len(archive)
  /\ itemcount = 0
  /\ RElsewhere
  /\ UNCHANGED <<qvars, damaged, rvol, rpos, ritem>>

\* Every way out of thread_reader_fct.
REnd ==
  /\ RGoto("error", "exit")
  /\ queue_set_end_of_queue(TRUE)
  /\ RElsewhere
  /\ UNCHANGED <<damaged, rvol, rpos, ritem>>

ReaderStep ==
  \/ ROpen \/ RReadFails \/ RStop \/ RSkip \/ RRead \/ RDamagedBlock \/ RDamagedHeader
  \/ RDamagedStart \/ RAdd \/ RVolumeEnd \/ REnd

Signal ==
  /\ "signal" \in Faults
  /\ xpc # "done"
  /\ abort' = TRUE
  /\ UNCHANGED <<qvars, stop, job, archive, xvars, rvars, dvars>>

Done == xpc = "done" /\ UNCHANGED vars

Next ==
  \/ MainStep
  \/ \E t \in DecompThreads : DecompStep(t)
  \/ ReaderStep
  \/ RAsk
  \/ Signal
  \/ Done

Spec == Init /\ [][Next]_vars

\* The kernel schedules every thread that is not blocked, and a thread that
\* waits on the queue looks again at least every second.  Nobody has to type
\* the path of a volume.
Fairness ==
  /\ WF_vars(MainStep)
  /\ \A t \in DecompThreads : WF_vars(DecompStep(t))
  /\ WF_vars(ReaderStep)

FairSpec == Spec /\ Fairness

(***************************************************************************)
(* Properties                                                              *)
(***************************************************************************)
MainPC ==
  {"start", "mainhead", "fsinfo", "dirsinfo", "filesystems", "fsyb", "destdir", "objects",
   "next", "fsend", "file", "block", "close", "footer", "counting", "group", "smallfiles",
   "final", "teardown", "pending", "drain", "destroy", "join", "done"}

MainTypeOK ==
  /\ xpc \in MainPC
  /\ fs \in Nat \ {0}
  /\ file \in [hdr : Record, data : Seq(Record), closed : BOOLEAN, minor : BOOLEAN,
               del : BOOLEAN]
  /\ group \in Seq(Record)
  /\ objerrs \in BOOLEAN
  /\ counted \subseteq Objects /\ failed \subseteq Objects
  /\ disk \in [Objects -> {"old", "absent", "wrong", "empty", "right"}]
  /\ ret \in {0, -1}

ReaderTypeOK ==
  /\ rpc \in {"none", "open", "loop", "add", "ask", "error", "exit"}
  /\ rvol \in Nat \ {0} /\ rpos \in Nat \ {0}
  /\ ritem \in Record
  /\ damaged \subseteq [part : {"header", "data"}, of : Record]

DecompTypeOK ==
  /\ dpc \in [DecompThreads -> {"none", "new", "idle", "work", "exit"}]
  /\ dwork \in [DecompThreads -> [num : Nat, val : Record]]

\* The variables have the types of the declarations they stand for.
TypeOK ==
  /\ QTypeOK(Record)
  /\ MainTypeOK
  /\ ReaderTypeOK
  /\ DecompTypeOK
  /\ job \in Job /\ archive \in Seq(StoredVolume)
  /\ stop \in BOOLEAN /\ abort \in BOOLEAN

\* A block that a decompression thread is working on is still in the queue,
\* marked and unchanged, and no other thread works on it: the main thread, which
\* empties the queue while the threads still run, never frees it under them.
WorkOwned ==
  /\ \A t \in DecompThreads : dpc[t] = "work" =>
       \E i \in DOMAIN list : /\ list[i].num = dwork[t].num
                              /\ list[i].val = dwork[t].val
                              /\ list[i].status = "progress"
  /\ \A t, u \in DecompThreads :
       dpc[t] = "work" /\ dpc[u] = "work" /\ dwork[t].num = dwork[u].num => t = u
  /\ \A i \in DOMAIN list : list[i].status = "progress" =>
       \E t \in DecompThreads : dwork[t].num = list[i].num

Asked(o) ==
  /\ JobSuits
  /\ job.oper # "archinfo"
  /\ IsFS => o[1] \in job.wanted

InArchive(o) ==
  \E v \in DOMAIN archive : \E p \in DOMAIN archive[v].recs :
    archive[v].recs[p].magic = "OBJT" /\ ObjectOf(archive[v].recs[p]) = o

\* The objects with the data of o: it, or the first link of a hard link.
DataOf(o) == IF Trees[o[1]][o[2]].kind = "link" THEN FirstLink(o) ELSE o

Due == {o \in Objects \ Excluded : Asked(o) /\ InArchive(o) /\ DataOf(o) \notin Excluded}

\* When the operation returns success, and the contents of no record were lost,
\* every object of the archive that was asked for and is not excluded is restored
\* with its contents, whatever went wrong on the way.
SuccessRestoresAll ==
  xpc = "done" /\ ret = 0 /\ damaged = {} => \A o \in Due : disk[o] = "right"

Hit(o) ==
  \E d \in damaged : /\ d.of.tree = o[1]
                     /\ \E k \in DOMAIN d.of.objs : d.of.objs[k] = o[2]

\* A block whose data is damaged, or does not uncompress, which nobody is told,
\* costs the files it belongs to and no other:
\* when the main thread has come through all the objects, these are counted as
\* errors and every other object is in place (or could not be made, which is
\* counted as well).
DamageStaysLocal ==
  xpc = "final" /\ ~abort /\ (\A d \in damaged : d.part = "data") =>
    \A o \in Due :
      IF Hit(o) \/ Hit(DataOf(o)) THEN o \in failed
                ELSE disk[o] = "right" \/ ("target" \in Faults /\ o \in failed)

\* The headers at which a file system or a file saved alone begins have all been
\* read.
BeginningsRead ==
  \A d \in damaged : d.part = "header" =>
    /\ d.of.magic # "FSYB"
    /\ d.of.magic = "OBJT" => KindAt(d.of) \notin {"unique", "self"}

\* What is counted as restored is restored, a hard link as well as its first
\* link was; and what is found with other contents at its place is counted as an
\* error.  The blocks came through several threads, some as zeros, some not at
\* all.  (When the header of a large file is lost, and the footer of the one
\* before as well, the first comes out with the contents and checksum of the
\* second.  When that of a file system is lost, and the mark of the end of the
\* one before, a group of small files goes on with those of the second, which
\* come into the first.)
CountsHonest ==
  BeginningsRead =>
    /\ \A o \in counted :
         IF DataOf(o) = o THEN disk[o] = "right" ELSE disk[o] = disk[DataOf(o)]
    /\ xpc = "done" => \A o \in Objects : disk[o] \in {"wrong", "empty"} => DataOf(o) \in failed

\* What was not asked for is left as it was.
OthersUntouched == \A o \in Objects : ~Asked(o) => disk[o] = "old"

\* An operation that has ended has joined its threads and has reset the stop
\* flag, so that the next one can work; and its queue is empty, or holds what
\* decompression threads that failed left behind.
EndsClean ==
  xpc = "done" =>
    /\ ~stop /\ rpc \in {"none", "exit"}
    /\ \A t \in DecompThreads : dpc[t] \in {"none", "exit"}
    /\ list = <<>> \/ \E t \in DecompThreads : dwork[t] # NoWork

(***************************************************************************)
(* The threads implement the reading of ArchiveReading: what is pending is *)
(* in the queue, packed blocks standing for what they will be.             *)
(***************************************************************************)
InOrder == INSTANCE ArchiveReading WITH
  MayBeDamaged <- "damage" \in Faults,
  MayBeSpoilt  <- "uncompress" \in Faults,
  volumes <- archive,
  wanted  <- g_fsbitmap,
  vol     <- rvol,
  pos     <- IF rpc = "add" THEN rpos - 1 ELSE rpos,
  pending <- [i \in DOMAIN list |-> Unpack(list[i].val)],
  ended   <- endofqueue

\* The main thread gets the records of the archive that it asked for, in order
\* and each once, although a reader passes over others and volumes end, and the
\* blocks go through threads that finish in any order; the data of one that does
\* not uncompress become zeros in its own place.
ReadingImplemented == InOrder!ReadingSpec

\* The main thread has left the queue as it is, because no decompression thread
\* had come to run and count itself when it looked, and the reader had gone.
DrainSkipped ==
  /\ xpc = "join" /\ list # <<>>
  /\ rpc \in {"none", "exit"} /\ \A t \in DecompThreads : dpc[t] \in {"none", "new"}

\* The operation comes to its end, unless threads or volumes are missing, and
\* unless the queue has been left as it is: then nobody empties it any more, the
\* decompression threads wait for its end and the main thread for them.
Terminates ==
  Faults \cap {"thread", "missing", "decomp"} = {} => <>(xpc = "done" \/ DrainSkipped)
=============================================================================
