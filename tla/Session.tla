------------------------------ MODULE Session ------------------------------
(***************************************************************************)
(* What a window does with the engine in one process: a save, perhaps      *)
(* another one when it has failed, and then the button to restore, which   *)
(* first displays what the archive holds and then starts the restore       *)
(* (savePartition and restorePartition in mainWindow.cpp, for directories  *)
(* folder_dir_path_einlesen in dir.cpp).  Each of these is a call of       *)
(* fsarchiver_main (fsarchiver.c), which makes a new queue; the stop flag  *)
(* and the signal state are globals that live on.  At the end the window   *)
(* says how the restore has ended.                                         *)
(*                                                                         *)
(* The save is SavePipeline, the two others an instance of RestorePipeline *)
(* that reads what ArchWriter has left on the disk.  The archive is not    *)
(* encrypted, and the main window restores partitions, the directory       *)
(* dialog directories.                                                     *)
(***************************************************************************)
EXTENDS SavePipeline, ItemTypes

CONSTANTS
  Listing,                  \* the files of each tree as they are on the disk
  Jobs,                     \* what may be asked of the restore
  DecompThreads,
  MaxDamage,
  RestoreFaults             \* what may go wrong in the restore

ASSUME SessionAssumption ==
  /\ Listing \in Seq(Seq(FileStat))
  /\ Trees = [t \in DOMAIN Listing |-> createar_item_stdattr(Listing[t])]
  /\ IsFiniteSet(DecompThreads) /\ DecompThreads # {}
  /\ MaxDamage \in Nat

VARIABLES
  op,                       \* the operation that is running
  err,                      \* the sum of errors a window reads is not 0
  box,                      \* what the window has said of the restore
  job, damaged,
  xpc, fs, file, group, objerrs, counted, failed, disk, rret,
  rpc, rvol, rpos, ritem,
  dpc, dwork

savevars    == <<avars, mvars, cvars, wvars>>
restorevars == <<job, damaged, xpc, fs, file, group, objerrs, counted, failed, disk, rret,
                 rpc, rvol, rpos, ritem, dpc, dwork>>

windowvars  == <<op, err, box>>

sessionvars == <<qvars, stop, abort, savevars, windowvars, restorevars>>

\* The volumes of the save as the reader finds them.
FirstOf(i) == IF i <= Len(vols) THEN vols[i].first ELSE Len(data) + 1

OnDisk ==
  IF unlinked THEN <<>>
  ELSE [i \in DOMAIN vols |-> [recs |-> SubSeq(data, FirstOf(i), FirstOf(i + 1) - 1),
                               foot |-> vols[i].foot]]

R == INSTANCE RestorePipeline WITH
       archive <- OnDisk, ret <- rret, Faults <- RestoreFaults, Archives <- {}, Excluded <- {}

ASSUME AskedAssumption ==
  /\ Jobs \subseteq R!Job
  /\ RestoreFaults \subseteq R!FaultKinds

Archinfo == [oper |-> "archinfo", wanted |-> {}]

SessionInit ==
  /\ Init
  /\ op = "save" /\ err = FALSE /\ box = "none"
  /\ job = Archinfo
  /\ R!IdleInit

SaveRuns(A) ==
  /\ op \in {"save", "again"}
  /\ A
  /\ UNCHANGED <<windowvars, restorevars>>

\* Of what goes wrong in a restore a window learns the number of special files
\* that could not be made and of attributes that could not be set: stats_show
\* gives the other counts under numbers that the main window does not read.
SeenAsError == failed' # failed /\ "target" \in RestoreFaults

RestoreRuns(A) ==
  /\ op \in {"archinfo", "restore"}
  /\ UNCHANGED <<op, box, savevars>>
  /\ A
  /\ err' \in {err} \cup (IF SeenAsError THEN {TRUE} ELSE {})

NewQueue ==
  /\ list' = <<>> /\ curitemnum' = 1 /\ itemcount' = 0 /\ blkcount' = 0
  /\ endofqueue' = FALSE

\* The button is there again, and the user starts the save once more, into an archive of another name.  Without
\* the stop flag that is the first save again, so only the other case is here;
\* and it may be done once, as all that follow would begin alike.
SaveAgain ==
  /\ op = "save" /\ mpc = "done" /\ stop
  /\ op' = "again"
  /\ NewQueue
  /\ data' = <<>> /\ vols' = <<>> /\ curvol' = 0 /\ archfd' = FALSE /\ unlinked' = FALSE
  /\ mpc' = "start" /\ tree' = 1 /\ entry' = 1 /\ pos' = 0 /\ eof' = FALSE
  /\ multi' = <<>> /\ multiused' = 0
  /\ walkret' = 0 /\ ret' = 0 /\ errs' = FALSE
  /\ cpc' = [t \in CompThreads |-> "none"]
  /\ cwork' = [t \in CompThreads |-> NoWork]
  /\ wpc' = "none" /\ witem' = Blank
  /\ UNCHANGED <<stop, abort, err, box, restorevars>>

\* The user asks for a restore, and the window for the contents of the archive.
AskForArchinfo ==
  /\ op \in {"save", "again"} /\ mpc = "done"
  /\ op' = "archinfo"
  /\ NewQueue
  /\ UNCHANGED <<stop, abort, savevars, err, box, restorevars>>

\* Whatever the result of that, the restore is started.
StartRestore ==
  /\ op = "archinfo" /\ xpc = "done"
  /\ op' = "restore"
  /\ err' = FALSE
  /\ job' \in Jobs
  /\ NewQueue
  /\ damaged' = {} /\ counted' = {} /\ failed' = {} /\ objerrs' = FALSE
  /\ xpc' = "start" /\ fs' = 1 /\ file' = R!NoFile /\ group' = <<>> /\ rret' = 0
  /\ rpc' = "none" /\ rvol' = 1 /\ rpos' = 1 /\ ritem' = Blank
  /\ dpc' = [t \in DecompThreads |-> "none"]
  /\ dwork' = [t \in DecompThreads |-> R!NoWork]
  /\ UNCHANGED <<stop, abort, savevars, box, disk>>

\* The window's answer when the thread of the restore has finished.  The main
\* window looks at the errors, the directory dialog at the result.
thread2Ready ==
  /\ op = "restore" /\ xpc = "done" /\ box = "none"
  /\ box' = CASE IsFS /\ ~err       -> "successful"
              [] IsFS /\ err        -> "partly"
              [] ~IsFS /\ rret = 0  -> "successful"
              [] ~IsFS /\ rret = -1 -> "silent"
  /\ UNCHANGED <<qvars, stop, abort, savevars, op, err, restorevars>>

SessionNext ==
  \/ SaveRuns(Next)
  \/ SaveAgain
  \/ AskForArchinfo
  \/ StartRestore
  \/ RestoreRuns(R!Next)
  \/ thread2Ready

SessionSpec == SessionInit /\ [][SessionNext]_sessionvars

(***************************************************************************)
(* Properties                                                              *)
(***************************************************************************)
Restored == op = "restore" /\ xpc = "done"

\* Whatever a save leaves on the disk, complete or not, its records are in the
\* order that a restore makes use of: every object once, a hard link behind its
\* first link although small files are saved last, and nothing of a file or of a
\* file system before its own header.
ArchiveRestorable == op = "archinfo" /\ xpc = "start" => Restorable(OnDisk)

\* Only a save that reports an error leaves a large file without its footer: the
\* restore takes the next header for the footer whatever it is, and so would lose
\* another object in silence.
ArchiveUnbroken == op = "archinfo" /\ xpc = "start" /\ ret = 0 => Unbroken(OnDisk)

\* What a save stores whole, a restore brings back: when the save has returned
\* success with all its volumes complete, a restore of it that suits it and
\* meets no fault or signal succeeds, with every object of the archive in place,
\* and the window says so.  The two sides of the format are written in different
\* files, and the objects come out of the queue in the order in which they went
\* in.
RoundTrip ==
  Restored /\ ret = 0 /\ Whole /\ ~abort /\ R!JobSuits /\ damaged = {} =>
    /\ rret = 0
    /\ \A o \in R!Due : disk[o] = "right"
    /\ box \in {"none", "successful"}

\* What both operations call a success is one: when the save and the restore
\* have returned success and nothing of a record was lost, every object of the archive that
\* was asked for is in place, whatever failed or was interrupted on the way and
\* wherever the writer stopped.
SuccessComesBack ==
  Restored /\ ret = 0 /\ rret = 0 /\ damaged = {} => \A o \in R!Due : disk[o] = "right"

\* And for file systems nothing is missing in it: when that save has written all its volumes,
\* every file of the file systems that were asked for is in place again.  Left out are
\* volumes of the archive itself and what is below a directory that could not be opened,
\* of which the user is told.
EverythingComesBack ==
  Restored /\ IsFS /\ ret = 0 /\ Whole /\ rret = 0 /\ damaged = {} =>
    \A o \in R!Objects : R!Asked(o) =>
      \/ disk[o] = "right"
      \/ Trees[o[1]][o[2]].kind = "self" \/ BelowUnopened(o[1], o[2])

\* The stop flag is global and nothing clears it when an operation starts: a
\* display of the archive finds it set only when the writer of the save before
\* has failed.  It then fails too, but clears the flag, so that a restore never
\* starts with it.
StopFlagCleared ==
  /\ op = "archinfo" /\ stop /\ xpc \notin {"pending", "drain", "destroy"} => ~Whole
  /\ op = "restore" /\ xpc = "start" => ~stop

\* A save that starts with the stop flag of the one before has nothing to stop
\* for, but it does not take that for the end of its trees: it says that it has
\* failed, and leaves no archive without the files behind.
SpoiltSaveFails ==
  op = "again" /\ mpc = "done" =>
    /\ ret = -1
    /\ unlinked \/ vols = <<>>

\* A damaged block of what a successful save has stored costs the files whose
\* data it held, which are counted, and no other.
DamageCostsItsFiles == ret = 0 /\ Whole => R!DamageStaysLocal

-----------------------------------------------------------------------------
\* What the program says and the runs refute.

\* The records of the object o are all in the archive.
Complete(o) ==
  LET d == R!DataOf(o)
      e == Trees[d[1]][d[2]]
  IN  \/ e.kind \in {"dir", "meta", "multi"}
      \/ e.kind = "unique" /\ e.size = 0
      \/ \E p \in DOMAIN data : data[p].magic = "FILF" /\ R!ObjectOf(data[p]) = d

\* "skip the garbage (just ignore everything until the next FSA_MAGIC_OBJT)":
\* a file that the save could not read to its end costs no other file.
UnreadFileStaysLocal ==
  Restored /\ Whole /\ ~abort /\ R!JobSuits /\ damaged = {} =>
    \A o \in R!Due : Complete(o) => disk[o] = "right"

\* "The partition is successful back.": the main window says so only when the
\* restore has returned success.
SuccessfulBack == IsFS /\ box = "successful" => rret = 0

\* "inode already seen --> hard link": what is restored as a hard link to a file
\* was that file.
LinksFaithful ==
  Restored /\ ret = 0 /\ rret = 0 =>
    \A o \in R!Due : SameFile(Listing[o[1]][o[2]], Listing[o[1]][R!DataOf(o)[2]])
=============================================================================
