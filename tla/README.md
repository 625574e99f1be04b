# TLA+ models of qt-fsarchiver

qt-fsarchiver saves file systems and directories into archives (`.fsa`) and restores them. Its core is
the archiving engine of fsarchiver, a set of C modules linked into a Qt program: a window starts an
operation in a thread, the operation starts further threads, and these work through a queue. This
directory models that engine in TLA+, checks the models with TLC on small instances and proves what
holds for every instance with TLAPS.

All source paths below are relative to `src/qt5-fsarchiver/src/`.

## The system

| Component | Source | State | Operations | What is hard |
|---|---|---|---|---|
| Shared queue | `queue.c` | linked list of blocks and headers, item and block counters, end flag | add, take a block to do, put it back, take the finished head, destroy the head, set the end | five kinds of callers, bounded, blocking |
| Archive writer | `archwriter.c`, `writebuf.c` | current volume, list of volumes, file descriptor | create, write, split, footer, remove | sizes at the limit, failed and short writes, paths taken |
| Save, main thread | `oper_save.c`, `regmulti.c` | walk of the trees, small files put aside, error counters, result | main header, analysis, walk, files, end of tree, clean-up | files that change while they are read, interruption at any point, three kinds of failure |
| Compression threads | `thread_comp.c` | the block each works on | take, process, put back, end | finish in any order, may fail |
| Writer thread | `thread_archio.c` | the item it has taken | volumes, items, last footer, drain after an error | must not stop before the producers have |
| Stop and abort flags | `syncthread.c` | `g_stopfillqueue`, `g_aborted`, counter of threads | set, read, reset | who sets them when, and who looks |
| Restore, main thread | `oper_restore.c`, `datafile.c` | selected file systems, current object, error counters | main header, read objects, files, small files, teardown | consumes the queue while two other kinds of thread fill it |
| Archive reader | `archreader.c`, `thread_archio.c` | volume, position | read headers, blocks, next volume | damaged data, missing volumes |
| Hard links | `dichl.c` | (device, inode) to first path | add, look up | first link not saved |
| Dictionaries, lists | `dico.c`, `strdico.c`, `strlist.c` | sequences of keys and values | add, look up, remove, split | limits of the buffers |
| Windows and bridge | `mainWindow.cpp`, `dir.cpp`, `net.cpp`, `thread.cpp`, `connect_c_cpp.c` | progress and result values in globals | start, poll, end of thread, cancel | unlocked globals, values of the operation before |
| Clone, MBR, probing, drivers, settings | `clone.cpp`, `mbr.cpp`, `oper_probe.c`, `fs_*.c`, `setting.cpp` | none shared with the engine | external commands, dialogs | not modelled |

How a save runs: `oper_save` starts the compression threads and the writer thread, writes the main
header, mounts and analyses the file systems, and then walks each tree. What it finds goes into the
queue as headers (always ready) and blocks (to do). A compression thread takes the first block that is
to do, processes it and puts it back in its place. The writer takes the head of the queue when it is
ready, and writes it to the current volume. The operation ends when the main thread has set the end of
the queue and has joined the others. A failure of the writer sets `g_stopfillqueue`; a signal sets the
abort state; the main thread looks at both before each entry and each block.

How a restore runs: `oper_restore` starts the decompression threads and the reader. The reader goes through
the volumes, leaves out the file systems that were not asked for and fills the queue with headers (ready)
and blocks (to do; done, and zeros, if the checksum is wrong). The main thread takes the head when it is
ready: it expects the header of the archive, those of the file systems, then objects one after the other
until the end of each tree. A file is its header, its blocks and a footer with the checksum; small files
are a group of headers and one block. At the end the main thread asks the reader to stop, waits until no
block is to do or in work, empties the queue until the reader has set its end, resets `g_stopfillqueue` and joins. It
empties the queue only while there are threads to wait for, by a counter that each of them raises when it comes to
run, and lowers when it ends.
The display of an archive is the same operation, which ends after the first headers.

How a session runs: a window starts an operation in a `Thread`, which calls `fsarchiver_main`: a new queue,
the old flags. Before it restores, a window displays the archive. When the thread has finished, a slot of
the window reads results that the engine has left in globals and says how it went.

What makes the parts correct:

* queue: counters agree with the list, order is kept, a block is never taken twice, never freed under
  the thread that works on it, never written before it is processed;
* writer: volumes are numbered, complete before the next is begun, and of the size asked for;
* save: the archive reads in order; what is reported as success is in the archive; the archive of a
  failed operation is removed; the operation ends and leaves nothing behind;
* restore: what is reported as restored has the contents it had; damage costs the files it hits and no
  other; what was not asked for is not touched; the operation ends and the next one can start;
* session: what was saved comes back; no operation takes what an earlier one left for its own success; the window
  says what happened.

`PROJECT.json` lists every component with its sources and every hazard with the line where it bites.

## Modules

| Module | Models |
|---|---|
| `CQueue` | the queue: its variables, and one operator per function of `queue.c` |
| `ArchiveFormat` | what the trees are and what a record of an archive says; when the records are in a readable order (`WellFormed`), what a restore relies on in an archive (`Restorable`) and what its success relies on (`Unbroken`); shared by save and restore |
| `ItemTypes` | how a save sorts the files it finds into entries: hard links (`dichl.c`), small files, files saved alone |
| `ArchWriter` | the archive on the disk: its variables, and one operator per function of `archwriter.c` |
| `SavePipeline` | one save operation: main thread, compression threads, writer thread, signals; extends the two above |
| `ArchiveStream` | what the pipeline promises: an ordered stream that may break and is sealed at its end |
| `ArchiveReading` | what a restore promises its main thread: the wanted records of the archive in order, each once; the data of a block that is damaged or does not uncompress are zeros, and a damaged header is missing |
| `RestorePipeline` | one restore, or display of an archive: main thread, reader, decompression threads, signals; extends `CQueue` and `ArchiveFormat` |
| `Session` | a save (and another one if it has failed), a display and a restore in one process, started from a window: extends `SavePipeline`, and instantiates `RestorePipeline` with what `ArchWriter` has left on the disk |
| `MCSave`, `MCRestore`, `MCSession` | the trees, archives and jobs that TLC is given |
| `CQueue_proofs` | each queue operation preserves type and soundness |
| `SavePipeline_proofs`, `SaveArchive_proofs` | theorems about the save operation: its queue and threads; what it leaves on the disk, and that it implements `ArchiveStream` |
| `SaveFormat_proofs`, `SaveAll_proofs` | theorems about what a save writes: its order, and that nothing is left out |
| `RestorePipeline_proofs`, `RestoreHonest_proofs` | theorems about the restore: queue, threads, end, what it does not touch, that it implements `ArchiveReading`; that it counts honestly, and that its success means everything is restored |
| `Session_proofs` | theorems about what passes between the operations of a session: the flags, and the archive; and that what a save has stored a restore brings back |

**Queue.** A function of `queue.c` is one critical section. The blocking ones wait with
`pthread_cond_timedwait` for a second at most and evaluate the loop condition again, so a call that waits
is an operation that is not enabled. `queue_replace_block` and the take of a block are modelled on the
list itself; the counters are kept beside it as in the code, which is what `QueueSound` is about.

**Archive.** The records of all volumes are one sequence `data`; a volume remembers where it begins, how
large it is, whether its header and footer are written and whether a write to it was cut short. Sizes
are in abstract units.

**Save.** The program counter `mpc` of the main thread names the place in `oper_save.c`; an action takes
it from one place where the thread can be overtaken by others (a queue call, a look at the flags) to the
next. The trees are given as the sequence of entries in the order of the walk, a directory with the
number of entries below it, so that leaving a recursion early is a jump over that number. A record in the
queue names its magic, tree, entry and block number, and whether it has been through
`compress_block_generic`. `SaveAssumption` and the assumptions of the extended modules say what the constants may be.

**Restore.** The archive is a constant sequence of volumes, each with its records and the mark of its
footer, written as an undisturbed save writes it (`MCRestore`) or the outcome of a save (`Session`);
`RestoreAssumption` says of it no more than `Restorable`: the main header is first, no object comes twice, a hard link comes
after its first link, between two large files is the header of the second and between two file systems that of
the second. That every archive a save leaves is so, a broken one too, is `ArchiveRestorable` of `Session`, which is proved. What
can happen to it happens when it is read: `RDamagedHeader`, `RDamagedBlock`, `RReadFails`, `RVolumeEnd` with
a missing volume; or when it is uncompressed: `DReplaceSpoilt`, a block with a good checksum whose data do not
uncompress, which `decompress_block_generic` fills with zeros and puts back as done. `damaged` remembers the records
whose contents were lost in one of these ways. A thread that has been created is `new` until it counts itself
(`DBegin`, and the reader's first step); `secthreads` is their number. The steps of the main thread are named `X...`, those of the
decompression threads `D...`, those of the reader `R...`. A header "that is not the one expected" has been taken from the queue when
that is noticed, as in the code (`Disappoint`), and the footer of a file is whatever header comes next
(`XFooter`). `disk` says what is at the place of each object: what was there before, nothing, other contents,
an emptied file, or the right contents; `counted` and `failed` are the statistics by which the
result is decided. The checksum of a file is modelled by comparing contents; that of a file that was not
closed is not initialized and may agree or not (`SumAgrees`).

**Types of objects.** `ItemTypes` takes what `lstat64` says of the files of a tree, in the order of the walk,
and gives the entries. The table of hard links is a function of the files before: the first with the key.
The key is modelled as the code has it.

**Session.** `Session` runs `SavePipeline!Next`, after a failure of the writer perhaps once more, then
`RestorePipeline!Next` twice, with the actions of the window between them. Every operation starts with a new queue (`NewQueue`); `stop` and `abort` stay as they are. The
program counters and statistics of a restore are its local variables and start anew. What the window hears of
errors is `err`, under the numbers it reads.

Faults of a save (`Faults` selects them): a thread cannot be created, a file system cannot be mounted or analysed, a
file cannot be opened, read, has become shorter or has gone, a compression thread gives up because it has no memory or
cannot encrypt (`compress`), a volume cannot be created or written, a signal arrives. A `compress_*` that fails is
no fault: the block is kept as it is (thread_comp.c:110-118) and counts as processed.

Faults of a restore: a thread cannot be created; version, format or password are refused; a volume cannot be opened or
read; a header or a block is damaged (`MaxDamage` bounds how many); a volume is missing; the
data of a block do not uncompress although its checksum is good (`uncompress`, thread_comp.c:208-239; these
count towards `MaxDamage` too); a decompression thread gives up because it has no memory or no password or does not know the
algorithm (`decomp`); an object, an attribute or a file system cannot be made; a file cannot be
written; a signal arrives.

A definition called a *variant* is not part of a model. It is the definition after it with a plausible
mistake; putting it in the place of that definition makes a property fail, which shows that the property
watches that piece of the code. `PROJECT.json` pairs each property with its variant.

## Runs

| Run | Instance | Result |
|---|---|---|
| `save_faults` | one file system; files of 2 and 0 blocks, two small files that need two shared blocks; two compression threads; a queue of 2 blocks; all faults | passes, 0.9 million states (with symmetry of the compression threads) |
| `save_live` | two directories, volumes of 6 units, the path of volume 2 taken, volume 0 inside the second directory; a queue of 1 block; all faults but compression | passes, 0.5 million states |
| `save_hang` | a compression failure | violates `EndOfQueueEndsThreads` |
| `save_late` | a write failure | violates `SuccessMeansWhole` |
| `save_dirs` | a file that goes away, directories | violates `DirSuccessSavesAll` |
| `save_self` | a split archive in the saved directory | violates `NoArchiveInside` |
| `restore_faults` | two file systems, one with a file, a hard link to it and two small files (one excluded), one with a root directory and no more; two volumes; five jobs that restore one, both or none of them, or display; two decompression threads; a queue of 2 blocks; all faults, one record damaged or not uncompressed | passes, 2.6 million states (with symmetry) |
| `restore_live` | a directory with files of 2 and 1 blocks and two small files, the last file excluded; two volumes; up to two records damaged or not uncompressed, signals | passes, 0.9 million states |
| `session_trip` | a save of a file system with a small file and a small file of two names, that may fail to read or write, and that may be started again after it has; then a display and a restore, in which a record may be damaged or not uncompress, or a signal arrive | passes, 3.0 million states |
| `session_unread` | a file that cannot be read to its end by the save | violates `UnreadFileStaysLocal` |
| `session_window` | a damaged record in the archive of a file system | violates `SuccessfulBack` |
| `session_links` | a directory with another device mounted below it | violates `LinksFaithful` |

What the passing runs of the save check: `QueueSound` (counters, order, bound), `WorkOwned` (a block in progress
belongs to exactly one thread and stays in the list), `StoredBlocksPacked`, `ArchiveReadable` (what a
reader of the archive needs to have seen before a record is before it), `VolumesSound`, `EndsClean` (no
thread, file or item left, and never success after the archive was removed), `WholeOrNone` (a signal or a failure of the
writer that is there when the main thread comes to the clean-up makes the result an error; a result that is an error
leaves nothing on the disk; a result of 0 leaves every volume complete, unless the writer has failed after that
last look, which `save_late` shows), `SuccessSavesAll`, `StreamImplemented` (refinement of
`ArchiveStream`) and `Terminates`.

What the runs of the restore and the session check: `QueueSound` and `WorkOwned` as in a save, where now the
main thread frees items while decompression threads and reader are still at work; `SuccessRestoresAll` (success, and
the contents of no record lost: every object asked for is there, with its contents); `DamageStaysLocal` (a block that is
damaged, or does not uncompress, which nobody is told, costs the files whose data it holds, hard links included, and these are counted); `CountsHonest` (what is counted as
restored is right, and what is left with other contents is counted as an error, as long as the headers of large files
and of file systems could be read: see `BeginningsRead`); `OthersUntouched`;
`EndsClean` (threads joined, queue empty, stop flag reset); `ReadingImplemented` (refinement of `ArchiveReading`: the
blocks come back from the decompression threads into their places while the main thread takes items before them, and
what one record loses changes no other); `Terminates`; `ArchiveRestorable` (the archive a save has left is
one that the restore is made for); `ArchiveUnbroken` (a save that reports success leaves no large file without its footer); `RoundTrip` (what a save stores whole, a restore brings
back); `SuccessComesBack` (when both operations return success and nothing of a record is lost, what is in the archive and was asked
for is in place, whatever failed or was interrupted in either); `EverythingComesBack` (and of file systems nothing is missing in it);
`StopFlagCleared` (a restore never starts with the stop flag that a failed save has left);
`SpoiltSaveFails` (a save does start with it, is interrupted from the beginning, and says that it has failed);
`DamageCostsItsFiles` (`DamageStaysLocal`, of archives that the modelled save has written).

Two promises one might expect do not hold and are not stated by the repository either, so no run
is about them. With a damaged *header* a restore can succeed without the object: the reader counts such
headers and tells nobody. With two headers of a large file lost in a row, the footer of one and the header of
the next, the first comes out with the contents of the second, and is counted as restored; `BeginningsRead` leaves
out these cases and no others. And an excluded file whose blocks do not fit is removed at the destination
(`XCountFile`).

The violating runs state what a comment or a message of the program says. Each is described under
"findings" in `PROJECT.json` with the lines it is about.

**Bounds.** Nothing is bounded in the specification itself: a save is finite because its trees are. The
trees of `MCSave` are the smallest with every kind of entry, with a file of more blocks than the queue
holds, with a shared block that fills up before the tree ends and one that is flushed at its end, and with
an entry on each side of a directory boundary. A queue limit of 0 and 1 makes every producer wait. Two
compression threads are enough to finish out of order and to fail while the other works. Volumes of 6 units
hold two to three records, so that splits happen before headers and before blocks.

`MCRestore` restores from two volumes, the second of which begins inside a file, with a queue limit that
makes the reader wait; an archive with two trees is the smallest in which a file system is passed over. One
lost record together with all other faults, and two with the whole of the objects of one tree, let a lost
record meet every kind of object and one follow another. `MCSession` has one thread of each kind, because what
it is about is the order in the archive and the flags between operations; with volumes of 9 units the
archive of a whole save is split. `Session` has at most one save more, taken only where it is not the first one over
again (`SaveAgain`), and ends after one restore.

**Fairness.** `FairSpec` of `SavePipeline` assumes weak fairness of each thread: the kernel runs a thread that is not blocked, a
thread that waits for the queue wakes up every second at the latest, and reads and writes return. No
fairness is assumed of faults as such: `WCreateFails` and `WWriteFails` are among the writer's steps, so fairness makes
the writer move, not fail. Signals are not fair.

`FairSpec` of `RestorePipeline` does the same for the main thread, each decompression thread and the reader.
`RAsk`, a user who types the path of a missing volume, is not part of it, so `Terminates` leaves out the
fault `missing`. It also leaves out `thread` and `decomp`: when a thread cannot be created or a block cannot
be decompressed, the other threads wait for ever, as in a save.

`Terminates` has one exemption more, `DrainSkipped`. The main thread empties the queue only while `get_secthreads()>0`
(oper_restore.c:1622), and a decompression thread counts itself when it comes to run, not when it is created. When the main thread
stops early (the job does not suit the archive, or a signal has come), the reader has gone and no decompression thread
has run yet, it leaves the queue as it is, though its message says that the queue is now empty (oper_restore.c:1627) and
its comment that the threads should now exit (1628). They run then, find headers in the queue and nothing
to do, and wait until the queue has ended and is empty, and the main thread, which would have to empty it, waits for them. Fairness does
not exclude it, as every thread does run in the end. Without the exemption TLC
refutes `Terminates` in `restore_live` even when nothing is damaged.

Deadlock is not checked in the restore and session runs, where a missing volume, thread or
decompressed block stops the program, nor in `save_faults` and the violating runs: with the compression fault the program
does come to a stop, which is what `save_hang` shows. `save_live` leaves that fault out and checks it.

## Proofs

`CQueue_proofs` proves for each queue operation that it preserves `QInv`: the types of the
queue's variables and `QueueSound`, for any limit and any values in the items. The argument about the block
counter goes through the set of the numbers of the blocks in the list: appending adds a number that is
new because it is greater than all, removing the head removes a number that occurs once because numbers
grow along the list.

All other theorems hold for any trees, number of threads, limits, jobs and faults that satisfy the assumptions on the
constants, and those of the restore for any archive that is `Restorable`. The next two tables say of each inductive invariant what
it adds to the property it proves, and why. All rest on `BaseInv` of their side.

The save:

| Invariant | What it adds to the property and why | Theorems |
|---|---|---|
| `BaseInv` | types, `QInv`, and where the main thread is in the trees (`InTree`, `InEntry`): the arithmetic of the walk uses the size of the current entry, which is a number only if there is such an entry | `TypeCorrect`, `QueueCorrect` |
| `PackInv` | the record in the writer's hand is processed too, and a header is never a block | `PackedCorrect` |
| `OwnInv` | a thread that has taken nothing holds nothing, so no two threads come to hold the same number | `WorkCorrect` |
| `EndInv` | which thread may have ended, and what is then in the queue: the writer leaves only when the queue has ended and is empty, with the last footer or with `g_stopfillqueue` set; without a writer nothing is ever queued; the archive is removed only by the step that ends an operation with the result -1 | `EndsCorrect`, `LeavesWholeOrNone` |
| `VolInv` | the writer's place decides what the last volume has: its header before records, its footer before the next volume | `VolumesCorrect` |
| `SizeInv` | between the split test and the write there is room for the record | `VolumesCorrect` |
| `FirstInv` | where the volumes begin: the first with the first record, each not before the one ahead of it, so that every record is in one volume | `RestorableArchive` |
| `GramInv` | what is stored and what is pending are one sequence, `Sent`, in the order in which the main thread has produced it; how that sequence ends is said for each place in its loops (`Grammar`: a file in progress, a group of small files in progress, small files put aside, trees and entries that are behind). If something is broken only what is stored counts, and a part of a readable sequence is readable | `ReadableCorrect` |
| `OrderInv` | of the same sequence: no object comes twice or behind a link to it, nothing of a file or file system before its header, a footer only of a file with blocks (`Ordered`); the begin of the tree that is walked and the header of the file that is read are there, with nothing foreign behind them (`Opened`) | `RestorableArchive` |
| `CleanInv` | what `Sent` looks like as long as no error has been noted: each header of a file with blocks is followed by its footer before the next object, the end of a tree by nothing but later trees; an unfinished file is in the main thread's hand (`Parted`, `Closed`), and a step that leaves it so notes an error | `UnbrokenArchive` |
| `AllInv` | the records of every entry are counted: none of what is ahead, those of the part of a file that has been read, one header and one block of a small file that has left the group, all of what is behind, unless its directory could not be opened or an error has been noted, which costs the success | `SavesAllCorrect` |

`SavePipeline_proofs` holds the first three, `SaveArchive_proofs` the next three and
`Implements`: `Spec => StreamImplemented`. A step of the main thread is `Put`, `End` or a stutter. A step
of a compression thread is a stutter, and this is where `WorkOwned` is needed: the block put back is the
processed form of the block that has the same place in the list. A step of the writer is `Store`, `Break`,
`Discard`, `Seal` or a stutter; `EndInv` shows that nothing is stored once something is broken, and that
the archive is sealed once. `GramInv` and `AllInv` use this refinement: it leaves only the main thread's steps to look at.

The restore:

| Invariant | What it adds to the property and why | Theorems |
|---|---|---|
| `BaseInv` | types, `QInv`, and that what the main thread has taken exists: the object in hand, the group, the file system; the reader's place is in a volume; what a decompression thread takes is a block (`BlocksOnly`), and threads are created once (`StartsOnce`) | `TypeCorrect`, `QueueCorrect` |
| `OwnInv` | as in a save | `WorkCorrect` |
| `SuitInv` | the main thread comes to the objects only with a job that suits the archive, and is then in a file system that was asked for | `OthersCorrect` |
| `EndInv` | the end of the queue is set exactly when the reader has left; a decompression thread has left because the queue was over or because it failed, and then it keeps its block; the stop flag is reset before the threads are joined | `EndsCorrect` |
| `ReadInv` | the reader holds the record before its position, or zeros in its place | `Implements` |
| `HonestInv` | what the main thread has in hand, what is queued and what is still to be read are one line of records, and in this line the order of the archive holds still (`LineInv`); what has been counted is named no more in it (`CountInv`); the blocks collected are those of the file in hand (`FileInv`); and what has wrong contents is counted as failed, or in hand (`DiskInv`) | `HonestCorrect` |
| `CoverInv` | until something is lost the main thread has not lost sight of an object that is due: it is restored, or in hand, or its header is still in the line (`SuccessRestoresAll` of an unfinished restore); and the line is unbroken still, so that what the main thread skips or takes for a footer is no other object's header | `SuccessCorrect` |

`Implements` is `Spec => ReadingImplemented`; a block that does not uncompress is the step `Spoil` there (`SpoilStep`), at the place it has in the queue. `RestoreHonest_proofs` is about the line: a step takes some records from its front, or leaves one out
that begins nothing (a damaged block becomes zeros, a damaged header is lost), or puts zeros in the place of a block that is queued
(`Zeroed`), or changes nothing of it (`Moves`, `LineMoves`).
The order of the archive then still holds for what is left (`Shift`), and whatever was taken from the front is not
named behind (`FirstGone`). `BeginningsRead` is what makes a lost header one that begins nothing.

`SuccessCorrect` has one hypothesis on the archives, `Unbroken`: behind each header of a file with blocks its footer comes before the
next object, and nothing comes behind the end of a file system but later ones. The code relies on it in two places where it does not
look at what it takes. `extractar_restore_obj_regfile_unique` takes the next header for the footer whatever it is (oper_restore.c:856),
and of an excluded file it counts no error, so without a footer the object of that header would be lost in silence; and the restore
goes through the file systems once and stops at the `DATF` that ends each. TLC evaluates the hypothesis for
the archives of the restore runs (`ArchivesUnbroken` in `MCRestore`). An archive without a footer does exist: a save that
cannot read a file to its end writes one, and notes an error; `session_unread` shows what becomes of it.

The session: `StopFlag` (`StopFlagCleared`), `SpoiltSave` (`SpoiltSaveFails`), `RestorableArchive` (`ArchiveRestorable`),
`UnbrokenArchive` (`ArchiveUnbroken`), `ComesBack` (`SuccessComesBack`) and `EverythingBack` (`EverythingComesBack`). The
first save has the invariants of the save; the second begins with a queue of its own, but with the flag, so it is not a
behaviour of `SavePipeline!Spec` and has an invariant of its own (`SecondSave`); for the flag only what a restore does to it
is needed (`FlagReset`).

`RestorableArchive` says of every save, complete or broken off anywhere, that the archive it leaves satisfies the assumption under which the
theorems of the restore hold. Three arguments meet in it. Of the files: `dichl_get` finds the file that was
visited first, which is no small file, as those with links are never put aside (`LinkTarget`, `LinksPointBack`); this is
the one fact about the trees that the order needs. Of the records: `OrderInv` in the first save. Of the volumes: by `FirstInv`
their places are the numbers of the records, in order (`PlacesInOrder`). `UnbrokenArchive` goes the same way, with `CleanInv` for the
order, and gives of a save that reports success the hypothesis of `SuccessCorrect`. After the save nothing touches the archive (`LeftInv`), and
a second save leaves none.

`ComesBack` and `EverythingBack` are about both sides at once and assume nothing of the archive, only what `SessionAssumption` and
`AskedAssumption` say of the constants. The restore of a session is not a behaviour of
`RestorePipeline!Spec`: it starts with the flags as the save has left them and an archive that is a variable's value, and the
display before it has run through the same actions. So the invariants of the restore are stated from any
state in which an operation begins (`Fresh`, `RestoreFresh`) and from step to step (`RestoreStep`, `CoverNext`), and
`Session_proofs` takes them as an instance, `RP`, whose archive is `OnDisk`. Of that instance it shows that its
constants are suitable (`ConstantsSuit`, where the hard links come from `LinksFound`), that its steps are those of the
instance `R` of `Session` (`SameNext`), and that the display and the restore each begin in a state that is `Fresh`:
the archive by `RestorableArchive` and `UnbrokenArchive`, the places of the objects because a display touches none
(`OthersUntouched`). `SessionRestore` is the invariant that results: the restore's own, and after a save that
reported success also `CoverInv`. For `EverythingBack`, `KeptInv` says that what `AllInv` gives at the end of the save is still
in the volumes when the restore reads them: an entry that is saved has a header in one of them (`SavedOnDisk`).

Only model-checked: `Terminates` of both sides, since liveness is out of the prover's reach; `DamageStaysLocal`, which says
of an archive with damaged records that every other object is restored, even by an operation that fails; `RoundTrip` and `DamageCostsItsFiles` of the session, which
say of an undisturbed restore that it does succeed, and of one with damage what it costs; and everything the violating runs are about.

## Not modelled

The bytes: the layout of headers, compression, encryption, checksums (a block that went through
`compress_block_generic` is marked, no more; a checksum tells contents apart). Formatting and logging. Memory that cannot
be allocated. Which attribute of an object was lost. The file-system drivers, which run external programs, and
the dialogs that do not touch the engine. Names that are excluded by a pattern are not in the trees of a save; a
restore has them in `Excluded`.

The evaluation that precedes a save (the walk that only adds up costs) puts nothing into the queue; it
is modelled by its result.

A hard link out of a directory that cannot be opened: the code never sees the first of the two names, so that the second
becomes the first. The trees are sorted into entries before the save begins, and there it stays a link, which no restore can
make. After such a save, then, `EverythingComesBack` says nothing, as the restore in the model fails.

Of a restore: directories that have to be made for a file whose own directory is missing; files that are
in the way of an object at its destination (a link or a device cannot be made where something is, which is the fault
`target`); foreign bytes between records, in which the reader searches for the next header.

Of the windows: devices and partitions, progress, layout, the network, clone and image dialogs; a cancel,
which terminates the thread of the operation wherever it is and leaves nothing defined behind; archives with a password
in a session. The files `translations/*.ts`, by far the largest part of the repository, are tables of
texts in other languages; they have no behaviour and no definition stands for them.

The containers `dico.c`, `strdico.c` and `strlist.c` are used by one thread at a time and hold the fields of
a record; a model of them would repeat a function.

## Plan

1. `DamageStaysLocal`: `CoverInv` with the objects of damaged records left out, and an account of when the operation is
   broken off, which it is not by a damaged object; with it `DamageCostsItsFiles`, by the instance `RP`.
2. `RoundTrip`, from `ComesBack` and 1.
