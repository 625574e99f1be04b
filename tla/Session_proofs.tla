--------------------------- MODULE Session_proofs ---------------------------
(***************************************************************************)
(* What passes from one operation of a process to the next: the stop flag  *)
(* and the archive, and that what a save has stored a restore brings back, *)
(* for any files, threads, limits and faults.  The restore is an instance  *)
(* of RestoreHonest_proofs: what is proved there of every restore of every *)
(* archive is used here of the archive that the save has left.             *)
(***************************************************************************)
EXTENDS Session, SaveAll_proofs, WellFoundedInduction

\* A save that has been stopped is never sealed.
StopInv == stop => ~Sealed

\* The first save begins as every save does; the writer may set the flag.
FirstSave == op = "save" => BaseInv /\ DiskInv /\ StopInv

\* A save that finds the flag set keeps it, so it can end with a failure only.
SecondSave ==
  op = "again" =>
    /\ stop
    /\ mpc \in {"cleanup", "join", "done"} => ret = -1
    /\ mpc = "done" => wpc \in {"none", "exit"} /\ (unlinked \/ vols = <<>>)

\* The part of StopFlagCleared about the display of the archive.
DisplayStops ==
  op = "archinfo" /\ stop /\ xpc \notin {"pending", "drain", "destroy"} => ~Whole

\* The restore side touches the flag in its teardown only, and leaves it reset.
FlagReset ==
  /\ op \in {"save", "again", "archinfo", "restore"}
  /\ op \in {"save", "again"} => xpc = "start"
  /\ op \in {"archinfo", "restore"} /\ xpc \in {"join", "done"} => ~stop
  /\ op = "restore" /\ xpc = "start" => ~stop

SInv == FirstSave /\ SecondSave /\ DisplayStops /\ FlagReset

-----------------------------------------------------------------------------
(***************************************************************************)
(* The steps of the two sides.                                             *)
(***************************************************************************)
\* The flag is set by the writer alone, when the archive is not sealed.
LEMMA StopStep ==
  ASSUME BaseInv, DiskInv, StopInv, [Next]_vars
  PROVE  StopInv'
<1> SUFFICES ASSUME stop', Sealed' PROVE FALSE
  BY DEF StopInv
<1>1. EndInv' /\ EndInv
  BY EndStep DEF DiskInv
<1>2. wpc' = "exit"
  BY <1>1 DEF EndInv
<1>3. CASE MainStep
  <2>1. CASE MStart /\ UNCHANGED <<qvars, avars, stop>>
    BY <1>3, <2>1 DEF StopInv, Sealed, avars
  <2>2. CASE MJoin /\ UNCHANGED <<qvars, stop, cvars, wvars>>
    BY <2>2 DEF MJoin, archwriter_remove, StopInv, Sealed, avars
  <2>3. CASE UNCHANGED <<avars, stop, cvars, wvars>>
    BY <2>3 DEF StopInv, Sealed, avars
  <2>4. QED
    BY <1>3, <2>1, <2>2, <2>3, MainArchive
<1>4. ASSUME NEW t \in CompThreads, CompStep(t)
      PROVE  FALSE
  BY <1>4 DEF CompStep, CTake, CReplace, CFail, CExit, StopInv, Sealed, avars
<1>5. CASE Signal \/ UNCHANGED vars
  BY <1>5 DEF Signal, vars, StopInv, Sealed, avars
<1>6. CASE WriterStep
  <2>1. /\ stop' = stop
        /\ \/ wpc = "loop"
           \/ wpc = "drain" /\ UNCHANGED vols
    BY <1>2, <1>6 DEF WriterStep, WCreate, WCreateFails, WVolHeader, WDequeue, WSplit,
       WWriteRecord, WLastFooter, WWriteFails, WError, WDrain, WElsewhere, WGoto
  <2>2. QED
    BY <1>1, <2>1 DEF EndInv, StopInv, Sealed
<1>7. QED
  BY <1>3, <1>4, <1>5, <1>6 DEF Next, Done

\* In a save that finds the flag set nobody takes it back, and every way to the
\* end of the main thread is the one of a failure.
LEMMA SpoiltStep ==
  ASSUME Next, stop,
         mpc \in {"cleanup", "join", "done"} => ret = -1,
         mpc = "done" => wpc \in {"none", "exit"} /\ (unlinked \/ vols = <<>>)
  PROVE  /\ stop'
         /\ mpc' \in {"cleanup", "join", "done"} => ret' = -1
         /\ mpc' = "done" => wpc' \in {"none", "exit"} /\ (unlinked' \/ vols' = <<>>)
<1> USE DEF MGoto, MFail, NextEntry, Elsewhere
<1>1. CASE MainStep
  <2>1. CASE MStart
    BY <2>1 DEF MStart
  <2>2. CASE MJoin
    <3>1. ret = -1 /\ ret # 0 /\ ret' = -1 /\ stop' = stop
      BY <2>2 DEF MJoin
    <3>2. unlinked' \/ vols' = <<>>
      BY <2>2, <3>1 DEF MJoin, archwriter_remove
    <3>3. wpc' \in {"none", "exit"}
      BY <2>2 DEF MJoin, AllJoined, wvars
    <3>4. QED
      BY <3>1, <3>2, <3>3
  <2>3. CASE MFinal \/ MSetEndOfQueue
    BY <2>3 DEF MFinal, MSetEndOfQueue, interrupted
  <2>4. CASE \/ MWriteMainHead \/ MAnalyse \/ MAnalyseFails \/ MNextTree \/ MBeginFS
             \/ MEndFS \/ MEndDir \/ MEndDirs
    BY <2>4 DEF MWriteMainHead, MAnalyse, MAnalyseFails, MNextTree, MBeginFS, MEndFS,
                MEndDir, MEndDirs
  <2>5. CASE \/ MWalkEnds \/ MStatFails \/ MOpendirFails \/ MEntryUnreadable \/ MPassSelf
             \/ MVisit \/ MReadBlock \/ MReadFails \/ MFileInterrupted \/ MFileRead
             \/ MSmallFile \/ MPutAside
    BY <2>5 DEF MWalkEnds, MStatFails, MOpendirFails, MEntryUnreadable, MPassSelf, MVisit,
                MReadBlock, MReadFails, MFileInterrupted, MFileRead, MSmallFile, MPutAside,
                Visiting
  <2>6. CASE MAddObject \/ MAddBlock \/ MAddFooter \/ MEnqueueHeader \/ MEnqueueBlock
    BY <2>6 DEF MAddObject, MAddBlock, MAddFooter, MEnqueueHeader, MEnqueueBlock
  <2>7. QED
    BY <1>1, <2>1, <2>2, <2>3, <2>4, <2>5, <2>6 DEF MainStep
<1>2. ASSUME NEW t \in CompThreads, CompStep(t)
      PROVE  UNCHANGED <<stop, mpc, ret, wpc, unlinked, vols>>
  BY <1>2 DEF CompStep, CTake, CReplace, CFail, CExit, avars, mvars, wvars
<1>3. CASE Signal \/ Done
  BY <1>3 DEF Signal, Done, vars, avars, mvars, wvars
<1>4. CASE WriterStep
  <2>1. UNCHANGED <<mpc, ret>> /\ stop' /\ wpc \notin {"none", "exit"}
    BY <1>4 DEF WriterStep, WCreate, WCreateFails, WVolHeader, WDequeue, WSplit,
       WWriteRecord, WLastFooter, WWriteFails, WError, WDrain, WElsewhere, WGoto, mvars
  <2>2. QED
    BY <2>1
<1>5. QED
  BY <1>1, <1>2, <1>3, <1>4 DEF Next

\* What a step of the display or of the restore does to the flag.
LEMMA FlagStep ==
  ASSUME R!Next
  PROVE  \/ UNCHANGED <<stop, xpc>>
         \/ stop' = stop /\ xpc' \notin {"start", "pending", "join", "drain", "destroy"}
              /\ (xpc' = "done" => xpc = "join")
              /\ xpc \notin {"pending", "drain", "destroy"}
         \/ xpc = "teardown" /\ xpc' = "pending"
         \/ xpc \in {"pending", "drain", "destroy"} /\ xpc' \in {"drain", "destroy"}
         \/ xpc = "drain" /\ xpc' = "join" /\ ~stop'
<1> USE DEF R!XGoto, R!XFail, R!Elsewhere
<1>1. CASE R!XStart
  BY <1>1 DEF R!XStart
<1>2. CASE \/ R!XMainHead \/ R!XFsInfo \/ R!XDirsInfo \/ R!XNextFS \/ R!XBeginFS
           \/ R!XTargetFails \/ R!XBeginDir \/ R!XNoPassword \/ R!XHeaderMissing
  BY <1>2 DEF R!XMainHead, R!XFsInfo, R!XDirsInfo, R!XNextFS, R!XBeginFS, R!XTargetFails,
              R!XBeginDir, R!XNoPassword, R!XHeaderMissing
<1>3. CASE \/ R!XSkipGarbage \/ R!XArchiveEnds \/ R!XForeignObject \/ R!XObject \/ R!XLink
           \/ R!XNextObject \/ R!XObjectsEnd \/ R!XEndFS \/ R!XEndFSFails
  BY <1>3 DEF R!XSkipGarbage, R!XArchiveEnds, R!XForeignObject, R!XObject, R!XLink,
              R!XNextObject, R!XObjectsEnd, R!XEndFS, R!XEndFSFails, R!Taking, R!xvars
<1>4. CASE \/ R!XOpenFile \/ R!XBlockLoop \/ R!XBlock \/ R!XBlockMissing \/ R!XWriteFails
           \/ R!XClose \/ R!XFooter \/ R!XCountFile
  BY <1>4 DEF R!XOpenFile, R!XBlockLoop, R!XBlock, R!XBlockMissing, R!XWriteFails,
              R!XClose, R!XFooter, R!XCountFile, R!Taking
<1>5. CASE \/ R!XFirstSmallFile \/ R!XGroupHeader \/ R!XGroupBlock \/ R!XGroupFails
           \/ R!XSmallFile \/ R!XSmallFileWriteFails \/ R!XFinal
  BY <1>5 DEF R!XFirstSmallFile, R!XGroupHeader, R!XGroupBlock, R!XGroupFails,
              R!XSmallFile, R!XSmallFileWriteFails, R!XFinal, R!Taking
<1>6. CASE R!XAskToStop \/ R!XAwaitBlocks \/ R!XDrain \/ R!XDestroy \/ R!XJoin
  BY <1>6 DEF R!XAskToStop, R!XAwaitBlocks, R!XDrain, R!XDestroy, R!XJoin
<1>7. ASSUME NEW t \in DecompThreads, R!DecompStep(t)
      PROVE  UNCHANGED <<stop, xpc>>
  BY <1>7 DEF R!DecompStep, R!DBegin, R!DTake, R!DReplace, R!DReplaceSpoilt, R!DFail, R!DExit,
              R!DElsewhere, R!xvars
<1>8. CASE R!ReaderStep \/ R!RAsk
  BY <1>8 DEF R!ReaderStep, R!ROpen, R!RReadFails, R!RStop, R!RSkip, R!RRead,
              R!RDamagedBlock, R!RDamagedHeader, R!RDamagedStart, R!RAdd, R!RVolumeEnd,
              R!REnd, R!RAsk, R!RElsewhere, R!xvars
<1>9. CASE R!Signal \/ R!Done
  BY <1>9 DEF R!Signal, R!Done, R!vars, R!xvars
<1>10. QED
  BY <1>1, <1>2, <1>3, <1>4, <1>5, <1>6, <1>7, <1>8, <1>9 DEF R!Next, R!MainStep
-----------------------------------------------------------------------------
\* Each part of the invariant, over each kind of step.
LEMMA SInit == SessionInit => SInv
<1> SUFFICES ASSUME SessionInit PROVE SInv
  OBVIOUS
<1>1. Init /\ op = "save" /\ xpc = "start"
  BY DEF SessionInit, R!IdleInit
<1>2. BaseInv /\ DiskInv
  BY <1>1, BaseInit, DiskInit
<1>3. StopInv
  BY <1>1 DEF Init, StopInv
<1>4. QED
  BY <1>1, <1>2, <1>3 DEF SInv, FirstSave, SecondSave, DisplayStops, FlagReset

LEMMA SStep == SInv /\ [SessionNext]_sessionvars => SInv'
<1> SUFFICES ASSUME SInv, [SessionNext]_sessionvars PROVE SInv'
  OBVIOUS
<1> USE DEF SInv, FirstSave, SecondSave, DisplayStops, FlagReset
<1>1. CASE SaveRuns(Next)
  <2>1. Next /\ op \in {"save", "again"} /\ op' = op /\ xpc' = xpc
    BY <1>1 DEF SaveRuns, windowvars, restorevars
  <2>2. CASE op = "save"
    <3>1. BaseInv' /\ DiskInv' /\ StopInv'
      BY <2>1, <2>2, BaseStep, DiskStep, StopStep
    <3>2. QED
      BY <2>1, <2>2, <3>1
  <2>3. CASE op = "again"
    <3>1. /\ stop'
          /\ mpc' \in {"cleanup", "join", "done"} => ret' = -1
          /\ mpc' = "done" => wpc' \in {"none", "exit"} /\ (unlinked' \/ vols' = <<>>)
      BY <2>1, <2>3, SpoiltStep
    <3>2. QED
      BY <2>1, <2>3, <3>1
  <2>4. QED
    BY <2>1, <2>2, <2>3
<1>2. CASE SaveAgain
  BY <1>2 DEF SaveAgain, restorevars
<1>3. CASE AskForArchinfo
  <2>1. /\ mpc = "done" /\ op \in {"save", "again"} /\ op' = "archinfo"
        /\ UNCHANGED <<stop, vols, unlinked, xpc>>
    BY <1>3 DEF AskForArchinfo, savevars, avars, restorevars
  <2>2. stop => ~Whole
    BY <2>1 DEF StopInv, Sealed, Whole
  <2>3. Whole' <=> Whole
    BY <2>1 DEF Whole
  <2>4. QED
    BY <2>1, <2>2, <2>3
<1>4. CASE StartRestore
  BY <1>4 DEF StartRestore
<1>5. CASE RestoreRuns(R!Next)
  <2>1. /\ op \in {"archinfo", "restore"} /\ op' = op /\ R!Next
        /\ UNCHANGED <<vols, unlinked>>
    BY <1>5 DEF RestoreRuns, savevars, avars
  <2>2. Whole' <=> Whole
    BY <2>1 DEF Whole
  <2>3. QED
    BY <2>1, <2>2, FlagStep
<1>6. CASE thread2Ready \/ UNCHANGED sessionvars
  <2>1. UNCHANGED <<qvars, stop, abort, savevars, op, restorevars>>
    BY <1>6 DEF thread2Ready, sessionvars, windowvars
  <2>2. UNCHANGED vars /\ xpc' = xpc
    BY <2>1 DEF vars, savevars, restorevars
  <2>3. op = "save" => BaseInv' /\ DiskInv' /\ StopInv'
    BY <2>2, BaseStep, DiskStep, StopStep
  <2>4. UNCHANGED <<stop, mpc, ret, wpc, unlinked, vols>>
    BY <2>2 DEF vars, avars, mvars, wvars
  <2>5. Whole' <=> Whole
    BY <2>4 DEF Whole
  <2>6. QED
    BY <2>1, <2>2, <2>3, <2>4, <2>5
<1>7. QED
  BY <1>1, <1>2, <1>3, <1>4, <1>5, <1>6 DEF SessionNext

LEMMA SInvariant == SessionSpec => []SInv
BY SInit, SStep, PTL DEF SessionSpec

-----------------------------------------------------------------------------
\* In every session the flag that no operation clears when it starts is harmless:
\* a display finds it set only where the writer of the save before has failed,
\* and a restore never starts with it.
THEOREM StopFlag == SessionSpec => []StopFlagCleared
<1>1. SInv => StopFlagCleared
  BY DEF SInv, DisplayStops, FlagReset, StopFlagCleared
<1>2. QED
  BY <1>1, SInvariant, PTL

\* In every session a save that starts with the flag set says that it has failed
\* and leaves no archive behind.
THEOREM SpoiltSave == SessionSpec => []SpoiltSaveFails
<1>1. SInv => SpoiltSaveFails
  BY DEF SInv, SecondSave, SpoiltSaveFails
<1>2. QED
  BY <1>1, SInvariant, PTL

-----------------------------------------------------------------------------
(***************************************************************************)
(* The archive that a restore is asked to read.                            *)
(***************************************************************************)
\* A set of numbers has a least one.
LEMMA Smallest ==
  ASSUME NEW S \in SUBSET Nat, S # {}
  PROVE  \E j \in S : \A k \in S : j <= k
<1> DEFINE lt == {ss \in Nat \X Nat : ss[1] < ss[2]}
<1>1. IsWellFoundedOn(lt, Nat)
  BY NatLessThanWellFounded DEF OpToRel
<1> HIDE DEF lt
<1>2. PICK x \in S : \A y \in S : ~ (<<y, x>> \in lt)
  BY <1>1, WFMin
<1>3. ASSUME NEW y \in S
      PROVE  x <= y
  <2>1. x \in Nat /\ y \in Nat /\ ~ (<<y, x>> \in lt)
    BY <1>2, <1>3
  <2>2. <<y, x>> \in Nat \X Nat /\ <<y, x>>[1] = y /\ <<y, x>>[2] = x
    BY <2>1
  <2>3. ~ (y < x)
    BY <2>1, <2>2, Zenon DEF lt
  <2>4. QED
    BY <2>1, <2>3
<1>4. QED
  BY <1>2, <1>3

\* What dichl_get finds was visited before, and is a file that is saved alone.
LEMMA LinkTarget ==
  ASSUME NEW stats \in Seq(FileStat), NEW i \in DOMAIN stats, ItemType(stats, i).kind = "link"
  PROVE  /\ ItemType(stats, i).size \in 1 .. i - 1
         /\ ItemType(stats, ItemType(stats, i).size).kind = "unique"
<1> DEFINE seen == FirstsSeen(stats, i)
           first == CHOOSE j \in seen : \A k \in seen : j <= k
<1>1. /\ DOMAIN stats = 1 .. Len(stats) /\ Len(stats) \in Nat
      /\ \A j \in DOMAIN stats : stats[j] \in FileStat
  BY LenProperties, ElementOfSeq
<1>2. seen # {} /\ ItemType(stats, i).size = first
  <2>1. stats[i].mode \in {"dir", "reg", "other"}
    BY <1>1 DEF FileStat
  <2>2. CASE stats[i].mode = "dir"
    BY <2>2 DEF ItemType
  <2>3. CASE stats[i].mode = "other"
    BY <2>3 DEF ItemType
  <2>4. CASE stats[i].mode = "reg" /\ ~(Hardlinked(stats[i]) /\ seen # {})
    BY <2>4 DEF ItemType
  <2>5. CASE stats[i].mode = "reg" /\ Hardlinked(stats[i]) /\ seen # {}
    BY <2>5 DEF ItemType
  <2>6. QED
    BY <2>1, <2>2, <2>3, <2>4, <2>5
<1>3. seen \in SUBSET Nat
  BY DEF FirstsSeen
<1>4. first \in seen /\ \A k \in seen : first <= k
  <2>1. \E j \in seen : \A k \in seen : j <= k
    BY <1>2, <1>3, Smallest
  <2>2. QED
    BY <2>1
<1> HIDE DEF first
<1>5. first \in 1 .. i - 1 /\ Hardlinked(stats[first])
  BY <1>4 DEF FirstsSeen
<1>6. stats[first].mode = "reg" /\ ~SharesBlock(stats[first])
  <2>1. first \in DOMAIN stats
    BY <1>1, <1>5
  <2>2. stats[first].mode = "reg" /\ stats[first].nlink > 1
    BY <1>5 DEF Hardlinked
  <2>3. stats[first].nlink \in Nat
    BY <1>1, <2>1 DEF FileStat
  <2>4. stats[first].nlink # 1
    BY <2>2, <2>3
  <2>5. QED
    BY <2>2, <2>4 DEF SharesBlock
<1>7. FirstsSeen(stats, first) = {}
  <2> SUFFICES ASSUME NEW k \in FirstsSeen(stats, first) PROVE FALSE
    OBVIOUS
  <2>1. /\ k \in 1 .. first - 1 /\ Hardlinked(stats[k])
        /\ HardlinkKey(stats[k]) = HardlinkKey(stats[first])
        /\ HardlinkKey(stats[first]) = HardlinkKey(stats[i])
    BY <1>4 DEF FirstsSeen
  <2>2. i \in Nat /\ first \in 1 .. i - 1
    BY <1>1, <1>5
  <2>3. k \in 1 .. i - 1 /\ k < first
    BY <2>1, <2>2
  <2>4. k \in seen
    BY <2>1, <2>3 DEF FirstsSeen
  <2>5. QED
    BY <1>4, <2>2, <2>3, <2>4
<1>8. ItemType(stats, first).kind = "unique"
  BY <1>6, <1>7 DEF ItemType
<1>9. QED
  BY <1>2, <1>5, <1>8

\* So in the trees of a session every link leads back to such a file.
LEMMA LinksFound ==
  ASSUME NEW f \in DOMAIN Trees, NEW e \in DOMAIN Trees[f], Trees[f][e].kind = "link"
  PROVE  /\ Trees[f][e].size \in 1 .. e - 1 /\ Trees[f][e].size < e
         /\ Trees[f][e].size \in DOMAIN Trees[f]
         /\ Trees[f][Trees[f][e].size].kind = "unique"
<1>1. /\ f \in DOMAIN Listing /\ Listing[f] \in Seq(FileStat)
      /\ Trees[f] = createar_item_stdattr(Listing[f])
  BY SessionAssumption, LenProperties, ElementOfSeq
<1> DEFINE stats == Listing[f]
<1>2. /\ DOMAIN Trees[f] = DOMAIN stats /\ DOMAIN stats = 1 .. Len(stats) /\ Len(stats) \in Nat
      /\ \A i \in DOMAIN stats : Trees[f][i] = ItemType(stats, i)
  BY <1>1, LenProperties DEF createar_item_stdattr
<1> HIDE DEF stats
<1>3. /\ stats \in Seq(FileStat) /\ e \in DOMAIN stats
      /\ Trees[f][e].size = ItemType(stats, e).size /\ ItemType(stats, e).kind = "link"
  BY <1>1, <1>2 DEF stats
<1>4. /\ Trees[f][e].size \in 1 .. e - 1
      /\ ItemType(stats, Trees[f][e].size).kind = "unique"
  BY <1>3, LinkTarget
<1>5. QED
  BY <1>2, <1>3, <1>4

LEMMA LinksPointBack == LinksBack
BY LinksFound DEF LinksBack

-----------------------------------------------------------------------------
\* The place a of the volumes is that of the record NumberOf(a) of the archive.
NumberOf(a) == FirstOf(a[1]) + a[2] - 1

\* The volumes are consecutive parts of the records.
LEMMA VolumeParts ==
  ASSUME BaseInv, FirstInv, ~unlinked
  PROVE  /\ DOMAIN OnDisk = 1 .. Len(vols) /\ Len(vols) \in Nat
         /\ \A v \in 1 .. Len(vols) + 1 : FirstOf(v) \in 1 .. Len(data) + 1
         /\ \A v, w \in 1 .. Len(vols) + 1 : v < w => FirstOf(v) <= FirstOf(w)
         /\ \A v \in 1 .. Len(vols) :
              /\ OnDisk[v].recs \in Seq(Record)
              /\ DOMAIN OnDisk[v].recs = 1 .. FirstOf(v + 1) - FirstOf(v)
              /\ \A p \in DOMAIN OnDisk[v].recs : OnDisk[v].recs[p] = data[FirstOf(v) + p - 1]
         /\ \A n \in DOMAIN data : \E v \in 1 .. Len(vols) :
              FirstOf(v) <= n /\ n < FirstOf(v + 1)
         /\ DOMAIN data = 1 .. Len(data) /\ Len(data) \in Nat
<1>1. /\ data \in Seq(Record) /\ DOMAIN data = 1 .. Len(data) /\ Len(data) \in Nat
      /\ vols \in Seq(Volume) /\ DOMAIN vols = 1 .. Len(vols) /\ Len(vols) \in Nat
      /\ \A i \in DOMAIN vols : vols[i].first \in Nat
  <2>1. data \in Seq(Record) /\ vols \in Seq(Volume)
    BY DEF BaseInv, ATypeOK
  <2>2. \A i \in DOMAIN vols : vols[i] \in Volume
    BY <2>1, ElementOfSeq, LenProperties
  <2>3. QED
    BY <2>1, <2>2, LenProperties DEF Volume
<1>2. /\ \A v \in 1 .. Len(vols) : FirstOf(v) = vols[v].first
      /\ FirstOf(Len(vols) + 1) = Len(data) + 1
  BY <1>1 DEF FirstOf
<1>3. \A v \in 1 .. Len(vols) : vols[v].first \in 1 .. Len(data) + 1
  <2> SUFFICES ASSUME NEW v \in 1 .. Len(vols) PROVE vols[v].first \in 1 .. Len(data) + 1
    OBVIOUS
  <2>1. vols # <<>> /\ 1 \in DOMAIN vols
    BY <1>1, EmptySeq
  <2>2. vols[1].first = 1 /\ vols[v].first <= Len(data) + 1
    BY <1>1, <2>1 DEF FirstInv
  <2>3. v = 1 \/ vols[1].first <= vols[v].first
    BY <1>1, <2>1 DEF FirstInv
  <2>4. QED
    BY <1>1, <2>1, <2>2, <2>3
<1>4. \A v \in 1 .. Len(vols) + 1 : FirstOf(v) \in 1 .. Len(data) + 1
  BY <1>1, <1>2, <1>3
<1>5. \A v, w \in 1 .. Len(vols) + 1 : v < w => FirstOf(v) <= FirstOf(w)
  <2> SUFFICES ASSUME NEW v \in 1 .. Len(vols) + 1, NEW w \in 1 .. Len(vols) + 1, v < w
               PROVE  FirstOf(v) <= FirstOf(w)
    OBVIOUS
  <2>1. CASE w = Len(vols) + 1
    BY <1>1, <1>2, <1>4, <2>1
  <2>2. CASE w \in 1 .. Len(vols)
    <3>1. v \in DOMAIN vols /\ w \in DOMAIN vols
      BY <1>1, <2>2
    <3>2. vols[v].first <= vols[w].first
      BY <3>1 DEF FirstInv
    <3>3. QED
      BY <1>1, <1>2, <3>1, <3>2
  <2>3. w \in 1 .. Len(vols) \/ w = Len(vols) + 1
    <3>1. Len(vols) \in Nat
      BY <1>1
    <3>2. QED
      BY <3>1
  <2>4. QED
    BY <2>1, <2>2, <2>3
<1>6. OnDisk = [i \in DOMAIN vols |-> [recs |-> SubSeq(data, FirstOf(i), FirstOf(i + 1) - 1),
                                       foot |-> vols[i].foot]]
  BY DEF OnDisk
<1>7. ASSUME NEW v \in 1 .. Len(vols)
      PROVE  /\ OnDisk[v].recs \in Seq(Record)
             /\ DOMAIN OnDisk[v].recs = 1 .. FirstOf(v + 1) - FirstOf(v)
             /\ \A p \in DOMAIN OnDisk[v].recs : OnDisk[v].recs[p] = data[FirstOf(v) + p - 1]
  <2> DEFINE m == FirstOf(v)
             n == FirstOf(v + 1) - 1
             part == SubSeq(data, m, n)
  <2>1. OnDisk[v].recs = part
    BY <1>1, <1>6
  <2>2. v \in 1 .. Len(vols) + 1 /\ v + 1 \in 1 .. Len(vols) + 1 /\ v < v + 1
    BY <1>1
  <2>3. m \in 1 .. Len(data) + 1 /\ n \in 0 .. Len(data) /\ m <= n + 1
    BY <1>1, <1>4, <1>5, <2>2
  <2>4. n + 1 = FirstOf(v + 1)
    BY <1>1, <1>4, <2>2
  <2> HIDE DEF m, n
  <2>5. \A i \in m .. n : data[i] \in Record
    BY <1>1, <2>3, ElementOfSeq
  <2>6. /\ part \in Seq(Record) /\ Len(part) = (IF m <= n THEN n - m + 1 ELSE 0)
        /\ \A i \in 1 .. n - m + 1 : part[i] = data[m + i - 1]
    BY <1>1, <2>3, <2>5, SubSeqProperties
  <2> HIDE DEF part
  <2>7. DOMAIN part = 1 .. n - m + 1
    BY <1>1, <2>3, <2>6, LenProperties
  <2>8. n - m + 1 = FirstOf(v + 1) - FirstOf(v)
    BY <1>1, <2>3, <2>4 DEF m
  <2>9. QED
    BY <2>1, <2>6, <2>7, <2>8 DEF m
<1>8. ASSUME NEW n \in DOMAIN data
      PROVE  \E v \in 1 .. Len(vols) : FirstOf(v) <= n /\ n < FirstOf(v + 1)
  <2>1. PICK v \in DOMAIN vols : vols[v].first <= n /\ (v < Len(vols) => n < vols[v + 1].first)
    BY DEF FirstInv
  <2>2. CASE v < Len(vols)
    BY <1>1, <1>2, <2>1, <2>2
  <2>3. CASE v = Len(vols)
    BY <1>1, <1>2, <2>1, <2>3
  <2>4. QED
    BY <1>1, <2>2, <2>3
<1>9. DOMAIN OnDisk = DOMAIN vols
  BY <1>6
<1>10. QED
  BY <1>1, <1>4, <1>5, <1>7, <1>8, <1>9

\* What there is in the volumes, in the order of the records.
LEMMA PlacesInOrder ==
  ASSUME BaseInv, FirstInv, ~unlinked
  PROVE  /\ \A a \in Places(OnDisk) : /\ NumberOf(a) \in DOMAIN data
                                      /\ RecordAt(OnDisk, a) = data[NumberOf(a)]
         /\ \A n \in DOMAIN data : \E a \in Places(OnDisk) : NumberOf(a) = n
         /\ \A a, b \in Places(OnDisk) : Before(a, b) <=> NumberOf(a) < NumberOf(b)
<1> DEFINE L == Len(vols)
<1>1. /\ DOMAIN OnDisk = 1 .. L /\ L \in Nat
      /\ \A v \in 1 .. L + 1 : FirstOf(v) \in 1 .. Len(data) + 1
      /\ \A v, w \in 1 .. L + 1 : v < w => FirstOf(v) <= FirstOf(w)
      /\ DOMAIN data = 1 .. Len(data) /\ Len(data) \in Nat
  BY VolumeParts
<1>2. \A v \in 1 .. L :
        /\ DOMAIN OnDisk[v].recs = 1 .. FirstOf(v + 1) - FirstOf(v)
        /\ \A p \in DOMAIN OnDisk[v].recs : OnDisk[v].recs[p] = data[FirstOf(v) + p - 1]
  BY VolumeParts
<1>3. \A n \in DOMAIN data : \E v \in 1 .. L : FirstOf(v) <= n /\ n < FirstOf(v + 1)
  BY VolumeParts
<1> HIDE DEF L
<1>4. \A v, p : <<v, p>> \in Places(OnDisk) <=>
                  v \in 1 .. L /\ p \in 1 .. FirstOf(v + 1) - FirstOf(v)
  <2> SUFFICES ASSUME NEW v, NEW p
               PROVE  <<v, p>> \in Places(OnDisk) <=>
                        v \in 1 .. L /\ p \in 1 .. FirstOf(v + 1) - FirstOf(v)
    OBVIOUS
  <2>1. <<v, p>> \in Places(OnDisk) <=>
          \E u \in DOMAIN OnDisk : \E q \in DOMAIN OnDisk[u].recs : <<v, p>> = <<u, q>>
    BY DEF Places
  <2>2. <<v, p>> \in Places(OnDisk) <=> v \in DOMAIN OnDisk /\ p \in DOMAIN OnDisk[v].recs
    BY <2>1
  <2>3. QED
    BY <1>1, <1>2, <2>2
<1>5. ASSUME NEW a \in Places(OnDisk)
      PROVE  /\ a = <<a[1], a[2]>> /\ a[1] \in 1 .. L
             /\ a[2] \in 1 .. FirstOf(a[1] + 1) - FirstOf(a[1])
             /\ FirstOf(a[1]) \in 1 .. Len(data) + 1 /\ FirstOf(a[1] + 1) \in 1 .. Len(data) + 1
             /\ NumberOf(a) \in Int
             /\ FirstOf(a[1]) <= NumberOf(a) /\ NumberOf(a) < FirstOf(a[1] + 1)
  <2>1. a = <<a[1], a[2]>>
    BY DEF Places
  <2>2. a[1] \in 1 .. L /\ a[2] \in 1 .. FirstOf(a[1] + 1) - FirstOf(a[1])
    BY <1>4, <2>1
  <2>3. FirstOf(a[1]) \in 1 .. Len(data) + 1 /\ FirstOf(a[1] + 1) \in 1 .. Len(data) + 1
    BY <1>1, <2>2
  <2>4. QED
    BY <1>1, <2>1, <2>2, <2>3 DEF NumberOf
<1>6. ASSUME NEW a \in Places(OnDisk)
      PROVE  NumberOf(a) \in DOMAIN data /\ RecordAt(OnDisk, a) = data[NumberOf(a)]
  <2>1. NumberOf(a) \in DOMAIN data
    BY <1>1, <1>5
  <2>2. RecordAt(OnDisk, a) = data[FirstOf(a[1]) + a[2] - 1]
    BY <1>2, <1>5 DEF RecordAt
  <2>3. QED
    BY <2>1, <2>2 DEF NumberOf
<1>7. ASSUME NEW n \in DOMAIN data
      PROVE  \E a \in Places(OnDisk) : NumberOf(a) = n
  <2>1. PICK v \in 1 .. L : FirstOf(v) <= n /\ n < FirstOf(v + 1)
    BY <1>3
  <2>2. v \in 1 .. L + 1 /\ v + 1 \in 1 .. L + 1
    BY <1>1
  <2>3. FirstOf(v) \in Nat /\ FirstOf(v + 1) \in Nat /\ n \in Nat
    BY <1>1, <2>2
  <2> DEFINE p == n - FirstOf(v) + 1
  <2>4. p \in 1 .. FirstOf(v + 1) - FirstOf(v) /\ FirstOf(v) + p - 1 = n
    BY <2>1, <2>3
  <2> HIDE DEF p
  <2>5. <<v, p>> \in Places(OnDisk)
    BY <1>4, <2>4
  <2>6. NumberOf(<<v, p>>) = n
    BY <2>4 DEF NumberOf
  <2>7. QED
    BY <2>5, <2>6
<1>8. ASSUME NEW a \in Places(OnDisk), NEW b \in Places(OnDisk), a[1] < b[1]
      PROVE  NumberOf(a) < NumberOf(b)
  <2>1. a[1] + 1 = b[1] \/ a[1] + 1 < b[1]
    BY <1>5, <1>8
  <2>2. a[1] + 1 \in 1 .. L + 1 /\ b[1] \in 1 .. L + 1
    BY <1>1, <1>5
  <2>3. FirstOf(a[1] + 1) <= FirstOf(b[1])
    BY <1>1, <2>1, <2>2
  <2>4. QED
    BY <1>5, <2>3
<1>9. ASSUME NEW a \in Places(OnDisk), NEW b \in Places(OnDisk), a[1] = b[1]
      PROVE  NumberOf(a) < NumberOf(b) <=> a[2] < b[2]
  BY <1>5, <1>9 DEF NumberOf
<1>10. ASSUME NEW a \in Places(OnDisk), NEW b \in Places(OnDisk)
       PROVE  Before(a, b) <=> NumberOf(a) < NumberOf(b)
  <2>1. CASE a[1] < b[1]
    BY <1>8, <2>1 DEF Before
  <2>2. CASE a[1] = b[1]
    BY <1>5, <1>9, <2>2 DEF Before
  <2>3. CASE b[1] < a[1]
    BY <1>5, <1>8, <2>3 DEF Before
  <2>4. QED
    BY <1>5, <2>1, <2>2, <2>3
<1>11. QED
  BY <1>6, <1>7, <1>10

\* What no volume is left of is nothing to read.
LEMMA NothingRestorable == Restorable(<<>>) /\ Unbroken(<<>>)
<1>1. Places(<<>>) = {}
  BY DEF Places
<1>2. QED
  BY <1>1 DEF Restorable, NamesObjects, BeginsRight, ReadsInOrder, Unbroken

\* The volumes are what the reader takes them for.
LEMMA DiskType ==
  ASSUME BaseInv, FirstInv
  PROVE  OnDisk \in Seq(StoredVolume)
<1>1. CASE unlinked
  BY <1>1 DEF OnDisk
<1>2. CASE ~unlinked
  <2>1. /\ Len(vols) \in Nat
        /\ \A v \in 1 .. Len(vols) : OnDisk[v].recs \in Seq(Record)
    BY <1>2, VolumeParts
  <2>2. /\ DOMAIN vols = 1 .. Len(vols)
        /\ \A v \in 1 .. Len(vols) : vols[v].foot \in {"none", "more", "last"}
    <3>1. vols \in Seq(Volume) /\ DOMAIN vols = 1 .. Len(vols)
      BY LenProperties DEF BaseInv, ATypeOK
    <3>2. \A v \in 1 .. Len(vols) : vols[v] \in Volume
      BY <3>1, ElementOfSeq
    <3>3. QED
      BY <3>1, <3>2 DEF Volume
  <2> DEFINE stored(v) == [recs |-> SubSeq(data, FirstOf(v), FirstOf(v + 1) - 1),
                           foot |-> vols[v].foot]
  <2>3. OnDisk = [v \in 1 .. Len(vols) |-> stored(v)]
    BY <1>2, <2>2 DEF OnDisk
  <2>4. ASSUME NEW v \in 1 .. Len(vols)
        PROVE  stored(v) \in StoredVolume
    <3>1. OnDisk[v] = stored(v)
      BY <2>3
    <3>2. stored(v).recs \in Seq(Record) /\ stored(v).foot \in {"none", "more", "last"}
      BY <2>1, <2>2, <3>1
    <3>3. QED
      BY <3>2 DEF StoredVolume
  <2> HIDE DEF stored
  <2>5. QED
    BY <2>1, <2>3, <2>4, SeqDef
<1>3. QED
  BY <1>1, <1>2

\* Ordered records make volumes that a restore can make use of.
LEMMA DiskRestorable ==
  ASSUME BaseInv, FirstInv, Ordered(data), ~unlinked
  PROVE  Restorable(OnDisk)
<1>1. /\ \A a \in Places(OnDisk) : /\ NumberOf(a) \in DOMAIN data
                                   /\ RecordAt(OnDisk, a) = data[NumberOf(a)]
      /\ \A n \in DOMAIN data : \E a \in Places(OnDisk) : NumberOf(a) = n
      /\ \A a, b \in Places(OnDisk) : Before(a, b) <=> NumberOf(a) < NumberOf(b)
  BY PlacesInOrder
<1>2. NamesObjects(OnDisk)
  BY <1>1 DEF NamesObjects, Ordered
<1>3. BeginsRight(OnDisk)
  <2> SUFFICES ASSUME OnDisk # <<>>, OnDisk[1].recs # <<>>
               PROVE  OnDisk[1].recs[1].magic = "MAIN"
    BY DEF BeginsRight
  <2>1. /\ DOMAIN OnDisk = 1 .. Len(vols) /\ Len(vols) \in Nat
        /\ \A v \in 1 .. Len(vols) :
             OnDisk[v].recs = SubSeq(data, FirstOf(v), FirstOf(v + 1) - 1)
        /\ vols # <<>> /\ 1 \in DOMAIN vols
    <3>1. vols \in Seq(Volume) /\ DOMAIN vols = 1 .. Len(vols) /\ Len(vols) \in Nat
      BY LenProperties DEF BaseInv, ATypeOK
    <3>2. vols # <<>>
      BY DEF OnDisk
    <3>3. QED
      BY <3>1, <3>2, EmptySeq DEF OnDisk
  <2>2. FirstOf(1) = 1
    BY <2>1 DEF FirstOf, FirstInv
  <2>3. /\ DOMAIN OnDisk[1].recs = 1 .. FirstOf(2) - FirstOf(1)
        /\ \A p \in DOMAIN OnDisk[1].recs : OnDisk[1].recs[p] = data[FirstOf(1) + p - 1]
        /\ FirstOf(2) \in 1 .. Len(data) + 1 /\ Len(data) \in Nat /\ DOMAIN data = 1 .. Len(data)
    BY <2>1, VolumeParts
  <2>4. FirstOf(2) # 1
    BY <2>1, <2>2, SubSeqEmpty
  <2>5. 1 \in DOMAIN OnDisk[1].recs /\ 1 \in DOMAIN data
    BY <2>2, <2>3, <2>4
  <2>6. OnDisk[1].recs[1] = data[1]
    BY <2>2, <2>3, <2>5
  <2>7. QED
    BY <2>5, <2>6 DEF Ordered
<1>4. ASSUME NEW a \in Places(OnDisk), NEW b \in Places(OnDisk), Before(a, b)
      PROVE  /\ MayPrecede(RecordAt(OnDisk, a), RecordAt(OnDisk, b))
             /\ Foreign(RecordAt(OnDisk, a), RecordAt(OnDisk, b)) =>
                  \E c \in Places(OnDisk) :
                    /\ Before(a, c) /\ Before(c, b)
                    /\ Opens(RecordAt(OnDisk, c), RecordAt(OnDisk, b))
  <2>1. /\ NumberOf(a) \in DOMAIN data /\ NumberOf(b) \in DOMAIN data
        /\ NumberOf(a) < NumberOf(b)
        /\ RecordAt(OnDisk, a) = data[NumberOf(a)] /\ RecordAt(OnDisk, b) = data[NumberOf(b)]
    BY <1>1, <1>4
  <2>2. /\ MayPrecede(data[NumberOf(a)], data[NumberOf(b)])
        /\ Foreign(data[NumberOf(a)], data[NumberOf(b)]) =>
             \E n \in DOMAIN data : /\ NumberOf(a) < n /\ n < NumberOf(b)
                                    /\ Opens(data[n], data[NumberOf(b)])
    BY <2>1 DEF Ordered
  <2>3. ASSUME NEW n \in DOMAIN data, NumberOf(a) < n, n < NumberOf(b),
               Opens(data[n], data[NumberOf(b)])
        PROVE  \E c \in Places(OnDisk) :
                 /\ Before(a, c) /\ Before(c, b)
                 /\ Opens(RecordAt(OnDisk, c), RecordAt(OnDisk, b))
    <3>1. PICK c \in Places(OnDisk) : NumberOf(c) = n
      BY <1>1
    <3>2. Before(a, c) /\ Before(c, b) /\ RecordAt(OnDisk, c) = data[n]
      BY <1>1, <2>3, <3>1
    <3>3. QED
      BY <2>1, <2>3, <3>2
  <2>4. QED
    BY <2>1, <2>2, <2>3
<1>5. ASSUME NEW a \in Places(OnDisk), RecordAt(OnDisk, a).magic = "FILF"
      PROVE  EndsFile(RecordAt(OnDisk, a))
  BY <1>1, <1>5 DEF Ordered
<1>6. ReadsInOrder(OnDisk)
  BY <1>4, <1>5 DEF ReadsInOrder
<1>7. QED
  BY <1>2, <1>3, <1>6 DEF Restorable

\* Records of which none lacks its footer make volumes of which none does.
LEMMA DiskUnbroken ==
  ASSUME BaseInv, FirstInv, Parted(data), Closed(data), ~unlinked
  PROVE  Unbroken(OnDisk)
<1>1. /\ \A a \in Places(OnDisk) : /\ NumberOf(a) \in DOMAIN data
                                   /\ RecordAt(OnDisk, a) = data[NumberOf(a)]
      /\ \A n \in DOMAIN data : \E a \in Places(OnDisk) : NumberOf(a) = n
      /\ \A a, b \in Places(OnDisk) : Before(a, b) <=> NumberOf(a) < NumberOf(b)
  BY PlacesInOrder
<1>2. ASSUME NEW a \in Places(OnDisk), NEW b \in Places(OnDisk), Before(a, b)
      PROVE  /\ EndsApart(RecordAt(OnDisk, a), RecordAt(OnDisk, b))
             /\ Closing(RecordAt(OnDisk, a)) /\ RecordAt(OnDisk, b).magic = "OBJT" =>
                  \E c \in Places(OnDisk) :
                    /\ Before(a, c) /\ Before(c, b)
                    /\ Footer(RecordAt(OnDisk, c), RecordAt(OnDisk, a))
  <2>1. /\ NumberOf(a) \in DOMAIN data /\ NumberOf(b) \in DOMAIN data
        /\ NumberOf(a) < NumberOf(b)
        /\ RecordAt(OnDisk, a) = data[NumberOf(a)] /\ RecordAt(OnDisk, b) = data[NumberOf(b)]
    BY <1>1, <1>2
  <2>2. EndsApart(data[NumberOf(a)], data[NumberOf(b)])
    BY <2>1 DEF Parted
  <2>3. ASSUME Closing(data[NumberOf(a)]), data[NumberOf(b)].magic = "OBJT"
        PROVE  \E c \in Places(OnDisk) :
                 /\ Before(a, c) /\ Before(c, b)
                 /\ Footer(RecordAt(OnDisk, c), data[NumberOf(a)])
    <3>1. PICK n \in DOMAIN data : /\ NumberOf(a) < n /\ n < NumberOf(b)
                                   /\ Footer(data[n], data[NumberOf(a)])
      BY <2>1, <2>3 DEF Closed
    <3>2. PICK c \in Places(OnDisk) : NumberOf(c) = n
      BY <1>1
    <3>3. Before(a, c) /\ Before(c, b) /\ RecordAt(OnDisk, c) = data[n]
      BY <1>1, <3>1, <3>2
    <3>4. QED
      BY <3>1, <3>3
  <2>4. QED
    BY <2>1, <2>2, <2>3
<1>3. QED
  BY <1>2 DEF Unbroken

-----------------------------------------------------------------------------
\* While the first save runs the records have their order, and the volumes their
\* parts; from then on the archive stays as it is.
SaveOrdered ==
  op = "save" => OwnInv /\ GramInv /\ OrderInv /\ CleanInv /\ FirstInv /\ AllInv

LeftInv ==
  /\ SaveOrdered
  /\ op \in {"archinfo", "restore"} => Restorable(OnDisk) /\ (ret = 0 => Unbroken(OnDisk))

\* A session begins with a save that has stored nothing.
LEMMA LeftInit == SessionInit => LeftInv
<1> SUFFICES ASSUME SessionInit PROVE LeftInv
  OBVIOUS
<1>1. Init /\ op = "save"
  BY DEF SessionInit
<1>2. OwnInv
  BY <1>1 DEF Init, OwnInv, WorkOwned, queue_init, NoWork
<1>3. QED
  BY <1>1, <1>2, GramInit, OrderInit, CleanInit, FirstInit, AllInit DEF LeftInv, SaveOrdered

\* A step of the first save.
LEMMA SaveOrderStep ==
  ASSUME BaseInv, BaseInv', DiskInv, DiskInv', OwnInv, GramInv, OrderInv, CleanInv, FirstInv,
         AllInv, [Next]_vars
  PROVE  OwnInv' /\ GramInv' /\ OrderInv' /\ CleanInv' /\ FirstInv' /\ AllInv'
<1>1. EndInv /\ EndInv' /\ VolInv /\ WorkOwned
  BY DEF DiskInv, OwnInv
<1>2. OwnInv' /\ FirstInv'
  BY <1>1, OwnStep, FirstStep
<1>3. GramInv' /\ OrderInv' /\ CleanInv'
  BY <1>1, LinksPointBack, GramStep, OrderStep, CleanStep
<1>4. AllInv'
  BY <1>1, AllStep
<1>5. QED
  BY <1>2, <1>3, <1>4

\* What a save leaves can be read, and so can what a failed one that has been
\* spoilt leaves, which is nothing; and after a success no footer is missing.
LEMMA SavedRestorable ==
  ASSUME SInv, LeftInv, AskForArchinfo
  PROVE  OnDisk \in Seq(StoredVolume) /\ Restorable(OnDisk) /\ (ret = 0 => Unbroken(OnDisk))
<1>1. CASE unlinked \/ vols = <<>>
  <2>1. OnDisk = <<>>
    BY <1>1 DEF OnDisk
  <2>2. QED
    BY <2>1, NothingRestorable, EmptySeq
<1>2. CASE ~(unlinked \/ vols = <<>>)
  <2>1. op = "save"
    BY <1>2 DEF AskForArchinfo, SInv, SecondSave
  <2>2. BaseInv /\ OrderInv /\ CleanInv /\ FirstInv
    BY <2>1 DEF SInv, FirstSave, LeftInv, SaveOrdered
  <2>3. Ordered(data)
    BY <2>2, DataSays, OrderPrefix DEF OrderInv
  <2>4. ret = 0 => Parted(data) /\ Closed(data)
    <3>1. ret = 0 => Parted(Written(data)) /\ Closed(Written(data))
      BY <2>1, <2>2 DEF CleanInv, AskForArchinfo
    <3>2. QED
      BY <2>2, <3>1, DataSays, CleanPrefix
  <2>5. QED
    BY <1>2, <2>2, <2>3, <2>4, DiskType, DiskRestorable, DiskUnbroken
<1>3. QED
  BY <1>1, <1>2

\* Each kind of step: those after the save do not touch the archive.
LEMMA LeftStep == SInv /\ SInv' /\ LeftInv /\ [SessionNext]_sessionvars => LeftInv'
<1> SUFFICES ASSUME SInv, SInv', LeftInv, [SessionNext]_sessionvars PROVE LeftInv'
  OBVIOUS
<1>1. ASSUME UNCHANGED savevars
      PROVE  OnDisk' = OnDisk
  BY <1>1 DEF OnDisk, FirstOf, savevars, avars
<1>2. ASSUME op = "save", op' = "save", [Next]_vars
      PROVE  LeftInv'
  <2>1. BaseInv /\ BaseInv' /\ DiskInv /\ DiskInv'
    BY <1>2 DEF SInv, FirstSave
  <2>2. OwnInv /\ GramInv /\ OrderInv /\ CleanInv /\ FirstInv /\ AllInv
    BY <1>2 DEF LeftInv, SaveOrdered
  <2>3. OwnInv' /\ GramInv' /\ OrderInv' /\ CleanInv' /\ FirstInv' /\ AllInv'
    BY <1>2, <2>1, <2>2, SaveOrderStep
  <2>4. QED
    BY <1>2, <2>3 DEF LeftInv, SaveOrdered
<1>3. CASE SaveRuns(Next)
  <2>1. Next /\ op \in {"save", "again"} /\ op' = op
    BY <1>3 DEF SaveRuns, windowvars
  <2>2. QED
    BY <1>2, <2>1 DEF LeftInv, SaveOrdered
<1>4. CASE SaveAgain
  BY <1>4 DEF SaveAgain, LeftInv, SaveOrdered
<1>5. CASE AskForArchinfo
  <2>1. /\ Restorable(OnDisk) /\ (ret = 0 => Unbroken(OnDisk))
        /\ op' = "archinfo" /\ UNCHANGED savevars
    BY <1>5, SavedRestorable DEF AskForArchinfo
  <2>2. ret' = ret
    BY <2>1 DEF savevars, mvars
  <2>3. QED
    BY <1>1, <2>1, <2>2 DEF LeftInv, SaveOrdered
<1>6. CASE StartRestore \/ RestoreRuns(R!Next)
  <2>1. /\ op \in {"archinfo", "restore"} /\ op' \in {"archinfo", "restore"}
        /\ UNCHANGED savevars
    BY <1>6 DEF StartRestore, RestoreRuns
  <2>2. ret' = ret
    BY <2>1 DEF savevars, mvars
  <2>3. QED
    BY <1>1, <2>1, <2>2 DEF LeftInv, SaveOrdered
<1>7. CASE thread2Ready \/ UNCHANGED sessionvars
  <2>1. UNCHANGED <<qvars, stop, abort, savevars, op>>
    BY <1>7 DEF thread2Ready, sessionvars, windowvars
  <2>2. UNCHANGED vars /\ OnDisk' = OnDisk /\ ret' = ret
    BY <1>1, <2>1 DEF vars, savevars, mvars
  <2>3. QED
    BY <1>2, <2>1, <2>2 DEF LeftInv, SaveOrdered
<1>8. QED
  BY <1>3, <1>4, <1>5, <1>6, <1>7 DEF SessionNext

\* In every session the archive that a restore is asked to read, whatever became of
\* the save, has its records in the order that the restore relies on.
THEOREM RestorableArchive == SessionSpec => []ArchiveRestorable
<1>1. LeftInv => ArchiveRestorable
  BY DEF LeftInv, ArchiveRestorable
<1>2. SessionSpec => []LeftInv
  BY SInvariant, LeftInit, LeftStep, PTL DEF SessionSpec
<1>3. QED
  BY <1>1, <1>2, PTL

\* In every session, after a save that has returned success no file of the archive
\* lacks its footer, and nothing comes behind the end of its file system: what a restore
\* needs so that its own success means that everything is restored.
THEOREM UnbrokenArchive == SessionSpec => []ArchiveUnbroken
<1>1. LeftInv => ArchiveUnbroken
  BY DEF LeftInv, ArchiveUnbroken
<1>2. SessionSpec => []LeftInv
  BY SInvariant, LeftInit, LeftStep, PTL DEF SessionSpec
<1>3. QED
  BY <1>1, <1>2, PTL
-----------------------------------------------------------------------------
(***************************************************************************)
(* The restore of a session is one of RestoreHonest_proofs, started from   *)
(* another state.                                                          *)
(***************************************************************************)
\* The restore of a session, with all that is proved of a restore.
RP == INSTANCE RestoreHonest_proofs WITH
        archive <- OnDisk, ret <- rret, Faults <- RestoreFaults, Archives <- {}, Excluded <- {}

\* The two instances have the same steps: each definition stands for the same on both
\* sides.
LEMMA SameNext == R!Next => RP!Next
<1> USE DEF R!XGoto, R!XFail, R!qvars, R!Expect, R!queue_dequeue_header, R!HeadIs, R!RemoveHead,
            R!JobSuits, R!IsFS, R!Elsewhere, R!rvars, R!dvars, R!Mkfs, R!Objects, R!Disappoint,
            R!queue_dequeue_fails, R!queue_get_end_of_queue, R!HeadMagic,
            R!queue_destroy_first_item, R!xvars, R!Taking, R!KindAt, R!Ours, R!ObjectOf,
            R!FirstLink, R!NoFile, R!Blank, R!Rec, R!interrupted, R!BlocksAt,
            R!queue_dequeue_block, R!This, R!ContentsOf, R!SameObject, R!SumAgrees,
            R!SmallFileOutcomes, R!Placed, R!InBlock, R!Aside, R!queue_count_items_todo,
            R!secthreads, R!AllJoined, R!queue_get_first_block_todo, R!TodoPositions,
            R!DElsewhere, R!queue_replace_block, R!Unpack, R!NoWork, R!RGoto, R!FirstVolume,
            R!Recs, R!RElsewhere, R!foot, R!Reading, R!Wanted, R!Global, R!fsid, R!g_fsbitmap,
            R!Loses, R!Zeros, R!queue_add_block, R!QueueFull, R!AppendItem,
            R!queue_add_header, R!queue_set_end_of_queue, R!vars, R!Cardinality,
            RP!XGoto, RP!XFail, RP!qvars, RP!Expect, RP!queue_dequeue_header, RP!HeadIs,
            RP!RemoveHead, RP!JobSuits, RP!IsFS, RP!Elsewhere, RP!rvars, RP!dvars, RP!Mkfs,
            RP!Objects, RP!Disappoint, RP!queue_dequeue_fails, RP!queue_get_end_of_queue,
            RP!HeadMagic, RP!queue_destroy_first_item, RP!xvars, RP!Taking, RP!KindAt, RP!Ours,
            RP!ObjectOf, RP!FirstLink, RP!NoFile, RP!Blank, RP!Rec, RP!interrupted, RP!BlocksAt,
            RP!queue_dequeue_block, RP!This, RP!ContentsOf, RP!SameObject, RP!SumAgrees,
            RP!SmallFileOutcomes, RP!Placed, RP!InBlock, RP!Aside, RP!queue_count_items_todo,
            RP!secthreads, RP!AllJoined, RP!queue_get_first_block_todo, RP!TodoPositions,
            RP!DElsewhere, RP!queue_replace_block, RP!Unpack, RP!NoWork, RP!RGoto,
            RP!FirstVolume, RP!Recs, RP!RElsewhere, RP!foot, RP!Reading, RP!Wanted, RP!Global,
            RP!fsid, RP!g_fsbitmap, RP!Loses, RP!Zeros, RP!queue_add_block, RP!QueueFull,
            RP!AppendItem, RP!queue_add_header, RP!queue_set_end_of_queue, RP!vars,
            RP!Cardinality
<1>1. R!XStart => RP!XStart
  BY DEF R!XStart, RP!XStart
<1>2. R!XMainHead => RP!XMainHead
  BY DEF R!XMainHead, RP!XMainHead
<1>3. R!XFsInfo => RP!XFsInfo
  BY DEF R!XFsInfo, RP!XFsInfo
<1>4. R!XDirsInfo => RP!XDirsInfo
  BY DEF R!XDirsInfo, RP!XDirsInfo
<1>5. R!XNextFS => RP!XNextFS
  BY DEF R!XNextFS, RP!XNextFS
<1>6. R!XBeginFS => RP!XBeginFS
  BY DEF R!XBeginFS, RP!XBeginFS
<1>7. R!XTargetFails => RP!XTargetFails
  BY DEF R!XTargetFails, RP!XTargetFails
<1>8. R!XBeginDir => RP!XBeginDir
  BY DEF R!XBeginDir, RP!XBeginDir
<1>9. R!XNoPassword => RP!XNoPassword
  BY DEF R!XNoPassword, RP!XNoPassword
<1>10. R!XHeaderMissing => RP!XHeaderMissing
  BY DEF R!XHeaderMissing, RP!XHeaderMissing
<1>11. R!XSkipGarbage => RP!XSkipGarbage
  BY DEF R!XSkipGarbage, RP!XSkipGarbage
<1>12. R!XArchiveEnds => RP!XArchiveEnds
  BY DEF R!XArchiveEnds, RP!XArchiveEnds
<1>13. R!XForeignObject => RP!XForeignObject
  BY DEF R!XForeignObject, RP!XForeignObject
<1>14. R!XObject => RP!XObject
  BY DEF R!XObject, RP!XObject
<1>15. R!XLink => RP!XLink
  BY DEF R!XLink, RP!XLink
<1>16. R!XNextObject => RP!XNextObject
  BY DEF R!XNextObject, RP!XNextObject
<1>17. R!XObjectsEnd => RP!XObjectsEnd
  BY DEF R!XObjectsEnd, RP!XObjectsEnd
<1>18. R!XEndFS => RP!XEndFS
  BY DEF R!XEndFS, RP!XEndFS
<1>19. R!XEndFSFails => RP!XEndFSFails
  BY DEF R!XEndFSFails, RP!XEndFSFails
<1>20. R!XOpenFile => RP!XOpenFile
  BY DEF R!XOpenFile, RP!XOpenFile
<1>21. R!XBlockLoop => RP!XBlockLoop
  BY DEF R!XBlockLoop, RP!XBlockLoop
<1>22. R!XBlock => RP!XBlock
  BY DEF R!XBlock, RP!XBlock
<1>23. R!XBlockMissing => RP!XBlockMissing
  BY DEF R!XBlockMissing, RP!XBlockMissing
<1>24. R!XWriteFails => RP!XWriteFails
  BY DEF R!XWriteFails, RP!XWriteFails
<1>25. R!XClose => RP!XClose
  BY DEF R!XClose, RP!XClose
<1>26. R!XFooter => RP!XFooter
  BY DEF R!XFooter, RP!XFooter
<1>27. R!XCountFile => RP!XCountFile
  BY DEF R!XCountFile, RP!XCountFile
<1>28. R!XFirstSmallFile => RP!XFirstSmallFile
  BY DEF R!XFirstSmallFile, RP!XFirstSmallFile
<1>29. R!XGroupHeader => RP!XGroupHeader
  BY DEF R!XGroupHeader, RP!XGroupHeader
<1>30. R!XGroupBlock => RP!XGroupBlock
  BY DEF R!XGroupBlock, RP!XGroupBlock
<1>31. R!XGroupFails => RP!XGroupFails
  BY DEF R!XGroupFails, RP!XGroupFails
<1>32. R!XSmallFile => RP!XSmallFile
  BY DEF R!XSmallFile, RP!XSmallFile
<1>33. R!XSmallFileWriteFails => RP!XSmallFileWriteFails
  BY DEF R!XSmallFileWriteFails, RP!XSmallFileWriteFails
<1>34. R!XFinal => RP!XFinal
  BY DEF R!XFinal, RP!XFinal
<1>35. R!XAskToStop => RP!XAskToStop
  BY DEF R!XAskToStop, RP!XAskToStop
<1>36. R!XAwaitBlocks => RP!XAwaitBlocks
  BY DEF R!XAwaitBlocks, RP!XAwaitBlocks
<1>37. R!XDrain => RP!XDrain
  BY DEF R!XDrain, RP!XDrain
<1>38. R!XDestroy => RP!XDestroy
  BY DEF R!XDestroy, RP!XDestroy
<1>39. R!XJoin => RP!XJoin
  BY DEF R!XJoin, RP!XJoin
<1>40. R!MainStep => RP!MainStep
  BY <1>1, <1>2, <1>3, <1>4, <1>5, <1>6, <1>7, <1>8, <1>9, <1>10, <1>11, <1>12, <1>13, <1>14,
     <1>15, <1>16, <1>17, <1>18, <1>19, <1>20, <1>21, <1>22, <1>23, <1>24, <1>25, <1>26, <1>27,
     <1>28, <1>29, <1>30, <1>31, <1>32, <1>33, <1>34, <1>35, <1>36, <1>37, <1>38, <1>39
     DEF R!MainStep, RP!MainStep
<1>41. ASSUME NEW t \in DecompThreads PROVE R!DecompStep(t) => RP!DecompStep(t)
  <2>1. R!DTake(t) => RP!DTake(t)
    BY DEF R!DTake, RP!DTake
  <2>2. R!DReplace(t) => RP!DReplace(t)
    BY DEF R!DReplace, RP!DReplace
  <2>3. R!DFail(t) => RP!DFail(t)
    BY DEF R!DFail, RP!DFail
  <2>4. R!DExit(t) => RP!DExit(t)
    BY DEF R!DExit, RP!DExit
  <2>5. R!DBegin(t) => RP!DBegin(t)
    BY DEF R!DBegin, RP!DBegin
  <2>6. R!DReplaceSpoilt(t) => RP!DReplaceSpoilt(t)
    BY DEF R!DReplaceSpoilt, RP!DReplaceSpoilt
  <2>7. QED
    BY <2>1, <2>2, <2>3, <2>4, <2>5, <2>6 DEF R!DecompStep, RP!DecompStep
<1>42. R!ROpen => RP!ROpen
  BY DEF R!ROpen, RP!ROpen
<1>43. R!RReadFails => RP!RReadFails
  BY DEF R!RReadFails, RP!RReadFails
<1>44. R!RStop => RP!RStop
  BY DEF R!RStop, RP!RStop
<1>45. R!RSkip => RP!RSkip
  BY DEF R!RSkip, RP!RSkip
<1>46. R!RRead => RP!RRead
  BY DEF R!RRead, RP!RRead
<1>47. R!RDamagedBlock => RP!RDamagedBlock
  BY DEF R!RDamagedBlock, RP!RDamagedBlock
<1>48. R!RDamagedHeader => RP!RDamagedHeader
  BY DEF R!RDamagedHeader, RP!RDamagedHeader
<1>49. R!RDamagedStart => RP!RDamagedStart
  BY DEF R!RDamagedStart, RP!RDamagedStart
<1>50. R!RAdd => RP!RAdd
  BY DEF R!RAdd, RP!RAdd
<1>51. R!RVolumeEnd => RP!RVolumeEnd
  BY DEF R!RVolumeEnd, RP!RVolumeEnd
<1>52. R!REnd => RP!REnd
  BY DEF R!REnd, RP!REnd
<1>53. R!ReaderStep => RP!ReaderStep
  BY <1>42, <1>43, <1>44, <1>45, <1>46, <1>47, <1>48, <1>49, <1>50, <1>51, <1>52
     DEF R!ReaderStep, RP!ReaderStep
<1>54. R!RAsk => RP!RAsk
  BY DEF R!RAsk, RP!RAsk
<1>55. R!Signal => RP!Signal
  BY DEF R!Signal, RP!Signal
<1>56. R!Done => RP!Done
  BY DEF R!Done, RP!Done
<1>57. QED
  BY <1>40, <1>41, <1>53, <1>54, <1>55, <1>56 DEF R!Next, RP!Next

\* What a restore assumes of its constants holds of those of the session.
SuitableConstants ==
  /\ ArchType \in {"filesystems", "directories"}
  /\ Trees \in Seq(Seq(RP!Entry))
  /\ \A t \in DOMAIN Trees : \A e \in DOMAIN Trees[t] :
       Trees[t][e].kind = "link" =>
         /\ Trees[t][e].size \in 1 .. e - 1
         /\ Trees[t][Trees[t][e].size].kind # "link"
  /\ Jobs \subseteq RP!Job
  /\ {} \subseteq Seq(RP!StoredVolume)
  /\ \A a \in {} : RP!Restorable(a)
  /\ {} \subseteq RP!Objects
  /\ RP!IsFiniteSet(DecompThreads) /\ DecompThreads # {}
  /\ MaxDamage \in Nat
  /\ RestoreFaults \subseteq RP!FaultKinds
  /\ BlkMax \in Nat

LEMMA ConstantsSuit == SuitableConstants
<1>1. ArchType \in {"filesystems", "directories"} /\ Trees \in Seq(Seq(RP!Entry))
  BY SaveAssumption DEF Entry, RP!Entry
<1>2. \A t \in DOMAIN Trees : \A e \in DOMAIN Trees[t] :
        Trees[t][e].kind = "link" =>
          /\ Trees[t][e].size \in 1 .. e - 1
          /\ Trees[t][Trees[t][e].size].kind # "link"
  BY LinksFound
<1>3. Jobs \subseteq RP!Job /\ RestoreFaults \subseteq RP!FaultKinds
  BY AskedAssumption DEF R!Job, RP!Job, R!FaultKinds, RP!FaultKinds
<1>4. RP!IsFiniteSet(DecompThreads) /\ DecompThreads # {} /\ MaxDamage \in Nat
  BY SessionAssumption DEF IsFiniteSet, RP!IsFiniteSet
<1>5. QED
  BY <1>1, <1>2, <1>3, <1>4, BlkMaxAssumption DEF SuitableConstants

\* So what is proved of a restore holds of the one in the session.
LEMMA RestoreBegins == RP!Fresh => RP!RestoreInv
BY ConstantsSuit, RP!RestoreFresh DEF SuitableConstants

LEMMA RestoreGoesOn == RP!RestoreInv /\ [RP!Next]_(RP!vars) => RP!RestoreInv'
BY ConstantsSuit, RP!RestoreStep DEF SuitableConstants

LEMMA CoverBegins == RP!Fresh /\ RP!Unbroken(OnDisk) => RP!CoverInv
BY ConstantsSuit, RP!CoverFresh DEF SuitableConstants

LEMMA CoverGoesOn == RP!RestoreInv /\ RP!CoverInv /\ [RP!Next]_(RP!vars) => RP!CoverInv'
BY ConstantsSuit, RP!CoverNext DEF SuitableConstants

LEMMA CoverShows == RP!RestoreInv /\ RP!CoverInv => RP!SuccessRestoresAll
BY ConstantsSuit, RP!CoverImplies DEF SuitableConstants, RP!RestoreInv

LEMMA JobStays == RP!BaseInv /\ RP!SuitInv /\ [RP!Next]_(RP!vars) => job' = job
BY ConstantsSuit, RP!SuitStep DEF SuitableConstants

\* An archive is to the restore what it is to the save.
LEMMA SameArchive ==
  /\ RP!StoredVolume = StoredVolume
  /\ Restorable(OnDisk) => RP!Restorable(OnDisk)
  /\ Unbroken(OnDisk) => RP!Unbroken(OnDisk)
<1> USE DEF Places, RecordAt, Before, KindAt, BlocksAt, SameObject, SavedAlone, LargeBlock,
            LinksTo, NamesObject, IsFS,
            RP!Places, RP!RecordAt, RP!Before, RP!KindAt, RP!BlocksAt, RP!SameObject,
            RP!SavedAlone, RP!LargeBlock, RP!LinksTo, RP!NamesObject, RP!IsFS
<1>1. RP!StoredVolume = StoredVolume
  BY DEF StoredVolume, Record, Magic, RP!StoredVolume, RP!Record, RP!Magic
<1>2. NamesObjects(OnDisk) => RP!NamesObjects(OnDisk)
  BY DEF NamesObjects, RP!NamesObjects
<1>3. BeginsRight(OnDisk) => RP!BeginsRight(OnDisk)
  BY DEF BeginsRight, RP!BeginsRight
<1>4. ReadsInOrder(OnDisk) => RP!ReadsInOrder(OnDisk)
  BY DEF ReadsInOrder, MayPrecede, Foreign, Opens, EndsFile,
         RP!ReadsInOrder, RP!MayPrecede, RP!Foreign, RP!Opens, RP!EndsFile
<1>5. Unbroken(OnDisk) => RP!Unbroken(OnDisk)
  BY DEF Unbroken, Closing, Footer, EndsApart, EndsFile,
         RP!Unbroken, RP!Closing, RP!Footer, RP!EndsApart, RP!EndsFile
<1>6. QED
  BY <1>1, <1>2, <1>3, <1>4, <1>5 DEF Restorable, RP!Restorable


-----------------------------------------------------------------------------
(***************************************************************************)
(* The restore of a session.  It begins as every restore does, whatever    *)
(* the flags are, with the archive that the save has left; and so does the *)
(* display before it, which touches nothing.                               *)
(***************************************************************************)
Waiting == op \in {"save", "again"} => job = Archinfo /\ RP!IdleInit

Running ==
  op \in {"archinfo", "restore"} => RP!RestoreInv /\ (ret = 0 => RP!CoverInv)

SessionRestore ==
  /\ stop \in BOOLEAN /\ abort \in BOOLEAN
  /\ Waiting
  /\ op = "archinfo" => job = Archinfo
  /\ Running

\* What the window has of a save is not touched by a step that is not the save's.
LEMMA DiskStays ==
  ASSUME UNCHANGED savevars
  PROVE  OnDisk' = OnDisk /\ ret' = ret
BY DEF OnDisk, FirstOf, savevars, avars, mvars

\* The flags of a save are only ever set.
LEMMA FlagsSet ==
  ASSUME Next, stop \in BOOLEAN, abort \in BOOLEAN
  PROVE  stop' \in BOOLEAN /\ abort' \in BOOLEAN
<1>1. CASE MainStep
  <2>1. CASE MStart
    BY <2>1 DEF MStart
  <2>2. CASE MJoin
    BY <2>2 DEF MJoin
  <2>3. CASE ~MStart /\ ~MJoin
    BY <1>1, <2>3 DEF MainStep, MFinal, MSetEndOfQueue, MWriteMainHead, MAnalyse, MAnalyseFails,
       MNextTree, MBeginFS, MEndFS, MEndDir, MEndDirs, MWalkEnds, MStatFails, MOpendirFails,
       MEntryUnreadable, MPassSelf, MVisit, MReadBlock, MReadFails, MFileInterrupted, MFileRead,
       MSmallFile, MPutAside, Visiting, MAddObject, MAddBlock, MAddFooter, MEnqueueHeader,
       MEnqueueBlock, Elsewhere
  <2>4. QED
    BY <2>1, <2>2, <2>3
<1>2. ASSUME NEW t \in CompThreads, CompStep(t)
      PROVE  UNCHANGED <<stop, abort>>
  BY <1>2 DEF CompStep, CTake, CReplace, CFail, CExit
<1>3. CASE Signal \/ Done
  BY <1>3 DEF Signal, Done, vars
<1>4. CASE WriterStep
  BY <1>4 DEF WriterStep, WCreate, WCreateFails, WVolHeader, WDequeue, WSplit,
       WWriteRecord, WLastFooter, WWriteFails, WError, WDrain, WElsewhere, WGoto
<1>5. QED
  BY <1>1, <1>2, <1>3, <1>4 DEF Next

LEMMA RestoreInitial == SessionInit => SessionRestore
<1> SUFFICES ASSUME SessionInit PROVE SessionRestore
  OBVIOUS
<1>1. op = "save" /\ job = Archinfo /\ stop = FALSE /\ abort = FALSE
  BY DEF SessionInit, Init
<1>2. RP!IdleInit
  BY DEF SessionInit, R!IdleInit, RP!IdleInit, R!NoFile, RP!NoFile, R!Blank, RP!Blank,
         R!Rec, RP!Rec, R!Objects, RP!Objects, R!NoWork, RP!NoWork
<1>3. QED
  BY <1>1, <1>2 DEF SessionRestore, Waiting, Running

\* The display finds a new queue and the archive of the save.
LEMMA DisplayBegins ==
  ASSUME SInv, LeftInv, SessionRestore, AskForArchinfo
  PROVE  SessionRestore'
<1>1. /\ op \in {"save", "again"} /\ op' = "archinfo" /\ NewQueue
      /\ UNCHANGED <<stop, abort, savevars, restorevars>>
  BY DEF AskForArchinfo
<1>2. OnDisk' = OnDisk /\ ret' = ret
  BY <1>1, DiskStays
<1>3. RP!queue_init'
  BY <1>1 DEF NewQueue, RP!queue_init
<1>4. RP!IdleInit' /\ job' = Archinfo
  BY <1>1 DEF SessionRestore, Waiting, restorevars, RP!IdleInit
<1>5. job' \in RP!Job
  BY <1>4 DEF Archinfo, RP!Job
<1>6. RP!ArchiveOK' /\ (ret' = 0 => RP!Unbroken(OnDisk)')
  <2>1. OnDisk \in Seq(RP!StoredVolume) /\ RP!Restorable(OnDisk)
        /\ (ret = 0 => RP!Unbroken(OnDisk))
    BY SavedRestorable, SameArchive
  <2>2. RP!ArchiveOK /\ (ret = 0 => RP!Unbroken(OnDisk))
    BY <2>1 DEF RP!ArchiveOK
  <2>3. RP!ArchiveOK' <=> RP!ArchiveOK
    BY <1>2 DEF RP!ArchiveOK
  <2>4. RP!Unbroken(OnDisk)' <=> RP!Unbroken(OnDisk)
    BY <1>2
  <2>5. QED
    BY <1>2, <2>2, <2>3, <2>4
<1>7. RP!Fresh'
  BY <1>1, <1>3, <1>4, <1>5, <1>6 DEF SessionRestore, RP!Fresh
<1>8. RP!RestoreInv' /\ (ret' = 0 => RP!CoverInv')
  BY <1>6, <1>7, RestoreBegins, CoverBegins, PTL
<1>9. QED
  BY <1>1, <1>4, <1>8 DEF SessionRestore, Waiting, Running


\* The restore finds a new queue too, and everything in its place as it was: the display
\* was asked for nothing.
LEMMA RestoreStarts ==
  ASSUME LeftInv, SessionRestore, StartRestore
  PROVE  SessionRestore'
<1>1. /\ op = "archinfo" /\ op' = "restore" /\ NewQueue /\ job' \in Jobs
      /\ UNCHANGED <<stop, abort, savevars, disk>>
  BY DEF StartRestore
<1>2. OnDisk' = OnDisk /\ ret' = ret
  BY <1>1, DiskStays
<1>3. RP!RestoreInv /\ job = Archinfo
  BY <1>1 DEF SessionRestore, Running
<1>4. disk = [o \in RP!Objects |-> "old"]
  <2>1. disk \in [RP!Objects -> {"old", "absent", "wrong", "empty", "right"}]
    BY <1>3 DEF RP!RestoreInv, RP!BaseInv, RP!MainTypeOK
  <2>2. \A o \in RP!Objects : disk[o] = "old"
    BY <1>3 DEF RP!RestoreInv, RP!OthersUntouched, RP!Asked, Archinfo
  <2>3. QED
    BY <2>1, <2>2
<1>5. RP!queue_init'
  BY <1>1 DEF NewQueue, RP!queue_init
<1>6. RP!IdleInit'
  BY <1>1, <1>4 DEF StartRestore, RP!IdleInit, R!NoFile, RP!NoFile, Blank, R!Blank, RP!Blank,
     Rec, R!Rec, RP!Rec, R!NoWork, RP!NoWork
<1>7. job' \in RP!Job
  BY <1>1, ConstantsSuit DEF SuitableConstants
<1>8. RP!ArchiveOK' /\ (ret' = 0 => RP!Unbroken(OnDisk)')
  <2>1. RP!ArchiveOK
    BY <1>3 DEF RP!RestoreInv, RP!BaseInv
  <2>2. RP!ArchiveOK'
    BY <1>2, <2>1 DEF RP!ArchiveOK
  <2>3. ret = 0 => RP!Unbroken(OnDisk)
    BY <1>1, SameArchive DEF LeftInv
  <2>4. RP!Unbroken(OnDisk)' <=> RP!Unbroken(OnDisk)
    BY <1>2
  <2>5. QED
    BY <1>2, <2>2, <2>3, <2>4
<1>9. RP!Fresh'
  BY <1>1, <1>5, <1>6, <1>7, <1>8 DEF SessionRestore, RP!Fresh
<1>10. RP!RestoreInv' /\ (ret' = 0 => RP!CoverInv')
  BY <1>8, <1>9, RestoreBegins, CoverBegins, PTL
<1>11. QED
  BY <1>1, <1>10 DEF SessionRestore, Waiting, Running

\* Each kind of step.
LEMMA SessionRestoreStep ==
  SInv /\ LeftInv /\ SessionRestore /\ [SessionNext]_sessionvars => SessionRestore'
<1> SUFFICES ASSUME SInv, LeftInv, SessionRestore, [SessionNext]_sessionvars
             PROVE  SessionRestore'
  OBVIOUS
<1>1. CASE SaveRuns(Next)
  <2>1. Next /\ op \in {"save", "again"} /\ op' = op /\ UNCHANGED restorevars
    BY <1>1 DEF SaveRuns, windowvars
  <2>2. stop' \in BOOLEAN /\ abort' \in BOOLEAN
    BY <2>1, FlagsSet DEF SessionRestore
  <2>3. job' = Archinfo /\ RP!IdleInit'
    BY <2>1 DEF SessionRestore, Waiting, restorevars, RP!IdleInit
  <2>4. QED
    BY <2>1, <2>2, <2>3 DEF SessionRestore, Waiting, Running
<1>2. CASE SaveAgain
  <2>1. /\ op = "save" /\ op' = "again" /\ UNCHANGED <<stop, abort, restorevars>>
    BY <1>2 DEF SaveAgain
  <2>2. job' = Archinfo /\ RP!IdleInit'
    BY <2>1 DEF SessionRestore, Waiting, restorevars, RP!IdleInit
  <2>3. QED
    BY <2>1, <2>2 DEF SessionRestore, Waiting, Running
<1>3. ASSUME op \in {"archinfo", "restore"}, op' = op, UNCHANGED savevars, [RP!Next]_(RP!vars)
      PROVE  SessionRestore'
  <2>1. RP!RestoreInv /\ (ret = 0 => RP!CoverInv) /\ ret' = ret
    BY <1>3, DiskStays DEF SessionRestore, Running
  <2>2. RP!RestoreInv' /\ (ret = 0 => RP!CoverInv')
    BY <1>3, <2>1, RestoreGoesOn, CoverGoesOn
  <2>3. stop' \in BOOLEAN /\ abort' \in BOOLEAN
    BY <2>2 DEF RP!RestoreInv, RP!BaseInv
  <2>4. job' = job
    <3>1. RP!RestoreInv => RP!BaseInv /\ RP!SuitInv
      BY DEF RP!RestoreInv
    <3>2. QED
      BY <1>3, <2>1, <3>1, JobStays
  <2>5. QED
    BY <1>3, <2>1, <2>2, <2>3, <2>4 DEF SessionRestore, Waiting, Running
<1>4. CASE RestoreRuns(R!Next)
  <2>1. op \in {"archinfo", "restore"} /\ op' = op /\ UNCHANGED savevars /\ R!Next
    BY <1>4 DEF RestoreRuns
  <2>2. RP!Next
    BY <2>1, SameNext
  <2>3. QED
    BY <1>3, <2>1, <2>2
<1>5. CASE thread2Ready \/ UNCHANGED sessionvars
  <2>1. UNCHANGED <<qvars, stop, abort, savevars, op, restorevars>>
    BY <1>5 DEF thread2Ready, sessionvars, windowvars
  <2>2. OnDisk' = OnDisk
    BY <2>1, DiskStays
  <2>3. UNCHANGED RP!vars
    BY <2>1, <2>2 DEF restorevars, qvars, RP!vars, RP!qvars, RP!xvars, RP!rvars, RP!dvars
  <2>4. CASE op \in {"archinfo", "restore"}
    BY <1>3, <2>1, <2>3, <2>4
  <2>5. CASE op \in {"save", "again"}
    <3>1. job' = Archinfo /\ RP!IdleInit'
      BY <2>1, <2>5 DEF SessionRestore, Waiting, restorevars, RP!IdleInit
    <3>2. QED
      BY <2>1, <2>5, <3>1 DEF SessionRestore, Waiting, Running
  <2>6. QED
    BY <2>4, <2>5 DEF SInv, FlagReset
<1>6. QED
  BY <1>1, <1>2, <1>4, <1>5, DisplayBegins, RestoreStarts DEF SessionNext

LEMMA SessionRestoreInvariant == SessionSpec => []SessionRestore
BY SInvariant, LeftInit, LeftStep, RestoreInitial, SessionRestoreStep, PTL DEF SessionSpec

\* In every session, whatever failed, was interrupted or damaged in between: when the
\* save and the restore have returned success and no record was found damaged, every
\* object of the archive that was asked for is in place.  Nothing is assumed of the
\* archive: it is the one that the save has left.
THEOREM ComesBack == SessionSpec => []SuccessComesBack
<1>1. ASSUME SInv, SessionRestore
      PROVE  SuccessComesBack
  <2> SUFFICES ASSUME Restored, ret = 0, rret = 0, damaged = {}, NEW o \in R!Due
               PROVE  disk[o] = "right"
    BY DEF SuccessComesBack
  <2>1. RP!SuccessRestoresAll
    BY <1>1, CoverShows DEF SessionRestore, Running, Restored
  <2>2. o \in RP!Due
    BY DEF R!Due, RP!Due, R!Objects, RP!Objects, R!Asked, RP!Asked, R!JobSuits, RP!JobSuits,
           R!IsFS, RP!IsFS, R!InArchive, RP!InArchive, R!ObjectOf, RP!ObjectOf,
           R!DataOf, RP!DataOf, R!FirstLink, RP!FirstLink
  <2>3. QED
    BY <2>1, <2>2 DEF RP!SuccessRestoresAll, Restored
<1>2. QED
  BY <1>1, SInvariant, SessionRestoreInvariant, PTL

-----------------------------------------------------------------------------
(***************************************************************************)
(* What a save that succeeds leaves in the archive is still there when the *)
(* restore reads it.                                                       *)
(***************************************************************************)
Kept(o) ==
  \/ RP!InArchive(o)
  \/ Trees[o[1]][o[2]].kind = "self" \/ BelowUnopened(o[1], o[2])

KeptInv ==
  op \in {"archinfo", "restore"} /\ IsFS /\ ret = 0 /\ Whole => \A o \in RP!Objects : Kept(o)

\* A saved entry has its header in one of the volumes.
LEMMA SavedOnDisk ==
  ASSUME BaseInv, FirstInv, ~unlinked, NamesObjects(OnDisk), NEW f, NEW e, Saved(f, e)
  PROVE  RP!InArchive(<<f, e>>)
<1> DEFINE heads == {p \in Stored(f, e) : data[p].magic = "OBJT"}
<1>1. Cardinality(heads) = 1
  BY DEF Saved
<1>2. heads # {}
  BY <1>1, FS_EmptySet
<1>3. PICK p \in DOMAIN data : /\ data[p].magic = "OBJT" /\ data[p].tree = f
                               /\ \E k \in DOMAIN data[p].objs : data[p].objs[k] = e
  BY <1>2 DEF Stored
<1> HIDE DEF heads
<1>4. PICK a \in Places(OnDisk) : NumberOf(a) = p /\ RecordAt(OnDisk, a) = data[p]
  BY <1>3, PlacesInOrder
<1>5. data[p].objs[1] = e
  <2>1. data[p] \in Record
    BY <1>3, ElementOfSeq, LenProperties DEF BaseInv, ATypeOK
  <2>2. data[p].objs \in Seq(Nat)
    BY <2>1 DEF Record
  <2>3. DOMAIN data[p].objs = 1 .. 1
    BY <1>3, <1>4, <2>2, LenProperties DEF NamesObjects, NamesObject
  <2>4. QED
    BY <1>3, <2>3
<1>6. a[1] \in DOMAIN OnDisk /\ a[2] \in DOMAIN OnDisk[a[1]].recs
  BY DEF Places
<1>7. OnDisk[a[1]].recs[a[2]] = data[p]
  BY <1>4 DEF RecordAt
<1>8. QED
  BY <1>3, <1>5, <1>6, <1>7 DEF RP!InArchive, RP!ObjectOf

\* The display finds everything; a second save has not succeeded.
LEMMA KeptBegins ==
  ASSUME SInv, LeftInv, AskForArchinfo, IsFS, ret = 0, Whole, NEW o \in RP!Objects
  PROVE  Kept(o)
<1>1. op = "save" /\ mpc = "done" /\ ~unlinked
  BY DEF AskForArchinfo, SInv, SecondSave, Whole
<1>2. BaseInv /\ DiskInv /\ StopInv /\ AllInv /\ FirstInv
  BY <1>1 DEF SInv, FirstSave, LeftInv, SaveOrdered
<1>3. ~stop
  BY <1>2 DEF StopInv, Sealed, Whole
<1>4. SuccessSavesAll
  BY <1>2, AllSaved DEF DiskInv
<1>5. /\ o = <<o[1], o[2]>>
      /\ o[1] \in DOMAIN Trees /\ o[2] \in DOMAIN Trees[o[1]]
  BY DEF RP!Objects
<1>6. SavedOrUnopened(o[1], o[2])
  BY <1>1, <1>3, <1>4, <1>5 DEF SuccessSavesAll, SavesAll
<1>7. NamesObjects(OnDisk)
  BY SavedRestorable DEF Restorable
<1>8. Saved(o[1], o[2]) => RP!InArchive(o)
  BY <1>1, <1>2, <1>5, <1>7, SavedOnDisk
<1>9. QED
  BY <1>6, <1>8 DEF SavedOrUnopened, Kept

LEMMA KeptStep == SInv /\ LeftInv /\ KeptInv /\ [SessionNext]_sessionvars => KeptInv'
<1> SUFFICES ASSUME SInv, LeftInv, KeptInv, [SessionNext]_sessionvars,
                    op' \in {"archinfo", "restore"}, IsFS, ret' = 0, Whole',
                    NEW o \in RP!Objects
             PROVE  Kept(o)'
  BY DEF KeptInv
<1>1. AskForArchinfo \/ op \in {"archinfo", "restore"}
  BY DEF SessionNext, SaveRuns, SaveAgain, AskForArchinfo, StartRestore, RestoreRuns,
         thread2Ready, sessionvars, windowvars, SInv, FlagReset
<1>2. UNCHANGED savevars
  BY <1>1 DEF SessionNext, SaveRuns, SaveAgain, AskForArchinfo, StartRestore, RestoreRuns,
         thread2Ready, sessionvars
<1>3. /\ OnDisk' = OnDisk /\ ret = 0 /\ Whole
      /\ \A f, e : BelowUnopened(f, e)' <=> BelowUnopened(f, e)
  BY <1>2, DiskStays DEF savevars, avars, Whole, BelowUnopened, Stored
<1>4. Kept(o)
  BY <1>1, <1>3, KeptBegins DEF KeptInv
<1>5. RP!InArchive(o)' <=> RP!InArchive(o)
  BY <1>3 DEF RP!InArchive, RP!ObjectOf
<1>6. QED
  BY <1>3, <1>4, <1>5 DEF Kept

\* In every session, whatever failed on the way in either of the two: when a save of
\* file systems has returned success with all its volumes written, and a restore of it
\* success without a damaged record, every file that was asked for is in place; but for
\* volumes of the archive itself and what is below a directory that could not be opened.
THEOREM EverythingBack == SessionSpec => []EverythingComesBack
<1>1. ASSUME KeptInv, SuccessComesBack
      PROVE  EverythingComesBack
  <2> SUFFICES ASSUME Restored, IsFS, ret = 0, Whole, rret = 0, damaged = {},
                      NEW o \in R!Objects, R!Asked(o),
                      Trees[o[1]][o[2]].kind # "self", ~BelowUnopened(o[1], o[2])
               PROVE  disk[o] = "right"
    BY DEF EverythingComesBack
  <2>1. RP!InArchive(o)
    BY <1>1 DEF KeptInv, Kept, Restored, R!Objects, RP!Objects
  <2>2. o \in R!Due
    BY <2>1 DEF R!Due, R!InArchive, RP!InArchive, R!ObjectOf, RP!ObjectOf
  <2>3. QED
    BY <1>1, <2>2 DEF SuccessComesBack
<1>2. SessionInit => KeptInv
  BY DEF SessionInit, KeptInv
<1>3. SessionSpec => []LeftInv
  BY SInvariant, LeftInit, LeftStep, PTL DEF SessionSpec
<1>4. QED
  BY <1>1, <1>2, <1>3, SInvariant, KeptStep, ComesBack, PTL DEF SessionSpec
=============================================================================
