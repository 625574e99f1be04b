-------------------------- MODULE SaveFormat_proofs --------------------------
(***************************************************************************)
(* What a save operation has put into the archive, for any trees, threads, *)
(* limits and faults: the records are in an order in which they can be     *)
(* read, and in the order on which a restore relies.                       *)
(***************************************************************************)
EXTENDS SaveArchive_proofs

(***************************************************************************)
(* What can be read of the archive.  The records that the main thread has  *)
(* queued, whether they are stored by now or pending, are in the order in  *)
(* which it has produced them; where it is in its loops says how they end. *)
(***************************************************************************)
Sent == Written(data) \o InFlight

Busy == mpc \notin {"cleanup", "join", "done"}

Walking ==
  mpc \in {"walk", "objt", "file", "block", "filf", "enqueue", "putaside", "flush", "endtree"}

InFile == mpc \in {"file", "block", "filf"}

Flushing == mpc \in {"enqueue", "flush"}

\* The archive begins with its main header.
BeginOK ==
  /\ mpc \in {"start", "mainhead"} => Sent = <<>>
  /\ Busy /\ mpc \notin {"start", "mainhead"} => Sent # <<>> /\ Sent[1].magic = "MAIN"

\* Objects of the trees before this one and of the part of it that is behind, but
\* not those that are put aside.
ObjectsOK ==
  Busy =>
    \A p \in DOMAIN Sent : Sent[p].magic = "OBJT" =>
      /\ mpc # "analyse"
      /\ Sent[p].tree <= tree
      /\ Sent[p].tree = tree =>
           /\ Walking
           /\ Sent[p].objs[1] \in Nat
           /\ Sent[p].objs[1] < entry \/ (Sent[p].objs[1] = entry /\ InFile)
           /\ \A k \in DOMAIN multi : multi[k] = Sent[p].objs[1] => Flushing /\ k <= pos

\* The ends of the trees before this one.
EndsOK ==
  Busy => \A p \in DOMAIN Sent : Sent[p].magic = "DATF" => mpc # "analyse" /\ Sent[p].tree < tree

BeginFSOK ==
  IsFS /\ Walking => \E p \in DOMAIN Sent : Sent[p].magic = "FSYB" /\ Sent[p].tree = tree

\* The small files put aside are in order, and behind.
AsideOK ==
  /\ ~Walking \/ mpc \in {"putaside", "endtree"} => multi = <<>> \/ ~Busy
  /\ Walking => \A k \in DOMAIN multi : /\ multi[k] \in DOMAIN Trees[tree]
                                       /\ Trees[tree][multi[k]].kind = "multi"
                                       /\ multi[k] < entry
  /\ \A k, l \in DOMAIN multi : k < l => multi[k] < multi[l]

\* The headers of a group, while they are queued.
GroupOK ==
  Flushing =>
    /\ pos <= Len(multi) /\ pos <= Len(Sent)
    /\ \A k \in 1 .. pos : LET r == Sent[Len(Sent) - pos + k]
                           IN  r.magic = "OBJT" /\ r.tree = tree /\ r.objs = <<multi[k]>>

\* The file that is being read.
FileOK ==
  /\ mpc = "fsyb" => entry = 1
  /\ mpc = "walk" /\ entry > 1 => pos = 0
  /\ mpc \in {"enqueue", "putaside"} => This.kind = "multi"
  /\ mpc = "objt" => This.kind # "multi" /\ (This.kind \in {"unique", "self"} => pos = 0)
  /\ InFile =>
       /\ This.kind \in {"unique", "self"}
       /\ Sent # <<>>
       /\ LET r == Sent[Len(Sent)]
          IN  /\ r.tree = tree /\ r.objs = <<entry>>
              /\ IF pos = 0 THEN r.magic = "OBJT" ELSE r.magic = "BLKH" /\ r.off = pos - 1
       /\ pos <= Blocks
       /\ mpc = "block" => pos < Blocks
       /\ mpc = "filf" => pos > 0 /\ pos = Blocks

Grammar ==
  BeginOK /\ ObjectsOK /\ EndsOK /\ BeginFSOK /\ AsideOK /\ GroupOK /\ FileOK

GramInv ==
  /\ WellFormed(Written(data))
  /\ ~Broken => WellFormed(Sent) /\ Grammar

-----------------------------------------------------------------------------
\* What InPlace looks at.
Says(a, b) == a.magic = b.magic /\ a.tree = b.tree /\ a.objs = b.objs /\ a.off = b.off

LEMMA InPlaceSame ==
  ASSUME NEW s, NEW t, NEW p \in Nat \ {0}, \A q \in 1 .. p : Says(s[q], t[q]),
         Len(s[p].objs) \in Nat, InPlace(s, p)
  PROVE  InPlace(t, p)
<1> DEFINE r == s[p]
           u == t[p]
<1>1. /\ r.magic = u.magic /\ r.tree = u.tree /\ r.objs = u.objs /\ r.off = u.off
      /\ KindAt(r) = KindAt(u) /\ BlocksAt(r) = BlocksAt(u)
  BY DEF Says, KindAt, BlocksAt
<1>2. p > 1 => /\ Says(s[p - 1], t[p - 1])
               /\ SameObject(s[p - 1], r) <=> SameObject(t[p - 1], u)
  BY <1>1 DEF Says, SameObject
<1>3. CASE r.magic = "BLKH" /\ KindAt(r) # "multi"
  BY <1>1, <1>2, <1>3 DEF InPlace, Says
<1>4. CASE r.magic = "BLKH" /\ KindAt(r) = "multi"
  <2> DEFINE n == Len(r.objs)
  <2>1. /\ p > n /\ n \in Nat
        /\ \A k \in 1 .. n : /\ s[p - n + k - 1].magic = "OBJT"
                             /\ s[p - n + k - 1].tree = r.tree
                             /\ s[p - n + k - 1].objs = <<r.objs[k]>>
    BY <1>4 DEF InPlace
  <2>2. \A k \in 1 .. n : p - n + k - 1 \in 1 .. p
    BY <2>1
  <2>3. QED
    BY <1>1, <1>4, <2>1, <2>2 DEF InPlace, Says
<1>5. CASE r.magic = "OBJT"
  BY <1>1, <1>5 DEF InPlace, Says, SameObject
<1>6. CASE r.magic = "FILF"
  BY <1>1, <1>2, <1>6 DEF InPlace, Says
<1>7. CASE r.magic \notin {"BLKH", "OBJT", "FILF"}
  <2>1. Says(s[1], t[1])
    OBVIOUS
  <2>2. QED
    BY <1>1, <1>7, <2>1 DEF InPlace, Says
<1>8. QED
  BY <1>3, <1>4, <1>5, <1>6, <1>7

LEMMA SaysType ==
  ASSUME NEW s \in Seq(Record), NEW p \in 1 .. Len(s)
  PROVE  s[p] \in Record /\ Len(s[p].objs) \in Nat
<1>1. s[p] \in Record
  BY ElementOfSeq
<1>2. s[p].objs \in Seq(Nat)
  BY <1>1 DEF Record
<1>3. QED
  BY <1>1, <1>2, LenProperties

LEMMA FormedAppend ==
  ASSUME NEW s \in Seq(Record), WellFormed(s), NEW r \in Record,
         InPlace(Append(s, r), Len(s) + 1)
  PROVE  WellFormed(Append(s, r))
<1> DEFINE t == Append(s, r)
<1>1. /\ t \in Seq(Record) /\ Len(t) = Len(s) + 1 /\ DOMAIN t = 1 .. Len(t)
      /\ Len(s) \in Nat /\ DOMAIN s = 1 .. Len(s)
      /\ \A i \in 1 .. Len(s) : t[i] = s[i]
  BY AppendProperties, LenProperties
<1> HIDE DEF t
<1>2. ASSUME NEW p \in 1 .. Len(s)
      PROVE  InPlace(t, p)
  <2>1. InPlace(s, p)
    BY <1>1 DEF WellFormed
  <2>2. \A q \in 1 .. p : Says(s[q], t[q])
    BY <1>1 DEF Says
  <2>3. Len(s[p].objs) \in Nat /\ p \in Nat \ {0}
    BY <1>1, SaysType
  <2>4. QED
    BY <2>1, <2>2, <2>3, InPlaceSame
<1>3. \A p \in DOMAIN t : p \in 1 .. Len(s) \/ p = Len(s) + 1
  BY <1>1
<1>4. QED
  BY <1>2, <1>3 DEF WellFormed, t

LEMMA FormedPrefix ==
  ASSUME NEW s \in Seq(Record), NEW t \in Seq(Record), WellFormed(t), Len(s) <= Len(t),
         \A i \in 1 .. Len(s) : Says(t[i], s[i])
  PROVE  WellFormed(s)
<1>1. /\ Len(s) \in Nat /\ DOMAIN s = 1 .. Len(s)
      /\ Len(t) \in Nat /\ DOMAIN t = 1 .. Len(t)
  BY LenProperties
<1>2. ASSUME NEW p \in 1 .. Len(s)
      PROVE  InPlace(s, p)
  <2>1. p \in 1 .. Len(t)
    BY <1>1
  <2>2. InPlace(t, p)
    BY <1>1, <2>1 DEF WellFormed
  <2>3. \A q \in 1 .. p : Says(t[q], s[q])
    BY <1>1
  <2>4. Len(t[p].objs) \in Nat /\ p \in Nat \ {0}
    BY <2>1, SaysType
  <2>5. QED
    BY <2>2, <2>3, <2>4, InPlaceSame
<1>3. QED
  BY <1>1, <1>2 DEF WellFormed

-----------------------------------------------------------------------------
LEMMA SentType ==
  ASSUME BaseInv
  PROVE  Sent \in Seq(Record) /\ Written(data) \in Seq(Record)
BY HeldType, WrittenType, ConcatProperties DEF Sent

\* The main thread leaves the archive and what the writer holds alone.
LEMMA MainAside ==
  ASSUME BaseInv, EndInv, MainStep
  PROVE  /\ UNCHANGED <<data, vols, stop>> /\ Held' = Held /\ Written(data)' = Written(data)
         /\ Broken' <=> Broken
         /\ Sealed' <=> Sealed
<1>1. /\ UNCHANGED <<data, vols, stop, witem>>
      /\ wpc' = wpc \/ (wpc = "none" /\ wpc' \in {"none", "create"})
  <2>1. UNCHANGED <<data, vols, witem>>
    BY MainOthers
  <2>2. UNCHANGED stop /\ (MStart \/ wpc' = wpc)
    BY MainArchive DEF wvars
  <2>3. MStart => wpc = "none" /\ wpc' \in {"none", "create"}
    BY DEF MStart, MGoto, MFail, EndInv
  <2>4. QED
    BY <2>1, <2>2, <2>3
<1>2. QED
  BY <1>1 DEF Broken, Sealed, Held, WriterHolds, Written

LEMMA SentSame ==
  ASSUME BaseInv, EndInv, MainStep, list' = list
  PROVE  Sent' = Sent
<1>1. Held' = Held /\ Written(data)' = Written(data) /\ Queued(list)' = Queued(list)
  BY MainAside DEF Queued
<1>2. QED
  BY <1>1, Mapping DEF Sent

LEMMA SentMore ==
  ASSUME BaseInv, EndInv, MainStep, NEW v \in Record, ~v.packed,
         queue_add_header(v) \/ queue_add_block(v, "todo")
  PROVE  Sent' = Append(Sent, v)
<1>1. Unpack(v) = v
  BY DEF Unpack, Record
<1>2. ASSUME NEW t \in {"block", "header"}, NEW st \in {"todo", "done"}, AppendItem(t, st, v)
      PROVE  Queued(list)' = Append(Queued(list), v)
  <2> DEFINE e == [num |-> curitemnum, type |-> t, status |-> st, val |-> v]
  <2>1. e \in Item(Record) /\ e.val = v
    BY DEF Item, BaseInv, QInv, QTypeOK
  <2>2. list' = Append(list, e)
    BY <1>2 DEF AppendItem
  <2> HIDE DEF e
  <2>3. Queued(list)' = Queued(list')
    BY DEF Queued
  <2>4. QED
    BY <1>1, <2>1, <2>2, <2>3, HeldType, QueuedAppend
<1>3. Queued(list)' = Append(Queued(list), v)
  BY <1>2 DEF queue_add_header, queue_add_block
<1>4. InFlight' = Append(InFlight, v)
  BY <1>3, MainAside, HeldType, Mapping, AppendBehind
<1>5. Written(data) \o Append(InFlight, v) = Append(Written(data) \o InFlight, v)
  BY HeldType, SentType, AppendBehind
<1>6. QED
  BY <1>4, <1>5, MainAside DEF Sent

-----------------------------------------------------------------------------
LEMMA GrammarTypes ==
  ASSUME BaseInv
  PROVE  /\ tree \in Nat \ {0} /\ entry \in Nat \ {0} /\ pos \in Nat /\ multi \in Seq(Nat)
         /\ Len(multi) \in Nat /\ DOMAIN multi = 1 .. Len(multi)
         /\ \A k \in DOMAIN multi : multi[k] \in Nat
         /\ Sent \in Seq(Record) /\ Len(Sent) \in Nat /\ DOMAIN Sent = 1 .. Len(Sent)
         /\ \A p \in DOMAIN Sent : Sent[p] \in Record /\ Sent[p].tree \in Nat
<1>1. /\ tree \in Nat \ {0} /\ entry \in Nat \ {0} /\ pos \in Nat /\ multi \in Seq(Nat)
  BY DEF BaseInv, MainTypeOK
<1>2. /\ Len(multi) \in Nat /\ DOMAIN multi = 1 .. Len(multi)
      /\ \A k \in DOMAIN multi : multi[k] \in Nat
  BY <1>1, LenProperties, ElementOfSeq
<1>3. Sent \in Seq(Record) /\ Len(Sent) \in Nat /\ DOMAIN Sent = 1 .. Len(Sent)
  BY SentType, LenProperties
<1>4. \A p \in DOMAIN Sent : Sent[p] \in Record
  BY <1>3, ElementOfSeq
<1>5. QED
  BY <1>1, <1>2, <1>3, <1>4 DEF Record

\* A step from one entry to the same one or to one behind it.
LEMMA GrammarMoves ==
  ASSUME BaseInv, Grammar, Sent' = Sent, UNCHANGED <<tree, multi>>,
         mpc \in {"walk", "objt", "file", "block", "filf", "putaside"},
         mpc' \in {"walk", "objt", "file", "block", "filf", "enqueue", "flush"},
         entry' \in Nat,
         entry' > entry \/ (entry' = entry /\ (InFile => InFile')),
         Flushing' => pos' = 0,
         FileOK'
  PROVE  Grammar'
<1> USE GrammarTypes DEF Grammar, Busy, Walking
<1>1. BeginOK'
  BY DEF BeginOK
<1>2. ObjectsOK'
  <2> SUFFICES ASSUME NEW p \in DOMAIN Sent, Sent[p].magic = "OBJT", Sent[p].tree = tree
               PROVE  /\ Sent[p].objs[1] \in Nat
                      /\ Sent[p].objs[1] < entry' \/ (Sent[p].objs[1] = entry' /\ InFile')
                      /\ \A k \in DOMAIN multi : multi[k] # Sent[p].objs[1]
    BY DEF ObjectsOK
  <2>1. /\ Sent[p].objs[1] \in Nat
        /\ Sent[p].objs[1] < entry \/ (Sent[p].objs[1] = entry /\ InFile)
        /\ \A k \in DOMAIN multi : multi[k] # Sent[p].objs[1]
    BY DEF ObjectsOK, Flushing
  <2>2. QED
    BY <2>1
<1>3. EndsOK' /\ BeginFSOK'
  BY DEF EndsOK, BeginFSOK
<1>4. AsideOK'
  BY DEF AsideOK
<1>5. GroupOK'
  BY DEF GroupOK, Flushing
<1>6. QED
  BY <1>1, <1>2, <1>3, <1>4, <1>5

\* A step to another place in the loop over the trees.
LEMMA GrammarLeaves ==
  ASSUME BaseInv, Grammar, Sent' = Sent, UNCHANGED multi,
         mpc \in {"trees", "endtree", "analyse"}, mpc' \in {"trees", "fsyb", "datf", "final"},
         mpc' = "fsyb" => entry' = 1,
         \/ tree' = tree /\ mpc = "trees"
         \/ tree' = tree + 1 /\ mpc = "endtree"
         \/ tree' = 1 /\ mpc = "analyse"
  PROVE  Grammar'
<1> USE GrammarTypes DEF Grammar, Busy, Walking
<1>1. BeginOK'
  BY DEF BeginOK
<1>2. ObjectsOK' /\ EndsOK'
  BY DEF ObjectsOK, EndsOK
<1>3. BeginFSOK' /\ AsideOK' /\ GroupOK' /\ FileOK'
  BY DEF BeginFSOK, AsideOK, GroupOK, FileOK, Flushing, InFile
<1>4. QED
  BY <1>1, <1>2, <1>3

\* A small file is put aside.
LEMMA GrammarAside ==
  ASSUME BaseInv, Grammar, Sent' = Sent, UNCHANGED tree,
         mpc \in {"walk", "putaside"}, mpc' = "walk", This.kind = "multi",
         entry \in DOMAIN Trees[tree],
         multi' = Append(multi, entry), entry' = entry + 1, pos' = 0
  PROVE  Grammar'
<1> USE GrammarTypes DEF Grammar, Busy, Walking
<1>0. /\ DOMAIN multi' = 1 .. Len(multi) + 1
      /\ \A k \in DOMAIN multi : multi'[k] = multi[k]
      /\ multi'[Len(multi) + 1] = entry
      /\ \A k \in DOMAIN multi' : k \in DOMAIN multi \/ k = Len(multi) + 1
  <2>1. Len(multi') = Len(multi) + 1 /\ DOMAIN multi' = 1 .. Len(multi')
    BY AppendProperties, LenProperties
  <2>2. QED
    BY <2>1, AppendProperties
<1>1. BeginOK'
  BY DEF BeginOK
<1>2. ObjectsOK'
  <2> SUFFICES ASSUME NEW p \in DOMAIN Sent, Sent[p].magic = "OBJT", Sent[p].tree = tree
               PROVE  /\ Sent[p].objs[1] \in Nat
                      /\ Sent[p].objs[1] < entry'
                      /\ \A k \in DOMAIN multi' : multi'[k] # Sent[p].objs[1]
    BY DEF ObjectsOK
  <2>1. /\ Sent[p].objs[1] \in Nat
        /\ Sent[p].objs[1] < entry
        /\ \A k \in DOMAIN multi : multi[k] # Sent[p].objs[1]
    BY DEF ObjectsOK, Flushing, InFile
  <2>2. QED
    BY <1>0, <2>1
<1>3. EndsOK' /\ BeginFSOK'
  BY DEF EndsOK, BeginFSOK
<1>4. AsideOK'
  <2>1. \A k \in DOMAIN multi' : /\ multi'[k] \in DOMAIN Trees[tree]
                                 /\ Trees[tree][multi'[k]].kind = "multi"
                                 /\ multi'[k] < entry'
    BY <1>0 DEF AsideOK, This
  <2>2. \A k, l \in DOMAIN multi' : k < l => multi'[k] < multi'[l]
    BY <1>0 DEF AsideOK
  <2>3. QED
    BY <2>1, <2>2 DEF AsideOK
<1>5. GroupOK' /\ FileOK'
  BY DEF GroupOK, FileOK, Flushing, InFile
<1>6. QED
  BY <1>1, <1>2, <1>3, <1>4, <1>5

\* A step to the end of the operation.
LEMMA GrammarEnds ==
  ASSUME BaseInv, Grammar, UNCHANGED multi, mpc' \in {"cleanup", "join", "done"}
  PROVE  Grammar'
BY DEF Grammar, Busy, Walking, BeginOK, ObjectsOK, EndsOK, BeginFSOK, AsideOK, GroupOK, FileOK,
       Flushing, InFile

\* Steps of the main thread that queue nothing.
LEMMA GrammarQuiet ==
  ASSUME BaseInv, Grammar, Sent' = Sent,
         \/ MStart \/ MAnalyseFails \/ (MAnalyse /\ mpc' = "trees" /\ tree' = 1)
         \/ MNextTree \/ MEndDir
         \/ MWalkEnds \/ MStatFails \/ MOpendirFails \/ MEntryUnreadable \/ MPassSelf \/ MVisit
         \/ MReadBlock \/ MReadFails \/ MFileInterrupted \/ MFileRead \/ MSmallFile \/ MPutAside
         \/ (MEnqueueBlock /\ multi = <<>>)
         \/ MFinal \/ MSetEndOfQueue \/ MJoin
  PROVE  Grammar'
<1> USE GrammarTypes DEF MGoto, MFail, NextEntry
<1>1. CASE MAnalyseFails \/ MFinal \/ MSetEndOfQueue \/ MJoin
  BY <1>1, GrammarEnds DEF MAnalyseFails, MFinal, MSetEndOfQueue, MJoin
<1>2. CASE MStart
  <2>1. CASE mpc' = "cleanup"
    BY <1>2, <2>1, GrammarEnds DEF MStart
  <2>2. CASE mpc' = "mainhead"
    BY <1>2, <2>2 DEF MStart, Grammar, Busy, Walking, BeginOK, ObjectsOK, EndsOK, BeginFSOK,
       AsideOK, GroupOK, FileOK, Flushing, InFile
  <2>3. QED
    BY <1>2, <2>1, <2>2 DEF MStart
<1>3. CASE MAnalyse /\ mpc' = "trees" /\ tree' = 1
  BY <1>3, GrammarLeaves DEF MAnalyse
<1>4. CASE MEndDir
  BY <1>4, GrammarLeaves DEF MEndDir
<1>5. CASE MNextTree
  <2>1. CASE mpc' = "walk"
    BY <1>5, <2>1 DEF MNextTree, Grammar, Busy, Walking, BeginOK, ObjectsOK, EndsOK, BeginFSOK,
       AsideOK, GroupOK, FileOK, Flushing, InFile
  <2>2. CASE mpc' # "walk"
    BY <1>5, <2>2, GrammarLeaves DEF MNextTree
  <2>3. QED
    BY <2>1, <2>2
\* A step that goes on to the next entry, or leaves the walk.
<1>6. ASSUME (mpc' = "walk" /\ pos' = 0) \/ mpc' = "flush"
      PROVE  FileOK'
  BY <1>6 DEF FileOK, InFile
<1>7. CASE MWalkEnds \/ MStatFails
  BY <1>6, <1>7, GrammarMoves DEF MWalkEnds, MStatFails, Visiting, InFile
<1>8. CASE MOpendirFails
  <2>1. This.size \in Nat
    BY <1>8, ThisType DEF MOpendirFails, Visiting, BaseInv, InTree
  <2>2. QED
    BY <1>6, <1>8, <2>1, GrammarMoves DEF MOpendirFails, Visiting, Flushing
<1>9. CASE MEntryUnreadable \/ MPassSelf \/ MReadFails \/ MFileInterrupted
  BY <1>6, <1>9, GrammarMoves
  DEF MEntryUnreadable, MPassSelf, MReadFails, MFileInterrupted, Visiting, Flushing
<1>10. CASE MVisit
  <2>1. entry = 1 => This.kind = "dir"
    BY <1>10, SaveAssumption DEF MVisit, Visiting, This, BaseInv, InTree
  <2>2. mpc = "walk" /\ mpc' = "objt" /\ UNCHANGED <<tree, entry, pos, multi>>
    BY <1>10 DEF MVisit, Visiting
  <2>3. This' = This /\ This.kind \in {"dir", "meta", "link", "unique", "self"}
    BY <1>10, <2>2 DEF MVisit, Visiting, This
  <2>4. FileOK'
    BY <2>1, <2>2, <2>3 DEF Grammar, FileOK, InFile
  <2>5. QED
    BY <2>2, <2>4, GrammarMoves DEF InFile, Flushing
<1>11. CASE MReadBlock \/ MFileRead
  <2>1. CASE mpc' = "walk"
    BY <1>6, <1>11, <2>1, GrammarMoves DEF MReadBlock, MFileRead, Flushing
  <2>2. CASE mpc' # "walk"
    <3>1. /\ mpc = "file" /\ UNCHANGED <<tree, entry, pos, multi>>
          /\ \/ mpc' = "block" /\ pos < Blocks
             \/ mpc' = "filf" /\ pos >= Blocks /\ Blocks > 0
      BY <1>11, <2>2 DEF MReadBlock, MFileRead
    <3>2. This' = This /\ Blocks' = Blocks
      BY <3>1 DEF This, Blocks
    <3>3. Blocks \in Nat
      BY <3>1, ThisType DEF BaseInv, InTree, InEntry
    <3>4. FileOK'
      BY <3>1, <3>2, <3>3 DEF Grammar, FileOK, InFile
    <3>5. QED
      BY <3>1, <3>4, GrammarMoves DEF InFile, Flushing
  <2>3. QED
    BY <2>1, <2>2
<1>12. CASE MSmallFile
  <2>1. /\ mpc = "walk" /\ This.kind = "multi" /\ UNCHANGED tree
        /\ entry \in DOMAIN Trees[tree]
    <3>1. entry \in 1 .. Len(Trees[tree])
      BY <1>12 DEF MSmallFile, Visiting
    <3>2. DOMAIN Trees[tree] = 1 .. Len(Trees[tree])
      BY <1>12, TreesType DEF MSmallFile, Visiting, BaseInv, InTree
    <3>3. QED
      BY <1>12, <3>1, <3>2 DEF MSmallFile, Visiting
  <2>2. CASE RoomForSmallFile
    BY <1>12, <2>1, <2>2, GrammarAside DEF MSmallFile, regmulti_save_addfile
  <2>3. CASE ~RoomForSmallFile
    <3>1. mpc' = "enqueue" /\ pos' = 0 /\ UNCHANGED <<entry, multi>>
      BY <1>12, <2>3 DEF MSmallFile
    <3>2. This' = This
      BY <2>1, <3>1 DEF This
    <3>3. FileOK'
      BY <2>1, <3>1, <3>2 DEF FileOK, InFile
    <3>4. QED
      BY <2>1, <3>1, <3>3, GrammarMoves DEF InFile
  <2>4. QED
    BY <2>2, <2>3
<1>13. CASE MPutAside
  <2>1. mpc = "putaside" /\ This.kind = "multi" /\ UNCHANGED tree /\ entry \in DOMAIN Trees[tree]
    BY <1>13 DEF MPutAside, Grammar, FileOK, BaseInv, InEntry
  <2>2. CASE RoomForSmallFile
    BY <1>13, <2>1, <2>2, GrammarAside DEF MPutAside, regmulti_save_addfile
  <2>3. CASE ~RoomForSmallFile
    <3>1. mpc' = "walk" /\ pos' = 0 /\ entry' = entry + 1 /\ UNCHANGED multi
      BY <1>13, <2>3 DEF MPutAside
    <3>2. FileOK'
      BY <1>6, <3>1
    <3>3. QED
      BY <2>1, <3>1, <3>2, GrammarMoves DEF Flushing
  <2>4. QED
    BY <2>2, <2>3
<1>14. CASE MEnqueueBlock /\ multi = <<>>
  <2>1. /\ Flushing /\ multi' = multi /\ UNCHANGED <<tree, entry, pos>>
        /\ \/ mpc = "enqueue" /\ mpc' = "putaside"
           \/ mpc = "flush" /\ mpc' = "endtree"
    BY <1>14 DEF MEnqueueBlock, Flushing
  <2>2. multi = <<>> /\ DOMAIN multi = {}
    BY <1>14, EmptySeq
  <2>3. This' = This
    BY <2>1 DEF This
  <2>4. /\ BeginOK' /\ ObjectsOK' /\ EndsOK' /\ BeginFSOK'
    BY <2>1, <2>2 DEF Grammar, Busy, Walking, BeginOK, ObjectsOK, EndsOK, BeginFSOK, InFile, Flushing
  <2>5. AsideOK' /\ GroupOK' /\ FileOK'
    BY <2>1, <2>2, <2>3 DEF Grammar, Walking, AsideOK, GroupOK, FileOK, InFile, Flushing
  <2>6. QED
    BY <2>4, <2>5 DEF Grammar
<1>15. QED
  BY <1>1, <1>2, <1>3, <1>4, <1>5, <1>7, <1>8, <1>9, <1>10, <1>11, <1>12, <1>13, <1>14

-----------------------------------------------------------------------------
\* A record more.
LEMMA Added ==
  ASSUME BaseInv, NEW r \in Record, Sent' = Append(Sent, r)
  PROVE  /\ Len(Sent') = Len(Sent) + 1 /\ DOMAIN Sent' = 1 .. Len(Sent) + 1 /\ Sent' # <<>>
         /\ \A p \in DOMAIN Sent : Sent'[p] = Sent[p]
         /\ Sent'[Len(Sent) + 1] = r
         /\ \A p \in DOMAIN Sent' : p \in DOMAIN Sent \/ p = Len(Sent) + 1
<1>1. Sent \in Seq(Record) /\ Len(Sent) \in Nat /\ DOMAIN Sent = 1 .. Len(Sent)
  BY GrammarTypes
<1> DEFINE s == Append(Sent, r)
<1>2. /\ s \in Seq(Record) /\ Len(s) = Len(Sent) + 1 /\ DOMAIN s = 1 .. Len(s)
      /\ \A p \in 1 .. Len(Sent) : s[p] = Sent[p]
      /\ s[Len(Sent) + 1] = r
  BY <1>1, AppendProperties, LenProperties
<1>3. s # <<>>
  BY <1>1, <1>2, EmptySeq
<1> HIDE DEF s
<1>4. Sent' = s
  BY DEF s
<1>5. QED
  BY <1>1, <1>2, <1>3, <1>4

LEMMA FormedMore ==
  ASSUME BaseInv, WellFormed(Sent), NEW r \in Record, Sent' = Append(Sent, r),
         InPlace(Sent', Len(Sent) + 1)
  PROVE  WellFormed(Sent')
BY SentType, FormedAppend

\* The headers of the archive and of its parts.
LEMMA PartFormed ==
  ASSUME BaseInv, WellFormed(Sent), NEW r \in Record, Sent' = Append(Sent, r),
         Sent # <<>>, Sent[1].magic = "MAIN",
         r.magic \notin {"MAIN", "BLKH", "OBJT", "FILF"}
  PROVE  WellFormed(Sent') /\ Sent'[1].magic = "MAIN"
<1>1. Len(Sent) \in Nat \ {0} /\ 1 \in DOMAIN Sent
  BY GrammarTypes, EmptySeq
<1>2. /\ Sent'[1].magic = "MAIN"
      /\ Sent'[Len(Sent) + 1] = r
      /\ Len(Sent) + 1 > 1
  BY <1>1, Added
<1>3. InPlace(Sent', Len(Sent) + 1)
  BY <1>2 DEF InPlace
<1>4. QED
  BY <1>2, <1>3, FormedMore

LEMMA GrammarPart ==
  ASSUME BaseInv, EndInv, WellFormed(Sent), Grammar,
         MWriteMainHead \/ MAnalyse \/ MBeginFS \/ MEndFS \/ MEndDirs
  PROVE  WellFormed(Sent') /\ Grammar'
<1> USE GrammarTypes DEF MGoto, MFail
<1>1. MainStep
  BY DEF MainStep
<1>2. ASSUME NEW m \in Magic, m # "BLKH", NEW f \in Nat, NEW k \in Nat,
             queue_add_header(Rec(m, f, <<>>, k))
      PROVE  /\ Sent' = Append(Sent, Rec(m, f, <<>>, k)) /\ Rec(m, f, <<>>, k) \in Record
             /\ Rec(m, f, <<>>, k).magic = m /\ Rec(m, f, <<>>, k).tree = f
  <2>1. /\ Rec(m, f, <<>>, k) \in Record /\ ~Rec(m, f, <<>>, k).packed
        /\ Rec(m, f, <<>>, k).magic = m /\ Rec(m, f, <<>>, k).tree = f
    BY EmptySeq, RecType DEF Rec
  <2>2. QED
    BY <1>1, <1>2, <2>1, SentMore
<1>3. /\ Magic = {"MAIN", "FSIN", "DIRS", "FSYB", "OBJT", "BLKH", "FILF", "DATF"}
      /\ \A m, f, k : Rec(m, f, <<>>, k).magic = m /\ Rec(m, f, <<>>, k).tree = f
  BY DEF Magic, Rec
<1>4. CASE MWriteMainHead
  <2> DEFINE r == Rec("MAIN", 0, <<>>, 0)
  <2>1. /\ mpc = "mainhead" /\ mpc' = "analyse" /\ tree' = 1
        /\ UNCHANGED <<entry, pos, multi>>
    BY <1>4 DEF MWriteMainHead
  <2>2. Sent' = Append(Sent, r) /\ r \in Record /\ r.magic = "MAIN"
    <3>1. r \in Record
      BY BlankType DEF Blank
    <3>2. r \in Record /\ ~r.packed /\ r.magic = "MAIN"
      BY <3>1 DEF Rec
    <3>3. queue_add_header(r)
      BY <1>4 DEF MWriteMainHead
    <3> HIDE DEF r
    <3>4. QED
      BY <1>1, <3>2, <3>3, SentMore
  <2> HIDE DEF r
  <2>3. Len(Sent) = 0 /\ DOMAIN Sent = {}
    BY <2>1, EmptySeq DEF Grammar, BeginOK
  <2>4. /\ DOMAIN Sent' = {1} /\ Sent'[1] = r /\ Sent' # <<>>
    BY <2>2, <2>3, Added
  <2>5. WellFormed(Sent')
    BY <2>2, <2>4 DEF WellFormed, InPlace
  <2>6. BeginOK' /\ ObjectsOK' /\ EndsOK'
    BY <2>1, <2>2, <2>4 DEF BeginOK, ObjectsOK, EndsOK
  <2>7. BeginFSOK' /\ AsideOK' /\ GroupOK' /\ FileOK'
    BY <2>1 DEF Grammar, BeginFSOK, AsideOK, GroupOK, FileOK, Walking, Flushing, InFile, Busy
  <2>8. QED
    BY <2>5, <2>6, <2>7 DEF Grammar
\* The others leave the objects as they are.
<1>5. ASSUME NEW m \in {"FSIN", "DIRS", "FSYB", "DATF"}, NEW f \in Nat, NEW k \in Nat,
             Sent' = Append(Sent, Rec(m, f, <<>>, k)), UNCHANGED multi,
             Busy, mpc \notin {"start", "mainhead"},
             \/ mpc' = "analyse" /\ mpc = "analyse" /\ m = "FSIN"
             \/ mpc' = "trees" /\ mpc = "analyse" /\ m = "DIRS"
             \/ mpc' = "walk" /\ mpc = "fsyb" /\ m = "FSYB" /\ f = tree
                  /\ UNCHANGED <<tree, entry, pos>>
             \/ mpc' = "trees" /\ mpc = "endtree" /\ m = "DATF" /\ f = tree /\ tree' = tree + 1
             \/ mpc' = "final" /\ mpc = "datf" /\ m = "DATF" /\ f = 0 /\ tree' = tree
             \/ mpc' = "cleanup"
      PROVE  WellFormed(Sent') /\ Grammar'
  <2> DEFINE r == Rec(m, f, <<>>, k)
  <2>1. r.magic = m /\ r.tree = f /\ r \in Record
    <3>1. m \in Magic /\ <<>> \in Seq(Nat)
      BY <1>3, EmptySeq
    <3>2. Rec(m, f, <<>>, k) \in Record
      BY <3>1, RecType
    <3>3. QED
      BY <1>3, <3>2
  <2>2. Sent' = Append(Sent, r)
    BY <1>5
  <2> HIDE DEF r
  <2>3. Sent # <<>> /\ Sent[1].magic = "MAIN"
    BY <1>5 DEF Grammar, BeginOK
  <2>4. WellFormed(Sent') /\ Sent'[1].magic = "MAIN"
    BY <2>1, <2>2, <2>3, PartFormed
  <2>5. CASE mpc' = "cleanup"
    BY <1>5, <2>4, <2>5, GrammarEnds
  <2>6. CASE mpc' # "cleanup"
    <3>1. Len(Sent) + 1 \in DOMAIN Sent' /\ Sent' # <<>>
      BY <2>1, <2>2, Added
    <3>2. BeginOK'
      BY <1>5, <2>4, <3>1 DEF BeginOK
    <3>3. \A p \in DOMAIN Sent' : Sent'[p].magic = "OBJT" => p \in DOMAIN Sent /\ Sent'[p] = Sent[p]
      BY <2>1, <2>2, Added
    <3>4. ObjectsOK'
      <4> SUFFICES ASSUME Busy', NEW p \in DOMAIN Sent', Sent'[p].magic = "OBJT"
                   PROVE  mpc' # "analyse" /\ Sent'[p].tree <= tree' /\ Sent'[p].tree # tree'
        BY DEF ObjectsOK
      <4>1. p \in DOMAIN Sent /\ Sent'[p] = Sent[p]
        BY <3>3
      <4>2. /\ mpc # "analyse" /\ Sent[p].tree <= tree
            /\ Sent[p].tree = tree => Walking
        BY <1>5, <4>1 DEF Grammar, ObjectsOK
      <4>3. QED
        BY <1>5, <2>6, <4>1, <4>2 DEF Walking
    <3>5. EndsOK'
      <4> SUFFICES ASSUME Busy', NEW p \in DOMAIN Sent', Sent'[p].magic = "DATF"
                   PROVE  mpc' # "analyse" /\ Sent'[p].tree < tree'
        BY DEF EndsOK
      <4>1. CASE p \in DOMAIN Sent
        <5>1. Sent'[p] = Sent[p]
          BY <2>1, <2>2, <4>1, Added
        <5>2. mpc # "analyse" /\ Sent[p].tree < tree
          BY <1>5, <4>1, <5>1 DEF Grammar, EndsOK
        <5>3. QED
          BY <1>5, <2>6, <4>1, <5>1, <5>2
      <4>2. CASE p = Len(Sent) + 1
        <5>1. Sent'[p] = r
          BY <2>1, <2>2, <4>2, Added
        <5>2. QED
          BY <1>5, <2>1, <2>6, <5>1
      <4>3. QED
        BY <2>1, <2>2, <4>1, <4>2, Added
    <3>6. BeginFSOK'
      <4>1. Walking' => mpc' = "walk" /\ r.magic = "FSYB" /\ r.tree = tree'
        BY <1>5, <2>1, <2>6 DEF Walking
      <4>2. Sent'[Len(Sent) + 1] = r
        BY <2>1, <2>2, Added
      <4>3. QED
        BY <3>1, <4>1, <4>2 DEF BeginFSOK
    <3>7. AsideOK'
      <4>1. multi = <<>> /\ DOMAIN multi = {}
        BY <1>5, <2>6, EmptySeq DEF Grammar, AsideOK, Walking
      <4>2. QED
        BY <1>5, <4>1 DEF AsideOK
    <3>8. GroupOK' /\ FileOK'
      BY <1>5, <2>6 DEF Grammar, GroupOK, FileOK, Flushing, InFile
    <3>9. QED
      BY <2>4, <3>2, <3>4, <3>5, <3>6, <3>7, <3>8 DEF Grammar
  <2>7. QED
    BY <2>5, <2>6
<1>6. CASE MAnalyse
  <2>1. CASE queue_add_header(Rec("FSIN", 0, <<>>, tree)) /\ mpc' = mpc
    BY <1>2, <1>3, <1>5, <1>6, <2>1 DEF MAnalyse, Busy
  <2>2. CASE queue_add_header(Rec("DIRS", 0, <<>>, 0)) /\ mpc' = "trees"
    BY <1>2, <1>3, <1>5, <1>6, <2>2 DEF MAnalyse, Busy
  <2>3. CASE UNCHANGED qvars /\ mpc' = "trees" /\ tree' = 1
    <3>1. Sent' = Sent
      BY <1>1, <2>3, SentSame DEF qvars
    <3>2. QED
      BY <1>6, <2>3, <3>1, GrammarQuiet
  <2>4. QED
    BY <1>6, <2>1, <2>2, <2>3 DEF MAnalyse
<1>7. CASE MBeginFS
  BY <1>2, <1>3, <1>5, <1>7 DEF MBeginFS, Busy
<1>8. CASE MEndFS
  BY <1>2, <1>3, <1>5, <1>8 DEF MEndFS, Busy
<1>9. CASE MEndDirs
  <2>1. /\ mpc = "datf" /\ mpc' = "final" /\ UNCHANGED <<tree, multi>>
        /\ queue_add_header(Rec("DATF", 0, <<>>, 0))
    BY <1>9 DEF MEndDirs
  <2>2. Sent' = Append(Sent, Rec("DATF", 0, <<>>, 0))
    BY <1>2, <1>3, <2>1
  <2>3. QED
    BY <1>5, <2>1, <2>2 DEF Busy
<1>10. QED
  BY <1>4, <1>6, <1>7, <1>8, <1>9

-----------------------------------------------------------------------------
\* The objects.
LEMMA ObjectFormed ==
  ASSUME BaseInv, WellFormed(Sent), Grammar, Busy, Walking, NEW r \in Record,
         Sent' = Append(Sent, r), r.magic = "OBJT", r.tree = tree,
         \A p \in DOMAIN Sent :
           Sent[p].magic = "OBJT" /\ Sent[p].tree = tree => Sent[p].objs[1] # r.objs[1]
  PROVE  WellFormed(Sent')
<1> USE GrammarTypes
<1>1. /\ Sent'[Len(Sent) + 1] = r
      /\ \A s \in 1 .. (Len(Sent) + 1) - 1 : s \in DOMAIN Sent /\ Sent'[s] = Sent[s]
  BY Added
<1>2. \A s \in DOMAIN Sent : Sent[s].magic = "OBJT" => ~SameObject(Sent[s], r)
  BY DEF SameObject
<1>3. \A s \in DOMAIN Sent : Sent[s].magic = "DATF" => Sent[s].tree # r.tree
  BY DEF Grammar, EndsOK
<1>4. IsFS => \E s \in 1 .. (Len(Sent) + 1) - 1 : Sent[s].magic = "FSYB" /\ Sent[s].tree = r.tree
  BY DEF Grammar, BeginFSOK
<1>5. InPlace(Sent', Len(Sent) + 1)
  BY <1>1, <1>2, <1>3, <1>4 DEF InPlace
<1>6. QED
  BY <1>5, FormedMore

\* What does not depend on the object: a record of the tree has been added.
LEMMA GrammarKept ==
  ASSUME BaseInv, Grammar, Busy, Walking, Walking', UNCHANGED tree,
         NEW r \in Record, Sent' = Append(Sent, r), r.magic \notin {"DATF", "MAIN"}
  PROVE  BeginOK' /\ EndsOK' /\ BeginFSOK'
<1> USE GrammarTypes
<1>1. Sent # <<>> /\ Sent[1].magic = "MAIN" /\ 1 \in DOMAIN Sent
  BY EmptySeq DEF Grammar, BeginOK, Walking
<1>2. BeginOK'
  BY <1>1, Added DEF BeginOK, Walking
<1>3. EndsOK'
  BY Added DEF Grammar, EndsOK, Walking
<1>4. BeginFSOK'
  BY Added DEF Grammar, BeginFSOK
<1>5. QED
  BY <1>2, <1>3, <1>4

LEMMA GrammarObject ==
  ASSUME BaseInv, EndInv, WellFormed(Sent), Grammar, MAddObject
  PROVE  WellFormed(Sent') /\ Grammar'
<1> USE GrammarTypes DEF NextEntry
<1> DEFINE r == Rec("OBJT", tree, <<entry>>, 0)
<1>1. /\ r \in Record /\ ~r.packed /\ r.magic = "OBJT" /\ r.tree = tree /\ r.objs = <<entry>>
      /\ r.objs[1] = entry
  <2>1. <<entry>> \in Seq(Nat) /\ "OBJT" \in Magic
    BY DEF Magic
  <2>2. r \in Record /\ ~r.packed
    BY <2>1, RecType
  <2>3. QED
    BY <2>2 DEF Rec
<1>2. /\ mpc = "objt" /\ queue_add_header(r) /\ UNCHANGED <<tree, multi>>
      /\ \/ mpc' = "file" /\ This.kind \in {"unique", "self"} /\ UNCHANGED <<entry, pos>>
         \/ mpc' = "walk" /\ entry' = entry + 1 /\ pos' = 0
  BY DEF MAddObject
<1> HIDE DEF r
<1>3. Sent' = Append(Sent, r)
  BY <1>1, <1>2, SentMore DEF MainStep
<1>4. Busy /\ Walking /\ Walking' /\ Busy' /\ ~InFile /\ ~Flushing /\ ~Flushing'
  BY <1>2 DEF Busy, Walking, InFile, Flushing
<1>5. \A p \in DOMAIN Sent : Sent[p].magic = "OBJT" /\ Sent[p].tree = tree =>
        /\ Sent[p].objs[1] \in Nat /\ Sent[p].objs[1] < entry
        /\ \A k \in DOMAIN multi : multi[k] # Sent[p].objs[1]
  BY <1>4 DEF Grammar, ObjectsOK
<1>6. WellFormed(Sent')
  BY <1>1, <1>3, <1>4, <1>5, ObjectFormed
<1>7. BeginOK' /\ EndsOK' /\ BeginFSOK'
  BY <1>1, <1>2, <1>3, <1>4, GrammarKept
<1>8. \A k \in DOMAIN multi : /\ multi[k] \in DOMAIN Trees[tree]
                              /\ Trees[tree][multi[k]].kind = "multi"
                              /\ multi[k] < entry
  BY <1>4 DEF Grammar, AsideOK
<1>9. ObjectsOK'
  <2> SUFFICES ASSUME NEW p \in DOMAIN Sent', Sent'[p].magic = "OBJT"
               PROVE  /\ Sent'[p].tree <= tree
                      /\ Sent'[p].tree = tree =>
                          /\ Sent'[p].objs[1] \in Nat
                          /\ Sent'[p].objs[1] < entry' \/ (Sent'[p].objs[1] = entry' /\ InFile')
                          /\ \A k \in DOMAIN multi : multi[k] # Sent'[p].objs[1]
    BY <1>2, <1>4 DEF ObjectsOK
  <2>1. CASE p \in DOMAIN Sent
    <3>1. Sent'[p] = Sent[p]
      BY <1>1, <1>3, <2>1, Added
    <3>2. Sent[p].tree <= tree
      BY <1>4, <2>1, <3>1 DEF Grammar, ObjectsOK
    <3>3. QED
      BY <1>2, <1>5, <2>1, <3>1, <3>2
  <2>2. CASE p = Len(Sent) + 1
    <3>1. Sent'[p] = r
      BY <1>1, <1>3, <2>2, Added
    <3>2. QED
      BY <1>1, <1>2, <1>8, <3>1 DEF InFile
  <2>3. QED
    BY <1>1, <1>3, <2>1, <2>2, Added
<1>10. AsideOK'
  BY <1>2, <1>4, <1>8 DEF Grammar, AsideOK
<1>11. GroupOK'
  BY <1>4 DEF GroupOK
<1>12. FileOK'
  <2>1. CASE mpc' = "walk"
    BY <1>2, <2>1 DEF FileOK, InFile
  <2>2. CASE mpc' = "file"
    <3>1. This' = This /\ Blocks' = Blocks /\ pos' = pos /\ entry' = entry /\ tree' = tree
      BY <1>2, <2>2 DEF This, Blocks
    <3>2. This.kind \in {"unique", "self"} /\ pos = 0
      BY <1>2, <2>2 DEF Grammar, FileOK
    <3>3. Sent' # <<>> /\ Sent'[Len(Sent')] = r
      BY <1>1, <1>3, Added
    <3>4. Blocks \in Nat
      BY <1>2, ThisType DEF BaseInv, InTree, InEntry
    <3>5. QED
      BY <1>1, <2>2, <3>1, <3>2, <3>3, <3>4 DEF FileOK
  <2>3. QED
    BY <1>2, <2>1, <2>2
<1>13. QED
  BY <1>6, <1>7, <1>9, <1>10, <1>11, <1>12 DEF Grammar

\* What the block and the footer of a file need before them.
LEMMA BlockInPlace ==
  ASSUME NEW recs, NEW p, p > 1, NEW r, recs[p] = r, NEW q, recs[p - 1] = q,
         r.magic = "BLKH", KindAt(r) # "multi", SameObject(q, r),
         IF r.off = 0 THEN q.magic = "OBJT" ELSE q.magic = "BLKH" /\ q.off = r.off - 1
  PROVE  InPlace(recs, p)
BY DEF InPlace

LEMMA FooterInPlace ==
  ASSUME NEW recs, NEW p, p > 1, NEW r, recs[p] = r, NEW q, recs[p - 1] = q,
         r.magic = "FILF", SameObject(q, r), q.magic = "BLKH", q.off = BlocksAt(r) - 1
  PROVE  InPlace(recs, p)
BY DEF InPlace

\* A block or the footer of a file: no object is added.
LEMMA GrammarData ==
  ASSUME BaseInv, EndInv, WellFormed(Sent), Grammar, MAddBlock \/ MAddFooter
  PROVE  WellFormed(Sent') /\ Grammar'
<1> USE GrammarTypes DEF NextEntry, MGoto
<1> DEFINE m == IF mpc = "block" THEN "BLKH" ELSE "FILF"
           k == IF mpc = "block" THEN pos ELSE 0
           r == Rec(m, tree, <<entry>>, k)
           last == Sent[Len(Sent)]
<1>1. /\ r \in Record /\ ~r.packed /\ r.magic = m /\ r.tree = tree /\ r.objs = <<entry>>
      /\ r.off = k /\ r.objs[1] = entry
  <2>1. <<entry>> \in Seq(Nat) /\ m \in Magic /\ k \in Nat
    BY DEF Magic
  <2> HIDE DEF m, k
  <2>2. r \in Record /\ ~r.packed
    BY <2>1, RecType
  <2>3. QED
    BY <2>2 DEF Rec
<1>2. /\ UNCHANGED <<tree, multi>>
      /\ \/ mpc = "block" /\ mpc' = "file" /\ pos' = pos + 1 /\ entry' = entry
         \/ mpc = "filf" /\ mpc' = "walk" /\ pos' = 0 /\ entry' = entry + 1
      /\ queue_add_header(r) \/ queue_add_block(r, "todo")
  BY DEF MAddBlock, MAddFooter
<1> HIDE DEF r
<1>3. Sent' = Append(Sent, r)
  BY <1>1, <1>2, SentMore DEF MainStep
<1>4. Busy /\ Walking /\ Walking' /\ Busy' /\ InFile /\ ~Flushing /\ ~Flushing'
  BY <1>2 DEF Busy, Walking, InFile, Flushing
<1>5. /\ This.kind \in {"unique", "self"} /\ Len(Sent) \in DOMAIN Sent
      /\ last.tree = tree /\ last.objs = <<entry>>
      /\ IF pos = 0 THEN last.magic = "OBJT" ELSE last.magic = "BLKH" /\ last.off = pos - 1
      /\ pos <= Blocks
      /\ mpc = "block" => pos < Blocks
      /\ mpc = "filf" => pos > 0 /\ pos = Blocks
  BY <1>4, EmptySeq DEF Grammar, FileOK
<1>6. /\ KindAt(r) = This.kind /\ BlocksAt(r) = Blocks
      /\ SameObject(last, r)
  BY <1>1, <1>5 DEF KindAt, BlocksAt, This, Blocks, SameObject
<1>7. /\ Sent'[Len(Sent) + 1] = r /\ Sent'[Len(Sent)] = last /\ Len(Sent) > 0
      /\ (Len(Sent) + 1) - 1 = Len(Sent) /\ Sent' # <<>> /\ Len(Sent') = Len(Sent) + 1
  BY <1>1, <1>3, <1>5, Added
<1>8. InPlace(Sent', Len(Sent) + 1)
  <2> DEFINE p == Len(Sent) + 1
  <2>1. p - 1 = Len(Sent) /\ p > 1 /\ Sent'[p] = r /\ Sent'[p - 1] = last
    BY <1>2, <1>7
  <2>2. CASE mpc = "block"
    <3>1. r.magic = "BLKH" /\ r.off = pos /\ KindAt(r) # "multi"
      BY <1>1, <1>5, <1>6, <2>2
    <3>2. IF r.off = 0 THEN last.magic = "OBJT" ELSE last.magic = "BLKH" /\ last.off = r.off - 1
      BY <1>5, <3>1
    <3>3. InPlace(Sent', p)
      <4> HIDE DEF p, last
      <4>1. QED
        BY <1>6, <2>1, <3>1, <3>2, BlockInPlace
    <3>4. QED
      BY <3>3
  <2>3. CASE mpc = "filf"
    <3>1. r.magic = "FILF" /\ last.magic = "BLKH" /\ last.off = BlocksAt(r) - 1
      BY <1>1, <1>5, <1>6, <2>3
    <3>2. InPlace(Sent', p)
      <4> HIDE DEF p, last
      <4>1. QED
        BY <1>6, <2>1, <3>1, FooterInPlace
    <3>3. QED
      BY <3>2
  <2>4. QED
    BY <1>2, <2>2, <2>3
<1>9. WellFormed(Sent')
  BY <1>1, <1>3, <1>8, FormedMore
<1>10. BeginOK' /\ EndsOK' /\ BeginFSOK'
  BY <1>1, <1>2, <1>3, <1>4, GrammarKept
<1>11. ObjectsOK'
  <2>1. \A p \in DOMAIN Sent' : Sent'[p].magic = "OBJT" => p \in DOMAIN Sent /\ Sent'[p] = Sent[p]
    BY <1>1, <1>3, Added
  <2>2. \A p \in DOMAIN Sent : Sent[p].magic = "OBJT" =>
          /\ Sent[p].tree <= tree
          /\ Sent[p].tree = tree =>
              /\ Sent[p].objs[1] \in Nat /\ Sent[p].objs[1] <= entry
              /\ \A j \in DOMAIN multi : multi[j] # Sent[p].objs[1]
    BY <1>4 DEF Grammar, ObjectsOK
  <2>3. \A n \in Nat : n <= entry => n < entry' \/ (n = entry' /\ InFile')
    BY <1>2 DEF InFile
  <2>4. QED
    BY <1>2, <1>4, <2>1, <2>2, <2>3 DEF ObjectsOK
<1>12. AsideOK'
  BY <1>2, <1>4 DEF Grammar, AsideOK
<1>13. GroupOK'
  BY <1>4 DEF GroupOK
<1>14. FileOK'
  <2>1. CASE mpc = "filf"
    BY <1>2, <2>1 DEF FileOK, InFile
  <2>2. CASE mpc = "block"
    <3>1. This' = This /\ Blocks' = Blocks /\ mpc' = "file" /\ pos' = pos + 1
      BY <1>2, <2>2 DEF This, Blocks
    <3>2. Blocks \in Nat /\ pos + 1 # 0
      BY <1>2, ThisType DEF BaseInv, InTree, InEntry
    <3>3. pos' <= Blocks' /\ Sent'[Len(Sent')].off = pos' - 1 /\ pos' # 0
      BY <1>1, <1>5, <1>7, <2>2, <3>1, <3>2
    <3>4. QED
      BY <1>1, <1>2, <1>5, <1>7, <2>2, <3>1, <3>3 DEF FileOK
  <2>3. QED
    BY <1>2, <2>1, <2>2
<1>15. QED
  BY <1>9, <1>10, <1>11, <1>12, <1>13, <1>14 DEF Grammar

\* A small file of a group: its header, which follows the headers of those before it.
LEMMA GrammarHeader ==
  ASSUME BaseInv, EndInv, WellFormed(Sent), Grammar, MEnqueueHeader
  PROVE  WellFormed(Sent') /\ Grammar'
<1> USE GrammarTypes
<1> DEFINE e == multi[pos + 1]
           r == Rec("OBJT", tree, <<e>>, Len(multi))
<1>1. /\ mpc \in {"enqueue", "flush"} /\ pos < Len(multi)
      /\ queue_add_header(r) /\ pos' = pos + 1
      /\ UNCHANGED <<mpc, tree, entry, multi>>
  BY DEF MEnqueueHeader
<1>2. pos + 1 \in DOMAIN multi /\ e \in Nat
  BY <1>1
<1>3. /\ r \in Record /\ ~r.packed /\ r.magic = "OBJT" /\ r.tree = tree /\ r.objs = <<e>>
      /\ r.objs[1] = e
  <2>1. <<e>> \in Seq(Nat) /\ "OBJT" \in Magic
    BY <1>2 DEF Magic
  <2>2. r \in Record /\ ~r.packed
    BY <2>1, RecType
  <2>3. QED
    BY <2>2 DEF Rec
<1> HIDE DEF r
<1>4. Sent' = Append(Sent, r)
  BY <1>1, <1>3, SentMore DEF MainStep
<1>5. Busy /\ Walking /\ Walking' /\ Busy' /\ ~InFile /\ ~InFile' /\ Flushing /\ Flushing'
  BY <1>1 DEF Busy, Walking, InFile, Flushing
<1>6. \A k \in DOMAIN multi : multi[k] = e => k = pos + 1
  <2>1. \A k, l \in DOMAIN multi : k < l => multi[k] < multi[l]
    BY DEF Grammar, AsideOK
  <2>2. \A k \in DOMAIN multi : multi[k] \in Nat /\ k \in Nat
    OBVIOUS
  <2>3. pos + 1 \in Nat /\ e = multi[pos + 1]
    OBVIOUS
  <2> HIDE DEF e
  <2>4. \A k \in DOMAIN multi : k < pos + 1 \/ pos + 1 < k => multi[k] # e
    BY <1>2, <2>1, <2>2, <2>3
  <2>5. QED
    BY <1>2, <2>2, <2>3, <2>4
<1>7. \A p \in DOMAIN Sent : Sent[p].magic = "OBJT" =>
        /\ Sent[p].tree <= tree
        /\ Sent[p].tree = tree =>
             /\ Sent[p].objs[1] \in Nat /\ Sent[p].objs[1] < entry
             /\ \A k \in DOMAIN multi : multi[k] = Sent[p].objs[1] => k <= pos
  BY <1>5 DEF Grammar, ObjectsOK
<1>8. WellFormed(Sent')
  <2>1. \A p \in DOMAIN Sent : Sent[p].magic = "OBJT" /\ Sent[p].tree = tree => Sent[p].objs[1] # r.objs[1]
    BY <1>2, <1>3, <1>7
  <2>2. QED
    BY <1>3, <1>4, <1>5, <2>1, ObjectFormed
<1>9. BeginOK' /\ EndsOK' /\ BeginFSOK'
  BY <1>1, <1>3, <1>4, <1>5, GrammarKept
<1>10. AsideOK'
  BY <1>1, <1>5 DEF Grammar, AsideOK
<1>11. ObjectsOK'
  <2> SUFFICES ASSUME NEW p \in DOMAIN Sent', Sent'[p].magic = "OBJT"
               PROVE  /\ Sent'[p].tree <= tree
                      /\ Sent'[p].tree = tree =>
                          /\ Sent'[p].objs[1] \in Nat
                          /\ Sent'[p].objs[1] < entry
                          /\ \A k \in DOMAIN multi : multi[k] = Sent'[p].objs[1] => k <= pos + 1
    BY <1>1, <1>5 DEF ObjectsOK
  <2>1. CASE p \in DOMAIN Sent
    <3>1. Sent'[p] = Sent[p]
      BY <1>3, <1>4, <2>1, Added
    <3>2. QED
      BY <1>7, <2>1, <3>1
  <2>2. CASE p = Len(Sent) + 1
    <3>1. Sent'[p] = r
      BY <1>3, <1>4, <2>2, Added
    <3>2. e < entry
      BY <1>2, <1>5 DEF Grammar, AsideOK
    <3>3. QED
      BY <1>2, <1>3, <1>6, <3>1, <3>2
  <2>3. QED
    BY <1>3, <1>4, <2>1, <2>2, Added
<1>12. GroupOK'
  <2>1. /\ Len(Sent') = Len(Sent) + 1 /\ Sent'[Len(Sent) + 1] = r
        /\ \A p \in DOMAIN Sent : Sent'[p] = Sent[p]
    BY <1>3, <1>4, Added
  <2>2. pos <= Len(Sent)
    BY <1>5 DEF Grammar, GroupOK
  <2> SUFFICES ASSUME NEW k \in 1 .. (pos + 1)
               PROVE  LET q == Sent'[Len(Sent') - (pos + 1) + k]
                      IN  q.magic = "OBJT" /\ q.tree = tree /\ q.objs = <<multi[k]>>
    BY <1>1, <2>1, <2>2 DEF GroupOK
  <2>3. CASE k = pos + 1
    <3>1. Len(Sent') - (pos + 1) + k = Len(Sent) + 1
      BY <2>1, <2>3
    <3>2. QED
      BY <1>3, <2>1, <2>3, <3>1
  <2>4. CASE k \in 1 .. pos
    <3>1. /\ Len(Sent') - (pos + 1) + k = Len(Sent) - pos + k
          /\ Len(Sent) - pos + k \in DOMAIN Sent
      <4>1. Len(Sent) \in Nat /\ pos \in Nat /\ k \in Nat
        BY <2>4
      <4>2. Len(Sent') = Len(Sent) + 1
        BY <2>1
      <4>3. Len(Sent') - (pos + 1) + k = Len(Sent) - pos + k
        BY <4>1, <4>2
      <4>4. Len(Sent) - pos + k \in 1 .. Len(Sent)
        BY <2>2, <2>4, <4>1
      <4>5. QED
        BY <4>3, <4>4
    <3>2. LET q == Sent[Len(Sent) - pos + k]
          IN  q.magic = "OBJT" /\ q.tree = tree /\ q.objs = <<multi[k]>>
      BY <1>5, <2>4 DEF Grammar, GroupOK
    <3>3. QED
      BY <2>1, <3>1, <3>2
  <2>5. QED
    BY <2>3, <2>4
<1>13. FileOK'
  <2>1. This' = This
    BY <1>1 DEF This
  <2>2. QED
    BY <1>1, <1>5, <2>1 DEF Grammar, FileOK
<1>14. QED
  BY <1>8, <1>9, <1>10, <1>11, <1>12, <1>13 DEF Grammar

\* What the block of a group needs before it.
LEMMA GroupInPlace ==
  ASSUME NEW recs, NEW p \in Nat, recs[p].magic = "BLKH", KindAt(recs[p]) = "multi",
         p > Len(recs[p].objs),
         \A k \in 1 .. Len(recs[p].objs) :
           LET q == recs[p - Len(recs[p].objs) + k - 1]
           IN  q.magic = "OBJT" /\ q.tree = recs[p].tree /\ q.objs = <<recs[p].objs[k]>>
  PROVE  InPlace(recs, p)
BY DEF InPlace

\* The block of a group.
LEMMA GrammarGroup ==
  ASSUME BaseInv, EndInv, WellFormed(Sent), Grammar, MEnqueueBlock, multi # <<>>
  PROVE  WellFormed(Sent') /\ Grammar'
<1> USE GrammarTypes
<1> DEFINE r == Rec("BLKH", tree, multi, 0)
<1>1. /\ pos = Len(multi) /\ queue_add_block(r, "todo")
      /\ UNCHANGED <<tree, entry, pos>> /\ multi' = <<>>
      /\ \/ mpc = "enqueue" /\ mpc' = "putaside"
         \/ mpc = "flush" /\ mpc' = "endtree"
  BY DEF MEnqueueBlock
<1>2. /\ r \in Record /\ ~r.packed /\ r.magic = "BLKH" /\ r.tree = tree /\ r.objs = multi
  <2>1. multi \in Seq(Nat) /\ "BLKH" \in Magic
    BY DEF Magic
  <2>2. r \in Record /\ ~r.packed
    BY <2>1, RecType
  <2>3. QED
    BY <2>2 DEF Rec
<1> HIDE DEF r
<1>3. Sent' = Append(Sent, r)
  BY <1>1, <1>2, SentMore DEF MainStep
<1>4. Busy /\ Walking /\ Walking' /\ Busy' /\ ~InFile /\ ~InFile' /\ Flushing /\ ~Flushing'
  BY <1>1 DEF Busy, Walking, InFile, Flushing
<1>5. 1 \in DOMAIN multi
  BY EmptySeq
<1>6. KindAt(r) = "multi"
  BY <1>2, <1>4, <1>5 DEF Grammar, AsideOK, KindAt
<1>7. /\ Len(Sent') = Len(Sent) + 1 /\ Sent'[Len(Sent) + 1] = r
      /\ \A p \in DOMAIN Sent : Sent'[p] = Sent[p]
      /\ \A p \in DOMAIN Sent' : p \in DOMAIN Sent \/ p = Len(Sent) + 1
  BY <1>2, <1>3, Added
<1>8. InPlace(Sent', Len(Sent) + 1)
  <2> DEFINE p == Len(Sent) + 1
  <2>1. p \in Nat /\ p > Len(multi) /\ Sent'[p] = r
    BY <1>1, <1>4, <1>7 DEF Grammar, GroupOK
  <2>2. ASSUME NEW k \in 1 .. Len(multi)
        PROVE  LET q == Sent'[p - Len(multi) + k - 1]
               IN  q.magic = "OBJT" /\ q.tree = tree /\ q.objs = <<multi[k]>>
    <3>1. p - Len(multi) + k - 1 = Len(Sent) - pos + k
      BY <1>1
    <3>2. Len(Sent) - pos + k \in DOMAIN Sent
      BY <1>1, <2>1
    <3>3. LET q == Sent[Len(Sent) - pos + k]
          IN  q.magic = "OBJT" /\ q.tree = tree /\ q.objs = <<multi[k]>>
      BY <1>1, <1>4 DEF Grammar, GroupOK
    <3>4. QED
      BY <1>7, <3>1, <3>2, <3>3
  <2>3. Sent'[p].objs = multi /\ Sent'[p].tree = tree /\ Sent'[p].magic = "BLKH"
        /\ KindAt(Sent'[p]) = "multi"
    BY <1>2, <1>6, <2>1
  <2> HIDE DEF p
  <2>4. InPlace(Sent', p)
    BY <2>1, <2>2, <2>3, GroupInPlace
  <2>5. QED
    BY <2>4 DEF p
<1>9. WellFormed(Sent')
  BY <1>2, <1>3, <1>8, FormedMore
<1>10. BeginOK' /\ EndsOK' /\ BeginFSOK'
  BY <1>1, <1>2, <1>3, <1>4, GrammarKept
<1>11. multi' = <<>> /\ DOMAIN multi' = {}
  BY <1>1, EmptySeq
<1>12. ObjectsOK'
  <2>1. \A p \in DOMAIN Sent' : Sent'[p].magic = "OBJT" => p \in DOMAIN Sent /\ Sent'[p] = Sent[p]
    BY <1>2, <1>7
  <2>2. \A p \in DOMAIN Sent : Sent[p].magic = "OBJT" =>
          /\ Sent[p].tree <= tree
          /\ Sent[p].tree = tree => Sent[p].objs[1] \in Nat /\ Sent[p].objs[1] < entry
    BY <1>4 DEF Grammar, ObjectsOK
  <2>3. mpc' # "analyse" /\ tree' = tree /\ entry' = entry
    BY <1>1
  <2>4. QED
    BY <1>4, <1>11, <2>1, <2>2, <2>3 DEF ObjectsOK
<1>13. AsideOK'
  BY <1>11 DEF AsideOK
<1>14. GroupOK'
  BY <1>4 DEF GroupOK
<1>15. FileOK'
  <2>1. This' = This
    BY <1>1 DEF This
  <2>2. QED
    BY <1>1, <1>4, <2>1 DEF Grammar, FileOK
<1>16. QED
  BY <1>9, <1>10, <1>12, <1>13, <1>14, <1>15 DEF Grammar

-----------------------------------------------------------------------------
\* Every step of the main thread.
LEMMA GrammarMain ==
  ASSUME BaseInv, EndInv, WellFormed(Sent), Grammar, MainStep
  PROVE  WellFormed(Sent') /\ Grammar'
<1>1. CASE MWriteMainHead \/ MAnalyse \/ MBeginFS \/ MEndFS \/ MEndDirs
  BY <1>1, GrammarPart
<1>2. CASE MAddObject
  BY <1>2, GrammarObject
<1>3. CASE MAddBlock \/ MAddFooter
  BY <1>3, GrammarData
<1>4. CASE MEnqueueHeader
  BY <1>4, GrammarHeader
<1>5. CASE MEnqueueBlock /\ multi # <<>>
  BY <1>5, GrammarGroup
<1>6. ASSUME list' = list,
             \/ MStart \/ MAnalyseFails \/ MNextTree \/ MEndDir
             \/ MWalkEnds \/ MStatFails \/ MOpendirFails \/ MEntryUnreadable \/ MPassSelf \/ MVisit
             \/ MReadBlock \/ MReadFails \/ MFileInterrupted \/ MFileRead \/ MSmallFile \/ MPutAside
             \/ (MEnqueueBlock /\ multi = <<>>)
             \/ MFinal \/ MSetEndOfQueue \/ MJoin
      PROVE  WellFormed(Sent') /\ Grammar'
  <2>1. Sent' = Sent
    BY <1>6, SentSame
  <2>2. QED
    BY <1>6, <2>1, GrammarQuiet
<1>7. CASE MStart \/ MAnalyseFails \/ MNextTree \/ MEndDir
  BY <1>6, <1>7 DEF MStart, MAnalyseFails, MNextTree, MEndDir, qvars
<1>8. CASE MWalkEnds \/ MStatFails \/ MOpendirFails \/ MEntryUnreadable \/ MPassSelf \/ MVisit
  BY <1>6, <1>8 DEF MWalkEnds, MStatFails, MOpendirFails, MEntryUnreadable, MPassSelf, MVisit, qvars
<1>9. CASE MReadBlock \/ MReadFails \/ MFileInterrupted \/ MFileRead \/ MSmallFile \/ MPutAside
  BY <1>6, <1>9 DEF MReadBlock, MReadFails, MFileInterrupted, MFileRead, MSmallFile, MPutAside, qvars
<1>10. CASE MEnqueueBlock /\ multi = <<>>
  BY <1>6, <1>10 DEF MEnqueueBlock, qvars
<1>11. CASE MFinal \/ MSetEndOfQueue \/ MJoin
  BY <1>6, <1>11 DEF MFinal, MSetEndOfQueue, MJoin, queue_set_end_of_queue, qvars
<1>12. QED
  BY <1>1, <1>2, <1>3, <1>4, <1>5, <1>7, <1>8, <1>9, <1>10, <1>11 DEF MainStep

\* Where a step of the others leaves the records: what is stored is the beginning
\* of what was queued.
LEMMA TakenPrefix ==
  ASSUME BaseInv, BaseInv', Taken
  PROVE  /\ \/ Written(data)' = Written(data)
            \/ /\ ~Broken /\ Written(data)' \in Seq(Record)
               /\ Len(Written(data)') <= Len(Sent)
               /\ \A i \in 1 .. Len(Written(data)') : Sent[i] = Written(data)'[i]
         /\ ~Broken' => ~Broken /\ Sent' = Sent
<1>1. CASE Stream!Discard \/ Stream!Break \/ Stream!Seal \/ UNCHANGED Stream!streamVars
  <2>1. /\ Written(data)' = Written(data)
        /\ ~Broken' => ~Broken /\ InFlight' = InFlight
    BY <1>1 DEF Stream!Discard, Stream!Break, Stream!Seal, Stream!streamVars, Broken, Written
  <2>2. QED
    BY <2>1 DEF Sent
<1>2. CASE Stream!Store
  <2> DEFINE w == Written(data)
             h == Head(InFlight)
             t == Tail(InFlight)
             a == Append(w, h)
  <2>1. /\ ~Broken /\ InFlight # <<>> /\ Written(data)' = a /\ InFlight' = t
    BY <1>2 DEF Stream!Store, Broken, Written
  <2>2. /\ w \in Seq(Record) /\ InFlight \in Seq(Record) /\ h \in Record /\ t \in Seq(Record)
        /\ <<h>> \in Seq(Record)
    BY <2>1, HeldType, WrittenType, HeadTailProperties
  <2>3. InFlight = <<h>> \o t
    BY <2>1, <2>2, HeadAndTail
  <2> HIDE DEF w, h, t
  <2>4. a \o t = w \o (<<h>> \o t)
    BY <2>2, AppendIsConcat, ConcatAssociative
  <2>5. a \in Seq(Record) /\ Len(a) \in Nat /\ Len(t) \in Nat
    BY <2>2, AppendProperties, LenProperties
  <2> HIDE DEF a
  <2>6. Sent' = a \o t /\ Sent = a \o t
    BY <2>1, <2>3, <2>4 DEF Sent, w
  <2>7. /\ Len(a \o t) = Len(a) + Len(t)
        /\ \A i \in 1 .. Len(a) : (a \o t)[i] = a[i]
    BY <2>2, <2>5, ConcatProperties
  <2>8. QED
    BY <2>1, <2>5, <2>6, <2>7
<1>3. QED
  BY <1>1, <1>2 DEF Taken

\* So what is stored reads in order when what was queued does.
LEMMA TakenKeeps ==
  ASSUME BaseInv, BaseInv', WellFormed(Written(data)), ~Broken => WellFormed(Sent), Taken
  PROVE  WellFormed(Written(data)')
<1> DEFINE w == Written(data)'
<1>1. w = Written(data) \/ (~Broken /\ w \in Seq(Record) /\ Len(w) <= Len(Sent)
                              /\ \A i \in 1 .. Len(w) : Sent[i] = w[i])
  BY TakenPrefix
<1>2. Sent \in Seq(Record)
  BY SentType
<1> HIDE DEF w
<1>3. (\A i \in 1 .. Len(w) : Sent[i] = w[i]) => \A i \in 1 .. Len(w) : Says(Sent[i], w[i])
  BY DEF Says
<1>4. WellFormed(w)
  BY <1>1, <1>2, <1>3, FormedPrefix
<1>5. QED
  BY <1>4 DEF w

LEMMA GramInit == Init => GramInv
<1> SUFFICES ASSUME Init PROVE GramInv
  OBVIOUS
<1>1. BaseInv /\ list = <<>> /\ data = <<>> /\ wpc = "none" /\ mpc = "start" /\ multi = <<>>
  BY BaseInit DEF Init, queue_init, archwriter_init
<1>2. Queued(list) = <<>> /\ Written(data) = <<>> /\ Held = <<>>
  BY <1>1 DEF Queued, Written, Held, WriterHolds
<1>3. Sent = <<>>
  BY <1>1, <1>2, HeldType, Mapping, ConcatEmptySeq DEF Sent
<1>4. WellFormed(<<>>)
  BY DEF WellFormed
<1>5. Grammar
  BY <1>1, <1>3 DEF Grammar, BeginOK, ObjectsOK, EndsOK, BeginFSOK, AsideOK, GroupOK, FileOK,
     Walking, Flushing, InFile
<1>6. QED
  BY <1>2, <1>3, <1>4, <1>5 DEF GramInv

LEMMA GramStep ==
  ASSUME BaseInv, BaseInv', EndInv, EndInv', WorkOwned, GramInv, [Next]_vars
  PROVE  GramInv'
<1>1. CASE MainStep
  <2>1. /\ Written(data)' = Written(data)
        /\ Broken' <=> Broken
    BY <1>1, MainAside
  <2>2. CASE ~Broken
    BY <1>1, <2>1, <2>2, GrammarMain DEF GramInv
  <2>3. CASE Broken
    BY <2>1, <2>3 DEF GramInv
  <2>4. QED
    BY <2>2, <2>3
<1>2. ASSUME Taken, UNCHANGED mvars
      PROVE  GramInv'
  <2>1. WellFormed(Written(data)') /\ (~Broken' => ~Broken /\ Sent' = Sent)
    BY <1>2, TakenKeeps, TakenPrefix DEF GramInv
  <2>2. ASSUME ~Broken'
        PROVE  WellFormed(Sent)' /\ Grammar'
    <3>1. WellFormed(Sent) /\ Grammar /\ Sent' = Sent
      BY <2>1, <2>2 DEF GramInv
    <3>2. UNCHANGED <<mpc, tree, entry, pos, multi>> /\ This' = This /\ Blocks' = Blocks
      BY <1>2 DEF mvars, This, Blocks
    <3>3. QED
      BY <3>1, <3>2
      DEF Grammar, BeginOK, ObjectsOK, EndsOK, BeginFSOK, AsideOK, GroupOK, FileOK, Busy,
          Walking, Flushing, InFile
  <2>3. QED
    BY <2>1, <2>2 DEF GramInv
<1>3. ASSUME NEW t \in CompThreads, CompStep(t)
      PROVE  GramInv'
  BY <1>2, <1>3, CompStreamStep
  DEF Taken, CompStep, CTake, CReplace, CFail, CExit
<1>4. CASE WriterStep
  <2>1. UNCHANGED mvars
    BY <1>4 DEF WriterStep, WCreate, WCreateFails, WVolHeader, WDequeue, WSplit, WWriteRecord,
       WLastFooter, WWriteFails, WError, WDrain, WElsewhere
  <2>2. QED
    BY <1>2, <1>4, <2>1, WriterStreamStep
<1>5. CASE Signal \/ UNCHANGED vars
  <2>1. UNCHANGED <<qvars, avars, stop, mvars, wvars>>
    BY <1>5 DEF Signal, vars
  <2>2. /\ Held' = Held /\ Queued(list)' = Queued(list)
        /\ Broken' <=> Broken
        /\ Sealed' <=> Sealed
    BY <2>1 DEF qvars, avars, wvars, Held, WriterHolds, Queued, Broken, Sealed
  <2>3. Taken
    BY <2>1, <2>2, Stutter DEF qvars, avars, Taken
  <2>4. QED
    BY <1>2, <2>1, <2>3
<1>6. QED
  BY <1>1, <1>3, <1>4, <1>5 DEF Next, Done

LEMMA GramInvariant == Spec => [](BaseInv /\ DiskInv /\ GramInv)
<1>1. BaseInv /\ BaseInv' /\ DiskInv /\ DiskInv' /\ WorkOwned /\ GramInv /\ [Next]_vars => GramInv'
  BY GramStep DEF DiskInv
<1>2. QED
  BY <1>1, GramInit, DiskInvariant, WorkCorrect, PTL DEF Spec

\* What is stored says what was queued, packed or not.
LEMMA DataSays ==
  ASSUME BaseInv
  PROVE  /\ data \in Seq(Record) /\ Written(data) \in Seq(Record)
         /\ Len(data) <= Len(Written(data))
         /\ \A i \in 1 .. Len(data) : Says(Written(data)[i], data[i])
<1>1. data \in Seq(Record) /\ Written(data) \in Seq(Record) /\ Len(Written(data)) = Len(data)
      /\ \A i \in 1 .. Len(data) : Written(data)[i] = Unpack(data[i])
      /\ Len(data) \in Nat
  BY HeldType, WrittenType
<1>2. ASSUME NEW i \in 1 .. Len(data)
      PROVE  Says(Unpack(data[i]), data[i])
  <2>1. data[i] \in Record
    BY <1>1, ElementOfSeq
  <2>2. QED
    BY <2>1 DEF Says, Unpack, Record
<1>3. QED
  BY <1>1, <1>2

\* The archive reads in order, whatever the order in which the compression threads
\* finish and wherever the writer stops: every block follows its object's header or
\* the block before it, every footer the last block, the block of small files their
\* headers, and every object comes once, between the begin and the end of its file
\* system.
THEOREM ReadableCorrect == Spec => []ArchiveReadable
<1>1. BaseInv /\ GramInv => ArchiveReadable
  <2> SUFFICES ASSUME BaseInv, GramInv PROVE WellFormed(data)
    BY DEF ArchiveReadable
  <2>1. WellFormed(Written(data))
    BY DEF GramInv
  <2>2. QED
    BY <2>1, DataSays, FormedPrefix
<1>2. QED
  BY <1>1, GramInvariant, PTL

-----------------------------------------------------------------------------
(***************************************************************************)
(* What a restore relies on: the order of ReadsInOrder, of one sequence of *)
(* records.                                                                *)
(***************************************************************************)
Ordered(s) ==
  /\ \A p \in DOMAIN s : /\ s[p].magic = "OBJT" => NamesObject(s[p])
                         /\ s[p].magic = "FILF" => EndsFile(s[p])
                         /\ p = 1 => s[p].magic = "MAIN"
  /\ \A p, q \in DOMAIN s : p < q =>
       /\ MayPrecede(s[p], s[q])
       /\ Foreign(s[p], s[q]) => \E c \in DOMAIN s : p < c /\ c < q /\ Opens(s[c], s[q])

\* The record r may come behind the records s.
JoinsOn(s, r) ==
  /\ r.magic = "OBJT" => NamesObject(r)
  /\ r.magic = "FILF" => EndsFile(r)
  /\ s = <<>> => r.magic = "MAIN"
  /\ \A p \in DOMAIN s :
       /\ MayPrecede(s[p], r)
       /\ Foreign(s[p], r) => \E c \in DOMAIN s : p < c /\ Opens(s[c], r)

\* No link points to what comes later, or to a file that is put aside.
LinksBack ==
  \A f \in DOMAIN Trees : \A e \in DOMAIN Trees[f] :
    Trees[f][e].kind = "link" => /\ Trees[f][e].size < e
                                 /\ Trees[f][e].size \in DOMAIN Trees[f]
                                 /\ Trees[f][Trees[f][e].size].kind # "multi"

\* Of the tree that is walked the begin is in the archive, and no object of
\* another one behind it; and of the file that is read the header, and no other
\* object behind it.
OpenTree ==
  IsFS /\ Walking =>
    \E c \in DOMAIN Sent :
      /\ Sent[c].magic = "FSYB" /\ Sent[c].tree = tree
      /\ \A q \in DOMAIN Sent : q > c /\ Sent[q].magic = "OBJT" => Sent[q].tree = tree

OpenFile ==
  InFile =>
    \E c \in DOMAIN Sent :
      /\ Sent[c].magic = "OBJT" /\ Sent[c].tree = tree /\ Sent[c].objs = <<entry>>
      /\ \A q \in DOMAIN Sent : q > c => Sent[q].magic # "OBJT"

Opened == OpenTree /\ OpenFile

OrderInv ==
  /\ Ordered(Written(data))
  /\ ~Broken => Ordered(Sent) /\ Opened

-----------------------------------------------------------------------------
\* What the order asks of a record depends on what it says only, ...
LEMMA SaysAlike ==
  ASSUME NEW a, NEW b, Says(a, b)
  PROVE  /\ NamesObject(a) <=> NamesObject(b)
         /\ EndsFile(a) <=> EndsFile(b)
         /\ a.magic = b.magic
<1>1. /\ a.magic = b.magic /\ a.tree = b.tree /\ a.objs = b.objs
      /\ KindAt(a) = KindAt(b) /\ BlocksAt(a) = BlocksAt(b)
  BY DEF Says, KindAt, BlocksAt
<1>2. QED
  BY <1>1 DEF NamesObject, EndsFile, SavedAlone

\* ... and so does what it asks of two.
LEMMA SaysPair ==
  ASSUME NEW a, NEW b, NEW c, NEW d, Says(a, b), Says(c, d)
  PROVE  /\ MayPrecede(a, c) <=> MayPrecede(b, d)
         /\ Foreign(a, c) <=> Foreign(b, d)
         /\ Opens(a, c) <=> Opens(b, d)
<1>1. /\ a.magic = b.magic /\ a.tree = b.tree /\ a.objs = b.objs /\ KindAt(a) = KindAt(b)
      /\ c.magic = d.magic /\ c.tree = d.tree /\ c.objs = d.objs /\ KindAt(c) = KindAt(d)
  BY DEF Says, KindAt
<1>2. /\ SameObject(a, c) <=> SameObject(b, d)
      /\ LinksTo(a, c) <=> LinksTo(b, d)
      /\ LargeBlock(c) <=> LargeBlock(d)
  BY <1>1 DEF SameObject, LinksTo, LargeBlock, SavedAlone
<1>3. QED
  BY <1>1, <1>2 DEF MayPrecede, Foreign, Opens

\* The beginning of an ordered archive is ordered.
LEMMA OrderPrefix ==
  ASSUME NEW s \in Seq(Record), NEW t \in Seq(Record), Ordered(t), Len(s) <= Len(t),
         \A i \in 1 .. Len(s) : Says(t[i], s[i])
  PROVE  Ordered(s)
<1>1. /\ Len(s) \in Nat /\ DOMAIN s = 1 .. Len(s)
      /\ Len(t) \in Nat /\ DOMAIN t = 1 .. Len(t)
      /\ \A p \in DOMAIN s : p \in DOMAIN t /\ p \in Nat /\ Says(t[p], s[p])
  BY LenProperties
<1>2. ASSUME NEW p \in DOMAIN s
      PROVE  /\ s[p].magic = "OBJT" => NamesObject(s[p])
             /\ s[p].magic = "FILF" => EndsFile(s[p])
             /\ p = 1 => s[p].magic = "MAIN"
  BY <1>1, SaysAlike DEF Ordered
<1>3. ASSUME NEW p \in DOMAIN s, NEW q \in DOMAIN s, p < q
      PROVE  /\ MayPrecede(s[p], s[q])
             /\ Foreign(s[p], s[q]) => \E c \in DOMAIN s : p < c /\ c < q /\ Opens(s[c], s[q])
  <2>1. p \in DOMAIN t /\ q \in DOMAIN t /\ Says(t[p], s[p]) /\ Says(t[q], s[q])
    BY <1>1
  <2>2. /\ MayPrecede(t[p], t[q])
        /\ Foreign(t[p], t[q]) => \E c \in DOMAIN t : p < c /\ c < q /\ Opens(t[c], t[q])
    BY <1>3, <2>1 DEF Ordered
  <2>3. MayPrecede(s[p], s[q]) /\ (Foreign(s[p], s[q]) => Foreign(t[p], t[q]))
    BY <2>1, <2>2, SaysPair
  <2>4. ASSUME NEW c \in DOMAIN t, p < c, c < q, Opens(t[c], t[q])
        PROVE  c \in DOMAIN s /\ Opens(s[c], s[q])
    <3>1. c \in DOMAIN s
      BY <1>1, <2>4
    <3>2. QED
      BY <1>1, <2>1, <2>4, <3>1, SaysPair
  <2>5. QED
    BY <2>2, <2>3, <2>4
<1>4. QED
  BY <1>2, <1>3 DEF Ordered

\* A record that may come next can be added.
LEMMA OrderAppend ==
  ASSUME NEW s \in Seq(Record), Ordered(s), NEW r \in Record, JoinsOn(s, r)
  PROVE  Ordered(Append(s, r))
<1> DEFINE t == Append(s, r)
<1>1. /\ Len(s) \in Nat /\ DOMAIN s = 1 .. Len(s) /\ DOMAIN t = 1 .. Len(s) + 1
      /\ \A i \in DOMAIN s : t[i] = s[i] /\ i \in DOMAIN t /\ i \in Nat
      /\ t[Len(s) + 1] = r
      /\ s = <<>> <=> Len(s) = 0
  BY AppendProperties, LenProperties, EmptySeq
<1> HIDE DEF t
<1>2. \A p \in DOMAIN t : p \in Nat /\ (p \in DOMAIN s \/ p = Len(s) + 1)
  BY <1>1
<1>3. ASSUME NEW p \in DOMAIN t
      PROVE  /\ t[p].magic = "OBJT" => NamesObject(t[p])
             /\ t[p].magic = "FILF" => EndsFile(t[p])
             /\ p = 1 => t[p].magic = "MAIN"
  <2>1. CASE p \in DOMAIN s
    BY <1>1, <2>1 DEF Ordered
  <2>2. CASE p = Len(s) + 1
    <3>1. p = 1 => s = <<>>
      BY <1>1, <2>2
    <3>2. QED
      BY <1>1, <2>2, <3>1 DEF JoinsOn
  <2>3. QED
    BY <1>2, <2>1, <2>2
<1>4. ASSUME NEW p \in DOMAIN t, NEW q \in DOMAIN t, p < q
      PROVE  /\ MayPrecede(t[p], t[q])
             /\ Foreign(t[p], t[q]) => \E c \in DOMAIN t : p < c /\ c < q /\ Opens(t[c], t[q])
  <2>1. p \in DOMAIN s /\ t[p] = s[p]
    BY <1>1, <1>2, <1>4
  <2>2. CASE q \in DOMAIN s
    <3>1. /\ MayPrecede(s[p], s[q])
          /\ Foreign(s[p], s[q]) => \E c \in DOMAIN s : p < c /\ c < q /\ Opens(s[c], s[q])
      BY <1>4, <2>1, <2>2 DEF Ordered
    <3>2. QED
      BY <1>1, <2>1, <2>2, <3>1
  <2>3. CASE q = Len(s) + 1
    <3>1. /\ MayPrecede(s[p], r)
          /\ Foreign(s[p], r) => \E c \in DOMAIN s : p < c /\ Opens(s[c], r)
      BY <2>1 DEF JoinsOn
    <3>2. \A c \in DOMAIN s : c < q /\ c \in DOMAIN t /\ t[c] = s[c]
      BY <1>1, <2>3
    <3>3. QED
      BY <1>1, <2>1, <2>3, <3>1, <3>2
  <2>4. QED
    BY <1>2, <2>2, <2>3
<1>5. QED
  BY <1>3, <1>4 DEF Ordered, t

\* The same for what was queued.
LEMMA OrderMore ==
  ASSUME BaseInv, Ordered(Sent), NEW r \in Record, Sent' = Append(Sent, r), JoinsOn(Sent, r)
  PROVE  Ordered(Sent')
BY SentType, OrderAppend

\* Of a record that belongs to no file nothing is asked but that it is not first.
LEMMA PlainJoins ==
  ASSUME NEW s, NEW r, r.magic \notin {"OBJT", "FILF", "BLKH"}, s = <<>> => r.magic = "MAIN"
  PROVE  JoinsOn(s, r)
BY DEF JoinsOn, MayPrecede, Foreign, LargeBlock

\* A block or a footer may come behind the header of its file.
LEMMA DataJoins ==
  ASSUME NEW s, NEW r, r.magic \in {"FILF", "BLKH"}, s # <<>>, r.magic = "FILF" => EndsFile(r),
         \/ ~LargeBlock(r)
         \/ \E c \in DOMAIN s : /\ s[c].magic = "OBJT" /\ SameObject(s[c], r)
                                /\ \A q \in DOMAIN s : q > c => s[q].magic # "OBJT",
         DOMAIN s \subseteq Nat
  PROVE  JoinsOn(s, r)
<1> SUFFICES ASSUME NEW p \in DOMAIN s, Foreign(s[p], r)
             PROVE  \E c \in DOMAIN s : p < c /\ Opens(s[c], r)
  BY DEF JoinsOn, MayPrecede
<1>1. s[p].magic = "OBJT" /\ LargeBlock(r) /\ ~SameObject(s[p], r) /\ r.magic # "OBJT"
  BY DEF Foreign
<1>2. PICK c \in DOMAIN s : /\ s[c].magic = "OBJT" /\ SameObject(s[c], r)
                            /\ \A q \in DOMAIN s : q > c => s[q].magic # "OBJT"
  BY <1>1
<1>3. p # c /\ ~(p > c) /\ p \in Nat /\ c \in Nat
  BY <1>1, <1>2
<1>4. p < c
  BY <1>3
<1>5. QED
  BY <1>1, <1>2, <1>4 DEF Opens

\* An object may come behind the begin of its file system if it is new and no link
\* to it has come.
LEMMA ObjectJoins ==
  ASSUME BaseInv, Grammar, OpenTree, LinksBack, Busy, Walking, Ordered(Sent),
         NEW r \in Record, r.magic = "OBJT", r.tree = tree, NamesObject(r),
         \A p \in DOMAIN Sent :
           Sent[p].magic = "OBJT" /\ Sent[p].tree = tree =>
             Sent[p].objs[1] # r.objs[1] /\ ~LinksTo(Sent[p], r)
  PROVE  JoinsOn(Sent, r)
<1> USE GrammarTypes
<1>1. Sent # <<>>
  BY DEF Grammar, BeginOK, Walking
<1>2. ASSUME NEW p \in DOMAIN Sent
      PROVE  MayPrecede(Sent[p], r)
  BY <1>2 DEF MayPrecede, SameObject, LinksTo
<1>3. ASSUME NEW p \in DOMAIN Sent, Foreign(Sent[p], r)
      PROVE  \E c \in DOMAIN Sent : p < c /\ Opens(Sent[c], r)
  <2>1. IsFS /\ Sent[p].magic = "OBJT" /\ Sent[p].tree # tree
    BY <1>3 DEF Foreign, LargeBlock
  <2>2. PICK c \in DOMAIN Sent :
          /\ Sent[c].magic = "FSYB" /\ Sent[c].tree = tree
          /\ \A q \in DOMAIN Sent : q > c /\ Sent[q].magic = "OBJT" => Sent[q].tree = tree
    BY <2>1 DEF OpenTree
  <2>3. p # c /\ ~(p > c) /\ p \in Nat /\ c \in Nat
    BY <2>1, <2>2
  <2>4. QED
    BY <2>2, <2>3 DEF Opens
<1>4. QED
  BY <1>1, <1>2, <1>3 DEF JoinsOn

-----------------------------------------------------------------------------
(***************************************************************************)
(* The steps of the main thread.                                           *)
(***************************************************************************)
\* Steps that queue nothing.
LEMMA OrderQuiet ==
  ASSUME BaseInv, Opened, Sent' = Sent,
         \/ MStart \/ MAnalyse \/ MAnalyseFails \/ MNextTree \/ MEndDir
         \/ MWalkEnds \/ MStatFails \/ MOpendirFails \/ MEntryUnreadable \/ MPassSelf \/ MVisit
         \/ MReadBlock \/ MReadFails \/ MFileInterrupted \/ MFileRead \/ MSmallFile \/ MPutAside
         \/ MEnqueueBlock
         \/ MFinal \/ MSetEndOfQueue \/ MJoin
  PROVE  Opened'
<1>1. /\ Walking' /\ IsFS => Walking /\ tree' = tree
      /\ InFile' => InFile /\ tree' = tree /\ entry' = entry
  <2> USE DEF MGoto, MFail, NextEntry, Walking, InFile
  <2>1. CASE MStart \/ MAnalyse \/ MAnalyseFails \/ MNextTree \/ MEndDir \/ MFinal \/ MSetEndOfQueue \/ MJoin
    BY <2>1 DEF MStart, MAnalyse, MAnalyseFails, MNextTree, MEndDir, MFinal, MSetEndOfQueue, MJoin
  <2>2. CASE MWalkEnds \/ MStatFails \/ MOpendirFails \/ MEntryUnreadable \/ MPassSelf \/ MVisit
    BY <2>2 DEF MWalkEnds, MStatFails, MOpendirFails, MEntryUnreadable, MPassSelf, MVisit, Visiting
  <2>3. CASE MReadBlock \/ MReadFails \/ MFileInterrupted \/ MFileRead
    BY <2>3 DEF MReadBlock, MReadFails, MFileInterrupted, MFileRead
  <2>4. CASE MSmallFile \/ MPutAside \/ MEnqueueBlock
    BY <2>4 DEF MSmallFile, MPutAside, MEnqueueBlock, Visiting
  <2>5. QED
    BY <2>1, <2>2, <2>3, <2>4
<1>2. OpenTree'
  BY <1>1 DEF Opened, OpenTree
<1>3. OpenFile'
  BY <1>1 DEF Opened, OpenFile
<1>4. QED
  BY <1>2, <1>3 DEF Opened

\* A record is added behind what is open.
LEMMA OpenedKept ==
  ASSUME BaseInv, Opened, NEW r \in Record, Sent' = Append(Sent, r),
         Walking' /\ IsFS => Walking /\ tree' = tree,
         InFile' => InFile /\ tree' = tree /\ entry' = entry,
         r.magic = "OBJT" => r.tree = tree /\ ~InFile'
  PROVE  Opened'
<1> USE GrammarTypes
<1>1. /\ \A p \in DOMAIN Sent : Sent'[p] = Sent[p] /\ p \in DOMAIN Sent'
      /\ \A p \in DOMAIN Sent' : p \in DOMAIN Sent \/ Sent'[p] = r
  BY Added
<1>2. OpenTree'
  <2> SUFFICES ASSUME Walking', IsFS
               PROVE  \E c \in DOMAIN Sent' :
                        /\ Sent'[c].magic = "FSYB" /\ Sent'[c].tree = tree
                        /\ \A q \in DOMAIN Sent' : q > c /\ Sent'[q].magic = "OBJT" => Sent'[q].tree = tree
    BY DEF OpenTree
  <2>1. PICK c \in DOMAIN Sent :
          /\ Sent[c].magic = "FSYB" /\ Sent[c].tree = tree
          /\ \A q \in DOMAIN Sent : q > c /\ Sent[q].magic = "OBJT" => Sent[q].tree = tree
    BY DEF Opened, OpenTree
  <2>2. QED
    BY <1>1, <2>1
<1>3. OpenFile'
  <2> SUFFICES ASSUME InFile'
               PROVE  \E c \in DOMAIN Sent' :
                        /\ Sent'[c].magic = "OBJT" /\ Sent'[c].tree = tree /\ Sent'[c].objs = <<entry>>
                        /\ \A q \in DOMAIN Sent' : q > c => Sent'[q].magic # "OBJT"
    BY DEF OpenFile
  <2>1. PICK c \in DOMAIN Sent :
          /\ Sent[c].magic = "OBJT" /\ Sent[c].tree = tree /\ Sent[c].objs = <<entry>>
          /\ \A q \in DOMAIN Sent : q > c => Sent[q].magic # "OBJT"
    BY DEF Opened, OpenFile
  <2>2. QED
    BY <1>1, <2>1
<1>4. QED
  BY <1>2, <1>3 DEF Opened

\* The headers of the archive and of its parts.
LEMMA OrderPart ==
  ASSUME BaseInv, EndInv, Grammar, Ordered(Sent), Opened,
         MWriteMainHead \/ MAnalyse \/ MBeginFS \/ MEndFS \/ MEndDirs
  PROVE  Ordered(Sent') /\ Opened'
<1> USE GrammarTypes DEF MGoto, MFail
<1>1. MainStep
  BY DEF MainStep
<1>2. ASSUME NEW m \in {"MAIN", "FSIN", "DIRS", "FSYB", "DATF"}, NEW f \in Nat, NEW k \in Nat,
             queue_add_header(Rec(m, f, <<>>, k)), Sent = <<>> => m = "MAIN",
             ~Walking' \/ (m = "FSYB" /\ f = tree /\ UNCHANGED tree /\ ~InFile'), ~InFile'
      PROVE  Ordered(Sent') /\ Opened'
  <2> DEFINE r == Rec(m, f, <<>>, k)
  <2>1. /\ r \in Record /\ ~r.packed /\ r.magic = m /\ r.tree = f
    <3>1. m \in Magic /\ <<>> \in Seq(Nat) /\ m # "BLKH"
      BY EmptySeq DEF Magic
    <3>2. QED
      BY <3>1, RecType DEF Rec
  <2>2. queue_add_header(r)
    BY <1>2
  <2> HIDE DEF r
  <2>3. Sent' = Append(Sent, r)
    BY <1>1, <2>1, <2>2, SentMore
  <2>4. Ordered(Sent')
    BY <1>2, <2>1, <2>3, PlainJoins, OrderMore
  <2>5. /\ Len(Sent) + 1 \in DOMAIN Sent' /\ Sent'[Len(Sent) + 1] = r
        /\ \A q \in DOMAIN Sent' : ~(q > Len(Sent) + 1)
    BY <2>1, <2>3, Added
  <2>6. Opened'
    BY <1>2, <2>1, <2>5 DEF Opened, OpenTree, OpenFile
  <2>7. QED
    BY <2>4, <2>6
<1>3. CASE MWriteMainHead
  <2>1. mpc' = "analyse" /\ queue_add_header(Rec("MAIN", 0, <<>>, 0))
    BY <1>3 DEF MWriteMainHead
  <2>2. QED
    BY <1>2, <2>1 DEF Walking, InFile
<1>4. Busy /\ mpc \notin {"start", "mainhead"} => Sent # <<>>
  BY DEF Grammar, BeginOK
<1>5. CASE MAnalyse
  <2>1. mpc = "analyse" /\ mpc' \in {"analyse", "trees"} /\ Sent # <<>>
    BY <1>4, <1>5 DEF MAnalyse, Busy
  <2>2. CASE queue_add_header(Rec("FSIN", 0, <<>>, tree))
    BY <1>2, <2>1, <2>2 DEF Walking, InFile
  <2>3. CASE queue_add_header(Rec("DIRS", 0, <<>>, 0))
    BY <1>2, <2>1, <2>3 DEF Walking, InFile
  <2>4. CASE UNCHANGED qvars
    <3>1. Sent' = Sent
      BY <1>1, <2>4, SentSame DEF qvars
    <3>2. QED
      BY <1>5, <3>1, OrderQuiet
  <2>5. QED
    BY <1>5, <2>2, <2>3, <2>4 DEF MAnalyse
<1>6. CASE MBeginFS
  <2>1. /\ mpc = "fsyb" /\ mpc' = "walk" /\ UNCHANGED tree /\ Sent # <<>>
        /\ queue_add_header(Rec("FSYB", tree, <<>>, 0))
    BY <1>4, <1>6 DEF MBeginFS, Busy
  <2>2. QED
    BY <1>2, <2>1 DEF InFile
<1>7. CASE MEndFS \/ MEndDirs
  <2>1. /\ mpc' \in {"trees", "cleanup", "final"} /\ Sent # <<>>
        /\ \E f \in Nat : queue_add_header(Rec("DATF", f, <<>>, 0))
    BY <1>4, <1>7 DEF MEndFS, MEndDirs, Busy
  <2>2. QED
    BY <1>2, <2>1 DEF Walking, InFile
<1>8. QED
  BY <1>3, <1>5, <1>6, <1>7

\* An object of the walk is behind every object of its tree, so no link to it can
\* be before it.
LEMMA OrderObject ==
  ASSUME BaseInv, EndInv, Grammar, LinksBack, Ordered(Sent), Opened, MAddObject
  PROVE  Ordered(Sent') /\ Opened'
<1> USE GrammarTypes DEF NextEntry
<1> DEFINE r == Rec("OBJT", tree, <<entry>>, 0)
<1>1. /\ r \in Record /\ ~r.packed /\ r.magic = "OBJT" /\ r.tree = tree /\ r.objs = <<entry>>
      /\ r.objs[1] = entry /\ Len(r.objs) = 1
  <2>1. <<entry>> \in Seq(Nat) /\ "OBJT" \in Magic
    BY DEF Magic
  <2>2. r \in Record /\ ~r.packed
    BY <2>1, RecType
  <2>3. QED
    BY <2>2 DEF Rec
<1>2. /\ mpc = "objt" /\ queue_add_header(r) /\ UNCHANGED tree
      /\ \/ mpc' = "file" /\ UNCHANGED entry
         \/ mpc' = "walk"
  BY DEF MAddObject
<1> HIDE DEF r
<1>3. Sent' = Append(Sent, r)
  BY <1>1, <1>2, SentMore DEF MainStep
<1>4. Busy /\ Walking /\ ~InFile
  BY <1>2 DEF Busy, Walking, InFile
<1>5. tree \in DOMAIN Trees /\ entry \in DOMAIN Trees[tree]
  BY <1>2 DEF BaseInv, InTree, InEntry
<1>6. ASSUME NEW p \in DOMAIN Sent, Sent[p].magic = "OBJT", Sent[p].tree = tree
      PROVE  Sent[p].objs[1] # r.objs[1] /\ ~LinksTo(Sent[p], r)
  <2>1. Sent[p].objs[1] \in Nat /\ Sent[p].objs[1] < entry
    BY <1>4, <1>6 DEF Grammar, ObjectsOK
  <2>2. NamesObject(Sent[p])
    BY <1>6 DEF Ordered
  <2>3. ~LinksTo(Sent[p], r)
    <3> DEFINE x == Sent[p].objs[1]
    <3>1. x \in DOMAIN Trees[tree] /\ x < entry /\ x \in Nat
      BY <1>6, <2>1, <2>2 DEF NamesObject
    <3>2. Trees[tree][x].kind = "link" => Trees[tree][x].size < x /\ Trees[tree][x].size \in DOMAIN Trees[tree]
      BY <1>5, <3>1 DEF LinksBack
    <3>3. DOMAIN Trees[tree] \subseteq Nat
      BY <1>5, TreesType
    <3>4. Trees[tree][x].kind = "link" => Trees[tree][x].size # entry
      BY <3>1, <3>2, <3>3
    <3>5. QED
      BY <1>1, <1>6, <3>4 DEF LinksTo, KindAt
  <2>4. QED
    BY <1>1, <2>1, <2>3
<1>7. NamesObject(r)
  BY <1>1, <1>5 DEF NamesObject
<1>8. JoinsOn(Sent, r)
  BY <1>1, <1>4, <1>6, <1>7, ObjectJoins DEF Opened
<1>9. Ordered(Sent')
  BY <1>1, <1>3, <1>8, OrderMore
<1>10. CASE mpc' = "walk"
  <2>1. ~InFile'
    BY <1>10 DEF InFile
  <2>2. QED
    BY <1>1, <1>2, <1>3, <1>4, <1>9, <2>1, OpenedKept
<1>11. CASE mpc' = "file" /\ UNCHANGED entry
  <2>1. /\ \A p \in DOMAIN Sent : Sent'[p] = Sent[p] /\ p \in DOMAIN Sent'
        /\ \A p \in DOMAIN Sent' : p \in DOMAIN Sent \/ p = Len(Sent) + 1
        /\ Sent'[Len(Sent) + 1] = r /\ Len(Sent) + 1 \in DOMAIN Sent'
    BY <1>1, <1>3, Added
  <2>2. OpenTree'
    <3> SUFFICES ASSUME IsFS
                 PROVE  \E c \in DOMAIN Sent' :
                          /\ Sent'[c].magic = "FSYB" /\ Sent'[c].tree = tree
                          /\ \A q \in DOMAIN Sent' : q > c /\ Sent'[q].magic = "OBJT" => Sent'[q].tree = tree
      BY <1>2 DEF OpenTree
    <3>1. PICK c \in DOMAIN Sent :
            /\ Sent[c].magic = "FSYB" /\ Sent[c].tree = tree
            /\ \A q \in DOMAIN Sent : q > c /\ Sent[q].magic = "OBJT" => Sent[q].tree = tree
      BY <1>4 DEF Opened, OpenTree
    <3>2. QED
      BY <1>1, <2>1, <3>1
  <2>3. OpenFile'
    <3>1. \A q \in DOMAIN Sent' : ~(q > Len(Sent) + 1)
      BY <2>1
    <3>2. QED
      BY <1>1, <1>2, <1>11, <2>1, <3>1 DEF OpenFile
  <2>4. QED
    BY <1>9, <2>2, <2>3 DEF Opened
<1>12. QED
  BY <1>2, <1>10, <1>11

\* A block or the footer of a file: its header is the last one.
LEMMA OrderData ==
  ASSUME BaseInv, EndInv, Grammar, Ordered(Sent), Opened, MAddBlock \/ MAddFooter
  PROVE  Ordered(Sent') /\ Opened'
<1> USE GrammarTypes DEF NextEntry, MGoto
<1> DEFINE m == IF mpc = "block" THEN "BLKH" ELSE "FILF"
           k == IF mpc = "block" THEN pos ELSE 0
           r == Rec(m, tree, <<entry>>, k)
<1>1. /\ r \in Record /\ ~r.packed /\ r.magic = m /\ r.tree = tree /\ r.objs = <<entry>>
      /\ r.objs[1] = entry /\ r.objs # <<>>
  <2>1. <<entry>> \in Seq(Nat) /\ m \in Magic /\ k \in Nat
    BY DEF Magic
  <2> HIDE DEF m, k
  <2>2. r \in Record /\ ~r.packed
    BY <2>1, RecType
  <2>3. QED
    BY <2>2 DEF Rec
<1>2. /\ UNCHANGED tree
      /\ \/ mpc = "block" /\ mpc' = "file" /\ entry' = entry
         \/ mpc = "filf" /\ mpc' = "walk"
      /\ queue_add_header(r) \/ queue_add_block(r, "todo")
  BY DEF MAddBlock, MAddFooter
<1> HIDE DEF r
<1>3. Sent' = Append(Sent, r)
  BY <1>1, <1>2, SentMore DEF MainStep
<1>4. Busy /\ Walking /\ InFile /\ (InFile' => entry' = entry)
  BY <1>2 DEF Busy, Walking, InFile
<1>5. /\ This.kind \in {"unique", "self"} /\ Sent # <<>>
      /\ mpc = "filf" => pos > 0 /\ pos = Blocks
  BY <1>4 DEF Grammar, FileOK
<1>6. KindAt(r) = This.kind /\ BlocksAt(r) = Blocks
  BY <1>1 DEF KindAt, BlocksAt, This, Blocks
<1>7. r.magic = "FILF" => EndsFile(r)
  BY <1>1, <1>2, <1>5, <1>6 DEF EndsFile, SavedAlone
<1>8. \E c \in DOMAIN Sent : /\ Sent[c].magic = "OBJT" /\ SameObject(Sent[c], r)
                             /\ \A q \in DOMAIN Sent : q > c => Sent[q].magic # "OBJT"
  BY <1>1, <1>4 DEF Opened, OpenFile, SameObject
<1>9. r.magic \in {"FILF", "BLKH"} /\ DOMAIN Sent \subseteq Nat
  BY <1>1
<1>10. JoinsOn(Sent, r)
  <2> HIDE DEF m, k
  <2>1. Sent # <<>>
    BY <1>5
  <2>2. QED
    BY <1>7, <1>8, <1>9, <2>1, DataJoins
<1>11. Ordered(Sent')
  BY <1>1, <1>3, <1>10, OrderMore
<1>12. QED
  BY <1>1, <1>2, <1>3, <1>4, <1>9, <1>11, OpenedKept

\* A small file is behind others that were visited later, but no link leads to it.
LEMMA OrderHeader ==
  ASSUME BaseInv, EndInv, Grammar, LinksBack, Ordered(Sent), Opened, MEnqueueHeader
  PROVE  Ordered(Sent') /\ Opened'
<1> USE GrammarTypes
<1> DEFINE e == multi[pos + 1]
           r == Rec("OBJT", tree, <<e>>, Len(multi))
<1>1. /\ mpc \in {"enqueue", "flush"} /\ pos < Len(multi)
      /\ queue_add_header(r)
      /\ UNCHANGED <<mpc, tree>>
  BY DEF MEnqueueHeader
<1>2. pos + 1 \in DOMAIN multi /\ e \in Nat
  BY <1>1
<1>3. /\ r \in Record /\ ~r.packed /\ r.magic = "OBJT" /\ r.tree = tree /\ r.objs = <<e>>
      /\ r.objs[1] = e /\ Len(r.objs) = 1
  <2>1. <<e>> \in Seq(Nat) /\ "OBJT" \in Magic
    BY <1>2 DEF Magic
  <2>2. r \in Record /\ ~r.packed
    BY <2>1, RecType
  <2>3. QED
    BY <2>2 DEF Rec
<1> HIDE DEF r
<1>4. Sent' = Append(Sent, r)
  BY <1>1, <1>3, SentMore DEF MainStep
<1>5. Busy /\ Walking /\ ~InFile' /\ Flushing
  BY <1>1 DEF Busy, Walking, InFile, Flushing
<1>6. tree \in DOMAIN Trees /\ e \in DOMAIN Trees[tree] /\ Trees[tree][e].kind = "multi"
  <2>1. tree \in DOMAIN Trees
    BY <1>1 DEF BaseInv, InTree
  <2>2. QED
    BY <1>2, <1>5, <2>1 DEF Grammar, AsideOK
<1>7. ASSUME NEW p \in DOMAIN Sent, Sent[p].magic = "OBJT", Sent[p].tree = tree
      PROVE  Sent[p].objs[1] # r.objs[1] /\ ~LinksTo(Sent[p], r)
  <2>1. \A k \in DOMAIN multi : multi[k] = Sent[p].objs[1] => k <= pos
    BY <1>5, <1>7 DEF Grammar, ObjectsOK
  <2>2. Sent[p].objs[1] # e
    BY <1>2, <2>1
  <2>3. NamesObject(Sent[p])
    BY <1>7 DEF Ordered
  <2>4. ~LinksTo(Sent[p], r)
    <3> DEFINE x == Sent[p].objs[1]
    <3>1. x \in DOMAIN Trees[tree]
      BY <1>7, <2>3 DEF NamesObject
    <3>2. Trees[tree][x].kind = "link" => Trees[tree][Trees[tree][x].size].kind # "multi"
      BY <1>6, <3>1 DEF LinksBack
    <3>3. Trees[tree][x].kind = "link" => Trees[tree][x].size # e
      BY <1>6, <3>2
    <3>4. QED
      BY <1>3, <1>7, <3>3 DEF LinksTo, KindAt
  <2>5. QED
    BY <1>3, <2>2, <2>4
<1>8. NamesObject(r)
  BY <1>3, <1>6 DEF NamesObject
<1>9. JoinsOn(Sent, r)
  <2>1. OpenTree
    BY DEF Opened
  <2> HIDE DEF e
  <2>2. QED
    BY <1>3, <1>5, <1>7, <1>8, <2>1, ObjectJoins
<1>10. Ordered(Sent')
  BY <1>3, <1>4, <1>9, OrderMore
<1>11. QED
  BY <1>1, <1>3, <1>4, <1>5, <1>10, OpenedKept

\* The block of a group is no block of a large file.
LEMMA OrderGroup ==
  ASSUME BaseInv, EndInv, Grammar, Ordered(Sent), Opened, MEnqueueBlock, multi # <<>>
  PROVE  Ordered(Sent') /\ Opened'
<1> USE GrammarTypes
<1> DEFINE r == Rec("BLKH", tree, multi, 0)
<1>1. /\ queue_add_block(r, "todo") /\ UNCHANGED tree
      /\ \/ mpc = "enqueue" /\ mpc' = "putaside"
         \/ mpc = "flush" /\ mpc' = "endtree"
  BY DEF MEnqueueBlock
<1>2. /\ r \in Record /\ ~r.packed /\ r.magic = "BLKH" /\ r.tree = tree /\ r.objs = multi
  <2>1. multi \in Seq(Nat) /\ "BLKH" \in Magic
    BY DEF Magic
  <2>2. r \in Record /\ ~r.packed
    BY <2>1, RecType
  <2>3. QED
    BY <2>2 DEF Rec
<1> HIDE DEF r
<1>3. Sent' = Append(Sent, r)
  BY <1>1, <1>2, SentMore DEF MainStep
<1>4. Busy /\ Walking /\ ~InFile' /\ Flushing
  BY <1>1 DEF Busy, Walking, InFile, Flushing
<1>5. 1 \in DOMAIN multi
  BY EmptySeq
<1>6. KindAt(r) = "multi"
  BY <1>2, <1>4, <1>5 DEF Grammar, AsideOK, KindAt
<1>7. ~LargeBlock(r) /\ Sent # <<>> /\ DOMAIN Sent \subseteq Nat
  BY <1>1, <1>4, <1>6 DEF LargeBlock, SavedAlone, Grammar, BeginOK
<1>8. JoinsOn(Sent, r)
  BY <1>2, <1>7, DataJoins
<1>9. Ordered(Sent')
  BY <1>2, <1>3, <1>8, OrderMore
<1>10. QED
  BY <1>1, <1>2, <1>3, <1>4, <1>9, OpenedKept

-----------------------------------------------------------------------------
\* Every step of the main thread.
LEMMA OrderMain ==
  ASSUME BaseInv, EndInv, Grammar, LinksBack, Ordered(Sent), Opened, MainStep
  PROVE  Ordered(Sent') /\ Opened'
<1>1. CASE MWriteMainHead \/ MAnalyse \/ MBeginFS \/ MEndFS \/ MEndDirs
  BY <1>1, OrderPart
<1>2. CASE MAddObject
  BY <1>2, OrderObject
<1>3. CASE MAddBlock \/ MAddFooter
  BY <1>3, OrderData
<1>4. CASE MEnqueueHeader
  BY <1>4, OrderHeader
<1>5. CASE MEnqueueBlock /\ multi # <<>>
  BY <1>5, OrderGroup
<1>6. ASSUME list' = list,
             \/ MStart \/ MAnalyseFails \/ MNextTree \/ MEndDir
             \/ MWalkEnds \/ MStatFails \/ MOpendirFails \/ MEntryUnreadable \/ MPassSelf \/ MVisit
             \/ MReadBlock \/ MReadFails \/ MFileInterrupted \/ MFileRead \/ MSmallFile \/ MPutAside
             \/ MEnqueueBlock
             \/ MFinal \/ MSetEndOfQueue \/ MJoin
      PROVE  Ordered(Sent') /\ Opened'
  <2>1. Sent' = Sent
    BY <1>6, SentSame
  <2>2. Ordered(Sent')
    BY <2>1
  <2>3. Opened'
    BY <1>6, <2>1, OrderQuiet
  <2>4. QED
    BY <2>2, <2>3
<1>7. CASE MStart \/ MAnalyseFails \/ MNextTree \/ MEndDir
  BY <1>6, <1>7 DEF MStart, MAnalyseFails, MNextTree, MEndDir, qvars
<1>8. CASE MWalkEnds \/ MStatFails \/ MOpendirFails \/ MEntryUnreadable \/ MPassSelf \/ MVisit
  BY <1>6, <1>8 DEF MWalkEnds, MStatFails, MOpendirFails, MEntryUnreadable, MPassSelf, MVisit, qvars
<1>9. CASE MReadBlock \/ MReadFails \/ MFileInterrupted \/ MFileRead \/ MSmallFile \/ MPutAside
  BY <1>6, <1>9 DEF MReadBlock, MReadFails, MFileInterrupted, MFileRead, MSmallFile, MPutAside, qvars
<1>10. CASE MEnqueueBlock /\ multi = <<>>
  BY <1>6, <1>10 DEF MEnqueueBlock, qvars
<1>11. CASE MFinal \/ MSetEndOfQueue \/ MJoin
  BY <1>6, <1>11 DEF MFinal, MSetEndOfQueue, MJoin, queue_set_end_of_queue, qvars
<1>12. QED
  BY <1>1, <1>2, <1>3, <1>4, <1>5, <1>7, <1>8, <1>9, <1>10, <1>11 DEF MainStep

\* The order of what is stored is the order of what was queued.
LEMMA TakenOrder ==
  ASSUME BaseInv, BaseInv', Ordered(Written(data)), ~Broken => Ordered(Sent), Taken
  PROVE  Ordered(Written(data)')
<1> DEFINE w == Written(data)'
<1>1. w = Written(data) \/ (~Broken /\ w \in Seq(Record) /\ Len(w) <= Len(Sent)
                              /\ \A i \in 1 .. Len(w) : Sent[i] = w[i])
  BY TakenPrefix
<1>2. Sent \in Seq(Record)
  BY SentType
<1> HIDE DEF w
<1>3. (\A i \in 1 .. Len(w) : Sent[i] = w[i]) => \A i \in 1 .. Len(w) : Says(Sent[i], w[i])
  BY DEF Says
<1>4. Ordered(w)
  BY <1>1, <1>2, <1>3, OrderPrefix
<1>5. QED
  BY <1>4 DEF w

\* At the beginning there are no records.
LEMMA OrderInit == Init => OrderInv
<1> SUFFICES ASSUME Init PROVE OrderInv
  OBVIOUS
<1>1. BaseInv /\ list = <<>> /\ data = <<>> /\ wpc = "none" /\ mpc = "start"
  BY BaseInit DEF Init, queue_init, archwriter_init
<1>2. Queued(list) = <<>> /\ Written(data) = <<>> /\ Held = <<>>
  BY <1>1 DEF Queued, Written, Held, WriterHolds
<1>3. Sent = <<>>
  BY <1>1, <1>2, HeldType, Mapping, ConcatEmptySeq DEF Sent
<1>4. Ordered(<<>>)
  BY DEF Ordered
<1>5. QED
  BY <1>1, <1>2, <1>3, <1>4 DEF OrderInv, Opened, OpenTree, OpenFile, Walking, InFile

LEMMA OrderStep ==
  ASSUME BaseInv, BaseInv', EndInv, EndInv', WorkOwned, LinksBack, GramInv, OrderInv, [Next]_vars
  PROVE  OrderInv'
<1>1. CASE MainStep
  <2>1. /\ Written(data)' = Written(data)
        /\ Broken' <=> Broken
    BY <1>1, MainAside
  <2>2. CASE ~Broken
    <3>1. Grammar /\ Ordered(Sent) /\ Opened
      BY <2>2 DEF GramInv, OrderInv
    <3>2. Ordered(Sent') /\ Opened'
      BY <1>1, <3>1, OrderMain
    <3>3. QED
      BY <2>1, <3>2 DEF OrderInv
  <2>3. CASE Broken
    BY <2>1, <2>3 DEF OrderInv
  <2>4. QED
    BY <2>2, <2>3
<1>2. ASSUME Taken, UNCHANGED mvars
      PROVE  OrderInv'
  <2>1. Ordered(Written(data)')
    BY <1>2, TakenOrder DEF OrderInv
  <2>2. ASSUME ~Broken'
        PROVE  Ordered(Sent)' /\ Opened'
    <3>1. ~Broken /\ Sent' = Sent
      BY <1>2, <2>2, TakenPrefix
    <3>2. Ordered(Sent) /\ Opened
      BY <3>1 DEF OrderInv
    <3>3. UNCHANGED <<mpc, tree, entry>>
      BY <1>2 DEF mvars
    <3>4. QED
      BY <3>1, <3>2, <3>3 DEF Opened, OpenTree, OpenFile, Walking, InFile
  <2>3. QED
    BY <2>1, <2>2 DEF OrderInv
<1>3. ASSUME NEW t \in CompThreads, CompStep(t)
      PROVE  OrderInv'
  BY <1>2, <1>3, CompStreamStep
  DEF Taken, CompStep, CTake, CReplace, CFail, CExit
<1>4. CASE WriterStep
  <2>1. UNCHANGED mvars
    BY <1>4 DEF WriterStep, WCreate, WCreateFails, WVolHeader, WDequeue, WSplit, WWriteRecord,
       WLastFooter, WWriteFails, WError, WDrain, WElsewhere
  <2>2. QED
    BY <1>2, <1>4, <2>1, WriterStreamStep
<1>5. CASE Signal \/ UNCHANGED vars
  <2>1. UNCHANGED <<qvars, avars, stop, mvars, wvars>>
    BY <1>5 DEF Signal, vars
  <2>2. /\ Held' = Held /\ Queued(list)' = Queued(list)
        /\ Broken' <=> Broken
        /\ Sealed' <=> Sealed
    BY <2>1 DEF qvars, avars, wvars, Held, WriterHolds, Queued, Broken, Sealed
  <2>3. Taken
    BY <2>1, <2>2, Stutter DEF qvars, avars, Taken
  <2>4. QED
    BY <1>2, <2>1, <2>3
<1>6. QED
  BY <1>1, <1>3, <1>4, <1>5 DEF Next, Done
-----------------------------------------------------------------------------
(***************************************************************************)
(* What the success of a restore relies on: the order of Unbroken, of one  *)
(* sequence of records.  Only a save that has noted an error leaves the    *)
(* footer of a file out.                                                   *)
(***************************************************************************)
Parted(s) == \A p, q \in DOMAIN s : p < q => EndsApart(s[p], s[q])

Closed(s) ==
  \A p, q \in DOMAIN s : p < q /\ Closing(s[p]) /\ s[q].magic = "OBJT" =>
    \E c \in DOMAIN s : p < c /\ c < q /\ Footer(s[c], s[p])

\* A save of directories writes one end, the last record.
EndIsLast ==
  /\ mpc = "datf" => ~IsFS
  /\ ~IsFS /\ mpc \notin {"final", "cleanup", "join", "done"} =>
       \A p \in DOMAIN Sent : Sent[p].magic # "DATF"

\* Every file but the one that is read has its footer.
FootersOK ==
  \A p \in DOMAIN Sent : Closing(Sent[p]) =>
    \/ \E c \in DOMAIN Sent : p < c /\ Footer(Sent[c], Sent[p])
    \/ InFile /\ Sent[p].tree = tree /\ Sent[p].objs = <<entry>>

CleanInv ==
  /\ Parted(Written(data))
  /\ ~errs => Closed(Written(data))
  /\ ~Broken => Parted(Sent) /\ EndIsLast /\ (~errs => Closed(Sent) /\ FootersOK)
  /\ mpc = "done" /\ ret = 0 => ~errs

-----------------------------------------------------------------------------
\* The order depends on what the records say only.
LEMMA SaysEnds ==
  ASSUME NEW a, NEW b, NEW c, NEW d, Says(a, b), Says(c, d)
  PROVE  /\ EndsApart(a, c) <=> EndsApart(b, d)
         /\ Closing(a) <=> Closing(b)
         /\ Footer(a, c) <=> Footer(b, d)
<1>1. EndsFile(a) <=> EndsFile(b)
  BY SaysAlike
<1>2. /\ a.magic = b.magic /\ a.tree = b.tree /\ a.objs = b.objs
      /\ c.magic = d.magic /\ c.tree = d.tree /\ c.objs = d.objs
  BY DEF Says
<1>3. QED
  BY <1>1, <1>2 DEF EndsApart, Closing, Footer, SameObject

\* The beginning of an archive has it when the archive has it.
LEMMA CleanPrefix ==
  ASSUME NEW s \in Seq(Record), NEW t \in Seq(Record), Len(s) <= Len(t),
         \A i \in 1 .. Len(s) : Says(t[i], s[i])
  PROVE  /\ Parted(t) => Parted(s)
         /\ Closed(t) => Closed(s)
<1>1. /\ Len(s) \in Nat /\ DOMAIN s = 1 .. Len(s)
      /\ Len(t) \in Nat /\ DOMAIN t = 1 .. Len(t)
      /\ \A p \in DOMAIN s : p \in DOMAIN t /\ p \in Nat /\ Says(t[p], s[p])
  BY LenProperties
<1>2. ASSUME Parted(t)
      PROVE  Parted(s)
  BY <1>1, <1>2, SaysEnds DEF Parted
<1>3. ASSUME Closed(t)
      PROVE  Closed(s)
  <2> SUFFICES ASSUME NEW p \in DOMAIN s, NEW q \in DOMAIN s, p < q,
                      Closing(s[p]), s[q].magic = "OBJT"
               PROVE  \E c \in DOMAIN s : p < c /\ c < q /\ Footer(s[c], s[p])
    BY DEF Closed
  <2>1. p \in DOMAIN t /\ q \in DOMAIN t /\ Says(t[p], s[p]) /\ Says(t[q], s[q])
    BY <1>1
  <2>2. Closing(t[p]) /\ t[q].magic = "OBJT"
    BY <2>1, SaysEnds DEF Says
  <2>3. PICK c \in DOMAIN t : p < c /\ c < q /\ Footer(t[c], t[p])
    BY <1>3, <2>1, <2>2 DEF Closed
  <2>4. c \in DOMAIN s
    BY <1>1, <2>3
  <2>5. Footer(s[c], s[p])
    BY <1>1, <2>1, <2>3, <2>4, SaysEnds
  <2>6. QED
    BY <2>3, <2>4, <2>5
<1>4. QED
  BY <1>2, <1>3

\* A record is added: it is of no file system that has ended, ...
LEMMA PartedAdded ==
  ASSUME BaseInv, Parted(Sent), NEW r \in Record, Sent' = Append(Sent, r),
         \A p \in DOMAIN Sent : EndsApart(Sent[p], r)
  PROVE  Parted(Sent')
<1>1. /\ \A p \in DOMAIN Sent : Sent'[p] = Sent[p]
      /\ Sent'[Len(Sent) + 1] = r
      /\ \A p \in DOMAIN Sent' : p \in DOMAIN Sent \/ p = Len(Sent) + 1
      /\ Len(Sent) \in Nat /\ DOMAIN Sent = 1 .. Len(Sent)
  BY Added, GrammarTypes
<1> SUFFICES ASSUME NEW p \in DOMAIN Sent', NEW q \in DOMAIN Sent', p < q
             PROVE  EndsApart(Sent'[p], Sent'[q])
  BY DEF Parted
<1>2. p \in DOMAIN Sent
  BY <1>1
<1>3. QED
  BY <1>1, <1>2 DEF Parted

\* ... and if it is an object, no file is open; what was open still is, or it is the footer.
LEMMA ClosedAdded ==
  ASSUME BaseInv, Closed(Sent), FootersOK, NEW r \in Record, Sent' = Append(Sent, r),
         r.magic = "OBJT" => ~InFile,
         InFile => \/ r.magic = "FILF" /\ r.tree = tree /\ r.objs = <<entry>>
                   \/ InFile' /\ UNCHANGED <<tree, entry>>,
         Closing(r) => InFile' /\ r.tree = tree' /\ r.objs = <<entry'>>
  PROVE  Closed(Sent') /\ FootersOK'
<1>1. /\ \A p \in DOMAIN Sent : Sent'[p] = Sent[p] /\ p \in DOMAIN Sent' /\ p < Len(Sent) + 1
      /\ Sent'[Len(Sent) + 1] = r /\ Len(Sent) + 1 \in DOMAIN Sent'
      /\ \A p \in DOMAIN Sent' : p \in DOMAIN Sent \/ p = Len(Sent) + 1
      /\ Len(Sent) \in Nat /\ DOMAIN Sent = 1 .. Len(Sent)
  BY Added, GrammarTypes
<1>2. Closed(Sent')
  <2> SUFFICES ASSUME NEW p \in DOMAIN Sent', NEW q \in DOMAIN Sent', p < q,
                      Closing(Sent'[p]), Sent'[q].magic = "OBJT"
               PROVE  \E c \in DOMAIN Sent' : p < c /\ c < q /\ Footer(Sent'[c], Sent'[p])
    BY DEF Closed
  <2>1. p \in DOMAIN Sent /\ Sent'[p] = Sent[p]
    BY <1>1
  <2>2. \E c \in DOMAIN Sent : p < c /\ c < q /\ Footer(Sent[c], Sent[p])
    <3>1. CASE q \in DOMAIN Sent
      BY <1>1, <2>1, <3>1 DEF Closed
    <3>2. CASE q = Len(Sent) + 1
      <4>1. ~InFile
        BY <1>1, <3>2
      <4>2. PICK c \in DOMAIN Sent : p < c /\ Footer(Sent[c], Sent[p])
        BY <2>1, <4>1 DEF FootersOK
      <4>3. QED
        BY <1>1, <3>2, <4>2
    <3>3. QED
      BY <1>1, <3>1, <3>2
  <2>3. QED
    BY <1>1, <2>1, <2>2
<1>3. ASSUME NEW p \in DOMAIN Sent', Closing(Sent'[p])
      PROVE  \/ \E c \in DOMAIN Sent' : p < c /\ Footer(Sent'[c], Sent'[p])
             \/ InFile' /\ Sent'[p].tree = tree' /\ Sent'[p].objs = <<entry'>>
  <2>1. CASE p = Len(Sent) + 1
    BY <1>1, <1>3, <2>1
  <2>2. CASE p \in DOMAIN Sent
    <3>1. CASE \E c \in DOMAIN Sent : p < c /\ Footer(Sent[c], Sent[p])
      BY <1>1, <2>2, <3>1
    <3>2. CASE InFile /\ Sent[p].tree = tree /\ Sent[p].objs = <<entry>>
      <4>1. CASE InFile' /\ UNCHANGED <<tree, entry>>
        BY <1>1, <2>2, <3>2, <4>1
      <4>2. CASE r.magic = "FILF" /\ r.tree = tree /\ r.objs = <<entry>>
        <5>1. Footer(Sent'[Len(Sent) + 1], Sent'[p])
          BY <1>1, <2>2, <3>2, <4>2 DEF Footer, SameObject
        <5>2. QED
          BY <1>1, <2>2, <5>1
      <4>3. QED
        BY <3>2, <4>1, <4>2
    <3>3. QED
      BY <1>1, <1>3, <2>2, <3>1, <3>2 DEF FootersOK
  <2>3. QED
    BY <1>1, <2>1, <2>2
<1>4. FootersOK'
  BY <1>3 DEF FootersOK
<1>5. QED
  BY <1>2, <1>4

-----------------------------------------------------------------------------
\* An error stays noted, and decides the result in the end.
LEMMA ErrorsStay ==
  ASSUME MainStep, errs, errs \in BOOLEAN
  PROVE  errs'
<1>1. CASE MPassSelf \/ MSmallFile \/ MPutAside \/ MReadBlock
  BY <1>1 DEF MPassSelf, MSmallFile, MPutAside, MReadBlock
<1>2. CASE MEntryUnreadable \/ MReadFails \/ MFileInterrupted
  BY <1>2 DEF MEntryUnreadable, MReadFails, MFileInterrupted
<1>3. CASE \/ MStart \/ MWriteMainHead \/ MAnalyse \/ MAnalyseFails \/ MNextTree \/ MBeginFS
           \/ MWalkEnds \/ MStatFails \/ MOpendirFails \/ MVisit \/ MAddObject
  BY <1>3 DEF MStart, MWriteMainHead, MAnalyse, MAnalyseFails, MNextTree, MBeginFS, MWalkEnds,
              MStatFails, MOpendirFails, MVisit, MAddObject
<1>4. CASE \/ MAddBlock \/ MFileRead \/ MAddFooter \/ MEnqueueHeader \/ MEnqueueBlock
           \/ MEndFS \/ MEndDir \/ MEndDirs \/ MFinal \/ MSetEndOfQueue \/ MJoin
  BY <1>4 DEF MAddBlock, MFileRead, MAddFooter, MEnqueueHeader, MEnqueueBlock, MEndFS, MEndDir,
              MEndDirs, MFinal, MSetEndOfQueue, MJoin
<1>5. QED
  BY <1>1, <1>2, <1>3, <1>4 DEF MainStep

LEMMA ErrorsTell ==
  ASSUME MainStep, mpc' = "done", ret' = 0
  PROVE  ~errs'
<1>1. MJoin
  <2> USE DEF MGoto, MFail, NextEntry
  <2>1. ~(\/ MStart \/ MWriteMainHead \/ MAnalyse \/ MAnalyseFails \/ MNextTree \/ MBeginFS
          \/ MWalkEnds \/ MStatFails \/ MOpendirFails \/ MEntryUnreadable \/ MPassSelf \/ MVisit)
    BY DEF MStart, MWriteMainHead, MAnalyse, MAnalyseFails, MNextTree, MBeginFS, MWalkEnds,
           MStatFails, MOpendirFails, MEntryUnreadable, MPassSelf, MVisit
  <2>2. ~(\/ MAddObject \/ MReadBlock \/ MReadFails \/ MAddBlock \/ MFileInterrupted \/ MFileRead
          \/ MAddFooter \/ MSmallFile \/ MPutAside)
    BY DEF MAddObject, MReadBlock, MReadFails, MAddBlock, MFileInterrupted, MFileRead, MAddFooter,
           MSmallFile, MPutAside, Visiting
  <2>3. ~(MEnqueueHeader \/ MEnqueueBlock \/ MEndFS \/ MEndDir \/ MEndDirs \/ MFinal \/ MSetEndOfQueue)
    BY DEF MEnqueueHeader, MEnqueueBlock, MEndFS, MEndDir, MEndDirs, MFinal, MSetEndOfQueue
  <2>4. QED
    BY <2>1, <2>2, <2>3 DEF MainStep
<1>2. QED
  BY <1>1 DEF MJoin

\* Steps that queue nothing.
LEMMA CleanQuiet ==
  ASSUME BaseInv, EndIsLast, ~errs => FootersOK, Sent' = Sent,
         \/ MStart \/ MAnalyse \/ MAnalyseFails \/ MNextTree \/ MEndDir
         \/ MWalkEnds \/ MStatFails \/ MOpendirFails \/ MEntryUnreadable \/ MPassSelf \/ MVisit
         \/ MReadBlock \/ MReadFails \/ MFileInterrupted \/ MFileRead \/ MSmallFile \/ MPutAside
         \/ MEnqueueBlock
         \/ MFinal \/ MSetEndOfQueue \/ MJoin
  PROVE  EndIsLast' /\ (~errs' => FootersOK')
<1> USE DEF MGoto, MFail, NextEntry
<1>1. MainStep
  BY DEF MainStep
<1>2. /\ mpc' = "datf" => ~IsFS
      /\ ~IsFS /\ mpc' \notin {"final", "cleanup", "join", "done"} =>
           mpc \notin {"final", "cleanup", "join", "done"}
      /\ InFile /\ ~errs' => \/ InFile' /\ UNCHANGED <<tree, entry>>
                             \/ Blocks <= 0
  <2> USE DEF InFile
  <2>1. CASE MStart \/ MAnalyse \/ MAnalyseFails \/ MNextTree \/ MEndDir \/ MFinal \/ MSetEndOfQueue \/ MJoin
    BY <2>1 DEF MStart, MAnalyse, MAnalyseFails, MNextTree, MEndDir, MFinal, MSetEndOfQueue, MJoin
  <2>2. CASE MWalkEnds \/ MStatFails \/ MOpendirFails \/ MEntryUnreadable \/ MPassSelf \/ MVisit
    BY <2>2 DEF MWalkEnds, MStatFails, MOpendirFails, MEntryUnreadable, MPassSelf, MVisit, Visiting
  <2>3. CASE MReadBlock \/ MReadFails \/ MFileInterrupted
    BY <2>3 DEF MReadBlock, MReadFails, MFileInterrupted
  <2>4. CASE MFileRead
    <3>1. Blocks > 0 \/ Blocks <= 0
      <4>1. mpc = "file" => Blocks \in Int
        BY ThisType DEF BaseInv, InTree, InEntry
      <4>2. QED
        BY <2>4, <4>1 DEF MFileRead
    <3>2. QED
      BY <2>4, <3>1 DEF MFileRead
  <2>5. CASE MSmallFile \/ MPutAside \/ MEnqueueBlock
    BY <2>5 DEF MSmallFile, MPutAside, MEnqueueBlock, Visiting
  <2>6. QED
    BY <2>1, <2>2, <2>3, <2>4, <2>5
<1>3. EndIsLast'
  BY <1>2 DEF EndIsLast
<1>4. ASSUME ~errs', NEW p \in DOMAIN Sent, Closing(Sent[p])
      PROVE  \/ \E c \in DOMAIN Sent : p < c /\ Footer(Sent[c], Sent[p])
             \/ InFile' /\ Sent[p].tree = tree' /\ Sent[p].objs = <<entry'>>
  <2>1. ~errs
    BY <1>1, <1>4, ErrorsStay DEF BaseInv, MainTypeOK
  <2>2. CASE InFile /\ Sent[p].tree = tree /\ Sent[p].objs = <<entry>>
    <3>1. BlocksAt(Sent[p]) = Blocks
      BY <2>2 DEF BlocksAt, KindAt, Blocks, This
    <3>2. Blocks > 0 /\ Blocks \in Int
      BY <1>4, <2>2, <3>1, ThisType DEF Closing, EndsFile, BaseInv, InTree, InEntry, InFile
    <3>3. QED
      BY <1>2, <1>4, <2>2, <3>2
  <2>3. QED
    BY <1>4, <2>1, <2>2 DEF FootersOK
<1>5. ~errs' => FootersOK'
  BY <1>4 DEF FootersOK
<1>6. QED
  BY <1>3, <1>5

\* The headers of the archive and of its parts; the end of a file system is the
\* first one of it, and that of the directories the only one.
LEMMA CleanPart ==
  ASSUME BaseInv, EndInv, Grammar, Parted(Sent), EndIsLast, ~errs => Closed(Sent) /\ FootersOK,
         MWriteMainHead \/ MAnalyse \/ MBeginFS \/ MEndFS \/ MEndDirs
  PROVE  Parted(Sent') /\ EndIsLast' /\ (~errs' => Closed(Sent') /\ FootersOK')
<1> USE GrammarTypes DEF MGoto, MFail
<1>1. MainStep
  BY DEF MainStep
<1>2. ASSUME NEW m \in {"MAIN", "FSIN", "DIRS", "FSYB", "DATF"}, NEW f \in Nat, NEW k \in Nat,
             queue_add_header(Rec(m, f, <<>>, k)), ~InFile, UNCHANGED errs,
             m = "DATF" => \A p \in DOMAIN Sent :
                             Sent[p].magic = "DATF" => IsFS /\ Sent[p].tree < f,
             m = "DATF" /\ ~IsFS => mpc' \in {"final", "cleanup", "join", "done"},
             mpc' # "datf",
             mpc' \notin {"final", "cleanup", "join", "done"} =>
               mpc \notin {"final", "cleanup", "join", "done"}
      PROVE  Parted(Sent') /\ EndIsLast' /\ (~errs' => Closed(Sent') /\ FootersOK')
  <2> DEFINE r == Rec(m, f, <<>>, k)
  <2>1. /\ r \in Record /\ ~r.packed /\ r.magic = m /\ r.tree = f
    <3>1. m \in Magic /\ <<>> \in Seq(Nat) /\ m # "BLKH"
      BY EmptySeq DEF Magic
    <3>2. QED
      BY <3>1, RecType DEF Rec
  <2>2. queue_add_header(r)
    BY <1>2
  <2> HIDE DEF r
  <2>3. Sent' = Append(Sent, r)
    BY <1>1, <2>1, <2>2, SentMore
  <2>4. \A p \in DOMAIN Sent : EndsApart(Sent[p], r)
    BY <1>2, <2>1 DEF EndsApart
  <2>5. Parted(Sent')
    BY <2>1, <2>3, <2>4, PartedAdded
  <2>6. r.magic # "OBJT" /\ ~Closing(r)
    BY <2>1 DEF Closing
  <2>7. ~errs' => Closed(Sent') /\ FootersOK'
    BY <1>2, <2>1, <2>3, <2>6, ClosedAdded
  <2>8. EndIsLast'
    BY <1>2, <2>1, <2>3, Added DEF EndIsLast
  <2>9. QED
    BY <2>5, <2>7, <2>8
<1>3. CASE MWriteMainHead
  <2>1. mpc = "mainhead" /\ mpc' = "analyse" /\ queue_add_header(Rec("MAIN", 0, <<>>, 0)) /\ UNCHANGED errs
    BY <1>3 DEF MWriteMainHead
  <2>2. QED
    BY <1>2, <2>1 DEF InFile
<1>4. CASE MAnalyse
  <2>1. mpc = "analyse" /\ mpc' \in {"analyse", "trees"} /\ UNCHANGED errs
    BY <1>4 DEF MAnalyse
  <2>2. CASE queue_add_header(Rec("FSIN", 0, <<>>, tree))
    BY <1>2, <2>1, <2>2 DEF InFile
  <2>3. CASE queue_add_header(Rec("DIRS", 0, <<>>, 0))
    BY <1>2, <2>1, <2>3 DEF InFile
  <2>4. CASE UNCHANGED qvars
    <3>1. Sent' = Sent
      BY <1>1, <2>4, SentSame DEF qvars
    <3>2. EndIsLast' /\ (~errs' => FootersOK')
      BY <1>4, <3>1, CleanQuiet
    <3>3. QED
      BY <2>1, <3>1, <3>2
  <2>5. QED
    BY <1>4, <2>2, <2>3, <2>4 DEF MAnalyse
<1>5. CASE MBeginFS
  <2>1. mpc = "fsyb" /\ mpc' = "walk" /\ queue_add_header(Rec("FSYB", tree, <<>>, 0)) /\ UNCHANGED errs
    BY <1>5 DEF MBeginFS
  <2>2. QED
    BY <1>2, <2>1 DEF InFile
<1>6. CASE MEndFS
  <2>1. /\ IsFS /\ mpc = "endtree" /\ mpc' \in {"cleanup", "trees"} /\ UNCHANGED errs
        /\ queue_add_header(Rec("DATF", tree, <<>>, 0))
    BY <1>6 DEF MEndFS
  <2>2. \A p \in DOMAIN Sent : Sent[p].magic = "DATF" => Sent[p].tree < tree
    BY <2>1 DEF Grammar, EndsOK, Busy
  <2>3. QED
    BY <1>2, <2>1, <2>2 DEF InFile
<1>7. CASE MEndDirs
  <2>1. /\ mpc = "datf" /\ mpc' = "final" /\ UNCHANGED errs
        /\ queue_add_header(Rec("DATF", 0, <<>>, 0))
    BY <1>7 DEF MEndDirs
  <2>2. \A p \in DOMAIN Sent : Sent[p].magic = "DATF" => IsFS /\ Sent[p].tree < 0
    <3>1. ~IsFS => \A p \in DOMAIN Sent : Sent[p].magic # "DATF"
      BY <2>1 DEF EndIsLast
    <3>2. ~IsFS
      BY <2>1 DEF EndIsLast
    <3>3. QED
      BY <3>1, <3>2
  <2>3. QED
    BY <1>2, <2>1, <2>2 DEF InFile
<1>8. QED
  BY <1>3, <1>4, <1>5, <1>6, <1>7

\* An object of the walk, and the blocks and the footer of a file.
LEMMA CleanFile ==
  ASSUME BaseInv, EndInv, Grammar, Parted(Sent), EndIsLast, ~errs => Closed(Sent) /\ FootersOK,
         MAddObject \/ MAddBlock \/ MAddFooter
  PROVE  Parted(Sent') /\ EndIsLast' /\ (~errs' => Closed(Sent') /\ FootersOK')
<1> USE GrammarTypes DEF NextEntry, MGoto
<1> DEFINE m == IF mpc = "objt" THEN "OBJT" ELSE IF mpc = "block" THEN "BLKH" ELSE "FILF"
           k == IF mpc = "block" THEN pos ELSE 0
           r == Rec(m, tree, <<entry>>, k)
<1>1. /\ r \in Record /\ ~r.packed /\ r.magic = m /\ r.tree = tree /\ r.objs = <<entry>>
      /\ m \in {"OBJT", "BLKH", "FILF"}
  <2>1. <<entry>> \in Seq(Nat) /\ m \in Magic /\ k \in Nat /\ m \in {"OBJT", "BLKH", "FILF"}
    BY DEF Magic
  <2> HIDE DEF m, k
  <2>2. r \in Record /\ ~r.packed
    BY <2>1, RecType
  <2>3. QED
    BY <2>1, <2>2 DEF Rec
<1>2. /\ UNCHANGED <<tree, errs>>
      /\ mpc' \in {"file", "walk"}
      /\ \/ mpc = "objt" /\ m = "OBJT"
         \/ mpc = "block" /\ m = "BLKH" /\ mpc' = "file" /\ entry' = entry
         \/ mpc = "filf" /\ m = "FILF"
      /\ mpc = "objt" /\ This.kind \in {"unique", "self"} => mpc' = "file" /\ entry' = entry
      /\ queue_add_header(r) \/ queue_add_block(r, "todo")
  BY DEF MAddObject, MAddBlock, MAddFooter
<1>3. Closing(r) => mpc = "objt" /\ This.kind \in {"unique", "self"}
  <2>1. KindAt(r) = This.kind
    BY <1>1 DEF KindAt, This
  <2>2. Closing(r) => mpc = "objt"
    BY <1>1, <1>2 DEF Closing
  <2>3. QED
    BY <2>1, <2>2 DEF Closing, EndsFile, SavedAlone
<1>4. Sent' = Append(Sent, r)
  <2> HIDE DEF r
  <2>1. QED
    BY <1>1, <1>2, SentMore DEF MainStep
<1>5. Walking /\ Busy /\ mpc \notin {"final", "cleanup", "join", "done"}
  BY <1>2 DEF Walking, Busy
<1> HIDE DEF r
<1>6. \A p \in DOMAIN Sent : Sent[p].magic = "DATF" => IsFS /\ Sent[p].tree < tree
  BY <1>5 DEF EndIsLast, Grammar, EndsOK
<1>7. Parted(Sent')
  BY <1>1, <1>4, <1>6, PartedAdded DEF EndsApart
<1>8. /\ r.magic = "OBJT" => ~InFile
      /\ InFile => \/ r.magic = "FILF" /\ r.tree = tree /\ r.objs = <<entry>>
                   \/ InFile' /\ UNCHANGED <<tree, entry>>
      /\ Closing(r) => InFile' /\ r.tree = tree' /\ r.objs = <<entry'>>
  BY <1>1, <1>2, <1>3 DEF InFile
<1>9. ASSUME ~errs'
      PROVE  Closed(Sent') /\ FootersOK'
  <2>1. Closed(Sent) /\ FootersOK
    BY <1>2, <1>9
  <2> HIDE DEF m, k
  <2>2. QED
    BY <1>1, <1>4, <1>8, <2>1, ClosedAdded
<1>10. EndIsLast'
  BY <1>1, <1>2, <1>4, <1>5, Added DEF EndIsLast
<1>11. QED
  BY <1>7, <1>9, <1>10

\* A group of small files.
LEMMA CleanGroup ==
  ASSUME BaseInv, EndInv, Grammar, Parted(Sent), EndIsLast, ~errs => Closed(Sent) /\ FootersOK,
         MEnqueueHeader \/ (MEnqueueBlock /\ multi # <<>>)
  PROVE  Parted(Sent') /\ EndIsLast' /\ (~errs' => Closed(Sent') /\ FootersOK')
<1> USE GrammarTypes
<1>1. /\ mpc \in {"enqueue", "flush"} /\ UNCHANGED <<tree, errs>>
      /\ mpc' \in {"enqueue", "flush", "putaside", "endtree"}
  BY DEF MEnqueueHeader, MEnqueueBlock
<1>2. ASSUME NEW m \in {"OBJT", "BLKH"}, NEW o \in Seq(Nat), NEW k \in Nat,
             m = "OBJT" => \E e \in DOMAIN Trees[tree] : o = <<e>> /\ Trees[tree][e].kind = "multi",
             \/ m = "OBJT" /\ queue_add_header(Rec(m, tree, o, k))
             \/ queue_add_block(Rec(m, tree, o, k), "todo")
      PROVE  Parted(Sent') /\ EndIsLast' /\ (~errs' => Closed(Sent') /\ FootersOK')
  <2> DEFINE r == Rec(m, tree, o, k)
  <2>1. /\ r \in Record /\ ~r.packed /\ r.magic = m /\ r.tree = tree /\ r.objs = o
    <3>1. m \in Magic
      BY DEF Magic
    <3>2. QED
      BY <1>2, <3>1, RecType DEF Rec
  <2>2. queue_add_header(r) \/ queue_add_block(r, "todo")
    BY <1>2
  <2> HIDE DEF r
  <2>3. Sent' = Append(Sent, r)
    BY <2>1, <2>2, SentMore DEF MainStep
  <2>4. ~InFile /\ Busy /\ mpc \notin {"final", "cleanup", "join", "done"}
    BY <1>1 DEF InFile, Busy
  <2>5. \A p \in DOMAIN Sent : Sent[p].magic = "DATF" => IsFS /\ Sent[p].tree < tree
    BY <2>4 DEF EndIsLast, Grammar, EndsOK
  <2>6. Parted(Sent')
    BY <1>2, <2>1, <2>3, <2>5, PartedAdded DEF EndsApart
  <2>7. ~Closing(r)
    BY <1>2, <2>1 DEF Closing, EndsFile, SavedAlone, KindAt
  <2>8. ~errs' => Closed(Sent') /\ FootersOK'
    BY <1>1, <2>1, <2>3, <2>4, <2>7, ClosedAdded
  <2>9. EndIsLast'
    BY <1>1, <1>2, <2>1, <2>3, <2>4, Added DEF EndIsLast
  <2>10. QED
    BY <2>6, <2>8, <2>9
<1>3. CASE MEnqueueHeader
  <2> DEFINE e == multi[pos + 1]
  <2>1. pos + 1 \in DOMAIN multi /\ queue_add_header(Rec("OBJT", tree, <<e>>, Len(multi)))
    BY <1>3 DEF MEnqueueHeader
  <2>2. e \in DOMAIN Trees[tree] /\ Trees[tree][e].kind = "multi" /\ e \in Nat
    BY <1>1, <2>1 DEF Grammar, AsideOK, Walking
  <2> HIDE DEF e
  <2>3. <<e>> \in Seq(Nat)
    BY <2>2
  <2>4. QED
    BY <1>2, <2>1, <2>2, <2>3
<1>4. CASE MEnqueueBlock /\ multi # <<>>
  <2>1. queue_add_block(Rec("BLKH", tree, multi, 0), "todo")
    BY <1>4 DEF MEnqueueBlock
  <2>2. QED
    BY <1>2, <2>1
<1>5. QED
  BY <1>3, <1>4

-----------------------------------------------------------------------------
\* Every step of the main thread.
LEMMA CleanMain ==
  ASSUME BaseInv, EndInv, Grammar, Parted(Sent), EndIsLast, ~errs => Closed(Sent) /\ FootersOK,
         MainStep
  PROVE  Parted(Sent') /\ EndIsLast' /\ (~errs' => Closed(Sent') /\ FootersOK')
<1>1. CASE MWriteMainHead \/ MAnalyse \/ MBeginFS \/ MEndFS \/ MEndDirs
  BY <1>1, CleanPart
<1>2. CASE MAddObject \/ MAddBlock \/ MAddFooter
  BY <1>2, CleanFile
<1>3. CASE MEnqueueHeader \/ (MEnqueueBlock /\ multi # <<>>)
  BY <1>3, CleanGroup
<1>4. ASSUME list' = list,
             \/ MStart \/ MAnalyseFails \/ MNextTree \/ MEndDir
             \/ MWalkEnds \/ MStatFails \/ MOpendirFails \/ MEntryUnreadable \/ MPassSelf \/ MVisit
             \/ MReadBlock \/ MReadFails \/ MFileInterrupted \/ MFileRead \/ MSmallFile \/ MPutAside
             \/ MEnqueueBlock
             \/ MFinal \/ MSetEndOfQueue \/ MJoin
      PROVE  Parted(Sent') /\ EndIsLast' /\ (~errs' => Closed(Sent') /\ FootersOK')
  <2>1. Sent' = Sent
    BY <1>4, SentSame
  <2>2. EndIsLast' /\ (~errs' => FootersOK')
    BY <1>4, <2>1, CleanQuiet
  <2>3. ~errs' => ~errs
    BY ErrorsStay DEF BaseInv, MainTypeOK
  <2>4. QED
    BY <2>1, <2>2, <2>3
<1>5. CASE MStart \/ MAnalyseFails \/ MNextTree \/ MEndDir
  BY <1>4, <1>5 DEF MStart, MAnalyseFails, MNextTree, MEndDir, qvars
<1>6. CASE MWalkEnds \/ MStatFails \/ MOpendirFails \/ MEntryUnreadable \/ MPassSelf \/ MVisit
  BY <1>4, <1>6 DEF MWalkEnds, MStatFails, MOpendirFails, MEntryUnreadable, MPassSelf, MVisit, qvars
<1>7. CASE MReadBlock \/ MReadFails \/ MFileInterrupted \/ MFileRead \/ MSmallFile \/ MPutAside
  BY <1>4, <1>7 DEF MReadBlock, MReadFails, MFileInterrupted, MFileRead, MSmallFile, MPutAside, qvars
<1>8. CASE MEnqueueBlock /\ multi = <<>>
  BY <1>4, <1>8 DEF MEnqueueBlock, qvars
<1>9. CASE MFinal \/ MSetEndOfQueue \/ MJoin
  BY <1>4, <1>9 DEF MFinal, MSetEndOfQueue, MJoin, queue_set_end_of_queue, qvars
<1>10. QED
  BY <1>1, <1>2, <1>3, <1>5, <1>6, <1>7, <1>8, <1>9 DEF MainStep

\* At the beginning there are no records.
LEMMA CleanInit == Init => CleanInv
<1> SUFFICES ASSUME Init PROVE CleanInv
  OBVIOUS
<1>1. BaseInv /\ list = <<>> /\ data = <<>> /\ wpc = "none" /\ mpc = "start"
  BY BaseInit DEF Init, queue_init, archwriter_init
<1>2. Queued(list) = <<>> /\ Written(data) = <<>> /\ Held = <<>>
  BY <1>1 DEF Queued, Written, Held, WriterHolds
<1>3. Sent = <<>>
  BY <1>1, <1>2, HeldType, Mapping, ConcatEmptySeq DEF Sent
<1>4. Parted(<<>>) /\ Closed(<<>>)
  BY DEF Parted, Closed
<1>5. EndIsLast /\ FootersOK
  BY <1>1, <1>3 DEF EndIsLast, FootersOK
<1>6. QED
  BY <1>1, <1>2, <1>3, <1>4, <1>5 DEF CleanInv

\* What is stored is the beginning of what was queued.
LEMMA TakenClean ==
  ASSUME BaseInv, BaseInv', CleanInv, Taken, UNCHANGED mvars
  PROVE  CleanInv'
<1> DEFINE w == Written(data)'
<1>1. w = Written(data) \/ (~Broken /\ w \in Seq(Record) /\ Len(w) <= Len(Sent)
                              /\ \A i \in 1 .. Len(w) : Sent[i] = w[i])
  BY TakenPrefix
<1>2. Sent \in Seq(Record)
  BY SentType
<1> HIDE DEF w
<1>3. (\A i \in 1 .. Len(w) : Sent[i] = w[i]) => \A i \in 1 .. Len(w) : Says(Sent[i], w[i])
  BY DEF Says
<1>4. UNCHANGED <<mpc, tree, entry, errs, ret>>
  BY DEF mvars
<1>5. Parted(w) /\ (~errs' => Closed(w))
  <2>1. CASE w = Written(data)
    BY <1>4, <2>1 DEF CleanInv
  <2>2. CASE ~Broken /\ w \in Seq(Record) /\ Len(w) <= Len(Sent)
             /\ \A i \in 1 .. Len(w) : Sent[i] = w[i]
    BY <1>2, <1>3, <1>4, <2>2, CleanPrefix DEF CleanInv
  <2>3. QED
    BY <1>1, <2>1, <2>2
<1>6. ASSUME ~Broken'
      PROVE  Parted(Sent)' /\ EndIsLast' /\ (~errs' => Closed(Sent)' /\ FootersOK')
  <2>1. ~Broken /\ Sent' = Sent
    BY <1>6, TakenPrefix
  <2>2. Parted(Sent) /\ EndIsLast /\ (~errs => Closed(Sent) /\ FootersOK)
    BY <2>1 DEF CleanInv
  <2>3. QED
    BY <1>4, <2>1, <2>2 DEF EndIsLast, FootersOK, InFile
<1>7. mpc' = "done" /\ ret' = 0 => ~errs'
  BY <1>4 DEF CleanInv
<1>8. QED
  BY <1>5, <1>6, <1>7 DEF CleanInv, w

LEMMA CleanStep ==
  ASSUME BaseInv, BaseInv', EndInv, EndInv', WorkOwned, GramInv, CleanInv, [Next]_vars
  PROVE  CleanInv'
<1>1. CASE MainStep
  <2>1. /\ Written(data)' = Written(data)
        /\ Broken' <=> Broken
    BY <1>1, MainAside
  <2>2. mpc' = "done" /\ ret' = 0 => ~errs'
    BY <1>1, ErrorsTell
  <2>3. ~errs' => ~errs
    BY <1>1, ErrorsStay DEF BaseInv, MainTypeOK
  <2>4. CASE ~Broken
    <3>1. Grammar /\ Parted(Sent) /\ EndIsLast /\ (~errs => Closed(Sent) /\ FootersOK)
      BY <2>4 DEF GramInv, CleanInv
    <3>2. Parted(Sent') /\ EndIsLast' /\ (~errs' => Closed(Sent') /\ FootersOK')
      BY <1>1, <3>1, CleanMain
    <3>3. QED
      BY <2>1, <2>2, <2>3, <3>2 DEF CleanInv
  <2>5. CASE Broken
    BY <2>1, <2>2, <2>3, <2>5 DEF CleanInv
  <2>6. QED
    BY <2>4, <2>5
<1>2. ASSUME NEW t \in CompThreads, CompStep(t)
      PROVE  CleanInv'
  BY <1>2, TakenClean, CompStreamStep
  DEF Taken, CompStep, CTake, CReplace, CFail, CExit
<1>3. CASE WriterStep
  <2>1. UNCHANGED mvars
    BY <1>3 DEF WriterStep, WCreate, WCreateFails, WVolHeader, WDequeue, WSplit, WWriteRecord,
       WLastFooter, WWriteFails, WError, WDrain, WElsewhere
  <2>2. QED
    BY <1>3, <2>1, TakenClean, WriterStreamStep
<1>4. CASE Signal \/ UNCHANGED vars
  <2>1. UNCHANGED <<qvars, avars, stop, mvars, wvars>>
    BY <1>4 DEF Signal, vars
  <2>2. /\ Held' = Held /\ Queued(list)' = Queued(list)
        /\ Broken' <=> Broken
        /\ Sealed' <=> Sealed
    BY <2>1 DEF qvars, avars, wvars, Held, WriterHolds, Queued, Broken, Sealed
  <2>3. Taken
    BY <2>1, <2>2, Stutter DEF qvars, avars, Taken
  <2>4. QED
    BY <2>1, <2>3, TakenClean
<1>5. QED
  BY <1>1, <1>2, <1>3, <1>4 DEF Next, Done
=============================================================================
