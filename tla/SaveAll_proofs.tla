--------------------------- MODULE SaveAll_proofs ---------------------------
(***************************************************************************)
(* A save operation that succeeds has saved everything, for any trees,     *)
(* threads, limits and faults.  The records of an entry are counted: there *)
(* are none of an entry the main thread has not come to, those of the part *)
(* of a file that has been read, the header of a small file that is put    *)
(* aside when it has been queued, and all of an entry that is behind, if   *)
(* nothing has gone wrong.                                                 *)
(***************************************************************************)
EXTENDS SaveFormat_proofs

\* The records of an entry, and those of them with a magic.
At(s, f, e) == {p \in DOMAIN s : s[p].tree = f /\ \E k \in DOMAIN s[p].objs : s[p].objs[k] = e}

Of(s, f, e, m) == {p \in At(s, f, e) : s[p].magic = m}

Has(s, f, e, m, n) == Cardinality(Of(s, f, e, m)) = n

Aside(e) == \E k \in DOMAIN multi : multi[k] = e

\* The entries that the main thread has come to have records, and no others.
ReachedOK ==
  Busy =>
    \A f, e \in Nat : At(Sent, f, e) # {} =>
      /\ mpc # "analyse"
      /\ f <= tree
      /\ f = tree => Walking /\ (e < entry \/ (e = entry /\ InFile))

\* The file that is being read.
FileCount ==
  InFile => /\ Has(Sent, tree, entry, "OBJT", 1)
            /\ Has(Sent, tree, entry, "BLKH", pos)
            /\ Has(Sent, tree, entry, "FILF", 0)

\* The small files put aside, whose headers are queued first.
AsideCount ==
  Walking =>
    \A k \in DOMAIN multi :
      IF Flushing /\ k <= pos
        THEN Has(Sent, tree, multi[k], "OBJT", 1) /\ Has(Sent, tree, multi[k], "BLKH", 0)
        ELSE At(Sent, tree, multi[k]) = {}

CountInv == ReachedOK /\ FileCount /\ AsideCount

InFull(s, f, e) ==
  LET x == Trees[f][e]
  IN  /\ Has(s, f, e, "OBJT", 1)
      /\ x.kind = "unique" => /\ Has(s, f, e, "BLKH", x.size)
                              /\ Has(s, f, e, "FILF", IF x.size = 0 THEN 0 ELSE 1)
      /\ x.kind = "multi" => Has(s, f, e, "BLKH", 1)

\* Below a directory that could not be opened, whose entries are all behind.
Unopened(s, f, e, behind) ==
  \E d \in 1 .. e : /\ Trees[f][d].kind = "dir"
                    /\ e <= d + Trees[f][d].size
                    /\ \A x \in d .. (d + Trees[f][d].size) : At(s, f, x) = {} /\ x \in behind

Covered(s, f, e, behind) ==
  Trees[f][e].kind = "self" \/ InFull(s, f, e) \/ Unopened(s, f, e, behind)

Behind == {x \in Nat : x < entry /\ ~Aside(x)}

\* Nothing has gone wrong so far.
Fine == ~errs /\ (IF Busy THEN ~interrupted ELSE ret = 0)

\* The walk ends early for a failure only, which it reports.
WalkOK ==
  /\ mpc # "datf"
  /\ mpc = "fsyb" \/ Walking => walkret = 0 \/ mpc \in {"flush", "endtree"}
  /\ mpc \in {"flush", "endtree"} /\ walkret = 0 => entry > Len(Trees[tree])

\* What is behind is covered: the trees before this one, the part of it that is
\* behind, and in the end all of it.
TreesBehind ==
  mpc \in {"trees", "fsyb"} \/ Walking =>
    \A f \in DOMAIN Trees : f < tree => \A e \in DOMAIN Trees[f] : Covered(Sent, f, e, Nat)

EntriesBehind ==
  Walking /\ walkret = 0 =>
    \A e \in DOMAIN Trees[tree] : e \in Behind => Covered(Sent, tree, e, Behind)

AllBehind ==
  mpc = "final" \/ ~Busy =>
    \A f \in DOMAIN Trees : \A e \in DOMAIN Trees[f] : Covered(Sent, f, e, Nat)

CoverBody == WalkOK /\ TreesBehind /\ EntriesBehind /\ AllBehind

CoverOK == IsFS /\ Fine => CoverBody

-----------------------------------------------------------------------------
\* Of an entry there are finitely many records.
LEMMA AtFinite ==
  ASSUME NEW s \in Seq(Record), NEW f, NEW e, NEW m
  PROVE  /\ IsFiniteSet(Of(s, f, e, m)) /\ Cardinality(Of(s, f, e, m)) \in Nat
         /\ Of(s, f, e, m) \subseteq At(s, f, e) /\ At(s, f, e) \subseteq 1 .. Len(s)
         /\ At(s, f, e) = {} => Has(s, f, e, m, 0)
<1>1. DOMAIN s = 1 .. Len(s) /\ Len(s) \in Nat
  BY LenProperties
<1>2. Of(s, f, e, m) \subseteq At(s, f, e) /\ At(s, f, e) \subseteq 1 .. Len(s)
  BY <1>1 DEF Of, At
<1>3. IsFiniteSet(1 .. Len(s))
  BY <1>1, FS_Interval
<1>4. IsFiniteSet(Of(s, f, e, m))
  BY <1>2, <1>3, FS_Subset
<1>5. Cardinality(Of(s, f, e, m)) \in Nat
  BY <1>4, FS_CardinalityType
<1>6. At(s, f, e) = {} => Of(s, f, e, m) = {}
  BY <1>2
<1>7. QED
  BY <1>2, <1>4, <1>5, <1>6, FS_EmptySet DEF Has

\* What a record more changes of these sets, and of what is counted.
LEMMA AtMore ==
  ASSUME NEW s \in Seq(Record), NEW r \in Record, NEW f, NEW e,
         r.tree = f => \A k \in DOMAIN r.objs : r.objs[k] # e
  PROVE  /\ At(Append(s, r), f, e) = At(s, f, e)
         /\ \A m, n : Has(Append(s, r), f, e, m, n) <=> Has(s, f, e, m, n)
<1> DEFINE t == Append(s, r)
<1>1. /\ DOMAIN t = 1 .. Len(s) + 1 /\ DOMAIN s = 1 .. Len(s) /\ Len(s) \in Nat
      /\ \A p \in 1 .. Len(s) : t[p] = s[p]
      /\ t[Len(s) + 1] = r
  BY AppendProperties, LenProperties
<1> HIDE DEF t
<1>2. At(t, f, e) = At(s, f, e)
  BY <1>1 DEF At
<1>3. \A p \in At(s, f, e) : t[p] = s[p]
  BY <1>1 DEF At
<1>4. \A m : Of(t, f, e, m) = Of(s, f, e, m)
  BY <1>2, <1>3 DEF Of
<1>5. QED
  BY <1>2, <1>4 DEF Has, t

LEMMA AtOne ==
  ASSUME NEW s \in Seq(Record), NEW r \in Record, NEW f, NEW e, NEW k \in DOMAIN r.objs,
         r.tree = f, r.objs[k] = e
  PROVE  \A m : \A n \in Nat :
           /\ m # r.magic => (Has(Append(s, r), f, e, m, n) <=> Has(s, f, e, m, n))
           /\ m = r.magic => (Has(Append(s, r), f, e, m, n + 1) <=> Has(s, f, e, m, n))
<1> DEFINE t == Append(s, r)
<1>1. /\ DOMAIN t = 1 .. Len(s) + 1 /\ DOMAIN s = 1 .. Len(s) /\ Len(s) \in Nat
      /\ \A p \in 1 .. Len(s) : t[p] = s[p]
      /\ t[Len(s) + 1] = r
  BY AppendProperties, LenProperties
<1> HIDE DEF t
<1>2. At(t, f, e) = At(s, f, e) \cup {Len(s) + 1}
  BY <1>1 DEF At
<1>3. \A p \in At(s, f, e) : t[p] = s[p] /\ p # Len(s) + 1
  BY <1>1 DEF At
<1>4. \A m : /\ m # r.magic => Of(t, f, e, m) = Of(s, f, e, m)
             /\ m = r.magic => Of(t, f, e, m) = Of(s, f, e, m) \cup {Len(s) + 1}
  BY <1>1, <1>2, <1>3 DEF Of
<1>5. \A m : Cardinality(Of(s, f, e, m) \cup {Len(s) + 1}) = Cardinality(Of(s, f, e, m)) + 1
  <2> SUFFICES ASSUME NEW m
               PROVE  Cardinality(Of(s, f, e, m) \cup {Len(s) + 1}) = Cardinality(Of(s, f, e, m)) + 1
    OBVIOUS
  <2>1. IsFiniteSet(Of(s, f, e, m)) /\ Len(s) + 1 \notin Of(s, f, e, m)
    BY <1>1, <1>3, AtFinite
  <2>2. QED
    BY <2>1, FS_AddElement
<1>6. \A m : Cardinality(Of(s, f, e, m)) \in Nat
  BY AtFinite
<1>7. QED
  BY <1>4, <1>5, <1>6 DEF Has, t

LEMMA CoveredMore ==
  ASSUME NEW s, NEW f, NEW e, NEW b, NEW c, b \subseteq c, Covered(s, f, e, b)
  PROVE  Covered(s, f, e, c)
BY DEF Covered, Unopened

-----------------------------------------------------------------------------
\* What a step changes of the counts: the entries X of the tree get a record more,
\* with this magic.
Adds(m, X) ==
  /\ \A f, x \in Nat : f # tree \/ x \notin X =>
       /\ At(Sent', f, x) = At(Sent, f, x)
       /\ \A l, n : Has(Sent', f, x, l, n) <=> Has(Sent, f, x, l, n)
  /\ \A x \in X : \A n \in Nat :
       /\ \A l : l # m => (Has(Sent', tree, x, l, n) <=> Has(Sent, tree, x, l, n))
       /\ Has(Sent', tree, x, m, n + 1) <=> Has(Sent, tree, x, m, n)

LEMMA AddsNone ==
  ASSUME Sent' = Sent, NEW m
  PROVE  Adds(m, {})
BY DEF Adds

LEMMA AddsSome ==
  ASSUME BaseInv, EndInv, MainStep,
         NEW m \in Magic, NEW f \in Nat, NEW o \in Seq(Nat), NEW k \in Nat,
         queue_add_header(Rec(m, f, o, k)) \/ queue_add_block(Rec(m, f, o, k), "todo"),
         f = tree \/ o = <<>>
  PROVE  Adds(m, {o[i] : i \in DOMAIN o})
<1> DEFINE r == Rec(m, f, o, k)
           X == {o[i] : i \in DOMAIN o}
<1>1. r \in Record /\ ~r.packed /\ r.magic = m /\ r.tree = f /\ r.objs = o
  BY RecType DEF Rec
<1>2. queue_add_header(r) \/ queue_add_block(r, "todo")
  OBVIOUS
<1> HIDE DEF r
<1>3. Sent' = Append(Sent, r) /\ Sent \in Seq(Record)
  BY <1>1, <1>2, SentMore, SentType
<1>4. ASSUME NEW g \in Nat, NEW x \in Nat, g # tree \/ x \notin X
      PROVE  /\ At(Sent', g, x) = At(Sent, g, x)
             /\ \A l, n : Has(Sent', g, x, l, n) <=> Has(Sent, g, x, l, n)
  <2>1. r.tree = g => \A i \in DOMAIN r.objs : r.objs[i] # x
    BY <1>1, <1>4, EmptySeq
  <2>2. QED
    BY <1>1, <1>3, <2>1, AtMore
<1>5. ASSUME NEW x \in X, NEW n \in Nat
      PROVE  /\ \A l : l # m => (Has(Sent', tree, x, l, n) <=> Has(Sent, tree, x, l, n))
             /\ Has(Sent', tree, x, m, n + 1) <=> Has(Sent, tree, x, m, n)
  <2>1. PICK i \in DOMAIN o : o[i] = x
    OBVIOUS
  <2>2. r.tree = tree /\ i \in DOMAIN r.objs /\ r.objs[i] = x
    BY <1>1, <2>1, EmptySeq
  <2>3. QED
    BY <1>1, <1>3, <2>2, AtOne
<1>6. QED
  BY <1>4, <1>5 DEF Adds

LEMMA AddsPart ==
  ASSUME BaseInv, EndInv, MainStep, NEW m \in Magic, NEW f \in Nat, NEW k \in Nat,
         queue_add_header(Rec(m, f, <<>>, k))
  PROVE  Adds(m, {})
<1>1. <<>> \in Seq(Nat) /\ {(<<>>)[i] : i \in DOMAIN <<>>} = {}
  BY EmptySeq
<1>2. QED
  BY <1>1, AddsSome

LEMMA AddsOne ==
  ASSUME BaseInv, EndInv, MainStep, NEW m \in Magic, NEW e \in Nat, NEW k \in Nat,
         \/ queue_add_header(Rec(m, tree, <<e>>, k))
         \/ queue_add_block(Rec(m, tree, <<e>>, k), "todo")
  PROVE  Adds(m, {e})
<1>1. <<e>> \in Seq(Nat) /\ DOMAIN <<e>> = {1} /\ (<<e>>)[1] = e
  OBVIOUS
<1>2. {(<<e>>)[i] : i \in DOMAIN <<e>>} = {e}
  BY <1>1
<1>3. tree \in Nat
  BY GrammarTypes
<1>4. QED
  BY <1>1, <1>2, <1>3, AddsSome

\* A record of other entries leaves one that is covered so.
LEMMA CoveredKept ==
  ASSUME BaseInv, NEW m, NEW X, Adds(m, X),
         NEW f \in DOMAIN Trees, NEW e \in DOMAIN Trees[f], NEW b,
         e \in b \/ f # tree, f # tree \/ b \cap X = {},
         Covered(Sent, f, e, b)
  PROVE  Covered(Sent', f, e, b)
<1>1. f \in Nat /\ e \in Nat
  BY TreesType
<1>2. \A x \in Nat : x \in b \/ f # tree =>
        /\ At(Sent', f, x) = At(Sent, f, x)
        /\ \A l, n : Has(Sent', f, x, l, n) <=> Has(Sent, f, x, l, n)
  BY <1>1 DEF Adds
<1>3. CASE InFull(Sent, f, e)
  BY <1>1, <1>2, <1>3 DEF InFull, Covered
<1>4. CASE Unopened(Sent, f, e, b)
  <2>1. PICK d \in 1 .. e : /\ Trees[f][d].kind = "dir"
                            /\ e <= d + Trees[f][d].size
                            /\ \A x \in d .. (d + Trees[f][d].size) : At(Sent, f, x) = {} /\ x \in b
    BY <1>4 DEF Unopened
  <2>2. \A x \in d .. (d + Trees[f][d].size) : x \in Nat /\ At(Sent', f, x) = {}
    BY <1>1, <1>2, <2>1
  <2>3. QED
    BY <2>1, <2>2 DEF Unopened, Covered
<1>5. QED
  BY <1>3, <1>4 DEF Covered

\* What has no records yet.
LEMMA NotReached ==
  ASSUME ReachedOK, Busy, NEW f \in Nat, NEW e \in Nat,
         mpc = "analyse" \/ f > tree \/ (f = tree /\ ~(Walking /\ (e < entry \/ (e = entry /\ InFile)))),
         tree \in Nat
  PROVE  At(Sent, f, e) = {} /\ \A m : Has(Sent, f, e, m, 0)
<1>1. At(Sent, f, e) = {}
  BY DEF ReachedOK
<1>2. \A m : Of(Sent, f, e, m) = {}
  BY <1>1 DEF Of
<1>3. QED
  BY <1>1, <1>2, FS_EmptySet DEF Has

-----------------------------------------------------------------------------
\* The counts, in a step that adds no record of an entry.
LEMMA CountMoves ==
  ASSUME BaseInv, CountInv, NEW m, Adds(m, {}), UNCHANGED <<tree, multi>>,
         mpc \in {"walk", "objt", "file", "block", "filf", "putaside"},
         mpc' \in {"walk", "objt", "file", "block", "filf", "enqueue", "flush"},
         entry' \in Nat,
         entry' > entry \/ (entry' = entry /\ (InFile => InFile')),
         Flushing' => pos' = 0,
         InFile' => InFile /\ UNCHANGED <<entry, pos>>
  PROVE  CountInv'
<1> USE DEF CountInv
<1>0. /\ tree \in Nat /\ entry \in Nat /\ pos \in Nat /\ Busy /\ Walking /\ Walking' /\ ~Flushing
      /\ mpc' # "analyse"
      /\ \A k \in DOMAIN multi : k \in Nat \ {0} /\ multi[k] \in Nat
  BY GrammarTypes DEF Busy, Walking, Flushing
<1>1. ReachedOK'
  BY <1>0 DEF ReachedOK, Adds
<1>2. FileCount'
  BY <1>0 DEF FileCount, Adds
<1>3. AsideCount'
  BY <1>0 DEF AsideCount, Adds
<1>4. QED
  BY <1>1, <1>2, <1>3

LEMMA CountLeaves ==
  ASSUME BaseInv, CountInv, NEW m, Adds(m, {}),
         mpc \in {"trees", "endtree", "analyse", "fsyb", "datf"},
         mpc' \in {"trees", "fsyb", "datf", "final", "walk"},
         mpc' = "walk" => mpc \in {"trees", "fsyb"} /\ multi' = <<>>,
         \/ tree' = tree /\ mpc \notin {"endtree", "analyse"}
         \/ tree' = tree + 1 /\ mpc = "endtree"
         \/ mpc = "analyse"
  PROVE  CountInv'
<1> USE DEF CountInv
<1>1. tree \in Nat /\ Busy /\ (Walking => mpc = "endtree") /\ mpc' # "analyse"
  BY GrammarTypes DEF Busy, Walking
<1>2. ReachedOK'
  BY <1>1 DEF ReachedOK, Adds
<1>3. FileCount'
  BY DEF FileCount, InFile
<1>4. AsideCount'
  BY EmptySeq DEF AsideCount, Walking
<1>5. QED
  BY <1>2, <1>3, <1>4

LEMMA CountAside ==
  ASSUME BaseInv, CountInv, NEW m, Adds(m, {}), UNCHANGED tree,
         mpc \in {"walk", "putaside"}, mpc' = "walk",
         multi' = Append(multi, entry), entry' = entry + 1
  PROVE  CountInv'
<1> USE DEF CountInv
<1>0. /\ tree \in Nat /\ entry \in Nat /\ Busy /\ Walking /\ Walking'
      /\ ~Flushing /\ ~InFile /\ ~InFile' /\ ~Flushing'
      /\ \A k \in DOMAIN multi : multi[k] \in Nat
  BY GrammarTypes DEF Busy, Walking, Flushing, InFile
<1>1. /\ \A k \in DOMAIN multi : multi'[k] = multi[k]
      /\ multi'[Len(multi) + 1] = entry
      /\ \A k \in DOMAIN multi' : k \in DOMAIN multi \/ k = Len(multi) + 1
  <2>1. Len(multi') = Len(multi) + 1 /\ DOMAIN multi' = 1 .. Len(multi') /\ multi \in Seq(Nat)
        /\ Len(multi) \in Nat /\ DOMAIN multi = 1 .. Len(multi)
    BY GrammarTypes, AppendProperties, LenProperties
  <2>2. QED
    BY <2>1, <1>0, AppendProperties
<1>2. ReachedOK'
  BY <1>0 DEF ReachedOK, Adds
<1>3. FileCount'
  BY <1>0 DEF FileCount
<1>4. At(Sent', tree, entry) = {}
  BY <1>0, NotReached DEF Adds
<1>5. \A k \in DOMAIN multi : At(Sent', tree, multi[k]) = {}
  BY <1>0 DEF AsideCount, Adds
<1>6. AsideCount'
  BY <1>0, <1>1, <1>4, <1>5 DEF AsideCount
<1>7. QED
  BY <1>2, <1>3, <1>6

LEMMA CountStarts ==
  ASSUME CountInv, NEW m, Adds(m, {}), mpc' = "analyse", mpc \in {"mainhead", "analyse"},
         mpc = "mainhead" => \A f, e \in Nat : At(Sent, f, e) = {}
  PROVE  CountInv'
<1>1. ReachedOK'
  BY DEF CountInv, ReachedOK, Adds, Busy
<1>2. QED
  BY <1>1 DEF CountInv, FileCount, AsideCount, InFile, Walking

LEMMA CountEnds ==
  ASSUME mpc' \in {"mainhead", "cleanup", "join", "done"},
         Busy' => Sent' = <<>>
  PROVE  CountInv'
<1>1. Busy' => \A f, e \in Nat : At(Sent', f, e) = {}
  BY DEF At
<1>2. ReachedOK'
  BY <1>1 DEF ReachedOK
<1>3. QED
  BY <1>2 DEF CountInv, FileCount, AsideCount, InFile, Walking

LEMMA CountObject ==
  ASSUME BaseInv, EndInv, Grammar, CountInv, MAddObject
  PROVE  Adds("OBJT", {entry}) /\ CountInv'
<1> USE DEF CountInv, NextEntry
<1>1. /\ mpc = "objt" /\ UNCHANGED <<tree, multi>> /\ queue_add_header(Rec("OBJT", tree, <<entry>>, 0))
      /\ \/ mpc' = "file" /\ This.kind \in {"unique", "self"} /\ UNCHANGED <<entry, pos>>
         \/ mpc' = "walk" /\ entry' = entry + 1 /\ pos' = 0
  BY DEF MAddObject
<1>2. /\ tree \in Nat /\ entry \in Nat /\ Busy /\ Walking /\ Walking' /\ ~Flushing /\ ~Flushing'
      /\ ~InFile /\ mpc' # "analyse" /\ "OBJT" \in Magic
      /\ \A k \in DOMAIN multi : multi[k] \in Nat
  BY <1>1, GrammarTypes DEF Busy, Walking, Flushing, InFile, Magic
<1>3. Adds("OBJT", {entry})
  BY <1>1, <1>2, AddsOne DEF MainStep
<1>4. ReachedOK'
  BY <1>1, <1>2, <1>3 DEF ReachedOK, Adds, InFile
<1>5. FileCount'
  <2>1. \A n : Has(Sent, tree, entry, n, 0)
    BY <1>2, NotReached
  <2>2. /\ Has(Sent', tree, entry, "OBJT", 0 + 1)
        /\ Has(Sent', tree, entry, "BLKH", 0)
        /\ Has(Sent', tree, entry, "FILF", 0)
    BY <1>3, <2>1 DEF Adds
  <2>3. InFile' => pos' = 0 /\ entry' = entry
    BY <1>1 DEF Grammar, FileOK, InFile
  <2>4. QED
    BY <1>1, <2>2, <2>3 DEF FileCount
<1>6. AsideCount'
  <2>1. \A k \in DOMAIN multi : multi[k] # entry
    BY <1>2 DEF Grammar, AsideOK
  <2>2. QED
    BY <1>1, <1>2, <1>3, <2>1 DEF AsideCount, Adds
<1>7. QED
  BY <1>3, <1>4, <1>5, <1>6

LEMMA CountData ==
  ASSUME BaseInv, EndInv, Grammar, CountInv, MAddBlock \/ MAddFooter
  PROVE  Adds(IF mpc = "block" THEN "BLKH" ELSE "FILF", {entry}) /\ CountInv'
<1> USE DEF CountInv, NextEntry, MGoto
<1> DEFINE m == IF mpc = "block" THEN "BLKH" ELSE "FILF"
<1>1. /\ UNCHANGED <<tree, multi>>
      /\ \/ mpc = "block" /\ mpc' = "file" /\ pos' = pos + 1 /\ entry' = entry
            /\ queue_add_block(Rec("BLKH", tree, <<entry>>, pos), "todo")
         \/ mpc = "filf" /\ mpc' = "walk" /\ pos' = 0 /\ entry' = entry + 1
            /\ queue_add_header(Rec("FILF", tree, <<entry>>, 0))
  BY DEF MAddBlock, MAddFooter
<1>2. /\ tree \in Nat /\ entry \in Nat /\ pos \in Nat
      /\ Busy /\ Walking /\ Walking' /\ ~Flushing /\ ~Flushing'
      /\ InFile /\ mpc' # "analyse" /\ "BLKH" \in Magic /\ "FILF" \in Magic /\ 0 \in Nat
      /\ \A k \in DOMAIN multi : multi[k] \in Nat
  BY <1>1, GrammarTypes DEF Busy, Walking, Flushing, InFile, Magic
<1>3. Adds(m, {entry})
  BY <1>1, <1>2, AddsOne DEF MainStep
<1>4. ReachedOK'
  <2> HIDE DEF m
  <2>1. QED
    BY <1>1, <1>2, <1>3 DEF ReachedOK, Adds, InFile
<1>5. FileCount'
  <2>1. CASE mpc = "filf"
    BY <1>1, <2>1 DEF FileCount, InFile
  <2>2. CASE mpc = "block"
    <3>1. Adds("BLKH", {entry})
      BY <1>3, <2>2
    <3>2. /\ Has(Sent, tree, entry, "OBJT", 1)
          /\ Has(Sent, tree, entry, "BLKH", pos)
          /\ Has(Sent, tree, entry, "FILF", 0)
      BY <1>2 DEF FileCount
    <3>3. /\ Has(Sent', tree, entry, "OBJT", 1)
          /\ Has(Sent', tree, entry, "BLKH", pos + 1)
          /\ Has(Sent', tree, entry, "FILF", 0)
      BY <1>2, <3>1, <3>2 DEF Adds
    <3>4. QED
      BY <1>1, <2>2, <3>3 DEF FileCount
  <2>3. QED
    BY <1>1, <2>1, <2>2
<1>6. AsideCount'
  <2>1. \A k \in DOMAIN multi : multi[k] # entry
    BY <1>2 DEF Grammar, AsideOK
  <2> HIDE DEF m
  <2>2. QED
    BY <1>1, <1>2, <1>3, <2>1 DEF AsideCount, Adds
<1>7. QED
  BY <1>3, <1>4, <1>5, <1>6

LEMMA CountHeader ==
  ASSUME BaseInv, EndInv, Grammar, CountInv, MEnqueueHeader
  PROVE  Adds("OBJT", {multi[pos + 1]}) /\ CountInv'
<1> USE DEF CountInv
<1>1. /\ mpc \in {"enqueue", "flush"} /\ pos < Len(multi) /\ pos' = pos + 1
      /\ queue_add_header(Rec("OBJT", tree, <<multi[pos + 1]>>, Len(multi)))
      /\ UNCHANGED <<mpc, tree, entry, multi>>
  BY DEF MEnqueueHeader
<1>2. /\ tree \in Nat /\ entry \in Nat /\ pos \in Nat
      /\ pos + 1 \in DOMAIN multi /\ multi[pos + 1] \in Nat /\ Len(multi) \in Nat
      /\ DOMAIN multi \subseteq Nat /\ \A k \in DOMAIN multi : multi[k] \in Nat
      /\ Busy /\ Walking /\ Walking' /\ Flushing /\ Flushing' /\ ~InFile /\ ~InFile'
      /\ mpc' # "analyse" /\ "OBJT" \in Magic
  BY <1>1, GrammarTypes DEF Busy, Walking, Flushing, InFile, Magic
<1>3. Adds("OBJT", {multi[pos + 1]})
  BY <1>1, <1>2, AddsOne DEF MainStep
<1>4. /\ multi[pos + 1] < entry
      /\ \A k \in DOMAIN multi : multi[k] = multi[pos + 1] => k = pos + 1
  <2>1. \A k, l \in DOMAIN multi : k < l => multi[k] < multi[l]
    BY DEF Grammar, AsideOK
  <2>2. QED
    BY <1>2, <2>1 DEF Grammar, AsideOK
<1>5. ReachedOK'
  <2> SUFFICES ASSUME NEW f \in Nat, NEW e \in Nat, At(Sent', f, e) # {}
               PROVE  f <= tree /\ (f = tree => e < entry)
    BY <1>1, <1>2 DEF ReachedOK
  <2>1. CASE f # tree \/ e # multi[pos + 1]
    <3>1. At(Sent, f, e) # {}
      BY <1>3, <2>1 DEF Adds
    <3>2. QED
      BY <1>2, <3>1 DEF ReachedOK
  <2>2. QED
    BY <1>2, <1>4, <2>1
<1>6. FileCount'
  BY <1>2 DEF FileCount
<1>7. AsideCount'
  <2> SUFFICES ASSUME NEW k \in DOMAIN multi
               PROVE  IF k <= pos + 1
                        THEN Has(Sent', tree, multi[k], "OBJT", 1) /\ Has(Sent', tree, multi[k], "BLKH", 0)
                        ELSE At(Sent', tree, multi[k]) = {}
    BY <1>1, <1>2 DEF AsideCount
  <2>1. IF k <= pos
          THEN Has(Sent, tree, multi[k], "OBJT", 1) /\ Has(Sent, tree, multi[k], "BLKH", 0)
          ELSE At(Sent, tree, multi[k]) = {}
    BY <1>2 DEF AsideCount
  <2>2. CASE k # pos + 1
    <3>1. /\ At(Sent', tree, multi[k]) = At(Sent, tree, multi[k])
          /\ \A l, n : Has(Sent', tree, multi[k], l, n) <=> Has(Sent, tree, multi[k], l, n)
      BY <1>2, <1>3, <1>4, <2>2 DEF Adds
    <3>2. QED
      BY <1>2, <2>1, <2>2, <3>1
  <2>3. CASE k = pos + 1
    <3>1. At(Sent, tree, multi[k]) = {}
      BY <1>2, <2>1, <2>3
    <3>2. \A l : Has(Sent, tree, multi[k], l, 0)
      BY <3>1, FS_EmptySet DEF Has, Of
    <3>3. Has(Sent', tree, multi[k], "OBJT", 0 + 1) /\ Has(Sent', tree, multi[k], "BLKH", 0)
      BY <1>3, <2>3, <3>2 DEF Adds
    <3>4. QED
      BY <1>2, <2>3, <3>3
  <2>4. QED
    BY <2>2, <2>3
<1>8. QED
  BY <1>3, <1>5, <1>6, <1>7

LEMMA CountGroup ==
  ASSUME BaseInv, EndInv, Grammar, CountInv, MEnqueueBlock, multi # <<>>
  PROVE  Adds("BLKH", {multi[k] : k \in DOMAIN multi}) /\ CountInv'
<1> USE DEF CountInv
<1> DEFINE X == {multi[k] : k \in DOMAIN multi}
<1>1. /\ pos = Len(multi) /\ queue_add_block(Rec("BLKH", tree, multi, 0), "todo")
      /\ UNCHANGED <<tree, entry, pos>> /\ multi' = <<>>
      /\ \/ mpc = "enqueue" /\ mpc' = "putaside"
         \/ mpc = "flush" /\ mpc' = "endtree"
  BY DEF MEnqueueBlock
<1>2. /\ tree \in Nat /\ entry \in Nat /\ multi \in Seq(Nat)
      /\ Busy /\ Walking /\ Walking' /\ Flushing /\ ~Flushing' /\ ~InFile /\ ~InFile'
      /\ mpc' # "analyse" /\ "BLKH" \in Magic /\ 0 \in Nat
  BY <1>1, GrammarTypes DEF Busy, Walking, Flushing, InFile, Magic
<1>3. Adds("BLKH", X)
  BY <1>1, <1>2, AddsSome DEF MainStep
<1>4. \A x \in X : x < entry
  BY <1>2 DEF Grammar, AsideOK
<1> HIDE DEF X
<1>5. ReachedOK'
  <2> SUFFICES ASSUME NEW f \in Nat, NEW e \in Nat, At(Sent', f, e) # {}
               PROVE  f <= tree /\ (f = tree => e < entry)
    BY <1>1, <1>2 DEF ReachedOK
  <2>1. CASE f # tree \/ e \notin X
    <3>1. At(Sent, f, e) # {}
      BY <1>3, <2>1 DEF Adds
    <3>2. QED
      BY <1>2, <3>1 DEF ReachedOK
  <2>2. QED
    BY <1>2, <1>4, <2>1
<1>6. FileCount'
  BY <1>2 DEF FileCount
<1>7. AsideCount'
  BY <1>1, EmptySeq DEF AsideCount
<1>8. QED
  BY <1>3, <1>5, <1>6, <1>7 DEF X

\* Steps that add a header of the archive or of a file system, or nothing.
LEMMA CountQuiet ==
  ASSUME BaseInv, Grammar, CountInv, NEW m, Adds(m, {}),
         \/ MStart /\ Sent' = Sent
         \/ MWriteMainHead \/ MAnalyse \/ MAnalyseFails \/ MNextTree \/ MBeginFS \/ MEndFS \/ MEndDir
         \/ MEndDirs \/ MWalkEnds \/ MStatFails \/ MOpendirFails \/ MEntryUnreadable \/ MPassSelf
         \/ MVisit \/ MReadBlock \/ MReadFails \/ MFileInterrupted \/ MFileRead \/ MSmallFile
         \/ MPutAside \/ (MEnqueueBlock /\ multi = <<>>)
         \/ MFinal \/ MSetEndOfQueue \/ MJoin
  PROVE  CountInv'
<1> USE GrammarTypes DEF MGoto, MFail, NextEntry
<1>1. CASE MAnalyseFails \/ MFinal \/ MSetEndOfQueue \/ MJoin \/ (MEndFS /\ mpc' = "cleanup")
  BY <1>1, CountEnds DEF MAnalyseFails, MFinal, MSetEndOfQueue, MJoin, Busy
<1>2. CASE MStart /\ Sent' = Sent
  <2>1. mpc = "start" /\ mpc' \in {"mainhead", "cleanup"} /\ Sent = <<>>
    BY <1>2 DEF MStart, Grammar, BeginOK
  <2>2. QED
    BY <1>2, <2>1, CountEnds DEF Busy
<1>3. CASE MWriteMainHead \/ (MAnalyse /\ mpc' = mpc)
  <2>1. mpc' = "analyse" /\ mpc \in {"mainhead", "analyse"}
    BY <1>3 DEF MWriteMainHead, MAnalyse
  <2>2. mpc = "mainhead" => Sent = <<>>
    BY DEF Grammar, BeginOK
  <2>3. mpc = "mainhead" => \A f, e \in Nat : At(Sent, f, e) = {}
    BY <2>2 DEF At
  <2>4. QED
    BY <2>1, <2>3, CountStarts
<1>4. CASE (MAnalyse /\ mpc' # mpc) \/ MEndDir \/ MEndDirs \/ (MEndFS /\ mpc' # "cleanup")
  BY <1>4, CountLeaves DEF MAnalyse, MEndDir, MEndDirs, MEndFS
<1>5. CASE MNextTree \/ MBeginFS
  <2>1. /\ mpc \in {"trees", "fsyb"} /\ mpc' \in {"fsyb", "walk", "final", "datf"}
        /\ UNCHANGED <<tree, multi>>
    BY <1>5 DEF MNextTree, MBeginFS
  <2>2. multi = <<>>
    BY <2>1 DEF Grammar, AsideOK, Walking, Busy
  <2>3. QED
    BY <2>1, <2>2, CountLeaves
<1>6. CASE MWalkEnds \/ MStatFails
  BY <1>6, CountMoves DEF MWalkEnds, MStatFails, Visiting, InFile
<1>7. CASE MOpendirFails
  <2>1. This.size \in Nat
    BY <1>7, ThisType DEF MOpendirFails, Visiting, BaseInv, InTree
  <2>2. QED
    BY <1>7, <2>1, CountMoves DEF MOpendirFails, Visiting, Flushing, InFile
<1>8. CASE MEntryUnreadable \/ MPassSelf \/ MReadFails \/ MFileInterrupted
  BY <1>8, CountMoves
  DEF MEntryUnreadable, MPassSelf, MReadFails, MFileInterrupted, Visiting, Flushing, InFile
<1>9. CASE MVisit
  BY <1>9, CountMoves DEF MVisit, Visiting, InFile, Flushing
<1>10. CASE MReadBlock \/ MFileRead
  BY <1>10, CountMoves DEF MReadBlock, MFileRead, Flushing, InFile
<1>11. CASE MSmallFile
  <2>1. mpc = "walk" /\ UNCHANGED tree
    BY <1>11 DEF MSmallFile, Visiting
  <2>2. CASE RoomForSmallFile
    BY <1>11, <2>1, <2>2, CountAside DEF MSmallFile, regmulti_save_addfile
  <2>3. CASE ~RoomForSmallFile
    BY <1>11, <2>1, <2>3, CountMoves DEF MSmallFile, InFile
  <2>4. QED
    BY <2>2, <2>3
<1>12. CASE MPutAside
  <2>1. mpc = "putaside" /\ UNCHANGED tree
    BY <1>12 DEF MPutAside
  <2>2. CASE RoomForSmallFile
    BY <1>12, <2>1, <2>2, CountAside DEF MPutAside, regmulti_save_addfile
  <2>3. CASE ~RoomForSmallFile
    BY <1>12, <2>1, <2>3, CountMoves DEF MPutAside, InFile, Flushing
  <2>4. QED
    BY <2>2, <2>3
<1>13. CASE MEnqueueBlock /\ multi = <<>>
  <2>1. /\ multi' = multi /\ UNCHANGED <<tree, entry, pos>> /\ DOMAIN multi = {}
        /\ \/ mpc = "enqueue" /\ mpc' = "putaside"
           \/ mpc = "flush" /\ mpc' = "endtree"
    BY <1>13, EmptySeq DEF MEnqueueBlock
  <2>2. ReachedOK'
    BY <2>1 DEF CountInv, ReachedOK, Busy, Walking, InFile, Adds
  <2>3. QED
    BY <2>1, <2>2 DEF CountInv, FileCount, AsideCount, InFile
<1>14. QED
  BY <1>1, <1>2, <1>3, <1>4, <1>5, <1>6, <1>7, <1>8, <1>9, <1>10, <1>11, <1>12, <1>13

\* What the steps of the main thread add.
LEMMA QuietAdds ==
  ASSUME BaseInv, EndInv, MainStep,
         ~MAddObject, ~MAddBlock, ~MAddFooter, ~MEnqueueHeader, MEnqueueBlock => multi = <<>>
  PROVE  \E m : Adds(m, {}) /\ (MStart => Sent' = Sent)
<1>1. CASE list' = list
  BY <1>1, SentSame, AddsNone
<1>2. ASSUME NEW m \in Magic, NEW f \in Nat, NEW k \in Nat, queue_add_header(Rec(m, f, <<>>, k)),
             ~MStart
      PROVE  \E n : Adds(n, {}) /\ (MStart => Sent' = Sent)
  BY <1>2, AddsPart
<1>3. /\ {"MAIN", "FSIN", "DIRS", "FSYB", "DATF"} \subseteq Magic /\ tree \in Nat /\ 0 \in Nat
      /\ mpc # "start" => ~MStart
  BY GrammarTypes DEF Magic, MStart, MGoto, MFail
<1>4. CASE MWriteMainHead
  BY <1>2, <1>3, <1>4 DEF MWriteMainHead, MGoto
<1>5. CASE MAnalyse
  BY <1>1, <1>2, <1>3, <1>5 DEF MAnalyse, qvars
<1>6. CASE MBeginFS \/ MEndFS \/ MEndDirs
  BY <1>2, <1>3, <1>6 DEF MBeginFS, MEndFS, MEndDirs, MGoto
<1>7. CASE MStart \/ MAnalyseFails \/ MNextTree \/ MEndDir
  BY <1>1, <1>7 DEF MStart, MAnalyseFails, MNextTree, MEndDir, qvars
<1>8. CASE MWalkEnds \/ MStatFails \/ MOpendirFails \/ MEntryUnreadable \/ MPassSelf \/ MVisit
  BY <1>1, <1>8 DEF MWalkEnds, MStatFails, MOpendirFails, MEntryUnreadable, MPassSelf, MVisit, qvars
<1>9. CASE MReadBlock \/ MReadFails \/ MFileInterrupted \/ MFileRead \/ MSmallFile \/ MPutAside
  BY <1>1, <1>9 DEF MReadBlock, MReadFails, MFileInterrupted, MFileRead, MSmallFile, MPutAside, qvars
<1>10. CASE MEnqueueBlock
  BY <1>1, <1>10 DEF MEnqueueBlock, qvars
<1>11. CASE MFinal \/ MSetEndOfQueue \/ MJoin
  BY <1>1, <1>11 DEF MFinal, MSetEndOfQueue, MJoin, queue_set_end_of_queue, qvars
<1>12. QED
  BY <1>4, <1>5, <1>6, <1>7, <1>8, <1>9, <1>10, <1>11 DEF MainStep

LEMMA CountMain ==
  ASSUME BaseInv, EndInv, Grammar, CountInv, MainStep
  PROVE  CountInv'
<1>1. CASE MAddObject
  BY <1>1, CountObject
<1>2. CASE MAddBlock \/ MAddFooter
  BY <1>2, CountData
<1>3. CASE MEnqueueHeader
  BY <1>3, CountHeader
<1>4. CASE MEnqueueBlock /\ multi # <<>>
  BY <1>4, CountGroup
<1>5. CASE ~MAddObject /\ ~MAddBlock /\ ~MAddFooter /\ ~MEnqueueHeader /\ (MEnqueueBlock => multi = <<>>)
  <2>1. PICK m : Adds(m, {}) /\ (MStart => Sent' = Sent)
    BY <1>5, QuietAdds
  <2>2. QED
    BY <1>5, <2>1, CountQuiet DEF MainStep
<1>6. QED
  BY <1>1, <1>2, <1>3, <1>4, <1>5

-----------------------------------------------------------------------------
\* What has gone wrong stays so.
LEMMA FineBack ==
  ASSUME BaseInv, MainStep, Fine'
  PROVE  Fine /\ (Busy => ~interrupted /\ ~interrupted') /\ ~errs'
<1> USE DEF MGoto, MFail, NextEntry, Elsewhere, Fine, Busy, interrupted
<1>0. errs \in BOOLEAN
  BY DEF BaseInv, MainTypeOK
<1>1. CASE MStart \/ MJoin
  BY <1>0, <1>1 DEF MStart, MJoin
<1>2. CASE MWriteMainHead \/ MAnalyse \/ MAnalyseFails \/ MNextTree \/ MBeginFS \/ MEndFS \/ MEndDir \/ MEndDirs
  BY <1>0, <1>2 DEF MWriteMainHead, MAnalyse, MAnalyseFails, MNextTree, MBeginFS, MEndFS, MEndDir, MEndDirs
<1>3. CASE MWalkEnds \/ MStatFails \/ MOpendirFails \/ MEntryUnreadable \/ MPassSelf \/ MVisit
  BY <1>0, <1>3 DEF MWalkEnds, MStatFails, MOpendirFails, MEntryUnreadable, MPassSelf, MVisit, Visiting
<1>4. CASE MAddObject \/ MReadBlock \/ MReadFails \/ MAddBlock \/ MFileInterrupted \/ MFileRead \/ MAddFooter
  BY <1>0, <1>4 DEF MAddObject, MReadBlock, MReadFails, MAddBlock, MFileInterrupted, MFileRead, MAddFooter
<1>5. CASE MSmallFile \/ MEnqueueHeader \/ MEnqueueBlock \/ MPutAside
  <2>1. Busy /\ Busy' /\ UNCHANGED <<stop, abort>>
    BY <1>5 DEF MSmallFile, MEnqueueHeader, MEnqueueBlock, MPutAside, Visiting
  <2>2. errs' = errs \/ errs' \in {errs, TRUE}
    BY <1>0, <1>5 DEF MSmallFile, MEnqueueHeader, MEnqueueBlock, MPutAside
  <2>3. QED
    BY <1>0, <2>1, <2>2
<1>6. CASE MFinal \/ MSetEndOfQueue
  <2>1. UNCHANGED <<stop, abort, errs>> /\ ~Busy'
    BY <1>6 DEF MFinal, MSetEndOfQueue
  <2>2. \/ mpc = "final" /\ ret' = IF interrupted THEN -1 ELSE 0
        \/ mpc = "cleanup" /\ ret' = ret
    BY <1>6 DEF MFinal, MSetEndOfQueue
  <2>3. QED
    BY <1>0, <2>1, <2>2
<1>7. QED
  BY <1>1, <1>2, <1>3, <1>4, <1>5, <1>6 DEF MainStep

\* A step of the walk covers the entries that it leaves behind.
LEMMA CoverWalk ==
  ASSUME BaseInv, CoverBody, Walking, Walking', UNCHANGED tree,
         walkret' = 0 => walkret = 0,
         NEW m, NEW X, Adds(m, X), X \cap Behind = {}, Behind \subseteq Behind',
         \A e \in DOMAIN Trees[tree] :
           walkret' = 0 /\ e \in Behind' => e \in Behind \/ Covered(Sent', tree, e, Behind'),
         WalkOK'
  PROVE  CoverBody'
<1>1. tree \in DOMAIN Trees
  BY DEF BaseInv, InTree, Walking
<1>2. TreesBehind'
  <2> SUFFICES ASSUME NEW f \in DOMAIN Trees, f < tree, NEW e \in DOMAIN Trees[f]
               PROVE  Covered(Sent', f, e, Nat)
    BY DEF TreesBehind
  <2>1. Covered(Sent, f, e, Nat)
    BY DEF CoverBody, TreesBehind
  <2>2. f # tree
    BY <1>1, TreesType
  <2>3. QED
    BY <2>1, <2>2, CoveredKept
<1>3. EntriesBehind'
  <2> SUFFICES ASSUME walkret' = 0, NEW e \in DOMAIN Trees[tree], e \in Behind'
               PROVE  Covered(Sent', tree, e, Behind')
    BY DEF EntriesBehind
  <2>1. CASE e \in Behind
    <3>1. Covered(Sent, tree, e, Behind)
      BY <2>1 DEF CoverBody, EntriesBehind
    <3>2. Covered(Sent', tree, e, Behind)
      BY <1>1, <2>1, <3>1, CoveredKept
    <3>3. QED
      BY <3>2, CoveredMore
  <2>2. QED
    BY <2>1
<1>4. AllBehind'
  BY DEF AllBehind, Walking, Busy
<1>5. QED
  BY <1>2, <1>3, <1>4 DEF CoverBody

LEMMA BehindSame ==
  ASSUME BaseInv, Grammar, Walking, multi' = multi, entry' \in Nat, entry' >= entry
  PROVE  /\ Behind \subseteq Behind'
         /\ \A x \in Behind' : x \in Nat /\ x < entry' /\ (x \in Behind \/ x >= entry)
         /\ \A x \in Nat : x >= entry /\ x < entry' => x \in Behind'
<1>1. \A x : Aside(x)' <=> Aside(x)
  BY DEF Aside
<1>2. entry \in Nat
  BY GrammarTypes
<1>3. \A x : Aside(x) => x < entry
  BY DEF Aside, Grammar, AsideOK
<1>4. QED
  BY <1>1, <1>2, <1>3 DEF Behind

\* A step past one entry.
LEMMA CoverNext ==
  ASSUME BaseInv, Grammar, CoverBody, Walking, mpc \notin {"flush", "endtree"}, mpc' = "walk",
         UNCHANGED <<tree, multi, walkret>>, entry' = entry + 1,
         NEW m, NEW X, Adds(m, X), \A x \in X : x = entry,
         entry \in DOMAIN Trees[tree] => Covered(Sent', tree, entry, Behind')
  PROVE  CoverBody'
<1>1. /\ Behind \subseteq Behind'
      /\ \A x \in Behind' : x \in Nat /\ (x \in Behind \/ x = entry)
  <2>1. entry \in Nat /\ entry' \in Nat
    BY GrammarTypes
  <2>2. QED
    BY <2>1, BehindSame
<1>2. X \cap Behind = {}
  BY GrammarTypes DEF Behind
<1>3. Walking' /\ WalkOK'
  BY DEF Walking, CoverBody, WalkOK
<1>4. QED
  BY <1>1, <1>2, <1>3, CoverWalk

\* A step that stays at the entry.
LEMMA CoverStays ==
  ASSUME BaseInv, Grammar, CoverBody, Walking, Walking', UNCHANGED <<tree, multi, entry>>,
         walkret' = 0 => walkret = 0,
         NEW m, NEW X, Adds(m, X), \A x \in X : x >= entry \/ Aside(x),
         WalkOK'
  PROVE  CoverBody'
<1>1. Behind' = Behind
  BY DEF Behind, Aside
<1>2. X \cap Behind = {}
  BY GrammarTypes DEF Behind
<1>3. QED
  BY <1>1, <1>2, CoverWalk

\* A small file is put aside: it is not behind.
LEMMA CoverAside ==
  ASSUME BaseInv, CoverBody, mpc \in {"walk", "putaside"}, mpc' = "walk",
         UNCHANGED <<tree, walkret>>, multi' = Append(multi, entry), entry' = entry + 1,
         NEW m, Adds(m, {})
  PROVE  CoverBody'
<1>1. entry \in Nat
  BY GrammarTypes
<1>2. \A x : Aside(x)' <=> Aside(x) \/ x = entry
  <2>1. /\ Len(multi') = Len(multi) + 1 /\ DOMAIN multi' = 1 .. Len(multi') /\ multi \in Seq(Nat)
        /\ Len(multi) \in Nat /\ DOMAIN multi = 1 .. Len(multi)
        /\ \A k \in DOMAIN multi : multi'[k] = multi[k]
        /\ multi'[Len(multi) + 1] = entry
    BY <1>1, GrammarTypes, AppendProperties, LenProperties
  <2>2. QED
    BY <2>1 DEF Aside
<1>3. Behind' = Behind
  BY <1>1, <1>2 DEF Behind
<1>4. Walking /\ Walking' /\ WalkOK'
  BY DEF Walking, CoverBody, WalkOK
<1>5. QED
  BY <1>3, <1>4, CoverWalk

-----------------------------------------------------------------------------
\* Outside the walk.
LEMMA CoverTrees ==
  ASSUME BaseInv, EndInv, Grammar, IsFS, ~errs', Busy => ~interrupted, CoverBody,
         \/ MNextTree \/ MBeginFS \/ (MEndFS /\ mpc' = "trees") \/ (MAnalyse /\ mpc' = "trees")
         \/ MFinal \/ MSetEndOfQueue \/ MJoin,
         NEW m, Adds(m, {})
  PROVE  CoverBody'
<1> USE DEF MGoto, MFail, Elsewhere
\* What is covered stays so.
<1>1. ASSUME NEW f \in DOMAIN Trees, NEW e \in DOMAIN Trees[f], NEW b, e \in b, Covered(Sent, f, e, b)
      PROVE  Covered(Sent', f, e, b)
  BY <1>1, CoveredKept
<1>2. \A f \in DOMAIN Trees : /\ f \in Nat \ {0} /\ f <= Len(Trees)
                              /\ \A e \in DOMAIN Trees[f] : e \in Nat
  <2>1. Len(Trees) \in Nat /\ DOMAIN Trees = 1 .. Len(Trees)
    BY SaveAssumption, LenProperties
  <2>2. QED
    BY <2>1, TreesType
<1>3. tree \in Nat
  BY GrammarTypes
<1>4. CASE MFinal \/ MSetEndOfQueue \/ MJoin
  <2>1. (mpc = "final" \/ ~Busy) /\ ~Busy' /\ mpc' \notin {"datf", "final"}
    BY <1>4 DEF MFinal, MSetEndOfQueue, MJoin, Busy
  <2>2. AllBehind'
    BY <1>1, <1>2, <2>1 DEF CoverBody, AllBehind
  <2>3. WalkOK' /\ TreesBehind' /\ EntriesBehind'
    BY <2>1 DEF WalkOK, TreesBehind, EntriesBehind, Walking, Busy
  <2>4. QED
    BY <2>2, <2>3 DEF CoverBody
<1>5. CASE MAnalyse /\ mpc' = "trees"
  <2>1. tree' = 1
    BY <1>5 DEF MAnalyse
  <2>2. TreesBehind'
    BY <1>2, <2>1 DEF TreesBehind
  <2>3. WalkOK' /\ EntriesBehind' /\ AllBehind'
    BY <1>5 DEF WalkOK, EntriesBehind, AllBehind, Walking, Busy
  <2>4. QED
    BY <2>2, <2>3 DEF CoverBody
<1>6. CASE MNextTree
  <2>1. /\ mpc = "trees" /\ tree' = tree /\ ~interrupted
        /\ \/ mpc' = "fsyb" /\ walkret' = 0
           \/ mpc' = "final" /\ ~(tree <= Len(Trees))
    BY <1>6 DEF MNextTree, Busy
  <2>2. \A f \in DOMAIN Trees : f < tree => \A e \in DOMAIN Trees[f] : Covered(Sent', f, e, Nat)
    BY <1>1, <1>2, <2>1 DEF CoverBody, TreesBehind
  <2>3. TreesBehind'
    BY <2>1, <2>2 DEF TreesBehind
  <2>4. AllBehind'
    <3>1. mpc' = "final" => \A f \in DOMAIN Trees : f < tree
      <4>1. Len(Trees) \in Nat
        BY SaveAssumption, LenProperties
      <4>2. QED
        BY <1>2, <1>3, <2>1, <4>1
    <3>2. QED
      BY <2>1, <2>2, <3>1 DEF AllBehind, Busy
  <2>5. WalkOK' /\ EntriesBehind'
    BY <2>1 DEF WalkOK, EntriesBehind, Walking
  <2>6. QED
    BY <2>3, <2>4, <2>5 DEF CoverBody
<1>7. CASE MBeginFS
  <2>1. /\ mpc = "fsyb" /\ mpc' = "walk" /\ UNCHANGED <<tree, entry, multi, walkret>>
        /\ entry = 1 /\ walkret = 0
    BY <1>7 DEF MBeginFS, Grammar, FileOK, CoverBody, WalkOK
  <2>2. TreesBehind'
    BY <1>1, <1>2, <2>1 DEF CoverBody, TreesBehind
  <2>3. EntriesBehind'
    <3>1. \A e \in DOMAIN Trees[tree] : ~(e < 1)
      BY <2>1, TreesType DEF BaseInv, InTree
    <3>2. QED
      BY <2>1, <3>1 DEF EntriesBehind, Behind
  <2>4. WalkOK' /\ AllBehind'
    BY <2>1 DEF WalkOK, AllBehind, Busy
  <2>5. QED
    BY <2>2, <2>3, <2>4 DEF CoverBody
<1>8. CASE MEndFS /\ mpc' = "trees"
  <2>1. mpc = "endtree" /\ tree' = tree + 1 /\ walkret = 0 /\ Walking
    BY <1>8 DEF MEndFS, Walking
  <2>2. tree \in DOMAIN Trees /\ DOMAIN Trees[tree] = 1 .. Len(Trees[tree]) /\ Len(Trees[tree]) \in Nat
    BY <2>1, TreesType, LenProperties DEF BaseInv, InTree
  <2>3. \A e \in DOMAIN Trees[tree] : e \in Behind
    <3>1. entry > Len(Trees[tree])
      BY <2>1 DEF CoverBody, WalkOK
    <3>2. multi = <<>>
      BY <2>1 DEF Grammar, AsideOK, Busy
    <3>3. \A e : ~Aside(e)
      BY <3>2, EmptySeq DEF Aside
    <3>4. QED
      BY <2>2, <3>1, <3>3, GrammarTypes DEF Behind
  <2>4. \A e \in DOMAIN Trees[tree] : Covered(Sent', tree, e, Nat)
    <3> SUFFICES ASSUME NEW e \in DOMAIN Trees[tree] PROVE Covered(Sent', tree, e, Nat)
      OBVIOUS
    <3>1. Covered(Sent, tree, e, Behind) /\ e \in Behind
      BY <2>1, <2>3 DEF CoverBody, EntriesBehind
    <3>2. Behind \subseteq Nat
      BY DEF Behind
    <3>3. Covered(Sent', tree, e, Behind)
      BY <1>1, <2>2, <3>1
    <3>4. QED
      BY <3>2, <3>3, CoveredMore
  <2>5. \A f \in DOMAIN Trees : f < tree => \A e \in DOMAIN Trees[f] : Covered(Sent', f, e, Nat)
    BY <1>1, <1>2, <2>1 DEF CoverBody, TreesBehind
  <2>6. TreesBehind'
    <3> SUFFICES ASSUME NEW f \in DOMAIN Trees, f < tree + 1, NEW e \in DOMAIN Trees[f]
                 PROVE  Covered(Sent', f, e, Nat)
      BY <2>1 DEF TreesBehind
    <3>1. f = tree \/ f < tree
      BY <1>2, <1>3
    <3>2. QED
      BY <2>4, <2>5, <3>1
  <2>7. WalkOK' /\ EntriesBehind' /\ AllBehind'
    BY <1>8 DEF WalkOK, EntriesBehind, AllBehind, Walking, Busy
  <2>8. QED
    BY <2>6, <2>7 DEF CoverBody
<1>9. QED
  BY <1>4, <1>5, <1>6, <1>7, <1>8

\* The steps of the walk that add no record.
LEMMA CoverQuiet ==
  ASSUME BaseInv, EndInv, Grammar, CountInv, ~errs', Busy => ~interrupted, CoverBody,
         \/ MWalkEnds \/ MStatFails \/ MOpendirFails \/ MEntryUnreadable \/ MPassSelf
         \/ MVisit \/ MReadBlock \/ MReadFails \/ MFileInterrupted \/ MFileRead \/ MSmallFile
         \/ MPutAside \/ (MEnqueueBlock /\ multi = <<>>),
         NEW m, Adds(m, {})
  PROVE  CoverBody'
<1> USE GrammarTypes DEF MGoto, NextEntry
<1>0. Walking /\ Busy
  BY DEF MWalkEnds, MStatFails, MOpendirFails, MEntryUnreadable, MPassSelf, MVisit, MReadBlock,
         MReadFails, MFileInterrupted, MFileRead, MSmallFile, MPutAside, MEnqueueBlock, Visiting,
         Walking, Busy
<1>1. ASSUME Walking', UNCHANGED <<tree, multi, entry>>, walkret' = 0 => walkret = 0, WalkOK'
      PROVE  CoverBody'
  BY <1>0, <1>1, CoverStays
<1>2. CASE MWalkEnds
  <2>1. entry > Len(Trees[tree])
    BY <1>0, <1>2 DEF MWalkEnds
  <2>2. WalkOK'
    BY <1>2, <2>1 DEF MWalkEnds, CoverBody, WalkOK
  <2>3. QED
    BY <1>1, <1>2, <2>2 DEF MWalkEnds, Walking
<1>3. CASE MStatFails
  BY <1>1, <1>3 DEF MStatFails, Walking, WalkOK, Visiting
<1>4. CASE MVisit \/ MReadBlock \/ (MFileRead /\ mpc' = "filf") \/ (MSmallFile /\ ~RoomForSmallFile)
  <2>1. /\ mpc \in {"walk", "file"} /\ mpc' \in {"objt", "block", "filf", "enqueue"}
        /\ UNCHANGED <<tree, multi, entry, walkret>>
    BY <1>4 DEF MVisit, MReadBlock, MFileRead, MSmallFile, Visiting
  <2>2. Walking' /\ WalkOK'
    BY <2>1 DEF Walking, CoverBody, WalkOK
  <2>3. QED
    BY <1>1, <2>1, <2>2
<1>5. CASE MEnqueueBlock /\ multi = <<>>
  <2>1. /\ UNCHANGED <<tree, multi, entry, walkret>>
        /\ \/ mpc = "enqueue" /\ mpc' = "putaside"
           \/ mpc = "flush" /\ mpc' = "endtree"
    BY <1>5 DEF MEnqueueBlock
  <2>2. Walking' /\ WalkOK'
    BY <2>1 DEF Walking, CoverBody, WalkOK
  <2>3. QED
    BY <1>1, <2>1, <2>2
<1>6. CASE MEntryUnreadable \/ MReadFails \/ MFileInterrupted \/ (MPutAside /\ ~RoomForSmallFile)
  BY <1>6 DEF MEntryUnreadable, MReadFails, MFileInterrupted, MPutAside
<1>7. CASE MPassSelf
  <2>1. /\ mpc = "walk" /\ mpc' = "walk" /\ UNCHANGED <<tree, multi, walkret>> /\ entry' = entry + 1
        /\ This.kind = "self"
    BY <1>7 DEF MPassSelf, Visiting
  <2>2. Covered(Sent', tree, entry, Behind')
    BY <2>1 DEF Covered, This
  <2>3. QED
    BY <1>0, <2>1, <2>2, CoverNext
<1>8. CASE MFileRead /\ mpc' = "walk"
  <2>1. /\ mpc = "file" /\ mpc' = "walk" /\ UNCHANGED <<tree, multi, walkret>> /\ entry' = entry + 1
        /\ pos >= Blocks /\ ~(Blocks > 0)
    BY <1>8 DEF MFileRead
  <2>2. This.kind \in {"unique", "self"} /\ pos <= Blocks /\ This.size \in Nat
    BY <2>1, ThisType DEF Grammar, FileOK, InFile, BaseInv, InTree, InEntry
  <2>3. Covered(Sent', tree, entry, Behind')
    <3>1. CASE This.kind = "self"
      BY <3>1 DEF Covered, This
    <3>2. CASE This.kind = "unique"
      <4>1. This.size = 0 /\ pos = 0
        BY <2>1, <2>2, <3>2 DEF Blocks
      <4>2. /\ Has(Sent, tree, entry, "OBJT", 1)
            /\ Has(Sent, tree, entry, "BLKH", 0)
            /\ Has(Sent, tree, entry, "FILF", 0)
        BY <2>1, <4>1 DEF CountInv, FileCount, InFile
      <4>3. /\ Has(Sent', tree, entry, "OBJT", 1)
            /\ Has(Sent', tree, entry, "BLKH", 0)
            /\ Has(Sent', tree, entry, "FILF", 0)
        BY <4>2 DEF Adds
      <4>4. QED
        BY <3>2, <4>1, <4>3 DEF Covered, InFull, This
    <3>3. QED
      BY <2>2, <3>1, <3>2
  <2>4. QED
    BY <1>0, <2>1, <2>3, CoverNext
<1>9. CASE (MSmallFile \/ MPutAside) /\ RoomForSmallFile
  <2>1. /\ mpc \in {"walk", "putaside"} /\ mpc' = "walk" /\ UNCHANGED <<tree, walkret>>
        /\ multi' = Append(multi, entry) /\ entry' = entry + 1
    BY <1>9 DEF MSmallFile, MPutAside, Visiting, regmulti_save_addfile
  <2>2. QED
    BY <2>1, CoverAside
<1>10. CASE MOpendirFails
  <2>1. /\ mpc = "walk" /\ mpc' = "walk" /\ UNCHANGED <<tree, multi, walkret>>
        /\ entry' = entry + (1 + This.size) /\ This.kind = "dir" /\ tree \in DOMAIN Trees
        /\ entry <= Len(Trees[tree])
    BY <1>10 DEF MOpendirFails, Visiting, BaseInv, InTree
  <2>2. This.size \in Nat /\ entry' \in Nat
    BY <2>1, ThisType
  <2>3. /\ Behind \subseteq Behind'
        /\ \A x \in Behind' : x \in Nat /\ x < entry' /\ (x \in Behind \/ x >= entry)
        /\ \A x \in Nat : x >= entry /\ x < entry' => x \in Behind'
    BY <1>0, <2>1, <2>2, BehindSame
  <2>4. \A x \in entry .. (entry + This.size) : At(Sent', tree, x) = {} /\ x \in Behind'
    <3> SUFFICES ASSUME NEW x \in entry .. (entry + This.size)
                 PROVE  At(Sent', tree, x) = {} /\ x \in Behind'
      OBVIOUS
    <3>1. x \in Nat /\ x >= entry /\ x < entry' /\ tree \in Nat
      BY <2>1, <2>2
    <3>2. At(Sent, tree, x) = {}
      BY <1>0, <2>1, <3>1, NotReached DEF CountInv, InFile
    <3>3. QED
      BY <2>3, <3>1, <3>2 DEF Adds
  <2>5. \A e \in DOMAIN Trees[tree] : e \in Behind' => e \in Behind \/ Covered(Sent', tree, e, Behind')
    <3> SUFFICES ASSUME NEW e \in DOMAIN Trees[tree], e \in Behind', e \notin Behind
                 PROVE  Unopened(Sent', tree, e, Behind')
      BY DEF Covered
    <3>1. e \in Nat /\ e >= entry /\ e < entry'
      BY <2>3
    <3>2. entry \in 1 .. e /\ e <= entry + This.size
      BY <2>1, <2>2, <3>1
    <3>3. QED
      BY <2>1, <2>4, <3>2 DEF Unopened, This
  <2>6. Walking' /\ WalkOK'
    BY <2>1 DEF Walking, CoverBody, WalkOK
  <2>7. QED
    BY <1>0, <2>1, <2>3, <2>5, <2>6, CoverWalk
<1>11. QED
  <2>1. MFileRead => mpc' \in {"filf", "walk"}
    BY DEF MFileRead
  <2>2. QED
    BY <1>2, <1>3, <1>4, <1>5, <1>6, <1>7, <1>8, <1>9, <1>10, <2>1

\* The steps of the walk that add one.
LEMMA CoverRecords ==
  ASSUME BaseInv, EndInv, Grammar, CountInv, CountInv', CoverBody,
         \/ MAddObject \/ MAddBlock \/ MAddFooter \/ MEnqueueHeader
         \/ (MEnqueueBlock /\ multi # <<>>)
  PROVE  CoverBody'
<1> USE GrammarTypes DEF MGoto, NextEntry
<1>0. Walking /\ Busy
  BY DEF MAddObject, MAddBlock, MAddFooter, MEnqueueHeader, MEnqueueBlock, Walking, Busy
<1>1. CASE MAddObject
  <2>1. Adds("OBJT", {entry})
    BY <1>1, CountObject
  <2>2. /\ mpc = "objt" /\ UNCHANGED <<tree, multi, walkret>>
        /\ \/ mpc' = "file" /\ entry' = entry
           \/ mpc' = "walk" /\ entry' = entry + 1 /\ This.kind \notin {"unique", "self"}
    BY <1>1 DEF MAddObject
  <2>3. Walking' /\ WalkOK'
    BY <2>2 DEF Walking, CoverBody, WalkOK
  <2>4. CASE mpc' = "file"
    BY <1>0, <2>1, <2>2, <2>3, <2>4, CoverStays
  <2>5. CASE mpc' = "walk"
    <3>1. This.kind # "multi"
      BY <2>2 DEF Grammar, FileOK
    <3>2. Has(Sent, tree, entry, "OBJT", 0)
      <4>1. tree \in Nat /\ entry \in Nat /\ ~InFile /\ ~(entry < entry) /\ ReachedOK
        BY <2>2 DEF InFile, CountInv
      <4>2. \A m : Has(Sent, tree, entry, m, 0)
        BY <1>0, <4>1, NotReached
      <4>3. QED
        BY <4>2
    <3>3. Has(Sent', tree, entry, "OBJT", 0 + 1)
      BY <2>1, <3>2 DEF Adds
    <3>4. Covered(Sent', tree, entry, Behind')
      BY <2>2, <2>5, <3>1, <3>3 DEF Covered, InFull, This
    <3>5. QED
      BY <1>0, <2>1, <2>2, <2>5, <3>4, CoverNext
  <2>6. QED
    BY <2>2, <2>4, <2>5
<1>2. CASE MAddBlock
  <2>1. mpc = "block" /\ mpc' = "file" /\ UNCHANGED <<tree, multi, walkret, entry>>
    BY <1>2 DEF MAddBlock
  <2>2. Adds("BLKH", {entry})
    BY <1>2, <2>1, CountData
  <2>3. Walking' /\ WalkOK'
    BY <2>1 DEF Walking, CoverBody, WalkOK
  <2>4. QED
    BY <1>0, <2>1, <2>2, <2>3, CoverStays
<1>3. CASE MAddFooter
  <2>1. mpc = "filf" /\ mpc' = "walk" /\ UNCHANGED <<tree, multi, walkret>> /\ entry' = entry + 1
    BY <1>3 DEF MAddFooter
  <2>2. Adds("FILF", {entry})
    BY <1>3, <2>1, CountData
  <2>3. This.kind \in {"unique", "self"} /\ pos > 0 /\ pos = Blocks
    BY <2>1 DEF Grammar, FileOK, InFile
  <2>4. Covered(Sent', tree, entry, Behind')
    <3>1. CASE This.kind = "self"
      BY <3>1 DEF Covered, This
    <3>2. CASE This.kind = "unique"
      <4>1. pos = This.size /\ This.size # 0 /\ pos \in Nat
        BY <2>3, <3>2 DEF Blocks
      <4>2. /\ Has(Sent, tree, entry, "OBJT", 1)
            /\ Has(Sent, tree, entry, "BLKH", pos)
            /\ Has(Sent, tree, entry, "FILF", 0)
        BY <2>1 DEF CountInv, FileCount, InFile
      <4>3. /\ Has(Sent', tree, entry, "OBJT", 1)
            /\ Has(Sent', tree, entry, "BLKH", pos)
            /\ Has(Sent', tree, entry, "FILF", 0 + 1)
        BY <2>2, <4>1, <4>2 DEF Adds
      <4>4. QED
        BY <3>2, <4>1, <4>3 DEF Covered, InFull, This
    <3>3. QED
      BY <2>3, <3>1, <3>2
  <2>5. QED
    BY <1>0, <2>1, <2>2, <2>4, CoverNext
<1>4. CASE MEnqueueHeader
  <2>1. /\ mpc \in {"enqueue", "flush"} /\ UNCHANGED <<mpc, tree, multi, walkret, entry>>
        /\ pos + 1 \in DOMAIN multi
    BY <1>4 DEF MEnqueueHeader
  <2>2. Adds("OBJT", {multi[pos + 1]})
    BY <1>4, CountHeader
  <2>3. Walking' /\ WalkOK'
    <3>1. WalkOK
      BY DEF CoverBody
    <3>2. QED
      BY <1>0, <2>1, <3>1 DEF Walking, WalkOK
  <2>4. Aside(multi[pos + 1])
    BY <2>1 DEF Aside
  <2>5. QED
    BY <1>0, <2>1, <2>2, <2>3, <2>4, CoverStays
<1>5. CASE MEnqueueBlock /\ multi # <<>>
  <2> DEFINE X == {multi[k] : k \in DOMAIN multi}
  <2>1. /\ UNCHANGED <<tree, entry, walkret>> /\ multi' = <<>> /\ pos = Len(multi) /\ Flushing
        /\ \/ mpc = "enqueue" /\ mpc' = "putaside"
           \/ mpc = "flush" /\ mpc' = "endtree"
    BY <1>5 DEF MEnqueueBlock, Flushing
  <2>2. Adds("BLKH", X)
    BY <1>5, CountGroup
  <2>3. \A x : x \in X <=> Aside(x)
    BY DEF Aside
  <2>4. \A x : ~Aside(x)'
    BY <2>1, EmptySeq DEF Aside
  <2>5. /\ X \cap Behind = {} /\ Behind \subseteq Behind'
        /\ \A x \in Behind' : x \in Behind \/ x \in X
    BY <2>1, <2>3, <2>4 DEF Behind
  <2>6. \A x \in X : Has(Sent', tree, x, "OBJT", 1) /\ Has(Sent', tree, x, "BLKH", 1)
    <3> SUFFICES ASSUME NEW k \in DOMAIN multi
                 PROVE  /\ Has(Sent', tree, multi[k], "OBJT", 1)
                        /\ Has(Sent', tree, multi[k], "BLKH", 0 + 1)
      OBVIOUS
    <3>1. Has(Sent, tree, multi[k], "OBJT", 1) /\ Has(Sent, tree, multi[k], "BLKH", 0)
      BY <1>0, <2>1 DEF CountInv, AsideCount
    <3>2. QED
      BY <2>2, <3>1 DEF Adds
  <2>7. \A x \in X : Trees[tree][x].kind = "multi"
    BY <1>0 DEF Grammar, AsideOK
  <2> HIDE DEF X
  <2>8. \A x \in X : Covered(Sent', tree, x, Behind')
    BY <2>6, <2>7 DEF Covered, InFull
  <2>9. Walking' /\ WalkOK'
    BY <2>1 DEF Walking, CoverBody, WalkOK
  <2>10. QED
    BY <1>0, <2>1, <2>2, <2>5, <2>8, <2>9, CoverWalk
<1>6. QED
  BY <1>1, <1>2, <1>3, <1>4, <1>5

LEMMA CoverMain ==
  ASSUME BaseInv, EndInv, Grammar, CountInv, CountInv', CoverOK, MainStep
  PROVE  CoverOK'
<1> SUFFICES ASSUME IsFS, Fine' PROVE CoverBody'
  BY DEF CoverOK
<1>1. CoverBody /\ (Busy => ~interrupted) /\ ~errs'
  BY FineBack DEF CoverOK
<1>2. CASE \/ MAddObject \/ MAddBlock \/ MAddFooter \/ MEnqueueHeader
           \/ (MEnqueueBlock /\ multi # <<>>)
  BY <1>1, <1>2, CoverRecords
<1>3. CASE ~MAddObject /\ ~MAddBlock /\ ~MAddFooter /\ ~MEnqueueHeader /\ (MEnqueueBlock => multi = <<>>)
  <2>1. PICK m : Adds(m, {})
    BY <1>3, QuietAdds
  <2>2. CASE \/ MNextTree \/ MBeginFS \/ (MEndFS /\ mpc' = "trees") \/ (MAnalyse /\ mpc' = "trees")
             \/ MFinal \/ MSetEndOfQueue \/ MJoin
    BY <1>1, <2>1, <2>2, CoverTrees
  <2>3. CASE \/ MWalkEnds \/ MStatFails \/ MOpendirFails \/ MEntryUnreadable \/ MPassSelf
             \/ MVisit \/ MReadBlock \/ MReadFails \/ MFileInterrupted \/ MFileRead \/ MSmallFile
             \/ MPutAside \/ (MEnqueueBlock /\ multi = <<>>)
    BY <1>1, <2>1, <2>3, CoverQuiet
  \* The beginning.
  <2>4. CASE mpc' \in {"mainhead", "analyse"}
    BY <2>4 DEF CoverBody, WalkOK, TreesBehind, EntriesBehind, AllBehind, Walking, Busy
  \* A failure, and what directories are saved by.
  <2>5. CASE MAnalyseFails \/ (MStart /\ mpc' = "cleanup") \/ (MEndFS /\ mpc' = "cleanup")
    <3>1. ~Busy' /\ ret' # 0
      BY <2>5 DEF MAnalyseFails, MStart, MEndFS, MFail, MGoto, Busy
    <3>2. QED
      BY <3>1 DEF Fine
  <2>6. CASE MEndDir \/ MEndDirs
    BY <1>1, <2>6 DEF MEndDir, MEndDirs, MGoto, CoverBody, WalkOK
  <2>7. /\ MStart => mpc' \in {"mainhead", "cleanup"}
        /\ MWriteMainHead => mpc' = "analyse"
        /\ MAnalyse => mpc' \in {"analyse", "trees"}
        /\ MEndFS => mpc' \in {"trees", "cleanup"}
    BY DEF MStart, MWriteMainHead, MAnalyse, MEndFS, MGoto, MFail
  <2>8. QED
    BY <1>3, <2>2, <2>3, <2>4, <2>5, <2>6, <2>7 DEF MainStep
<1>4. QED
  BY <1>2, <1>3

-----------------------------------------------------------------------------
\* Errors that are not fatal are reported.
DoneOK == mpc = "done" /\ errs => ret = -1

AllInv == (~Broken => CountInv /\ CoverOK) /\ DoneOK

LEMMA AllInit == Init => AllInv
<1> SUFFICES ASSUME Init PROVE AllInv
  OBVIOUS
<1>1. BaseInv /\ list = <<>> /\ data = <<>> /\ wpc = "none" /\ mpc = "start" /\ multi = <<>>
  BY BaseInit DEF Init, queue_init, archwriter_init
<1>2. Queued(list) = <<>> /\ Written(data) = <<>> /\ Held = <<>>
  BY <1>1 DEF Queued, Written, Held, WriterHolds
<1>3. Sent = <<>>
  BY <1>1, <1>2, HeldType, Mapping, ConcatEmptySeq DEF Sent
<1>4. CountInv
  BY <1>1, <1>3 DEF CountInv, ReachedOK, FileCount, AsideCount, At, InFile, Walking
<1>5. CoverBody
  BY <1>1 DEF CoverBody, WalkOK, TreesBehind, EntriesBehind, AllBehind, Walking, Busy
<1>6. QED
  BY <1>1, <1>4, <1>5 DEF AllInv, CoverOK, DoneOK

LEMMA AllStep ==
  ASSUME BaseInv, BaseInv', EndInv, EndInv', WorkOwned, GramInv, AllInv, [Next]_vars
  PROVE  AllInv'
<1>1. CASE MainStep
  <2>1. Broken' <=> Broken
    BY <1>1, MainAside
  <2>2. ~Broken => CountInv' /\ CoverOK'
    BY <1>1, CountMain, CoverMain DEF GramInv, AllInv
  <2>3. DoneOK'
    <3>1. MJoin \/ mpc' # "done"
      BY <1>1, MainArchive DEF MStart, MGoto, MFail
    <3>2. QED
      BY <3>1 DEF MJoin, DoneOK
  <2>4. QED
    BY <2>1, <2>2, <2>3 DEF AllInv
<1>2. ASSUME Taken, UNCHANGED mvars, stop => stop', abort => abort'
      PROVE  AllInv'
  <2>1. ~Broken' => ~Broken /\ Sent' = Sent
    BY <1>2, TakenKeeps, TakenPrefix DEF GramInv
  <2>2. UNCHANGED <<mpc, tree, entry, pos, multi, walkret, ret, errs>>
    BY <1>2 DEF mvars
  <2>3. DoneOK'
    BY <2>2 DEF AllInv, DoneOK
  <2>4. ASSUME ~Broken'
        PROVE  CountInv' /\ CoverOK'
    <3>1. CountInv /\ CoverOK /\ Sent' = Sent
      BY <2>1, <2>4 DEF AllInv
    <3>2. CountInv'
      BY <2>2, <3>1 DEF CountInv, ReachedOK, FileCount, AsideCount, Busy, Walking, InFile, Flushing
    <3>3. Fine' => Fine
      BY <1>2, <2>2 DEF Fine, Busy, interrupted
    <3>4. CoverBody => CoverBody'
      BY <2>2, <3>1 DEF CoverBody, WalkOK, TreesBehind, EntriesBehind, AllBehind, Busy, Walking,
         Behind, Aside
    <3>5. QED
      BY <3>1, <3>2, <3>3, <3>4 DEF CoverOK
  <2>5. QED
    BY <2>3, <2>4 DEF AllInv
<1>3. ASSUME NEW t \in CompThreads, CompStep(t)
      PROVE  AllInv'
  <2>1. UNCHANGED <<mvars, stop, abort>>
    BY <1>3 DEF CompStep, CTake, CReplace, CFail, CExit
  <2>2. Taken
    BY <1>3, CompStreamStep DEF Taken
  <2>3. QED
    BY <1>2, <2>1, <2>2
<1>4. CASE WriterStep
  <2>1. UNCHANGED <<mvars, abort>> /\ (stop => stop')
    BY <1>4 DEF WriterStep, WCreate, WCreateFails, WVolHeader, WDequeue, WSplit, WWriteRecord,
       WLastFooter, WWriteFails, WError, WDrain, WElsewhere
  <2>2. Taken
    BY <1>4, WriterStreamStep
  <2>3. QED
    BY <1>2, <2>1, <2>2
<1>5. CASE Signal \/ UNCHANGED vars
  <2>1. UNCHANGED <<qvars, avars, stop, mvars, wvars>> /\ (abort => abort')
    BY <1>5 DEF Signal, vars
  <2>2. /\ Held' = Held /\ Queued(list)' = Queued(list)
        /\ Broken' <=> Broken
        /\ Sealed' <=> Sealed
    BY <2>1 DEF qvars, avars, wvars, Held, WriterHolds, Queued, Broken, Sealed
  <2>3. Taken
    BY <2>1, <2>2, Stutter DEF qvars, avars, Taken
  <2>4. QED
    BY <1>2, <2>1, <2>3
<1>6. QED
  BY <1>1, <1>3, <1>4, <1>5 DEF Next, Done

\* When the writer has come to its end all that was queued is stored.
LEMMA AllStored ==
  ASSUME BaseInv, EndInv, mpc = "done", ~stop
  PROVE  ~Broken /\ Sent = Written(data)
<1>1. wpc \in {"none", "exit"} /\ list = <<>>
  BY DEF EndInv, AllJoined
<1>2. Queued(list) = <<>> /\ Held = <<>>
  BY <1>1 DEF Queued, Held, WriterHolds
<1>3. InFlight = <<>>
  BY <1>2, HeldType, Mapping, ConcatEmptySeq
<1>4. Sent = Written(data)
  BY <1>3, SentType, ConcatEmptySeq DEF Sent
<1>5. QED
  BY <1>1, <1>4 DEF Broken

LEMMA StoredAt ==
  ASSUME BaseInv, Sent = Written(data)
  PROVE  \A f, e : /\ Stored(f, e) = At(Sent, f, e)
                   /\ \A m : {p \in Stored(f, e) : data[p].magic = m} = Of(Sent, f, e, m)
<1>1. /\ data \in Seq(Record) /\ Len(data) \in Nat /\ DOMAIN data = 1 .. Len(data)
      /\ Sent \in Seq(Record) /\ DOMAIN Sent = 1 .. Len(data)
      /\ \A p \in DOMAIN data : Sent[p] = Unpack(data[p])
  BY HeldType, WrittenType, LenProperties
<1>2. \A p \in DOMAIN data : /\ Sent[p].magic = data[p].magic
                             /\ Sent[p].tree = data[p].tree
                             /\ Sent[p].objs = data[p].objs
  <2> SUFFICES ASSUME NEW p \in DOMAIN data
               PROVE  /\ Sent[p].magic = data[p].magic
                      /\ Sent[p].tree = data[p].tree
                      /\ Sent[p].objs = data[p].objs
    OBVIOUS
  <2>1. data[p] \in Record
    BY <1>1, ElementOfSeq
  <2>2. QED
    BY <1>1, <2>1 DEF Unpack, Record
<1>3. \A f, e : Stored(f, e) = At(Sent, f, e)
  BY <1>1, <1>2 DEF Stored, At
<1>4. \A f, e : \A p \in Stored(f, e) : p \in DOMAIN data
  BY DEF Stored
<1>5. QED
  BY <1>2, <1>3, <1>4 DEF Of

\* So at the end of a save that succeeds everything is in its archive.
LEMMA AllSaved == BaseInv /\ EndInv /\ AllInv => SuccessSavesAll
<1> SUFFICES ASSUME BaseInv, EndInv, AllInv, mpc = "done", ret = 0, ~stop, IsFS,
                    NEW f \in DOMAIN Trees, NEW e \in DOMAIN Trees[f]
             PROVE  SavedOrUnopened(f, e)
  BY DEF SuccessSavesAll, SavesAll
<1>1. ~Broken /\ Sent = Written(data)
  BY AllStored
<1>2. Fine
  BY DEF AllInv, DoneOK, Fine, Busy, BaseInv, MainTypeOK
<1>3. Covered(Sent, f, e, Nat)
  BY <1>1, <1>2 DEF AllInv, CoverOK, CoverBody, AllBehind, Busy
<1>4. /\ \A x : Stored(f, x) = At(Sent, f, x)
      /\ \A m : {p \in Stored(f, e) : data[p].magic = m} = Of(Sent, f, e, m)
  BY <1>1, StoredAt
<1>5. CASE InFull(Sent, f, e)
  BY <1>4, <1>5 DEF InFull, Has, Saved, SavedOrUnopened
<1>6. CASE Unopened(Sent, f, e, Nat)
  BY <1>4, <1>6 DEF Unopened, BelowUnopened, SavedOrUnopened
<1>7. QED
  BY <1>3, <1>5, <1>6 DEF Covered, SavedOrUnopened

\* After a success of a file-system archive, the writer having got to its end,
\* every entry is in the archive in full, or below a directory that could not be
\* opened, whatever the threads, the sizes and the errors on the way.
THEOREM SavesAllCorrect == Spec => []SuccessSavesAll
<1>1. BaseInv /\ BaseInv' /\ DiskInv /\ DiskInv' /\ WorkOwned /\ GramInv /\ AllInv /\ [Next]_vars => AllInv'
  BY AllStep DEF DiskInv
<1>2. DiskInv => EndInv
  BY DEF DiskInv
<1>3. QED
  BY <1>1, <1>2, AllSaved, AllInit, GramInvariant, WorkCorrect, PTL DEF Spec
=============================================================================
