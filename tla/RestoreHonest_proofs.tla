------------------------- MODULE RestoreHonest_proofs -------------------------
(***************************************************************************)
(* CountsHonest: what a restore operation counts as restored is restored,  *)
(* for any archive, job, threads, limits and faults.                       *)
(*                                                                         *)
(* The headers the main thread has in hand, the queue and what is unread   *)
(* of the archive make up a line of records in the order of the archive.   *)
(* A step takes records from its front, or leaves some out that begin      *)
(* nothing; so the line keeps the order that a restorable archive has, and *)
(* a block or a footer that comes to the main thread is one of the file in *)
(* hand as long as the header of no other file is lost.  The first part of *)
(* the module is about such lines, the second about the operation.         *)
(*                                                                         *)
(* SuccessRestoresAll: a restore that returns success has restored what    *)
(* was asked for, if no record was lost.  An object that is due is then    *)
(* restored, or in hand, or its header is still in the line; the third     *)
(* part of the module shows that no step loses it.                         *)
(***************************************************************************)
EXTENDS RestorePipeline_proofs

\* s stands in the queue for the record r: it says the same, or is zeros in the
\* place of a block.
StandsFor(s, r) ==
  \/ r.magic = s.magic /\ r.tree = s.tree /\ r.objs = s.objs
  \/ r.magic = "BLKH" /\ s.magic = "BLKH" /\ s.objs = <<>>

\* A record that may open something for those of magic m.
Begins(r, m) ==
  IF m = "OBJT" THEN r.magic = "FSYB" ELSE r.magic = "OBJT" /\ KindAt(r) \in {"unique", "self"}

\* The records val at the places P read in order.  Places before 0 are those of
\* headers that have been taken.
InLine(P, val) ==
  /\ \A a \in P : val[a].magic = "FILF" => EndsFile(val[a])
  /\ \A a, b \in P : Before(a, b) => MayPrecede(val[a], val[b])
  /\ \A a, b \in P : a[1] >= 0 /\ Before(a, b) /\ Foreign(val[a], val[b]) =>
       \E c \in P : Before(a, c) /\ Before(c, b) /\ Opens(val[c], val[b])

\* Of magic m, what is foreign to r and still to come is opened before it.
ClearOf(P, val, r, m) ==
  \A b \in P : b[1] >= 0 /\ val[b].magic = m /\ Foreign(r, val[b]) =>
    \E c \in P : c[1] >= 0 /\ Before(c, b) /\ Opens(val[c], val[b])

Named(P, val) == {ObjectOf(val[a]) : a \in {b \in P : val[b].magic = "OBJT"}}

-----------------------------------------------------------------------------
(***************************************************************************)
(* Lines.  A step leaves some of the records of a line out and moves the   *)
(* others; s says where each one was before.                               *)
(***************************************************************************)
Shift(P, val, Q, w, s) ==
  /\ P \subseteq Int \X Int /\ Q \subseteq Int \X Int
  /\ s \in [Q -> P]
  /\ \A a, b \in Q : Before(a, b) <=> Before(s[a], s[b])
  /\ \A a \in Q : StandsFor(w[a], val[s[a]])
  /\ \A a \in Q : a[1] >= 0 => s[a][1] >= 0

\* What is left out opens nothing, or stands first of those that are not in hand.
Harmless(P, val, Q, s) ==
  \A c \in P : c[1] >= 0 =>
    \/ \E d \in Q : s[d] = c
    \/ \A a \in P : a[1] >= 0 => ~Before(a, c)
    \/ \A m : ~Begins(val[c], m)

\* What stands for a record has its magic, and if it is of an object its name.
LEMMA StandsForSound ==
  ASSUME NEW r, NEW s, StandsFor(s, r)
  PROVE  /\ s.magic = r.magic
         /\ s.magic # "BLKH" \/ LargeBlock(s) =>
              r.tree = s.tree /\ r.objs = s.objs /\ KindAt(s) = KindAt(r)
         /\ LargeBlock(s) => LargeBlock(r)
BY DEF StandsFor, LargeBlock, SavedAlone, KindAt

\* What is allowed in the order of two records is allowed of what stands for them.
LEMMA StandsForPair ==
  ASSUME NEW r, NEW s, NEW u, NEW v, StandsFor(s, r), StandsFor(v, u)
  PROVE  /\ MayPrecede(r, u) => MayPrecede(s, v)
         /\ Foreign(s, v) => Foreign(r, u)
<1>1. /\ s.magic = r.magic /\ v.magic = u.magic
      /\ s.magic # "BLKH" => r.tree = s.tree /\ r.objs = s.objs
      /\ v.magic # "BLKH" \/ LargeBlock(v) => u.tree = v.tree /\ u.objs = v.objs
      /\ LargeBlock(v) => LargeBlock(u)
  BY StandsForSound
<1>2. MayPrecede(r, u) => MayPrecede(s, v)
  BY <1>1 DEF MayPrecede, SameObject, LinksTo, KindAt
<1>3. Foreign(s, v) => Foreign(r, u)
  BY <1>1 DEF Foreign, SameObject
<1>4. QED
  BY <1>2, <1>3

\* What opens a record still opens what stands for it.
LEMMA StandsForOpens ==
  ASSUME NEW c, NEW d, NEW u, NEW v, NEW r, StandsFor(d, c), StandsFor(v, u),
         Opens(c, u), Foreign(r, v)
  PROVE  Opens(d, v)
<1>1. /\ d.magic = c.magic /\ v.magic = u.magic
      /\ d.magic # "BLKH" => d.tree = c.tree /\ d.objs = c.objs
  BY StandsForSound
<1>2. v.magic = "OBJT" \/ LargeBlock(v)
  BY DEF Foreign
<1>3. u.tree = v.tree /\ u.objs = v.objs
  BY <1>2, StandsForSound
<1>4. QED
  BY <1>1, <1>3 DEF Opens, SameObject

\* Only a record that begins something opens what is foreign.
LEMMA OpensBegins ==
  ASSUME NEW c, NEW s, NEW r, Opens(c, s), Foreign(r, s)
  PROVE  Begins(c, s.magic)
<1>1. s.magic = "OBJT" \/ LargeBlock(s)
  BY DEF Foreign
<1>2. CASE s.magic = "OBJT"
  BY <1>2 DEF Opens, Begins
<1>3. CASE s.magic # "OBJT" /\ LargeBlock(s)
  <2>1. KindAt(c) = KindAt(s) /\ c.magic = "OBJT"
    BY <1>3 DEF Opens, SameObject, KindAt
  <2>2. QED
    BY <1>3, <2>1 DEF Begins, LargeBlock, SavedAlone
<1>4. QED
  BY <1>1, <1>2, <1>3

\* A line from which something harmless is left out is a line.
LEMMA ShiftSound ==
  ASSUME NEW P, NEW val, NEW Q, NEW w, NEW s,
         InLine(P, val), Shift(P, val, Q, w, s), Harmless(P, val, Q, s)
  PROVE  InLine(Q, w)
<1>1. ASSUME NEW a \in Q
      PROVE  s[a] \in P /\ StandsFor(w[a], val[s[a]])
  BY DEF Shift
<1>2. ASSUME NEW a \in Q, w[a].magic = "FILF"
      PROVE  EndsFile(w[a])
  <2>1. /\ val[s[a]].magic = "FILF" /\ EndsFile(val[s[a]])
        /\ val[s[a]].tree = w[a].tree /\ val[s[a]].objs = w[a].objs
    BY <1>1, <1>2, StandsForSound DEF InLine
  <2>2. QED
    BY <2>1 DEF EndsFile, SavedAlone, BlocksAt, KindAt
<1>3. ASSUME NEW a \in Q, NEW b \in Q, Before(a, b)
      PROVE  MayPrecede(w[a], w[b])
  <2>1. Before(s[a], s[b]) /\ s[a] \in P /\ s[b] \in P
    BY <1>1, <1>3 DEF Shift
  <2>2. MayPrecede(val[s[a]], val[s[b]])
    BY <2>1 DEF InLine
  <2>3. QED
    BY <1>1, <2>2, StandsForPair
<1>4. ASSUME NEW a \in Q, NEW b \in Q, a[1] >= 0, Before(a, b), Foreign(w[a], w[b])
      PROVE  \E d \in Q : Before(a, d) /\ Before(d, b) /\ Opens(w[d], w[b])
  <2>1. Before(s[a], s[b]) /\ s[a] \in P /\ s[b] \in P /\ s[a][1] >= 0
    BY <1>1, <1>4 DEF Shift
  <2>2. Foreign(val[s[a]], val[s[b]])
    BY <1>1, <1>4, StandsForPair
  <2>3. PICK c \in P : Before(s[a], c) /\ Before(c, s[b]) /\ Opens(val[c], val[s[b]])
    BY <2>1, <2>2 DEF InLine
  <2>4. c[1] >= 0
    <3>1. s[a] \in Int \X Int /\ c \in Int \X Int
      BY <2>1 DEF Shift
    <3>2. QED
      BY <2>1, <2>3, <3>1 DEF Before
  <2>5. Begins(val[c], val[s[b]].magic)
    BY <2>2, <2>3, OpensBegins
  <2>6. PICK d \in Q : s[d] = c
    BY <2>1, <2>3, <2>4, <2>5 DEF Harmless
  <2>7. Before(a, d) /\ Before(d, b)
    BY <2>3, <2>6 DEF Shift
  <2>8. Opens(w[d], w[b])
    BY <1>1, <1>4, <2>3, <2>6, StandsForOpens
  <2>9. QED
    BY <2>7, <2>8
<1>5. QED
  BY <1>2, <1>3, <1>4 DEF InLine

\* The same for what is clear of a header that is in hand.
LEMMA ClearKept ==
  ASSUME NEW P, NEW val, NEW Q, NEW w, NEW s, NEW r, NEW m,
         ClearOf(P, val, r, m), Shift(P, val, Q, w, s),
         \A c \in P : c[1] >= 0 =>
           (\E d \in Q : d[1] >= 0 /\ s[d] = c) \/ ~Begins(val[c], m)
  PROVE  ClearOf(Q, w, r, m)
<1> SUFFICES ASSUME NEW b \in Q, b[1] >= 0, w[b].magic = m, Foreign(r, w[b])
             PROVE  \E d \in Q : d[1] >= 0 /\ Before(d, b) /\ Opens(w[d], w[b])
  BY DEF ClearOf
<1>1. s[b] \in P /\ s[b][1] >= 0 /\ StandsFor(w[b], val[s[b]])
  BY DEF Shift
<1>2. val[s[b]].magic = m
  BY <1>1, StandsForSound
<1>3. Foreign(r, val[s[b]])
  BY <1>1, StandsForPair DEF StandsFor
<1>4. PICK c \in P : c[1] >= 0 /\ Before(c, s[b]) /\ Opens(val[c], val[s[b]])
  BY <1>1, <1>2, <1>3 DEF ClearOf
<1>5. Begins(val[c], m)
  BY <1>2, <1>3, <1>4, OpensBegins
<1>6. PICK d \in Q : d[1] >= 0 /\ s[d] = c
  BY <1>4, <1>5
<1>7. Before(d, b) /\ StandsFor(w[d], val[c])
  BY <1>4, <1>6 DEF Shift
<1>8. Opens(w[d], w[b])
  BY <1>1, <1>4, <1>7, StandsForOpens
<1>9. QED
  BY <1>6, <1>7, <1>8

\* The new line names no other objects.
LEMMA NamedShift ==
  ASSUME NEW P, NEW val, NEW Q, NEW w, NEW s, Shift(P, val, Q, w, s)
  PROVE  Named(Q, w) \subseteq Named(P, val)
<1> SUFFICES ASSUME NEW a \in Q, w[a].magic = "OBJT"
             PROVE  ObjectOf(w[a]) \in Named(P, val)
  BY DEF Named
<1>1. s[a] \in P /\ StandsFor(w[a], val[s[a]])
  BY DEF Shift
<1>2. val[s[a]].magic = "OBJT" /\ ObjectOf(w[a]) = ObjectOf(val[s[a]])
  BY <1>1, StandsForSound DEF ObjectOf
<1>3. QED
  BY <1>1, <1>2 DEF Named

\* When the first of a line is left out, the object it names is not named any
\* more, nor the first link of a hard link.
LEMMA FirstGone ==
  ASSUME NEW P, NEW val, NEW Q, NEW w, NEW s, NEW f \in P,
         InLine(P, val), Shift(P, val, Q, w, s),
         \A a \in Q : Before(f, s[a]),
         \A a \in P : val[a] \in Readable,
         val[f].magic = "OBJT"
  PROVE  /\ ObjectOf(val[f]) \notin Named(Q, w)
         /\ KindAt(val[f]) = "link" => FirstLink(ObjectOf(val[f])) \notin Named(Q, w)
<1> DEFINE r == val[f]
<1>1. ASSUME NEW a \in Q, w[a].magic = "OBJT"
      PROVE  /\ w[a].tree = r.tree => w[a].objs[1] # r.objs[1]
             /\ ~LinksTo(r, w[a])
  <2>1. s[a] \in P /\ StandsFor(w[a], val[s[a]]) /\ Before(f, s[a])
    BY DEF Shift
  <2> DEFINE u == val[s[a]]
  <2>2. u.magic = "OBJT" /\ u.tree = w[a].tree /\ u.objs = w[a].objs
    BY <1>1, <2>1, StandsForSound
  <2>3. MayPrecede(r, u)
    BY <2>1 DEF InLine
  <2>4. /\ NamesObject(r) /\ NamesObject(u)
        /\ r.objs \in Seq(Nat) /\ u.objs \in Seq(Nat)
    BY <2>1, <2>2 DEF Readable, Record
  <2> HIDE DEF r, u
  <2>5. r.magic = "OBJT"
    BY DEF r
  <2>6. ~SameObject(r, u) /\ ~LinksTo(r, u)
    BY <2>2, <2>3, <2>5 DEF MayPrecede
  <2>7. r.objs[1] = u.objs[1] => r.objs = u.objs
    <3>1. Len(r.objs) = 1 /\ Len(u.objs) = 1
      BY <2>4 DEF NamesObject
    <3>2. r.objs[1] = u.objs[1] => \A i \in 1 .. Len(r.objs) : r.objs[i] = u.objs[i]
      BY <3>1
    <3>3. QED
      BY <2>4, <3>1, <3>2, SeqEqual
  <2>8. QED
    BY <2>2, <2>6, <2>7 DEF SameObject, LinksTo
<1>2. ASSUME NEW a \in Q, w[a].magic = "OBJT", ObjectOf(w[a]) = ObjectOf(r)
      PROVE  FALSE
  BY <1>1, <1>2 DEF ObjectOf
<1>3. ASSUME NEW a \in Q, w[a].magic = "OBJT", KindAt(r) = "link",
             ObjectOf(w[a]) = FirstLink(ObjectOf(r))
      PROVE  FALSE
  BY <1>1, <1>3 DEF ObjectOf, FirstLink, LinksTo
<1> HIDE DEF r
<1>4. QED
  BY <1>2, <1>3 DEF Named, r

-----------------------------------------------------------------------------
(***************************************************************************)
(* The line of a restore: the headers h in hand, the queue q and the       *)
(* places U of the archive ar that are unread; and how it moves.           *)
(***************************************************************************)
LineOf(h, q, U) == ({-1} \X DOMAIN h) \cup ({0} \X DOMAIN q) \cup U

ValuesOf(h, q, U, ar) ==
  [a \in LineOf(h, q, U) |-> IF a[1] = -1 THEN h[a[2]]
                             ELSE IF a[1] = 0 THEN q[a[2]] ELSE RecordAt(ar, a)]

UnreadType == (Nat \ {0}) \X Nat

IsLine(P, val, h, q, U, ar) ==
  /\ P \subseteq Int \X Int
  /\ Len(h) \in Nat /\ Len(q) \in Nat
  /\ \A k \in 1 .. Len(h) : <<-1, k>> \in P /\ val[<<-1, k>>] = h[k]
  /\ \A i \in 1 .. Len(q) : <<0, i>> \in P /\ val[<<0, i>>] = q[i]
  /\ \A a \in U : a \in P /\ a[1] >= 1 /\ val[a] = RecordAt(ar, a)
  /\ \A a \in P : /\ a = <<a[1], a[2]>> /\ a[1] \in Int /\ a[2] \in Int
                  /\ \/ a[1] = -1 /\ a[2] \in 1 .. Len(h)
                     \/ a[1] = 0 /\ a[2] \in 1 .. Len(q)
                     \/ a \in U

\* The places of a line, and what is at each.
LEMMA LinePlaces ==
  ASSUME NEW h \in Seq(Readable), NEW q \in Seq(Readable), NEW U \in SUBSET UnreadType, NEW ar
  PROVE  IsLine(LineOf(h, q, U), ValuesOf(h, q, U, ar), h, q, U, ar)
<1>1. /\ DOMAIN h = 1 .. Len(h) /\ DOMAIN q = 1 .. Len(q)
      /\ Len(h) \in Nat /\ Len(q) \in Nat
  BY LenProperties
<1> DEFINE P == LineOf(h, q, U)
           val == ValuesOf(h, q, U, ar)
<1>2. ASSUME NEW a \in P
      PROVE  /\ a \in Int \X Int /\ a = <<a[1], a[2]>> /\ a[1] \in Int /\ a[2] \in Int
             /\ \/ a[1] = -1 /\ a[2] \in 1 .. Len(h)
                \/ a[1] = 0 /\ a[2] \in 1 .. Len(q)
                \/ a \in U
  BY <1>1 DEF LineOf, UnreadType
<1>3. \A k \in 1 .. Len(h) : <<-1, k>> \in P
  BY <1>1 DEF LineOf
<1>4. \A i \in 1 .. Len(q) : <<0, i>> \in P
  BY <1>1 DEF LineOf
<1>5. \A a \in U : a \in P /\ a[1] >= 1 /\ a[1] # -1 /\ a[1] # 0
  BY DEF LineOf, UnreadType
<1>6. \A a \in P : val[a] = IF a[1] = -1 THEN h[a[2]]
                            ELSE IF a[1] = 0 THEN q[a[2]] ELSE RecordAt(ar, a)
  BY DEF ValuesOf
<1> HIDE DEF P, val
<1>7. \A k \in 1 .. Len(h) : val[<<-1, k>>] = h[k]
  BY <1>3, <1>6
<1>8. ASSUME NEW i \in 1 .. Len(q)
      PROVE  val[<<0, i>>] = q[i]
  <2>1. <<0, i>> \in P /\ <<0, i>>[1] = 0 /\ <<0, i>>[2] = i /\ 0 # -1
    BY <1>4
  <2>2. QED
    BY <1>6, <2>1
<1>9. \A a \in U : val[a] = RecordAt(ar, a)
  BY <1>5, <1>6
<1>10. IsLine(P, val, h, q, U, ar)
  BY <1>1, <1>2, <1>3, <1>4, <1>5, <1>7, <1>8, <1>9 DEF IsLine
<1>11. QED
  BY <1>10 DEF P, val

\* A step takes the first header in hand away (dh) or all of them, the head of the
\* queue (dq), which may come into the hand, and puts into the queue what stands
\* for the first record that is unread (x).
Moves(h, q, U, h2, q2, U2, ar, dh, dq, x) ==
  /\ dh \in {0, 1} /\ dq \in {0, 1} /\ U2 \subseteq U
  /\ \/ Len(h2) + dh <= Len(h)
     \/ /\ dh = 0 /\ dq = 1 /\ Len(h2) = Len(h) + 1 /\ Len(q) > 0
        /\ StandsFor(h2[Len(h2)], q[1])
  /\ \A k \in 1 .. Len(h2) : k + dh <= Len(h) => h2[k] = h[k + dh]
  /\ \/ Len(q2) + dq = Len(q)
     \/ /\ dq = 0 /\ Len(q2) = Len(q) + 1 /\ x \in U /\ \A a \in U2 : Before(x, a)
        /\ StandsFor(q2[Len(q2)], RecordAt(ar, x))
  /\ \A i \in 1 .. Len(q2) : i + dq <= Len(q) => q2[i] = q[i + dq]

\* Where each record of the new line was.
WasAt(h, q, h2, q2, U2, dh, dq, x) ==
  [a \in LineOf(h2, q2, U2) |->
     IF a[1] = -1 THEN IF a[2] + dh <= Len(h) THEN <<-1, a[2] + dh>> ELSE <<0, 1>>
     ELSE IF a[1] = 0 THEN IF a[2] + dq <= Len(q) THEN <<0, a[2] + dq>> ELSE x
     ELSE a]

Origin(m, n, U2, dh, dq, x, a, b) ==
  \/ a[1] = -1 /\ a[2] >= 1 /\ a[2] + dh <= m /\ b[1] = -1 /\ b[2] = a[2] + dh
  \/ a[1] = -1 /\ a[2] = m + 1 /\ dh = 0 /\ dq = 1 /\ b[1] = 0 /\ b[2] = 1
  \/ a[1] = 0 /\ a[2] >= 1 /\ a[2] + dq <= n /\ b[1] = 0 /\ b[2] = a[2] + dq
  \/ a[1] = 0 /\ a[2] = n + 1 /\ dq = 0 /\ b = x /\ b[1] >= 1 /\ \A c \in U2 : Before(x, c)
  \/ a \in U2 /\ a[1] >= 1 /\ b = a

\* Where a record was is a place of the line before.
LEMMA WasAtPlaces ==
  ASSUME NEW h \in Seq(Readable), NEW q \in Seq(Readable), NEW U \in SUBSET UnreadType, NEW ar,
         NEW h2 \in Seq(Readable), NEW q2 \in Seq(Readable), NEW U2 \in SUBSET UnreadType,
         NEW dh, NEW dq, NEW x, Moves(h, q, U, h2, q2, U2, ar, dh, dq, x),
         NEW a \in LineOf(h2, q2, U2)
  PROVE  LET b == WasAt(h, q, h2, q2, U2, dh, dq, x)[a]
         IN  /\ a[1] \in Int /\ a[2] \in Int
             /\ b \in LineOf(h, q, U) /\ b[1] \in Int /\ b[2] \in Int
             /\ StandsFor(ValuesOf(h2, q2, U2, ar)[a], ValuesOf(h, q, U, ar)[b])
             /\ Origin(Len(h), Len(q), U2, dh, dq, x, a, b)
<1> DEFINE P == LineOf(h, q, U)
           val == ValuesOf(h, q, U, ar)
           Q == LineOf(h2, q2, U2)
           w == ValuesOf(h2, q2, U2, ar)
           b == WasAt(h, q, h2, q2, U2, dh, dq, x)[a]
<1>1. IsLine(P, val, h, q, U, ar)
  BY LinePlaces
<1>2. IsLine(Q, w, h2, q2, U2, ar) /\ a \in Q
  BY LinePlaces
<1>4. b = IF a[1] = -1 THEN IF a[2] + dh <= Len(h) THEN <<-1, a[2] + dh>> ELSE <<0, 1>>
          ELSE IF a[1] = 0 THEN IF a[2] + dq <= Len(q) THEN <<0, a[2] + dq>> ELSE x
          ELSE a
  BY DEF WasAt
<1>5. /\ dh \in {0, 1} /\ dq \in {0, 1} /\ U2 \subseteq U
      /\ \/ Len(h2) + dh <= Len(h)
         \/ /\ dh = 0 /\ dq = 1 /\ Len(h2) = Len(h) + 1 /\ Len(q) > 0
            /\ StandsFor(h2[Len(h2)], q[1])
      /\ \A k \in 1 .. Len(h2) : k + dh <= Len(h) => h2[k] = h[k + dh]
      /\ \/ Len(q2) + dq = Len(q)
         \/ /\ dq = 0 /\ Len(q2) = Len(q) + 1 /\ x \in U /\ \A c \in U2 : Before(x, c)
            /\ StandsFor(q2[Len(q2)], RecordAt(ar, x))
      /\ \A i \in 1 .. Len(q2) : i + dq <= Len(q) => q2[i] = q[i + dq]
  BY DEF Moves
<1> HIDE DEF P, val, Q, w, b
<1>3. /\ a = <<a[1], a[2]>> /\ a[1] \in Int /\ a[2] \in Int
      /\ \/ a[1] = -1 /\ a[2] \in 1 .. Len(h2)
         \/ a[1] = 0 /\ a[2] \in 1 .. Len(q2)
         \/ a \in U2
      /\ Len(h2) \in Nat /\ Len(q2) \in Nat
  BY <1>2 DEF IsLine
<1>30. /\ \A k \in 1 .. Len(h2) : w[<<-1, k>>] = h2[k]
       /\ \A i \in 1 .. Len(q2) : w[<<0, i>>] = q2[i]
       /\ \A c \in U2 : c \in Q /\ c[1] >= 1 /\ w[c] = RecordAt(ar, c)
  BY <1>2 DEF IsLine
<1>31. /\ Len(h) \in Nat /\ Len(q) \in Nat
       /\ \A k \in 1 .. Len(h) : <<-1, k>> \in P /\ val[<<-1, k>>] = h[k]
       /\ \A i \in 1 .. Len(q) : <<0, i>> \in P /\ val[<<0, i>>] = q[i]
       /\ \A c \in U : c \in P /\ c[1] >= 1 /\ val[c] = RecordAt(ar, c)
  BY <1>1 DEF IsLine
<1>20. \A c \in P : c[1] \in Int /\ c[2] \in Int
  BY <1>1 DEF IsLine
<1>6. \A r : StandsFor(r, r)
  BY DEF StandsFor
<1>7. CASE a[1] = -1 /\ a[2] \in 1 .. Len(h2) /\ a[2] + dh <= Len(h)
  <2>1. a[2] + dh \in 1 .. Len(h) /\ b = <<-1, a[2] + dh>> /\ a = <<-1, a[2]>>
    BY <1>31, <1>3, <1>4, <1>5, <1>7
  <2>2. w[a] = h2[a[2]] /\ val[b] = h[a[2] + dh] /\ b \in P /\ h2[a[2]] = h[a[2] + dh]
    BY <1>31, <1>30, <1>5, <1>7, <2>1
  <2>3. b[1] = -1 /\ b[2] = a[2] + dh
    BY <2>1
  <2>4. QED
    BY <1>31, <1>3, <1>6, <1>7, <1>20, <2>2, <2>3 DEF P, val, w, b, Origin
<1>8. CASE a[1] = -1 /\ a[2] \in 1 .. Len(h2) /\ ~(a[2] + dh <= Len(h))
  <2>1. /\ dh = 0 /\ dq = 1 /\ Len(h2) = Len(h) + 1 /\ 1 \in 1 .. Len(q)
        /\ StandsFor(h2[Len(h2)], q[1]) /\ a[2] = Len(h2) /\ b = <<0, 1>> /\ a = <<-1, a[2]>>
    BY <1>31, <1>30, <1>3, <1>4, <1>5, <1>8
  <2>2. w[a] = h2[a[2]] /\ val[b] = q[1] /\ b \in P
    BY <1>31, <1>30, <1>8, <2>1
  <2>3. b[1] = 0 /\ b[2] = 1
    BY <2>1
  <2>4. QED
    BY <1>31, <1>3, <1>8, <1>20, <2>1, <2>2, <2>3 DEF P, val, w, b, Origin
<1>9. CASE a[1] = 0 /\ a[2] \in 1 .. Len(q2) /\ a[2] + dq <= Len(q)
  <2>1. a[2] + dq \in 1 .. Len(q) /\ b = <<0, a[2] + dq>> /\ a = <<0, a[2]>>
    BY <1>31, <1>3, <1>4, <1>5, <1>9
  <2>2. w[a] = q2[a[2]] /\ val[b] = q[a[2] + dq] /\ b \in P /\ q2[a[2]] = q[a[2] + dq]
    BY <1>31, <1>30, <1>5, <1>9, <2>1
  <2>3. b[1] = 0 /\ b[2] = a[2] + dq
    BY <2>1
  <2>4. QED
    BY <1>31, <1>3, <1>6, <1>9, <1>20, <2>2, <2>3 DEF P, val, w, b, Origin
<1>10. CASE a[1] = 0 /\ a[2] \in 1 .. Len(q2) /\ ~(a[2] + dq <= Len(q))
  <2>1. /\ dq = 0 /\ Len(q2) = Len(q) + 1 /\ a[2] = Len(q2) /\ b = x /\ a = <<0, a[2]>>
        /\ x \in U /\ (\A c \in U2 : Before(x, c))
        /\ StandsFor(q2[Len(q2)], RecordAt(ar, x))
    BY <1>31, <1>30, <1>3, <1>4, <1>5, <1>10
  <2>2. w[a] = q2[a[2]] /\ val[b] = RecordAt(ar, x) /\ b \in P /\ b[1] >= 1
    BY <1>31, <1>30, <1>10, <2>1
  <2>3. QED
    BY <1>31, <1>3, <1>10, <1>20, <2>1, <2>2 DEF P, val, w, b, Origin
<1>11. CASE a \in U2
  <2>1. a[1] >= 1 /\ a \in U /\ b = a
    BY <1>30, <1>4, <1>5, <1>11
  <2>2. w[a] = val[b] /\ b \in P
    BY <1>31, <1>30, <1>11, <2>1
  <2>3. QED
    BY <1>31, <1>3, <1>6, <1>11, <1>20, <2>1, <2>2 DEF P, val, w, b, Origin
<1>12. QED
  BY <1>3, <1>7, <1>8, <1>9, <1>10, <1>11

\* What LineMoves says of the records that are kept and of those that are not.
Moved(P, val, Q, w, s, h2, q, q2, U, U2, dh, dq, x) ==
  /\ Shift(P, val, Q, w, s)
  /\ dh = 1 => \A a \in Q : Before(<<-1, 1>>, s[a])
  /\ dq = 1 => \A a \in Q : a[1] >= 0 \/ h2 = <<>> => Before(<<0, 1>>, s[a])
  /\ \A c \in P : c[1] >= 0 =>
       \/ \E d \in Q : d[1] >= 0 /\ s[d] = c
       \/ dq = 1 /\ c = <<0, 1>>
       \/ c \in U \ U2 /\ (Len(q2) = Len(q) + 1 => c # x)

\* The records move along the line in order, and nothing else is left out.
LEMMA LineMoves ==
  ASSUME NEW h \in Seq(Readable), NEW q \in Seq(Readable), NEW U \in SUBSET UnreadType, NEW ar,
         NEW h2 \in Seq(Readable), NEW q2 \in Seq(Readable), NEW U2 \in SUBSET UnreadType,
         NEW dh, NEW dq, NEW x, Moves(h, q, U, h2, q2, U2, ar, dh, dq, x)
  PROVE  Moved(LineOf(h, q, U), ValuesOf(h, q, U, ar),
               LineOf(h2, q2, U2), ValuesOf(h2, q2, U2, ar),
               WasAt(h, q, h2, q2, U2, dh, dq, x), h2, q, q2, U, U2, dh, dq, x)
<1> DEFINE P == LineOf(h, q, U)
           val == ValuesOf(h, q, U, ar)
           Q == LineOf(h2, q2, U2)
           w == ValuesOf(h2, q2, U2, ar)
           s == WasAt(h, q, h2, q2, U2, dh, dq, x)
<1>1. ASSUME NEW a \in Q
      PROVE  /\ a[1] \in Int /\ a[2] \in Int
             /\ s[a] \in P /\ s[a][1] \in Int /\ s[a][2] \in Int
             /\ StandsFor(w[a], val[s[a]])
             /\ Origin(Len(h), Len(q), U2, dh, dq, x, a, s[a])
  BY WasAtPlaces
<1>2. /\ dh \in {0, 1} /\ dq \in {0, 1} /\ Len(h) \in Nat /\ Len(q) \in Nat
  BY LenProperties DEF Moves
<1>3. DOMAIN s = Q /\ P \subseteq Int \X Int /\ Q \subseteq Int \X Int
  BY LinePlaces DEF WasAt, IsLine
<1>4. s = [a \in Q |-> s[a]]
  BY DEF WasAt
<1>5. ASSUME NEW c \in P, c[1] >= 0
      PROVE  \/ \E d \in Q : d[1] >= 0 /\ s[d] = c
             \/ dq = 1 /\ c = <<0, 1>>
             \/ c \in U \ U2 /\ (Len(q2) = Len(q) + 1 => c # x)
  <2>1. /\ c = <<c[1], c[2]>> /\ c[1] \in Int /\ c[2] \in Int
        /\ \/ c[1] = 0 /\ c[2] \in 1 .. Len(q)
           \/ c \in U
    <3>1. IsLine(P, val, h, q, U, ar) /\ c \in P /\ c[1] # -1
      BY <1>5, LinePlaces
    <3> HIDE DEF P, val
    <3>2. QED
      BY <3>1 DEF IsLine
  <2>2. /\ \A a \in Q : s[a] =
             IF a[1] = -1 THEN IF a[2] + dh <= Len(h) THEN <<-1, a[2] + dh>> ELSE <<0, 1>>
             ELSE IF a[1] = 0 THEN IF a[2] + dq <= Len(q) THEN <<0, a[2] + dq>> ELSE x
             ELSE a
    BY DEF WasAt
  <2>3. /\ \A i \in 1 .. Len(q2) : <<0, i>> \in Q
        /\ \A a \in U2 : a \in Q /\ a[1] >= 1
        /\ Len(q2) \in Nat
    BY LinePlaces DEF IsLine
  <2>4. Len(q2) + dq = Len(q) \/ (dq = 0 /\ Len(q2) = Len(q) + 1)
    BY DEF Moves
  <2>5. CASE c[1] = 0 /\ c[2] \in 1 .. Len(q) /\ c[2] - dq >= 1
    <3> DEFINE i == c[2] - dq
    <3>1. i \in 1 .. Len(q2) /\ i + dq = c[2] /\ i + dq <= Len(q) /\ 0 # -1
      BY <1>2, <2>1, <2>3, <2>4, <2>5
    <3> HIDE DEF i
    <3>2. <<0, i>> \in Q /\ <<0, i>>[1] = 0 /\ <<0, i>>[2] = i
      BY <2>3, <3>1
    <3>3. s[<<0, i>>] = <<0, i + dq>>
      BY <2>2, <3>1, <3>2
    <3>4. c = <<0, i + dq>>
      BY <2>1, <2>5, <3>1
    <3>5. <<0, i>>[1] >= 0
      OBVIOUS
    <3>6. QED
      BY <3>2, <3>3, <3>4, <3>5, Zenon
  <2>6. CASE c[1] = 0 /\ c[2] \in 1 .. Len(q) /\ ~(c[2] - dq >= 1)
    <3>1. dq = 1 /\ c[2] = 1
      BY <1>2, <2>1, <2>6
    <3>2. QED
      BY <2>1, <2>6, <3>1
  <2>7. CASE c \in U2
    <3>1. c \in Q /\ c[1] # -1 /\ c[1] # 0
      BY <1>5, <2>1, <2>3, <2>7
    <3>2. s[c] = c
      BY <2>2, <3>1
    <3>3. QED
      BY <1>5, <3>1, <3>2
  <2>8. CASE c \in U /\ c \notin U2 /\ Len(q2) = Len(q) + 1 /\ c = x
    <3> DEFINE i == Len(q) + 1
    <3>1. i \in 1 .. Len(q2) /\ dq = 0 /\ ~(i + dq <= Len(q)) /\ 0 # -1
      BY <1>2, <2>3, <2>4, <2>8
    <3> HIDE DEF i
    <3>2. <<0, i>> \in Q /\ <<0, i>>[1] = 0 /\ <<0, i>>[2] = i
      BY <2>3, <3>1
    <3>3. s[<<0, i>>] = x
      BY <2>2, <3>1, <3>2
    <3>4. QED
      BY <2>8, <3>2, <3>3
  <2>9. QED
    BY <2>1, <2>5, <2>6, <2>7, <2>8
<1> HIDE DEF P, val, Q, w, s
<1>6. ASSUME NEW a \in Q, NEW b \in Q
      PROVE  Before(a, b) <=> Before(s[a], s[b])
  <2> DEFINE m == Len(h)
             n == Len(q)
             c == s[a]
             d == s[b]
  <2>1. /\ a[1] \in Int /\ a[2] \in Int /\ c[1] \in Int /\ c[2] \in Int
        /\ Origin(m, n, U2, dh, dq, x, a, c)
    BY <1>1
  <2>2. /\ b[1] \in Int /\ b[2] \in Int /\ d[1] \in Int /\ d[2] \in Int
        /\ Origin(m, n, U2, dh, dq, x, b, d)
    BY <1>1
  <2>3. m \in Nat /\ n \in Nat /\ dh \in {0, 1} /\ dq \in {0, 1}
    BY <1>2
  <2> HIDE DEF m, n, c, d
  <2>4. Before(a, b) <=> Before(c, d)
    <3> USE <2>1, <2>2, <2>3 DEF Before, Origin
    <3>1. CASE a[1] = -1 /\ a[2] >= 1 /\ a[2] + dh <= m /\ c[1] = -1 /\ c[2] = a[2] + dh
      BY <3>1, SMTT(60)
    <3>2. CASE a[1] = -1 /\ a[2] = m + 1 /\ dh = 0 /\ dq = 1 /\ c[1] = 0 /\ c[2] = 1
      BY <3>2, SMTT(60)
    <3>3. CASE a[1] = 0 /\ a[2] >= 1 /\ a[2] + dq <= n /\ c[1] = 0 /\ c[2] = a[2] + dq
      BY <3>3, SMTT(60)
    <3>4. CASE /\ a[1] = 0 /\ a[2] = n + 1 /\ dq = 0 /\ c = x /\ c[1] >= 1
               /\ \A e \in U2 : Before(x, e)
      BY <3>4, SMTT(60)
    <3>5. CASE a \in U2 /\ a[1] >= 1 /\ c = a
      BY <3>5, SMTT(60)
    <3>6. QED
      BY <3>1, <3>2, <3>3, <3>4, <3>5
  <2>5. QED
    BY <2>4 DEF c, d
<1>7. s \in [Q -> P]
  BY <1>1, <1>4
<1>8. \A a \in Q : a[1] >= 0 => s[a][1] >= 0
  BY <1>1 DEF Origin
<1>9. Shift(P, val, Q, w, s)
  BY <1>1, <1>3, <1>6, <1>7, <1>8 DEF Shift
<1>10. \A a \in Q : dh = 1 => Before(<<-1, 1>>, s[a])
  BY <1>1, <1>2 DEF Before, Origin
<1>11. ASSUME NEW a \in Q, dq = 1, a[1] >= 0 \/ h2 = <<>>
       PROVE  Before(<<0, 1>>, s[a])
  <2>1. a[1] >= 0
    <3>1. h2 = <<>> => Len(h2) = 0
      OBVIOUS
    <3>2. a[1] = -1 => a[2] \in 1 .. Len(h2)
      <4>1. \/ a[1] = -1 /\ a[2] \in 1 .. Len(h2)
            \/ a[1] = 0 /\ a[2] \in 1 .. Len(q2)
            \/ a \in U2 /\ a[1] >= 1
        BY LinePlaces DEF Q, IsLine
      <4>2. QED
        BY <4>1
    <3>3. a[1] = -1 \/ a[1] >= 0
      BY <1>1 DEF Origin
    <3>4. QED
      BY <1>11, <3>1, <3>2, <3>3
  <2>2. QED
    BY <1>1, <1>11, <2>1 DEF Before, Origin
<1>12. Moved(P, val, Q, w, s, h2, q, q2, U, U2, dh, dq, x)
  BY <1>5, <1>9, <1>10, <1>11 DEF Moved
<1>13. QED
  BY <1>12 DEF P, val, Q, w, s

LineTypes(h, q, U, ar) ==
  /\ h \in Seq(Readable) /\ q \in Seq(Readable) /\ U \in SUBSET UnreadType
  /\ \A a \in U : RecordAt(ar, a) \in Readable

\* What is read and not put into the queue begins nothing.
LosesNothing(q, U, q2, U2, ar, x) ==
  \A c \in U \ U2 : (Len(q2) = Len(q) + 1 /\ c = x) \/ \A m : ~Begins(RecordAt(ar, c), m)

\* Every record of a line is one the reader may put into the queue.
LEMMA LineReadable ==
  ASSUME NEW h, NEW q, NEW U, NEW ar, LineTypes(h, q, U, ar)
  PROVE  \A a \in LineOf(h, q, U) : ValuesOf(h, q, U, ar)[a] \in Readable
<1> DEFINE P == LineOf(h, q, U)
           val == ValuesOf(h, q, U, ar)
<1>1. IsLine(P, val, h, q, U, ar)
  BY LinePlaces DEF LineTypes
<1> HIDE DEF P, val
<1> SUFFICES ASSUME NEW a \in P PROVE val[a] \in Readable
  BY DEF P, val
<1>2. /\ a = <<a[1], a[2]>>
      /\ \/ a[1] = -1 /\ a[2] \in 1 .. Len(h)
         \/ a[1] = 0 /\ a[2] \in 1 .. Len(q)
         \/ a \in U
  BY <1>1 DEF IsLine
<1>3. CASE a[1] = -1 /\ a[2] \in 1 .. Len(h)
  <2>1. val[a] = h[a[2]]
    BY <1>1, <1>2, <1>3 DEF IsLine
  <2>2. QED
    BY <1>3, <2>1, ElementOfSeq DEF LineTypes
<1>4. CASE a[1] = 0 /\ a[2] \in 1 .. Len(q)
  <2>1. val[a] = q[a[2]]
    BY <1>1, <1>2, <1>4 DEF IsLine
  <2>2. QED
    BY <1>4, <2>1, ElementOfSeq DEF LineTypes
<1>5. CASE a \in U
  <2>1. val[a] = RecordAt(ar, a)
    BY <1>1, <1>5 DEF IsLine
  <2>2. QED
    BY <1>5, <2>1 DEF LineTypes
<1>6. QED
  BY <1>2, <1>3, <1>4, <1>5

\* A line stays in line, and names nothing new.
LEMMA MoveLine ==
  ASSUME NEW h, NEW q, NEW U, NEW h2, NEW q2, NEW U2, NEW ar, NEW dh, NEW dq, NEW x,
         LineTypes(h, q, U, ar), LineTypes(h2, q2, U2, ar),
         Moves(h, q, U, h2, q2, U2, ar, dh, dq, x), LosesNothing(q, U, q2, U2, ar, x)
  PROVE  /\ InLine(LineOf(h, q, U), ValuesOf(h, q, U, ar)) =>
              InLine(LineOf(h2, q2, U2), ValuesOf(h2, q2, U2, ar))
         /\ Named(LineOf(h2, q2, U2), ValuesOf(h2, q2, U2, ar))
              \subseteq Named(LineOf(h, q, U), ValuesOf(h, q, U, ar))
<1> DEFINE P == LineOf(h, q, U)
           val == ValuesOf(h, q, U, ar)
           Q == LineOf(h2, q2, U2)
           w == ValuesOf(h2, q2, U2, ar)
           s == WasAt(h, q, h2, q2, U2, dh, dq, x)
<1>0. Moved(P, val, Q, w, s, h2, q, q2, U, U2, dh, dq, x)
  BY LineMoves DEF LineTypes
<1>2. IsLine(P, val, h, q, U, ar)
  BY LinePlaces DEF LineTypes
<1> HIDE DEF P, val, Q, w, s
<1>1. /\ Shift(P, val, Q, w, s)
      /\ \A c \in P : c[1] >= 0 =>
           \/ \E d \in Q : d[1] >= 0 /\ s[d] = c
           \/ dq = 1 /\ c = <<0, 1>>
           \/ c \in U \ U2 /\ (Len(q2) = Len(q) + 1 => c # x)
  BY <1>0 DEF Moved
<1>3. Named(Q, w) \subseteq Named(P, val)
  BY <1>1, NamedShift
<1>4. Harmless(P, val, Q, s)
  <2> SUFFICES ASSUME NEW c \in P, c[1] >= 0
               PROVE  \/ \E d \in Q : s[d] = c
                      \/ \A a \in P : a[1] >= 0 => ~Before(a, c)
                      \/ \A m : ~Begins(val[c], m)
    BY DEF Harmless
  <2>1. CASE c = <<0, 1>>
    <3>1. \A a \in P : a[1] >= 0 => ~Before(a, <<0, 1>>)
      BY <1>2 DEF IsLine, Before
    <3>2. QED
      BY <2>1, <3>1
  <2>2. CASE c \in U \ U2 /\ (Len(q2) = Len(q) + 1 => c # x)
    <3>1. val[c] = RecordAt(ar, c)
      BY <1>2, <2>2 DEF IsLine
    <3>2. \A m : ~Begins(RecordAt(ar, c), m)
      BY <2>2 DEF LosesNothing
    <3>3. QED
      BY <3>1, <3>2
  <2>3. QED
    BY <1>1, <2>1, <2>2
<1>5. InLine(P, val) => InLine(Q, w)
  BY <1>1, <1>4, ShiftSound
<1>6. QED
  BY <1>3, <1>5 DEF P, val, Q, w

\* When something in the queue is replaced by what stands for it, the line stays a
\* line that names nothing new, and what was clear of a header stays clear.
LEMMA Zeroed ==
  ASSUME NEW h, NEW q, NEW U, NEW q2, NEW ar,
         LineTypes(h, q, U, ar), LineTypes(h, q2, U, ar), Len(q2) = Len(q),
         \A i \in 1 .. Len(q) : StandsFor(q2[i], q[i])
  PROVE  /\ InLine(LineOf(h, q, U), ValuesOf(h, q, U, ar)) =>
              InLine(LineOf(h, q2, U), ValuesOf(h, q2, U, ar))
         /\ Named(LineOf(h, q2, U), ValuesOf(h, q2, U, ar))
              \subseteq Named(LineOf(h, q, U), ValuesOf(h, q, U, ar))
         /\ \A r, m : ClearOf(LineOf(h, q, U), ValuesOf(h, q, U, ar), r, m) =>
                        ClearOf(LineOf(h, q2, U), ValuesOf(h, q2, U, ar), r, m)
<1> DEFINE P == LineOf(h, q, U)
           val == ValuesOf(h, q, U, ar)
           Q == LineOf(h, q2, U)
           w == ValuesOf(h, q2, U, ar)
           s == [a \in Q |-> a]
<1>1. IsLine(P, val, h, q, U, ar) /\ IsLine(Q, w, h, q2, U, ar)
  BY LinePlaces DEF LineTypes
<1>2. Q = P
  <2>1. DOMAIN q = 1 .. Len(q) /\ DOMAIN q2 = 1 .. Len(q2)
    BY LenProperties DEF LineTypes
  <2>2. QED
    BY <2>1 DEF LineOf
<1> HIDE DEF P, val, Q, w
<1>3. ASSUME NEW a \in Q
      PROVE  StandsFor(w[a], val[a])
  <2>1. \A r : StandsFor(r, r)
    BY DEF StandsFor
  <2>2. /\ a = <<a[1], a[2]>>
        /\ \/ a[1] = -1 /\ a[2] \in 1 .. Len(h)
           \/ a[1] = 0 /\ a[2] \in 1 .. Len(q2)
           \/ a \in U
    BY <1>1 DEF IsLine
  <2>3. CASE a[1] = -1 /\ a[2] \in 1 .. Len(h)
    <3>1. w[a] = h[a[2]] /\ val[a] = h[a[2]]
      BY <1>1, <2>2, <2>3 DEF IsLine
    <3>2. QED
      BY <2>1, <3>1
  <2>4. CASE a[1] = 0 /\ a[2] \in 1 .. Len(q2)
    <3>1. w[a] = q2[a[2]] /\ val[a] = q[a[2]]
      BY <1>1, <2>2, <2>4 DEF IsLine
    <3>2. QED
      BY <2>4, <3>1
  <2>5. CASE a \in U
    <3>1. w[a] = RecordAt(ar, a) /\ val[a] = RecordAt(ar, a)
      BY <1>1, <2>5 DEF IsLine
    <3>2. QED
      BY <2>1, <3>1
  <2>6. QED
    BY <2>2, <2>3, <2>4, <2>5
<1>4. \A a \in Q : s[a] = a
  OBVIOUS
<1>5. s \in [Q -> P]
  BY <1>2
<1> HIDE DEF s
<1>6. Shift(P, val, Q, w, s)
  BY <1>1, <1>3, <1>4, <1>5 DEF Shift, IsLine
<1>7. Harmless(P, val, Q, s)
  BY <1>2, <1>4 DEF Harmless
<1>8. InLine(P, val) => InLine(Q, w)
  BY <1>6, <1>7, ShiftSound
<1>9. Named(Q, w) \subseteq Named(P, val)
  BY <1>6, NamedShift
<1>10. ASSUME NEW r, NEW m, ClearOf(P, val, r, m)
       PROVE  ClearOf(Q, w, r, m)
  BY <1>2, <1>4, <1>6, <1>10, ClearKept
<1>11. QED
  BY <1>8, <1>9, <1>10 DEF P, val, Q, w

\* What is clear of a header stays clear of it, unless something goes that might open
\* what is foreign.
LEMMA MoveClear ==
  ASSUME NEW h, NEW q, NEW U, NEW h2, NEW q2, NEW U2, NEW ar, NEW dh, NEW dq, NEW x,
         LineTypes(h, q, U, ar), LineTypes(h2, q2, U2, ar),
         Moves(h, q, U, h2, q2, U2, ar, dh, dq, x), LosesNothing(q, U, q2, U2, ar, x),
         NEW r, NEW m, dq = 1 => Len(q) > 0 /\ ~Begins(q[1], m),
         ClearOf(LineOf(h, q, U), ValuesOf(h, q, U, ar), r, m)
  PROVE  ClearOf(LineOf(h2, q2, U2), ValuesOf(h2, q2, U2, ar), r, m)
<1> DEFINE P == LineOf(h, q, U)
           val == ValuesOf(h, q, U, ar)
           Q == LineOf(h2, q2, U2)
           w == ValuesOf(h2, q2, U2, ar)
           s == WasAt(h, q, h2, q2, U2, dh, dq, x)
<1>0. Moved(P, val, Q, w, s, h2, q, q2, U, U2, dh, dq, x)
  BY LineMoves DEF LineTypes
<1>2. IsLine(P, val, h, q, U, ar)
  BY LinePlaces DEF LineTypes
<1>3. ClearOf(P, val, r, m)
  OBVIOUS
<1> HIDE DEF P, val, Q, w, s
<1>1. /\ Shift(P, val, Q, w, s)
      /\ \A c \in P : c[1] >= 0 =>
           \/ \E d \in Q : d[1] >= 0 /\ s[d] = c
           \/ dq = 1 /\ c = <<0, 1>>
           \/ c \in U \ U2 /\ (Len(q2) = Len(q) + 1 => c # x)
  BY <1>0 DEF Moved
<1>4. ASSUME NEW c \in P, c[1] >= 0
      PROVE  (\E d \in Q : d[1] >= 0 /\ s[d] = c) \/ ~Begins(val[c], m)
  <2>1. CASE dq = 1 /\ c = <<0, 1>>
    <3>1. val[c] = q[1]
      BY <1>2, <2>1 DEF IsLine
    <3>2. QED
      BY <2>1, <3>1
  <2>2. CASE c \in U \ U2 /\ (Len(q2) = Len(q) + 1 => c # x)
    <3>1. val[c] = RecordAt(ar, c)
      BY <1>2, <2>2 DEF IsLine
    <3>2. ~Begins(RecordAt(ar, c), m)
      BY <2>2 DEF LosesNothing
    <3>3. QED
      BY <3>1, <3>2
  <2>3. QED
    BY <1>1, <1>4, <2>1, <2>2
<1>5. ClearOf(Q, w, r, m)
  BY <1>1, <1>3, <1>4, ClearKept
<1>6. QED
  BY <1>5 DEF Q, w

\* What is behind the head of the queue is clear of it when it is taken.
LEMMA TakenClear ==
  ASSUME NEW h, NEW q, NEW U, NEW h2, NEW q2, NEW U2, NEW ar, NEW dh, NEW dq, NEW x,
         LineTypes(h, q, U, ar), LineTypes(h2, q2, U2, ar),
         Moves(h, q, U, h2, q2, U2, ar, dh, dq, x), LosesNothing(q, U, q2, U2, ar, x),
         InLine(LineOf(h, q, U), ValuesOf(h, q, U, ar)),
         dq = 1, Len(q) > 0, NEW r, StandsFor(r, q[1]), NEW m
  PROVE  ClearOf(LineOf(h2, q2, U2), ValuesOf(h2, q2, U2, ar), r, m)
<1> DEFINE P == LineOf(h, q, U)
           val == ValuesOf(h, q, U, ar)
           Q == LineOf(h2, q2, U2)
           w == ValuesOf(h2, q2, U2, ar)
           s == WasAt(h, q, h2, q2, U2, dh, dq, x)
<1>0. Moved(P, val, Q, w, s, h2, q, q2, U, U2, dh, dq, x)
  BY LineMoves DEF LineTypes
<1>2. IsLine(P, val, h, q, U, ar)
  BY LinePlaces DEF LineTypes
<1>3. InLine(P, val)
  OBVIOUS
<1> HIDE DEF P, val, Q, w, s
<1>1. /\ Shift(P, val, Q, w, s)
      /\ \A a \in Q : a[1] >= 0 => Before(<<0, 1>>, s[a])
      /\ \A c \in P : c[1] >= 0 =>
           \/ \E d \in Q : d[1] >= 0 /\ s[d] = c
           \/ c = <<0, 1>>
           \/ c \in U \ U2 /\ (Len(q2) = Len(q) + 1 => c # x)
  BY <1>0 DEF Moved
<1> SUFFICES ASSUME NEW b \in Q, b[1] >= 0, w[b].magic = m, Foreign(r, w[b])
             PROVE  \E d \in Q : d[1] >= 0 /\ Before(d, b) /\ Opens(w[d], w[b])
  BY DEF ClearOf, Q, w
<1>4. /\ <<0, 1>> \in P /\ val[<<0, 1>>] = q[1] /\ <<0, 1>>[1] >= 0
  BY <1>2 DEF IsLine
<1>5. s[b] \in P /\ s[b][1] >= 0 /\ StandsFor(w[b], val[s[b]]) /\ Before(<<0, 1>>, s[b])
  BY <1>1 DEF Shift
<1>6. Foreign(q[1], val[s[b]])
  BY <1>5, StandsForPair
<1>7. PICK c \in P : Before(<<0, 1>>, c) /\ Before(c, s[b]) /\ Opens(val[c], val[s[b]])
  BY <1>3, <1>4, <1>5, <1>6 DEF InLine
<1>8. c[1] >= 0 /\ c # <<0, 1>>
  BY <1>2, <1>7 DEF IsLine, Before
<1>9. Begins(val[c], val[s[b]].magic)
  BY <1>6, <1>7, OpensBegins
<1>10. PICK d \in Q : d[1] >= 0 /\ s[d] = c
  <2>1. ~(c \in U \ U2 /\ (Len(q2) = Len(q) + 1 => c # x))
    BY <1>2, <1>9 DEF LosesNothing, IsLine
  <2>2. QED
    BY <1>1, <1>8, <2>1
<1>11. Before(d, b) /\ StandsFor(w[d], val[c])
  BY <1>1, <1>7, <1>10 DEF Shift
<1>12. Opens(w[d], w[b])
  BY <1>5, <1>7, <1>11, StandsForOpens
<1>13. QED
  BY <1>10, <1>11, <1>12

\* The object that goes is not named any more, nor the first link of it.
LEMMA HandGone ==
  ASSUME NEW h, NEW q, NEW U, NEW h2, NEW q2, NEW U2, NEW ar, NEW dq, NEW x,
         LineTypes(h, q, U, ar), LineTypes(h2, q2, U2, ar),
         Moves(h, q, U, h2, q2, U2, ar, 1, dq, x),
         InLine(LineOf(h, q, U), ValuesOf(h, q, U, ar)),
         Len(h) > 0, h[1].magic = "OBJT"
  PROVE  LET N == Named(LineOf(h2, q2, U2), ValuesOf(h2, q2, U2, ar))
         IN  ObjectOf(h[1]) \notin N /\ DataOf(ObjectOf(h[1])) \notin N
<1> DEFINE P == LineOf(h, q, U)
           val == ValuesOf(h, q, U, ar)
           Q == LineOf(h2, q2, U2)
           w == ValuesOf(h2, q2, U2, ar)
           s == WasAt(h, q, h2, q2, U2, 1, dq, x)
           f == <<-1, 1>>
<1>0. Moved(P, val, Q, w, s, h2, q, q2, U, U2, 1, dq, x)
  BY LineMoves DEF LineTypes
<1>2. IsLine(P, val, h, q, U, ar)
  BY LinePlaces DEF LineTypes
<1>3. InLine(P, val) /\ \A a \in P : val[a] \in Readable
  BY LineReadable
<1> HIDE DEF P, val, Q, w, s
<1>1. Shift(P, val, Q, w, s) /\ \A a \in Q : Before(f, s[a])
  BY <1>0 DEF Moved
<1>4. f \in P /\ val[f] = h[1]
  BY <1>2 DEF IsLine
<1>5. /\ ObjectOf(val[f]) \notin Named(Q, w)
      /\ KindAt(val[f]) = "link" => FirstLink(ObjectOf(val[f])) \notin Named(Q, w)
  BY <1>1, <1>3, <1>4, FirstGone
<1>6. QED
  BY <1>4, <1>5 DEF Q, w, DataOf, ObjectOf, KindAt

\* An object whose header was taken and is not in hand is named no more.
LEMMA HeadGone ==
  ASSUME NEW h, NEW q, NEW U, NEW q2, NEW U2, NEW ar, NEW dh, NEW x,
         LineTypes(h, q, U, ar), LineTypes(<<>>, q2, U2, ar),
         Moves(h, q, U, <<>>, q2, U2, ar, dh, 1, x),
         InLine(LineOf(h, q, U), ValuesOf(h, q, U, ar)),
         Len(q) > 0, q[1].magic = "OBJT"
  PROVE  LET N == Named(LineOf(<<>>, q2, U2), ValuesOf(<<>>, q2, U2, ar))
         IN  ObjectOf(q[1]) \notin N /\ DataOf(ObjectOf(q[1])) \notin N
<1> DEFINE P == LineOf(h, q, U)
           val == ValuesOf(h, q, U, ar)
           Q == LineOf(<<>>, q2, U2)
           w == ValuesOf(<<>>, q2, U2, ar)
           s == WasAt(h, q, <<>>, q2, U2, dh, 1, x)
           f == <<0, 1>>
<1>0. Moved(P, val, Q, w, s, <<>>, q, q2, U, U2, dh, 1, x)
  BY LineMoves DEF LineTypes
<1>2. IsLine(P, val, h, q, U, ar)
  BY LinePlaces DEF LineTypes
<1>3. InLine(P, val) /\ \A a \in P : val[a] \in Readable
  BY LineReadable
<1> HIDE DEF P, val, Q, w, s
<1>1. Shift(P, val, Q, w, s) /\ \A a \in Q : Before(f, s[a])
  BY <1>0 DEF Moved
<1>4. f \in P /\ val[f] = q[1]
  BY <1>2 DEF IsLine
<1>5. /\ ObjectOf(val[f]) \notin Named(Q, w)
      /\ KindAt(val[f]) = "link" => FirstLink(ObjectOf(val[f])) \notin Named(Q, w)
  BY <1>1, <1>3, <1>4, FirstGone
<1>6. QED
  BY <1>4, <1>5 DEF Q, w, DataOf, ObjectOf, KindAt

FilePC == {"file", "block", "close", "footer", "counting"}
GroupPC == {"group", "smallfiles"}

\* The headers the main thread has taken and not finished with.
InHand ==
  IF xpc \in FilePC THEN <<file.hdr>> ELSE IF xpc \in GroupPC THEN group ELSE <<>>

\* The places of the archive that the reader has not put into the queue.
Unread ==
  {a \in Places(archive) : ~Before(a, <<rvol, At>>) /\ Wanted(RecordAt(archive, a))}

\* What is in hand, in the queue and to be read, as one line.
Line == LineOf(InHand, Queued(list), Unread)

OnLine == ValuesOf(InHand, Queued(list), Unread, archive)

Pending == Named(Line, OnLine)

LineInv == InLine(Line, OnLine)

BlockTypes == \A i \in DOMAIN list : list[i].type = "block" => list[i].val.magic = "BLKH"

HandInv ==
  /\ \A k \in DOMAIN InHand : InHand[k].magic = "OBJT"
  /\ xpc \in FilePC => KindAt(file.hdr) \in {"unique", "self"}
  /\ xpc \in GroupPC /\ IsFS => \A k \in DOMAIN group : group[k].tree = fs
  /\ xpc = "group" => ClearOf(Line, OnLine, group[1], "OBJT")
  /\ xpc \in {"file", "block"} => ClearOf(Line, OnLine, file.hdr, "BLKH")

FileInv ==
  xpc \in FilePC =>
    /\ file.del => file.minor
    /\ Len(file.data) <= BlocksAt(file.hdr)
    /\ xpc = "block" => Len(file.data) < BlocksAt(file.hdr)
    /\ \A i \in DOMAIN file.data : /\ file.data[i].magic = "BLKH"
                                   /\ LargeBlock(file.data[i]) => SameObject(file.data[i], file.hdr)
    /\ xpc = "footer" /\ ~file.minor =>
         /\ file.closed
         /\ This \notin Excluded /\ ContentsOf(file.data, file.hdr) => disk[This] = "right"
    /\ xpc = "counting" /\ ~file.minor /\ This \notin Excluded => disk[This] = "right"

Early == {"start", "mainhead", "fsinfo", "dirsinfo"}
Over == {"final", "teardown", "pending", "drain", "destroy", "join", "done"}

CountInv ==
  /\ xpc \in Early => counted = {}
  /\ xpc \in {"fsinfo", "filesystems", "fsyb"} => IsFS
  /\ xpc \notin Over => \A o \in counted :
       /\ o \notin Pending
       /\ DataOf(o) # o => DataOf(o) \notin Pending
       /\ IsFS => o[1] <= fs /\ (o[1] = fs => xpc \in InObjects)

\* What is counted is at its place, if the object is a hard link what its first link is.
Right(o) ==
  IF DataOf(o) = o THEN disk[o] = "right"
                   ELSE disk[o] = disk[DataOf(o)] /\ disk[o] \notin {"old", "absent"}

DiskInv ==
  /\ \A o \in counted : Right(o)
  /\ \A o \in Objects : disk[o] \in {"wrong", "empty"} =>
       DataOf(o) \in failed \/ (xpc \in FilePC /\ This = o /\ o \notin Excluded)

HonestState == BlockTypes /\ LineInv /\ HandInv /\ FileInv /\ CountInv /\ DiskInv

HonestInv == BeginningsRead => HonestState

-----------------------------------------------------------------------------
(***************************************************************************)
(* The line in a step.                                                     *)
(***************************************************************************)
LEMMA PlacesType ==
  ASSUME ArchiveOK
  PROVE  \A a \in Places(archive) : a \in UnreadType /\ RecordAt(archive, a) \in Readable
<1> SUFFICES ASSUME NEW a \in Places(archive)
             PROVE  a \in UnreadType /\ RecordAt(archive, a) \in Readable
  OBVIOUS
<1>1. PICK v \in DOMAIN archive : \E p \in DOMAIN archive[v].recs : a = <<v, p>>
  BY DEF Places
<1>2. PICK p \in DOMAIN archive[v].recs : a = <<v, p>>
  BY <1>1
<1>3. v \in 1 .. Len(archive) /\ p \in 1 .. Len(archive[v].recs)
  BY VolumeType
<1>4. Len(archive) \in Nat /\ Len(archive[v].recs) \in Nat /\ archive[v].recs[p] \in Readable
  BY <1>3, VolumeType, LenProperties DEF ArchiveOK
<1>5. QED
  BY <1>2, <1>3, <1>4 DEF UnreadType, RecordAt

\* The line of a state is one ...
LEMMA LineTypesNow == BaseInv => LineTypes(InHand, Queued(list), Unread, archive)
<1> SUFFICES ASSUME BaseInv PROVE LineTypes(InHand, Queued(list), Unread, archive)
  OBVIOUS
<1>1. InHand \in Seq(Readable)
  <2>1. CASE xpc \in FilePC
    <3>1. file.hdr \in Readable
      BY <2>1 DEF BaseInv, TakenExist, MainTypeOK, FilePC, Readable
    <3>2. QED
      BY <2>1, <3>1 DEF InHand
  <2>2. CASE xpc \in GroupPC
    <3>1. group \in Seq(Record) /\ \A k \in DOMAIN group : NamesObject(group[k])
      BY <2>2 DEF BaseInv, TakenExist, MainTypeOK, GroupPC
    <3>2. \A k \in DOMAIN group : group[k] \in Readable
      BY <3>1, LenProperties, ElementOfSeq DEF Readable
    <3>3. group = [k \in DOMAIN group |-> group[k]] /\ DOMAIN group = 1 .. Len(group)
          /\ Len(group) \in Nat
      BY <3>1, LenProperties
    <3>4. group \in Seq(Readable)
      BY <3>2, <3>3, SeqOfFcn
    <3>5. QED
      BY <2>2, <3>4 DEF InHand, FilePC, GroupPC
  <2>3. CASE xpc \notin FilePC /\ xpc \notin GroupPC
    BY <2>3, EmptySeq DEF InHand
  <2>4. QED
    BY <2>1, <2>2, <2>3
<1>2. Queued(list) \in Seq(Readable)
  BY QueuedType DEF BaseInv, QInv, QTypeOK
<1>3. \A a \in Unread : a \in UnreadType /\ RecordAt(archive, a) \in Readable
  BY PlacesType DEF BaseInv, Unread
<1>4. QED
  BY <1>1, <1>2, <1>3 DEF LineTypes

\* ... in the next state too.
LEMMA LineTypesNext == (BaseInv => LineTypes(InHand, Queued(list), Unread, archive))'
BY LineTypesNow, PTL

\* What is in line stays in line, and what is clear stays clear.
MovesBy(dh, dq, x) ==
  /\ Moves(InHand, Queued(list), Unread, InHand', Queued(list)', Unread', archive, dh, dq, x)
  /\ LosesNothing(Queued(list), Unread, Queued(list)', Unread', archive, x)

StaysClear(r, m) == ClearOf(Line, OnLine, r, m) => ClearOf(Line', OnLine', r, m)

Gone(o) == o \notin Pending' /\ DataOf(o) \notin Pending'

\* A step that moves the line keeps it a line, and what was clear clear of it.
LEMMA LineStep ==
  ASSUME BaseInv, BaseInv', archive' = archive, LineInv,
         NEW dh, NEW dq, NEW x, MovesBy(dh, dq, x)
  PROVE  /\ LineInv' /\ Pending' \subseteq Pending
         /\ \A r, m : (dq = 1 => Len(Queued(list)) > 0 /\ ~Begins(Queued(list)[1], m)) =>
                      StaysClear(r, m)
         /\ dq = 1 /\ Len(Queued(list)) > 0 =>
              \A r, m : StandsFor(r, Queued(list)[1]) => ClearOf(Line', OnLine', r, m)
         /\ dh = 1 /\ Len(InHand) > 0 /\ InHand[1].magic = "OBJT" => Gone(ObjectOf(InHand[1]))
         /\ dq = 1 /\ InHand' = <<>> /\ Len(Queued(list)) > 0
              /\ Queued(list)[1].magic = "OBJT" => Gone(ObjectOf(Queued(list)[1]))
<1> DEFINE h == InHand
           q == Queued(list)
           U == Unread
           h2 == InHand'
           q2 == Queued(list)'
           U2 == Unread'
           ar == archive
<1>1. /\ Line = LineOf(h, q, U) /\ OnLine = ValuesOf(h, q, U, ar)
      /\ Line' = LineOf(h2, q2, U2) /\ OnLine' = ValuesOf(h2, q2, U2, ar)
  BY DEF Line, OnLine, LineOf, ValuesOf
<1>2. LineTypes(h, q, U, ar) /\ LineTypes(h2, q2, U2, ar)
  BY LineTypesNow, LineTypesNext DEF LineTypes
<1>3. Moves(h, q, U, h2, q2, U2, ar, dh, dq, x) /\ LosesNothing(q, U, q2, U2, ar, x)
  BY DEF MovesBy
<1>4. LineInv = InLine(Line, OnLine) /\ LineInv' = InLine(Line', OnLine')
      /\ Pending = Named(Line, OnLine) /\ Pending' = Named(Line', OnLine')
  BY DEF LineInv, Pending, InLine, Named
<1> DEFINE L == LineOf(h, q, U)
           V == ValuesOf(h, q, U, ar)
           L2 == LineOf(h2, q2, U2)
           V2 == ValuesOf(h2, q2, U2, ar)
<1>5. InLine(L, V)
  BY <1>1, <1>4
<1> HIDE DEF h, q, U, h2, q2, U2, ar
<1>6. InLine(L2, V2) /\ Named(L2, V2) \subseteq Named(L, V)
  BY <1>2, <1>3, <1>5, MoveLine
<1>7. ASSUME NEW r, NEW m, dq = 1 => Len(q) > 0 /\ ~Begins(q[1], m), ClearOf(L, V, r, m)
      PROVE  ClearOf(L2, V2, r, m)
  BY <1>2, <1>3, <1>7, MoveClear
<1>8. ASSUME dq = 1, Len(q) > 0, NEW r, NEW m, StandsFor(r, q[1])
      PROVE  ClearOf(L2, V2, r, m)
  BY <1>2, <1>3, <1>5, <1>8, TakenClear
<1>9. ASSUME dh = 1, Len(h) > 0, h[1].magic = "OBJT"
      PROVE  ObjectOf(h[1]) \notin Named(L2, V2) /\ DataOf(ObjectOf(h[1])) \notin Named(L2, V2)
  BY <1>2, <1>3, <1>5, <1>9, HandGone
<1>10. ASSUME dq = 1, h2 = <<>>, Len(q) > 0, q[1].magic = "OBJT"
       PROVE  ObjectOf(q[1]) \notin Named(L2, V2) /\ DataOf(ObjectOf(q[1])) \notin Named(L2, V2)
  BY <1>2, <1>3, <1>5, <1>10, HeadGone
<1> HIDE DEF L, V, L2, V2
<1>11. /\ Line = L /\ OnLine = V /\ Line' = L2 /\ OnLine' = V2
  BY <1>1 DEF L, V, L2, V2
<1>12. LineInv' /\ Pending' \subseteq Pending
  BY <1>4, <1>6, <1>11
<1>13. \A r, m : (dq = 1 => Len(q) > 0 /\ ~Begins(q[1], m)) => StaysClear(r, m)
  BY <1>7, <1>11 DEF StaysClear
<1>14. dq = 1 /\ Len(q) > 0 => \A r, m : StandsFor(r, q[1]) => ClearOf(Line', OnLine', r, m)
  BY <1>8, <1>11
<1>15. dh = 1 /\ Len(h) > 0 /\ h[1].magic = "OBJT" => Gone(ObjectOf(h[1]))
  BY <1>4, <1>9, <1>11 DEF Gone
<1>16. dq = 1 /\ h2 = <<>> /\ Len(q) > 0 /\ q[1].magic = "OBJT" => Gone(ObjectOf(q[1]))
  BY <1>4, <1>10, <1>11 DEF Gone
<1>17. QED
  BY <1>12, <1>13, <1>14, <1>15, <1>16 DEF h, q, h2

\* The main thread does not read.
LEMMA MainStill ==
  ASSUME BaseInv, MainStep
  PROVE  archive' = archive /\ Unread' = Unread
<1>1. UNCHANGED <<archive, job, rvol, rpos>>
  BY MainOthers
<1>2. rpc' = rpc \/ (rpc = "none" /\ rpc' \in {"none", "open"})
  BY MainOthers DEF XStart, BaseInv, StartsOnce, XGoto, XFail
<1>3. At' = At
  BY <1>1, <1>2 DEF At
<1>4. \A r : Wanted(r)' <=> Wanted(r)
  BY <1>1 DEF Wanted, g_fsbitmap
<1>5. QED
  BY <1>1, <1>3, <1>4 DEF Unread

\* The records of the queue when its head is removed.
LEMMA HeadRemoved ==
  ASSUME BaseInv, list # <<>>, RemoveHead
  PROVE  /\ Len(Queued(list)) > 0 /\ Len(Queued(list)') + 1 = Len(Queued(list))
         /\ \A i \in 1 .. Len(Queued(list)') : Queued(list)'[i] = Queued(list)[i + 1]
         /\ Queued(list)[1] = Unpack(Head(list).val)
         /\ Len(Queued(list)') \in Nat
<1>1. list \in Seq(Item(Readable)) /\ list' = Tail(list)
  BY DEF BaseInv, QInv, QTypeOK, RemoveHead
<1>2. Queued(list)' = Tail(Queued(list)) /\ Queued(list) # <<>>
      /\ Head(Queued(list)) = Unpack(Head(list).val)
  <2>1. Queued(list)' = Queued(list')
    BY DEF Queued
  <2>2. QED
    BY <1>1, <2>1, QueuedTail
<1>3. Queued(list) \in Seq(Readable)
  BY <1>1, QueuedType
<1> DEFINE q == Queued(list)
           q2 == Queued(list)'
<1>4. q \in Seq(Readable) /\ q # <<>> /\ q2 = Tail(q) /\ Head(q) = Unpack(Head(list).val)
  BY <1>2, <1>3
<1> HIDE DEF q, q2
<1>5. /\ Len(q) \in Nat \ {0} /\ Head(q) = q[1]
      /\ Tail(q) \in Seq(Readable) /\ Len(Tail(q)) = Len(q) - 1
      /\ \A i \in 1 .. Len(Tail(q)) : Tail(q)[i] = q[i + 1]
  BY <1>4, HeadTailProperties, EmptySeq
<1>6. Len(q) > 0 /\ Len(q2) + 1 = Len(q) /\ Len(q2) \in Nat
      /\ (\A i \in 1 .. Len(q2) : q2[i] = q[i + 1]) /\ q[1] = Unpack(Head(list).val)
  BY <1>4, <1>5
<1>7. QED
  BY <1>6 DEF q, q2

\* What stands at the head of the queue is what is taken from it.
LEMMA UnpackStands ==
  ASSUME NEW v \in Readable
  PROVE  /\ StandsFor(v, Unpack(v)) /\ StandsFor(Unpack(v), v)
         /\ Unpack(v).magic = v.magic /\ ObjectOf(Unpack(v)) = ObjectOf(v)
         /\ Unpack(v).tree = v.tree /\ Unpack(v).objs = v.objs
         /\ \A m : Begins(Unpack(v), m) <=> Begins(v, m)
         /\ LargeBlock(Unpack(v)) <=> LargeBlock(v)
<1>1. /\ Unpack(v).magic = v.magic /\ Unpack(v).tree = v.tree /\ Unpack(v).objs = v.objs
  BY DEF Unpack, Readable, Record
<1>2. QED
  BY <1>1 DEF StandsFor, ObjectOf, Begins, LargeBlock, SavedAlone, KindAt

\* The queue is left alone, and so is what is in hand, or all or the first of it goes.
LEMMA QueueStill ==
  ASSUME BaseInv, BaseInv', LineInv, MainStep, UNCHANGED list,
         \/ InHand' \in {InHand, <<>>}
         \/ InHand # <<>> /\ InHand' = Tail(InHand)
  PROVE  /\ LineInv' /\ Pending' \subseteq Pending
         /\ \A r, m : StaysClear(r, m)
         /\ InHand' # InHand /\ InHand # <<>> /\ InHand[1].magic = "OBJT" =>
              Gone(ObjectOf(InHand[1]))
<1>1. archive' = archive /\ Unread' = Unread /\ Queued(list)' = Queued(list)
  BY MainStill DEF Queued
<1>2. LineTypes(InHand, Queued(list), Unread, archive)
  BY LineTypesNow
<1>3. LineTypes(InHand', Queued(list)', Unread', archive')
  BY LineTypesNext
<1> DEFINE h == InHand
           h2 == InHand'
           q == Queued(list)
           dh == IF h2 = h THEN 0 ELSE IF h = <<>> THEN 0 ELSE 1
<1>4. h \in Seq(Readable) /\ h2 \in Seq(Readable) /\ Len(q) \in Nat
  BY <1>2, <1>3, LenProperties DEF LineTypes
<1>5. h2 = h \/ h2 = <<>> \/ (h # <<>> /\ h2 = Tail(h))
  OBVIOUS
<1> HIDE DEF h, h2
<1>6. /\ dh \in {0, 1} /\ Len(h2) + dh <= Len(h)
      /\ \A k \in 1 .. Len(h2) : h2[k] = h[k + dh]
  <2>1. Len(h) \in Nat /\ Len(<<>>) = 0 /\ (h # <<>> => Len(h) >= 1)
    BY <1>4, EmptySeq, LenProperties
  <2>2. CASE h2 = h
    BY <1>4, <2>1, <2>2, LenProperties
  <2>3. CASE h2 = <<>> /\ h2 # h
    <3>1. dh = 1 /\ h # <<>>
      BY <2>3
    <3>2. Len(h2) = 0
      BY <2>1, <2>3
    <3>3. QED
      BY <2>1, <3>1, <3>2
  <2>4. CASE h # <<>> /\ h2 = Tail(h) /\ h2 # h
    <3>1. dh = 1
      BY <2>4
    <3>2. Len(Tail(h)) = Len(h) - 1 /\ \A k \in 1 .. Len(Tail(h)) : Tail(h)[k] = h[k + 1]
      BY <1>4, <2>4, HeadTailProperties
    <3>3. Len(h2) = Len(h) - 1 /\ \A k \in 1 .. Len(h2) : h2[k] = h[k + 1]
      BY <2>4, <3>2
    <3>4. QED
      BY <2>1, <3>1, <3>3
  <2>5. QED
    BY <1>5, <2>2, <2>3, <2>4
<1>7. h2 # h /\ h # <<>> => dh = 1 /\ Len(h) > 0
  BY <1>4, EmptySeq, LenProperties
<1> HIDE DEF dh
<1>8. Moves(h, q, Unread, h2, q, Unread, archive, dh, 0, 0)
  BY <1>4, <1>6 DEF Moves
<1>9. LosesNothing(q, Unread, q, Unread, archive, 0)
  BY DEF LosesNothing
<1>10. MovesBy(dh, 0, 0)
  BY <1>1, <1>8, <1>9 DEF MovesBy, h, h2
<1>11. /\ LineInv' /\ Pending' \subseteq Pending
       /\ \A r, m : (0 = 1 => Len(Queued(list)) > 0 /\ ~Begins(Queued(list)[1], m)) =>
                      StaysClear(r, m)
       /\ dh = 1 /\ Len(InHand) > 0 /\ InHand[1].magic = "OBJT" => Gone(ObjectOf(InHand[1]))
  BY <1>1, <1>10, LineStep
<1>12. QED
  BY <1>7, <1>11 DEF h, h2

\* The head of the queue is removed.
LEMMA QueueTaken ==
  ASSUME BaseInv, BaseInv', LineInv, MainStep, list # <<>>, RemoveHead,
         \/ InHand' \in {InHand, <<>>}
         \/ InHand' = Append(InHand, Head(list).val)
  PROVE  /\ LineInv' /\ Pending' \subseteq Pending
         /\ \A r, m : ~Begins(Head(list).val, m) => StaysClear(r, m)
         /\ \A m : ClearOf(Line', OnLine', Head(list).val, m)
         /\ InHand' = <<>> /\ InHand # <<>> /\ InHand[1].magic = "OBJT" =>
              Gone(ObjectOf(InHand[1]))
         /\ InHand' = <<>> /\ Head(list).val.magic = "OBJT" => Gone(ObjectOf(Head(list).val))
<1>1. archive' = archive /\ Unread' = Unread
  BY MainStill
<1>2. LineTypes(InHand, Queued(list), Unread, archive)
  BY LineTypesNow
<1>3. LineTypes(InHand', Queued(list)', Unread', archive')
  BY LineTypesNext
<1> DEFINE h == InHand
           h2 == InHand'
           q == Queued(list)
           q2 == Queued(list)'
           e == Head(list).val
           dh == IF h2 = <<>> /\ h # <<>> THEN 1 ELSE 0
<1>4. h \in Seq(Readable) /\ h2 \in Seq(Readable) /\ Len(h) \in Nat /\ e \in Readable
  BY <1>2, <1>3, LenProperties, HeadType DEF LineTypes, BaseInv
<1>5. /\ Len(q) > 0 /\ Len(q2) + 1 = Len(q) /\ Len(q2) \in Nat
      /\ \A i \in 1 .. Len(q2) : q2[i] = q[i + 1]
      /\ q[1] = Unpack(e)
  BY HeadRemoved
<1>6. h2 = h \/ h2 = <<>> \/ h2 = Append(h, e)
  OBVIOUS
<1> HIDE DEF h, h2, q, q2, e
<1>7. /\ StandsFor(e, q[1]) /\ (\A m : Begins(q[1], m) <=> Begins(e, m))
      /\ q[1].magic = e.magic /\ ObjectOf(q[1]) = ObjectOf(e)
  BY <1>4, <1>5, UnpackStands
<1>8. /\ dh \in {0, 1}
      /\ \/ Len(h2) + dh <= Len(h)
         \/ dh = 0 /\ Len(h2) = Len(h) + 1 /\ StandsFor(h2[Len(h2)], q[1])
      /\ \A k \in 1 .. Len(h2) : k + dh <= Len(h) => h2[k] = h[k + dh]
  <2>1. Len(<<>>) = 0 /\ (h # <<>> => Len(h) >= 1)
    BY <1>4, EmptySeq
  <2>2. CASE h2 = <<>>
    <3>1. Len(h2) = 0
      BY <2>1, <2>2
    <3>2. h # <<>> \/ dh = 0
      OBVIOUS
    <3>3. QED
      BY <1>4, <2>1, <3>1, <3>2
  <2>3. CASE h2 = h /\ h2 # <<>>
    BY <1>4, <2>3
  <2>4. CASE h2 = Append(h, e) /\ h2 # <<>>
    <3>1. /\ Len(Append(h, e)) = Len(h) + 1
          /\ \A k \in 1 .. Len(h) : Append(h, e)[k] = h[k]
          /\ Append(h, e)[Len(h) + 1] = e
      BY <1>4, AppendProperties
    <3>2. /\ Len(h2) = Len(h) + 1 /\ (\A k \in 1 .. Len(h) : h2[k] = h[k]) /\ h2[Len(h2)] = e
      BY <2>4, <3>1
    <3>3. QED
      BY <1>4, <1>7, <2>4, <3>2
  <2>5. QED
    BY <1>6, <2>2, <2>3, <2>4
<1>9. h2 = <<>> /\ h # <<>> => dh = 1 /\ Len(h) > 0
  BY <1>4, EmptySeq
<1> HIDE DEF dh
<1>10. Moves(h, q, Unread, h2, q2, Unread, archive, dh, 1, 0)
  BY <1>5, <1>8 DEF Moves
<1>11. LosesNothing(q, Unread, q2, Unread, archive, 0)
  BY DEF LosesNothing
<1>12. MovesBy(dh, 1, 0)
  BY <1>1, <1>10, <1>11 DEF MovesBy, h, h2, q, q2
<1>13. /\ LineInv' /\ Pending' \subseteq Pending
       /\ \A r, m : (1 = 1 => Len(q) > 0 /\ ~Begins(q[1], m)) => StaysClear(r, m)
       /\ Len(q) > 0 => \A r, m : StandsFor(r, q[1]) => ClearOf(Line', OnLine', r, m)
       /\ dh = 1 /\ Len(h) > 0 /\ h[1].magic = "OBJT" => Gone(ObjectOf(h[1]))
       /\ h2 = <<>> /\ Len(q) > 0 /\ q[1].magic = "OBJT" => Gone(ObjectOf(q[1]))
  BY <1>1, <1>12, LineStep DEF h, q, h2
<1>14. \A r, m : ~Begins(e, m) => StaysClear(r, m)
  BY <1>5, <1>7, <1>13
<1>15. \A m : ClearOf(Line', OnLine', e, m)
  BY <1>5, <1>7, <1>13
<1>16. h2 = <<>> /\ h # <<>> /\ h[1].magic = "OBJT" => Gone(ObjectOf(h[1]))
  BY <1>9, <1>13
<1>17. h2 = <<>> /\ e.magic = "OBJT" => Gone(ObjectOf(e))
  BY <1>5, <1>7, <1>13
<1>18. QED
  BY <1>13, <1>14, <1>15, <1>16, <1>17 DEF h, h2, e

-----------------------------------------------------------------------------
\* The objects with the data.
LEMMA DataType ==
  ASSUME NEW o \in Objects
  PROVE  /\ DataOf(o) \in Objects /\ DataOf(o)[1] = o[1] /\ DataOf(DataOf(o)) = DataOf(o)
         /\ o[1] \in Nat
         /\ Trees[o[1]][o[2]].kind = "link" => DataOf(o) = FirstLink(o) /\ FirstLink(o) # o
         /\ Trees[o[1]][o[2]].kind # "link" => DataOf(o) = o
<1>1. PICK t \in DOMAIN Trees : \E e \in DOMAIN Trees[t] : o = <<t, e>>
  BY DEF Objects
<1>2. PICK e \in DOMAIN Trees[t] : o = <<t, e>>
  BY <1>1
<1>3. /\ DOMAIN Trees[t] = 1 .. Len(Trees[t]) /\ Len(Trees[t]) \in Nat
      /\ t \in Nat /\ e \in 1 .. Len(Trees[t])
  BY TreesType, LenProperties, RestoreAssumption, ElementOfSeq
<1>4. CASE Trees[t][e].kind = "link"
  <2> DEFINE k == Trees[t][e].size
  <2>1. k \in 1 .. e - 1 /\ Trees[t][k].kind # "link"
    BY <1>4, RestoreAssumption
  <2> HIDE DEF k
  <2>2. k \in DOMAIN Trees[t] /\ k # e
    BY <1>3, <2>1
  <2>3. FirstLink(o) = <<t, k>> /\ DataOf(o) = <<t, k>>
    BY <1>2, <1>4 DEF FirstLink, DataOf, k
  <2>4. DataOf(<<t, k>>) = <<t, k>>
    BY <2>1 DEF DataOf
  <2>5. QED
    BY <1>2, <1>3, <1>4, <2>2, <2>3, <2>4 DEF Objects
<1>5. CASE Trees[t][e].kind # "link"
  BY <1>2, <1>3, <1>5 DEF DataOf
<1>6. QED
  BY <1>4, <1>5

\* What is not a hard link holds its own data.
LEMMA KindOf ==
  ASSUME NEW r, NamesObject(r), KindAt(r) # "link"
  PROVE  DataOf(ObjectOf(r)) = ObjectOf(r)
BY ObjectExists, DataType DEF DataOf, ObjectOf, KindAt

\* The objects in hand and at the head of the queue are pending.
LEMMA InPending ==
  ASSUME BaseInv
  PROVE  /\ \A k \in DOMAIN InHand : InHand[k].magic = "OBJT" => ObjectOf(InHand[k]) \in Pending
         /\ list # <<>> /\ Head(list).val.magic = "OBJT" => ObjectOf(Head(list).val) \in Pending
<1> DEFINE h == InHand
           q == Queued(list)
           U == Unread
<1>1. LineTypes(h, q, U, archive)
  BY LineTypesNow
<1>2. IsLine(Line, OnLine, h, q, U, archive)
  BY <1>1, LinePlaces DEF LineTypes, Line, OnLine
<1>3. DOMAIN h = 1 .. Len(h) /\ Len(q) \in Nat
  BY <1>1, LenProperties DEF LineTypes
<1> HIDE DEF h, q, U
<1>4. \A k \in DOMAIN h : h[k].magic = "OBJT" => ObjectOf(h[k]) \in Pending
  BY <1>2, <1>3 DEF IsLine, Pending, Named
<1>5. ASSUME list # <<>>, Head(list).val.magic = "OBJT"
      PROVE  ObjectOf(Head(list).val) \in Pending
  <2>1. list \in Seq(Item(Readable))
    BY DEF BaseInv, QInv, QTypeOK
  <2>2. Len(list) >= 1 /\ Head(list) = list[1] /\ Len(list) \in Nat
    BY <1>5, <2>1, HeadTailProperties, EmptySeq, LenProperties
  <2>3. Len(q) = Len(list) /\ q[1] = Unpack(list[1].val)
    BY <2>1, <2>2, QueuedType DEF q
  <2>4. Head(list).val \in Readable
    BY <1>5, HeadType DEF BaseInv
  <2>5. q[1].magic = "OBJT" /\ ObjectOf(q[1]) = ObjectOf(Head(list).val)
    BY <1>5, <2>2, <2>3, <2>4, UnpackStands
  <2>6. <<0, 1>> \in Line /\ OnLine[<<0, 1>>] = q[1]
    BY <1>2, <2>2, <2>3 DEF IsLine
  <2>7. QED
    BY <2>5, <2>6 DEF Pending, Named
<1>6. QED
  BY <1>4, <1>5 DEF h

\* The main thread changes nothing in the queue but its head.
LEMMA TypesMain ==
  ASSUME BaseInv, BlockTypes, MainStep
  PROVE  BlockTypes'
<1>1. MainQueueStep
  BY MainQueueSteps
<1>2. CASE UNCHANGED qvars
  BY <1>2 DEF qvars, BlockTypes
<1>3. CASE HeadIs({"todo", "done"}) /\ RemoveHead
  <2>1. list \in Seq(Item(Readable)) /\ list # <<>> /\ list' = Tail(list)
    BY <1>3 DEF BaseInv, QInv, QTypeOK, RemoveHead, HeadIs
  <2>2. /\ DOMAIN list = 1 .. Len(list) /\ Len(list) \in Nat
        /\ DOMAIN list' = 1 .. Len(list) - 1
        /\ \A i \in 1 .. Len(list) - 1 : list'[i] = list[i + 1]
    BY <2>1, HeadTailProperties, LenProperties, EmptySeq
  <2>3. \A i \in DOMAIN list' : i + 1 \in DOMAIN list
    BY <2>2
  <2>4. QED
    BY <2>2, <2>3 DEF BlockTypes
<1>4. QED
  BY <1>1, <1>2, <1>3 DEF MainQueueStep

\* A step that ends with nothing in hand and makes nothing.
LEMMA IdleStep ==
  ASSUME BaseInv, BaseInv', HonestState, MainStep,
         xpc \notin FilePC, xpc' \notin FilePC \cup GroupPC,
         UNCHANGED <<counted, failed, disk>>,
         xpc' \in Early => xpc \in Early,
         xpc' \in {"fsinfo", "filesystems", "fsyb"} => IsFS,
         xpc' \in Over \/ (xpc \notin Over /\
           (IsFS => \/ counted = {}
                    \/ fs' = fs /\ (xpc \in InObjects => xpc' \in InObjects)
                    \/ fs' > fs))
  PROVE  HonestState'
<1>1. InHand' = <<>>
  BY DEF InHand
<1>2. MainQueueStep
  BY MainQueueSteps
<1>3. LineInv' /\ Pending' \subseteq Pending
  <2>1. CASE UNCHANGED qvars
    <3>1. UNCHANGED list
      BY <2>1 DEF qvars
    <3>2. QED
      BY <1>1, <3>1, QueueStill DEF HonestState
  <2>2. CASE HeadIs({"todo", "done"}) /\ RemoveHead
    BY <1>1, <2>2, QueueTaken DEF HonestState, HeadIs
  <2>3. QED
    BY <1>2, <2>1, <2>2 DEF MainQueueStep
<1>4. HandInv' /\ FileInv'
  BY <1>1 DEF HandInv, FileInv, FilePC, GroupPC
<1>5. counted \subseteq Objects /\ fs \in Nat /\ fs' \in Nat
  BY DEF BaseInv, MainTypeOK
<1>6. CountInv'
  <2>1. xpc' \in Early => counted' = {}
    BY DEF HonestState, CountInv
  <2>2. ASSUME xpc' \notin Over, NEW o \in counted'
        PROVE  /\ o \notin Pending' /\ (DataOf(o) # o => DataOf(o) \notin Pending')
               /\ IsFS => o[1] <= fs' /\ (o[1] = fs' => xpc' \in InObjects)
    <3>1. o \in counted /\ o[1] \in Nat /\ xpc \notin Over /\ counted # {}
      BY <1>5, <2>2, DataType
    <3>2. /\ o \notin Pending /\ (DataOf(o) # o => DataOf(o) \notin Pending)
          /\ IsFS => o[1] <= fs /\ (o[1] = fs => xpc \in InObjects)
      BY <3>1 DEF HonestState, CountInv
    <3>3. QED
      BY <1>3, <1>5, <2>2, <3>1, <3>2
  <2>3. QED
    BY <2>1, <2>2 DEF CountInv
<1>7. DiskInv'
  BY DEF HonestState, DiskInv, Right
<1>8. QED
  BY <1>3, <1>4, <1>6, <1>7, TypesMain DEF HonestState

-----------------------------------------------------------------------------
\* mkfs removes what no counted object is or links to.
LEMMA MkfsStep ==
  ASSUME BaseInv, BaseInv', HonestState, MainStep,
         xpc = "fsyb", xpc' \in {"objects", "teardown"}, disk' = Mkfs,
         UNCHANGED <<fs, counted, failed>>
  PROVE  HonestState'
<1>1. InHand' = InHand /\ InHand' = <<>>
  BY DEF InHand, FilePC, GroupPC
<1>2. MainQueueStep
  BY MainQueueSteps
<1>3. LineInv' /\ Pending' \subseteq Pending
  <2>1. CASE UNCHANGED qvars
    <3>1. UNCHANGED list
      BY <2>1 DEF qvars
    <3>2. QED
      BY <1>1, <3>1, QueueStill DEF HonestState
  <2>2. CASE HeadIs({"todo", "done"}) /\ RemoveHead
    BY <1>1, <2>2, QueueTaken DEF HonestState, HeadIs
  <2>3. QED
    BY <1>2, <2>1, <2>2 DEF MainQueueStep
<1>4. HandInv' /\ FileInv'
  BY <1>1 DEF HandInv, FileInv, FilePC, GroupPC
<1>5. counted \subseteq Objects /\ fs \in Nat
  BY DEF BaseInv, MainTypeOK
<1>6. ASSUME NEW o \in counted
      PROVE  /\ o \notin Pending /\ (DataOf(o) # o => DataOf(o) \notin Pending)
             /\ o[1] <= fs /\ o[1] # fs /\ o \in Objects
             /\ DataOf(o) \in Objects /\ DataOf(o)[1] = o[1]
  BY <1>5, DataType DEF HonestState, CountInv, Over, InObjects, Busy
<1>7. CountInv'
  BY <1>3, <1>6 DEF CountInv, Early
<1>8. DiskInv'
  <2>1. \A o \in Objects : disk'[o] = IF o[1] = fs THEN "absent" ELSE disk[o]
    BY DEF Mkfs
  <2>2. \A o \in counted : Right(o)
    BY DEF HonestState, DiskInv
  <2>3. \A o \in counted : disk'[o] = disk[o] /\ disk'[DataOf(o)] = disk[DataOf(o)]
    BY <1>6, <2>1
  <2>4. \A o \in Objects : disk'[o] \in {"wrong", "empty"} => DataOf(o) \in failed
    BY <2>1 DEF HonestState, DiskInv, FilePC
  <2>5. QED
    BY <2>2, <2>3, <2>4 DEF DiskInv, Right
<1>9. QED
  BY <1>3, <1>4, <1>7, <1>8, TypesMain DEF HonestState

\* The steps before the objects.
LEMMA HonestStart ==
  ASSUME BaseInv, BaseInv', HonestState,
         XStart \/ XMainHead \/ XFsInfo \/ XDirsInfo \/ XNextFS \/ XBeginFS
           \/ XTargetFails \/ XBeginDir \/ XNoPassword \/ XHeaderMissing
  PROVE  HonestState'
<1> USE DEF XGoto, XFail
<1>0. MainStep
  BY DEF MainStep
<1> DEFINE Bound == {"start", "mainhead", "fsinfo", "dirsinfo", "filesystems", "fsyb", "destdir"}
<1>1. CASE XStart \/ XMainHead \/ XDirsInfo \/ XNoPassword \/ XHeaderMissing \/ XBeginDir
  <2>1. /\ UNCHANGED <<fs, counted, failed, disk>> /\ xpc \in Bound
        /\ xpc' \in {"mainhead", "fsinfo", "dirsinfo", "final", "destdir", "teardown", "objects"}
        /\ xpc' \in Early => xpc \in Early
        /\ xpc' \in {"fsinfo", "filesystems", "fsyb"} => IsFS
    BY <1>1 DEF XStart, XMainHead, XDirsInfo, XNoPassword, XHeaderMissing, XBeginDir, Early
  <2>2. QED
    BY <1>0, <2>1, IdleStep DEF FilePC, GroupPC, Over, InObjects, Busy
<1>2. CASE XFsInfo
  <2>1. /\ UNCHANGED <<counted, failed, disk>> /\ xpc = "fsinfo"
        /\ xpc' \in {"fsinfo", "filesystems", "final"}
    BY <1>2 DEF XFsInfo
  <2>2. IsFS /\ counted = {}
    BY <2>1 DEF HonestState, CountInv, Early
  <2>3. QED
    BY <1>0, <2>1, <2>2, IdleStep DEF FilePC, GroupPC, Over, Early
<1>3. CASE XNextFS
  <2>1. /\ UNCHANGED <<counted, failed, disk>> /\ xpc = "filesystems"
        /\ \/ xpc' \in {"fsyb", "final"} /\ fs' = fs
           \/ xpc' = "filesystems" /\ fs' = fs + 1
    BY <1>3 DEF XNextFS
  <2>2. IsFS /\ fs \in Nat
    BY <2>1 DEF HonestState, CountInv, BaseInv, MainTypeOK
  <2>3. fs' = fs \/ fs' > fs
    BY <2>1, <2>2
  <2>4. QED
    BY <1>0, <2>1, <2>2, <2>3, IdleStep DEF FilePC, GroupPC, Over, Early, InObjects, Busy
<1>4. CASE XBeginFS \/ XTargetFails
  <2>1. /\ UNCHANGED <<fs, counted, failed>>
        /\ xpc \in {"fsyb", "destdir"} /\ xpc' \in {"objects", "teardown"}
        /\ (disk' = disk /\ xpc' = "teardown") \/ (disk' = Mkfs /\ xpc = "fsyb")
    <3>1. CASE XBeginFS
      BY <3>1 DEF XBeginFS
    <3>2. CASE XTargetFails
      BY <3>2 DEF XTargetFails
    <3>3. QED
      BY <1>4, <3>1, <3>2
  <2>2. CASE disk' = disk /\ xpc' = "teardown"
    BY <1>0, <2>1, <2>2, IdleStep DEF FilePC, GroupPC, Over, Early
  <2>3. CASE disk' = Mkfs /\ xpc = "fsyb"
    BY <1>0, <2>1, <2>3, MkfsStep
  <2>4. QED
    BY <2>1, <2>2, <2>3
<1>5. QED
  BY <1>1, <1>2, <1>3, <1>4

\* The steps that take or make no object, and those behind the objects.
LEMMA HonestRest ==
  ASSUME BaseInv, BaseInv', HonestState,
         \/ XSkipGarbage \/ XArchiveEnds \/ XForeignObject \/ XNextObject \/ XObjectsEnd
         \/ XEndFS \/ XEndFSFails \/ XGroupFails \/ XFinal \/ XAskToStop \/ XAwaitBlocks
         \/ XDrain \/ XDestroy \/ XJoin
  PROVE  HonestState'
<1> USE DEF XGoto, XFail
<1>0. MainStep
  BY DEF MainStep
<1>1. CASE \/ XSkipGarbage \/ XArchiveEnds \/ XForeignObject \/ XNextObject \/ XObjectsEnd
           \/ XEndFSFails \/ XGroupFails
  <2>1. /\ UNCHANGED <<fs, counted, failed, disk>>
        /\ xpc \in {"objects", "next", "fsend", "group"}
        /\ xpc' \in {"objects", "next", "fsend", "teardown"}
    BY <1>1 DEF XSkipGarbage, XArchiveEnds, XForeignObject, XNextObject, XObjectsEnd,
                XEndFSFails, XGroupFails, Taking, xvars
  <2>2. QED
    BY <1>0, <2>1, IdleStep DEF FilePC, GroupPC, Over, Early, InObjects, Busy
<1>2. CASE XEndFS
  <2>1. /\ UNCHANGED <<counted, failed, disk>> /\ xpc = "fsend"
        /\ \/ xpc' = "filesystems" /\ fs' = fs + 1 /\ IsFS
           \/ xpc' = "final"
    BY <1>2 DEF XEndFS
  <2>2. fs \in Nat
    BY DEF BaseInv, MainTypeOK
  <2>3. QED
    BY <1>0, <2>1, <2>2, IdleStep DEF FilePC, GroupPC, Over, Early
<1>3. CASE XFinal \/ XAskToStop \/ XAwaitBlocks \/ XDrain \/ XDestroy \/ XJoin
  <2>1. /\ UNCHANGED <<counted, failed, disk>> /\ xpc \in Over /\ xpc' \in Over
    BY <1>3 DEF XFinal, XAskToStop, XAwaitBlocks, XDrain, XDestroy, XJoin, Aside, Over
  <2>2. QED
    BY <1>0, <2>1, IdleStep DEF FilePC, GroupPC, Over, Early
<1>4. QED
  BY <1>1, <1>2, <1>3

-----------------------------------------------------------------------------
(***************************************************************************)
(* The steps with an object.                                               *)
(***************************************************************************)
LEMMA ObjectStep ==
  ASSUME BaseInv, CountInv, DiskInv, Pending' \subseteq Pending,
         xpc \in InObjects, xpc' \in InObjects \cup {"teardown"}, fs' = fs,
         NEW o \in Objects, o \in Pending, xpc \in FilePC => This = o,
         failed \subseteq failed', counted' \in {counted, counted \cup {o}},
         \A p \in Objects : p # o => disk'[p] = disk[p],
         disk'[o] \in {"wrong", "empty"} =>
           DataOf(o) \in failed' \/ (xpc' \in FilePC /\ This' = o /\ o \notin Excluded),
         counted' # counted =>
           /\ Gone(o) /\ (IsFS => o[1] <= fs)
           /\ IF DataOf(o) = o THEN disk'[o] = "right"
                ELSE disk'[o] = disk[DataOf(o)] /\ disk'[o] \notin {"old", "absent"}
  PROVE  CountInv' /\ DiskInv'
<1>1. counted \subseteq Objects /\ counted' \subseteq Objects
  BY DEF BaseInv, MainTypeOK
<1>2. xpc \notin Over /\ xpc' \notin Early
      /\ xpc' \notin {"fsinfo", "filesystems", "fsyb"}
  BY DEF InObjects, Busy, Over, Early
<1>3. ASSUME NEW c \in counted
      PROVE  /\ c \notin Pending /\ (DataOf(c) # c => DataOf(c) \notin Pending)
             /\ IsFS => c[1] <= fs
             /\ disk'[c] = disk[c] /\ disk'[DataOf(c)] = disk[DataOf(c)]
  <2>1. /\ c \notin Pending /\ (DataOf(c) # c => DataOf(c) \notin Pending)
        /\ IsFS => c[1] <= fs
    BY <1>2 DEF CountInv
  <2>2. c # o /\ DataOf(c) # o /\ DataOf(c) \in Objects /\ c \in Objects
    BY <1>1, <2>1, DataType
  <2>3. QED
    BY <2>1, <2>2
<1>4. CountInv'
  <2>1. ASSUME xpc' \notin Over, NEW c \in counted'
        PROVE  /\ c \notin Pending' /\ (DataOf(c) # c => DataOf(c) \notin Pending')
               /\ IsFS => c[1] <= fs' /\ (c[1] = fs' => xpc' \in InObjects)
    <3>1. xpc' \in InObjects
      BY <2>1 DEF Over
    <3>2. CASE c \in counted
      BY <1>3, <3>1, <3>2
    <3>3. CASE c \notin counted
      BY <3>1, <3>3 DEF Gone
    <3>4. QED
      BY <3>2, <3>3
  <2>2. QED
    BY <1>2, <2>1 DEF CountInv
<1>5. DiskInv'
  <2>1. ASSUME NEW c \in counted'
        PROVE  Right(c)'
    <3>1. CASE c \in counted
      BY <1>3, <3>1 DEF DiskInv, Right
    <3>2. CASE c \notin counted
      <4>1. /\ c = o
            /\ IF DataOf(o) = o THEN disk'[o] = "right"
                 ELSE disk'[o] = disk[DataOf(o)] /\ disk'[o] \notin {"old", "absent"}
        BY <3>2
      <4>2. DataOf(o) # o => disk'[DataOf(o)] = disk[DataOf(o)]
        BY DataType
      <4>3. QED
        BY <4>1, <4>2 DEF Right
    <3>3. QED
      BY <3>1, <3>2
  <2>2. ASSUME NEW p \in Objects, disk'[p] \in {"wrong", "empty"}
        PROVE  DataOf(p) \in failed' \/ (xpc' \in FilePC /\ This' = p /\ p \notin Excluded)
    <3>1. CASE p = o
      BY <2>2, <3>1
    <3>2. CASE p # o
      <4>1. disk[p] \in {"wrong", "empty"}
        BY <2>2, <3>2
      <4>2. DataOf(p) \in failed
        BY <3>2, <4>1 DEF DiskInv
      <4>3. QED
        BY <4>2
    <3>3. QED
      BY <3>1, <3>2
  <2>3. QED
    BY <2>1, <2>2 DEF DiskInv
<1>6. QED
  BY <1>4, <1>5

\* What the main thread knows of the object it takes.
LEMMA TakenFacts ==
  ASSUME BaseInv, NEW K, Taking(K), Ours
  PROVE  /\ xpc = "objects" /\ list # <<>> /\ RemoveHead
         /\ Head(list).val \in Readable /\ Head(list).val.magic = "OBJT"
         /\ NamesObject(Head(list).val) /\ KindAt(Head(list).val) \in K
         /\ ObjectOf(Head(list).val) \in Objects /\ ObjectOf(Head(list).val) \in Pending
         /\ IsFS => Head(list).val.tree = fs /\ ObjectOf(Head(list).val)[1] = fs
         /\ fs \in Nat
<1>1. /\ xpc = "objects" /\ list # <<>> /\ RemoveHead
      /\ Head(list).val.magic = "OBJT" /\ KindAt(Head(list).val) \in K
      /\ IsFS => Head(list).val.tree = fs
  BY DEF Taking, HeadIs, HeadMagic, queue_dequeue_header, Ours
<1>2. Head(list).val \in Readable /\ NamesObject(Head(list).val) /\ fs \in Nat
  BY <1>1, HeadType DEF BaseInv, MainTypeOK
<1>3. ObjectOf(Head(list).val) \in Objects
  BY <1>2, ObjectExists
<1>4. ObjectOf(Head(list).val) \in Pending
  BY <1>1, InPending
<1>5. ObjectOf(Head(list).val)[1] = Head(list).val.tree
  BY DEF ObjectOf
<1>6. QED
  BY <1>1, <1>2, <1>3, <1>4, <1>5

\* An object with nothing behind its header: a directory, a link, an empty file.
LEMMA HonestObject ==
  ASSUME BaseInv, BaseInv', HonestState, XObject \/ XLink
  PROVE  HonestState'
<1> USE DEF Elsewhere
<1> DEFINE r == Head(list).val
           o == ObjectOf(r)
<1>0. MainStep
  BY DEF MainStep
<1>1. /\ Taking({"dir", "meta"}) \/ Taking({"link"})
      /\ Ours
      /\ xpc' = "next" /\ UNCHANGED <<fs, file, group>>
  BY DEF XObject, XLink
<1>2. /\ xpc = "objects" /\ list # <<>> /\ RemoveHead
      /\ r \in Readable /\ r.magic = "OBJT" /\ NamesObject(r)
      /\ o \in Objects /\ o \in Pending /\ (IsFS => o[1] = fs) /\ fs \in Nat
      /\ Taking({"dir", "meta"}) => KindAt(r) \in {"dir", "meta"}
      /\ Taking({"link"}) => KindAt(r) = "link"
  BY <1>1, TakenFacts
<1>3. InHand' = <<>> /\ InHand = <<>>
  BY <1>1, <1>2 DEF InHand, FilePC, GroupPC
<1>4. LineInv' /\ Pending' \subseteq Pending /\ Gone(o)
  BY <1>0, <1>2, <1>3, QueueTaken DEF HonestState
<1>5. HandInv' /\ FileInv'
  BY <1>1, <1>3 DEF HandInv, FileInv, FilePC, GroupPC
<1>6. disk \in [Objects -> {"old", "absent", "wrong", "empty", "right"}]
  BY DEF BaseInv, MainTypeOK
<1>7. disk[o] \in {"wrong", "empty"} => DataOf(o) \in failed
  BY <1>2 DEF HonestState, DiskInv, FilePC
<1>8. CASE XObject
  <2>1. DataOf(o) = o
    BY <1>2, <1>8, KindOf DEF XObject
  <2>2. /\ counted' \in {counted, counted \cup {o}} /\ failed \subseteq failed'
        /\ disk' \in {disk, [disk EXCEPT ![o] = "right"]}
        /\ counted' # counted => disk' = [disk EXCEPT ![o] = "right"]
    BY <1>8 DEF XObject
  <2> HIDE DEF o
  <2>3. /\ \A p \in Objects : p # o => disk'[p] = disk[p]
        /\ disk'[o] \in {disk[o], "right"} /\ (counted' # counted => disk'[o] = "right")
    BY <1>2, <1>6, <2>2
  <2>4. CountInv' /\ DiskInv'
    BY <1>1, <1>2, <1>4, <1>7, <2>1, <2>2, <2>3, ObjectStep
    DEF HonestState, InObjects, FilePC
  <2>5. QED
    BY <1>0, <1>4, <1>5, <2>4, TypesMain DEF HonestState
<1>9. CASE XLink
  <2> DEFINE f == FirstLink(o)
             made == [disk EXCEPT ![o] = disk[f]]
  <2>1. KindAt(r) = "link" /\ Trees[o[1]][o[2]].kind = KindAt(r)
    BY <1>2, <1>9 DEF XLink, ObjectOf, KindAt
  <2>2. DataOf(o) = f /\ f # o /\ f \in Objects /\ DataOf(f) = f
    BY <1>2, <2>1, DataType
  <2>3. /\ counted' \in {counted, counted \cup {o}} /\ failed \subseteq failed'
        /\ disk' \in {disk, made}
        /\ counted' # counted => disk' = made /\ disk[f] \notin {"old", "absent"}
    BY <1>9 DEF XLink
  <2> HIDE DEF o, f
  <2>4. /\ \A p \in Objects : p # o => disk'[p] = disk[p]
        /\ disk'[o] \in {disk[o], disk[f]}
        /\ counted' # counted => disk'[o] = disk[f] /\ disk'[o] \notin {"old", "absent"}
    BY <1>2, <1>6, <2>3
  <2>5. disk[f] \in {"wrong", "empty"} => f \in failed
    BY <1>2, <2>2 DEF HonestState, DiskInv, FilePC
  <2>6. CountInv' /\ DiskInv'
    BY <1>1, <1>2, <1>4, <1>7, <2>2, <2>3, <2>4, <2>5, ObjectStep
    DEF HonestState, InObjects, FilePC
  <2>7. QED
    BY <1>0, <1>4, <1>5, <2>6, TypesMain DEF HonestState
<1>10. QED
  BY <1>8, <1>9

-----------------------------------------------------------------------------
(***************************************************************************)
(* A group of small files.                                                 *)
(***************************************************************************)
\* Behind a header that the line is clear of, the next record is not foreign.
LEMMA NotForeign ==
  ASSUME BaseInv, list # <<>>, NEW r,
         ClearOf(Line, OnLine, r, Head(list).val.magic)
  PROVE  ~Foreign(r, Unpack(Head(list).val))
<1> DEFINE h == InHand
           q == Queued(list)
           U == Unread
           e == Head(list).val
<1>1. LineTypes(h, q, U, archive)
  BY LineTypesNow
<1>2. IsLine(Line, OnLine, h, q, U, archive)
  BY <1>1, LinePlaces DEF LineTypes, Line, OnLine
<1>3. list \in Seq(Item(Readable)) /\ e \in Readable
  BY HeadType DEF BaseInv, QInv, QTypeOK
<1>4. Len(list) >= 1 /\ Head(list) = list[1] /\ Len(list) \in Nat
  BY <1>3, HeadTailProperties, EmptySeq, LenProperties
<1>5. Len(q) = Len(list) /\ q[1] = Unpack(e) /\ Unpack(e).magic = e.magic
  BY <1>3, <1>4, QueuedType, UnpackStands
<1> HIDE DEF h, q, U, e
<1>6. <<0, 1>> \in Line /\ OnLine[<<0, 1>>] = Unpack(e)
  BY <1>2, <1>4, <1>5 DEF IsLine
<1>7. \A c \in Line : c[1] >= 0 => ~Before(c, <<0, 1>>)
  BY <1>2 DEF IsLine, Before
<1>8. ClearOf(Line, OnLine, r, e.magic)
  BY DEF e
<1>9. ~Foreign(r, Unpack(e))
  BY <1>5, <1>6, <1>7, <1>8 DEF ClearOf
<1>10. QED
  BY <1>9 DEF e

\* The first header of a group comes into the hand.
LEMMA HonestFirstSmallFile ==
  ASSUME BaseInv, BaseInv', HonestState, XFirstSmallFile
  PROVE  HonestState'
<1> USE DEF Elsewhere
<1> DEFINE r == Head(list).val
           o == ObjectOf(r)
<1>0. MainStep
  BY DEF MainStep
<1>1. /\ Ours /\ Taking({"multi"}) /\ xpc' = "group" /\ group' = <<r>>
      /\ UNCHANGED <<fs, file, counted, failed, disk>>
  BY DEF XFirstSmallFile
<1>2. /\ xpc = "objects" /\ list # <<>> /\ RemoveHead
      /\ r.magic = "OBJT" /\ o \in Objects /\ o \in Pending /\ (IsFS => r.tree = fs)
  BY <1>1, TakenFacts
<1>3. InHand = <<>> /\ InHand' = <<r>>
  BY <1>1, <1>2 DEF InHand, FilePC, GroupPC
<1>4. InHand' = Append(InHand, r)
  BY <1>3
<1>5. LineInv' /\ Pending' \subseteq Pending /\ \A m : ClearOf(Line', OnLine', r, m)
  BY <1>0, <1>2, <1>4, QueueTaken DEF HonestState
<1>6. HandInv' /\ FileInv'
  BY <1>1, <1>2, <1>3, <1>5 DEF HandInv, FileInv, FilePC, GroupPC
<1>7. CountInv' /\ DiskInv'
  BY <1>1, <1>2, <1>5, ObjectStep DEF HonestState, InObjects, Busy, FilePC, DiskInv
<1>8. QED
  BY <1>0, <1>5, <1>6, <1>7, TypesMain DEF HonestState

\* The other headers and the block of a group.
LEMMA HonestGroup ==
  ASSUME BaseInv, BaseInv', HonestState, XGroupHeader \/ XGroupBlock
  PROVE  HonestState'
<1> USE DEF Elsewhere
<1> DEFINE r == Head(list).val
           o == ObjectOf(group[1])
<1>0. MainStep
  BY DEF MainStep
<1>1. /\ xpc = "group" /\ list # <<>> /\ RemoveHead
      /\ UNCHANGED <<fs, counted, failed, disk>>
      /\ \/ /\ XGroupHeader /\ xpc' = "group" /\ r.magic = "OBJT" /\ group' = Append(group, r)
         \/ /\ XGroupBlock /\ xpc' = "smallfiles" /\ group' = group
            /\ Head(list).type = "block"
  BY DEF XGroupHeader, XGroupBlock, Expect, queue_dequeue_header, queue_dequeue_block, HeadIs,
         XGoto
<1>2. InHand = group /\ InHand' = group'
  BY <1>1 DEF InHand, FilePC, GroupPC
<1>3. /\ group \in Seq(Record) /\ group # <<>> /\ NamesObject(group[1])
      /\ Len(group) \in Nat \ {0} /\ DOMAIN group = 1 .. Len(group) /\ r \in Readable
  <2>1. group \in Seq(Record) /\ group # <<>> /\ \A k \in DOMAIN group : NamesObject(group[k])
    BY <1>1 DEF BaseInv, MainTypeOK, TakenExist
  <2>2. QED
    BY <1>1, <2>1, LenProperties, EmptySeq, HeadType DEF BaseInv
<1>4. o \in Objects /\ o \in Pending
  <2>1. group[1].magic = "OBJT" /\ 1 \in DOMAIN InHand
    BY <1>2, <1>3 DEF HonestState, HandInv
  <2>2. QED
    BY <1>2, <1>3, <2>1, ObjectExists, InPending
<1>5. LineInv' /\ Pending' \subseteq Pending
      /\ \A s, m : ~Begins(r, m) => StaysClear(s, m)
  <2>1. InHand' = InHand \/ InHand' = Append(InHand, r)
    BY <1>1, <1>2
  <2>2. QED
    BY <1>0, <1>1, <2>1, QueueTaken DEF HonestState
<1>6. CountInv' /\ DiskInv'
  BY <1>1, <1>4, <1>5, ObjectStep DEF HonestState, InObjects, Busy, FilePC, DiskInv
<1>7. FileInv'
  BY <1>1 DEF FileInv, FilePC
<1>8. HandInv'
  <2>1. /\ \A k \in DOMAIN group : group[k].magic = "OBJT"
        /\ IsFS => \A k \in DOMAIN group : group[k].tree = fs
        /\ ClearOf(Line, OnLine, group[1], "OBJT")
    BY <1>1, <1>2 DEF HonestState, HandInv, GroupPC
  <2>2. CASE XGroupHeader /\ xpc' = "group" /\ r.magic = "OBJT" /\ group' = Append(group, r)
    <3>1. ~Foreign(group[1], Unpack(r))
      BY <1>1, <2>1, <2>2, NotForeign
    <3>2. IsFS => r.tree = fs
      BY <1>3, <2>1, <2>2, <3>1, UnpackStands DEF Foreign
    <3>3. /\ DOMAIN Append(group, r) = 1 .. Len(group) + 1
          /\ \A k \in 1 .. Len(group) : Append(group, r)[k] = group[k]
          /\ Append(group, r)[Len(group) + 1] = r
      <4>1. r \in Record
        BY <1>3 DEF Readable
      <4>2. QED
        BY <1>3, <4>1, AppendProperties, LenProperties
    <3> DEFINE g == Append(group, r)
    <3>4. /\ \A k \in DOMAIN g : g[k].magic = "OBJT" /\ (IsFS => g[k].tree = fs)
          /\ g[1] = group[1]
      <4> HIDE DEF g
      <4>1. /\ DOMAIN g = 1 .. Len(group) + 1
            /\ (\A k \in 1 .. Len(group) : g[k] = group[k]) /\ g[Len(group) + 1] = r
        BY <3>3 DEF g
      <4>2. QED
        BY <1>3, <2>1, <2>2, <3>2, <4>1
    <3>5. group' = g
      BY <2>2
    <3> HIDE DEF g
    <3>6. ClearOf(Line', OnLine', group'[1], "OBJT")
      <4>1. StaysClear(group[1], "OBJT")
        BY <1>5, <2>2 DEF Begins
      <4>2. QED
        BY <2>1, <3>4, <3>5, <4>1 DEF StaysClear
    <3>7. QED
      BY <1>1, <1>2, <2>2, <3>4, <3>5, <3>6 DEF HandInv, FilePC, GroupPC
  <2>3. CASE xpc' = "smallfiles" /\ group' = group
    BY <1>1, <1>2, <2>1, <2>3 DEF HandInv, FilePC, GroupPC
  <2>4. QED
    BY <1>1, <2>2, <2>3
<1>9. QED
  BY <1>0, <1>5, <1>6, <1>7, <1>8, TypesMain DEF HonestState

\* What becomes of a small file of this file system.
LEMMA SmallOutcome ==
  ASSUME BaseInv, NEW r, NamesObject(r), IsFS => r.tree = fs, NEW out \in SmallFileOutcomes(r)
  PROVE  LET o == ObjectOf(r)
         IN  /\ out.count \in {"ok", "error", "none"}
             /\ out.count = "ok" => KindAt(r) = "multi" /\ out.disk = "right"
             /\ out.disk \in {disk[o], "right"} \/
                  (out.disk = "empty" /\ out.count = "error" /\ KindAt(r) = "multi")
<1>1. \A d : Placed(r, d) = d
  BY DEF Placed
<1>2. QED
  BY <1>1 DEF SmallFileOutcomes

\* A small file of the group is written, or fails.
LEMMA HonestSmallFile ==
  ASSUME BaseInv, BaseInv', HonestState, XSmallFile \/ XSmallFileWriteFails
  PROVE  HonestState'
<1> USE DEF Elsewhere, XGoto, XFail
<1> DEFINE r == Head(group)
           o == ObjectOf(r)
<1>0. MainStep
  BY DEF MainStep
<1>1. xpc = "smallfiles" /\ UNCHANGED <<qvars, fs>>
  BY DEF XSmallFile, XSmallFileWriteFails
<1>2. UNCHANGED list
  BY <1>1 DEF qvars
<1>3. InHand = group
  BY <1>1 DEF InHand, FilePC, GroupPC
<1>4. /\ group \in Seq(Record) /\ group # <<>> /\ r = group[1] /\ NamesObject(r)
      /\ Len(group) \in Nat \ {0} /\ DOMAIN group = 1 .. Len(group)
  <2>1. group \in Seq(Record) /\ group # <<>> /\ \A k \in DOMAIN group : NamesObject(group[k])
    BY <1>1 DEF BaseInv, MainTypeOK, TakenExist
  <2>2. QED
    BY <2>1, LenProperties, EmptySeq, HeadTailProperties
<1>5. /\ \A k \in DOMAIN group : group[k].magic = "OBJT" /\ (IsFS => group[k].tree = fs)
  BY <1>1, <1>3 DEF HonestState, HandInv, GroupPC
<1>6. r.magic = "OBJT" /\ (IsFS => r.tree = fs)
  BY <1>4, <1>5
<1>7. o \in Objects /\ o \in Pending /\ (IsFS => o[1] = fs) /\ fs \in Nat
  <2>1. 1 \in DOMAIN InHand /\ InHand[1] = r
    BY <1>3, <1>4
  <2>2. o \in Objects /\ o \in Pending
    BY <1>4, <1>6, <2>1, ObjectExists, InPending
  <2>3. o[1] = r.tree
    BY DEF ObjectOf
  <2>4. QED
    BY <1>6, <2>2, <2>3 DEF BaseInv, MainTypeOK
<1>8. disk \in [Objects -> {"old", "absent", "wrong", "empty", "right"}]
  BY DEF BaseInv, MainTypeOK
<1>9. disk[o] \in {"wrong", "empty"} => DataOf(o) \in failed
  BY <1>1, <1>7 DEF HonestState, DiskInv, FilePC
<1>10. KindAt(r) = "multi" => DataOf(o) = o
  BY <1>4, KindOf
<1>11. CASE XSmallFile
  <2>1. PICK out \in SmallFileOutcomes(r) :
          /\ disk' = [disk EXCEPT ![o] = out.disk]
          /\ counted' = IF out.count = "ok" THEN counted \cup {o} ELSE counted
          /\ failed' = IF out.count = "error" THEN failed \cup {o} ELSE failed
    BY <1>11 DEF XSmallFile
  <2>2. /\ out.count \in {"ok", "error", "none"}
        /\ out.count = "ok" => KindAt(r) = "multi" /\ out.disk = "right"
        /\ out.disk \in {disk[o], "right"} \/
             (out.disk = "empty" /\ out.count = "error" /\ KindAt(r) = "multi")
    BY <1>4, <1>6, SmallOutcome
  <2>3. /\ xpc' = IF Len(group) > 1 THEN "smallfiles" ELSE "next"
        /\ group' = Tail(group)
    BY <1>11 DEF XSmallFile
  <2>4. /\ Tail(group) \in Seq(Record) /\ Len(Tail(group)) = Len(group) - 1
        /\ DOMAIN Tail(group) = 1 .. Len(group) - 1
        /\ \A k \in 1 .. Len(group) - 1 : Tail(group)[k] = group[k + 1]
    BY <1>4, HeadTailProperties, LenProperties
  <2>5. InHand' = Tail(group)
    <3>1. CASE Len(group) > 1
      BY <2>3, <3>1 DEF InHand, FilePC, GroupPC
    <3>2. CASE ~(Len(group) > 1)
      <4>1. InHand' = <<>>
        BY <2>3, <3>2 DEF InHand, FilePC, GroupPC
      <4>2. Len(Tail(group)) = 0
        BY <1>4, <2>4, <3>2
      <4>3. Tail(group) = <<>>
        BY <2>4, <4>2, EmptySeq
      <4>4. QED
        BY <4>1, <4>3
    <3>3. QED
      BY <3>1, <3>2
  <2>6. InHand' # InHand
    <3> DEFINE g == Tail(group)
    <3>1. Len(g) = Len(group) - 1 /\ InHand' = g
      BY <2>4, <2>5
    <3> HIDE DEF g
    <3>2. QED
      BY <1>3, <1>4, <3>1
  <2>7. LineInv' /\ Pending' \subseteq Pending /\ Gone(o)
    BY <1>0, <1>2, <1>3, <1>4, <1>6, <2>5, <2>6, QueueStill DEF HonestState
  <2> HIDE DEF o
  <2>8. /\ \A p \in Objects : p # o => disk'[p] = disk[p]
        /\ disk'[o] = out.disk
    BY <1>7, <1>8, <2>1
  <2>9. counted' # counted => counted' = counted \cup {o} /\ DataOf(o) = o /\ disk'[o] = "right"
    BY <1>10, <2>1, <2>2, <2>8
  <2>10. failed \subseteq failed' /\ counted' \in {counted, counted \cup {o}}
    BY <2>1
  <2>11. disk'[o] \in {"wrong", "empty"} => DataOf(o) \in failed'
    BY <1>9, <1>10, <2>1, <2>2, <2>8
  <2>12. CountInv' /\ DiskInv'
    BY <1>1, <1>7, <2>3, <2>7, <2>8, <2>9, <2>10, <2>11, ObjectStep
    DEF HonestState, InObjects, Busy, FilePC
  <2>13. FileInv'
    BY <2>3 DEF FileInv, FilePC
  <2>14. HandInv'
    <3>1. \A k \in DOMAIN Tail(group) : /\ Tail(group)[k].magic = "OBJT"
                                        /\ IsFS => Tail(group)[k].tree = fs
      <4>1. \A k \in 1 .. Len(group) - 1 : k + 1 \in DOMAIN group
        BY <1>4
      <4>2. QED
        BY <1>5, <2>4, <4>1
    <3> DEFINE g == Tail(group)
    <3> HIDE DEF g
    <3>2. /\ \A k \in DOMAIN g : g[k].magic = "OBJT" /\ (IsFS => g[k].tree = fs)
          /\ InHand' = g /\ group' = g
      BY <2>3, <2>5, <3>1 DEF g
    <3>3. QED
      BY <1>1, <2>3, <3>2 DEF HandInv, FilePC, GroupPC
  <2>15. QED
    BY <1>0, <2>7, <2>12, <2>13, <2>14, TypesMain DEF HonestState
<1>12. CASE XSmallFileWriteFails
  <2>1. /\ xpc' = "teardown" /\ UNCHANGED <<counted, failed>>
        /\ disk' = [disk EXCEPT ![o] = Placed(r, "absent")]
    BY <1>12 DEF XSmallFileWriteFails
  <2>2. Placed(r, "absent") = "absent"
    BY <1>6 DEF Placed
  <2> HIDE DEF o
  <2>3. /\ \A p \in Objects : p # o => disk'[p] = disk[p]
        /\ disk'[o] = "absent"
    BY <1>7, <1>8, <2>1, <2>2
  <2>4. InHand' = <<>>
    BY <2>1 DEF InHand, FilePC, GroupPC
  <2>5. LineInv' /\ Pending' \subseteq Pending
    BY <1>0, <1>2, <2>4, QueueStill DEF HonestState
  <2>6. CountInv' /\ DiskInv'
    BY <1>1, <1>7, <2>1, <2>3, <2>5, ObjectStep DEF HonestState, InObjects, Busy, FilePC
  <2>7. HandInv' /\ FileInv'
    BY <2>1, <2>4 DEF HandInv, FileInv, FilePC, GroupPC
  <2>8. QED
    BY <1>0, <2>5, <2>6, <2>7, TypesMain DEF HonestState
<1>13. QED
  BY <1>11, <1>12

-----------------------------------------------------------------------------
(***************************************************************************)
(* A regular file.                                                         *)
(***************************************************************************)
LEMMA FileFacts ==
  ASSUME BaseInv, HonestState, xpc \in FilePC
  PROVE  /\ NamesObject(file.hdr) /\ BlocksAt(file.hdr) \in Nat
         /\ This \in Objects /\ This \in Pending /\ DataOf(This) = This
         /\ InHand = <<file.hdr>> /\ file.hdr.magic = "OBJT"
         /\ KindAt(file.hdr) \in {"unique", "self"}
         /\ file \in [hdr : Record, data : Seq(Record), closed : BOOLEAN, minor : BOOLEAN,
                      del : BOOLEAN]
         /\ file.data \in Seq(Record) /\ Len(file.data) \in Nat
         /\ DOMAIN file.data = 1 .. Len(file.data)
         /\ disk \in [Objects -> {"old", "absent", "wrong", "empty", "right"}]
<1>1. NamesObject(file.hdr)
  BY DEF BaseInv, TakenExist, FilePC
<1>2. InHand = <<file.hdr>>
  BY DEF InHand
<1>3. file.hdr.magic = "OBJT" /\ KindAt(file.hdr) \in {"unique", "self"}
  <2>1. 1 \in DOMAIN InHand /\ InHand[1] = file.hdr
    BY <1>2
  <2>2. QED
    BY <2>1 DEF HonestState, HandInv
<1>4. This \in Pending
  <2>1. 1 \in DOMAIN InHand /\ InHand[1] = file.hdr
    BY <1>2
  <2>2. QED
    BY <1>3, <2>1, InPending DEF This
<1>5. This \in Objects /\ BlocksAt(file.hdr) \in Nat /\ DataOf(This) = This
  BY <1>1, <1>3, ObjectExists, KindOf DEF This
<1>6. /\ file \in [hdr : Record, data : Seq(Record), closed : BOOLEAN, minor : BOOLEAN,
                   del : BOOLEAN]
      /\ disk \in [Objects -> {"old", "absent", "wrong", "empty", "right"}]
  BY DEF BaseInv, MainTypeOK
<1>7. file.data \in Seq(Record) /\ Len(file.data) \in Nat /\ DOMAIN file.data = 1 .. Len(file.data)
  BY <1>6, LenProperties
<1>8. QED
  BY <1>1, <1>2, <1>3, <1>4, <1>5, <1>6, <1>7

\* The file is opened, and emptied.
LEMMA HonestOpenFile ==
  ASSUME BaseInv, BaseInv', HonestState, XOpenFile
  PROVE  HonestState'
<1> USE DEF Elsewhere
<1> DEFINE r == Head(list).val
           o == ObjectOf(r)
<1>0. MainStep
  BY DEF MainStep
<1>1. /\ Ours /\ Taking({"unique", "self"}) /\ xpc' = "file"
      /\ UNCHANGED <<fs, group, counted, failed>>
      /\ \/ /\ file' = [NoFile EXCEPT !.hdr = r]
            /\ disk' = IF o \in Excluded THEN disk ELSE [disk EXCEPT ![o] = "wrong"]
         \/ /\ file' = [NoFile EXCEPT !.hdr = r, !.minor = TRUE]
            /\ UNCHANGED disk
  BY DEF XOpenFile
<1>2. /\ xpc = "objects" /\ list # <<>> /\ RemoveHead /\ KindAt(r) \in {"unique", "self"}
      /\ r.magic = "OBJT" /\ o \in Objects /\ o \in Pending /\ NamesObject(r)
      /\ r \in Readable
  BY <1>1, TakenFacts
<1>3. file'.hdr = r /\ file'.data = <<>> /\ file'.del = FALSE
  BY <1>1 DEF NoFile
<1>4. InHand = <<>> /\ InHand' = <<r>>
  BY <1>1, <1>2, <1>3 DEF InHand, FilePC, GroupPC
<1>5. InHand' = Append(InHand, r)
  BY <1>4
<1>6. LineInv' /\ Pending' \subseteq Pending /\ \A m : ClearOf(Line', OnLine', r, m)
  BY <1>0, <1>2, <1>5, QueueTaken DEF HonestState
<1>7. HandInv'
  BY <1>1, <1>2, <1>3, <1>4, <1>6 DEF HandInv, FilePC, GroupPC
<1>8. FileInv'
  <2>1. BlocksAt(r) \in Nat /\ Len(<<>>) = 0 /\ DOMAIN <<>> = {}
    BY <1>2, ObjectExists
  <2>2. QED
    BY <1>1, <1>3, <2>1 DEF FileInv, FilePC
<1>9. CountInv' /\ DiskInv'
  <2>1. disk \in [Objects -> {"old", "absent", "wrong", "empty", "right"}]
    BY DEF BaseInv, MainTypeOK
  <2>2. disk[o] \in {"wrong", "empty"} => DataOf(o) \in failed
    BY <1>2 DEF HonestState, DiskInv, FilePC
  <2>3. This' = o
    BY <1>3 DEF This, ObjectOf
  <2> HIDE DEF o
  <2>4. /\ \A p \in Objects : p # o => disk'[p] = disk[p]
        /\ disk'[o] = disk[o] \/ o \notin Excluded
    BY <1>1, <1>2, <2>1
  <2>5. QED
    BY <1>1, <1>2, <1>6, <2>2, <2>3, <2>4, ObjectStep DEF HonestState, InObjects, Busy, FilePC
<1>10. QED
  BY <1>0, <1>6, <1>7, <1>8, <1>9, TypesMain DEF HonestState

\* A step on the way through the file that changes nothing but what has been read.
LEMMA FileStep ==
  ASSUME BaseInv, BaseInv', HonestState, MainStep,
         xpc \in FilePC, xpc' \in FilePC, file'.hdr = file.hdr,
         UNCHANGED <<fs, counted, failed>>,
         \/ UNCHANGED list
         \/ list # <<>> /\ RemoveHead /\ (xpc' = "file" => Head(list).val.magic = "BLKH"),
         xpc' \in {"file", "block"} => xpc \in {"file", "block"},
         \A p \in Objects : p # This => disk'[p] = disk[p],
         disk'[This] \in {disk[This], "right"},
         xpc' = "block" => UNCHANGED list
  PROVE  LineInv' /\ HandInv' /\ CountInv' /\ DiskInv' /\ BlockTypes'
<1>1. /\ This \in Objects /\ This \in Pending /\ DataOf(This) = This
      /\ InHand = <<file.hdr>> /\ file.hdr.magic = "OBJT"
      /\ KindAt(file.hdr) \in {"unique", "self"}
  BY FileFacts
<1>2. InHand' = InHand
  BY <1>1 DEF InHand
<1>3. /\ LineInv' /\ Pending' \subseteq Pending
      /\ xpc' \in {"file", "block"} => StaysClear(file.hdr, "BLKH")
  <2>1. CASE UNCHANGED list
    BY <1>2, <2>1, QueueStill DEF HonestState
  <2>2. CASE /\ list # <<>> /\ RemoveHead /\ (xpc' = "file" => Head(list).val.magic = "BLKH")
             /\ xpc' # "block"
    BY <1>2, <2>2, QueueTaken DEF HonestState, Begins
  <2>3. QED
    BY <2>1, <2>2
<1>4. HandInv'
  <2>1. \A k \in DOMAIN InHand : InHand[k].magic = "OBJT"
    BY DEF HonestState, HandInv
  <2>2. xpc' \in {"file", "block"} => ClearOf(Line', OnLine', file.hdr, "BLKH")
    BY <1>3 DEF HonestState, HandInv, StaysClear
  <2>3. QED
    BY <1>1, <1>2, <2>1, <2>2 DEF HandInv, FilePC, GroupPC
<1>5. This' = This
  BY DEF This, ObjectOf
<1>6. CountInv' /\ DiskInv'
  <2>1. disk[This] \in {"wrong", "empty"} => DataOf(This) \in failed \/ This \notin Excluded
    BY <1>1 DEF HonestState, DiskInv
  <2> DEFINE o == This
  <2>2. /\ o \in Objects /\ o \in Pending /\ This = o /\ This' = o
        /\ \A p \in Objects : p # o => disk'[p] = disk[p]
        /\ disk'[o] \in {"wrong", "empty"} => DataOf(o) \in failed \/ o \notin Excluded
    BY <1>1, <1>5, <2>1
  <2> HIDE DEF o
  <2>3. QED
    BY <1>3, <2>2, ObjectStep DEF HonestState, InObjects, Busy, FilePC
<1>7. QED
  BY <1>3, <1>4, <1>6, TypesMain DEF HonestState

\* The loop over the blocks, and a block that does not come.
LEMMA HonestBlockLoop ==
  ASSUME BaseInv, BaseInv', HonestState, XBlockLoop \/ XBlockMissing
  PROVE  HonestState'
<1> USE DEF Elsewhere, XGoto
<1>0. MainStep
  BY DEF MainStep
<1>1. CASE XBlockLoop
  <2>1. /\ xpc = "file" /\ xpc' \in {"block", "close"}
        /\ xpc' = "block" => Len(file.data) < BlocksAt(file.hdr)
        /\ UNCHANGED <<qvars, fs, file, counted, failed, disk>>
    BY <1>1 DEF XBlockLoop
  <2>2. UNCHANGED list
    BY <2>1 DEF qvars
  <2>3. FileInv'
    BY <2>1 DEF HonestState, FileInv, FilePC
  <2>4. LineInv' /\ HandInv' /\ CountInv' /\ DiskInv' /\ BlockTypes'
    BY <1>0, <2>1, <2>2, FileStep DEF FilePC
  <2>5. QED
    BY <2>3, <2>4 DEF HonestState
<1>2. CASE XBlockMissing
  <2>1. /\ xpc = "block" /\ xpc' = "file"
        /\ UNCHANGED <<fs, counted, failed, disk>>
        /\ file' = [file EXCEPT !.minor = TRUE, !.del = TRUE]
        /\ UNCHANGED qvars
    BY <1>2 DEF XBlockMissing, queue_dequeue_fails
  <2>2. UNCHANGED list
    BY <2>1 DEF qvars
  <2>3. file'.hdr = file.hdr /\ file'.data = file.data /\ file'.minor
    BY <2>1, FileFacts DEF FilePC
  <2>4. FileInv'
    BY <2>1, <2>3 DEF HonestState, FileInv, FilePC
  <2>5. LineInv' /\ HandInv' /\ CountInv' /\ DiskInv' /\ BlockTypes'
    BY <1>0, <2>1, <2>2, <2>3, FileStep DEF FilePC
  <2>6. QED
    BY <2>4, <2>5 DEF HonestState
<1>3. QED
  BY <1>1, <1>2

\* A block that comes is one of the file, or zeros, or one of a group.
LEMMA HonestBlock ==
  ASSUME BaseInv, BaseInv', HonestState, XBlock
  PROVE  HonestState'
<1> USE DEF Elsewhere, XGoto
<1> DEFINE r == Head(list).val
<1>0. MainStep
  BY DEF MainStep
<1>1. /\ xpc = "block" /\ xpc' = "file" /\ UNCHANGED <<fs, counted, failed, disk>>
      /\ list # <<>> /\ RemoveHead /\ Head(list).type = "block"
      /\ \/ file' = [file EXCEPT !.data = Append(@, r)]
         \/ file' = [file EXCEPT !.minor = TRUE, !.del = TRUE]
  BY DEF XBlock, queue_dequeue_block, HeadIs
<1>2. r.magic = "BLKH" /\ r \in Readable /\ r \in Record
  <2>1. list \in Seq(Item(Readable))
    BY DEF BaseInv, QInv, QTypeOK
  <2>2. Head(list) = list[1] /\ 1 \in DOMAIN list
    BY <1>1, <2>1, HeadTailProperties, EmptySeq, LenProperties
  <2>3. QED
    BY <1>1, <2>2, HeadType DEF HonestState, BlockTypes, BaseInv
<1>3. LargeBlock(r) => SameObject(r, file.hdr)
  <2>1. ClearOf(Line, OnLine, file.hdr, "BLKH") /\ file.hdr.magic = "OBJT"
    BY <1>1, FileFacts DEF HonestState, HandInv, FilePC
  <2>2. ~Foreign(file.hdr, Unpack(r))
    BY <1>1, <1>2, <2>1, NotForeign
  <2>3. LargeBlock(r) => SameObject(file.hdr, Unpack(r))
    BY <1>2, <2>1, <2>2, UnpackStands DEF Foreign
  <2>4. QED
    BY <1>2, <2>3, UnpackStands DEF SameObject
<1>4. /\ file \in [hdr : Record, data : Seq(Record), closed : BOOLEAN, minor : BOOLEAN,
                   del : BOOLEAN]
      /\ file.data \in Seq(Record) /\ Len(file.data) \in Nat
      /\ DOMAIN file.data = 1 .. Len(file.data) /\ BlocksAt(file.hdr) \in Nat
  BY <1>1, FileFacts DEF FilePC
<1>5. /\ file.del => file.minor
      /\ Len(file.data) < BlocksAt(file.hdr)
      /\ \A i \in DOMAIN file.data :
           /\ file.data[i].magic = "BLKH"
           /\ LargeBlock(file.data[i]) => SameObject(file.data[i], file.hdr)
  BY <1>1 DEF HonestState, FileInv, FilePC
<1>6. file'.hdr = file.hdr /\ FileInv'
  <2>1. CASE file' = [file EXCEPT !.data = Append(@, r)]
    <3> DEFINE d == Append(file.data, r)
    <3>1. /\ Len(d) = Len(file.data) + 1 /\ DOMAIN d = 1 .. Len(file.data) + 1
          /\ \A i \in 1 .. Len(file.data) : d[i] = file.data[i]
          /\ d[Len(file.data) + 1] = r
      BY <1>2, <1>4, AppendProperties, LenProperties
    <3>2. /\ file'.hdr = file.hdr /\ file'.data = d /\ file'.minor = file.minor
          /\ file'.del = file.del
      BY <1>4, <2>1
    <3> HIDE DEF d, r
    <3>3. \A i \in DOMAIN d : /\ d[i].magic = "BLKH"
                              /\ LargeBlock(d[i]) => SameObject(d[i], file.hdr)
      BY <1>2, <1>3, <1>4, <1>5, <3>1
    <3>4. Len(d) <= BlocksAt(file.hdr)
      BY <1>4, <1>5, <3>1
    <3>5. QED
      BY <1>1, <1>5, <3>2, <3>3, <3>4 DEF FileInv
  <2>2. CASE file' = [file EXCEPT !.minor = TRUE, !.del = TRUE]
    <3>1. file'.hdr = file.hdr /\ file'.data = file.data /\ file'.minor
      BY <1>4, <2>2
    <3>2. QED
      BY <1>1, <1>4, <1>5, <3>1 DEF FileInv
  <2>3. QED
    BY <1>1, <2>1, <2>2
<1>7. LineInv' /\ HandInv' /\ CountInv' /\ DiskInv' /\ BlockTypes'
  BY <1>0, <1>1, <1>2, <1>6, FileStep DEF FilePC
<1>8. QED
  BY <1>6, <1>7 DEF HonestState

\* All blocks are written and the file is closed.
LEMMA HonestClose ==
  ASSUME BaseInv, BaseInv', HonestState, XClose
  PROVE  HonestState'
<1> USE DEF Elsewhere, XGoto
<1> DEFINE o == This
           right == o \notin Excluded /\ ContentsOf(file.data, file.hdr)
<1>0. MainStep
  BY DEF MainStep
<1>1. /\ xpc = "close" /\ xpc' = IF BlocksAt(file.hdr) > 0 THEN "footer" ELSE "counting"
      /\ UNCHANGED <<qvars, fs, counted, failed>>
      /\ \/ file.minor /\ UNCHANGED <<file, disk>>
         \/ /\ ~file.minor /\ \E b \in BOOLEAN : file' = [file EXCEPT !.closed = TRUE, !.minor = b]
            /\ disk' = IF right THEN [disk EXCEPT ![o] = "right"] ELSE disk
  BY DEF XClose
<1>2. UNCHANGED list
  BY <1>1 DEF qvars
<1>3. /\ file \in [hdr : Record, data : Seq(Record), closed : BOOLEAN, minor : BOOLEAN,
                   del : BOOLEAN]
      /\ file.data \in Seq(Record) /\ Len(file.data) \in Nat /\ BlocksAt(file.hdr) \in Nat
      /\ DOMAIN file.data = 1 .. Len(file.data) /\ o \in Objects
      /\ disk \in [Objects -> {"old", "absent", "wrong", "empty", "right"}]
  BY <1>1, FileFacts DEF FilePC
<1>4. /\ file'.hdr = file.hdr /\ file'.data = file.data /\ file'.del = file.del
      /\ file.minor => file'.minor
      /\ ~file'.minor => file'.closed
  BY <1>1, <1>3
<1>5. This' = o
  BY <1>4 DEF This, ObjectOf
<1>6. /\ file.del => file.minor
      /\ Len(file.data) <= BlocksAt(file.hdr)
      /\ \A i \in DOMAIN file.data :
           /\ file.data[i].magic = "BLKH"
           /\ LargeBlock(file.data[i]) => SameObject(file.data[i], file.hdr)
  BY <1>1 DEF HonestState, FileInv, FilePC
<1> HIDE DEF o
<1>7. ~file'.minor /\ right => disk'[o] = "right"
  BY <1>1, <1>3, <1>4
<1>8. xpc' = "counting" => ContentsOf(file.data, file.hdr)
  <2>1. xpc' = "counting" => Len(file.data) = 0 /\ BlocksAt(file.hdr) = 0
    <3> DEFINE n == BlocksAt(file.hdr)
               k == Len(file.data)
    <3>1. n \in Nat /\ k \in Nat /\ k <= n /\ xpc' = IF n > 0 THEN "footer" ELSE "counting"
      BY <1>1, <1>3, <1>6
    <3> HIDE DEF n, k
    <3>2. xpc' = "counting" => k = 0 /\ n = 0
      BY <3>1
    <3>3. QED
      BY <3>2 DEF n, k
  <2>2. Len(file.data) = 0 => DOMAIN file.data = {}
    BY <1>3
  <2>3. QED
    BY <2>1, <2>2 DEF ContentsOf
<1>9. FileInv'
  <2>1. xpc' = "footer" /\ ~file'.minor =>
          /\ file'.closed
          /\ This' \notin Excluded /\ ContentsOf(file'.data, file'.hdr) => disk'[This'] = "right"
    BY <1>4, <1>5, <1>7
  <2>2. xpc' = "counting" /\ ~file'.minor /\ This' \notin Excluded => disk'[This'] = "right"
    BY <1>5, <1>7, <1>8
  <2>3. xpc' \in {"footer", "counting"}
    BY <1>1
  <2>4. QED
    BY <1>4, <1>6, <2>1, <2>2, <2>3 DEF FileInv
<1>10. LineInv' /\ HandInv' /\ CountInv' /\ DiskInv' /\ BlockTypes'
  <2>1. /\ \A p \in Objects : p # o => disk'[p] = disk[p]
        /\ disk'[o] \in {disk[o], "right"}
    BY <1>1, <1>3
  <2>2. QED
    BY <1>0, <1>1, <1>2, <1>4, <2>1, FileStep DEF FilePC, o
<1>11. QED
  BY <1>9, <1>10 DEF HonestState

\* What a footer that agrees says of the contents.  It is of a file saved alone, so
\* the blocks are large blocks of that, and so the file in hand is that file.
LEMMA FooterAgrees ==
  ASSUME NEW d, NEW r, NEW hdr, Len(d) \in Nat, DOMAIN d = 1 .. Len(d), EndsFile(r),
         BlocksAt(r) \in Nat,
         \A i \in DOMAIN d : /\ d[i].magic = "BLKH"
                             /\ LargeBlock(d[i]) => SameObject(d[i], hdr),
         ContentsOf(d, r)
  PROVE  ContentsOf(d, hdr)
<1>1. Len(d) = BlocksAt(r) /\ BlocksAt(r) > 0 /\ SavedAlone(r)
  BY DEF EndsFile, ContentsOf
<1>2. 1 \in DOMAIN d /\ SameObject(d[1], r)
  BY <1>1 DEF ContentsOf
<1>3. LargeBlock(d[1])
  <2>1. d[1].tree = r.tree /\ d[1].objs = r.objs /\ d[1].magic = "BLKH"
    BY <1>2 DEF SameObject
  <2>2. SavedAlone(d[1])
    BY <1>1, <2>1 DEF SavedAlone, KindAt, BlocksAt
  <2>3. QED
    BY <2>1, <2>2 DEF LargeBlock
<1>4. r.tree = hdr.tree /\ r.objs = hdr.objs
  <2>1. SameObject(d[1], hdr)
    BY <1>2, <1>3
  <2>2. QED
    BY <1>2, <2>1 DEF SameObject
<1>5. BlocksAt(hdr) = BlocksAt(r) /\ \A s : SameObject(s, hdr) <=> SameObject(s, r)
  BY <1>4 DEF BlocksAt, KindAt, SameObject
<1>6. QED
  BY <1>5 DEF ContentsOf

\* The checksum of the footer is compared, if it is a footer.
LEMMA HonestFooter ==
  ASSUME BaseInv, BaseInv', HonestState, XFooter
  PROVE  HonestState'
<1> USE DEF Elsewhere, XGoto
<1> DEFINE r == Head(list).val
<1>0. MainStep
  BY DEF MainStep
<1>1. /\ xpc = "footer" /\ xpc' = "counting"
      /\ UNCHANGED <<fs, counted, failed, disk>>
  BY DEF XFooter
<1>2. /\ file \in [hdr : Record, data : Seq(Record), closed : BOOLEAN, minor : BOOLEAN,
                   del : BOOLEAN]
      /\ file.data \in Seq(Record) /\ Len(file.data) \in Nat /\ BlocksAt(file.hdr) \in Nat
      /\ DOMAIN file.data = 1 .. Len(file.data)
  BY <1>1, FileFacts DEF FilePC
<1>3. \/ UNCHANGED list
      \/ list # <<>> /\ RemoveHead
  BY DEF XFooter, queue_dequeue_fails, queue_dequeue_header, qvars, HeadIs
<1>4. /\ file' \in {file, [file EXCEPT !.minor = TRUE], [file EXCEPT !.minor = TRUE, !.del = TRUE]}
  BY DEF XFooter
<1>5. /\ file'.hdr = file.hdr /\ file'.data = file.data
      /\ file'.del => file.del \/ file'.minor
      /\ file.minor => file'.minor
  BY <1>2, <1>4
<1>6. This' = This
  BY <1>5 DEF This, ObjectOf
<1>7. /\ file.del => file.minor
      /\ Len(file.data) <= BlocksAt(file.hdr)
      /\ \A i \in DOMAIN file.data :
           /\ file.data[i].magic = "BLKH"
           /\ LargeBlock(file.data[i]) => SameObject(file.data[i], file.hdr)
      /\ ~file.minor =>
           /\ file.closed
           /\ This \notin Excluded /\ ContentsOf(file.data, file.hdr) => disk[This] = "right"
  BY <1>1 DEF HonestState, FileInv, FilePC
<1>8. ASSUME ~file'.minor, This \notin Excluded
      PROVE  ContentsOf(file.data, file.hdr)
  <2>1. /\ file' = file \/ file'.minor
        /\ list # <<>> /\ r.magic = "FILF" /\ ContentsOf(file.data, r)
    <3>1. ~file.minor /\ file.closed
      BY <1>5, <1>7, <1>8
    <3>2. CASE queue_dequeue_fails("header") /\ file' = [file EXCEPT !.minor = TRUE]
      BY <1>2, <1>8, <3>2
    <3>3. CASE /\ queue_dequeue_header
               /\ IF This \in Excluded
                    THEN UNCHANGED file
                    ELSE IF Head(list).val.magic # "FILF"
                    THEN file' = [file EXCEPT !.minor = TRUE]
                    ELSE \E agrees \in SumAgrees(Head(list).val) :
                           file' = IF agrees THEN file
                                   ELSE [file EXCEPT !.minor = TRUE, !.del = TRUE]
      <4>1. list # <<>> /\ r.magic = "FILF"
        BY <1>2, <1>8, <3>3 DEF queue_dequeue_header, HeadIs
      <4>2. SumAgrees(r) = {ContentsOf(file.data, r)}
        BY <3>1 DEF SumAgrees
      <4>3. file' = IF ContentsOf(file.data, r) THEN file
                    ELSE [file EXCEPT !.minor = TRUE, !.del = TRUE]
        BY <1>8, <3>3, <4>1, <4>2
      <4>4. ContentsOf(file.data, r)
        BY <1>2, <1>8, <4>3
      <4>5. QED
        BY <4>1, <4>3, <4>4
    <3>4. QED
      BY <3>2, <3>3 DEF XFooter
  <2>2. EndsFile(r) /\ BlocksAt(r) \in Nat
    <3> DEFINE h == InHand
               q == Queued(list)
               U == Unread
    <3>1. IsLine(Line, OnLine, h, q, U, archive)
      BY LineTypesNow, LinePlaces DEF LineTypes, Line, OnLine
    <3>2. list \in Seq(Item(Readable)) /\ r \in Readable
      BY <2>1, HeadType DEF BaseInv, QInv, QTypeOK
    <3>3. Len(list) >= 1 /\ Head(list) = list[1] /\ Len(list) \in Nat
      BY <2>1, <3>2, HeadTailProperties, EmptySeq, LenProperties
    <3>4. Len(q) = Len(list) /\ q[1] = Unpack(r)
      BY <3>2, <3>3, QueuedType
    <3>5. /\ Unpack(r).magic = r.magic /\ Unpack(r).tree = r.tree /\ Unpack(r).objs = r.objs
      BY <3>2, UnpackStands
    <3> HIDE DEF h, q, U, r
    <3>6. <<0, 1>> \in Line /\ OnLine[<<0, 1>>] = Unpack(r)
      BY <3>1, <3>3, <3>4 DEF IsLine
    <3>7. EndsFile(Unpack(r))
      BY <2>1, <3>5, <3>6 DEF HonestState, LineInv, InLine, r
    <3>8. EndsFile(r)
      BY <3>5, <3>7 DEF EndsFile, SavedAlone, KindAt, BlocksAt
    <3>9. Len(file.data) = BlocksAt(r)
      BY <2>1 DEF ContentsOf, r
    <3>10. QED
      BY <1>2, <3>8, <3>9 DEF r
  <2> HIDE DEF r
  <2>3. QED
    BY <1>2, <1>7, <2>1, <2>2, FooterAgrees
<1>9. FileInv'
  <2>1. ~file'.minor /\ This' \notin Excluded => disk'[This'] = "right"
    BY <1>1, <1>5, <1>6, <1>7, <1>8
  <2>2. QED
    BY <1>1, <1>5, <1>7, <2>1 DEF FileInv
<1>10. LineInv' /\ HandInv' /\ CountInv' /\ DiskInv' /\ BlockTypes'
  <2>1. UNCHANGED list \/ (list # <<>> /\ RemoveHead /\ (xpc' = "file" => Head(list).val.magic = "BLKH"))
    BY <1>1, <1>3
  <2>2. QED
    BY <1>0, <1>1, <1>5, <2>1, FileStep DEF FilePC
<1>11. QED
  BY <1>9, <1>10 DEF HonestState

\* The file is done with, or the disk is full.
LEMMA HonestCountFile ==
  ASSUME BaseInv, BaseInv', SuitInv, HonestState, XCountFile \/ XWriteFails
  PROVE  HonestState'
<1> USE DEF Elsewhere, XGoto, XFail
<1> DEFINE o == This
<1>0. MainStep
  BY DEF MainStep
<1>1. /\ xpc \in FilePC /\ xpc' \in {"next", "teardown"} /\ UNCHANGED fs
      /\ \/ UNCHANGED list
         \/ list # <<>> /\ RemoveHead
      /\ XCountFile => UNCHANGED list /\ xpc' = "next" /\ xpc = "counting"
  BY DEF XCountFile, XWriteFails, FilePC, qvars, queue_dequeue_block, HeadIs
<1>2. /\ o \in Objects /\ o \in Pending /\ DataOf(o) = o
      /\ InHand = <<file.hdr>> /\ file.hdr.magic = "OBJT"
      /\ disk \in [Objects -> {"old", "absent", "wrong", "empty", "right"}]
      /\ file \in [hdr : Record, data : Seq(Record), closed : BOOLEAN, minor : BOOLEAN,
                   del : BOOLEAN]
  BY <1>1, FileFacts
<1>3. InHand' = <<>>
  BY <1>1 DEF InHand, FilePC, GroupPC
<1>4. LineInv' /\ Pending' \subseteq Pending /\ Gone(o)
  <2>1. InHand # <<>> /\ InHand' # InHand /\ InHand[1] = file.hdr
    BY <1>2, <1>3
  <2>2. CASE UNCHANGED list
    BY <1>0, <1>2, <1>3, <2>1, <2>2, QueueStill DEF HonestState, This
  <2>3. CASE list # <<>> /\ RemoveHead
    BY <1>0, <1>2, <1>3, <2>1, <2>3, QueueTaken DEF HonestState, This
  <2>4. QED
    BY <1>1, <2>2, <2>3
<1>5. HandInv' /\ FileInv'
  BY <1>1, <1>3 DEF HandInv, FileInv, FilePC, GroupPC
<1>6. (IsFS => o[1] = fs) /\ fs \in Nat
  BY <1>1 DEF SuitInv, FilePC, This, ObjectOf, BaseInv, MainTypeOK
<1>7. CountInv' /\ DiskInv'
  <2>1. CASE XWriteFails
    <3>1. /\ disk' = [disk EXCEPT ![o] = "absent"] /\ failed' = failed \cup {o}
          /\ UNCHANGED counted
      BY <2>1 DEF XWriteFails
    <3>2. This = o
      OBVIOUS
    <3> HIDE DEF o
    <3>3. /\ \A p \in Objects : p # o => disk'[p] = disk[p]
          /\ disk'[o] = "absent"
      BY <1>2, <3>1
    <3>4. QED
      BY <1>1, <1>2, <1>4, <3>1, <3>2, <3>3, ObjectStep
      DEF HonestState, InObjects, Busy, FilePC
  <2>2. CASE XCountFile
    <3>1. /\ disk' = IF file.del THEN [disk EXCEPT ![o] = "absent"] ELSE disk
          /\ counted' = IF o \in Excluded \/ file.minor THEN counted ELSE counted \cup {o}
          /\ failed' = IF o \notin Excluded /\ file.minor THEN failed \cup {o} ELSE failed
      BY <2>2 DEF XCountFile
    <3>2. /\ file.del => file.minor
          /\ ~file.minor /\ o \notin Excluded => disk[o] = "right"
      BY <1>1, <2>2 DEF HonestState, FileInv, FilePC
    <3>3. This = o
      OBVIOUS
    <3>4. disk[o] \in {"wrong", "empty"} => o \in failed \/ o \notin Excluded
      BY <1>2 DEF HonestState, DiskInv
    <3> HIDE DEF o
    <3>5. /\ \A p \in Objects : p # o => disk'[p] = disk[p]
          /\ disk'[o] \in {disk[o], "absent"}
          /\ ~file.del => disk'[o] = disk[o]
      BY <1>2, <3>1
    <3>6. counted' # counted => disk'[o] = "right"
      BY <3>1, <3>2, <3>5
    <3>7. disk'[o] \in {"wrong", "empty"} => o \in failed'
      BY <3>1, <3>2, <3>4, <3>5
    <3>8. failed \subseteq failed' /\ counted' \in {counted, counted \cup {o}}
      BY <3>1
    <3>9. QED
      BY <1>1, <1>2, <1>4, <1>6, <3>3, <3>5, <3>6, <3>7, <3>8, ObjectStep
      DEF HonestState, InObjects, Busy, FilePC
  <2>3. QED
    BY <2>1, <2>2
<1>8. QED
  BY <1>0, <1>4, <1>5, <1>7, TypesMain DEF HonestState

\* Every step of the main thread.
LEMMA HonestMain ==
  ASSUME BaseInv, BaseInv', SuitInv, HonestState, MainStep
  PROVE  HonestState'
BY HonestStart, HonestRest, HonestObject, HonestFirstSmallFile, HonestGroup, HonestSmallFile,
   HonestOpenFile, HonestBlockLoop, HonestBlock, HonestClose, HonestFooter, HonestCountFile
DEF MainStep

-----------------------------------------------------------------------------
\* What a step of another thread leaves of the state of the main thread.
LEMMA OthersKeep ==
  ASSUME HonestState, UNCHANGED xvars, LineInv', BlockTypes', Pending' \subseteq Pending,
         \A r, m : StaysClear(r, m)
  PROVE  HonestState'
<1>1. /\ xpc' = xpc /\ file' = file /\ group' = group /\ fs' = fs /\ disk' = disk
      /\ counted' = counted /\ failed' = failed
  BY DEF xvars
<1>2. InHand' = InHand /\ This' = This
  BY <1>1 DEF InHand, This, ObjectOf
<1>3. HandInv'
  BY <1>1, <1>2 DEF HonestState, HandInv, StaysClear
<1>4. FileInv'
  BY <1>1, <1>2 DEF HonestState, FileInv
<1>5. CountInv'
  BY <1>1 DEF HonestState, CountInv
<1>6. DiskInv'
  BY <1>1, <1>2 DEF HonestState, DiskInv, Right
<1>7. QED
  BY <1>3, <1>4, <1>5, <1>6 DEF HonestState

\* A step that leaves the unread places and the unpacked form of the queue alone.
LEMMA LineSame ==
  ASSUME HonestState, UNCHANGED <<xvars, archive>>, Queued(list)' = Queued(list),
         Unread' = Unread, BlockTypes'
  PROVE  HonestState'
<1>1. InHand' = InHand
  BY DEF InHand, xvars
<1>2. Line' = Line /\ OnLine' = OnLine
  BY <1>1 DEF Line, OnLine
<1>3. LineInv' /\ Pending' = Pending
  BY <1>2 DEF HonestState, LineInv, Pending
<1>4. \A r, m : StaysClear(r, m)
  BY <1>2 DEF StaysClear
<1>5. QED
  BY <1>3, <1>4, OthersKeep

\* The reader stays where it is.
LEMMA SameUnread ==
  ASSUME UNCHANGED <<archive, job, rvol>>, At' = At
  PROVE  Unread' = Unread
BY DEF Unread, Wanted, g_fsbitmap

\* One record on.
LEMMA UnreadNext ==
  ASSUME ArchiveOK, UNCHANGED <<archive, job, rvol>>, rvol \in Nat, At \in Nat, At' = At + 1
  PROVE  /\ Unread' = Unread \ {<<rvol, At>>}
         /\ \A a \in Unread' : Before(<<rvol, At>>, a)
<1> DEFINE v == rvol
           n == At
           P == Places(archive)
           W(a) == Wanted(RecordAt(archive, a))
<1>1. \A a \in P : a = <<a[1], a[2]>> /\ a[1] \in Nat /\ a[2] \in Nat
  BY PlacesType DEF UnreadType
<1>2. /\ Unread = {a \in P : ~Before(a, <<v, n>>) /\ W(a)}
      /\ Unread' = {a \in P : ~Before(a, <<v, n + 1>>) /\ W(a)}
  BY DEF Unread, Wanted, g_fsbitmap
<1> HIDE DEF v, n, P, W
<1>3. v \in Nat /\ n \in Nat
  BY DEF v, n
<1>4. \A a \in P : ~Before(a, <<v, n + 1>>) <=> ~Before(a, <<v, n>>) /\ a # <<v, n>>
  <2> SUFFICES ASSUME NEW a \in P
               PROVE  ~Before(a, <<v, n + 1>>) <=> ~Before(a, <<v, n>>) /\ a # <<v, n>>
    OBVIOUS
  <2>1. a # <<v, n>> <=> a[1] # v \/ a[2] # n
    BY <1>1
  <2>2. QED
    BY <1>1, <1>3, <2>1 DEF Before
<1>5. \A a \in P : ~Before(a, <<v, n + 1>>) => Before(<<v, n>>, a)
  BY <1>1, <1>3 DEF Before
<1>6. Unread' = Unread \ {<<v, n>>} /\ \A a \in Unread' : Before(<<v, n>>, a)
  BY <1>2, <1>4, <1>5
<1>7. QED
  BY <1>6 DEF v, n

\* One volume on.
LEMMA UnreadVolume ==
  ASSUME ArchiveOK, UNCHANGED <<archive, job>>, rvol \in DOMAIN archive,
         At = Len(Recs) + 1, rvol' = rvol + 1, At' = 1
  PROVE  Unread' = Unread
<1> DEFINE v == rvol
           n == Len(archive[rvol].recs)
           P == Places(archive)
           W(a) == Wanted(RecordAt(archive, a))
<1>1. /\ Unread = {a \in P : ~Before(a, <<v, n + 1>>) /\ W(a)}
      /\ Unread' = {a \in P : ~Before(a, <<v + 1, 1>>) /\ W(a)}
  BY DEF Unread, Wanted, g_fsbitmap, Recs
<1>2. v \in Nat /\ n \in Nat
  BY VolumeType, LenProperties DEF ArchiveOK
<1>3. ASSUME NEW a \in P
      PROVE  /\ a = <<a[1], a[2]>> /\ a[1] \in Nat /\ a[2] \in Nat
             /\ a[2] >= 1 /\ (a[1] = v => a[2] <= n)
  <2>1. PICK u \in DOMAIN archive : \E p \in DOMAIN archive[u].recs : a = <<u, p>>
    BY DEF Places
  <2>2. PICK p \in DOMAIN archive[u].recs : a = <<u, p>>
    BY <2>1
  <2>3. u \in Nat /\ p \in 1 .. Len(archive[u].recs) /\ Len(archive[u].recs) \in Nat
    BY VolumeType, LenProperties DEF ArchiveOK
  <2>4. QED
    BY <2>2, <2>3
<1> HIDE DEF v, n, P, W
<1>4. \A a \in P : Before(a, <<v, n + 1>>) <=> Before(a, <<v + 1, 1>>)
  BY <1>2, <1>3 DEF Before
<1>5. QED
  BY <1>1, <1>4

\* The reader goes on by one record, which it leaves out or puts into the queue.
LEMMA ReadOn ==
  ASSUME BaseInv, BaseInv', HonestState, BlockTypes', UNCHANGED <<xvars, archive, job, rvol>>,
         rvol \in Nat, At \in Nat, At' = At + 1,
         \/ /\ Queued(list)' = Queued(list)
            /\ <<rvol, At>> \in Unread =>
                 \A m : ~Begins(RecordAt(archive, <<rvol, At>>), m)
         \/ /\ <<rvol, At>> \in Unread
            /\ \E v \in Readable : /\ StandsFor(v, RecordAt(archive, <<rvol, At>>))
                                   /\ Queued(list)' = Append(Queued(list), v)
  PROVE  HonestState'
<1> DEFINE h == InHand
           q == Queued(list)
           q2 == Queued(list)'
           U == Unread
           U2 == Unread'
           x == <<rvol, At>>
           r == RecordAt(archive, x)
<1>1. archive' = archive /\ InHand' = InHand
  BY DEF InHand, xvars
<1>2. U2 = U \ {x} /\ \A a \in U2 : Before(x, a)
  BY UnreadNext DEF BaseInv
<1>3. h \in Seq(Readable) /\ q \in Seq(Readable) /\ Len(h) \in Nat /\ Len(q) \in Nat
  BY LineTypesNow, LenProperties DEF LineTypes
<1>4. \/ q2 = q /\ (x \in U => \A m : ~Begins(r, m))
      \/ x \in U /\ \E v \in Readable : StandsFor(v, r) /\ q2 = Append(q, v)
  OBVIOUS
<1> HIDE DEF h, q, q2, U, U2, x, r
<1>5. Moves(h, q, U, h, q2, U2, archive, 0, 0, x) /\ LosesNothing(q, U, q2, U2, archive, x)
  <2>1. CASE q2 = q /\ (x \in U => \A m : ~Begins(r, m))
    <3>1. Moves(h, q, U, h, q2, U2, archive, 0, 0, x)
      BY <1>2, <1>3, <2>1 DEF Moves
    <3>2. LosesNothing(q, U, q2, U2, archive, x)
      BY <1>2, <2>1 DEF LosesNothing, r
    <3>3. QED
      BY <3>1, <3>2
  <2>2. CASE x \in U /\ \E v \in Readable : StandsFor(v, r) /\ q2 = Append(q, v)
    <3>1. PICK v \in Readable : StandsFor(v, r) /\ q2 = Append(q, v)
      BY <2>2
    <3>2. /\ Len(Append(q, v)) = Len(q) + 1
          /\ \A i \in 1 .. Len(q) : Append(q, v)[i] = q[i]
          /\ Append(q, v)[Len(q) + 1] = v
      BY <1>3, AppendProperties
    <3>3. /\ Len(q2) = Len(q) + 1 /\ (\A i \in 1 .. Len(q) : q2[i] = q[i])
          /\ q2[Len(q2)] = v
      BY <3>1, <3>2
    <3>4. StandsFor(q2[Len(q2)], RecordAt(archive, x))
      BY <3>1, <3>3 DEF r
    <3>5. Moves(h, q, U, h, q2, U2, archive, 0, 0, x)
      BY <1>2, <1>3, <2>2, <3>3, <3>4 DEF Moves
    <3>6. LosesNothing(q, U, q2, U2, archive, x)
      BY <1>2, <3>3 DEF LosesNothing
    <3>7. QED
      BY <3>5, <3>6
  <2>3. QED
    BY <1>4, <2>1, <2>2
<1>6. MovesBy(0, 0, x)
  BY <1>1, <1>5 DEF MovesBy, h, q, q2, U, U2
<1>7. /\ LineInv' /\ Pending' \subseteq Pending
      /\ \A s, m : (0 = 1 => Len(Queued(list)) > 0 /\ ~Begins(Queued(list)[1], m)) =>
                     StaysClear(s, m)
  BY <1>1, <1>6, LineStep DEF HonestState
<1>8. QED
  BY <1>7, OthersKeep

\* A record that the reader may leave out.
LEMMA LeftOut ==
  ASSUME BaseInv, BaseInv', HonestState, UNCHANGED <<xvars, archive, job, rvol, list>>,
         rvol \in Nat, At \in Nat, At' = At + 1,
         <<rvol, At>> \in Unread => \A m : ~Begins(RecordAt(archive, <<rvol, At>>), m)
  PROVE  HonestState'
<1>1. BlockTypes' /\ Queued(list)' = Queued(list)
  BY DEF HonestState, BlockTypes, Queued
<1>2. QED
  BY <1>1, ReadOn

\* The place of a record of the volume in hand.
LEMMA PlaceAt ==
  ASSUME rvol \in DOMAIN archive, NEW p \in DOMAIN Recs
  PROVE  <<rvol, p>> \in Places(archive) /\ RecordAt(archive, <<rvol, p>>) = Recs[p]
BY DEF Places, RecordAt, Recs

\* A place that is unread holds a record that is wanted.
LEMMA PlaceUnread ==
  ASSUME BaseInv, rvol \in DOMAIN archive, NEW p \in Nat, <<rvol, p>> \in Unread
  PROVE  p \in DOMAIN Recs /\ Wanted(Recs[p])
<1>1. <<rvol, p>> \in Places(archive) /\ Wanted(RecordAt(archive, <<rvol, p>>))
  BY DEF Unread
<1>2. PICK v \in DOMAIN archive : \E n \in DOMAIN archive[v].recs : <<rvol, p>> = <<v, n>>
  BY <1>1 DEF Places
<1>3. v = rvol /\ p \in DOMAIN archive[v].recs
  BY <1>2
<1>4. QED
  BY <1>1, <1>3 DEF Recs, RecordAt

\* What the reader puts into the queue stands for the record it has come to.
LEMMA AddedRecord ==
  ASSUME BaseInv, ReadInv, RAdd
  PROVE  /\ rvol \in DOMAIN archive /\ rvol \in Nat /\ At \in Nat
         /\ <<rvol, At>> \in Unread
         /\ \E v \in Readable : /\ StandsFor(v, RecordAt(archive, <<rvol, At>>))
                                /\ Queued(list)' = Append(Queued(list), v)
         /\ BlockTypes => BlockTypes'
<1>1. list \in Seq(Item(Readable)) /\ rpc = "add" /\ rvol \in DOMAIN archive
  BY DEF RAdd, RGoto, BaseInv, AtVolume, QInv, QTypeOK
<1>2. PICK st \in {"todo", "done"}, ty \in {"block", "header"} :
        AppendItem(ty, st, ritem) /\ (ty = "block" => ritem.magic = "BLKH")
  BY DEF RAdd, queue_add_block, queue_add_header
<1> DEFINE e == [num |-> curitemnum, type |-> ty, status |-> st, val |-> ritem]
<1>3. /\ e \in Item(Readable) /\ e.val = ritem /\ e.type = ty
      /\ list' = Append(list, e)
  BY <1>2 DEF AppendItem, Item, BaseInv, QInv, QTypeOK
<1> HIDE DEF e
<1>4. Queued(list)' = Append(Queued(list), Unpack(ritem)) /\ Unpack(ritem) \in Readable
  <2>1. Queued(list)' = Queued(list')
    BY DEF Queued
  <2>2. QED
    BY <1>1, <1>3, <2>1, QueuedAppend
<1>5. BlockTypes => BlockTypes'
  <2>1. /\ Len(list') = Len(list) + 1 /\ DOMAIN list' = 1 .. Len(list) + 1
        /\ \A i \in 1 .. Len(list) : list'[i] = list[i]
        /\ list'[Len(list) + 1] = e
        /\ DOMAIN list = 1 .. Len(list) /\ Len(list) \in Nat
    BY <1>1, <1>3, AppendProperties, LenProperties
  <2>2. QED
    BY <1>2, <1>3, <2>1 DEF BlockTypes
<1>6. /\ At \in DOMAIN Recs /\ Wanted(Recs[At])
      /\ \/ ritem = Recs[At]
         \/ Recs[At].magic = "BLKH" /\ ritem = Zeros(Recs[At])
  BY <1>1 DEF ReadInv, At
<1>7. rvol \in Nat /\ At \in Nat
  BY <1>1, <1>6, VolumeType, LenProperties DEF BaseInv, Recs, ArchiveOK
<1>8. <<rvol, At>> \in Places(archive) /\ RecordAt(archive, <<rvol, At>>) = Recs[At]
  BY <1>1, <1>6, PlaceAt
<1>9. <<rvol, At>> \in Unread
  <2>1. ~Before(<<rvol, At>>, <<rvol, At>>)
    BY <1>7 DEF Before
  <2>2. QED
    BY <1>6, <1>8, <2>1 DEF Unread
<1>10. Recs[At] \in Readable
  BY <1>8, PlacesType DEF BaseInv
<1>11. StandsFor(Unpack(ritem), Recs[At])
  <2>1. CASE ritem = Recs[At]
    BY <1>10, <2>1, UnpackStands
  <2>2. CASE Recs[At].magic = "BLKH" /\ ritem = Zeros(Recs[At])
    <3>1. Recs[At] \in Record
      BY <1>10 DEF Readable
    <3>2. \A v \in Record : Unpack(Zeros(v)).magic = v.magic /\ Unpack(Zeros(v)).objs = <<>>
      BY DEF Unpack, Zeros, Record
    <3>3. QED
      BY <2>2, <3>1, <3>2 DEF StandsFor
  <2>3. QED
    BY <1>6, <2>1, <2>2
<1>12. QED
  BY <1>1, <1>4, <1>5, <1>7, <1>8, <1>9, <1>11

\* The reader delivers, passes over and ends.
LEMMA HonestReader ==
  ASSUME BaseInv, BaseInv', EndInv, ReadInv, HonestState, BeginningsRead',
         ReaderStep \/ RAsk
  PROVE  HonestState'
<1> USE DEF RGoto
<1>1. /\ UNCHANGED <<archive, job, xvars>> /\ list \in Seq(Item(Readable))
      /\ rpos \in Nat \ {0}
  BY ReaderOthers DEF BaseInv, QInv, QTypeOK, ReaderTypeOK
<1>2. ASSUME rpc = "loop"
      PROVE  /\ rvol \in DOMAIN archive /\ Len(Recs) \in Nat /\ DOMAIN Recs = 1 .. Len(Recs)
             /\ At = rpos /\ rvol \in Nat
  <2>1. rvol \in DOMAIN archive /\ At = rpos
    BY <1>2 DEF BaseInv, AtVolume, At
  <2>2. QED
    BY <2>1, VolumeType, LenProperties DEF BaseInv, Recs, ArchiveOK
<1>3. ASSUME UNCHANGED list, UNCHANGED rvol, At' = At
      PROVE  HonestState'
  <2>1. Unread' = Unread
    BY <1>1, <1>3, SameUnread
  <2>2. Queued(list)' = Queued(list) /\ BlockTypes'
    BY <1>3 DEF Queued, HonestState, BlockTypes
  <2>3. QED
    BY <1>1, <2>1, <2>2, LineSame
<1>4. CASE ROpen
  <2>1. /\ rpc = "open" /\ rpc' = "add" /\ rpos = 1 /\ rpos' = 2 /\ UNCHANGED <<list, rvol>>
    BY <1>4 DEF ROpen, ReadInv, qvars
  <2>2. At' = At
    BY <2>1 DEF At
  <2>3. QED
    BY <1>3, <2>1, <2>2
<1>5. CASE RReadFails \/ RStop \/ RDamagedStart \/ RAsk \/ REnd
  <2>1. /\ UNCHANGED <<list, rvol, rpos>> /\ rpc # "add" /\ rpc' \in {"error", "loop", "exit"}
    BY <1>5 DEF RReadFails, RStop, RDamagedStart, RAsk, REnd, queue_set_end_of_queue, qvars
  <2>2. At' = At
    BY <2>1 DEF At
  <2>3. QED
    BY <1>3, <2>1, <2>2
<1>6. CASE RSkip
  <2>1. /\ rpc = "loop" /\ rpc' = "loop" /\ rpos' = rpos + 1
        /\ ~Wanted(Recs[rpos]) /\ UNCHANGED <<list, rvol>>
    BY <1>6 DEF RSkip, Reading, qvars
  <2>2. At' = At + 1 /\ At = rpos
    BY <1>2, <2>1 DEF At
  <2>3. <<rvol, rpos>> \notin Unread
    BY <1>1, <1>2, <2>1, PlaceUnread
  <2>4. QED
    BY <1>1, <1>2, <2>1, <2>2, <2>3, LeftOut
<1>7. CASE RRead \/ RDamagedBlock
  <2>1. /\ rpc = "loop" /\ rpc' = "add" /\ rpos' = rpos + 1 /\ UNCHANGED <<list, rvol>>
    BY <1>7 DEF RRead, RDamagedBlock, Reading, qvars
  <2>2. At' = At
    BY <1>1, <1>2, <2>1 DEF At
  <2>3. QED
    BY <1>3, <2>1, <2>2
<1>8. CASE RDamagedHeader
  <2>1. /\ rpc = "loop" /\ rpc' = "loop" /\ rpos' = rpos + 1 /\ UNCHANGED <<list, rvol>>
        /\ \/ rpos <= Len(Recs) /\ Loses("damage", "header", Recs[rpos])
           \/ rpos = Len(Recs) + 1
    BY <1>8 DEF RDamagedHeader, qvars
  <2>2. At' = At + 1 /\ At = rpos
    BY <1>2, <2>1 DEF At
  <2>3. ASSUME <<rvol, rpos>> \in Unread, NEW m
        PROVE  ~Begins(RecordAt(archive, <<rvol, rpos>>), m)
    <3>1. rpos \in DOMAIN Recs
      BY <1>1, <1>2, <2>1, <2>3, PlaceUnread
    <3>2. Loses("damage", "header", Recs[rpos])
      BY <1>1, <1>2, <2>1, <3>1
    <3> DEFINE d == [part |-> "header", of |-> Recs[rpos]]
    <3>3. d \in damaged'
      BY <3>2 DEF Loses
    <3>4. d.part = "header" /\ d.of = Recs[rpos]
      OBVIOUS
    <3>5. /\ Recs[rpos].magic # "FSYB"
          /\ Recs[rpos].magic = "OBJT" => KindAt(Recs[rpos]) \notin {"unique", "self"}
      <4> HIDE DEF d
      <4>1. /\ d.of.magic # "FSYB"
            /\ d.of.magic = "OBJT" => KindAt(d.of) \notin {"unique", "self"}
        BY <3>3, <3>4 DEF BeginningsRead
      <4>2. QED
        BY <3>4, <4>1
    <3>6. RecordAt(archive, <<rvol, rpos>>) = Recs[rpos]
      BY DEF RecordAt, Recs
    <3>7. QED
      BY <3>5, <3>6 DEF Begins
  <2>4. QED
    BY <1>1, <1>2, <2>1, <2>2, <2>3, LeftOut
<1>9. CASE RAdd
  <2>1. /\ UNCHANGED <<rvol, rpos>> /\ At' = At + 1
    BY <1>1, <1>9 DEF RAdd, At
  <2>2. BlockTypes'
    BY <1>9, AddedRecord DEF HonestState
  <2>3. QED
    BY <1>1, <1>9, <2>1, <2>2, AddedRecord, ReadOn
<1>10. CASE RVolumeEnd
  <2>1. /\ rpc = "loop" /\ rpos = Len(Recs) + 1 /\ UNCHANGED list
        /\ \/ rpc' = "error" /\ UNCHANGED <<rvol, rpos>>
           \/ rvol' = rvol + 1 /\ rpos' = 1 /\ rpc' \in {"loop", "ask"}
    BY <1>10 DEF RVolumeEnd, qvars
  <2>2. CASE rpc' = "error" /\ UNCHANGED <<rvol, rpos>>
    <3>1. At' = At
      BY <2>1, <2>2 DEF At
    <3>2. QED
      BY <1>3, <2>1, <2>2, <3>1
  <2>3. CASE rvol' = rvol + 1 /\ rpos' = 1 /\ rpc' \in {"loop", "ask"}
    <3>1. At' = 1 /\ At = Len(Recs) + 1
      BY <1>2, <2>1, <2>3 DEF At
    <3>2. Unread' = Unread
      BY <1>1, <1>2, <2>1, <2>3, <3>1, UnreadVolume DEF BaseInv
    <3>3. Queued(list)' = Queued(list) /\ BlockTypes'
      BY <2>1 DEF Queued, HonestState, BlockTypes
    <3>4. QED
      BY <1>1, <3>2, <3>3, LineSame
  <2>4. QED
    BY <2>1, <2>2, <2>3
<1>11. QED
  BY <1>4, <1>5, <1>6, <1>7, <1>8, <1>9, <1>10 DEF ReaderStep

\* The types of the blocks stay what they are when one is put back.
LEMMA BlockTypesKept ==
  ASSUME BaseInv, OwnInv, BlockTypes, NEW t \in DecompThreads, DecompStep(t)
  PROVE  BlockTypes'
<1>1. list \in Seq(Item(Readable))
  BY DEF BaseInv, QInv, QTypeOK
<1>2. CASE DTake(t)
  <2>1. PICK k \in DOMAIN list : queue_get_first_block_todo(k)
    BY <1>2 DEF DTake
  <2>2. /\ DOMAIN list' = DOMAIN list
        /\ \A i \in DOMAIN list : list'[i].val = list[i].val /\ list'[i].type = list[i].type
    BY <1>1, <2>1, ItemAt DEF queue_get_first_block_todo, Item
  <2>3. QED
    BY <2>2 DEF BlockTypes
<1>3. CASE DReplace(t) \/ DReplaceSpoilt(t)
  <2>1. PICK v : /\ v.magic = dwork[t].val.magic
                 /\ dpc[t] = "work" /\ queue_replace_block(dwork[t].num, v, "done")
    <3>1. dwork[t].val \in Readable
      BY DEF BaseInv, WorkTypeOK
    <3>2. /\ Unpack(dwork[t].val).magic = dwork[t].val.magic
          /\ Zeros(dwork[t].val).magic = dwork[t].val.magic
      BY <3>1 DEF Unpack, Zeros, Readable, Record
    <3>3. QED
      BY <1>3, <3>2 DEF DReplace, DReplaceSpoilt
  <2>2. /\ DOMAIN list' = DOMAIN list
        /\ \E k \in DOMAIN list :
             /\ list[k].val = dwork[t].val /\ list'[k].val = v
             /\ list'[k].type = list[k].type
             /\ \A i \in DOMAIN list : i # k => list'[i] = list[i]
    BY <2>1, Replaced
  <2>3. QED
    BY <2>1, <2>2 DEF BlockTypes
<1>4. CASE DBegin(t) \/ DFail(t) \/ DExit(t)
  BY <1>4 DEF DBegin, DFail, DExit, qvars, BlockTypes
<1>5. QED
  BY <1>2, <1>3, <1>4 DEF DecompStep

\* A decompression thread leaves the line as it is, or puts what stands for a block
\* in its place.
LEMMA HonestDecomp ==
  ASSUME BaseInv, BaseInv', OwnInv, HonestState, NEW t \in DecompThreads, DecompStep(t)
  PROVE  HonestState'
<1>1. UNCHANGED <<archive, job, rvol, xvars>> /\ At' = At /\ InHand' = InHand
  <2>1. UNCHANGED <<archive, job, rvol, rpc, rpos, xvars>>
    BY DecompOthers
  <2>2. QED
    BY <2>1 DEF At, InHand, xvars
<1>2. Unread' = Unread
  BY <1>1, SameUnread
<1>3. BlockTypes'
  BY BlockTypesKept DEF HonestState
<1>4. CASE DReplaceSpoilt(t)
  <2> DEFINE h == InHand
             q == Queued(list)
             U == Unread
             q2 == Queued(list)'
             ar == archive
  <2>1. /\ Line = LineOf(h, q, U) /\ OnLine = ValuesOf(h, q, U, ar)
        /\ Line' = LineOf(h, q2, U) /\ OnLine' = ValuesOf(h, q2, U, ar)
    BY <1>1, <1>2 DEF Line, OnLine, LineOf, ValuesOf
  <2>2. LineTypes(h, q, U, ar)
    BY LineTypesNow
  <2>3. LineTypes(h, q2, U, ar)
    BY <1>1, <1>2, LineTypesNext DEF LineTypes
  <2>4. PICK k \in DOMAIN q : q[k].magic = "BLKH" /\ q2 = [q EXCEPT ![k] = Zeros(@)]
    BY <1>4, DecompQueued
  <2> HIDE DEF h, q, U, q2, ar
  <2>5. Len(q2) = Len(q) /\ \A i \in 1 .. Len(q) : StandsFor(q2[i], q[i])
    <3>1. DOMAIN q = 1 .. Len(q) /\ DOMAIN q2 = 1 .. Len(q2) /\ Len(q) \in Nat /\ Len(q2) \in Nat
      BY <2>2, <2>3, LenProperties DEF LineTypes
    <3>2. q \in Seq(Readable)
      BY <2>2 DEF LineTypes
    <3>3. \A r \in Readable : r.magic = "BLKH" => StandsFor(Zeros(r), r)
      BY DEF StandsFor, Zeros, Readable, Record
    <3>4. q[k] \in Readable
      BY <2>4, <3>1, <3>2, ElementOfSeq
    <3>5. DOMAIN q2 = DOMAIN q
      BY <2>4
    <3>6. \A i \in 1 .. Len(q) : StandsFor(q2[i], q[i])
      BY <2>4, <3>1, <3>3, <3>4 DEF StandsFor
    <3>7. 1 .. Len(q2) = 1 .. Len(q)
      BY <3>1, <3>5
    <3>8. Len(q2) = Len(q)
      <4> DEFINE m == Len(q)
                 n == Len(q2)
      <4>1. m \in Nat /\ n \in Nat /\ 1 .. n = 1 .. m
        BY <3>1, <3>7
      <4> HIDE DEF m, n
      <4>2. n = m
        BY <4>1
      <4>3. QED
        BY <4>2 DEF m, n
    <3>9. QED
      BY <3>6, <3>8
  <2>6. /\ InLine(Line, OnLine) => InLine(Line', OnLine')
        /\ Named(Line', OnLine') \subseteq Named(Line, OnLine)
        /\ \A r, m : StaysClear(r, m)
    BY <2>1, <2>2, <2>3, <2>5, Zeroed DEF StaysClear
  <2>7. LineInv' /\ Pending' \subseteq Pending
    <3>1. LineInv' = InLine(Line', OnLine') /\ Pending' = Named(Line', OnLine')
      BY DEF LineInv, Pending, InLine, Named
    <3>2. QED
      BY <2>6, <3>1 DEF HonestState, LineInv, Pending
  <2>8. QED
    BY <1>1, <1>3, <2>6, <2>7, OthersKeep
<1>5. CASE ~DReplaceSpoilt(t)
  <2>1. Queued(list)' = Queued(list)
    BY <1>5, DecompQueued
  <2>2. QED
    BY <1>1, <1>2, <1>3, <2>1, LineSame
<1>6. QED
  BY <1>4, <1>5

\* A restorable archive is a line, and so is what is wanted of it.
LEMMA HonestFresh == Fresh => HonestState
<1> SUFFICES ASSUME Fresh, BaseInv PROVE HonestState
  BY BaseFresh
<1>1. /\ list = <<>> /\ xpc = "start" /\ counted = {} /\ disk = [o \in Objects |-> "old"]
      /\ Restorable(archive)
  BY DEF Fresh, IdleInit, queue_init, BaseInv, ArchiveOK
<1>2. InHand = <<>> /\ Queued(list) = <<>>
  BY <1>1 DEF InHand, FilePC, GroupPC, Queued
<1> DEFINE U == Unread
           h == InHand
           q == Queued(list)
<1>3. LineTypes(h, q, U, archive)
  BY LineTypesNow
<1>4. IsLine(Line, OnLine, h, q, U, archive)
  BY <1>3, LinePlaces DEF LineTypes, Line, OnLine
<1>5. U \subseteq Places(archive) /\ \A a \in U : Wanted(RecordAt(archive, a))
  BY DEF Unread
<1>6. \A a \in Places(archive) : Wanted(RecordAt(archive, a)) /\ ~Before(a, <<rvol, At>>) => a \in U
  BY DEF Unread
<1>7. Len(h) = 0 /\ Len(q) = 0
  BY <1>2, EmptySeq
<1> HIDE DEF h, q, U
<1>8. /\ U \subseteq Line /\ Line \subseteq U
      /\ \A a \in U : OnLine[a] = RecordAt(archive, a) /\ a = <<a[1], a[2]>>
                      /\ a[1] \in Int /\ a[2] \in Int
  BY <1>4, <1>7 DEF IsLine
<1>9. LineInv
  <2> DEFINE R(a) == RecordAt(archive, a)
             P == Places(archive)
  <2>1. /\ \A a, b \in P : Before(a, b) =>
             /\ MayPrecede(R(a), R(b))
             /\ Foreign(R(a), R(b)) => \E c \in P : /\ Before(a, c) /\ Before(c, b)
                                                    /\ Opens(R(c), R(b))
        /\ \A a \in P : R(a).magic = "FILF" => EndsFile(R(a))
    BY <1>1 DEF Restorable, ReadsInOrder
  <2>2. \A a \in U : OnLine[a] = R(a)
    BY <1>8
  <2>3. \A a \in U : ~Before(a, <<rvol, At>>)
    BY DEF U, Unread
  <2>4. rvol \in Int /\ At \in Int
    BY DEF Fresh, IdleInit, At
  <2>5. ASSUME NEW a \in U, NEW b \in U, Before(a, b), Foreign(R(a), R(b))
        PROVE  \E c \in U : Before(a, c) /\ Before(c, b) /\ Opens(R(c), R(b))
    <3>1. PICK c \in P : Before(a, c) /\ Before(c, b) /\ Opens(R(c), R(b))
      BY <1>5, <2>1, <2>5
    <3>2. R(c).tree = R(b).tree
      BY <3>1 DEF Opens, SameObject
    <3>3. R(b).magic \in {"OBJT", "BLKH"} /\ Wanted(R(b))
      BY <1>5, <2>5 DEF Foreign, LargeBlock
    <3> HIDE DEF R
    <3>4. Wanted(R(c))
      BY <3>2, <3>3 DEF Wanted, Global, fsid
    <3>5. c \in UnreadType
      BY PlacesType DEF BaseInv, P
    <3>6. ~Before(c, <<rvol, At>>)
      <4>1. Before(a, c) /\ ~Before(a, <<rvol, At>>) /\ a[1] \in Int /\ a[2] \in Int
        BY <1>8, <2>3, <3>1
      <4>2. c[1] \in Int /\ c[2] \in Int
        BY <3>5 DEF UnreadType
      <4>3. QED
        BY <2>4, <4>1, <4>2 DEF Before
    <3>7. c \in U
      BY <1>6, <3>4, <3>6 DEF R, P
    <3>8. QED
      BY <3>1, <3>7
  <2> HIDE DEF R, P
  <2>6. \A a \in Line : a \in U /\ a \in P /\ OnLine[a] = R(a)
    BY <1>5, <1>8, <2>2 DEF P
  <2>7. \A a \in Line : OnLine[a].magic = "FILF" => EndsFile(OnLine[a])
    BY <2>1, <2>6
  <2>8. \A a, b \in Line : Before(a, b) => MayPrecede(OnLine[a], OnLine[b])
    BY <2>1, <2>6
  <2>9. ASSUME NEW a \in Line, NEW b \in Line, Before(a, b), Foreign(OnLine[a], OnLine[b])
        PROVE  \E c \in Line : Before(a, c) /\ Before(c, b) /\ Opens(OnLine[c], OnLine[b])
    <3>1. PICK c \in U : Before(a, c) /\ Before(c, b) /\ Opens(R(c), R(b))
      BY <2>5, <2>6, <2>9
    <3>2. c \in Line
      BY <1>8
    <3>3. QED
      BY <2>6, <3>1, <3>2
  <2>10. QED
    BY <2>7, <2>8, <2>9 DEF LineInv, InLine
<1>10. BlockTypes
  BY <1>1 DEF BlockTypes
<1>11. HandInv /\ FileInv
  BY <1>1, <1>2 DEF HandInv, FileInv, FilePC, GroupPC
<1>12. CountInv /\ DiskInv
  BY <1>1 DEF CountInv, DiskInv
<1>13. QED
  BY <1>9, <1>10, <1>11, <1>12 DEF HonestState

\* What has been found damaged stays so.
LEMMA DamageGrows ==
  ASSUME [Next]_vars
  PROVE  damaged \subseteq damaged'
<1>1. CASE MainStep
  BY <1>1, MainOthers DEF XStart
<1>2. CASE ReaderStep \/ RAsk
  BY <1>2 DEF ReaderStep, RAsk, ROpen, RReadFails, RStop, RSkip, RRead, RDamagedBlock,
              RDamagedHeader, RDamagedStart, RAdd, RVolumeEnd, REnd, Loses
<1>3. CASE \E t \in DecompThreads : DecompStep(t)
  BY <1>3, DecompOthers DEF DReplaceSpoilt, Loses
<1>4. CASE Signal \/ Done \/ UNCHANGED vars
  BY <1>4 DEF Signal, Done, vars, rvars
<1>5. QED
  BY <1>1, <1>2, <1>3, <1>4 DEF Next

\* Every step.
LEMMA HonestStep ==
  ASSUME BaseInv, BaseInv', OwnInv, SuitInv, EndInv, ReadInv, HonestInv, [Next]_vars
  PROVE  HonestInv'
<1> SUFFICES ASSUME BeginningsRead' PROVE HonestState'
  BY DEF HonestInv
<1>1. BeginningsRead
  BY DamageGrows DEF BeginningsRead
<1>2. HonestState
  BY <1>1 DEF HonestInv
<1>3. CASE Signal \/ Done \/ UNCHANGED vars
  <2>1. UNCHANGED <<qvars, xvars, archive, job, rvars>>
    BY <1>3 DEF Signal, Done, vars
  <2>2. UNCHANGED <<list, rvol, rpc, rpos>>
    BY <2>1 DEF qvars, rvars
  <2>3. At' = At /\ Queued(list)' = Queued(list) /\ BlockTypes'
    BY <1>2, <2>2 DEF At, Queued, HonestState, BlockTypes
  <2>4. Unread' = Unread
    BY <2>1, <2>2, <2>3, SameUnread
  <2>5. QED
    BY <1>2, <2>1, <2>3, <2>4, LineSame
<1>4. QED
  BY <1>2, <1>3, HonestMain, HonestDecomp, HonestReader DEF Next

\* The invariant is as strong as the property.
LEMMA HonestImplies == HonestInv => CountsHonest
<1>1. "done" \notin FilePC
  BY DEF FilePC
<1>2. HonestState => /\ \A o \in counted : IF DataOf(o) = o THEN disk[o] = "right"
                                                          ELSE disk[o] = disk[DataOf(o)]
                     /\ xpc = "done" => \A o \in Objects : disk[o] \in {"wrong", "empty"} =>
                                          DataOf(o) \in failed
  BY <1>1 DEF HonestState, DiskInv, Right
<1>3. QED
  BY <1>2 DEF HonestInv, CountsHonest

\* The reader holds the record before its position.
LEMMA ReadStep ==
  ASSUME BaseInv, OwnInv, EndInv, ReadInv, [Next]_vars
  PROVE  ReadInv'
<1>1. CASE Signal \/ Done \/ UNCHANGED vars
  <2>1. UNCHANGED <<archive, job, rpc, rvol, rpos, ritem>>
    BY <1>1 DEF Signal, Done, vars, rvars
  <2>2. QED
    BY <2>1 DEF ReadInv, Recs, Wanted, g_fsbitmap
<1>2. QED
  BY <1>1, MainReading, DecompReading, ReaderReading DEF Next

\* All that has been found, together.
RestoreInv ==
  BaseInv /\ OwnInv /\ SuitInv /\ OthersUntouched /\ EndInv /\ ReadInv /\ HonestInv

LEMMA RestoreFresh == Fresh => RestoreInv
BY BaseFresh, OwnFresh, OthersFresh, EndFresh, ReadFresh, HonestFresh DEF RestoreInv, HonestInv

LEMMA RestoreStep == RestoreInv /\ [Next]_vars => RestoreInv'
<1>1. RestoreInv /\ [Next]_vars => BaseInv' /\ OwnInv' /\ SuitInv' /\ OthersUntouched'
  BY BaseStep, OwnStep, OthersStep DEF RestoreInv
<1>2. RestoreInv /\ [Next]_vars => EndInv' /\ ReadInv'
  BY EndStep, ReadStep DEF RestoreInv
<1>3. RestoreInv /\ [Next]_vars => HonestInv'
  BY <1>1, HonestStep DEF RestoreInv
<1>4. QED
  BY <1>1, <1>2, <1>3 DEF RestoreInv

\* In every behaviour in which the headers where a file system or a file saved alone
\* begins have all been read, what is counted as restored is restored, and what has
\* other contents in the end is counted as an error.
THEOREM HonestCorrect == Spec => []CountsHonest
<1>1. Init => RestoreInv
  BY InitFresh, RestoreFresh
<1>2. RestoreInv => CountsHonest
  BY HonestImplies DEF RestoreInv
<1>3. QED
  BY <1>1, <1>2, RestoreStep, PTL DEF Spec

-----------------------------------------------------------------------------
(***************************************************************************)
(* What is still to come.  Without what is in hand, the records that are   *)
(* queued and those that are unread make up the rest of the archive.  When *)
(* nothing of it is damaged a step leaves none out but the head of the     *)
(* queue, which the main thread takes.                                     *)
(***************************************************************************)
\* Of the records val at the places P: the names of the objects;
Ahead(P, val) == {ObjectOf(val[a]) : a \in {b \in P : val[b].magic = "OBJT"}}

\* those of objects, and the ends of file systems, are wanted, and of the n-th file
\* system or a later one;
AllWanted(P, val) == \A a \in P : val[a].magic \in {"OBJT", "DATF"} => Wanted(val[a])

Later(P, val, n) == \A a \in P : val[a].magic \in {"OBJT", "DATF"} => val[a].tree >= n

\* what is behind the end of a file system is of later ones;
Apart(P, val) == \A a, b \in P : Before(a, b) => EndsApart(val[a], val[b])

\* a footer comes before the next object;
FooterNext(P, val) ==
  \A b \in P : val[b].magic = "OBJT" =>
    \E c \in P : Before(c, b) /\ val[c].magic = "FILF"

\* and it does so behind each header of a file with blocks.
Followed(P, val) ==
  \A a, b \in P : Before(a, b) /\ Closing(val[a]) /\ val[b].magic = "OBJT" =>
    \E c \in P : Before(a, c) /\ Before(c, b) /\ val[c].magic = "FILF"

Orderly(P, val) == AllWanted(P, val) /\ Apart(P, val) /\ Followed(P, val)

\* A record is where it was, s says where, or it is first, at f, and is taken (t).
Keeps(P, val, Q, w, s, f, t) ==
  /\ Shift(P, val, Q, w, s)
  /\ \A c \in P : (\E d \in Q : s[d] = c) \/ (t /\ c = f)
  /\ t => f \in P /\ \A a \in Q : Before(f, s[a])

\* What stands for a record says the same of what matters here.
LEMMA StandsForKind ==
  ASSUME NEW r, NEW s, StandsFor(s, r)
  PROVE  /\ s.magic = r.magic
         /\ r.magic # "BLKH" => s.tree = r.tree /\ ObjectOf(s) = ObjectOf(r)
         /\ Closing(s) <=> Closing(r)
         /\ r.magic # "BLKH" => (Wanted(s) <=> Wanted(r))
<1>1. s.magic = r.magic /\ (r.magic # "BLKH" => r.tree = s.tree /\ r.objs = s.objs)
  BY StandsForSound
<1>2. QED
  BY <1>1 DEF ObjectOf, Closing, EndsFile, SavedAlone, BlocksAt, KindAt, Wanted, Global, fsid

\* The rest is as orderly as it was.
LEMMA KeepsOrderly ==
  ASSUME NEW P, NEW val, NEW Q, NEW w, NEW s, NEW f, NEW t, Keeps(P, val, Q, w, s, f, t)
  PROVE  /\ Orderly(P, val) => Orderly(Q, w)
         /\ \A n : Later(P, val, n) => Later(Q, w, n)
         /\ FooterNext(P, val) /\ (t => val[f].magic # "FILF") => FooterNext(Q, w)
<1>1. ASSUME NEW a \in Q
      PROVE  /\ s[a] \in P /\ w[a].magic = val[s[a]].magic
             /\ w[a].magic # "BLKH" => /\ w[a].tree = val[s[a]].tree
                                       /\ Wanted(w[a]) <=> Wanted(val[s[a]])
             /\ Closing(w[a]) <=> Closing(val[s[a]])
  BY StandsForKind DEF Keeps, Shift
<1>2. \A a, b \in Q : Before(a, b) <=> Before(s[a], s[b])
  BY DEF Keeps, Shift
<1>3. ASSUME NEW c \in P
      PROVE  (\E d \in Q : s[d] = c) \/ (t /\ c = f)
  BY DEF Keeps
<1>4. AllWanted(P, val) => AllWanted(Q, w)
  BY <1>1 DEF AllWanted
<1>5. Apart(P, val) => Apart(Q, w)
  BY <1>1, <1>2 DEF Apart, EndsApart
<1>6. ASSUME Followed(P, val), NEW a \in Q, NEW b \in Q, Before(a, b), Closing(w[a]),
             w[b].magic = "OBJT"
      PROVE  \E d \in Q : Before(a, d) /\ Before(d, b) /\ w[d].magic = "FILF"
  <2>1. Before(s[a], s[b]) /\ Closing(val[s[a]]) /\ val[s[b]].magic = "OBJT"
    BY <1>1, <1>2, <1>6
  <2>2. PICK c \in P : Before(s[a], c) /\ Before(c, s[b]) /\ val[c].magic = "FILF"
    BY <1>1, <1>6, <2>1 DEF Followed
  <2>3. ~(t /\ c = f)
    <3>1. CASE t
      <4>1. Before(f, s[a]) /\ Before(s[a], c) /\ f \in Int \X Int /\ s[a] \in Int \X Int
        BY <1>1, <2>2, <3>1 DEF Keeps, Shift
      <4>2. QED
        BY <4>1 DEF Before
    <3>2. QED
      BY <3>1
  <2>4. PICK d \in Q : s[d] = c
    BY <1>3, <2>3
  <2>5. QED
    BY <1>1, <1>2, <2>2, <2>4
<1>7. Followed(P, val) => Followed(Q, w)
  BY <1>6 DEF Followed
<1>8. ASSUME NEW n, Later(P, val, n)
      PROVE  Later(Q, w, n)
  BY <1>1, <1>8 DEF Later
<1>9. ASSUME FooterNext(P, val), t => val[f].magic # "FILF", NEW b \in Q, w[b].magic = "OBJT"
      PROVE  \E d \in Q : Before(d, b) /\ w[d].magic = "FILF"
  <2>1. PICK c \in P : Before(c, s[b]) /\ val[c].magic = "FILF"
    BY <1>1, <1>9 DEF FooterNext
  <2>2. PICK d \in Q : s[d] = c
    BY <1>3, <1>9, <2>1
  <2>3. QED
    BY <1>1, <1>2, <2>1, <2>2
<1>10. QED
  BY <1>4, <1>5, <1>7, <1>8, <1>9 DEF Orderly, FooterNext

\* What is behind the record that is taken.
LEMMA KeepsBehind ==
  ASSUME NEW P, NEW val, NEW Q, NEW w, NEW s, NEW f, Keeps(P, val, Q, w, s, f, TRUE),
         Orderly(P, val)
  PROVE  /\ Closing(val[f]) => FooterNext(Q, w)
         /\ val[f].magic = "DATF" /\ ~IsFS => Ahead(Q, w) = {}
         /\ val[f].magic = "DATF" /\ IsFS =>
              \A b \in Q : w[b].magic \in {"OBJT", "DATF"} => val[f].tree < w[b].tree
<1>1. ASSUME NEW a \in Q
      PROVE  /\ s[a] \in P /\ w[a].magic = val[s[a]].magic /\ Before(f, s[a]) /\ f \in P
             /\ w[a].magic # "BLKH" => w[a].tree = val[s[a]].tree
  BY StandsForKind DEF Keeps, Shift
<1>2. ASSUME Closing(val[f]), NEW b \in Q, w[b].magic = "OBJT"
      PROVE  \E d \in Q : Before(d, b) /\ w[d].magic = "FILF"
  <2>1. PICK c \in P : Before(f, c) /\ Before(c, s[b]) /\ val[c].magic = "FILF"
    BY <1>1, <1>2 DEF Orderly, Followed
  <2>2. c # f
    <3>1. f \in Int \X Int
      BY <1>1 DEF Keeps, Shift
    <3>2. QED
      BY <2>1, <3>1 DEF Before
  <2>3. PICK d \in Q : s[d] = c
    BY <2>2 DEF Keeps
  <2>4. Before(d, b) /\ w[d].magic = val[c].magic
    BY <1>1, <2>1, <2>3 DEF Keeps, Shift
  <2>5. QED
    BY <2>1, <2>4
<1>3. ASSUME val[f].magic = "DATF", NEW b \in Q, w[b].magic \in {"OBJT", "DATF"}
      PROVE  IsFS /\ val[f].tree < w[b].tree
  <2>1. EndsApart(val[f], val[s[b]])
    BY <1>1 DEF Orderly, Apart
  <2>2. QED
    BY <1>1, <1>3, <2>1 DEF EndsApart
<1>4. QED
  BY <1>2, <1>3 DEF FooterNext, Ahead

\* The objects ahead stay so, but for the one that is taken.
LEMMA KeepsAhead ==
  ASSUME NEW P, NEW val, NEW Q, NEW w, NEW s, NEW f, NEW t, Keeps(P, val, Q, w, s, f, t),
         NEW o \in Ahead(P, val)
  PROVE  o \in Ahead(Q, w) \/ (t /\ val[f].magic = "OBJT" /\ o = ObjectOf(val[f]))
<1>1. PICK c \in P : val[c].magic = "OBJT" /\ o = ObjectOf(val[c])
  BY DEF Ahead
<1>2. ASSUME NEW d \in Q, s[d] = c
      PROVE  o \in Ahead(Q, w)
  <2>1. StandsFor(w[d], val[c])
    BY <1>2 DEF Keeps, Shift
  <2>2. w[d].magic = "OBJT" /\ ObjectOf(w[d]) = o
    BY <1>1, <2>1, StandsForKind
  <2>3. QED
    BY <2>2 DEF Ahead
<1>3. QED
  BY <1>1, <1>2 DEF Keeps

-----------------------------------------------------------------------------
\* What the main thread has not taken yet.
Rest == LineOf(<<>>, Queued(list), Unread)

OnRest == ValuesOf(<<>>, Queued(list), Unread, archive)

Coming == Ahead(Rest, OnRest)

RestOrderly == Orderly(Rest, OnRest)

RestFrom(n) == Later(Rest, OnRest, n)

FooterComes == FooterNext(Rest, OnRest)

First == Queued(list)[1]

\* What a step leaves of it; the first record is taken (t).
RestKept(t) ==
  /\ RestOrderly => RestOrderly'
  /\ \A n : RestFrom(n) => RestFrom(n)'
  /\ FooterComes /\ (t => First.magic # "FILF") => FooterComes'
  /\ \A o \in Coming : o \in Coming' \/ (t /\ First.magic = "OBJT" /\ o = ObjectOf(First))

\* What is behind the first record.
RestBehind ==
  RestOrderly =>
    /\ Closing(First) => FooterComes'
    /\ First.magic = "DATF" /\ ~IsFS => Coming' = {}
    /\ First.magic = "DATF" /\ IsFS =>
         \A b \in Rest' : OnRest'[b].magic \in {"OBJT", "DATF"} => First.tree < OnRest'[b].tree

\* The records move up, one may come into the queue and the first may be taken.
LEMMA RestStep ==
  ASSUME BaseInv, BaseInv', UNCHANGED <<archive, job>>, NEW dq \in {0, 1}, NEW x,
         Moves(<<>>, Queued(list), Unread, <<>>, Queued(list)', Unread', archive, 0, dq, x),
         dq = 1 => Len(Queued(list)) > 0,
         \A c \in Unread : c \in Unread' \/ (Len(Queued(list)') = Len(Queued(list)) + 1 /\ c = x)
  PROVE  RestKept(dq = 1) /\ (dq = 1 => RestBehind)
<1> DEFINE q == Queued(list)
           U == Unread
           q2 == Queued(list)'
           U2 == Unread'
           P == LineOf(<<>>, q, U)
           val == ValuesOf(<<>>, q, U, archive)
           Q == LineOf(<<>>, q2, U2)
           w == ValuesOf(<<>>, q2, U2, archive)
           s == WasAt(<<>>, q, <<>>, q2, U2, 0, dq, x)
           f == <<0, 1>>
           t == dq = 1
<1>1. /\ q \in Seq(Readable) /\ U \in SUBSET UnreadType
      /\ q2 \in Seq(Readable) /\ U2 \in SUBSET UnreadType
      /\ <<>> \in Seq(Readable)
  BY LineTypesNow, LineTypesNext, EmptySeq DEF LineTypes
<1>2. Moves(<<>>, q, U, <<>>, q2, U2, archive, 0, dq, x)
  OBVIOUS
<1>3. Moved(P, val, Q, w, s, <<>>, q, q2, U, U2, 0, dq, x)
  BY <1>1, <1>2, LineMoves
<1>4. IsLine(P, val, <<>>, q, U, archive)
  BY <1>1, LinePlaces
<1>5. /\ Rest = P /\ OnRest = val /\ Rest' = Q /\ OnRest' = w /\ First = q[1]
  BY DEF Rest, OnRest, LineOf, ValuesOf, First
<1>6. /\ \A c \in U : c \in U2 \/ (Len(q2) = Len(q) + 1 /\ c = x)
      /\ t => Len(q) > 0
      /\ t <=> dq = 1
  OBVIOUS
<1> HIDE DEF q, U, q2, U2, P, val, Q, w, s
<1>7. /\ Shift(P, val, Q, w, s)
      /\ t => \A a \in Q : Before(f, s[a])
      /\ \A c \in P : c[1] >= 0 => (\E d \in Q : s[d] = c) \/ (t /\ c = f)
  <2>1. /\ Shift(P, val, Q, w, s)
        /\ dq = 1 => \A a \in Q : a[1] >= 0 \/ <<>> = <<>> => Before(<<0, 1>>, s[a])
        /\ \A c \in P : c[1] >= 0 =>
             \/ \E d \in Q : d[1] >= 0 /\ s[d] = c
             \/ dq = 1 /\ c = <<0, 1>>
             \/ c \in U \ U2 /\ (Len(q2) = Len(q) + 1 => c # x)
    BY <1>3 DEF Moved
  <2>2. QED
    BY <1>6, <2>1
<1>8. \A c \in P : c[1] >= 0
  <2>1. Len(<<>>) = 0
    BY EmptySeq
  <2>2. QED
    BY <1>4, <2>1 DEF IsLine
<1>9. t => f \in P /\ val[f] = q[1]
  BY <1>4, <1>6 DEF IsLine
<1> HIDE DEF t, f
<1>10. Keeps(P, val, Q, w, s, f, t)
  BY <1>7, <1>8, <1>9 DEF Keeps
<1>11. /\ Orderly(P, val) => Orderly(Q, w)
       /\ \A n : Later(P, val, n) => Later(Q, w, n)
       /\ FooterNext(P, val) /\ (t => val[f].magic # "FILF") => FooterNext(Q, w)
  BY <1>10, KeepsOrderly
<1>12. \A o \in Ahead(P, val) :
         o \in Ahead(Q, w) \/ (t /\ val[f].magic = "OBJT" /\ o = ObjectOf(val[f]))
  BY <1>10, KeepsAhead
<1>13. /\ RestOrderly = Orderly(P, val) /\ RestOrderly' = Orderly(Q, w)
       /\ FooterComes = FooterNext(P, val) /\ FooterComes' = FooterNext(Q, w)
       /\ Coming = Ahead(P, val) /\ Coming' = Ahead(Q, w)
  BY <1>5 DEF RestOrderly, Orderly, AllWanted, Apart, Followed, FooterComes, FooterNext,
              Coming, Ahead, Wanted, g_fsbitmap
<1>14. \A n : (RestFrom(n) <=> Later(P, val, n)) /\ (RestFrom(n)' <=> Later(Q, w, n))
  BY <1>5 DEF RestFrom, Later
<1>15. RestKept(t)
  BY <1>5, <1>9, <1>11, <1>12, <1>13, <1>14 DEF RestKept
<1>16. ASSUME t
       PROVE  RestBehind
  <2>1. Keeps(P, val, Q, w, s, f, TRUE)
    BY <1>10, <1>16
  <2>2. ASSUME Orderly(P, val)
        PROVE  /\ Closing(val[f]) => FooterNext(Q, w)
               /\ val[f].magic = "DATF" /\ ~IsFS => Ahead(Q, w) = {}
               /\ val[f].magic = "DATF" /\ IsFS =>
                    \A b \in Q : w[b].magic \in {"OBJT", "DATF"} => val[f].tree < w[b].tree
    BY <2>1, <2>2, KeepsBehind
  <2>3. val[f] = First
    BY <1>5, <1>9, <1>16
  <2>4. QED
    BY <1>5, <1>13, <2>2, <2>3 DEF RestBehind
<1>17. QED
  BY <1>15, <1>16 DEF t

FirstKept == Len(Queued(list)) > 0 => Len(Queued(list)') > 0 /\ First' = First

\* Nothing moves.
LEMMA RestStill ==
  ASSUME UNCHANGED <<archive, job>>, Queued(list)' = Queued(list), Unread' = Unread
  PROVE  RestKept(FALSE) /\ FirstKept
<1>1. Rest' = Rest /\ OnRest' = OnRest /\ First' = First
  BY DEF Rest, OnRest, LineOf, ValuesOf, First
<1>2. RestOrderly' = RestOrderly /\ FooterComes' = FooterComes /\ Coming' = Coming
  BY <1>1 DEF RestOrderly, Orderly, AllWanted, Apart, Followed, FooterComes, FooterNext,
              Coming, Ahead, Wanted, g_fsbitmap
<1>3. \A n : RestFrom(n)' <=> RestFrom(n)
  BY <1>1 DEF RestFrom, Later
<1>4. QED
  BY <1>1, <1>2, <1>3 DEF RestKept, FirstKept

\* The main thread leaves the queue alone, ...
LEMMA RestMain ==
  ASSUME BaseInv, MainStep, UNCHANGED list
  PROVE  RestKept(FALSE) /\ FirstKept
<1>1. UNCHANGED <<archive, job>> /\ Unread' = Unread /\ Queued(list)' = Queued(list)
  BY MainOthers, MainStill DEF Queued
<1>2. QED
  BY <1>1, RestStill

\* ... or takes its head.
LEMMA RestTaken ==
  ASSUME BaseInv, BaseInv', MainStep, list # <<>>, RemoveHead
  PROVE  /\ RestKept(TRUE) /\ RestBehind /\ Len(Queued(list)) > 0
         /\ First.magic = Head(list).val.magic /\ First.tree = Head(list).val.tree
         /\ ObjectOf(First) = ObjectOf(Head(list).val)
         /\ Closing(First) <=> Closing(Head(list).val)
<1> DEFINE q == Queued(list)
           q2 == Queued(list)'
           e == Head(list).val
<1>1. UNCHANGED <<archive, job>> /\ Unread' = Unread
  BY MainOthers, MainStill
<1>2. /\ Len(q) > 0 /\ Len(q2) + 1 = Len(q) /\ Len(q2) \in Nat
      /\ \A i \in 1 .. Len(q2) : q2[i] = q[i + 1]
      /\ q[1] = Unpack(e)
  BY HeadRemoved
<1>3. e \in Readable
  BY HeadType DEF BaseInv
<1> HIDE DEF q, q2, e
<1>4. Moves(<<>>, q, Unread, <<>>, q2, Unread, archive, 0, 1, 0)
  <2>1. Len(<<>>) = 0
    BY EmptySeq
  <2>2. QED
    BY <1>2, <2>1 DEF Moves
<1>5. RestKept(TRUE) /\ RestBehind
  <2>1. RestKept(1 = 1) /\ (1 = 1 => RestBehind)
    BY <1>1, <1>2, <1>4, RestStep DEF q, q2
  <2>2. (1 = 1) = TRUE
    OBVIOUS
  <2>3. RestKept(TRUE) = RestKept(1 = 1)
    BY <2>2 DEF RestKept
  <2>4. QED
    BY <2>1, <2>3
<1>6. StandsFor(Unpack(e), e) /\ Unpack(e).magic = e.magic /\ Unpack(e).tree = e.tree
      /\ ObjectOf(Unpack(e)) = ObjectOf(e)
  BY <1>3, UnpackStands
<1>7. First = Unpack(e)
  BY <1>2 DEF First, q
<1>8. QED
  BY <1>2, <1>5, <1>6, <1>7, StandsForKind DEF e, q

\* A record is read and comes into the queue, or is not wanted.
LEMMA RestRead ==
  ASSUME BaseInv, BaseInv', UNCHANGED <<archive, job, rvol>>,
         rvol \in Nat, At \in Nat, At' = At + 1,
         \/ Queued(list)' = Queued(list) /\ <<rvol, At>> \notin Unread
         \/ /\ <<rvol, At>> \in Unread
            /\ \E v \in Readable : /\ StandsFor(v, RecordAt(archive, <<rvol, At>>))
                                   /\ Queued(list)' = Append(Queued(list), v)
  PROVE  RestKept(FALSE) /\ FirstKept
<1> DEFINE q == Queued(list)
           q2 == Queued(list)'
           U == Unread
           U2 == Unread'
           x == <<rvol, At>>
<1>1. U2 = U \ {x} /\ \A a \in U2 : Before(x, a)
  BY UnreadNext DEF BaseInv
<1>2. q \in Seq(Readable) /\ Len(q) \in Nat
  BY LineTypesNow, LenProperties DEF LineTypes
<1>3. CASE Queued(list)' = Queued(list) /\ <<rvol, At>> \notin Unread
  <2>1. Unread' = Unread
    BY <1>1, <1>3
  <2>2. QED
    BY <1>3, <2>1, RestStill
<1>4. CASE /\ <<rvol, At>> \in Unread
           /\ \E v \in Readable : /\ StandsFor(v, RecordAt(archive, <<rvol, At>>))
                                  /\ Queued(list)' = Append(Queued(list), v)
  <2>1. PICK v \in Readable : StandsFor(v, RecordAt(archive, x)) /\ q2 = Append(q, v)
    BY <1>4
  <2>2. x \in U
    BY <1>4
  <2> HIDE DEF q, q2, U, U2, x
  <2>3. /\ Len(Append(q, v)) = Len(q) + 1
        /\ \A i \in 1 .. Len(q) : Append(q, v)[i] = q[i]
        /\ Append(q, v)[Len(q) + 1] = v
    BY <1>2, AppendProperties
  <2>4. /\ Len(q2) = Len(q) + 1 /\ (\A i \in 1 .. Len(q) : q2[i] = q[i])
        /\ StandsFor(q2[Len(q2)], RecordAt(archive, x))
    BY <2>1, <2>3
  <2>5. Moves(<<>>, q, U, <<>>, q2, U2, archive, 0, 0, x)
    <3>1. Len(<<>>) = 0
      BY EmptySeq
    <3>2. QED
      BY <1>1, <1>2, <2>2, <2>4, <3>1 DEF Moves
  <2>6. RestKept(0 = 1)
    <3>1. \A c \in U : c \in U2 \/ (Len(q2) = Len(q) + 1 /\ c = x)
      BY <1>1, <2>4
    <3>2. QED
      BY <2>5, <3>1, RestStep DEF q, q2, U, U2
  <2>7. RestKept(FALSE) = RestKept(0 = 1)
    <3>1. (0 = 1) = FALSE
      OBVIOUS
    <3>2. QED
      BY <3>1 DEF RestKept
  <2>8. FirstKept
    <3>1. Len(q) > 0 => 1 \in 1 .. Len(q) /\ Len(q2) > 0
      BY <1>2, <2>4
    <3>2. First = q[1] /\ First' = q2[1]
      BY DEF First, q, q2
    <3>3. QED
      BY <2>4, <3>1, <3>2 DEF FirstKept, q, q2
  <2>9. QED
    BY <2>6, <2>7, <2>8
<1>5. QED
  BY <1>3, <1>4

\* The reader leaves nothing out when nothing is damaged.
LEMMA RestReader ==
  ASSUME BaseInv, BaseInv', ReadInv, damaged' = {}, ReaderStep \/ RAsk
  PROVE  RestKept(FALSE) /\ FirstKept
<1> USE DEF RGoto
<1>1. /\ UNCHANGED <<archive, job>> /\ list \in Seq(Item(Readable)) /\ rpos \in Nat \ {0}
  BY ReaderOthers DEF BaseInv, QInv, QTypeOK, ReaderTypeOK
<1>2. ASSUME rpc = "loop"
      PROVE  /\ rvol \in DOMAIN archive /\ DOMAIN Recs = 1 .. Len(Recs)
             /\ At = rpos /\ rvol \in Nat
  <2>1. rvol \in DOMAIN archive /\ At = rpos
    BY <1>2 DEF BaseInv, AtVolume, At
  <2>2. QED
    BY <2>1, VolumeType, LenProperties DEF BaseInv, Recs, ArchiveOK
<1>3. ASSUME UNCHANGED list, UNCHANGED rvol, At' = At
      PROVE  RestKept(FALSE) /\ FirstKept
  <2>1. Unread' = Unread /\ Queued(list)' = Queued(list)
    BY <1>1, <1>3, SameUnread DEF Queued
  <2>2. QED
    BY <1>1, <2>1, RestStill
<1>4. CASE ROpen
  <2>1. rpc = "open" /\ rpc' = "add" /\ rpos = 1 /\ rpos' = 2 /\ UNCHANGED <<list, rvol>>
    BY <1>4 DEF ROpen, ReadInv, qvars
  <2>2. At' = At
    BY <2>1 DEF At
  <2>3. QED
    BY <1>3, <2>1, <2>2
<1>5. CASE RReadFails \/ RStop \/ RAsk \/ REnd
  <2>1. /\ UNCHANGED <<list, rvol, rpos>> /\ rpc # "add" /\ rpc' \in {"error", "loop", "exit"}
    BY <1>5 DEF RReadFails, RStop, RAsk, REnd, queue_set_end_of_queue, qvars
  <2>2. At' = At
    BY <2>1 DEF At
  <2>3. QED
    BY <1>3, <2>1, <2>2
<1>6. CASE RDamagedStart \/ RDamagedBlock \/ RDamagedHeader
  <2>1. \E part, r : Loses("damage", part, r)
    BY <1>6 DEF RDamagedStart, RDamagedBlock, RDamagedHeader
  <2>2. damaged' # {}
    BY <2>1 DEF Loses
  <2>3. QED
    BY <2>2
<1>7. CASE RSkip
  <2>1. /\ rpc = "loop" /\ rpc' = "loop" /\ rpos' = rpos + 1
        /\ ~Wanted(Recs[rpos]) /\ UNCHANGED <<list, rvol>>
    BY <1>7 DEF RSkip, Reading, qvars
  <2>2. At' = At + 1 /\ At = rpos
    BY <1>2, <2>1 DEF At
  <2>3. <<rvol, rpos>> \notin Unread
    BY <1>1, <1>2, <2>1, PlaceUnread
  <2>4. Queued(list)' = Queued(list)
    BY <2>1 DEF Queued
  <2>5. QED
    BY <1>1, <1>2, <2>1, <2>2, <2>3, <2>4, RestRead
<1>8. CASE RRead
  <2>1. /\ rpc = "loop" /\ rpc' = "add" /\ rpos' = rpos + 1 /\ UNCHANGED <<list, rvol>>
    BY <1>8 DEF RRead, Reading, qvars
  <2>2. At' = At
    BY <1>1, <1>2, <2>1 DEF At
  <2>3. QED
    BY <1>3, <2>1, <2>2
<1>9. CASE RAdd
  <2>1. /\ rpc = "add" /\ UNCHANGED <<rvol, rpos>>
        /\ rvol \in DOMAIN archive /\ At = rpos - 1 /\ At' = At + 1
    BY <1>1, <1>9 DEF RAdd, BaseInv, AtVolume, At
  <2>2. QED
    BY <1>1, <1>9, <2>1, AddedRecord, RestRead
<1>10. CASE RVolumeEnd
  <2>1. /\ rpc = "loop" /\ rpos = Len(Recs) + 1 /\ UNCHANGED list
        /\ \/ rpc' = "error" /\ UNCHANGED <<rvol, rpos>>
           \/ rvol' = rvol + 1 /\ rpos' = 1 /\ rpc' \in {"loop", "ask"}
    BY <1>10 DEF RVolumeEnd, qvars
  <2>2. CASE rpc' = "error" /\ UNCHANGED <<rvol, rpos>>
    <3>1. At' = At
      BY <2>1, <2>2 DEF At
    <3>2. QED
      BY <1>3, <2>1, <2>2, <3>1
  <2>3. CASE rvol' = rvol + 1 /\ rpos' = 1 /\ rpc' \in {"loop", "ask"}
    <3>1. At' = 1 /\ At = Len(Recs) + 1
      BY <1>2, <2>1, <2>3 DEF At
    <3>2. Unread' = Unread /\ Queued(list)' = Queued(list)
      BY <1>1, <1>2, <2>1, <2>3, <3>1, UnreadVolume DEF BaseInv, Queued
    <3>3. QED
      BY <1>1, <3>2, RestStill
  <2>4. QED
    BY <2>1, <2>2, <2>3
<1>11. QED
  BY <1>4, <1>5, <1>6, <1>7, <1>8, <1>9, <1>10 DEF ReaderStep

\* A decompression thread changes nothing of it, if nothing is lost.
LEMMA RestDecomp ==
  ASSUME BaseInv, OwnInv, NEW t \in DecompThreads, DecompStep(t), damaged' = {}
  PROVE  RestKept(FALSE) /\ FirstKept
<1>1. UNCHANGED <<archive, job, rvol>> /\ At' = At
  <2>1. UNCHANGED <<archive, job, rvol, rpc, rpos>>
    BY DecompOthers
  <2>2. QED
    BY <2>1 DEF At
<1>2. ~DReplaceSpoilt(t)
  BY DEF DReplaceSpoilt, Loses
<1>3. Queued(list)' = Queued(list)
  BY <1>2, DecompQueued
<1>4. QED
  BY <1>1, <1>3, SameUnread, RestStill

-----------------------------------------------------------------------------
(***************************************************************************)
(* Success.                                                                *)
(***************************************************************************)
\* Nothing has happened that makes the result an error, or will.
Hopeful ==
  /\ damaged = {} /\ failed = {}
  /\ IF xpc \in Over \ {"final"} THEN ret = 0
     ELSE ~abort /\ ~objerrs /\ ~(xpc \in FilePC /\ file.minor /\ This \notin Excluded)

ResultInv ==
  /\ objerrs => IsFS /\ (xpc \in InObjects \/ (xpc \in Over \ {"final"} /\ ret = -1))
  /\ ret = -1 => xpc \in Over \ {"final"}
  /\ xpc = "done" /\ ret = 0 => failed = {}

Held == {ObjectOf(InHand[k]) : k \in DOMAIN InHand}

\* What is due is restored, is in hand or is still to come; ...
Covered ==
  \A o \in Due : o \in counted \/ (xpc \notin Over /\ o \in Coming \cup Held)

\* ... and the main thread will not take it for something else.
AheadInv ==
  /\ RestOrderly
  /\ IsFS /\ xpc \in {"filesystems", "fsyb"} \cup InObjects => RestFrom(fs)
  /\ xpc = "fsend" => Len(Queued(list)) > 0 /\ First.magic = "DATF"
  /\ xpc \in FilePC \ {"counting"} /\ Closing(file.hdr) => FooterComes
  /\ xpc = "footer" => BlocksAt(file.hdr) > 0

CoverState == Covered /\ (xpc \notin Over => AheadInv)

CoverInv == ResultInv /\ (Hopeful => CoverState)

\* Every failure makes the result an error.
LEMMA FailHopeless ==
  ASSUME NEW from, XFail(from)
  PROVE  ~Hopeful'
BY DEF XFail, XGoto, Hopeful, Over

Fails ==
  \/ XTargetFails \/ XNoPassword \/ XHeaderMissing \/ XArchiveEnds \/ XEndFSFails
  \/ XWriteFails \/ XGroupFails \/ XSmallFileWriteFails

LEMMA FailsHopeless == Fails => ~Hopeful'
BY FailHopeless DEF Fails, XTargetFails, XNoPassword, XHeaderMissing, XArchiveEnds, XEndFSFails,
                    XWriteFails, XGroupFails, XSmallFileWriteFails

\* What the steps do to the result.
LEMMA ResultMain ==
  ASSUME BaseInv, ResultInv, MainStep
  PROVE  ResultInv'
<1> USE DEF XGoto, XFail, Over, InObjects, Busy
<1>1. CASE XStart \/ XMainHead \/ XFsInfo \/ XDirsInfo \/ XNextFS \/ XBeginFS \/ XBeginDir
  BY <1>1 DEF XStart, XMainHead, XFsInfo, XDirsInfo, XNextFS, XBeginFS, XBeginDir, ResultInv
<1>2. CASE Fails
  BY <1>2 DEF Fails, XTargetFails, XNoPassword, XHeaderMissing, XArchiveEnds, XEndFSFails,
              XWriteFails, XGroupFails, XSmallFileWriteFails, ResultInv
<1>3. CASE XSkipGarbage \/ XForeignObject \/ XObject \/ XLink \/ XNextObject \/ XObjectsEnd \/ XEndFS
  BY <1>3 DEF XSkipGarbage, XForeignObject, XObject, XLink, XNextObject, XObjectsEnd, XEndFS,
              Taking, Ours, xvars, ResultInv
<1>4. CASE XOpenFile \/ XBlockLoop \/ XBlock \/ XBlockMissing \/ XClose \/ XFooter \/ XCountFile
  BY <1>4 DEF XOpenFile, XBlockLoop, XBlock, XBlockMissing, XClose, XFooter, XCountFile, Taking,
              ResultInv
<1>5. CASE XFirstSmallFile \/ XGroupHeader \/ XGroupBlock \/ XSmallFile
  BY <1>5 DEF XFirstSmallFile, XGroupHeader, XGroupBlock, XSmallFile, Taking, ResultInv
<1>6. CASE XFinal \/ XAskToStop \/ XAwaitBlocks \/ XDrain \/ XDestroy \/ XJoin
  BY <1>6 DEF XFinal, XAskToStop, XAwaitBlocks, XDrain, XDestroy, XJoin, Aside, ResultInv
<1>7. QED
  BY <1>1, <1>2, <1>3, <1>4, <1>5, <1>6 DEF MainStep, Fails

LEMMA ResultStep ==
  ASSUME BaseInv, ResultInv, [Next]_vars
  PROVE  ResultInv'
<1>1. CASE UNCHANGED xvars
  BY <1>1 DEF xvars, ResultInv
<1>2. QED
  BY <1>1, ResultMain, ReaderOthers, DecompOthers DEF Next, Signal, Done, vars

\* Where there is hope there was before.
LEMMA HopefulMain ==
  ASSUME BaseInv, ResultInv, MainStep, Hopeful'
  PROVE  Hopeful
<1> USE DEF XGoto, XFail, Over, InObjects, Busy, FilePC, Hopeful
<1>1. /\ damaged = {} /\ (abort => abort') /\ ret \in {0, -1} /\ ~Fails
  BY DamageGrows, MainOthers, FailsHopeless DEF Next, BaseInv, MainTypeOK
<1>2. CASE XStart \/ XMainHead \/ XFsInfo \/ XDirsInfo \/ XNextFS \/ XBeginFS \/ XBeginDir
  BY <1>1, <1>2 DEF XStart, XMainHead, XFsInfo, XDirsInfo, XNextFS, XBeginFS, XBeginDir, ResultInv
<1>3. CASE XSkipGarbage \/ XForeignObject \/ XObject \/ XLink \/ XNextObject \/ XObjectsEnd \/ XEndFS
  BY <1>1, <1>3 DEF XSkipGarbage, XForeignObject, XObject, XLink, XNextObject, XObjectsEnd, XEndFS,
                    Taking, xvars
<1>4. CASE XBlockLoop \/ XBlock \/ XBlockMissing \/ XClose \/ XFooter
  <2>1. file \in [hdr : Record, data : Seq(Record), closed : BOOLEAN, minor : BOOLEAN,
                  del : BOOLEAN]
    BY DEF BaseInv, MainTypeOK
  <2>2. file'.hdr = file.hdr /\ (file.minor => file'.minor)
    BY <1>4, <2>1 DEF XBlockLoop, XBlock, XBlockMissing, XClose, XFooter
  <2>3. QED
    BY <1>1, <1>4, <2>2 DEF XBlockLoop, XBlock, XBlockMissing, XClose, XFooter, This, ObjectOf
<1>5. CASE XOpenFile \/ XCountFile
  BY <1>1, <1>5 DEF XOpenFile, XCountFile, Taking
<1>6. CASE XFirstSmallFile \/ XGroupHeader \/ XGroupBlock \/ XSmallFile
  BY <1>1, <1>6 DEF XFirstSmallFile, XGroupHeader, XGroupBlock, XSmallFile, Taking
<1>7. CASE XFinal \/ XAskToStop \/ XAwaitBlocks \/ XDrain \/ XDestroy \/ XJoin
  BY <1>1, <1>7 DEF XFinal, XAskToStop, XAwaitBlocks, XDrain, XDestroy, XJoin, Aside, ResultInv,
                    interrupted
<1>8. QED
  BY <1>1, <1>2, <1>3, <1>4, <1>5, <1>6, <1>7 DEF MainStep, Fails

LEMMA HopefulBefore ==
  ASSUME BaseInv, ResultInv, [Next]_vars, Hopeful'
  PROVE  Hopeful
<1>1. damaged = {}
  BY DamageGrows DEF Hopeful
<1>2. CASE UNCHANGED xvars /\ (abort => abort')
  BY <1>1, <1>2 DEF xvars, Hopeful, This
<1>3. QED
  BY <1>2, HopefulMain, ReaderOthers, DecompOthers DEF Next, Signal, Done, vars

-----------------------------------------------------------------------------
\* What is due stays due.
LEMMA DueSame ==
  ASSUME UNCHANGED <<archive, job>>
  PROVE  Due' = Due
BY DEF Due, Asked, JobSuits, InArchive

\* What RestKept and RestBehind say of a step of the main thread, which may take the
\* head of the queue (t).
RestMoves(t) ==
  /\ RestOrderly'
  /\ \A n : RestFrom(n) => RestFrom(n)'
  /\ FooterComes /\ (t => Head(list).val.magic # "FILF") => FooterComes'
  /\ ~t => FirstKept
  /\ t => /\ Closing(Head(list).val) => FooterComes'
          /\ Head(list).val.magic = "DATF" /\ ~IsFS => Coming' = {}
          /\ Head(list).val.magic = "DATF" /\ IsFS =>
               \A b \in Rest' : OnRest'[b].magic \in {"OBJT", "DATF"} =>
                 Head(list).val.tree < OnRest'[b].tree

\* A step of the main thread, which may take the head of the queue (t) and loses no
\* object that is due.
LEMMA CoverMove ==
  ASSUME BaseInv, BaseInv', MainStep, CoverState, xpc \notin Over, xpc' \notin Over,
         counted \subseteq counted',
         NEW t \in BOOLEAN, t => list # <<>> /\ RemoveHead, ~t => UNCHANGED list,
         \A o \in Held \cap Due : o \in Held' \cup counted',
         t /\ Head(list).val.magic = "OBJT" /\ ObjectOf(Head(list).val) \in Due =>
           ObjectOf(Head(list).val) \in Held' \cup counted'
  PROVE  Covered' /\ RestMoves(t)
<1>1. Due' = Due
  BY MainOthers, DueSame
<1>2. RestKept(t) /\ RestOrderly
  <2>1. CASE t
    <3>1. RestKept(TRUE) /\ t = TRUE
      BY <2>1, RestTaken
    <3>2. QED
      BY <3>1 DEF CoverState, AheadInv
  <2>2. CASE ~t
    <3>1. RestKept(FALSE) /\ t = FALSE
      BY <2>2, RestMain
    <3>2. QED
      BY <3>1 DEF CoverState, AheadInv
  <2>3. QED
    BY <2>1, <2>2
<1>3. t => /\ RestBehind
           /\ First.magic = Head(list).val.magic /\ First.tree = Head(list).val.tree
           /\ ObjectOf(First) = ObjectOf(Head(list).val)
           /\ Closing(First) <=> Closing(Head(list).val)
  BY RestTaken
<1>4. ~t => FirstKept
  BY RestMain
<1>5. Covered'
  <2>1. \A o \in Due : o \in counted \/ o \in Coming \/ o \in Held
    BY DEF CoverState, Covered
  <2>2. \A o \in Coming : o \in Coming' \/ (t /\ First.magic = "OBJT" /\ o = ObjectOf(First))
    BY <1>2 DEF RestKept
  <2>3. \A o \in Due : o \in counted' \/ o \in Coming' \cup Held'
    BY <1>3, <2>1, <2>2
  <2>4. QED
    BY <1>1, <2>3 DEF Covered
<1>6. RestMoves(t)
  BY <1>2, <1>3, <1>4 DEF RestKept, RestBehind, RestMoves
<1>7. QED
  BY <1>5, <1>6

\* When the main thread is through, nothing that is due is left.
LEMMA CoverOver ==
  ASSUME MainStep, CoverState, xpc' \in Over, counted' = counted,
         xpc \in Over \/ Due = {} \/ (Coming = {} /\ Held = {})
  PROVE  CoverState'
<1>1. Due' = Due
  BY MainOthers, DueSame
<1>2. \A o \in Due : o \in counted
  BY DEF CoverState, Covered
<1>3. QED
  BY <1>1, <1>2 DEF CoverState, Covered

\* What is at the places of the rest.
LEMMA RestReadable ==
  BaseInv => \A a \in Rest : OnRest[a] \in Readable /\ OnRest[a].tree \in Nat
<1> SUFFICES ASSUME BaseInv
             PROVE  \A a \in Rest : OnRest[a] \in Readable /\ OnRest[a].tree \in Nat
  OBVIOUS
<1>1. LineTypes(<<>>, Queued(list), Unread, archive)
  BY LineTypesNow, EmptySeq DEF LineTypes
<1>2. \A a \in Rest : OnRest[a] \in Readable
  BY <1>1, LineReadable DEF Rest, OnRest
<1>3. \A r \in Readable : r.tree \in Nat
  BY DEF Readable, Record
<1>4. QED
  BY <1>2, <1>3

LEMMA RestReadableNext ==
  (BaseInv => \A a \in Rest : OnRest[a] \in Readable /\ OnRest[a].tree \in Nat)'
BY RestReadable, PTL

\* Where what is to come begins.
LEMMA FromFirst == BaseInv /\ IsFS /\ RestOrderly => RestFrom(1)
<1> SUFFICES ASSUME BaseInv, IsFS, RestOrderly,
                    NEW a \in Rest, OnRest[a].magic \in {"OBJT", "DATF"}
             PROVE  OnRest[a].tree >= 1
  BY DEF RestFrom, Later
<1>1. Wanted(OnRest[a]) /\ OnRest[a].tree \in Nat
  BY RestReadable DEF RestOrderly, Orderly, AllWanted
<1>2. OnRest[a].tree - 1 \in g_fsbitmap
  BY <1>1 DEF Wanted, Global, fsid
<1>3. job.wanted \subseteq Nat \ {0} /\ job.oper \in {"restfs", "restdir", "archinfo"}
  BY DEF BaseInv, Job
<1>4. g_fsbitmap \subseteq Nat
  BY <1>3 DEF g_fsbitmap
<1>5. QED
  BY <1>1, <1>2, <1>4

LEMMA FromSkipped ==
  ASSUME BaseInv, IsFS, RestOrderly, job.oper = "restfs", NEW n \in Nat, n \notin job.wanted,
         RestFrom(n)
  PROVE  RestFrom(n + 1)
<1> SUFFICES ASSUME NEW a \in Rest, OnRest[a].magic \in {"OBJT", "DATF"}
             PROVE  OnRest[a].tree >= n + 1
  BY DEF RestFrom, Later
<1>1. Wanted(OnRest[a]) /\ OnRest[a].tree \in Nat /\ OnRest[a].tree >= n
  BY RestReadable DEF RestOrderly, Orderly, AllWanted, RestFrom, Later
<1>2. OnRest[a].tree - 1 \in {w - 1 : w \in job.wanted}
  BY <1>1 DEF Wanted, Global, fsid, g_fsbitmap
<1>3. job.wanted \subseteq Nat \ {0}
  BY DEF BaseInv, Job
<1>4. OnRest[a].tree # n
  BY <1>1, <1>2, <1>3
<1>5. QED
  BY <1>1, <1>4

LEMMA FromEnd ==
  ASSUME BaseInv, NEW n \in Nat, n > Len(Trees), RestFrom(n)
  PROVE  Coming = {}
<1> SUFFICES ASSUME NEW a \in Rest, OnRest[a].magic = "OBJT"
             PROVE  FALSE
  BY DEF Coming, Ahead
<1>1. OnRest[a].tree \in DOMAIN Trees /\ OnRest[a].tree >= n
  BY RestReadable DEF Readable, NamesObject, RestFrom, Later
<1>2. DOMAIN Trees = 1 .. Len(Trees) /\ Len(Trees) \in Nat
  BY LenProperties, RestoreAssumption
<1>3. QED
  BY <1>1, <1>2

\* Where the main thread has nothing in hand.
LEMMA NothingHeld ==
  /\ xpc \notin FilePC \cup GroupPC => Held = {}
  /\ xpc \in FilePC => Held = {This}
BY DEF Held, InHand, This

LEMMA FromFirstNext == (BaseInv /\ IsFS /\ RestOrderly => RestFrom(1))'
BY FromFirst, PTL

\* What the head of the queue says of the rest.
LEMMA FirstPlace ==
  ASSUME BaseInv, Len(Queued(list)) > 0
  PROVE  /\ \A n : RestFrom(n) /\ First.magic = "DATF" => First.tree >= n
         /\ FooterComes => First.magic # "OBJT"
         /\ RestOrderly /\ ~IsFS /\ First.magic = "DATF" => Coming = {}
<1> DEFINE f == <<0, 1>>
           q == Queued(list)
           U == Unread
<1>1. LineTypes(<<>>, q, U, archive)
  BY LineTypesNow, EmptySeq DEF LineTypes
<1>2. IsLine(Rest, OnRest, <<>>, q, U, archive)
  BY <1>1, LinePlaces DEF LineTypes, Rest, OnRest
<1>3. Len(<<>>) = 0 /\ Len(q) \in Nat /\ Len(q) > 0
  BY <1>1, EmptySeq, LenProperties DEF LineTypes
<1>4. First = q[1]
  BY DEF First
<1> HIDE DEF q, U
<1>5. f \in Rest /\ OnRest[f] = First
  BY <1>2, <1>3, <1>4 DEF IsLine
<1>6. \A a \in Rest : a = f \/ Before(f, a)
  BY <1>2, <1>3 DEF IsLine, Before
<1>7. \A a \in Rest : ~Before(a, f)
  BY <1>2, <1>3 DEF IsLine, Before
<1> HIDE DEF f
<1>8. \A n : RestFrom(n) /\ First.magic = "DATF" => First.tree >= n
  BY <1>5 DEF RestFrom, Later
<1>9. FooterComes => First.magic # "OBJT"
  BY <1>5, <1>7 DEF FooterComes, FooterNext
<1>10. ASSUME RestOrderly, ~IsFS, First.magic = "DATF", NEW a \in Rest, OnRest[a].magic = "OBJT"
       PROVE  FALSE
  <2>1. Before(f, a)
    BY <1>5, <1>6, <1>10
  <2>2. EndsApart(OnRest[f], OnRest[a])
    BY <1>5, <1>10, <2>1 DEF RestOrderly, Orderly, Apart
  <2>3. QED
    BY <1>5, <1>10, <2>2 DEF EndsApart
<1>11. QED
  BY <1>8, <1>9, <1>10 DEF Coming, Ahead

\* The main thread on its way to the objects.
LEMMA CoverStart ==
  ASSUME BaseInv, BaseInv', SuitInv, HonestState, CoverState, Hopeful',
         XStart \/ XMainHead \/ XFsInfo \/ XDirsInfo \/ XNextFS \/ XBeginFS \/ XBeginDir
  PROVE  CoverState'
<1> USE DEF XGoto, Elsewhere
<1>0. MainStep
  BY DEF MainStep
<1>1. /\ xpc \in {"start", "mainhead", "fsinfo", "dirsinfo", "filesystems", "fsyb", "destdir"}
      /\ xpc' \in {"mainhead", "fsinfo", "dirsinfo", "filesystems", "fsyb", "destdir", "objects",
                   "final"}
      /\ counted' = counted
  BY FailHopeless
  DEF XStart, XMainHead, XFsInfo, XDirsInfo, XNextFS, XBeginFS, XBeginDir
<1>2. xpc \notin Over /\ Held = {} /\ AheadInv
  BY <1>1, NothingHeld DEF Over, FilePC, GroupPC, CoverState
<1>3. ASSUME NEW t \in BOOLEAN, xpc' # "final",
             t => list # <<>> /\ RemoveHead /\ Head(list).val.magic # "OBJT",
             ~t => UNCHANGED list,
             \/ IsFS /\ xpc' \in {"filesystems", "fsyb", "objects"} =>
                  /\ xpc \in {"filesystems", "fsyb"}
                  /\ RestFrom(fs) => RestFrom(fs')
             \/ fs' = 1
      PROVE  CoverState'
  <2>1. xpc' \notin Over /\ xpc' \notin FilePC /\ xpc' # "fsend" /\ xpc' # "footer"
    BY <1>1, <1>3 DEF Over, FilePC
  <2>2. Covered' /\ RestMoves(t)
    BY <1>0, <1>1, <1>2, <1>3, <2>1, CoverMove
  <2>3. RestOrderly'
    BY <2>2 DEF RestMoves
  <2>4. ASSUME IsFS, xpc' \in {"filesystems", "fsyb"} \cup InObjects
        PROVE  RestFrom(fs)'
    <3>1. CASE fs' = 1
      <4>1. RestFrom(1)'
        BY <2>3, <2>4, FromFirstNext
      <4>2. QED
        BY <3>1, <4>1 DEF RestFrom
    <3>2. CASE fs' # 1
      <4>1. xpc' \in {"filesystems", "fsyb", "objects"}
        BY <1>1, <2>4 DEF InObjects, Busy
      <4>2. RestFrom(fs)
        BY <1>2, <1>3, <2>4, <3>2, <4>1 DEF AheadInv
      <4>3. RestFrom(fs')
        BY <1>3, <2>4, <3>2, <4>1, <4>2
      <4>4. \A n : RestFrom(n) => RestFrom(n)'
        BY <2>2 DEF RestMoves
      <4>5. QED
        BY <4>3, <4>4 DEF RestFrom
    <3>3. QED
      BY <3>1, <3>2
  <2>5. AheadInv'
    BY <2>1, <2>3, <2>4 DEF AheadInv
  <2>6. QED
    BY <2>2, <2>5 DEF CoverState
<1>4. ASSUME xpc' = "final", Due = {} \/ (Coming = {} /\ Held = {})
      PROVE  CoverState'
  BY <1>0, <1>1, <1>4, CoverOver DEF Over
<1>5. ASSUME NEW m, Expect(m), m # "OBJT", xpc' # "final",
             \/ xpc' \notin {"filesystems", "fsyb", "objects"}
             \/ xpc \in {"filesystems", "fsyb"} /\ fs' = fs
      PROVE  CoverState'
  <2>1. TRUE => list # <<>> /\ RemoveHead /\ Head(list).val.magic # "OBJT"
    BY <1>5 DEF Expect, queue_dequeue_header, HeadIs
  <2>2. TRUE \in BOOLEAN /\ (~TRUE => UNCHANGED list)
    OBVIOUS
  <2>3. \/ IsFS /\ xpc' \in {"filesystems", "fsyb", "objects"} =>
             /\ xpc \in {"filesystems", "fsyb"}
             /\ RestFrom(fs) => RestFrom(fs')
        \/ fs' = 1
    BY <1>5
  <2>4. QED
    BY <1>3, <1>5, <2>1, <2>2, <2>3
<1>6. job.oper = "archinfo" => Due = {}
  BY DEF Due, Asked
<1>7. CASE XStart
  <2>1. xpc' = "mainhead" /\ UNCHANGED list
    BY <1>7, FailHopeless DEF XStart, qvars
  <2>2. QED
    BY <1>3, <2>1
<1>8. CASE XMainHead
  <2>1. xpc' \in {"fsinfo", "dirsinfo"} /\ Expect("MAIN")
    BY <1>8, FailHopeless DEF XMainHead
  <2>2. QED
    BY <1>5, <2>1
<1>9. CASE XFsInfo
  <2>1. CASE fs <= Len(Trees)
    <3>1. xpc' = "fsinfo" /\ Expect("FSIN")
      BY <1>9, <2>1 DEF XFsInfo
    <3>2. QED
      BY <1>5, <3>1
  <2>2. CASE ~(fs <= Len(Trees)) /\ job.oper = "archinfo"
    <3>1. xpc' = "final"
      BY <1>9, <2>2 DEF XFsInfo
    <3>2. QED
      BY <1>4, <1>6, <2>2, <3>1
  <2>3. CASE ~(fs <= Len(Trees)) /\ job.oper # "archinfo"
    <3>1. xpc' = "filesystems" /\ fs' = 1 /\ UNCHANGED list
      BY <1>9, <2>3 DEF XFsInfo, qvars
    <3>2. QED
      BY <1>3, <3>1
  <2>4. QED
    BY <2>1, <2>2, <2>3
<1>10. CASE XDirsInfo
  <2>1. CASE job.oper = "archinfo"
    <3>1. xpc' = "final"
      BY <1>10, <2>1 DEF XDirsInfo
    <3>2. QED
      BY <1>4, <1>6, <2>1, <3>1
  <2>2. CASE job.oper # "archinfo"
    <3>1. xpc' = "destdir" /\ Expect("DIRS")
      BY <1>10, <2>2 DEF XDirsInfo
    <3>2. QED
      BY <1>5, <3>1
  <2>3. QED
    BY <2>1, <2>2
<1>11. CASE XNextFS
  <2>0. xpc = "filesystems" /\ UNCHANGED list /\ UNCHANGED abort /\ fs \in Nat
    BY <1>11 DEF XNextFS, qvars, BaseInv, MainTypeOK
  <2>1. IsFS /\ job.oper = "restfs" /\ RestOrderly /\ RestFrom(fs)
    <3>1. IsFS
      BY <2>0 DEF HonestState, CountInv
    <3>2. JobSuits /\ job.oper # "archinfo" /\ job.oper \in {"restfs", "restdir", "archinfo"}
      BY <2>0 DEF SuitInv, BaseInv, Job
    <3>3. QED
      BY <1>2, <2>0, <3>1, <3>2 DEF JobSuits, AheadInv
  <2>2. CASE fs <= Len(Trees) /\ ~abort /\ fs \in job.wanted
    <3>1. xpc' = "fsyb" /\ fs' = fs
      BY <1>11, <2>2 DEF XNextFS
    <3>2. QED
      BY <1>3, <2>0, <2>1, <3>1
  <2>3. CASE fs <= Len(Trees) /\ ~abort /\ fs \notin job.wanted
    <3>1. xpc' = "filesystems" /\ fs' = fs + 1
      BY <1>11, <2>0, <2>3 DEF XNextFS
    <3>2. RestFrom(fs + 1)
      BY <2>0, <2>1, <2>3, FromSkipped
    <3>3. RestFrom(fs')
      BY <3>1, <3>2
    <3>4. QED
      BY <1>3, <2>0, <3>1, <3>3
  <2>4. CASE ~(fs <= Len(Trees) /\ ~abort)
    <3>1. xpc' = "final"
      BY <1>11, <2>4 DEF XNextFS
    <3>2. ~abort
      BY <2>0, <3>1 DEF Hopeful, Over
    <3>3. fs > Len(Trees)
      BY <2>0, <2>4, <3>2, RestoreAssumption, LenProperties
    <3>4. Coming = {}
      BY <2>0, <2>1, <3>3, FromEnd
    <3>5. QED
      BY <1>2, <1>4, <3>1, <3>4
  <2>5. QED
    BY <2>2, <2>3, <2>4
<1>12. CASE XBeginFS
  <2>1. xpc = "fsyb" /\ xpc' = "objects" /\ Expect("FSYB") /\ fs' = fs
    BY <1>12 DEF XBeginFS
  <2>2. QED
    BY <1>5, <2>1
<1>13. CASE XBeginDir
  <2>1. xpc = "destdir" /\ xpc' = "objects" /\ UNCHANGED list
    BY <1>13 DEF XBeginDir, qvars
  <2>2. ~IsFS
    BY <2>1 DEF SuitInv
  <2>3. QED
    BY <1>3, <2>1, <2>2
<1>14. QED
  BY <1>7, <1>8, <1>9, <1>10, <1>11, <1>12, <1>13

\* A step from object to object, which may take the head of the queue (t).
LEMMA CoverWithin ==
  ASSUME BaseInv, BaseInv', MainStep, CoverState, xpc \in InObjects, xpc' \in InObjects,
         fs' = fs, counted \subseteq counted',
         NEW t \in BOOLEAN, t => list # <<>> /\ RemoveHead, ~t => UNCHANGED list,
         \A o \in Held \cap Due : o \in Held' \cup counted',
         t /\ Head(list).val.magic = "OBJT" /\ ObjectOf(Head(list).val) \in Due =>
           ObjectOf(Head(list).val) \in Held' \cup counted',
         xpc' = "fsend" => ~t /\ Len(Queued(list)) > 0 /\ First.magic = "DATF",
         xpc' \in FilePC \ {"counting"} /\ Closing(file.hdr)' =>
           \/ t /\ Closing(Head(list).val)
           \/ FooterComes /\ (t => Head(list).val.magic # "FILF"),
         xpc' = "footer" => BlocksAt(file.hdr)' > 0
  PROVE  CoverState'
<1>1. xpc \notin Over /\ xpc' \notin Over
  BY DEF InObjects, Busy, Over
<1>2. AheadInv
  BY <1>1 DEF CoverState
<1>3. Covered' /\ RestMoves(t)
  BY <1>1, CoverMove
<1>4. IsFS => RestFrom(fs)'
  <2>1. ASSUME IsFS
        PROVE  RestFrom(fs)'
    <3>1. RestFrom(fs)
      BY <1>2, <2>1 DEF AheadInv
    <3>2. \A n : RestFrom(n) => RestFrom(n)'
      BY <1>3 DEF RestMoves
    <3>3. QED
      BY <3>1, <3>2 DEF RestFrom
  <2>2. QED
    BY <2>1
<1>5. xpc' = "fsend" => Len(Queued(list)') > 0 /\ First'.magic = "DATF"
  BY <1>3 DEF RestMoves, FirstKept
<1>6. xpc' \in FilePC \ {"counting"} /\ Closing(file.hdr)' => FooterComes'
  BY <1>3 DEF RestMoves
<1>7. RestOrderly'
  BY <1>3 DEF RestMoves
<1>8. AheadInv'
  BY <1>4, <1>5, <1>6, <1>7 DEF AheadInv
<1>9. QED
  BY <1>3, <1>8 DEF CoverState

\* Garbage is passed over, an object has nothing behind its header, the objects are at
\* their end.
LEMMA CoverObjects ==
  ASSUME BaseInv, BaseInv', HonestState, CoverState, Hopeful',
         XSkipGarbage \/ XForeignObject \/ XObject \/ XLink \/ XNextObject \/ XObjectsEnd
  PROVE  CoverState'
<1> USE DEF XGoto, Elsewhere
<1> DEFINE r == Head(list).val
           o == ObjectOf(r)
<1>0. MainStep
  BY DEF MainStep
<1>1. /\ xpc \in {"objects", "next"} /\ xpc' \in {"objects", "next", "fsend"}
      /\ fs' = fs /\ counted \subseteq counted'
  BY DEF XSkipGarbage, XForeignObject, XObject, XLink, XNextObject, XObjectsEnd, Taking, xvars
<1>2. Held = {} /\ xpc \in InObjects /\ xpc' \in InObjects /\ xpc' \notin FilePC
      /\ xpc' # "footer"
  BY <1>1, NothingHeld DEF FilePC, GroupPC, InObjects
<1>3. ASSUME xpc' # "fsend", list # <<>>, RemoveHead,
             r.magic = "OBJT" => o \notin Due \/ o \in counted'
      PROVE  CoverState'
  <2>1. \A p \in Held \cap Due : p \in Held' \cup counted'
    BY <1>2
  <2>2. r.magic = "OBJT" /\ o \in Due => o \in Held' \cup counted'
    BY <1>3
  <2> HIDE DEF r, o
  <2>3. TRUE \in BOOLEAN
    OBVIOUS
  <2>4. QED
    BY <1>0, <1>1, <1>2, <1>3, <2>1, <2>2, <2>3, CoverWithin DEF r, o
<1>4. ASSUME UNCHANGED list,
             xpc' = "fsend" => Len(Queued(list)) > 0 /\ First.magic = "DATF"
      PROVE  CoverState'
  <2>1. \A p \in Held \cap Due : p \in Held' \cup counted'
    BY <1>2
  <2>2. FALSE \in BOOLEAN
    OBVIOUS
  <2>3. QED
    BY <1>0, <1>1, <1>2, <1>4, <2>1, <2>2, CoverWithin
<1>5. CASE XSkipGarbage
  <2>1. /\ xpc' = "objects" /\ list # <<>> /\ RemoveHead
        /\ ~HeadMagic({"OBJT", "DATF"})
    BY <1>5 DEF XSkipGarbage, HeadIs, queue_destroy_first_item, xvars
  <2>2. r.magic # "OBJT"
    <3>1. list \in Seq(Item(Readable))
      BY DEF BaseInv, QInv, QTypeOK
    <3>2. Head(list) = list[1] /\ 1 \in DOMAIN list /\ Head(list) \in Item(Readable)
      BY <2>1, <3>1, HeadTailProperties, EmptySeq, LenProperties
    <3>3. Head(list).type \in {"header", "block"}
      BY <3>2 DEF Item
    <3>4. Head(list).type = "block" => r.magic = "BLKH"
      BY <3>2 DEF HonestState, BlockTypes
    <3>5. QED
      BY <2>1, <3>3, <3>4 DEF HeadMagic
  <2>3. QED
    BY <1>3, <2>1, <2>2
<1>6. CASE XForeignObject
  <2>1. xpc' = "next" /\ objerrs' = TRUE
    BY <1>6 DEF XForeignObject
  <2>2. QED
    BY <2>1 DEF Hopeful, Over
<1>7. CASE XObject \/ XLink
  <2>1. /\ xpc' = "next" /\ list # <<>> /\ RemoveHead
        /\ o \in counted' \/ failed' = failed \cup {o}
    BY <1>7 DEF XObject, XLink, Taking, queue_dequeue_header, HeadIs
  <2>2. failed' = {}
    BY DEF Hopeful
  <2>3. o \in counted'
    BY <2>1, <2>2
  <2>4. QED
    BY <1>3, <2>1, <2>3
<1>8. CASE XNextObject
  <2>1. UNCHANGED <<list, abort>> /\ xpc' = IF abort THEN "fsend" ELSE "objects"
    BY <1>8 DEF XNextObject, qvars
  <2>2. ~abort'
    BY <1>2 DEF Hopeful, InObjects, Busy, Over
  <2>3. QED
    BY <1>4, <2>1, <2>2
<1>9. CASE XObjectsEnd
  <2>1. /\ xpc' = "fsend" /\ list # <<>> /\ UNCHANGED list /\ r.magic = "DATF"
    BY <1>9 DEF XObjectsEnd, HeadIs, HeadMagic, qvars
  <2>2. list \in Seq(Item(Readable))
    BY DEF BaseInv, QInv, QTypeOK
  <2>3. Queued(list) # <<>> /\ Head(Queued(list)) = Unpack(r) /\ Queued(list) \in Seq(Readable)
    BY <2>1, <2>2, QueuedTail, QueuedType
  <2>4. Len(Queued(list)) > 0 /\ First = Unpack(r)
    <3> DEFINE q == Queued(list)
    <3>1. q # <<>> /\ Head(q) = Unpack(r) /\ q \in Seq(Readable)
      BY <2>3
    <3> HIDE DEF q
    <3>2. Len(q) > 0 /\ Head(q) = q[1]
      BY <3>1, HeadTailProperties, EmptySeq, LenProperties
    <3>3. QED
      BY <3>1, <3>2 DEF First, q
  <2>5. Unpack(r).magic = "DATF"
    BY <2>1, <2>2, HeadType, UnpackStands DEF BaseInv
  <2>6. QED
    BY <1>4, <2>1, <2>4, <2>5
<1>10. QED
  BY <1>5, <1>6, <1>7, <1>8, <1>9

\* A file system is at its end, or the directories are.
LEMMA CoverEndFS ==
  ASSUME BaseInv, BaseInv', CoverState, XEndFS
  PROVE  CoverState'
<1> USE DEF Elsewhere
<1>0. MainStep
  BY DEF MainStep
<1>1. xpc = "fsend" /\ counted' = counted
  BY DEF XEndFS
<1>2. /\ xpc \notin Over /\ Held = {} /\ AheadInv
      /\ Len(Queued(list)) > 0 /\ First.magic = "DATF"
  BY <1>1, NothingHeld DEF Over, FilePC, GroupPC, CoverState, AheadInv
<1>3. CASE IsFS
  <2>1. /\ xpc' = "filesystems" /\ fs' = fs + 1 /\ list # <<>> /\ RemoveHead
        /\ fs \in Nat
    BY <1>3 DEF XEndFS, queue_dequeue_header, HeadIs, BaseInv, MainTypeOK
  <2>2. First.magic = Head(list).val.magic /\ First.tree = Head(list).val.tree
    BY <1>0, <2>1, RestTaken
  <2>3. Covered' /\ RestMoves(TRUE)
    <3>1. /\ xpc' \notin Over /\ TRUE \in BOOLEAN /\ counted \subseteq counted'
          /\ Head(list).val.magic # "OBJT" /\ \A o \in Held \cap Due : o \in Held' \cup counted'
      BY <1>1, <1>2, <2>1, <2>2 DEF Over
    <3>2. QED
      BY <1>0, <1>2, <2>1, <3>1, CoverMove
  <2>4. RestFrom(fs)
    BY <1>1, <1>2, <1>3 DEF AheadInv, InObjects
  <2>5. First.tree >= fs /\ First.tree \in Nat
    <3>1. Head(list).val.tree \in Nat
      BY <2>1, HeadType DEF BaseInv, Record
    <3>2. QED
      BY <1>2, <2>2, <2>4, <3>1, FirstPlace
  <2>6. \A b \in Rest' : OnRest'[b].magic \in {"OBJT", "DATF"} => First.tree < OnRest'[b].tree
    BY <1>2, <1>3, <2>2, <2>3 DEF RestMoves
  <2>7. \A b \in Rest' : OnRest'[b].tree \in Nat
    BY RestReadableNext
  <2>8. RestFrom(fs)'
    <3>1. \A b \in Rest' : OnRest'[b].magic \in {"OBJT", "DATF"} => OnRest'[b].tree >= fs + 1
      BY <2>1, <2>5, <2>6, <2>7
    <3>2. QED
      BY <2>1, <3>1 DEF RestFrom, Later
  <2>9. AheadInv'
    BY <2>1, <2>3, <2>8 DEF AheadInv, RestMoves, FilePC
  <2>10. QED
    BY <2>3, <2>9 DEF CoverState
<1>4. CASE ~IsFS
  <2>1. xpc' = "final"
    BY <1>4 DEF XEndFS
  <2>2. Coming = {}
    BY <1>2, <1>4, FirstPlace DEF AheadInv
  <2>3. QED
    BY <1>0, <1>1, <1>2, <2>1, <2>2, CoverOver DEF Over
<1>5. QED
  BY <1>3, <1>4

\* A step on the way through the file.
LEMMA CoverInFile ==
  ASSUME BaseInv, BaseInv', HonestState, CoverState, MainStep, xpc \in FilePC, xpc' \in FilePC,
         file'.hdr = file.hdr, UNCHANGED <<fs, counted>>,
         xpc' = "footer" => BlocksAt(file.hdr) > 0,
         xpc = "counting" => xpc' = "counting",
         \/ UNCHANGED list
         \/ /\ list # <<>> /\ RemoveHead /\ Head(list).val.magic # "OBJT"
            /\ xpc' = "counting" \/ Head(list).val.magic # "FILF"
  PROVE  CoverState'
<1> DEFINE r == Head(list).val
<1>1. xpc \in InObjects /\ xpc' \in InObjects /\ xpc' # "fsend" /\ xpc \notin Over
  BY DEF FilePC, InObjects, Busy, Over
<1>2. Held = {This} /\ Held' = {This}
  BY DEF Held, InHand, This, ObjectOf
<1>3. Closing(file.hdr)' <=> Closing(file.hdr)
  BY DEF Closing, EndsFile, SavedAlone, KindAt, BlocksAt
<1>4. xpc' \in FilePC \ {"counting"} /\ Closing(file.hdr)' => FooterComes
  BY <1>1, <1>3 DEF CoverState, AheadInv
<1>5. xpc' = "footer" => BlocksAt(file.hdr)' > 0
  BY DEF BlocksAt, KindAt
<1>6. \A o \in Held \cap Due : o \in Held' \cup counted'
  BY <1>2
<1>7. TRUE \in BOOLEAN /\ FALSE \in BOOLEAN /\ counted \subseteq counted' /\ fs' = fs
  OBVIOUS
<1>8. CASE UNCHANGED list
  BY <1>1, <1>4, <1>5, <1>6, <1>7, <1>8, CoverWithin
<1>9. CASE /\ list # <<>> /\ RemoveHead /\ r.magic # "OBJT"
           /\ xpc' = "counting" \/ r.magic # "FILF"
  <2>1. list # <<>> /\ RemoveHead /\ r.magic # "OBJT" /\ (xpc' # "counting" => r.magic # "FILF")
    BY <1>9
  <2>2. xpc' \in FilePC \ {"counting"} /\ Closing(file.hdr)' => FooterComes /\ r.magic # "FILF"
    BY <1>4, <2>1
  <2>3. QED
    BY <1>1, <1>5, <1>6, <1>7, <2>1, <2>2, CoverWithin
<1>10. QED
  BY <1>8, <1>9

\* The file is opened, and counted in the end.
LEMMA CoverFileEnds ==
  ASSUME BaseInv, BaseInv', HonestState, CoverState, Hopeful', XOpenFile \/ XCountFile
  PROVE  CoverState'
<1> USE DEF XGoto, Elsewhere
<1> DEFINE r == Head(list).val
           o == ObjectOf(r)
<1>0. MainStep
  BY DEF MainStep
<1>1. CASE XOpenFile
  <2>1. /\ xpc = "objects" /\ xpc' = "file" /\ list # <<>> /\ RemoveHead /\ file'.hdr = r
        /\ UNCHANGED <<fs, counted>>
    BY <1>1 DEF XOpenFile, Taking, queue_dequeue_header, HeadIs, NoFile
  <2>2. /\ xpc \in InObjects /\ xpc' \in InObjects /\ xpc' # "fsend" /\ xpc' # "footer"
        /\ xpc' \in FilePC /\ xpc \notin FilePC \cup GroupPC
        /\ counted \subseteq counted' /\ fs' = fs
    BY <2>1 DEF InObjects, Busy, FilePC, GroupPC
  <2>3. Held = {}
    BY <2>2, NothingHeld
  <2>4. Held' = {o}
    BY <2>1, <2>2 DEF Held, InHand, ObjectOf
  <2>5. Closing(file.hdr)' => Closing(r)
    BY <2>1 DEF Closing, EndsFile, SavedAlone, KindAt, BlocksAt
  <2>6. TRUE \in BOOLEAN /\ o \in Held' \cup counted'
    BY <2>4
  <2>7. \A p \in Held \cap Due : p \in Held' \cup counted'
    BY <2>3
  <2>8. QED
    BY <1>0, <2>1, <2>2, <2>5, <2>6, <2>7, CoverWithin
<1>2. CASE XCountFile
  <2>1. /\ xpc = "counting" /\ xpc' = "next" /\ UNCHANGED <<list, fs>>
        /\ counted' = (IF This \in Excluded \/ file.minor THEN counted ELSE counted \cup {This})
        /\ failed' = IF This \notin Excluded /\ file.minor THEN failed \cup {This} ELSE failed
    BY <1>2 DEF XCountFile, qvars
  <2>2. /\ xpc \in InObjects /\ xpc' \in InObjects /\ xpc' # "fsend" /\ xpc' # "footer"
        /\ xpc' \notin FilePC /\ fs' = fs /\ Held = {This}
    <3>1. xpc \in FilePC
      BY <2>1 DEF FilePC
    <3>2. Held = {This}
      BY <3>1, NothingHeld
    <3>3. QED
      BY <2>1, <3>2 DEF InObjects, Busy, FilePC
  <2>3. failed' = {}
    BY DEF Hopeful
  <2>4. ~(This \notin Excluded /\ file.minor)
    <3> DEFINE p == This
    <3>1. (p \notin Excluded /\ file.minor) => failed' = failed \cup {p}
      BY <2>1
    <3> HIDE DEF p
    <3>2. ~(p \notin Excluded /\ file.minor)
      BY <2>3, <3>1
    <3>3. QED
      BY <3>2 DEF p
  <2>5. This \in Excluded \/ This \in counted'
    BY <2>1, <2>4
  <2>6. \A p \in Held \cap Due : p \in Held' \cup counted'
    BY <2>2, <2>5 DEF Due
  <2>7. counted \subseteq counted' /\ FALSE \in BOOLEAN
    BY <2>1
  <2>8. QED
    BY <1>0, <2>1, <2>2, <2>6, <2>7, CoverWithin
<1>3. QED
  BY <1>1, <1>2

\* The blocks, the footer and what is between.
LEMMA CoverFile ==
  ASSUME BaseInv, BaseInv', HonestState, CoverState,
         XBlockLoop \/ XBlock \/ XBlockMissing \/ XClose \/ XFooter
  PROVE  CoverState'
<1> USE DEF XGoto, Elsewhere
<1> DEFINE r == Head(list).val
<1>0. MainStep
  BY DEF MainStep
<1>1. /\ xpc \in FilePC \ {"counting"} /\ xpc' \in FilePC /\ UNCHANGED <<fs, counted>>
      /\ xpc' = "footer" => BlocksAt(file.hdr) > 0
  BY DEF XBlockLoop, XBlock, XBlockMissing, XClose, XFooter, FilePC
<1>2. file'.hdr = file.hdr
  <2>1. file \in [hdr : Record, data : Seq(Record), closed : BOOLEAN, minor : BOOLEAN,
                  del : BOOLEAN]
    BY DEF BaseInv, MainTypeOK
  <2>2. QED
    BY <2>1 DEF XBlockLoop, XBlock, XBlockMissing, XClose, XFooter
<1>3. CASE UNCHANGED list
  BY <1>0, <1>1, <1>2, <1>3, CoverInFile
<1>4. CASE XBlock
  <2>1. list # <<>> /\ RemoveHead /\ Head(list).type = "block"
    BY <1>4 DEF XBlock, queue_dequeue_block, HeadIs
  <2>2. r.magic = "BLKH"
    <3>1. list \in Seq(Item(Readable))
      BY DEF BaseInv, QInv, QTypeOK
    <3>2. Head(list) = list[1] /\ 1 \in DOMAIN list
      BY <2>1, <3>1, HeadTailProperties, EmptySeq, LenProperties
    <3>3. QED
      BY <2>1, <3>2 DEF HonestState, BlockTypes
  <2>3. QED
    BY <1>0, <1>1, <1>2, <2>1, <2>2, CoverInFile
<1>5. CASE XFooter /\ queue_dequeue_header
  <2>1. xpc = "footer" /\ xpc' = "counting" /\ list # <<>> /\ RemoveHead
    BY <1>5 DEF XFooter, queue_dequeue_header, HeadIs
  <2>2. Closing(file.hdr)
    <3>1. file.hdr.magic = "OBJT" /\ KindAt(file.hdr) \in {"unique", "self"}
          /\ NamesObject(file.hdr)
      BY <1>1, FileFacts
    <3>2. BlocksAt(file.hdr) > 0
      BY <2>1 DEF CoverState, AheadInv, Over
    <3>3. file.hdr.objs # <<>>
      BY <3>1, EmptySeq DEF NamesObject
    <3>4. QED
      BY <3>1, <3>2, <3>3 DEF Closing, EndsFile, SavedAlone
  <2>3. FooterComes
    BY <2>1, <2>2 DEF CoverState, AheadInv, Over, FilePC
  <2>4. Len(Queued(list)) > 0 /\ First.magic = r.magic
    BY <1>0, <2>1, RestTaken
  <2>5. r.magic # "OBJT"
    BY <2>3, <2>4, FirstPlace
  <2>6. QED
    BY <1>0, <1>1, <1>2, <2>1, <2>5, CoverInFile
<1>6. QED
  <2>1. XBlockLoop \/ XBlockMissing \/ XClose \/ (XFooter /\ ~queue_dequeue_header)
        => UNCHANGED list
    BY DEF XBlockLoop, XBlockMissing, XClose, XFooter, queue_dequeue_fails, qvars
  <2>2. QED
    BY <1>3, <1>4, <1>5, <2>1

\* The headers of a group come into the hand, and the block behind them.
LEMMA CoverGroup ==
  ASSUME BaseInv, BaseInv', HonestState, CoverState, XFirstSmallFile \/ XGroupHeader \/ XGroupBlock
  PROVE  CoverState'
<1> USE DEF XGoto, Elsewhere
<1> DEFINE r == Head(list).val
           o == ObjectOf(r)
<1>0. MainStep
  BY DEF MainStep
<1>1. /\ xpc \in {"objects", "group"} /\ xpc' \in GroupPC /\ list # <<>> /\ RemoveHead
      /\ UNCHANGED <<fs, counted>>
  BY DEF XFirstSmallFile, XGroupHeader, XGroupBlock, Taking, Expect, queue_dequeue_header,
         queue_dequeue_block, HeadIs, GroupPC
<1>2. /\ xpc \in InObjects /\ xpc' \in InObjects /\ xpc' # "fsend" /\ xpc' # "footer"
      /\ xpc' \notin FilePC /\ fs' = fs /\ counted \subseteq counted'
      /\ InHand' = group' /\ (xpc \in GroupPC => InHand = group)
      /\ TRUE \in BOOLEAN
  BY <1>1 DEF InObjects, Busy, FilePC, GroupPC, InHand
<1>3. ASSUME Held \subseteq Held', r.magic = "OBJT" => o \in Held'
      PROVE  CoverState'
  <2>1. \A p \in Held \cap Due : p \in Held' \cup counted'
    BY <1>3
  <2>2. r.magic = "OBJT" /\ o \in Due => o \in Held' \cup counted'
    BY <1>3
  <2>3. QED
    BY <1>0, <1>1, <1>2, <2>1, <2>2, CoverWithin
<1>4. CASE XFirstSmallFile
  <2>1. xpc = "objects" /\ group' = <<r>>
    BY <1>4 DEF XFirstSmallFile, Taking
  <2>2. Held = {}
    BY <2>1, NothingHeld DEF FilePC, GroupPC
  <2>3. Held' = {o}
    <3>1. Held' = {ObjectOf(group'[k]) : k \in DOMAIN group'}
      BY <1>2 DEF Held, ObjectOf
    <3>2. QED
      BY <2>1, <3>1
  <2>4. QED
    BY <1>3, <2>2, <2>3
<1>5. Held' = {ObjectOf(group'[k]) : k \in DOMAIN group'}
  BY <1>2 DEF Held, ObjectOf
<1>6. xpc \in GroupPC => Held = {ObjectOf(group[k]) : k \in DOMAIN group}
  BY <1>2 DEF Held
<1>7. CASE XGroupHeader
  <2> DEFINE g == group
             g2 == group'
  <2>1. xpc = "group" /\ g2 = Append(g, r) /\ g \in Seq(Record) /\ r \in Record
    BY <1>1, <1>7, HeadType DEF XGroupHeader, BaseInv, MainTypeOK
  <2>2. xpc \in GroupPC
    BY <2>1 DEF GroupPC
  <2> HIDE DEF g, g2, r
  <2>3. /\ Len(g) \in Nat /\ DOMAIN g = 1 .. Len(g)
        /\ DOMAIN g2 = 1 .. Len(g) + 1
        /\ \A k \in 1 .. Len(g) : g2[k] = g[k]
        /\ g2[Len(g) + 1] = r
    <3>1. /\ Append(g, r) \in Seq(Record) /\ Len(Append(g, r)) = Len(g) + 1
          /\ \A k \in 1 .. Len(g) : Append(g, r)[k] = g[k]
          /\ Append(g, r)[Len(g) + 1] = r
      BY <2>1, AppendProperties
    <3>2. QED
      BY <2>1, <3>1, LenProperties
  <2>4. {ObjectOf(g[k]) : k \in DOMAIN g} \subseteq {ObjectOf(g2[k]) : k \in DOMAIN g2}
    BY <2>3
  <2>5. ObjectOf(r) \in {ObjectOf(g2[k]) : k \in DOMAIN g2}
    BY <2>3
  <2>6. QED
    BY <1>3, <1>5, <1>6, <2>2, <2>4, <2>5 DEF g, g2, r
<1>8. CASE XGroupBlock
  <2>1. xpc = "group" /\ group' = group /\ Head(list).type = "block"
    BY <1>8 DEF XGroupBlock, queue_dequeue_block
  <2>2. r.magic = "BLKH"
    <3>1. list \in Seq(Item(Readable))
      BY DEF BaseInv, QInv, QTypeOK
    <3>2. Head(list) = list[1] /\ 1 \in DOMAIN list
      BY <1>1, <3>1, HeadTailProperties, EmptySeq, LenProperties
    <3>3. QED
      BY <2>1, <3>2 DEF HonestState, BlockTypes
  <2>3. xpc \in GroupPC
    BY <2>1 DEF GroupPC
  <2>4. QED
    BY <1>3, <1>5, <1>6, <2>1, <2>2, <2>3
<1>9. QED
  BY <1>4, <1>7, <1>8

\* A small file is made of what is in hand, and counted.
LEMMA CoverSmallFile ==
  ASSUME BaseInv, BaseInv', HonestState, CoverState, Hopeful', XSmallFile
  PROVE  CoverState'
<1> USE DEF XGoto, Elsewhere
<1> DEFINE g == group
           g2 == group'
           o == ObjectOf(Head(g))
<1>0. MainStep
  BY DEF MainStep
<1>1. /\ xpc = "smallfiles" /\ xpc' = (IF Len(g) > 1 THEN "smallfiles" ELSE "next")
      /\ UNCHANGED <<list, fs>> /\ counted \subseteq counted'
      /\ g2 = Tail(g)
  BY DEF XSmallFile, qvars
<1>2. g \in Seq(Record) /\ g # <<>>
  BY <1>1 DEF BaseInv, MainTypeOK, TakenExist
<1>3. /\ xpc \in InObjects /\ xpc' \in InObjects /\ xpc' # "fsend" /\ xpc' # "footer"
      /\ xpc' \notin FilePC /\ fs' = fs
      /\ InHand = g /\ (xpc' = "smallfiles" => InHand' = g2)
      /\ FALSE \in BOOLEAN
  BY <1>1 DEF InObjects, Busy, FilePC, GroupPC, InHand
<1>4. Held = {ObjectOf(g[k]) : k \in DOMAIN g}
  BY <1>3 DEF Held
<1>5. Len(g) > 1 => Held' = {ObjectOf(g2[k]) : k \in DOMAIN g2}
  BY <1>1, <1>3 DEF Held, ObjectOf
<1>6. o \in Due => o \in counted'
  <2>1. PICK out \in SmallFileOutcomes(Head(g)) :
           /\ counted' = (IF out.count = "ok" THEN counted \cup {o} ELSE counted)
           /\ failed' = IF out.count = "error" THEN failed \cup {o} ELSE failed
    BY DEF XSmallFile
  <2>2. o \in Excluded \/ out.count \in {"ok", "error"}
    BY DEF SmallFileOutcomes
  <2> HIDE DEF o, g
  <2>3. out.count # "error"
    BY <2>1 DEF Hopeful
  <2>4. QED
    BY <2>1, <2>2, <2>3 DEF Due
<1> HIDE DEF g, g2
<1>7. /\ Len(g) \in Nat /\ DOMAIN g = 1 .. Len(g) /\ Len(g) > 0
      /\ o = ObjectOf(g[1])
      /\ DOMAIN g2 = 1 .. Len(g) - 1
      /\ \A k \in 1 .. Len(g) - 1 : g2[k] = g[k + 1]
  <2>1. /\ Len(g) \in Nat \ {0} /\ Head(g) = g[1] /\ DOMAIN g = 1 .. Len(g)
        /\ Tail(g) \in Seq(Record) /\ Len(Tail(g)) = Len(g) - 1
        /\ \A k \in 1 .. Len(Tail(g)) : Tail(g)[k] = g[k + 1]
    BY <1>2, HeadTailProperties, EmptySeq, LenProperties
  <2>2. DOMAIN Tail(g) = 1 .. Len(Tail(g))
    BY <2>1, LenProperties
  <2>3. QED
    BY <1>1, <2>1, <2>2
<1>8. ASSUME NEW p \in Held
      PROVE  p = o \/ p \in Held'
  <2>1. PICK k \in 1 .. Len(g) : p = ObjectOf(g[k])
    BY <1>4, <1>7
  <2>2. CASE k = 1
    BY <1>7, <2>1, <2>2
  <2>3. CASE k # 1
    <3>1. k - 1 \in 1 .. Len(g) - 1 /\ g2[k - 1] = g[k] /\ Len(g) > 1
      <4>1. k - 1 \in 1 .. Len(g) - 1 /\ (k - 1) + 1 = k /\ Len(g) > 1
        BY <1>7, <2>3
      <4>2. g2[k - 1] = g[(k - 1) + 1]
        BY <1>7, <4>1
      <4>3. QED
        BY <4>1, <4>2
    <3>2. p \in {ObjectOf(g2[j]) : j \in DOMAIN g2}
      BY <1>7, <2>1, <3>1
    <3>3. QED
      BY <1>5, <3>1, <3>2
  <2>4. QED
    BY <2>2, <2>3
<1>9. \A p \in Held \cap Due : p \in Held' \cup counted'
  BY <1>6, <1>8
<1>10. QED
  BY <1>0, <1>1, <1>3, <1>9, CoverWithin

\* Every step of the main thread.
LEMMA CoverMain ==
  ASSUME BaseInv, BaseInv', SuitInv, HonestState, CoverState, Hopeful', MainStep
  PROVE  CoverState'
<1>1. CASE XFinal \/ XAskToStop \/ XAwaitBlocks \/ XDrain \/ XDestroy \/ XJoin
  <2>1. xpc \in Over /\ xpc' \in Over /\ counted' = counted
    BY <1>1 DEF XFinal, XAskToStop, XAwaitBlocks, XDrain, XDestroy, XJoin, XGoto, Aside, Over
  <2>2. QED
    BY <2>1, CoverOver
<1>2. ~Fails
  BY FailsHopeless
<1>3. QED
  BY <1>1, <1>2, CoverStart, CoverObjects, CoverEndFS, CoverFileEnds, CoverFile, CoverGroup,
     CoverSmallFile
  DEF MainStep, Fails

\* The other threads add nothing and take nothing.
LEMMA CoverOthers ==
  ASSUME BaseInv, CoverState, UNCHANGED <<archive, job, xvars>>, RestKept(FALSE), FirstKept
  PROVE  CoverState'
<1>1. Due' = Due /\ UNCHANGED <<xpc, fs, file, group, counted>>
  BY DueSame DEF xvars
<1>2. Held' = Held
  BY <1>1 DEF Held, InHand, ObjectOf
<1>3. \A o \in Coming : o \in Coming'
  BY DEF RestKept
<1>4. Covered'
  BY <1>1, <1>2, <1>3 DEF CoverState, Covered
<1>5. ASSUME xpc \notin Over
      PROVE  AheadInv'
  <2>1. AheadInv
    BY <1>5 DEF CoverState
  <2>2. RestOrderly'
    BY <2>1 DEF AheadInv, RestKept
  <2>3. RestFrom(fs) => RestFrom(fs)'
    <3>1. \A n : RestFrom(n) => RestFrom(n)'
      BY DEF RestKept
    <3>2. QED
      BY <1>1, <3>1 DEF RestFrom
  <2>4. FooterComes => FooterComes'
    BY DEF RestKept
  <2>5. Closing(file.hdr)' <=> Closing(file.hdr)
    BY <1>1 DEF Closing, EndsFile, SavedAlone, KindAt, BlocksAt
  <2>6. BlocksAt(file.hdr)' = BlocksAt(file.hdr)
    BY <1>1 DEF KindAt, BlocksAt
  <2>7. xpc = "fsend" => Len(Queued(list)') > 0 /\ First'.magic = "DATF"
    BY <2>1 DEF AheadInv, FirstKept
  <2>8. QED
    BY <1>1, <2>1, <2>2, <2>3, <2>4, <2>5, <2>6, <2>7 DEF AheadInv
<1>6. QED
  BY <1>1, <1>4, <1>5 DEF CoverState

\* Every step.
LEMMA CoverStep ==
  ASSUME BaseInv, BaseInv', OwnInv, SuitInv, ReadInv, HonestInv, CoverInv, [Next]_vars
  PROVE  CoverInv'
<1>1. ResultInv'
  BY ResultStep DEF CoverInv
<1>2. ASSUME Hopeful'
      PROVE  CoverState'
  <2>1. Hopeful /\ damaged = {} /\ damaged' = {}
    BY <1>2, HopefulBefore DEF CoverInv, Hopeful
  <2>2. CoverState /\ HonestState
    BY <2>1 DEF CoverInv, HonestInv, BeginningsRead
  <2>3. CASE MainStep
    BY <1>2, <2>2, <2>3, CoverMain
  <2>4. CASE ReaderStep \/ RAsk
    BY <2>1, <2>2, <2>4, ReaderOthers, RestReader, CoverOthers
  <2>5. CASE \E t \in DecompThreads : DecompStep(t)
    BY <2>1, <2>2, <2>5, DecompOthers, RestDecomp, CoverOthers
  <2>6. CASE Signal \/ Done \/ UNCHANGED vars
    <3>1. UNCHANGED <<qvars, xvars, archive, job, rvars>>
      BY <2>6 DEF Signal, Done, vars
    <3>2. UNCHANGED <<list, rvol, rpc, rpos>>
      BY <3>1 DEF qvars, rvars
    <3>3. At' = At /\ Queued(list)' = Queued(list)
      BY <3>2 DEF At, Queued
    <3>4. Unread' = Unread
      BY <3>1, <3>2, <3>3, SameUnread
    <3>5. QED
      BY <2>2, <3>1, <3>3, <3>4, RestStill, CoverOthers
  <2>7. QED
    BY <2>3, <2>4, <2>5, <2>6 DEF Next
<1>3. QED
  BY <1>1, <1>2 DEF CoverInv

\* At the beginning all the records that are wanted are to come, as they are in the
\* archive.
LEMMA CoverFresh ==
  ASSUME Fresh, Unbroken(archive)
  PROVE  CoverInv
<1> SUFFICES ASSUME BaseInv PROVE CoverInv
  BY BaseFresh
<1>1. /\ list = <<>> /\ xpc = "start" /\ ret = 0 /\ objerrs = FALSE
      /\ rvol = 1 /\ At = 1 /\ Unbroken(archive)
  BY DEF Fresh, IdleInit, queue_init, At
<1>2. Queued(list) = <<>> /\ Len(<<>>) = 0
  BY <1>1, EmptySeq DEF Queued
<1> DEFINE U == Unread
           q == Queued(list)
           P == Places(archive)
           R(a) == RecordAt(archive, a)
<1>3. LineTypes(<<>>, q, U, archive)
  BY LineTypesNow, EmptySeq DEF LineTypes
<1>4. IsLine(Rest, OnRest, <<>>, q, U, archive)
  BY <1>3, LinePlaces DEF LineTypes, Rest, OnRest
<1>5. Len(q) = 0
  BY <1>2
<1>6. \A a \in P : ~Before(a, <<rvol, At>>)
  <2> SUFFICES ASSUME NEW a \in P PROVE ~Before(a, <<rvol, At>>)
    OBVIOUS
  <2>1. PICK v \in DOMAIN archive : \E p \in DOMAIN archive[v].recs : a = <<v, p>>
    BY DEF Places
  <2>2. PICK p \in DOMAIN archive[v].recs : a = <<v, p>>
    BY <2>1
  <2>3. v \in 1 .. Len(archive) /\ p \in 1 .. Len(archive[v].recs)
    BY VolumeType DEF BaseInv
  <2>4. Len(archive) \in Nat /\ Len(archive[v].recs) \in Nat
    BY <2>3, VolumeType, LenProperties DEF BaseInv, ArchiveOK
  <2>5. QED
    BY <1>1, <2>2, <2>3, <2>4 DEF Before
<1>7. \A a : a \in U <=> a \in P /\ Wanted(R(a))
  BY <1>6 DEF Unread
<1>8. /\ \A a, b \in P : Before(a, b) => EndsApart(R(a), R(b))
      /\ \A a, b \in P : Before(a, b) /\ Closing(R(a)) /\ R(b).magic = "OBJT" =>
           \E c \in P : Before(a, c) /\ Before(c, b) /\ Footer(R(c), R(a))
  BY <1>1 DEF Unbroken
<1> HIDE DEF U, q
<1>9. \A a : a \in Rest <=> a \in U
  BY <1>4, <1>5 DEF IsLine
<1>10. \A a \in U : OnRest[a] = R(a)
  BY <1>4 DEF IsLine
<1> HIDE DEF P, R
<1>11. RestOrderly
  <2>1. AllWanted(Rest, OnRest)
    BY <1>7, <1>9, <1>10 DEF AllWanted
  <2>2. Apart(Rest, OnRest)
    BY <1>7, <1>8, <1>9, <1>10 DEF Apart
  <2>3. ASSUME NEW a \in Rest, NEW b \in Rest, Before(a, b), Closing(OnRest[a]),
               OnRest[b].magic = "OBJT"
        PROVE  \E c \in Rest : Before(a, c) /\ Before(c, b) /\ OnRest[c].magic = "FILF"
    <3>1. PICK c \in P : Before(a, c) /\ Before(c, b) /\ Footer(R(c), R(a))
      BY <1>7, <1>8, <1>9, <1>10, <2>3
    <3>2. R(c).tree = R(a).tree /\ R(a).magic = "OBJT" /\ Wanted(R(a)) /\ R(c).magic = "FILF"
      BY <1>7, <1>9, <1>10, <2>3, <3>1 DEF Footer, SameObject, Closing
    <3>3. Wanted(R(c))
      BY <3>2 DEF Wanted, Global, fsid
    <3>4. QED
      BY <1>7, <1>9, <1>10, <3>1, <3>2, <3>3
  <2>4. Followed(Rest, OnRest)
    BY <2>3 DEF Followed
  <2>5. QED
    BY <2>1, <2>2, <2>4 DEF RestOrderly, Orderly
<1>12. ASSUME NEW o \in Due
       PROVE  o \in Coming
  <2>1. PICK v \in DOMAIN archive : \E p \in DOMAIN archive[v].recs :
          archive[v].recs[p].magic = "OBJT" /\ ObjectOf(archive[v].recs[p]) = o
    BY DEF Due, InArchive
  <2>2. PICK p \in DOMAIN archive[v].recs :
          archive[v].recs[p].magic = "OBJT" /\ ObjectOf(archive[v].recs[p]) = o
    BY <2>1
  <2> DEFINE a == <<v, p>>
  <2>3. a \in P /\ R(a).magic = "OBJT" /\ ObjectOf(R(a)) = o
    BY <2>2 DEF P, R, Places, RecordAt
  <2> HIDE DEF a
  <2>4. /\ job.oper \in {"restfs", "restdir"} /\ (IsFS <=> job.oper = "restfs")
        /\ IsFS => R(a).tree \in job.wanted
    <3>1. Asked(o) /\ job.oper \in {"restfs", "restdir", "archinfo"}
      BY DEF Due, BaseInv, Job
    <3>2. o[1] = R(a).tree
      BY <2>3 DEF ObjectOf
    <3>3. QED
      BY <3>1, <3>2 DEF Asked, JobSuits
  <2>5. Wanted(R(a))
    BY <2>4 DEF Wanted, fsid, g_fsbitmap
  <2>6. a \in Rest /\ OnRest[a] = R(a)
    BY <1>7, <1>9, <1>10, <2>3, <2>5
  <2>7. QED
    BY <2>3, <2>6 DEF Coming, Ahead
<1>13. CoverState
  <2>1. xpc \notin Over
    BY <1>1 DEF Over
  <2>2. Covered
    BY <1>12, <2>1 DEF Covered
  <2>3. AheadInv
    BY <1>1, <1>11 DEF AheadInv, InObjects, Busy, FilePC
  <2>4. QED
    BY <2>2, <2>3 DEF CoverState
<1>14. ResultInv
  BY <1>1 DEF ResultInv
<1>15. QED
  BY <1>13, <1>14 DEF CoverInv

\* The invariant is as strong as the property.
LEMMA CoverImplies ==
  ASSUME BaseInv, HonestInv, CoverInv
  PROVE  SuccessRestoresAll
<1> SUFFICES ASSUME xpc = "done", ret = 0, damaged = {}, NEW o \in Due
             PROVE  disk[o] = "right"
  BY DEF SuccessRestoresAll
<1>1. failed = {} /\ Hopeful
  BY DEF CoverInv, ResultInv, Hopeful, Over
<1>2. o \in counted
  BY <1>1 DEF CoverInv, CoverState, Covered, Over
<1>3. DiskInv
  BY DEF HonestInv, BeginningsRead, HonestState
<1>4. Right(o)
  BY <1>2, <1>3 DEF DiskInv
<1>5. disk[o] \notin {"wrong", "empty"}
  BY <1>1, <1>3 DEF DiskInv, FilePC, Due
<1>6. disk[o] \in {"old", "absent", "wrong", "empty", "right"}
  BY DEF BaseInv, MainTypeOK, Due
<1>7. QED
  BY <1>4, <1>5, <1>6 DEF Right

LEMMA CoverNext == RestoreInv /\ CoverInv /\ [Next]_vars => CoverInv'
<1>1. RestoreInv /\ [Next]_vars => BaseInv'
  BY BaseStep DEF RestoreInv
<1>2. QED
  BY <1>1, CoverStep DEF RestoreInv

\* In every behaviour, of archives in which behind each header of a file with blocks
\* its footer comes before the next object, and behind the end of a file system only
\* later ones: when the operation returns success and no record was damaged, every
\* object that was asked for and is not excluded is restored with its contents,
\* whatever signals, failures and interleavings there were.
THEOREM SuccessCorrect ==
  ASSUME \A ar \in Archives : Unbroken(ar)
  PROVE  Spec => []SuccessRestoresAll
<1>1. Init => RestoreInv /\ CoverInv
  <2>1. Init => Fresh /\ Unbroken(archive)
    BY InitFresh DEF Init
  <2>2. QED
    BY <2>1, RestoreFresh, CoverFresh
<1>2. RestoreInv /\ CoverInv /\ [Next]_vars => RestoreInv' /\ CoverInv'
  BY RestoreStep, CoverNext
<1>3. RestoreInv /\ CoverInv => SuccessRestoresAll
  BY CoverImplies DEF RestoreInv
<1>4. QED
  BY <1>1, <1>2, <1>3, PTL DEF Spec
=============================================================================
