--------------------------- MODULE CQueue_proofs ---------------------------
(***************************************************************************)
(* Every operation of the queue preserves its type and QueueSound, for any *)
(* limit and any values in the items.                                      *)
(***************************************************************************)
EXTENDS CQueue, FiniteSetTheorems, SequenceTheorems, TLAPS

\* What the operations have to preserve, for items that carry values of Val.
QInv(Val) == QTypeOK(Val) /\ QueueSound

\* What an element of a list is.
LEMMA ItemAt ==
  ASSUME NEW Val, NEW q \in Seq(Item(Val)), NEW i \in DOMAIN q
  PROVE  /\ i \in Nat \ {0} /\ i <= Len(q)
         /\ q[i] \in Item(Val)
         /\ q[i].num \in Nat \ {0}
<1>1. i \in 1 .. Len(q) /\ Len(q) \in Nat
  BY LenProperties
<1>2. q[i] \in Item(Val)
  BY <1>1, ElementOfSeq
<1>3. QED
  BY <1>1, <1>2 DEF Item

\* The block numbers of a list form a finite set.
LEMMA BlockNumsFinite ==
  ASSUME NEW Val, NEW q \in Seq(Item(Val)), NEW n \in Nat,
         \A i \in DOMAIN q : q[i].num < n
  PROVE  /\ IsFiniteSet(BlockNums(q))
         /\ Cardinality(BlockNums(q)) \in Nat
<1>1. BlockNums(q) \subseteq 0 .. n
  <2>1. \A i \in DOMAIN q : q[i].num \in Nat
    BY ItemAt
  <2>2. QED
    BY <2>1 DEF BlockNums
<1>2. IsFiniteSet(0 .. n)
  BY FS_Interval
<1>3. QED
  BY <1>1, <1>2, FS_Subset, FS_CardinalityType

\* Appending an item adds its number when it is a block.
LEMMA BlockNumsAppend ==
  ASSUME NEW Val, NEW q \in Seq(Item(Val)), NEW e \in Item(Val)
  PROVE  BlockNums(Append(q, e)) =
           IF e.type = "block" THEN BlockNums(q) \cup {e.num} ELSE BlockNums(q)
<1> DEFINE a == Append(q, e)
<1>1. /\ Len(a) = Len(q) + 1
      /\ DOMAIN a = 1 .. Len(q) + 1 /\ DOMAIN q = 1 .. Len(q) /\ Len(q) \in Nat
      /\ \A i \in 1 .. Len(q) : a[i] = q[i]
      /\ a[Len(q) + 1] = e
  BY AppendProperties, LenProperties
<1> HIDE DEF a
<1>2. DOMAIN a = DOMAIN q \cup {Len(q) + 1}
  BY <1>1
<1>3. BlockNums(a) = IF e.type = "block" THEN BlockNums(q) \cup {e.num} ELSE BlockNums(q)
  BY <1>1, <1>2 DEF BlockNums
<1>4. QED
  BY <1>3 DEF a

\* Removing the head removes its number when it is a block.
LEMMA BlockNumsTail ==
  ASSUME NEW Val, NEW q \in Seq(Item(Val)), q # <<>>,
         \A i, j \in DOMAIN q : i < j => q[i].num < q[j].num
  PROVE  BlockNums(Tail(q)) =
           IF Head(q).type = "block" THEN BlockNums(q) \ {Head(q).num} ELSE BlockNums(q)
<1> DEFINE t == Tail(q)
<1>1. /\ Len(q) \in Nat \ {0} /\ DOMAIN q = 1 .. Len(q)
      /\ DOMAIN t = 1 .. Len(q) - 1
      /\ \A i \in 1 .. Len(q) - 1 : t[i] = q[i + 1]
      /\ Head(q) = q[1]
  BY HeadTailProperties, LenProperties, EmptySeq
<1> HIDE DEF t
<1>2. \A i \in DOMAIN q : q[i].num \in Nat
  BY ItemAt
<1>3. BlockNums(t) = {q[i].num : i \in {j \in 2 .. Len(q) : q[j].type = "block"}}
  <2>1. ASSUME NEW x \in BlockNums(t)
        PROVE  x \in {q[i].num : i \in {j \in 2 .. Len(q) : q[j].type = "block"}}
    <3>1. PICK i \in 1 .. Len(q) - 1 : t[i].type = "block" /\ x = t[i].num
      BY <2>1, <1>1 DEF BlockNums
    <3>2. i + 1 \in 2 .. Len(q) /\ q[i + 1].type = "block" /\ x = q[i + 1].num
      BY <3>1, <1>1
    <3>3. QED
      BY <3>2
  <2>2. ASSUME NEW i \in 2 .. Len(q), q[i].type = "block"
        PROVE  q[i].num \in BlockNums(t)
    <3>1. i - 1 \in DOMAIN t /\ t[i - 1] = q[i]
      BY <1>1
    <3>2. QED
      BY <3>1, <2>2 DEF BlockNums
  <2>3. QED
    BY <2>1, <2>2
<1>4. \A i \in 2 .. Len(q) : q[i].num # q[1].num
  BY <1>1, <1>2
<1>5. BlockNums(q) = BlockNums(t)
                       \cup (IF q[1].type = "block" THEN {q[1].num} ELSE {})
  <2> DEFINE J == {j \in 2 .. Len(q) : q[j].type = "block"}
  <2>1. {j \in DOMAIN q : q[j].type = "block"} = J \cup (IF q[1].type = "block" THEN {1} ELSE {})
    BY <1>1
  <2>2. BlockNums(t) = {q[j].num : j \in J}
    BY <1>3
  <2> HIDE DEF J
  <2>3. QED
    BY <2>1, <2>2 DEF BlockNums
<1>6. q[1].num \notin BlockNums(t)
  BY <1>3, <1>4
<1>7. QED
  BY <1>1, <1>5, <1>6 DEF t

-----------------------------------------------------------------------------
\* queue_init makes a sound queue.
LEMMA InitSound ==
  ASSUME NEW Val, queue_init
  PROVE  QInv(Val)
<1>1. list \in Seq(Item(Val)) /\ DOMAIN list = {} /\ Len(list) = 0
  BY EmptySeq DEF queue_init
<1>2. BlockNums(list) = {}
  BY <1>1 DEF BlockNums
<1>3. Cardinality(BlockNums(list)) = 0
  BY <1>2, FS_EmptySet
<1>4. QTypeOK(Val)
  <2>1. curitemnum \in Nat \ {0} /\ itemcount \in Nat /\ blkcount \in Nat
    BY DEF queue_init
  <2>2. endofqueue \in BOOLEAN
    BY DEF queue_init
  <2>3. QED
    BY <1>1, <2>1, <2>2 DEF QTypeOK
<1>5. QueueSound
  BY <1>1, <1>3, BlkMaxAssumption DEF queue_init, QueueSound
<1>6. QED
  BY <1>4, <1>5 DEF QInv

\* A new item gets the greatest number; it goes into the list only when there
\* are blkmax blocks or fewer.
LEMMA AppendItemSound ==
  ASSUME NEW Val, QInv(Val), ~QueueFull,
         NEW t \in {"block", "header"}, NEW st \in {"todo", "progress", "done"},
         NEW v \in Val, AppendItem(t, st, v),
         blkcount' = IF t = "block" THEN blkcount + 1 ELSE blkcount
  PROVE  QInv(Val)'
<1> DEFINE e == [num |-> curitemnum, type |-> t, status |-> st, val |-> v]
<1> USE DEF QInv
<1>1. /\ list' = Append(list, e)
      /\ curitemnum' = curitemnum + 1 /\ itemcount' = itemcount + 1
      /\ endofqueue' = endofqueue
  BY DEF AppendItem
<1>2. list \in Seq(Item(Val)) /\ e \in Item(Val) /\ curitemnum \in Nat \ {0}
  BY DEF QTypeOK, Item
<1>a. e.num = curitemnum /\ e.type = t
  OBVIOUS
<1> HIDE DEF e
<1>3. /\ list' \in Seq(Item(Val))
      /\ Len(list') = Len(list) + 1 /\ Len(list) \in Nat
      /\ DOMAIN list' = 1 .. Len(list) + 1 /\ DOMAIN list = 1 .. Len(list)
      /\ \A i \in 1 .. Len(list) : list'[i] = list[i]
      /\ list'[Len(list) + 1] = e
  BY <1>1, <1>2, AppendProperties, LenProperties
<1>4. QTypeOK(Val)'
  BY <1>1, <1>3 DEF QTypeOK
<1>5. /\ \A i \in DOMAIN list : list[i].num \in Nat /\ list[i].num < curitemnum
      /\ \A i, j \in DOMAIN list : i < j => list[i].num < list[j].num
  BY <1>2, ItemAt DEF QueueSound
<1>6. /\ \A i \in DOMAIN list' : list'[i].num < curitemnum'
      /\ \A i, j \in DOMAIN list' : i < j => list'[i].num < list'[j].num
  <2>1. \A i \in DOMAIN list' : \/ i \in DOMAIN list /\ list'[i].num = list[i].num
                                \/ i = Len(list) + 1 /\ list'[i].num = curitemnum
    BY <1>3, <1>a
  <2>2. QED
    BY <2>1, <1>1, <1>2, <1>3, <1>5
<1>7. BlockNums(list') = IF t = "block" THEN BlockNums(list) \cup {curitemnum}
                                        ELSE BlockNums(list)
  BY <1>1, <1>2, <1>a, BlockNumsAppend
<1>8. curitemnum \notin BlockNums(list)
  BY <1>2, <1>5 DEF BlockNums
<1>9. IsFiniteSet(BlockNums(list)) /\ Cardinality(BlockNums(list)) \in Nat
  BY <1>2, <1>5, BlockNumsFinite
<1>10. blkcount' = Cardinality(BlockNums(list'))
  BY <1>7, <1>8, <1>9, FS_AddElement DEF QueueSound
<1>11. blkcount' <= BlkMax + 1
  BY BlkMaxAssumption DEF QueueFull, QueueSound, QTypeOK
<1>12. itemcount' = Len(list')
  BY <1>1, <1>3 DEF QueueSound
<1>13. QED
  BY <1>4, <1>6, <1>10, <1>11, <1>12 DEF QueueSound

\* Operations that change items in place, whatever they put in them.
LEMMA InPlaceSound ==
  ASSUME NEW Val, QInv(Val),
         list' \in Seq(Item(Val)), Len(list') = Len(list),
         \A i \in DOMAIN list : /\ list'[i].num = list[i].num
                               /\ list'[i].type = list[i].type,
         UNCHANGED <<curitemnum, itemcount, blkcount, endofqueue>>
  PROVE  QInv(Val)'
<1> USE DEF QInv
<1>1. list \in Seq(Item(Val))
  BY DEF QTypeOK
<1>2. DOMAIN list' = DOMAIN list
  BY <1>1, LenProperties
<1>3. BlockNums(list') = BlockNums(list)
  BY <1>2 DEF BlockNums
<1>4. QTypeOK(Val)'
  BY DEF QTypeOK
<1>5. QED
  BY <1>2, <1>3, <1>4 DEF QueueSound

\* Removing the head keeps the order and both counters right.
LEMMA RemoveHeadSound ==
  ASSUME NEW Val, QInv(Val), list # <<>>, RemoveHead
  PROVE  QInv(Val)'
<1> USE DEF QInv
<1>1. list \in Seq(Item(Val))
  BY DEF QTypeOK
<1>2. /\ list' = Tail(list) /\ list' \in Seq(Item(Val))
      /\ Len(list) \in Nat \ {0} /\ DOMAIN list = 1 .. Len(list)
      /\ Len(list') = Len(list) - 1 /\ DOMAIN list' = 1 .. Len(list) - 1
      /\ \A i \in DOMAIN list' : i + 1 \in DOMAIN list /\ list'[i] = list[i + 1]
      /\ Head(list) = list[1] /\ 1 \in DOMAIN list
  BY <1>1, HeadTailProperties, LenProperties, EmptySeq DEF RemoveHead
<1>3. /\ \A i \in DOMAIN list : list[i].num < curitemnum
      /\ \A i, j \in DOMAIN list : i < j => list[i].num < list[j].num
  BY DEF QueueSound
<1>4. /\ \A i \in DOMAIN list' : list'[i].num < curitemnum'
      /\ \A i, j \in DOMAIN list' : i < j => list'[i].num < list'[j].num
  BY <1>2, <1>3 DEF RemoveHead
<1>5. BlockNums(list') = IF Head(list).type = "block"
                           THEN BlockNums(list) \ {Head(list).num} ELSE BlockNums(list)
  BY <1>1, <1>2, <1>3, BlockNumsTail
<1>6. IsFiniteSet(BlockNums(list)) /\ Cardinality(BlockNums(list)) \in Nat
  BY <1>1, <1>3, BlockNumsFinite DEF QTypeOK
<1>7. Head(list).type = "block" => Head(list).num \in BlockNums(list)
  BY <1>2 DEF BlockNums
<1>8. blkcount' = Cardinality(BlockNums(list')) /\ blkcount' \in Nat
                                                /\ blkcount' <= BlkMax + 1
  <2>1. CASE Head(list).type = "block"
    <3>1. blkcount' = blkcount - 1
      BY <2>1 DEF RemoveHead
    <3>2. Cardinality(BlockNums(list')) = Cardinality(BlockNums(list)) - 1
      BY <2>1, <1>5, <1>6, <1>7, FS_RemoveElement
    <3>3. Cardinality(BlockNums(list')) \in Nat
      BY <2>1, <1>5, <1>6, FS_RemoveElement, FS_CardinalityType
    <3>4. QED
      BY <3>1, <3>2, <3>3, BlkMaxAssumption DEF QueueSound, QTypeOK
  <2>2. CASE Head(list).type # "block"
    BY <2>2, <1>5 DEF RemoveHead, QueueSound, QTypeOK
  <2>3. QED
    BY <2>1, <2>2
<1>9. itemcount' = Len(list') /\ itemcount' \in Nat
  BY <1>2 DEF RemoveHead, QueueSound
<1>10. QED
  BY <1>2, <1>4, <1>8, <1>9 DEF QueueSound, QTypeOK, RemoveHead

-----------------------------------------------------------------------------
\* A function on the positions of a sequence is a sequence.
LEMMA SeqOfFcn ==
  ASSUME NEW S, NEW T, NEW q \in Seq(S), NEW f,
         f = [i \in DOMAIN q |-> f[i]], \A i \in DOMAIN q : f[i] \in T
  PROVE  f \in Seq(T) /\ Len(f) = Len(q)
<1>1. DOMAIN q = 1 .. Len(q) /\ Len(q) \in Nat
  BY LenProperties
<1>2. QED
  BY <1>1

\* Each function of queue.c keeps a sound queue sound.
LEMMA SetEndOfQueueSound ==
  ASSUME NEW Val, QInv(Val), NEW s \in BOOLEAN, queue_set_end_of_queue(s)
  PROVE  QInv(Val)'
BY DEF queue_set_end_of_queue, QInv, QTypeOK, QueueSound

LEMMA AddBlockSound ==
  ASSUME NEW Val, QInv(Val), NEW v \in Val,
         NEW st \in {"todo", "progress", "done"}, queue_add_block(v, st)
  PROVE  QInv(Val)'
BY AppendItemSound DEF queue_add_block

LEMMA AddHeaderSound ==
  ASSUME NEW Val, QInv(Val), NEW v \in Val, queue_add_header(v)
  PROVE  QInv(Val)'
BY AppendItemSound DEF queue_add_header

LEMMA ReplaceBlockSound ==
  ASSUME NEW Val, QInv(Val), NEW n, NEW v \in Val,
         NEW st \in {"todo", "progress", "done"}, queue_replace_block(n, v, st)
  PROVE  QInv(Val)'
<1>1. list \in Seq(Item(Val))
  BY DEF QInv, QTypeOK
<1>2. list' = [i \in DOMAIN list |->
                 IF list[i].num = n THEN [list[i] EXCEPT !.status = st, !.val = v]
                                    ELSE list[i]]
  BY DEF queue_replace_block
<1>3. \A i \in DOMAIN list : list[i] \in Item(Val)
  BY <1>1, ItemAt
<1>4. \A i \in DOMAIN list : /\ list'[i] \in Item(Val)
                            /\ list'[i].num = list[i].num
                            /\ list'[i].type = list[i].type
  BY <1>2, <1>3 DEF Item
<1>5. list' = [i \in DOMAIN list |-> list'[i]]
  BY <1>2
<1>6. list' \in Seq(Item(Val)) /\ Len(list') = Len(list)
  BY <1>1, <1>4, <1>5, SeqOfFcn
<1>7. QED
  BY <1>4, <1>6, InPlaceSound DEF queue_replace_block

LEMMA GetFirstBlockTodoSound ==
  ASSUME NEW Val, QInv(Val), NEW k \in DOMAIN list, queue_get_first_block_todo(k)
  PROVE  QInv(Val)'
<1>1. list \in Seq(Item(Val))
  BY DEF QInv, QTypeOK
<1>2. list' = [list EXCEPT ![k].status = "progress"]
  BY DEF queue_get_first_block_todo
<1>3. \A i \in DOMAIN list : list[i] \in Item(Val)
  BY <1>1, ItemAt
<1>4. \A i \in DOMAIN list : /\ list'[i] \in Item(Val)
                            /\ list'[i].num = list[i].num
                            /\ list'[i].type = list[i].type
  BY <1>2, <1>3 DEF Item
<1>5. list' = [i \in DOMAIN list |-> list'[i]]
  BY <1>2
<1>6. list' \in Seq(Item(Val)) /\ Len(list') = Len(list)
  BY <1>1, <1>4, <1>5, SeqOfFcn
<1>7. QED
  BY <1>4, <1>6, InPlaceSound DEF queue_get_first_block_todo

LEMMA DequeueFirstSound ==
  ASSUME NEW Val, QInv(Val), queue_dequeue_first
  PROVE  /\ QInv(Val)'
         /\ Head(list) \in Item(Val)
<1>1. list \in Seq(Item(Val)) /\ list # <<>>
  BY DEF QInv, QTypeOK, queue_dequeue_first, HeadIs
<1>2. QED
  BY <1>1, RemoveHeadSound, HeadTailProperties DEF queue_dequeue_first

LEMMA DestroyFirstItemSound ==
  ASSUME NEW Val, QInv(Val), queue_destroy_first_item
  PROVE  QInv(Val)'
BY RemoveHeadSound DEF queue_destroy_first_item, HeadIs

LEMMA SameQueueSound ==
  ASSUME NEW Val, QInv(Val), UNCHANGED qvars
  PROVE  QInv(Val)'
BY DEF QInv, QTypeOK, QueueSound, qvars

\* The elements of the list after an item was added at its end ...
LEMMA AppendedItems ==
  ASSUME NEW Val, list \in Seq(Item(Val)), NEW e \in Item(Val), list' = Append(list, e)
  PROVE  /\ \A i \in DOMAIN list' : list'[i] = e \/ (i \in DOMAIN list /\ list'[i] = list[i])
         /\ \A i \in DOMAIN list : i \in DOMAIN list' /\ list'[i] = list[i]
BY AppendProperties, LenProperties

\* ... and after the head was removed.
LEMMA RemainingItems ==
  ASSUME NEW Val, list \in Seq(Item(Val)), list # <<>>, RemoveHead
  PROVE  /\ \A i \in DOMAIN list' : i + 1 \in DOMAIN list /\ list'[i] = list[i + 1]
         /\ \A i \in DOMAIN list : i = 1 \/ (i - 1 \in DOMAIN list' /\ list'[i - 1] = list[i])
         /\ 1 \in DOMAIN list /\ Head(list) = list[1]
BY HeadTailProperties, LenProperties, EmptySeq DEF RemoveHead
=============================================================================
