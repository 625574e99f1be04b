------------------------------- MODULE CQueue -------------------------------
(***************************************************************************)
(* The queue of queue.c that the main thread, the (de)compression threads  *)
(* and the archive thread share (g_queue).  It is a linked list of items;  *)
(* an item is a header (a dico, always ready) or a data block, and a block *)
(* moves from "todo" to "progress" when a (de)compression thread takes it  *)
(* and to "done" when that thread puts the result back.                    *)
(*                                                                         *)
(* Every function of queue.c is one critical section of q->mutex, except   *)
(* that the blocking ones release the mutex in pthread_cond_timedwait.     *)
(* That wait is bounded by one second (get_timeout) and is always followed *)
(* by a new evaluation of the loop's condition, so a blocked call is       *)
(* modelled as an operation that is not enabled until its condition holds. *)
(*                                                                         *)
(* The module is passive: it declares the queue's state and one operator   *)
(* per function that changes it.  The modules of the threads extend it.    *)
(*                                                                         *)
(* A definition called a "variant" is never used: it is the definition     *)
(* after it with a mistake that a property of the project has to notice    *)
(* when the one takes the place of the other.                              *)
(***************************************************************************)
EXTENDS Integers, Sequences, FiniteSets

CONSTANT BlkMax             \* q->blkmax, FSA_MAX_QUEUESIZE in the program

ASSUME BlkMaxAssumption == BlkMax \in Nat

VARIABLES
  list,                     \* the linked list, from q->head
  curitemnum,               \* number the next item gets
  itemcount,                \* counter of items in the list
  blkcount,                 \* counter of blocks in the list
  endofqueue                \* the thread that fills the queue has finished

qvars == <<list, curitemnum, itemcount, blkcount, endofqueue>>

Item(Val) == [num    : Nat \ {0},
              type   : {"block", "header"},
              status : {"todo", "progress", "done"},
              val    : Val]

queue_init ==
  /\ list = <<>>
  /\ curitemnum = 1
  /\ itemcount = 0
  /\ blkcount = 0
  /\ endofqueue = FALSE

(***************************************************************************)
(* Conditions                                                              *)
(***************************************************************************)
\* Variant: the items that are left are not waited for.
queue_get_end_of_queue_early == endofqueue

queue_get_end_of_queue == itemcount < 1 /\ endofqueue

\* Variant: one block too many is let in.
QueueFull_late == blkcount > BlkMax + 1

QueueFull == blkcount > BlkMax

HeadIs(statuses) == list # <<>> /\ Head(list).status \in statuses

\* Positions of the blocks no thread has taken yet.
TodoPositions ==
  {i \in DOMAIN list : list[i].type = "block" /\ list[i].status = "todo"}

queue_count_items_todo ==
  Cardinality({i \in DOMAIN list :
                 list[i].type = "block" /\ list[i].status # "done"})

(***************************************************************************)
(* Operations                                                              *)
(***************************************************************************)
queue_set_end_of_queue(state) ==
  /\ endofqueue' = state
  /\ UNCHANGED <<list, curitemnum, itemcount, blkcount>>

AppendItem(t, st, v) ==
  /\ list' = Append(list, [num |-> curitemnum, type |-> t, status |-> st, val |-> v])
  /\ curitemnum' = curitemnum + 1
  /\ itemcount' = itemcount + 1
  /\ UNCHANGED endofqueue

\* Both add functions refuse when endofqueue is set; only the thread that
\* adds ever sets it, so it cannot be set during their wait.
queue_add_block(v, st) ==
  /\ ~endofqueue
  /\ ~QueueFull
  /\ AppendItem("block", st, v)
  /\ blkcount' = blkcount + 1

\* Headers do not count as blocks, yet they wait for the same condition.
queue_add_header(v) ==
  /\ ~endofqueue
  /\ ~QueueFull
  /\ AppendItem("header", "done", v)
  /\ UNCHANGED blkcount

\* Variant: the result goes to the first block that is in progress.
queue_replace_block_first(n, v, st) ==
  /\ list' = [i \in DOMAIN list |->
                IF /\ list[i].status = "progress"
                   /\ \A j \in 1 .. i - 1 : list[j].status # "progress"
                  THEN [list[i] EXCEPT !.status = st, !.val = v]
                  ELSE list[i]]
  /\ UNCHANGED <<curitemnum, itemcount, blkcount, endofqueue>>

\* The call also returns, without effect, when the item has been removed.
queue_replace_block(n, v, st) ==
  /\ list' = [i \in DOMAIN list |->
                IF list[i].num = n
                  THEN [list[i] EXCEPT !.status = st, !.val = v]
                  ELSE list[i]]
  /\ UNCHANGED <<curitemnum, itemcount, blkcount, endofqueue>>

\* The item at position i is handed to the calling thread.
queue_get_first_block_todo(i) ==
  /\ i \in TodoPositions
  /\ \A j \in TodoPositions : i <= j
  /\ list' = [list EXCEPT ![i].status = "progress"]
  /\ UNCHANGED <<curitemnum, itemcount, blkcount, endofqueue>>

\* Variant: headers are counted as blocks when they go.
RemoveHead_miscounts ==
  /\ list' = Tail(list)
  /\ itemcount' = itemcount - 1
  /\ blkcount' = blkcount - 1
  /\ UNCHANGED <<curitemnum, endofqueue>>

RemoveHead ==
  /\ list' = Tail(list)
  /\ itemcount' = itemcount - 1
  /\ blkcount' = IF Head(list).type = "block" THEN blkcount - 1 ELSE blkcount
  /\ UNCHANGED <<curitemnum, endofqueue>>

\* Variant: a block goes to the archive before it has been processed.
queue_dequeue_first_early == HeadIs({"todo", "done"}) /\ RemoveHead

\* The caller keeps Head(list).
queue_dequeue_first == HeadIs({"done"}) /\ RemoveHead

\* Variant: a block is freed under the thread that works on it.
queue_destroy_first_item_any == HeadIs({"todo", "progress", "done"}) /\ RemoveHead

\* Frees the head unless a (de)compression thread is working on it.
queue_destroy_first_item == HeadIs({"todo", "done"}) /\ RemoveHead

\* The main thread of a restore asks for one kind of item.  It gets the head if
\* that is of the kind; the call fails, and leaves the head alone, when the head
\* is of the other kind or the queue has ended.
queue_dequeue_header == HeadIs({"done"}) /\ Head(list).type = "header" /\ RemoveHead

queue_dequeue_block == HeadIs({"done"}) /\ Head(list).type = "block" /\ RemoveHead

queue_dequeue_fails(type) ==
  /\ \/ queue_get_end_of_queue
     \/ HeadIs({"done"}) /\ Head(list).type # type
  /\ UNCHANGED qvars

(***************************************************************************)
(* What every user of the queue relies on.                                 *)
(***************************************************************************)
QTypeOK(Val) ==
  /\ list \in Seq(Item(Val))
  /\ curitemnum \in Nat \ {0}
  /\ itemcount \in Nat
  /\ blkcount \in Nat
  /\ endofqueue \in BOOLEAN

BlockNums(q) == {q[i].num : i \in {j \in DOMAIN q : q[j].type = "block"}}

\* The two counters, which the waiting loops test instead of the list, agree
\* with the list; item numbers, by which queue_replace_block finds an item,
\* grow along the list and are never reused; and the list holds one block more
\* than blkmax at most, because the test "blkcount > blkmax" lets it.
QueueSound ==
  /\ itemcount = Len(list)
  /\ blkcount = Cardinality(BlockNums(list))
  /\ blkcount <= BlkMax + 1
  /\ \A i, j \in DOMAIN list : i < j => list[i].num < list[j].num
  /\ \A i \in DOMAIN list : list[i].num < curitemnum
=============================================================================
