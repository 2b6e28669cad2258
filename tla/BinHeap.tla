------------------------------- MODULE BinHeap -------------------------------
(***************************************************************************)
(* The bucket of timers as a binary heap (fev_timers_binheap.c): an array   *)
(* of timers, each of which knows its index so that it can be deleted from  *)
(* the middle.  All of it runs under bucket->lock.                          *)
(***************************************************************************)
EXTENDS Integers, TLC

CONSTANTS
  Timers, NULL,
  Times      \* the deadlines that occur

ASSUME HeapAssumption == NULL \notin Timers /\ Times \subseteq Nat /\ Times # {}

VARIABLES
  heap,      \* bucket->heap[0..len)
  capacity,  \* bucket->capacity
  index,     \* timer->index
  time,      \* timer->abs_time
  changed    \* the last min_changed

vars == <<heap, capacity, index, time, changed>>

len == IF DOMAIN heap = {} THEN 0 ELSE 1 + (CHOOSE i \in DOMAIN heap : i + 1 \notin DOMAIN heap)

Absent == -1   \* a timer that is in no bucket; SIZE_MAX once it has expired

Earliest == CHOOSE d \in Times : \A e \in Times : d <= e

Init ==
  /\ heap = <<>>
  /\ capacity = 0
  /\ index = [t \in Timers |-> Absent]
  /\ time = [t \in Timers |-> Earliest]
  /\ changed = FALSE

-----------------------------------------------------------------------------
(* A bucket in the middle of a call: its array and the indexes, with the     *)
(* deadlines `at`.                                                           *)

Put(b, i, t) ==
  [heap |-> (i :> t) @@ b.heap, index |-> [b.index EXCEPT ![t] = i]]

\* fev_timers_sift_up()
RECURSIVE SiftUp(_, _, _, _)
SiftUp(b, at, i, t) ==
  LET parent == (i - 1) \div 2 IN
  IF i = 0 \/ at[b.heap[IF i = 0 THEN 0 ELSE parent]] <= at[t]
    THEN Put(b, i, t)
    ELSE SiftUp(Put(b, i, b.heap[parent]), at, parent, t)

\* The loop of fev_timers_sift_down(), with n elements left.
RECURSIVE Down(_, _, _, _, _)
Down(b, at, n, i, last) ==
  LET left == 2 * i + 1
      right == left + 1
      child == IF right < n /\ at[b.heap[right]] < at[b.heap[left]] THEN right ELSE left
  IN IF n < 2 \/ (n - 2) \div 2 < i \/ at[last] <= at[b.heap[child]]
       THEN Put(b, i, last)
       ELSE Down(Put(b, i, b.heap[child]), at, n, child, last)

\* fev_timers_sift_down(): removes the timer at `start` from n timers.
SiftDown(b, at, n, start) ==
  LET r == IF start = n - 1 THEN b ELSE Down(b, at, n - 1, start, b.heap[n - 1])
  IN [r EXCEPT !.heap = [i \in 0..(n - 2) |-> r.heap[i]]]

Bucket == [heap |-> heap, index |-> index]

-----------------------------------------------------------------------------

\* fev_timers_bucket_grow()
Grown == IF 2 * capacity = 0 THEN 1 ELSE 2 * capacity

\* fev_timers_bucket_add()
Add(t) ==
  /\ index[t] = Absent
  /\ \E d \in Times :
       LET at == [time EXCEPT ![t] = d]
           b == SiftUp(Bucket, at, len, t)
       IN /\ time' = at
          /\ heap' = b.heap
          /\ index' = b.index
          /\ changed' = (b.index[t] = 0)
  /\ capacity' = IF len = capacity THEN Grown ELSE capacity

\* fev_realloc() fails: the bucket is left untouched.
AddFails(t) ==
  /\ index[t] = Absent
  /\ len = capacity
  /\ UNCHANGED vars

\* The timer is gone: its frame is left, or it is marked as expired.
Remove(b, t) ==
  /\ heap' = b.heap
  /\ index' = [b.index EXCEPT ![t] = Absent]
  /\ time' = [time EXCEPT ![t] = Earliest]
  /\ UNCHANGED capacity

\* Faulty: moves the last timer down, but not up into another subtree.
DelDownOnly(t) ==
  /\ index[t] # Absent
  /\ Remove(SiftDown(Bucket, time, len, index[t]), t)
  /\ changed' = (index[t] = 0)

\* fev_timers_bucket_del()
Del(t) ==
  /\ index[t] # Absent
  /\ LET i == index[t]
         b == SiftDown(Bucket, time, len, i)
     IN Remove(IF i > 0 /\ i < len - 1 THEN SiftUp(b, time, i, b.heap[i]) ELSE b, t)
  /\ changed' = (index[t] = 0)

\* fev_timers_bucket_del_min(), and fev_timer_set_expired() by its caller.
DelMin ==
  /\ len > 0
  /\ Remove(SiftDown(Bucket, time, len, 0), heap[0])
  /\ changed' = TRUE

Next == DelMin \/ \E t \in Timers : Add(t) \/ AddFails(t) \/ Del(t)

Spec == Init /\ [][Next]_vars

-----------------------------------------------------------------------------
(* Properties. *)

\* The array has no holes, fits its capacity and holds timers.
TypeOK ==
  /\ DOMAIN heap = 0..(len - 1)
  /\ len <= capacity
  /\ \A i \in DOMAIN heap : heap[i] \in Timers

\* The refinement mapping.
Abs == INSTANCE BucketAbs WITH
  timers <- {t \in Timers : index[t] # Absent},
  first <- IF heap = <<>> THEN NULL ELSE heap[0]

\* The heap implements the bucket that fev_timers.c relies on.
AbsRefined == Abs!AbsSpec
==============================================================================
