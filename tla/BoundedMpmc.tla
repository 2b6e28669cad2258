----------------------------- MODULE BoundedMpmc ------------------------------
(***************************************************************************)
(* The bounded queue with many producers and consumers                      *)
(* (fev_bounded_mpmc_queue.h) behind the run queues of two schedulers.      *)
(* A cell's sequence number says whose turn it is: p for the push at        *)
(* position p, p + 1 for the pop at p, p + Capacity for the next push.      *)
(***************************************************************************)
EXTENDS BoundedQueue

VARIABLES
  sequence,   \* of each cell
  more        \* more[t]: push_stq() has another fiber to push after this one

mpmcVars == <<sequence, more>>

MpmcInit ==
  /\ sequence = [c \in Cells |-> c]
  /\ more = [t \in Threads |-> FALSE]

\* (int32_t)(a - b)
Diff(a, b) ==
  LET d == (a - b) % Word IN IF d >= Word \div 2 THEN d - Word ELSE d

-----------------------------------------------------------------------------
(* fev_bounded_mpmc_queue_push() and, for a list, push_stq().               *)

Push(t) ==
  /\ Goto(t, "idle", "push_seq")
  /\ Load(t, tail)
  /\ \E v \in Values : Holds(t, v)
  /\ \E b \in {FALSE, setup.lists} : more' = [more EXCEPT ![t] = b]
  /\ UNCHANGED <<sequence, data, head, tail>>

PushSeq(t) ==
  LET d == Diff(sequence[Cell(t)], pos[t]) IN
  /\ d >= 0
  /\ Goto(t, "push_seq", IF d = 0 THEN "push_cas" ELSE "push_load")
  /\ UNCHANGED <<sequence, data, head, tail, pos, val, more>>

\* Faulty: fails as well when another push has taken the position.
PushFailsLate(t) ==
  /\ Diff(sequence[Cell(t)], pos[t]) # 0
  /\ Return(t, "push_seq")
  /\ more' = [more EXCEPT ![t] = FALSE]
  /\ UNCHANGED <<sequence, data, head, tail>>

PushFails(t) ==
  /\ Diff(sequence[Cell(t)], pos[t]) < 0
  /\ Return(t, "push_seq")
  /\ more' = [more EXCEPT ![t] = FALSE]
  /\ UNCHANGED <<sequence, data, head, tail>>

PushCas(t) ==
  /\ Goto(t, "push_cas", IF tail = pos[t] THEN "push_data" ELSE "push_seq")
  /\ tail = pos[t] => NotLapped(tail + 1)
  /\ tail' = IF tail = pos[t] THEN (tail + 1) % Word ELSE tail
  /\ Load(t, tail)
  /\ UNCHANGED <<sequence, data, head, val, more>>

PushLoad(t) ==
  /\ Goto(t, "push_load", "push_seq")
  /\ Load(t, tail)
  /\ UNCHANGED <<sequence, data, head, tail, val, more>>

PushData(t) ==
  /\ Goto(t, "push_data", "push_publish")
  /\ data' = [data EXCEPT ![Cell(t)] = val[t]]
  /\ UNCHANGED <<sequence, head, tail, pos, val, more>>

Publishes(t) ==
  /\ sequence' = [sequence EXCEPT ![Cell(t)] = (pos[t] + 1) % Word]
  /\ UNCHANGED <<data, head, tail>>

PushPublish(t) ==
  /\ ~more[t]
  /\ Return(t, "push_publish")
  /\ Publishes(t)
  /\ UNCHANGED more

\* push_stq() goes on with the next fiber of the list.
PushNext(t) ==
  /\ more[t]
  /\ Goto(t, "push_publish", "push_seq")
  /\ Publishes(t)
  /\ Load(t, tail)
  /\ \E v \in Values : Holds(t, v)
  /\ more' = [more EXCEPT ![t] = FALSE]

-----------------------------------------------------------------------------
(* fev_bounded_mpmc_queue_pop().                                            *)

Pop(t) ==
  /\ Goto(t, "idle", "pop_seq")
  /\ Load(t, head)
  /\ UNCHANGED <<sequence, data, head, tail, val, more>>

PopSeq(t) ==
  LET d == Diff(sequence[Cell(t)], pos[t] + 1) IN
  /\ d >= 0
  /\ Goto(t, "pop_seq", IF d = 0 THEN "pop_cas" ELSE "pop_load")
  /\ UNCHANGED <<sequence, data, head, tail, pos, val, more>>

PopFails(t) ==
  /\ Diff(sequence[Cell(t)], pos[t] + 1) < 0
  /\ Return(t, "pop_seq")
  /\ UNCHANGED <<sequence, data, head, tail, more>>

PopCas(t) ==
  /\ Goto(t, "pop_cas", IF head = pos[t] THEN "pop_data" ELSE "pop_seq")
  /\ head = pos[t] => NotLapped(head + 1)
  /\ head' = IF head = pos[t] THEN (head + 1) % Word ELSE head
  /\ Load(t, head)
  /\ UNCHANGED <<sequence, data, tail, val, more>>

PopLoad(t) ==
  /\ Goto(t, "pop_load", "pop_seq")
  /\ Load(t, head)
  /\ UNCHANGED <<sequence, data, head, tail, val, more>>

PopData(t) ==
  /\ Goto(t, "pop_data", "pop_release")
  /\ Holds(t, data[Cell(t)])
  /\ UNCHANGED <<sequence, data, head, tail, pos, more>>

PopRelease(t) ==
  /\ Return(t, "pop_release")
  /\ sequence' = [sequence EXCEPT ![Cell(t)] = (pos[t] + Capacity) % Word]
  /\ UNCHANGED <<data, head, tail, more>>

MpmcSteps(t) ==
  \/ Push(t) \/ PushSeq(t) \/ PushFails(t) \/ PushCas(t) \/ PushLoad(t)
  \/ PushData(t) \/ PushPublish(t) \/ PushNext(t)
  \/ Pop(t) \/ PopSeq(t) \/ PopFails(t) \/ PopCas(t) \/ PopLoad(t) \/ PopData(t)
  \/ PopRelease(t)
  \/ (Size(t) \/ SizeReturns(t)) /\ UNCHANGED mpmcVars

-----------------------------------------------------------------------------

Pushing(t, p) == pc[t] \in {"push_data", "push_publish"} /\ pos[t] = p
Popping(t, p) == pc[t] \in {"pop_data", "pop_release"} /\ pos[t] = p

\* The element at a position between head and tail: still with the thread that
\* pushes it, or in its cell.
MpmcAt(p) ==
  IF \E t \in Threads : Pushing(t, p)
    THEN val[CHOOSE t \in Threads : Pushing(t, p)]
    ELSE data[p % Capacity]

MpmcTaken(t) ==
  CASE pc[t] = "pop_data" -> data[Cell(t)]
    [] pc[t] = "pop_release" -> val[t]
    [] OTHER -> NULL

\* A push fails only if the queue is full or a thread that pops the element of
\* the round before is still at the cell, and a pop only if the queue is empty
\* or a thread that pushes the first element is still at the cell.
MpmcFailureJustified(t) ==
  /\ PushFails(t) =>
       \/ Length = Capacity
       \/ \E u \in Threads : Popping(u, (pos[t] - Capacity) % Word)
  /\ PopFails(t) => Length = 0 \/ \E u \in Threads : Pushing(u, pos[t])
==============================================================================
