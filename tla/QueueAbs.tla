------------------------------- MODULE QueueAbs -------------------------------
(***************************************************************************)
(* What the schedulers ask of a bounded run queue: a first in, first out    *)
(* queue of at most Capacity elements.  taken[t] is the element that thread *)
(* t has popped and not yet returned.                                       *)
(***************************************************************************)
EXTENDS Naturals, SequencesExt

CONSTANTS Threads, Values, Capacity, NULL

VARIABLES queue, taken

absVars == <<queue, taken>>

AbsInit == queue = <<>> /\ taken = [t \in Threads |-> NULL]

\* One fiber, or the first ones of a list.
Push(s) ==
  /\ Len(queue) + Len(s) <= Capacity
  /\ queue' = queue \o s
  /\ UNCHANGED taken

Pop(t) ==
  /\ queue # <<>> /\ taken[t] = NULL
  /\ queue' = Tail(queue)
  /\ taken' = [taken EXCEPT ![t] = Head(queue)]

Return(t) ==
  /\ taken[t] # NULL
  /\ taken' = [taken EXCEPT ![t] = NULL]
  /\ UNCHANGED queue

AbsNext ==
  \/ \E s \in BoundedSeq(Values, Capacity) : Push(s)
  \/ \E t \in Threads : Pop(t) \/ Return(t)

AbsSpec == AbsInit /\ [][AbsNext]_absVars
==============================================================================
