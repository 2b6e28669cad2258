------------------------------ MODULE SimpleMpmc ------------------------------
(***************************************************************************)
(* The linked run queue with counted pointers (fev_simple_mpmc_queue.h) of  *)
(* the strategy work-sharing-simple-mpmc.  A node popped by one call is     *)
(* taken from the pool by a later push, maybe while a third call still has  *)
(* its address.  The k-th fiber pushed by thread t is <<t, k>>.             *)
(***************************************************************************)
EXTENDS NodePool

CONSTANTS
  MaxPushes   \* pushes of one thread

ASSUME SimpleMpmcAssumption == MaxPushes \in Nat

VARIABLES
  value, next,    \* of each node; next is a counted pointer
  first, last,    \* queue->head and queue->tail
  free,           \* the nodes in the pools
  made,           \* the number of nodes that came from the allocator
  pushed,         \* pushed[t]: the number of fibers t has started to push
  popped,         \* the fibers popped
  local           \* local[t]: the locals of a call

Ptr(p, c) == [ptr |-> p, count |-> c]

Nil == Ptr(NULL, 0)

NoLocals == [node |-> NULL, head |-> Nil, tail |-> Nil, next |-> Nil, value |-> NULL]

simpleVars == <<value, next, first, last, free, made, pushed, popped, local>>

SimpleInit ==
  /\ value = [n \in Nodes |-> NULL]
  /\ next = [n \in Nodes |-> Nil]
  /\ first = Ptr(1, 0) /\ last = Ptr(1, 0)
  /\ free = {} /\ made = 1
  /\ pushed = [t \in Threads |-> 0]
  /\ popped = {}
  /\ local = [t \in Threads |-> NoLocals]

queueVars == <<value, next, first, last, free, made, pushed, popped>>

\* The call only loads: its locals become l.
Loads(t, l) == local' = [local EXCEPT ![t] = l] /\ UNCHANGED queueVars

-----------------------------------------------------------------------------
(* fev_simple_mpmc_queue_push(), with a node from a pool.                   *)

\* A pool has a node, or the pools of the caller are empty.
Available == free \cup {n \in {made + 1} : n <= setup.nodes}

\* Faulty: links the node with the `next` it was popped with.
SimplePushKeepsNext(t) ==
  /\ pushed[t] < MaxPushes
  /\ Goto(t, "idle", "s_reset")
  /\ \E n \in Available :
       /\ free' = free \ {n} /\ made' = Max({made, n})
       /\ value' = [value EXCEPT ![n] = <<t, pushed[t] + 1>>]
       /\ next' = next
       /\ local' = [local EXCEPT ![t].node = n]
  /\ pushed' = [pushed EXCEPT ![t] = @ + 1]
  /\ UNCHANGED <<first, last, popped>>

SimplePush(t) ==
  /\ pushed[t] < MaxPushes
  /\ Goto(t, "idle", "s_reset")
  /\ \E n \in Available :
       /\ free' = free \ {n} /\ made' = Max({made, n})
       /\ value' = [value EXCEPT ![n] = <<t, pushed[t] + 1>>]
       /\ next' = [next EXCEPT ![n].ptr = NULL]
       /\ local' = [local EXCEPT ![t].node = n]
  /\ pushed' = [pushed EXCEPT ![t] = @ + 1]
  /\ UNCHANGED <<first, last, popped>>

ResetCount(t) ==
  /\ Goto(t, "s_reset", "s_tail_count")
  /\ next' = [next EXCEPT ![local[t].node].count = 0]
  /\ UNCHANGED <<value, first, last, free, made, pushed, popped, local>>

LoadTailCount(t) ==
  /\ Goto(t, "s_tail_count", "s_tail_ptr")
  /\ Loads(t, [NoLocals EXCEPT !.node = local[t].node, !.tail.count = last.count])

LoadTailPtr(t) ==
  /\ Goto(t, "s_tail_ptr", "s_next_count")
  /\ Loads(t, [local[t] EXCEPT !.tail.ptr = last.ptr])

LoadNextCount(t) ==
  /\ Goto(t, "s_next_count", "s_next_ptr")
  /\ Loads(t, [local[t] EXCEPT !.next = Ptr(NULL, next[local[t].tail.ptr].count)])

LoadNextPtr(t) ==
  /\ Goto(t, "s_next_ptr", "s_check")
  /\ Loads(t, [local[t] EXCEPT !.next.ptr = next[local[t].tail.ptr].ptr])

CheckTail(t) ==
  /\ Goto(t, "s_check",
        IF last.count # local[t].tail.count THEN "s_tail_count"
        ELSE IF local[t].next.ptr # NULL THEN "s_help" ELSE "s_link")
  /\ UNCHANGED simpleVars

\* fev_cmpxchg2(&queue->tail, ...); a failure loads what is there.
SwingTail(t, to) ==
  /\ last' = IF last = local[t].tail THEN Ptr(to, last.count + 1) ELSE last
  /\ local' = [local EXCEPT ![t].tail = last]

HelpPush(t) ==
  /\ Goto(t, "s_help", "s_next_count")
  /\ SwingTail(t, local[t].next.ptr)
  /\ UNCHANGED <<value, next, first, free, made, pushed, popped>>

\* Whether the node at the tail still has the `next` that was loaded.
Linked(t) ==
  LET p == local[t].tail.ptr IN
  IF next[p] = local[t].next
    THEN next' = [next EXCEPT ![p] = Ptr(local[t].node, local[t].next.count + 1)]
    ELSE UNCHANGED next

Link(t) ==
  /\ pc[t] = "s_link"
  /\ Goto(t, "s_link",
        IF next[local[t].tail.ptr] = local[t].next THEN "s_swing" ELSE "s_tail_count")
  /\ Linked(t)
  /\ UNCHANGED <<value, first, last, free, made, pushed, popped, local>>

PushReturns(t) ==
  /\ Goto(t, "s_swing", "idle")
  /\ last' = IF last = local[t].tail THEN Ptr(local[t].node, last.count + 1) ELSE last
  /\ local' = [local EXCEPT ![t] = NoLocals]
  /\ UNCHANGED <<value, next, first, free, made, pushed, popped>>

-----------------------------------------------------------------------------
(* fev_simple_mpmc_queue_pop(); the scheduler gives the old dummy node to   *)
(* its pool.                                                                *)

SimplePop(t) ==
  /\ Goto(t, "idle", "s_head_count")
  /\ UNCHANGED simpleVars

LoadHeadCount(t) ==
  /\ Goto(t, "s_head_count", "s_head_ptr")
  /\ Loads(t, [NoLocals EXCEPT !.head.count = first.count])

LoadHeadPtr(t) ==
  /\ Goto(t, "s_head_ptr", "s_pop_tail_count")
  /\ Loads(t, [local[t] EXCEPT !.head.ptr = first.ptr])

PopTailCount(t) ==
  /\ Goto(t, "s_pop_tail_count", "s_pop_tail_ptr")
  /\ Loads(t, [NoLocals EXCEPT !.head = local[t].head, !.tail.count = last.count])

PopTailPtr(t) ==
  /\ Goto(t, "s_pop_tail_ptr", "s_pop_next")
  /\ Loads(t, [local[t] EXCEPT !.tail.ptr = last.ptr])

SeemsEmpty(t) == local[t].head.ptr = local[t].tail.ptr

\* The `next` of the dummy node; its count is not looked at.
PopNext(t) ==
  LET n == next[local[t].head.ptr].ptr IN
  /\ pc[t] = "s_pop_next" /\ (SeemsEmpty(t) => n # NULL)
  /\ Goto(t, "s_pop_next",
        IF SeemsEmpty(t) THEN "s_pop_help"
        ELSE IF n = NULL THEN "s_head_count" ELSE "s_pop_value")
  /\ Loads(t, [local[t] EXCEPT !.next.ptr = n])

PopEmpty(t) ==
  /\ Goto(t, "s_pop_next", "idle")
  /\ SeemsEmpty(t) /\ next[local[t].head.ptr].ptr = NULL
  /\ Loads(t, NoLocals)

HelpPop(t) ==
  /\ Goto(t, "s_pop_help", "s_head_count")
  /\ SwingTail(t, local[t].next.ptr)
  /\ UNCHANGED <<value, next, first, free, made, pushed, popped>>

\* The fiber is read while the node may already be popped and used again.
PopValue(t) ==
  /\ Goto(t, "s_pop_value", "s_pop_cas")
  /\ Loads(t, [local[t] EXCEPT !.value = value[local[t].next.ptr]])

SimplePopCas(t) ==
  /\ first = local[t].head
  /\ Goto(t, "s_pop_cas", "idle")
  /\ first' = Ptr(local[t].next.ptr, first.count + 1)
  /\ free' = free \cup {local[t].head.ptr}
  /\ popped' = popped \cup {local[t].value}
  /\ local' = [local EXCEPT ![t] = NoLocals]
  /\ UNCHANGED <<value, next, last, made, pushed>>

SimplePopCasFails(t) ==
  /\ first # local[t].head
  /\ Goto(t, "s_pop_cas", "s_pop_tail_count")
  /\ Loads(t, [NoLocals EXCEPT !.head = first])

SimpleSteps(t) ==
  \/ SimplePush(t) \/ ResetCount(t) \/ LoadTailCount(t) \/ LoadTailPtr(t)
  \/ LoadNextCount(t) \/ LoadNextPtr(t) \/ CheckTail(t) \/ HelpPush(t) \/ Link(t)
  \/ PushReturns(t)
  \/ SimplePop(t) \/ LoadHeadCount(t) \/ LoadHeadPtr(t) \/ PopTailCount(t)
  \/ PopTailPtr(t) \/ PopNext(t) \/ PopEmpty(t) \/ HelpPop(t) \/ PopValue(t)
  \/ SimplePopCas(t) \/ SimplePopCasFails(t)

-----------------------------------------------------------------------------
(* Properties. *)

\* The nodes reached from n, itself included.
Chain(n) ==
  LET step[k \in 0..Cardinality(Nodes)] ==
        IF k = 0 THEN {n}
        ELSE step[k - 1] \cup ({next[m].ptr : m \in step[k - 1]} \ {NULL})
  IN  step[Cardinality(Nodes)]

\* The calls whose node is in no queue yet.
Unlinked == {t \in Threads : local[t].node # NULL /\ pc[t] # "s_swing"}

\* The nodes that carry a fiber.
Carriers == (Chain(first.ptr) \ {first.ptr}) \cup UNION {Chain(local[t].node) : t \in Unlinked}

\* A fiber is popped once, and until then it is in one node, which is in the
\* queue or hangs on a node about to be linked; and no such node is in a pool.
SimpleConserved ==
  LET all == UNION {{<<t, k>> : k \in 1..pushed[t]} : t \in Threads} IN
  /\ popped \subseteq all
  /\ {value[n] : n \in Carriers} = all \ popped
  /\ Cardinality(Carriers) = Cardinality(all \ popped)
  /\ free \cap (Carriers \cup {first.ptr}) = {}

\* The fibers of one thread are scheduled in the order in which it made them
\* runnable.
SimpleFifo ==
  \A t \in Threads, k \in 1..MaxPushes :
    <<t, k>> \in popped => \A j \in 1..k : <<t, j>> \in popped
==============================================================================
