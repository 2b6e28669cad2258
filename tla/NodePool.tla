------------------------------- MODULE NodePool -------------------------------
(***************************************************************************)
(* The pool of the nodes of the linked run queue: a cache per worker        *)
(* (fev_simple_mpmc_pool.h) in front of a lock-free stack with a counted    *)
(* top (fev_simple_mpmc_stack.h) shared by all.  Memory comes from the      *)
(* allocator when both are empty and is not given back while workers run.   *)
(***************************************************************************)
EXTENDS QueueCalls, FiniteSetsExt

CONSTANTS
  MaxNodes,
  MaxCache,   \* max_size of a cache
  Counts      \* the range of the counter of the top: 2^64 in the code

ASSUME NodePoolAssumption == MaxNodes \in Nat /\ MaxCache \in Nat /\ Counts \in Nat \ {0}

VARIABLES
  cache,      \* cache[t]: the free nodes of worker t
  link,       \* link[n]: the `next` of n in the stack
  top,        \* the top of the stack and its counter
  allocated,  \* the number of nodes that came from the allocator
  used,       \* the nodes in use
  mine        \* mine[t]: the locals of a call: the loaded top, its next, the node

\* In the order in which the allocator hands them out.
Nodes == 1..MaxNodes

poolVars == <<cache, link, top, allocated, used, mine>>

NoCall == [ptr |-> NULL, count |-> 0, next |-> NULL, node |-> NULL]

PoolInit ==
  /\ cache = [t \in Threads |-> <<>>]
  /\ link = [n \in Nodes |-> NULL]
  /\ top = [ptr |-> NULL, count |-> 0]
  /\ allocated = 0
  /\ used = {}
  /\ mine = [t \in Threads |-> NoCall]

\* A load into the locals of the call.
Gets(t, l) == mine' = [mine EXCEPT ![t] = l] /\ UNCHANGED <<cache, link, top, allocated, used>>

\* The counter is read before the pointer.
ReadCount == [NoCall EXCEPT !.count = top.count]

\* Whether fev_cmpxchg2(stack, ...) finds the loaded top.
SameTop(t) == top = [ptr |-> mine[t].ptr, count |-> mine[t].count]

\* The exchange, while no call is overtaken by a whole round of the counter.
SetTop(t, n) ==
  /\ \A u \in Threads \ {t} : pc[u] # "idle" => mine[u].count # (top.count + 1) % Counts
  /\ top' = [ptr |-> n, count |-> (top.count + 1) % Counts]

-----------------------------------------------------------------------------
(* alloc_local() and alloc_global().                                        *)

AllocLocal(t) ==
  /\ cache[t] # <<>>
  /\ Goto(t, "idle", "idle")
  /\ used' = used \cup {Head(cache[t])}
  /\ cache' = [cache EXCEPT ![t] = Tail(@)]
  /\ UNCHANGED <<link, top, allocated, mine>>

\* From a worker only with an empty cache; fev_sched_put() has no cache.
AllocGlobal(t) ==
  /\ Goto(t, "idle", "g_pop_top")
  /\ Gets(t, ReadCount)

StackPopTop(t) ==
  /\ Goto(t, "g_pop_top", "g_pop")
  /\ Gets(t, [mine[t] EXCEPT !.ptr = top.ptr])

StackPopNext(t) ==
  /\ mine[t].ptr # NULL
  /\ Goto(t, "g_pop", "g_pop_cas")
  /\ Gets(t, [mine[t] EXCEPT !.next = link[mine[t].ptr]])

\* The stack is empty.
Allocate(t) ==
  /\ mine[t].ptr = NULL
  /\ Goto(t, "g_pop", "idle")
  /\ allocated < setup.nodes
  /\ allocated' = allocated + 1
  /\ used' = used \cup {allocated + 1}
  /\ mine' = [mine EXCEPT ![t] = NoCall]
  /\ UNCHANGED <<cache, link, top>>

AllocateFails(t) ==
  /\ mine[t].ptr = NULL
  /\ Goto(t, "g_pop", "idle")
  /\ Gets(t, NoCall)

\* Faulty: the same address at the top is taken for the same stack.
StackPopCasNoCount(t) ==
  /\ top.ptr = mine[t].ptr
  /\ Goto(t, "g_pop_cas", "idle")
  /\ SetTop(t, mine[t].next)
  /\ used' = used \cup {mine[t].ptr}
  /\ mine' = [mine EXCEPT ![t] = NoCall]
  /\ UNCHANGED <<cache, link, allocated>>

StackPopCas(t) ==
  /\ SameTop(t)
  /\ Goto(t, "g_pop_cas", "idle")
  /\ SetTop(t, mine[t].next)
  /\ used' = used \cup {mine[t].ptr}
  /\ mine' = [mine EXCEPT ![t] = NoCall]
  /\ UNCHANGED <<cache, link, allocated>>

StackPopRetry(t) ==
  /\ ~SameTop(t)
  /\ Goto(t, "g_pop_cas", "g_pop")
  /\ Gets(t, [NoCall EXCEPT !.ptr = top.ptr, !.count = top.count])

-----------------------------------------------------------------------------
(* free_local(); to the stack when the cache is full.                       *)

FreeLocal(t) ==
  /\ Len(cache[t]) < MaxCache
  /\ Goto(t, "idle", "idle")
  /\ \E n \in used :
       /\ used' = used \ {n}
       /\ cache' = [cache EXCEPT ![t] = <<n>> \o @]
  /\ UNCHANGED <<link, top, allocated, mine>>

FreeGlobal(t) ==
  /\ Len(cache[t]) = MaxCache
  /\ Goto(t, "idle", "g_push_top")
  /\ \E n \in used :
       /\ used' = used \ {n}
       /\ mine' = [mine EXCEPT ![t] = [ReadCount EXCEPT !.node = n]]
  /\ UNCHANGED <<cache, link, top, allocated>>

StackPushTop(t) ==
  /\ Goto(t, "g_push_top", "g_push")
  /\ Gets(t, [mine[t] EXCEPT !.ptr = top.ptr])

StackPushNext(t) ==
  /\ Goto(t, "g_push", "g_push_cas")
  /\ link' = [link EXCEPT ![mine[t].node] = mine[t].ptr]
  /\ UNCHANGED <<cache, top, allocated, used, mine>>

StackPushCas(t) ==
  /\ SameTop(t)
  /\ Goto(t, "g_push_cas", "idle")
  /\ SetTop(t, mine[t].node)
  /\ mine' = [mine EXCEPT ![t] = NoCall]
  /\ UNCHANGED <<cache, link, allocated, used>>

StackPushRetry(t) ==
  /\ ~SameTop(t)
  /\ Goto(t, "g_push_cas", "g_push")
  /\ Gets(t, [mine[t] EXCEPT !.ptr = top.ptr, !.count = top.count])

PoolSteps(t) ==
  \/ AllocLocal(t) \/ AllocGlobal(t) \/ StackPopTop(t) \/ StackPopNext(t)
  \/ Allocate(t) \/ AllocateFails(t) \/ StackPopCas(t) \/ StackPopRetry(t)
  \/ FreeLocal(t) \/ FreeGlobal(t) \/ StackPushTop(t) \/ StackPushNext(t)
  \/ StackPushCas(t) \/ StackPushRetry(t)

-----------------------------------------------------------------------------
(* Properties. *)

\* The nodes of the stack.
Stacked ==
  LET step[k \in 0..Cardinality(Nodes)] ==
        IF k = 0 THEN {top.ptr} \ {NULL}
        ELSE step[k - 1] \cup ({link[n] : n \in step[k - 1]} \ {NULL})
  IN  step[Cardinality(Nodes)]

Cached(t) == {cache[t][i] : i \in DOMAIN cache[t]}

\* The nodes about to be pushed to the stack.
InHand == {mine[t].node : t \in Threads} \ {NULL}

\* A node is in use, in one cache, in the stack or on its way there, once: no
\* interleaving of the calls gives it to two users or loses it.
PoolConserved ==
  /\ 1..allocated = used \cup Stacked \cup InHand \cup UNION {Cached(t) : t \in Threads}
  /\ allocated =
       Cardinality(used) + Cardinality(Stacked)
       + Cardinality({t \in Threads : mine[t].node # NULL})
       + MapThenSumSet(LAMBDA t : Len(cache[t]), Threads)
==============================================================================
