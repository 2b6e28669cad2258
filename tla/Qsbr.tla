--------------------------------- MODULE Qsbr ---------------------------------
(***************************************************************************)
(* Quiescent state based reclamation (fev_qsbr.h) the way the pollers use   *)
(* it for sockets (fev_poller_reactor.c): a worker that has got events from *)
(* the kernel refers to sockets that other workers may be destroying, and a *)
(* destroyed socket is freed once every worker has been quiescent since.    *)
(***************************************************************************)
EXTENDS Integers, SequencesExt

CONSTANTS
  Threads,   \* the workers; with one, fev_poller_free_socket() frees at once
  Entries,   \* the sockets
  NULL,
  Word       \* 2^32 in the code

ASSUME QsbrAssumption ==
  /\ NULL \notin Entries
  /\ Cardinality(Threads) > 1
  /\ Word \in Nat /\ Word > Cardinality(Threads) /\ Word > Cardinality(Entries)

VARIABLES
  epoch, num_remaining,
  to_free1, to_free2,   \* the two lists of entries
  num_sockets_to_free,
  localEpoch,           \* local->epoch of each thread
  entry,                \* entry[e]: "live", "retired" or "freed"
  refs,                 \* refs[t]: the sockets of the events that t processes
  ent,                  \* ent[t]: the entry that t is about to free
  ep, top,              \* the locals `epoch`, and `next` or `new_to_free1`
  got, new,             \* the lists that t has taken off to_free1 and to_free2
  pc

shared == <<epoch, num_remaining, to_free1, to_free2>>
locals == <<ent, ep, top, got, new>>
vars == <<shared, num_sockets_to_free, localEpoch, entry, refs, locals, pc>>

Init ==
  /\ epoch = 0 /\ num_remaining = 0
  /\ to_free1 = <<>> /\ to_free2 = <<>>
  /\ num_sockets_to_free = 0
  /\ localEpoch = [t \in Threads |-> 0]
  /\ entry = [e \in Entries |-> "live"]
  /\ refs = [t \in Threads |-> {}]
  /\ ent = [t \in Threads |-> NULL]
  /\ ep = [t \in Threads |-> 0]
  /\ top = [t \in Threads |-> NULL]
  /\ got = [t \in Threads |-> <<>>]
  /\ new = [t \in Threads |-> <<>>]
  /\ pc = [t \in Threads |-> "idle"]

Goto(t, from, to) == pc[t] = from /\ pc' = [pc EXCEPT ![t] = to]

First(list) == IF list = <<>> THEN NULL ELSE Head(list)

NumOthers == Cardinality(Threads) - 1

\* The end of a call: its locals are dead.
Forget(t) ==
  /\ ent' = [ent EXCEPT ![t] = NULL]
  /\ ep' = [ep EXCEPT ![t] = 0]
  /\ top' = [top EXCEPT ![t] = NULL]
  /\ new' = [new EXCEPT ![t] = <<>>]

-----------------------------------------------------------------------------
(* fev_poller_process(): events for sockets that are open, then the         *)
(* quiescent state.  A worker also passes one before it sleeps.             *)

Poll(t) ==
  /\ Goto(t, "idle", "events")
  /\ \E s \in SUBSET {e \in Entries : entry[e] = "live"} : refs' = [refs EXCEPT ![t] = s]
  /\ UNCHANGED <<shared, num_sockets_to_free, localEpoch, entry, locals>>

Processed(t) ==
  /\ Goto(t, "events", "quiescent")
  /\ refs' = [refs EXCEPT ![t] = {}]
  /\ UNCHANGED <<shared, num_sockets_to_free, localEpoch, entry, locals>>

BeforeSleep(t) ==
  /\ Goto(t, "idle", "quiescent")
  /\ UNCHANGED <<shared, num_sockets_to_free, localEpoch, entry, refs, locals>>

\* fev_socket_create() gets the memory of a freed socket.
Create(e) ==
  /\ entry[e] = "freed"
  /\ entry' = [entry EXCEPT ![e] = "live"]
  /\ UNCHANGED <<shared, num_sockets_to_free, localEpoch, refs, locals, pc>>

-----------------------------------------------------------------------------
(* fev_qsbr_free(), in fev_socket_destroy(): the socket has been closed.    *)

Free(t, e) ==
  /\ entry[e] = "live"
  /\ Goto(t, "idle", "free_first")
  /\ entry' = [entry EXCEPT ![e] = "retired"]
  /\ ent' = [ent EXCEPT ![t] = e]
  /\ UNCHANGED <<shared, num_sockets_to_free, localEpoch, refs, ep, top, got, new>>

\* Faulty: adds to the list whose epoch has begun.
FreeFirstPushes(t) ==
  /\ Goto(t, "free_first", IF to_free1 = <<>> THEN "free_epoch" ELSE "free_count")
  /\ to_free1' = <<ent[t]>> \o to_free1
  /\ ent' = [ent EXCEPT ![t] = IF to_free1 = <<>> THEN @ ELSE NULL]
  /\ UNCHANGED <<num_sockets_to_free, epoch, num_remaining, to_free2, localEpoch, entry, refs, ep, top, got, new>>

\* The exchange of to_free1.
FreeFirst(t) ==
  /\ Goto(t, "free_first", IF to_free1 = <<>> THEN "free_epoch" ELSE "free_load")
  /\ to_free1' = IF to_free1 = <<>> THEN <<ent[t]>> ELSE to_free1
  /\ UNCHANGED <<num_sockets_to_free, epoch, num_remaining, to_free2, localEpoch, entry, refs, locals>>

FreeEpoch(t) ==
  /\ Goto(t, "free_epoch", "free_remaining")
  /\ ep' = [ep EXCEPT ![t] = epoch]
  /\ UNCHANGED <<shared, num_sockets_to_free, localEpoch, entry, refs, ent, top, got, new>>

FreeRemaining(t) ==
  /\ Goto(t, "free_remaining", "free_next")
  /\ num_remaining' = NumOthers
  /\ UNCHANGED <<num_sockets_to_free, epoch, to_free1, to_free2, localEpoch, entry, refs, locals>>

\* A new epoch begins, in which the thread is quiescent already.
FreeNext(t) ==
  /\ Goto(t, "free_next", "free_count")
  /\ epoch' = (ep[t] + 1) % Word
  /\ localEpoch' = [localEpoch EXCEPT ![t] = (ep[t] + 1) % Word]
  /\ Forget(t)
  /\ UNCHANGED <<num_sockets_to_free, num_remaining, to_free1, to_free2, entry, refs, got>>

FreeLoad(t) ==
  /\ Goto(t, "free_load", "free_push")
  /\ top' = [top EXCEPT ![t] = First(to_free2)]
  /\ UNCHANGED <<shared, num_sockets_to_free, localEpoch, entry, refs, ent, ep, got, new>>

\* Faulty: a store instead of the exchange.
FreePushStore(t) ==
  /\ Goto(t, "free_push", "free_count")
  /\ to_free2' = <<ent[t]>> \o (IF top[t] = NULL THEN <<>> ELSE to_free2)
  /\ Forget(t)
  /\ UNCHANGED <<num_sockets_to_free, epoch, num_remaining, to_free1, localEpoch, entry, refs, got>>

FreePush(t) ==
  /\ top[t] = First(to_free2)
  /\ Goto(t, "free_push", "free_count")
  /\ to_free2' = <<ent[t]>> \o to_free2
  /\ Forget(t)
  /\ UNCHANGED <<num_sockets_to_free, epoch, num_remaining, to_free1, localEpoch, entry, refs, got>>

FreePushAgain(t) ==
  /\ pc[t] = "free_push" /\ top[t] # First(to_free2)
  /\ top' = [top EXCEPT ![t] = First(to_free2)]
  /\ UNCHANGED <<shared, num_sockets_to_free, localEpoch, entry, refs, ent, ep, got, new, pc>>

\* The rest of fev_poller_free_socket().  It may also wake the workers that
\* sleep, for which this module needs no state: they may poll at any time.
FreeCount(t) ==
  /\ Goto(t, "free_count", "idle")
  /\ num_sockets_to_free' = (num_sockets_to_free + 1) % Word
  /\ UNCHANGED <<shared, localEpoch, entry, refs, locals>>

-----------------------------------------------------------------------------
(* fev_qsbr_quiescent(), then the rest of fev_poller_quiescent().                                                    *)

QuiescentKnown(t) ==
  /\ epoch = localEpoch[t]
  /\ Goto(t, "quiescent", "idle")
  /\ UNCHANGED <<shared, num_sockets_to_free, localEpoch, entry, refs, locals>>

Quiescent(t) ==
  /\ epoch # localEpoch[t]
  /\ Goto(t, "quiescent", "sub")
  /\ ep' = [ep EXCEPT ![t] = epoch]
  /\ UNCHANGED <<shared, num_sockets_to_free, localEpoch, entry, refs, ent, top, got, new>>

Sub(t) ==
  /\ num_remaining # 1
  /\ Goto(t, "sub", "idle")
  /\ num_remaining' = (num_remaining - 1) % Word
  /\ localEpoch' = [localEpoch EXCEPT ![t] = ep[t]]
  /\ Forget(t)
  /\ UNCHANGED <<num_sockets_to_free, epoch, to_free1, to_free2, entry, refs, got>>

SubLast(t) ==
  /\ num_remaining = 1
  /\ Goto(t, "sub", "load_first")
  /\ num_remaining' = 0
  /\ UNCHANGED <<num_sockets_to_free, epoch, to_free1, to_free2, localEpoch, entry, refs, locals>>

LoadFirst(t) ==
  /\ Goto(t, "load_first", "load_second")
  /\ got' = [got EXCEPT ![t] = to_free1]
  /\ UNCHANGED <<shared, num_sockets_to_free, localEpoch, entry, refs, ent, ep, top, new>>

LoadSecond(t) ==
  /\ Goto(t, "load_second", IF to_free2 = <<>> THEN "clear" ELSE "take")
  /\ top' = [top EXCEPT ![t] = First(to_free2)]
  /\ UNCHANGED <<shared, num_sockets_to_free, localEpoch, entry, refs, ent, ep, got, new>>

Take(t) ==
  /\ top[t] = First(to_free2)
  /\ Goto(t, "take", "store")
  /\ new' = [new EXCEPT ![t] = to_free2]
  /\ to_free2' = <<>>
  /\ UNCHANGED <<num_sockets_to_free, epoch, num_remaining, to_free1, localEpoch, entry, refs, ent, ep, top, got>>

TakeAgain(t) ==
  /\ pc[t] = "take" /\ top[t] # First(to_free2)
  /\ top' = [top EXCEPT ![t] = First(to_free2)]
  /\ UNCHANGED <<shared, num_sockets_to_free, localEpoch, entry, refs, ent, ep, got, new, pc>>

Store(t) ==
  /\ Goto(t, "store", "remaining")
  /\ to_free1' = new[t]
  /\ UNCHANGED <<num_sockets_to_free, epoch, num_remaining, to_free2, localEpoch, entry, refs, locals>>

Remaining(t) ==
  /\ Goto(t, "remaining", "next")
  /\ num_remaining' = NumOthers
  /\ UNCHANGED <<num_sockets_to_free, epoch, to_free1, to_free2, localEpoch, entry, refs, locals>>

NextEpoch(t) ==
  /\ Goto(t, "next", "list")
  /\ epoch' = (ep[t] + 1) % Word
  /\ localEpoch' = [localEpoch EXCEPT ![t] = (ep[t] + 1) % Word]
  /\ Forget(t)
  /\ UNCHANGED <<num_sockets_to_free, num_remaining, to_free1, to_free2, entry, refs, got>>

Clear(t) ==
  /\ Goto(t, "clear", "list")
  /\ to_free1' = <<>>
  /\ localEpoch' = [localEpoch EXCEPT ![t] = ep[t]]
  /\ Forget(t)
  /\ UNCHANGED <<num_sockets_to_free, epoch, num_remaining, to_free2, entry, refs, got>>

\* fev_poller_free_socket_list()
FreeList(t) ==
  /\ Goto(t, "list", "uncount")
  /\ entry' = [e \in Entries |-> IF e \in ToSet(got[t]) THEN "freed" ELSE entry[e]]
  /\ UNCHANGED <<shared, num_sockets_to_free, localEpoch, refs, locals>>

Uncount(t) ==
  /\ Goto(t, "uncount", "idle")
  /\ num_sockets_to_free' = (num_sockets_to_free - Len(got[t])) % Word
  /\ got' = [got EXCEPT ![t] = <<>>]
  /\ UNCHANGED <<shared, localEpoch, entry, refs, ent, ep, top, new>>

-----------------------------------------------------------------------------

FreeSteps(t) ==
  \/ FreeFirst(t) \/ FreeEpoch(t) \/ FreeRemaining(t) \/ FreeNext(t)
  \/ FreeLoad(t) \/ FreePush(t) \/ FreePushAgain(t) \/ FreeCount(t)

QuiescentSteps(t) ==
  \/ QuiescentKnown(t) \/ Quiescent(t) \/ Sub(t) \/ SubLast(t) \/ LoadFirst(t)
  \/ LoadSecond(t) \/ Take(t) \/ TakeAgain(t) \/ Store(t) \/ Remaining(t)
  \/ NextEpoch(t) \/ Clear(t) \/ FreeList(t) \/ Uncount(t)

Rest(t) == Processed(t) \/ FreeSteps(t) \/ QuiescentSteps(t)

Next ==
  \/ \E t \in Threads : Poll(t) \/ BeforeSleep(t) \/ Rest(t) \/ \E e \in Entries : Free(t, e)
  \/ \E e \in Entries : Create(e)

Spec == Init /\ [][Next]_vars

-----------------------------------------------------------------------------
(* Properties. *)

\* The epochs and the counter keep to the word and calls to their steps.
TypeOK ==
  /\ epoch \in 0..(Word - 1)
  /\ num_remaining \in 0..NumOthers
  /\ to_free1 \in Seq(Entries) /\ to_free2 \in Seq(Entries)
  /\ localEpoch \in [Threads -> 0..(Word - 1)]
  /\ entry \in [Entries -> {"live", "retired", "freed"}]
  /\ refs \in [Threads -> SUBSET Entries]
  /\ got \in [Threads -> Seq(Entries)] /\ new \in [Threads -> Seq(Entries)]

\* A worker that processes events never refers to a socket that has been freed,
\* although other workers destroy sockets meanwhile.
NoUseAfterFree == \A t \in Threads : \A e \in refs[t] : entry[e] # "freed"

\* Every destroyed socket is in the hands of its destroyer, in one of the two
\* lists or with the worker that is about to free it, and in one place only:
\* none is forgotten and none is freed twice.
RetiredConserved ==
  LET held(t) == (IF pc[t] = "uncount" THEN <<>> ELSE got[t]) \o (IF pc[t] = "store" THEN new[t] ELSE <<>>)
                   \o (IF ent[t] # NULL /\ pc[t] \in {"free_first", "free_load", "free_push"}
                         THEN <<ent[t]>> ELSE <<>>)
      old(t) == pc[t] \in {"load_second", "take", "store", "clear"}
      lists == (IF \E t \in Threads : old(t) THEN <<>> ELSE to_free1) \o to_free2
      all == FoldSet(LAMBDA t, acc : held(t) \o acc, lists, Threads)
  IN IsInjective(all) /\ ToSet(all) = {e \in Entries : entry[e] = "retired"}
==============================================================================
