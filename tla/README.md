# Verification of libfev

libfev runs many fibers on a few worker threads. A fiber that has to wait gives
its worker back to the scheduler, and whoever makes it runnable again pushes it
to a run queue. Almost everything that can go wrong is in the order of single
atomic accesses: between a fiber that goes to sleep and the one that wakes it,
between a timeout and the event it limits, between workers that go to sleep and
workers that find something to do, between threads that share a queue. This
directory models those protocols in TLA+, checks small instances with TLC, and
proves eight of them safe for any number of participants with TLAPS.

Run `tlc -config X.cfg M` for a run of `PROJECT.json`, `tlapm M.tla` for a proof module.

## The system and the modules

Arrows read "is built on".

    Socket (epoll, kqueue)   Mutex   Cond   Sem   Fiber (join)
         |      |              \       |      /
         |      |               WaitersQueue
         |      v               /          \
         |    Timers  -->  Waiter          ILock --> ThrMutex
         |      |             \              /
         |   BinHeap           Sched, SchedQueues <- SchedShared, SchedSteal
         |                            |
         v                     run queues: BoundedMpmc, BoundedSpmc,
       Qsbr (freeing sockets)              SimpleMpmc over NodePool

| part of the code | state | operations | module |
|---|---|---|---|
| `fev_waiter_*.h` | `reason`, `do_wake`, `wake_reason`, `wait_for_post`, `wait_for_wake` | wait, its post operation, wake | `Waiter`, abstract `WaiterAbs` |
| `fev_ilock*` | `state`, FIFO, thread-level lock | lock, unlock, post operation | `ILock`, abstract `ILockAbs` |
| `fev_thr_mutex_linux.*` | `state`, the futex | lock, unlock, their slow paths | `ThrMutex` |
| `fev_waiters_queue_*.h` | list of stack nodes, the reasons | wait with recheck and deadline, wake with callback | `WaitersQueue` |
| `fev_mutex*` | `state` | lock, try_lock, try_lock_until, unlock | `Mutex`, abstract `MutexAbs` |
| `fev_cond*` | its waiters | wait, wait_until, notify_one, notify_all | `Cond` |
| `fev_sem*` | `value` | wait, wait_until, post | `Sem`, abstract `SemAbs` |
| the three above with their clients | | | `Sync`; the mappings to the abstract ones are in `SyncRefinement` |
| `fev_timers.c`, timer fd of `fev_poller_epoll.c` | bucket, `min`, timer fd | timed_wait (add, del, process, wake_expired), poll | `Timers` |
| `fev_timers_binheap.*` | heap array, indexes, capacity | add, del, del_min | `BinHeap`, abstract `BucketAbs` |
| `fev_fiber.*` | flags, `ref_count`, mutex and cond | create, exit, join, detach | `Fiber` |
| `fev_socket_reactor.*`, `fev_poller_epoll.c`, `fev_poller_kqueue.c` | `active`, `error`, the waiter of each end, the kernel's interest and pending events | an operation with or without timeout, registration, processing of events | `Socket` |
| `fev_sched_common.c`, `fev_sched_impl.h` | counters, semaphore, event fd | wake, yield, block, exit, sleep, termination | `Sched` |
| `fev_push_*`, `fev_move_from_fallback()` of the strategies | run queues, fallback queue | push, pop, move | `SchedQueues` |
| `fev_sched_shr_locking*`, `fev_sched_shr_bounded_mpmc*` | `poller_backoff` | the worker loop of work sharing | `SchedShared` |
| `fev_sched_steal_locking*`, `_bounded_spmc*`, `_bounded_mpmc*` | `backoff` | the worker loop of work stealing | `SchedSteal` |
| all strategies | | | `Schedulers` |
| `fev_bounded_mpmc_queue.h`, `fev_bounded_spmc_queue.h` | cells, sequence numbers, head, tail | push, push of a list, pop, size | `BoundedMpmc`, `BoundedSpmc` over `BoundedQueue`; abstract `QueueAbs` |
| `fev_simple_mpmc_queue.h` | nodes with counted pointers | push, pop | `SimpleMpmc` |
| `fev_simple_mpmc_pool.h`, `fev_simple_mpmc_stack.h` | the caches, the stack of free nodes | allocate, free | `NodePool` |
| the queues with their callers | calls in progress | | `QueueCalls`, `RunQueue` |
| `fev_qsbr.h`, `fev_poller_reactor.c` | epochs, two lists | free, quiescent | `Qsbr` |

The modules are composed in two ways.

*By extension.* `Mutex`, `Cond` and `Sem` extend `WaitersQueue` and run together
in `Sync`: the condition variable unlocks and relocks the mutex of `Mutex`, so
that every interleaving of a timeout, a wake and a removal of a node is part of
their state space. `Schedulers` runs either worker loop over `SchedQueues` and
`Sched`. `RunQueue` runs each of the lock-free structures with its callers.

*By abstraction.* `Waiter` and `ILock` work at the level of single atomic
accesses and are shown to implement `WaiterAbs` (the first reason stored is the
one the wait returns) and `ILockAbs` (a FIFO lock with direct hand-over).
`WaitersQueue` and `Timers` use a waiter and a `queue->lock` of that kind. `Fiber`
takes the mutex as `MutexAbs` describes it, which `Mutex` implements. `Timers` takes
the bucket as `BucketAbs` describes it, which `BinHeap` implements. `SchedQueues`
takes the bounded queues as `QueueAbs` describes them, which `BoundedMpmc` and
`BoundedSpmc` implement, with one addition: between the exchange that takes a
place in the MPMC queue and the store that publishes or releases the cell,
calls of other threads may fail. `FailureJustified` of `RunQueue` shows that they
fail for no other reason. `Socket` takes the waiter's `wake()` in two steps
(`reason`, then `do_wake`) and its post operation in two; `Waiter` splits
them further and covers the spinning on `wait`.

Several builds are checked in one run where that costs little: a variable that
`Init` chooses and no step changes (`on_stack` of `Waiter`, `program` and `can_fail`
of `Sync`, `setup` of `RunQueue` and `Socket`, `strategy` of `Sched`) says which one a
behaviour belongs to.

A variable has the name of the C field it models. A program counter value has
the name of the label in the code or of the access that comes next; locals are
reset when a call returns. An operator marked *Faulty* in a comment is a
plausible wrong version of the definition after it: no specification uses it,
it shows that the property named in `PROJECT.json` notices the difference.

### Modelling decisions

* **Memory model.** Atomic accesses are sequentially consistent. CMake accepts
  i386 and x86-64 only, where the processor can reorder a store with a later load
  of another place and nothing else. The pairs of that kind on which the
  wake-ups rest, `do_wake` before `reason` in `fev_waiter_enable_wake_ups()` and
  `num_waiting` before `num_run_fibers` in the worker loops, are a `seq_cst` store
  and a read-modify-write, which are not reordered. Store buffering elsewhere,
  and reordering by the compiler where the code asks for relaxed order, are not
  explored. A weak compare-exchange does not fail spuriously on x86.
* **`num_run_fibers`.** Waits, wakes and pushes also maintain this counter of the
  scheduler. It is modelled where it is read, in `Sched`.
* **Kernel.** The timer fd, the edge-triggered event fd, the epoll or kqueue entry
  of a socket and the semaphore of the threads are modelled from how the code uses them.
* **Locks of threads.** What a worker does under the lock of a run queue is one step.
* **Victims.** A thief goes through the others in an order that starts at a random
  place; the model lets it take them in any order.
* **Words.** Counters that may wrap are taken modulo `Word` or `Counts`.

## What is hard here

1. A waker and the post operation of the waiting fiber race for `do_wake`.
   Exactly one must resume the fiber, and neither may touch the waiter in the
   fiber's stack frame after the fiber has gone on (`Waiter`).
2. A timeout races with a wake-up whose waker has already removed the node,
   passed on the mutex or given away the permit (`WaitersQueue`, `Sync`).
3. The poller dereferences `bucket->min`, which lies on the stack of a fiber that
   may be resumed for another reason (`Timers`).
4. The waiter of a socket serves one wait after the other, with wakers of earlier
   waits still at work, and an edge-triggered event is reported once (`Socket`).
5. Workers go to sleep by the counters that other workers change in several steps,
   and a wake-up is one edge of an event fd that any worker may consume (`Sched*`).
6. Nodes of the linked queue and of the pool are used again while other threads
   still hold pointers to them (`SimpleMpmc`, `NodePool`).
7. Sockets are destroyed while other workers hold events that point to them (`Qsbr`).
8. Bounded queues fill up, positions wrap, arrays grow (`BoundedMpmc`, `BoundedSpmc`,
   `SchedQueues`, `BinHeap`).

`PROJECT.json` lists the hazards with their lines and the properties that cover them.

## Runs

Deadlock is checked except in the fiber and scheduler runs, where fibers finish and
workers stop, and in the timers run, where the clock stops at its bound.

| run | instance | shows |
|---|---|---|
| `waiter` | 3 wakers, all reasons, both places of the waiter | one resumption per wait, no access to a dead frame, no lost wake-up, stale wakers leave no flag behind; a stack waiter implements `WaiterAbs` |
| `ilock` | 4 fibers | exclusion, the documented meaning of `state`, the context is saved before the fiber is resumed, blocked fibers get the lock; implements `ILockAbs` |
| `sync` | a producer and 2 consumers, over a mutex and a condition variable or over a semaphore | no node of a dead frame in a queue, exclusion, no stranded waiter, no lost notification, `notify_all` wakes all, `lock()` returns; implements `MutexAbs` and `SemAbs` |
| `mutex_no_memory` | 2 fibers, adding a timer may fail | a violation, see below |
| `timers` | 2 fibers, 2 pollers, clock to 2 | no dangling `min`, no lost or early timeout, timeouts are delivered |
| `binheap` | up to 7 timers, 4 deadlines | implements `BucketAbs` |
| `fiber` | 3 fibers | no use after free, no leak, one joiner, join returns |
| `sched` | 2 workers, up to 3 fibers, each of five strategies | fibers conserved, workers never all sleep on work, the scheduler stops; with work sharing every runnable fiber runs |
| `run_queue` | bounded queues: 2 or 3 threads, 2 cells, positions modulo 12; linked queue: 2 threads, 4 nodes; pool: 2 threads, 3 nodes | the bounded queues implement `QueueAbs` and fail for a reason; nothing is lost or handed out twice |
| `linked_queue_fifo` | 2 threads, 4 nodes | a violation, see below |
| `qsbr` | 3 workers, 3 sockets | no use after free, nothing lost or freed twice |
| `socket` | epoll or kqueue; one end with timeouts and 2 pollers, or both ends and 1 poller | no event is lost, a timed-out fiber leaves no timer behind, operations return |

`TypeOK` of a module documents its state. It is proved for the modules that have a
proof module (as `Typed` for `Sync`) and is not among the properties of the runs.

### Where code and comments disagree

`mutex_no_memory` violates `CountedIsWoken`. With the binary heap,
`fev_timed_wait()` can fail with `-ENOMEM` after a waker has counted the waiter,
although a comment says that "the waiter will be woken up": the mutex stays
locked without an owner. For the same reason `MutexRefined`, `SemRefined` and
`LockReturns` are stated for builds in which adding a timer cannot fail (the
red-black tree).

`linked_queue_fifo` violates `LinkedFifo`. `push()` stores 0 into the counter of the
`next` pointer of a node that is used again (`fev_simple_mpmc_queue.h:85`). The
counter is what protects the exchange at line 104: with it reset, a push that
was overtaken can succeed in linking its fiber behind a node that another thread
has allocated but not linked yet. `NothingLost` still holds, since the other
thread links its node in the end, but until then the fiber is not in the
queue, and a fiber that the same thread pushes later is popped first. The
documentation says that work sharing schedules fairly, first in, first out.
When the counter is kept instead of reset, the property holds in the same instance.

More disagreements are visible in the models. No run is kept for them:

* `fev_cond_wait_until()` returns a timeout without the mutex (`fev_cond.c:72`); the
  predicate wait of `fev++.hpp:459` evaluates the predicate as if it had it.
* A join and a detach of one fiber that overlap may both release the reference of
  the handle, against the assertion in `fev_fiber.c:152`. `NoUseAfterFree` and
  `JoinReturns` of `Fiber` therefore leave out fibers on which calls overlapped.
* Fibers in the fallback queue are overtaken by later ones, while
  `docs/SchedulerStrategies.md:11` says that work sharing is FIFO.
* The first operations of two fibers on the two ends of a socket, at the same
  time, both register it with `EPOLL_CTL_ADD`; one of them fails with `EEXIST`.

### Bounds

Three wakers let two compete for one wait while a third is left over from an
earlier one. Four fibers in `ilock` give a queue of three, with a middle. In
`sync` two consumers and a producer let a timeout, a wake and a new waiter meet
in one queue; the semaphore begins with one permit, `MaxValue` bounds its value
and `MaxItems` what is produced. Run queues of two with three fibers overflow and
refill. `strategy.ops` bounds how often fibers wake, create, yield or block, `MaxNow`
the clock, `MaxPushes` the pushes to a linked queue, `MaxCache` the nodes a thread
keeps. Four nodes for the linked queue make every node but the dummy be used a
second time while a call that has seen it before is still in progress. `Word` and
`Counts` are small words in which the counters of the instance are unambiguous, so
that they wrap within a run. The bounded queues assume (`NotLapped`) that no call
is overtaken by half the word, 2^31 operations in the code. These are small
instances: races that need three workers in a scheduler, or three timers in a
bucket, are outside of them.

Symmetry is used for safety only, over threads, timers, values and sockets that
run the same code.

### Fairness

Weak fairness is assumed of the steps of a call that has begun: the operating
system runs every thread and the critical sections of the library are finite.
Nobody is obliged to begin a call. The additional assumptions are:

* `ILock`: an owner unlocks.
* `Sync`: an owner unlocks. Strong fairness of taking `queue->lock`, because it is
  an ilock, which `ilock` shows to be handed over in order.
* `Timers`: time passes and an expired timer fd becomes ready. Strong fairness of
  taking `bucket->lock` (an ilock) and `bucket->min_lock`. The latter is a
  thread mutex or a spinlock, by build option, and neither promises an order: that nobody loses every race for it is an assumption.
  Strong fairness of the steps of each poller: the worker loops check the
  poller again and again, before they sleep and while they run fibers.
* `Schedulers`: every socket becomes ready, and a fiber gives up its worker some
  time, in one way or another (the multitasking is cooperative).
* `Socket`: workers poll as long as there is an event, and run the fibers that were pushed
  (`sched` is about the latter). The peer and the clock owe nothing.

What is not claimed, because the code does not promise it:

* The `timers` run has deadlines that are not over when the wait begins
  (`Past = FALSE`). A stream of waits with deadlines in the past can hold up the others.
* `RunnableRuns` is not claimed for work stealing: two thieves can take the only
  fiber from each other for ever.
* `RunnableRuns` for work sharing rests on `poller_backoff` coming down to 1.
  When it is decremented below zero by a race this takes a whole round of the word,
  few steps in the instance and 2^32 switches in the code, unless the run queue
  is found empty before.
* When a destroyed socket is freed: a worker that sleeps acknowledges no epoch.
* `Fiber`: nothing about the memory of a fiber after overlapping calls have freed it.

## Proofs

Eight modules hold the proofs. Each extends the module it is about, states an inductive
invariant, shows that the initial states satisfy it and that every action keeps
it, and derives the properties. They hold for every set of wakers, fibers, threads or
workers. The invariants were checked with TLC on the instances of the runs before
they were proved.

* **`WaiterProofs`**: type correctness, `ResumedOnce`, `NoTouchAfterReturn`,
  `ReturnsAcceptedReason`, `DoWakeClearOnEntry`, `NoLostWake`, and that a stack
  waiter implements the safety part of `WaiterAbs`. The invariant says who holds
  the single right to resume the fiber (`OneClaim`: the flag `do_wake`, the post
  operation or one waker), that `wait_for_post` is set exactly while the post operation
  has accesses left (`PostCovered`), that `wait_for_wake` covers the one waker
  that won `reason` (`WakerCovered`), and that the reason on its way is the
  accepted one (`ReasonKept`).
* **`ILockProofs`**: type correctness, `MutualExclusion`, `StateMeaning`,
  `UnlockSlowAsserts`, `ResumedAfterSave`, `NoStrandedFiber`, and the refinement of
  `ILockAbs`. `StateMeaning` only speaks of moments when the thread-level lock is free;
  the invariant gives the meaning of the state word at every step (`StateWord`),
  says who holds the thread-level lock (`InnerHeld`), and accounts for every
  blocked fiber (`Queued`, `HandedOver`, `Accounted`).
  The second part is about the lock inside, the futex mutex of `ThrMutex` (`Thr`):
  type correctness, `MutualExclusion` and `NoStrandedThread`: while a thread sleeps, the
  state is 2 or another thread is about to wake one or to set it to 2. Exclusion needs in
  addition that a state of 0 means that nobody owns the mutex (`OwnedIsLocked`);
  `NoStrandedThread` is inductive given the types.
* **`WaitersQueueProofs`**: `NodesLive`, and `CountedIsWoken` where adding a timer
  cannot fail (where it can, the run `mutex_no_memory` violates it). `NodesLive` alone is not
  inductive. The invariant adds which calls a fiber is in and with which locals (`Frames`), what the
  reason of a waiter says about its node (`Reasons`), and that who is
  between a lock and an unlock of `queue->lock` owns it (`Locked`). Insertion,
  removal and waking are one lemma each, about the positions of the sequence; every
  other action leaves the nodes and the frames alone (`FramesKept`).
* **`SyncProofs`**: `MutualExclusion` and `NoStrandedWaiter` of the mutex, and
  `NotifyAllWakesAll`. On top of the invariant of the queues: the word is not 0 while
  there is an owner (`OneOwner`) and 2 while somebody waits, also under the queue lock
  and until the unlocker has looked at it (`StateMeans`); a wake counts no more waiters
  than there are fibers (`WokenBound`).
* **`CondProofs`**: `NoLostNotify` where adding a timer cannot fail, over `SyncProofs`. The
  invariant adds who waits and who notifies (`Clients`), and that a waiter that has not
  unlocked the mutex yet still sees no items (`SawNoItems`). From that moment, and not only
  from its insertion into the queue on, the items have somebody who looks after them
  (`NotifyKept`); this is why unlocking and going to sleep are one step for a
  notifier.
* **`TimersProofs`**: type correctness, `NoDanglingMin`, `NoLostTimeout`,
  `NoEarlyTimeout`, and that a fiber that waits is behind a timer due no later
  (`WaiterCovered`). The invariant says when a timer is in the bucket (`InBucket`), what
  `first` and `min` are at each position under `bucket->lock` (`FirstUnderLock`,
  `MinStored`), and that a poller with `min_lock` looks at the current `min` (`PollerLooks`).
* **`SocketProofs`**: type correctness, `NoLostEvent`, `TimeoutMeansDeleted`, and that
  a fiber is resumed once per wait (`WokenOnce`). `NoLostEvent` speaks of a sleeper; the invariant
  follows the event from the kernel's interest set (`Registered`) through the hands of a
  poller (`PollerHolds`) to the waiter from the moment the operation found nothing
  (`EventCovered`), and says whose timer a reason speaks of (`TimerOfThisWait`).
* **`FiberProofs`**: type correctness, `NoUseAfterFree`, `NoLeak`, `OneJoiner`, that a
  sleeping joiner is the one that the exit, still to come, wakes (`Sleeper`), and that
  `num_fibers` is exact (`Counted`). The core is `RefCount`: the count is bounded from above by
  the fiber and its handle, from below by the drops that are still possible, and the
  bounds meet when calls on the handle do not overlap (`Alone`).

The assumptions on constants are that `NONE` is not a reason, that `NULL` is
not a fiber, a poller or a queue, that `Sync` has the three queues and that
producers and consumers partition its fibers, and that there are finitely many fibers in `Fiber`
and `Sync`, where they are counted. Bounds on inputs (`MaxNow`, `MaxItems`,
`MaxValue`) are arbitrary naturals in the proofs. Each proof has a step per action or
per group of actions that leave alone what is shown.

Only model-checked:

* Liveness (`WakeDelivered`, `BlockedGetsLock`, `LockReturns`, `TimeoutDelivered`, `JoinReturns`,
  `AllStop`, `RunnableRuns`, `OpReturns`): fairness and `ENABLED` are out of the prover's
  reach. The safety halves are proved where they are listed above: nobody who
  waits is forgotten.
* `MutexRefined` and `SemRefined`: the mapping filters the queue with `SelectSeq`, which is
  recursive, and what it computes needs an induction over sequences. The same holds
  for the refinement of `BucketAbs` by `BinHeap` and of `QueueAbs` by the bounded queues.
* `NothingLost` and `FailureJustified` of `RunQueue`, `FibersConserved` and `NoStall` of
  `Schedulers`, `RetiredConserved` and `NoUseAfterFree` of `Qsbr`: an inductive invariant for them
  has to count modulo the word and to fold over queues and lists. None has been
  written yet, so these hold for the instances of their runs.

## Not modelled

* The io_uring poller and its sockets. They are experimental in the code, where setting
  a timeout aborts with "FIXME not implemented"; what remains around the rings of
  the kernel is the array of interrupts.
* The worker loop of work-sharing-simple-mpmc as a strategy of its own. It is that of
  work-sharing-locking with the linked queue, which `RunQueue` models; it aborts
  when it runs out of memory.
* The red-black tree, which consists of the macros of `third_party/tree.h`.
* Opening, binding, listening and closing of sockets, which are system calls;
  creation of threads and its failure path.
* `fev_qsbr_queue.h`, which only a test uses.
* Conversions of time, context switches in assembly, stacks, allocation, attributes.

## Plan

1. Proofs: `Qsbr` (`NoUseAfterFree`), `Mutex` and `Sem` (refinement, with a mapping that
   does not filter), `BoundedMpmc` (refinement).
2. Runs for the disagreements without one; liveness of `Qsbr`; timers with deadlines in the past.
3. Time arithmetic as operators, checked against reference definitions at the boundaries.
