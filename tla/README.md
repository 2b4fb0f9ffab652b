# Multi-Core Toolbox: specification, model checking and proofs

The toolbox is a library of C and C++ headers for x86: two lock-free queues, a
queue lock, and the atomic operations and barriers they are built from. There
is no server, no persistence and no network; everything that can go wrong is an
order of memory accesses of a few threads. The models therefore go down to
single accesses to shared memory.

Paths below are relative to the repository.

## Inventory

| component | state | operations | used by |
|---|---|---|---|
| SPSC queue, `spsc_queue.h` | `head`, `tail`, `len`, the chain of nodes | `spsc_queue_init`, `_empty`, `spsc_enqueue`, `spsc_dequeue`, `_destroy`, `_len` | wrapper, example |
| SPSC wrapper, `spsc_queue.hxx` | one SPSC queue | constructor, destructor, `empty`, `size`, `enqueue`, `dequeue` | unit tests |
| MPMC queue, `mpmc_queue.h` | versioned `head` and `tail`, `len`, nodes with versioned `next` | `mpmc_queue_init`, `_empty`, `mpmc_enqueue`, `mpmc_dequeue`, `_destroy`, `_len` | wrapper, example |
| MPMC wrapper, `mpmc_queue.hxx` | one MPMC queue | as above | unit tests |
| MCS lock, `mcs_lock.h` | `tail`, one node per thread that locks | `mcs_lock_init`, `mcs_lock`, `mcs_unlock`, `mcs_trylock`, `mcs_is_locked` | example |
| primitives, `x86/sync_prim.h` | none | `fetch_and_store`, `compare_and_store`, `double_cmp_and_swap`, `cpu_relax` | MPMC queue, MCS lock |
| counters, `x86/atomic*.h` | one word | set, read, add, sub, inc, dec, ... and test variants | both queues (`len`) |
| barriers, `x86/barrier.h` | the store buffer | `smp_mb`, `smp_rmb`, `smp_wmb` | SPSC queue, MCS lock |
| configuration, `mct_config.h`, `mct_adapt.h` | none | choice of word size, allocator, barriers | all |
| examples, `example/` | threads that use the above | | |
| unit tests, `unit_test/` | sequential; Google Test is vendored | | |

How they interact: the queues and the lock call the primitives on their own
words; the SPSC queue leaves memory management to its caller (`spsc_dequeue`
hands back the dead node), the MPMC queue calls `MCT_MALLOC` and `MCT_FREE`
itself, the MCS lock uses nodes on its callers' stacks.

What is hard, per component (each entry is a hazard in `PROJECT.json`):

* SPSC: the order in which the stores of an enqueue reach memory; the consumer
  frees nodes that the producer has only just left, or has not yet; pointers
  that both callers use after the call (`spsc_queue.hxx:50`,
  `example_spsc_queue.c:65`); a counter that is not updated with the list.
* MPMC: threads act on nodes that were freed since they read them; versioned
  pointers are read in two halves; the tail lags behind; a thread may stop
  anywhere; nodes recycled by the allocator.
* MCS: the race of the last holder with a new requester; stores to the nodes of
  other threads, which live on their stacks; uninitialized nodes.

Correctness of each: a queue is a linearizable FIFO queue, never touches freed
memory in a way that matters, frees each node once, and lets no thread wait for
another; the lock excludes, is FIFO, is always passed on to a thread that waits
for it, and never writes to a node that is no longer one.

## Modules

| module | what it is |
|---|---|
| `FifoQueue` | abstract: a linearizable FIFO queue (call, effect, return) |
| `SpscQueue` | detailed: `spsc_queue.h` with its callers; implements `FifoQueue` |
| `MpmcQueue` | detailed: `mpmc_queue.h`; implements `FifoQueue` |
| `MpmcProgress` | `MpmcQueue` with history variables that count what its lock freedom is about |
| `FifoLock` | abstract: a lock granted in the order of the requests |
| `McsLock` | detailed: `mcs_lock.h` with its callers; implements `FifoLock` |
| `LockedQueue` | the program `example_stl_queue_mcslock.cxx`: composes `FifoLock` with a `std::queue`; implements `FifoQueue` |
| `AtomicObject` | abstract: what the counters and primitives promise of two words |
| `X86Atomic` | detailed: the same operations as loads and stores under the LOCK prefix; implements `AtomicObject` |
| `MCSpscQueue`, `MCMpmcQueue`, `MCMpmcProgress`, `MCMcsLock`, `MCLockedQueue`, `MCX86Atomic` | what the configurations need: symmetry sets, one thread singled out for liveness, arguments |
| `SpscQueueProofs`, `SpscFifoProofs`, `MpmcQueueProofs`, `MpmcFifoProofs`, `MpmcProgressProofs`, `McsLockProofs`, `LockedQueueProofs`, `X86AtomicProofs` | theorems |

The layers fit together: `X86Atomic` shows that each operation of the
primitives and counters is one atomic step, which is how `MpmcQueue` and
`McsLock` use them; `McsLock` implements the `FifoLock` that `LockedQueue` is
built on; the three queues implement one and the same `FifoQueue`.

The detailed modules have faults: changed versions of actions and operators,
none of which the specification uses. For each property one of them, put in the
place of the definition it changes, makes TLC report a violation of that
property (`PROJECT.json`, "mutants").

### SpscQueue

One action per access to shared memory; `prodPc` and `consPc` are the places of
the two threads, the other lower-case variables are the C variables of the same
name. The producer is the loop of `producer_thread_func`: allocate, store the
data (`EnqueueCall`), `spsc_enqueue` (`InitNext` ... `IncLen`), and a read of
the structure it gave away (`PrintData`). The consumer asks `spsc_queue_empty`
(`QueryEmpty`) or dequeues (`DequeueCall` ... `MoveHead`), then frees the dead
node and keeps the pointer it was given (`DequeueReturn`, the wrapper's
`dequeue`). When the producer has been joined it may destroy the queue
(`DestroyCall`, the dequeues, `FreeLast`). Freed nodes are allocated again. `ConsumerStarts` is
whether the second `pthread_create` of the example succeeds; if it does not,
`main` destroys the queue without joining the producer (lines 126-129).

*Memory order.* The stores of an enqueue go to `pending` and reach memory in
any order (`FlushData`, `FlushNext`, `FlushLink`, `FlushTail`); `smp_wmb` and
the LOCKed increment wait until nothing is pending. This allows more than an
x86 store buffer does and gives the barrier a meaning: without it
(`WriteBarrierMissing`) the consumer reads garbage. Loads are in order: the
second load of a dequeue depends on the first. The diagram at
`spsc_queue.h:67-83` draws the barrier after the link; the code has it before
(line 146), where the model shows it is needed.

*Auxiliary variables.* `chain` is the list from the dummy to the last node whose
link is in memory; `heldVal` and `sawEmpty` remember what was dequeued and that
the queue was empty at some moment of a dequeue.

### MpmcQueue

`vp_assign` and `vp_equal` access one word at a time, so each is two actions
here and a pair may be torn; `double_cmp_and_swap` is one action. After a failed
check or swap the loop starts over and reads everything again; the model then
resets the locals that will not be read before they are assigned (`Retry`),
which merges states that differ in dead variables only. Versions wrap around at
`Versions`.

`mpmc_queue_empty` is two loads (`EmptyCall`, `EmptyReturn`): the head, whose
node may be dequeued and freed at once, and the next pointer of that node.
`mpmc_queue_destroy`, and `~MpmcQueue` which repeats its loop, is a call of its
own (`DestroyCall`) that "must be called exclusively": it is made when no thread
is inside a call, and no call starts after it. It then dequeues by the same
actions as everybody else and frees the dummy (`FreeHead`).

A dequeue frees its node at once. `MCT_MALLOC` and `MCT_FREE` are the user's
choice (`mct_adapt.h:41-48` has `malloc` and `free` by default), and three
definitions say what the model takes them to do; none of them is code of the
repository:

* `Recycle`, `Held`: when a freed node is handed out again. `Recycle` is TRUE
  for `malloc`, which may do so at once; FALSE for an allocator that waits until
  no call in progress holds the address as the head or the tail it has read, as
  one with hazard pointers or epochs does.
* `Overwritten`: what a freed node contains. `MCT_FREE` leaves it alone or writes
  over it; where the next pointer was it may leave `Garbage` or, as `free` does
  at the end of a free list, a NULL with any version but one: not the very pair
  {NULL, v} that an enqueue, past its checks of the tail and in front of its
  swap, compares with (`AboutToSwap`). If it wrote that pair the swap would link
  to a freed node, as the fault `DequeueReturnZeroes` shows.
* Reading a freed node is not trapped.

A NULL in a freed node has one visible consequence: `mpmc_queue_empty` looks at
the pointer only, and not at `q->head` again, so once its node is freed it may
answer TRUE of a queue that holds data. `EmptyIsTrueUntilFreed` is therefore a
statement about the time until then, and nothing is claimed after it; nothing in
the repository promises more of a concurrent `mpmc_queue_empty`. The dequeues
and enqueues meet the same NULL, and their checks of head and tail reject it.

Enqueues are bounded by `MaxEnqueues`. A failed `MCT_MALLOC` makes
`mpmc_enqueue` return without an effect and has no action.

### MpmcProgress

Every step of `MpmcQueue` is counted in history variables: `retries` are the times
that a loop of `mpmc_enqueue` or `mpmc_dequeue` started over, `linked` and `taken`
the enqueues and dequeues that took effect, `overtaken` the threads that are
inside a round of such a loop and since whose first read in it the head, the tail
or the list has changed. Nothing of `MpmcQueue` reads them. `LockFree` bounds the
first by the next two.

### McsLock

A node is named by the thread on whose stack it is. `Init` leaves the nodes
uninitialized and they keep their contents between uses, as the examples'
variables do; with `Zeroed` the callers zero a node before each use. `order` is
auxiliary: the threads in the order of their `fetch_and_store`. Sequential
consistency loses nothing on x86: the only stores that may be delayed are
`pre->next = mynode` and `mynode->next->wait = 0`, and until they are in memory
their thread does nothing another thread can see.

### LockedQueue

The two loops of `example_stl_queue_mcslock.cxx` with the lock of `FifoLock`:
`ProducerLock`, `PushBegin`, `PushEnd`, `ProducerUnlock` and `Wake`, `Check`,
`DequeueNull`, `ConsumerLock`, `Front`, `Pop`, `ConsumerUnlock`; `Acquire` is the
moment the lock is granted. The `std::queue` is external: a push takes two
steps, and `q.empty()`, which the consumer asks *without* the lock, may answer
either way while the first element is being pushed (`EmptyAnswers`). The data
race of that read is taken as such a choice, and not as anything worse: on x86
the read is one load of a pointer.

`example_stl_queue.cxx` is this program without the lock. What then goes wrong
are races inside `std::list`; `HoldingAlways` is that program, and pops an
empty queue.

### X86Atomic and AtomicObject

`AtomicObject` says in the words of the headers' comments what each operation
does to two adjacent words and returns, on signed integers that wrap around.
`X86Atomic` says which instruction each operation is: what it stores over the
bits it loaded (`Stored`), which flag or register the caller gets (`Returned`,
`Zero`, `sf`), and which operations hold the memory from their load to their
store: those whose `asm` statement has the LOCK prefix (`LockPrefixed`), and
`fetch_and_store`, because `xchg` locks without it (`Locks`). Without the prefix
of a single one (`LockPrefixedButDec`) updates are lost. The width is a constant: `atomic32.h` and `atomic64.h` differ in
nothing else. The two other variants of each primitive (8 and 16 bits) are
likewise one width each.

## Runs

| run | instance | checks | result |
|---|---|---|---|
| `spsc_safety` | 4 nodes, 2 values | type, memory safety, data intact, no leak, counter, empty-query, refinement of `FifoQueue` | holds, 23,268 states |
| `spsc_liveness` | 3 nodes, 1 value | each side returns alone; delivery and destroy if both run | holds, 7,983 states |
| `spsc_create_fails` | 3 nodes, 1 value, no consumer | `MemorySafe` | violated |
| `mpmc_safety` | producers t1 t2, consumers t2 t3, t3 asks `empty`, 3 nodes, 2 values, 2 enqueues, 1 version, held nodes not reused | type, swap targets, tail, stale reads, no leak, counter, empty-query until the node is freed, refinement of `FifoQueue` | holds, 347,159 states |
| `mpmc_lock_freedom` | 2 threads that do both, 3 nodes, 2 enqueues, 1 version, held nodes not reused | retries are bounded by the operations that take effect; t1 returns whatever t2 does | holds, 495,522 states |
| `mpmc_destroy` | t1 and t2 enqueue, t2 dequeues, t1 destroys, 3 nodes, 3 enqueues, 2 versions, held nodes not reused | no leak, destroy takes all, destroy ends | holds, 77,688 states |
| `mpmc_recycled_nodes` | 2 threads, 3 nodes, 3 enqueues, freed nodes reused at any time | `LinkAppends` | violated |
| `mcs_safety` | 4 threads, all may try, zeroed nodes | type, mutual exclusion, hand-over, nodes live, is_locked, refinement of `FifoLock` | holds, 9,646 states |
| `mcs_liveness` | 3 threads, no trylock, nodes never initialized | every lock is granted, every unlock returns | holds, 13,310 states |
| `mcs_trylock_node` | 2 threads, trylock, nodes not initialized | `PassesToWaiter` | violated |
| `locked_queue` | 2 values, a queue of up to 3 | type, pops are safe, refinement of `FifoQueue`, pushes return, delivery | holds, 659 states |
| `x86_atomics` | 2 threads, words of 2 bits, arguments -2 and 1 | type, no lost update, refinement of `AtomicObject` | holds, 133,166 states |

*Bounds.* Four SPSC nodes are the dummy, the node that was handed out, the one
being enqueued and one more in the queue, so every node is recycled while every
pointer to an old node is still held; two values show loss, duplication and
reordering of neighbours. The MPMC instance has two enqueues that race with
each other and two consumers that race with each other; with three nodes the
tail can lag while the head moves past one freed node. `mpmc_safety` and
`mpmc_lock_freedom` have a single version: a version can only make a comparison
fail, which sends the thread back to the top of its loop, so with one version a
swap succeeds whenever the addresses agree, a torn pair passes for a whole one,
and wraparound is immediate. That is the harder case for safety, and it has a
third of the states. `mpmc_destroy` has two versions, so that torn pairs fail
their comparisons there and a NULL that `free` leaves may carry another version
than the one an enqueue has read, and three enqueues, the third of which must use
a node that was freed. The run that reuses held nodes has
sixteen versions, so that its counterexample does not come from a wraparound.
Four threads in the MCS lock are a holder, a waiter that is linked, one that is
not yet linked, and one that comes back. Three is one more than the locked queue
needs to be empty, to have a single element and to have a last one that is not
the first. In words of two bits every sum can wrap around, and all sixteen
values of a pair occur. The counter `len` is an unbounded integer, bounded by
the number of nodes. Symmetry is used in runs without liveness only, between
nodes and between values, which are only compared, and between threads with the
same role.

`mpmc_destroy` does not check for deadlock, because the program ends there when
the queue is destroyed; all other runs do.

*Fairness.* `ProducerRuns` and `ConsumerRuns` say that the scheduler runs that
thread while it is inside a call, and that stores leave the store buffer; the
other thread may stop for ever. `BothRun` adds that the consumer polls in a
loop, as the example does. In `mpmc_lock_freedom` only t1 is scheduled, in
`mpmc_destroy` only the thread that destroys. With a bounded number of enqueues
an operation can be made to retry only finitely often, so lock freedom is that
the call returns; `LockFree` says what remains without such a bound, and needs no
fairness. In the lock all threads are scheduled and leave their
critical sections. `LockedQueue` schedules both threads, and grants the lock
(`WF(Acquire)`): that a thread in line gets it is `LockAcquired` of `McsLock`. A
producer need not start another push.

## What the violations show

* `mpmc_recycled_nodes`: every new node starts with `next.version = 0`
  (`mpmc_queue.h:136`), so versions do not protect `tail.ptr->next`. In the run a
  thread reads `next` of the tail torn, {NULL, 1}: the pointer before and the
  version after another enqueue linked there; the tail is not swung yet, so both
  checks pass. It stalls; the node is dequeued, freed and allocated again by an
  enqueue that has executed line 135 and not line 136, so that `next` is {NULL, 1}
  again; the stalled `double_cmp_and_swap` succeeds on a node that is not in the
  queue. (Had it read {NULL, 0}, it would succeed one statement later.) Its
  element hangs behind the recycled node: dequeues do not find it until that node
  is linked, and then it comes after elements that were enqueued later. The
  header says that DCAS overcomes the ABA problem (lines 22-23). An allocator that
  leaves a node alone while a call holds its address does: that is what the other
  runs and the proofs assume.
* `mcs_trylock_node`: `mcs_trylock` does not clear `mynode->next`; with an old
  value in it `mcs_unlock` passes the lock to a thread that does not wait for
  it (lines 76-78). With zeroed nodes (`mcs_safety`) the lock is correct.
* `spsc_create_fails`: when the second `pthread_create` fails, `main` of the
  SPSC example destroys the queue while the producer that it has started is
  inside `spsc_enqueue` (`example_spsc_queue.c:126-129`), which then stores to a
  freed node. The program claims that no lock is needed (lines 4-5); it is so
  only if both threads have been joined, as `main` does otherwise.

## Proofs

`SpscQueueProofs` proves for any set of nodes and of values (assumption
`SpscAssumption`: `NULL` and `Garbage` are distinct from both) that every
safety property of `spsc_safety` holds in every reachable state, provided that
the consumer was created (`ConsumerStarts`); `spsc_create_fails` shows that this
condition is needed. The properties are not inductive. `IInv` adds:

* `ListShape`: the nodes of the list are distinct, each points to the next, the
  last to `NULL`;
* `StoreOrder`: which stores may be pending at which statement, and that those
  no longer pending are in memory;
* `TailShape`: whether the producer's node is in the list and where `q->tail`
  points at each statement;
* `DequeueShape`: how the consumer's locals relate to the first two nodes.

Each action has a lemma that it keeps `IInv`. The instructive cases are
`FlushLink`, where the node enters the list and `StoreOrder` says its own next
is already `NULL` in memory (the barrier), and `MoveHead`, where the head
leaves the list and `TailShape` says the producer will not touch it any more.
`IInv` was checked with TLC on the instance of `spsc_safety` first.
`SpscFifoProofs` goes on to the refinement of `FifoQueue`, under the same
condition: `FlushLink` is where an enqueue takes effect, the decision of
`LoadNextNull` or `MoveHead` where a dequeue does, and one more invariant
(`SeesEmpty`) says that a dequeue which has not seen an empty queue will find a
node.

`McsLockProofs` proves for any number of threads (`McsAssumption`) that the
safety properties of `mcs_safety` hold and that the lock implements `FifoLock`,
provided that `SafeNodes`: nodes are zeroed before use, or `mcs_trylock` is not
called. `mcs_trylock_node` shows that this condition is needed. `IInv` adds:

* `LineIsQueue`: the auxiliary `order` holds exactly the threads between their
  `fetch_and_store` and their release, once each, and `lock->tail` is the last;
* `OnlyFirstHolds`: the first has the lock or has been given it, the others
  have `wait = 1` and know their predecessor;
* `NodesLinked`: `next` of a node in line is the next thread's node if that
  thread has linked itself, else `NULL`;
* `NodePrepared`: what a thread has set before it joins, that it waits for a
  follower only if it is not the last, and that it passes the lock only after it
  has seen one.

Mutual exclusion follows because a holder is first in line (`HolderIsFirst`),
and the hand-over because a non-null `next` of the first is the second
(`NextIsFollower`). In the refinement `Swap` and `TryLock` are requests,
`StopSpinning` is the grant, `ReleaseLast` and `PassLock` are releases, and
every other step leaves `FifoLock` as it is. `IInv` was checked with TLC on the
instances of both passing runs first.

`NoDeadlock` follows from the same invariant. `LineMoves` says that whoever spins
waits for one particular neighbour in line (a thread in `mcs_lock` for the one
before it, the thread in `mcs_unlock` for the second), and that this chain of
waiting does not close: the first in line either does not spin, or it spins for a
second that does not spin itself, because it has not stored its address yet. So
some thread in line can always take the step that the others wait for. That the
scheduler then runs it is fairness, and stays with `LockAcquired` and
`UnlockReturns`.

`MpmcQueueProofs` proves every safety property of `mpmc_safety` and
`mpmc_destroy`, for any threads, nodes and values, and `MpmcFifoProofs` that the
MPMC queue implements `FifoQueue`, both for an allocator that does not reuse a
node while a call in progress holds its address (`~Recycle`).
`mpmc_recycled_nodes` shows that this condition is needed. Under it freed nodes
do come back, in any number, and may hold NULLs in between (`Overwritten`). The
claim about `mpmc_queue_empty` (`EmptyAnswers`) is the one that ends when its node
is freed. `Versions` may be any positive number, even 1: as
long as an address does not come back while somebody holds it, the queue does not
depend on the versions at all, and they cannot fail by wrapping around. The
pointers `next` that threads have read need not be protected: the swap that would
use one also compares the head or tail it was read through. `LenAccounts` and `DestroyTakesAll` count threads, and assume that
there are finitely many. `IInv` is:

* `ListShape`: the nodes of the list are distinct, linked in order and live, and
  a node that has left the list has a NULL next only if it is freed;
* `EndsShape`: the head is the first node, the tail is in the list, and if it is
  not the last node then the thread that linked the last node is still about to
  swing the tail, so that it lags by one at most;
* `Enqueues`, `Dequeues` for each thread: what the pairs it has read are worth.
  The pivot is that a pointer that was the head is the head or has left the list
  and stays out of it while the thread holds it, and that a next pointer read from a node still in the list is the
  node's next pointer now. A torn pair or a stale read is then caught by the
  check or by the swap. Of an enqueue that is in front of its swap, past the list,
  with a NULL: the pair it has read is not what is there, since the next pointer
  is not NULL until the node is freed, and `free` does not write that pair;
* `SeesEmpty`: a dequeue that will return NULL met an empty list since its call. A
  NULL that it read in a freed node does not count: the head has moved on then,
  and does not pass the check;
* `Owners`: the nodes that threads are about to link or to free are theirs alone,
  and every live node is in the list or owned;
* `Destroying`: whoever destroys the queue is alone with it and its dequeues
  cannot fail.

It was checked with TLC on the instances of `mpmc_safety` and `mpmc_destroy`
first. In the refinement `Link` is where an enqueue takes effect and `SwingHead`
where a dequeue does; a dequeue that finds nothing does so in `DequeueRead`, when
the check of the head succeeds.

`MpmcProgressProofs` proves `LockFree` under the same condition, for any finite
number of threads and without a bound on what they do. `ProgressInv` adds to
`IInv`:

* `UpToDate`: a thread that was not overtaken in this round of its loop has read
  what is still so. Its checks and swaps therefore succeed, and a check or a swap
  that fails is one of a thread in `overtaken`;
* a bound: `retries`, plus the threads in `overtaken` that may still have to start
  over, is at most Threads - 1 times `Effects`, the number of times the head, the
  list or the tail has moved on. An enqueue moves two of them and a dequeue one;
  the last enqueue may not have been completed, which is `Lag`.

A step that moves the queue on lets all threads but the one that takes it be
overtaken, and adds one to `Effects`. That thread itself may be starting over, after it
has helped: then it leaves `overtaken` or was not in it, and the thread that
linked the node is past its loop, so that one retry more and one thread less
that can be overtaken cancel. A step that starts over without moving the queue is
one of an overtaken thread, which leaves `overtaken` as it adds to `retries`. The
bound was checked with TLC as an invariant first.

`LockedQueueProofs` proves the safety properties of `locked_queue` and its
refinement for any values and any bound. The point of `IInv` is `PopAgrees`: when
the consumer stands in line with the answer "not empty", the queue is not empty
or the push that made the answer ambiguous is still going on, and then the
producer holds the lock; so the lock comes to the consumer with an element in
the queue.

`X86AtomicProofs` proves that `X86Atomic` implements `AtomicObject` for any number
of threads and words of any width. One half is arithmetic (`SumWraps`,
`BitsOfSigned`): the sum modulo 2^w of bit patterns is the wrapped sum of the
signed numbers, the sign flag is the sign of the wrapped sum, and two patterns
are equal exactly if the numbers are. The other is `NoLostUpdate`, which `IInv`
makes inductive by `HeldByLocker`: the memory is held exactly from the load to
the store of a read-modify-write, since every operation that loads and stores
locks (`LocksIfStores`).

Fairness and `ENABLED` are out of the prover's reach, so liveness is only
model-checked: `EnqueueReturns`, `DequeueReturns`, `Delivery`, `DestroyEnds`,
`RunnerReturns`, `LockAcquired`, `UnlockReturns`, `PushReturns`. Every
other property of the passing runs is a theorem.

## Not modelled

* Google Test (`unit_test/gtest/`), vendored, which is 28,655 of the 30,622
  lines of code here: the toolbox itself has about two thousand. The unit tests
  call the queues and two primitives from a single thread; they were read for
  what they expect.
* `add_return` and `sub_return` of the counters, which are compiled out
  (`#if 0`).
* `CONFIG_SAME_CPU`, the kernel build (`MCT_MALLOC` as `kmalloc`), IA32's
  `cmpxchg8b` register layout. `mct_config.h` and `mct_adapt.h` select at compile
  time and keep no state.
* The barriers other than `smp_wmb`: they order loads, or stores with loads, where
  x86 or a LOCKed instruction does so anyway, and the models take accesses of a
  thread in program order there.
* The inside of `std::queue`, hence most of what `example_stl_queue.cxx` does
  wrong without a lock.
* `example_mpmc_queue.c` as a program: one thread, whose calls are among those of
  `MpmcQueue`.
* The NULL checks of the queue argument: the queue always exists.
* A call of `spsc_queue_empty` by a third thread (a hazard without a property in
  `PROJECT.json`): no caller in the repository makes it.
* `len` and `size` readers: a reader returns the counter, about which
  `LenAccounts` says all there is.

## Plan

1. (done) SPSC queue, MPMC queue and MCS lock, with the proofs about the first
   and the last.
2. (done) MPMC `empty`, `destroy` and the wrapper's destructor; the primitives
   and counters at the level of instructions; the example that guards a
   `std::queue` with the MCS lock, on top of `FifoLock`; the start-up of the SPSC
   example.
3. (done) The refinement proofs of both lock-free queues, the invariant of the
   MPMC queue without reuse of nodes, the locked queue, the instructions at any
   width.
4. (done) The MPMC proofs for an allocator that reuses nodes; lock freedom of the
   MPMC queue as a bound on retries; no deadlock in the MCS lock.
5. (open) The locked queue on `McsLock` itself instead of `FifoLock`; a history
   theorem about `FifoQueue` (what was dequeued is a prefix of what was enqueued).
6. (open) A `next` that keeps its version when its node is used again, read in one
   access: half of it is not enough, since a torn pair can hold a kept version
   too. It is not the code's, and therefore not modelled.
