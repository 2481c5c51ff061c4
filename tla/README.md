# Verification of the thread package, web server and file system

TLA+ models of the user-level thread library (`threads/`), the web server's
worker pool and file cache (`webserver/`) and the file system (`fs/`), checked by
TLC on small instances, and TLAPS proofs of the main invariants of each.
`PROJECT.json` maps every definition to the lines it models.

## 1. The system

The repository holds programs that share no code. Three have concurrency, shared
state or persistence worth modelling; section 6 lists what is left out.

| Component | State | Operations | Interaction |
|---|---|---|---|
| Thread library: scheduler (`threads/thread.c`) | `TCBs` (state, saved context, `setcontext_called`, `killOnNextRun`, wait queue, stack), `readyQueue`, `availableThreadIds`, `current_thread_id` | `thread_init`, `create`, `yield`, `exit`, `kill`, `thread_stub` | called by client threads; `thread_yield` also by the SIGALRM handler |
| Thread library: blocking calls | wait queues (one per client queue, thread, lock, condition variable), locks | `thread_sleep`, `wakeup`, `wait`, `lock_*`, `cv_*`, the destroy calls | all go through `thread_sleep` to `thread_yield` |
| Preemption timer (`threads/interrupt.c`) | signal mask, one-shot timer | `interrupts_set`, handler | the handler re-arms the timer and yields |
| Worker pool (`webserver/server_thread.c`, `server.c`) | bounded connection queue, `isServerExiting`, mutex `mp`, condition variables `cv_work`, `cv_main` | `server_init`, `server_request`, worker loop, `server_exit` | the main thread feeds the workers |
| File cache (`webserver/server_thread.c`) | hash table, LRU list, `curr_size`, in-flight list, mutexes `cache_access`, `inflight_access`, one condition variable per file in flight | lookup, insert, evict, enter and leave the in-flight list, destroy | used by the workers inside `do_server_request` |
| Request parsing and I/O (`webserver/request.c`, `common.c`) | one `struct request` per connection | `request_init`, `readfile`, `sendfile`, `destroy` | called by the workers |
| Linked lists (`threads/thread.c`, `webserver/server_thread.c`) | list elements in `malloc`'s memory, head and tail pointers | push, pop, remove | the ready queue, wait queues, free identifiers, the LRU list |
| File system (`fs/`) | super block, inode and block bitmaps, inode cache, inodes, directories | `mktestfs`, shell commands of `testfs` | one process; block writes reach the device one at a time |

What is hard in them:

* **Scheduler.** One `getcontext` returns twice, and the flag `setcontext_called`
  alone tells the two returns apart. A kill takes effect later, when the victim
  runs. Identifiers are reused. SIGALRM may arrive at every point where it is
  unblocked, `thread_stub` included.
* **Blocking calls.** `thread_sleep` does not suspend when nobody is ready, and its
  callers do not look at its result. `cv_wait` releases and then sleeps.
* **Worker pool.** Two condition variables, a full queue, spurious wakeups, an exit
  that arrives while workers are busy.
* **File cache.** Files are read outside of the lock; an eviction must wait for
  senders while it holds the cache lock, and condition variables live in list
  entries that are themselves freed.
* **File system.** A command writes several blocks; a full device or a kill stops it
  between two. Inodes are changed in memory, counted, and written later.
* **Linked lists.** Three ways of removing an element, by its place in the list, and
  cells that are reused at once by another list.

What makes each correct: every live thread is in exactly one place and runs
eventually, identifiers and stacks are neither lost nor reused too early, a killed
thread runs no more client code, locks exclude and lose no wakeup (library); no
connection is lost, duplicated or overtaken, nobody waits beside work it could do,
exit terminates (pool); hash table, LRU list and size agree, one copy per file,
nothing freed is used, every request is answered (cache); bitmaps agree with what
inodes and directories reference, also after a failed command, and the directories
stay a tree, also after a kill as long as no inode it left stale is reused (file system); the lists are sequences (lists).

## 2. Modules

| Module | Models |
|---|---|
| `UThreads` | `threads/thread.c`, `threads/interrupt.c` |
| `MCUThreads` | the client programs the runs use |
| `SeqFacts` | lemmas on sequences: what `Append`, `Tail`, `\o` and `RemoveAt` do to range and injectivity |
| `UThreads_proofs`, `UThreads_sched`, `UThreads_life`, `UThreads_locks` | theorems about `UThreads`: types; the scheduler's data; suspension, kills, exits; locks |
| `ServerPool` | the worker pool |
| `ServerPool_proofs` | theorems about `ServerPool`: wakeups and exit; order and completeness |
| `FileCache`, `MCFileCache` | the file cache, and its symmetry for TLC |
| `FileCache_proofs` | a theorem about `FileCache` |
| `LinkedLists` | the lists of the thread library and of the cache, at the level of pointers |
| `Queues` | what they implement: sequences |
| `FsBlocks` | `fs/`: device, freemaps, super block, inodes and their blocks (`bitmap.c`, `block.c`, `super.c`, `inode.c`, `read_write.c`) |
| `TestFS`, `MCTestFS` | `fs/`: directories, files, the shell commands, kills (`dir.c`, `file.c`, `testfs.c`, `mktestfs.c`); the instance and its symmetry |
| `FileTree` | what `TestFS` implements: a tree of named files and directories |

An operator named `Bug...` is a faulty variant of the definition that follows it.
No specification uses it; it serves to show that a property can fail.

### UThreads

There is one processor, so every step belongs to `current_thread_id`. `pc[t]` says
which code a thread executes and `inYield[t]` that it is suspended inside
`thread_yield`. A call runs with SIGALRM blocked: it is one action, or several
actions of the same thread with no place for `Preempt` between them. `Switch` is the
first return of `getcontext` (enter a queue, set the flag, `setcontext` to the next
thread), `Resume` the second one in the thread that gets the processor, which frees
the stacks of exited threads and exits if it has been killed, and `SkipSwitch` what
happens when the flag is set already. `StubEnable` and `StubCheck` are the two
halves of `thread_stub`, with interrupts on between them. `Preempt` is the handler.
Queues are sequences, removal from the middle is `Without`.

Decisions:

* The client program is arbitrary within a contract: it does not acquire a lock it
  holds, does not exit while holding one, does not use a destroyed object, and
  destroys a lock only when no thread is inside a call on it. `Uses` selects the
  optional calls.
* `wait_queue_destroy` and `cv_destroy` run with interrupts on, one step per popped
  thread. SIGALRM inside a pop, with the list half changed, is not modelled.
* Calls with invalid arguments return an error and change nothing; they are not
  actions. Identifiers outside of the table are not passed.
* `holds` and `awaits` are history variables that only properties read.

### ServerPool

The command line is chosen in `Init`, so one run covers every combination within
the bounds, including no workers and a queue of length zero. The mutex `mp` guards
everything shared, so a critical section up to the release or the wait is one step:
`Wait`, `Take`, `Leave` and `Serve` are the worker's loop, `Accept`, `Retry`, `Exit`,
`Join` and `Finish` the main thread. `SpuriousWakeup` is what POSIX allows
`pthread_cond_wait`. `server_exit` joins `max_requests` threads, so `Join` past the
end of `thread_pool` goes on or crashes, and `Finish` crashes when there is no cache
to destroy, as in the code. With a cache (`cached`), `Serve` may never be taken: a
request can then block in `do_server_request`, as `cache_stuck` shows. Descriptors are never reused in the model, so that a
connection can be followed.

### FileCache

A request allocates one `file_data`, so objects and in-flight entries carry the name
of the request that made them. The steps of `do_server_request` are separate
wherever it holds neither lock or changes locks: `Lookup`, `Read`, `Relookup`,
`Insert` and the eviction loop (`Evict`, `Sleep`, `Woken`, `RemoveVictim`), all under
`cache_access`, then `Enqueue`, `Send`, `Dequeue`, `Signal`. The size of a file is
chosen when it is read, so two reads of one file may differ. The hash table is the
set of objects in its chains. Memory keeps its contents after it is freed, and a
step that touches it may instead end the process (`Crash`). A file that cannot be
read ends the process, because the error path destroys the request twice
(`server_thread.c:802-808`).

### LinkedLists and Queues

The memory is a record: which cells `malloc` has given out, their fields, and the
heads. A list function maps a memory to the memories it may leave (`malloc` returns
any free cell), and the calls compose the functions in the order of the code, so the
cell freed by `removeFromReadyQueue` may be the one `pushThreadToWait` gets. The
LRU list's code is the ready queue's, over files; `program` says whose lists they
are. `Queues` has one action per call, on sequences, in the form `UThreads` uses
them. A freed cell is cleared, which is sound because `NothingDangles` shows that no
pointer leads to one.

### FsBlocks, TestFS and FileTree

A C function is an operator from the state of the process to the state it leaves:
`disk` (the device), `cache` (the inodes in memory, each with `i_count` and its dirty
flag), `cur_dir`, `ret` (the result) and `status` (mounted, or the assertion or `EXIT`
that ended the process). `Store` is one write and appends the device to `log`. `Then` and `IfOk`
put two functions in sequence, `IfOk` with the early return on an error. An assertion
is `EndIf`. A command of the shell is one action with two outcomes: `Finish` applies
all of its writes, `Killed` leaves the device as it was between two of them; the next
`Mount` starts from the device alone, as nothing is repaired.

* A data block holds `BLOCK_SIZE` cells, a cell is a byte of a file, a block number or
  the start of a directory entry with its name; an entry is as long as its name, so
  that a removed one can be too short for the next.
* A block write is atomic. The code writes with `fwrite` and moves with `fseek`, which
  flushes, and a kill does not tear a block that has been handed to the kernel.
* A block that has never been written reads as zeros inside the device file; behind
  its end (`device_end`) `fread` fails and the process ends.
* A kill inside `testfs_remove_inode` may leave an inode that is free and not zero
  (`StaleInodes`). The device is mounted and used as any other. The command that takes
  such an inode is a step of the model too and leaves the status `reused`; nothing is
  followed behind it, as a file with blocks that are not its own makes any damage
  possible. The properties that this command breaks are stated up to it, and
  `fs_reuse` shows what it does.
* `tree` is the file tree found on the device, a function of `disk`. It is a variable
  only so that TLC computes it once for each state; the properties and the refinement
  mapping read it, no action depends on it.

`FileTree` says what a user relies on: each command has its whole effect on the tree
or none, and a kill affects only what the command names. `CreateInterrupted` and
`WriteInterrupted` are the two effects of a kill that are visible afterwards: an entry
whose inode has no type yet, and bytes behind the end of a file.

## 3. Runs

| Run | Instance | States | Shows |
|---|---|---|---|
| `uthreads_blocking` | 3 threads; 1 queue, lock, cv; no kills; fair | 41 thousand | no thread or identifier is lost, a yield switches, waiters have a live target, a thread leaves the ready queue only to run, a ready thread runs, `cv_wait` is atomic to other threads, `lock_acquire` spins only behind a holder that sleeps |
| `uthreads_killing` | 3 threads; 1 lock, cv; kills, destruction, no memory | 690 thousand | queues, states, identifiers and stacks stay consistent, a killed thread runs no client code, locks exclude and strand nobody |
| `pool_requests` | up to 3 workers, 2 places, 4 clients; fair | 18 thousand | no connection is lost, served twice or overtaken, no lost wakeup, without a cache every accepted connection is answered unless the server exits |
| `cache_safe` | 3 requests, 3 files, sizes 0 to 3, cache of 2 | 148 thousand | size, hash table, LRU list and in-flight list agree, nothing freed stays cached |
| `lists` | 4 threads or files, 4 cells | 13 thousand | the pointer code implements sequences, nothing dangles or leaks, both directions of the list agree |
| `fs_commands` | 3 inodes, 3 or 4 data blocks, 3 names, one kill on the smaller device | 19 thousand | until a stale inode is reused, the commands implement a file tree, no block has two owners and the directories are a tree, kills included; commands put back the inodes they take; without a kill nothing leaks, a failed command undoes what it did, and no assertion about allocation fails |

Violations, each a disagreement between the code and a sentence of the repository
(quoted in `PROJECT.json`):

| Run | What the code does |
|---|---|
| `uthreads_kill_lost` | a thread that was killed before its first run and is preempted in `thread_stub`'s window exits inside `thread_yield`, and the thread just taken off the ready queue is in no queue any more |
| `pool_exit` | a worker that was busy or had not started at the broadcast waits afterwards, and `server_exit` never returns, without a cache and with no more joins than workers |
| `cache_freed` | a file is evicted and freed between a request's lookup and its entry in the in-flight list |
| `cache_stuck` | a sender signals between the evictor's look at the in-flight list and its wait; the evictor sleeps for ever with the cache locked |
| `fs_dirty` | a `mkdir` that fails when the parent's first indirect block can be allocated and no block behind it leaves the parent dirty, and the next `cd` or `quit` aborts |
| `fs_reuse` | after a kill in `rm` between the inode freemap and the zeroed inode, `create` makes a file with the removed one's size and freed blocks |

Behaviours of the models without a run of their own:

* *Threads.* The next thread with a killed thread's identifier starts with
  `setcontext_called` set, and its first yield does not switch (`thread.c:646`).
  `thread_wait` returns while the thread is alive when nobody is ready
  (`thread.c:822`, against `thread.h:122-123`). The last `thread_exit` frees the stack
  it runs on (`thread.c:662`, against the comment at `thread.c:431`). `thread_create`
  without memory loses the identifier it took (`thread.c:439`). `lock_acquire` spins
  when the holder sleeps elsewhere and nobody is ready (`thread.c:871`). `cv_wait` may
  return without a signal (`thread.c:936`). Destroying a wait queue discards its
  sleepers (`thread.c:733`).
* *Web server.* `server_exit` joins `max_requests` threads (`server_thread.c:952`): with
  more workers than that it returns before them, with fewer it reads past the array.
  `ExitJoinsAll` states what is left.
* *File system.* `ls` of a file keeps the inode (`dir.c:311`), and `quit` then fails the
  assertion at `inode.c:43`. A killed write may leave `block_count` too small, on which
  a later `rm` fails an assertion, or a pointer to a block that has never been written,
  which a `read` cannot read. The counters of the super block may be off by one after
  each kill.

**Bounds.** Three threads are a running one, one at the head of a queue and one that
is killed, woken or reused: a holder that sleeps, a thread that wants its lock and one
that may wake it.
Three workers and two queue places make the queue full while some workers wait,
some serve and some are woken. With three files, sizes 0 to 3 and a cache of 2, one
insertion evicts two files, a file can be empty, fill the cache, or exceed it.
With one direct block and three indirect ones per inode, writes at the first block,
the first indirect block, the last one and behind it meet every boundary of the block
map. On three or four data blocks the device becomes full at a direct block, at the
indirect block and at the block behind it. The inode freemap has more bits
than there are inodes, as with the constants of the code. Two of the three names have entries of the
same length, so a removed entry is reused by one name and not by another. Two kills on
the smaller device were also checked, once, with the same result (92 thousand states).
Four threads are needed to remove one from the middle of the ready queue while one
runs. Requests and files are interchangeable in `cache_safe`, and so are the two names
of the same length in `fs_commands`, so these runs use symmetry; the runs of
`FileCache` with a liveness property do not.

**Fairness.** `UThreads`: `WF(LibraryStep)`, since the processor keeps executing the
current thread, and `SF(Preempt)`, since the handler re-arms the timer and a SIGALRM
that expires while blocked is delivered when it is unblocked. Client calls are not
fair. `ServerPool` and `FileCache`: weak fairness of every thread's own steps, which
assumes that the operating system schedules runnable threads, that the mutexes are
passed on, and that clients read what they are sent. `Serve` is fair only without a
cache (`Returns`): there `do_server_request` reads a file and sends it, and waits for
nobody else, while with one it may wait for ever. Arrivals, the exit request and
spurious wakeups are not fair. With finitely many requests the mutexes are free from
some point on, unless somebody keeps one for ever, so weak fairness suffices.

`TestFS` and `LinkedLists` have no liveness property: a command ends, and nobody waits.

**Deadlock** is checked in every passing run; `Terminated` is the ended process, and
`Unfollowed` the end of the model behind the reuse of a stale inode.

## 4. Proofs

The theorems about `UThreads` hold for every value of the constants allowed by its
assumptions (at least one thread, disjoint sets of objects, any `Uses`; five of them
name calls the client does not make), those about
`ServerPool` for any number of workers, places and clients, and the one about
`FileCache` for any requests, files and sizes.

* `TypeCorrect` (`UThreads_proofs`): `Spec => []TypeOK`. One lemma per composite
  operation (exit, yield, sleep, wakeup, release), then one case per action.
* `SchedulerConsistent` (`UThreads_sched`): `QueuedAtMostOnce`, `OneRunning` and
  `FreeIdsUnused` always hold. None is inductive alone. That a thread enters a queue
  only once follows because the thread that enters is the running one and running
  threads are in no queue; that needs "queued implies READY", which an exit keeps
  only because the exiting thread is `RUNNING`, and a creation only because a free
  identifier is `NOT_ASSIGNED`. Together with `TypeOK` their conjunction `SchedInv`
  is inductive. `StepKinds` reduces the actions to seven ways of changing the queues
  (switch, skip, exit, wakeup, create, discard, no change), each with a lemma that
  computes the new ranges from `SeqFacts`.
* `LocksExclude` (`UThreads_locks`): `MutualExclusion`, inductive together with
  `TypeOK`. A lock is taken only when nobody is its holder, released only by its
  holder, and the exit of a killed thread empties its `holds` without touching the lock.
* `KilledStops`, `ResumeSafe` and `StacksSafe` (`UThreads_life`): `KilledDoesNotRun`,
  `ResumeDoesNotSwitch` and `LiveStackAllocated`. What they need is where a thread that
  is not running stopped: a READY thread is inside `thread_yield` or new (`Suspended`).
  So whoever gets the processor, from a yield or from an exit, reads `killOnNextRun`
  before it returns to the client. That the next thread was READY comes from `SchedInv`;
  together they are inductive (`SuspInv`).
* `YieldsSwitch`, `OnlyRunnersPopped`, `WaitersWoken`, `NobodyLost` and `IdsReusable`
  (`UThreads_life`): `YieldCanSwitch`, `PoppedRuns`, `WaitersHaveTarget`, `NoThreadLost`
  and `NoIdLeaked`, each for the
  clients it is true of: the first three when nobody is killed, the fourth when also
  nothing is destroyed, the last, kills included, when `malloc` does not fail. Without
  kills `setcontext_called` is set in suspended threads only (`CalmInv`), so that no
  yield takes a thread off the ready queue and returns without running it, and the wait
  queue stored in a TCB is used up by the switch it was stored for (`WaitInv`).
* `LocksStrandNobody` (`UThreads_locks`): `NoSleeperOnFreeLock`. A thread may enter a
  lock's queue through a `waitQueue` left in its TCB by a yield that did not switch.
  `NoStaleLockQueue` says that such a thread is still in `lock_acquire`, with the lock
  held; with it the invariant is inductive.
* `PoolWakeups` and `PoolExit` (`ServerPool_proofs`): `MainWaitsForRoom`,
  `NoWorkIgnored` and `ExitJoinsAll`. The argument counts: while a worker
  waits, a push that adds a connection wakes one more worker, and a worker that leaves
  the queue takes a connection with it. A spurious wakeup only adds a worker on its
  way. The inductive invariant `PoolInv` adds to the two that the main thread has a
  connection while it waits in `server_request` and a worker while it serves, and that
  the workers already joined have returned.
* `PoolInOrder` and `PoolLosesNone` (`ServerPool_proofs`): `InArrivalOrder` and
  `EachInOnePlace`, from `PoolInv` and `OrderInv`. `Ordered` says that what has left the
  queue is before what is in it, and that is before what `server_request` holds; a
  connection that leaves is then new among those that have left, which is why no worker
  gets one that another has (`Apart`), and `Complete` says that none is missing.
* `CacheHoldsLive` (`FileCache_proofs`): `CachedNotFreed`. Up to its insertion a request
  has an object that is neither cached nor freed (`OwnObject`); a hit frees that one, an
  eviction only what it takes out of the hash table.

Only model-checked: `CvWaiterListed`, `SpinsOnlyBehindSleeper` and the liveness of `UThreads`, the other
properties of `FileCache`, everything
about `TestFS` and `LinkedLists`, and the two refinements. `LinkedLists` follows
pointers with recursive operators, and `SizeAccounted` is a sum over a set; both are out
of the prover's reach. `LRUMatchesCache` rests on `SizeAccounted`: an eviction finds a
file in the list because `curr_size` is not zero. Liveness is out of reach too, as the
prover handles neither fairness nor `ENABLED`.

## 5. Plan

1. *Done.* `UThreads`, `ServerPool`, `FileCache`, `LinkedLists` and the file system, with
   their runs; proved: all safety properties of `ServerPool`, and of `UThreads` all that
   `uthreads_killing` checks and most of what `uthreads_blocking` does.
2. More theorems: `CvWaiterListed` of the library, and that `FileCache` keeps its list
   and its hash table in step.
3. The hash chains of the cache, and a `destroy_cache` that runs while workers serve.

## 6. Not modelled

* In the cache: hash chains and `array_size` (zero for a cache below 4096 bytes),
  memory that is never freed, and a `destroy_cache` that runs while workers still
  serve. A server without a cache shares no state between requests.
* In the file system: what happens behind the reuse of a stale inode (above), parsing of
  command lines, output, and the words and bits of the bitmaps. `list.h` is the Linux
  kernel's; the one list of it in use, the inode cache, is a function.
* In the lists: `addToHead`, `isIdNotUsed`, `printList` and `add_to_queue_cpy` are
  never called.
* Request parsing, sockets, clients, file set generator: input and output. Their
  results (a file name, a read that fails) are inputs of the models.
* Warm-up programs, the earlier copy of the thread library, and the tests.
* Memory outside of `TCBs` that an identifier out of range would reach.
