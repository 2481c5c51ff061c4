------------------------------ MODULE UThreads ------------------------------
(***************************************************************************)
(* The user-level thread library (threads/thread.c) with its preemption     *)
(* timer (threads/interrupt.c): thread control blocks, the ready queue, the *)
(* list of free identifiers, wait queues, thread_wait, locks and condition  *)
(* variables.                                                               *)
(*                                                                          *)
(* There is one processor, so every step is a step of current_thread_id.    *)
(* A library call runs with SIGALRM blocked: it is one action, or several   *)
(* consecutive actions of the same thread that nothing can come between,    *)
(* up to the setcontext that hands the processor to another thread.         *)
(* Preempt is the SIGALRM handler; it is enabled exactly where the code     *)
(* runs with the signal unblocked.                                          *)
(***************************************************************************)
EXTENDS Integers, SequencesExt

CONSTANTS
  MaxThreads,   \* THREAD_MAX_THREADS
  Queues,       \* the wait queues the client program creates
  Locks,        \* its locks
  CVs,          \* its condition variables
  Uses,         \* the optional calls its threads make, a subset of Optional
  NULL          \* the null pointer

Tids == 0 .. MaxThreads - 1
Objects == Queues \cup Locks \cup CVs

\* Every wait queue of the process.  The queue of a lock or condition variable
\* is named by its owner, TCBs[t].t_wait by the thread t.
WaitQueues == Tids \cup Objects

Optional == {"kill", "sleep", "wait", "lock", "cv", "destroy", "nomemory"}

ASSUME MaxThreadsAssumption == MaxThreads \in Nat \ {0}
ASSUME QueuesAssumption ==
  /\ Objects \cap Tids = {}
  /\ Queues \cap Locks = {} /\ Queues \cap CVs = {} /\ Locks \cap CVs = {}
ASSUME NullAssumption == NULL \notin WaitQueues
ASSUME UsesAssumption == Uses \subseteq Optional

VARIABLES
  t_state, setcontext_called, killOnNextRun, waitQueue, stack_to_free,
                       \* the fields of TCBs[t]; stack_to_free: is it non-null
  availableThreadIds,  \* free identifiers, head first
  readyQueue,          \* the ready queue, head first
  wq,                  \* the contents of every wait queue, head first
  current_thread_id,
  acquiredBy,          \* lock |-> its holder, or -1 when isAcquired is false
  pc,                  \* t |-> the code t executes, see Place
  inYield,             \* t |-> is t inside thread_yield, past its getcontext
  alive,               \* the objects that have not been destroyed
  exited,              \* has the process called exit(0)
  holds,               \* t |-> the locks t believes it holds (history)
  awaits               \* t |-> the thread or condition variable t's last
                       \*       thread_wait or cv_wait waits for, until that
                       \*       event happens (history)

tcbs == <<t_state, setcontext_called, killOnNextRun, waitQueue, stack_to_free>>
queues == <<availableThreadIds, readyQueue, wq>>
vars == <<tcbs, queues, current_thread_id, acquiredBy, pc, inYield, alive,
          exited, holds, awaits>>

self == current_thread_id

\* Where a thread is: before or at the entry of thread_stub, in the stub with
\* interrupts on and killOnNextRun still unread, in the client's code, at the
\* top of lock_acquire's loop, in cv_wait after its lock_release, or in the
\* loop of wait_queue_destroy.
Place(op, obj, lock) == [op |-> op, obj |-> obj, lock |-> lock]
Nowhere == Place("none", NULL, NULL)
AtStub == Place("stub", NULL, NULL)
InWindow == Place("window", NULL, NULL)
InUser == Place("user", NULL, NULL)
InLock(l) == Place("lock", NULL, l)
InCv(c, l) == Place("cv", c, l)
InDestroy(q) == Place("destroy", q, NULL)

Places ==
  [op : {"none", "stub", "window", "user", "lock", "cv", "destroy"},
   obj : Queues \cup CVs \cup {NULL}, lock : Locks \cup {NULL}]

\* The current thread executes p (and is not suspended in thread_yield).
Running(p) == ~exited /\ ~inYield[self] /\ pc[self] = p

\* SIGALRM is unblocked: everywhere but inside the library's critical regions.
BugInterruptsInCv ==
  ~exited /\ ~inYield[self] /\ pc[self].op \in {"window", "user", "destroy", "cv"}
InterruptsOn ==
  ~exited /\ ~inYield[self] /\ pc[self].op \in {"window", "user", "destroy"}

\* The library's data keep their types: queues hold identifiers of the table.
TypeOK ==
  /\ t_state \in [Tids -> {"NOT_ASSIGNED", "READY", "RUNNING"}]
  /\ setcontext_called \in [Tids -> BOOLEAN]
  /\ killOnNextRun \in [Tids -> BOOLEAN]
  /\ waitQueue \in [Tids -> WaitQueues \cup {NULL}]
  /\ stack_to_free \in [Tids -> BOOLEAN]
  /\ availableThreadIds \in Seq(Tids)
  /\ readyQueue \in Seq(Tids)
  /\ wq \in [WaitQueues -> Seq(Tids)]
  /\ current_thread_id \in Tids
  /\ acquiredBy \in [Locks -> Tids \cup {-1}]
  /\ pc \in [Tids -> Places]
  /\ inYield \in [Tids -> BOOLEAN]
  /\ alive \subseteq Objects
  /\ exited \in BOOLEAN
  /\ holds \in [Tids -> SUBSET Locks]
  /\ awaits \in [Tids -> Tids \cup CVs \cup {NULL}]

\* thread_init: thread 0 is the caller, the identifiers 1, 2, ... are free.
Init ==
  /\ t_state = [t \in Tids |-> IF t = 0 THEN "RUNNING" ELSE "NOT_ASSIGNED"]
  /\ setcontext_called = [t \in Tids |-> FALSE]
  /\ killOnNextRun = [t \in Tids |-> FALSE]
  /\ waitQueue = [t \in Tids |-> NULL]
  /\ stack_to_free = [t \in Tids |-> FALSE]
  /\ availableThreadIds = [i \in 1 .. MaxThreads - 1 |-> i]
  /\ readyQueue = <<>>
  /\ wq = [q \in WaitQueues |-> <<>>]
  /\ current_thread_id = 0
  /\ acquiredBy = [l \in Locks |-> -1]
  /\ pc = [t \in Tids |-> IF t = 0 THEN InUser ELSE Nowhere]
  /\ inYield = [t \in Tids |-> FALSE]
  /\ alive = Objects
  /\ exited = FALSE
  /\ holds = [t \in Tids |-> {}]
  /\ awaits = [t \in Tids |-> NULL]

-----------------------------------------------------------------------------
(* Helpers: the queues, the stacks and single assignments of the calls.      *)
(* An operator named Bug... is a faulty variant of the one that follows it;  *)
(* no module uses it.                                                        *)

\* The entry before position i takes the rest of the queue with it, or the
\* entry at position i stays linked.
BugDropsPrefix(s, i) == SubSeq(s, i + 1, Len(s))
BugKeepsEntry(s, i) == SubSeq(s, 1, i) \o SubSeq(s, i + 1, Len(s))

\* removeFromReadyQueue and, with i = 1, removeNextReadyThread.
Without(s, i) == RemoveAt(s, i)

BugForgetsId(id) == availableThreadIds
BugWrongId(id) == <<id + 1>> \o availableThreadIds
addToHeadId(id) == <<id>> \o availableThreadIds

BugRemovesTail == SubSeq(availableThreadIds, 1, Len(availableThreadIds) - 1)
removeFromHead == Tail(availableThreadIds)

BugFreesSuspended(st) ==
  [t \in Tids |-> stack_to_free[t] /\ (t = 0 \/ st[t] = "RUNNING")]

\* freeTCBStacks: the stacks left when the thread states are st.
freeTCBStacks(st) ==
  [t \in Tids |-> stack_to_free[t] /\ (t = 0 \/ st[t] # "NOT_ASSIGNED")]

BugTargetSelf(tid) == t_state[tid] # "NOT_ASSIGNED"
BugTargetGone(tid) == tid # self

\* thread_kill and thread_wait accept a live thread other than the caller.
ValidTarget(tid) == tid # self /\ t_state[tid] # "NOT_ASSIGNED"

BugReleasesForOthers(l) == acquiredBy[l] # -1
HeldBySelf(l) == acquiredBy[l] = self

BugStaysAcquired(l) == acquiredBy
Freed(l) == [acquiredBy EXCEPT ![l] = -1]

BugWakesOne(q, all) == IF wq[q] = <<>> THEN <<>> ELSE <<Head(wq[q])>>

\* The threads thread_wakeup(q, all) moves to the ready queue, in order, and
\* the wait queue it leaves.
Woken(q, all) ==
  IF all \/ wq[q] = <<>> THEN wq[q] ELSE <<Head(wq[q])>>
NotWoken(q, all) == SubSeq(wq[q], Len(Woken(q, all)) + 1, Len(wq[q]))

\* thread_wakeup(q, all), for the calls that change only what it changes.
Wakeup(q, all) ==
  LET woken == Woken(q, all)
  IN /\ readyQueue' = readyQueue \o woken
     /\ wq' = [wq EXCEPT ![q] = NotWoken(q, all)]
     /\ awaits' = [t \in Tids |->
                     IF t \in Range(woken) THEN NULL ELSE awaits[t]]
     /\ UNCHANGED <<tcbs, availableThreadIds, current_thread_id, inYield, exited>>

-----------------------------------------------------------------------------
(* thread_exit and thread_yield.                                            *)

\* thread_exit, entered with the ready queue ready and the stacks stacks.  It
\* ends the process when no thread is ready after the waiters of the exiting
\* thread have been woken.
ThreadExit(ready, stacks) ==
  LET rest == ready \o Woken(self, TRUE)
      gone == [t_state EXCEPT ![self] = "NOT_ASSIGNED"]
  IN /\ killOnNextRun' = [killOnNextRun EXCEPT ![self] = FALSE]
     /\ waitQueue' = [waitQueue EXCEPT ![self] = NULL]
     /\ wq' = [wq EXCEPT ![self] = NotWoken(self, TRUE)]
     /\ availableThreadIds' = addToHeadId(self)
     /\ pc' = [pc EXCEPT ![self] = Nowhere]
     /\ inYield' = [inYield EXCEPT ![self] = FALSE]
     /\ holds' = [holds EXCEPT ![self] = {}]
     /\ awaits' = [t \in Tids |->
                     IF t = self \/ awaits[t] = self THEN NULL ELSE awaits[t]]
     /\ \/ /\ rest = <<>>
           /\ exited' = TRUE
           /\ t_state' = gone
           /\ stack_to_free' = freeTCBStacks(gone)
           /\ readyQueue' = <<>>
           /\ UNCHANGED current_thread_id
        \/ /\ rest # <<>>
           /\ current_thread_id' = Head(rest)
           /\ readyQueue' = Tail(rest)
           /\ t_state' = [gone EXCEPT ![Head(rest)] = "RUNNING"]
           /\ stack_to_free' = stacks
           /\ UNCHANGED exited
     /\ UNCHANGED <<setcontext_called, acquiredBy, alive>>

\* A thread_wait or cv_wait of the current thread waits for q from now on.
AwaitsAfter(q) ==
  IF q \in Tids \cup CVs THEN [awaits EXCEPT ![self] = q] ELSE awaits

BugStaysRunning(next) == [t_state EXCEPT ![next] = "RUNNING"]
StatesAfterSwitch(next) == [t_state EXCEPT ![self] = "READY", ![next] = "RUNNING"]

BugFlagsNext(next) == [setcontext_called EXCEPT ![next] = TRUE]
FlagsAfterSwitch(next) == [setcontext_called EXCEPT ![self] = TRUE]

BugNotCleared == setcontext_called
FlagsAfterResume == [setcontext_called EXCEPT ![self] = FALSE]

\* addToHead in place of addToTail.
BugEnqueueFirst(rest, dest) ==
  IF dest = NULL
  THEN readyQueue' = <<self>> \o rest /\ UNCHANGED wq
  ELSE readyQueue' = rest /\ wq' = [wq EXCEPT ![dest] = Append(@, self)]

\* The thread that gives up the processor goes to the end of the wait queue
\* named in its TCB, or else of the ready queue.
Enqueue(rest, dest) ==
  IF dest = NULL
  THEN readyQueue' = Append(rest, self) /\ UNCHANGED wq
  ELSE readyQueue' = rest /\ wq' = [wq EXCEPT ![dest] = Append(@, self)]

\* thread_yield saves the current thread, which will return to place ret, and
\* runs the thread at position i of the ready queue.
Switch(i, q, ret) ==
  LET next == readyQueue[i]
      rest == Without(readyQueue, i)
      dest == IF q = NULL THEN waitQueue[self] ELSE q
  IN /\ ~killOnNextRun[self] /\ ~setcontext_called[self]
     /\ t_state' = StatesAfterSwitch(next)
     /\ Enqueue(rest, dest)
     /\ waitQueue' = [waitQueue EXCEPT ![self] = NULL]
     /\ current_thread_id' = next
     /\ setcontext_called' = FlagsAfterSwitch(next)
     /\ stack_to_free' = freeTCBStacks(t_state)
     /\ pc' = [pc EXCEPT ![self] = ret]
     /\ inYield' = [inYield EXCEPT ![self] = TRUE]
     /\ awaits' = AwaitsAfter(q)
     /\ UNCHANGED <<killOnNextRun, availableThreadIds, acquiredBy, alive,
                    exited, holds>>

\* With setcontext_called already set, thread_yield takes the other thread off
\* the ready queue and then returns as if it had run.
SkipSwitch(i, q, ret) ==
  /\ ~killOnNextRun[self] /\ setcontext_called[self]
  /\ readyQueue' = Without(readyQueue, i)
  /\ waitQueue' = IF q = NULL THEN waitQueue ELSE [waitQueue EXCEPT ![self] = q]
  /\ setcontext_called' = FlagsAfterResume
  /\ stack_to_free' = freeTCBStacks(t_state)
  /\ pc' = [pc EXCEPT ![self] = ret]
  /\ awaits' = AwaitsAfter(q)
  /\ UNCHANGED <<t_state, killOnNextRun, availableThreadIds, wq, current_thread_id,
                 inYield, acquiredBy, alive, exited, holds>>

\* thread_yield from the removal of position i of the ready queue on; q is the
\* queue thread_sleep has just stored in the TCB, or NULL.
Yield(i, q, ret) ==
  \/ killOnNextRun[self] /\ ThreadExit(Without(readyQueue, i), freeTCBStacks(t_state))
  \/ SkipSwitch(i, q, ret)
  \/ Switch(i, q, ret)

\* thread_sleep(q): when nobody is ready it returns THREAD_NONE at once.
Sleep(q, ret) ==
  \/ /\ readyQueue = <<>>
     /\ pc' = [pc EXCEPT ![self] = ret]
     /\ awaits' = AwaitsAfter(q)
     /\ UNCHANGED <<tcbs, queues, current_thread_id, acquiredBy, inYield, alive,
                    exited, holds>>
  \/ readyQueue # <<>> /\ Yield(1, q, ret)

-----------------------------------------------------------------------------
(* Steps of the current thread inside the library.                          *)

\* thread_stub unblocks SIGALRM before it reads killOnNextRun.
StubEnable ==
  /\ Running(AtStub)
  /\ pc' = [pc EXCEPT ![self] = InWindow]
  /\ UNCHANGED <<tcbs, queues, current_thread_id, acquiredBy, inYield, alive,
                 exited, holds, awaits>>

\* threadResponsibilities called by thread_stub: a killed thread exits before
\* thread_main is called.
StubCheck ==
  /\ Running(InWindow)
  /\ \/ killOnNextRun[self] /\ ThreadExit(readyQueue, freeTCBStacks(t_state))
     \/ /\ ~killOnNextRun[self]
        /\ stack_to_free' = freeTCBStacks(t_state)
        /\ pc' = [pc EXCEPT ![self] = InUser]
        /\ UNCHANGED <<t_state, setcontext_called, killOnNextRun, waitQueue, queues,
                       current_thread_id, acquiredBy, inYield, alive, exited,
                       holds, awaits>>

\* A thread that has been switched to comes out of getcontext a second time:
\* it exits if it was killed meanwhile, and otherwise returns to its caller.
Resume ==
  /\ ~exited /\ inYield[self]
  /\ \/ killOnNextRun[self] /\ ThreadExit(readyQueue, freeTCBStacks(t_state))
     \/ /\ ~killOnNextRun[self]
        /\ setcontext_called[self]
        /\ setcontext_called' = FlagsAfterResume
        /\ stack_to_free' = freeTCBStacks(t_state)
        /\ inYield' = [inYield EXCEPT ![self] = FALSE]
        /\ UNCHANGED <<t_state, killOnNextRun, waitQueue, queues, current_thread_id,
                       acquiredBy, pc, alive, exited, holds, awaits>>

\* interrupt_handler calls thread_yield(THREAD_ANY) and returns to the
\* interrupted code; with an empty ready queue it has no effect.
Preempt ==
  /\ InterruptsOn
  /\ readyQueue # <<>>
  /\ Yield(1, NULL, pc[self])

\* lock_acquire's loop: take a free lock, else sleep on it and look again ...
LockTake ==
  \E l \in Locks :
    /\ Running(InLock(l))
    /\ acquiredBy[l] = -1
    /\ acquiredBy' = [acquiredBy EXCEPT ![l] = self]
    /\ holds' = [holds EXCEPT ![self] = @ \cup {l}]
    /\ pc' = [pc EXCEPT ![self] = InUser]
    /\ UNCHANGED <<tcbs, queues, current_thread_id, inYield, alive, exited, awaits>>

LockSleep ==
  \E l \in Locks :
    /\ Running(InLock(l))
    /\ acquiredBy[l] # -1
    /\ readyQueue # <<>>
    /\ Yield(1, l, InLock(l))

\* ... and with nobody ready thread_sleep returns at once: the loop spins, with
\* interrupts off, for ever.
Spinning == \E l \in Locks : Running(InLock(l)) /\ acquiredBy[l] # -1 /\ readyQueue = <<>>
LockSpin == Spinning /\ UNCHANGED vars

\* cv_wait, after lock_release: sleep on the condition variable, then lock_acquire.
CvSleep ==
  \E c \in CVs, l \in Locks :
    Running(InCv(c, l)) /\ Sleep(c, InLock(l))

\* wait_queue_destroy pops the queue until it is empty, then frees it; it does
\* not block SIGALRM.  A pop is one step: a SIGALRM inside popHeadThreadWait,
\* between its two accesses to the queue, is not modelled.
DestroyPop ==
  \E q \in Queues \cup CVs :
    /\ Running(InDestroy(q))
    /\ wq[q] # <<>>
    /\ wq' = [wq EXCEPT ![q] = Tail(@)]
    /\ UNCHANGED <<tcbs, availableThreadIds, readyQueue, current_thread_id,
                   acquiredBy, pc, inYield, alive, exited, holds, awaits>>

DestroyFree ==
  \E q \in Queues \cup CVs :
    /\ Running(InDestroy(q))
    /\ wq[q] = <<>>
    /\ alive' = alive \ {q}
    /\ pc' = [pc EXCEPT ![self] = InUser]
    /\ UNCHANGED <<tcbs, queues, current_thread_id, acquiredBy, inYield, exited,
                   holds, awaits>>

-----------------------------------------------------------------------------
(* Library calls of the client.                                             *)

thread_create ==
  /\ Running(InUser)
  /\ availableThreadIds # <<>>
  /\ LET id == Head(availableThreadIds)
     IN /\ availableThreadIds' = removeFromHead
        /\ stack_to_free' = [stack_to_free EXCEPT ![id] = TRUE]
        /\ t_state' = [t_state EXCEPT ![id] = "READY"]
        /\ readyQueue' = Append(readyQueue, id)
        /\ pc' = [pc EXCEPT ![id] = AtStub]
  /\ UNCHANGED <<setcontext_called, killOnNextRun, waitQueue, wq, current_thread_id,
                 acquiredBy, inYield, alive, exited, holds, awaits>>

\* thread_create when malloc cannot give it a stack (THREAD_NOMEMORY): the
\* identifier has left the list and the old stack is gone.
thread_create_nomemory ==
  /\ "nomemory" \in Uses
  /\ Running(InUser)
  /\ availableThreadIds # <<>>
  /\ availableThreadIds' = removeFromHead
  /\ stack_to_free' = [stack_to_free EXCEPT ![Head(availableThreadIds)] = FALSE]
  /\ UNCHANGED <<t_state, setcontext_called, killOnNextRun, waitQueue, readyQueue,
                 wq, current_thread_id, acquiredBy, pc, inYield, alive, exited,
                 holds, awaits>>

\* thread_yield: THREAD_ANY takes the head of the ready queue, an identifier
\* the entry that holds it.  Every other outcome returns without effect.
thread_yield(want_tid) ==
  /\ Running(InUser)
  /\ \E i \in DOMAIN readyQueue :
       /\ IF want_tid = -1 THEN i = 1 ELSE readyQueue[i] = want_tid
       /\ Yield(i, NULL, InUser)

\* The client exits holding no lock.
thread_exit ==
  /\ Running(InUser)
  /\ holds[self] = {}
  /\ ThreadExit(readyQueue, stack_to_free)

thread_kill(tid) ==
  /\ "kill" \in Uses
  /\ Running(InUser)
  /\ ValidTarget(tid)
  /\ killOnNextRun' = [killOnNextRun EXCEPT ![tid] = TRUE]
  /\ UNCHANGED <<t_state, setcontext_called, waitQueue, stack_to_free, queues,
                 current_thread_id, acquiredBy, pc, inYield, alive, exited,
                 holds, awaits>>

thread_sleep(q) ==
  /\ "sleep" \in Uses
  /\ Running(InUser)
  /\ q \in alive
  /\ Sleep(q, InUser)

thread_wakeup(q, all) ==
  /\ "sleep" \in Uses
  /\ Running(InUser)
  /\ q \in alive
  /\ Wakeup(q, all)
  /\ UNCHANGED <<acquiredBy, pc, alive, holds>>

thread_wait(tid) ==
  /\ "wait" \in Uses
  /\ Running(InUser)
  /\ ValidTarget(tid)
  /\ Sleep(tid, InUser)

\* The client never acquires a lock it already holds.
lock_acquire(l) ==
  /\ "lock" \in Uses
  /\ Running(InUser)
  /\ l \in alive \ holds[self]
  /\ pc' = [pc EXCEPT ![self] = InLock(l)]
  /\ awaits' = [awaits EXCEPT ![self] = NULL]
  /\ UNCHANGED <<tcbs, queues, current_thread_id, acquiredBy, inYield, alive,
                 exited, holds>>

\* lock_release by the holder: wake every waiter, then free the lock; then
\* control goes to place ret.  By anyone else it does nothing.
Release(l, ret) ==
  /\ HeldBySelf(l)
  /\ Wakeup(l, TRUE)
  /\ acquiredBy' = Freed(l)
  /\ holds' = [holds EXCEPT ![self] = @ \ {l}]
  /\ pc' = [pc EXCEPT ![self] = ret]
  /\ UNCHANGED alive

lock_release(l) ==
  /\ "lock" \in Uses
  /\ Running(InUser)
  /\ l \in alive
  /\ Release(l, InUser)

\* lock_destroy asserts that the lock is free.  The client calls it when no
\* other thread is inside a call on the lock.
lock_destroy(l) ==
  /\ {"lock", "destroy"} \subseteq Uses
  /\ Running(InUser)
  /\ l \in alive
  /\ acquiredBy[l] = -1
  /\ \A t \in Tids : pc[t].lock # l
  /\ wq' = [wq EXCEPT ![l] = <<>>]
  /\ alive' = alive \ {l}
  /\ UNCHANGED <<tcbs, availableThreadIds, readyQueue, current_thread_id,
                 acquiredBy, pc, inYield, exited, holds, awaits>>

cv_wait(c, l) ==
  /\ "cv" \in Uses
  /\ Running(InUser)
  /\ {c, l} \subseteq alive
  /\ Release(l, InCv(c, l))

\* cv_signal (all = FALSE) and cv_broadcast (all = TRUE), by the lock's holder.
cv_wake(c, l, all) ==
  /\ "cv" \in Uses
  /\ Running(InUser)
  /\ {c, l} \subseteq alive
  /\ HeldBySelf(l)
  /\ Wakeup(c, all)
  /\ UNCHANGED <<acquiredBy, pc, alive, holds>>

\* wait_queue_destroy and cv_destroy enter the loop that empties the queue.
wait_queue_destroy(q) ==
  /\ "destroy" \in Uses
  /\ Running(InUser)
  /\ q \in alive
  /\ \A t \in Tids : pc[t] # InDestroy(q)
  /\ pc' = [pc EXCEPT ![self] = InDestroy(q)]
  /\ UNCHANGED <<tcbs, queues, current_thread_id, acquiredBy, inYield, alive,
                 exited, holds, awaits>>

\* The process has ended.
Terminated == exited /\ UNCHANGED vars

LibraryStep ==
  \/ StubEnable \/ StubCheck \/ Resume
  \/ LockTake \/ LockSleep \/ LockSpin \/ CvSleep
  \/ DestroyPop \/ DestroyFree

ClientCall ==
  \/ thread_create
  \/ thread_create_nomemory
  \/ \E want_tid \in Tids \cup {-1} : thread_yield(want_tid)
  \/ thread_exit
  \/ \E tid \in Tids : thread_kill(tid) \/ thread_wait(tid)
  \/ \E q \in Queues :
       thread_sleep(q) \/ \E all \in BOOLEAN : thread_wakeup(q, all)
  \/ \E l \in Locks : lock_acquire(l) \/ lock_release(l) \/ lock_destroy(l)
  \/ \E c \in CVs, l \in Locks :
       cv_wait(c, l) \/ \E all \in BOOLEAN : cv_wake(c, l, all)
  \/ \E q \in Queues \cup CVs : wait_queue_destroy(q)

Next == LibraryStep \/ Preempt \/ ClientCall \/ Terminated

Spec == Init /\ [][Next]_vars

\* The processor keeps executing the current thread, and the timer, which the
\* handler re-arms on every signal, keeps interrupting it: a SIGALRM that
\* expires while blocked is delivered as soon as it is unblocked.
Fairness == WF_vars(LibraryStep) /\ SF_vars(Preempt)

FairSpec == Spec /\ Fairness

-----------------------------------------------------------------------------
(* Safety.                                                                  *)

Queued(t) == t \in Range(readyQueue) \/ \E q \in WaitQueues : t \in Range(wq[q])

\* A thread is in at most one queue, and there only once, and only a READY
\* thread is queued: addToTail and pushThreadToWait never enter a thread
\* twice, whatever wakeups, kills, exits and preemptions happen.
QueuedAtMostOnce ==
  /\ IsInjective(readyQueue)
  /\ \A q \in WaitQueues :
       IsInjective(wq[q]) /\ Range(readyQueue) \cap Range(wq[q]) = {}
  /\ \A p, q \in WaitQueues : p # q => Range(wq[p]) \cap Range(wq[q]) = {}
  /\ \A t \in Tids : Queued(t) => t_state[t] = "READY"

\* The current thread is the one RUNNING thread until the process exits.
OneRunning ==
  /\ ~exited => t_state[self] = "RUNNING"
  /\ \A t \in Tids : t_state[t] = "RUNNING" => t = self

\* availableThreadIds never offers an identifier twice or one that is in use,
\* so thread_create cannot overwrite the TCB of a live thread.
FreeIdsUnused ==
  /\ IsInjective(availableThreadIds)
  /\ \A t \in Range(availableThreadIds) : t_state[t] = "NOT_ASSIGNED"

\* The consistency of the scheduler's data, as one inductive invariant.
SchedInv == QueuedAtMostOnce /\ OneRunning /\ FreeIdsUnused

\* Every identifier without a thread can be given out again ("In the future, a
\* new thread should be able to reuse this thread's identifier", thread.h).
NoIdLeaked ==
  \A t \in Tids : t_state[t] = "NOT_ASSIGNED" => t \in Range(availableThreadIds)

\* A live thread other than the running one is in a queue from which it can be
\* scheduled or woken.
NoThreadLost == \A t \in Tids : t_state[t] = "READY" => Queued(t)

\* Once thread_kill has marked a thread, the thread executes no client code.
KilledDoesNotRun ==
  \A t \in Tids : killOnNextRun[t] =>
    \/ t # self
    \/ inYield[t] \/ pc[t].op \in {"stub", "window"}

\* A suspended thread has setcontext_called set, so when it is resumed it does
\* not execute the switching block a second time ...
ResumeDoesNotSwitch == \A t \in Tids : inYield[t] => setcontext_called[t]

\* ... and a thread that is not suspended has it clear, so that its next
\* thread_yield does switch.
YieldCanSwitch ==
  \A t \in Tids :
    t_state[t] # "NOT_ASSIGNED" /\ ~inYield[t] => ~setcontext_called[t]

\* Between lock_acquire's return and its lock_release a thread is the lock's
\* holder; hence no two threads are in one critical section.
MutualExclusion == \A t \in Tids : \A l \in holds[t] : acquiredBy[l] = t

\* Nobody sleeps on a free lock: lock_release leaves no waiter behind, and no
\* thread goes to sleep after the release that should have woken it.
NoSleeperOnFreeLock == \A l \in Locks : wq[l] # <<>> => acquiredBy[l] # -1

\* lock_acquire spins, with interrupts off, only behind a holder that is asleep
\* in a wait queue: a holder that can run always gets the processor from
\* thread_sleep.
SpinsOnlyBehindSleeper ==
  \A l \in Locks :
    Running(InLock(l)) /\ acquiredBy[l] # -1 /\ readyQueue = <<>> =>
      \E q \in WaitQueues : acquiredBy[l] \in Range(wq[q])

\* A thread that released the lock in cv_wait is on the condition variable's
\* queue before any other thread runs, and until a signal takes it off.
CvWaiterListed ==
  \A t \in Tids \ {self} :
    /\ pc[t].op # "cv"
    /\ awaits[t] \in CVs /\ pc[t].op = "lock" => t \in Range(wq[awaits[t]])

\* Nobody waits in thread_wait for a thread that has already exited.
WaitersHaveTarget ==
  \A t \in Tids : wq[t] # <<>> => t_state[t] # "NOT_ASSIGNED"

\* The stack of a live thread is allocated: freeTCBStacks and thread_create
\* free only the stacks of threads that are gone.  (Thread 0 starts on the
\* stack of the process.)
LiveStackAllocated ==
  \A t \in Tids \ {0} : t_state[t] # "NOT_ASSIGNED" => stack_to_free[t]

(* Action properties and liveness.                                          *)

\* A thread leaves the ready queue only to run.
PoppedRuns ==
  [][\A t \in Range(readyQueue) \ Range(readyQueue') : current_thread_id' = t]_vars

\* A thread in the ready queue eventually runs.
ReadyRuns == \A t \in Tids : t \in Range(readyQueue) ~> self = t
=============================================================================
