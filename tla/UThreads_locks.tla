-------------------------- MODULE UThreads_locks --------------------------
(***************************************************************************)
(* Mutual exclusion of the locks and their wakeups (MutualExclusion and      *)
(* NoSleeperOnFreeLock of UThreads), proved for any number of threads and    *)
(* locks and for every subset of the calls.                                  *)
(***************************************************************************)
EXTENDS UThreads_proofs

\* The calls change acquiredBy and holds in three ways: an exiting thread
\* forgets what it holds, lock_acquire takes a free lock, and lock_release
\* frees a lock of the caller.
LEMMA LockStepKinds ==
  ASSUME TypeOK, [Next]_vars
  PROVE  \/ UNCHANGED <<acquiredBy, holds>>
         \/ holds' = [holds EXCEPT ![self] = {}] /\ UNCHANGED acquiredBy
         \/ \E l \in Locks :
              /\ acquiredBy[l] = -1
              /\ acquiredBy' = [acquiredBy EXCEPT ![l] = self]
              /\ holds' = [holds EXCEPT ![self] = @ \cup {l}]
         \/ \E l \in Locks :
              /\ acquiredBy[l] = self
              /\ acquiredBy' = [acquiredBy EXCEPT ![l] = -1]
              /\ holds' = [holds EXCEPT ![self] = @ \ {l}]
<1> DEFINE Still == UNCHANGED <<acquiredBy, holds>>
           Exits == holds' = [holds EXCEPT ![self] = {}] /\ UNCHANGED acquiredBy
           Releases(l) == /\ acquiredBy[l] = self
                          /\ acquiredBy' = [acquiredBy EXCEPT ![l] = -1]
                          /\ holds' = [holds EXCEPT ![self] = @ \ {l}]
<1>1. ASSUME NEW ready, NEW stacks, ThreadExit(ready, stacks)
      PROVE  Exits
  BY <1>1 DEF ThreadExit
<1>2. ASSUME NEW i, NEW q, NEW ret, Yield(i, q, ret)
      PROVE  Still \/ Exits
  BY <1>1, <1>2 DEF Yield, Switch, SkipSwitch
<1>3. ASSUME NEW q, NEW ret, Sleep(q, ret)
      PROVE  Still \/ Exits
  BY <1>2, <1>3 DEF Sleep
<1>4. ASSUME NEW l \in Locks, NEW ret, Release(l, ret)
      PROVE  Releases(l)
  BY <1>4 DEF Release, HeldBySelf, Freed
<1>5. CASE UNCHANGED vars \/ LockSpin \/ Terminated
  BY <1>5 DEF vars, LockSpin, Terminated
<1>6. CASE StubEnable \/ DestroyPop \/ DestroyFree \/ thread_create \/ thread_create_nomemory
  BY <1>6 DEF StubEnable, DestroyPop, DestroyFree, thread_create, thread_create_nomemory
<1>7. CASE StubCheck \/ Resume \/ thread_exit
  BY <1>1, <1>7 DEF StubCheck, Resume, thread_exit
<1>8. CASE LockSleep \/ CvSleep \/ Preempt
  BY <1>2, <1>3, <1>8 DEF LockSleep, CvSleep, Preempt
<1>9. CASE LockTake
  BY <1>9 DEF LockTake
<1>10. CASE \E want_tid \in Tids \cup {-1} : thread_yield(want_tid)
  BY <1>2, <1>10 DEF thread_yield
<1>11. CASE \E tid \in Tids : thread_kill(tid) \/ thread_wait(tid)
  BY <1>3, <1>11 DEF thread_kill, thread_wait
<1>12. CASE \E q \in Queues :
              thread_sleep(q) \/ \E all \in BOOLEAN : thread_wakeup(q, all)
  BY <1>3, <1>12 DEF thread_sleep, thread_wakeup
<1>13. CASE \E l \in Locks : lock_acquire(l) \/ lock_destroy(l)
  BY <1>13 DEF lock_acquire, lock_destroy
<1>14. CASE \E l \in Locks : lock_release(l)
  BY <1>4, <1>14 DEF lock_release
<1>15. CASE \E c \in CVs, l \in Locks : cv_wait(c, l)
  BY <1>4, <1>15 DEF cv_wait
<1>16. CASE \E c \in CVs, l \in Locks, all \in BOOLEAN : cv_wake(c, l, all)
  BY <1>16 DEF cv_wake
<1>17. CASE \E q \in Queues \cup CVs : wait_queue_destroy(q)
  BY <1>17 DEF wait_queue_destroy
<1> QED
  BY <1>5, <1>6, <1>7, <1>8, <1>9, <1>10, <1>11, <1>12, <1>13, <1>14, <1>15, <1>16,
     <1>17 DEF Next, LibraryStep, ClientCall

\* Every step preserves MutualExclusion.
LEMMA NextExclusion ==
  ASSUME TypeOK, MutualExclusion, [Next]_vars
  PROVE  MutualExclusion'
<1>1. /\ self \in Tids /\ holds \in [Tids -> SUBSET Locks]
      /\ acquiredBy \in [Locks -> Tids \cup {-1}]
      /\ \A t \in Tids : t # -1
  BY TidsFacts DEF TypeOK, self
<1>2. CASE UNCHANGED <<acquiredBy, holds>>
  BY <1>2 DEF MutualExclusion
<1>3. CASE holds' = [holds EXCEPT ![self] = {}] /\ UNCHANGED acquiredBy
  BY <1>1, <1>3 DEF MutualExclusion
<1>4. ASSUME NEW l \in Locks, acquiredBy[l] = -1,
             acquiredBy' = [acquiredBy EXCEPT ![l] = self],
             holds' = [holds EXCEPT ![self] = @ \cup {l}]
      PROVE  MutualExclusion'
  <2>1. \A t \in Tids : l \notin holds[t]
    BY <1>1, <1>4 DEF MutualExclusion
  <2> QED BY <1>1, <1>4, <2>1 DEF MutualExclusion
<1>5. ASSUME NEW l \in Locks, acquiredBy[l] = self,
             acquiredBy' = [acquiredBy EXCEPT ![l] = -1],
             holds' = [holds EXCEPT ![self] = @ \ {l}]
      PROVE  MutualExclusion'
  <2>1. \A t \in Tids : t # self => l \notin holds[t]
    BY <1>1, <1>5 DEF MutualExclusion
  <2> QED BY <1>1, <1>5, <2>1 DEF MutualExclusion
<1> QED BY <1>2, <1>3, <1>4, <1>5, LockStepKinds

\* A thread that has returned from lock_acquire and not yet released the lock
\* is its holder, so no two threads are in one critical section, with kills,
\* preemption, destruction and exhausted memory included.
THEOREM LocksExclude == Spec => []MutualExclusion
<1>1. Init => TypeOK /\ MutualExclusion
  BY InitType DEF Init, MutualExclusion
<1>2. TypeOK /\ MutualExclusion /\ [Next]_vars => TypeOK' /\ MutualExclusion'
  BY NextType, NextExclusion
<1> QED BY <1>1, <1>2, PTL DEF Spec

-----------------------------------------------------------------------------
(* Nobody sleeps on a free lock.                                            *)

\* thread_yield that does not switch leaves the wait queue of thread_sleep in
\* the TCB, and a later yield would go to sleep there: if that is a lock's queue,
\* its thread is still in lock_acquire, and the lock is still held.
NoStaleLockQueue ==
  \A t \in Tids : waitQueue[t] \in Locks =>
    /\ t = self /\ ~inYield[t] /\ pc[t] = InLock(waitQueue[t])
    /\ acquiredBy[waitQueue[t]] # -1

\* Inductive together with TypeOK.
SleepInv == NoSleeperOnFreeLock /\ NoStaleLockQueue

\* The names of threads, queues and condition variables are not locks.
LEMMA LockNames ==
  /\ \A l \in Locks : l \in WaitQueues /\ l \notin Tids /\ l \notin Queues \cup CVs /\ l # NULL
  /\ \A l, m \in Locks : InLock(l) = InLock(m) => l = m
BY QueuesAssumption, NullAssumption DEF WaitQueues, Objects, InLock, Place

\* Outside of lock_acquire no TCB names a lock's queue.
LEMMA NoLockQueue ==
  ASSUME NoStaleLockQueue, inYield[self] \/ \A l \in Locks : pc[self] # InLock(l)
  PROVE  \A t \in Tids : waitQueue[t] \notin Locks
BY DEF NoStaleLockQueue

\* What keeps SleepInv while no TCB names a lock's queue.
LEMMA QuietSleep ==
  ASSUME SleepInv, \A t \in Tids : waitQueue'[t] \notin Locks,
         \A l \in Locks : /\ wq'[l] = wq[l] \/ wq'[l] = <<>>
                          /\ acquiredBy'[l] = -1 => acquiredBy[l] = -1 \/ wq'[l] = <<>>
  PROVE  SleepInv'
BY DEF SleepInv, NoSleeperOnFreeLock, NoStaleLockQueue

\* thread_exit clears the TCB and wakes only those who wait for the thread.
LEMMA ExitSleep ==
  ASSUME TypeOK, SleepInv, NEW ready, NEW stacks, ThreadExit(ready, stacks)
  PROVE  SleepInv'
<1>1. self \in Tids /\ self \notin Locks /\ NULL \notin Locks
  BY LockNames DEF TypeOK, self
<1>2. \A t \in Tids : waitQueue'[t] \notin Locks
  BY <1>1 DEF ThreadExit, TypeOK, SleepInv, NoStaleLockQueue
<1>3. \A l \in Locks : wq'[l] = wq[l] /\ acquiredBy'[l] = acquiredBy[l]
  BY <1>1, LockNames DEF ThreadExit, TypeOK
<1> QED BY <1>2, <1>3, QuietSleep

\* thread_yield, called by lock_acquire for a lock that is held, or by somebody
\* else and for another queue.
LEMMA YieldSleep ==
  ASSUME TypeOK, SleepInv, ~inYield[self], NEW i, NEW ret,
         NEW q \in WaitQueues \cup {NULL}, Yield(i, q, ret),
         \/ /\ q \in Locks /\ ret = InLock(q) /\ pc[self] = InLock(q)
            /\ acquiredBy[q] # -1
         \/ q \notin Locks /\ \A l \in Locks : pc[self] # InLock(l)
  PROVE  SleepInv'
<1>1. self \in Tids
  BY DEF TypeOK, self
<1>2. CASE \E ready, stacks : ThreadExit(ready, stacks)
  BY <1>2, ExitSleep
<1>3. CASE SkipSwitch(i, q, ret)
  <2>1. /\ UNCHANGED <<wq, acquiredBy, current_thread_id, inYield>>
        /\ pc' = [pc EXCEPT ![self] = ret]
        /\ waitQueue' = IF q = NULL THEN waitQueue ELSE [waitQueue EXCEPT ![self] = q]
    BY <1>3 DEF SkipSwitch
  <2>2. CASE q \in Locks
    <3>1. /\ q # NULL /\ waitQueue'[self] = q /\ pc'[self] = InLock(q)
          /\ \A t \in Tids : t # self => waitQueue'[t] = waitQueue[t]
      BY <1>1, <2>1, <2>2, LockNames DEF TypeOK
    <3>2. NoStaleLockQueue'
      BY <1>1, <2>1, <2>2, <3>1 DEF SleepInv, NoStaleLockQueue, self
    <3> QED BY <2>1, <3>2 DEF SleepInv, NoSleeperOnFreeLock
  <2>3. CASE q \notin Locks
    <3>1. \A t \in Tids : waitQueue[t] \notin Locks
      BY <2>3, NoLockQueue DEF SleepInv
    <3>2. \A t \in Tids : waitQueue'[t] \notin Locks
      BY <1>1, <2>1, <2>3, <3>1 DEF TypeOK
    <3> QED BY <2>1, <3>2, QuietSleep
  <2> QED BY <2>2, <2>3
<1>4. CASE Switch(i, q, ret)
  <2> DEFINE dest == IF q = NULL THEN waitQueue[self] ELSE q
             rest == Without(readyQueue, i)
  <2>1. /\ waitQueue' = [waitQueue EXCEPT ![self] = NULL]
        /\ UNCHANGED acquiredBy
        /\ Enqueue(rest, dest)
    BY <1>4 DEF Switch
  <2>2. dest \in Locks => acquiredBy[dest] # -1
    BY <1>1, NoLockQueue, LockNames DEF SleepInv, NoStaleLockQueue
  <2> HIDE DEF dest, rest
  <2>3. \A l \in Locks : l # dest => wq'[l] = wq[l]
    BY <2>1, LockNames DEF Enqueue, TypeOK
  <2>4. NoSleeperOnFreeLock'
    BY <2>1, <2>2, <2>3 DEF SleepInv, NoSleeperOnFreeLock
  <2>5. \A t \in Tids : waitQueue'[t] \notin Locks
    BY <1>1, <2>1, LockNames DEF TypeOK, SleepInv, NoStaleLockQueue
  <2> QED BY <2>4, <2>5 DEF SleepInv, NoStaleLockQueue
<1> QED BY <1>2, <1>3, <1>4 DEF Yield

\* Every step preserves SleepInv.
LEMMA NextSleep ==
  ASSUME TypeOK, SleepInv, [Next]_vars
  PROVE  SleepInv'
<1>1. /\ self \in Tids /\ wq \in [WaitQueues -> Seq(Tids)]
      /\ Queues \cup CVs \cup Locks \cup Tids \subseteq WaitQueues
      /\ \A q \in Queues \cup CVs \cup Tids \cup {NULL} : q \notin Locks
  BY LockNames DEF TypeOK, self, WaitQueues, Objects
<1>2. /\ \A l \in Locks : InLock(l) \notin {AtStub, InWindow, InUser}
      /\ \A l \in Locks : InLock(l).op \notin {"window", "user", "destroy"}
      /\ \A l, m \in Locks, c \in CVs : InLock(l) # InCv(c, m)
      /\ \A l \in Locks, q \in Queues \cup CVs : InLock(l) # InDestroy(q)
  BY DEF AtStub, InWindow, InUser, InLock, InCv, InDestroy, Place
<1>3. ASSUME NEW p, Running(p), \A l \in Locks : p # InLock(l)
      PROVE  /\ ~inYield[self] /\ \A l \in Locks : pc[self] # InLock(l)
             /\ \A t \in Tids : waitQueue[t] \notin Locks
  BY <1>3, NoLockQueue DEF Running, SleepInv
<1>4. ASSUME NEW p, Running(p), \A l \in Locks : p # InLock(l), UNCHANGED waitQueue,
             \A l \in Locks : /\ wq'[l] = wq[l] \/ wq'[l] = <<>>
                              /\ acquiredBy'[l] = -1 => acquiredBy[l] = -1 \/ wq'[l] = <<>>
      PROVE  SleepInv'
  BY <1>3, <1>4, QuietSleep
<1>5. ASSUME NEW p, Running(p), \A l \in Locks : p # InLock(l),
             NEW q \in Queues \cup CVs \cup Tids, NEW ret, Sleep(q, ret)
      PROVE  SleepInv'
  <2>1. CASE Yield(1, q, ret)
    BY <1>1, <1>3, <1>5, <2>1, YieldSleep
  <2>2. CASE UNCHANGED <<tcbs, queues, acquiredBy>>
    BY <1>4, <1>5, <2>2 DEF tcbs, queues
  <2> QED BY <1>5, <2>1, <2>2 DEF Sleep
<1>6. ASSUME NEW q \in Queues \cup CVs, NEW all \in BOOLEAN, Wakeup(q, all)
      PROVE  UNCHANGED waitQueue /\ \A l \in Locks : wq'[l] = wq[l]
  BY <1>1, <1>6 DEF Wakeup, tcbs
<1>7. ASSUME NEW l \in Locks, NEW ret, Running(InUser), Release(l, ret)
      PROVE  SleepInv'
  <2>1. /\ wq' = [wq EXCEPT ![l] = NotWoken(l, TRUE)]
        /\ acquiredBy' = [acquiredBy EXCEPT ![l] = -1]
        /\ UNCHANGED waitQueue
    BY <1>7 DEF Release, Wakeup, Freed, tcbs
  <2>2. NotWoken(l, TRUE) = <<>>
    <3>1. NotWoken(l, TRUE) = SubSeq(wq[l], Len(wq[l]) + 1, Len(wq[l]))
      BY DEF NotWoken, Woken
    <3>2. \A s \in Seq(Tids) : SubSeq(s, Len(s) + 1, Len(s)) = <<>>
      OBVIOUS
    <3> QED BY <1>1, <3>1, <3>2
  <2>3. wq'[l] = <<>> /\ \A m \in Locks : m # l => /\ wq'[m] = wq[m]
                                                  /\ acquiredBy'[m] = acquiredBy[m]
    BY <1>1, <2>1, <2>2 DEF TypeOK
  <2> QED BY <1>2, <1>4, <1>7, <2>1, <2>3
<1>8. CASE UNCHANGED vars \/ LockSpin \/ Terminated
  BY <1>8 DEF vars, tcbs, queues, LockSpin, Terminated, SleepInv, NoSleeperOnFreeLock,
              NoStaleLockQueue, self, InLock, Place
<1>9. CASE StubEnable \/ thread_create \/ thread_create_nomemory
  BY <1>2, <1>4, <1>9 DEF StubEnable, thread_create, thread_create_nomemory, tcbs, queues
<1>10. CASE StubCheck
  <2>1. CASE ThreadExit(readyQueue, freeTCBStacks(t_state))
    BY <2>1, ExitSleep
  <2>2. CASE ~ThreadExit(readyQueue, freeTCBStacks(t_state))
    BY <1>2, <1>4, <1>10, <2>2 DEF StubCheck, queues
  <2> QED BY <2>1, <2>2
<1>11. CASE Resume
  <2>1. CASE ThreadExit(readyQueue, freeTCBStacks(t_state))
    BY <2>1, ExitSleep
  <2>2. CASE ~ThreadExit(readyQueue, freeTCBStacks(t_state))
    <3>1. UNCHANGED <<waitQueue, wq, acquiredBy>> /\ inYield[self]
      BY <1>11, <2>2 DEF Resume, queues
    <3>2. \A t \in Tids : waitQueue[t] \notin Locks
      BY <3>1, NoLockQueue DEF SleepInv
    <3> QED BY <3>1, <3>2, QuietSleep
  <2> QED BY <2>1, <2>2
<1>12. CASE Preempt
  <2>1. ~inYield[self] /\ \A l \in Locks : pc[self] # InLock(l)
    BY <1>2, <1>12 DEF Preempt, InterruptsOn
  <2> QED BY <1>1, <1>12, <2>1, YieldSleep DEF Preempt
<1>13. CASE LockSleep
  BY <1>1, <1>13, YieldSleep DEF LockSleep, Running
<1>14. CASE LockTake
  <2>1. PICK l \in Locks : /\ Running(InLock(l)) /\ acquiredBy[l] = -1
                           /\ acquiredBy' = [acquiredBy EXCEPT ![l] = self]
                           /\ UNCHANGED <<tcbs, queues>>
    BY <1>14 DEF LockTake
  <2>2. \A t \in Tids : waitQueue'[t] \notin Locks
    BY <2>1, LockNames DEF tcbs, SleepInv, NoStaleLockQueue, Running
  <2>3. self # -1
    BY <1>1, TidsFacts
  <2>4. \A m \in Locks : wq'[m] = wq[m] /\ (acquiredBy'[m] = -1 => acquiredBy[m] = -1)
    BY <2>1, <2>3 DEF queues, TypeOK
  <2> QED BY <2>2, <2>4, QuietSleep
<1>15. CASE CvSleep
  BY <1>2, <1>5, <1>15 DEF CvSleep
<1>16. CASE DestroyPop \/ DestroyFree
  BY <1>1, <1>2, <1>4, <1>16 DEF DestroyPop, DestroyFree, tcbs, queues
<1>17. ASSUME NEW want_tid, thread_yield(want_tid)
       PROVE  SleepInv'
  BY <1>1, <1>2, <1>3, <1>17, YieldSleep DEF thread_yield
<1>18. CASE thread_exit
  BY <1>18, ExitSleep DEF thread_exit
<1>19. CASE \E tid \in Tids : thread_kill(tid)
  BY <1>2, <1>4, <1>19 DEF thread_kill, queues
<1>20. CASE \E tid \in Tids : thread_wait(tid)
  BY <1>2, <1>5, <1>20 DEF thread_wait
<1>21. CASE \E q \in Queues : thread_sleep(q)
  BY <1>2, <1>5, <1>21 DEF thread_sleep
<1>22. CASE \E q \in Queues, all \in BOOLEAN : thread_wakeup(q, all)
  BY <1>2, <1>4, <1>6, <1>22 DEF thread_wakeup
<1>23. CASE \E l \in Locks : lock_acquire(l)
  BY <1>2, <1>4, <1>23 DEF lock_acquire, tcbs, queues
<1>24. CASE \E l \in Locks : lock_release(l)
  BY <1>7, <1>24 DEF lock_release
<1>25. ASSUME NEW l \in Locks, lock_destroy(l)
       PROVE  SleepInv'
  <2>1. /\ Running(InUser) /\ wq' = [wq EXCEPT ![l] = <<>>]
        /\ UNCHANGED <<waitQueue, acquiredBy>>
    BY <1>25 DEF lock_destroy, tcbs
  <2>2. \A m \in Locks : wq'[m] = wq[m] \/ wq'[m] = <<>>
    BY <1>1, <2>1
  <2> QED BY <1>2, <1>4, <2>1, <2>2
<1>26. CASE \E c \in CVs, l \in Locks : cv_wait(c, l)
  BY <1>7, <1>26 DEF cv_wait
<1>27. CASE \E c \in CVs, l \in Locks, all \in BOOLEAN : cv_wake(c, l, all)
  BY <1>2, <1>4, <1>6, <1>27 DEF cv_wake
<1>28. CASE \E q \in Queues \cup CVs : wait_queue_destroy(q)
  BY <1>2, <1>4, <1>28 DEF wait_queue_destroy, tcbs, queues
<1> QED
  BY <1>8, <1>9, <1>10, <1>11, <1>12, <1>13, <1>14, <1>15, <1>16, <1>17, <1>18, <1>19,
     <1>20, <1>21, <1>22, <1>23, <1>24, <1>25, <1>26, <1>27, <1>28
     DEF Next, LibraryStep, ClientCall

\* No thread sleeps on a free lock: lock_release wakes every sleeper before it
\* frees the lock, and nobody goes to sleep on a lock that is not held, also not
\* by a wait queue left in the TCB by a yield that did not switch.
THEOREM LocksStrandNobody == Spec => []NoSleeperOnFreeLock
<1>1. Init => TypeOK /\ SleepInv
  <2> SUFFICES ASSUME Init PROVE SleepInv
    BY InitType
  <2> QED BY LockNames DEF Init, SleepInv, NoSleeperOnFreeLock, NoStaleLockQueue
<1>2. TypeOK /\ SleepInv /\ [Next]_vars => TypeOK' /\ SleepInv'
  BY NextType, NextSleep
<1>3. TypeOK /\ SleepInv => NoSleeperOnFreeLock
  BY DEF SleepInv
<1> QED BY <1>1, <1>2, <1>3, PTL DEF Spec
=============================================================================
