-------------------------- MODULE UThreads_life --------------------------
(***************************************************************************)
(* The life of a thread, from the consistency of the scheduler's data:       *)
(* suspension, kills and stacks for every client; that no switch is skipped  *)
(* and no thread or identifier lost for the clients that do not kill, do not *)
(* destroy, or have memory.                                                  *)
(***************************************************************************)
EXTENDS UThreads_sched

-----------------------------------------------------------------------------
(* Threads that are not running: where they stopped, their stacks, kills.   *)

\* A thread that is ready or asleep is inside thread_yield, or new.
Suspended == \A t \in Tids : t_state[t] = "READY" => inYield[t] \/ pc[t] = AtStub

\* Inductive together with TypeOK and SchedInv.
SuspInv == Suspended /\ ResumeDoesNotSwitch /\ KilledDoesNotRun /\ LiveStackAllocated

\* A table of stacks that keeps the stack of every live thread.
KeepsStacks(stacks) ==
  \A t \in Tids : t_state[t] # "NOT_ASSIGNED" /\ stack_to_free[t] => stacks[t]

\* freeTCBStacks keeps the stack of every live thread.
LEMMA StacksKept ==
  ASSUME TypeOK
  PROVE  /\ KeepsStacks(stack_to_free) /\ KeepsStacks(freeTCBStacks(t_state))
         /\ freeTCBStacks(t_state) \in [Tids -> BOOLEAN]
BY DEF TypeOK, KeepsStacks, freeTCBStacks

\* thread_exit hands the processor to a thread that is suspended.
LEMMA ExitSusp ==
  ASSUME TypeOK, SchedInv, SuspInv, ~exited, NEW ready \in Seq(Tids),
         Range(ready) \subseteq Range(readyQueue),
         NEW stacks \in [Tids -> BOOLEAN], KeepsStacks(stacks),
         ThreadExit(ready, stacks)
  PROVE  SuspInv'
<1> DEFINE rest == ready \o Woken(self, TRUE)
           gone == [t_state EXCEPT ![self] = "NOT_ASSIGNED"]
<1>1. /\ self \in Tids /\ self \in WaitQueues /\ t_state[self] = "RUNNING"
      /\ self' = current_thread_id'
  BY SelfNotQueued DEF self
<1>2. wq[self] \in Seq(Tids) /\ Woken(self, TRUE) = wq[self]
  BY <1>1, WokenAll DEF TypeOK
<1>3. rest \in Seq(Tids) /\ Range(rest) = Range(ready) \cup Range(wq[self])
  <2>1. rest = ready \o wq[self]
    BY <1>2
  <2> HIDE DEF rest
  <2> QED BY <1>2, <2>1, ConcatFacts
<1>4. \A t \in Range(rest) : t \in Tids /\ t_state[t] = "READY"
  <2>1. Range(rest) \subseteq Tids
    BY <1>3, RangeFacts
  <2>2. \A t \in Range(rest) : Queued(t)
    BY <1>1, <1>3 DEF Queued
  <2> QED BY <2>1, <2>2 DEF SchedInv, QueuedAtMostOnce
<1>5. \/ /\ rest = <<>> /\ t_state' = gone /\ stack_to_free' = freeTCBStacks(gone)
         /\ current_thread_id' = current_thread_id
      \/ /\ rest # <<>> /\ t_state' = [gone EXCEPT ![Head(rest)] = "RUNNING"]
         /\ stack_to_free' = stacks /\ current_thread_id' = Head(rest)
  BY DEF ThreadExit
<1>6. /\ killOnNextRun' = [killOnNextRun EXCEPT ![self] = FALSE]
      /\ inYield' = [inYield EXCEPT ![self] = FALSE]
      /\ pc' = [pc EXCEPT ![self] = Nowhere]
      /\ setcontext_called' = setcontext_called
  BY DEF ThreadExit
<1> HIDE DEF rest
<1>7. rest # <<>> => Head(rest) \in Tids /\ t_state[Head(rest)] = "READY"
  BY <1>3, <1>4, HeadTailFacts
<1>8. \A t \in Tids : t_state'[t] = "READY" => t # self /\ t_state[t] = "READY"
  BY <1>1, <1>5, <1>7 DEF TypeOK
<1>9. \A t \in Tids : t # self => /\ inYield'[t] = inYield[t] /\ pc'[t] = pc[t]
                                  /\ killOnNextRun'[t] = killOnNextRun[t]
  BY <1>6 DEF TypeOK
<1>10. ~inYield'[self] /\ ~killOnNextRun'[self]
  BY <1>1, <1>6 DEF TypeOK
<1>11. Suspended'
  <2> SUFFICES ASSUME NEW t \in Tids, t_state'[t] = "READY"
               PROVE  inYield'[t] \/ pc'[t] = AtStub
    BY DEF Suspended, AtStub, Place
  <2> QED BY <1>8, <1>9 DEF SuspInv, Suspended
<1>12. ResumeDoesNotSwitch'
  BY <1>6, <1>9, <1>10 DEF SuspInv, ResumeDoesNotSwitch
<1>13. KilledDoesNotRun'
  <2> SUFFICES ASSUME NEW t \in Tids, killOnNextRun'[t], t = current_thread_id'
               PROVE  inYield'[t] \/ pc'[t].op \in {"stub", "window"}
    BY <1>1 DEF KilledDoesNotRun
  <2>1. t # self
    BY <1>10
  <2>2. t_state[t] = "READY"
    BY <1>5, <1>7, <2>1 DEF self
  <2>3. inYield[t] \/ pc[t] = AtStub
    BY <2>2 DEF SuspInv, Suspended
  <2> QED BY <1>9, <2>1, <2>3 DEF AtStub, Place
<1>14. LiveStackAllocated'
  <2> SUFFICES ASSUME NEW t \in Tids \ {0}, t_state'[t] # "NOT_ASSIGNED"
               PROVE  stack_to_free'[t]
    BY DEF LiveStackAllocated
  <2>1. t_state[t] # "NOT_ASSIGNED"
    BY <1>1, <1>5, <1>7 DEF TypeOK
  <2>2. stack_to_free[t]
    BY <2>1 DEF SuspInv, LiveStackAllocated
  <2>3. CASE rest = <<>>
    BY <1>5, <2>2, <2>3 DEF freeTCBStacks
  <2>4. CASE rest # <<>>
    BY <1>5, <2>1, <2>2, <2>4 DEF KeepsStacks
  <2> QED BY <2>3, <2>4
<1> QED BY <1>11, <1>12, <1>13, <1>14 DEF SuspInv

\* thread_yield that switches: the current thread is suspended inside it.
LEMMA SwitchSusp ==
  ASSUME TypeOK, SchedInv, SuspInv, ~exited, NEW i \in DOMAIN readyQueue,
         NEW q, NEW ret, Switch(i, q, ret)
  PROVE  SuspInv'
<1> DEFINE next == readyQueue[i]
<1>1. /\ self \in Tids /\ t_state[self] = "RUNNING" /\ self' = current_thread_id'
  BY SelfNotQueued DEF self
<1>2. next \in Tids /\ t_state[next] = "READY"
  <2>1. readyQueue \in Seq(Tids) /\ i \in 1 .. Len(readyQueue)
    BY DEF TypeOK
  <2>2. next \in Range(readyQueue) /\ next \in Tids
    BY <2>1, RangeFacts
  <2> QED BY <2>2 DEF SchedInv, QueuedAtMostOnce, Queued
<1>3. /\ t_state' = [t_state EXCEPT ![self] = "READY", ![next] = "RUNNING"]
      /\ current_thread_id' = next
      /\ setcontext_called' = [setcontext_called EXCEPT ![self] = TRUE]
      /\ stack_to_free' = freeTCBStacks(t_state)
      /\ pc' = [pc EXCEPT ![self] = ret]
      /\ inYield' = [inYield EXCEPT ![self] = TRUE]
      /\ killOnNextRun' = killOnNextRun
  BY DEF Switch, StatesAfterSwitch, FlagsAfterSwitch
<1> HIDE DEF next
<1>4. /\ inYield'[self] /\ setcontext_called'[self]
      /\ \A t \in Tids : t # self => /\ inYield'[t] = inYield[t] /\ pc'[t] = pc[t]
                                     /\ setcontext_called'[t] = setcontext_called[t]
  BY <1>1, <1>3 DEF TypeOK
<1>5. /\ \A t \in Tids : t_state'[t] = "READY" => t = self \/ t_state[t] = "READY"
      /\ \A t \in Tids : t_state'[t] # "NOT_ASSIGNED" => t_state[t] # "NOT_ASSIGNED"
  BY <1>1, <1>2, <1>3 DEF TypeOK
<1>6. Suspended'
  <2> SUFFICES ASSUME NEW t \in Tids, t_state'[t] = "READY"
               PROVE  inYield'[t] \/ pc'[t] = AtStub
    BY DEF Suspended, AtStub, Place
  <2> QED BY <1>4, <1>5 DEF SuspInv, Suspended
<1>7. ResumeDoesNotSwitch'
  BY <1>4 DEF SuspInv, ResumeDoesNotSwitch
<1>8. KilledDoesNotRun'
  <2>1. next # self
    BY <1>1, <1>2
  <2>2. inYield[next] \/ pc[next] = AtStub
    BY <1>2 DEF SuspInv, Suspended
  <2>3. inYield'[next] \/ pc'[next] = AtStub
    BY <1>2, <1>4, <2>1, <2>2
  <2>4. AtStub.op = "stub"
    BY DEF AtStub, Place
  <2> QED BY <1>1, <1>3, <2>3, <2>4 DEF KilledDoesNotRun
<1>9. LiveStackAllocated'
  BY <1>3, <1>5, StacksKept DEF SuspInv, LiveStackAllocated, KeepsStacks
<1> QED BY <1>6, <1>7, <1>8, <1>9 DEF SuspInv

\* A step that leaves states, flags and suspensions alone: only the place of the
\* current thread changes, and a killed thread does not reach the client's code.
LEMMA QuietSusp ==
  ASSUME TypeOK, SchedInv, SuspInv, ~exited,
         UNCHANGED <<t_state, setcontext_called, killOnNextRun, current_thread_id, inYield>>,
         KeepsStacks(stack_to_free'),
         \A t \in Tids : t # self => pc'[t] = pc[t],
         killOnNextRun[self] => pc'[self].op = "window"
  PROVE  SuspInv'
<1>1. self \in Tids /\ t_state[self] = "RUNNING" /\ self' = self
  BY SelfNotQueued DEF self
<1>2. Suspended'
  BY <1>1 DEF SuspInv, Suspended, AtStub, Place
<1>3. ResumeDoesNotSwitch'
  BY DEF SuspInv, ResumeDoesNotSwitch
<1>4. KilledDoesNotRun'
  BY <1>1 DEF KilledDoesNotRun
<1>5. LiveStackAllocated'
  BY DEF SuspInv, LiveStackAllocated, KeepsStacks
<1> QED BY <1>2, <1>3, <1>4, <1>5 DEF SuspInv

\* Client code, and what it calls, runs only in a thread that is not killed.
LEMMA NotKilled ==
  ASSUME TypeOK, SuspInv, NEW p, Running(p), p.op \notin {"stub", "window"}
  PROVE  ~killOnNextRun[self]
BY DEF SuspInv, KilledDoesNotRun, Running, TypeOK, self

\* thread_yield, called by a thread that is not suspended.
LEMMA YieldSusp ==
  ASSUME TypeOK, SchedInv, SuspInv, ~exited, ~inYield[self],
         NEW i \in DOMAIN readyQueue, NEW q, NEW ret, Yield(i, q, ret)
  PROVE  SuspInv'
<1>1. /\ self \in Tids /\ t_state[self] = "RUNNING"
      /\ readyQueue \in Seq(Tids) /\ IsInjective(readyQueue)
      /\ i \in 1 .. Len(readyQueue)
  BY SelfNotQueued DEF TypeOK, SchedInv, QueuedAtMostOnce
<1>2. CASE ThreadExit(Without(readyQueue, i), freeTCBStacks(t_state))
  <2>1. /\ Without(readyQueue, i) \in Seq(Tids)
        /\ Range(Without(readyQueue, i)) \subseteq Range(readyQueue)
    BY <1>1, RemoveAtFacts DEF Without
  <2> QED BY <1>2, <2>1, StacksKept, ExitSusp
<1>3. CASE SkipSwitch(i, q, ret)
  <2>1. /\ ~killOnNextRun[self]
        /\ UNCHANGED <<t_state, killOnNextRun, current_thread_id, inYield>>
        /\ setcontext_called' = [setcontext_called EXCEPT ![self] = FALSE]
        /\ stack_to_free' = freeTCBStacks(t_state)
        /\ pc' = [pc EXCEPT ![self] = ret]
    BY <1>3 DEF SkipSwitch, FlagsAfterResume
  <2>2. \A t \in Tids : t # self => /\ pc'[t] = pc[t]
                                    /\ setcontext_called'[t] = setcontext_called[t]
    BY <2>1 DEF TypeOK
  <2>3. Suspended'
    BY <1>1, <2>1, <2>2 DEF SuspInv, Suspended, AtStub, Place
  <2>4. ResumeDoesNotSwitch'
    BY <2>1, <2>2 DEF SuspInv, ResumeDoesNotSwitch
  <2>5. KilledDoesNotRun'
    BY <2>1 DEF KilledDoesNotRun, self
  <2>6. LiveStackAllocated'
    BY <2>1, StacksKept DEF SuspInv, LiveStackAllocated, KeepsStacks
  <2> QED BY <2>3, <2>4, <2>5, <2>6 DEF SuspInv
<1>4. CASE Switch(i, q, ret)
  BY <1>4, SwitchSusp
<1> QED BY <1>2, <1>3, <1>4 DEF Yield

\* thread_sleep, called by a thread that is not killed.
LEMMA SleepSusp ==
  ASSUME TypeOK, SchedInv, SuspInv, ~exited, ~inYield[self], ~killOnNextRun[self],
         NEW q, NEW ret, Sleep(q, ret)
  PROVE  SuspInv'
<1>1. CASE readyQueue # <<>> /\ Yield(1, q, ret)
  <2>1. 1 \in DOMAIN readyQueue
    BY <1>1 DEF TypeOK
  <2> QED BY <1>1, <2>1, YieldSusp
<1>2. CASE ~(readyQueue # <<>> /\ Yield(1, q, ret))
  <2>1. /\ pc' = [pc EXCEPT ![self] = ret]
        /\ UNCHANGED <<tcbs, current_thread_id, inYield>>
    BY <1>2 DEF Sleep
  <2>2. \A t \in Tids : t # self => pc'[t] = pc[t]
    BY <2>1 DEF TypeOK
  <2> QED BY <2>1, <2>2, QuietSusp, StacksKept DEF tcbs
<1> QED BY <1>1, <1>2

\* Every step preserves SuspInv.
LEMMA NextSusp ==
  ASSUME TypeOK, SchedInv, SuspInv, [Next]_vars
  PROVE  SuspInv'
<1>1. /\ self \in Tids /\ readyQueue \in Seq(Tids)
      /\ readyQueue # <<>> => 1 \in DOMAIN readyQueue
  BY DEF TypeOK, self
<1>2. /\ InUser.op \notin {"stub", "window"} /\ InWindow.op = "window"
      /\ \A l \in Locks : InLock(l).op \notin {"stub", "window"}
      /\ \A c \in CVs, l \in Locks : InCv(c, l).op \notin {"stub", "window"}
      /\ \A q \in Queues \cup CVs : InDestroy(q).op \notin {"stub", "window"}
  BY DEF InUser, InWindow, InLock, InCv, InDestroy, Place
<1>3. ASSUME NEW p, Running(p), p.op \notin {"stub", "window"}
      PROVE  ~exited /\ ~inYield[self] /\ ~killOnNextRun[self]
  BY <1>3, NotKilled DEF Running
<1>4. ASSUME NEW p, Running(p), p.op \notin {"stub", "window"}, NEW ret,
             pc' = pc \/ pc' = [pc EXCEPT ![self] = ret],
             UNCHANGED <<tcbs, current_thread_id, inYield>>
      PROVE  SuspInv'
  <2>1. \A t \in Tids : t # self => pc'[t] = pc[t]
    BY <1>1, <1>4 DEF TypeOK
  <2>2. ~exited /\ ~killOnNextRun[self]
    BY <1>3, <1>4
  <2> QED BY <1>4, <2>1, <2>2, QuietSusp, StacksKept DEF tcbs
<1>5. CASE UNCHANGED vars \/ LockSpin \/ Terminated
  BY <1>5 DEF vars, tcbs, LockSpin, Terminated, SuspInv, Suspended, ResumeDoesNotSwitch,
              KilledDoesNotRun, LiveStackAllocated, self
<1>6. CASE StubEnable
  <2>1. /\ ~exited /\ pc' = [pc EXCEPT ![self] = InWindow]
        /\ UNCHANGED <<tcbs, current_thread_id, inYield>>
    BY <1>6 DEF StubEnable, Running
  <2>2. pc'[self].op = "window" /\ \A t \in Tids : t # self => pc'[t] = pc[t]
    BY <1>1, <1>2, <2>1 DEF TypeOK
  <2> QED BY <2>1, <2>2, QuietSusp, StacksKept DEF tcbs
<1>7. CASE StubCheck
  <2>1. CASE ThreadExit(readyQueue, freeTCBStacks(t_state))
    BY <1>1, <1>7, <2>1, ExitSusp, StacksKept DEF StubCheck, Running
  <2>2. CASE ~ThreadExit(readyQueue, freeTCBStacks(t_state))
    <3>1. /\ ~exited /\ ~killOnNextRun[self]
          /\ stack_to_free' = freeTCBStacks(t_state)
          /\ pc' = [pc EXCEPT ![self] = InUser]
          /\ UNCHANGED <<t_state, setcontext_called, killOnNextRun, current_thread_id, inYield>>
      BY <1>7, <2>2 DEF StubCheck, Running
    <3>2. \A t \in Tids : t # self => pc'[t] = pc[t]
      BY <1>1, <3>1 DEF TypeOK
    <3> QED BY <3>1, <3>2, QuietSusp, StacksKept
  <2> QED BY <2>1, <2>2
<1>8. CASE Resume
  <2>1. CASE ThreadExit(readyQueue, freeTCBStacks(t_state))
    BY <1>1, <1>8, <2>1, ExitSusp, StacksKept DEF Resume
  <2>2. CASE ~ThreadExit(readyQueue, freeTCBStacks(t_state))
    <3>1. /\ ~exited /\ ~killOnNextRun[self]
          /\ setcontext_called' = [setcontext_called EXCEPT ![self] = FALSE]
          /\ stack_to_free' = freeTCBStacks(t_state)
          /\ inYield' = [inYield EXCEPT ![self] = FALSE]
          /\ UNCHANGED <<t_state, killOnNextRun, current_thread_id, pc>>
      BY <1>8, <2>2 DEF Resume, FlagsAfterResume
    <3>2. /\ t_state[self] = "RUNNING" /\ ~inYield'[self]
          /\ \A t \in Tids : t # self => /\ inYield'[t] = inYield[t]
                                        /\ setcontext_called'[t] = setcontext_called[t]
      BY <1>1, <3>1, SelfNotQueued DEF TypeOK
    <3>3. Suspended'
      BY <3>1, <3>2 DEF SuspInv, Suspended, AtStub, Place
    <3>4. ResumeDoesNotSwitch'
      BY <3>2 DEF SuspInv, ResumeDoesNotSwitch
    <3>5. KilledDoesNotRun'
      BY <3>1 DEF KilledDoesNotRun, self
    <3>6. LiveStackAllocated'
      BY <3>1, StacksKept DEF SuspInv, LiveStackAllocated, KeepsStacks
    <3> QED BY <3>3, <3>4, <3>5, <3>6 DEF SuspInv
  <2> QED BY <2>1, <2>2
<1>9. CASE Preempt
  BY <1>1, <1>9, YieldSusp DEF Preempt, InterruptsOn
<1>10. CASE LockSleep
  BY <1>1, <1>10, YieldSusp DEF LockSleep, Running
<1>11. CASE CvSleep
  BY <1>2, <1>3, <1>11, SleepSusp DEF CvSleep
<1>12. CASE LockTake
  BY <1>2, <1>4, <1>12 DEF LockTake
<1>13. CASE DestroyPop \/ DestroyFree
  BY <1>2, <1>4, <1>13 DEF DestroyPop, DestroyFree
<1>14. CASE thread_create
  <2> DEFINE id == Head(availableThreadIds)
  <2>1. /\ ~exited
        /\ stack_to_free' = [stack_to_free EXCEPT ![id] = TRUE]
        /\ t_state' = [t_state EXCEPT ![id] = "READY"]
        /\ pc' = [pc EXCEPT ![id] = AtStub]
        /\ UNCHANGED <<setcontext_called, killOnNextRun, current_thread_id, inYield>>
    BY <1>14 DEF thread_create, Running
  <2>2. id \in Tids /\ t_state[id] = "NOT_ASSIGNED"
    <3>1. id \in Tids /\ id \in Range(availableThreadIds)
      BY <1>14, HeadTailFacts DEF thread_create, TypeOK
    <3> QED BY <3>1 DEF SchedInv, FreeIdsUnused
  <2> HIDE DEF id
  <2>3. id # self
    BY <2>1, <2>2, SelfNotQueued
  <2>4. pc'[id] = AtStub /\ stack_to_free'[id]
    BY <2>1, <2>2 DEF TypeOK
  <2>5. \A t \in Tids : t # id => /\ pc'[t] = pc[t] /\ t_state'[t] = t_state[t]
                                  /\ stack_to_free'[t] = stack_to_free[t]
    BY <2>1 DEF TypeOK
  <2>6. Suspended'
    <3> SUFFICES ASSUME NEW t \in Tids, t_state'[t] = "READY"
                 PROVE  inYield'[t] \/ pc'[t] = AtStub
      BY DEF Suspended, AtStub, Place
    <3> QED BY <2>1, <2>4, <2>5 DEF SuspInv, Suspended
  <2>7. ResumeDoesNotSwitch'
    BY <2>1 DEF SuspInv, ResumeDoesNotSwitch
  <2>8. KilledDoesNotRun'
    BY <1>1, <2>1, <2>3, <2>5 DEF SuspInv, KilledDoesNotRun, self
  <2>9. LiveStackAllocated'
    BY <2>4, <2>5 DEF SuspInv, LiveStackAllocated
  <2> QED BY <2>6, <2>7, <2>8, <2>9 DEF SuspInv
<1>15. CASE thread_create_nomemory
  <2> DEFINE id == Head(availableThreadIds)
  <2>1. /\ Running(InUser)
        /\ stack_to_free' = [stack_to_free EXCEPT ![id] = FALSE]
        /\ UNCHANGED <<t_state, setcontext_called, killOnNextRun, current_thread_id, inYield, pc>>
    BY <1>15 DEF thread_create_nomemory
  <2>2. t_state[id] = "NOT_ASSIGNED"
    <3>1. id \in Range(availableThreadIds)
      BY <1>15, HeadTailFacts DEF thread_create_nomemory, TypeOK
    <3> QED BY <3>1 DEF SchedInv, FreeIdsUnused
  <2> HIDE DEF id
  <2>3. KeepsStacks(stack_to_free')
    BY <2>1, <2>2 DEF KeepsStacks, TypeOK
  <2>4. ~exited /\ ~killOnNextRun[self]
    BY <1>2, <1>3, <2>1
  <2> QED BY <2>1, <2>3, <2>4, QuietSusp
<1>16. CASE \E want_tid \in Tids \cup {-1} : thread_yield(want_tid)
  BY <1>16, YieldSusp DEF thread_yield, Running
<1>17. CASE thread_exit
  BY <1>1, <1>17, ExitSusp, StacksKept DEF thread_exit, Running, TypeOK
<1>18. ASSUME NEW tid \in Tids, thread_kill(tid)
       PROVE  SuspInv'
  <2>1. /\ tid # self
        /\ killOnNextRun' = [killOnNextRun EXCEPT ![tid] = TRUE]
        /\ UNCHANGED <<t_state, setcontext_called, stack_to_free, current_thread_id, pc, inYield>>
    BY <1>18 DEF thread_kill, ValidTarget
  <2>2. killOnNextRun'[self] = killOnNextRun[self]
    BY <1>1, <2>1 DEF TypeOK
  <2> QED BY <1>1, <2>1, <2>2 DEF SuspInv, Suspended, ResumeDoesNotSwitch, KilledDoesNotRun,
                                  LiveStackAllocated, self, AtStub, Place
<1>19. CASE \E tid \in Tids : thread_wait(tid)
  BY <1>2, <1>3, <1>19, SleepSusp DEF thread_wait
<1>20. CASE \E q \in Queues : thread_sleep(q)
  BY <1>2, <1>3, <1>20, SleepSusp DEF thread_sleep
<1>21. CASE \E q \in Queues, all \in BOOLEAN : thread_wakeup(q, all)
  BY <1>2, <1>4, <1>21 DEF thread_wakeup, Wakeup
<1>22. CASE \E l \in Locks : lock_acquire(l) \/ lock_destroy(l)
  BY <1>2, <1>4, <1>22 DEF lock_acquire, lock_destroy
<1>23. CASE \E l \in Locks : lock_release(l)
  BY <1>2, <1>4, <1>23 DEF lock_release, Release, Wakeup
<1>24. CASE \E c \in CVs, l \in Locks : cv_wait(c, l)
  BY <1>2, <1>4, <1>24 DEF cv_wait, Release, Wakeup
<1>25. CASE \E c \in CVs, l \in Locks, all \in BOOLEAN : cv_wake(c, l, all)
  BY <1>2, <1>4, <1>25 DEF cv_wake, Wakeup
<1>26. CASE \E q \in Queues \cup CVs : wait_queue_destroy(q)
  BY <1>2, <1>4, <1>26 DEF wait_queue_destroy
<1> QED
  BY <1>5, <1>6, <1>7, <1>8, <1>9, <1>10, <1>11, <1>12, <1>13, <1>14, <1>15, <1>16, <1>17,
     <1>18, <1>19, <1>20, <1>21, <1>22, <1>23, <1>24, <1>25, <1>26
     DEF Next, LibraryStep, ClientCall

\* TypeOK, SchedInv and SuspInv hold together in every reachable state.
LEMMA SuspInvariant == Spec => [](TypeOK /\ SchedInv /\ SuspInv)
<1>1. Init => TypeOK /\ SchedInv /\ SuspInv
  <2> SUFFICES ASSUME Init PROVE SuspInv
    BY InitType, InitSched
  <2> QED BY TidsFacts DEF Init, SuspInv, Suspended, ResumeDoesNotSwitch, KilledDoesNotRun,
                           LiveStackAllocated, self
<1>2. TypeOK /\ SchedInv /\ SuspInv /\ [Next]_vars => TypeOK' /\ SchedInv' /\ SuspInv'
  BY NextType, NextSched, NextSusp
<1> QED BY <1>1, <1>2, PTL DEF Spec

\* A thread that thread_kill has marked runs no more client code: whoever gets
\* the processor was suspended inside thread_yield or is new, and both read
\* killOnNextRun before they return to the client.
THEOREM KilledStops == Spec => []KilledDoesNotRun
<1>1. TypeOK /\ SchedInv /\ SuspInv => KilledDoesNotRun
  BY DEF SuspInv
<1> QED BY <1>1, SuspInvariant, PTL

\* The second return of getcontext never executes the switching block again,
\* also in a thread whose identifier was a killed thread's before.
THEOREM ResumeSafe == Spec => []ResumeDoesNotSwitch
<1>1. TypeOK /\ SchedInv /\ SuspInv => ResumeDoesNotSwitch
  BY DEF SuspInv
<1> QED BY <1>1, SuspInvariant, PTL

\* The stack of a live thread is never freed by freeTCBStacks or thread_create,
\* with kills, reuse of identifiers and failed mallocs.
THEOREM StacksSafe == Spec => []LiveStackAllocated
<1>1. TypeOK /\ SchedInv /\ SuspInv => LiveStackAllocated
  BY DEF SuspInv
<1> QED BY <1>1, SuspInvariant, PTL

-----------------------------------------------------------------------------
(* Clients that do not kill: nobody's switch is skipped, nobody is lost.     *)

\* Without kills no thread is marked and the flag is set in suspended threads
\* only; without destructions nobody is in wait_queue_destroy.
CalmInv ==
  /\ \A t \in Tids : ~killOnNextRun[t]
  /\ \A t \in Tids : setcontext_called[t] => inYield[t]
  /\ "destroy" \notin Uses => \A t \in Tids : pc[t].op # "destroy"

\* A step that leaves the flags alone and moves one thread to another place.
LEMMA QuietCalm ==
  ASSUME TypeOK, CalmInv,
         UNCHANGED <<setcontext_called, killOnNextRun, inYield>>,
         NEW t \in Tids, NEW ret, ret.op = "destroy" => "destroy" \in Uses,
         pc' = pc \/ pc' = [pc EXCEPT ![t] = ret]
  PROVE  CalmInv'
<1>1. ASSUME "destroy" \notin Uses, NEW u \in Tids PROVE pc'[u].op # "destroy"
  <2>1. pc'[u] = pc[u] \/ pc'[u] = ret
    BY DEF TypeOK
  <2> QED BY <1>1, <2>1 DEF CalmInv
<1> QED BY <1>1 DEF CalmInv

\* thread_exit of a thread that is not suspended.
LEMMA ExitCalm ==
  ASSUME TypeOK, CalmInv, ~inYield[self], NEW ready, NEW stacks, ThreadExit(ready, stacks)
  PROVE  CalmInv'
<1>1. /\ self \in Tids
      /\ killOnNextRun' = [killOnNextRun EXCEPT ![self] = FALSE]
      /\ setcontext_called' = setcontext_called
      /\ inYield' = [inYield EXCEPT ![self] = FALSE]
      /\ pc' = [pc EXCEPT ![self] = Nowhere]
  BY DEF ThreadExit, TypeOK, self
<1>2. inYield' = inYield /\ killOnNextRun' = killOnNextRun
  <2>1. inYield[self] = FALSE /\ killOnNextRun[self] = FALSE
    BY <1>1 DEF TypeOK, CalmInv
  <2> QED BY <1>1, <2>1 DEF TypeOK
<1>3. Nowhere.op # "destroy"
  BY DEF Nowhere, Place
<1> QED BY <1>1, <1>2, <1>3, QuietCalm

\* thread_yield never skips the switch, whatever the queue and the place.
LEMMA YieldCalm ==
  ASSUME TypeOK, CalmInv, ~inYield[self], NEW i, NEW q, NEW ret,
         ret.op = "destroy" => "destroy" \in Uses, Yield(i, q, ret)
  PROVE  CalmInv'
<1>1. self \in Tids /\ ~killOnNextRun[self] /\ ~setcontext_called[self]
  BY DEF TypeOK, CalmInv, self
<1>2. Switch(i, q, ret)
  BY <1>1 DEF Yield, SkipSwitch
<1>3. /\ setcontext_called' = [setcontext_called EXCEPT ![self] = TRUE]
      /\ inYield' = [inYield EXCEPT ![self] = TRUE]
      /\ pc' = [pc EXCEPT ![self] = ret]
      /\ killOnNextRun' = killOnNextRun
  BY <1>2 DEF Switch, FlagsAfterSwitch
<1>4. \A t \in Tids : setcontext_called'[t] => inYield'[t]
  BY <1>1, <1>3 DEF TypeOK, CalmInv
<1>5. ASSUME "destroy" \notin Uses, NEW u \in Tids PROVE pc'[u].op # "destroy"
  <2>1. pc'[u] = pc[u] \/ pc'[u] = ret
    BY <1>3 DEF TypeOK
  <2> QED BY <1>5, <2>1 DEF CalmInv
<1> QED BY <1>3, <1>4, <1>5 DEF CalmInv

\* thread_sleep, likewise.
LEMMA SleepCalm ==
  ASSUME TypeOK, CalmInv, ~inYield[self], NEW q, NEW ret,
         ret.op = "destroy" => "destroy" \in Uses, Sleep(q, ret)
  PROVE  CalmInv'
<1>1. CASE Yield(1, q, ret)
  BY <1>1, YieldCalm
<1>2. CASE ~Yield(1, q, ret)
  <2>1. /\ pc' = [pc EXCEPT ![self] = ret] /\ UNCHANGED <<tcbs, inYield>>
    BY <1>2 DEF Sleep
  <2>2. self \in Tids
    BY DEF TypeOK, self
  <2> QED BY <2>1, <2>2, QuietCalm DEF tcbs
<1> QED BY <1>1, <1>2

\* Every step of a client that does not kill preserves CalmInv.
LEMMA NextCalm ==
  ASSUME "kill" \notin Uses, TypeOK, CalmInv, [Next]_vars
  PROVE  CalmInv'
<1>1. /\ self \in Tids /\ ~killOnNextRun[self]
      /\ pc[self].op = "destroy" => "destroy" \in Uses
  BY DEF TypeOK, CalmInv, self
<1>2. /\ InUser.op # "destroy" /\ InWindow.op # "destroy" /\ AtStub.op # "destroy"
      /\ \A l : InLock(l).op # "destroy"
      /\ \A c, l : InCv(c, l).op # "destroy"
  BY DEF InUser, InWindow, AtStub, InLock, InCv, Place
<1>3. CASE UNCHANGED vars \/ LockSpin \/ Terminated
  BY <1>3 DEF vars, tcbs, LockSpin, Terminated, CalmInv
<1>4. CASE StubEnable \/ LockTake \/ DestroyPop \/ DestroyFree
  <2>1. /\ UNCHANGED <<setcontext_called, killOnNextRun, inYield>>
        /\ \E ret \in {InUser, InWindow} : pc' = pc \/ pc' = [pc EXCEPT ![self] = ret]
    BY <1>4 DEF StubEnable, LockTake, DestroyPop, DestroyFree, tcbs
  <2> QED BY <1>1, <1>2, <2>1, QuietCalm
<1>5. CASE StubCheck
  <2>1. /\ UNCHANGED <<setcontext_called, killOnNextRun, inYield>>
        /\ pc' = [pc EXCEPT ![self] = InUser]
    BY <1>1, <1>5 DEF StubCheck
  <2> QED BY <1>1, <1>2, <2>1, QuietCalm
<1>6. CASE Resume
  <2>1. /\ setcontext_called' = [setcontext_called EXCEPT ![self] = FALSE]
        /\ inYield' = [inYield EXCEPT ![self] = FALSE]
        /\ UNCHANGED <<killOnNextRun, pc>>
    BY <1>1, <1>6 DEF Resume, FlagsAfterResume
  <2>2. \A t \in Tids : setcontext_called'[t] => inYield'[t]
    BY <1>1, <2>1 DEF TypeOK, CalmInv
  <2> QED BY <2>1, <2>2 DEF CalmInv
<1>7. CASE Preempt
  BY <1>1, <1>7, YieldCalm DEF Preempt, InterruptsOn
<1>8. CASE LockSleep
  BY <1>2, <1>8, YieldCalm DEF LockSleep, Running
<1>9. CASE CvSleep
  BY <1>2, <1>9, SleepCalm DEF CvSleep, Running
<1>10. CASE thread_create \/ thread_create_nomemory
  <2>1. Head(availableThreadIds) \in Tids
    BY <1>10, HeadTailFacts DEF thread_create, thread_create_nomemory, TypeOK
  <2>2. /\ UNCHANGED <<setcontext_called, killOnNextRun, inYield>>
        /\ pc' = pc \/ pc' = [pc EXCEPT ![Head(availableThreadIds)] = AtStub]
    BY <1>10 DEF thread_create, thread_create_nomemory
  <2> QED BY <1>2, <2>1, <2>2, QuietCalm
<1>11. CASE \E want_tid \in Tids \cup {-1} : thread_yield(want_tid)
  BY <1>2, <1>11, YieldCalm DEF thread_yield, Running
<1>12. CASE thread_exit
  BY <1>12, ExitCalm DEF thread_exit, Running
<1>13. CASE \E tid \in Tids : thread_kill(tid)
  BY <1>13 DEF thread_kill
<1>14. CASE \E tid \in Tids : thread_wait(tid)
  BY <1>2, <1>14, SleepCalm DEF thread_wait, Running
<1>15. CASE \E q \in Queues : thread_sleep(q)
  BY <1>2, <1>15, SleepCalm DEF thread_sleep, Running
<1>16. ASSUME NEW q, NEW all, Wakeup(q, all)
       PROVE  UNCHANGED <<setcontext_called, killOnNextRun, inYield>>
  BY <1>16 DEF Wakeup, tcbs
<1>17. CASE \/ \E q \in Queues, all \in BOOLEAN : thread_wakeup(q, all)
            \/ \E c \in CVs, l \in Locks, all \in BOOLEAN : cv_wake(c, l, all)
  <2>1. UNCHANGED <<setcontext_called, killOnNextRun, inYield>> /\ pc' = pc
    BY <1>16, <1>17 DEF thread_wakeup, cv_wake
  <2> QED BY <1>1, <1>2, <2>1, QuietCalm
<1>18. ASSUME NEW l \in Locks, lock_acquire(l) \/ lock_release(l) \/ lock_destroy(l)
       PROVE  CalmInv'
  <2>1. UNCHANGED <<setcontext_called, killOnNextRun, inYield>>
    BY <1>16, <1>18 DEF lock_acquire, lock_release, lock_destroy, Release, tcbs
  <2>2. \E ret \in {InUser, InLock(l)} : pc' = pc \/ pc' = [pc EXCEPT ![self] = ret]
    BY <1>18 DEF lock_acquire, lock_release, lock_destroy, Release
  <2> QED BY <1>1, <1>2, <2>1, <2>2, QuietCalm
<1>19. ASSUME NEW c \in CVs, NEW l \in Locks, cv_wait(c, l)
       PROVE  CalmInv'
  <2>1. /\ UNCHANGED <<setcontext_called, killOnNextRun, inYield>>
        /\ pc' = [pc EXCEPT ![self] = InCv(c, l)]
    BY <1>16, <1>19 DEF cv_wait, Release
  <2> QED BY <1>1, <1>2, <2>1, QuietCalm
<1>20. CASE \E q \in Queues \cup CVs : wait_queue_destroy(q)
  BY <1>1, <1>20, QuietCalm DEF wait_queue_destroy, tcbs
<1> QED
  BY <1>3, <1>4, <1>5, <1>6, <1>7, <1>8, <1>9, <1>10, <1>11, <1>12, <1>13, <1>14, <1>15,
     <1>16, <1>17, <1>18, <1>19, <1>20 DEF Next, LibraryStep, ClientCall

\* TypeOK, SchedInv and CalmInv hold together when the client does not kill.
LEMMA CalmInvariant ==
  ASSUME "kill" \notin Uses
  PROVE  Spec => [](TypeOK /\ SchedInv /\ CalmInv)
<1>1. Init => TypeOK /\ SchedInv /\ CalmInv
  <2> SUFFICES ASSUME Init PROVE CalmInv
    BY InitType, InitSched
  <2>1. InUser.op # "destroy" /\ Nowhere.op # "destroy"
    BY DEF InUser, Nowhere, Place
  <2> QED BY <2>1 DEF Init, CalmInv
<1>2. TypeOK /\ SchedInv /\ CalmInv /\ [Next]_vars => TypeOK' /\ SchedInv' /\ CalmInv'
  BY NextType, NextSched, NextCalm
<1> QED BY <1>1, <1>2, PTL DEF Spec

\* Unless threads are killed, the next thread_yield of a thread that is not
\* suspended does switch: no earlier resumption leaves setcontext_called set.
THEOREM YieldsSwitch ==
  ASSUME "kill" \notin Uses
  PROVE  Spec => []YieldCanSwitch
<1>1. TypeOK /\ SchedInv /\ CalmInv => YieldCanSwitch
  BY DEF CalmInv, YieldCanSwitch
<1> QED BY <1>1, CalmInvariant, PTL

\* The ways in which a step changes the scheduler's data when no switch is
\* skipped (StepKinds).
LEMMA CalmKinds ==
  ASSUME TypeOK, CalmInv, [Next]_vars
  PROVE  \/ UNCHANGED <<t_state, queues, current_thread_id, exited>>
         \/ /\ ~exited
            /\ \/ \E stacks : ThreadExit(readyQueue, stacks)
               \/ \E i \in DOMAIN readyQueue, q \in WaitQueues \cup {NULL} : \E ret :
                    Switch(i, q, ret)
         \/ \E q \in WaitQueues, all \in BOOLEAN : Wakeup(q, all)
         \/ thread_create \/ thread_create_nomemory
         \/ DestroyPop \/ \E l \in Locks : lock_destroy(l)
<1>1. ~killOnNextRun[self] /\ (~inYield[self] => ~setcontext_called[self])
  BY DEF TypeOK, CalmInv, self
<1>2. ASSUME NEW i, NEW q, NEW ret, ~inYield[self], Switch(i, q, ret) \/ SkipSwitch(i, q, ret)
      PROVE  Switch(i, q, ret)
  BY <1>1, <1>2 DEF SkipSwitch
<1> QED BY <1>1, <1>2, StepKinds

\* thread_exit of a client: every ready thread and every waiter of the exiting
\* thread is ready afterwards, or runs.
LEMMA ExitKeeps ==
  ASSUME TypeOK, SchedInv, ~exited, NEW stacks, ThreadExit(readyQueue, stacks)
  PROVE  /\ \A t \in Range(readyQueue) \cup Range(wq[self]) :
              t \in Range(readyQueue') \/ (t = current_thread_id' /\ t_state'[t] = "RUNNING")
         /\ \A q \in WaitQueues : q # self => wq'[q] = wq[q]
         /\ \A t \in Tids : t_state'[t] # "RUNNING" => t = self \/ t_state'[t] = t_state[t]
         /\ t_state'[self] # "READY"
<1> DEFINE rest == readyQueue \o Woken(self, TRUE)
           gone == [t_state EXCEPT ![self] = "NOT_ASSIGNED"]
<1>1. self \in Tids /\ self \in WaitQueues
  BY SelfNotQueued
<1>2. /\ readyQueue \in Seq(Tids) /\ wq[self] \in Seq(Tids)
      /\ Woken(self, TRUE) = wq[self] /\ NotWoken(self, TRUE) = <<>>
  BY <1>1, WokenAll DEF TypeOK
<1>3. rest = readyQueue \o wq[self]
  BY <1>2
<1>4. /\ wq' = [wq EXCEPT ![self] = <<>>]
      /\ \/ /\ rest = <<>> /\ t_state' = gone /\ readyQueue' = <<>>
         \/ /\ rest # <<>> /\ t_state' = [gone EXCEPT ![Head(rest)] = "RUNNING"]
            /\ current_thread_id' = Head(rest) /\ readyQueue' = Tail(rest)
  BY <1>2 DEF ThreadExit
<1> HIDE DEF rest
<1>5. rest \in Seq(Tids) /\ Range(rest) = Range(readyQueue) \cup Range(wq[self])
  BY <1>2, <1>3, ConcatFacts
<1>6. rest # <<>> => Head(rest) \in Tids /\ Range(rest) = Range(Tail(rest)) \cup {Head(rest)}
  BY <1>5, HeadTailFacts
<1>7. rest # <<>> => t_state'[Head(rest)] = "RUNNING"
  BY <1>4, <1>6 DEF TypeOK
<1>8. \A t \in Range(readyQueue) \cup Range(wq[self]) :
        t \in Range(readyQueue') \/ (t = current_thread_id' /\ t_state'[t] = "RUNNING")
  <2>1. CASE rest = <<>>
    BY <1>5, <2>1, EmptyFacts
  <2>2. CASE rest # <<>>
    BY <1>4, <1>5, <1>6, <1>7, <2>2
  <2> QED BY <2>1, <2>2
<1>9. \A q \in WaitQueues : q # self => wq'[q] = wq[q]
  BY <1>4 DEF TypeOK
<1>10. /\ \A t \in Tids : t_state'[t] # "RUNNING" => t = self \/ t_state'[t] = t_state[t]
       /\ t_state'[self] # "READY"
  BY <1>1, <1>4, <1>6 DEF TypeOK
<1> QED BY <1>8, <1>9, <1>10

\* thread_yield that switches: only the thread that runs next leaves a queue,
\* and the current thread enters one.
LEMMA SwitchKeeps ==
  ASSUME TypeOK, SchedInv, ~exited, NEW i \in DOMAIN readyQueue,
         NEW q \in WaitQueues \cup {NULL}, NEW ret, Switch(i, q, ret)
  PROVE  /\ \A t \in Range(readyQueue) : t \in Range(readyQueue') \/ t = current_thread_id'
         /\ \A p \in WaitQueues : Range(wq[p]) \subseteq Range(wq'[p])
         /\ (self \in Range(readyQueue')) \/ \E p \in WaitQueues : self \in Range(wq'[p])
         /\ t_state'[current_thread_id'] = "RUNNING"
         /\ \A t \in Tids : t_state'[t] # "RUNNING" => t = self \/ t_state'[t] = t_state[t]
         /\ \A t \in Tids : t_state'[t] = "NOT_ASSIGNED" => t_state[t] = "NOT_ASSIGNED"
<1> DEFINE next == readyQueue[i]
           rest == Without(readyQueue, i)
           dest == IF q = NULL THEN waitQueue[self] ELSE q
<1>1. self \in Tids /\ readyQueue \in Seq(Tids) /\ IsInjective(readyQueue) /\ i \in 1 .. Len(readyQueue)
  BY SelfNotQueued DEF TypeOK, SchedInv, QueuedAtMostOnce
<1>2. rest \in Seq(Tids) /\ Range(rest) = Range(readyQueue) \ {next}
  BY <1>1, RemoveAtFacts DEF Without
<1>3. next \in Tids /\ dest \in WaitQueues \cup {NULL}
  BY <1>1, RangeFacts DEF TypeOK
<1>4. /\ Enqueue(rest, dest) /\ current_thread_id' = next
      /\ t_state' = [t_state EXCEPT ![self] = "READY", ![next] = "RUNNING"]
  BY DEF Switch, StatesAfterSwitch
<1> HIDE DEF next, rest, dest
<1>5. /\ t_state'[current_thread_id'] = "RUNNING"
      /\ \A t \in Tids : t_state'[t] # "RUNNING" => t = self \/ t_state'[t] = t_state[t]
      /\ \A t \in Tids : t_state'[t] = "NOT_ASSIGNED" => t_state[t] = "NOT_ASSIGNED"
  BY <1>1, <1>3, <1>4 DEF TypeOK
<1>6. CASE dest = NULL
  <2>1. Range(Append(rest, self)) = Range(rest) \cup {self}
    BY <1>1, <1>2, AppendFacts
  <2>2. readyQueue' = Append(rest, self) /\ wq' = wq
    BY <1>4, <1>6 DEF Enqueue
  <2>3. \A t : t \in Range(readyQueue') <=> t \in Range(rest) \/ t = self
    BY <2>1, <2>2
  <2> QED BY <1>2, <1>4, <1>5, <2>2, <2>3
<1>7. CASE dest # NULL
  <2>1. wq[dest] \in Seq(Tids) /\ dest \in WaitQueues
    BY <1>3, <1>7 DEF TypeOK
  <2>2. Range(Append(wq[dest], self)) = Range(wq[dest]) \cup {self}
    BY <1>1, <2>1, AppendFacts
  <2>3. readyQueue' = rest /\ wq' = [wq EXCEPT ![dest] = Append(wq[dest], self)]
    BY <1>4, <1>7 DEF Enqueue
  <2>4. /\ wq'[dest] = Append(wq[dest], self)
        /\ \A p \in WaitQueues : p # dest => wq'[p] = wq[p]
    BY <2>1, <2>3 DEF TypeOK
  <2>5. self \in Range(wq'[dest]) /\ \A p \in WaitQueues : Range(wq[p]) \subseteq Range(wq'[p])
    BY <2>2, <2>4
  <2> QED BY <1>2, <1>4, <1>5, <2>1, <2>3, <2>5
<1> QED BY <1>6, <1>7

\* thread_wakeup: who was queued is queued, who was ready is ready.
LEMMA WakeupKeeps ==
  ASSUME TypeOK, SchedInv, NEW q \in WaitQueues, NEW all \in BOOLEAN, Wakeup(q, all)
  PROVE  /\ Range(readyQueue) \subseteq Range(readyQueue')
         /\ \A t \in Tids : Queued(t) => Queued(t)'
<1> DEFINE woken == Woken(q, all)
           left == NotWoken(q, all)
<1>1. /\ woken \in Seq(Tids) /\ readyQueue \in Seq(Tids)
      /\ \A t : t \in Range(wq[q]) <=> t \in Range(woken) \/ t \in Range(left)
  BY WokenFacts DEF TypeOK
<1>2. readyQueue' = readyQueue \o woken /\ wq' = [wq EXCEPT ![q] = left]
  BY DEF Wakeup
<1> HIDE DEF woken, left
<1>3. Range(readyQueue') = Range(readyQueue) \cup Range(woken)
  BY <1>1, <1>2, ConcatFacts
<1>4. /\ wq'[q] = left
      /\ \A p \in WaitQueues : p # q => wq'[p] = wq[p]
  BY <1>2 DEF TypeOK
<1>5. ASSUME NEW t \in Tids, Queued(t) PROVE Queued(t)'
  <2>1. CASE t \in Range(readyQueue) \/ t \in Range(woken)
    BY <1>3, <2>1 DEF Queued
  <2>2. CASE ~(t \in Range(readyQueue) \/ t \in Range(woken))
    <3>1. PICK p \in WaitQueues : t \in Range(wq[p])
      BY <1>5, <2>2 DEF Queued
    <3>2. t \in Range(wq'[p])
      BY <1>1, <1>4, <2>2, <3>1
    <3> QED BY <3>2 DEF Queued
  <2> QED BY <2>1, <2>2
<1> QED BY <1>3, <1>5

\* A step of a client that neither kills nor destroys loses no thread.
LEMMA NextLost ==
  ASSUME "destroy" \notin Uses, TypeOK, SchedInv, CalmInv, NoThreadLost, [Next]_vars
  PROVE  NoThreadLost'
<1>1. CASE UNCHANGED <<t_state, queues, current_thread_id, exited>>
  BY <1>1 DEF NoThreadLost, Queued, queues
<1>2. ASSUME ~exited, NEW stacks, ThreadExit(readyQueue, stacks)
      PROVE  NoThreadLost'
  <2> SUFFICES ASSUME NEW t \in Tids, t_state'[t] = "READY" PROVE Queued(t)'
    BY DEF NoThreadLost
  <2>1. t # self /\ t_state[t] = "READY"
    BY <1>2, ExitKeeps
  <2>2. Queued(t)
    BY <2>1 DEF NoThreadLost
  <2>3. CASE t \in Range(readyQueue) \/ t \in Range(wq[self])
    BY <1>2, <2>3, ExitKeeps DEF Queued
  <2>4. CASE ~(t \in Range(readyQueue) \/ t \in Range(wq[self]))
    <3>1. PICK q \in WaitQueues : q # self /\ t \in Range(wq[q])
      BY <2>2, <2>4 DEF Queued
    <3> QED BY <1>2, <3>1, ExitKeeps DEF Queued
  <2> QED BY <2>3, <2>4
<1>3. ASSUME ~exited, NEW i \in DOMAIN readyQueue, NEW q \in WaitQueues \cup {NULL}, NEW ret,
             Switch(i, q, ret)
      PROVE  NoThreadLost'
  <2> SUFFICES ASSUME NEW t \in Tids, t_state'[t] = "READY" PROVE Queued(t)'
    BY DEF NoThreadLost
  <2>1. CASE t = self
    BY <1>3, <2>1, SwitchKeeps DEF Queued
  <2>2. CASE t # self
    <3>1. t_state[t] = "READY" /\ t # current_thread_id'
      BY <1>3, <2>2, SwitchKeeps
    <3>2. Queued(t)
      BY <3>1 DEF NoThreadLost
    <3> QED BY <1>3, <3>1, <3>2, SwitchKeeps DEF Queued
  <2> QED BY <2>1, <2>2
<1>4. ASSUME NEW q \in WaitQueues, NEW all \in BOOLEAN, Wakeup(q, all)
      PROVE  NoThreadLost'
  <2>1. t_state' = t_state
    BY <1>4 DEF Wakeup, tcbs
  <2> QED BY <1>4, <2>1, WakeupKeeps DEF NoThreadLost
<1>5. CASE thread_create
  <2> DEFINE id == Head(availableThreadIds)
  <2>1. /\ t_state' = [t_state EXCEPT ![id] = "READY"]
        /\ readyQueue' = Append(readyQueue, id)
        /\ wq' = wq
    BY <1>5 DEF thread_create
  <2>2. id \in Tids
    BY <1>5, HeadTailFacts DEF thread_create, TypeOK
  <2> HIDE DEF id
  <2>3. Range(readyQueue') = Range(readyQueue) \cup {id}
    BY <2>1, <2>2, AppendFacts DEF TypeOK
  <2> QED BY <2>1, <2>3 DEF NoThreadLost, Queued, TypeOK
<1>6. CASE thread_create_nomemory
  BY <1>6 DEF thread_create_nomemory, NoThreadLost, Queued
<1>7. ~DestroyPop
  <2>1. \A q : InDestroy(q).op = "destroy"
    BY DEF InDestroy, Place
  <2>2. pc[self].op # "destroy"
    BY DEF CalmInv, TypeOK, self
  <2> QED BY <2>1, <2>2 DEF DestroyPop, Running
<1>8. ~\E l \in Locks : lock_destroy(l)
  BY DEF lock_destroy
<1> QED BY <1>1, <1>2, <1>3, <1>4, <1>5, <1>6, <1>7, <1>8, CalmKinds

\* Unless threads are killed or queues destroyed, every live thread that is not
\* running is in a queue: switches, wakeups, exits and preemption lose nobody.
THEOREM NobodyLost ==
  ASSUME "kill" \notin Uses, "destroy" \notin Uses
  PROVE  Spec => []NoThreadLost
<1>1. Init => NoThreadLost
  BY DEF Init, NoThreadLost
<1>2. TypeOK /\ SchedInv /\ CalmInv /\ NoThreadLost /\ [Next]_vars => NoThreadLost'
  BY NextLost
<1> QED BY <1>1, <1>2, CalmInvariant, PTL DEF Spec

\* Unless threads are killed, a thread leaves the ready queue only to run.
THEOREM OnlyRunnersPopped ==
  ASSUME "kill" \notin Uses
  PROVE  Spec => PoppedRuns
<1> DEFINE Step == \A t \in Range(readyQueue) \ Range(readyQueue') : current_thread_id' = t
<1>1. TypeOK /\ SchedInv /\ CalmInv /\ [Next]_vars => Step
  <2> SUFFICES ASSUME TypeOK, SchedInv, CalmInv, [Next]_vars,
                      NEW t \in Range(readyQueue), t \notin Range(readyQueue')
               PROVE  current_thread_id' = t
    OBVIOUS
  <2>1. readyQueue' # readyQueue
    OBVIOUS
  <2>2. ~UNCHANGED <<t_state, queues, current_thread_id, exited>>
    BY <2>1 DEF queues
  <2>3. ASSUME ~exited, NEW stacks, ThreadExit(readyQueue, stacks)
        PROVE  current_thread_id' = t
    BY <2>3, ExitKeeps
  <2>4. ASSUME ~exited, NEW i \in DOMAIN readyQueue, NEW q \in WaitQueues \cup {NULL}, NEW ret,
               Switch(i, q, ret)
        PROVE  current_thread_id' = t
    BY <2>4, SwitchKeeps
  <2>5. ~\E q \in WaitQueues, all \in BOOLEAN : Wakeup(q, all)
    BY WakeupKeeps
  <2>6. ~thread_create
    <3> SUFFICES ASSUME thread_create PROVE FALSE
      OBVIOUS
    <3>1. Head(availableThreadIds) \in Tids
      BY HeadTailFacts DEF thread_create, TypeOK
    <3>2. readyQueue \in Seq(Tids) /\ readyQueue' = Append(readyQueue, Head(availableThreadIds))
      BY DEF thread_create, TypeOK
    <3> QED BY <3>1, <3>2, AppendFacts
  <2>7. ~thread_create_nomemory /\ ~DestroyPop /\ ~\E l \in Locks : lock_destroy(l)
    BY <2>1 DEF thread_create_nomemory, DestroyPop, lock_destroy
  <2> QED BY <2>2, <2>3, <2>4, <2>5, <2>6, <2>7, CalmKinds
<1>2. TypeOK /\ SchedInv /\ CalmInv /\ [Next]_vars => [Step]_vars
  BY <1>1
<1>3. Spec => [][Step]_vars
  BY <1>2, CalmInvariant, PTL DEF Spec
<1> QED BY <1>3 DEF PoppedRuns

\* Unless malloc fails in thread_create, an identifier without a thread is on
\* the free list, also after kills: every way out of a thread is thread_exit.
THEOREM IdsReusable ==
  ASSUME "nomemory" \notin Uses
  PROVE  Spec => []NoIdLeaked
<1>1. Init => NoIdLeaked
  <2> SUFFICES ASSUME Init, NEW t \in Tids, t # 0 PROVE t \in Range(availableThreadIds)
    BY DEF Init, NoIdLeaked
  <2>1. t \in 1 .. MaxThreads - 1 /\ availableThreadIds = [i \in 1 .. MaxThreads - 1 |-> i]
    BY MaxThreadsAssumption DEF Init, Tids
  <2> QED BY <2>1 DEF Range
<1>2. TypeOK /\ SchedInv /\ NoIdLeaked /\ [Next]_vars => NoIdLeaked'
  <2> SUFFICES ASSUME TypeOK, SchedInv, NoIdLeaked, [Next]_vars PROVE NoIdLeaked'
    OBVIOUS
  <2>1. CASE UNCHANGED <<t_state, availableThreadIds>>
    BY <2>1 DEF NoIdLeaked
  <2>2. ASSUME ~exited, NEW ready, NEW stacks, ThreadExit(ready, stacks) PROVE NoIdLeaked'
    <3>1. self \in Tids /\ self \notin Range(availableThreadIds)
      BY <2>2, SelfNotQueued
    <3>2. /\ availableThreadIds' = <<self>> \o availableThreadIds
          /\ \E u : \/ t_state' = [t_state EXCEPT ![self] = "NOT_ASSIGNED"]
                    \/ t_state' = [[t_state EXCEPT ![self] = "NOT_ASSIGNED"]
                                     EXCEPT ![u] = "RUNNING"]
      BY <2>2 DEF ThreadExit, addToHeadId
    <3>3. Range(availableThreadIds') = {self} \cup Range(availableThreadIds)
      BY <3>1, <3>2, ConsFacts DEF TypeOK, SchedInv, FreeIdsUnused
    <3>4. \A t \in Tids : t_state'[t] = "NOT_ASSIGNED" => t = self \/ t_state[t] = "NOT_ASSIGNED"
      BY <3>2 DEF TypeOK
    <3> QED BY <3>3, <3>4 DEF NoIdLeaked
  <2>3. ASSUME ~exited, NEW i \in DOMAIN readyQueue, NEW q \in WaitQueues \cup {NULL}, NEW ret,
               Switch(i, q, ret)
        PROVE  NoIdLeaked'
    <3>1. availableThreadIds' = availableThreadIds
      BY <2>3 DEF Switch
    <3> QED BY <2>3, <3>1, SwitchKeeps DEF NoIdLeaked
  <2>4. ASSUME NEW i, NEW q, NEW ret, SkipSwitch(i, q, ret)
        PROVE  NoIdLeaked'
    BY <2>1, <2>4 DEF SkipSwitch
  <2>5. CASE thread_create
    <3> DEFINE id == Head(availableThreadIds)
    <3>1. /\ availableThreadIds # <<>> /\ availableThreadIds' = Tail(availableThreadIds)
          /\ t_state' = [t_state EXCEPT ![id] = "READY"]
      BY <2>5 DEF thread_create, removeFromHead
    <3>2. id \in Tids /\ Range(availableThreadIds) = Range(Tail(availableThreadIds)) \cup {id}
      BY <3>1, HeadTailFacts DEF TypeOK
    <3> HIDE DEF id
    <3> QED BY <3>1, <3>2 DEF NoIdLeaked, TypeOK
  <2>6. CASE \/ \E q \in WaitQueues, all \in BOOLEAN : Wakeup(q, all)
             \/ DestroyPop \/ \E l \in Locks : lock_destroy(l)
    BY <2>1, <2>6 DEF Wakeup, DestroyPop, lock_destroy, tcbs
  <2>7. ~thread_create_nomemory
    BY DEF thread_create_nomemory
  <2>8. CASE UNCHANGED <<t_state, queues, current_thread_id, exited>>
    BY <2>1, <2>8 DEF queues
  <2> QED BY <2>2, <2>3, <2>4, <2>5, <2>6, <2>7, <2>8, StepKinds
<1>3. Spec => [](TypeOK /\ SchedInv)
  BY SuspInvariant, PTL
<1> QED BY <1>1, <1>2, <1>3, PTL DEF Spec

\* Without kills the wait queue in a TCB is used up by the switch it was stored
\* for, and the waiters of a thread wait for a live thread.
WaitInv == (\A t \in Tids : waitQueue[t] = NULL) /\ WaitersHaveTarget

\* A step that fills no wait queue, forgets no thread and stores no queue.
LEMMA QuietWait ==
  ASSUME TypeOK, WaitInv, UNCHANGED <<t_state, waitQueue>>,
         \A t \in Tids : wq[t] = <<>> => wq'[t] = <<>>
  PROVE  WaitInv'
BY DEF WaitInv, WaitersHaveTarget

\* thread_wakeup leaves an empty queue empty.
LEMMA WakeupWait ==
  ASSUME TypeOK, WaitInv, NEW q \in WaitQueues, NEW all \in BOOLEAN, Wakeup(q, all)
  PROVE  WaitInv'
<1>1. ASSUME wq[q] = <<>> PROVE NotWoken(q, all) = <<>>
  <2>1. Woken(q, all) = <<>> /\ Len(Woken(q, all)) = 0
    BY <1>1 DEF Woken
  <2>2. NotWoken(q, all) = SubSeq(<<>>, 1, 0)
    BY <1>1, <2>1 DEF NotWoken
  <2> QED BY <2>2
<1>2. UNCHANGED <<t_state, waitQueue>> /\ wq' = [wq EXCEPT ![q] = NotWoken(q, all)]
  BY DEF Wakeup, tcbs
<1>3. Tids \subseteq WaitQueues
  BY DEF WaitQueues
<1>4. \A t \in Tids : wq[t] = <<>> => wq'[t] = <<>>
  BY <1>1, <1>2, <1>3 DEF TypeOK
<1> QED BY <1>2, <1>4, QuietWait

\* thread_exit empties the queue of the identifier it frees.
LEMMA ExitWait ==
  ASSUME TypeOK, SchedInv, WaitInv, ~exited, NEW stacks, ThreadExit(readyQueue, stacks)
  PROVE  WaitInv'
<1>1. self \in Tids /\ self \in WaitQueues /\ Tids \subseteq WaitQueues
  BY SelfNotQueued DEF WaitQueues
<1>2. NotWoken(self, TRUE) = <<>>
  BY <1>1, WokenAll
<1>3. /\ waitQueue' = [waitQueue EXCEPT ![self] = NULL]
      /\ wq' = [wq EXCEPT ![self] = <<>>]
  BY <1>2 DEF ThreadExit
<1>4. \A t \in Tids : waitQueue'[t] = NULL
  BY <1>3 DEF TypeOK, WaitInv
<1>5. ASSUME NEW t \in Tids, wq'[t] # <<>> PROVE t_state'[t] # "NOT_ASSIGNED"
  <2>1. t # self /\ wq[t] # <<>>
    BY <1>1, <1>3, <1>5 DEF TypeOK
  <2>2. t_state[t] # "NOT_ASSIGNED"
    BY <2>1 DEF WaitInv, WaitersHaveTarget
  <2> QED BY <2>1, <2>2, ExitKeeps
<1> QED BY <1>4, <1>5 DEF WaitInv, WaitersHaveTarget

\* thread_yield: only the queue it was called for gains an entry.
LEMMA YieldWait ==
  ASSUME TypeOK, SchedInv, CalmInv, WaitInv, ~exited, ~inYield[self],
         NEW i \in DOMAIN readyQueue, NEW q \in WaitQueues \cup {NULL}, NEW ret,
         q \in Tids => t_state[q] # "NOT_ASSIGNED",
         Yield(i, q, ret)
  PROVE  WaitInv'
<1>1. self \in Tids /\ ~killOnNextRun[self] /\ ~setcontext_called[self] /\ waitQueue[self] = NULL
  BY DEF TypeOK, CalmInv, WaitInv, self
<1>2. Switch(i, q, ret)
  BY <1>1 DEF Yield, SkipSwitch
<1>3. /\ waitQueue' = [waitQueue EXCEPT ![self] = NULL]
      /\ Enqueue(Without(readyQueue, i), q)
  BY <1>1, <1>2 DEF Switch
<1>4. \A t \in Tids : waitQueue'[t] = NULL
  BY <1>3 DEF TypeOK, WaitInv
<1>5. ASSUME NEW t \in Tids, wq'[t] # <<>> PROVE t_state'[t] # "NOT_ASSIGNED"
  <2>1. wq' = wq \/ wq' = [wq EXCEPT ![q] = Append(@, self)]
    BY <1>3 DEF Enqueue
  <2>2. t = q \/ wq[t] # <<>>
    BY <1>5, <2>1 DEF TypeOK, WaitQueues
  <2>3. t_state[t] # "NOT_ASSIGNED"
    BY <2>2 DEF WaitInv, WaitersHaveTarget
  <2> QED BY <1>2, <2>3, SwitchKeeps
<1> QED BY <1>4, <1>5 DEF WaitInv, WaitersHaveTarget

\* thread_sleep, likewise.
LEMMA SleepWait ==
  ASSUME TypeOK, SchedInv, CalmInv, WaitInv, ~exited, ~inYield[self],
         NEW q \in WaitQueues, NEW ret, q \in Tids => t_state[q] # "NOT_ASSIGNED",
         Sleep(q, ret)
  PROVE  WaitInv'
<1>1. CASE readyQueue # <<>> /\ Yield(1, q, ret)
  <2>1. 1 \in DOMAIN readyQueue
    BY <1>1 DEF TypeOK
  <2> QED BY <1>1, <2>1, YieldWait
<1>2. CASE ~(readyQueue # <<>> /\ Yield(1, q, ret))
  BY <1>2, QuietWait DEF Sleep, tcbs, queues
<1> QED BY <1>1, <1>2

\* Every step of a client that does not kill preserves WaitInv.
LEMMA NextWait ==
  ASSUME "kill" \notin Uses, TypeOK, SchedInv, CalmInv, WaitInv, [Next]_vars
  PROVE  WaitInv'
<1>1. /\ self \in Tids /\ ~killOnNextRun[self]
      /\ readyQueue # <<>> => 1 \in DOMAIN readyQueue
  BY DEF TypeOK, CalmInv, self
<1>2. /\ Objects \cup Tids \subseteq WaitQueues /\ NULL \notin Tids
      /\ \A q \in Objects : q \notin Tids
  BY QueuesAssumption, NullAssumption DEF WaitQueues
<1>3. Queues \cup Locks \cup CVs = Objects
  BY DEF Objects
<1>4. CASE UNCHANGED <<t_state, waitQueue, wq>>
  BY <1>4, QuietWait
<1>5. CASE UNCHANGED vars \/ LockSpin \/ Terminated
  BY <1>4, <1>5 DEF vars, tcbs, queues, LockSpin, Terminated
<1>6. CASE StubEnable \/ LockTake \/ DestroyFree
  BY <1>4, <1>6 DEF StubEnable, LockTake, DestroyFree, tcbs, queues
<1>7. CASE StubCheck \/ Resume
  BY <1>1, <1>4, <1>7 DEF StubCheck, Resume, queues
<1>8. CASE thread_create \/ thread_create_nomemory
  <2> DEFINE id == Head(availableThreadIds)
  <2>1. /\ UNCHANGED <<waitQueue, wq>>
        /\ t_state' = t_state \/ t_state' = [t_state EXCEPT ![id] = "READY"]
    BY <1>8 DEF thread_create, thread_create_nomemory
  <2> HIDE DEF id
  <2>2. \A t \in Tids : t_state'[t] = "NOT_ASSIGNED" => t_state[t] = "NOT_ASSIGNED"
    BY <2>1 DEF TypeOK
  <2> QED BY <2>1, <2>2 DEF WaitInv, WaitersHaveTarget
<1>9. CASE Preempt
  BY <1>1, <1>2, <1>9, YieldWait DEF Preempt, InterruptsOn
<1>10. CASE LockSleep
  BY <1>1, <1>2, <1>3, <1>10, YieldWait DEF LockSleep, Running
<1>11. CASE CvSleep
  BY <1>2, <1>3, <1>11, SleepWait DEF CvSleep, Running
<1>12. CASE \E want_tid \in Tids \cup {-1} : thread_yield(want_tid)
  BY <1>2, <1>12, YieldWait DEF thread_yield, Running
<1>13. CASE thread_exit
  BY <1>13, ExitWait DEF thread_exit, Running
<1>14. CASE \E tid \in Tids : thread_kill(tid)
  BY <1>14 DEF thread_kill
<1>15. CASE \E tid \in Tids : thread_wait(tid)
  BY <1>2, <1>15, SleepWait DEF thread_wait, Running, ValidTarget
<1>16. CASE \E q \in Queues : thread_sleep(q)
  BY <1>2, <1>3, <1>16, SleepWait DEF thread_sleep, Running
<1>17. CASE \E q \in WaitQueues, all \in BOOLEAN : Wakeup(q, all)
  BY <1>17, WakeupWait
<1>18. CASE \/ \E q \in Queues, all \in BOOLEAN : thread_wakeup(q, all)
            \/ \E c \in CVs, l \in Locks, all \in BOOLEAN : cv_wake(c, l, all)
  <2>1. \E q \in Objects, all \in BOOLEAN : Wakeup(q, all)
    BY <1>3, <1>18 DEF thread_wakeup, cv_wake
  <2> QED BY <1>2, <1>17, <2>1
<1>19. CASE \/ \E l \in Locks : lock_release(l)
            \/ \E c \in CVs, l \in Locks : cv_wait(c, l)
  <2>1. \E l \in Objects : Wakeup(l, TRUE)
    BY <1>3, <1>19 DEF lock_release, cv_wait, Release
  <2> QED BY <1>2, <1>17, <2>1
<1>20. CASE \/ \E l \in Locks : lock_acquire(l)
            \/ \E q \in Queues \cup CVs : wait_queue_destroy(q)
  BY <1>4, <1>20 DEF lock_acquire, wait_queue_destroy, tcbs, queues
<1>21. CASE DestroyPop \/ \E l \in Locks : lock_destroy(l)
  <2>1. /\ UNCHANGED tcbs
        /\ \E q \in Objects : \E s : wq' = [wq EXCEPT ![q] = s]
    BY <1>3, <1>21 DEF DestroyPop, lock_destroy
  <2>2. \A t \in Tids : wq'[t] = wq[t]
    BY <1>2, <2>1 DEF TypeOK
  <2> QED BY <2>1, <2>2, QuietWait DEF tcbs
<1> QED
  BY <1>5, <1>6, <1>7, <1>8, <1>9, <1>10, <1>11, <1>12, <1>13, <1>14, <1>15,
     <1>16, <1>18, <1>19, <1>20, <1>21 DEF Next, LibraryStep, ClientCall

\* Unless threads are killed, nobody is on the queue of a thread that is gone:
\* thread_wait checks its target and thread_exit wakes every waiter.
THEOREM WaitersWoken ==
  ASSUME "kill" \notin Uses
  PROVE  Spec => []WaitersHaveTarget
<1>1. Init => WaitInv
  BY DEF Init, WaitInv, WaitersHaveTarget, WaitQueues
<1>2. TypeOK /\ SchedInv /\ CalmInv /\ WaitInv /\ [Next]_vars => WaitInv'
  BY NextWait
<1>3. WaitInv => WaitersHaveTarget
  BY DEF WaitInv
<1> QED BY <1>1, <1>2, <1>3, CalmInvariant, PTL DEF Spec
=============================================================================
