--------------------------- MODULE UThreads_proofs ---------------------------
(***************************************************************************)
(* Theorems about UThreads, for every number of threads, wait queues, locks *)
(* and condition variables and every set of calls the client makes.         *)
(***************************************************************************)
EXTENDS UThreads, SeqFacts

\* The identifiers include that of the first thread.
LEMMA TidsFacts == /\ 0 \in Tids
                   /\ \A t \in Tids : t \in Nat /\ t # -1
BY MaxThreadsAssumption DEF Tids

\* The places the actions send a thread to.
LEMMA PlaceFacts ==
  /\ {Nowhere, AtStub, InWindow, InUser} \subseteq Places
  /\ \A l \in Locks : InLock(l) \in Places
  /\ \A c \in CVs, l \in Locks : InCv(c, l) \in Places
  /\ \A q \in Queues \cup CVs : InDestroy(q) \in Places
BY DEF Places, Place, Nowhere, AtStub, InWindow, InUser, InLock, InCv, InDestroy

\* freeTCBStacks yields a stack table again.
LEMMA StacksType ==
  ASSUME TypeOK, NEW st
  PROVE  freeTCBStacks(st) \in [Tids -> BOOLEAN]
BY DEF TypeOK, freeTCBStacks

\* thread_wakeup splits a wait queue in two queues.
LEMMA WokenType ==
  ASSUME TypeOK, NEW q \in WaitQueues, NEW all \in BOOLEAN
  PROVE  /\ Woken(q, all) \in Seq(Tids)
         /\ NotWoken(q, all) \in Seq(Tids)
<1>1. wq[q] \in Seq(Tids)
  BY DEF TypeOK
<1>2. Woken(q, all) \in Seq(Tids) /\ Len(Woken(q, all)) \in Nat
  BY <1>1 DEF Woken
<1>3. NotWoken(q, all) \in Seq(Tids)
  BY <1>1, <1>2 DEF NotWoken
<1> QED BY <1>2, <1>3

\* thread_exit preserves the types.
LEMMA ExitType ==
  ASSUME TypeOK, NEW ready \in Seq(Tids), NEW stacks \in [Tids -> BOOLEAN],
         ThreadExit(ready, stacks)
  PROVE  TypeOK'
<1> DEFINE rest == ready \o Woken(self, TRUE)
<1>0. self \in Tids /\ self \in WaitQueues
  BY DEF TypeOK, self, WaitQueues
<1>1. Woken(self, TRUE) \in Seq(Tids) /\ NotWoken(self, TRUE) \in Seq(Tids)
  BY <1>0, WokenType
<1>2. rest \in Seq(Tids)
  BY <1>1, ConcatFacts
<1> HIDE DEF rest
<1>3. rest # <<>> => Head(rest) \in Tids /\ Tail(rest) \in Seq(Tids)
  BY <1>2, HeadTailFacts
<1>4. wq' \in [WaitQueues -> Seq(Tids)]
  BY <1>0, <1>1 DEF ThreadExit, TypeOK
<1>a. availableThreadIds' \in Seq(Tids)
  BY <1>0, SingletonFacts, ConcatFacts DEF ThreadExit, TypeOK, addToHeadId
<1>5. /\ readyQueue' \in Seq(Tids)
      /\ current_thread_id' \in Tids
      /\ exited' \in BOOLEAN
  <2>1. \/ rest = <<>> /\ exited' = TRUE /\ readyQueue' = <<>> /\ UNCHANGED current_thread_id
        \/ /\ rest # <<>> /\ current_thread_id' = Head(rest) /\ readyQueue' = Tail(rest)
           /\ UNCHANGED exited
    BY DEF ThreadExit, rest
  <2> QED BY <2>1, <1>3, EmptySeq DEF TypeOK
<1>6. t_state' \in [Tids -> {"NOT_ASSIGNED", "READY", "RUNNING"}]
  BY <1>0, <1>3 DEF ThreadExit, TypeOK, rest
<1>7. stack_to_free' \in [Tids -> BOOLEAN]
  BY StacksType DEF ThreadExit
<1>8. /\ killOnNextRun' \in [Tids -> BOOLEAN]
      /\ waitQueue' \in [Tids -> WaitQueues \cup {NULL}]
      /\ pc' \in [Tids -> Places]
      /\ inYield' \in [Tids -> BOOLEAN]
      /\ holds' \in [Tids -> SUBSET Locks]
      /\ awaits' \in [Tids -> Tids \cup CVs \cup {NULL}]
      /\ UNCHANGED <<setcontext_called, acquiredBy, alive>>
  BY <1>0, PlaceFacts DEF ThreadExit, TypeOK
<1> QED BY <1>4, <1>a, <1>5, <1>6, <1>7, <1>8 DEF TypeOK

\* thread_yield preserves the types.
LEMMA YieldType ==
  ASSUME TypeOK, NEW i \in DOMAIN readyQueue, NEW q \in WaitQueues \cup {NULL},
         NEW ret \in Places, Yield(i, q, ret)
  PROVE  TypeOK'
<1> DEFINE rest == Without(readyQueue, i)
           dest == IF q = NULL THEN waitQueue[self] ELSE q
<1>1. /\ self \in Tids
      /\ i \in 1 .. Len(readyQueue)
      /\ readyQueue \in Seq(Tids)
      /\ readyQueue[i] \in Tids
  BY DEF TypeOK, self
<1>2. rest \in Seq(Tids)
  BY <1>1 DEF Without, RemoveAt
<1>3. dest \in WaitQueues \cup {NULL}
  BY <1>1 DEF TypeOK
<1>4. AwaitsAfter(q) \in [Tids -> Tids \cup CVs \cup {NULL}]
  BY <1>1 DEF AwaitsAfter, TypeOK
<1> HIDE DEF rest, dest
<1>5. CASE killOnNextRun[self] /\ ThreadExit(rest, freeTCBStacks(t_state))
  BY <1>2, <1>5, ExitType, StacksType
<1>6. CASE SkipSwitch(i, q, ret)
  <2>1. readyQueue' \in Seq(Tids)
    BY <1>2, <1>6 DEF SkipSwitch, rest
  <2>2. /\ waitQueue' \in [Tids -> WaitQueues \cup {NULL}]
        /\ setcontext_called' \in [Tids -> BOOLEAN]
        /\ pc' \in [Tids -> Places]
    BY <1>1, <1>6 DEF SkipSwitch, TypeOK, FlagsAfterResume
  <2>3. stack_to_free' \in [Tids -> BOOLEAN] /\ awaits' \in [Tids -> Tids \cup CVs \cup {NULL}]
    BY <1>4, <1>6, StacksType DEF SkipSwitch
  <2> QED BY <1>6, <2>1, <2>2, <2>3 DEF SkipSwitch, TypeOK
<1>7. CASE Switch(i, q, ret)
  <2>1. readyQueue' \in Seq(Tids) /\ wq' \in [WaitQueues -> Seq(Tids)]
    <3>1. Enqueue(rest, dest)
      BY <1>7 DEF Switch, rest, dest
    <3>2. CASE dest = NULL
      <4>1. Append(rest, self) \in Seq(Tids)
        BY <1>1, <1>2, AppendFacts
      <4> QED BY <3>1, <3>2, <4>1 DEF Enqueue, TypeOK
    <3>3. CASE dest # NULL
      <4>1. Append(wq[dest], self) \in Seq(Tids)
        BY <1>1, <1>3, <3>3, AppendFacts DEF TypeOK
      <4> QED BY <1>2, <1>3, <3>1, <3>3, <4>1 DEF Enqueue, TypeOK
    <3> QED BY <3>2, <3>3
  <2>2. /\ t_state' \in [Tids -> {"NOT_ASSIGNED", "READY", "RUNNING"}]
        /\ waitQueue' \in [Tids -> WaitQueues \cup {NULL}]
        /\ current_thread_id' \in Tids
        /\ setcontext_called' \in [Tids -> BOOLEAN]
        /\ pc' \in [Tids -> Places]
        /\ inYield' \in [Tids -> BOOLEAN]
    BY <1>1, <1>7 DEF Switch, TypeOK, StatesAfterSwitch, FlagsAfterSwitch
  <2>3. stack_to_free' \in [Tids -> BOOLEAN] /\ awaits' \in [Tids -> Tids \cup CVs \cup {NULL}]
    BY <1>4, <1>7, StacksType DEF Switch
  <2> QED BY <1>7, <2>1, <2>2, <2>3 DEF Switch, TypeOK
<1> QED BY <1>5, <1>6, <1>7 DEF Yield, rest

\* thread_sleep preserves the types.
LEMMA SleepType ==
  ASSUME TypeOK, NEW q \in WaitQueues, NEW ret \in Places, Sleep(q, ret)
  PROVE  TypeOK'
<1>1. CASE readyQueue # <<>> /\ Yield(1, q, ret)
  <2>1. 1 \in DOMAIN readyQueue
    BY <1>1 DEF TypeOK
  <2> QED BY <1>1, <2>1, YieldType
<1>2. CASE ~(readyQueue # <<>> /\ Yield(1, q, ret))
  <2>1. pc' \in [Tids -> Places]
    BY <1>2 DEF Sleep, TypeOK, self
  <2>2. awaits' \in [Tids -> Tids \cup CVs \cup {NULL}]
    BY <1>2 DEF Sleep, TypeOK, self, AwaitsAfter
  <2> QED BY <1>2, <2>1, <2>2 DEF Sleep, TypeOK, tcbs, queues
<1> QED BY <1>1, <1>2

\* thread_wakeup preserves the types of what it changes.
LEMMA WakeupType ==
  ASSUME TypeOK, NEW q \in WaitQueues, NEW all \in BOOLEAN, Wakeup(q, all)
  PROVE  /\ readyQueue' \in Seq(Tids)
         /\ wq' \in [WaitQueues -> Seq(Tids)]
         /\ awaits' \in [Tids -> Tids \cup CVs \cup {NULL}]
<1>1. Woken(q, all) \in Seq(Tids) /\ NotWoken(q, all) \in Seq(Tids)
  BY WokenType
<1>2. readyQueue' \in Seq(Tids)
  BY <1>1, ConcatFacts DEF Wakeup, TypeOK
<1>3. wq' \in [WaitQueues -> Seq(Tids)]
  BY <1>1 DEF Wakeup, TypeOK
<1>4. awaits' \in [Tids -> Tids \cup CVs \cup {NULL}]
  BY DEF Wakeup, TypeOK
<1> QED BY <1>2, <1>3, <1>4

\* lock_release preserves the types.
LEMMA ReleaseType ==
  ASSUME TypeOK, NEW l \in Locks, NEW ret \in Places, Release(l, ret)
  PROVE  TypeOK'
<1>1. Wakeup(l, TRUE) /\ l \in WaitQueues
  BY DEF Release, WaitQueues, Objects
<1>2. /\ readyQueue' \in Seq(Tids)
      /\ wq' \in [WaitQueues -> Seq(Tids)]
      /\ awaits' \in [Tids -> Tids \cup CVs \cup {NULL}]
  BY <1>1, WakeupType
<1>3. /\ acquiredBy' \in [Locks -> Tids \cup {-1}]
      /\ holds' \in [Tids -> SUBSET Locks]
      /\ pc' \in [Tids -> Places]
  BY DEF Release, TypeOK, Freed, self
<1> QED BY <1>1, <1>2, <1>3 DEF Release, Wakeup, TypeOK, tcbs

\* A step that changes neither queues nor TCBs, or only one field of a TCB,
\* preserves the types.
LEMMA SimpleStepType ==
  ASSUME TypeOK,
         \/ StubEnable \/ LockTake \/ DestroyPop \/ DestroyFree
         \/ thread_create \/ thread_create_nomemory
         \/ (\E tid \in Tids : thread_kill(tid))
         \/ (\E l \in Locks : lock_acquire(l) \/ lock_destroy(l))
         \/ (\E q \in Queues \cup CVs : wait_queue_destroy(q))
  PROVE  TypeOK'
<1>0. self \in Tids
  BY DEF TypeOK, self
<1>1. CASE StubEnable
  BY <1>0, <1>1, PlaceFacts DEF StubEnable, TypeOK, tcbs, queues
<1>2. CASE LockTake
  BY <1>0, <1>2, PlaceFacts DEF LockTake, TypeOK, tcbs, queues
<1>3. CASE DestroyPop
  <2>1. PICK q \in Queues \cup CVs :
           wq[q] # <<>> /\ wq' = [wq EXCEPT ![q] = Tail(@)]
    BY <1>3 DEF DestroyPop
  <2>2. q \in WaitQueues /\ Tail(wq[q]) \in Seq(Tids)
    BY <2>1, HeadTailFacts DEF WaitQueues, Objects, TypeOK
  <2>3. wq' \in [WaitQueues -> Seq(Tids)]
    BY <2>1, <2>2 DEF TypeOK
  <2> QED BY <1>3, <2>3 DEF DestroyPop, TypeOK, tcbs
<1>4. CASE DestroyFree
  BY <1>0, <1>4, PlaceFacts DEF DestroyFree, TypeOK, tcbs, queues
<1>5. CASE thread_create
  <2> DEFINE id == Head(availableThreadIds)
  <2>1. id \in Tids /\ Tail(availableThreadIds) \in Seq(Tids)
    BY <1>5, HeadTailFacts DEF thread_create, TypeOK
  <2>2. Append(readyQueue, id) \in Seq(Tids)
    BY <2>1, AppendFacts DEF TypeOK
  <2> HIDE DEF id
  <2>3. /\ availableThreadIds' \in Seq(Tids)
        /\ readyQueue' \in Seq(Tids)
    BY <1>5, <2>1, <2>2 DEF thread_create, removeFromHead, id
  <2>4. /\ t_state' \in [Tids -> {"NOT_ASSIGNED", "READY", "RUNNING"}]
        /\ stack_to_free' \in [Tids -> BOOLEAN]
        /\ pc' \in [Tids -> Places]
    BY <1>5, <2>1, PlaceFacts DEF thread_create, TypeOK, id
  <2> QED BY <1>5, <2>3, <2>4 DEF thread_create, TypeOK
<1>6. CASE thread_create_nomemory
  <2>1. /\ Head(availableThreadIds) \in Tids
        /\ availableThreadIds' \in Seq(Tids)
    BY <1>6, HeadTailFacts DEF thread_create_nomemory, TypeOK, removeFromHead
  <2>2. stack_to_free' \in [Tids -> BOOLEAN]
    BY <1>6, <2>1 DEF thread_create_nomemory, TypeOK
  <2> QED BY <1>6, <2>1, <2>2 DEF thread_create_nomemory, TypeOK
<1>7. CASE \E tid \in Tids : thread_kill(tid)
  BY <1>7 DEF thread_kill, TypeOK, queues
<1>8. CASE \E l \in Locks : lock_acquire(l)
  BY <1>0, <1>8, PlaceFacts DEF lock_acquire, TypeOK, tcbs, queues
<1>9. CASE \E l \in Locks : lock_destroy(l)
  <2>1. PICK l \in Locks : wq' = [wq EXCEPT ![l] = <<>>] /\ alive' = alive \ {l}
    BY <1>9 DEF lock_destroy
  <2>2. wq' \in [WaitQueues -> Seq(Tids)]
    BY <2>1, EmptySeq DEF TypeOK
  <2> QED BY <1>9, <2>1, <2>2 DEF lock_destroy, TypeOK, tcbs
<1>10. CASE \E q \in Queues \cup CVs : wait_queue_destroy(q)
  BY <1>0, <1>10, PlaceFacts DEF wait_queue_destroy, TypeOK, tcbs, queues
<1> QED BY <1>1, <1>2, <1>3, <1>4, <1>5, <1>6, <1>7, <1>8, <1>9, <1>10

\* Every step preserves the types.
LEMMA NextType ==
  ASSUME TypeOK, [Next]_vars
  PROVE  TypeOK'
<1>0. /\ self \in Tids
      /\ readyQueue \in Seq(Tids)
      /\ readyQueue # <<>> => 1 \in DOMAIN readyQueue
      /\ freeTCBStacks(t_state) \in [Tids -> BOOLEAN]
      /\ stack_to_free \in [Tids -> BOOLEAN]
      /\ Queues \cup Locks \cup CVs \cup Tids \subseteq WaitQueues
  BY StacksType DEF TypeOK, self, WaitQueues, Objects
<1>1. CASE UNCHANGED vars
  BY <1>1 DEF vars, tcbs, queues, TypeOK
<1>2. CASE StubCheck
  <2>1. CASE ThreadExit(readyQueue, freeTCBStacks(t_state))
    BY <1>0, <2>1, ExitType
  <2>2. CASE ~ThreadExit(readyQueue, freeTCBStacks(t_state))
    BY <1>0, <1>2, <2>2, PlaceFacts DEF StubCheck, TypeOK, queues
  <2> QED BY <2>1, <2>2
<1>3. CASE Resume
  <2>1. CASE ThreadExit(readyQueue, freeTCBStacks(t_state))
    BY <1>0, <2>1, ExitType
  <2>2. CASE ~ThreadExit(readyQueue, freeTCBStacks(t_state))
    BY <1>0, <1>3, <2>2 DEF Resume, TypeOK, queues, FlagsAfterResume
  <2> QED BY <2>1, <2>2
<1>4. CASE Preempt
  <2>1. Yield(1, NULL, pc[self]) /\ pc[self] \in Places /\ readyQueue # <<>>
    BY <1>0, <1>4 DEF Preempt, TypeOK
  <2> QED BY <1>0, <2>1, YieldType
<1>5. CASE LockSleep
  BY <1>0, <1>5, YieldType, PlaceFacts DEF LockSleep
<1>6. CASE CvSleep
  BY <1>0, <1>6, SleepType, PlaceFacts DEF CvSleep
<1>7. ASSUME NEW want_tid \in Tids \cup {-1}, thread_yield(want_tid)
      PROVE  TypeOK'
  <2>1. PICK i \in DOMAIN readyQueue : Yield(i, NULL, InUser)
    BY <1>7 DEF thread_yield
  <2> QED BY <2>1, YieldType, PlaceFacts
<1>8. CASE thread_exit
  BY <1>0, <1>8, ExitType DEF thread_exit
<1>9. ASSUME NEW tid \in Tids, thread_wait(tid)
      PROVE  TypeOK'
  BY <1>0, <1>9, SleepType, PlaceFacts DEF thread_wait
<1>10. ASSUME NEW q \in Queues, thread_sleep(q)
       PROVE  TypeOK'
  BY <1>0, <1>10, SleepType, PlaceFacts DEF thread_sleep
<1>11. ASSUME NEW q \in Queues, NEW all \in BOOLEAN, thread_wakeup(q, all)
       PROVE  TypeOK'
  <2>1. Wakeup(q, all) /\ q \in WaitQueues
    BY <1>0, <1>11 DEF thread_wakeup
  <2> QED BY <1>11, <2>1, WakeupType DEF thread_wakeup, Wakeup, TypeOK, tcbs
<1>12. ASSUME NEW l \in Locks, lock_release(l)
       PROVE  TypeOK'
  BY <1>12, ReleaseType, PlaceFacts DEF lock_release
<1>13. ASSUME NEW c \in CVs, NEW l \in Locks, cv_wait(c, l)
       PROVE  TypeOK'
  BY <1>13, ReleaseType, PlaceFacts DEF cv_wait
<1>14. ASSUME NEW c \in CVs, NEW l \in Locks, NEW all \in BOOLEAN, cv_wake(c, l, all)
       PROVE  TypeOK'
  <2>1. Wakeup(c, all) /\ c \in WaitQueues
    BY <1>0, <1>14 DEF cv_wake
  <2> QED BY <1>14, <2>1, WakeupType DEF cv_wake, Wakeup, TypeOK, tcbs
<1>15. CASE LockSpin \/ Terminated
  BY <1>1, <1>15 DEF LockSpin, Terminated
<1> QED
  BY <1>1, <1>2, <1>3, <1>4, <1>5, <1>6, <1>7, <1>8, <1>9, <1>10, <1>11, <1>12,
     <1>13, <1>14, <1>15, SimpleStepType DEF Next, LibraryStep, ClientCall

\* The initial state of thread_init has the right types.
LEMMA InitType == Init => TypeOK
<1> SUFFICES ASSUME Init PROVE TypeOK
  OBVIOUS
<1>1. /\ readyQueue \in Seq(Tids)
      /\ wq \in [WaitQueues -> Seq(Tids)]
  BY EmptySeq DEF Init
<1>2. availableThreadIds \in Seq(Tids)
  <2>1. \A i \in 1 .. MaxThreads - 1 : i \in Tids
    BY MaxThreadsAssumption DEF Tids
  <2>2. [i \in 1 .. MaxThreads - 1 |-> i] \in Seq(Tids)
    BY <2>1, MaxThreadsAssumption
  <2> QED BY <2>2 DEF Init
<1>3. pc \in [Tids -> Places]
  BY PlaceFacts DEF Init
<1> QED BY <1>1, <1>2, <1>3, TidsFacts DEF Init, TypeOK

\* The library's variables always have the types TypeOK gives them: no call
\* stores a thread identifier or a queue that does not exist.
THEOREM TypeCorrect == Spec => []TypeOK
<1>1. TypeOK /\ [Next]_vars => TypeOK'
  BY NextType
<1> QED BY <1>1, InitType, PTL DEF Spec
=============================================================================
