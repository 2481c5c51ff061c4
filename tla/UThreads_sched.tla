------------------------- MODULE UThreads_sched -------------------------
(***************************************************************************)
(* The consistency of the scheduler's data (SchedInv of UThreads), proved    *)
(* for any number of threads, queues, locks and condition variables and for  *)
(* every subset of the calls.                                                *)
(***************************************************************************)
EXTENDS UThreads_proofs

-----------------------------------------------------------------------------
(* The scheduler's data: SchedInv.  Each lemma treats one way of changing    *)
(* the queues; it computes the ranges of the new queues and then checks the  *)
(* conjuncts.                                                                *)

\* The running thread is in no queue and its identifier is not free.
LEMMA SelfNotQueued ==
  ASSUME TypeOK, SchedInv, ~exited
  PROVE  /\ self \in Tids /\ self \in WaitQueues
         /\ t_state[self] = "RUNNING"
         /\ self \notin Range(readyQueue)
         /\ \A q \in WaitQueues : self \notin Range(wq[q])
         /\ self \notin Range(availableThreadIds)
<1>1. self \in Tids /\ self \in WaitQueues
  BY DEF TypeOK, self, WaitQueues
<1>2. t_state[self] = "RUNNING"
  BY DEF SchedInv, OneRunning
<1>3. ~Queued(self)
  BY <1>1, <1>2 DEF SchedInv, QueuedAtMostOnce
<1>4. self \notin Range(availableThreadIds)
  BY <1>2 DEF SchedInv, FreeIdsUnused
<1> QED BY <1>1, <1>2, <1>3, <1>4 DEF Queued

\* Queues that keep their entries, with the thread states, keep SchedInv.
LEMMA SameQueuesSched ==
  ASSUME TypeOK, SchedInv, UNCHANGED <<t_state, queues, current_thread_id, exited>>
  PROVE  SchedInv'
BY DEF SchedInv, QueuedAtMostOnce, OneRunning, FreeIdsUnused, Queued, queues, self

\* thread_yield that switches: the current thread goes to the end of one queue,
\* the next thread leaves the ready queue and becomes the running one.
LEMMA SwitchSched ==
  ASSUME TypeOK, SchedInv, ~exited, NEW i \in DOMAIN readyQueue,
         NEW q \in WaitQueues \cup {NULL}, NEW ret, Switch(i, q, ret)
  PROVE  SchedInv'
<1> DEFINE next == readyQueue[i]
           rest == Without(readyQueue, i)
           dest == IF q = NULL THEN waitQueue[self] ELSE q
<1>1. /\ self \in Tids
      /\ t_state[self] = "RUNNING"
      /\ self \notin Range(readyQueue)
      /\ \A p \in WaitQueues : self \notin Range(wq[p])
      /\ self \notin Range(availableThreadIds)
  BY SelfNotQueued
<1>2. /\ readyQueue \in Seq(Tids) /\ IsInjective(readyQueue)
      /\ i \in 1 .. Len(readyQueue)
      /\ \A p \in WaitQueues : wq[p] \in Seq(Tids) /\ IsInjective(wq[p])
  BY DEF TypeOK, SchedInv, QueuedAtMostOnce
<1>3. /\ rest \in Seq(Tids) /\ IsInjective(rest)
      /\ Range(rest) = Range(readyQueue) \ {next}
  BY <1>2, RemoveAtFacts DEF Without
<1>4. /\ next \in Range(readyQueue) /\ next \in Tids
      /\ t_state[next] = "READY" /\ next # self
      /\ \A p \in WaitQueues : next \notin Range(wq[p])
  <2>1. next \in Range(readyQueue) /\ next \in Tids
    BY <1>2, RangeFacts
  <2> QED BY <1>1, <2>1 DEF SchedInv, QueuedAtMostOnce, Queued
<1>5. dest \in WaitQueues \cup {NULL}
  BY <1>1 DEF TypeOK
<1> HIDE DEF next, rest, dest
<1>6. /\ Enqueue(rest, dest)
      /\ t_state' = [t_state EXCEPT ![self] = "READY", ![next] = "RUNNING"]
      /\ current_thread_id' = next
      /\ UNCHANGED <<availableThreadIds, exited>>
  BY DEF Switch, StatesAfterSwitch, next, rest, dest
<1>7. /\ IsInjective(readyQueue')
      /\ \A t : t \in Range(readyQueue') <=> t \in Range(rest) \/ (dest = NULL /\ t = self)
  <2>1. /\ IsInjective(Append(rest, self))
        /\ Range(Append(rest, self)) = Range(rest) \cup {self}
    BY <1>1, <1>3, AppendFacts
  <2>2. readyQueue' = IF dest = NULL THEN Append(rest, self) ELSE rest
    BY <1>6 DEF Enqueue
  <2>3. CASE dest = NULL
    BY <2>1, <2>2, <2>3
  <2>4. CASE dest # NULL
    BY <1>3, <2>2, <2>4
  <2> QED BY <2>3, <2>4
<1>8. \A p \in WaitQueues :
        /\ IsInjective(wq'[p])
        /\ \A t : t \in Range(wq'[p]) <=> t \in Range(wq[p]) \/ (p = dest /\ t = self)
  <2>1. CASE dest = NULL
    BY <1>2, <1>6, <2>1, NullAssumption DEF Enqueue
  <2>2. CASE dest # NULL
    <3>1. /\ IsInjective(Append(wq[dest], self))
          /\ Range(Append(wq[dest], self)) = Range(wq[dest]) \cup {self}
      BY <1>1, <1>2, <1>5, <2>2, AppendFacts
    <3>2. wq' = [wq EXCEPT ![dest] = Append(wq[dest], self)]
      BY <1>6, <2>2 DEF Enqueue
    <3> QED BY <1>2, <3>1, <3>2 DEF TypeOK
  <2> QED BY <2>1, <2>2
<1>9. \A t \in Tids : t_state'[t] = IF t = next THEN "RUNNING"
                                    ELSE IF t = self THEN "READY" ELSE t_state[t]
  BY <1>1, <1>4, <1>6 DEF TypeOK
<1>10. QueuedAtMostOnce'
  <2>1. ASSUME NEW p \in WaitQueues, NEW t
        PROVE  ~(t \in Range(readyQueue') /\ t \in Range(wq'[p]))
    <3>1. ~(t \in Range(rest) /\ t \in Range(wq[p]))
      BY <1>3 DEF SchedInv, QueuedAtMostOnce
    <3>2. self \notin Range(rest)
      BY <1>1, <1>3
    <3>3. p # NULL
      BY NullAssumption
    <3> QED BY <1>1, <1>7, <1>8, <3>1, <3>2, <3>3
  <2>2. ASSUME NEW p \in WaitQueues, NEW r \in WaitQueues, p # r, NEW t
        PROVE  ~(t \in Range(wq'[p]) /\ t \in Range(wq'[r]))
    <3>1. ~(t \in Range(wq[p]) /\ t \in Range(wq[r]))
      BY <2>2 DEF SchedInv, QueuedAtMostOnce
    <3> QED BY <1>1, <1>8, <2>2, <3>1
  <2>3. ASSUME NEW t \in Tids, Queued(t)' PROVE t_state'[t] = "READY"
    <3>1. t # next
      <4>1. next \notin Range(readyQueue')
        BY <1>3, <1>4, <1>7
      <4>2. \A p \in WaitQueues : next \notin Range(wq'[p])
        BY <1>4, <1>8
      <4> QED BY <2>3, <4>1, <4>2 DEF Queued
    <3>2. t = self \/ Queued(t)
      BY <1>3, <1>7, <1>8, <2>3 DEF Queued
    <3> QED BY <1>9, <3>1, <3>2 DEF SchedInv, QueuedAtMostOnce
  <2> QED BY <1>7, <1>8, <2>1, <2>2, <2>3 DEF QueuedAtMostOnce
<1>11. OneRunning'
  BY <1>1, <1>4, <1>6, <1>9 DEF SchedInv, OneRunning, self
<1>12. FreeIdsUnused'
  <2>1. \A t \in Range(availableThreadIds) : t \in Tids /\ t_state[t] = "NOT_ASSIGNED"
    BY RangeFacts DEF SchedInv, FreeIdsUnused, TypeOK
  <2>2. \A t \in Range(availableThreadIds) : t # next /\ t # self
    BY <1>1, <1>4, <2>1
  <2> QED BY <1>6, <1>9, <2>1, <2>2 DEF SchedInv, FreeIdsUnused
<1> QED BY <1>10, <1>11, <1>12 DEF SchedInv

\* Queues that only lose entries keep SchedInv.
LEMMA ShrinkSched ==
  ASSUME TypeOK, SchedInv,
         IsInjective(readyQueue'), Range(readyQueue') \subseteq Range(readyQueue),
         \A q \in WaitQueues : IsInjective(wq'[q]) /\ Range(wq'[q]) \subseteq Range(wq[q]),
         UNCHANGED <<t_state, availableThreadIds, current_thread_id, exited>>
  PROVE  SchedInv'
<1>1. \A t \in Tids : Queued(t)' => Queued(t)
  BY DEF Queued
<1>2. \A q \in WaitQueues : Range(readyQueue') \cap Range(wq'[q]) = {}
  BY DEF SchedInv, QueuedAtMostOnce
<1>3. ASSUME NEW p \in WaitQueues, NEW q \in WaitQueues, p # q
      PROVE  Range(wq'[p]) \cap Range(wq'[q]) = {}
  <2>1. Range(wq[p]) \cap Range(wq[q]) = {}
    BY <1>3 DEF SchedInv, QueuedAtMostOnce
  <2> QED BY <2>1
<1>4. QueuedAtMostOnce'
  BY <1>1, <1>2, <1>3 DEF SchedInv, QueuedAtMostOnce
<1> QED BY <1>4 DEF SchedInv, OneRunning, FreeIdsUnused, self

\* thread_yield with setcontext_called set only unlinks a ready thread.
LEMMA SkipSched ==
  ASSUME TypeOK, SchedInv, NEW i \in DOMAIN readyQueue, NEW q, NEW ret,
         SkipSwitch(i, q, ret)
  PROVE  SchedInv'
<1>1. /\ IsInjective(readyQueue') /\ Range(readyQueue') \subseteq Range(readyQueue)
  BY RemoveAtFacts DEF SkipSwitch, Without, TypeOK, SchedInv, QueuedAtMostOnce
<1>2. \A p \in WaitQueues : IsInjective(wq'[p]) /\ Range(wq'[p]) \subseteq Range(wq[p])
  BY DEF SkipSwitch, SchedInv, QueuedAtMostOnce
<1> QED BY <1>1, <1>2, ShrinkSched DEF SkipSwitch

\* wait_queue_destroy and lock_destroy only discard entries.
LEMMA DiscardSched ==
  ASSUME TypeOK, SchedInv, NEW q \in WaitQueues,
         \/ wq[q] # <<>> /\ wq' = [wq EXCEPT ![q] = Tail(@)]
         \/ wq' = [wq EXCEPT ![q] = <<>>],
         UNCHANGED <<t_state, availableThreadIds, readyQueue, current_thread_id, exited>>
  PROVE  SchedInv'
<1>1. wq[q] \in Seq(Tids) /\ IsInjective(wq[q])
  BY DEF TypeOK, SchedInv, QueuedAtMostOnce
<1>2. wq[q] # <<>> => IsInjective(Tail(wq[q])) /\ Range(Tail(wq[q])) \subseteq Range(wq[q])
  BY <1>1, HeadTailFacts
<1>3. ASSUME NEW p \in WaitQueues
      PROVE  IsInjective(wq'[p]) /\ Range(wq'[p]) \subseteq Range(wq[p])
  <2>1. CASE p = q
    <3>1. \/ wq[q] # <<>> /\ wq'[q] = Tail(wq[q])
          \/ wq'[q] = <<>>
      BY DEF TypeOK
    <3> QED BY <1>2, <2>1, <3>1, EmptyFacts
  <2>2. CASE p # q
    BY <2>2 DEF TypeOK, SchedInv, QueuedAtMostOnce
  <2> QED BY <2>1, <2>2
<1>4. IsInjective(readyQueue') /\ Range(readyQueue') \subseteq Range(readyQueue)
  BY DEF SchedInv, QueuedAtMostOnce
<1> QED BY <1>3, <1>4, ShrinkSched

\* thread_wakeup splits the wait queue: what it takes and what it leaves.
LEMMA WokenFacts ==
  ASSUME TypeOK, SchedInv, NEW q \in WaitQueues, NEW all \in BOOLEAN
  PROVE  /\ Woken(q, all) \in Seq(Tids) /\ IsInjective(Woken(q, all))
         /\ NotWoken(q, all) \in Seq(Tids) /\ IsInjective(NotWoken(q, all))
         /\ \A t : t \in Range(wq[q]) <=> \/ t \in Range(Woken(q, all))
                                          \/ t \in Range(NotWoken(q, all))
         /\ \A t : ~(t \in Range(Woken(q, all)) /\ t \in Range(NotWoken(q, all)))
<1>1. wq[q] \in Seq(Tids) /\ IsInjective(wq[q])
  BY DEF TypeOK, SchedInv, QueuedAtMostOnce
<1>2. CASE all \/ wq[q] = <<>>
  <2>1. Woken(q, all) = wq[q]
    BY <1>2 DEF Woken
  <2>2. NotWoken(q, all) = <<>>
    BY <1>1, <2>1 DEF NotWoken
  <2> QED BY <1>1, <2>1, <2>2, EmptyFacts, EmptySeq
<1>3. CASE ~(all \/ wq[q] = <<>>)
  <2>1. Woken(q, all) = <<Head(wq[q])>>
    BY <1>3 DEF Woken
  <2>2. Len(Woken(q, all)) = 1
    BY <2>1
  <2>3. NotWoken(q, all) = Tail(wq[q])
    BY <1>1, <1>3, <2>2 DEF NotWoken
  <2>4. /\ Head(wq[q]) \in Tids /\ Tail(wq[q]) \in Seq(Tids)
        /\ Range(wq[q]) = Range(Tail(wq[q])) \cup {Head(wq[q])}
        /\ IsInjective(Tail(wq[q])) /\ Head(wq[q]) \notin Range(Tail(wq[q]))
    BY <1>1, <1>3, HeadTailFacts
  <2>5. /\ <<Head(wq[q])>> \in Seq(Tids) /\ IsInjective(<<Head(wq[q])>>)
        /\ Range(<<Head(wq[q])>>) = {Head(wq[q])}
    BY <2>4, SingletonFacts
  <2> QED BY <2>1, <2>3, <2>4, <2>5
<1> QED BY <1>2, <1>3

\* thread_wakeup moves entries from a wait queue to the ready queue.
LEMMA WakeupSched ==
  ASSUME TypeOK, SchedInv, NEW q \in WaitQueues, NEW all \in BOOLEAN, Wakeup(q, all)
  PROVE  SchedInv'
<1> DEFINE woken == Woken(q, all)
           left == NotWoken(q, all)
<1>1. /\ woken \in Seq(Tids) /\ IsInjective(woken) /\ IsInjective(left)
      /\ \A t : t \in Range(wq[q]) <=> t \in Range(woken) \/ t \in Range(left)
      /\ \A t : ~(t \in Range(woken) /\ t \in Range(left))
  BY WokenFacts
<1>2. /\ readyQueue' = readyQueue \o woken
      /\ wq' = [wq EXCEPT ![q] = left]
      /\ UNCHANGED <<t_state, availableThreadIds, current_thread_id, exited>>
  BY DEF Wakeup, tcbs
<1> HIDE DEF woken, left
<1>3. /\ readyQueue \in Seq(Tids) /\ IsInjective(readyQueue)
      /\ \A p \in WaitQueues : IsInjective(wq[p])
      /\ \A p \in WaitQueues : \A t : ~(t \in Range(readyQueue) /\ t \in Range(wq[p]))
  BY DEF TypeOK, SchedInv, QueuedAtMostOnce
<1>4. /\ IsInjective(readyQueue')
      /\ \A t : t \in Range(readyQueue') <=> t \in Range(readyQueue) \/ t \in Range(woken)
  <2>1. Range(readyQueue) \cap Range(woken) = {}
    BY <1>1, <1>3
  <2>2. /\ IsInjective(readyQueue \o woken)
        /\ Range(readyQueue \o woken) = Range(readyQueue) \cup Range(woken)
    BY <1>1, <1>3, <2>1, ConcatFacts
  <2> QED BY <1>2, <2>2
<1>5. /\ wq'[q] = left
      /\ \A p \in WaitQueues : p # q => wq'[p] = wq[p]
  BY <1>2 DEF TypeOK
<1>6. QueuedAtMostOnce'
  <2>1. ASSUME NEW p \in WaitQueues
        PROVE  IsInjective(wq'[p]) /\ \A t : t \in Range(wq'[p]) => t \in Range(wq[p])
    BY <1>1, <1>3, <1>5
  <2>2. ASSUME NEW p \in WaitQueues, NEW t
        PROVE  ~(t \in Range(readyQueue') /\ t \in Range(wq'[p]))
    <3>1. CASE p = q
      BY <1>1, <1>3, <1>4, <1>5, <3>1
    <3>2. CASE p # q
      <4>1. ~(t \in Range(wq[p]) /\ t \in Range(wq[q]))
        BY <3>2 DEF SchedInv, QueuedAtMostOnce
      <4> QED BY <1>1, <1>3, <1>4, <1>5, <3>2, <4>1
    <3> QED BY <3>1, <3>2
  <2>3. ASSUME NEW p \in WaitQueues, NEW r \in WaitQueues, p # r, NEW t
        PROVE  ~(t \in Range(wq'[p]) /\ t \in Range(wq'[r]))
    <3>1. ~(t \in Range(wq[p]) /\ t \in Range(wq[r]))
      BY <2>3 DEF SchedInv, QueuedAtMostOnce
    <3> QED BY <2>1, <3>1
  <2>4. ASSUME NEW t \in Tids, Queued(t)' PROVE t_state'[t] = "READY"
    <3>1. Queued(t)
      BY <1>1, <1>4, <2>1, <2>4 DEF Queued
    <3> QED BY <1>2, <3>1 DEF SchedInv, QueuedAtMostOnce
  <2> QED BY <1>4, <2>1, <2>2, <2>3, <2>4 DEF QueuedAtMostOnce
<1> QED BY <1>2, <1>6 DEF SchedInv, OneRunning, FreeIdsUnused, self

\* thread_create moves an identifier from the free list to the ready queue;
\* without memory for a stack it only takes it off the list.
LEMMA CreateSched ==
  ASSUME TypeOK, SchedInv, thread_create \/ thread_create_nomemory
  PROVE  SchedInv'
<1> DEFINE id == Head(availableThreadIds)
<1>1. /\ availableThreadIds \in Seq(Tids) /\ IsInjective(availableThreadIds)
      /\ availableThreadIds # <<>>
      /\ \A t \in Range(availableThreadIds) : t_state[t] = "NOT_ASSIGNED"
      /\ availableThreadIds' = Tail(availableThreadIds)
      /\ ~exited
  BY DEF TypeOK, SchedInv, FreeIdsUnused, thread_create, thread_create_nomemory,
         removeFromHead, Running
<1>2. /\ id \in Tids /\ t_state[id] = "NOT_ASSIGNED"
      /\ IsInjective(availableThreadIds')
      /\ \A t : t \in Range(availableThreadIds') <=> t \in Range(availableThreadIds) /\ t # id
  BY <1>1, HeadTailFacts
<1> HIDE DEF id
<1>3. CASE thread_create_nomemory
  <2>1. UNCHANGED <<t_state, readyQueue, wq, current_thread_id, exited>>
    BY <1>3 DEF thread_create_nomemory
  <2>2. FreeIdsUnused'
    BY <1>1, <1>2, <2>1 DEF FreeIdsUnused
  <2> QED BY <2>1, <2>2 DEF SchedInv, QueuedAtMostOnce, Queued, OneRunning, self
<1>4. CASE thread_create
  <2>1. /\ t_state' = [t_state EXCEPT ![id] = "READY"]
        /\ readyQueue' = Append(readyQueue, id)
        /\ UNCHANGED <<wq, current_thread_id, exited>>
    BY <1>4 DEF thread_create, id
  <2>2. ~Queued(id)
    BY <1>2 DEF SchedInv, QueuedAtMostOnce
  <2>3. /\ IsInjective(readyQueue')
        /\ \A t : t \in Range(readyQueue') <=> t \in Range(readyQueue) \/ t = id
    <3>1. readyQueue \in Seq(Tids) /\ IsInjective(readyQueue) /\ id \notin Range(readyQueue)
      BY <2>2 DEF TypeOK, SchedInv, QueuedAtMostOnce, Queued
    <3>2. /\ IsInjective(Append(readyQueue, id))
          /\ Range(Append(readyQueue, id)) = Range(readyQueue) \cup {id}
      BY <1>2, <3>1, AppendFacts
    <3> QED BY <2>1, <3>2
  <2>4. \A t \in Tids : t_state'[t] = IF t = id THEN "READY" ELSE t_state[t]
    BY <2>1 DEF TypeOK
  <2>5. QueuedAtMostOnce'
    <3>1. \A p \in WaitQueues : \A t : ~(t \in Range(readyQueue') /\ t \in Range(wq'[p]))
      BY <2>1, <2>2, <2>3 DEF SchedInv, QueuedAtMostOnce, Queued
    <3>2. \A t \in Tids : Queued(t)' => t_state'[t] = "READY"
      BY <2>1, <2>3, <2>4 DEF SchedInv, QueuedAtMostOnce, Queued
    <3> QED BY <2>1, <2>3, <3>1, <3>2 DEF SchedInv, QueuedAtMostOnce
  <2>6. OneRunning'
    BY <1>1, <1>2, <2>1, <2>4 DEF SchedInv, OneRunning, self, TypeOK
  <2>7. FreeIdsUnused'
    <3>1. \A t \in Range(availableThreadIds) : t \in Tids
      BY <1>1, RangeFacts
    <3> QED BY <1>1, <1>2, <2>4, <3>1 DEF FreeIdsUnused
  <2> QED BY <2>5, <2>6, <2>7 DEF SchedInv
<1> QED BY <1>3, <1>4

\* thread_wakeup of everybody empties the queue.
LEMMA WokenAll ==
  ASSUME TypeOK, NEW q \in WaitQueues
  PROVE  Woken(q, TRUE) = wq[q] /\ NotWoken(q, TRUE) = <<>>
<1>1. wq[q] \in Seq(Tids)
  BY DEF TypeOK
<1>2. Woken(q, TRUE) = wq[q]
  BY DEF Woken
<1>3. NotWoken(q, TRUE) = SubSeq(wq[q], Len(wq[q]) + 1, Len(wq[q]))
  BY <1>2 DEF NotWoken
<1>4. ASSUME NEW s \in Seq(Tids) PROVE SubSeq(s, Len(s) + 1, Len(s)) = <<>>
  OBVIOUS
<1> QED BY <1>1, <1>2, <1>3, <1>4

\* thread_exit: the waiters of the exiting thread become ready, its identifier
\* becomes free, and the head of the ready queue runs.
LEMMA ExitSched ==
  ASSUME TypeOK, SchedInv, ~exited, NEW ready \in Seq(Tids), NEW stacks,
         IsInjective(ready), Range(ready) \subseteq Range(readyQueue),
         ThreadExit(ready, stacks)
  PROVE  SchedInv'
<1> DEFINE woken == Woken(self, TRUE)
           rest == ready \o woken
<1>1. /\ self \in Tids /\ self \in WaitQueues
      /\ t_state[self] = "RUNNING"
      /\ self \notin Range(readyQueue)
      /\ \A p \in WaitQueues : self \notin Range(wq[p])
      /\ self \notin Range(availableThreadIds)
  BY SelfNotQueued
<1>2. /\ woken \in Seq(Tids) /\ IsInjective(woken)
      /\ woken = wq[self]
      /\ NotWoken(self, TRUE) = <<>>
  <2>1. woken = wq[self] /\ NotWoken(self, TRUE) = <<>>
    BY <1>1, WokenAll
  <2>2. wq[self] \in Seq(Tids) /\ IsInjective(wq[self])
    BY <1>1 DEF TypeOK, SchedInv, QueuedAtMostOnce
  <2> QED BY <2>1, <2>2
<1>3. /\ rest \in Seq(Tids) /\ IsInjective(rest)
      /\ \A t : t \in Range(rest) <=> t \in Range(ready) \/ t \in Range(wq[self])
  <2>1. Range(ready) \cap Range(woken) = {}
    BY <1>1, <1>2 DEF SchedInv, QueuedAtMostOnce
  <2> HIDE DEF woken
  <2>2. /\ ready \o woken \in Seq(Tids) /\ IsInjective(ready \o woken)
        /\ Range(ready \o woken) = Range(ready) \cup Range(woken)
    BY <1>2, <2>1, ConcatFacts
  <2> QED BY <1>2, <2>2
<1>4. \A t : t \in Range(rest) => t # self /\ t \in Tids /\ t_state[t] = "READY"
  <2>1. \A t : t \in Range(rest) => t \in Tids
    BY <1>3, RangeFacts
  <2>2. \A t \in Range(rest) : Queued(t)
    BY <1>1, <1>3 DEF Queued
  <2> QED BY <1>1, <1>3, <2>1, <2>2 DEF SchedInv, QueuedAtMostOnce
<1>5. /\ wq' = [wq EXCEPT ![self] = <<>>]
      /\ availableThreadIds' = <<self>> \o availableThreadIds
      /\ \/ /\ rest = <<>>
            /\ exited' = TRUE
            /\ t_state' = [t_state EXCEPT ![self] = "NOT_ASSIGNED"]
            /\ readyQueue' = <<>>
         \/ /\ rest # <<>>
            /\ current_thread_id' = Head(rest)
            /\ readyQueue' = Tail(rest)
            /\ t_state' = [[t_state EXCEPT ![self] = "NOT_ASSIGNED"]
                             EXCEPT ![Head(rest)] = "RUNNING"]
  BY <1>2 DEF ThreadExit, addToHeadId
<1> HIDE DEF woken, rest
<1>6. /\ IsInjective(availableThreadIds')
      /\ \A t : t \in Range(availableThreadIds')
                  <=> t = self \/ t \in Range(availableThreadIds)
  <2>1. /\ availableThreadIds \in Seq(Tids) /\ IsInjective(availableThreadIds)
    BY <1>1 DEF TypeOK, SchedInv, FreeIdsUnused
  <2>2. /\ IsInjective(<<self>> \o availableThreadIds)
        /\ Range(<<self>> \o availableThreadIds) = {self} \cup Range(availableThreadIds)
    BY <1>1, <2>1, ConsFacts
  <2> QED BY <1>5, <2>2
<1>7. \A t \in Range(availableThreadIds) : t \in Tids /\ t_state[t] = "NOT_ASSIGNED"
  BY RangeFacts DEF TypeOK, SchedInv, FreeIdsUnused
<1>8. ASSUME NEW p \in WaitQueues
      PROVE  /\ IsInjective(wq'[p])
             /\ \A t : t \in Range(wq'[p]) <=> p # self /\ t \in Range(wq[p])
  <2>1. wq'[p] = IF p = self THEN <<>> ELSE wq[p]
    BY <1>1, <1>5 DEF TypeOK
  <2>2. CASE p = self
    BY <2>1, <2>2, EmptyFacts
  <2>3. CASE p # self
    BY <2>1, <2>3 DEF SchedInv, QueuedAtMostOnce
  <2> QED BY <2>2, <2>3
<1>9. /\ IsInjective(readyQueue')
      /\ \A t : t \in Range(readyQueue') => t \in Range(rest)
      /\ rest # <<>> => /\ Head(rest) \in Range(rest)
                        /\ Head(rest) \notin Range(readyQueue')
  <2>1. CASE rest = <<>>
    BY <1>5, <2>1, EmptyFacts
  <2>2. CASE rest # <<>>
    <3>1. /\ Head(rest) \in Range(rest) /\ IsInjective(Tail(rest))
          /\ Range(rest) = Range(Tail(rest)) \cup {Head(rest)}
          /\ Head(rest) \notin Range(Tail(rest))
      BY <1>3, <2>2, HeadTailFacts
    <3>2. readyQueue' = Tail(rest)
      BY <1>5, <2>2
    <3> QED BY <3>1, <3>2
  <2> QED BY <2>1, <2>2
<1>10. \A p \in WaitQueues : \A t : ~(t \in Range(rest) /\ t \in Range(wq'[p]))
  <2>1. \A p \in WaitQueues : \A t : ~(t \in Range(ready) /\ t \in Range(wq[p]))
    BY DEF SchedInv, QueuedAtMostOnce
  <2>2. \A p \in WaitQueues : \A t : p # self => ~(t \in Range(wq[self]) /\ t \in Range(wq[p]))
    BY <1>1 DEF SchedInv, QueuedAtMostOnce
  <2> QED BY <1>3, <1>8, <2>1, <2>2
<1>11. QueuedAtMostOnce' /\ OneRunning' /\ FreeIdsUnused'
  <2>1. ASSUME NEW p \in WaitQueues, NEW r \in WaitQueues, p # r, NEW t
        PROVE  ~(t \in Range(wq'[p]) /\ t \in Range(wq'[r]))
    <3>1. ~(t \in Range(wq[p]) /\ t \in Range(wq[r]))
      BY <2>1 DEF SchedInv, QueuedAtMostOnce
    <3> QED BY <1>8, <3>1
  <2>2. \A t \in Tids : t_state'[t] = IF t = self THEN "NOT_ASSIGNED"
                                      ELSE IF rest # <<>> /\ t = Head(rest) THEN "RUNNING"
                                      ELSE t_state[t]
    BY <1>1, <1>4, <1>5, <1>9 DEF TypeOK
  <2>3. ASSUME NEW t \in Tids, Queued(t)' PROVE t_state'[t] = "READY"
    <3>1. t # self /\ t_state[t] = "READY"
      <4>1. CASE t \in Range(readyQueue')
        BY <1>4, <1>9, <4>1
      <4>2. CASE t \notin Range(readyQueue')
        <5>1. PICK p \in WaitQueues : t \in Range(wq'[p])
          BY <2>3, <4>2 DEF Queued
        <5>2. t \in Range(wq[p]) /\ Queued(t)
          BY <1>8, <5>1 DEF Queued
        <5> QED BY <1>1, <5>2 DEF SchedInv, QueuedAtMostOnce
      <4> QED BY <4>1, <4>2
    <3>2. rest # <<>> => t # Head(rest)
      BY <1>9, <1>10, <2>3 DEF Queued
    <3> QED BY <2>2, <3>1, <3>2
  <2>4. QueuedAtMostOnce'
    BY <1>8, <1>9, <1>10, <2>1, <2>3 DEF QueuedAtMostOnce
  <2>5. OneRunning'
    <3>1. \A t \in Tids : t_state[t] = "RUNNING" => t = self
      BY DEF SchedInv, OneRunning
    <3>2. CASE rest = <<>>
      BY <1>5, <2>2, <3>1, <3>2 DEF OneRunning
    <3>3. CASE rest # <<>>
      BY <1>4, <1>5, <1>9, <2>2, <3>1, <3>3 DEF OneRunning, self
    <3> QED BY <3>2, <3>3
  <2>6. FreeIdsUnused'
    <3>1. \A t \in Range(availableThreadIds) : rest # <<>> => t # Head(rest)
      BY <1>4, <1>7, <1>9
    <3> QED BY <1>1, <1>6, <1>7, <2>2, <3>1 DEF FreeIdsUnused
  <2> QED BY <2>4, <2>5, <2>6
<1> QED BY <1>11 DEF SchedInv

\* Every step but thread_create's and the destroying ones changes the
\* scheduler's data by a thread_exit, a thread_yield, a thread_wakeup or not
\* at all.
LEMMA StepKinds ==
  ASSUME TypeOK, [Next]_vars
  PROVE  \/ UNCHANGED <<t_state, queues, current_thread_id, exited>>
         \/ /\ ~exited
            /\ \/ \E stacks : ThreadExit(readyQueue, stacks)
               \/ /\ killOnNextRun[self]
                  /\ \E i \in DOMAIN readyQueue : \E stacks : ThreadExit(Without(readyQueue, i), stacks)
               \/ /\ ~inYield[self]
                  /\ \E i \in DOMAIN readyQueue, q \in WaitQueues \cup {NULL} : \E ret :
                       Switch(i, q, ret) \/ SkipSwitch(i, q, ret)
         \/ \E q \in WaitQueues, all \in BOOLEAN : Wakeup(q, all)
         \/ thread_create \/ thread_create_nomemory
         \/ DestroyPop \/ \E l \in Locks : lock_destroy(l)
<1> DEFINE Still == UNCHANGED <<t_state, queues, current_thread_id, exited>>
           Yields == \E i \in DOMAIN readyQueue, q \in WaitQueues \cup {NULL} : \E ret : Yield(i, q, ret)
           Exits == \E stacks : ThreadExit(readyQueue, stacks)
           Wakes == \E q \in WaitQueues, all \in BOOLEAN : Wakeup(q, all)
<1>1. /\ Queues \cup Locks \cup CVs \cup Tids \subseteq WaitQueues
      /\ readyQueue # <<>> => 1 \in DOMAIN readyQueue
  BY DEF TypeOK, WaitQueues, Objects
<1>2. ASSUME NEW q \in WaitQueues, NEW ret, Sleep(q, ret)
      PROVE  Still \/ Yields
  BY <1>1, <1>2 DEF Sleep, tcbs, queues
<1>3. CASE UNCHANGED vars
  BY <1>3 DEF vars, tcbs
<1>4. CASE StubEnable \/ LockTake \/ LockSpin \/ DestroyFree
  BY <1>4 DEF StubEnable, LockTake, LockSpin, DestroyFree, tcbs, vars
<1>5. CASE StubCheck \/ Resume \/ thread_exit
  <2>1. ~exited /\ (Still \/ Exits)
    BY <1>5 DEF StubCheck, Resume, thread_exit, Running
  <2> QED BY <2>1
<1>6. CASE LockSleep \/ CvSleep \/ Preempt
  <2>1. ~exited /\ ~inYield[self] /\ (Still \/ Yields)
    BY <1>1, <1>2, <1>6 DEF LockSleep, CvSleep, Preempt, Running, InterruptsOn
  <2> QED BY <2>1 DEF Yield
<1>7. CASE \E want_tid \in Tids \cup {-1} : thread_yield(want_tid)
  <2>1. ~exited /\ ~inYield[self] /\ Yields
    BY <1>7 DEF thread_yield, Running
  <2> QED BY <2>1 DEF Yield
<1>8. CASE \E tid \in Tids : thread_kill(tid)
  BY <1>8 DEF thread_kill
<1>9. CASE \E tid \in Tids : thread_wait(tid)
  <2>1. ~exited /\ ~inYield[self] /\ (Still \/ Yields)
    BY <1>1, <1>2, <1>9 DEF thread_wait, Running
  <2> QED BY <2>1 DEF Yield
<1>10. CASE \E q \in Queues : thread_sleep(q)
  <2>1. ~exited /\ ~inYield[self] /\ (Still \/ Yields)
    BY <1>1, <1>2, <1>10 DEF thread_sleep, Running
  <2> QED BY <2>1 DEF Yield
<1>11. CASE \E q \in Queues, all \in BOOLEAN : thread_wakeup(q, all)
  BY <1>1, <1>11 DEF thread_wakeup
<1>12. CASE \E l \in Locks : lock_acquire(l)
  BY <1>12 DEF lock_acquire, tcbs
<1>13. CASE \E l \in Locks : lock_release(l)
  <2>1. Wakes
    BY <1>1, <1>13 DEF lock_release, Release
  <2> QED BY <2>1
<1>14. CASE \E c \in CVs, l \in Locks : cv_wait(c, l)
  <2>1. Wakes
    BY <1>1, <1>14 DEF cv_wait, Release
  <2> QED BY <2>1
<1>15. CASE \E c \in CVs, l \in Locks, all \in BOOLEAN : cv_wake(c, l, all)
  BY <1>1, <1>15 DEF cv_wake
<1>16. CASE \E q \in Queues \cup CVs : wait_queue_destroy(q)
  BY <1>16 DEF wait_queue_destroy, tcbs
<1>17. CASE Terminated
  BY <1>17 DEF Terminated, vars, tcbs
<1> QED
  BY <1>3, <1>4, <1>5, <1>6, <1>7, <1>8, <1>9, <1>10, <1>11, <1>12, <1>13, <1>14,
     <1>15, <1>16, <1>17 DEF Next, LibraryStep, ClientCall

\* Every step preserves SchedInv.
LEMMA NextSched ==
  ASSUME TypeOK, SchedInv, [Next]_vars
  PROVE  SchedInv'
<1>1. /\ readyQueue \in Seq(Tids) /\ IsInjective(readyQueue)
      /\ Queues \cup CVs \cup Locks \subseteq WaitQueues
  BY DEF TypeOK, SchedInv, QueuedAtMostOnce, WaitQueues, Objects
<1>2. ASSUME NEW i \in DOMAIN readyQueue
      PROVE  /\ Without(readyQueue, i) \in Seq(Tids) /\ IsInjective(Without(readyQueue, i))
             /\ Range(Without(readyQueue, i)) \subseteq Range(readyQueue)
  BY <1>1, RemoveAtFacts DEF Without
<1>3. CASE UNCHANGED <<t_state, queues, current_thread_id, exited>>
  BY <1>3, SameQueuesSched
<1>4. ASSUME ~exited, NEW stacks, ThreadExit(readyQueue, stacks)
      PROVE  SchedInv'
  BY <1>1, <1>4, ExitSched
<1>5. ASSUME ~exited, NEW i \in DOMAIN readyQueue, NEW stacks,
             ThreadExit(Without(readyQueue, i), stacks)
      PROVE  SchedInv'
  BY <1>2, <1>5, ExitSched
<1>6. ASSUME ~exited, NEW i \in DOMAIN readyQueue, NEW q \in WaitQueues \cup {NULL}, NEW ret,
             Switch(i, q, ret) \/ SkipSwitch(i, q, ret)
      PROVE  SchedInv'
  BY <1>6, SwitchSched, SkipSched
<1>7. ASSUME NEW q \in WaitQueues, NEW all \in BOOLEAN, Wakeup(q, all)
      PROVE  SchedInv'
  BY <1>7, WakeupSched
<1>8. CASE thread_create \/ thread_create_nomemory
  BY <1>8, CreateSched
<1>9. CASE DestroyPop
  BY <1>1, <1>9, DiscardSched DEF DestroyPop, tcbs
<1>10. CASE \E l \in Locks : lock_destroy(l)
  BY <1>1, <1>10, DiscardSched DEF lock_destroy, tcbs
<1> QED BY <1>3, <1>4, <1>5, <1>6, <1>7, <1>8, <1>9, <1>10, StepKinds

\* The library starts with consistent data.
LEMMA InitSched ==
  ASSUME Init
  PROVE  SchedInv
<1>1. /\ readyQueue = <<>> /\ \A q \in WaitQueues : wq[q] = <<>>
      /\ availableThreadIds = [i \in 1 .. MaxThreads - 1 |-> i]
      /\ t_state = [t \in Tids |-> IF t = 0 THEN "RUNNING" ELSE "NOT_ASSIGNED"]
      /\ current_thread_id = 0 /\ 0 \in Tids
  BY TidsFacts DEF Init
<1>2. QueuedAtMostOnce
  BY <1>1, EmptyFacts DEF QueuedAtMostOnce, Queued
<1>3. OneRunning
  BY <1>1 DEF OneRunning, self
<1>4. FreeIdsUnused
  <2>1. Range(availableThreadIds) = 1 .. MaxThreads - 1
    BY <1>1 DEF Range
  <2>2. IsInjective(availableThreadIds)
    BY <1>1 DEF IsInjective
  <2> QED BY <1>1, <2>1, <2>2, MaxThreadsAssumption DEF FreeIdsUnused, Tids
<1> QED BY <1>2, <1>3, <1>4 DEF SchedInv

\* In every reachable state the scheduler's data is consistent: no thread is
\* queued twice, exactly the current thread is RUNNING until the process exits,
\* and no identifier in use is offered to thread_create.
THEOREM SchedulerConsistent == Spec => [](QueuedAtMostOnce /\ OneRunning /\ FreeIdsUnused)
<1>1. Init => TypeOK /\ SchedInv
  BY InitType, InitSched
<1>2. TypeOK /\ SchedInv /\ [Next]_vars => TypeOK' /\ SchedInv'
  BY NextType, NextSched
<1>3. TypeOK /\ SchedInv => QueuedAtMostOnce /\ OneRunning /\ FreeIdsUnused
  BY DEF SchedInv
<1> QED BY <1>1, <1>2, <1>3, PTL DEF Spec
=============================================================================
