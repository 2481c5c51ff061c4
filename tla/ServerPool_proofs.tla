-------------------------- MODULE ServerPool_proofs --------------------------
(***************************************************************************)
(* The worker pool's wakeups (MainWaitsForRoom, NoWorkIgnored), its exit    *)
(* (ExitJoinsAll), and that it loses no connection, serves none twice and   *)
(* lets none overtake another, proved for any number of workers, any queue  *)
(* capacity and any number of connections.                                  *)
(***************************************************************************)
EXTENDS ServerPool, FiniteSetTheorems, SequenceTheorems, TLAPS

\* Whoever is in server_request or serves a connection holds one.
HoldsConnection ==
  /\ main \in {"waiting", "woken"} => connfd # -1
  /\ \A w \in Workers : pc[w] = "serving" => taken[w] # -1

\* The workers that server_exit has joined have returned, and it goes on only
\* when the joins are done.
JoinedHaveExited ==
  /\ \A w \in Workers : w < joined => pc[w] = "exited"
  /\ main = "done" => nr_threads = 0 \/ JoinsDone

PoolInv == /\ TypeOK /\ HoldsConnection /\ MainWaitsForRoom /\ NoWorkIgnored
           /\ JoinedHaveExited

-----------------------------------------------------------------------------
(* The sets of workers.                                                     *)

\* Workers are numbered, and there are finitely many on their way.
LEMMA WorkersFacts ==
  ASSUME TypeOK
  PROVE  /\ nr_threads \in Nat /\ max_requests \in Nat /\ MaxConns \in Nat
         /\ Workers \subseteq Nat
         /\ IsFiniteSet(OnTheWay) /\ Cardinality(OnTheWay) \in Nat
<1>1. nr_threads \in Nat /\ max_requests \in Nat /\ MaxConns \in Nat
  BY PoolAssumption DEF TypeOK
<1>2. IsFiniteSet(Workers)
  BY <1>1, FS_Interval DEF Workers
<1>3. OnTheWay \in SUBSET Workers
  BY DEF OnTheWay
<1>4. IsFiniteSet(OnTheWay)
  BY <1>2, <1>3, FS_Subset
<1> QED BY <1>1, <1>4, FS_CardinalityType DEF Workers

\* A worker that wakes or starts its loop again is one more on its way.
LEMMA OneMore ==
  ASSUME TypeOK, NEW w \in Workers, w \notin OnTheWay, UNCHANGED config,
         NEW p \in {"start", "woken"}, pc' = [pc EXCEPT ![w] = p]
  PROVE  Cardinality(OnTheWay') = Cardinality(OnTheWay) + 1
<1>1. OnTheWay' = OnTheWay \cup {w}
  BY DEF OnTheWay, Workers, config, TypeOK
<1> QED BY <1>1, WorkersFacts, FS_AddElement

\* A worker that takes a connection or returns is one less.
LEMMA OneLess ==
  ASSUME TypeOK, NEW w \in OnTheWay, UNCHANGED config,
         NEW p \in {"waiting", "serving", "exited"}, pc' = [pc EXCEPT ![w] = p]
  PROVE  /\ Cardinality(OnTheWay') = Cardinality(OnTheWay) - 1
         /\ Cardinality(OnTheWay') \in Nat
<1>1. OnTheWay' = OnTheWay \ {w}
  BY DEF OnTheWay, Workers, config, TypeOK
<1>2. IsFiniteSet(OnTheWay')
  BY <1>1, WorkersFacts, FS_RemoveElement
<1> QED BY <1>1, <1>2, WorkersFacts, FS_RemoveElement, FS_CardinalityType

\* Nothing about the workers changes.
LEMMA SamePool ==
  ASSUME UNCHANGED <<config, pc>>
  PROVE  UNCHANGED <<Workers, Waiting, OnTheWay>>
BY DEF config, Workers, Waiting, OnTheWay

-----------------------------------------------------------------------------
(* The queue.                                                               *)

\* What pushConnection and popConnection do to the queue's type and length.
LEMMA QueueFacts ==
  ASSUME TypeOK
  PROVE  /\ Len(connection_requests) \in Nat
         /\ connection_requests # <<>> =>
              /\ popConnection \in Seq(Conns)
              /\ Len(popConnection) = Len(connection_requests) - 1
              /\ Head(connection_requests) \in Conns
              /\ Len(connection_requests) > 0
         /\ \A fd \in Conns : /\ pushConnection(fd) \in Seq(Conns)
                              /\ Len(pushConnection(fd)) = Len(connection_requests) + 1
BY HeadTailProperties, AppendProperties, EmptySeq, LenProperties
   DEF TypeOK, popConnection, pushConnection

-----------------------------------------------------------------------------
(* The inductive invariant, action by action.                               *)

\* server_init starts with an empty queue and every worker at the top of its loop.
LEMMA InitPool == Init => PoolInv
<1> SUFFICES ASSUME Init PROVE PoolInv
  OBVIOUS
<1>1. TypeOK
  <2>1. connection_requests \in Seq(Conns) /\ Len(connection_requests) = 0
    BY EmptySeq DEF Init
  <2>2. 0 <= max_requests /\ 0 \in 0 .. max_requests /\ 0 \in 0 .. MaxConns
    BY PoolAssumption DEF Init
  <2> QED BY <2>1, <2>2 DEF Init, TypeOK, WorkerPlaces, MainPlaces
<1>2. HoldsConnection /\ MainWaitsForRoom /\ NoWorkIgnored
  BY DEF Init, HoldsConnection, MainWaitsForRoom, NoWorkIgnored, Waiting
<1>3. JoinedHaveExited
  <2>1. \A w \in Workers : ~(w < 0)
    BY <1>1, WorkersFacts
  <2> QED BY <2>1 DEF Init, JoinedHaveExited
<1> QED BY <1>1, <1>2, <1>3 DEF PoolInv

\* server_request enters the connection and wakes a worker for it if one waits,
\* or waits itself because the queue is full.
LEMMA PushKeeps ==
  ASSUME PoolInv, NEW fd \in Conns, Push(fd), main \in {"poll", "woken"},
         UNCHANGED <<config, isServerExiting, taken, joined>>,
         accepted' \in 0 .. MaxConns, served' \subseteq Conns, UNCHANGED dropped
  PROVE  PoolInv'
<1> USE DEF PoolInv
<1>1. fd # -1 /\ UNCHANGED Workers
  BY WorkersFacts DEF Conns, Workers, config
<1>2. CASE /\ ~atMaxCapacity
           /\ connection_requests' = pushConnection(fd)
           /\ pc' \in SignalWork(Waiting)
           /\ main' = "poll"
           /\ connfd' = -1
  <2>1. /\ connection_requests' \in Seq(Conns)
        /\ Len(connection_requests') = Len(connection_requests) + 1
    BY <1>2, QueueFacts
  <2>2. Len(connection_requests') <= max_requests
    BY <1>2, <2>1, QueueFacts, WorkersFacts DEF atMaxCapacity, TypeOK
  <2>3. CASE Waiting = {} /\ pc' = pc
    <3>1. TypeOK'
      BY <1>1, <1>2, <2>1, <2>2, <2>3 DEF TypeOK, MainPlaces, config
    <3>2. Waiting' = {}
      BY <2>3, SamePool
    <3> QED BY <1>1, <1>2, <2>3, <3>1, <3>2
            DEF HoldsConnection, MainWaitsForRoom, NoWorkIgnored, JoinedHaveExited
  <2>4. ASSUME NEW w \in Waiting, pc' = [pc EXCEPT ![w] = "woken"]
        PROVE  PoolInv'
    <3>1. w \in Workers /\ pc[w] = "waiting" /\ w \notin OnTheWay
      BY <2>4 DEF Waiting, OnTheWay
    <3>2. TypeOK'
      BY <1>1, <1>2, <2>1, <2>2, <2>4, <3>1 DEF TypeOK, MainPlaces, WorkerPlaces, config
    <3>3. Cardinality(OnTheWay') = Cardinality(OnTheWay) + 1
      BY <2>4, <3>1, OneMore
    <3>4. NoWorkIgnored'
      BY <2>1, <2>4, <3>3, WorkersFacts, QueueFacts DEF NoWorkIgnored
    <3>5. HoldsConnection' /\ MainWaitsForRoom' /\ JoinedHaveExited'
      BY <1>1, <1>2, <2>4, <3>1
         DEF HoldsConnection, MainWaitsForRoom, JoinedHaveExited, TypeOK, config
    <3> QED BY <3>2, <3>4, <3>5
  <2> QED BY <1>2, <2>3, <2>4 DEF SignalWork
<1>3. CASE /\ atMaxCapacity
           /\ main' = "waiting"
           /\ connfd' = fd
           /\ UNCHANGED <<connection_requests, pc>>
  <2>1. TypeOK'
    BY <1>1, <1>3 DEF TypeOK, MainPlaces, config
  <2> QED BY <1>1, <1>3, <2>1, SamePool
          DEF HoldsConnection, MainWaitsForRoom, NoWorkIgnored, JoinedHaveExited,
              atMaxCapacity, config
<1> QED BY <1>2, <1>3 DEF Push

\* The main thread's steps: server_request, called or woken, and server_exit.
LEMMA MainKeeps ==
  ASSUME PoolInv, Accept \/ Retry \/ Exit \/ Join \/ Finish
  PROVE  PoolInv'
<1> USE DEF PoolInv
<1>1. CASE Accept
  <2>1. accepted + 1 \in Conns /\ accepted + 1 \in 0 .. MaxConns
    BY <1>1, WorkersFacts DEF Accept, TypeOK, Conns
  <2>2. CASE nr_threads > 0
    BY <1>1, <2>1, <2>2, PushKeeps, WorkersFacts DEF Accept, TypeOK
  <2>3. CASE nr_threads = 0
    <3>1. TypeOK'
      BY <1>1, <2>1, <2>3, WorkersFacts DEF Accept, TypeOK, config, Workers
    <3> QED BY <1>1, <2>3, <3>1, SamePool
            DEF Accept, HoldsConnection, MainWaitsForRoom, NoWorkIgnored,
                JoinedHaveExited, atMaxCapacity, config, JoinsDone
  <2> QED BY <2>2, <2>3, WorkersFacts
<1>2. CASE Retry
  <2>1. connfd \in Conns
    BY <1>2 DEF Retry, HoldsConnection, TypeOK
  <2> QED BY <1>2, <2>1, PushKeeps DEF Retry, TypeOK
<1>3. CASE Exit
  <2>1. TypeOK'
    BY <1>3 DEF Exit, TypeOK, MainPlaces, WorkerPlaces, config, Workers
  <2>2. CASE nr_threads = 0
    BY <1>3, <2>1, <2>2, SamePool
       DEF Exit, HoldsConnection, MainWaitsForRoom, NoWorkIgnored, JoinedHaveExited, config
  <2>3. CASE nr_threads > 0
    <3>1. Waiting' = {} /\ UNCHANGED Workers
      BY <1>3, <2>3, WorkersFacts DEF Exit, Waiting, Workers, config
    <3> QED BY <1>3, <2>1, <2>3, <3>1, WorkersFacts
            DEF Exit, HoldsConnection, MainWaitsForRoom, NoWorkIgnored, JoinedHaveExited,
                TypeOK
  <2> QED BY <2>2, <2>3, WorkersFacts
<1>4. CASE Join
  <2>1. joined \in Nat /\ joined < max_requests
    BY <1>4, WorkersFacts DEF Join, JoinsDone, TypeOK
  <2>2. TypeOK'
    BY <1>4, <2>1, WorkersFacts DEF Join, TypeOK, MainPlaces, config, Workers
  <2>3. JoinedHaveExited'
    <3>1. ASSUME NEW w \in Workers, w < joined'
          PROVE  pc[w] = "exited"
      BY <1>4, <2>1, <3>1, WorkersFacts DEF Join, JoinedHaveExited, Workers
    <3> QED BY <1>4, <3>1, SamePool DEF Join, JoinedHaveExited
  <2> QED BY <1>4, <2>2, <2>3, SamePool
          DEF Join, HoldsConnection, MainWaitsForRoom, NoWorkIgnored, atMaxCapacity, config
<1>5. CASE Finish
  <2>1. TypeOK'
    BY <1>5 DEF Finish, TypeOK, MainPlaces, config, Workers
  <2> QED BY <1>5, <2>1, SamePool
          DEF Finish, HoldsConnection, MainWaitsForRoom, NoWorkIgnored, JoinedHaveExited,
              JoinsDone, config
<1> QED BY <1>1, <1>2, <1>3, <1>4, <1>5

\* A worker's steps: the loop of do_server_t_request.
LEMMA WorkerKeeps ==
  ASSUME PoolInv, NEW w \in Workers, WorkerStep(w)
  PROVE  PoolInv'
<1> USE DEF PoolInv
<1>1. UNCHANGED config /\ UNCHANGED Workers
  BY DEF WorkerStep, Wait, Take, Leave, Serve, config, Workers
<1>2. pc[w] # "exited"
  BY DEF WorkerStep, Wait, Take, Leave, Serve, Looks
<1>3. JoinedHaveExited'
  <2>1. UNCHANGED joined /\ (main' = "done" <=> main = "done")
    BY DEF WorkerStep, Wait, Take, Leave, Serve, SignalMain
  <2>2. \A v \in Workers : v < joined => v # w
    BY <1>2 DEF JoinedHaveExited
  <2>3. \A v \in Workers : v # w => pc'[v] = pc[v]
    BY DEF WorkerStep, Wait, Take, Leave, Serve, TypeOK
  <2> QED BY <1>1, <2>1, <2>2, <2>3 DEF JoinedHaveExited, JoinsDone, config
<1>4. CASE Wait(w)
  <2>1. TypeOK'
    BY <1>1, <1>4 DEF Wait, TypeOK, WorkerPlaces, config
  <2>2. Len(connection_requests') = 0
    BY <1>4, EmptySeq DEF Wait
  <2>3. HoldsConnection' /\ MainWaitsForRoom'
    BY <1>1, <1>4 DEF Wait, HoldsConnection, MainWaitsForRoom, atMaxCapacity, TypeOK, config
  <2>4. NoWorkIgnored'
    <3>1. Cardinality(OnTheWay') \in Nat
      BY <1>1, <1>4, OneLess DEF Wait, Looks, OnTheWay
    <3> QED BY <2>2, <3>1 DEF NoWorkIgnored
  <2> QED BY <1>3, <2>1, <2>3, <2>4
<1>5. CASE Take(w)
  <2>1. w \in OnTheWay
    BY <1>5 DEF Take, Looks, OnTheWay
  <2>2. TypeOK'
    BY <1>1, <1>5, QueueFacts, WorkersFacts
       DEF Take, TypeOK, WorkerPlaces, MainPlaces, SignalMain, config
  <2>3. HoldsConnection' /\ MainWaitsForRoom'
    BY <1>1, <1>5, QueueFacts
       DEF Take, HoldsConnection, MainWaitsForRoom, SignalMain, TypeOK, Conns
  <2>4. NoWorkIgnored'
    <3>1. Cardinality(OnTheWay') = Cardinality(OnTheWay) - 1
      BY <1>1, <1>5, <2>1, OneLess DEF Take
    <3>2. Len(connection_requests') = Len(connection_requests) - 1
      BY <1>5, QueueFacts DEF Take
    <3>3. Waiting' = Waiting
      BY <1>1, <1>5, <2>1 DEF Take, Waiting, OnTheWay, TypeOK
    <3> QED BY <3>1, <3>2, <3>3, WorkersFacts, QueueFacts DEF NoWorkIgnored
  <2> QED BY <1>3, <2>2, <2>3, <2>4
<1>6. CASE Leave(w)
  <2>1. w \in OnTheWay
    BY <1>6 DEF Leave, Looks, OnTheWay
  <2>2. TypeOK'
    BY <1>1, <1>6, QueueFacts, WorkersFacts
       DEF Leave, TypeOK, WorkerPlaces, MainPlaces, SignalMain, config
  <2>3. HoldsConnection' /\ MainWaitsForRoom'
    BY <1>1, <1>6 DEF Leave, HoldsConnection, MainWaitsForRoom, SignalMain, TypeOK
  <2>4. NoWorkIgnored'
    <3>1. /\ Cardinality(OnTheWay') = Cardinality(OnTheWay) - 1
          /\ Cardinality(OnTheWay') \in Nat
      BY <1>1, <1>6, <2>1, OneLess DEF Leave
    <3>2. Waiting' = Waiting
      BY <1>1, <1>6, <2>1 DEF Leave, Waiting, OnTheWay, TypeOK
    <3>3. CASE connection_requests # <<>>
      <4>1. Len(connection_requests') = Len(connection_requests) - 1
        BY <1>6, <3>3, QueueFacts DEF Leave
      <4> QED BY <3>1, <3>2, <4>1, WorkersFacts, QueueFacts DEF NoWorkIgnored
    <3>4. CASE connection_requests = <<>>
      <4>1. Len(connection_requests') = 0
        BY <1>6, <3>4, EmptySeq DEF Leave
      <4> QED BY <3>1, <4>1 DEF NoWorkIgnored
    <3> QED BY <3>3, <3>4
  <2> QED BY <1>3, <2>2, <2>3, <2>4
<1>7. CASE Serve(w)
  <2>1. TypeOK'
    BY <1>1, <1>7 DEF Serve, TypeOK, HoldsConnection, WorkerPlaces, config
  <2>2. HoldsConnection' /\ MainWaitsForRoom'
    BY <1>1, <1>7
       DEF Serve, HoldsConnection, MainWaitsForRoom, atMaxCapacity, TypeOK, config
  <2>3. NoWorkIgnored'
    <3>1. w \notin OnTheWay /\ Waiting' = Waiting
      BY <1>1, <1>7 DEF Serve, OnTheWay, Waiting, TypeOK
    <3>2. Cardinality(OnTheWay') = Cardinality(OnTheWay) + 1
      BY <1>1, <1>7, <3>1, OneMore DEF Serve
    <3> QED BY <1>7, <3>1, <3>2, WorkersFacts, QueueFacts DEF Serve, NoWorkIgnored
  <2> QED BY <1>3, <2>1, <2>2, <2>3
<1> QED BY <1>4, <1>5, <1>6, <1>7 DEF WorkerStep

\* A return of pthread_cond_wait without a signal, in a worker or in server_request.
LEMMA SpuriousKeeps ==
  ASSUME PoolInv, SpuriousWakeup
  PROVE  PoolInv'
<1> USE DEF PoolInv
<1>1. UNCHANGED config /\ UNCHANGED Workers
  BY DEF SpuriousWakeup, config, Workers
<1>2. ASSUME NEW w \in Workers, pc[w] = "waiting", pc' = [pc EXCEPT ![w] = "woken"],
             UNCHANGED main
      PROVE  PoolInv'
  <2>1. TypeOK'
    BY <1>1, <1>2 DEF SpuriousWakeup, TypeOK, WorkerPlaces, config
  <2>2. HoldsConnection' /\ MainWaitsForRoom' /\ JoinedHaveExited'
    BY <1>1, <1>2
       DEF SpuriousWakeup, HoldsConnection, MainWaitsForRoom, JoinedHaveExited, JoinsDone,
           atMaxCapacity, TypeOK, config
  <2>3. NoWorkIgnored'
    <3>1. w \notin OnTheWay /\ Waiting # {}
      BY <1>2 DEF OnTheWay, Waiting
    <3>2. Cardinality(OnTheWay') = Cardinality(OnTheWay) + 1
      BY <1>1, <1>2, <3>1, OneMore
    <3> QED BY <3>1, <3>2, WorkersFacts, QueueFacts DEF SpuriousWakeup, NoWorkIgnored
  <2> QED BY <2>1, <2>2, <2>3
<1>3. CASE main = "waiting" /\ main' = "woken" /\ UNCHANGED pc
  <2>1. TypeOK'
    BY <1>1, <1>3 DEF SpuriousWakeup, TypeOK, MainPlaces, config
  <2> QED BY <1>1, <1>3, <2>1, SamePool
          DEF SpuriousWakeup, HoldsConnection, MainWaitsForRoom, NoWorkIgnored,
              JoinedHaveExited
<1> QED BY <1>2, <1>3 DEF SpuriousWakeup

\* The three facts together: the invariant is inductive.
LEMMA PoolInvariant == Spec => []PoolInv
<1>1. PoolInv /\ [Next]_vars => PoolInv'
  <2> SUFFICES ASSUME PoolInv, [Next]_vars PROVE PoolInv'
    OBVIOUS
  <2>1. CASE UNCHANGED vars
    BY <2>1, SamePool
       DEF PoolInv, vars, config, TypeOK, HoldsConnection, MainWaitsForRoom, NoWorkIgnored,
           JoinedHaveExited, JoinsDone, atMaxCapacity
  <2> QED BY <2>1, MainKeeps, WorkerKeeps, SpuriousKeeps DEF Next, MainStep, Terminated
<1> QED BY <1>1, InitPool, PTL DEF Spec

-----------------------------------------------------------------------------
(* The theorems.                                                            *)

\* No wakeup is lost, whatever the number of workers, the capacity of the queue
\* and the number of clients, and although pthread_cond_wait may return without
\* a signal: server_request waits only while the queue is full, and while a
\* worker waits every queued connection has a worker on its way.
THEOREM PoolWakeups == Spec => [](MainWaitsForRoom /\ NoWorkIgnored)
<1>1. PoolInv => MainWaitsForRoom /\ NoWorkIgnored
  BY DEF PoolInv
<1> QED BY <1>1, PoolInvariant, PTL

\* server_exit returns after every worker, whenever there are no more workers
\* than max_requests.
THEOREM PoolExit == Spec => []ExitJoinsAll
<1>1. PoolInv => ExitJoinsAll
  <2> SUFFICES ASSUME PoolInv, main = "done", nr_threads <= max_requests,
                      NEW w \in Workers
               PROVE  pc[w] = "exited"
    BY DEF ExitJoinsAll
  <2>1. w \in Nat /\ w < nr_threads /\ joined \in Nat /\ max_requests \in Nat
    BY WorkersFacts DEF PoolInv, TypeOK, Workers
  <2> QED BY <2>1, WorkersFacts DEF PoolInv, JoinedHaveExited, JoinsDone
<1> QED BY <1>1, PoolInvariant, PTL

-----------------------------------------------------------------------------
(* Order and completeness: no connection is lost, served twice or overtaken. *)

\* The connections that have left the queue.
Gone == BeingServed \cup served \cup dropped

Increasing(q) == \A i, j \in DOMAIN q : i < j => q[i] < q[j]

\* Connections have left the queue before those in it, and those before the one
\* that server_request holds; the main thread accepts none while it holds one.
Ordered ==
  /\ Increasing(connection_requests)
  /\ \A c \in InQueue : c <= accepted /\ \A d \in Gone : d < c
  /\ \A d \in Gone : d <= accepted
  /\ connfd # -1 => /\ main \in {"waiting", "woken"}
                    /\ connfd <= accepted
                    /\ \A c \in InQueue \cup Gone : c < connfd
  /\ nr_threads = 0 => connection_requests = <<>> /\ connfd = -1

\* What has left the queue is with one worker, answered or dropped.
Apart ==
  /\ served \cap dropped = {}
  /\ \A w \in Workers : /\ taken[w] \notin served \cup dropped
                        /\ pc[w] # "serving" => taken[w] = -1
  /\ \A v, w \in Workers : taken[v] = taken[w] /\ taken[v] # -1 => v = w

Complete == 1 .. accepted \subseteq InQueue \cup Gone \cup {connfd}

OrderInv == Ordered /\ Apart /\ Complete

-----------------------------------------------------------------------------
(* The queue.                                                               *)

\* pushConnection adds the connection behind all others.
LEMMA PushOrder ==
  ASSUME TypeOK, NEW fd \in Conns, connection_requests' = pushConnection(fd),
         Increasing(connection_requests), \A c \in InQueue : c < fd
  PROVE  InQueue' = InQueue \cup {fd} /\ Increasing(connection_requests')
<1> DEFINE q == connection_requests
           n == Len(connection_requests)
<1>1. q \in Seq(Conns) /\ n \in Nat /\ DOMAIN q = 1 .. n
  BY QueueFacts, LenProperties DEF TypeOK
<1>2. /\ DOMAIN q' = 1 .. n + 1
      /\ \A i \in 1 .. n : q'[i] = q[i]
      /\ q'[n + 1] = fd
  BY <1>1, AppendProperties DEF pushConnection
<1>3. \A i \in 1 .. n : q[i] < fd
  BY <1>1 DEF InQueue
<1> HIDE DEF q, n
<1>4. InQueue' = {q'[i] : i \in 1 .. n + 1} /\ InQueue = {q[i] : i \in 1 .. n}
  BY <1>1, <1>2 DEF InQueue, q
<1>5. InQueue' = InQueue \cup {fd}
  <2>1. 1 .. n + 1 = (1 .. n) \cup {n + 1}
    BY <1>1
  <2> QED BY <1>2, <1>4, <2>1
<1>6. Increasing(q')
  <2> SUFFICES ASSUME NEW i \in 1 .. n + 1, NEW j \in 1 .. n + 1, i < j
               PROVE  q'[i] < q'[j]
    BY <1>2 DEF Increasing
  <2>1. i \in 1 .. n
    BY <1>1
  <2>2. CASE j \in 1 .. n
    BY <1>1, <1>2, <2>1, <2>2 DEF Increasing, q
  <2>3. CASE j = n + 1
    BY <1>2, <1>3, <2>1, <2>3
  <2> QED BY <1>1, <2>2, <2>3
<1> QED BY <1>5, <1>6 DEF q

\* popConnection takes the connection before all others.
LEMMA PopOrder ==
  ASSUME TypeOK, connection_requests # <<>>, connection_requests' = popConnection,
         Increasing(connection_requests)
  PROVE  LET h == Head(connection_requests)
         IN /\ h \in Conns
            /\ InQueue = InQueue' \cup {h} /\ (\A c \in InQueue' : h < c)
            /\ Increasing(connection_requests')
<1> DEFINE q == connection_requests
           n == Len(connection_requests)
           h == Head(connection_requests)
<1>1. q \in Seq(Conns) /\ n \in Nat /\ n > 0 /\ DOMAIN q = 1 .. n /\ h \in Conns
  BY QueueFacts, LenProperties DEF TypeOK
<1>2. h = q[1]
  BY <1>1
<1>3. /\ DOMAIN q' = 1 .. n - 1
      /\ \A i \in 1 .. n - 1 : q'[i] = q[i + 1]
  BY <1>1, HeadTailProperties, LenProperties DEF popConnection
<1> HIDE DEF q, n, h
<1>4. InQueue' = {q'[i] : i \in 1 .. n - 1} /\ InQueue = {q[i] : i \in 1 .. n}
  BY <1>1, <1>3 DEF InQueue, q
<1>5. InQueue = InQueue' \cup {h}
  <2>1. ASSUME NEW i \in 1 .. n PROVE q[i] \in InQueue' \cup {h}
    <3>1. CASE i = 1
      BY <1>2, <3>1
    <3>2. CASE i # 1
      <4>1. i - 1 \in 1 .. n - 1 /\ (i - 1) + 1 = i
        BY <1>1, <3>2
      <4> QED BY <1>3, <1>4, <4>1
    <3> QED BY <3>1, <3>2
  <2>2. ASSUME NEW i \in 1 .. n - 1 PROVE q'[i] \in InQueue
    <3>1. i + 1 \in 1 .. n
      BY <1>1
    <3> QED BY <1>3, <1>4, <3>1
  <2>3. h \in InQueue
    BY <1>1, <1>2, <1>4
  <2> QED BY <1>4, <2>1, <2>2, <2>3
<1>6. \A c \in InQueue' : h < c
  <2> SUFFICES ASSUME NEW i \in 1 .. n - 1 PROVE h < q'[i]
    BY <1>4
  <2>1. i + 1 \in 1 .. n /\ 1 \in 1 .. n /\ 1 < i + 1
    BY <1>1
  <2> QED BY <1>1, <1>2, <1>3, <2>1 DEF Increasing, q
<1>7. Increasing(q')
  <2> SUFFICES ASSUME NEW i \in 1 .. n - 1, NEW j \in 1 .. n - 1, i < j
               PROVE  q'[i] < q'[j]
    BY <1>3 DEF Increasing
  <2>1. i + 1 \in 1 .. n /\ j + 1 \in 1 .. n /\ i + 1 < j + 1
    BY <1>1
  <2> QED BY <1>1, <1>3, <2>1 DEF Increasing, q
<1> QED BY <1>1, <1>5, <1>6, <1>7 DEF q, h

-----------------------------------------------------------------------------
(* The connections.                                                         *)

\* Connections are positive numbers.
LEMMA ConnFacts ==
  ASSUME TypeOK
  PROVE  /\ InQueue \subseteq Conns /\ Gone \subseteq Conns
         /\ Conns \subseteq Nat /\ -1 \notin Conns /\ accepted \in Nat
<1>1. connection_requests \in Seq(Conns)
      /\ DOMAIN connection_requests = 1 .. Len(connection_requests)
  BY LenProperties DEF TypeOK
<1>2. InQueue \subseteq Conns
  BY <1>1, ElementOfSeq DEF InQueue
<1>3. BeingServed \subseteq Conns
  BY DEF BeingServed, TypeOK
<1> QED BY <1>2, <1>3, WorkersFacts DEF Gone, TypeOK, Conns

\* A connection h that leaves the queue leaves it before the others.
LEMMA LeavesInOrder ==
  ASSUME PoolInv, OrderInv, connection_requests # <<>>,
         connection_requests' = popConnection, UNCHANGED <<config, connfd, accepted>>,
         main' = SignalMain, nr_threads > 0,
         Gone' = Gone \cup {Head(connection_requests)}
  PROVE  Ordered' /\ Complete' /\ Head(connection_requests) \in Conns \ Gone
<1> DEFINE h == Head(connection_requests)
<1>1. TypeOK /\ Increasing(connection_requests)
  BY DEF PoolInv, OrderInv, Ordered
<1>2. /\ h \in Conns
      /\ InQueue = InQueue' \cup {h} /\ (\A c \in InQueue' : h < c)
      /\ Increasing(connection_requests')
  BY <1>1, PopOrder
<1>3. Gone' = Gone \cup {h}
  OBVIOUS
<1> HIDE DEF h
<1>4. h <= accepted /\ (\A d \in Gone : d < h) /\ (connfd # -1 => h < connfd)
  BY <1>2 DEF OrderInv, Ordered
<1>5. h \notin Gone
  BY <1>1, <1>2, <1>4, ConnFacts
<1>6. Ordered'
  BY <1>1, <1>2, <1>3, <1>4, WorkersFacts
     DEF OrderInv, Ordered, SignalMain, config
<1>7. Complete'
  BY <1>2, <1>3 DEF OrderInv, Complete
<1> QED BY <1>2, <1>5, <1>6, <1>7 DEF h

\* server_request, called or woken, keeps the order.
LEMMA PushKeepsOrder ==
  ASSUME PoolInv, OrderInv, NEW fd \in Conns, Push(fd), nr_threads > 0,
         UNCHANGED <<config, taken, served, dropped>>,
         accepted' \in Nat, accepted <= accepted', fd <= accepted',
         \A c \in InQueue \cup Gone : c < fd,
         1 .. accepted' \subseteq InQueue \cup Gone \cup {fd}
  PROVE  OrderInv'
<1>1. TypeOK /\ Increasing(connection_requests) /\ UNCHANGED Workers
  BY DEF PoolInv, OrderInv, Ordered, Workers, config
<1>2. UNCHANGED <<BeingServed, Gone>>
  BY <1>1 DEF BeingServed, Gone
<1>3. InQueue \subseteq Nat /\ Gone \subseteq Nat /\ fd \in Nat /\ fd # -1 /\ accepted \in Nat
  BY <1>1, ConnFacts
<1>4. Apart'
  <2>1. \A w \in Workers : pc'[w] # "serving" => pc[w] # "serving"
    <3>1. pc' = pc \/ \E v \in Waiting : pc' = [pc EXCEPT ![v] = "woken"]
      BY DEF Push, SignalWork
    <3> QED BY <1>1, <3>1 DEF Waiting, TypeOK
  <2> QED BY <1>1, <2>1 DEF OrderInv, Apart
<1>5. CASE connection_requests' = pushConnection(fd) /\ connfd' = -1
  <2>1. InQueue' = InQueue \cup {fd} /\ Increasing(connection_requests')
    BY <1>1, <1>5, PushOrder
  <2>2. Ordered'
    <3>1. \A c \in InQueue' : c <= accepted' /\ \A d \in Gone' : d < c
      BY <1>2, <1>3, <2>1 DEF OrderInv, Ordered
    <3>2. \A d \in Gone' : d <= accepted'
      BY <1>2, <1>3 DEF OrderInv, Ordered
    <3> QED BY <1>1, <1>5, <2>1, <3>1, <3>2, WorkersFacts DEF Ordered, config
  <2>3. Complete'
    BY <1>2, <2>1 DEF Complete
  <2> QED BY <1>4, <2>2, <2>3 DEF OrderInv
<1>6. CASE connection_requests' = connection_requests /\ connfd' = fd /\ main' = "waiting"
  <2>1. InQueue' = InQueue
    BY <1>6 DEF InQueue
  <2>2. Ordered'
    <3>1. \A c \in InQueue' : c <= accepted' /\ \A d \in Gone' : d < c
      BY <1>2, <1>3, <2>1 DEF OrderInv, Ordered
    <3>2. \A d \in Gone' : d <= accepted'
      BY <1>2, <1>3 DEF OrderInv, Ordered
    <3> QED BY <1>1, <1>2, <1>6, <2>1, <3>1, <3>2, WorkersFacts DEF Ordered, config
  <2>3. Complete'
    BY <1>2, <1>6, <2>1 DEF Complete
  <2> QED BY <1>4, <2>2, <2>3 DEF OrderInv
<1> QED BY <1>5, <1>6 DEF Push

-----------------------------------------------------------------------------
(* The inductive invariant.                                                 *)

\* Nothing has been accepted at first.
LEMMA InitOrder == Init => OrderInv
<1> SUFFICES ASSUME Init PROVE OrderInv
  OBVIOUS
<1>1. InQueue = {} /\ BeingServed = {} /\ Gone = {} /\ 1 .. accepted = {}
  BY DEF Init, InQueue, BeingServed, Gone
<1>2. Ordered
  BY <1>1 DEF Init, Ordered, Increasing
<1>3. Apart
  BY DEF Init, Apart
<1> QED BY <1>1, <1>2, <1>3 DEF OrderInv, Complete

\* A step that only changes where threads are.
LEMMA SameConnections ==
  ASSUME PoolInv, OrderInv,
         UNCHANGED <<config, connection_requests, taken, connfd, accepted, served, dropped>>,
         connfd # -1 => main' \in {"waiting", "woken"},
         \A w \in Workers : pc[w] = "serving" => pc'[w] = "serving"
  PROVE  OrderInv'
<1>1. UNCHANGED <<Workers, InQueue, BeingServed, Gone>>
  BY DEF Workers, InQueue, BeingServed, Gone, config
<1> QED BY <1>1 DEF OrderInv, Ordered, Apart, Complete, config

\* accept and server_request.
LEMMA AcceptKeepsOrder ==
  ASSUME PoolInv, OrderInv, Accept
  PROVE  OrderInv'
<1> DEFINE fd == accepted + 1
<1>1. TypeOK /\ accepted \in Nat /\ fd \in Conns /\ connfd = -1
  BY ConnFacts, WorkersFacts DEF Accept, PoolInv, OrderInv, Ordered, TypeOK, Conns
<1>2. InQueue \subseteq Nat /\ Gone \subseteq Nat
  BY <1>1, ConnFacts
<1>3. \A c \in InQueue \cup Gone : c < fd
  BY <1>1, <1>2 DEF OrderInv, Ordered
<1>4. 1 .. fd \subseteq InQueue \cup Gone \cup {fd}
  <2>1. 1 .. fd = 1 .. accepted \cup {fd} /\ connfd \notin 1 .. accepted
    BY <1>1
  <2> QED BY <2>1 DEF OrderInv, Complete
<1>5. CASE nr_threads > 0
  <2>1. /\ Push(fd)
        /\ UNCHANGED <<config, taken, served, dropped>>
        /\ accepted' = fd
    BY <1>5 DEF Accept
  <2>2. accepted' \in Nat /\ accepted <= accepted' /\ fd <= accepted'
    BY <1>1, <2>1
  <2> QED BY <1>1, <1>3, <1>4, <1>5, <2>1, <2>2, PushKeepsOrder
<1>6. CASE nr_threads = 0
  <2>1. /\ UNCHANGED <<config, connection_requests, pc, connfd, taken, dropped>>
        /\ served' = served \cup {fd} /\ accepted' = fd
    BY <1>6 DEF Accept
  <2>2. Workers = {} /\ Workers' = {}
    BY <1>6, <2>1 DEF Workers, config
  <2>3. InQueue = {} /\ InQueue' = {} /\ Gone' = Gone \cup {fd}
    BY <1>6, <2>1, <2>2 DEF OrderInv, Ordered, InQueue, Gone, BeingServed
  <2>4. Ordered'
    BY <1>1, <1>2, <1>3, <2>1, <2>3 DEF OrderInv, Ordered, config
  <2>5. fd \notin Gone
    BY <1>1, <1>2, <1>3
  <2>6. Apart'
    BY <2>1, <2>2, <2>5 DEF OrderInv, Apart, Gone
  <2>7. Complete'
    BY <1>4, <2>1, <2>3 DEF Complete
  <2> QED BY <2>4, <2>6, <2>7 DEF OrderInv
<1> QED BY <1>1, <1>5, <1>6, WorkersFacts

\* server_request, woken, tries again with the connection it holds.
LEMMA RetryKeepsOrder ==
  ASSUME PoolInv, OrderInv, Retry
  PROVE  OrderInv'
<1>1. TypeOK /\ connfd \in Conns /\ connfd # -1
  BY DEF Retry, PoolInv, HoldsConnection, TypeOK
<1>2. connfd <= accepted /\ accepted \in Nat /\ \A c \in InQueue \cup Gone : c < connfd
  BY <1>1, ConnFacts DEF OrderInv, Ordered
<1>3. nr_threads > 0
  BY <1>1, WorkersFacts DEF OrderInv, Ordered
<1>4. 1 .. accepted \subseteq InQueue \cup Gone \cup {connfd}
  BY DEF OrderInv, Complete
<1>5. /\ Push(connfd) /\ accepted' = accepted
      /\ UNCHANGED <<config, taken, served, dropped>>
  BY DEF Retry
<1>6. accepted' \in Nat /\ accepted <= accepted' /\ connfd <= accepted'
  BY <1>2, <1>5
<1> QED BY <1>1, <1>2, <1>3, <1>4, <1>5, <1>6, PushKeepsOrder

\* A worker takes a connection, answers it, or drops it when it leaves.
LEMMA WorkerKeepsOrder ==
  ASSUME PoolInv, OrderInv, NEW w \in Workers, WorkerStep(w)
  PROVE  OrderInv'
<1> DEFINE h == Head(connection_requests)
<1>1. TypeOK /\ nr_threads > 0 /\ UNCHANGED Workers /\ UNCHANGED config
  BY WorkersFacts DEF PoolInv, Workers, WorkerStep, Wait, Take, Leave, Serve, config
<1>2. CASE Wait(w)
  BY <1>1, <1>2, SameConnections DEF Wait, Looks, TypeOK, OrderInv, Ordered
<1>3. CASE Take(w)
  <2>1. taken[w] = -1 /\ taken' = [taken EXCEPT ![w] = h] /\ UNCHANGED <<served, dropped>>
    BY <1>3 DEF Take, Looks, OrderInv, Apart
  <2>2. h \in Conns
    BY <1>1, <1>3, QueueFacts DEF Take
  <2>3. BeingServed' = BeingServed \cup {h}
    <3>1. taken \in [Workers -> Conns \cup {-1}] /\ h # -1
      BY <1>1, <2>2, ConnFacts DEF TypeOK
    <3> HIDE DEF h
    <3>2. taken'[w] = h /\ \A v \in Workers : v # w => taken'[v] = taken[v]
      BY <2>1, <3>1
    <3> QED BY <1>1, <2>1, <3>1, <3>2 DEF BeingServed
  <2>4. Gone' = Gone \cup {h}
    BY <2>1, <2>3 DEF Gone
  <2>5. Ordered' /\ Complete' /\ h \in Conns \ Gone
    BY <1>1, <1>3, <2>4, LeavesInOrder DEF Take
  <2>6. Apart'
    <3>1. \A v \in Workers : taken[v] # h
      BY <1>1, <2>5, ConnFacts DEF Gone, BeingServed
    <3>2. h \notin served \cup dropped
      BY <2>5 DEF Gone
    <3>3. \A v \in Workers : v # w => pc'[v] = pc[v] /\ taken'[v] = taken[v]
      BY <1>1, <1>3 DEF Take, TypeOK
    <3>4. pc'[w] = "serving" /\ taken'[w] = h
      BY <1>1, <1>3 DEF Take, TypeOK
    <3> HIDE DEF h
    <3> QED BY <1>1, <2>1, <3>1, <3>2, <3>3, <3>4 DEF OrderInv, Apart
  <2> QED BY <2>5, <2>6 DEF OrderInv
<1>4. CASE Leave(w) /\ connection_requests # <<>>
  <2>1. dropped' = dropped \cup {h} /\ UNCHANGED <<served, taken>>
    BY <1>4 DEF Leave
  <2>2. BeingServed' = BeingServed /\ Gone' = Gone \cup {h}
    BY <1>1, <2>1 DEF BeingServed, Gone
  <2>3. Ordered' /\ Complete' /\ h \in Conns \ Gone
    BY <1>1, <1>4, <2>2, LeavesInOrder DEF Leave
  <2>4. Apart'
    <3>1. \A v \in Workers : taken[v] # h
      BY <1>1, <2>3, ConnFacts DEF Gone, BeingServed
    <3>2. h \notin served
      BY <2>3 DEF Gone
    <3>3. \A v \in Workers : pc'[v] # "serving" => pc[v] # "serving"
      BY <1>1, <1>4 DEF Leave, Looks, TypeOK
    <3> HIDE DEF h
    <3> QED BY <1>1, <2>1, <3>1, <3>2, <3>3 DEF OrderInv, Apart
  <2> QED BY <2>3, <2>4 DEF OrderInv
<1>5. CASE Leave(w) /\ connection_requests = <<>>
  <2>1. \A v \in Workers : pc[v] = "serving" => pc'[v] = "serving"
    BY <1>1, <1>5 DEF Leave, Looks, TypeOK
  <2>2. connfd # -1 => main' \in {"waiting", "woken"}
    BY <1>5 DEF Leave, SignalMain, OrderInv, Ordered
  <2> QED BY <1>1, <1>5, <2>1, <2>2, SameConnections DEF Leave
<1>6. CASE Serve(w)
  <2> DEFINE c == taken[w]
  <2>1. c \in Conns /\ c # -1
    BY <1>1, <1>6 DEF Serve, PoolInv, HoldsConnection, TypeOK
  <2>2. /\ taken'[w] = -1 /\ pc'[w] = "start" /\ served' = served \cup {c}
        /\ \A v \in Workers : v # w => taken'[v] = taken[v] /\ pc'[v] = pc[v]
        /\ UNCHANGED <<connection_requests, connfd, accepted, main, dropped>>
    BY <1>1, <1>6 DEF Serve, TypeOK
  <2>3. c \in BeingServed
    BY <2>1 DEF BeingServed
  <2>4. BeingServed' \subseteq BeingServed /\ BeingServed \subseteq BeingServed' \cup {c}
    <3>1. BeingServed' = {taken'[v] : v \in Workers} \ {-1}
      BY <1>1 DEF BeingServed
    <3> QED BY <2>2, <3>1 DEF BeingServed
  <2>5. Gone' = Gone /\ InQueue' = InQueue
    BY <2>2, <2>3, <2>4 DEF Gone, InQueue
  <2>6. Apart'
    <3>1. \A v \in Workers : v # w => taken[v] # c
      BY <2>1 DEF OrderInv, Apart
    <3>2. c \notin dropped
      BY DEF OrderInv, Apart
    <3>3. -1 \notin served' \cup dropped'
      BY <1>1, <2>1, <2>2, ConnFacts DEF Gone
    <3> HIDE DEF c
    <3> QED BY <1>1, <2>1, <2>2, <3>1, <3>2, <3>3 DEF OrderInv, Apart
  <2> QED BY <1>1, <2>2, <2>5, <2>6 DEF OrderInv, Ordered, Complete, config
<1> QED BY <1>2, <1>3, <1>4, <1>5, <1>6 DEF WorkerStep

\* server_exit and spurious wakeups touch no connection.
LEMMA OthersKeepOrder ==
  ASSUME PoolInv, OrderInv, Exit \/ Join \/ Finish \/ SpuriousWakeup
  PROVE  OrderInv'
<1>1. TypeOK
  BY DEF PoolInv
<1>2. CASE Exit \/ Join \/ Finish
  <2>1. connfd = -1
    BY <1>2 DEF Exit, Join, Finish, OrderInv, Ordered
  <2>2. \A w \in Workers : pc[w] = "serving" => pc'[w] = "serving"
    BY <1>2 DEF Exit, Join, Finish
  <2> QED BY <1>2, <2>1, <2>2, SameConnections DEF Exit, Join, Finish
<1>3. CASE SpuriousWakeup
  <2>1. connfd # -1 => main' \in {"waiting", "woken"}
    BY <1>3 DEF SpuriousWakeup, OrderInv, Ordered
  <2>2. \A w \in Workers : pc[w] = "serving" => pc'[w] = "serving"
    BY <1>1, <1>3 DEF SpuriousWakeup, TypeOK
  <2> QED BY <1>3, <2>1, <2>2, SameConnections DEF SpuriousWakeup
<1> QED BY <1>2, <1>3

\* The facts together: the invariant is inductive, given PoolInv.
LEMMA OrderInvariant == Spec => [](TypeOK /\ OrderInv)
<1>1. PoolInv /\ OrderInv /\ [Next]_vars => OrderInv'
  <2> SUFFICES ASSUME PoolInv, OrderInv, [Next]_vars PROVE OrderInv'
    OBVIOUS
  <2>1. CASE UNCHANGED vars
    BY <2>1, SameConnections DEF vars, OrderInv, Ordered
  <2> QED BY <2>1, AcceptKeepsOrder, RetryKeepsOrder, WorkerKeepsOrder, OthersKeepOrder
          DEF Next, MainStep, Terminated
<1>2. PoolInv => TypeOK
  BY DEF PoolInv
<1> QED BY <1>1, <1>2, InitOrder, PoolInvariant, PTL DEF Spec

-----------------------------------------------------------------------------
(* The theorems.                                                            *)

\* The workers get the connections in the order in which they arrived, whoever
\* is woken, signalled or not, and whoever comes first to the queue.
THEOREM PoolInOrder == Spec => []InArrivalOrder
<1>1. TypeOK /\ OrderInv => InArrivalOrder
  BY DEF OrderInv, Ordered, Increasing, InArrivalOrder, Gone
<1> QED BY <1>1, OrderInvariant, PTL

\* Every accepted connection is in exactly one place: none is lost, served twice
\* or both dropped and served, also while the server exits.
THEOREM PoolLosesNone == Spec => []EachInOnePlace
<1>1. TypeOK /\ OrderInv => EachInOnePlace
  <2> SUFFICES ASSUME TypeOK, OrderInv PROVE EachInOnePlace
    OBVIOUS
  <2> DEFINE held == {connfd} \ {-1}
             places == <<held, InQueue, BeingServed, served, dropped>>
  <2>1. /\ InQueue \subseteq Conns /\ Gone \subseteq Conns /\ Conns \subseteq Nat
        /\ -1 \notin Conns /\ accepted \in Nat /\ held \subseteq Conns
    BY ConnFacts DEF TypeOK
  <2>2. \A c \in Conns : c <= accepted => c \in 1 .. accepted
    BY <2>1, WorkersFacts DEF Conns
  <2>3. held \cup InQueue \cup Gone = 1 .. accepted
    <3>1. held \cup InQueue \cup Gone \subseteq 1 .. accepted
      BY <2>1, <2>2 DEF OrderInv, Ordered
    <3>2. 1 .. accepted \subseteq held \cup InQueue \cup Gone
      BY <2>1 DEF OrderInv, Complete
    <3> QED BY <3>1, <3>2
  <2>4. held \cap (InQueue \cup Gone) = {} /\ InQueue \cap Gone = {}
    <3>1. \A c \in InQueue, d \in Gone : d < c /\ c \in Nat /\ d \in Nat
      BY <2>1 DEF OrderInv, Ordered
    <3>2. \A c \in InQueue \cup Gone, d \in held : c < d /\ c \in Nat /\ d \in Nat
      BY <2>1 DEF OrderInv, Ordered
    <3>3. \A c, d \in Nat : c < d => c # d
      OBVIOUS
    <3> HIDE DEF held
    <3>4. InQueue \cap Gone = {}
      BY <3>1, <3>3
    <3>5. held \cap (InQueue \cup Gone) = {}
      BY <3>2, <3>3
    <3> QED BY <3>4, <3>5
  <2>5. /\ BeingServed \cap (served \cup dropped) = {} /\ served \cap dropped = {}
        /\ \A v, w \in Workers : taken[v] = taken[w] /\ taken[v] # -1 => v = w
    BY DEF OrderInv, Apart, BeingServed
  <2>6. \A i, j \in DOMAIN connection_requests :
          connection_requests[i] = connection_requests[j] => i = j
    <3>1. DOMAIN connection_requests \subseteq Nat
      BY LenProperties DEF TypeOK
    <3>2. \A i \in DOMAIN connection_requests : connection_requests[i] \in Nat
      BY <2>1 DEF InQueue
    <3> QED BY <3>1, <3>2 DEF OrderInv, Ordered, Increasing
  <2> HIDE DEF held
  <2>7. UNION {places[i] : i \in 1 .. 5} = held \cup InQueue \cup Gone
    <3>1. {places[i] : i \in 1 .. 5} = {held, InQueue, BeingServed, served, dropped}
      <4>1. 1 .. 5 = {1, 2, 3, 4, 5}
        OBVIOUS
      <4> QED BY <4>1
    <3> QED BY <3>1 DEF Gone
  <2>8. \A i, j \in 1 .. 5 : i # j => places[i] \cap places[j] = {}
    <3>1. /\ held \cap InQueue = {} /\ held \cap BeingServed = {} /\ held \cap served = {}
          /\ held \cap dropped = {} /\ InQueue \cap BeingServed = {}
          /\ InQueue \cap served = {} /\ InQueue \cap dropped = {}
          /\ BeingServed \cap served = {} /\ BeingServed \cap dropped = {}
          /\ served \cap dropped = {}
      BY <2>4, <2>5 DEF Gone
    <3> QED BY <3>1
  <2> QED BY <2>3, <2>5, <2>6, <2>7, <2>8 DEF EachInOnePlace, held
<1> QED BY <1>1, OrderInvariant, PTL
=============================================================================
