----------------------------- MODULE ServerPool -----------------------------
(***************************************************************************)
(* The web server's worker pool (webserver/server_thread.c, server.c): the  *)
(* main thread accepts connections and enters them in a bounded queue, the  *)
(* workers take them from it.  The mutex mp guards the queue and the flag   *)
(* isServerExiting, and both condition variables are used with it, so a     *)
(* critical section, from taking mp to releasing it or waiting, is one      *)
(* step.  What a worker does with a connection is one step here.            *)
(***************************************************************************)
EXTENDS Integers, FiniteSets, Sequences

CONSTANTS
  MaxThreads,   \* bound on the command line's nr_threads
  MaxQueue,     \* bound on its max_requests
  MaxConns      \* bound on the number of clients that connect

ASSUME PoolAssumption == {MaxThreads, MaxQueue, MaxConns} \subseteq Nat

VARIABLES
  nr_threads, max_requests, cached,  \* the command line; cached: max_cache_size > 0
  connection_requests,  \* the queue, head first
  isServerExiting,
  pc,                   \* worker |-> where it is
  taken,                \* worker |-> the connection it serves, or -1
  main,                 \* where the main thread is
  connfd,               \* the connection server_request holds, or -1
  joined,               \* how many threads server_exit has joined
  accepted,             \* how many connections have been accepted
  served, dropped       \* the connections answered, and left without an answer

config == <<nr_threads, max_requests, cached>>
vars == <<config, connection_requests, isServerExiting, pc, taken, main, connfd,
          joined, accepted, served, dropped>>

Workers == 0 .. nr_threads - 1
Conns == 1 .. MaxConns

\* A worker is at the top of its loop, waits in pthread_cond_wait, has been
\* woken there, serves a connection, or has returned.
WorkerPlaces == {"start", "waiting", "woken", "serving", "exited"}

\* The main thread polls, waits in server_request or has been woken there, joins
\* the workers, has returned from server_exit, or has crashed the process.
MainPlaces == {"poll", "waiting", "woken", "joining", "done", "crashed"}

\* The variables have their types, and the queue never outgrows max_requests
\* (pushConnection's test of the capacity).
TypeOK ==
  /\ nr_threads \in 0 .. MaxThreads
  /\ max_requests \in 0 .. MaxQueue
  /\ cached \in BOOLEAN
  /\ connection_requests \in Seq(Conns)
  /\ Len(connection_requests) <= max_requests
  /\ isServerExiting \in BOOLEAN
  /\ pc \in [Workers -> WorkerPlaces]
  /\ taken \in [Workers -> Conns \cup {-1}]
  /\ main \in MainPlaces
  /\ connfd \in Conns \cup {-1}
  /\ joined \in 0 .. max_requests
  /\ accepted \in 0 .. MaxConns
  /\ served \subseteq Conns
  /\ dropped \subseteq Conns

\* server_init, with any command line.
Init ==
  /\ nr_threads \in 0 .. MaxThreads
  /\ max_requests \in 0 .. MaxQueue
  /\ cached \in BOOLEAN
  /\ connection_requests = <<>>
  /\ isServerExiting = FALSE
  /\ pc = [w \in Workers |-> "start"]
  /\ taken = [w \in Workers |-> -1]
  /\ main = "poll"
  /\ connfd = -1
  /\ joined = 0
  /\ accepted = 0
  /\ served = {}
  /\ dropped = {}

-----------------------------------------------------------------------------
(* The queue and the condition variables.  An operator named Bug... is a     *)
(* faulty variant of the one that follows it; no module uses it.             *)

BugCapacityOneMore == Len(connection_requests) > max_requests
atMaxCapacity == Len(connection_requests) = max_requests

BugPopsTwo == SubSeq(connection_requests, 3, Len(connection_requests))
popConnection == Tail(connection_requests)

BugPushesFirst(fd) == <<fd>> \o connection_requests
pushConnection(fd) == Append(connection_requests, fd)

Waiting == {w \in Workers : pc[w] = "waiting"}

BugForgetsWorker(S) == {pc}

\* pthread_cond_signal(&cv_work): one of the waiting workers S, if any, wakes.
SignalWork(S) == IF S = {} THEN {pc} ELSE {[pc EXCEPT ![w] = "woken"] : w \in S}

BugForgetsMain == main

\* pthread_cond_signal(&cv_main).
SignalMain == IF main = "waiting" THEN "woken" ELSE main

-----------------------------------------------------------------------------
(* The main thread.                                                         *)

\* server_request from the point where it holds mp: enter the connection and
\* signal a worker, or wait for room.
Push(fd) ==
  \/ /\ ~atMaxCapacity
     /\ connection_requests' = pushConnection(fd)
     /\ pc' \in SignalWork(Waiting)
     /\ main' = "poll"
     /\ connfd' = -1
  \/ /\ atMaxCapacity
     /\ main' = "waiting"
     /\ connfd' = fd
     /\ UNCHANGED <<connection_requests, pc>>

\* poll reports a client: accept it and call server_request.
Accept ==
  /\ main = "poll"
  /\ accepted < MaxConns
  /\ accepted' = accepted + 1
  /\ \/ /\ nr_threads = 0
        /\ served' = served \cup {accepted + 1}
        /\ UNCHANGED <<connection_requests, pc, main, connfd>>
     \/ /\ nr_threads > 0
        /\ Push(accepted + 1)
        /\ UNCHANGED served
  /\ UNCHANGED <<config, isServerExiting, taken, joined, dropped>>

\* server_request comes out of pthread_cond_wait and tries again.
Retry ==
  /\ main = "woken"
  /\ Push(connfd)
  /\ UNCHANGED <<config, isServerExiting, taken, joined, accepted, served, dropped>>

\* poll reports the exit event: server_exit sets the flag and wakes all workers.
Exit ==
  /\ main = "poll"
  /\ \/ /\ nr_threads = 0
        /\ main' = "done"
        /\ UNCHANGED <<isServerExiting, pc>>
     \/ /\ nr_threads > 0
        /\ isServerExiting' = TRUE
        /\ pc' = [w \in Workers |-> IF pc[w] = "waiting" THEN "woken" ELSE pc[w]]
        /\ main' = "joining"
  /\ UNCHANGED <<config, connection_requests, taken, connfd, joined, accepted,
                 served, dropped>>

BugJoinsOneLess == joined + 1 >= max_requests

\* The loop of joins is done: it runs to max_requests, not to nr_threads.
JoinsDone == joined >= max_requests

\* server_exit joins thread_pool[joined]: it waits for that worker.  Past the
\* end of the array the join reads whatever is there, and may crash.
Join ==
  /\ main = "joining"
  /\ ~JoinsDone
  /\ \/ /\ joined < nr_threads
        /\ pc[joined] = "exited"
        /\ joined' = joined + 1
        /\ UNCHANGED main
     \/ /\ joined >= nr_threads
        /\ \/ joined' = joined + 1 /\ UNCHANGED main
           \/ main' = "crashed" /\ UNCHANGED joined
  /\ UNCHANGED <<config, connection_requests, isServerExiting, pc, taken, connfd,
                 accepted, served, dropped>>

\* server_exit destroys the cache, dereferencing it without a test, and main
\* returns.
Finish ==
  /\ main = "joining"
  /\ JoinsDone
  /\ main' = IF cached THEN "done" ELSE "crashed"
  /\ UNCHANGED <<config, connection_requests, isServerExiting, pc, taken, connfd,
                 joined, accepted, served, dropped>>

-----------------------------------------------------------------------------
(* The workers, do_server_t_request.                                        *)

\* Worker w holds mp and has looked at the queue, at the top of its loop or
\* after pthread_cond_wait.
Looks(w) == main # "crashed" /\ pc[w] \in {"start", "woken"}

\* The flag is looked at after a pop that found a connection, and after every
\* wait.
Leaves(w) == isServerExiting /\ (pc[w] = "woken" \/ connection_requests # <<>>)

Wait(w) ==
  /\ Looks(w)
  /\ connection_requests = <<>>
  /\ ~Leaves(w)
  /\ pc' = [pc EXCEPT ![w] = "waiting"]
  /\ UNCHANGED <<config, connection_requests, isServerExiting, taken, main, connfd,
                 joined, accepted, served, dropped>>

Take(w) ==
  /\ Looks(w)
  /\ connection_requests # <<>>
  /\ ~Leaves(w)
  /\ connection_requests' = popConnection
  /\ taken' = [taken EXCEPT ![w] = Head(connection_requests)]
  /\ pc' = [pc EXCEPT ![w] = "serving"]
  /\ main' = SignalMain
  /\ UNCHANGED <<config, isServerExiting, connfd, joined, accepted, served, dropped>>

\* A worker that leaves drops the connection it has just taken.
Leave(w) ==
  /\ Looks(w)
  /\ Leaves(w)
  /\ \/ /\ connection_requests # <<>>
        /\ connection_requests' = popConnection
        /\ dropped' = dropped \cup {Head(connection_requests)}
     \/ /\ connection_requests = <<>>
        /\ UNCHANGED <<connection_requests, dropped>>
  /\ pc' = [pc EXCEPT ![w] = "exited"]
  /\ main' = SignalMain
  /\ UNCHANGED <<config, isServerExiting, taken, connfd, joined, accepted, served>>

\* do_server_request.
Serve(w) ==
  /\ main # "crashed"
  /\ pc[w] = "serving"
  /\ served' = served \cup {taken[w]}
  /\ taken' = [taken EXCEPT ![w] = -1]
  /\ pc' = [pc EXCEPT ![w] = "start"]
  /\ UNCHANGED <<config, connection_requests, isServerExiting, main, connfd, joined,
                 accepted, dropped>>

\* pthread_cond_wait may also return without a signal.
SpuriousWakeup ==
  /\ main # "crashed"
  /\ \/ \E w \in Workers :
          /\ pc[w] = "waiting"
          /\ pc' = [pc EXCEPT ![w] = "woken"]
          /\ UNCHANGED main
     \/ main = "waiting" /\ main' = "woken" /\ UNCHANGED pc
  /\ UNCHANGED <<config, connection_requests, isServerExiting, taken, connfd, joined,
                 accepted, served, dropped>>

\* The process has ended, with a crash or with every thread.
Terminated ==
  /\ \/ main = "crashed"
     \/ main = "done" /\ \A w \in Workers : pc[w] = "exited"
  /\ UNCHANGED vars

WorkerStep(w) == Wait(w) \/ Take(w) \/ Leave(w) \/ Serve(w)
MainStep == Retry \/ Join \/ Finish

Next ==
  \/ Accept \/ Exit \/ MainStep
  \/ \E w \in Workers : WorkerStep(w)
  \/ SpuriousWakeup
  \/ Terminated

Spec == Init /\ [][Next]_vars

\* do_server_request returns: without a cache it shares nothing, reads a file and
\* sends it to a client that reads what it is sent.  With a cache it may wait for
\* ever inside remove_from_cache, and nothing is assumed.
Returns(w) == pc[w] = "serving" => ~cached

\* Every thread that is not blocked keeps running.  Nobody has to connect, to ask
\* for an exit, or to wake a thread without a signal.
Fairness ==
  /\ WF_vars(MainStep)
  /\ \A w \in 0 .. MaxThreads - 1 :
       WF_vars(w \in Workers /\ Returns(w) /\ WorkerStep(w))

FairSpec == Spec /\ Fairness

-----------------------------------------------------------------------------
(* Safety.                                                                  *)

InQueue == {connection_requests[i] : i \in DOMAIN connection_requests}
BeingServed == {taken[w] : w \in Workers} \ {-1}
OnTheWay == {w \in Workers : pc[w] \in {"start", "woken"}}

\* Every accepted connection is in exactly one place: held by server_request, in
\* the queue, with one worker, answered, or dropped by an exiting worker.
EachInOnePlace ==
  LET places == <<{connfd} \ {-1}, InQueue, BeingServed, served, dropped>>
  IN /\ UNION {places[i] : i \in 1 .. 5} = 1 .. accepted
     /\ \A i, j \in 1 .. 5 : i # j => places[i] \cap places[j] = {}
     /\ \A i, j \in DOMAIN connection_requests :
          connection_requests[i] = connection_requests[j] => i = j
     /\ \A v, w \in Workers : taken[v] = taken[w] /\ taken[v] # -1 => v = w

\* Connections are given to the workers in the order in which they arrived.
InArrivalOrder ==
  /\ \A i, j \in DOMAIN connection_requests :
       i < j => connection_requests[i] < connection_requests[j]
  /\ \A c \in InQueue \cup ({connfd} \ {-1}) :
       /\ \A d \in BeingServed \cup served \cup dropped : d < c
       /\ connfd # -1 /\ c # connfd => c < connfd

\* No wakeup of a worker is lost: while a worker waits, every queued connection
\* has a worker that is on its way to the queue.
NoWorkIgnored ==
  Waiting # {} => Len(connection_requests) <= Cardinality(OnTheWay)

\* No wakeup of the main thread is lost: it waits only while the queue is full.
MainWaitsForRoom == main = "waiting" => atMaxCapacity

\* server_exit joins max_requests threads: where there are no more workers than
\* that, all have returned when it returns, and nobody uses what it destroys.
ExitJoinsAll ==
  main = "done" /\ nr_threads <= max_requests => \A w \in Workers : pc[w] = "exited"

-----------------------------------------------------------------------------
(* Liveness.                                                                *)

\* Without a cache and with room for at least one request, a connection that has
\* been accepted is answered, unless the server is told to exit; so
\* server_request returns.
AcceptedServed ==
  \A c \in Conns :
    ~cached /\ accepted >= c /\ (nr_threads > 0 => max_requests > 0)
      ~> c \in served \/ isServerExiting

\* The joins of server_exit return, where it joins no more threads than there are
\* and no request is held up by the cache.
ExitCompletes ==
  main = "joining" /\ max_requests <= nr_threads /\ ~cached ~> JoinsDone
=============================================================================
