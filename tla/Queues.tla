------------------------------- MODULE Queues -------------------------------
(***************************************************************************)
(* What the linked lists of the thread library and of the web server's LRU *)
(* policy promise: sequences, as UThreads and FileCache use them.          *)
(***************************************************************************)
EXTENDS Integers, Sequences, SequencesExt

CONSTANT Ids        \* thread identifiers, or the names of files

VARIABLES program,  \* "threads" or "webserver": whose lists these are
          current,  \* the running thread, or -1 when the program has ended
          ready,    \* the ready queue, or the LRU list
          waiting,  \* a wait queue
          available \* the identifiers thread_create may use

vars == <<program, current, ready, waiting, available>>

Init ==
  /\ ready = <<>> /\ waiting = <<>> /\ current = 0
  /\ \/ program = "threads" /\ available = [i \in 1 .. Cardinality(Ids) - 1 |-> i]
     \/ program = "webserver" /\ available = <<>>

Running(p) == program = p /\ current # -1 /\ UNCHANGED program

Create ==
  /\ Running("threads") /\ available # <<>>
  /\ ready' = Append(ready, Head(available))
  /\ available' = Tail(available)
  /\ UNCHANGED <<current, waiting>>

\* The i-th ready thread gets the processor; the current one is ready again.
Yield(i) ==
  /\ Running("threads")
  /\ current' = ready[i]
  /\ ready' = Append(RemoveAt(ready, i), current)
  /\ UNCHANGED <<waiting, available>>

Sleep ==
  /\ Running("threads") /\ ready # <<>>
  /\ current' = Head(ready)
  /\ ready' = Tail(ready)
  /\ waiting' = Append(waiting, current)
  /\ UNCHANGED available

\* The first n sleepers are ready, in the order in which they went to sleep.
Wakeup(n) ==
  /\ Running("threads") /\ n <= Len(waiting)
  /\ ready' = ready \o SubSeq(waiting, 1, n)
  /\ waiting' = SubSeq(waiting, n + 1, Len(waiting))
  /\ UNCHANGED <<current, available>>

\* A thread ends and wakes the n threads that wait for it.
Exit(n) ==
  LET runnable == ready \o SubSeq(waiting, 1, n)
  IN /\ Running("threads")
     /\ current' = IF runnable = <<>> THEN -1 ELSE Head(runnable)
     /\ ready' = IF runnable = <<>> THEN <<>> ELSE Tail(runnable)
     /\ waiting' = SubSeq(waiting, n + 1, Len(waiting))
     /\ available' = <<current>> \o available

Discard == Running("threads") /\ waiting' = <<>> /\ UNCHANGED <<current, ready, available>>

\* The LRU list: a file is entered, used again, evicted, or all are dropped.
Insert(x) ==
  /\ Running("webserver") /\ x \notin Range(ready)
  /\ ready' = Append(ready, x) /\ UNCHANGED <<current, waiting, available>>

Use(i) ==
  /\ Running("webserver")
  /\ ready' = Append(RemoveAt(ready, i), ready[i]) /\ UNCHANGED <<current, waiting, available>>

Evict ==
  /\ Running("webserver") /\ ready # <<>>
  /\ ready' = Tail(ready) /\ UNCHANGED <<current, waiting, available>>

Destroy ==
  /\ Running("webserver")
  /\ ready' = <<>> /\ current' = -1 /\ UNCHANGED <<waiting, available>>

Next ==
  \/ Create \/ Sleep \/ Discard \/ Evict \/ Destroy
  \/ \E i \in DOMAIN ready : Yield(i) \/ Use(i)
  \/ Wakeup(1) \/ Wakeup(Len(waiting))
  \/ Exit(0) \/ Exit(Len(waiting))
  \/ \E x \in Ids : Insert(x)

Spec == Init /\ [][Next]_vars
=============================================================================
