---------------------------- MODULE LinkedLists ----------------------------
(***************************************************************************)
(* The linked lists at the level of their pointers: the ready queue, a wait *)
(* queue and the list of free identifiers of the thread library             *)
(* (threads/thread.c), which share malloc's memory, and the LRU list of the *)
(* web server (webserver/server_thread.c), whose code is that of the ready  *)
(* queue.  A list function is an operator from a memory to the memories it  *)
(* may leave: malloc returns any free cell.                                 *)
(***************************************************************************)
EXTENDS Integers, Sequences, FiniteSets, SequencesExt

CONSTANT N          \* THREAD_MAX_THREADS, or the number of files

ASSUME ListsAssumption == N \in Nat \ {0}

VARIABLES
  program,          \* "threads" or "webserver": whose lists these are
  mem,              \* malloc's memory and the lists' heads
  current_thread_id \* -1 when the program has ended

vars == <<program, mem, current_thread_id>>

Ids == 0 .. N - 1
Cells == 1 .. N
NULL == 0

Memories ==
  [used : SUBSET Cells,                   \* what malloc has given out
   id : [Cells -> Ids \cup {-1}],
   next : [Cells -> Cells \cup {NULL}],
   prev : [Cells -> Cells \cup {NULL}],
   head : Cells \cup {NULL},              \* of readyQueue or LRU_Policy
   tail : Cells \cup {NULL},
   wait : Cells \cup {NULL},              \* the dummy head's next
   ids : Cells \cup {NULL}]               \* availableThreadIds.head

\* malloc and the initialisation of the new element.
Malloc(m, id) ==
  {[cell |-> c, mem |-> [m EXCEPT !.used = @ \cup {c}, !.id[c] = id, !.next[c] = NULL,
                                  !.prev[c] = NULL]] : c \in Cells \ m.used}

\* What a freed cell holds does not matter: NothingDangles.
Free(m, c) ==
  [m EXCEPT !.used = @ \ {c}, !.id[c] = -1, !.next[c] = NULL, !.prev[c] = NULL]

\* The cells from c on, following a pointer field, at most k of them.
RECURSIVE Chain(_, _, _)
Chain(field, c, k) ==
  IF c = NULL \/ k = 0 THEN <<>> ELSE <<c>> \o Chain(field, field[c], k - 1)

CellsFrom(m, c) == Chain(m.next, c, N)
IdsFrom(m, c) == [i \in DOMAIN CellsFrom(m, c) |-> m.id[CellsFrom(m, c)[i]]]

-----------------------------------------------------------------------------
(* The doubly linked list.  An operator named Bug... is a faulty variant of *)
(* the one that follows it; no module uses it.                              *)

BugNotLinkedBack(m, c) == [m EXCEPT !.next[m.tail] = c, !.tail = c]

\* The new element c goes behind the tail.
BehindTail(m, c) == [m EXCEPT !.next[m.tail] = c, !.prev[c] = m.tail, !.tail = c]

addToTail(m, id) ==
  {IF m.tail = NULL THEN [n.mem EXCEPT !.head = n.cell, !.tail = n.cell]
                    ELSE BehindTail(n.mem, n.cell) : n \in Malloc(m, id)}

Alone(m, c) == m.prev[c] = NULL /\ m.next[c] = NULL

Emptied(m) == [m EXCEPT !.head = NULL, !.tail = NULL]

RemoveHead(m) ==
  IF Alone(m, m.head) THEN Free(Emptied(m), m.head)
  ELSE Free([m EXCEPT !.head = m.next[m.head], !.prev[m.next[m.head]] = NULL], m.head)

RemoveTail(m) ==
  IF Alone(m, m.tail) THEN Free(Emptied(m), m.tail)
  ELSE Free([m EXCEPT !.tail = m.prev[m.tail], !.next[m.prev[m.tail]] = NULL], m.tail)

BugForgetsFree(m, c) ==
  [m EXCEPT !.next[m.prev[c]] = m.next[c], !.prev[m.next[c]] = m.prev[c]]

RemoveMiddle(m, c) ==
  Free([m EXCEPT !.next[m.prev[c]] = m.next[c], !.prev[m.next[c]] = m.prev[c]], c)

\* The results are the memory and the identifier, or -1.
removeNextReadyThread(m) ==
  IF m.head = NULL THEN [mem |-> m, ret |-> -1]
  ELSE [mem |-> RemoveHead(m), ret |-> m.id[m.head]]

removeFromReadyQueue(m, id) ==
  LET found == SelectSeq(CellsFrom(m, m.head), LAMBDA c : m.id[c] = id)
  IN CASE m.head = NULL       -> [mem |-> m, ret |-> -1]
       [] m.head # NULL /\ m.id[m.head] = id -> [mem |-> RemoveHead(m), ret |-> id]
       [] m.head # NULL /\ m.id[m.head] # id /\ m.id[m.tail] = id
                              -> [mem |-> RemoveTail(m), ret |-> id]
       [] OTHER               -> IF found = <<>> THEN [mem |-> m, ret |-> -1]
                                 ELSE [mem |-> RemoveMiddle(m, Head(found)), ret |-> id]

\* The same code over the files of the cache.
pushBack(m, info) == addToTail(m, info)
removeLRUFile(m) == removeNextReadyThread(m)
removeFileToBeMovedToBack(m, file_name) == removeFromReadyQueue(m, file_name)

-----------------------------------------------------------------------------
(* The singly linked lists.                                                 *)

BugBeforeFirst(m, c) == [m EXCEPT !.next[c] = m.wait, !.wait = c]

\* The new element c goes behind the last one, which is found by following next.
BehindLast(m, c) ==
  IF m.wait = NULL THEN [m EXCEPT !.wait = c]
  ELSE [m EXCEPT !.next[Last(CellsFrom(m, m.wait))] = c]

pushThreadToWait(m, tid) == {BehindLast(n.mem, n.cell) : n \in Malloc(m, tid)}

popHeadThreadWait(m) ==
  IF m.wait = NULL THEN [mem |-> m, ret |-> -1]
  ELSE [mem |-> Free([m EXCEPT !.wait = m.next[m.wait]], m.wait), ret |-> m.id[m.wait]]

addToHeadId(m, id) ==
  {[n.mem EXCEPT !.next[n.cell] = m.ids, !.ids = n.cell] : n \in Malloc(m, id)}

removeFromHead(m) ==
  IF m.ids = NULL THEN [mem |-> m, ret |-> -1]
  ELSE [mem |-> Free([m EXCEPT !.ids = m.next[m.ids]], m.ids), ret |-> m.id[m.ids]]

\* thread_wakeup pops one sleeper, or all of them, each into the ready queue.
RECURSIVE Woken(_, _)
Woken(m, all) ==
  LET popped == popHeadThreadWait(m)
      once == addToTail(popped.mem, popped.ret)
  IN IF popped.ret = -1 THEN {m}
     ELSE IF all THEN UNION {Woken(n, all) : n \in once} ELSE once

RECURSIVE Discarded(_)
Discarded(m) == IF m.wait = NULL THEN m ELSE Discarded(popHeadThreadWait(m).mem)

RECURSIVE Destroyed(_)
Destroyed(m) == IF m.head = NULL THEN m ELSE Destroyed(removeLRUFile(m).mem)

-----------------------------------------------------------------------------
(* The calls of the thread library, as far as they concern the lists.       *)

Running(p) == program = p /\ current_thread_id # -1 /\ UNCHANGED program

thread_create ==
  LET new == removeFromHead(mem)
  IN /\ Running("threads")
     /\ new.ret # -1
     /\ mem' \in addToTail(new.mem, new.ret)
     /\ UNCHANGED current_thread_id

\* thread_yield with a thread already taken off the ready queue.
SwitchTo(next) ==
  /\ next.ret # -1
  /\ mem' \in addToTail(next.mem, current_thread_id)
  /\ current_thread_id' = next.ret

thread_yield ==
  /\ Running("threads")
  /\ \/ SwitchTo(removeNextReadyThread(mem))
     \/ \E want_tid \in Ids : SwitchTo(removeFromReadyQueue(mem, want_tid))

\* thread_sleep asks thread_yield for the thread at the head of the ready queue.
thread_sleep ==
  /\ Running("threads")
  /\ mem.head # NULL
  /\ LET next == removeFromReadyQueue(mem, mem.id[mem.head])
     IN /\ mem' \in pushThreadToWait(next.mem, current_thread_id)
        /\ current_thread_id' = next.ret

thread_wakeup ==
  /\ Running("threads")
  /\ \E all \in BOOLEAN : mem' \in Woken(mem, all)
  /\ UNCHANGED current_thread_id

\* The wait queue is a client's, or the exiting thread's own.
thread_exit ==
  /\ Running("threads")
  /\ \E woken \in {mem} \cup Woken(mem, TRUE) :
       \E freed \in addToHeadId(woken, current_thread_id) :
         /\ mem' = removeNextReadyThread(freed).mem
         /\ current_thread_id' = removeNextReadyThread(freed).ret

\* The client makes a new queue afterwards.
wait_queue_destroy ==
  /\ Running("threads")
  /\ mem' = Discarded(mem)
  /\ UNCHANGED current_thread_id

-----------------------------------------------------------------------------
(* The calls of the file cache.                                             *)

\* insert_to_cache has found that the file is not in the cache.
insert_to_cache ==
  /\ Running("webserver")
  /\ \E file \in Ids \ Range(IdsFrom(mem, mem.head)) : mem' \in pushBack(mem, file)
  /\ UNCHANGED current_thread_id

cache_lookup ==
  /\ Running("webserver")
  /\ \E file \in Ids : LET info == removeFileToBeMovedToBack(mem, file)
                       IN info.ret # -1 /\ mem' \in pushBack(info.mem, info.ret)
  /\ UNCHANGED current_thread_id

\* Called only while curr_size > 0, so that the list is not empty.
cache_evict ==
  /\ Running("webserver")
  /\ mem.head # NULL
  /\ mem' = removeLRUFile(mem).mem
  /\ UNCHANGED current_thread_id

destroy_cache ==
  /\ Running("webserver")
  /\ mem' = Destroyed(mem)
  /\ current_thread_id' = -1

Terminated == current_thread_id = -1 /\ UNCHANGED vars

\* thread_init has put the identifiers from 1 on in the list; the LRU list
\* starts empty.
Init ==
  /\ current_thread_id = 0
  /\ program \in {"threads", "webserver"}
  /\ LET free == IF program = "threads" THEN 1 .. N - 1 ELSE {}
     IN mem = [used |-> free,
               id |-> [c \in Cells |-> IF c \in free THEN c ELSE -1],
               next |-> [c \in Cells |-> IF c + 1 \in free /\ c \in free THEN c + 1 ELSE NULL],
               prev |-> [c \in Cells |-> NULL],
               head |-> NULL, tail |-> NULL, wait |-> NULL,
               ids |-> IF 1 \in free THEN 1 ELSE NULL]

Next ==
  \/ thread_create \/ thread_yield \/ thread_sleep \/ thread_wakeup \/ thread_exit
  \/ wait_queue_destroy
  \/ insert_to_cache \/ cache_lookup \/ cache_evict \/ destroy_cache
  \/ Terminated

Spec == Init /\ [][Next]_vars

-----------------------------------------------------------------------------
(* Correctness.                                                             *)

Lists == <<CellsFrom(mem, mem.head), CellsFrom(mem, mem.wait), CellsFrom(mem, mem.ids)>>

\* Nothing dangles and nothing leaks: the cells malloc has given out are the ones
\* on the lists, each on one list and once, so that no list function follows a
\* pointer into a freed element or into one that another list has got since.
NothingDangles ==
  /\ mem \in Memories
  /\ mem.used = UNION {Range(Lists[i]) : i \in 1 .. 3}
  /\ Cardinality(mem.used) = Len(Lists[1]) + Len(Lists[2]) + Len(Lists[3])

\* The ready queue and the LRU list read the same in both directions: following
\* prev from the tail gives the reverse of following next from the head.
BackwardsAgrees == Chain(mem.prev, mem.tail, N) = Reverse(CellsFrom(mem, mem.head))

\* The lists are the sequences that UThreads and FileCache take them for.
Q == INSTANCE Queues WITH
       current <- current_thread_id,
       ready <- IdsFrom(mem, mem.head),
       waiting <- IdsFrom(mem, mem.wait),
       available <- IdsFrom(mem, mem.ids)

ImplementsQueues == Q!Spec
=============================================================================
