------------------------------ MODULE FileCache ------------------------------
(***************************************************************************)
(* The web server's file cache and the requests that use it                 *)
(* (webserver/server_thread.c).  A request allocates a file_data object,    *)
(* and so the object is named after the request; on a hit the request goes  *)
(* on with the cached object instead.  cache_access guards the hash table,  *)
(* the LRU list and curr_size, and stays held while an eviction waits for a *)
(* file that is being sent; inflight_access guards the in-flight list.  The *)
(* hash table is the set of the objects in its chains.  Freed memory keeps  *)
(* its contents until a step that touches it crashes the process.           *)
(***************************************************************************)
EXTENDS Integers, FiniteSets, Sequences, SequencesExt, FiniteSetsExt

CONSTANTS
  Requests,   \* the requests, each served by a worker of its own
  Files,      \* the file names
  Sizes,      \* the sizes a file may have when it is read
  MAX_SIZE,   \* the size of the cache
  NULL

ASSUME CacheAssumption == Sizes \subseteq Nat /\ MAX_SIZE \in Nat \ {0} /\ NULL \notin Requests

VARIABLES
  file,        \* request |-> the file it asks for
  pc,          \* request |-> where it is
  data,        \* request |-> the object it sends
  size,        \* object |-> file_size
  mapping,     \* the objects in the hash table
  LRU_Policy,  \* the objects, least recently used first
  curr_size,
  holder,      \* the request that holds cache_access, or NULL
  victim,      \* the object the holder is evicting, or NULL
  inflight_q,  \* the in-flight list: the requests whose entries it holds
  entry,       \* request |-> the entry (of which request) it waits on or signals
  freed,       \* the objects that have been freed
  freedEntries,  \* the entries that have been freed
  alive        \* FALSE when the process has ended

request == <<file, pc, data, size, entry>>
cache == <<mapping, LRU_Policy, curr_size, holder, victim>>
vars == <<request, cache, inflight_q, freed, freedEntries, alive>>

Places == {"lookup", "read", "relookup", "insert", "evict", "found", "asleep",
           "woken", "remove", "enqueue", "send", "dequeue", "signal", "done"}

\* The variables have their types, and curr_size stays within the cache.
TypeOK ==
  /\ file \in [Requests -> Files]
  /\ pc \in [Requests -> Places]
  /\ data \in [Requests -> Requests]
  /\ size \in [Requests -> Sizes \cup {0}]
  /\ mapping \subseteq Requests
  /\ LRU_Policy \in Seq(Requests)
  /\ curr_size \in 0 .. MAX_SIZE
  /\ holder \in Requests \cup {NULL}
  /\ victim \in Requests \cup {NULL}
  /\ inflight_q \in Seq(Requests)
  /\ entry \in [Requests -> Requests \cup {NULL}]
  /\ freed \subseteq Requests
  /\ freedEntries \subseteq Requests
  /\ alive \in BOOLEAN

Init ==
  /\ file \in [Requests -> Files]
  /\ pc = [r \in Requests |-> "lookup"]
  /\ data = [r \in Requests |-> r]
  /\ size = [r \in Requests |-> 0]
  /\ mapping = {}
  /\ LRU_Policy = <<>>
  /\ curr_size = 0
  /\ holder = NULL
  /\ victim = NULL
  /\ inflight_q = <<>>
  /\ entry = [r \in Requests |-> NULL]
  /\ freed = {}
  /\ freedEntries = {}
  /\ alive = TRUE

-----------------------------------------------------------------------------
(* The lists.  An operator named Bug... is a faulty variant of the one that  *)
(* follows it; no module uses it.                                            *)

\* The first element of list q whose file is f.
First(q, f) == q[CHOOSE i \in DOMAIN q : file[q[i]] = f /\ \A j \in 1 .. i - 1 : file[q[j]] # f]

BugKeepsLast(q, f) == IF Len(q) > 1 THEN Remove(q, First(q, f)) ELSE q

\* removeFileToBeMovedToBack and remove_from_queue: list q without that element.
WithoutFirst(q, f) == Remove(q, First(q, f))

Holds(q, f) == \E i \in DOMAIN q : file[q[i]] = f

BugMovesCopy(f) == Append(LRU_Policy, First(LRU_Policy, f))

\* cache_lookup of a file that is cached.
MovedToBack(f) == Append(WithoutFirst(LRU_Policy, f), First(LRU_Policy, f))

BugFitsOneMore(n) == curr_size + n <= MAX_SIZE + 1
Fits(n) == curr_size + n <= MAX_SIZE

BugKeepsSize(o) == curr_size
SizeWithout(o) == curr_size - size[o]

-----------------------------------------------------------------------------
(* do_server_request with a cache.                                          *)

goto(r, p) == pc' = [pc EXCEPT ![r] = p]

BugFreesCached(r) == First(LRU_Policy, file[r])

\* On a hit, free(data) before data is set to the cached object.
FreedOnHit(r) == r

\* A request that finds its file frees its own object and takes the cached one.
UseCached(r) ==
  /\ LRU_Policy' = MovedToBack(file[r])
  /\ data' = [data EXCEPT ![r] = First(LRU_Policy, file[r])]
  /\ freed' = freed \cup {FreedOnHit(r)}
  /\ goto(r, "enqueue")

Lookup(r) ==
  /\ alive
  /\ pc[r] = "lookup"
  /\ holder = NULL
  /\ \/ /\ Holds(LRU_Policy, file[r])
        /\ UseCached(r)
     \/ /\ ~Holds(LRU_Policy, file[r])
        /\ goto(r, "read")
        /\ UNCHANGED <<LRU_Policy, data, freed>>
  /\ UNCHANGED <<file, size, entry, mapping, curr_size, holder, victim, inflight_q,
                 freedEntries, alive>>

\* request_readfile, outside of the lock.  When the file cannot be read the
\* request is destroyed, and then, past the label done, destroyed again: that
\* closes a closed descriptor and frees a freed object, and ends the process.
Read(r) ==
  /\ alive
  /\ pc[r] = "read"
  /\ \/ /\ size' \in {[size EXCEPT ![r] = n] : n \in Sizes}
        /\ goto(r, "relookup")
        /\ UNCHANGED <<freed, alive>>
     \/ /\ freed' = freed \cup {r}
        /\ alive' = FALSE
        /\ UNCHANGED <<size, pc>>
  /\ UNCHANGED <<file, data, entry, cache, inflight_q, freedEntries>>

\* The second lookup: another request may have inserted the file meanwhile.
Relookup(r) ==
  /\ alive
  /\ pc[r] = "relookup"
  /\ holder = NULL
  /\ \/ /\ Holds(LRU_Policy, file[r])
        /\ UseCached(r)
        /\ UNCHANGED holder
     \/ /\ ~Holds(LRU_Policy, file[r])
        /\ holder' = r
        /\ goto(r, "insert")
        /\ UNCHANGED <<LRU_Policy, data, freed>>
  /\ UNCHANGED <<file, size, entry, mapping, curr_size, victim, inflight_q,
                 freedEntries, alive>>

\* insert_to_cache: refuse a file that is too large or present, insert one that
\* fits, and otherwise take the least recently used file off the list.
Insert(r) ==
  /\ alive
  /\ pc[r] = "insert"
  /\ \/ /\ size[r] > MAX_SIZE \/ \E o \in mapping : file[o] = file[r]
        /\ holder' = NULL
        /\ goto(r, "enqueue")
        /\ UNCHANGED <<mapping, LRU_Policy, curr_size, victim>>
     \/ /\ size[r] <= MAX_SIZE /\ \A o \in mapping : file[o] # file[r]
        /\ Fits(size[r])
        /\ mapping' = mapping \cup {r}
        /\ LRU_Policy' = Append(LRU_Policy, r)
        /\ curr_size' = curr_size + size[r]
        /\ holder' = NULL
        /\ goto(r, "enqueue")
        /\ UNCHANGED victim
     \/ /\ size[r] <= MAX_SIZE /\ \A o \in mapping : file[o] # file[r]
        /\ ~Fits(size[r])
        /\ victim' = Head(LRU_Policy)
        /\ LRU_Policy' = Tail(LRU_Policy)
        /\ goto(r, "evict")
        /\ UNCHANGED <<mapping, curr_size, holder>>
  /\ UNCHANGED <<file, data, size, entry, inflight_q, freed, freedEntries, alive>>

-----------------------------------------------------------------------------
(* remove_from_cache, by a request that holds cache_access.                 *)

\* Is the file in flight?
Evict(r) ==
  /\ alive
  /\ pc[r] = "evict"
  /\ \/ /\ Holds(inflight_q, file[victim])
        /\ entry' = [entry EXCEPT ![r] = First(inflight_q, file[victim])]
        /\ goto(r, "found")
     \/ /\ ~Holds(inflight_q, file[victim])
        /\ goto(r, "remove")
        /\ UNCHANGED entry
  /\ UNCHANGED <<file, data, size, cache, inflight_q, freed, freedEntries, alive>>

\* pthread_cond_wait on the entry's file_cv.
Sleep(r) ==
  /\ alive
  /\ pc[r] = "found"
  /\ goto(r, "asleep")
  /\ UNCHANGED <<file, data, size, entry, cache, inflight_q, freed, freedEntries, alive>>

\* Awake again: free the entry, and look for another one.
Woken(r) ==
  /\ alive
  /\ pc[r] = "woken"
  /\ freedEntries' = freedEntries \cup {entry[r]}
  /\ entry' = [entry EXCEPT ![r] = NULL]
  /\ goto(r, "evict")
  /\ UNCHANGED <<file, data, size, cache, inflight_q, freed, alive>>

\* Take the object out of the hash table and free it.
RemoveVictim(r) ==
  /\ alive
  /\ pc[r] = "remove"
  /\ \E o \in mapping :
       /\ file[o] = file[victim]
       /\ mapping' = mapping \ {o}
       /\ curr_size' = SizeWithout(o)
       /\ freed' = freed \cup {o}
  /\ victim' = NULL
  /\ goto(r, "insert")
  /\ UNCHANGED <<file, data, size, entry, LRU_Policy, holder, inflight_q,
                 freedEntries, alive>>

-----------------------------------------------------------------------------
(* Sending.                                                                 *)

\* add_to_queue.
Enqueue(r) ==
  /\ alive
  /\ pc[r] = "enqueue"
  /\ inflight_q' = Append(inflight_q, r)
  /\ goto(r, "send")
  /\ UNCHANGED <<file, data, size, entry, cache, freed, freedEntries, alive>>

\* request_sendfile.
Send(r) ==
  /\ alive
  /\ pc[r] = "send"
  /\ goto(r, "dequeue")
  /\ UNCHANGED <<file, data, size, entry, cache, inflight_q, freed, freedEntries, alive>>

\* remove_from_queue: the first entry for the file, whoever added it.
Dequeue(r) ==
  /\ alive
  /\ pc[r] = "dequeue"
  /\ inflight_q' = WithoutFirst(inflight_q, file[r])
  /\ entry' = [entry EXCEPT ![r] = First(inflight_q, file[r])]
  /\ goto(r, "signal")
  /\ UNCHANGED <<file, data, size, cache, freed, freedEntries, alive>>

\* pthread_cond_signal on that entry's file_cv, and request_destroy.
Signal(r) ==
  /\ alive
  /\ pc[r] = "signal"
  /\ pc' = [q \in Requests |->
              CASE q = r -> "done"
                [] pc[q] = "asleep" /\ entry[q] = entry[r] -> "woken"
                [] OTHER -> pc[q]]
  /\ UNCHANGED <<file, data, size, entry, cache, inflight_q, freed, freedEntries, alive>>

-----------------------------------------------------------------------------
(* The rest of the process.                                                 *)

\* pthread_cond_wait may return without a signal.
SpuriousWakeup(r) ==
  /\ alive
  /\ pc[r] = "asleep"
  /\ goto(r, "woken")
  /\ UNCHANGED <<file, data, size, entry, cache, inflight_q, freed, freedEntries, alive>>

\* The next step of request r uses an object or a list entry that has been freed.
UsesFreed(r) ==
  \/ pc[r] \in {"enqueue", "send", "dequeue"} /\ data[r] \in freed
  \/ pc[r] \in {"found", "asleep", "signal"} /\ entry[r] \in freedEntries
  \/ /\ pc[r] \in {"evict", "dequeue"}
     /\ \E q \in Range(inflight_q) : q \in freedEntries \/ data[q] \in freed

Crash ==
  /\ alive
  /\ \E r \in Requests : UsesFreed(r)
  /\ alive' = FALSE
  /\ UNCHANGED <<request, cache, inflight_q, freed, freedEntries>>

AllDone == \A r \in Requests : pc[r] = "done"

\* server_exit, when the workers have returned: destroy_cache takes one file off
\* the LRU list for every object it finds in the hash table.
DestroyCache ==
  /\ alive
  /\ AllDone
  /\ LRU_Policy' = SubSeq(LRU_Policy, Cardinality(mapping) + 1, Len(LRU_Policy))
  /\ curr_size' = curr_size - MapThenSumSet(LAMBDA o : size[o], mapping)
  /\ freed' = freed \cup mapping
  /\ mapping' = {}
  /\ alive' = FALSE
  /\ UNCHANGED <<request, holder, victim, inflight_q, freedEntries>>

Terminated == ~alive /\ UNCHANGED vars

RequestStep(r) ==
  \/ Lookup(r) \/ Read(r) \/ Relookup(r) \/ Insert(r)
  \/ Evict(r) \/ Sleep(r) \/ Woken(r) \/ RemoveVictim(r)
  \/ Enqueue(r) \/ Send(r) \/ Dequeue(r) \/ Signal(r)

Next ==
  \/ \E r \in Requests : RequestStep(r) \/ SpuriousWakeup(r)
  \/ Crash
  \/ DestroyCache
  \/ Terminated

Spec == Init /\ [][Next]_vars

\* Every worker that is not blocked keeps running.
FairSpec == Spec /\ \A r \in Requests : WF_vars(RequestStep(r))

-----------------------------------------------------------------------------
(* Safety.                                                                  *)

\* curr_size is the size of the files in the hash table (insert_to_cache adds,
\* remove_from_cache and destroy_cache subtract).
SizeAccounted == curr_size = MapThenSumSet(LAMBDA o : size[o], mapping)

\* The LRU list and the hash table hold the same objects, each once, except the
\* one that is being evicted, and one object for a file, although requests read
\* outside of the lock.  So an eviction always finds a file to evict, and a hit in
\* the LRU list is a hit in the hash table.
LRUMatchesCache ==
  /\ Range(LRU_Policy) = mapping \ {victim}
  /\ Len(LRU_Policy) = Cardinality(Range(LRU_Policy))
  /\ victim # NULL => victim \in mapping
  /\ \A o, p \in mapping : file[o] = file[p] => o = p

\* What is cached has not been freed: a hit never returns a freed object.
CachedNotFreed == mapping \cap freed = {}

\* For every file the in-flight list has as many entries as there are requests
\* that send it: each request takes out one entry, not always its own, and finds
\* one (remove_from_queue, whose result is used without a test).
FlightsMatch ==
  \A f \in Files :
    Cardinality({i \in DOMAIN inflight_q : file[inflight_q[i]] = f})
      = Cardinality({r \in Requests : file[r] = f /\ pc[r] \in {"send", "dequeue"}})

\* No request uses memory that an eviction or another request has freed.
NoUseAfterFree == \A r \in Requests : alive => ~UsesFreed(r)

-----------------------------------------------------------------------------
(* Liveness.                                                                *)

\* Every request is answered, as long as the process runs.
EveryRequestAnswered == \A r \in Requests : <>(pc[r] = "done" \/ ~alive)
=============================================================================
