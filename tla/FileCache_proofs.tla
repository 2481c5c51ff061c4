-------------------------- MODULE FileCache_proofs --------------------------
(***************************************************************************)
(* A cached object has not been freed, proved for any number of requests   *)
(* and files.  Requests free the object they allocated when they find      *)
(* their file cached, and evictions free the objects of others; that the   *)
(* two never reach an object in the hash table needs to know where the     *)
(* request that allocated it is.                                           *)
(***************************************************************************)
EXTENDS FileCache, TLAPS

\* Up to its insertion a request has its own object, which nobody else knows.
Owns == {"lookup", "read", "relookup", "insert", "evict", "found", "asleep", "woken",
         "remove"}

OwnObject ==
  \A r \in Requests : pc[r] \in Owns => r \notin mapping /\ (alive => r \notin freed)

CacheInv == pc \in [Requests -> Places] /\ OwnObject /\ CachedNotFreed

\* The object a request still owns is not freed by another request's step, as long
\* as that frees only its own object, or one in the hash table.
LEMMA OthersKeepOwn ==
  ASSUME CacheInv, NEW r \in Requests, RequestStep(r)
  PROVE  \A q \in Requests : q # r /\ pc'[q] \in Owns =>
           q \notin mapping' /\ (alive' => q \notin freed')
<1> SUFFICES ASSUME NEW q \in Requests, q # r, pc'[q] \in Owns
             PROVE  q \notin mapping' /\ (alive' => q \notin freed')
  OBVIOUS
<1> USE DEF CacheInv
<1>1. pc[q] \in Owns
  BY DEF RequestStep, Lookup, Read, Relookup, Insert, Evict, Sleep, Woken, RemoveVictim,
         Enqueue, Send, Dequeue, Signal, UseCached, goto, Owns
<1>2. q \notin mapping /\ (alive => q \notin freed)
  BY <1>1 DEF OwnObject
<1> QED
  BY <1>2 DEF RequestStep, Lookup, Read, Relookup, Insert, Evict, Sleep, Woken, RemoveVictim,
              Enqueue, Send, Dequeue, Signal, UseCached, FreedOnHit, cache

\* A step of the request keeps the invariant.
LEMMA RequestKeeps ==
  ASSUME CacheInv, NEW r \in Requests, RequestStep(r)
  PROVE  CacheInv'
<1> USE DEF CacheInv
<1>1. pc' \in [Requests -> Places]
  BY DEF RequestStep, Lookup, Read, Relookup, Insert, Evict, Sleep, Woken, RemoveVictim,
         Enqueue, Send, Dequeue, Signal, UseCached, goto, Places
<1>2. CASE Lookup(r) \/ Relookup(r)
  <2>1. r \notin mapping /\ r \notin freed
    BY <1>2 DEF Lookup, Relookup, OwnObject, Owns
  <2>2. CachedNotFreed'
    BY <1>2, <2>1 DEF Lookup, Relookup, UseCached, FreedOnHit, CachedNotFreed
  <2>3. pc'[r] \in Owns => r \notin mapping' /\ r \notin freed'
    BY <1>2, <2>1 DEF Lookup, Relookup, UseCached, goto, Owns
  <2> QED BY <1>1, <2>2, <2>3, OthersKeepOwn DEF OwnObject
<1>3. CASE Read(r)
  <2>1. r \notin mapping /\ r \notin freed
    BY <1>3 DEF Read, OwnObject, Owns
  <2>2. CachedNotFreed'
    BY <1>3, <2>1 DEF Read, CachedNotFreed, cache
  <2>3. r \notin mapping' /\ (alive' => r \notin freed')
    BY <1>3, <2>1 DEF Read, cache
  <2> QED BY <1>1, <2>2, <2>3, OthersKeepOwn DEF OwnObject
<1>4. CASE Insert(r)
  <2>1. r \notin mapping /\ r \notin freed
    BY <1>4 DEF Insert, OwnObject, Owns
  <2>2. CachedNotFreed'
    BY <1>4, <2>1 DEF Insert, CachedNotFreed
  <2>3. pc'[r] \in Owns => r \notin mapping' /\ r \notin freed'
    BY <1>4, <2>1 DEF Insert, goto, Owns
  <2> QED BY <1>1, <2>2, <2>3, OthersKeepOwn DEF OwnObject
<1>5. CASE RemoveVictim(r)
  <2>1. r \notin mapping /\ r \notin freed
    BY <1>5 DEF RemoveVictim, OwnObject, Owns
  <2>2. CachedNotFreed'
    BY <1>5 DEF RemoveVictim, CachedNotFreed
  <2>3. r \notin mapping' /\ r \notin freed'
    BY <1>5, <2>1 DEF RemoveVictim
  <2> QED BY <1>1, <2>2, <2>3, OthersKeepOwn DEF OwnObject
<1>6. CASE Evict(r) \/ Sleep(r) \/ Woken(r) \/ Enqueue(r) \/ Send(r) \/ Dequeue(r) \/ Signal(r)
  <2>1. UNCHANGED <<mapping, freed, alive>> /\ (pc'[r] \in Owns => pc[r] \in Owns)
    BY <1>6 DEF Evict, Sleep, Woken, Enqueue, Send, Dequeue, Signal, goto, Owns, cache
  <2> QED BY <1>1, <2>1, OthersKeepOwn DEF OwnObject, CachedNotFreed
<1> QED BY <1>2, <1>3, <1>4, <1>5, <1>6 DEF RequestStep

\* What is in the hash table has not been freed, whoever hits, evicts and reads
\* at the same time, so a hit returns a live object (which an eviction may free
\* before it is sent: that is NoUseAfterFree).
THEOREM CacheHoldsLive == Spec => []CachedNotFreed
<1>1. Init => CacheInv
  BY DEF Init, CacheInv, OwnObject, CachedNotFreed, Places
<1>2. CacheInv /\ [Next]_vars => CacheInv'
  <2> SUFFICES ASSUME CacheInv, [Next]_vars PROVE CacheInv'
    OBVIOUS
  <2>1. ASSUME UNCHANGED <<pc, mapping, freed>>, alive' => alive PROVE CacheInv'
    BY <2>1 DEF CacheInv, OwnObject, CachedNotFreed
  <2>2. ASSUME NEW r \in Requests, SpuriousWakeup(r) PROVE CacheInv'
    BY <2>2 DEF SpuriousWakeup, goto, CacheInv, OwnObject, CachedNotFreed, Owns, Places, cache
  <2>3. CASE DestroyCache
    BY <2>3 DEF DestroyCache, request, CacheInv, OwnObject, CachedNotFreed
  <2> QED BY <2>1, <2>2, <2>3, RequestKeeps
          DEF Next, Crash, Terminated, vars, request, cache
<1>3. CacheInv => CachedNotFreed
  BY DEF CacheInv
<1> QED BY <1>1, <1>2, <1>3, PTL DEF Spec
=============================================================================
