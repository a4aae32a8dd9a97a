------------------------- MODULE CacheRefinementProofs -------------------------
(***************************************************************************)
(* Proof that the cache implements its abstract specification: under the  *)
(* mapping AbsStore (each item without its size), every step of Cache is  *)
(* a step of CacheAbstract or leaves the abstract store and clock alone.   *)
(* The work is in Set: its two eviction passes delete items in expiry     *)
(* order, which is what CacheAbstract!MayEvict allows.                    *)
(***************************************************************************)
EXTENDS CacheProofs

(* What an eviction pass (evictExpired, then evictOldest or               *)
(* evictOldestBySize) leaves: its with its expired items and then a set R *)
(* of the remaining ones deleted, R a prefix in expiry order (or empty).  *)
LEMMA EvictionOrder ==
    ASSUME NEW its, ItemMap(its), NEW R,
           LET live == Remove(its, ExpiredKeys(its))
           IN  R = {} \/ OldestFirst(live, R),
           NEW f, f = Remove(Remove(its, ExpiredKeys(its)), R),
           NEW r \in DOMAIN its \ DOMAIN f, NEW s \in DOMAIN f
    PROVE  IsExpired(its[r]) \/ its[r].expiresAt <= its[s].expiresAt
<1> DEFINE live == Remove(its, ExpiredKeys(its))
<1>1. DOMAIN f = DOMAIN live \ R /\ DOMAIN live = DOMAIN its \ ExpiredKeys(its)
  BY DEF Remove
<1>2. CASE r \in ExpiredKeys(its)
  BY <1>2 DEF ExpiredKeys
<1>3. CASE r \notin ExpiredKeys(its)
  <2>0. r \in DOMAIN live /\ r \notin DOMAIN f
    BY <1>1, <1>3
  <2>1. r \in R /\ R # {}
    BY <2>0, <1>1
  <2>2. OldestFirst(live, R)
    BY <2>1
  <2>3. live[r] = its[r] /\ live[s] = its[s] /\ r \in DOMAIN live /\ s \in DOMAIN live \ R
    BY <1>1, <1>3 DEF Remove
  <2>4. QED
    BY <2>1, <2>2, <2>3 DEF OldestFirst
<1>4. QED
  BY <1>2, <1>3

(* The count-bound stage of Set evicts in expiry order. *)
LEMMA CountLimitOrder ==
    ASSUME NEW its, ItemMap(its), NEW f \in AfterCountLimit(its),
           NEW r \in DOMAIN its \ DOMAIN f, NEW s \in DOMAIN f
    PROVE  IsExpired(its[r]) \/ its[r].expiresAt <= its[s].expiresAt
<1> DEFINE live == Remove(its, ExpiredKeys(its))
<1>1. CASE MaxItems > 0 /\ Cardinality(DOMAIN its) >= MaxItems
  <2>1. PICK R \in EvictOldest(live, Cardinality(DOMAIN live) - MaxItems + 1) :
          f = Remove(live, R)
    BY <1>1 DEF AfterCountLimit
  <2>2. R = {} \/ OldestFirst(live, R)
    BY <2>1 DEF EvictOldest
  <2>3. QED
    BY <2>1, <2>2, EvictionOrder
<1>2. CASE ~(MaxItems > 0 /\ Cardinality(DOMAIN its) >= MaxItems)
  BY <1>2 DEF AfterCountLimit
<1>3. QED
  BY <1>1, <1>2

(* The memory-bound stage of Set (evictToFitMemory) evicts in expiry order. *)
LEMMA MemoryLimitOrder ==
    ASSUME NEW its, ItemMap(its), NEW size, NEW need,
           NEW f \in AfterMemoryLimit(its, size, need),
           NEW r \in DOMAIN its \ DOMAIN f, NEW s \in DOMAIN f
    PROVE  IsExpired(its[r]) \/ its[r].expiresAt <= its[s].expiresAt
<1> DEFINE live == Remove(its, ExpiredKeys(its))
<1>1. CASE MaxMemory > 0 /\ size + need > MaxMemory
  <2>1. PICK R \in EvictOldestBySize(live, size - SumSize(its, ExpiredKeys(its))
                                             - (MaxMemory - need)) :
          f = Remove(live, R)
    BY <1>1 DEF AfterMemoryLimit
  <2>2. R = {} \/ OldestFirst(live, R)
    BY <2>1 DEF EvictOldestBySize
  <2>3. QED
    BY <2>1, <2>2, EvictionOrder
<1>2. CASE ~(MaxMemory > 0 /\ size + need > MaxMemory)
  BY <1>2 DEF AfterMemoryLimit
<1>3. QED
  BY <1>1, <1>2

-----------------------------------------------------------------------------
(* A Set is a Put of the abstract store. *)
LEMMA SetRefines ==
    ASSUME TypeOK, NEW k \in Keys, NEW v \in Values, NEW ttl \in TTLs,
           Set(k, v, ttl)
    PROVE  Abs!Put(k, v, IF ttl = 0 THEN DefaultTTL ELSE ttl)
<1> DEFINE sz == EstimateSize(v)
           it == [value |-> v, size |-> sz, expiresAt |-> ExpiresAt(ttl)]
           s2(i2) == currentSize - SumSize(items, DOMAIN items \ DOMAIN i2)
                       - (IF k \in DOMAIN i2 THEN i2[k].size ELSE 0)
           l == IF ttl = 0 THEN DefaultTTL ELSE ttl
<1>1. PICK i2 \in AfterCountLimit(items) :
        \E i3 \in AfterMemoryLimit(i2, s2(i2), sz) :
          items' = Store(i3, k, it) /\ UNCHANGED now
  BY DEF Set
<1>2. PICK i3 \in AfterMemoryLimit(i2, s2(i2), sz) :
          items' = Store(i3, k, it) /\ UNCHANGED now
  BY <1>1
<1>3. ItemMap(items)
  BY DEF TypeOK, ItemMap
<1>4. ItemMap(i2) /\ SubMap(i2, items)
  BY <1>3, CountLimitSubMap, SubMapItemMap
<1>5. SubMap(i3, i2)
  BY <1>4, MemoryLimitSubMap
<1> DEFINE R == (DOMAIN items \ DOMAIN i3) \ {k}
<1>6. R \in SUBSET (DOMAIN AbsStore \ {k})
  BY DEF AbsStore
<1>7. ASSUME NEW r \in R, NEW s \in DOMAIN AbsStore \ (R \cup {k})
      PROVE  now > AbsStore[r].expiresAt \/ AbsStore[r].expiresAt <= AbsStore[s].expiresAt
  <2>1. s \in DOMAIN i3 /\ s \in DOMAIN i2 /\ i2[s] = items[s]
    BY <1>4, <1>5 DEF AbsStore, SubMap
  <2>2. AbsStore[r].expiresAt = items[r].expiresAt /\ AbsStore[s].expiresAt = items[s].expiresAt
    BY DEF AbsStore
  <2>3. CASE r \notin DOMAIN i2
    BY <2>1, <2>2, <2>3, <1>3, CountLimitOrder DEF IsExpired
  <2>4. CASE r \in DOMAIN i2
    <3>1. i2[r] = items[r] /\ r \in DOMAIN i2 \ DOMAIN i3
      BY <2>4, <1>4 DEF SubMap
    <3>2. IsExpired(i2[r]) \/ i2[r].expiresAt <= i2[s].expiresAt
      BY <3>1, <2>1, <1>4, MemoryLimitOrder
    <3>3. QED
      BY <3>1, <3>2, <2>1, <2>2 DEF IsExpired
  <2>5. QED
    BY <2>3, <2>4
<1>8. Abs!MayEvict(R, k)
  BY <1>7 DEF Abs!MayEvict, Abs!Expired
<1>9. DOMAIN items' = (DOMAIN AbsStore \ R) \cup {k}
  BY <1>2, <1>4, <1>5 DEF Store, AbsStore, SubMap
<1>10. ASSUME NEW x \in DOMAIN items', x # k
       PROVE  items'[x] = items[x]
  BY <1>2, <1>4, <1>5, <1>10 DEF Store, SubMap
<1>11. items'[k] = it
  BY <1>2 DEF Store
<1>12. AbsStore' = [x \in (DOMAIN AbsStore \ R) \cup {k} |->
                      IF x = k THEN [value |-> v, expiresAt |-> now + l] ELSE AbsStore[x]]
  BY <1>9, <1>10, <1>11, <1>2 DEF AbsStore, ExpiresAt
<1>13. QED
  BY <1>6, <1>8, <1>12, <1>2 DEF Abs!Put

(* Every step of the cache is a step of the abstract store, or a stutter. *)
LEMMA StepRefines ==
    TypeOK /\ [Next]_vars => [Abs!Next]_Abs!absVars
<1> SUFFICES ASSUME TypeOK, [Next]_vars PROVE [Abs!Next]_Abs!absVars
  OBVIOUS
<1>1. ASSUME NEW k \in Keys, NEW v \in Values, NEW ttl \in TTLs, Set(k, v, ttl)
      PROVE  Abs!Next
  <2>1. (IF ttl = 0 THEN DefaultTTL ELSE ttl) \in {IF t = 0 THEN DefaultTTL ELSE t : t \in TTLs}
    OBVIOUS
  <2>2. QED
    BY <1>1, <2>1, SetRefines DEF Abs!Next
<1>2. ASSUME NEW k \in Keys, Delete(k) PROVE Abs!Next
  <2>1. Abs!Remove(k)
    BY <1>2 DEF Delete, Remove, AbsStore, Abs!Remove
  <2>2. QED
    BY <2>1 DEF Abs!Next
<1>3. CASE Clear
  <2>1. Abs!Clear
    BY <1>3 DEF Clear, Remove, AbsStore, Abs!Clear
  <2>2. QED
    BY <2>1 DEF Abs!Next
<1>4. CASE Cleanup
  <2>1. CASE ExpiredKeys(items) = {}
    <3>1. items' = items
      BY <1>4, <2>1 DEF Cleanup, Remove, TypeOK
    <3>2. QED
      BY <1>4, <3>1 DEF Cleanup, Abs!absVars, AbsStore
  <2>2. CASE ExpiredKeys(items) # {}
    <3>1. Abs!Forget(ExpiredKeys(items))
      BY <1>4, <2>2 DEF Cleanup, Remove, AbsStore, Abs!Forget, Abs!Expired,
                        ExpiredKeys, IsExpired
    <3>2. ExpiredKeys(items) \in SUBSET DOMAIN AbsStore
      BY DEF ExpiredKeys, AbsStore
    <3>3. QED
      BY <3>1, <3>2 DEF Abs!Next
  <2>3. QED
    BY <2>1, <2>2
<1>5. CASE Tick
  <2>1. Abs!Tick
    BY <1>5 DEF Tick, Abs!Tick, AbsStore
  <2>2. QED
    BY <2>1 DEF Abs!Next
<1>6. CASE UNCHANGED vars
  BY <1>6 DEF vars, Abs!absVars, AbsStore
<1>7. QED
  BY <1>1, <1>2, <1>3, <1>4, <1>5, <1>6 DEF Next

(* Refinement: every behaviour of the cache, seen through AbsStore, is a  *)
(* behaviour of CacheAbstract.  So for every bound and key set, a Set     *)
(* evicts a live item only when every item it keeps expires no earlier,   *)
(* and the sweep removes only expired items.                              *)
THEOREM Refinement == Spec => ImplementsAbstract
<1>1. Init => Abs!Init
  BY DEF Init, Abs!Init, AbsStore
<1>2. QED
  BY <1>1, StepRefines, TypeCorrect, PTL DEF Spec, ImplementsAbstract, Abs!Spec

=============================================================================
