----------------------------- MODULE CacheProofs -----------------------------
(***************************************************************************)
(* Proofs about the cache of module Cache, for every value of its          *)
(* constants that satisfies CacheAssumption.                               *)
(***************************************************************************)
EXTENDS Cache, FiniteSetTheorems, TLAPS

(* f is g with some keys deleted: what every eviction step leaves behind. *)
SubMap(f, g) ==
    /\ f = [x \in DOMAIN f |-> f[x]]
    /\ DOMAIN f \subseteq DOMAIN g
    /\ \A x \in DOMAIN f : f[x] = g[x]

(* The items maps a type-correct cache may hold. *)
ItemMap(f) == DOMAIN f \subseteq Keys /\ f \in [DOMAIN f -> Item]

-----------------------------------------------------------------------------
(* estimateSize never returns a negative size. *)
LEMMA EstimateSizeNat ==
    ASSUME NEW v \in Shape
    PROVE  EstimateSize(v) \in Nat
BY DEF EstimateSize, Shape, Kinds

(* The sum of the sizes of some items of a cache is a natural number: the *)
(* set of their bytes is finite, a finite union of finite products.        *)
LEMMA SumSizeNat ==
    ASSUME NEW its, ItemMap(its), NEW R \in SUBSET DOMAIN its
    PROVE  SumSize(its, R) \in Nat
<1> DEFINE Parts == {{k} \X (1 .. its[k].size) : k \in R}
           part == [k \in R |-> {k} \X (1 .. its[k].size)]
<1>1. IsFiniteSet(R)
  BY CacheAssumption, FS_Subset DEF ItemMap
<1>2. part \in Surjection(R, Parts)
  BY DEF Surjection
<1>3. IsFiniteSet(Parts)
  BY <1>1, <1>2, FS_Surjection
<1>4. ASSUME NEW k \in R PROVE IsFiniteSet({k} \X (1 .. its[k].size))
  <2>1. its[k].size \in Nat
    BY DEF ItemMap, Item
  <2>2. IsFiniteSet({k})
    BY FS_Singleton
  <2>3. IsFiniteSet(1 .. its[k].size)
    BY <2>1, FS_Interval
  <2>4. QED
    BY <2>2, <2>3, FS_Product
<1>5. IsFiniteSet(UNION Parts)
  BY <1>3, <1>4, FS_UNION
<1>6. QED
  BY <1>5, FS_CardinalityType DEF SumSize, Bytes

(* A sub-map of a type-correct items map is type-correct. *)
LEMMA SubMapItemMap ==
    ASSUME NEW f, NEW g, SubMap(f, g), ItemMap(g)
    PROVE  ItemMap(f)
BY DEF SubMap, ItemMap

(* The count-bound stage of Set only deletes items. *)
LEMMA CountLimitSubMap ==
    ASSUME NEW its, ItemMap(its), NEW f \in AfterCountLimit(its)
    PROVE  SubMap(f, its)
<1> DEFINE live == Remove(its, ExpiredKeys(its))
<1>1. CASE MaxItems > 0 /\ Cardinality(DOMAIN its) >= MaxItems
  <2>1. PICK R : f = Remove(live, R)
    BY <1>1 DEF AfterCountLimit
  <2>2. QED
    BY <2>1 DEF SubMap, Remove
<1>2. CASE ~(MaxItems > 0 /\ Cardinality(DOMAIN its) >= MaxItems)
  BY <1>2 DEF AfterCountLimit, SubMap, ItemMap
<1>3. QED
  BY <1>1, <1>2

(* The memory-bound stage of Set (evictToFitMemory) only deletes items. *)
LEMMA MemoryLimitSubMap ==
    ASSUME NEW its, ItemMap(its), NEW size, NEW need,
           NEW f \in AfterMemoryLimit(its, size, need)
    PROVE  SubMap(f, its)
<1> DEFINE live == Remove(its, ExpiredKeys(its))
<1>1. CASE MaxMemory > 0 /\ size + need > MaxMemory
  <2>1. PICK R : f = Remove(live, R)
    BY <1>1 DEF AfterMemoryLimit
  <2>2. QED
    BY <2>1 DEF SubMap, Remove
<1>2. CASE ~(MaxMemory > 0 /\ size + need > MaxMemory)
  BY <1>2 DEF AfterMemoryLimit, SubMap, ItemMap
<1>3. QED
  BY <1>1, <1>2

-----------------------------------------------------------------------------
(* Set preserves the type invariant. *)
LEMMA SetTypeOK ==
    ASSUME TypeOK, NEW k \in Keys, NEW v \in Values, NEW ttl \in TTLs,
           Set(k, v, ttl)
    PROVE  TypeOK'
<1> DEFINE sz == EstimateSize(v)
           it == [value |-> v, size |-> sz, expiresAt |-> ExpiresAt(ttl)]
           s2(i2) == currentSize - SumSize(items, DOMAIN items \ DOMAIN i2)
                       - (IF k \in DOMAIN i2 THEN i2[k].size ELSE 0)
<1>1. PICK i2 \in AfterCountLimit(items) :
        \E i3 \in AfterMemoryLimit(i2, s2(i2), sz) :
          /\ items' = Store(i3, k, it)
          /\ currentSize' = s2(i2) - SumSize(i2, DOMAIN i2 \ DOMAIN i3) + sz
          /\ UNCHANGED now
  BY DEF Set
<1>2. PICK i3 \in AfterMemoryLimit(i2, s2(i2), sz) :
          /\ items' = Store(i3, k, it)
          /\ currentSize' = s2(i2) - SumSize(i2, DOMAIN i2 \ DOMAIN i3) + sz
          /\ UNCHANGED now
  BY <1>1
<1>3. ItemMap(items)
  BY DEF TypeOK, ItemMap
<1>4. ItemMap(i2)
  BY <1>3, CountLimitSubMap, SubMapItemMap
<1>5. ItemMap(i3) /\ SubMap(i3, i2)
  BY <1>4, MemoryLimitSubMap, SubMapItemMap
<1>6. sz \in Nat /\ it \in Item
  <2>1. v \in Shape
    BY CacheAssumption
  <2>2. ExpiresAt(ttl) \in Nat
    BY CacheAssumption DEF TypeOK, ExpiresAt
  <2>3. QED
    BY <2>1, <2>2, EstimateSizeNat DEF Item
<1>7. ItemMap(items')
  BY <1>2, <1>5, <1>6 DEF ItemMap, Store
<1>8. s2(i2) \in Int
  <2>1. SumSize(items, DOMAIN items \ DOMAIN i2) \in Nat
    BY <1>3, SumSizeNat
  <2>2. k \in DOMAIN i2 => i2[k].size \in Nat
    BY <1>4 DEF ItemMap, Item
  <2>3. QED
    BY <2>1, <2>2 DEF TypeOK
<1>9. currentSize' \in Int
  BY <1>2, <1>4, <1>5, <1>6, <1>8, SumSizeNat
<1>10. QED
  BY <1>2, <1>7, <1>9 DEF TypeOK, ItemMap

(* Every step keeps the type invariant. *)
LEMMA TypeOKStep == TypeOK /\ [Next]_vars => TypeOK'
<1> SUFFICES ASSUME TypeOK, [Next]_vars PROVE TypeOK'
  OBVIOUS
<1>1. ASSUME NEW k \in Keys, NEW v \in Values, NEW ttl \in TTLs, Set(k, v, ttl)
      PROVE  TypeOK'
  BY <1>1, SetTypeOK
<1>2. ASSUME NEW k \in Keys, Delete(k) PROVE TypeOK'
  BY <1>2 DEF Delete, TypeOK, Remove, Item
<1>3. CASE Clear
  BY <1>3 DEF Clear, TypeOK, Remove
<1>4. CASE Cleanup
  BY <1>4 DEF Cleanup, TypeOK, Remove
<1>5. CASE Tick
  BY <1>5, CacheAssumption DEF Tick, TypeOK
<1>6. CASE UNCHANGED vars
  BY <1>6 DEF vars, TypeOK
<1>7. QED
  BY <1>1, <1>2, <1>3, <1>4, <1>5, <1>6 DEF Next

(* Type correctness: the cache's state always has the types of the Go     *)
(* fields it models (items map to item records, currentSize an integer)   *)
(* and the clock stays within its bound.                                  *)
THEOREM TypeCorrect == Spec => []TypeOK
<1>1. Init => TypeOK
  BY CacheAssumption DEF Init, TypeOK
<1>2. QED
  BY <1>1, TypeOKStep, PTL DEF Spec

-----------------------------------------------------------------------------
(* A type-correct items map has finitely many keys. *)
LEMMA ItemMapFinite ==
    ASSUME NEW f, ItemMap(f)
    PROVE  IsFiniteSet(DOMAIN f) /\ Cardinality(DOMAIN f) \in Nat
BY CacheAssumption, FS_Subset, FS_CardinalityType DEF ItemMap

(* Adding one key to a finite set adds at most one element. *)
LEMMA AddKeyCardinality ==
    ASSUME NEW S, IsFiniteSet(S), NEW x
    PROVE  /\ Cardinality(S \cup {x}) \in Nat
           /\ Cardinality(S \cup {x}) <= Cardinality(S) + 1
<1>1. Cardinality(S) \in Nat /\ IsFiniteSet(S \cup {x})
  BY FS_CardinalityType, FS_AddElement
<1>2. Cardinality(S \cup {x}) \in Nat
  BY <1>1, FS_CardinalityType
<1>3. CASE x \in S
  <2>1. Cardinality(S \cup {x}) = Cardinality(S)
    BY <1>3, FS_AddElement
  <2>2. QED
    BY <1>1, <2>1
<1>4. CASE x \notin S
  <2>1. Cardinality(S \cup {x}) = Cardinality(S) + 1
    BY <1>4, FS_AddElement
  <2>2. QED
    BY <1>1, <2>1
<1>5. QED
  BY <1>2, <1>3, <1>4

(* A sub-map has no more keys than the map it comes from. *)
LEMMA SubMapCardinality ==
    ASSUME NEW f, NEW g, ItemMap(g), SubMap(f, g)
    PROVE  Cardinality(DOMAIN f) <= Cardinality(DOMAIN g)
BY ItemMapFinite, FS_Subset DEF SubMap

(* After the count-bound stage of Set (lines 91-98) the map has room for   *)
(* one more item: evictOldest(len - maxItems + 1) leaves maxItems - 1.    *)
LEMMA CountLimitRoom ==
    ASSUME NEW its, ItemMap(its), MaxItems > 0, NEW f \in AfterCountLimit(its)
    PROVE  Cardinality(DOMAIN f) < MaxItems
<1> DEFINE live == Remove(its, ExpiredKeys(its))
           n == Cardinality(DOMAIN live)
           count == n - MaxItems + 1
<1>1. CASE Cardinality(DOMAIN its) >= MaxItems
  <2>1. PICK R \in EvictOldest(live, count) : f = Remove(live, R)
    BY <1>1 DEF AfterCountLimit
  <2>2. ItemMap(live)
    BY DEF ItemMap, Remove
  <2>3. IsFiniteSet(DOMAIN live) /\ n \in Nat
    BY <2>2, ItemMapFinite
  <2>4. MaxItems \in Nat
    BY CacheAssumption
  <2>5. CASE count <= 0
    <3>1. R = {}
      BY <2>1, <2>5 DEF EvictOldest
    <3>2. DOMAIN f = DOMAIN live
      BY <2>1, <3>1 DEF Remove
    <3>3. QED
      BY <2>3, <2>4, <2>5, <3>2
  <2>6. CASE count > 0
    <3>1. R \subseteq DOMAIN live /\ Cardinality(R) = count
      BY <2>1, <2>3, <2>4, <2>6 DEF EvictOldest
    <3>2. DOMAIN f = DOMAIN live \ R
      BY <2>1 DEF Remove
    <3>3. Cardinality(DOMAIN live \ R) = n - Cardinality(DOMAIN live \cap R)
      BY <2>3, FS_Difference
    <3>5. DOMAIN live \cap R = R
      BY <3>1
    <3>4. QED
      BY <2>3, <2>4, <3>1, <3>2, <3>3, <3>5
  <2>7. QED
    BY <2>5, <2>6, <2>3, <2>4
<1>2. CASE Cardinality(DOMAIN its) < MaxItems
  <2>1. f = its
    BY <1>2, ItemMapFinite, CacheAssumption DEF AfterCountLimit
  <2>2. QED
    BY <1>2, <2>1
<1>3. QED
  BY <1>1, <1>2, ItemMapFinite, CacheAssumption

(* The inductive invariant: the type invariant and the item-count bound. *)
IInv == TypeOK /\ ItemBound

(* Set keeps the item-count bound. *)
LEMMA SetItemBound ==
    ASSUME IInv, NEW k \in Keys, NEW v \in Values, NEW ttl \in TTLs,
           Set(k, v, ttl)
    PROVE  ItemBound'
<1> SUFFICES ASSUME MaxItems > 0 PROVE Cardinality(DOMAIN items') <= MaxItems
  BY DEF ItemBound
<1> DEFINE sz == EstimateSize(v)
           it == [value |-> v, size |-> sz, expiresAt |-> ExpiresAt(ttl)]
           s2(i2) == currentSize - SumSize(items, DOMAIN items \ DOMAIN i2)
                       - (IF k \in DOMAIN i2 THEN i2[k].size ELSE 0)
<1>1. PICK i2 \in AfterCountLimit(items) :
        \E i3 \in AfterMemoryLimit(i2, s2(i2), sz) : items' = Store(i3, k, it)
  BY DEF Set
<1>2. PICK i3 \in AfterMemoryLimit(i2, s2(i2), sz) : items' = Store(i3, k, it)
  BY <1>1
<1>3. ItemMap(items)
  BY DEF IInv, TypeOK, ItemMap
<1>4. ItemMap(i2) /\ Cardinality(DOMAIN i2) < MaxItems
  BY <1>3, CountLimitSubMap, SubMapItemMap, CountLimitRoom
<1>5. ItemMap(i3) /\ Cardinality(DOMAIN i3) <= Cardinality(DOMAIN i2)
  BY <1>4, MemoryLimitSubMap, SubMapItemMap, SubMapCardinality
<1>6. DOMAIN items' = DOMAIN i3 \cup {k}
  BY <1>2 DEF Store
<1>7. IsFiniteSet(DOMAIN i3) /\ Cardinality(DOMAIN i3) \in Nat
  BY <1>5, ItemMapFinite
<1>8. /\ Cardinality(DOMAIN i3 \cup {k}) \in Nat
      /\ Cardinality(DOMAIN i3 \cup {k}) <= Cardinality(DOMAIN i3) + 1
  BY <1>7, AddKeyCardinality
<1>9. Cardinality(DOMAIN i2) \in Nat /\ MaxItems \in Nat
  BY <1>4, ItemMapFinite, CacheAssumption
<1>10. Cardinality(DOMAIN items') = Cardinality(DOMAIN i3 \cup {k})
  BY <1>6
<1>11. QED
  BY <1>4, <1>5, <1>7, <1>8, <1>9, <1>10

(* Item-count bound: a cache with maxItems > 0 never holds more than      *)
(* maxItems items, for every bound, key set and sequence of operations.    *)
THEOREM ItemBoundHolds == Spec => []ItemBound
<1>1. Init => IInv
  BY CacheAssumption, FS_EmptySet DEF Init, IInv, TypeOK, ItemBound
<1>2. IInv /\ [Next]_vars => IInv'
  <2> SUFFICES ASSUME IInv, [Next]_vars PROVE IInv'
    OBVIOUS
  <2>1. TypeOK'
    BY TypeOKStep DEF IInv
  <2>2. ItemBound'
    <3>1. ASSUME NEW k \in Keys, NEW v \in Values, NEW ttl \in TTLs, Set(k, v, ttl)
          PROVE  ItemBound'
      BY <3>1, SetItemBound
    <3>2. ASSUME NEW R, items' = Remove(items, R) PROVE ItemBound'
      <4>1. ItemMap(items)
        BY DEF IInv, TypeOK, ItemMap
      <4>2. SubMap(items', items)
        BY <3>2, <4>1 DEF SubMap, Remove, ItemMap
      <4>3. Cardinality(DOMAIN items') <= Cardinality(DOMAIN items)
        BY <4>1, <4>2, SubMapCardinality
      <4>4. Cardinality(DOMAIN items) \in Nat /\ Cardinality(DOMAIN items') \in Nat
        BY <4>1, <4>2, SubMapItemMap, ItemMapFinite
      <4>5. QED
        BY <4>3, <4>4, CacheAssumption DEF IInv, ItemBound
    <3>3. ASSUME NEW k \in Keys, Delete(k) PROVE ItemBound'
      BY <3>3, <3>2 DEF Delete
    <3>4. CASE Clear
      BY <3>4, <3>2 DEF Clear
    <3>5. CASE Cleanup
      BY <3>5, <3>2 DEF Cleanup
    <3>6. CASE Tick \/ UNCHANGED vars
      BY <3>6 DEF Tick, vars, IInv, ItemBound
    <3>7. QED
      BY <3>1, <3>3, <3>4, <3>5, <3>6 DEF Next
  <2>3. QED
    BY <2>1, <2>2 DEF IInv
<1>3. QED
  BY <1>1, <1>2, PTL DEF Spec, IInv

=============================================================================
