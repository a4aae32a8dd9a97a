-------------------------------- MODULE Cache --------------------------------
(***************************************************************************)
(* The in-memory TTL cache of pgweb (package cache, src/unnamed/part_000): *)
(* a map from string keys to items {value, expiresAt, size}, a running     *)
(* byte counter currentSize, an item-count bound maxItems and a memory     *)
(* bound maxMemory, and a cleanup goroutine that sweeps expired items.     *)
(*                                                                         *)
(* Every exported method takes the cache's RWMutex for its whole body, so  *)
(* each one is a single atomic step here.  time.Now() is the variable now, *)
(* a discrete clock advanced by Tick; all the reads of time.Now() inside    *)
(* one locked method are taken to see the same instant.  Get and Stats     *)
(* take the read lock and change nothing: they are the operators GetFound, *)
(* GetValue and Stats, evaluated in any state, not actions.                *)
(***************************************************************************)
EXTENDS Integers, FiniteSets

CONSTANTS
    Keys,        \* the keys callers use (model values)
    Values,      \* the values callers store, as shapes (see Shape)
    DefaultTTL,  \* Cache.defaultTTL
    TTLs,        \* the ttl arguments callers pass to Set (0 = default)
    MaxItems,    \* Cache.maxItems   (0 = unlimited)
    MaxMemory,   \* Cache.maxMemory  (0 = unlimited)
    MaxTime      \* bound on the clock, for model checking

(***************************************************************************)
(* A cached value is abstracted to what estimateSize looks at: how many    *)
(* non-nil pointers lead to it, the reflect kind reached, and its length   *)
(* (string bytes, slice/array/map elements, struct fields).  "ifaceSlice" *)
(* is a slice whose first element has kind Interface; "nil" is a nil      *)
(* interface or a nil pointer; "other" is any other kind (int, bool, ...). *)
(***************************************************************************)
Kinds == {"nil", "string", "slice", "ifaceSlice", "map", "struct", "other"}
Shape == [ptrs : Nat, kind : Kinds, len : Nat]

ASSUME CacheAssumption ==
    /\ IsFiniteSet(Keys)
    /\ Values \subseteq Shape
    /\ DefaultTTL \in Nat
    /\ TTLs \subseteq Nat
    /\ MaxItems \in Nat
    /\ MaxMemory \in Nat
    /\ MaxTime \in Nat

(* estimateSize: 8 bytes per pointer followed, then the cost of the kind.  *)
(* unsafe.Sizeof of an interface{} argument is 16 on a 64-bit build.      *)
EstimateSize(v) ==
    8 * v.ptrs +
    CASE v.kind = "nil"        -> 8
      [] v.kind = "string"     -> v.len + 16
      [] v.kind = "slice"      -> v.len * 8 + 24
      [] v.kind = "ifaceSlice" -> v.len * 8 * 4 + 24
      [] v.kind = "map"        -> v.len * 32
      [] v.kind = "struct"     -> v.len * 16
      [] v.kind = "other"      -> 16

Item == [value : Values, expiresAt : Nat, size : Nat]

VARIABLES
    items,        \* Cache.items: a function whose domain is the set of present keys
    currentSize,  \* Cache.currentSize
    now           \* time.Now()

vars == <<items, currentSize, now>>

-----------------------------------------------------------------------------
(* time.Now().After(it.expiresAt) *)
IsExpired(it) == now > it.expiresAt

ExpiredKeys(its) == {k \in DOMAIN its : IsExpired(its[k])}

(* The map its with the keys R deleted. *)
Remove(its, R) == [k \in DOMAIN its \ R |-> its[k]]

(* The map its with c.items[k] = it. *)
Store(its, k, it) == [x \in DOMAIN its \cup {k} |-> IF x = k THEN it ELSE its[x]]

(* The bytes of the items R of its, one pair per byte: their number is the *)
(* sum of the sizes, which is what the code adds to or subtracts from      *)
(* currentSize item by item.                                               *)
Bytes(its, R) == UNION {{k} \X (1 .. its[k].size) : k \in R}
SumSize(its, R) == Cardinality(Bytes(its, R))

(* Mutant: the comparison of the exchange sort inverted. *)
NewestFirst(its, R) ==
    \A r \in R, o \in DOMAIN its \ R : its[r].expiresAt >= its[o].expiresAt

(* R is a prefix of the items of its sorted by ascending expiresAt: the    *)
(* exchange sort of evictOldest / evictOldestBySize runs over a map in     *)
(* random iteration order, so ties may be broken either way.              *)
OldestFirst(its, R) ==
    \A r \in R, o \in DOMAIN its \ R : its[r].expiresAt <= its[o].expiresAt

(* evictOldest(count): the sets of keys it may delete. *)
EvictOldest(its, count) ==
    IF count <= 0 THEN {{}}
    ELSE {R \in SUBSET DOMAIN its :
            /\ OldestFirst(its, R)
            /\ Cardinality(R) = IF count < Cardinality(DOMAIN its)
                                THEN count ELSE Cardinality(DOMAIN its)}

(* evictOldestBySize(target): delete items in sorted order while fewer     *)
(* than target bytes have been freed.  R is such a prefix: it frees enough *)
(* or is everything, and without its last item m it did not free enough.   *)
EvictOldestBySize(its, target) ==
    IF target <= 0 THEN {{}}
    ELSE {R \in SUBSET DOMAIN its :
            /\ OldestFirst(its, R)
            /\ SumSize(its, R) >= target \/ R = DOMAIN its
            /\ R # {} => \E m \in R :
                           /\ \A r \in R : its[r].expiresAt <= its[m].expiresAt
                           /\ SumSize(its, R \ {m}) < target}

(* Mutant: evictOldest(len(c.items) - c.maxItems), one item too few. *)
AfterCountLimitOffByOne(its) ==
    IF MaxItems > 0 /\ Cardinality(DOMAIN its) >= MaxItems
    THEN LET live == Remove(its, ExpiredKeys(its))
         IN  {Remove(live, R) :
                R \in EvictOldest(live, Cardinality(DOMAIN live) - MaxItems)}
    ELSE {its}

(* Set, lines 91-98: the item maps that may remain after the count bound.  *)
AfterCountLimit(its) ==
    IF MaxItems > 0 /\ Cardinality(DOMAIN its) >= MaxItems
    THEN LET live == Remove(its, ExpiredKeys(its))
         IN  {Remove(live, R) :
                R \in EvictOldest(live, Cardinality(DOMAIN live) - MaxItems + 1)}
    ELSE {its}

(* Set, lines 109-111 with evictToFitMemory: size is currentSize at the    *)
(* check (already lowered by the replaced item), need the new item's size. *)
AfterMemoryLimit(its, size, need) ==
    IF MaxMemory > 0 /\ size + need > MaxMemory
    THEN LET live == Remove(its, ExpiredKeys(its))
             liveSize == size - SumSize(its, ExpiredKeys(its))
         IN  {Remove(live, R) :
                R \in EvictOldestBySize(live, liveSize - (MaxMemory - need))}
    ELSE {its}

-----------------------------------------------------------------------------
Init ==
    /\ items = [k \in {} |-> 0]
    /\ currentSize = 0
    /\ now = 0

(* Mutant: time.Now().Add(-ttl), the duration's sign flipped. *)
ExpiresAtSignError(ttl) == now - (IF ttl = 0 THEN DefaultTTL ELSE ttl)

(* Set, lines 83-85 and 115: a ttl of 0 means the default TTL. *)
ExpiresAt(ttl) == now + (IF ttl = 0 THEN DefaultTTL ELSE ttl)

(* Set(key, value, ttl).  Every deletion on the way subtracts that item's  *)
(* size once; an existing item under key is subtracted once more before   *)
(* the memory check, whether or not the memory eviction deletes it again.  *)
Set(k, v, ttl) ==
    LET sz == EstimateSize(v)
        it == [value |-> v, size |-> sz, expiresAt |-> ExpiresAt(ttl)]
    IN  \E i2 \in AfterCountLimit(items) :
          LET s2 == currentSize - SumSize(items, DOMAIN items \ DOMAIN i2)
                      - (IF k \in DOMAIN i2 THEN i2[k].size ELSE 0)
          IN  \E i3 \in AfterMemoryLimit(i2, s2, sz) :
                /\ items' = Store(i3, k, it)
                /\ currentSize' = s2 - SumSize(i2, DOMAIN i2 \ DOMAIN i3) + sz
                /\ UNCHANGED now

Delete(k) ==
    /\ k \in DOMAIN items
    /\ currentSize' = currentSize - items[k].size
    /\ items' = Remove(items, {k})
    /\ UNCHANGED now

Clear ==
    /\ items' = Remove(items, DOMAIN items)
    /\ currentSize' = 0
    /\ UNCHANGED now

(* Mutant: now := time.Now() read once before the ticker loop, so every   *)
(* tick compares against the instant the goroutine started.              *)
CleanupStaleNow ==
    /\ items' = Remove(items, {k \in DOMAIN items : 0 > items[k].expiresAt})
    /\ UNCHANGED <<currentSize, now>>

(* One tick of the cleanup goroutine: expired items are deleted, and       *)
(* currentSize is left as it was.                                          *)
Cleanup ==
    /\ items' = Remove(items, ExpiredKeys(items))
    /\ UNCHANGED <<currentSize, now>>

Tick ==
    /\ now < MaxTime
    /\ now' = now + 1
    /\ UNCHANGED <<items, currentSize>>

Next ==
    \/ \E k \in Keys, v \in Values, ttl \in TTLs : Set(k, v, ttl)
    \/ \E k \in Keys : Delete(k)
    \/ Clear
    \/ Cleanup
    \/ Tick

Spec == Init /\ [][Next]_vars

(* The cleanup goroutine's ticker fires every five minutes for the life of *)
(* the cache, and a waiting writer is never starved by the RWMutex.        *)
FairSpec == Spec /\ WF_vars(Cleanup)

-----------------------------------------------------------------------------
(* The store as its callers see it: each item without its size estimate.  *)
AbsStore ==
    [k \in DOMAIN items |-> [value |-> items[k].value, expiresAt |-> items[k].expiresAt]]

Abs == INSTANCE CacheAbstract
         WITH store <- AbsStore,
              Lifetimes <- {IF t = 0 THEN DefaultTTL ELSE t : t \in TTLs}

-----------------------------------------------------------------------------
(* The read-only methods. *)
GetFound(k) == k \in DOMAIN items /\ ~IsExpired(items[k])
GetValue(k) == items[k].value

Stats ==
    [total_items       |-> Cardinality(DOMAIN items),
     expired_items     |-> Cardinality(ExpiredKeys(items)),
     active_items      |-> Cardinality(DOMAIN items) - Cardinality(ExpiredKeys(items)),
     memory_used_bytes |-> currentSize]

-----------------------------------------------------------------------------
(***************************************************************************)
(* Properties.                                                             *)
(***************************************************************************)
TypeOK ==
    /\ DOMAIN items \subseteq Keys
    /\ items \in [DOMAIN items -> Item]
    /\ currentSize \in Int
    /\ now \in 0 .. MaxTime

(* The item-count bound of Set (lines 91-98): with maxItems > 0 the map    *)
(* never holds more than maxItems items, whatever mix of expired and live  *)
(* items, replacements and deletions led there.                            *)
ItemBound == MaxItems > 0 => Cardinality(DOMAIN items) <= MaxItems

(* The cache implements CacheAbstract: every Set, Delete, Clear and sweep  *)
(* is a Put, Remove, Clear or Forget of the abstract store (or leaves it   *)
(* as it was).  In particular a Set, through both of its eviction passes,  *)
(* evicts a live item only when it expires no later than every other item *)
(* that stays, and the sweep drops only expired items.                    *)
ImplementsAbstract == Abs!Spec

(* The spec's lazy expiration (spec.md, Store invariants and the Get     *)
(* acceptance test): an entry whose expiration has come is never          *)
(* returned; Get(k) misses once now >= expiresAt.  Get (line 132) tests   *)
(* time.Now().After(item.expiresAt), which still returns the entry at the *)
(* instant of its expiration.                                             *)
ExpiredNeverReturned == \A k \in Keys : GetFound(k) => now < items[k].expiresAt

(* The cleanup goroutine (lines 156-170): an item that has expired is      *)
(* eventually gone from the map, unless a Set has replaced it first.       *)
ExpiredEventuallySwept ==
    \A k \in Keys :
        (k \in DOMAIN items /\ IsExpired(items[k]))
            ~> (k \notin DOMAIN items \/ ~IsExpired(items[k]))

(* The spec's accounting invariant: the memory_used_bytes that Stats       *)
(* reports is the sum of the sizes of the items in the map.               *)
SizeAccounting == Stats.memory_used_bytes = SumSize(items, DOMAIN items)

(* The spec's memory bound: the items in the map never take more than      *)
(* maxMemory bytes, except for a single item that alone is larger.         *)
MemoryBound ==
    MaxMemory > 0 =>
        \/ SumSize(items, DOMAIN items) <= MaxMemory
        \/ Cardinality(DOMAIN items) <= 1

=============================================================================
