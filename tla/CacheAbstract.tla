---------------------------- MODULE CacheAbstract ----------------------------
(***************************************************************************)
(* What the cache promises its callers, without sizes, bounds or the       *)
(* sweep's schedule: a map from keys to (value, expiry).  Put stores a     *)
(* value that expires a lifetime from now, and may at the same moment      *)
(* forget other entries, but only ones that have expired or that expire no *)
(* later than every entry it keeps.  Remove forgets one key, Clear all of  *)
(* them, and Forget drops any set of expired entries.  Cache.tla is shown  *)
(* to implement this module (Cache!Abs).                                   *)
(***************************************************************************)
EXTENDS Integers

CONSTANTS
    Keys,       \* the keys callers use
    Values,     \* the values callers store
    Lifetimes,  \* how long a stored value lives
    MaxTime     \* bound on the clock, for model checking

VARIABLES
    store,  \* a function whose domain is the set of keys held
    now     \* the clock

absVars == <<store, now>>

Entry == [value : Values, expiresAt : Nat]

Expired(e) == now > e.expiresAt

\* The entries R may be forgotten while key k is written: each one has
\* expired, or expires no later than any entry that stays.
MayEvict(R, k) ==
    \A r \in R, s \in DOMAIN store \ (R \cup {k}) :
        Expired(store[r]) \/ store[r].expiresAt <= store[s].expiresAt

Init ==
    /\ store = [k \in {} |-> 0]
    /\ now = 0

Put(k, v, l) ==
    \E R \in SUBSET (DOMAIN store \ {k}) :
        /\ MayEvict(R, k)
        /\ store' = [x \in (DOMAIN store \ R) \cup {k} |->
                       IF x = k THEN [value |-> v, expiresAt |-> now + l] ELSE store[x]]
        /\ UNCHANGED now

Remove(k) ==
    /\ k \in DOMAIN store
    /\ store' = [x \in DOMAIN store \ {k} |-> store[x]]
    /\ UNCHANGED now

Clear ==
    /\ store' = [k \in {} |-> 0]
    /\ UNCHANGED now

Forget(R) ==
    /\ R # {}
    /\ \A r \in R : Expired(store[r])
    /\ store' = [x \in DOMAIN store \ R |-> store[x]]
    /\ UNCHANGED now

Tick ==
    /\ now < MaxTime
    /\ now' = now + 1
    /\ UNCHANGED store

Next ==
    \/ \E k \in Keys, v \in Values, l \in Lifetimes : Put(k, v, l)
    \/ \E k \in Keys : Remove(k)
    \/ Clear
    \/ \E R \in SUBSET DOMAIN store : Forget(R)
    \/ Tick

Spec == Init /\ [][Next]_absVars

=============================================================================
