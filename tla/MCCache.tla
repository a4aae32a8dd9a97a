------------------------------- MODULE MCCache -------------------------------
(***************************************************************************)
(* Model-checking instances of Cache.  Two caches the constructors build:  *)
(*   - NewWithMaxItems(ttl, 2): maxItems 2, maxMemory 100 MiB, which three *)
(*     small values never approach;                                        *)
(*   - NewWithMemoryLimit(ttl, mb): maxItems 10000, which three keys never *)
(*     approach, and a memory bound that two of the values exceed.  The    *)
(*     bound and the value sizes are scaled down together from MiB to     *)
(*     bytes (a 1 MiB bound with strings of 419430 and 671088 bytes makes  *)
(*     the same comparisons as 100 with 40 and 120), so that the byte sets *)
(*     of SumSize stay small.                                              *)
(***************************************************************************)
EXTENDS Cache, TLC

CONSTANTS k1, k2, k3

MCKeys == {k1, k2, k3}

(* A 4-byte string (20 bytes) and an empty map (0 bytes: estimateSize     *)
(* charges nothing for a map without entries).                            *)
SmallValues ==
    {[ptrs |-> 0, kind |-> "string", len |-> 4],
     [ptrs |-> 0, kind |-> "map",    len |-> 0]}

(* A 24-byte string (40 bytes) and a pointer to a struct of 7 fields      *)
(* (8 + 7 * 16 = 120 bytes, larger than the bound alone).                  *)
LargeValues ==
    {[ptrs |-> 0, kind |-> "string", len |-> 24],
     [ptrs |-> 1, kind |-> "struct", len |-> 7]}

MiB100 == 100 * 1024 * 1024

Symmetry == Permutations(MCKeys)

=============================================================================
