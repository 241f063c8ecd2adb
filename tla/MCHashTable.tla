------------------------------ MODULE MCHashTable ------------------------------
(* HashTable with keys of equal hash, of hashes that collide until the     *)
(* first or second resize, and of one that does not collide.               *)
EXTENDS HashTable

CONSTANTS k1, k2, k3, k4

MCHash == [k \in Key |-> CASE k = k1 -> 0
                           [] k = k2 -> 0
                           [] k = k3 -> 2
                           [] k = k4 -> 7]
=============================================================================
