----------------------------- MODULE MCLRUCache -----------------------------
(* Three keys for a capacity of two, so that a Set can evict.              *)
EXTENDS LRUCache

CONSTANTS p1, p2, k1, k2, k3, a, b

MCProcs == {p1, p2}
MCKeys == {k1, k2, k3}
MCPrograms == {a, b}
=============================================================================
