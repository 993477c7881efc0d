------------------------- MODULE MCPersistentCache -------------------------
(* Instances of PersistentCache for TLC.  Two keys compile and, where a    *)
(* run has it, a third does not.                                           *)
EXTENDS PersistentCache

CONSTANTS k1, k2, bad, p1, p2

OneKey == {k1}
TwoKeys == {k1, k2}
KeysWithBad == {k1, bad}
OneProc == {p1}
TwoProcs == {p1, p2}
PathsOfKeys == [k \in Keys |-> k]
=============================================================================
