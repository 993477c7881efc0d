---------------------------- MODULE BoundedCache ----------------------------
(***************************************************************************)
(* What a program cache of limited capacity promises (ProgramCache and     *)
(* InvalidatingProgramCache in compiler_cache.go): under a key there is    *)
(* the program set last or none; at most Capacity keys hold one; a program *)
(* goes away when its key is deleted or when another key needs the room.   *)
(***************************************************************************)
EXTENDS Integers, FiniteSets

CONSTANTS
    Keys,       \* compile cache keys
    Programs,   \* compiled programs
    Capacity,   \* programs the cache keeps
    None        \* what a key holds that is not in the cache

VARIABLE content    \* key -> program, or None

(* The contents after a Set: a key beyond the capacity costs one other key *)
(* its program.                                                            *)
With(k, program) ==
    LET filled == [content EXCEPT ![k] = program]
        held == {j \in Keys : filled[j] # None}
        Without(j) == [i \in Keys |-> IF i = j THEN None ELSE filled[i]]
    IN  IF Cardinality(held) <= Capacity THEN {filled}
        ELSE {Without(j) : j \in held \ {k}}

BoundedInit == content = [k \in Keys |-> None]

BoundedNext ==
    \E k \in Keys :
        \/ \E program \in Programs : content' \in With(k, program)
        \/ content' = [content EXCEPT ![k] = None]

BoundedSpec == BoundedInit /\ [][BoundedNext]_content
=============================================================================
