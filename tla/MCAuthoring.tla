---------------------------- MODULE MCAuthoring ----------------------------
(* What comes from outside: the texts of rules, and the files and factor   *)
(* definitions that registries are made of.  The code that reads the ones  *)
(* shares no state with the code that reads the others, so a behaviour     *)
(* has either the steps of CompileCacheKey or those of FactorValidator.    *)
EXTENDS MCCompileCacheKey, MCFactorValidator

NoText == text = "" /\ written = <<>> /\ alphabet = {}

(* The first choice: nothing to load, or no characters to type.            *)
MCAllLoads == MCLoads \cup {<<>>}
MCAllAlphabets == MCAlphabets \cup {{}}
MCAllDefinitions == [loads \in MCAllLoads |-> IF loads = <<>> THEN {plain} ELSE MCDefinitions[loads]]

Reading == calls # <<>> \/ results # <<>>

AuthoringInit ==
    \/ calls = <<>> /\ ValidatorInit /\ KeyInit /\ ~NoText
    \/ text = "" /\ written = <<>> /\ alphabet = {} /\ KeyInit /\ ValidatorInit /\ Reading

AuthoringNext ==
    \/ ~Reading /\ KeyNext /\ UNCHANGED validatorVars
    \/ Reading /\ ValidatorNext /\ UNCHANGED keyVars

AuthoringSpec ==
    AuthoringInit /\ [][AuthoringNext]_<<keyVars, validatorVars>> /\ WF_idlVars(Step)
=============================================================================
