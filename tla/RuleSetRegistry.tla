-------------------------- MODULE RuleSetRegistry --------------------------
(***************************************************************************)
(* What the engine service promises of rule sets: a publication happens at *)
(* one instant or not at all, and only with rules that all compile; what   *)
(* is published under a version stays until that version is published      *)
(* again; the latest version of a rule set is the greatest one.            *)
(***************************************************************************)
EXTENDS Integers

CONSTANTS
    Codes,          \* rule set codes
    Versions,       \* versions a rule set may be published under
    Publishable,    \* rule set definitions that are valid and compile
    NoDefinition    \* what a version holds that was never published

VARIABLES
    published,      \* code -> version -> definition
    newest          \* code -> latest version, 0 before the first

registryVars == <<published, newest>>

RegistryInit ==
    /\ published = [c \in Codes |-> [v \in Versions |-> NoDefinition]]
    /\ newest = [c \in Codes |-> 0]

Publication(d) ==
    /\ published' = [published EXCEPT ![d.code][d.version] = d]
    /\ newest' = [newest EXCEPT ![d.code] = IF d.version >= @ THEN d.version ELSE @]

RegistryNext == \E d \in Publishable : Publication(d)

RegistrySpec == RegistryInit /\ [][RegistryNext]_registryVars
=============================================================================
