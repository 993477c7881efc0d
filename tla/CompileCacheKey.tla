-------------------------- MODULE CompileCacheKey --------------------------
(***************************************************************************)
(* The key under which a program is cached (compiler_cache.go): the text   *)
(* of the rule and a description of the whole factor registry.  A cache    *)
(* outlives the registry, which is replaced when factors change, and a     *)
(* file cache the process too; so the key must say all that a program      *)
(* depends on, and must not depend on the order of Go's maps.              *)
(*                                                                         *)
(* A key is the sequence of the names and marks that Go concatenates:      *)
(* names are assumed to contain no mark.  The cache here drops nothing     *)
(* (InMemoryProgramCache).                                                 *)
(***************************************************************************)
EXTENDS ExpressionParser

CONSTANTS
    Registries, \* FactorRegistry: factor code -> FactorDefinition
    Rules,      \* those of Writings that are compiled: <<tree, text>>
    Names,      \* factor codes and names of fields, in Go's string order
    MaxPrograms \* bound on the programs compiled

VARIABLES
    registry,   \* the registry that Compile is called with
    cache,      \* from keys to programs
    served,     \* what Compile made of text last, under this registry
    compiles    \* history: the texts compiled, each with its registry

keyVars == <<textVars, registry, cache, served, compiles>>

ASSUME BoundAssumption == MaxPrograms \in Nat

NotYet == Fail("NOT_CALLED")

-----------------------------------------------------------------------------
(* Fingerprints                                                            *)

Join(parts, mark) ==
    FoldLeftDomain(LAMBDA line, i : line \o (IF i = 1 THEN <<>> ELSE <<mark>>) \o parts[i], <<>>, parts)

Earlier(x, y) ==
    LET Place(name) == CHOOSE i \in DOMAIN Names : Names[i] = name IN Place(x) < Place(y)
Sorted(keys) == SetToSortSeq(keys, Earlier)

RECURSIVE fieldSchemaFingerprint(_)

(* Also of the Fields of an OBJECT, which are printed only if there are    *)
(* some.                                                                   *)
schemaFingerprint(schema) ==
    LET keys == Sorted(DOMAIN schema)
        parts == [i \in DOMAIN keys |-> <<keys[i], ":">> \o fieldSchemaFingerprint(schema[keys[i]])]
    IN  <<"{">> \o Join(parts, ",") \o <<"}">>

(* Mutant: nested fields are left out.                                     *)
FlatFingerprint(field) ==
    <<field.type, ":", ToString(field.required)>> \o
    (IF field.elem = <<>> THEN <<>> ELSE <<":elem=">> \o fieldSchemaFingerprint(field.elem[1]))

fieldSchemaFingerprint(field) ==
    <<field.type, ":", ToString(field.required)>> \o
    (IF field.elem = <<>> THEN <<>> ELSE <<":elem=">> \o fieldSchemaFingerprint(field.elem[1])) \o
    (IF DOMAIN field.fields = {} THEN <<>> ELSE <<":fields=">> \o schemaFingerprint(field.fields))

(* json.Marshal writes the keys of a map in order.                         *)
stableJSON(mapping) ==
    LET keys == Sorted(DOMAIN mapping)
    IN  <<"{">> \o Join([i \in DOMAIN keys |-> <<keys[i], ":", mapping[keys[i]]>>], ",") \o <<"}">>

rpcConfigFingerprint(config) ==
    Join(<<config.method, stableJSON(config.request), stableJSON(config.response)>>, "|")

FactorFingerprint(code, def) ==
    Join(<<<<code>>, <<def.category>>, <<def.type>>, <<ToString(def.published)>>,
           schemaFingerprint(def.input), schemaFingerprint(def.output),
           Join([i \in DOMAIN def.dependencies |-> <<SortSeq(def.dependencies, Earlier)[i]>>], ","),
           rpcConfigFingerprint(def.config)>>, "|") \o <<";">>

(* order is the order in which Go happened to iterate over the registry.   *)
(* Mutant: the factors are described in that order.                        *)
RegistryFingerprintUnsorted(reg, order) ==
    FlattenSeq([i \in DOMAIN order |-> FactorFingerprint(order[i], reg[order[i]])])
RegistryFingerprint(reg, order) ==
    LET codes == SortSeq(order, Earlier)
    IN  FlattenSeq([i \in DOMAIN codes |-> FactorFingerprint(codes[i], reg[codes[i]])])

BuildCompileCacheKey(expr, reg, order) == <<expr, "::">> \o RegistryFingerprint(reg, order)

-----------------------------------------------------------------------------
(* CachedRuleCompiler.Compile                                              *)

Outputs(reg) == [code \in DOMAIN reg |-> reg[code].output]
Under(outputs) == INSTANCE Compiler WITH Registry <- outputs, ConstKey <- PrintedKey

(* What the inner compiler makes of a text: a type and a program.          *)
Emitted(bound, outputs) ==
    IF IsOk(bound) THEN Ok(<<bound.value.field.type, Under(outputs)!CompileBound(bound.value)>>)
    ELSE bound

BoundTree(parsed, outputs) == IF IsOk(parsed) THEN Under(outputs)!Bind(parsed.value) ELSE parsed

Inner(expr, reg) == Emitted(BoundTree(ParseExpression(expr), Outputs(reg)), Outputs(reg))

(* A behaviour that starts with the text of a rule compiles rules.         *)
Compiling == \E r \in Rules : text = r[2]

KeyInit ==
    /\ TextInit
    /\ registry \in IF Compiling THEN Registries ELSE {CHOOSE reg \in Registries : TRUE}
    /\ cache = <<>>
    /\ served = NotYet
    /\ compiles = <<>>

Compile(r) ==
    /\ Compiling
    /\ text' = r[2] /\ written' = <<r[1]>>
    /\ UNCHANGED <<alphabet, registry>>
    /\ \E order \in SetToSeqs(DOMAIN registry), made \in {Inner(r[2], registry)} :
          LET key == BuildCompileCacheKey(r[2], registry, order)
          IN  IF key \in DOMAIN cache
              THEN served' = Ok(cache[key]) /\ UNCHANGED <<cache, compiles>>
              ELSE /\ Len(compiles) < MaxPrograms
                   /\ served' = made
                   /\ IF IsOk(made)
                      THEN /\ cache' = (key :> made.value) @@ cache
                           /\ compiles' = Append(compiles, <<r[2], registry>>)
                      ELSE UNCHANGED <<cache, compiles>>

(* The factors change; the cache stays.                                    *)
Replace ==
    /\ Compiling
    /\ registry' \in Registries
    /\ served' = NotYet
    /\ UNCHANGED <<textVars, cache, compiles>>

TypeText == TextNext /\ UNCHANGED <<registry, cache, served, compiles>>

KeyNext == TypeText \/ Replace \/ \E r \in Rules : Compile(r)

KeySpec == KeyInit /\ [][KeyNext]_keyVars

-----------------------------------------------------------------------------
(* Whatever was compiled under other registries before, a rule gets the    *)
(* program, the type or the error that the registry of the call gives it.  *)
ServedIsCurrent == served # NotYet => served = Inner(text, registry)

(* A rule is compiled once under a registry, although Go iterates over the *)
(* registry in another order at each call.                                 *)
CompiledOnce == \A i, j \in DOMAIN compiles : compiles[i] = compiles[j] => i = j
=============================================================================
