--------------------------- MODULE RuleExecution ---------------------------
(***************************************************************************)
(* A rule from its syntax tree to its result: DefaultRuleCompiler.Compile  *)
(* binds and compiles it, compiledExpr.Eval runs the bytecode on the VM    *)
(* (compiler.go, engine.go).  The tree interpreter is the reference: the   *)
(* technical design lists a disagreement between the two as a risk that    *)
(* the dual-path tests are kept for.                                       *)
(***************************************************************************)
EXTENDS Compiler, CompiledRule

CONSTANT Rules      \* syntax trees that the binder accepts

VARIABLE rule       \* the rule being evaluated

ruleVars == <<vars, compileVars, rule>>

Bound == Bind(rule).value

ASSUME RuleAssumption ==
    /\ \A r \in Rules : IsOk(Bind(r))
    /\ {optimizeBoundExpr(Bind(r).value) : r \in Rules} \subseteq Trees

RuleInit ==
    /\ rule \in Rules
    /\ tree = optimizeBoundExpr(Bound)
    /\ CompileStart

RuleNext == CompileNext /\ UNCHANGED rule

RuleSpec == RuleInit /\ [][RuleNext]_ruleVars /\ WF_ruleVars(RuleNext)

-----------------------------------------------------------------------------
(* The subtrees of a tree.                                                 *)
RECURSIVE Subtrees(_)
Subtrees(b) == {b} \cup UNION {Subtrees(c) : c \in Children(b)}

(* The right operands of && and || that are evaluated are Booleans.        *)
BooleanOperands(b) ==
    \A s \in Subtrees(b) :
        s.node = "binary" /\ s.op \in {"&&", "||"} =>
            LET r == Eval(s.right, ctx) IN IsOk(r) => Tag(r.value) = "bool"

(* Interning the constants of the rule merged no two different values.     *)
PoolIsExact ==
    LET literals == {s.value : s \in {t \in Subtrees(tree) : IsLiteral(t)}}
    IN  \A v, w \in literals : ConstKey(v) = ConstKey(w) => v = w

(* Constant folding and dead-branch elimination change no result, errors   *)
(* included.                                                               *)
FoldingKeepsMeaning ==
    AtStart => Eval(tree, ctx) = Eval(Bound, ctx)

(* The VM and the tree interpreter give every rule the same result on      *)
(* every context.                                                          *)
VMMatchesInterpreter == Returned => outcome = Eval(Bound, ctx)

(* ... when the right operand of an && or || that is evaluated is a        *)
(* Boolean, as the binder's types say, and not nil.                        *)
VMMatchesOnBooleans ==
    Returned /\ BooleanOperands(Bound) => outcome = Eval(Bound, ctx)

(* ... and when the constant pool keeps different constants apart.         *)
VMMatchesApart ==
    Returned /\ BooleanOperands(Bound) /\ PoolIsExact => outcome = Eval(Bound, ctx)

-----------------------------------------------------------------------------
(* What the types promise                                                  *)

(* A value of a declared type: nil is one of every type, and a number may  *)
(* be of any numeric kind.                                                 *)
HasType(v, type) ==
    \/ IsNull(v)
    \/ isNumericType(type) /\ isNumericType(Tag(v))
    \/ Tag(v) = (IF type = "object" THEN "map" ELSE type)

(* A value of a field schema, its parts included, fields that are missing  *)
(* aside.                                                                  *)
RECURSIVE Conforms(_, _)
Conforms(v, field) ==
    /\ HasType(v, field.type)
    /\ IsMap(v) /\ field.type = "object" =>
           \A k \in DOMAIN Payload(v) \cap DOMAIN field.fields :
               Conforms(Payload(v)[k], field.fields[k])
    /\ Tag(v) \in {"map", "list"} /\ field.elem # <<>> =>
           \A k \in DOMAIN Payload(v) : Conforms(Payload(v)[k], field.elem[1])

(* The context gives every factor it has a value of the factor's schema.   *)
ContextConforms ==
    \A f \in DOMAIN ctx \cap DOMAIN Registry :
        \/ Conforms(ctx[f], ObjectField(Registry[f]))
        \/ /\ schemaHasSingleValueField(Registry[f])
           /\ ~IsMap(ctx[f])
           /\ Conforms(ctx[f], Registry[f][ValueKey])

IsGet(s) == s.node = "call" /\ s.name = "get"

(* A get whose container is a conditional has the schema of one branch     *)
(* only (mergeFieldSchema).                                                *)
GetsAreDirect == \A s \in Subtrees(Bound) : IsGet(s) => s.args[1].node # "conditional"

(* On contexts that conform to the registry, however many factors or       *)
(* fields are missing, a rule yields a value of the type it was checked to *)
(* have; apart from division by zero it fails only where a get meets nil.  *)
GetMeetsNull ==
    \E s \in Subtrees(Bound) : IsGet(s) /\ \E i \in {1, 2} :
        LET v == Eval(s.args[i], ctx) IN IsOk(v) /\ IsNull(v.value)

TypesHold ==
    Returned /\ ContextConforms /\ GetsAreDirect =>
        \/ IsOk(outcome) /\ HasType(outcome.value, ResultType(Bound))
        \/ outcome.code = "DIVISION_BY_ZERO"
        \/ outcome.code = "TYPE_MISMATCH" /\ GetMeetsNull

(* EvalExpr, which reads factors by name, agrees with the accessors of the *)
(* bound tree when the context holds the values of single-value factors    *)
(* under "value" and no rule names that field or takes a whole factor.     *)
NamesAreCanonical ==
    /\ \A f \in DOMAIN ctx \cap DOMAIN Registry :
           IF schemaHasSingleValueField(Registry[f])
           THEN IsMap(ctx[f]) => ValueKey \in DOMAIN Payload(ctx[f])
           ELSE IsMap(ctx[f]) => ValueKey \notin DOMAIN Payload(ctx[f])
    /\ \A s \in Subtrees(Bound) : s.node = "ref" => s.path # <<ValueKey>>

NamesMatchAccessors ==
    AtStart /\ NamesAreCanonical => EvalExpr(rule, ctx) = Eval(Bound, ctx)
=============================================================================
