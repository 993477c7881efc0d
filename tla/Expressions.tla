---------------------------- MODULE Expressions ----------------------------
(***************************************************************************)
(* Rule expressions: their syntax trees (expression.go), the types they    *)
(* are given by the binder (binder.go, schema.go, expression_helpers.go),  *)
(* and the tree interpreter (evaluator.go and the Eval methods of          *)
(* binder.go).                                                             *)
(*                                                                         *)
(* A ValueType is the tag of its values (module Values), "object" for      *)
(* OBJECT and "" for the element type of an empty list or map.             *)
(***************************************************************************)
EXTENDS Values, FiniteSetsExt

CONSTANT Registry   \* FactorRegistry: factor code -> its output schema

(* A FieldSchema.  elem is empty or holds the one field of the elements; a *)
(* Schema, like fields, is a function from keys to fields.                 *)
FieldSchema(type, fields, elem) == [type |-> type, fields |-> fields, elem |-> elem]
scalarField(type) == FieldSchema(type, <<>>, <<>>)
ListField(elemType) == FieldSchema("list", <<>>, <<scalarField(elemType)>>)
MapField(elemType) == FieldSchema("map", <<>>, <<scalarField(elemType)>>)
ObjectField(schema) == FieldSchema("object", schema, <<>>)

-----------------------------------------------------------------------------
(* Syntax trees                                                            *)

LiteralExpr(v) == [node |-> "literal", value |-> v]
FactorRefExpr(code, path) == [node |-> "ref", code |-> code, path |-> path]
UnaryExpr(op, e) == [node |-> "unary", op |-> op, expr |-> e]
BinaryExpr(op, l, r) == [node |-> "binary", op |-> op, left |-> l, right |-> r]
ConditionalExpr(c, t, e) == [node |-> "conditional", cond |-> c, then |-> t, else |-> e]
ListExpr(elems) == [node |-> "list", args |-> elems]
MapExpr(keys, values) == [node |-> "map", keys |-> keys, args |-> values]
FunctionCallExpr(name, args) == [node |-> "call", name |-> name, args |-> args]

(* A bound node is the syntax node with its field schema added (and, for a *)
(* factor reference, its accessor): ResultType is the type of the field.   *)
ResultType(b) == b.field.type

-----------------------------------------------------------------------------
(* Types                                                                   *)

(* Mutant: operands of one type are ordered, whatever the type.            *)
areOrderedWhenEqual(l, r) ==
    \/ isNumericType(l) /\ isNumericType(r)
    \/ l = r

areComparableOrderedTypes(l, r) ==
    \/ isNumericType(l) /\ isNumericType(r)
    \/ l = "string" /\ r = "string"

areEqualityCompatible(l, r) ==
    "null" \in {l, r} \/ l = r \/ (isNumericType(l) /\ isNumericType(r))

mergeComparableType(l, r) ==
    IF l = "null" THEN r
    ELSE IF isNumericType(l) /\ isNumericType(r) THEN mergeNumericType(l, r)
    ELSE l

(* The schema of a conditional: that of the left branch, if it describes   *)
(* anything, whatever the right branch says.                               *)
mergeFieldSchema(l, r, type) ==
    IF l.type = "null" THEN r
    ELSE IF r.type = "null" THEN l
    ELSE IF \/ type \in {"map", "list"} /\ l.elem # <<>>
            \/ type = "object" /\ DOMAIN l.fields # {} THEN l
    ELSE scalarField(type)

(* The field at the end of a path; every step but the last needs an object.*)
RECURSIVE resolveSchemaPath(_, _)
resolveSchemaPath(schema, path) ==
    IF path = <<>> \/ Head(path) \notin DOMAIN schema THEN Fail("FIELD_NOT_FOUND")
    ELSE IF Len(path) = 1 THEN Ok(schema[Head(path)])
    ELSE IF schema[Head(path)].type # "object" THEN Fail("FIELD_NOT_FOUND")
    ELSE resolveSchemaPath(schema[Head(path)].fields, Tail(path))

schemaHasSingleValueField(schema) == DOMAIN schema = {ValueKey}

(* A reference without a path means the field "value" of a factor that has *)
(* no other.                                                               *)
PathOfRef(ref) ==
    IF ref.path = <<>> /\ schemaHasSingleValueField(Registry[ref.code])
    THEN <<ValueKey>> ELSE ref.path

bindFactorRef(ref) ==
    IF ref.code \notin DOMAIN Registry THEN Fail("UNKNOWN_IDENTIFIER")
    ELSE LET path  == PathOfRef(ref)
             field == resolveSchemaPath(Registry[ref.code], path)
         IN  IF path = <<>> THEN Fail("FACTOR_REF_AMBIGUOUS")
             ELSE IF ~IsOk(field) THEN field
             ELSE Ok([node |-> "ref", code |-> ref.code, path |-> ref.path,
                      accessor |-> Accessor(ref.code, path), field |-> field.value])

(* A factor itself, where one of many fields is not asked for.             *)
bindRootObjectFactorRefIfNeeded(ref) ==
    IF \/ ref.path # <<>>
       \/ ref.code \notin DOMAIN Registry
       \/ schemaHasSingleValueField(Registry[ref.code]) THEN bindFactorRef(ref)
    ELSE Ok([node |-> "ref", code |-> ref.code, path |-> ref.path,
             accessor |-> Accessor(ref.code, <<>>), field |-> ObjectField(Registry[ref.code])])

resolveGetResultField(container, key) ==
    CASE container.type = "map" ->
           IF container.elem = <<>> THEN Fail("TYPE_MISMATCH") ELSE Ok(container.elem[1])
      [] container.type = "object" ->
           IF key.node # "literal" THEN Fail("TYPE_MISMATCH")
           ELSE IF Payload(key.value) \notin DOMAIN container.fields THEN Fail("FIELD_NOT_FOUND")
           ELSE Ok(container.fields[Payload(key.value)])
      [] OTHER -> Fail("TYPE_MISMATCH")

-----------------------------------------------------------------------------
(* The binder                                                              *)

(* The first failure of a sequence of results, or all the values.          *)
Collect(results) ==
    LET failed == {i \in DOMAIN results : ~IsOk(results[i])}
    IN  IF failed # {} THEN results[Min(failed)]
        ELSE Ok([i \in DOMAIN results |-> results[i].value])

WithField(node, type) == Ok([field |-> scalarField(type)] @@ node)

(* The common type of the elements of a list or the values of a map: a     *)
(* failure when one is not compatible with those before it.                *)
ElementType(results) ==
    LET step(acc, r) ==
            IF ~IsOk(acc) THEN acc
            ELSE IF ~IsOk(r) THEN r
            ELSE IF acc.value = "none" THEN Ok(ResultType(r.value))
            ELSE IF ~areEqualityCompatible(acc.value, ResultType(r.value)) THEN Fail("TYPE_MISMATCH")
            ELSE Ok(mergeComparableType(acc.value, ResultType(r.value)))
    IN  FoldLeft(step, Ok("none"), results)

(* What Bind does with a node and the results of binding what is in it.    *)
bindElements(e, results, fieldOf(_)) ==
    LET type == ElementType(results)
    IN  IF ~IsOk(type) THEN type
        ELSE Ok([field |-> fieldOf(IF type.value = "none" THEN "" ELSE type.value)] @@
                [e EXCEPT !.args = Collect(results).value])

bindUnary(e, operand) ==
    LET legal == IF e.op = "!" THEN ResultType(operand.value) = "bool"
                               ELSE isNumericType(ResultType(operand.value))
    IN  IF ~IsOk(operand) THEN operand
        ELSE IF ~legal THEN Fail("TYPE_MISMATCH")
        ELSE WithField([e EXCEPT !.expr = operand.value], ResultType(operand.value))

bindBinary(e, l, r) ==
    LET lt == ResultType(l.value)
        rt == ResultType(r.value)
        legal == CASE e.op \in {"&&", "||"}    -> lt = "bool" /\ rt = "bool"
                   [] e.op \in OrderedOps    -> areComparableOrderedTypes(lt, rt)
                   [] e.op \in EqualityOps   -> areEqualityCompatible(lt, rt)
                   [] e.op \in ArithmeticOps -> isNumericType(lt) /\ isNumericType(rt)
    IN  IF ~IsOk(l) THEN l
        ELSE IF ~IsOk(r) THEN r
        ELSE IF ~legal THEN Fail("TYPE_MISMATCH")
        ELSE WithField([e EXCEPT !.left = l.value, !.right = r.value],
                       IF e.op \in ArithmeticOps THEN mergeNumericType(lt, rt) ELSE "bool")

bindConditional(e, c, t, f) ==
    LET type == mergeComparableType(ResultType(t.value), ResultType(f.value))
    IN  IF ~IsOk(c) THEN c
        ELSE IF ResultType(c.value) # "bool" THEN Fail("TYPE_MISMATCH")
        ELSE IF ~IsOk(t) THEN t
        ELSE IF ~IsOk(f) THEN f
        ELSE IF ~areEqualityCompatible(ResultType(t.value), ResultType(f.value))
          THEN Fail("TYPE_MISMATCH")
        ELSE Ok([field |-> mergeFieldSchema(t.value.field, f.value.field, type)] @@
                [e EXCEPT !.cond = c.value, !.then = t.value, !.else = f.value])

(* get looks at the container first, then at the key.                      *)
bindGetFunction(e, results) ==
    IF Len(e.args) # 2 THEN Fail("INVALID_ARGUMENT_COUNT")
    ELSE LET container == results[1]
             key == results[2]
             field == resolveGetResultField(container.value.field, key.value)
         IN  IF ~IsOk(container) THEN container
             ELSE IF ~IsOk(key) THEN key
             ELSE IF ResultType(key.value) # "string" THEN Fail("TYPE_MISMATCH")
             ELSE IF ~IsOk(field) THEN field
             ELSE Ok([field |-> field.value] @@ [e EXCEPT !.args = <<container.value, key.value>>])

(* What contains accepts: the items of a list expression, a STRING factor, *)
(* or anything else that is a STRING or a LIST.                            *)
ContainsAccepts(container, item) ==
    CASE container.node = "list" ->
           areEqualityCompatible(container.field.elem[1].type, ResultType(item))
      [] container.node = "ref" -> ResultType(container) = "string"
      [] OTHER -> ResultType(container) \in {"string", "list"}

bindFunctionCall(e, results) ==
    IF e.name = "get" THEN bindGetFunction(e, results)
    ELSE LET bound == Collect(results)
             args == bound.value
             counted == CASE e.name \in {"isEmpty", "exists"} -> Len(args) = 1
                          [] e.name = "in"       -> Len(args) >= 2
                          [] e.name = "contains" -> Len(args) = 2
             legal == CASE e.name = "in" ->
                             \A i \in 2..Len(args) :
                                 areEqualityCompatible(ResultType(args[1]), ResultType(args[i]))
                        [] e.name = "contains" -> ContainsAccepts(args[1], args[2])
                        [] OTHER -> TRUE
         IN  IF ~IsOk(bound) THEN bound
             ELSE IF e.name \notin BuiltinNames THEN Fail("UNKNOWN_FUNCTION")
             ELSE IF ~counted THEN Fail("INVALID_ARGUMENT_COUNT")
             ELSE IF ~legal THEN Fail("TYPE_MISMATCH")
             ELSE WithField([e EXCEPT !.args = args], "bool")

RECURSIVE Bind(_)

(* The container of get may be a whole factor.                             *)
bindArgs(e) ==
    [i \in DOMAIN e.args |->
        IF e.node = "call" /\ e.name = "get" /\ i = 1 /\ e.args[1].node = "ref"
        THEN bindRootObjectFactorRefIfNeeded(e.args[1])
        ELSE Bind(e.args[i])]

(* ExpressionBinder.Bind: a bound tree, or the code of the error.          *)
Bind(e) ==
    CASE e.node = "literal"     -> WithField(e, Tag(e.value))
      [] e.node = "ref"         -> bindFactorRef(e)
      [] e.node = "conditional" -> bindConditional(e, Bind(e.cond), Bind(e.then), Bind(e.else))
      [] e.node = "call"        -> bindFunctionCall(e, bindArgs(e))
      [] e.node = "list"        -> bindElements(e, bindArgs(e), ListField)
      [] e.node = "map"         -> bindElements(e, bindArgs(e), MapField)
      [] e.node = "unary"       -> bindUnary(e, Bind(e.expr))
      [] e.node = "binary"      -> bindBinary(e, Bind(e.left), Bind(e.right))

-----------------------------------------------------------------------------
(* The tree interpreter                                                    *)

(* ResolveValue: how the interpreter of unbound trees reads a factor.      *)
RECURSIVE Walk(_, _)
Walk(v, path) ==
    IF path = <<>> THEN v
    ELSE IF IsMap(v) /\ Head(path) \in DOMAIN Payload(v)
      THEN Walk(Payload(v)[Head(path)], Tail(path))
    ELSE Null

ResolveValue(ctx, ref) ==
    IF ref.code \notin DOMAIN ctx THEN Null
    ELSE LET root == ctx[ref.code]
         IN  IF ref.path = <<>> /\ ~(IsMap(root) /\ ValueKey \in DOMAIN Payload(root)) THEN root
             ELSE Walk(root, IF ref.path = <<>> THEN <<ValueKey>> ELSE ref.path)

(* The map of entries evaluated in order: a repeated key keeps the last.   *)
MapOfEntries(keys, values) ==
    Map([k \in Range(keys) |-> values[Max({i \in DOMAIN keys : keys[i] = k})]])

(* Eval of a bound tree reads factors through their accessors; EvalExpr of *)
(* a syntax tree resolves them by name.  Otherwise they are the same code: *)
(* bound tells which of the two runs.                                      *)
RECURSIVE EvalTree(_, _, _)

evalShortCircuit(e, ctx, bound) ==
    LET l == EvalTree(e.left, ctx, bound)
        r == EvalTree(e.right, ctx, bound)
        decided == truthyBool(l.value) = (e.op = "||")
    IN  IF ~IsOk(l) THEN l
        ELSE IF decided THEN Ok(Bool(e.op = "||"))
        ELSE IF ~IsOk(r) THEN r
        ELSE Ok(Bool(truthyBool(r.value)))

evalArgs(e, ctx, bound) == Collect([i \in DOMAIN e.args |-> EvalTree(e.args[i], ctx, bound)])

EvalTree(e, ctx, bound) ==
    CASE e.node = "literal" -> Ok(e.value)
      [] e.node = "ref" ->
           Ok(IF bound THEN AccessorGet(e.accessor, ctx) ELSE ResolveValue(ctx, e))
      [] e.node = "unary" ->
           LET v == EvalTree(e.expr, ctx, bound)
           IN  IF IsOk(v) THEN evalUnaryValue(e.op, v.value) ELSE v
      [] e.node = "binary" ->
           IF e.op \in {"&&", "||"} THEN evalShortCircuit(e, ctx, bound)
           ELSE LET vs == Collect(<<EvalTree(e.left, ctx, bound), EvalTree(e.right, ctx, bound)>>)
                IN  IF IsOk(vs) THEN evalBinaryValues(e.op, vs.value[1], vs.value[2]) ELSE vs
      [] e.node = "conditional" ->
           LET c == EvalTree(e.cond, ctx, bound)
           IN  IF ~IsOk(c) THEN c
               ELSE EvalTree(IF truthyBool(c.value) THEN e.then ELSE e.else, ctx, bound)
      [] e.node = "list" ->
           LET vs == evalArgs(e, ctx, bound) IN IF IsOk(vs) THEN Ok(List(vs.value)) ELSE vs
      [] e.node = "map" ->
           LET vs == evalArgs(e, ctx, bound)
           IN  IF IsOk(vs) THEN Ok(MapOfEntries(e.keys, vs.value)) ELSE vs
      [] e.node = "call" ->
           LET vs == evalArgs(e, ctx, bound)
           IN  IF IsOk(vs) THEN evalBuiltinValues(e.name, vs.value) ELSE vs

Eval(b, ctx) == EvalTree(b, ctx, TRUE)
EvalExpr(e, ctx) == EvalTree(e, ctx, FALSE)
-----------------------------------------------------------------------------
(* What %#v prints of a value inside an interface: a number is printed     *)
(* without its Go type, so 1, int64(1) and 1.0 look alike.                 *)
RECURSIVE Printed(_)
Printed(v) ==
    CASE isNumericType(Tag(v)) -> <<"number", AsDouble(v)>>
      [] Tag(v) = "list" -> <<"list", [i \in DOMAIN Payload(v) |-> Printed(Payload(v)[i])]>>
      [] Tag(v) = "map"  -> <<"map", [k \in DOMAIN Payload(v) |-> Printed(Payload(v)[k])]>>
      [] OTHER -> v

(* internConst's key %T:%#v: the type of the constant itself is part of it.*)
PrintedKey(v) == <<Tag(v), Printed(v)>>
=============================================================================
