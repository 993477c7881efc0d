------------------------------ MODULE Values ------------------------------
(***************************************************************************)
(* The runtime values of the factor engine and the operators that the tree *)
(* interpreter and the bytecode VM share (evaluator.go, accessor.go and    *)
(* expression_helpers.go).                                                 *)
(*                                                                         *)
(* A value is a pair <<tag, payload>>, the tag being its dynamic Go type:  *)
(*   null            nil                    payload 0                      *)
(*   bool            bool                   a Boolean                      *)
(*   int, long       int, int64             a WordBits-bit integer         *)
(*   double          float64                a fraction <<n, d>> in lowest  *)
(*                                          terms, d > 0                   *)
(*   string          string                 a rank in Go's string order,   *)
(*                                          0 being the empty string       *)
(*   list            []any                  a sequence of values           *)
(*   map             map[string]any         a function from ranks          *)
(*   other           any Go type the engine has no case for                *)
(* Fractions are exact: rounding, infinities and NaN are left out.  The    *)
(* float64 -0.0 is the fraction NegativeZero, the only one not in lowest   *)
(* terms: it compares as zero and has a sign.                              *)
(***************************************************************************)
EXTENDS Integers, Sequences, SequencesExt

CONSTANTS
    WordBits,   \* width of Go's int and int64 (64 in the program)
    Substring,  \* pairs of ranks <<s, t>> with strings.Contains(t, s)
    ValueKey    \* the string "value" (its rank, where strings are ranks)

ASSUME WordAssumption == WordBits \in Nat \ {0}

Null == <<"null", 0>>
Bool(b) == <<"bool", b>>
GoInt(n) == <<"int", n>>
GoLong(n) == <<"long", n>>
Double(n, d) == <<"double", <<n, d>>>>
Str(r) == <<"string", r>>
List(s) == <<"list", s>>
Map(f) == <<"map", f>>

Tag(v) == v[1]
Payload(v) == v[2]
IsNull(v) == Tag(v) = "null"
IsMap(v) == Tag(v) = "map"

(* The outcome of an operation: a value, or the error code it returns.     *)
Ok(v) == [code |-> "OK", value |-> v]
Fail(code) == [code |-> code, value |-> Null]
IsOk(r) == r.code = "OK"

-----------------------------------------------------------------------------
(* Numbers                                                                 *)

(* Two's-complement wrap-around of Go's integer arithmetic.                *)
Wrap(n) == ((n + 2^(WordBits - 1)) % 2^WordBits) - 2^(WordBits - 1)

(* Go's integer division truncates towards zero; TLA+'s \div floors.       *)
TruncDiv(a, b) ==
    LET Abs(x) == IF x < 0 THEN -x ELSE x
        q == Abs(a) \div Abs(b)
    IN  IF (a < 0) = (b < 0) THEN q ELSE -q

NumericTags == {"int", "long", "double"}

isNumericType(t) == t \in NumericTags

mergeNumericType(l, r) ==
    IF "double" \in {l, r} THEN "double"
    ELSE IF "long" \in {l, r} THEN "long" ELSE "int"

(* normalizeNumbers: both operands are numbers; as fractions when one of   *)
(* them is a double, as integers otherwise.                                *)
AreNumbers(l, r) == isNumericType(Tag(l)) /\ isNumericType(Tag(r))
AsDouble(v) == IF Tag(v) = "double" THEN Payload(v) ELSE <<Payload(v), 1>>
Kind(l, r) == mergeNumericType(Tag(l), Tag(r))

FracLess(p, q) == p[1] * q[2] < q[1] * p[2]
FracEqual(p, q) == p[1] * q[2] = q[1] * p[2]

(* The fraction n/d in lowest terms, d > 0.                                *)
Lowest(n, d) ==
    LET abs == IF n < 0 THEN -n ELSE n
        g == CHOOSE g \in 1..d : /\ d % g = 0 /\ abs % g = 0
                                 /\ \A h \in (g + 1)..d : ~(d % h = 0 /\ abs % h = 0)
    IN  Double(n \div g, d \div g)

NegativeZero == <<0, 2>>
IsNegative(p) == p[1] < 0 \/ p = NegativeZero

(* A float64 keeps a sign when it is zero.                                 *)
Signed(n, d, negative) ==
    IF n = 0 /\ negative THEN <<"double", NegativeZero>> ELSE Lowest(n, d)

FracArith(op, p, q) ==
    LET opposite == IsNegative(p) # IsNegative(q)
    IN  CASE op = "+" -> Signed(p[1] * q[2] + q[1] * p[2], p[2] * q[2], IsNegative(p) /\ ~opposite)
          [] op = "-" -> Signed(p[1] * q[2] - q[1] * p[2], p[2] * q[2], IsNegative(p) /\ opposite)
          [] op = "*" -> Signed(p[1] * q[1], p[2] * q[2], opposite)
          [] op = "/" -> IF q[1] > 0 THEN Signed(p[1] * q[2], p[2] * q[1], opposite)
                                     ELSE Signed(-(p[1] * q[2]), -(p[2] * q[1]), opposite)

FracNegate(p) ==
    CASE p = NegativeZero -> <<0, 1>>
      [] p = <<0, 1>>     -> NegativeZero
      [] OTHER            -> <<-p[1], p[2]>>

IntArith(op, a, b) ==
    CASE op = "+" -> GoLong(Wrap(a + b))
      [] op = "-" -> GoLong(Wrap(a - b))
      [] op = "*" -> GoLong(Wrap(a * b))
      [] op = "/" -> GoLong(Wrap(TruncDiv(a, b)))

(* Every integer result is an int64, also for two int operands; nil        *)
(* absorbs, and division by zero is an error for both kinds.               *)
arithmetic(l, r, op) ==
    IF IsNull(l) \/ IsNull(r) THEN Ok(Null)
    ELSE IF ~AreNumbers(l, r) THEN Fail("TYPE_MISMATCH")
    ELSE LET double == Kind(l, r) = "double"
             zero   == IF double THEN AsDouble(r)[1] = 0 ELSE Payload(r) = 0
         IN  IF op = "/" /\ zero THEN Fail("DIVISION_BY_ZERO")
             ELSE Ok(IF double THEN FracArith(op, AsDouble(l), AsDouble(r))
                               ELSE IntArith(op, Payload(l), Payload(r)))

-----------------------------------------------------------------------------
(* Comparison                                                              *)

OrderedBy(op, less, equal) ==
    CASE op = "<"  -> less
      [] op = "<=" -> less \/ equal
      [] op = ">"  -> ~less /\ ~equal
      [] op = ">=" -> ~less

orderedCompare(l, r, op) ==
    IF IsNull(l) \/ IsNull(r) THEN Ok(Bool(FALSE))
    ELSE IF Tag(l) = "string" /\ Tag(r) = "string"
      THEN Ok(Bool(OrderedBy(op, Payload(l) < Payload(r), Payload(l) = Payload(r))))
    ELSE IF ~AreNumbers(l, r) THEN Fail("TYPE_MISMATCH")
    ELSE LET p == AsDouble(l)
             q == AsDouble(r)
         IN  Ok(Bool(OrderedBy(op, FracLess(p, q), FracEqual(p, q))))

(* Lists and maps are equal to nothing, themselves included.               *)
equalityCompare(l, r) ==
    \/ IsNull(l) /\ IsNull(r)
    \/ /\ Tag(l) = Tag(r)
       /\ Tag(l) \in {"bool", "string"}
       /\ Payload(l) = Payload(r)
    \/ AreNumbers(l, r) /\ FracEqual(AsDouble(l), AsDouble(r))

-----------------------------------------------------------------------------
(* Truth values and unary operators                                        *)

truthyBool(v) == Tag(v) = "bool" /\ Payload(v)

evalNot(v) ==
    IF IsNull(v) THEN Ok(Bool(FALSE))
    ELSE IF Tag(v) = "bool" THEN Ok(Bool(~Payload(v)))
    ELSE Fail("TYPE_MISMATCH")

evalNegate(v) ==
    IF IsNull(v) THEN Ok(Null)
    ELSE IF Tag(v) \in {"int", "long"} THEN Ok(<<Tag(v), Wrap(-Payload(v))>>)
    ELSE IF Tag(v) = "double" THEN Ok(<<"double", FracNegate(Payload(v))>>)
    ELSE Fail("TYPE_MISMATCH")

evalUnaryValue(op, v) == IF op = "!" THEN evalNot(v) ELSE evalNegate(v)

OrderedOps == {"<", "<=", ">", ">="}
EqualityOps == {"==", "!="}
ArithmeticOps == {"+", "-", "*", "/"}

evalBinaryValues(op, l, r) ==
    CASE op \in OrderedOps    -> orderedCompare(l, r, op)
      [] op = "=="            -> Ok(Bool(equalityCompare(l, r)))
      [] op = "!="            -> Ok(Bool(~equalityCompare(l, r)))
      [] op \in ArithmeticOps -> arithmetic(l, r, op)

-----------------------------------------------------------------------------
(* Builtin functions. An argument the caller did not supply is an index    *)
(* out of range in the code: the panic is recovered as INTERNAL_PANIC.     *)

builtinIsEmpty(v) ==
    \/ IsNull(v)
    \/ Tag(v) = "string" /\ Payload(v) = 0
    \/ Tag(v) = "list" /\ Payload(v) = <<>>
    \/ IsMap(v) /\ DOMAIN Payload(v) = {}

builtinIn(args) ==
    \E i \in 2..Len(args) : equalityCompare(args[1], args[i])

builtinContains(container, item) ==
    \/ /\ Tag(container) = "string"
       /\ Tag(item) = "string"
       /\ <<Payload(item), Payload(container)>> \in Substring
    \/ /\ Tag(container) = "list"
       /\ \E i \in DOMAIN Payload(container) :
              equalityCompare(Payload(container)[i], item)

builtinGet(container, key) ==
    IF Tag(key) # "string" \/ ~IsMap(container) THEN Fail("TYPE_MISMATCH")
    ELSE Ok(IF Payload(key) \in DOMAIN Payload(container)
            THEN Payload(container)[Payload(key)] ELSE Null)

BuiltinNames == {"isEmpty", "exists", "in", "contains", "get"}
MinArgs(name) == IF name \in {"contains", "get"} THEN 2 ELSE 1

evalBuiltinValues(name, args) ==
    IF name \notin BuiltinNames THEN Fail("UNKNOWN_FUNCTION")
    ELSE IF Len(args) < MinArgs(name) THEN Fail("INTERNAL_PANIC")
    ELSE CASE name = "isEmpty"  -> Ok(Bool(builtinIsEmpty(args[1])))
           [] name = "exists"   -> Ok(Bool(~IsNull(args[1])))
           [] name = "in"       -> Ok(Bool(builtinIn(args)))
           [] name = "contains" -> Ok(Bool(builtinContains(args[1], args[2])))
           [] name = "get"      -> builtinGet(args[1], args[2])

-----------------------------------------------------------------------------
(* Accessors: a factor code and the keys to follow below it.               *)

Accessor(factor, steps) == [factor |-> factor, steps |-> steps]

(* Mutant: a key that is missing leaves the walk where it is.              *)
AccessorStepLenient(walk, i, key) ==
    IF IsMap(walk.value) /\ key \in DOMAIN Payload(walk.value)
    THEN [walk EXCEPT !.value = Payload(@)[key]] ELSE walk

(* One step of the walk: a first step "value" on something that is not a   *)
(* map ends the walk there; any other step needs a map that has the key.   *)
AccessorStep(walk, i, key) ==
    IF walk.state # "walking" THEN walk
    ELSE IF i = 1 /\ key = ValueKey /\ ~IsMap(walk.value)
      THEN [walk EXCEPT !.state = "ended"]
    ELSE IF IsMap(walk.value) /\ key \in DOMAIN Payload(walk.value)
      THEN [walk EXCEPT !.value = Payload(@)[key]]
    ELSE [state |-> "missing", value |-> Null]

(* FactorValueAccessor.Get; a missing value is nil for every caller.       *)
AccessorGet(accessor, ctx) ==
    IF accessor.factor \notin DOMAIN ctx THEN Null
    ELSE FoldLeftDomain(LAMBDA walk, i : AccessorStep(walk, i, accessor.steps[i]),
                        [state |-> "walking", value |-> ctx[accessor.factor]],
                        accessor.steps).value
=============================================================================
