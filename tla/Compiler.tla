------------------------------ MODULE Compiler ------------------------------
(***************************************************************************)
(* From a bound tree to bytecode (BytecodeCompiler in bytecode.go): fold   *)
(* the constants, then emit the instructions as module Emission says.      *)
(***************************************************************************)
EXTENDS Expressions, Emission

IsLiteral(b) == b.node = "literal"

-----------------------------------------------------------------------------
(* Constant folding                                                        *)

(* A literal in the place of b, of b's type.                               *)
LiteralFor(b, v) == [node |-> "literal", value |-> v, field |-> b.field]

(* The fold of a node whose children are folded: its value when all of     *)
(* them are literals and it has one; an error is left for run time.        *)
FoldAll(b, children) ==
    LET result == Eval(b, <<>>)
    IN  IF (\A c \in children : IsLiteral(c)) /\ IsOk(result) THEN LiteralFor(b, result.value) ELSE b

(* Mutant: a left operand that decides nothing replaces the expression.    *)
foldBinaryEagerly(b) ==
    IF b.op \in {"&&", "||"} /\ IsLiteral(b.left)
    THEN IF truthyBool(b.left.value) = (b.op = "||") THEN LiteralFor(b, Bool(b.op = "||")) ELSE b.left
    ELSE FoldAll(b, {b.left, b.right})

(* A left operand that decides && or || is enough.                         *)
foldBinaryIfPossible(b) ==
    IF b.op \in {"&&", "||"} /\ IsLiteral(b.left) /\ truthyBool(b.left.value) = (b.op = "||")
    THEN LiteralFor(b, Bool(b.op = "||"))
    ELSE FoldAll(b, {b.left, b.right})

RECURSIVE optimizeBoundExpr(_)
optimizeBoundExpr(b) ==
    CASE b.node \in {"literal", "ref"} -> b
      [] b.node \in {"list", "map", "call"} ->
           LET args == [i \in DOMAIN b.args |-> optimizeBoundExpr(b.args[i])]
           IN  FoldAll([b EXCEPT !.args = args], Range(args))
      [] b.node = "unary" ->
           LET operand == optimizeBoundExpr(b.expr)
           IN  FoldAll([b EXCEPT !.expr = operand], {operand})
      [] b.node = "binary" ->
           foldBinaryIfPossible([b EXCEPT !.left = optimizeBoundExpr(b.left),
                                          !.right = optimizeBoundExpr(b.right)])
      [] b.node = "conditional" ->
           LET c == optimizeBoundExpr(b.cond)
               t == optimizeBoundExpr(b.then)
               f == optimizeBoundExpr(b.else)
           IN  IF IsLiteral(c) THEN IF truthyBool(c.value) THEN t ELSE f
               ELSE [b EXCEPT !.cond = c, !.then = t, !.else = f]

-----------------------------------------------------------------------------
(* BytecodeCompiler.Compile                                                *)

RECURSIVE EmitAll(_, _)
EmitAll(work, c) ==
    IF work = <<>> THEN c
    ELSE EmitAll(Unfolded(Head(work), c) \o Tail(work), Emitted(Head(work), c))

CompileBound(b) == Program(EmitAll(<<Expr(optimizeBoundExpr(b))>>, NewCompiler))
=============================================================================
