------------------------------ MODULE Emission ------------------------------
(***************************************************************************)
(* The second half of BytecodeCompiler.Compile (bytecode.go): a tree whose *)
(* constants are folded becomes instructions and three interned pools.     *)
(* emitExpr calls itself for the parts of a tree; what its calls have      *)
(* still to do, the innermost first, is a list of tasks here, and one task *)
(* is done at a time.  Nothing in this module is recursive, so that        *)
(* theorems may speak of it.                                               *)
(***************************************************************************)
EXTENDS Values, FiniteSets

CONSTANT ConstKey(_)   \* constant -> internConst's key of it

-----------------------------------------------------------------------------
(* The pools                                                               *)

(* The compiler under way: instructions so far and the three pools.        *)
NewCompiler == [code |-> <<>>, consts |-> <<>>, accessors |-> <<>>, builtins |-> <<>>]

emit(c, op, arg, aux) == [c EXCEPT !.code = Append(@, [op |-> op, arg |-> arg, aux |-> aux])]

(* The index of the first entry that satisfies Same, or of a new one.      *)
IndexIn(pool, Same(_)) ==
    LET found == {i \in DOMAIN pool : Same(pool[i])}
    IN  IF found = {} THEN Len(pool) ELSE Min(found) - 1

Interned(pool, i, x) == IF i = Len(pool) THEN Append(pool, x) ELSE pool

internConst(c, v) ==
    LET i == IndexIn(c.consts, LAMBDA x : ConstKey(x) = ConstKey(v))
    IN  emit([c EXCEPT !.consts = Interned(@, i, v)], "PUSH_CONST", i, 0)

internAccessor(c, accessor) ==
    LET i == IndexIn(c.accessors, LAMBDA x : x = accessor)
    IN  emit([c EXCEPT !.accessors = Interned(@, i, accessor)], "LOAD_FACTOR", i, 0)

internBuiltin(c, name, argc) ==
    LET i == IndexIn(c.builtins, LAMBDA x : x = name)
    IN  emit([c EXCEPT !.builtins = Interned(@, i, name)], "CALL_BUILTIN", i, argc)

-----------------------------------------------------------------------------
(* Tasks                                                                   *)

Expr(b) == [task |-> "expr", tree |-> b]
Const(v) == [task |-> "const", value |-> v]
Load(accessor) == [task |-> "load", accessor |-> accessor]
Op(op, arg) == [task |-> "op", op |-> op, arg |-> arg]
Call(name, argc) == [task |-> "call", name |-> name, argc |-> argc]

(* One arm or the other, by the operand on the stack; then the jump over   *)
(* the second arm, with the place of the first jump in at; then what is    *)
(* left to do when the second jump, at at, can land.                       *)
Branch(op, first, second) == [task |-> "branch", op |-> op, first |-> first, second |-> second]
Else(at, second) == [task |-> "else", at |-> at, second |-> second]
Land(at) == [task |-> "land", at |-> at]

Exprs(trees) == [i \in DOMAIN trees |-> Expr(trees[i])]

(* Every key before its value.                                             *)
Entries(keys, trees) ==
    [j \in 1..(2 * Len(keys)) |-> IF j % 2 = 1 THEN Const(Str(keys[(j + 1) \div 2]))
                                               ELSE Expr(trees[j \div 2])]

(* The right operand is the result of && and || when it decides: emitted   *)
(* as it is, with no conversion to a Boolean.                              *)
emitShortCircuitBinary(b) ==
    <<Expr(b.left), Branch(IF b.op = "&&" THEN "JUMP_IF_FALSE" ELSE "JUMP_IF_TRUE",
                           Expr(b.right), Const(Bool(b.op = "||")))>>

emitExpr(b) ==
    CASE b.node = "literal" -> <<Const(b.value)>>
      [] b.node = "ref"     -> <<Load(b.accessor)>>
      [] b.node = "list"    -> Append(Exprs(b.args), Op("MAKE_LIST", Len(b.args)))
      [] b.node = "map"     -> Append(Entries(b.keys, b.args), Op("MAKE_MAP", Len(b.keys)))
      [] b.node = "unary"   -> <<Expr(b.expr), Op(IF b.op = "!" THEN "NOT" ELSE "NEG", 0)>>
      [] b.node = "conditional" ->
           <<Expr(b.cond), Branch("JUMP_IF_FALSE", Expr(b.then), Expr(b.else))>>
      [] b.node = "binary" ->
           IF b.op \in {"&&", "||"} THEN emitShortCircuitBinary(b)
           ELSE <<Expr(b.left), Expr(b.right), Op(b.op, 0)>>
      [] b.node = "call" -> Append(Exprs(b.args), Call(b.name, Len(b.args)))

(* Mutant: the jump lands on its own target's predecessor.                 *)
PatchShort(c, at) == [c EXCEPT !.code[at].arg = Len(c.code) - 1]

(* The jump emitted at index at lands behind what has been emitted.        *)
Patch(c, at) == [c EXCEPT !.code[at].arg = Len(c.code)]

(* The compiler once a task is done ...                                    *)
Emitted(t, c) ==
    CASE t.task = "expr"   -> c
      [] t.task = "const"  -> internConst(c, t.value)
      [] t.task = "load"   -> internAccessor(c, t.accessor)
      [] t.task = "op"     -> emit(c, t.op, t.arg, 0)
      [] t.task = "call"   -> internBuiltin(c, t.name, t.argc)
      [] t.task = "branch" -> emit(c, t.op, 0, 0)
      [] t.task = "else"   -> Patch(emit(c, "JUMP", 0, 0), t.at)
      [] t.task = "land"   -> Patch(c, t.at)

(* ... and the tasks that it leaves, which come next.                      *)
Unfolded(t, c) ==
    CASE t.task = "expr"   -> emitExpr(t.tree)
      [] t.task = "branch" -> <<t.first, Else(Len(c.code) + 1, t.second)>>
      [] t.task = "else"   -> <<t.second, Land(Len(c.code) + 1)>>
      [] OTHER             -> <<>>

-----------------------------------------------------------------------------
(* Peephole: a jump to the next instruction is dropped, and the targets of *)
(* the others move with the instructions that are left.                    *)
IsJump(inst) == inst.op \in {"JUMP", "JUMP_IF_FALSE", "JUMP_IF_TRUE"}

optimizeInstructions(code) ==
    LET keep == {i \in DOMAIN code : ~(code[i].op = "JUMP" /\ code[i].arg = i)}
        newIndex(j) == Cardinality({i \in keep : i <= j})
        moved(inst) == IF IsJump(inst) /\ inst.arg \in 0..Len(code)
                       THEN [inst EXCEPT !.arg = newIndex(inst.arg)] ELSE inst
    IN  [n \in 1..Cardinality(keep) |->
            moved(code[CHOOSE i \in keep : newIndex(i) = n])]

(* What Compile returns of a compiler that has nothing left to emit.       *)
Program(c) == [c EXCEPT !.code = optimizeInstructions(@)]
=============================================================================
