---------------------------- MODULE CompiledRule ----------------------------
(***************************************************************************)
(* A bound tree from the compiler's hands to a result: Compile emits its   *)
(* program task by task (module Emission), then compiledExpr.Eval runs the *)
(* program on the VM (module BytecodeVM).  What a tree is before that, and *)
(* what its result ought to be, is in module RuleExecution.                *)
(***************************************************************************)
EXTENDS Emission, BytecodeVM

CONSTANT Trees      \* trees that the binder makes and the folding leaves

VARIABLES
    tree,       \* the tree being compiled
    work,       \* the tasks that are left, the next one first
    compiler,   \* instructions and pools so far
    compiled    \* Compile has returned its program

compileVars == <<tree, work, compiler, compiled>>

-----------------------------------------------------------------------------
(* What the compiler may expect of a tree                                  *)

Children(b) ==
    CASE b.node \in {"literal", "ref"} -> {}
      [] b.node = "unary"       -> {b.expr}
      [] b.node = "binary"      -> {b.left, b.right}
      [] b.node = "conditional" -> {b.cond, b.then, b.else}
      [] OTHER                  -> Range(b.args)

(* The kinds of nodes, their operators, as many keys as values in a map,   *)
(* and as many arguments as the builtin needs.                             *)
IsTree(b) ==
    /\ b.node \in {"literal", "ref", "list", "map", "unary", "binary", "conditional", "call"}
    /\ b.node = "unary"  => b.op \in {"!", "-"}
    /\ b.node = "binary" => b.op \in {"&&", "||"} \cup BinaryOps
    /\ b.node \in {"list", "map", "call"} => b.args \in Seq(Range(b.args))
    /\ b.node = "map"    => b.keys \in Seq(Range(b.keys)) /\ Len(b.keys) = Len(b.args)
    /\ b.node = "call"   => Len(b.args) >= MinArgs(b.name)

ASSUME TreeAssumption ==
    /\ \A b \in Trees : IsTree(b)
    /\ UNION {Children(b) : b \in Trees} \subseteq Trees

-----------------------------------------------------------------------------
(* BytecodeCompiler.Compile, and an evaluation that has not begun.         *)
CompileStart ==
    /\ work = <<Expr(tree)>>
    /\ compiler = NewCompiler
    /\ compiled = FALSE
    /\ prog = NewCompiler
    /\ ctx = <<>>
    /\ cancelled = FALSE
    /\ Start

CompileInit == tree \in Trees /\ CompileStart

Emit ==
    /\ work # <<>>
    /\ compiler' = Emitted(Head(work), compiler)
    /\ work' = Unfolded(Head(work), compiler) \o Tail(work)
    /\ UNCHANGED <<vars, tree, compiled>>

(* Compile returns, and the rule is evaluated in some context.             *)
Evaluate ==
    /\ ~compiled
    /\ work = <<>>
    /\ compiled' = TRUE
    /\ prog' = Program(compiler)
    /\ ctx' \in Contexts
    /\ UNCHANGED <<tree, work, compiler, cancelled, ip, stack, executed, steps, outcome>>

(* NewBytecodeVM() has no context to be cancelled through.                 *)
Evaluation == compiled /\ Step /\ UNCHANGED compileVars

CompileNext == Emit \/ Evaluate \/ Evaluation

CompileSpec == CompileInit /\ [][CompileNext]_<<vars, compileVars>>

-----------------------------------------------------------------------------
AtStart == compiled /\ Running /\ ip = 0
Returned == ~Running

(* Whatever the rule, the compiler's code is well-formed: every path       *)
(* through its jumps keeps the stack at one height per instruction, ends   *)
(* with one operand, and every index is in its pool.                       *)
CompiledIsWellFormed == AtStart => Balanced(prog)
=============================================================================
