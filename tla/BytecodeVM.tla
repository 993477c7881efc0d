---------------------------- MODULE BytecodeVM ----------------------------
(***************************************************************************)
(* The stack machine that runs compiled rules (BytecodeVM.evalSafe in      *)
(* bytecode.go): one evaluation of one program against one context, an     *)
(* action per kind of instruction, with the step budget, the stack budget, *)
(* cancellation through the context, and panics recovered as errors.       *)
(*                                                                         *)
(* Programs need not come from the compiler: Eval and Trace are exported,  *)
(* and a program restored from the persistent cache is run as the file has *)
(* it.  Balanced and WellFormed say what the machine needs of a program;   *)
(* that the compiler delivers it is a property of module CompiledRule.     *)
(***************************************************************************)
EXTENDS Values, FiniteSets

CONSTANTS
    Programs,       \* programs to run: records of code and its pools
    Contexts,       \* evaluation contexts: functions from factor codes to values
    MaxSteps,       \* BytecodeVMConfig.MaxSteps (default 10000)
    MaxStackDepth   \* BytecodeVMConfig.MaxStackDepth (default 1024)

VARIABLES
    prog,       \* the program being evaluated
    ctx,        \* the EvalContext
    cancelled,  \* config.Context.Err() # nil
    ip,         \* index of the next instruction, from 0
    stack,      \* the operand stack, its top last
    executed,   \* instructions started
    steps,      \* the TraceSteps recorded
    outcome     \* what Eval returned, or code RUNNING

vars == <<prog, ctx, cancelled, ip, stack, executed, steps, outcome>>

Instr(op, arg, aux) == [op |-> op, arg |-> arg, aux |-> aux]

UnaryOps == {"NOT", "NEG"}
BinaryOps == OrderedOps \cup EqualityOps \cup ArithmeticOps
Jumps == {"JUMP", "JUMP_IF_FALSE", "JUMP_IF_TRUE"}
OpCodes == {"PUSH_CONST", "LOAD_FACTOR", "MAKE_LIST", "MAKE_MAP", "CALL_BUILTIN"}
           \cup UnaryOps \cup BinaryOps \cup Jumps

ASSUME BudgetAssumption == MaxSteps \in Nat \ {0} /\ MaxStackDepth \in Nat \ {0}

OpsOf(code) == {code[i].op : i \in DOMAIN code}

(* An opcode may be any string.  A MAKE_MAP with a negative count would    *)
(* reslice the Go stack upwards over stale slots; such programs are left   *)
(* out.                                                                    *)
IsProgram(p) ==
    /\ p.code \in Seq([op : OpsOf(p.code), arg : Int, aux : Int])
    /\ Len(p.consts) \in Nat /\ Len(p.accessors) \in Nat /\ Len(p.builtins) \in Nat
    /\ \A i \in DOMAIN p.code : p.code[i].op = "MAKE_MAP" => p.code[i].arg >= 0

ASSUME ProgramAssumption == \A p \in Programs : IsProgram(p)

-----------------------------------------------------------------------------
(* What the machine needs of a program                                     *)

InRange(i, pool) == 0 <= i /\ i < Len(pool)

(* Operands an instruction takes from the stack.                           *)
Pops(inst) ==
    CASE inst.op = "MAKE_LIST"    -> inst.arg
      [] inst.op = "MAKE_MAP"     -> 2 * inst.arg
      [] inst.op = "CALL_BUILTIN" -> inst.aux
      [] inst.op \in BinaryOps    -> 2
      [] inst.op \in UnaryOps \cup {"JUMP_IF_FALSE", "JUMP_IF_TRUE"} -> 1
      [] OTHER                    -> 0

Pushes(inst) == IF inst.op \in Jumps THEN 0 ELSE 1

(* The stack height before each instruction, for code that jumps forward:  *)
(* from the instruction above when control falls through, else from a      *)
(* jump that lands here.                                                   *)
Heights(code) ==
    LET h[i \in 0..Len(code)] ==
            IF i = 0 THEN 0
            ELSE IF code[i].op # "JUMP"
              THEN h[i - 1] - Pops(code[i]) + Pushes(code[i])
            ELSE LET from == {j \in 0..(i - 1) :
                                 /\ code[j + 1].op \in Jumps
                                 /\ code[j + 1].arg = i}
                 IN  IF from = {} THEN 0
                     ELSE LET j == CHOOSE j \in from : TRUE
                          IN  h[j] - Pops(code[j + 1])
    IN  h

(* The operands of one instruction exist and its pool index is valid.      *)
Operable(p, i, h) ==
    LET inst == p.code[i + 1]
    IN  /\ inst.op \in OpCodes
        /\ 0 <= Pops(inst) /\ Pops(inst) <= h[i]
        /\ inst.op = "PUSH_CONST"  => InRange(inst.arg, p.consts)
        /\ inst.op = "LOAD_FACTOR" => InRange(inst.arg, p.accessors)
        /\ inst.op = "CALL_BUILTIN" =>
               /\ InRange(inst.arg, p.builtins)
               /\ inst.aux >= MinArgs(p.builtins[inst.arg + 1])

(* Both ways out of an instruction arrive at the recorded height, and      *)
(* jumps go forward.                                                       *)
Flows(p, i, h) ==
    LET inst == p.code[i + 1]
        after == h[i] - Pops(inst) + Pushes(inst)
    IN  /\ inst.op # "JUMP" => h[i + 1] = after
        /\ inst.op \in Jumps =>
               inst.arg \in (i + 1)..Len(p.code) /\ h[inst.arg] = after

BalancedBy(p, h) ==
    /\ h \in [0..Len(p.code) -> Nat]
    /\ h[0] = 0
    /\ h[Len(p.code)] = 1
    /\ \A i \in 0..(Len(p.code) - 1) : Operable(p, i, h) /\ Flows(p, i, h)

Balanced(p) == BalancedBy(p, Heights(p.code))

(* ... and no instruction needs a deeper stack than the machine's.         *)
FitsStack(p) == \A i \in 0..Len(p.code) : Heights(p.code)[i] <= MaxStackDepth

WellFormed(p) == Balanced(p) /\ FitsStack(p)

-----------------------------------------------------------------------------
Running == outcome.code = "RUNNING"

(* The locals of evalSafe.                                                 *)
Start ==
    /\ ip = 0
    /\ stack = <<>>
    /\ executed = 0
    /\ steps = <<>>
    /\ outcome = [code |-> "RUNNING", value |-> Null]

Init ==
    /\ prog \in Programs
    /\ ctx \in Contexts
    /\ cancelled \in BOOLEAN
    /\ Start

(* Eval returns: its locals are gone, so they keep their last value here.  *)
Return(result) ==
    /\ outcome' = result
    /\ UNCHANGED <<prog, ctx, cancelled, ip, stack, steps>>

(* The caller's context is cancelled or times out while Eval runs.         *)
Cancel ==
    /\ Running
    /\ ~cancelled
    /\ cancelled' = TRUE
    /\ UNCHANGED <<prog, ctx, ip, stack, executed, steps, outcome>>

(* Mutants of the limit check: the context is not looked at; the step      *)
(* budget is compared with > .                                             *)
LimitsWithoutContext ==
    IF executed >= MaxSteps THEN "BUDGET_STEPS"
    ELSE IF Len(stack) > MaxStackDepth THEN "BUDGET_STACK" ELSE "OK"
LimitsOneTooMany ==
    IF cancelled THEN "EXECUTION_CANCELLED"
    ELSE IF executed > MaxSteps THEN "BUDGET_STEPS"
    ELSE IF Len(stack) > MaxStackDepth THEN "BUDGET_STACK" ELSE "OK"

(* The codes of an exceeded budget carry the field of the error: steps or  *)
(* stack.                                                                  *)
checkExecutionLimits ==
    IF cancelled THEN "EXECUTION_CANCELLED"
    ELSE IF executed >= MaxSteps THEN "BUDGET_STEPS"
    ELSE IF Len(stack) > MaxStackDepth THEN "BUDGET_STACK"
    ELSE "OK"

AtInstruction == Running /\ ip < Len(prog.code)

current == prog.code[ip + 1]

(* The head of the loop, before every instruction.                         *)
LimitExceeded ==
    /\ AtInstruction
    /\ checkExecutionLimits # "OK"
    /\ Return(Fail(checkExecutionLimits))
    /\ UNCHANGED executed

Dispatch(ops) ==
    /\ AtInstruction
    /\ checkExecutionLimits = "OK"
    /\ current.op \in ops
    /\ executed' = executed + 1

Record(after) ==
    steps' = Append(steps, [ip |-> ip, before |-> stack, after |-> after])

(* The end of the loop's body: the stack budget, the trace, ip++.          *)
FallThrough(newStack) ==
    IF Len(newStack) > MaxStackDepth THEN Return(Fail("BUDGET_STACK"))
    ELSE /\ stack' = newStack
         /\ ip' = ip + 1
         /\ Record(newStack)
         /\ UNCHANGED <<prog, ctx, cancelled, outcome>>

(* Mutant: no upper bound on the target.                                   *)
JumpTargetUnbounded(target) == 0 <= target
validateJumpTarget(target) == 0 <= target /\ target <= Len(prog.code)

(* A taken jump leaves the body with continue, past the stack check.       *)
(* Mutant: its trace step keeps the condition on the stack.                *)
TakeJumpTracedEarly(newStack) ==
    IF ~validateJumpTarget(current.arg) THEN Return(Fail("EXPRESSION_INVALID"))
    ELSE /\ stack' = newStack
         /\ ip' = current.arg
         /\ Record(stack)
         /\ UNCHANGED <<prog, ctx, cancelled, outcome>>

TakeJump(newStack) ==
    IF ~validateJumpTarget(current.arg) THEN Return(Fail("EXPRESSION_INVALID"))
    ELSE /\ stack' = newStack
         /\ ip' = current.arg
         /\ Record(newStack)
         /\ UNCHANGED <<prog, ctx, cancelled, outcome>>

Below(n) == SubSeq(stack, 1, Len(stack) - n)
Top(n) == SubSeq(stack, Len(stack) - n + 1, Len(stack))

(* Replace the n topmost operands by a result, or return its error.        *)
Reduce(n, result) ==
    IF IsOk(result) THEN FallThrough(Append(Below(n), result.value))
    ELSE Return(result)

PushConst ==
    /\ Dispatch({"PUSH_CONST"})
    /\ IF InRange(current.arg, prog.consts)
       THEN FallThrough(Append(stack, prog.consts[current.arg + 1]))
       ELSE Return(Fail("EXPRESSION_INVALID"))

LoadFactor ==
    /\ Dispatch({"LOAD_FACTOR"})
    /\ IF InRange(current.arg, prog.accessors)
       THEN FallThrough(Append(stack, AccessorGet(prog.accessors[current.arg + 1], ctx)))
       ELSE Return(Fail("EXPRESSION_INVALID"))

(* A negative count passes the underflow check and panics on the slice.    *)
MakeList ==
    /\ Dispatch({"MAKE_LIST"})
    /\ IF Len(stack) < current.arg THEN Return(Fail("EXPRESSION_INVALID"))
       ELSE IF current.arg < 0 THEN Return(Fail("INTERNAL_PANIC"))
       ELSE Reduce(current.arg, Ok(List(Top(current.arg))))

(* The map that alternating keys and values denote; the last entry of a    *)
(* repeated key wins.                                                      *)
MapOf(entries) ==
    LET n == Len(entries) \div 2
        keyAt(i) == entries[2 * i - 1]
    IN  IF \E i \in 1..n : Tag(keyAt(i)) # "string" THEN Fail("TYPE_MISMATCH")
        ELSE Ok(Map([k \in {Payload(keyAt(i)) : i \in 1..n} |->
                        entries[2 * (CHOOSE i \in 1..n :
                                        /\ Payload(keyAt(i)) = k
                                        /\ \A j \in (i + 1)..n : Payload(keyAt(j)) # k)]]))

MakeMap ==
    /\ Dispatch({"MAKE_MAP"})
    /\ IF Len(stack) < 2 * current.arg THEN Return(Fail("EXPRESSION_INVALID"))
       ELSE Reduce(2 * current.arg, MapOf(Top(2 * current.arg)))

Unary ==
    /\ Dispatch(UnaryOps)
    /\ IF Len(stack) < 1 THEN Return(Fail("EXPRESSION_INVALID"))
       ELSE Reduce(1, evalUnaryValue(IF current.op = "NOT" THEN "!" ELSE "-", Top(1)[1]))

Binary ==
    /\ Dispatch(BinaryOps)
    /\ IF Len(stack) < 2 THEN Return(Fail("EXPRESSION_INVALID"))
       ELSE Reduce(2, evalBinaryValues(current.op, Top(2)[1], Top(2)[2]))

(* Mutant: the condition is peeked at, not popped, when the jump is taken. *)
JumpIfFalsePeeks ==
    /\ Dispatch({"JUMP_IF_FALSE"})
    /\ IF Len(stack) < 1 THEN Return(Fail("EXPRESSION_INVALID"))
       ELSE IF ~truthyBool(Top(1)[1]) THEN TakeJump(stack) ELSE FallThrough(Below(1))

JumpIfFalse ==
    /\ Dispatch({"JUMP_IF_FALSE"})
    /\ IF Len(stack) < 1 THEN Return(Fail("EXPRESSION_INVALID"))
       ELSE IF ~truthyBool(Top(1)[1]) THEN TakeJump(Below(1)) ELSE FallThrough(Below(1))

JumpIfTrue ==
    /\ Dispatch({"JUMP_IF_TRUE"})
    /\ IF Len(stack) < 1 THEN Return(Fail("EXPRESSION_INVALID"))
       ELSE IF truthyBool(Top(1)[1]) THEN TakeJump(Below(1)) ELSE FallThrough(Below(1))

Jump ==
    /\ Dispatch({"JUMP"})
    /\ TakeJump(stack)

CallBuiltin ==
    /\ Dispatch({"CALL_BUILTIN"})
    /\ IF ~InRange(current.arg, prog.builtins) \/ Len(stack) < current.aux
         THEN Return(Fail("EXPRESSION_INVALID"))
       ELSE IF current.aux < 0 THEN Return(Fail("INTERNAL_PANIC"))
       ELSE Reduce(current.aux, evalBuiltinValues(prog.builtins[current.arg + 1], Top(current.aux)))

UnsupportedOpcode ==
    /\ Dispatch({current.op} \ OpCodes)
    /\ Return(Fail("EXPRESSION_INVALID"))

(* Mutant: the loop ends one instruction past the program.                 *)
FinishLate ==
    /\ Running
    /\ ip > Len(prog.code)
    /\ Return(IF Len(stack) = 1 THEN Ok(stack[1]) ELSE Fail("EXPRESSION_INVALID"))
    /\ UNCHANGED executed

(* The loop is over: exactly one value must be left.                       *)
Finish ==
    /\ Running
    /\ ip >= Len(prog.code)
    /\ Return(IF Len(stack) = 1 THEN Ok(stack[1]) ELSE Fail("EXPRESSION_INVALID"))
    /\ UNCHANGED executed

Step ==
    \/ LimitExceeded
    \/ PushConst \/ LoadFactor \/ MakeList \/ MakeMap
    \/ Unary \/ Binary
    \/ JumpIfFalse \/ JumpIfTrue \/ Jump
    \/ CallBuiltin \/ UnsupportedOpcode
    \/ Finish

Next == Step \/ Cancel

(* Eval runs on its caller's goroutine, which keeps taking steps until it  *)
(* returns; nobody has to cancel.                                          *)
Spec == Init /\ [][Next]_vars /\ WF_vars(Step)

-----------------------------------------------------------------------------
ResultCodes == {"RUNNING", "OK", "EXECUTION_CANCELLED", "BUDGET_STEPS", "BUDGET_STACK",
                "EXPRESSION_INVALID", "TYPE_MISMATCH", "DIVISION_BY_ZERO",
                "UNKNOWN_FUNCTION", "INTERNAL_PANIC"}

(* The state of an evaluation: ip never leaves 0..len(Instructions), the   *)
(* stack is a sequence, and Eval returns one of its documented codes.      *)
TypeOK ==
    /\ IsProgram(prog)
    /\ ctx \in Contexts
    /\ cancelled \in BOOLEAN
    /\ ip \in 0..Len(prog.code)
    /\ stack \in Seq(Range(stack))
    /\ executed \in Nat
    /\ outcome.code \in ResultCodes

(* No program, however malformed, runs past the budgets of its config: the *)
(* instructions started stay within MaxSteps and the stack that any        *)
(* instruction sees stays within MaxStackDepth, although taken jumps skip  *)
(* the check at the end of the loop.                                       *)
WithinBudgets == executed <= MaxSteps /\ Len(stack) <= MaxStackDepth

(* The errors that a program of the compiler must never cause: underflow,  *)
(* bad indices, bad jump targets, a wrong final stack or a recovered panic.*)
StructuralErrors == {"EXPRESSION_INVALID", "INTERNAL_PANIC"}

(* A balanced program meets no structural error on any path through its    *)
(* jumps, whatever values it loads, and one that fits the stack does not   *)
(* overflow it either.                                                     *)
WellFormedRunsClean ==
    /\ Balanced(prog) => outcome.code \notin StructuralErrors
    /\ WellFormed(prog) => outcome.code # "BUDGET_STACK"

(* The inductive core of the two properties around it: at every loop head  *)
(* the stack has the height the program text predicts for ip, whichever    *)
(* way control came, and no instruction has been executed twice.           *)
StackAtHeight ==
    Balanced(prog) /\ Running =>
        Len(stack) = Heights(prog.code)[ip] /\ executed <= ip

(* A balanced program executes no instruction twice, so one that is no     *)
(* longer than the step budget never exceeds it.                           *)
WellFormedWithinSteps ==
    Balanced(prog) /\ Len(prog.code) <= MaxSteps => outcome.code # "BUDGET_STEPS"

(* The trace is the execution: each recorded step starts from the stack    *)
(* its predecessor left, continues at the next instruction or at the       *)
(* jump's target, and the last one leads to the current state.             *)
TraceFollowsExecution ==
    LET ipAfter(k) == IF k = Len(steps) THEN ip ELSE steps[k + 1].ip
        stackAfter(k) == IF k = Len(steps) THEN stack ELSE steps[k + 1].before
    IN  /\ Running => Len(steps) = executed
        /\ \A k \in DOMAIN steps :
               /\ steps[k].after = stackAfter(k)
               /\ LET from == prog.code[steps[k].ip + 1]
                  IN  \/ ipAfter(k) = steps[k].ip + 1 /\ from.op # "JUMP"
                      \/ ipAfter(k) = from.arg /\ from.op \in Jumps

(* Once the context is cancelled no further instruction is started.        *)
CancelStopsExecution == [][cancelled => executed' = executed]_vars

(* Every evaluation returns, backward jumps or not: the step budget ends   *)
(* the loop.                                                               *)
EveryEvalReturns == <>(outcome.code # "RUNNING")
=============================================================================
