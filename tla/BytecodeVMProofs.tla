------------------------- MODULE BytecodeVMProofs -------------------------
EXTENDS BytecodeVM, TLAPS

IsStack(s) == s \in Seq(Range(s))

(* Every sequence is a sequence over its own range.                        *)
LEMMA OwnRange ==
    ASSUME NEW S, NEW s \in Seq(S)
    PROVE  IsStack(s)
<1>1. DOMAIN s = 1..Len(s) /\ Len(s) \in Nat
  OBVIOUS
<1>2. \A i \in 1..Len(s) : s[i] \in Range(s)
  BY <1>1 DEF Range
<1>3. s = [i \in 1..Len(s) |-> s[i]]
  OBVIOUS
<1> QED BY <1>1, <1>2, <1>3 DEF IsStack

(* Pushing a value keeps a stack a stack, one higher.                      *)
LEMMA PushLemma ==
    ASSUME NEW s, IsStack(s), NEW v
    PROVE  IsStack(Append(s, v)) /\ Len(Append(s, v)) = Len(s) + 1
<1>1. /\ Append(s, v) \in Seq(Range(s) \cup {v})
      /\ Len(Append(s, v)) = Len(s) + 1
  BY DEF IsStack
<1> QED BY <1>1, OwnRange

(* Cutting a stack keeps it a stack, of the height it was cut to.          *)
LEMMA CutLemma ==
    ASSUME NEW s, IsStack(s), NEW k \in 0..Len(s)
    PROVE  IsStack(SubSeq(s, 1, k)) /\ Len(SubSeq(s, 1, k)) = k
<1>1. /\ SubSeq(s, 1, k) \in Seq(Range(s))
      /\ Len(SubSeq(s, 1, k)) = k
  BY DEF IsStack
<1> QED BY <1>1, OwnRange

(* The codes that the operators on values can answer.                      *)
LEMMA UnaryCodes ==
    ASSUME NEW op, NEW v
    PROVE  evalUnaryValue(op, v).code \in {"OK", "TYPE_MISMATCH"}
BY DEF evalUnaryValue, evalNot, evalNegate, Ok, Fail

(* The same of a binary operator applied to two stack slots.               *)
LEMMA BinaryCodes ==
    ASSUME NEW op \in BinaryOps, NEW l, NEW r
    PROVE  evalBinaryValues(op, l, r).code \in {"OK", "TYPE_MISMATCH", "DIVISION_BY_ZERO"}
<1>1. ASSUME NEW o PROVE orderedCompare(l, r, o).code \in {"OK", "TYPE_MISMATCH"}
  BY DEF orderedCompare, Ok, Fail
<1>2. ASSUME NEW o
      PROVE  arithmetic(l, r, o).code \in {"OK", "TYPE_MISMATCH", "DIVISION_BY_ZERO"}
  BY DEF arithmetic, Ok, Fail
<1>3. ASSUME NEW b PROVE Ok(b).code = "OK"
  BY DEF Ok
<1> QED BY <1>1, <1>2, <1>3
        DEF evalBinaryValues, BinaryOps, OrderedOps, EqualityOps, ArithmeticOps

(* The same of a builtin called with values off the stack.                 *)
LEMMA BuiltinCodes ==
    ASSUME NEW name, NEW args, Len(args) \in Nat, Len(args) >= MinArgs(name)
    PROVE  evalBuiltinValues(name, args).code \in {"OK", "TYPE_MISMATCH", "UNKNOWN_FUNCTION"}
BY DEF evalBuiltinValues, builtinGet, BuiltinNames, MinArgs, Ok, Fail

(* The same of a map made from pairs off the stack.                        *)
LEMMA MapCodes ==
    ASSUME NEW entries
    PROVE  MapOf(entries).code \in {"OK", "TYPE_MISMATCH"}
BY DEF MapOf, Ok, Fail

-----------------------------------------------------------------------------
IInv ==
    /\ TypeOK
    /\ WithinBudgets
    /\ WellFormedRunsClean
    /\ StackAtHeight
    /\ WellFormedWithinSteps

(* The evaluation returns r after starting at most one more instruction.   *)
LEMMA ReturnStep ==
    ASSUME IInv, Running, NEW r, Return(r),
           executed' \in {executed, executed + 1}, executed' <= MaxSteps,
           r.code \in ResultCodes \ {"RUNNING"},
           Balanced(prog) => r.code \notin StructuralErrors,
           WellFormed(prog) => r.code # "BUDGET_STACK",
           Balanced(prog) /\ Len(prog.code) <= MaxSteps => r.code # "BUDGET_STEPS"
    PROVE  IInv'
<1> USE DEF IInv, Return
<1>1. TypeOK'
  BY DEF TypeOK
<1>2. WithinBudgets'
  BY DEF WithinBudgets
<1>3. (WellFormedRunsClean /\ WellFormedWithinSteps)'
  BY DEF WellFormedRunsClean, WellFormedWithinSteps
<1>4. StackAtHeight'
  BY DEF StackAtHeight, Running
<1> QED BY <1>1, <1>2, <1>3, <1>4

(* The machine goes on at ip' with the stack s.                            *)
LEMMA ContinueStep ==
    ASSUME IInv, AtInstruction, NEW s, IsStack(s), Len(s) <= MaxStackDepth,
           stack' = s, ip' \in 0..Len(prog.code),
           executed' = executed + 1, executed < MaxSteps,
           UNCHANGED <<prog, ctx, cancelled, outcome>>,
           Balanced(prog) => Len(s) = Heights(prog.code)[ip'] /\ ip < ip'
    PROVE  IInv'
<1> USE DEF IInv
<1>1. TypeOK'
  BY DEF TypeOK, IsStack
<1>2. WithinBudgets'
  BY BudgetAssumption DEF WithinBudgets, TypeOK
<1>3. (WellFormedRunsClean /\ WellFormedWithinSteps)'
  BY DEF WellFormedRunsClean, WellFormedWithinSteps
<1>4. StackAtHeight'
  BY DEF StackAtHeight, AtInstruction, Running, TypeOK
<1> QED BY <1>1, <1>2, <1>3, <1>4

-----------------------------------------------------------------------------
(* What every instruction may rely on when it is dispatched.               *)
LEMMA DispatchFacts ==
    ASSUME IInv, NEW ops, Dispatch(ops)
    PROVE  /\ AtInstruction /\ Running /\ IsStack(stack) /\ Len(stack) \in Nat
           /\ executed' = executed + 1 /\ executed \in Nat /\ executed < MaxSteps
           /\ ip \in 0..(Len(prog.code) - 1) /\ Len(prog.code) \in Nat
           /\ current.op \in ops /\ current.arg \in Int /\ current.aux \in Int
           /\ current.op = "MAKE_MAP" => current.arg >= 0
           /\ Len(prog.consts) \in Nat /\ Len(prog.accessors) \in Nat /\ Len(prog.builtins) \in Nat
           /\ Balanced(prog) =>
                  /\ Len(stack) = Heights(prog.code)[ip]
                  /\ Heights(prog.code) \in [0..Len(prog.code) -> Nat]
                  /\ Operable(prog, ip, Heights(prog.code))
                  /\ Flows(prog, ip, Heights(prog.code))
<1>1. AtInstruction /\ Running /\ executed' = executed + 1 /\ current.op \in ops
  BY DEF Dispatch, AtInstruction
<1>2. IsStack(stack) /\ executed \in Nat /\ ip \in 0..Len(prog.code) /\ IsProgram(prog)
  BY DEF IInv, TypeOK, IsStack
<1>3. Len(stack) \in Nat
  BY <1>2 DEF IsStack
<1>4. /\ Len(prog.code) \in Nat /\ ip \in 0..(Len(prog.code) - 1) /\ ip + 1 \in DOMAIN prog.code
      /\ current.arg \in Int /\ current.aux \in Int
  <2> DEFINE Instruction == [op : OpsOf(prog.code), arg : Int, aux : Int]
  <2>1. prog.code \in Seq(Instruction)
    BY <1>2 DEF IsProgram
  <2>2. Len(prog.code) \in Nat /\ DOMAIN prog.code = 1..Len(prog.code)
    BY <2>1
  <2>3. ip \in 0..(Len(prog.code) - 1) /\ ip + 1 \in 1..Len(prog.code)
    BY <1>1, <1>2, <2>2 DEF AtInstruction
  <2>4. prog.code[ip + 1] \in Instruction
    <3> HIDE DEF Instruction
    <3> QED BY <2>1, <2>3
  <2> QED BY <2>2, <2>3, <2>4 DEF current
<1>5. executed < MaxSteps
  BY <1>2, BudgetAssumption DEF Dispatch, checkExecutionLimits
<1>6. current.op = "MAKE_MAP" => current.arg >= 0
  BY <1>2, <1>4 DEF IsProgram, current
<1>7. Len(prog.consts) \in Nat /\ Len(prog.accessors) \in Nat /\ Len(prog.builtins) \in Nat
  BY <1>2 DEF IsProgram
<1>8. Balanced(prog) =>
          /\ Len(stack) = Heights(prog.code)[ip]
          /\ Heights(prog.code) \in [0..Len(prog.code) -> Nat]
          /\ Operable(prog, ip, Heights(prog.code))
          /\ Flows(prog, ip, Heights(prog.code))
  BY <1>1, <1>4 DEF IInv, StackAtHeight, Balanced, BalancedBy
<1> QED BY <1>1, <1>2, <1>3, <1>4, <1>5, <1>6, <1>7, <1>8

(* An instruction ends the evaluation with an error.                       *)
LEMMA ErrorKeeps ==
    ASSUME IInv, NEW ops, Dispatch(ops), NEW c \in ResultCodes \ {"RUNNING", "BUDGET_STEPS"},
           NEW r, r.code = c, Return(r), Balanced(prog) => c \notin StructuralErrors,
           WellFormed(prog) => c # "BUDGET_STACK"
    PROVE  IInv'
<1>1. Running /\ executed' = executed + 1 /\ executed \in Nat /\ executed < MaxSteps
  BY DispatchFacts
<1>2. executed' <= MaxSteps
  BY <1>1, BudgetAssumption
<1> QED BY <1>1, <1>2, ReturnStep

(* An instruction falls through to the next one with the stack s.          *)
LEMMA FallThroughKeeps ==
    ASSUME IInv, NEW ops, Dispatch(ops), NEW s, IsStack(s), FallThrough(s),
           Balanced(prog) => /\ current.op # "JUMP"
                               /\ Len(s) = Len(stack) - Pops(current) + Pushes(current)
    PROVE  IInv'
<1> USE DispatchFacts
<1>1. Balanced(prog) => Len(s) = Heights(prog.code)[ip + 1]
  BY SMTT(30) DEF Flows, current
<1>2. CASE Len(s) > MaxStackDepth
  <2>1. Return(Fail("BUDGET_STACK"))
    BY <1>2 DEF FallThrough
  <2>2. Len(s) \in Nat
    BY DEF IsStack
  <2>3. ~WellFormed(prog)
    <3>1. ip + 1 \in 0..Len(prog.code)
      OBVIOUS
    <3>2. WellFormed(prog) => Balanced(prog) /\ Heights(prog.code)[ip + 1] <= MaxStackDepth
      BY <3>1, Zenon DEF WellFormed, FitsStack
    <3> QED BY <1>1, <1>2, <2>2, <3>2, BudgetAssumption
  <2> QED BY <2>1, <2>3, ErrorKeeps DEF Fail, ResultCodes, StructuralErrors
<1>3. CASE ~(Len(s) > MaxStackDepth)
  <2>1. Len(s) <= MaxStackDepth
    BY <1>3, BudgetAssumption DEF IsStack
  <2>2. /\ stack' = s /\ ip' = ip + 1
        /\ UNCHANGED <<prog, ctx, cancelled, outcome>>
    BY <1>3 DEF FallThrough
  <2> QED BY <1>1, <2>1, <2>2, ContinueStep
<1> QED BY <1>2, <1>3

(* An instruction jumps, having popped nothing or its condition.           *)
LEMMA TakeJumpKeeps ==
    ASSUME IInv, NEW ops, ops \subseteq Jumps, Dispatch(ops), NEW s, IsStack(s), TakeJump(s),
           Len(s) = Len(stack) - Pops(current), 0 <= Pops(current), Pops(current) \in Nat
    PROVE  IInv'
<1> USE DispatchFacts
<1>1. current.op \in Jumps /\ Pushes(current) = 0
  BY DEF Pushes
<1>2. Balanced(prog) => /\ current.arg \in (ip + 1)..Len(prog.code)
                          /\ Len(s) = Heights(prog.code)[current.arg]
  BY SMTT(30), <1>1 DEF Flows, current
<1>3. CASE ~validateJumpTarget(current.arg)
  <2>1. Return(Fail("EXPRESSION_INVALID"))
    BY <1>3 DEF TakeJump
  <2>2. ~Balanced(prog)
    BY <1>2, <1>3 DEF validateJumpTarget
  <2> QED BY <2>1, <2>2, ErrorKeeps DEF Fail, ResultCodes
<1>4. CASE validateJumpTarget(current.arg)
  <2>1. Len(s) <= MaxStackDepth
    BY BudgetAssumption DEF IInv, WithinBudgets
  <2>2. /\ stack' = s /\ ip' = current.arg /\ ip' \in 0..Len(prog.code)
        /\ UNCHANGED <<prog, ctx, cancelled, outcome>>
    BY <1>4 DEF TakeJump, validateJumpTarget
  <2>3. Balanced(prog) => Len(s) = Heights(prog.code)[ip'] /\ ip < ip'
    BY <1>2, <2>2
  <2> QED BY <2>1, <2>2, <2>3, ContinueStep
<1> QED BY <1>3, <1>4

ValueErrors == {"TYPE_MISMATCH", "DIVISION_BY_ZERO", "UNKNOWN_FUNCTION"}

(* An instruction replaces its n operands by a result.                     *)
LEMMA ReduceKeeps ==
    ASSUME IInv, NEW ops, Dispatch(ops), NEW n \in 0..Len(stack), NEW r, Reduce(n, r),
           r.code \in {"OK", "INTERNAL_PANIC"} \cup ValueErrors,
           Balanced(prog) => /\ current.op \notin Jumps /\ Pops(current) = n
                               /\ r.code # "INTERNAL_PANIC"
    PROVE  IInv'
<1> USE DispatchFacts
<1>1. CASE IsOk(r)
  <2> DEFINE s == Append(Below(n), r.value)
  <2>1. Len(stack) - n \in 0..Len(stack)
    OBVIOUS
  <2>2. IsStack(Below(n)) /\ Len(Below(n)) = Len(stack) - n
    BY <2>1, CutLemma DEF Below
  <2>3. IsStack(s) /\ Len(s) = Len(stack) - n + 1
    BY <2>2, PushLemma
  <2>4. FallThrough(s)
    BY <1>1 DEF Reduce
  <2>5. Balanced(prog) => /\ current.op # "JUMP"
                            /\ Len(s) = Len(stack) - Pops(current) + Pushes(current)
    BY <2>3 DEF Pushes, Jumps
  <2> HIDE DEF s
  <2> QED BY <2>3, <2>4, <2>5, FallThroughKeeps
<1>2. CASE ~IsOk(r)
  <2>1. Return(r) /\ r.code \in {"INTERNAL_PANIC"} \cup ValueErrors
    BY <1>2 DEF Reduce, IsOk
  <2>2. r.code \in ResultCodes \ {"RUNNING", "BUDGET_STEPS"}
    BY <2>1 DEF ResultCodes, ValueErrors
  <2>3. /\ Balanced(prog) => r.code \notin StructuralErrors
        /\ r.code # "BUDGET_STACK"
    BY <2>1 DEF StructuralErrors, ValueErrors
  <2> QED BY <2>1, <2>2, <2>3, ErrorKeeps
<1> QED BY <1>1, <1>2

-----------------------------------------------------------------------------
(* evalSafe starts at instruction 0 with an empty stack, at height 0.      *)
THEOREM InitEstablishesIInv == Init => IInv
<1> SUFFICES ASSUME Init PROVE IInv
  OBVIOUS
<1>1. IsProgram(prog)
  BY ProgramAssumption DEF Init, Start
<1>2. Len(prog.code) \in Nat /\ 0 \in 0..Len(prog.code)
  BY <1>1 DEF IsProgram
<1>3. TypeOK
  BY <1>1, <1>2 DEF Init, Start, TypeOK, ResultCodes, Range
<1>4. WithinBudgets
  BY BudgetAssumption DEF Init, Start, WithinBudgets
<1>5. WellFormedRunsClean /\ WellFormedWithinSteps
  BY DEF Init, Start, WellFormedRunsClean, WellFormedWithinSteps, StructuralErrors
<1>6. StackAtHeight
  BY DEF Init, Start, StackAtHeight, Balanced, BalancedBy
<1> QED BY <1>3, <1>4, <1>5, <1>6 DEF IInv

(* Every instruction, the head of the loop and its end keep IInv.          *)
LEMMA StepKeepsIInv ==
    ASSUME IInv, Step PROVE IInv'
<1> USE DEF Pops, Pushes, UnaryOps, BinaryOps, OrderedOps, EqualityOps, ArithmeticOps, Jumps
<1>1. CASE LimitExceeded
  <2>1. Running /\ executed' = executed /\ executed \in Nat /\ executed <= MaxSteps
    BY <1>1 DEF LimitExceeded, AtInstruction, IInv, TypeOK, WithinBudgets
  <2>2. PICK c \in {"EXECUTION_CANCELLED", "BUDGET_STEPS", "BUDGET_STACK"} :
            c = checkExecutionLimits /\ Return(Fail(c))
    BY <1>1 DEF LimitExceeded, checkExecutionLimits
  <2>3. c # "BUDGET_STACK"
    BY <2>2, BudgetAssumption DEF checkExecutionLimits, IInv, WithinBudgets, TypeOK
  <2>4. Balanced(prog) /\ Len(prog.code) <= MaxSteps => c # "BUDGET_STEPS"
    <3>1. SUFFICES ASSUME Balanced(prog), Len(prog.code) <= MaxSteps
                   PROVE  executed < MaxSteps
      BY <2>1, <2>2, BudgetAssumption DEF checkExecutionLimits
    <3>2. executed <= ip /\ ip < Len(prog.code) /\ Len(prog.code) \in Nat /\ ip \in Nat
      BY <1>1, <3>1 DEF IInv, StackAtHeight, LimitExceeded, AtInstruction, TypeOK, IsProgram
    <3> QED BY <2>1, <3>1, <3>2, BudgetAssumption
  <2> QED BY <2>1, <2>2, <2>3, <2>4, ReturnStep DEF Fail, ResultCodes, StructuralErrors
<1>2. CASE PushConst
  <2> DEFINE s == Append(stack, prog.consts[current.arg + 1])
  <2>1. Dispatch({"PUSH_CONST"})
    BY <1>2 DEF PushConst
  <2>2. CASE InRange(current.arg, prog.consts)
    <3>1. FallThrough(s)
      BY <1>2, <2>2 DEF PushConst
    <3>2. IsStack(s) /\ Len(s) = Len(stack) + 1
      BY <2>1, DispatchFacts, PushLemma
    <3>3. current.op = "PUSH_CONST" /\ Len(stack) \in Nat
      BY <2>1, DispatchFacts
    <3>4. Len(s) = Len(stack) - Pops(current) + Pushes(current)
      BY <3>2, <3>3
    <3> HIDE DEF s
    <3> QED BY <2>1, <3>1, <3>2, <3>3, <3>4, FallThroughKeeps
  <2>3. CASE ~InRange(current.arg, prog.consts)
    <3>1. Return(Fail("EXPRESSION_INVALID"))
      BY <1>2, <2>3 DEF PushConst
    <3>2. ~Balanced(prog)
      BY <2>1, <2>3, DispatchFacts, SMTT(30) DEF Operable, current
    <3> QED BY <2>1, <3>1, <3>2, ErrorKeeps DEF Fail, ResultCodes
  <2> QED BY <2>2, <2>3
<1>3. CASE LoadFactor
  <2> DEFINE s == Append(stack, AccessorGet(prog.accessors[current.arg + 1], ctx))
  <2>1. Dispatch({"LOAD_FACTOR"})
    BY <1>3 DEF LoadFactor
  <2>2. CASE InRange(current.arg, prog.accessors)
    <3>1. FallThrough(s)
      BY <1>3, <2>2 DEF LoadFactor
    <3>2. IsStack(s) /\ Len(s) = Len(stack) + 1
      BY <2>1, DispatchFacts, PushLemma
    <3>3. current.op = "LOAD_FACTOR" /\ Len(stack) \in Nat
      BY <2>1, DispatchFacts
    <3>4. Len(s) = Len(stack) - Pops(current) + Pushes(current)
      BY <3>2, <3>3
    <3> HIDE DEF s
    <3> QED BY <2>1, <3>1, <3>2, <3>3, <3>4, FallThroughKeeps
  <2>3. CASE ~InRange(current.arg, prog.accessors)
    <3>1. Return(Fail("EXPRESSION_INVALID"))
      BY <1>3, <2>3 DEF LoadFactor
    <3>2. ~Balanced(prog)
      BY <2>1, <2>3, DispatchFacts, SMTT(30) DEF Operable, current
    <3> QED BY <2>1, <3>1, <3>2, ErrorKeeps DEF Fail, ResultCodes
  <2> QED BY <2>2, <2>3
<1>4. CASE MakeList
  <2>1. Dispatch({"MAKE_LIST"})
    BY <1>4 DEF MakeList
  <2>2. /\ current.op = "MAKE_LIST" /\ Pops(current) = current.arg /\ current.arg \in Int
        /\ Len(stack) \in Nat
    BY <2>1, DispatchFacts
  <2>3. Balanced(prog) => 0 <= current.arg /\ current.arg <= Len(stack)
    BY <2>1, <2>2, DispatchFacts DEF Operable, current
  <2>4. CASE Len(stack) < current.arg \/ current.arg < 0
    <3>1. PICK c \in {"EXPRESSION_INVALID", "INTERNAL_PANIC"} : Return(Fail(c))
      BY <1>4, <2>4 DEF MakeList
    <3>2. ~Balanced(prog)
      BY <2>2, <2>3, <2>4
    <3> QED BY <2>1, <3>1, <3>2, ErrorKeeps DEF Fail, ResultCodes
  <2>5. CASE ~(Len(stack) < current.arg \/ current.arg < 0)
    <3>1. Reduce(current.arg, Ok(List(Top(current.arg)))) /\ current.arg \in 0..Len(stack)
      BY <1>4, <2>2, <2>5 DEF MakeList
    <3> QED BY <2>1, <2>2, <3>1, ReduceKeeps DEF Ok
  <2> QED BY <2>4, <2>5
<1>5. CASE MakeMap
  <2>1. Dispatch({"MAKE_MAP"})
    BY <1>5 DEF MakeMap
  <2>2. /\ current.op = "MAKE_MAP" /\ Pops(current) = 2 * current.arg
        /\ current.arg \in Nat /\ Len(stack) \in Nat
    BY <2>1, DispatchFacts
  <2>3. Balanced(prog) => 2 * current.arg <= Len(stack)
    BY <2>1, <2>2, DispatchFacts DEF Operable, current
  <2>4. CASE Len(stack) < 2 * current.arg
    <3>1. Return(Fail("EXPRESSION_INVALID")) /\ ~Balanced(prog)
      BY <1>5, <2>2, <2>3, <2>4 DEF MakeMap
    <3> QED BY <2>1, <3>1, ErrorKeeps DEF Fail, ResultCodes
  <2>5. CASE ~(Len(stack) < 2 * current.arg)
    <3>1. Reduce(2 * current.arg, MapOf(Top(2 * current.arg))) /\ 2 * current.arg \in 0..Len(stack)
      BY <1>5, <2>2, <2>5 DEF MakeMap
    <3>2. MapOf(Top(2 * current.arg)).code \in {"OK", "TYPE_MISMATCH"}
      BY MapCodes
    <3> QED BY <2>1, <2>2, <3>1, <3>2, ReduceKeeps DEF ValueErrors
  <2> QED BY <2>4, <2>5
<1>6. CASE Unary
  <2> DEFINE r == evalUnaryValue(IF current.op = "NOT" THEN "!" ELSE "-", Top(1)[1])
  <2>1. Dispatch(UnaryOps)
    BY <1>6 DEF Unary
  <2>2. current.op \in UnaryOps /\ Pops(current) = 1 /\ Len(stack) \in Nat
    BY <2>1, DispatchFacts
  <2>3. Balanced(prog) => 1 <= Len(stack)
    BY <2>1, <2>2, DispatchFacts DEF Operable, current
  <2>4. CASE Len(stack) < 1
    <3>1. Return(Fail("EXPRESSION_INVALID")) /\ ~Balanced(prog)
      BY <1>6, <2>2, <2>3, <2>4 DEF Unary
    <3> QED BY <2>1, <3>1, ErrorKeeps DEF Fail, ResultCodes
  <2>5. CASE ~(Len(stack) < 1)
    <3>1. Reduce(1, r) /\ 1 \in 0..Len(stack)
      BY <1>6, <2>2, <2>5 DEF Unary
    <3>2. r.code \in {"OK", "TYPE_MISMATCH"}
      BY UnaryCodes
    <3> HIDE DEF r
    <3> QED BY <2>1, <2>2, <3>1, <3>2, ReduceKeeps DEF ValueErrors
  <2> QED BY <2>4, <2>5
<1>7. CASE Binary
  <2> DEFINE r == evalBinaryValues(current.op, Top(2)[1], Top(2)[2])
  <2>1. Dispatch(BinaryOps)
    BY <1>7 DEF Binary
  <2>2. current.op \in BinaryOps /\ Pops(current) = 2 /\ Len(stack) \in Nat
    BY <2>1, DispatchFacts
  <2>3. Balanced(prog) => 2 <= Len(stack)
    BY <2>1, <2>2, DispatchFacts DEF Operable, current
  <2>4. CASE Len(stack) < 2
    <3>1. Return(Fail("EXPRESSION_INVALID")) /\ ~Balanced(prog)
      BY <1>7, <2>2, <2>3, <2>4 DEF Binary
    <3> QED BY <2>1, <3>1, ErrorKeeps DEF Fail, ResultCodes
  <2>5. CASE ~(Len(stack) < 2)
    <3>1. Reduce(2, r) /\ 2 \in 0..Len(stack)
      BY <1>7, <2>2, <2>5 DEF Binary
    <3>2. r.code \in {"OK", "TYPE_MISMATCH", "DIVISION_BY_ZERO"}
      BY <2>2, BinaryCodes
    <3> HIDE DEF r
    <3> QED BY <2>1, <2>2, <3>1, <3>2, ReduceKeeps DEF ValueErrors
  <2> QED BY <2>4, <2>5
<1>8. ASSUME NEW op \in {"JUMP_IF_FALSE", "JUMP_IF_TRUE"}, Dispatch({op}),
             IF Len(stack) < 1 THEN Return(Fail("EXPRESSION_INVALID"))
             ELSE TakeJump(Below(1)) \/ FallThrough(Below(1))
      PROVE  IInv'
  <2>1. current.op = op /\ Pops(current) = 1 /\ Pushes(current) = 0 /\ Len(stack) \in Nat
    BY <1>8, DispatchFacts
  <2>2. Balanced(prog) => 1 <= Len(stack)
    BY <1>8, <2>1, DispatchFacts DEF Operable, current
  <2>3. CASE Len(stack) < 1
    <3> DEFINE r == Fail("EXPRESSION_INVALID")
               ops == {op}
    <3>1. Return(r) /\ ~Balanced(prog)
      BY <1>8, <2>1, <2>2, <2>3
    <3>2. Dispatch(ops)
      BY <1>8
    <3>3. r.code = "EXPRESSION_INVALID" /\ r.code \in ResultCodes \ {"RUNNING", "BUDGET_STEPS"}
      BY DEF Fail, ResultCodes
    <3> HIDE DEF r, ops
    <3> QED BY <3>1, <3>2, <3>3, ErrorKeeps
  <2>4. CASE ~(Len(stack) < 1)
    <3>1. IsStack(Below(1)) /\ Len(Below(1)) = Len(stack) - 1
      <4>1. IsStack(stack) /\ Len(stack) - 1 \in 0..Len(stack)
        BY <1>8, <2>1, <2>4, DispatchFacts
      <4> QED BY <4>1, CutLemma DEF Below
    <3>2. CASE TakeJump(Below(1))
      BY <1>8, <2>1, <3>1, <3>2, TakeJumpKeeps
    <3>3. CASE FallThrough(Below(1))
      BY <1>8, <2>1, <3>1, <3>3, FallThroughKeeps
    <3> QED BY <1>8, <2>4, <3>2, <3>3
  <2> QED BY <2>3, <2>4
<1>9. CASE JumpIfFalse \/ JumpIfTrue
  BY <1>8, <1>9 DEF JumpIfFalse, JumpIfTrue
<1>10. CASE Jump
  <2>1. Dispatch({"JUMP"}) /\ TakeJump(stack)
    BY <1>10 DEF Jump
  <2>2. /\ current.op = "JUMP" /\ Pops(current) = 0 /\ IsStack(stack)
        /\ Len(stack) \in Nat
    BY <2>1, DispatchFacts
  <2> QED BY <2>1, <2>2, TakeJumpKeeps
<1>11. CASE CallBuiltin
  <2> DEFINE r == evalBuiltinValues(prog.builtins[current.arg + 1], Top(current.aux))
  <2>1. Dispatch({"CALL_BUILTIN"})
    BY <1>11 DEF CallBuiltin
  <2>2. /\ current.op = "CALL_BUILTIN" /\ Pops(current) = current.aux
        /\ current.arg \in Int /\ current.aux \in Int /\ Len(stack) \in Nat
    BY <2>1, DispatchFacts
  <2>3. Balanced(prog) =>
            /\ 0 <= current.aux /\ current.aux <= Len(stack)
            /\ InRange(current.arg, prog.builtins)
            /\ current.aux >= MinArgs(prog.builtins[current.arg + 1])
    BY <2>1, <2>2, DispatchFacts DEF Operable, current
  <2>4. CASE ~InRange(current.arg, prog.builtins) \/ Len(stack) < current.aux \/ current.aux < 0
    <3>1. PICK c \in {"EXPRESSION_INVALID", "INTERNAL_PANIC"} : Return(Fail(c))
      BY <1>11, <2>4 DEF CallBuiltin
    <3>2. ~Balanced(prog)
      BY <2>2, <2>3, <2>4
    <3> QED BY <2>1, <3>1, <3>2, ErrorKeeps DEF Fail, ResultCodes
  <2>5. CASE ~(~InRange(current.arg, prog.builtins) \/ Len(stack) < current.aux \/ current.aux < 0)
    <3>1. Reduce(current.aux, r) /\ current.aux \in 0..Len(stack)
      BY <1>11, <2>2, <2>5 DEF CallBuiltin
    <3>2. Len(Top(current.aux)) = current.aux
      BY <2>1, <2>2, <3>1, DispatchFacts DEF Top, IsStack
    <3>3. r.code \in {"OK", "INTERNAL_PANIC"} \cup ValueErrors
      BY DEF evalBuiltinValues, builtinGet, BuiltinNames, Ok, Fail, ValueErrors
    <3>4. Balanced(prog) => r.code # "INTERNAL_PANIC"
      BY <2>2, <2>3, <3>2, BuiltinCodes
    <3> HIDE DEF r
    <3> QED BY <2>1, <2>2, <3>1, <3>3, <3>4, ReduceKeeps
  <2> QED BY <2>4, <2>5
<1>12. CASE UnsupportedOpcode
  <2>1. Dispatch({current.op} \ OpCodes) /\ Return(Fail("EXPRESSION_INVALID"))
    BY <1>12 DEF UnsupportedOpcode
  <2>2. ~Balanced(prog)
    <3>1. current.op \notin OpCodes
      BY <2>1, DispatchFacts
    <3> QED BY <2>1, <3>1, DispatchFacts DEF Operable, current
  <2> QED BY <2>1, <2>2, ErrorKeeps DEF Fail, ResultCodes
<1>13. CASE Finish
  <2>1. Running /\ executed' = executed /\ executed <= MaxSteps /\ ip = Len(prog.code)
    BY <1>13 DEF Finish, IInv, WithinBudgets, TypeOK, IsProgram
  <2>2. Balanced(prog) => Len(stack) = 1
    BY <2>1 DEF IInv, StackAtHeight, Balanced, BalancedBy
  <2>3. CASE Len(stack) = 1
    BY <1>13, <2>1, <2>3, ReturnStep DEF Finish, Ok, ResultCodes, StructuralErrors
  <2>4. CASE Len(stack) # 1
    BY <1>13, <2>1, <2>2, <2>4, ReturnStep DEF Finish, Fail, ResultCodes, StructuralErrors
  <2> QED BY <2>3, <2>4
<1> QED BY <1>1, <1>2, <1>3, <1>4, <1>5, <1>6, <1>7, <1>9, <1>10, <1>11, <1>12, <1>13 DEF Step

(* A step of the machine and a cancellation of its context keep IInv.      *)
THEOREM NextKeepsIInv == IInv /\ [Next]_vars => IInv'
<1> SUFFICES ASSUME IInv, [Next]_vars PROVE IInv'
  OBVIOUS
<1>1. CASE Step
  BY <1>1, StepKeepsIInv
<1>2. CASE Cancel
  BY <1>2 DEF Cancel, IInv, TypeOK, WithinBudgets, WellFormedRunsClean, StackAtHeight,
              WellFormedWithinSteps, Running
<1>3. CASE UNCHANGED vars
  BY <1>3 DEF vars, IInv, TypeOK, WithinBudgets, WellFormedRunsClean, StackAtHeight,
              WellFormedWithinSteps, Running
<1> QED BY <1>1, <1>2, <1>3 DEF Next

(* So it holds in every reachable state of every evaluation.               *)
THEOREM Invariance == Spec => []IInv
BY InitEstablishesIInv, NextKeepsIInv, PTL DEF Spec

(* evalSafe keeps ip within the program, its stack a stack and its result  *)
(* among the documented codes, for every program and context.              *)
THEOREM TypeCorrect == Spec => []TypeOK
<1>1. IInv => TypeOK
  BY DEF IInv
<1> QED BY <1>1, Invariance, PTL

(* Neither budget of a BytecodeVMConfig can be overrun, by any program.    *)
THEOREM BudgetsHold == Spec => []WithinBudgets
<1>1. IInv => WithinBudgets
  BY DEF IInv
<1> QED BY <1>1, Invariance, PTL

(* A program whose stack heights are consistent never underflows, never    *)
(* jumps astray and never panics, whatever it loads, and one that fits the *)
(* stack budget does not overflow it.                                      *)
THEOREM WellFormedIsClean == Spec => []WellFormedRunsClean
<1>1. IInv => WellFormedRunsClean
  BY DEF IInv
<1> QED BY <1>1, Invariance, PTL

(* Such a program exceeds the step budget only if it is longer than it.    *)
THEOREM WellFormedFitsBudget == Spec => []WellFormedWithinSteps
<1>1. IInv => WellFormedWithinSteps
  BY DEF IInv
<1> QED BY <1>1, Invariance, PTL

(* A cancelled context lets no further instruction start.                  *)
THEOREM CancelStops == Spec => CancelStopsExecution
<1>1. ASSUME cancelled, [Next]_vars PROVE executed' = executed
  <2>1. ASSUME NEW ops, Dispatch(ops) PROVE FALSE
    BY <1>1, <2>1 DEF Dispatch, checkExecutionLimits
  <2>2. CASE Step
    BY <2>1, <2>2 DEF Step, LimitExceeded, PushConst, LoadFactor, MakeList, MakeMap, Unary,
                      Binary, JumpIfFalse, JumpIfTrue, Jump, CallBuiltin,
                      UnsupportedOpcode, Finish
  <2>3. CASE Cancel \/ UNCHANGED vars
    BY <2>3 DEF Cancel, vars
  <2> QED BY <1>1, <2>2, <2>3 DEF Next
<1>2. [Next]_vars => [cancelled => executed' = executed]_vars
  BY <1>1
<1> QED BY <1>2, PTL DEF Spec, CancelStopsExecution

-----------------------------------------------------------------------------
(* The trace                                                               *)

(* A step either ends the evaluation or records how it goes on.            *)
Ended == UNCHANGED <<prog, ip, stack, steps>> /\ ~Running'

WentOn ==
    /\ AtInstruction /\ Record(stack')
    /\ executed' = executed + 1 /\ UNCHANGED <<prog, outcome>>
    /\ \/ ip' = ip + 1 /\ current.op # "JUMP"
       \/ ip' = current.arg /\ current.op \in Jumps

(* With a code of its own an evaluation is over.                           *)
LEMMA ReturnEnds == ASSUME NEW r, Return(r), r.code # "RUNNING" PROVE Ended
BY DEF Return, Ended, Running

(* Falling through records the stack it leaves, or the stack is too high.  *)
LEMMA FallThroughGoesOn ==
    ASSUME NEW ops, Dispatch(ops), "JUMP" \notin ops, NEW s, FallThrough(s)
    PROVE  Ended \/ WentOn
<1>1. AtInstruction /\ current.op # "JUMP" /\ executed' = executed + 1
  BY DEF Dispatch
<1>2. CASE Len(s) > MaxStackDepth
  BY <1>2, ReturnEnds DEF FallThrough, Fail
<1>3. CASE ~(Len(s) > MaxStackDepth)
  BY <1>1, <1>3 DEF FallThrough, WentOn, Record
<1> QED BY <1>2, <1>3

(* A taken jump records the stack it leaves, or has no target.             *)
LEMMA TakeJumpGoesOn ==
    ASSUME NEW ops, Dispatch(ops), ops \subseteq Jumps, NEW s, TakeJump(s)
    PROVE  Ended \/ WentOn
<1>1. AtInstruction /\ current.op \in Jumps /\ executed' = executed + 1
  BY DEF Dispatch
<1>2. CASE ~validateJumpTarget(current.arg)
  BY <1>2, ReturnEnds DEF TakeJump, Fail
<1>3. CASE validateJumpTarget(current.arg)
  BY <1>1, <1>3 DEF TakeJump, WentOn, Record
<1> QED BY <1>2, <1>3

(* So does an instruction that replaces its operands by a result.          *)
LEMMA ReduceGoesOn ==
    ASSUME NEW ops, Dispatch(ops), "JUMP" \notin ops, NEW n, NEW r, r.code # "RUNNING", Reduce(n, r)
    PROVE  Ended \/ WentOn
<1>1. CASE IsOk(r)
  BY <1>1, FallThroughGoesOn DEF Reduce
<1>2. CASE ~IsOk(r)
  BY <1>2, ReturnEnds DEF Reduce
<1> QED BY <1>1, <1>2

(* Whatever the instruction.                                               *)
LEMMA StepGoesOn == ASSUME Step PROVE Ended \/ WentOn
<1> USE DEF UnaryOps, BinaryOps, OrderedOps, EqualityOps, ArithmeticOps, Jumps
<1>e. ASSUME NEW c \in {"EXPRESSION_INVALID", "INTERNAL_PANIC"}, Return(Fail(c)) PROVE Ended
  BY <1>e, ReturnEnds DEF Fail
<1>1. CASE LimitExceeded
  <2>1. Return(Fail(checkExecutionLimits)) /\ checkExecutionLimits # "RUNNING"
    BY <1>1 DEF LimitExceeded, checkExecutionLimits
  <2> QED BY <2>1, ReturnEnds DEF Fail
<1>2. CASE PushConst
  BY <1>e, <1>2, FallThroughGoesOn DEF PushConst
<1>3. CASE LoadFactor
  BY <1>e, <1>3, FallThroughGoesOn DEF LoadFactor
<1>4. CASE MakeList
  <2>1. \A l : Ok(l).code # "RUNNING"
    BY DEF Ok
  <2> QED BY <1>e, <1>4, <2>1, ReduceGoesOn DEF MakeList
<1>5. CASE MakeMap
  <2>1. \A entries : MapOf(entries).code # "RUNNING"
    BY MapCodes
  <2> QED BY <1>e, <1>5, <2>1, ReduceGoesOn DEF MakeMap
<1>6. CASE Unary
  <2>1. \A op, v : evalUnaryValue(op, v).code # "RUNNING"
    BY UnaryCodes
  <2> QED BY <1>e, <1>6, <2>1, ReduceGoesOn DEF Unary
<1>7. CASE Binary
  <2>1. \A op \in BinaryOps : \A l, r : evalBinaryValues(op, l, r).code # "RUNNING"
    BY BinaryCodes
  <2>2. current.op \in BinaryOps
    BY <1>7 DEF Binary, Dispatch
  <2> QED BY <1>e, <1>7, <2>1, <2>2, ReduceGoesOn DEF Binary
<1>8. ASSUME NEW op \in {"JUMP_IF_FALSE", "JUMP_IF_TRUE"}, Dispatch({op}),
             \/ Return(Fail("EXPRESSION_INVALID"))
             \/ TakeJump(Below(1)) \/ FallThrough(Below(1))
      PROVE  Ended \/ WentOn
  BY <1>e, <1>8, TakeJumpGoesOn, FallThroughGoesOn
<1>9. CASE JumpIfFalse \/ JumpIfTrue
  BY <1>8, <1>9 DEF JumpIfFalse, JumpIfTrue
<1>10. CASE Jump
  BY <1>10, TakeJumpGoesOn DEF Jump
<1>11. CASE CallBuiltin
  <2>1. \A name, args : evalBuiltinValues(name, args).code # "RUNNING"
    BY DEF evalBuiltinValues, builtinGet, BuiltinNames, Ok, Fail
  <2> QED BY <1>e, <1>11, <2>1, ReduceGoesOn DEF CallBuiltin
<1>12. CASE UnsupportedOpcode
  BY <1>e, <1>12 DEF UnsupportedOpcode
<1>13. CASE Finish
  <2>1. PICK r : Return(r) /\ r.code # "RUNNING"
    BY <1>13 DEF Finish, Ok, Fail
  <2> QED BY <2>1, ReturnEnds
<1> QED BY <1>1, <1>2, <1>3, <1>4, <1>5, <1>6, <1>7, <1>9, <1>10, <1>11, <1>12, <1>13 DEF Step

(* What is recorded of an instruction, and where control goes from it.     *)
TraceStep(i, s, after) == [ip |-> i, before |-> s, after |-> after]
Leads(p, i, j) ==
    \/ j = i + 1 /\ p.code[i + 1].op # "JUMP"
    \/ j = p.code[i + 1].arg /\ p.code[i + 1].op \in Jumps

(* Where step k of a trace t leads, the evaluation being at i with s.      *)
ipAfter(t, i, k) == IF k = Len(t) THEN i ELSE t[k + 1].ip
stackAfter(t, s, k) == IF k = Len(t) THEN s ELSE t[k + 1].before

Follows(p, t, i, s, k) ==
    /\ t[k].after = stackAfter(t, s, k)
    /\ Leads(p, t[k].ip, ipAfter(t, i, k))

Traced(p, t, i, s) == \A k \in DOMAIN t : Follows(p, t, i, s, k)

TraceInv ==
    /\ IsStack(steps)
    /\ Running => Len(steps) = executed
    /\ Traced(prog, steps, ip, stack)

(* The property speaks of each step of the trace.                          *)
LEMMA TraceIs == TraceInv => TraceFollowsExecution
BY DEF TraceInv, Traced, TraceFollowsExecution, Follows, Leads, ipAfter, stackAfter

(* A step added to a trace starts where the last one led.                  *)
LEMMA TraceGrows ==
    ASSUME NEW p, NEW t, IsStack(t), NEW i, NEW s, Traced(p, t, i, s),
           NEW j, NEW s1, NEW u, u = Append(t, TraceStep(i, s, s1)), Leads(p, i, j)
    PROVE  Traced(p, u, j, s1)
<1> PICK r : r = TraceStep(i, s, s1)
  OBVIOUS
<1>1. IsStack(u) /\ Len(u) = Len(t) + 1
  BY PushLemma
<1>2. Len(t) \in Nat /\ DOMAIN t = 1..Len(t)
  BY DEF IsStack
<1>3. /\ DOMAIN u = 1..(Len(t) + 1) /\ u[Len(t) + 1] = r
      /\ \A k \in 1..Len(t) : u[k] = t[k]
  <2>1. t \in Seq(Range(t) \cup {r})
    BY DEF IsStack
  <2>2. r \in Range(t) \cup {r} /\ u = Append(t, r)
    OBVIOUS
  <2> PICK T : T = Range(t) \cup {r}
    OBVIOUS
  <2> QED BY <2>1, <2>2
<1>4. ASSUME NEW k \in 1..Len(t) PROVE Follows(p, u, j, s1, k)
  <2>1. Follows(p, t, i, s, k) /\ u[k] = t[k] /\ k # Len(u)
    BY <1>1, <1>2, <1>3 DEF Traced
  <2>2. u[k + 1].ip = ipAfter(t, i, k) /\ u[k + 1].before = stackAfter(t, s, k)
    <3>1. CASE k = Len(t)
      BY <1>2, <1>3, <3>1 DEF ipAfter, stackAfter, TraceStep
    <3>2. CASE k # Len(t)
      <4>1. k + 1 \in 1..Len(t)
        <5>1. PICK n \in Nat : n = Len(t)
          BY <1>2
        <5> QED BY <3>2, <5>1
      <4> QED BY <1>3, <3>2, <4>1 DEF ipAfter, stackAfter
    <3> QED BY <3>1, <3>2
  <2> QED BY <2>1, <2>2 DEF Follows, ipAfter, stackAfter
<1>5. Follows(p, u, j, s1, Len(t) + 1)
  <2>1. r.ip = i /\ r.after = s1
    BY DEF TraceStep
  <2> QED BY <1>1, <1>3, <2>1 DEF Follows, ipAfter, stackAfter
<1>6. \A k \in DOMAIN u : k \in 1..Len(t) \/ k = Len(t) + 1
  BY <1>2, <1>3
<1> QED BY <1>1, <1>4, <1>5, <1>6 DEF Traced

(* The trace of a BytecodeVM.Trace is the execution, whatever the program: *)
(* no instruction is left out, and each starts where control and the stack *)
(* were left, also by a taken jump.                                        *)
THEOREM TraceFollows == Spec => []TraceFollowsExecution
<1>1. Init => TraceInv
  <2>1. <<>> \in Seq({}) /\ DOMAIN <<>> = {} /\ Len(<<>>) = 0
    OBVIOUS
  <2>2. IsStack(<<>>)
    BY <2>1, OwnRange
  <2> QED BY <2>1, <2>2 DEF Init, Start, TraceInv, Traced
<1>2. TraceInv /\ [Next]_vars => TraceInv'
  <2> SUFFICES ASSUME TraceInv, [Next]_vars PROVE TraceInv'
    OBVIOUS
  <2>1. CASE Ended
    BY <2>1 DEF Ended, TraceInv
  <2>2. CASE WentOn
    <3> PICK p, t, i, s, j, s1, u : /\ p = prog /\ t = steps /\ i = ip /\ s = stack
                                    /\ j = ip' /\ s1 = stack' /\ u = steps'
      OBVIOUS
    <3>1. IsStack(t) /\ Traced(p, t, i, s)
      BY DEF TraceInv
    <3>2. u = Append(t, TraceStep(i, s, s1)) /\ Leads(p, i, j)
      BY <2>2 DEF WentOn, Record, current, TraceStep, Leads
    <3>3. Traced(p, u, j, s1)
      BY <3>1, <3>2, TraceGrows
    <3>4. IsStack(u) /\ Len(u) = Len(t) + 1
      BY <3>1, <3>2, PushLemma
    <3>5. prog' = prog /\ Running /\ executed' = executed + 1
      BY <2>2 DEF WentOn, AtInstruction
    <3>6. Len(steps) = executed
      BY <3>5 DEF TraceInv
    <3> QED BY <3>3, <3>4, <3>5, <3>6 DEF TraceInv
  <2>3. CASE Cancel \/ UNCHANGED vars
    BY <2>3 DEF Cancel, vars, TraceInv, Running
  <2> QED BY <2>1, <2>2, <2>3, StepGoesOn DEF Next
<1> QED BY <1>1, <1>2, TraceIs, PTL DEF Spec
=============================================================================
