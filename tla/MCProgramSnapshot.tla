------------------------- MODULE MCProgramSnapshot -------------------------
EXTENDS ProgramSnapshot, MCRuleExecution

(* Two more strings: 4 U+FFFD, 5 the byte FF, which is no UTF-8.           *)
MCTexts == 0..5
MCContains == {<<s, t>> \in MCTexts \X MCTexts : s = 0 \/ s = t \/ <<s, t>> = <<1, 3>>}
MCCoerced == [r \in MCTexts |-> IF r = 5 THEN 4 ELSE r]

(* What folding an overflowing product of doubles leaves.                  *)
Infinity == Double(1, 0)

negativeZero == <<"double", NegativeZero>>
numbers == {GoInt(0), GoInt(3), GoLong(0), GoLong(3), Double(0, 1), negativeZero, Double(3, 2), Infinity}
scalars == numbers \cup {Str(r) : r \in MCTexts} \cup {Null, Bool(FALSE), Bool(TRUE)}

(* A rule writes -0.0 as a minus sign and a literal, which folding joins.  *)
lit(v) == IF v = negativeZero THEN UnaryExpr("-", LiteralExpr(Double(0, 1))) ELSE LiteralExpr(v)
call(f, args) == FunctionCallExpr(f, args)

(* Every scalar by itself, in a list, in a map, in a map in a list, and    *)
(* used: constants that the folding makes and those that it leaves.        *)
forms(v) ==
    {lit(v), ListExpr(<<lit(v)>>), ListExpr(<<ListExpr(<<>>), lit(v)>>),
     MapExpr(<<1>>, <<lit(v)>>), MapExpr(<<4, 5>>, <<null, lit(v)>>),
     ListExpr(<<MapExpr(<<0>>, <<lit(v)>>), MapExpr(<<>>, <<>>)>>),
     call("in", <<lit(v), amount, name>>),
     call("get", <<MapExpr(<<1, 5>>, <<lit(v), lit(v)>>), name>>)} \cup
    {BinaryExpr(op, f, lit(v)) : op \in {"==", "<"} \cup (IF v = Infinity THEN {} ELSE {"*"}),
                                 f \in {amount, rate, name}} \cup
    {ConditionalExpr(BinaryExpr("&&", vip, BinaryExpr("==", age, lit(v))), lit(v), null)}

(* Zeros with a sign that folding makes, or that only running would make.  *)
zero == lit(Double(0, 1))
negative(e) == UnaryExpr("-", e)
zeros == {negative(zero), BinaryExpr("*", zero, negative(int(2))), BinaryExpr("-", negative(zero), zero),
          BinaryExpr("+", negative(zero), zero), BinaryExpr("/", zero, negative(half)),
          BinaryExpr("*", rate, negative(zero)), BinaryExpr("/", negative(zero), rate),
          BinaryExpr("==", negative(zero), BinaryExpr("*", zero, rate)), BinaryExpr("/", amount, negative(zero)),
          BinaryExpr("<", negative(zero), zero), ListExpr(<<zero, negative(zero), rate>>)}

paths == {call("get", <<user, str(1)>>), call("exists", <<limits>>),
          BinaryExpr("||", call("isEmpty", <<name>>), UnaryExpr("!", vip)),
          call("contains", <<name, str(5)>>), FactorRefExpr("user", <<2>>)}

MCStored == UNION {forms(v) : v \in scalars} \cup zeros \cup paths
MCAllRules == MCRules \cup binders(MCStored)
MCAllTrees == compiledTrees(MCAllRules)

MCAllContexts ==
    MCContexts \cup
    {[amount |-> GoInt(3), rate |-> Double(1, 2), name |-> Str(5), user |-> Person(3, TRUE)],
     [amount |-> GoInt(0), name |-> Str(1), limits |-> Map(<<GoInt(1)>>), user |-> Person(0, TRUE)]}
=============================================================================
