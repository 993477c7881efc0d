-------------------------- MODULE MCRuleExecution --------------------------
EXTENDS RuleExecution

(* Strings by rank: 0 "", 1 "a", 2 "b", 3 "value".                         *)
MCValueKey == 3
MCSubstring == {<<s, t>> \in (0..3) \X (0..3) : s = 0 \/ s = t \/ <<s, t>> = <<1, 3>>}

single(type) == (MCValueKey :> scalarField(type))
MCRegistry ==
    [flag   |-> single("bool"),
     amount |-> single("int"),
     rate   |-> single("double"),
     name   |-> single("string"),
     limits |-> (MCValueKey :> MapField("int")),
     user   |-> <<scalarField("int"), ObjectField(<<scalarField("bool"), scalarField("string")>>)>>]

flag == FactorRefExpr("flag", <<>>)
amount == FactorRefExpr("amount", <<>>)
rate == FactorRefExpr("rate", <<>>)
name == FactorRefExpr("name", <<>>)
limits == FactorRefExpr("limits", <<>>)
user == FactorRefExpr("user", <<>>)
age == FactorRefExpr("user", <<1>>)
vip == FactorRefExpr("user", <<2, 1>>)

int(n) == LiteralExpr(GoInt(n))
str(r) == LiteralExpr(Str(r))
true == LiteralExpr(Bool(TRUE))
false == LiteralExpr(Bool(FALSE))
null == LiteralExpr(Null)
half == LiteralExpr(Double(1, 2))

Wrapped(v) == Map(MCValueKey :> v)
Person(years, isVip) == Map(<<GoInt(years), Map(<<Bool(isVip), Str(1)>>)>>)

MCContexts ==
    {[flag |-> Bool(TRUE), amount |-> GoInt(3), rate |-> Double(1, 2), name |-> Str(1),
      limits |-> Map(<<GoInt(1), GoInt(0)>>), user |-> Person(2, FALSE)],
     [flag |-> Wrapped(Bool(FALSE)), amount |-> Wrapped(GoInt(0)), rate |-> Wrapped(Double(3, 1)),
      name |-> Wrapped(Str(2)), limits |-> Wrapped(Map(<<GoInt(2)>>)), user |-> Map(<<GoInt(0)>>)],
     [flag |-> Bool(TRUE), name |-> Str(0)],
     [amount |-> GoLong(-2), user |-> Person(3, TRUE), limits |-> Map(<<>>)],
     [flag |-> Null, amount |-> GoInt(2), name |-> Str(2), user |-> Map((2 :> Null))]}

binders(rules) == {r \in rules : IsOk(Bind(r))}
of(rules, type) == {r \in rules : ResultType(Bind(r).value) = type}

atoms == {int(0), int(2), half, str(1), true, false, null, flag, amount, rate, name, age, vip}
operands == {int(0), half, str(1), true, null, flag, amount, name, vip}

(* Every operator once over every pair of operands that it accepts.        *)
flat == binders(
    {UnaryExpr(op, a) : op \in {"!", "-"}, a \in atoms} \cup
    {BinaryExpr(op, a, b) : op \in {"&&", "||", "<", "==", "+", "/"}, a \in atoms, b \in operands} \cup
    {BinaryExpr(op, age, b) : op \in {"<=", ">", ">=", "!=", "-", "*"}, b \in operands})

conditions == {UnaryExpr("!", flag), BinaryExpr("<", amount, int(2)), BinaryExpr("&&", vip, flag),
               BinaryExpr("==", name, null), BinaryExpr("||", false, true),
               BinaryExpr("<", BinaryExpr("/", int(2), amount), int(2))}

nested == binders(
    {BinaryExpr(op, a, b) : op \in {"&&", "||"}, a \in conditions \cup {true, flag},
                            b \in conditions \cup {false, vip}} \cup
    {ConditionalExpr(c, a, b) : c \in conditions, a \in operands, b \in operands} \cup
    {UnaryExpr("!", c) : c \in conditions} \cup
    {BinaryExpr(op, BinaryExpr(po, a, b), ConditionalExpr(c, vip, d)) :
        op \in {"&&", "||"}, po \in {"&&", "||", "=="}, a \in conditions, b \in {true, flag, vip},
        c \in conditions, d \in {false, flag}} \cup
    {ConditionalExpr(BinaryExpr(op, a, b), ConditionalExpr(c, half, age), UnaryExpr("-", amount)) :
        op \in {"&&", "||"}, a \in conditions, b \in conditions, c \in conditions} \cup
    {BinaryExpr("+", ConditionalExpr(c, a, b), age) : c \in conditions, a \in operands, b \in {half, null}} \cup
    {BinaryExpr("==", ConditionalExpr(c, true, null), BinaryExpr("&&", flag, d)) :
        c \in conditions, d \in conditions})

(* One-entry and two-entry lists and maps of literals and factors, equal   *)
(* but for the kind of a number among them.                                *)
lists == {ListExpr(<<>>), ListExpr(<<int(2), half>>), ListExpr(<<str(1), name>>),
          ListExpr(<<amount, null>>), ListExpr(<<int(2)>>)}
maps == {MapExpr(<<>>, <<>>), MapExpr(<<1>>, <<int(3)>>), MapExpr(<<1, 2>>, <<half, amount>>),
         MapExpr(<<1, 1>>, <<int(2), age>>), MapExpr(<<2>>, <<flag>>)}
gets == binders({FunctionCallExpr("get", <<m, k>>) : m \in maps \cup {limits, user}, k \in {str(1), str(2), name}}
                \cup {FunctionCallExpr("get", <<FunctionCallExpr("get", <<user, str(2)>>), str(k)>>) : k \in {1, 2}}
                \cup {FunctionCallExpr("get", <<ConditionalExpr(c, limits, m), name>>) :
                          c \in conditions, m \in maps \cup {null}})

collections == binders(
    {FunctionCallExpr("contains", <<c, a>>) : c \in lists \cup {name, str(1)}, a \in operands} \cup
    {FunctionCallExpr("in", <<a, int(2), b>>) : a \in operands, b \in {half, amount}} \cup
    {FunctionCallExpr(f, <<a>>) : f \in {"isEmpty", "exists"}, a \in operands \cup lists \cup maps} \cup
    {BinaryExpr("==", g, amount) : g \in gets} \cup
    {BinaryExpr("+", g, int(2)) : g \in gets} \cup
    {BinaryExpr("==", BinaryExpr("/", g, int(2)), int(1)) : g \in gets} \cup
    {ConditionalExpr(FunctionCallExpr("isEmpty", <<name>>), l, ListExpr(<<int(0)>>)) : l \in lists} \cup
    gets \cup lists \cup maps)

(* The same constant map but for the kind of its number, read by a key     *)
(* that is known at run time only.                                         *)
halvedAt(m) == BinaryExpr("/", FunctionCallExpr("get", <<m, name>>), int(2))
lookalikes ==
    {BinaryExpr("==", halvedAt(MapExpr(<<1>>, <<LiteralExpr(GoInt(3))>>)),
                      halvedAt(MapExpr(<<1>>, <<LiteralExpr(v)>>))) :
        v \in {GoInt(3), Double(3, 1), Double(3, 2)}}

MCRules == flat \cup nested \cup collections \cup lookalikes

(* The trees that the compiler meets on its way through the rules.         *)
compiledTrees(rules) == UNION {Subtrees(optimizeBoundExpr(Bind(r).value)) : r \in rules}
MCTrees == compiledTrees(MCRules)
=============================================================================
