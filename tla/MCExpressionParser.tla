------------------------- MODULE MCExpressionParser -------------------------
EXTENDS ExpressionGrammar

(* Binary and unary operators; conditionals; calls and parentheses; lists; *)
(* maps; the characters that the tokenizer looks beyond: quotes, points    *)
(* and operators of two characters; numbers that do not fit.               *)
MCAlphabets ==
    {{"a", "<", "-", "!"}, {"a", "*", "-"},
     {"a", "?", ":"},
     {"a", "(", ")", ","}, {"a", "[", "]", ","},
     {"'", ":", "{", "}"},
     {"a", "'", "\"", "1"},
     {"1", ".", " ", "_"}, {"a", "9", "."}, {"7", "9", ".", "-"},
     {"a", "=", "<", "!"}, {"a", "&", "!"}, {"a", "|", "="}}

(* A tree of a level below min needs parentheses.                          *)
Level(e) ==
    CASE e.node = "conditional" -> 0
      [] e.node = "binary"      -> operatorPrecedence(e.op)
      [] OTHER                  -> 7

RECURSIVE Write(_, _)
Joined(parts) == IF parts = <<>> THEN "" ELSE FoldLeft(LAMBDA s, p : s \o ", " \o p, Head(parts), Tail(parts))
Bare(e) ==
    CASE e.node = "literal" ->
           (CASE e.value = Null -> "null"
              [] Tag(e.value) = "bool" -> IF Payload(e.value) THEN "true" ELSE "false"
              [] Tag(e.value) = "string" -> "'" \o Payload(e.value) \o "'"
              [] Tag(e.value) \in {"int", "long"} -> ToString(Payload(e.value))
              [] OTHER -> "2.50")
      [] e.node = "ref" -> FoldLeft(LAMBDA s, p : s \o "." \o p, e.code, e.path)
      [] e.node = "unary" -> e.op \o Write(e.expr, 7)
      [] e.node = "binary" ->
           Write(e.left, Level(e)) \o " " \o e.op \o " " \o Write(e.right, Level(e) + 1)
      [] e.node = "conditional" ->
           Write(e.cond, 1) \o " ? " \o Write(e.then, 0) \o " : " \o Write(e.else, 0)
      [] e.node = "list" -> "[" \o Joined([i \in DOMAIN e.args |-> Write(e.args[i], 0)]) \o "]"
      [] e.node = "call" -> e.name \o "(" \o Joined([i \in DOMAIN e.args |-> Write(e.args[i], 0)]) \o ")"
      [] e.node = "map" ->
           "{" \o Joined([i \in DOMAIN e.args |-> "\"" \o e.keys[i] \o "\":" \o Write(e.args[i], 0)]) \o "}"
Write(e, min) == IF Level(e) < min THEN "(" \o Bare(e) \o ")" ELSE Bare(e)

leaves == {FactorRefExpr("a", <<>>), FactorRefExpr("b", <<"a", "b">>), LiteralExpr(GoInt(3)),
           LiteralExpr(GoLong(5)), LiteralExpr(Double(5, 2)), LiteralExpr(Str("a b")),
           LiteralExpr(Bool(TRUE)), LiteralExpr(Null)}
a == FactorRefExpr("a", <<>>)
b == FactorRefExpr("b", <<>>)
one == LiteralExpr(GoInt(1))

Over(xs, ops) ==
    {UnaryExpr(op, x) : op \in {"!", "-"}, x \in xs} \cup
    {BinaryExpr(op, x, y) : op \in ops, x \in xs, y \in xs} \cup
    {ConditionalExpr(x, y, b) : x \in xs, y \in xs} \cup
    {ConditionalExpr(a, one, x) : x \in xs} \cup
    {ListExpr(<<x, y>>) : x \in xs, y \in {a}} \cup
    {FunctionCallExpr("in", <<x, y>>) : x \in xs, y \in {one}} \cup
    {MapExpr(<<"a", "">>, <<x, y>>) : x \in {b}, y \in xs}

shallow == Over({a}, {"||", "&&", "==", "<=", "-", "/"}) \cup
           {ListExpr(<<>>), MapExpr(<<>>, <<>>), FunctionCallExpr("b", <<>>)}
deep == Over(shallow, {"&&", "-", "/"})
deeper == {ConditionalExpr(BinaryExpr("||", a, b), one, b), UnaryExpr("-", BinaryExpr("*", a, one)),
           BinaryExpr("-", a, BinaryExpr("+", b, one)), BinaryExpr("==", BinaryExpr(">", a, b), UnaryExpr("!", a))}
MCTrees == leaves \cup Over(leaves, {"+"}) \cup Over({a}, BinaryOperators) \cup deep \cup
           Over(deeper, BinaryOperators)
MCWritings == {<<e, Write(e, 0)>> : e \in MCTrees}
=============================================================================
