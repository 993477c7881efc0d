------------------------- MODULE MCCompileCacheKey -------------------------
EXTENDS CompileCacheKey, MCExpressionParser

MCNames == <<"a", "b", "value">>

SchemaField(type, required, fields, elem) ==
    [type |-> type, required |-> required, fields |-> fields, elem |-> elem]
scalar(type) == SchemaField(type, TRUE, <<>>, <<>>)
object(fields) == SchemaField("object", TRUE, fields, <<>>)
mapOf(elem) == SchemaField("map", TRUE, <<>>, <<elem>>)

Config(response) ==
    [method |-> <<"idl", "1", "S", "M">>, request |-> [a |-> "c"], response |-> response]
Factor(output) ==
    [category |-> "RPC", type |-> "THRIFT_INVOKER", published |-> TRUE,
     input |-> [a |-> scalar("string")], output |-> output, dependencies |-> <<"b", "a">>,
     config |-> Config([a |-> "d"])]

(* The outputs that a factor is given over time: another type, another     *)
(* nesting, one level down, under an elem, with one name more or less.     *)
outputs ==
    {[value |-> scalar("int")], [value |-> scalar("string")],
     [value |-> SchemaField("int", FALSE, <<>>, <<>>)],
     [a |-> scalar("int")], [a |-> scalar("int"), b |-> scalar("string")], <<>>,
     [a |-> object([a |-> scalar("int")])], [a |-> object([a |-> scalar("bool")])],
     [a |-> object([a |-> scalar("int"), b |-> scalar("bool")])],
     [a |-> object([a |-> scalar("int")]), b |-> scalar("bool")],
     [a |-> mapOf(scalar("int"))], [a |-> mapOf(mapOf(scalar("int")))],
     [a |-> mapOf(object([a |-> scalar("int")]))]}

original == Factor([value |-> scalar("int")])
other == Factor([value |-> scalar("bool")])
MCRegistries ==
    {[a |-> Factor(o), b |-> other] : o \in outputs} \cup {[b |-> other]} \cup
    {[a |-> [original EXCEPT !.dependencies = <<"a", "b">>], b |-> other],
     [a |-> [original EXCEPT !.config = Config([a |-> "d", b |-> "e"])], b |-> other],
     [a |-> [original EXCEPT !.published = FALSE], b |-> other]}

get(c, k) == FunctionCallExpr("get", <<c, LiteralExpr(Str(k))>>)
MCRules ==
    {<<e, Write(e, 0)>> :
        e \in {BinaryExpr("==", FactorRefExpr("a", <<"a", "a">>), one),
               get(get(FactorRefExpr("a", <<"a">>), "a"), "a"), BinaryExpr("<", a, one)}}
MCAllWritings == MCWritings \cup MCRules
=============================================================================
