-------------------------- MODULE MCEngineService --------------------------
(* Two goroutines over one or two rule sets: definitions that publish,     *)
(* that fail at once, and that fail at their first or second rule.         *)
EXTENDS EngineService

CONSTANTS p1, p2, fraud, credit, r1, r2, amount, score, broken

MCProcs == {p1, p2}
MCCodes == {fraud, credit}
MCRuleCodes == {r1, r2}
MCExprs == {amount, score, broken}
MCCompilable == {amount, score}

R(r, e) == [rule |-> r, expr |-> e]
D(c, v, rules) == [code |-> c, version |-> v, rules |-> rules]

MCDefinitions ==
    {D(fraud, 1, <<R(r1, amount)>>), D(fraud, 1, <<R(r1, score), R(r2, score)>>),
     D(fraud, 2, <<R(r2, amount)>>), D(fraud, 2, <<R(r1, amount), R(r2, broken)>>),
     D(fraud, 2, <<R(r1, amount), R(r1, score)>>), D(fraud, 2, <<R(Blank, amount)>>),
     D(fraud, 2, <<R(r1, Blank)>>), D(credit, 1, <<R(r1, score)>>),
     D(Blank, 1, <<R(r1, amount)>>), D(fraud, 0, <<R(r1, amount)>>), D(fraud, 1, <<>>)}
=============================================================================
