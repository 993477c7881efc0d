---------------------------- MODULE References ----------------------------
(***************************************************************************)
(* Dotted references (parser.go): FactorRef names a factor and a path into *)
(* its output, ResponsePath a path into the response of a method.          *)
(***************************************************************************)
EXTENDS Expressions

Char(s, i) == SubSeq(s, i, i)

(* The first place from i on whose character is not one of P.              *)
SkipWhile(s, i, P(_)) ==
    CHOOSE j \in i..(Len(s) + 1) :
        /\ j = Len(s) + 1 \/ ~P(Char(s, j))
        /\ \A k \in i..(j - 1) : P(Char(s, k))

TrimSpace(s) ==
    LET inked == {i \in 1..Len(s) : Char(s, i) # " "}
    IN  IF inked = {} THEN "" ELSE SubSeq(s, Min(inked), Max(inked))

(* strings.Split(raw, ".")                                                 *)
RECURSIVE Segments(_)
Segments(raw) ==
    LET dot == SkipWhile(raw, 1, LAMBDA c : c # ".")
    IN  IF dot > Len(raw) THEN <<raw>>
        ELSE <<SubSeq(raw, 1, dot - 1)>> \o Segments(SubSeq(raw, dot + 1, Len(raw)))

(* No segment is empty, and there is one.                                  *)
ParsePath(raw, code) ==
    LET parts == Segments(TrimSpace(raw))
    IN  IF "" \in Range(parts) THEN Fail(code) ELSE Ok(parts)

ParseFactorRef(raw) ==
    LET parts == ParsePath(raw, "FACTOR_REF_INVALID")
    IN  IF IsOk(parts) THEN Ok(FactorRefExpr(Head(parts.value), Tail(parts.value))) ELSE parts

ParseResponsePath(raw) == ParsePath(raw, "RESPONSE_PATH_INVALID")
=============================================================================
