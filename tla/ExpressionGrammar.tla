------------------------- MODULE ExpressionGrammar -------------------------
(***************************************************************************)
(* What ExpressionParser is to compute, said without a position or an      *)
(* order of reading: the trees that a grammar gives to a sequence of       *)
(* tokens, and the cuts of a text into longest lexemes.                    *)
(***************************************************************************)
EXTENDS ExpressionParser

-----------------------------------------------------------------------------
(* The grammar, as the set of trees it gives to tokens.  Level 0 is a      *)
(* conditional, levels 1 to 6 are the binary operators, level 7 is a       *)
(* prefix; binary operators group to the left, conditionals to the right.  *)

Before(ts, i) == SubSeq(ts, 1, i - 1)
After(ts, i) == SubSeq(ts, i + 1, Len(ts))
Inside(ts, n) == SubSeq(ts, n + 1, Len(ts) - 1)
Is(ts, i, typ) == i \in DOMAIN ts /\ ts[i].typ = typ
TreeOf(r) == IF IsOk(r) THEN {r.value} ELSE {}

RECURSIVE Derived(_, _), DerivedItems(_), DerivedEntries(_)

DerivedItems(ts) ==
    {<<t>> : t \in Derived(0, ts)} \cup
    UNION {{<<t>> \o rest : t \in Derived(0, Before(ts, i)), rest \in DerivedItems(After(ts, i))} :
           i \in {i \in DOMAIN ts : Is(ts, i, ",")}}

DerivedList(ts) == IF ts = <<>> THEN {<<>>} ELSE DerivedItems(ts)

DerivedEntries(ts) ==
    IF ~(Is(ts, 1, "string") /\ Is(ts, 2, ":")) THEN {}
    ELSE LET value == After(ts, 2)
         IN  {<<<<ts[1].raw, t>>>> : t \in Derived(0, value)} \cup
             UNION {{<<<<ts[1].raw, t>>>> \o rest :
                         t \in Derived(0, Before(value, i)), rest \in DerivedEntries(After(value, i))} :
                    i \in {i \in DOMAIN value : Is(value, i, ",")}}

DerivedMap(ts) ==
    {MapExpr([i \in DOMAIN es |-> es[i][1]], [i \in DOMAIN es |-> es[i][2]]) :
        es \in IF ts = <<>> THEN {<<>>} ELSE DerivedEntries(ts)}

DerivedToken(tok) ==
    CASE tok.typ = "identifier" -> TreeOf(ParseFactorRef(tok.raw))
      [] tok.typ = "number"     -> TreeOf(numberLiteral(tok.raw))
      [] tok.typ = "string"     -> {LiteralExpr(Str(tok.raw))}
      [] tok.typ = "bool"       -> {LiteralExpr(Bool(tok.raw = "true"))}
      [] tok.typ = "null"       -> {LiteralExpr(Null)}
      [] OTHER                  -> {}

DerivedPrefix(ts) ==
    UNION {
        IF Len(ts) = 1 THEN DerivedToken(ts[1]) ELSE {},
        IF Is(ts, 1, "operator") /\ ts[1].raw \in {"!", "-"}
          THEN {UnaryExpr(ts[1].raw, t) : t \in Derived(7, After(ts, 1))} ELSE {},
        IF Is(ts, 1, "(") /\ Is(ts, Len(ts), ")") THEN Derived(0, Inside(ts, 1)) ELSE {},
        IF Len(ts) > 1 /\ Is(ts, 1, "[") /\ Is(ts, Len(ts), "]")
          THEN {ListExpr(items) : items \in DerivedList(Inside(ts, 1))} ELSE {},
        IF Len(ts) > 1 /\ Is(ts, 1, "{") /\ Is(ts, Len(ts), "}") THEN DerivedMap(Inside(ts, 1)) ELSE {},
        IF Len(ts) > 2 /\ Is(ts, 1, "identifier") /\ Is(ts, 2, "(") /\ Is(ts, Len(ts), ")")
          THEN {FunctionCallExpr(ts[1].raw, args) : args \in DerivedList(Inside(ts, 2))} ELSE {}}

Derived(level, ts) ==
    IF ts = <<>> THEN {}
    ELSE IF level = 7 THEN DerivedPrefix(ts)
    ELSE Derived(level + 1, ts) \cup
         IF level = 0
         THEN UNION {{ConditionalExpr(c, t, e) :
                          c \in Derived(1, Before(ts, i)), e \in Derived(0, After(ts, j)),
                          t \in Derived(0, SubSeq(ts, i + 1, j - 1))} :
                     i \in {i \in DOMAIN ts : Is(ts, i, "?")}, j \in {j \in DOMAIN ts : Is(ts, j, ":")}}
         ELSE UNION {{BinaryExpr(ts[i].raw, l, r) :
                          l \in Derived(level, Before(ts, i)), r \in Derived(level + 1, After(ts, i))} :
                     i \in {i \in DOMAIN ts : Is(ts, i, "operator") /\ ts[i].raw \in PrecedenceLevels[level]}}

(* A text is cut at places where lexemes start, each as long as *)
(* possible; the cuts are unique if they exist.                            *)
IsWord(w) == w # "" /\ isIdentifierStart(Char(w, 1)) /\ \A i \in 1..Len(w) : isIdentifierPart(Char(w, i))
IsNumber(w) ==
    /\ w # "" /\ isDigit(Char(w, 1))
    /\ Cardinality({i \in 1..Len(w) : Char(w, i) = "."}) <= 1
    /\ \A i \in 1..Len(w) : isDigit(Char(w, i)) \/ Char(w, i) = "."
IsQuoted(w) ==
    /\ Len(w) >= 2 /\ Char(w, 1) \in Quotes
    /\ {i \in 2..Len(w) : Char(w, i) = Char(w, 1)} = {Len(w)}
IsSymbol(w) == w \in Punctuation \cup DoubleOperators \cup SingleOperators
IsLexeme(w) == IsWord(w) \/ IsNumber(w) \/ IsQuoted(w) \/ IsSymbol(w)

TokenOf(w) ==
    IF IsWord(w) THEN Token(TypeOfWord(w), w)
    ELSE IF IsNumber(w) THEN Token("number", w)
    ELSE IF IsQuoted(w) THEN Token("string", SubSeq(w, 2, Len(w) - 1))
    ELSE IF w \in Punctuation THEN Token(w, w)
    ELSE Token("operator", w)

(* The end of the longest lexeme of s that starts at i, 0 if none does.    *)
LexemeEnd(s, i) == Max({0} \cup {j \in i..Len(s) : IsLexeme(SubSeq(s, i, j))})

(* The start of the token after place i, spaces skipped.                   *)
NextStart(s, i) == Min({j \in i..(Len(s) + 1) : j = Len(s) + 1 \/ Char(s, j) # " "})

(* starts are the places where tokens start.                               *)
CutAt(s, starts) ==
    /\ starts \cap 1..Len(s) # {} => NextStart(s, 1) \in starts
    /\ starts = {NextStart(s, 1)} \cup {NextStart(s, LexemeEnd(s, i) + 1) : i \in starts \cap 1..Len(s)}
    /\ \A i \in starts \cap 1..Len(s) : LexemeEnd(s, i) # 0

-----------------------------------------------------------------------------
(* Properties                                                              *)

Cuts == {starts \in SUBSET (1..(Len(text) + 1)) : CutAt(text, starts)}
Tokens(starts) ==
    LET order == SetToSortSeq(starts \cap 1..Len(text), <)
    IN  [n \in DOMAIN order |-> TokenOf(SubSeq(text, order[n], LexemeEnd(text, order[n])))]

(* A text is accepted exactly when its longest lexemes are a sentence of   *)
(* the grammar, and then gets the only tree the grammar gives it: no       *)
(* operator of two characters, decimal point, quote or keyword is split or *)
(* joined, and six levels of left associative operators, conditionals      *)
(* below them and unary operators above them group as the precedences say. *)
(* A tree written with no more parentheses than they ask for is read back  *)
(* as it was (tokenizeExpression, parseExpression, parsePrefix).           *)
ParsesTheGrammar ==
    TreeOf(ParseExpression(text)) =
        IF written = <<>> THEN UNION {Derived(0, Tokens(starts)) : starts \in Cuts} ELSE {written[1]}
=============================================================================
