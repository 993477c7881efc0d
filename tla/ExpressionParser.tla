-------------------------- MODULE ExpressionParser --------------------------
(***************************************************************************)
(* From the text of a rule to its syntax tree: the tokenizer and the       *)
(* precedence climbing parser of expression_parser.go.                     *)
(*                                                                         *)
(* A text is a string of one-byte characters.  A token is its type and its *)
(* raw text; the type of a bracket or separator is the character itself.   *)
(* A behaviour types a text, one character after the other, or starts with *)
(* the text of a given syntax tree.  The parser keeps no state.            *)
(***************************************************************************)
EXTENDS References

CONSTANTS
    Letters,     \* the characters that unicode.IsLetter accepts
    IntBits,     \* width of an INT literal (32 in the program)
    Alphabets,   \* sets of characters that texts are typed with
    MaxLength,   \* bound: the length of a typed text
    Writings     \* syntax trees with their texts: <<tree, text>>

ASSUME IntBitsAssumption == IntBits \in 1..WordBits

VARIABLES text, alphabet, written

textVars == <<text, alphabet, written>>

-----------------------------------------------------------------------------
(* The tokenizer                                                           *)

Digits == {"0", "1", "2", "3", "4", "5", "6", "7", "8", "9"}
isDigit(ch) == ch \in Digits
isIdentifierStart(ch) == ch = "_" \/ ch \in Letters
isIdentifierPart(ch) == isIdentifierStart(ch) \/ isDigit(ch) \/ ch = "."
Quotes == {"\"", "'"}
Punctuation == {"(", ")", "[", "]", "{", "}", ",", ":", "?"}
DoubleOperators == {"&&", "||", "==", "!=", "<=", ">="}
SingleOperators == {"<", ">", "+", "-", "*", "/", "!"}

Token(typ, raw) == [typ |-> typ, raw |-> raw]
Lexeme(typ, raw, next) == Ok([token |-> Token(typ, raw), next |-> next])

TypeOfWord(word) ==
    CASE word \in {"true", "false"} -> "bool"
      [] word = "null"              -> "null"
      [] OTHER                      -> "identifier"

(* The place after the number at i: digits, and a point with more of them. *)
numberEnd(s, i) ==
    LET point == SkipWhile(s, i, isDigit)
    IN  IF point <= Len(s) /\ Char(s, point) = "." THEN SkipWhile(s, point + 1, isDigit) ELSE point

(* The token that starts at place i, which is not a space, and the place   *)
(* after it.                                                               *)
nextToken(s, i) ==
    LET ch       == Char(s, i)
        wordEnd  == SkipWhile(s, i, isIdentifierPart)
        quoteEnd == SkipWhile(s, i + 1, LAMBDA c : c # ch)
        double   == SubSeq(s, i, IF i < Len(s) THEN i + 1 ELSE i)
    IN  CASE isIdentifierStart(ch) ->
               Lexeme(TypeOfWord(SubSeq(s, i, wordEnd - 1)), SubSeq(s, i, wordEnd - 1), wordEnd)
          [] isDigit(ch) -> Lexeme("number", SubSeq(s, i, numberEnd(s, i) - 1), numberEnd(s, i))
          [] ch \in Quotes /\ quoteEnd <= Len(s) ->
               Lexeme("string", SubSeq(s, i + 1, quoteEnd - 1), quoteEnd + 1)
          [] ch \in Punctuation -> Lexeme(ch, ch, i + 1)
          [] double \in DoubleOperators -> Lexeme("operator", double, i + 2)
          [] double \notin DoubleOperators /\ ch \in SingleOperators ->
               Lexeme("operator", ch, i + 1)
          [] OTHER -> Fail("EXPRESSION_INVALID")

RECURSIVE tokensFrom(_, _, _)
tokensFrom(s, i, tokens) ==
    IF i > Len(s) THEN Ok(Append(tokens, Token("EOF", "")))
    ELSE IF Char(s, i) = " " THEN tokensFrom(s, i + 1, tokens)
    ELSE LET lexeme == nextToken(s, i)
         IN  IF ~IsOk(lexeme) THEN lexeme
             ELSE tokensFrom(s, lexeme.value.next, Append(tokens, lexeme.value.token))

tokenizeExpression(s) == tokensFrom(s, 1, <<>>)

-----------------------------------------------------------------------------
(* Number literals                                                         *)

DigitValue(d) == CHOOSE n \in 0..9 : ToString(n) = d

RECURSIVE NumberOf(_)
NumberOf(digits) ==
    IF digits = "" THEN 0
    ELSE 10 * NumberOf(SubSeq(digits, 1, Len(digits) - 1)) + DigitValue(Char(digits, Len(digits)))

(* ParseFloat for a raw text with a point in it, else ParseInt: an INT     *)
(* when it fits, a LONG when that fits.                                    *)
numberLiteral(raw) ==
    LET point  == SkipWhile(raw, 1, isDigit)
        before == SubSeq(raw, 1, point - 1)
        after  == SubSeq(raw, point + 1, Len(raw))
        n      == NumberOf(before)
    IN  IF point <= Len(raw)
          THEN Ok(LiteralExpr(Lowest(n * 10^Len(after) + NumberOf(after), 10^Len(after))))
        ELSE IF n < 2^(IntBits - 1) THEN Ok(LiteralExpr(GoInt(n)))
        ELSE IF n < 2^(WordBits - 1) THEN Ok(LiteralExpr(GoLong(n)))
        ELSE Fail("EXPRESSION_INVALID")

-----------------------------------------------------------------------------
(* The parser: an operator of the tokens and the position p.pos gives a    *)
(* tree and the position after it, or fails.                               *)

PrecedenceLevels == <<{"||"}, {"&&"}, {"==", "!="}, {"<", "<=", ">", ">="}, {"+", "-"}, {"*", "/"}>>
BinaryOperators == UNION Range(PrecedenceLevels)
operatorPrecedence(op) == CHOOSE n \in DOMAIN PrecedenceLevels : op \in PrecedenceLevels[n]

UnaryPrecedence == 7

Invalid == Fail("EXPRESSION_INVALID")
At(tree, pos) == Ok([tree |-> tree, pos |-> pos])
peek(ts, pos) == IF pos > Len(ts) THEN Token("EOF", "") ELSE ts[pos]

RECURSIVE parseExpression(_, _, _)

(* r, if it succeeded and is followed by a token of type typ: its tree     *)
(* rebuilt by build, and the position after that token.                    *)
Closed(ts, r, typ, build(_)) ==
    IF ~IsOk(r) THEN r
    ELSE IF peek(ts, r.value.pos).typ # typ THEN Invalid
    ELSE At(build(r.value.tree), r.value.pos + 1)

(* Expressions with commas between them.                                   *)
RECURSIVE parseItems(_, _, _)
parseItems(ts, pos, items) ==
    LET item == parseExpression(ts, pos, 0)
        read == Append(items, item.value.tree)
    IN  IF ~IsOk(item) THEN item
        ELSE IF peek(ts, item.value.pos).typ = "," THEN parseItems(ts, item.value.pos + 1, read)
        ELSE At(read, item.value.pos)

parseList(ts, pos, close) ==
    IF peek(ts, pos).typ = close THEN At(<<>>, pos) ELSE parseItems(ts, pos, <<>>)

(* Entries of a map literal, as a sequence of pairs.                       *)
RECURSIVE parseEntries(_, _, _)
parseEntries(ts, pos, entries) ==
    LET value == parseExpression(ts, pos + 2, 0)
        read  == Append(entries, <<peek(ts, pos).raw, value.value.tree>>)
    IN  IF peek(ts, pos).typ # "string" \/ peek(ts, pos + 1).typ # ":" THEN Invalid
        ELSE IF ~IsOk(value) THEN value
        ELSE IF peek(ts, value.value.pos).typ = "," THEN parseEntries(ts, value.value.pos + 1, read)
        ELSE At(read, value.value.pos)

parseMapLiteral(ts, pos) ==
    Closed(ts, IF peek(ts, pos).typ = "}" THEN At(<<>>, pos) ELSE parseEntries(ts, pos, <<>>), "}",
           LAMBDA es : MapExpr([i \in DOMAIN es |-> es[i][1]], [i \in DOMAIN es |-> es[i][2]]))

Leaf(r, pos) == IF IsOk(r) THEN At(r.value, pos) ELSE r

parsePrefix(ts, pos) ==
    LET tok     == peek(ts, pos)
        operand == parseExpression(ts, pos + 1, UnaryPrecedence)
    IN  CASE tok.typ = "identifier" /\ peek(ts, pos + 1).typ = "(" ->
               Closed(ts, parseList(ts, pos + 2, ")"), ")", LAMBDA args : FunctionCallExpr(tok.raw, args))
          [] tok.typ = "identifier" /\ peek(ts, pos + 1).typ # "(" ->
               Leaf(ParseFactorRef(tok.raw), pos + 1)
          [] tok.typ = "number" -> Leaf(numberLiteral(tok.raw), pos + 1)
          [] tok.typ = "string" -> At(LiteralExpr(Str(tok.raw)), pos + 1)
          [] tok.typ = "bool"   -> At(LiteralExpr(Bool(tok.raw = "true")), pos + 1)
          [] tok.typ = "null"   -> At(LiteralExpr(Null), pos + 1)
          [] tok.typ = "operator" /\ tok.raw \in {"!", "-"} ->
               IF IsOk(operand) THEN At(UnaryExpr(tok.raw, operand.value.tree), operand.value.pos)
               ELSE operand
          [] tok.typ = "(" -> Closed(ts, parseExpression(ts, pos + 1, 0), ")", LAMBDA e : e)
          [] tok.typ = "[" -> Closed(ts, parseList(ts, pos + 1, "]"), "]", ListExpr)
          [] tok.typ = "{" -> parseMapLiteral(ts, pos + 1)
          [] OTHER -> Invalid

(* The loop of parseExpression: what follows the tree on its left.         *)
RECURSIVE parseRest(_, _, _)

parseTernary(ts, left) ==
    LET then == Closed(ts, parseExpression(ts, left.pos + 1, 0), ":", LAMBDA e : e)
        else == parseExpression(ts, then.value.pos, 0)
    IN  IF ~IsOk(then) THEN then
        ELSE IF ~IsOk(else) THEN else
        ELSE parseRest(ts, [tree |-> ConditionalExpr(left.tree, then.value.tree, else.value.tree),
                            pos  |-> else.value.pos], 0)

(* Mutant: an operator leaves those of its own level to its right operand. *)
parseRightAssociative(ts, left) ==
    LET op    == peek(ts, left.pos).raw
        right == parseExpression(ts, left.pos + 1, operatorPrecedence(op))
    IN  IF ~IsOk(right) THEN right
        ELSE Ok([tree |-> BinaryExpr(op, left.tree, right.value.tree), pos |-> right.value.pos])

parseOperator(ts, left) ==
    LET op    == peek(ts, left.pos).raw
        right == parseExpression(ts, left.pos + 1, operatorPrecedence(op) + 1)
    IN  IF ~IsOk(right) THEN right
        ELSE Ok([tree |-> BinaryExpr(op, left.tree, right.value.tree), pos |-> right.value.pos])

parseRest(ts, left, minPrec) ==
    LET next  == peek(ts, left.pos)
        taken == parseOperator(ts, left)
    IN  IF next.typ = "?" /\ minPrec = 0 THEN parseTernary(ts, left)
        ELSE IF /\ next.typ = "operator"
                /\ next.raw \in BinaryOperators
                /\ operatorPrecedence(next.raw) >= minPrec
          THEN IF IsOk(taken) THEN parseRest(ts, taken.value, minPrec) ELSE taken
        ELSE Ok(left)

parseExpression(ts, pos, minPrec) ==
    LET left == parsePrefix(ts, pos)
    IN  IF IsOk(left) THEN parseRest(ts, left.value, minPrec) ELSE left

ParseExpression(raw) ==
    LET tokens == tokenizeExpression(raw)
        parsed == parseExpression(tokens.value, 1, 0)
    IN  IF ~IsOk(tokens) THEN tokens
        ELSE IF ~IsOk(parsed) THEN parsed
        ELSE IF peek(tokens.value, parsed.value.pos).typ # "EOF" THEN Invalid
        ELSE Ok(parsed.value.tree)

-----------------------------------------------------------------------------
(* Texts                                                                   *)

TextInit ==
    \/ text = "" /\ written = <<>> /\ alphabet \in Alphabets
    \/ \E w \in Writings : text = w[2] /\ written = <<w[1]>> /\ alphabet = {}

Type(c) ==
    /\ written = <<>>
    /\ Len(text) < MaxLength
    /\ text' = text \o c
    /\ UNCHANGED <<alphabet, written>>

TextNext == \E c \in alphabet : Type(c)

TextSpec == TextInit /\ [][TextNext]_textVars
=============================================================================
