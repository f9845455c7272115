------------------------------ MODULE Grammar ------------------------------
(* Expressions as text: Expression.Print (datalog/expressions.go) writes a    *)
(* program as text, and the grammar of the parser (parser/grammar.go) reads   *)
(* text as a program.  A written text is a sequence of words (operators and   *)
(* punctuation, where the name of a method stands for itself and the dot      *)
(* before it), of literals (integers, variables, Booleans, dates, bytes) and  *)
(* of the letters of strings and their quotes, as Print leaves them.          *)
EXTENDS Terms

CONSTANTS
  MaxStack,  \* maxStackSize
  LastDate   \* the last second of the year 9999

ASSUME StackAssumption == MaxStack \in Nat \ {0}

Methods == {"length", "contains", "starts_with", "ends_with", "matches", "intersection", "union"}
Infixes == BinaryOps \ Methods

Arity(operation) ==
  CASE operation.op = "value"     -> 0
    [] operation.op \in UnaryOps  -> 1
    [] operation.op \in BinaryOps -> 2

----------------------------------------------------------------------------
(* Writing.                                                                   *)

Word(w) == [word |-> w]
Letter(c) == [letter |-> c]
Quote == Letter("\"")

Spelled(text) == [i \in DOMAIN text |-> Letter(text[i])]

InParens(text) == <<Word("(")>> \o text \o <<Word(")")>>

(* Strings are written as they are, between quotes; a sign is a word of its   *)
(* own; a year of five digits begins no literal, and the letter after it no   *)
(* word.                                                                      *)
RECURSIVE TermText(_, _)
TermText(symbols, term) ==
  CASE TypeOf(term) = "str" -> <<Quote>> \o Spelled(Text(symbols, term)) \o <<Quote>>
    [] TypeOf(term) = "int" /\ term.int < 0 -> <<Word("-"), [literal |-> [int |-> -term.int]]>>
    [] TypeOf(term) = "date" /\ term.date > LastDate -> <<Word("T")>>
    [] TypeOf(term) = "set" ->
         LET elements == SetToSeq({TermText(symbols, t) : t \in term.set})
         IN <<Word("{")>>
            \o (IF elements = <<>> THEN <<Word(",")>>
                ELSE FoldLeft(LAMBDA l, r : l \o <<Word(",")>> \o r, Head(elements), Tail(elements)))
            \o <<Word("}")>>
    [] OTHER -> <<[literal |-> term]>>

(* Seeded fault: the parentheses are not written.                             *)
UnaryTextBare(op, value) ==
  CASE op = "!"      -> <<Word("!")>> \o value
    [] op = "()"     -> value
    [] op = "length" -> value \o <<Word("length")>> \o InParens(<<>>)

UnaryText(op, value) ==
  CASE op = "!"      -> <<Word("!")>> \o value
    [] op = "()"     -> InParens(value)
    [] op = "length" -> value \o <<Word("length")>> \o InParens(<<>>)

BinaryText(op, left, right) ==
  IF op \in Methods THEN left \o <<Word(op)>> \o InParens(right)
  ELSE left \o <<Word(op)>> \o right

(* Print runs the program on a stack of texts with the limit of the stack of  *)
(* terms; anything out of order makes the whole text "<invalid expression>".  *)
Invalid == [valid |-> FALSE, texts |-> <<>>]

WriteOperation(symbols, state, operation) ==
  LET n     == Arity(operation)
      texts == state.texts
      rest  == SubSeq(texts, 1, Len(texts) - n)
      text  == CASE n = 0 -> TermText(symbols, operation.term)
                 [] n = 1 -> UnaryText(operation.op, Last(texts))
                 [] n = 2 -> BinaryText(operation.op, texts[Len(texts) - 1], Last(texts))
  IN IF ~state.valid \/ Len(texts) < n \/ Len(rest) >= MaxStack THEN Invalid
     ELSE [valid |-> TRUE, texts |-> Append(rest, text)]

Printed(program, symbols) ==
  LET write(state, operation) == WriteOperation(symbols, state, operation)
      end == FoldLeft(write, [valid |-> TRUE, texts |-> <<>>], program)
  IN IF Len(end.texts) = 1 THEN end ELSE Invalid

----------------------------------------------------------------------------
(* Lexing.  A string reaches from a quote to the next one, whatever is in     *)
(* between; a last quote without another stands for itself.                   *)
LexNext(state, item) ==
  CASE item = Quote /\ ~state.inside -> [state EXCEPT !.inside = TRUE]
    [] item = Quote /\ state.inside ->
         [tokens |-> Append(state.tokens, [string |-> state.content]), inside |-> FALSE,
          content |-> <<>>]
    [] item # Quote /\ state.inside -> [state EXCEPT !.content = Append(@, item)]
    [] item # Quote /\ ~state.inside -> [state EXCEPT !.tokens = Append(@, item)]

Lexed(text) ==
  LET end == FoldLeft(LexNext, [tokens |-> <<>>, inside |-> FALSE, content |-> <<>>], text)
  IN IF end.inside THEN end.tokens \o <<Quote>> \o end.content ELSE end.tokens

(* participle.Unquote: a backslash and a letter are a control character, if   *)
(* there is one of that name, two are one, and anything else is an error      *)
(* (escapes of more than one letter are left out).                            *)
Backslash == Letter("\\")
Escapes == {Letter("a"), Letter("b")}
Bad == [bad |-> TRUE]

UnquoteNext(state, item) ==
  CASE ~state.escape /\ item = Backslash -> [state EXCEPT !.escape = TRUE]
    [] ~state.escape /\ item # Backslash -> [state EXCEPT !.content = Append(@, item)]
    [] state.escape ->
         [escape |-> FALSE,
          content |-> Append(state.content,
                             CASE item = Backslash     -> item
                               [] item \in Escapes     -> [control |-> item.letter]
                               [] item \notin Escapes \cup {Backslash} -> Bad)]

Unquoted(token) ==
  IF "string" \notin DOMAIN token THEN token
  ELSE LET end == FoldLeft(UnquoteNext, [escape |-> FALSE, content |-> <<>>], token.string)
       IN IF end.escape \/ Bad \in Range(end.content) THEN Bad ELSE [string |-> end.content]

----------------------------------------------------------------------------
(* Parsing.  What was read so far is a program in postfix order, as the       *)
(* ToExpr methods write it, and the tokens that are left.  In it, a string is *)
(* [text |-> its letters].                                                    *)
Got(program, rest) == [ok |-> TRUE, program |-> program, rest |-> rest]
Nothing == [ok |-> FALSE, program |-> <<>>, rest |-> <<>>]

(* participle compares a word of the grammar with a token's value, be the     *)
(* token a string.                                                            *)
StartsWith(text, words) ==
  text # <<>> /\ \E w \in words : Head(text) \in {Word(w), [string |-> <<Letter(w)>>]}

FirstWord(text, words) == CHOOSE w \in words : StartsWith(text, {w})

(* The operators of Expression and Expr1 to Expr4, loosest first.             *)
Joining == <<{"||"}, {"&&"}, {"<=", ">=", "<", ">", "==="}, {"+", "-"}, {"*", "/"}>>
Comparing == 3

(* Term: a literal, a string or a set.  HexString.Parse looks at a token's    *)
(* first letters only, also at those of a string.                             *)
Value(term, rest) == [ok |-> TRUE, term |-> term, rest |-> rest]
NoValue == [ok |-> FALSE]

RECURSIVE ReadValue(_), ReadElements(_, _)
ReadValue(text) ==
  IF text = <<>> THEN NoValue
  ELSE LET token == Head(text) rest == Tail(text)
       IN CASE "literal" \in DOMAIN token -> Value(token.literal, rest)
            [] "string" \in DOMAIN token ->
                 Value(IF token.string # <<>> /\ Head(token.string) = Letter("hex:")
                       THEN [hex |-> Tail(token.string)] ELSE [text |-> token.string], rest)
            [] token = Word("{") ->
                 IF StartsWith(rest, {","}) /\ StartsWith(Tail(rest), {"}"})
                 THEN Value([set |-> {}], Tail(Tail(rest)))
                 ELSE ReadElements({}, rest)
            [] OTHER -> NoValue

(* The elements up to the brace, with or without a comma before it.           *)
ReadElements(before, text) ==
  LET element == ReadValue(text)
      set == before \cup {element.term}
      after == IF StartsWith(element.rest, {","}) THEN Tail(element.rest) ELSE element.rest
  IN IF ~element.ok THEN NoValue
     ELSE IF StartsWith(after, {"}"}) THEN Value([set |-> set], Tail(after))
     ELSE IF after = element.rest THEN NoValue ELSE ReadElements(set, after)

RECURSIVE ReadFrom(_, _), ReadChain(_, _), ReadMethods(_)

(* "(" @@? ")": an argument list or a parenthesis may be empty.               *)
ReadParens(text) ==
  LET inner == ReadFrom(1, Tail(text))
      after == IF inner.ok THEN inner.rest ELSE Tail(text)
  IN IF StartsWith(after, {")"}) THEN Got(inner.program, Tail(after)) ELSE Nothing

(* ExprTerm: an empty parenthesis leaves no operation.                        *)
ReadTerm(text) ==
  LET value == ReadValue(text)
      inner == ReadParens(text)
  IN IF value.ok THEN Got(<<[op |-> "value", term |-> value.term]>>, value.rest)
     ELSE IF ~StartsWith(text, {"("}) THEN Nothing
     ELSE IF ~inner.ok \/ inner.program = <<>> THEN inner
     ELSE Got(Append(inner.program, [op |-> "()"]), inner.rest)

(* Expr6: a term and its method calls, the argument before the operation.     *)
ReadMethods(sofar) ==
  IF sofar.ok /\ StartsWith(sofar.rest, Methods) THEN
    LET call     == Tail(sofar.rest)
        argument == IF StartsWith(call, {"("}) THEN ReadParens(call) ELSE Nothing
        name     == FirstWord(sofar.rest, Methods)
    IN IF ~argument.ok THEN Nothing
       ELSE ReadMethods(Got(sofar.program \o argument.program \o <<[op |-> name]>>, argument.rest))
  ELSE sofar

(* An operator and its right operand, after the left one: again and again,    *)
(* but a comparison only once.                                                *)
ReadChain(level, sofar) ==
  IF sofar.ok /\ StartsWith(sofar.rest, Joining[level]) THEN
    LET right == ReadFrom(level + 1, Tail(sofar.rest))
        name  == FirstWord(sofar.rest, Joining[level])
        both  == Got(sofar.program \o right.program \o <<[op |-> name]>>, right.rest)
    IN CASE ~right.ok -> Nothing
         [] right.ok /\ level = Comparing -> both
         [] right.ok /\ level # Comparing -> ReadChain(level, both)
  ELSE sofar

(* Expr5 takes one "!" at most, and applies it to the method calls.           *)
ReadFrom(level, text) ==
  CASE level <= Len(Joining) -> ReadChain(level, ReadFrom(level + 1, text))
    [] level = 6 ->
         IF StartsWith(text, {"!"})
         THEN LET operand == ReadFrom(7, Tail(text))
              IN IF operand.ok THEN Got(Append(operand.program, [op |-> "!"]), operand.rest)
                 ELSE Nothing
         ELSE ReadFrom(7, text)
    [] level = 7 -> ReadMethods(ReadTerm(text))

(* A text is read when no token is left.                                      *)
ReadText(text) ==
  LET tokens == Lexed(text)
      all    == ReadFrom(1, [i \in DOMAIN tokens |-> Unquoted(tokens[i])])
  IN IF all.ok /\ all.rest = <<>> THEN all ELSE Nothing
=============================================================================
