------------------------------- MODULE Terms -------------------------------
(* The operators of expressions on terms (datalog/expressions.go): which      *)
(* types each accepts, what it yields, and what it adds to the symbol table.  *)
(* A term is a record with one field, named for its type: int, date, bool,    *)
(* str (an index in the symbol table), bytes, set or var.  A text is a        *)
(* sequence of letters, and the symbol table a sequence of texts.             *)
EXTENDS Integers, Sequences, SequencesExt

CONSTANTS
  Width,  \* the bits of an Integer (64 in the code)
  Regex   \* for each text that is a regular expression, the texts it matches

ASSUME WidthAssumption == Width \in Nat \ {0}

MinInt == -(2^(Width - 1))
MaxInt == 2^(Width - 1) - 1
Integer == MinInt..MaxInt

TypeOf(term) == CHOOSE type \in DOMAIN term : TRUE
Both(type, left, right) == TypeOf(left) = type /\ TypeOf(right) = type

(* An operator yields a term, or an error in place of one, and the table.     *)
Error(why) == [error |-> why]
IsError(term) == TypeOf(term) = "error"

(* Seeded fault: Insert does not look for the string first.                   *)
InsertAlways(symbols, text) == Append(symbols, text)

Insert(symbols, text) == IF text \in Range(symbols) THEN symbols ELSE Append(symbols, text)

Text(symbols, term) == symbols[term.str]
Index(symbols, text) == CHOOSE i \in DOMAIN symbols : symbols[i] = text

----------------------------------------------------------------------------
(* Arithmetic.                                                                *)

Wrapped(n) == ((n - MinInt) % 2^Width) + MinInt

(* Seeded fault: the result is not compared with the range.                   *)
Unchecked(n) == [int |-> Wrapped(n)]

(* Add, Sub and Mul go through big.Int.                                       *)
Checked(n) == IF n \in Integer THEN [int |-> n] ELSE Error("overflow")

Magnitude(n) == IF n < 0 THEN -n ELSE n

(* Seeded fault: the quotient is rounded down.                                *)
RoundedDown(m, n) == Wrapped(IF n < 0 THEN (-m) \div (-n) ELSE m \div n)

(* Go's division truncates, and wraps for the least integer divided by -1.    *)
Quotient(m, n) ==
  LET q == Magnitude(m) \div Magnitude(n)
  IN Wrapped(IF (m < 0) = (n < 0) THEN q ELSE -q)

Arithmetic(op, m, n) ==
  CASE op = "+" -> Checked(m + n)
    [] op = "-" -> Checked(m - n)
    [] op = "*" -> Checked(m * n)
    [] op = "/" -> IF n = 0 THEN Error("division by zero") ELSE [int |-> Quotient(m, n)]

----------------------------------------------------------------------------
(* Comparison, logic, sets and strings.                                       *)

Ordered(op, m, n) ==
  CASE op = "<"  -> m < n
    [] op = "<=" -> m <= n
    [] op = ">"  -> m > n
    [] op = ">=" -> m >= n

Infix(text, part) == \E i \in 0..(Len(text) - Len(part)) : SubSeq(text, i + 1, i + Len(part)) = part

(* A set contains another when it includes it, and a term when it has it as   *)
(* an element.                                                                *)
SetContains(set, right) ==
  IF TypeOf(right) = "set" THEN right.set \subseteq set ELSE right \in set

StringTest(op, text, part) ==
  CASE op = "contains"    -> Infix(text, part)
    [] op = "starts_with" -> IsPrefix(part, text)
    [] op = "ends_with"   -> IsSuffix(part, text)

SetOperation(op, left, right) ==
  IF op = "union" THEN left \cup right ELSE left \cap right

Comparisons == {"<", "<=", ">", ">="}
StringTests == {"contains", "starts_with", "ends_with"}
BinaryOps == Comparisons \cup StringTests \cup
  {"===", "matches", "+", "-", "*", "/", "&&", "||", "intersection", "union"}
UnaryOps == {"!", "()", "length"}

(* What Eval returns: every case a pair of types an operator accepts.  Both   *)
(* operands of && and || have been evaluated already.                         *)
Binary(op, left, right, symbols) ==
  CASE op \in Comparisons /\ (Both("int", left, right) \/ Both("date", left, right)) ->
         [bool |-> Ordered(op, left[TypeOf(left)], right[TypeOf(left)])]
    [] op = "===" /\ TypeOf(left) = TypeOf(right) -> [bool |-> left = right]
    [] op \in StringTests /\ Both("str", left, right) ->
         [bool |-> StringTest(op, Text(symbols, left), Text(symbols, right))]
    [] op = "contains" /\ TypeOf(left) = "set" -> [bool |-> SetContains(left.set, right)]
    [] op = "matches" /\ Both("str", left, right) ->
         LET pattern == Text(symbols, right)
         IN IF pattern \in DOMAIN Regex THEN [bool |-> Text(symbols, left) \in Regex[pattern]]
                                        ELSE Error("invalid regex")
    [] op \in {"intersection", "union"} /\ Both("set", left, right) ->
         [set |-> SetOperation(op, left.set, right.set)]
    [] op = "+" /\ Both("str", left, right) ->
         LET text == Text(symbols, left) \o Text(symbols, right)
         IN [str |-> Index(Insert(symbols, text), text)]
    [] op \in {"+", "-", "*", "/"} /\ Both("int", left, right) ->
         Arithmetic(op, left.int, right.int)
    [] op = "&&" /\ Both("bool", left, right) -> [bool |-> left.bool /\ right.bool]
    [] op = "||" /\ Both("bool", left, right) -> [bool |-> left.bool \/ right.bool]
    [] OTHER -> Error("type")

(* Only the concatenation of strings inserts a symbol.                        *)
SymbolsAfter(op, left, right, symbols) ==
  IF op = "+" /\ Both("str", left, right)
  THEN Insert(symbols, Text(symbols, left) \o Text(symbols, right)) ELSE symbols

Unary(op, value, symbols) ==
  CASE op = "!" /\ TypeOf(value) = "bool" -> [bool |-> ~value.bool]
    [] op = "()" -> value
    [] op = "length" /\ TypeOf(value) = "str" -> [int |-> Len(Text(symbols, value))]
    [] op = "length" /\ TypeOf(value) = "bytes" -> [int |-> Len(value.bytes)]
    [] op = "length" /\ TypeOf(value) = "set" -> [int |-> Cardinality(value.set)]
    [] OTHER -> Error("type")
=============================================================================
