---------------------------- MODULE Expressions ----------------------------
(* The evaluation of an expression: the parser writes a tree as a program in  *)
(* postfix order (parser/grammar.go, the ToExpr methods), and Evaluate runs   *)
(* the program on a stack of terms (datalog/expressions.go).  A program may   *)
(* also come from a token, in any order of operations.                        *)
EXTENDS Grammar

CONSTANTS
  Trees,     \* parsed expressions
  Programs,  \* programs read from tokens
  Bindings,  \* the variables a match bound, and their terms
  Known      \* the symbol table when an evaluation begins

VARIABLES
  tree,     \* the expression, or NoTree for a program read from a token
  program,  \* its operations
  pc,       \* the operation to run next
  stack,    \* the stack, its top last
  symbols,  \* the symbol table
  result    \* Pending, or what Evaluate returned

vars == <<tree, program, pc, stack, symbols, result>>

Pending == [pending |-> TRUE]
NoTree == [op |-> "none"]

(* Seeded fault: the right operand comes first.                               *)
RECURSIVE RightFirst(_)
RightFirst(t) ==
  CASE t.op = "value"      -> <<[op |-> "value", term |-> t.term]>>
    [] t.op \in UnaryOps   -> Append(RightFirst(t.arg), [op |-> t.op])
    [] t.op \in BinaryOps  -> RightFirst(t.right) \o RightFirst(t.left) \o <<[op |-> t.op]>>

RECURSIVE ToExpr(_)
ToExpr(t) ==
  CASE t.op = "value"      -> <<[op |-> "value", term |-> t.term]>>
    [] t.op \in UnaryOps   -> Append(ToExpr(t.arg), [op |-> t.op])
    [] t.op \in BinaryOps  -> ToExpr(t.left) \o ToExpr(t.right) \o <<[op |-> t.op]>>

----------------------------------------------------------------------------
Init ==
  /\ \/ tree \in Trees /\ program = ToExpr(tree)
     \/ tree = NoTree /\ program \in Programs
  /\ pc = 1
  /\ stack = <<>>
  /\ symbols = Known
  /\ result = Pending

Running == result = Pending /\ pc <= Len(program)
Operation == program[pc]

Pop(s, n) == SubSeq(s, 1, Len(s) - n)

(* Push a term that was computed, or return the error there is instead.       *)
Continue(rest, term) ==
  IF IsError(term)
  THEN result' = term /\ UNCHANGED <<pc, stack>>
  ELSE stack' = Append(rest, term) /\ pc' = pc + 1 /\ UNCHANGED result

StackFull == Len(stack) >= MaxStack

Fail(why) == result' = Error(why) /\ UNCHANGED <<pc, stack, symbols>>

(* A value, or a variable's value; a push beyond maxStackSize fails.          *)
PushValue ==
  /\ Running
  /\ Operation.op = "value"
  /\ LET term == Operation.term
         bound == TypeOf(term) = "var" => term.var \in DOMAIN Bindings
         value == IF TypeOf(term) = "var" THEN Bindings[term.var] ELSE term
     IN \/ ~bound /\ Fail("unknown variable")
        \/ bound /\ StackFull /\ Fail("stack overflow")
        \/ bound /\ ~StackFull /\ Continue(stack, value) /\ UNCHANGED symbols
  /\ UNCHANGED <<tree, program>>

ApplyUnary ==
  /\ Running
  /\ Operation.op \in UnaryOps
  /\ IF stack = <<>> THEN Fail("empty stack")
     ELSE /\ Continue(Pop(stack, 1), Unary(Operation.op, Last(stack), symbols))
          /\ UNCHANGED symbols
  /\ UNCHANGED <<tree, program>>

ApplyBinary ==
  /\ Running
  /\ Operation.op \in BinaryOps
  /\ IF Len(stack) < 2 THEN Fail("empty stack")
     ELSE LET right == Last(stack)
              left  == Last(Pop(stack, 1))
          IN /\ Continue(Pop(stack, 2), Binary(Operation.op, left, right, symbols))
             /\ symbols' = SymbolsAfter(Operation.op, left, right, symbols)
  /\ UNCHANGED <<tree, program>>

(* Seeded fault: what lies below the top of the stack is ignored.             *)
FinishWithTop ==
  /\ result = Pending
  /\ pc > Len(program)
  /\ result' = IF stack # <<>> THEN Last(stack) ELSE Error("invalid stack")
  /\ UNCHANGED <<tree, program, pc, stack, symbols>>

Finish ==
  /\ result = Pending
  /\ pc > Len(program)
  /\ result' = IF Len(stack) = 1 THEN Last(stack) ELSE Error("invalid stack")
  /\ UNCHANGED <<tree, program, pc, stack, symbols>>

Next == PushValue \/ ApplyUnary \/ ApplyBinary \/ Finish

Spec == Init /\ [][Next]_vars

----------------------------------------------------------------------------
(* The values the variables range over.                                       *)
TypeOK ==
  /\ pc \in 1..(Len(program) + 1)
  /\ Len(stack) <= MaxStack
  /\ \A i \in DOMAIN stack : TypeOf(stack[i]) \in {"int", "date", "bool", "str", "bytes", "set"}
  /\ \A i \in DOMAIN stack : TypeOf(stack[i]) = "int" => stack[i].int \in Integer
  /\ \A i \in DOMAIN stack : TypeOf(stack[i]) = "str" => stack[i].str \in DOMAIN symbols
  /\ TypeOf(result) \in {"pending", "error", "int", "date", "bool", "str", "bytes", "set"}

(* Reference: a tree means what its subtrees mean, joined by its operator on  *)
(* a symbol table made for these operands alone; an error anywhere, left      *)
(* before right, is the meaning of the whole.  In a meaning strings are texts.*)
Denoted(term, table) ==
  CASE TypeOf(term) = "str" -> [text |-> Text(table, term)]
    [] TypeOf(term) = "set" ->
         [set |-> {IF TypeOf(t) = "str" THEN [text |-> Text(table, t)] ELSE t : t \in term.set}]
    [] OTHER -> term

TextsOf(m) ==
  CASE TypeOf(m) = "text" -> <<m.text>>
    [] TypeOf(m) = "set"  -> SetToSeq({t.text : t \in {t \in m.set : TypeOf(t) = "text"}})
    [] OTHER -> <<>>

Interned(m, table) ==
  CASE TypeOf(m) = "text" -> [str |-> Index(table, m.text)]
    [] TypeOf(m) = "set"  ->
         [set |-> {IF TypeOf(t) = "text" THEN [str |-> Index(table, t.text)] ELSE t : t \in m.set}]
    [] OTHER -> m

TableFor(texts) == SetToSeq(Range(texts))

Joined(op, l, r) ==
  LET table == TableFor(TextsOf(l) \o TextsOf(r))
      left  == Interned(l, table)
      right == Interned(r, table)
  IN Denoted(Binary(op, left, right, table), SymbolsAfter(op, left, right, table))

RECURSIVE Meaning(_)
Meaning(t) ==
  CASE t.op = "value" ->
         IF TypeOf(t.term) # "var" THEN Denoted(t.term, Known)
         ELSE IF t.term.var \in DOMAIN Bindings THEN Denoted(Bindings[t.term.var], Known)
         ELSE Error("unknown variable")
    [] t.op \in UnaryOps ->
         LET m == Meaning(t.arg) table == TableFor(TextsOf(m))
         IN IF IsError(m) THEN m ELSE Denoted(Unary(t.op, Interned(m, table), table), table)
    [] t.op \in BinaryOps ->
         LET l == Meaning(t.left) r == Meaning(t.right)
         IN IF IsError(l) THEN l ELSE IF IsError(r) THEN r ELSE Joined(t.op, l, r)

(* The cells a tree needs.                                                    *)
RECURSIVE Depth(_)
Depth(t) ==
  CASE t.op = "value"     -> 1
    [] t.op \in UnaryOps  -> Depth(t.arg)
    [] t.op \in BinaryOps -> IF Depth(t.left) > Depth(t.right) THEN Depth(t.left)
                             ELSE Depth(t.right) + 1

(* Evaluating the program of a parsed expression yields the expression's      *)
(* meaning, and a stack overflow only where the expression needs more cells   *)
(* than the stack has.                                                        *)
EvaluatesTree ==
  tree # NoTree /\ result # Pending =>
    LET answer == Denoted(result, symbols)
    IN IF Depth(tree) <= MaxStack THEN answer = Meaning(tree)
       ELSE IsError(result) /\ (answer = Meaning(tree) \/ result = Error("stack overflow"))

(* What a tree of integers without a division comes to over all integers.     *)
RECURSIVE Sums(_)
Sums(t) ==
  \/ t.op = "value" /\ TypeOf(t.term) = "int"
  \/ t.op = "()" /\ Sums(t.arg)
  \/ t.op \in {"+", "-", "*"} /\ Sums(t.left) /\ Sums(t.right)

RECURSIVE Exact(_)
Exact(t) ==
  CASE t.op = "value" -> t.term.int
    [] t.op = "()" -> Exact(t.arg)
    [] t.op = "+"  -> Exact(t.left) + Exact(t.right)
    [] t.op = "-"  -> Exact(t.left) - Exact(t.right)
    [] t.op = "*"  -> Exact(t.left) * Exact(t.right)

(* Sums and products of integers are exact or an overflow is reported: what   *)
(* left the range on the way never comes back into it.                        *)
SumsExact ==
  tree # NoTree /\ result # Pending /\ ~IsError(result) =>
    (Sums(tree) => result = [int |-> Exact(tree)])

(* Quotients of sums and products are exact too, rounded towards zero, with   *)
(* one exception: the least integer divided by -1 wraps, where the other      *)
(* operators report an overflow.                                              *)
Truncated(m, n) ==
  CHOOSE q \in -Magnitude(m)..Magnitude(m) :
    /\ Magnitude(m) - Magnitude(q * n) \in 0..(Magnitude(n) - 1)
    /\ m * n * q >= 0

QuotientsExact ==
  tree # NoTree /\ result # Pending /\ ~IsError(result) /\ tree.op = "/" =>
    (Sums(tree.left) /\ Sums(tree.right) =>
       LET m == Exact(tree.left) n == Exact(tree.right)
       IN /\ n # 0
          /\ result = [int |-> IF m = MinInt /\ n = -1 THEN MinInt ELSE Truncated(m, n)])

(* A program that is no expression in postfix form yields an error: each of   *)
(* its operations must find its operands, and one term be left.               *)
Height(p, n) == FoldLeft(LAMBDA h, operation : h + 1 - Arity(operation), 0, SubSeq(p, 1, n))

Postfix(p) ==
  /\ Height(p, Len(p)) = 1
  /\ \A n \in DOMAIN p : Arity(p[n]) <= Height(p, n - 1)

OnlyPostfixEvaluates ==
  result # Pending /\ ~IsError(result) => Postfix(program)

(* Reference: how tightly an operator binds, and the trees whose operands     *)
(* bind at least as tightly as their operator asks.                           *)
Binding(op) ==
  CASE op = "||" -> 1
    [] op = "&&" -> 2
    [] op \in {"<", "<=", ">", ">=", "==="} -> 3
    [] op \in {"+", "-"} -> 4
    [] op \in {"*", "/"} -> 5
    [] op = "!" -> 6
    [] OTHER -> 7

(* Reference: the literals that are read as the term they were written for.   *)
(* No literal has a sign or a year of five digits; in a string, a             *)
(* quote ends a string, a backslash begins an escape, and "hex:" bytes.       *)
Readable(text) ==
  {"\"", "\\"} \cap Range(text) = {} /\ (text # <<>> => Head(text) # "hex:")

WritableScalar(term) ==
  CASE TypeOf(term) = "int"  -> term.int >= 0
    [] TypeOf(term) = "date" -> term.date <= LastDate
    [] TypeOf(term) = "str"  -> Readable(Text(Known, term))
    [] OTHER -> TRUE

Writable(term) ==
  IF TypeOf(term) = "set" THEN \A t \in term.set : WritableScalar(t)
  ELSE WritableScalar(term)

(* A string that is "!" is taken for the operator where one may stand, which  *)
(* is not in a set, and not after an operator "!".                            *)
RECURSIVE Mistaken(_, _)
Mistaken(t, negated) ==
  CASE t.op = "value"         -> ~negated /\ Denoted(t.term, Known) = [text |-> <<"!">>]
    [] t.op \in {"!", "()"}   -> Mistaken(t.arg, t.op = "!")
    [] t.op = "length"        -> Mistaken(t.arg, negated)
    [] t.op \in BinaryOps     -> Mistaken(t.left, negated) \/ Mistaken(t.right, FALSE)

RECURSIVE Grammatical(_)
Grammatical(t) ==
  CASE t.op = "value" -> Writable(t.term)
    [] t.op = "()" -> Grammatical(t.arg)
    [] t.op \in {"!", "length"} -> Grammatical(t.arg) /\ Binding(t.arg.op) = 7
    [] t.op \in BinaryOps ->
         /\ Grammatical(t.left) /\ Grammatical(t.right)
         /\ Binding(t.left.op) >= Binding(t.op)
         /\ Binding(t.op) = 3 => Binding(t.left.op) > 3
         /\ Binding(t.op) = 7 \/ Binding(t.right.op) > Binding(t.op)

(* A program with its strings spelled, as the parser returns them.            *)
SpelledTerm(term) ==
  LET spell(t) == IF TypeOf(t) = "str" THEN [text |-> Spelled(Text(Known, t))] ELSE t
  IN IF TypeOf(term) = "set" THEN [set |-> {spell(t) : t \in term.set}] ELSE spell(term)

SpelledProgram ==
  [n \in DOMAIN program |->
     IF program[n].op = "value" THEN [program[n] EXCEPT !.term = SpelledTerm(@)] ELSE program[n]]

(* The text an expression is shown as: it is there for exactly the programs   *)
(* that are expressions and fit the stack, and the parser reads it as the     *)
(* same program for exactly the expressions that lack no parentheses their    *)
(* operators need and whose literals can be read; the others, which a parsed  *)
(* source (with escapes, or with a term for a parameter) or another issuer    *)
(* leads to, are shown as the text of no expression or of another one.        *)
PrintsBack ==
  pc = 1 =>
    LET printed == Printed(program, Known)
    IN /\ printed.valid <=>
            Postfix(program) /\ \A n \in DOMAIN program : Height(program, n) <= MaxStack
       /\ tree # NoTree /\ printed.valid =>
            (Grammatical(tree) /\ ~Mistaken(tree, FALSE) <=>
               ReadText(printed.texts[1]) = Got(SpelledProgram, <<>>))
=============================================================================
