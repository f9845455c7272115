--------------------------- MODULE MCExpressions ---------------------------
(* Model values for Expressions: integers of three bits, a few letters, trees *)
(* of two operators, and every program of up to four of a few operations.     *)
EXTENDS Expressions

I(n) == [int |-> n]
B(b) == [bool |-> b]
S(i) == [str |-> i]
V(x) == [var |-> x]
MCKnown == <<<<"a">>, <<"a", "b">>, <<"b">>, <<"\\", "b">>, <<"\\", "d">>, <<"\\", "\\">>,
             <<"a", "\"">>, <<"\"", "b">>, <<"!">>, <<"hex:", "c">>, <<>>>>
MCRegex == [t \in {<<"a">>, <<"b">>} |-> {<<"a">>, <<"a", "b">>, t}]
MCBindings == [x |-> I(2), y |-> S(1)]

Leaf(term) == [op |-> "value", term |-> term]
U(op, arg) == [op |-> op, arg |-> arg]
Bin(op, left, right) == [op |-> op, left |-> left, right |-> right]

Leaves == {Leaf(t) : t \in
  {I(-4), I(-1), I(0), I(3), B(TRUE), B(FALSE), S(1), S(2), S(3), V("x"), V("z"),
   [date |-> 1], [date |-> 2], [bytes |-> <<"c">>], [set |-> {S(1), S(2)}], [set |-> {S(2)}],
   [set |-> {I(0), I(3)}]}}

(* Literals that are hard to read: strings with escapes and quotes, a late    *)
(* date, and sets.                                                            *)
Unusual == {Leaf(t) : t \in
  {S(i) : i \in 4..11} \cup {[date |-> 3], [set |-> {}], [set |-> {I(-1), I(0)}]}
    \cup {[set |-> {S(i), S(1)}] : i \in 4..11} \cup {[set |-> {[date |-> d]}] : d \in 2..3}}

(* One operator over every pair of leaves.                                    *)
Flat == {Bin(op, l, r) : op \in BinaryOps, l \in Leaves, r \in Leaves}
          \cup {U(op, l) : op \in UnaryOps, l \in Leaves}

(* Two and three operators over integers, over strings, and over Booleans.    *)
Nested(ops, joins, terms) ==
  LET leaves == {Leaf(t) : t \in terms}
      inner  == {Bin(op, l, r) : op \in ops, l \in leaves, r \in leaves}
  IN {Bin(op, i, l) : op \in joins, i \in inner, l \in leaves}
       \cup {Bin(op, l, i) : op \in joins, i \in inner, l \in leaves}

(* Every operator over every other, with and without parentheses.             *)
Pairs ==
  LET x == Leaf(V("x"))
      inner == {Bin(op, x, x) : op \in BinaryOps} \cup {U(op, x) : op \in UnaryOps}
      either == inner \cup {U("()", i) : i \in inner}
  IN {Bin(op, i, x) : op \in BinaryOps, i \in either}
       \cup {Bin(op, x, i) : op \in BinaryOps, i \in either}
       \cup {U(op, i) : op \in UnaryOps, i \in either}

MCTrees ==
  Leaves \cup Flat \cup Pairs
    \cup Unusual \cup {Bin(op, l, r) : op \in {"+", "===", "contains"}, l \in Unusual, r \in Unusual}
    \cup {U(op, l) : op \in UnaryOps, l \in Unusual}
    \cup {U("!", Bin(op, Leaf(S(9)), U("length", Leaf(S(9))))) : op \in {"contains", "==="}}
    \cup {U("!", Bin("contains", Leaf(S(9)), Leaf(S(i)))) : i \in {1, 9}}
    \cup Nested({"+", "-", "*", "/"}, {"+", "-", "*", "/", "<", "==="}, {I(-4), I(-1), I(2), V("x")})
    \cup Nested({"+"}, {"+", "===", "contains", "ends_with", "<"}, {S(1), S(2), S(3), V("y"), I(3)})
    \cup Nested({"<", "==="}, {"&&", "||", "==="}, {I(-1), I(2), B(TRUE), V("z")})
    \cup {Bin("===", Bin("+", Leaf(S(a)), Leaf(S(b))), U("()", Bin("+", Leaf(S(c)), Leaf(S(d))))) :
            a \in 1..3, b \in 1..3, c \in 1..3, d \in 1..3}
    \cup {U("!", U("()", Bin("<", Bin("+", Leaf(I(m)), Leaf(I(n))), U("length", Leaf(S(2)))))) :
            m \in -1..3, n \in -1..3}
    \cup {Bin("-", Leaf(I(3)), Bin("-", Leaf(I(2)), Bin(op, Leaf(I(1)), Leaf(I(n))))) :
            op \in {"+", "<", "/"}, n \in -1..1}

Operations == {[op |-> "value", term |-> I(2)], [op |-> "value", term |-> B(TRUE)],
               [op |-> "!"], [op |-> "+"], [op |-> "<"]}
MCPrograms == UNION {[1..n -> Operations] : n \in 0..4}
=============================================================================
