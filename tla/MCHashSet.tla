----------------------------- MODULE MCHashSet -----------------------------
(* Model values for HashSet: four rules in a block, which the module Ordering *)
(* compares and hashes.  Two differ by a Boolean and share a hash by chance,  *)
(* one holds a set of two integers, one has no scopes.                        *)
EXTENDS HashSet, TLC

O == INSTANCE Ordering

Previous == [type |-> 1, key |-> 0]
Var(n) == [var |-> n]
Num(n) == [int |-> n]
RuleOf(term, scopes) ==
  [block |-> 1,
   rule  |-> [head |-> [name |-> 7, terms |-> <<term>>],
              body |-> <<[name |-> 8, terms |-> <<Var(9)>>]>>,
              exprs |-> <<<<[value |-> Var(9)], [value |-> Num(1)], [binary |-> 0]>>>>,
              scopes |-> scopes]]

Rules ==
  <<RuleOf(Num(1), <<>>),
    RuleOf([bool |-> FALSE], <<Previous>>),
    RuleOf([bool |-> TRUE], <<Previous>>),
    RuleOf([set |-> {Num(1), Num(2)}], <<Previous>>)>>

(* An element stands for its rule, and a hash for the streams that collide on *)
(* it.                                                                        *)
MCElement == 1..4
MCHashes == <<{1}, {2}, {2}, {3, 4}>>
MCHash == 1..4
MCCompare ==
  [p \in MCElement \X MCElement |->
     IF p = <<1, 1>> THEN 1 ELSE IF p[1] = p[2] THEN 0 ELSE IF p[1] < p[2] THEN -1 ELSE 1]

SetsAlike == Permutations(SetName)

(* These tables are what Ordering computes of the rules.                      *)
ASSUME TablesAgree ==
  /\ \A x \in MCElement : Cardinality(O!RuleInBlockStreams(Rules[x])) = Cardinality(MCHashes[x])
  /\ \A x, y \in MCElement : MCCompare[x, y] = O!CompareRuleInBlock(Rules[x], Rules[y])

(* Compare orders terms of every type, sets included, and terms that are not  *)
(* sets hash alike exactly when they are equal.                               *)
Scalars ==
  {Var(1), Var(2), Num(-1), Num(0), [str |-> 0], [str |-> 1], [date |-> 0], [date |-> 1],
   [bytes |-> <<>>], [bytes |-> <<1>>], [bytes |-> <<1, 0>>], [bytes |-> <<2>>],
   [bool |-> FALSE], [bool |-> TRUE]}
Samples == Scalars \cup {[set |-> {}], [set |-> {Num(0)}], [set |-> {Num(-1), Num(0)}],
                        [set |-> {Num(-1), [str |-> 1]}], [set |-> {[bytes |-> <<2>>]}]}
ASSUME TermsOrdered ==
  /\ \A a, b \in Samples : /\ O!CompareTerm(a, b) = -O!CompareTerm(b, a)
                          /\ (O!CompareTerm(a, b) = O!Same) = (a = b)
  /\ \A a, b, c \in Samples :
       O!CompareTerm(a, b) = O!Less /\ O!CompareTerm(b, c) = O!Less => O!CompareTerm(a, c) = O!Less
  /\ \A a, b \in Scalars : (O!TermStreams(a) = O!TermStreams(b)) = (a = b)

(* Origins are ordered, and filed under different strings.                    *)
Origins == SUBSET (0..3)
ASSUME OriginsOrdered ==
  /\ \A o, p \in Origins : /\ O!CompareOrigin(3, o, p) = -O!CompareOrigin(3, p, o)
                           /\ (O!CompareOrigin(3, o, p) = O!Same) = (o = p)
                           /\ (O!EncodeToString(3, o) = O!EncodeToString(3, p)) = (o = p)
  /\ \A o, p, q \in Origins :
       O!CompareOrigin(3, o, p) = O!Less /\ O!CompareOrigin(3, p, q) = O!Less => O!CompareOrigin(3, o, q) = O!Less
=============================================================================
