------------------------------ MODULE Ordering ------------------------------
(* How datalog values are compared and hashed, which is how a hash set knows  *)
(* what it holds (Compare and Hash in datalog/datalog.go,                     *)
(* datalog/expressions.go and datalog/scope.go, and internal/set/helpers.go). *)
(* A term is a record with one field, named for its type; a set holds no set. *)
(* An operation of an expression is a record with one field too.              *)
EXTENDS Integers, SequencesExt

Less == -1
Same == 0
More == 1

Cmp(a, b) == IF a < b THEN Less ELSE IF a = b THEN Same ELSE More

CompareBool(a, b) == IF a = b THEN Same ELSE IF ~a THEN Less ELSE More

(* The first comparison that tells two values apart decides.                  *)
Then(first, second) == IF first # Same THEN first ELSE second

Elementwise(Compare(_, _), a, b) ==
  LET differ == {i \in DOMAIN a : Compare(a[i], b[i]) # Same}
  IN IF differ = {} THEN Same
     ELSE LET i == CHOOSE i \in differ : \A j \in differ : i <= j IN Compare(a[i], b[i])

ComparedSlices(Compare(_, _), a, b) ==
  Then(Cmp(Len(a), Len(b)), Elementwise(Compare, a, b))

(* A slice that may be nil, which is how an empty one is held.                *)
ComparedNilable(Compare(_, _), a, b) ==
  IF b = <<>> THEN More ELSE ComparedSlices(Compare, a, b)

(* The element with that many before it comes next.                           *)
Sorted(Compare(_, _), elements) ==
  [i \in 1..Cardinality(elements) |->
     CHOOSE e \in elements : Cardinality({x \in elements : Compare(x, e) = Less}) = i - 1]

----------------------------------------------------------------------------
(* Terms.                                                                     *)

TermTypes == <<"var", "int", "str", "date", "bytes", "bool", "set">>
TypeOf(term) == CHOOSE type \in DOMAIN term : TRUE
Rank(types, x) == CHOOSE i \in DOMAIN types : types[i] = TypeOf(x)
CompareType(types, a, b) == Cmp(Rank(types, a), Rank(types, b))

CompareBytes(a, b) ==
  LET n == IF Len(a) < Len(b) THEN Len(a) ELSE Len(b)
  IN Then(Elementwise(Cmp, SubSeq(a, 1, n), SubSeq(b, 1, n)), Cmp(Len(a), Len(b)))

CompareValues(a, b) ==
  LET type == TypeOf(a)
  IN IF type = "bool" THEN CompareBool(a[type], b[type])
     ELSE IF type = "bytes" THEN CompareBytes(a[type], b[type]) ELSE Cmp(a[type], b[type])

CompareScalar(a, b) == Then(CompareType(TermTypes, a, b), CompareValues(a, b))

(* Set.Compare: sizes, then the elements in order.                            *)
CompareTerm(a, b) ==
  IF TypeOf(a) = "set" /\ TypeOf(b) = "set"
  THEN ComparedSlices(CompareScalar, Sorted(CompareScalar, a.set), Sorted(CompareScalar, b.set))
  ELSE Then(CompareType(TermTypes, a, b), CompareValues(a, b))

(* What is written to the hash.                                               *)
Word(n) == <<"word", n>>
Byte(n) == <<"byte", n>>
Text(n) == <<"text", n>>

ScalarStream(term) ==
  <<Byte(Rank(TermTypes, term))>> \o
    CASE TypeOf(term) = "bytes" -> [i \in DOMAIN term.bytes |-> Byte(term.bytes[i])]
      [] TypeOf(term) = "bool"  -> <<Byte(IF term.bool THEN 1 ELSE 0)>>
      [] OTHER -> <<Word(term[TypeOf(term)])>>

(* Set.Hash writes the elements in the order of a Go map, so a set of two or  *)
(* more has several hashes.                                                   *)
TermStreams(term) ==
  IF TypeOf(term) = "set"
  THEN {<<Byte(Rank(TermTypes, term))>> \o FlattenSeq([i \in DOMAIN order |-> ScalarStream(order[i])]) :
          order \in SetToSeqs(term.set)}
  ELSE {ScalarStream(term)}

(* Streams of several parts, one after the other.                             *)
Joined(streams, more) == {s \o t : s \in streams, t \in more}
InTurn(Streams(_), parts) ==
  FoldLeft(LAMBDA streams, part : Joined(streams, Streams(part)), {<<>>}, parts)

----------------------------------------------------------------------------
(* Predicates, expressions, scopes and rules.                                 *)

ComparePredicate(p, q) ==
  Then(Cmp(p.name, q.name), ComparedSlices(CompareTerm, p.terms, q.terms))

PredicateStreams(p) == Joined({<<Text(p.name)>>}, InTurn(TermStreams, p.terms))

OpTypes == <<"value", "unary", "binary">>

CompareOp(a, b) ==
  Then(CompareType(OpTypes, a, b),
       IF TypeOf(a) = "value" THEN CompareTerm(a.value, b.value)
                              ELSE Cmp(a[TypeOf(a)], b[TypeOf(a)]))

OpStreams(op) ==
  Joined({<<Byte(Rank(OpTypes, op))>>},
         IF TypeOf(op) = "value" THEN TermStreams(op.value) ELSE {<<Byte(op[TypeOf(op)])>>})

CompareExpression(e, f) == ComparedSlices(CompareOp, e, f)
ExpressionStreams(e) == InTurn(OpStreams, e)

CompareScope(s, t) == Then(Cmp(s.type, t.type), Cmp(s.key, t.key))
ScopeStreams(s) == {<<Word(s.type), Word(s.key)>>}

(* Convert leaves the scopes nil when there are none (types.go), so a rule    *)
(* without scopes does not equal itself.                                      *)
CompareRule(r, s) ==
  Then(ComparePredicate(r.head, s.head),
  Then(ComparedSlices(ComparePredicate, r.body, s.body),
  Then(ComparedSlices(CompareExpression, r.exprs, s.exprs),
       ComparedNilable(CompareScope, r.scopes, s.scopes))))

RuleStreams(r) ==
  Joined(PredicateStreams(r.head),
  Joined(InTurn(PredicateStreams, r.body),
  Joined(InTurn(ExpressionStreams, r.exprs), InTurn(ScopeStreams, r.scopes))))

CompareRuleInBlock(r, s) == Then(Cmp(r.block, s.block), CompareRule(r.rule, s.rule))

RuleInBlockStreams(r) == Joined({<<Word(r.block)>>}, RuleStreams(r.rule))

----------------------------------------------------------------------------
(* Origins.  A fact set files facts under a string made of the block          *)
(* identifiers of their origin, in order, the authorizer's first.             *)

CompareBlock(authorizer, i, j) ==
  IF i = authorizer \/ j = authorizer
  THEN CompareBool(i # authorizer, j # authorizer) ELSE Cmp(i, j)

EncodeToString(authorizer, origin) ==
  Sorted(LAMBDA i, j : CompareBlock(authorizer, i, j), origin)

CompareOrigin(authorizer, o, p) ==
  LET a == EncodeToString(authorizer, o)
      b == EncodeToString(authorizer, p)
      n == IF Len(a) < Len(b) THEN Len(a) ELSE Len(b)
  IN Then(Elementwise(LAMBDA i, j : CompareBlock(authorizer, i, j),
                      SubSeq(a, 1, n), SubSeq(b, 1, n)),
          Cmp(Len(a), Len(b)))
=============================================================================
