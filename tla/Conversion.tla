----------------------------- MODULE Conversion -----------------------------
(* The three forms of a fact, rule, check or policy and the conversions       *)
(* between them: as its author writes it (types.go), with indices into symbol *)
(* and key tables (the datalog package), and on the wire (converters.go,      *)
(* converters_v2.go).  Values are those of module Ordering; on the wire a set *)
(* is a sequence.  A conversion that stops at an error is a predicate here.   *)
(* Default symbols and the offset of the table are in module Tables, so an    *)
(* index counts from zero.  A set holds no set of sets.                       *)
EXTENDS Ordering

CONSTANTS
  NoKey,    \* the absence of a key in a scope
  Ticks,    \* instants in a second
  Seconds,  \* the number of values of a datalog date, 2^64 in the code
  Invalid   \* what Str answers for an index outside the table

ASSUME DateAssumption == Ticks \in Nat \ {0} /\ Seconds \in Nat /\ Seconds % 2 = 0 /\ Seconds > 0

Map(Op(_), s) == [i \in DOMAIN s |-> Op(s[i])]
Joining(Op(_), s) == FlattenSeq(Map(Op, s))
Every(Op(_), s) == \A i \in DOMAIN s : Op(s[i])

----------------------------------------------------------------------------
(* Tables.                                                                    *)

Insert(table, x) == IF x \in Range(table) THEN table ELSE Append(table, x)
InsertAll(table, more) ==
  LET upTo[n \in 0..Len(more)] == IF n = 0 THEN table ELSE Insert(upTo[n - 1], more[n])
  IN  upTo[Len(more)]

(* Seeded fault: the symbols the caller knows are kept too.                   *)
SplitNothing(table, at) == table

SplitOff(table, at) == SubSeq(table, at + 1, Len(table))

Index(table, x) == (CHOOSE i \in DOMAIN table : table[i] = x) - 1
Str(table, i) == IF i < Len(table) THEN table[i + 1] ELSE Invalid

----------------------------------------------------------------------------
(* The parts of a value: a conversion acts on terms, operations, strings and  *)
(* scopes, and keeps the rest.                                                *)

OverElements(Op(_), t) == IF TypeOf(t) = "set" THEN [set |-> {Op(e) : e \in t.set}] ELSE Op(t)
OverScalars(Op(_), t) ==
  IF TypeOf(t) = "set" THEN [set |-> {OverElements(Op, e) : e \in t.set}] ELSE Op(t)

OverPredicate(Term(_), Name(_), p) == [name |-> Name(p.name), terms |-> Map(Term, p.terms)]

OverOp(Term(_), Number(_, _), op) ==
  IF TypeOf(op) = "value"
  THEN [value |-> Term(op.value)]
  ELSE [type \in {TypeOf(op)} |-> Number(type, op[type])]

OverRule(Term(_), Name(_), Number(_, _), Scope(_), r) ==
  [head   |-> OverPredicate(Term, Name, r.head),
   body   |-> Map(LAMBDA p : OverPredicate(Term, Name, p), r.body),
   exprs  |-> Map(LAMBDA e : Map(LAMBDA op : OverOp(Term, Number, op), e), r.exprs),
   scopes |-> Map(Scope, r.scopes)]

OverQueries(Rule(_), Kind(_), c) == [queries |-> Map(Rule, c.queries), kind |-> Kind(c.kind)]

----------------------------------------------------------------------------
(* What each form numbers its operations with.                                *)

Unary == <<"Negate", "Parens", "Length">>
Binary(second, third) ==
  <<"LessThan", second, third, "GreaterOrEqual", "Equal", "Contains", "Prefix", "Suffix",
    "Regex", "Add", "Sub", "Mul", "Div", "And", "Or", "Intersection", "Union">>

Operations(form, type) ==
  LET known == IF type = "unary" THEN Unary
               ELSE IF form = "wire" THEN Binary("GreaterThan", "LessOrEqual")
                                     ELSE Binary("LessOrEqual", "GreaterThan")
  IN IF form = "source" THEN <<"Undefined">> \o known ELSE known

Renumbered(from, to, type, n) ==
  Index(Operations(to, type), Operations(from, type)[n + 1])

----------------------------------------------------------------------------
(* Values as their author writes them.                                        *)

IsValue(type, v) ==
  CASE type \in {"var", "str"} -> TRUE
    [] type = "int" -> v \in Int
    [] type = "date" -> v \in Int /\ v \div Ticks \in -(Seconds \div 2)..(Seconds \div 2 - 1)
    [] type = "bytes" -> v \in Seq(Int)
    [] type = "bool" -> v \in BOOLEAN

IsListOf(Item(_), s) == s \in Seq(Range(s)) /\ Every(Item, s)

ScalarTypes == {"var", "int", "str", "date", "bytes", "bool"}
IsScalar(t) == \E type \in ScalarTypes : DOMAIN t = {type} /\ IsValue(type, t[type])
IsSetOf(Element(_), t) ==
  DOMAIN t = {"set"} /\ IsFiniteSet(t["set"]) /\ \A e \in t["set"] : Element(e)
IsElement(t) == IsScalar(t) \/ IsSetOf(IsScalar, t)
IsTerm(t) == IsScalar(t) \/ IsSetOf(IsElement, t)

IsPredicate(p) == IsListOf(IsTerm, p.terms)

IsOp(op) ==
  \/ DOMAIN op = {"value"} /\ IsTerm(op["value"])
  \/ \E type \in {"unary", "binary"} :
       DOMAIN op = {type} /\ op[type] \in 1..(Len(Operations("source", type)) - 1)
IsExpression(e) == IsListOf(IsOp, e)

(* A scope names a key when its type is PublicKey.                            *)
IsScope(s) ==
  s = [type |-> s.type, key |-> s.key] /\ s.type \in 0..2 /\ (s.type = 2) = (s.key # NoKey)

IsRule(r) ==
  /\ IsPredicate(r.head)
  /\ IsListOf(IsPredicate, r.body)
  /\ IsListOf(IsExpression, r.exprs)
  /\ IsListOf(IsScope, r.scopes)

IsCheck(c) == IsListOf(IsRule, c.queries) /\ c.kind \in {"one", "all", "reject"}
IsPolicy(p) == IsListOf(IsRule, p.queries) /\ p.kind \in {"allow", "deny"}

----------------------------------------------------------------------------
(* Values on the wire, which may have been written by another implementation: *)
(* a term, operation or scope may be of a type this one does not know.        *)

IsWireValue(type, v) ==
  /\ type = "int" => v \in Int
  /\ type = "date" => v \in 0..(Seconds - 1)
  /\ type = "bytes" => v \in Seq(Int)
  /\ type = "bool" => v \in BOOLEAN

IsWireElement(t) == DOMAIN t = {TypeOf(t)} /\ IsWireValue(TypeOf(t), t[TypeOf(t)])
IsWireTerm(t) ==
  IsWireElement(t) /\ (TypeOf(t) = "set" => IsListOf(IsWireElement, t["set"]))
IsWirePredicate(p) == IsListOf(IsWireTerm, p.terms)

IsWireOp(op) == DOMAIN op = {TypeOf(op)} /\ (TypeOf(op) = "value" => IsWireTerm(op["value"]))
IsWireExpression(e) == IsListOf(IsWireOp, e)

(* The index of a key is read as unsigned.                                    *)
IsWireScope(s) == DOMAIN s = {TypeOf(s)} /\ (TypeOf(s) = "publicKey" => s["publicKey"] \in Nat)

IsWireRule(r) ==
  /\ IsWirePredicate(r.head)
  /\ IsListOf(IsWirePredicate, r.body)
  /\ IsListOf(IsWireExpression, r.exprs)
  /\ IsListOf(IsWireScope, r.scopes)

IsWireQueries(c) == IsListOf(IsWireRule, c.queries)

----------------------------------------------------------------------------
(* From source to datalog: strings and keys are interned on the way, the      *)
(* elements of a set in any order, here a fixed one.                          *)

ElementWords(t) == IF TypeOf(t) \in {"var", "str"} THEN <<t[TypeOf(t)]>> ELSE <<>>
NestedWords(t) == IF TypeOf(t) = "set" THEN Joining(ElementWords, SetToSeq(t.set)) ELSE ElementWords(t)
TermWords(t) == IF TypeOf(t) = "set" THEN Joining(NestedWords, SetToSeq(t.set)) ELSE ElementWords(t)

PredicateWords(p) == Joining(TermWords, p.terms) \o <<p.name>>
OpWords(op) == IF TypeOf(op) = "value" THEN TermWords(op.value) ELSE <<>>

(* The head is converted after the scopes, though it is written first.        *)
RuleWords(r) ==
  Joining(PredicateWords, r.body) \o Joining(LAMBDA e : Joining(OpWords, e), r.exprs)
    \o PredicateWords(r.head)

ScopeKey(s) == IF s.key = NoKey THEN <<>> ELSE <<s.key>>
ScopeKeys(scopes) == Joining(ScopeKey, scopes)
RuleKeys(r) == ScopeKeys(r.scopes)

(* Time.Unix counts whole seconds, and a datalog date is unsigned.            *)
Unix(instant) == (instant \div Ticks) % Seconds

ConvertScalar(symbols, t) ==
  [type \in DOMAIN t |->
     IF type \in {"var", "str"} THEN Index(symbols, t[type])
     ELSE IF type = "date" THEN Unix(t[type]) ELSE t[type]]

ConvertTerm(symbols, t) == OverScalars(LAMBDA e : ConvertScalar(symbols, e), t)

ConvertPredicate(symbols, p) ==
  OverPredicate(LAMBDA t : ConvertTerm(symbols, t), LAMBDA name : Index(symbols, name), p)

ConvertScope(keys, s) == [type |-> s.type, key |-> IF s.key = NoKey THEN 0 ELSE Index(keys, s.key)]

ConvertRule(symbols, keys, r) ==
  OverRule(LAMBDA t : ConvertTerm(symbols, t), LAMBDA name : Index(symbols, name),
           LAMBDA type, n : Renumbered("source", "datalog", type, n),
           LAMBDA s : ConvertScope(keys, s), r)

ConvertKind(kind) == IF kind \in {"all", "reject"} THEN kind ELSE "one"

ConvertCheck(symbols, keys, c) ==
  OverQueries(LAMBDA q : ConvertRule(symbols, keys, q), ConvertKind, c)

----------------------------------------------------------------------------
(* From datalog back to source.                                               *)

(* Seeded fault: a date before the epoch is not read as negative.             *)
TimeUnsigned(date) == Ticks * date

Time(date) == Ticks * (IF date < Seconds \div 2 THEN date ELSE date - Seconds)

ReadScalar(symbols, t) ==
  [type \in DOMAIN t |->
     IF type \in {"var", "str"} THEN Str(symbols, t[type])
     ELSE IF type = "date" THEN Time(t[type]) ELSE t[type]]

ReadTerm(symbols, t) == OverScalars(LAMBDA e : ReadScalar(symbols, e), t)

ReadPredicate(symbols, p) ==
  OverPredicate(LAMBDA t : ReadTerm(symbols, t), LAMBDA name : Str(symbols, name), p)

(* fromDatalogScope refuses an index outside the keys.                        *)
ScopeResolves(keys, s) == s.type = 2 => s.key < Len(keys)
ReadScope(keys, s) == [type |-> s.type, key |-> IF s.type = 2 THEN keys[s.key + 1] ELSE NoKey]

RuleResolves(keys, r) == Every(LAMBDA s : ScopeResolves(keys, s), r.scopes)

ReadRule(symbols, keys, r) ==
  OverRule(LAMBDA t : ReadTerm(symbols, t), LAMBDA name : Str(symbols, name),
           LAMBDA type, n : Renumbered("datalog", "source", type, n),
           LAMBDA s : ReadScope(keys, s), r)

ReadCheck(symbols, keys, c) ==
  OverQueries(LAMBDA q : ReadRule(symbols, keys, q), ConvertKind, c)

----------------------------------------------------------------------------
(* To the wire.  A set must hold terms of one type, neither variables nor     *)
(* sets; its elements are sorted.                                             *)

OneType(types) == \E type \in {"int", "str", "date", "bytes", "bool"} : types \subseteq {type}
TermEncodes(t) == TypeOf(t) = "set" => OneType({TypeOf(e) : e \in t.set})
EncodeTerm(t) == IF TypeOf(t) = "set" THEN [set |-> Sorted(CompareScalar, t.set)] ELSE t

EncodeName(name) == name

(* The index of a scope that names no key is not written.                     *)
EncodeScope(s) ==
  IF s.type = 2 THEN [publicKey |-> s.key] ELSE [scopeType |-> s.type]

EncodePredicate(p) == OverPredicate(EncodeTerm, EncodeName, p)

EncodeRule(r) ==
  OverRule(EncodeTerm, EncodeName, LAMBDA type, n : Renumbered("datalog", "wire", type, n),
           EncodeScope, r)

(* A check of kind one has no kind on the wire.                               *)
EncodeKind(kind) == IF kind \in {"all", "reject"} THEN kind ELSE "nil"
EncodeCheck(c) == OverQueries(EncodeRule, EncodeKind, c)

(* The terms a converter visits.                                              *)
OpTerms(op) == IF TypeOf(op) = "value" THEN <<op.value>> ELSE <<>>
RuleTerms(r) ==
  Joining(LAMBDA p : p.terms, r.body) \o Joining(LAMBDA e : Joining(OpTerms, e), r.exprs)
    \o r.head.terms

PredicateEncodes(p) == Every(TermEncodes, p.terms)
RuleEncodes(r) == Every(TermEncodes, RuleTerms(r))
QueriesEncode(c) == Every(RuleEncodes, c.queries)

----------------------------------------------------------------------------
(* From the wire.  The same elements twice make one element.                  *)

TermDecodes(t) ==
  /\ TypeOf(t) \in Range(TermTypes)
  /\ TypeOf(t) = "set" => OneType({TypeOf(t.set[i]) : i \in DOMAIN t.set})

DecodeTerm(t) == IF TypeOf(t) = "set" THEN [set |-> Range(t.set)] ELSE t

DecodeName(name) == name

ScopeDecodes(s) == TypeOf(s) \in {"publicKey", "scopeType"}

(* An unknown scope type leaves the zero value, which is the authority's.     *)
DecodeScope(s) ==
  IF TypeOf(s) = "publicKey" THEN [type |-> 2, key |-> s.publicKey]
  ELSE [type |-> IF s.scopeType \in {0, 1} THEN s.scopeType ELSE 0, key |-> 0]

OpDecodes(op) ==
  \/ TypeOf(op) = "value"
  \/ \E type \in {"unary", "binary"} :
       TypeOf(op) = type /\ op[type] \in 0..(Len(Operations("wire", type)) - 1)

DecodePredicate(p) == OverPredicate(DecodeTerm, DecodeName, p)
PredicateDecodes(p) == Every(TermDecodes, p.terms)

RuleDecodes(r) ==
  /\ Every(TermDecodes, RuleTerms(r))
  /\ Every(LAMBDA e : Every(OpDecodes, e), r.exprs)
  /\ Every(ScopeDecodes, r.scopes)

DecodeRule(r) ==
  OverRule(DecodeTerm, DecodeName, LAMBDA type, n : Renumbered("wire", "datalog", type, n),
           DecodeScope, r)

CheckDecodes(c) == Every(RuleDecodes, c.queries) /\ c.kind \in {"nil", "one", "all", "reject"}
DecodeCheck(c) == OverQueries(DecodeRule, ConvertKind, c)

----------------------------------------------------------------------------
(* What survives a round trip: everything but the fraction of a second.       *)

WholeScalar(t) ==
  [type \in DOMAIN t |-> IF type = "date" THEN t[type] - (t[type] % Ticks) ELSE t[type]]
WholeTerm(t) == OverScalars(WholeScalar, t)
WholePredicate(p) == OverPredicate(WholeTerm, LAMBDA name : name, p)
WholeRule(r) ==
  OverRule(WholeTerm, LAMBDA name : name, LAMBDA type, n : n, LAMBDA s : s, r)
WholeQueries(c) == OverQueries(WholeRule, LAMBDA kind : kind, c)
=============================================================================
