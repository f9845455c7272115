----------------------------- MODULE MCBuilders -----------------------------
(* Model values for Builders: dates within one second and before the epoch, a *)
(* set that may be written and one that may not, scopes of every type, a kind *)
(* of every check, operations whose numbers differ between the forms.         *)
EXTENDS Builders, TLC

Var(x) == [var |-> x]
Num(n) == [int |-> n]
Word_(x) == [str |-> x]
Pred(name, terms) == [name |-> name, terms |-> terms]
RuleWith(exprs, scopes) ==
  [head |-> Pred("p", <<Var("x")>>), body |-> <<Pred("q", <<Var("x"), Word_("p")>>)>>,
   exprs |-> exprs, scopes |-> scopes]

Authority == [type |-> 0, key |-> NoKey]
Previous == [type |-> 1, key |-> NoKey]
Trusting(key) == [type |-> 2, key |-> key]

(* x > 1, as its author numbers the operation.                                *)
MoreThanOne == <<[value |-> Var("x")], [value |-> Num(1)], [binary |-> 3]>>
NotMoreThanOne == MoreThanOne \o <<[unary |-> 2], [unary |-> 1]>>

Fact == Pred("q", <<Num(2), Word_("p")>>)
Early == Pred("at", <<[date |-> -3], [bool |-> TRUE]>>)
Pair == Pred("s", <<[set |-> {Word_("p"), Word_("r")}], [set |-> {[date |-> 4], [date |-> 5]}]>>)
Mixed == Pred("s", <<[set |-> {Num(1), Word_("p")}]>>)

Plain == RuleWith(<<MoreThanOne>>, <<>>)
Scoped == RuleWith(<<NotMoreThanOne>>, <<Previous, Trusting("k2")>>)
Local == RuleWith(<<>>, <<Authority>>)

MCFacts == {Fact, Early, Pair, Mixed}
MCRules == {Plain, Scoped}
MCChecks == {[queries |-> <<Local, Plain>>, kind |-> "all"],
             [queries |-> <<Plain>>, kind |-> "one"],
             [queries |-> <<Scoped>>, kind |-> "reject"]}
Allow == [queries |-> <<Plain>>, kind |-> "allow"]
Deny == [queries |-> <<Local, Scoped>>, kind |-> "deny"]
MCPolicies == {Allow, Deny}
MCScopes == {Previous, Trusting("k1")}

MCParsedBlock ==
  {[facts |-> {Fact, Early}, rules |-> <<Plain>>, scopes |-> <<Trusting("k1")>>,
    checks |-> <<[queries |-> <<Scoped>>, kind |-> "reject"]>>, policies |-> <<Allow>>],
   [facts |-> {Fact, Pair}, rules |-> <<>>, scopes |-> <<>>,
    checks |-> <<[queries |-> <<Plain>>, kind |-> "one"]>>, policies |-> <<Deny, Allow>>]}

BuildersAlike == Permutations(Builder)

MCMaxAdded == [authorizer |-> 2, authority |-> 3, block |-> 3]

MCBases == {<<>>, <<"x", "s">>}

(* Policies another implementation saved: of a later version, with a check of *)
(* a later kind after one this code knows, and with an operation it does not. *)
Message(version, checks, policies) ==
  [version |-> version, symbols |-> <<"p", "x">>, facts |-> <<>>, rules |-> <<>>,
   checks |-> checks, policies |-> policies]
OnWire(exprs) ==
  [head |-> Pred(0, <<Var(1)>>), body |-> <<Pred(7, <<Var(1)>>)>>, exprs |-> exprs,
   scopes |-> <<[scopeType |-> 1], [scopeType |-> 9]>>]
Holds(kind) == [queries |-> <<OnWire(<<>>)>>, kind |-> kind]

MCForeign ==
  {Message(7, <<Holds("nil")>>, <<Holds("allow")>>),
   Message(6, <<Holds("nil"), Holds("later")>>, <<Holds("allow")>>),
   Message(3, <<Holds("one")>>,
           <<Holds("deny"), [queries |-> <<OnWire(<<<<[binary |-> 20]>>>>)>>, kind |-> "allow"],
             Holds("allow")>>)}

(* What the wire carries is read and written again without change, once the   *)
(* elements of sets are sorted and distinct.                                  *)
WireTerms ==
  {Var(3), Num(-1), Word_(0), [date |-> 15], [bytes |-> <<1>>], [bool |-> FALSE],
   [set |-> <<>>], [set |-> <<Num(2), Num(1), Num(2)>>], [set |-> <<Var(1)>>],
   [set |-> <<[set |-> <<>>]>>], [set |-> <<Num(1), Word_(1)>>], [null |-> TRUE],
   [set |-> <<[null |-> TRUE]>>]}
ASSUME WireStable ==
  \A w \in WireTerms : TermDecodes(w) =>
    /\ TermEncodes(DecodeTerm(w))
    /\ TermDecodes(EncodeTerm(DecodeTerm(w)))
    /\ DecodeTerm(EncodeTerm(DecodeTerm(w))) = DecodeTerm(w)

(* Every operation has a number of its own in each form.                      *)
ASSUME OperationsKept ==
  \A type \in {"unary", "binary"} :
    \A n \in 1..(Len(Operations("source", type)) - 1) :
      LET sent == Renumbered("datalog", "wire", type, Renumbered("source", "datalog", type, n))
      IN Renumbered("datalog", "source", type, Renumbered("wire", "datalog", type, sent)) = n

(* From the epoch on, dates keep their order, though not their difference.    *)
ASSUME DatesOrdered ==
  \A i, j \in 0..(Ticks * (Seconds \div 2) - 1) : i <= j => Unix(i) <= Unix(j)
=============================================================================
