------------------------------ MODULE MCWorld ------------------------------
(* An instance of World: an authority block 0, blocks 1 and 2, and the      *)
(* authorizer; a chain of rules across blocks with default scopes, a    *)
(* joining rule in a block others do not trust, and a failing rule.         *)
EXTENDS World

Authorizer == 1000   \* stands for AuthorizerBlockID, math.MaxUint64
MCBlockID == {0, 1, 2, Authorizer}
MCFact == {"a", "b", "c", "d"}

Loads(f, o) == [fact |-> f, origin |-> o]
MCLoadable == {Loads("a", {0}), Loads("a", {1})}

Inst(body, head) == [body |-> body, head |-> head]
R(b, t, insts, bad) ==
  [block |-> b, trusted |-> t, instances |-> insts, failing |-> bad]

(* b <- a in the authority block; c <- b in block 1, same group as the join *)
(* d <- a, b; the authorizer's c <- d trusting every block; a rule of block *)
(* 2 whose expression fails once c is visible to it.                        *)
ChainRules ==
  {R(0, {0, Authorizer}, {Inst(<<"a">>, "b")}, {}),
   R(1, {0, 1, Authorizer}, {Inst(<<"b">>, "c")}, {}),
   R(1, {0, 1, Authorizer}, {Inst(<<"a", "b">>, "d")}, {})}

ScopedRules ==
  {R(0, {0, Authorizer}, {Inst(<<"a">>, "b")}, {}),
   R(2, {0, 2, Authorizer}, {Inst(<<"b", "b">>, "c")}, {}),
   R(Authorizer, {0, 1, 2, Authorizer}, {Inst(<<"c", "a">>, "d")}, {<<"d">>})}
=============================================================================
