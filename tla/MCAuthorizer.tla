---------------------------- MODULE MCAuthorizer ----------------------------
(* Tokens of up to three blocks over three facts and two third-party keys,    *)
(* and authorizers that check, reject, deny and allow on them.                *)
EXTENDS Authorizer

MCBlockID == {0, 1, 2, 9}

M(body, exprs) == [body |-> body, exprs |-> exprs]
Q(scopes, matches) == [scopes |-> scopes, matches |-> matches]
If(fact, scopes) == Q(scopes, {M(<<fact>>, <<>>)})
MkCheck(kind, query) == [kind |-> kind, queries |-> <<query>>]
MkRule(from, to, scopes) ==
  [scopes |-> scopes, instances |-> {[body |-> from, head |-> to]}, failing |-> {}]
MkBlock(fs, rs, cs, scopes, signer) ==
  [facts |-> fs, rules |-> rs, checks |-> cs, scopes |-> scopes, signer |-> signer]
Previous == [type |-> "previous", key |-> "none"]
Authority == [type |-> "authority", key |-> "none"]
Trusting(k) == [type |-> "key", key |-> k]

Authorities ==
  {MkBlock({"right"}, {}, <<>>, {}, "none"),
   MkBlock({"right"}, {MkRule(<<"right">>, "op", {})},
         <<MkCheck("one", If("op", {Authority}))>>, {}, "none")}

FirstParty ==
  {MkBlock({"op", "right"}, {MkRule(<<"op", "right">>, "ok", {})}, <<MkCheck("one", If("right", {}))>>,
         {}, "none"),
   MkBlock({"ok"}, {}, <<MkCheck("all", Q({}, {M(<<"op">>, <<"true">>), M(<<"ok">>, <<"true", "false">>)}))>>,
         {Previous}, "none"),
   MkBlock({}, {}, <<MkCheck("reject", Q({}, {M(<<"op">>, <<"true">>)}))>>, {}, "none"),
   MkBlock({"ok"}, {MkRule(<<"op">>, "ok", {Trusting("k2")})}, <<>>, {}, "none")}

ThirdParty ==
  {MkBlock({"op"}, {MkRule(<<"op", "right">>, "ok", {Trusting("k2"), Authority})},
         <<>>, {}, "k1"),
   MkBlock({"right", "op"}, {}, <<MkCheck("one", If("right", {Trusting("k1"), Previous}))>>, {}, "k2")}

(* A check with a failing expression and one without, and a rule that fails.  *)
Erring ==
  {MkBlock({}, {}, <<MkCheck("one", Q({}, {M(<<"op">>, <<"true", "error">>), M(<<"right">>, <<>>)}))>>,
         {}, "none"),
   MkBlock({}, {[scopes |-> {}, instances |-> {}, failing |-> {<<"ok">>}]}, <<>>, {}, "none")}

TokensOver(authorities, appended) ==
  {<<a>> : a \in authorities} \cup {<<a, b>> : a \in authorities, b \in appended}
    \cup {<<a, b, c>> : a \in authorities, b \in appended, c \in appended}

MkPolicy(kind, query) == [kind |-> kind, queries |-> <<query>>]
MkContent(fs, rs, cs, scopes, ps) ==
  [facts |-> fs, rules |-> rs, checks |-> cs, scopes |-> scopes, policies |-> ps]

MCTokens == TokensOver(Authorities, FirstParty \cup ThirdParty \cup Erring)

MCContents ==
  {MkContent({}, {}, <<>>, {}, <<MkPolicy("allow", If("right", {}))>>),
   MkContent({}, {}, <<>>, {}, <<MkPolicy("deny", If("op", {})), MkPolicy("allow", If("right", {}))>>),
   MkContent({}, {}, <<>>, {}, <<MkPolicy("deny", If("ok", {})), MkPolicy("allow", If("op", {Previous}))>>),
   MkContent({"op"}, {MkRule(<<"op", "right">>, "ok", {})}, <<MkCheck("one", If("op", {}))>>, {Previous},
           <<MkPolicy("allow", If("ok", {})), MkPolicy("deny", If("op", {}))>>),
   MkContent({}, {}, <<>>, {},
           <<MkPolicy("allow", If("ok", {Trusting("k1"), Trusting("k2"), Authority})),
             MkPolicy("deny", If("right", {}))>>),
   MkContent({}, {MkRule(<<"op">>, "ok", {})}, <<>>, {},
           <<MkPolicy("deny", If("ok", {})), MkPolicy("allow", If("right", {}))>>),
   MkContent({}, {MkRule(<<"op">>, "ok", {Trusting("k1")})}, <<>>, {},
           <<MkPolicy("deny", Q({}, {M(<<"op">>, <<"false">>)})), MkPolicy("allow", If("right", {}))>>)}
=============================================================================
