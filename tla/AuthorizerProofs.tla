-------------------------- MODULE AuthorizerProofs --------------------------
(* Proofs about building an authorizer, authorizing and querying, for any     *)
(* tokens, authorizers, facts and keys.                                       *)
EXTENDS Authorizer, DatalogProofs, SequenceTheorems

(* The signers of the blocks after the authority, up to the n-th block.       *)
SignedUpTo(token, n) == [k \in Key |-> {j \in 1..(n - 1) : token[j + 1].signer = k}]

(* Any well-formed token, such as a prefix of one of Tokens.                  *)
Token ==
  {t \in Seq(Block) : Len(t) \in 1..AuthorizerBlockID /\ 0..(Len(t) - 1) \subseteq BlockID}

LEMMA TokensWellFormed == Tokens \subseteq Token
BY AuthorizerAssumption DEF Token

LEMMA TokenShape ==
  ASSUME NEW token \in Token
  PROVE  /\ token \in Seq(Block)
         /\ Len(token) \in Nat /\ Len(token) >= 1 /\ Len(token) <= AuthorizerBlockID
         /\ DOMAIN token = 1..Len(token)
         /\ \A i \in 1..Len(token) : token[i] \in Block /\ i - 1 \in BlockID
         /\ 0 \in BlockID /\ AuthorizerBlockID \in BlockID /\ AuthorizerBlockID \in Nat
<1>1. /\ token \in Seq(Block) /\ Len(token) \in 1..AuthorizerBlockID
      /\ 0..(Len(token) - 1) \subseteq BlockID
      /\ AuthorizerBlockID \in BlockID /\ AuthorizerBlockID \in Nat
  BY AuthorizerAssumption DEF Token
<1>2. Len(token) \in Nat /\ DOMAIN token = 1..Len(token)
  BY <1>1, LenProperties
<1>3. \A i \in 1..Len(token) : token[i] \in Block
  BY <1>1, ElementOfSeq
<1>4. \A i \in 1..Len(token) : i - 1 \in 0..(Len(token) - 1)
  BY <1>2
<1>5. 0 \in 0..(Len(token) - 1)
  BY <1>1
<1>6. QED
  BY <1>1, <1>2, <1>3, <1>4, <1>5

LEMMA PrefixShape ==
  ASSUME NEW token \in Token, NEW n \in 1..Len(token)
  PROVE  LET p == SubSeq(token, 1, n)
         IN  /\ p \in Seq(Block) /\ Len(p) = n /\ DOMAIN p = 1..n
             /\ \A i \in 1..n : p[i] = token[i]
<1>1. /\ token \in Seq(Block) /\ Len(token) \in Nat
      /\ \A i \in 1..n : token[i] \in Block
  BY TokenShape
<1>2. n \in Int /\ 1 <= n
  BY <1>1
<1>3. /\ SubSeq(token, 1, n) \in Seq(Block)
      /\ Len(SubSeq(token, 1, n)) = IF 1 <= n THEN n - 1 + 1 ELSE 0
      /\ \A i \in 1..(n - 1 + 1) : SubSeq(token, 1, n)[i] = token[1 + i - 1]
  BY <1>1, <1>2, SubSeqProperties
<1>4. \A i \in 1..n : SubSeq(token, 1, n)[i] = token[i]
  BY <1>2, <1>3
<1>5. Len(SubSeq(token, 1, n)) = n
  BY <1>2, <1>3
<1>6. QED
  BY <1>3, <1>4, <1>5, LenProperties

LEMMA RegistrySigned ==
  ASSUME NEW n \in Nat, NEW token, DOMAIN token = 1..n
  PROVE  Registry(token) = SignedUpTo(token, n)
<1>1. ASSUME NEW k \in Key
      PROVE  {i - 1 : i \in {j \in DOMAIN token : j > 1 /\ token[j].signer = k}}
               = {j \in 1..(n - 1) : token[j + 1].signer = k}
  <2> DEFINE S == {j \in DOMAIN token : j > 1 /\ token[j].signer = k}
             T == {j \in 1..(n - 1) : token[j + 1].signer = k}
  <2>1. \A j \in S : j - 1 \in T
    <3>1. TAKE j \in S
    <3>2. j \in 1..n /\ j > 1 /\ token[j].signer = k /\ (j - 1) + 1 = j
      OBVIOUS
    <3>3. j - 1 \in 1..(n - 1)
      BY <3>2
    <3>4. QED
      BY <3>2, <3>3
  <2>2. \A j \in T : j + 1 \in S /\ (j + 1) - 1 = j
    OBVIOUS
  <2> HIDE DEF S, T
  <2>3. {i - 1 : i \in S} = T
    <3>1. {i - 1 : i \in S} \subseteq T
      BY <2>1
    <3>2. T \subseteq {i - 1 : i \in S}
      BY <2>2
    <3>3. QED
      BY <3>1, <3>2
  <2>4. QED
    BY <2>3 DEF S, T
<1>2. QED
  BY <1>1 DEF Registry, SignedUpTo

LEMMA RegistryOfPrefix ==
  ASSUME NEW token \in Token, NEW n \in 1..Len(token)
  PROVE  Registry(SubSeq(token, 1, n)) = SignedUpTo(token, n)
<1> DEFINE p == SubSeq(token, 1, n)
<1>1. Len(token) \in Nat /\ n \in Nat
  BY TokenShape
<1>2. DOMAIN p = 1..n /\ \A i \in 1..n : p[i] = token[i]
  BY PrefixShape
<1> HIDE DEF p
<1>3. Registry(p) = SignedUpTo(p, n)
  BY <1>1, <1>2, RegistrySigned
<1>4. ASSUME NEW j \in 1..(n - 1)
      PROVE  p[j + 1] = token[j + 1]
  <2>1. j + 1 \in 1..n
    BY <1>1
  <2>2. QED
    BY <1>2, <2>1
<1>5. SignedUpTo(p, n) = SignedUpTo(token, n)
  BY <1>4 DEF SignedUpTo
<1>6. QED
  BY <1>3, <1>5 DEF p

LEMMA RegistryOfToken ==
  ASSUME NEW token \in Token
  PROVE  Registry(token) = SignedUpTo(token, Len(token))
BY TokenShape, RegistrySigned

LEMMA SignedType ==
  ASSUME NEW token \in Token, NEW n \in 0..Len(token)
  PROVE  SignedUpTo(token, n) \in [Key -> SUBSET BlockID]
<1>1. \A j \in 1..(n - 1) : j \in BlockID
  <2>1. TAKE j \in 1..(n - 1)
  <2>2. j + 1 \in 1..Len(token) /\ (j + 1) - 1 = j
    BY TokenShape
  <2>3. QED
    BY <2>2, TokenShape
<1>2. QED
  BY <1>1 DEF SignedUpTo

(* Registering the next block's signer.                                       *)
LEMMA RegisterNext ==
  ASSUME NEW token \in Token, NEW n \in 0..(Len(token) - 1)
  PROVE  Register(SignedUpTo(token, n), token[n + 1], n) = SignedUpTo(token, n + 1)
<1> DEFINE reg == SignedUpTo(token, n)
           new == Register(reg, token[n + 1], n)
           b == token[n + 1]
<1>1. Len(token) \in Nat /\ n \in Nat /\ n + 1 \in 1..Len(token)
  BY TokenShape
<1>2. b \in Block
  BY <1>1, TokenShape
<1>3. b.signer \in Key \cup {NoSigner}
  BY <1>2 DEF Block
<1>4. \A k \in Key : reg[k] = {j \in 1..(n - 1) : token[j + 1].signer = k}
  BY DEF SignedUpTo
<1>5. reg = [k \in Key |-> reg[k]]
  BY DEF SignedUpTo
<1>6. ASSUME NEW k \in Key
      PROVE  new[k] = {j \in 1..n : token[j + 1].signer = k}
  <2>1. 1..n = (1..(n - 1)) \cup {j \in {n} : n > 0}
    BY <1>1
  <2>2. CASE n > 0 /\ b.signer = k
    <3>1. new[k] = reg[k] \cup {n}
      BY <1>5, <2>2, SignerAssumption DEF Register, IsThirdParty
    <3>2. QED
      BY <1>4, <2>1, <2>2, <3>1
  <2>3. CASE ~(n > 0 /\ b.signer = k)
    <3>1. new[k] = reg[k]
      BY <1>3, <1>5, <2>3 DEF Register, IsThirdParty
    <3>2. QED
      BY <1>4, <2>1, <2>3, <3>1
  <2>4. QED
    BY <2>2, <2>3
<1>7. new \in [Key -> {new[k] : k \in Key}]
  BY <1>5 DEF Register
<1>8. (n + 1) - 1 = n
  BY <1>1
<1>9. QED
  BY <1>6, <1>7, <1>8 DEF SignedUpTo

----------------------------------------------------------------------------
(* A block or the authorizer: what they have in common.                       *)
Unit(u) ==
  /\ u.facts \subseteq Fact
  /\ u.rules \subseteq Rule
  /\ u.scopes \subseteq Scope

LEMMA UnitShape ==
  /\ \A b \in Block : Unit(b)
  /\ \A c \in Content : Unit(c)
BY DEF Unit, Block, Content

(* The blocks a token has, by number, and the authorizer.                     *)
Place(token, id) == id = AuthorizerBlockID \/ id \in 0..(Len(token) - 1)

LEMMA PlaceShape ==
  ASSUME NEW token \in Token, NEW id, Place(token, id)
  PROVE  id \in BlockID
<1>1. CASE id = AuthorizerBlockID
  BY <1>1, AuthorizerAssumption
<1>2. CASE id \in 0..(Len(token) - 1)
  BY <1>2 DEF Token
<1>3. QED
  BY <1>1, <1>2 DEF Place

LEMMA TrustsType ==
  ASSUME NEW token \in Token, NEW id, Place(token, id),
         NEW scope \in Scope, NEW reg \in [Key -> SUBSET BlockID]
  PROVE  Trusts(scope, id, reg) \subseteq BlockID
<1>1. 0 \in BlockID
  BY TokenShape
<1>2. CASE scope.type = "authority"
  BY <1>1, <1>2 DEF Trusts
<1>3. CASE scope.type = "previous"
  <2>1. Trusts(scope, id, reg) = IF id = AuthorizerBlockID THEN {} ELSE 0..(id - 1)
    BY <1>3 DEF Trusts
  <2>2. id \in 0..(Len(token) - 1) => 0..(id - 1) \subseteq 0..(Len(token) - 1)
    BY TokenShape
  <2>3. 0..(Len(token) - 1) \subseteq BlockID
    BY DEF Token
  <2>4. QED
    BY <2>1, <2>2, <2>3 DEF Place
<1>4. CASE scope.type = "key"
  BY <1>4 DEF Trusts, Scope
<1>5. QED
  BY <1>2, <1>3, <1>4 DEF Scope

LEMMA TrustedType ==
  ASSUME NEW token \in Token, NEW id, Place(token, id),
         NEW outer \in SUBSET Scope, NEW inner \in SUBSET Scope,
         NEW reg \in [Key -> SUBSET BlockID]
  PROVE  TrustedOrigin(outer, inner, id, reg) \in Origin
<1> DEFINE scopes == IF inner # {} THEN inner ELSE outer
<1>1. scopes \in SUBSET Scope
  OBVIOUS
<1> HIDE DEF scopes
<1>2. 0 \in BlockID /\ AuthorizerBlockID \in BlockID /\ id \in BlockID
  BY TokenShape, PlaceShape
<1>3. UNION {Trusts(s, id, reg) : s \in scopes} \subseteq BlockID
  BY <1>1, TrustsType
<1>4. TrustedOrigin(outer, inner, id, reg) =
        {id, AuthorizerBlockID} \cup
          IF scopes = {} THEN {0} ELSE UNION {Trusts(s, id, reg) : s \in scopes}
  BY DEF TrustedOrigin, scopes
<1>5. QED
  BY <1>2, <1>3, <1>4 DEF Origin

LEMMA RulesOfType ==
  ASSUME NEW token \in Token, NEW id, Place(token, id),
         NEW u, Unit(u), NEW reg \in [Key -> SUBSET BlockID]
  PROVE  RulesOf(u, id, reg) \subseteq RuleInBlock
<1> SUFFICES ASSUME NEW r \in u.rules
             PROVE  [block |-> id, trusted |-> TrustedOrigin(u.scopes, r.scopes, id, reg),
                     instances |-> r.instances, failing |-> r.failing] \in RuleInBlock
  BY DEF RulesOf
<1>1. /\ r.scopes \in SUBSET Scope /\ r.instances \in SUBSET Instance
      /\ r.failing \in SUBSET Seq(Fact) /\ u.scopes \in SUBSET Scope
  BY DEF Unit, Rule
<1>2. TrustedOrigin(u.scopes, r.scopes, id, reg) \in Origin
  BY <1>1, TrustedType
<1>3. QED
  BY <1>1, <1>2, PlaceShape DEF RuleInBlock

LEMMA FactsOfType ==
  ASSUME NEW token \in Token, NEW id, Place(token, id), NEW u, Unit(u)
  PROVE  FactsOf(u, id) \subseteq Entry
<1>1. {id} \in Origin
  BY PlaceShape DEF Origin
<1>2. QED
  BY <1>1 DEF FactsOf, Entry, Unit

(* What Build has filed after n blocks.                                       *)
RulesUpTo(token, n) ==
  UNION {RulesOf(token[i], i - 1, SignedUpTo(token, i)) : i \in 1..n}
FactsUpTo(token, n) == UNION {FactsOf(token[i], i - 1) : i \in 1..n}

LEMMA UpToType ==
  ASSUME NEW token \in Token, NEW n \in 0..Len(token)
  PROVE  /\ RulesUpTo(token, n) \subseteq RuleInBlock
         /\ FactsUpTo(token, n) \subseteq Entry
<1>1. ASSUME NEW i \in 1..n
      PROVE  /\ RulesOf(token[i], i - 1, SignedUpTo(token, i)) \subseteq RuleInBlock
             /\ FactsOf(token[i], i - 1) \subseteq Entry
  <2>1. i \in 1..Len(token) /\ i \in 0..Len(token)
    BY TokenShape
  <2>2. Unit(token[i])
    BY <2>1, TokenShape, UnitShape
  <2>3. Place(token, i - 1)
    BY <2>1, TokenShape DEF Place
  <2>4. QED
    BY <2>1, <2>2, <2>3, SignedType, RulesOfType, FactsOfType
<1>2. QED
  BY <1>1 DEF RulesUpTo, FactsUpTo

LEMMA NextUpTo ==
  ASSUME NEW token \in Token, NEW n \in 0..(Len(token) - 1)
  PROVE  /\ RulesUpTo(token, n + 1) =
              RulesUpTo(token, n) \cup RulesOf(token[n + 1], n, SignedUpTo(token, n + 1))
         /\ FactsUpTo(token, n + 1) = FactsUpTo(token, n) \cup FactsOf(token[n + 1], n)
<1>1. n \in Nat /\ 1..(n + 1) = (1..n) \cup {n + 1} /\ (n + 1) - 1 = n
  BY TokenShape
<1>2. QED
  BY <1>1 DEF RulesUpTo, FactsUpTo

(* All of it, as the reference definitions have it.                           *)
LEMMA AllOfToken ==
  ASSUME NEW token \in Token, NEW a
  PROVE  /\ AllRules(token, a) =
              RulesUpTo(token, Len(token))
                \cup RulesOf(a, AuthorizerBlockID, Registry(token))
         /\ AllFacts(token, a) =
              FactsUpTo(token, Len(token)) \cup FactsOf(a, AuthorizerBlockID)
<1>1. DOMAIN token = 1..Len(token)
  BY TokenShape
<1>2. \A i \in 1..Len(token) : Registry(SubSeq(token, 1, i)) = SignedUpTo(token, i)
  BY RegistryOfPrefix
<1>3. {RulesOf(token[i], i - 1, Registry(SubSeq(token, 1, i))) : i \in DOMAIN token}
        = {RulesOf(token[i], i - 1, SignedUpTo(token, i)) : i \in 1..Len(token)}
  BY <1>1, <1>2
<1>4. QED
  BY <1>1, <1>3 DEF AllRules, AllFacts, RulesUpTo, FactsUpTo

LEMMA AllType ==
  ASSUME NEW token \in Token, NEW a \in Content
  PROVE  /\ Registry(token) \in [Key -> SUBSET BlockID]
         /\ AllRules(token, a) \in SUBSET RuleInBlock
         /\ AllFacts(token, a) \in SUBSET Entry
<1>1. Len(token) \in 0..Len(token)
  BY TokenShape
<1>2. Registry(token) \in [Key -> SUBSET BlockID]
  BY <1>1, RegistryOfToken, SignedType
<1>3. Place(token, AuthorizerBlockID) /\ Unit(a)
  BY UnitShape DEF Place
<1>4. /\ RulesOf(a, AuthorizerBlockID, Registry(token)) \subseteq RuleInBlock
      /\ FactsOf(a, AuthorizerBlockID) \subseteq Entry
  BY <1>2, <1>3, RulesOfType, FactsOfType
<1>5. QED
  BY <1>1, <1>2, <1>4, AllOfToken, UpToType

----------------------------------------------------------------------------
LEMMA LeastIndex ==
  ASSUME NEW S \in SUBSET Nat, S # {}
  PROVE  \E i \in S : \A j \in S : i <= j
<1>1. PICK i \in S : \A j \in S : ~(<<j, i>> \in OpToRel(<, Nat))
  BY NatLessThanWellFounded, WFMin, Zenon
<1>2. \A j \in S : ~(j < i)
  BY <1>1 DEF OpToRel
<1>3. QED
  BY <1>2

First(S) == CHOOSE i \in S : \A j \in S : i <= j

LEMMA FirstIndex ==
  ASSUME NEW n \in Nat, NEW S \in SUBSET (1..n), S # {}
  PROVE  First(S) \in S /\ \A j \in 1..(First(S) - 1) : j \notin S
<1>1. S \in SUBSET Nat
  OBVIOUS
<1>2. \E i \in S : \A j \in S : i <= j
  BY <1>1, LeastIndex
<1>3. First(S) \in S /\ \A j \in S : First(S) <= j
  BY <1>2 DEF First
<1>4. ASSUME NEW j \in 1..(First(S) - 1)
      PROVE  j \notin S
  <2>1. First(S) \in Nat
    <3>1. \A i \in S : i \in Nat
      OBVIOUS
    <3>2. QED
      BY <1>3, <3>1
  <2>2. j < First(S) /\ j \in Nat
    BY <2>1
  <2>3. QED
    BY <1>3, <2>1, <2>2
<1>5. QED
  BY <1>3, <1>4

(* Of an authorizer's policies, the first that does not just fail to match    *)
(* decides.                                                                   *)
PolicyOutcome(policies, i, reg, entries) ==
  FirstMatch(policies[i].queries, {}, reg, entries)

LEMMA PolicyDecides ==
  ASSUME NEW policies \in Seq(Policy), NEW reg, NEW entries,
         PolicyVerdict(policies, reg, entries) # "noPolicy"
  PROVE  \E i \in 1..Len(policies) :
           /\ PolicyOutcome(policies, i, reg, entries) # "fail"
           /\ \A j \in 1..(i - 1) : PolicyOutcome(policies, j, reg, entries) = "fail"
           /\ PolicyVerdict(policies, reg, entries) =
                IF PolicyOutcome(policies, i, reg, entries) = "error"
                THEN "error" ELSE policies[i].kind
<1> DEFINE outcome(i) == PolicyOutcome(policies, i, reg, entries)
           stops == {i \in DOMAIN policies : outcome(i) # "fail"}
           i == First(stops)
<1>1. Len(policies) \in Nat /\ DOMAIN policies = 1..Len(policies)
  BY LenProperties
<1>2. PolicyVerdict(policies, reg, entries) =
        IF stops = {} THEN "noPolicy"
        ELSE IF outcome(i) = "error" THEN "error" ELSE policies[i].kind
  BY DEF PolicyVerdict, PolicyOutcome, First
<1>3. stops \in SUBSET (1..Len(policies)) /\ \A j \in stops : outcome(j) # "fail"
  BY <1>1
<1>4. \A j \in 1..Len(policies) : j \notin stops => outcome(j) = "fail"
  BY <1>1
<1> HIDE DEF stops, outcome
<1>5. stops # {}
  BY <1>2
<1>6. i \in stops /\ \A j \in 1..(i - 1) : j \notin stops
  BY <1>1, <1>3, <1>5, FirstIndex
<1> HIDE DEF i
<1>7. \A j \in 1..(i - 1) : j \in 1..Len(policies)
  BY <1>1, <1>3, <1>6
<1>8. /\ i \in 1..Len(policies) /\ outcome(i) # "fail"
      /\ \A j \in 1..(i - 1) : outcome(j) = "fail"
  BY <1>3, <1>4, <1>6, <1>7
<1>9. QED
  BY <1>2, <1>5, <1>8 DEF outcome

----------------------------------------------------------------------------
(* What an authorizer works on.  Build files what the reference says, block   *)
(* by block; afterwards the rules stay, and all that was derived, merged or   *)
(* still to be merged lies in the least model.                                *)
Built == phase \notin {"building", "failed"}

Model == Saturated(blocks, content)

WorldInv ==
  /\ blocks \in Tokens \cap Token
  /\ content \in Contents
  /\ phase \in {"building", "failed", "ready", "running", "checking", "deciding"}
  /\ loaded \in 0..Len(blocks)
  /\ registry = SignedUpTo(blocks, loaded)
  /\ groups \subseteq Groups
  /\ ~Built => /\ rules = RulesUpTo(blocks, loaded)
               /\ facts = FactsUpTo(blocks, loaded)
               /\ fresh = {} /\ stale = {} /\ verdict = "none"
  /\ Built => /\ loaded = Len(blocks)
              /\ rules = AllRules(blocks, content)
              /\ AllFacts(blocks, content) \subseteq facts
              /\ facts \subseteq Model /\ fresh \subseteq Model /\ stale \subseteq Model

(* A run that no earlier one disturbs: no other goroutine merges, the groups  *)
(* visited have contributed all they can, and a run that ends well leaves the *)
(* whole least model.                                                         *)
RunInv ==
  ~overlapped =>
    /\ phase \in {"running", "checking", "deciding"} => stale = {}
    /\ phase = "running" =>
         \A rib \in rules : rib.trusted \notin groups => Contribution(rib, facts) \subseteq fresh
    /\ phase \in {"checking", "deciding"} => facts = Model

LEMMA ModelShape ==
  ASSUME WorldInv
  PROVE  /\ blocks \in Token /\ content \in Content
         /\ Model \in SUBSET Entry
         /\ AllFacts(blocks, content) \subseteq Model
         /\ Closed(AllRules(blocks, content), Model)
         /\ AllRules(blocks, content) \in SUBSET RuleInBlock
<1>1. blocks \in Token /\ content \in Content
  BY AuthorizerAssumption DEF WorldInv
<1>2. /\ AllRules(blocks, content) \in SUBSET RuleInBlock
      /\ AllFacts(blocks, content) \in SUBSET Entry
  BY <1>1, AllType
<1>3. QED
  BY <1>1, <1>2, LeastModelIsModel DEF Model, Saturated

(* Facts closed under the rules are the least model.                          *)
LEMMA ClosedIsModel ==
  ASSUME WorldInv, Built, Closed(rules, facts)
  PROVE  facts = Model
<1>1. blocks \in Token /\ content \in Content
  BY ModelShape
<1>2. /\ AllRules(blocks, content) \in SUBSET RuleInBlock
      /\ AllFacts(blocks, content) \in SUBSET Entry
  BY <1>1, AllType
<1>3. /\ rules = AllRules(blocks, content) /\ facts \subseteq Model
      /\ AllFacts(blocks, content) \subseteq facts
  BY DEF WorldInv
<1>4. facts \in SUBSET Entry
  BY <1>3, ModelShape
<1>5. Model \subseteq facts
  BY <1>2, <1>3, <1>4, LeastModelLeast DEF Model, Saturated
<1>6. QED
  BY <1>3, <1>5

(* What derives from facts of the least model lies in it.                     *)
LEMMA DerivedInModel ==
  ASSUME WorldInv, Built, NEW some, some \subseteq rules
  PROVE  Consequences(some, facts) \subseteq Model
<1>1. rules = AllRules(blocks, content) /\ facts \subseteq Model
  BY DEF WorldInv
<1>2. Consequences(some, facts) \subseteq Consequences(rules, facts)
  BY DEF Consequences
<1>3. Consequences(rules, facts) \subseteq Consequences(rules, Model)
  BY <1>1, ConsequencesMonotone
<1>4. Consequences(rules, Model) \subseteq Model
  BY <1>1, ModelShape DEF Closed
<1>5. QED
  BY <1>2, <1>3, <1>4

(* What no step changes: the token and the content, and after Build all that  *)
(* Build has filed.                                                           *)
LEMMA Frame ==
  ASSUME [Next]_vars
  PROVE  /\ blocks' = blocks /\ content' = content /\ Model' = Model
         /\ Built => /\ Built' /\ loaded' = loaded /\ registry' = registry
                     /\ rules' = rules
<1> USE DEF inputs, building, round, decision
<1>1. /\ blocks' = blocks /\ content' = content
      /\ Built => /\ Built' /\ loaded' = loaded /\ registry' = registry
                  /\ rules' = rules
  <2>1. CASE LoadBlock
    BY <2>1 DEF LoadBlock, Built
  <2>2. CASE LoadAuthorizer
    BY <2>2 DEF LoadAuthorizer, Built
  <2>3. CASE \E op \in {"authorize", "query"} : StartCall(op)
    BY <2>3 DEF StartCall, Built
  <2>4. CASE ApplyGroup \/ NextRound
    BY <2>4 DEF ApplyGroup, NextRound, RoundEnds, Built
  <2>5. CASE RunDone \/ RunError \/ RunTimeout
    BY <2>5 DEF RunDone, RunError, RunTimeout, RoundEnds, Return, Built
  <2>6. CASE StaleMerge
    BY <2>6 DEF StaleMerge, Built
  <2>7. CASE EvaluateCheck \/ EndChecks
    BY <2>7 DEF EvaluateCheck, EndChecks, Return, Built
  <2>8. CASE EvaluatePolicy
    BY <2>8 DEF EvaluatePolicy, Return, Built
  <2>9. CASE EndPolicies
    BY <2>9 DEF EndPolicies, Return, Built
  <2>10. CASE UNCHANGED vars
    BY <2>10 DEF vars, Built
  <2>11. QED
    BY <2>1, <2>2, <2>3, <2>4, <2>5, <2>6, <2>7, <2>8, <2>9, <2>10 DEF Next
<1>2. QED
  BY <1>1 DEF Model

LEMMA WorldInvInit == Init => WorldInv
<1> SUFFICES ASSUME Init PROVE WorldInv
  OBVIOUS
<1>1. blocks \in Tokens \cap Token /\ 0 \in 0..Len(blocks)
  BY TokenShape, TokensWellFormed DEF Init
<1>2. SignedUpTo(blocks, 0) = NoSignatures
  BY DEF SignedUpTo, NoSignatures
<1>3. RulesUpTo(blocks, 0) = {} /\ FactsUpTo(blocks, 0) = {}
  BY DEF RulesUpTo, FactsUpTo
<1>4. QED
  BY <1>1, <1>2, <1>3 DEF Init, WorldInv, Built

LEMMA LoadBlockInv ==
  ASSUME WorldInv, LoadBlock
  PROVE  WorldInv'
<1> DEFINE b == blocks[loaded + 1]
           reg == Register(registry, b, loaded)
<1>1. /\ blocks \in Token /\ loaded \in 0..Len(blocks) /\ phase = "building"
      /\ loaded < Len(blocks) /\ registry = SignedUpTo(blocks, loaded)
      /\ rules = RulesUpTo(blocks, loaded) /\ facts = FactsUpTo(blocks, loaded)
      /\ blocks' = blocks /\ content' = content
      /\ groups \subseteq Groups /\ groups' = groups
      /\ UNCHANGED <<fresh, stale, verdict>>
  BY DEF LoadBlock, WorldInv, Built, inputs, round
<1>2. Len(blocks) \in Nat /\ loaded \in 0..(Len(blocks) - 1)
  BY <1>1, TokenShape
<1>3. CASE Hydrates(blocks, loaded + 1)
  <2>1. /\ registry' = reg /\ loaded' = loaded + 1 /\ phase' = phase
        /\ facts' = facts \cup FactsOf(b, loaded)
        /\ rules' = rules \cup RulesOf(b, loaded, reg)
    BY <1>3 DEF LoadBlock
  <2>2. reg = SignedUpTo(blocks, loaded + 1)
    BY <1>1, <1>2, RegisterNext
  <2>3. /\ rules' = RulesUpTo(blocks, loaded + 1)
        /\ facts' = FactsUpTo(blocks, loaded + 1)
    BY <1>1, <1>2, <2>1, <2>2, NextUpTo
  <2>4. loaded' \in 0..Len(blocks)
    BY <1>2, <2>1
  <2>5. groups' \subseteq Groups'
    BY <1>1, <2>1 DEF Groups
  <2>6. QED
    BY <1>1, <2>1, <2>2, <2>3, <2>4, <2>5 DEF WorldInv, Built
<1>4. CASE ~Hydrates(blocks, loaded + 1)
  <2>1. /\ phase' = "failed" /\ registry' = registry /\ facts' = facts
        /\ rules' = rules /\ loaded' = loaded
    BY <1>4 DEF LoadBlock
  <2>2. groups' \subseteq Groups'
    BY <1>1, <2>1 DEF Groups
  <2>3. QED
    BY <1>1, <2>1, <2>2 DEF WorldInv, Built
<1>5. QED
  BY <1>3, <1>4

LEMMA LoadAuthorizerInv ==
  ASSUME WorldInv, LoadAuthorizer
  PROVE  WorldInv'
<1>1. /\ blocks \in Token /\ content \in Contents /\ loaded = Len(blocks)
      /\ phase = "building" /\ phase' = "ready"
      /\ registry = SignedUpTo(blocks, loaded)
      /\ facts' = FactsUpTo(blocks, loaded) \cup FactsOf(content, AuthorizerBlockID)
      /\ rules' = RulesUpTo(blocks, loaded)
                    \cup RulesOf(content, AuthorizerBlockID, registry)
      /\ fresh = {} /\ stale = {} /\ groups \subseteq Groups
      /\ rules = RulesUpTo(blocks, loaded)
      /\ UNCHANGED <<blocks, content, loaded, registry, groups, fresh, stale>>
  BY DEF LoadAuthorizer, WorldInv, Built, inputs, round
<1>2. registry = Registry(blocks)
  BY <1>1, RegistryOfToken
<1>3. rules' = AllRules(blocks, content) /\ facts' = AllFacts(blocks, content)
  BY <1>1, <1>2, AllOfToken
<1>4. facts' \subseteq Model
  BY <1>3, ModelShape
<1>5. Model' = Model
  BY <1>1 DEF Model
<1>6. groups' \subseteq Groups'
  BY <1>1 DEF Groups
<1>7. QED
  BY <1>1, <1>3, <1>4, <1>5, <1>6 DEF WorldInv, Built

(* After Build, a step is harmless when it only moves derived facts.          *)
LEMMA GrowthInv ==
  ASSUME WorldInv, [Next]_vars, Built,
         phase' \in {"ready", "running", "checking", "deciding"},
         groups' \subseteq Groups,
         facts \subseteq facts', facts' \subseteq Model,
         fresh' \subseteq Model, stale' \subseteq Model
  PROVE  WorldInv'
<1>1. /\ blocks' = blocks /\ content' = content /\ Model' = Model
      /\ Built' /\ loaded' = loaded /\ registry' = registry /\ rules' = rules
  BY Frame
<1>2. Groups' = Groups
  BY <1>1 DEF Groups
<1>3. QED
  BY <1>1, <1>2 DEF WorldInv

LEMMA WorldInvNext == WorldInv /\ [Next]_vars => WorldInv'
<1> SUFFICES ASSUME WorldInv, [Next]_vars PROVE WorldInv'
  OBVIOUS
<1> USE DEF inputs, building, round, decision
<1>1. Built => /\ groups \subseteq Groups /\ facts \subseteq Model
               /\ fresh \subseteq Model /\ stale \subseteq Model
               /\ phase \in {"ready", "running", "checking", "deciding"}
  BY DEF WorldInv, Built
<1>2. ASSUME NEW op \in {"authorize", "query"}, StartCall(op)
      PROVE  WorldInv'
  BY <1>1, <1>2, GrowthInv DEF StartCall, Built
<1>3. CASE ApplyGroup
  <2>1. PICK trusted \in groups : fresh' = fresh \cup Consequences(Group(trusted), facts)
    BY <1>3 DEF ApplyGroup
  <2>2. Group(trusted) \subseteq rules
    BY DEF Group
  <2>3. Built /\ groups' \subseteq groups /\ UNCHANGED <<phase, facts, stale>>
    BY <1>3 DEF ApplyGroup, Built
  <2>4. fresh' \subseteq Model
    BY <1>1, <2>1, <2>2, <2>3, DerivedInModel
  <2>5. QED
    BY <1>1, <2>3, <2>4, GrowthInv
<1>4. CASE NextRound
  BY <1>1, <1>4, GrowthInv DEF NextRound, RoundEnds, Built
<1>5. CASE RunDone
  <2>1. /\ Built /\ groups' = {} /\ fresh' = {} /\ UNCHANGED <<facts, stale>>
        /\ phase' \in {"ready", "checking"}
    BY <1>5 DEF RunDone, Return, RoundEnds, Built
  <2>2. QED
    BY <1>1, <2>1, GrowthInv
<1>6. CASE RunError
  <2>1. /\ Built /\ groups' = {} /\ fresh' = {} /\ UNCHANGED stale
        /\ phase' = "ready" /\ facts' \in {facts, facts \cup fresh}
    BY <1>6 DEF RunError, Return, Built
  <2>2. QED
    BY <1>1, <2>1, GrowthInv
<1>7. CASE RunTimeout
  <2>1. /\ Built /\ groups' = {} /\ fresh' = {} /\ UNCHANGED facts
        /\ phase' = "ready" /\ stale' \subseteq stale \cup fresh
    BY <1>7 DEF RunTimeout, Return, Built
  <2>2. QED
    BY <1>1, <2>1, GrowthInv
<1>8. CASE StaleMerge
  <2>1. PICK entry \in stale : facts' = facts \cup {entry} /\ stale' = stale \ {entry}
    BY <1>8 DEF StaleMerge
  <2>2. Built /\ UNCHANGED <<phase, groups, fresh>>
    BY <1>8, <2>1 DEF StaleMerge, WorldInv
  <2>3. QED
    BY <1>1, <2>1, <2>2, GrowthInv
<1>9. CASE EvaluateCheck \/ EndChecks \/ EvaluatePolicy \/ EndPolicies
  <2>1. /\ Built /\ UNCHANGED <<facts, stale>>
        /\ groups' \in {groups, {}} /\ fresh' \in {fresh, {}}
        /\ phase' \in {phase, "ready", "deciding"}
    BY <1>9 DEF EvaluateCheck, EndChecks, EvaluatePolicy, EndPolicies, Return, Built
  <2>2. QED
    BY <1>1, <2>1, GrowthInv
<1>10. CASE UNCHANGED vars
  BY <1>10 DEF vars, WorldInv, Built, Model, Groups
<1>11. QED
  BY <1>2, <1>3, <1>4, <1>5, <1>6, <1>7, <1>8, <1>9, <1>10,
     LoadBlockInv, LoadAuthorizerInv DEF Next

LEMMA RunInvNext == WorldInv /\ RunInv /\ [Next]_vars => RunInv'
<1> SUFFICES ASSUME WorldInv, RunInv, [Next]_vars, ~overlapped'
             PROVE  /\ phase' \in {"running", "checking", "deciding"} => stale' = {}
                    /\ phase' = "running" =>
                         \A rib \in rules' :
                           rib.trusted \notin groups' => Contribution(rib, facts') \subseteq fresh'
                    /\ phase' \in {"checking", "deciding"} => facts' = Model'
  BY DEF RunInv
<1> USE DEF inputs, building, round, decision
<1>1. CASE LoadBlock \/ LoadAuthorizer
  BY <1>1 DEF LoadBlock, LoadAuthorizer
<1>2. ASSUME NEW op \in {"authorize", "query"}, StartCall(op)
      PROVE  phase' = "running" /\ stale' = {} /\ \A rib \in rules' : rib.trusted \in groups'
  BY <1>2 DEF StartCall, Groups
<1>3. Built => rules' = rules /\ Model' = Model
  BY Frame
<1>4. ~overlapped \/ \E op \in {"authorize", "query"} : StartCall(op)
  BY DEF Next, vars, LoadBlock, LoadAuthorizer, ApplyGroup, NextRound, RunDone, RunError,
         RunTimeout, StaleMerge, EvaluateCheck, EndChecks, EvaluatePolicy, EndPolicies, Return
<1>5. CASE ~overlapped /\ ApplyGroup
  <2>1. PICK trusted \in groups : /\ fresh' = fresh \cup Consequences(Group(trusted), facts)
                                  /\ groups' = groups \ {trusted}
    BY <1>5 DEF ApplyGroup
  <2>2. Built /\ phase = "running" /\ UNCHANGED <<phase, facts, stale>>
    BY <1>5 DEF ApplyGroup, Built
  <2>3. ASSUME NEW rib \in rules, rib.trusted \notin groups'
        PROVE  Contribution(rib, facts) \subseteq fresh'
    <3>1. CASE rib.trusted = trusted
      BY <2>1, <3>1 DEF Consequences, Group
    <3>2. CASE rib.trusted # trusted
      BY <1>5, <2>1, <2>2, <2>3, <3>2 DEF RunInv
    <3>3. QED
      BY <3>1, <3>2
  <2>4. QED
    BY <1>3, <1>5, <2>2, <2>3 DEF RunInv
<1>6. CASE ~overlapped /\ NextRound
  BY <1>3, <1>6 DEF NextRound, RoundEnds, RunInv, Groups, Built
<1>7. CASE ~overlapped /\ RunDone
  <2>1. Built /\ phase = "running" /\ groups = {} /\ fresh \subseteq facts
        /\ UNCHANGED <<facts, stale>> /\ phase' # "running"
    BY <1>7 DEF RunDone, RoundEnds, Return, Built
  <2>2. Closed(rules, facts)
    BY <1>7, <2>1 DEF RunInv, Closed, Consequences
  <2>3. QED
    BY <1>3, <1>7, <2>1, <2>2, ClosedIsModel DEF RunInv
<1>8. CASE RunError \/ RunTimeout
  BY <1>8 DEF RunError, RunTimeout, Return
<1>9. CASE ~overlapped /\ StaleMerge
  BY <1>9 DEF StaleMerge, RunInv
<1>10. CASE ~overlapped /\ (EvaluateCheck \/ EndChecks \/ EvaluatePolicy \/ EndPolicies)
  <2>1. /\ phase \in {"checking", "deciding"} /\ Built /\ UNCHANGED <<facts, stale>>
        /\ phase' \in {"ready", "checking", "deciding"}
    BY <1>10 DEF EvaluateCheck, EndChecks, EvaluatePolicy, EndPolicies, Return, Built
  <2>2. QED
    BY <1>3, <1>10, <2>1 DEF RunInv
<1>11. CASE ~overlapped /\ UNCHANGED vars
  BY <1>11 DEF vars, RunInv, Model
<1>12. QED
  BY <1>1, <1>2, <1>4, <1>5, <1>6, <1>7, <1>8, <1>9, <1>10, <1>11 DEF Next

LEMMA InvHolds == Spec => [](WorldInv /\ RunInv)
<1>1. Init => RunInv
  BY DEF Init, RunInv
<1>2. QED
  BY <1>1, WorldInvInit, WorldInvNext, RunInvNext, PTL DEF Spec

(* What an authorizer works on, however its calls were cut short: nothing     *)
(* outside the least model of its token's and its own rules, and all of that  *)
(* model when Authorize evaluates checks and policies, provided that no run   *)
(* began while an earlier one could still merge.                              *)
THEOREM WorksOnLeastModel ==
  Spec => [](/\ Built => facts \cup fresh \cup stale \subseteq Model
             /\ ~overlapped /\ phase \in {"checking", "deciding"} => facts = Model)
<1>1. WorldInv /\ RunInv =>
        /\ Built => facts \cup fresh \cup stale \subseteq Model
        /\ ~overlapped /\ phase \in {"checking", "deciding"} => facts = Model
  BY DEF WorldInv, RunInv
<1>2. QED
  BY <1>1, InvHolds, PTL

----------------------------------------------------------------------------
(* What a scope trusts, block by block.                                       *)
ReadsBy(scope, id, j) ==
  CASE scope.type = "authority" -> j = 0
    [] scope.type = "previous"  -> j < id /\ id # AuthorizerBlockID
    [] scope.type = "key"       -> j \in 1..id /\ blocks[j + 1].signer = scope.key

(* Which blocks a rule reads: a key stands for the blocks it signed up to the *)
(* rule's own, since the signers of later ones are registered later.          *)
Reads(unit, rule, id, j) ==
  LET scopes == IF rule.scopes # {} THEN rule.scopes ELSE unit.scopes
  IN j = id \/ (j = 0 /\ scopes = {}) \/ \E s \in scopes : ReadsBy(s, id, j)

(* The number of blocks whose signers are known when a unit is filed.         *)
KnownAt(id) == IF id = AuthorizerBlockID THEN Len(blocks) ELSE id + 1

LEMMA TrustsReads ==
  ASSUME blocks \in Token, NEW id, Place(blocks, id), NEW scope \in Scope,
         NEW j
  PROVE  j \in Trusts(scope, id, SignedUpTo(blocks, KnownAt(id)))
           <=> j \in 0..(Len(blocks) - 1) /\ ReadsBy(scope, id, j)
<1>1. /\ Len(blocks) \in Nat /\ Len(blocks) >= 1
      /\ Len(blocks) <= AuthorizerBlockID /\ AuthorizerBlockID \in Nat
  BY TokenShape
<1>2. id \in Nat /\ (id # AuthorizerBlockID => id \in 0..(Len(blocks) - 1))
  BY <1>1 DEF Place
<1>3. CASE scope.type = "authority"
  BY <1>1, <1>3 DEF Trusts, ReadsBy
<1>4. CASE scope.type = "previous"
  <2>1. CASE id = AuthorizerBlockID
    BY <1>4, <2>1 DEF Trusts, ReadsBy
  <2>2. CASE id # AuthorizerBlockID
    <3>1. Trusts(scope, id, SignedUpTo(blocks, KnownAt(id))) = 0..(id - 1)
      BY <1>4, <2>2 DEF Trusts
    <3>2. ReadsBy(scope, id, j) <=> j < id
      BY <1>4, <2>2 DEF ReadsBy
    <3>3. j \in 0..(id - 1) <=> j \in 0..(Len(blocks) - 1) /\ j < id
      BY <1>1, <1>2, <2>2
    <3>4. QED
      BY <3>1, <3>2, <3>3
  <2>3. QED
    BY <2>1, <2>2
<1>5. CASE scope.type = "key"
  <2>1. scope.key \in Key
    BY <1>5 DEF Scope
  <2>2. Trusts(scope, id, SignedUpTo(blocks, KnownAt(id)))
          = {i \in 1..(KnownAt(id) - 1) : blocks[i + 1].signer = scope.key}
    BY <1>5, <2>1 DEF Trusts, SignedUpTo
  <2>3. ReadsBy(scope, id, j) <=> j \in 1..id /\ blocks[j + 1].signer = scope.key
    BY <1>5 DEF ReadsBy
  <2>4. j \in 1..(KnownAt(id) - 1) <=> j \in 0..(Len(blocks) - 1) /\ j \in 1..id
    BY <1>1, <1>2 DEF KnownAt
  <2>5. QED
    BY <2>2, <2>3, <2>4
<1>6. QED
  BY <1>3, <1>4, <1>5 DEF Scope

LEMMA TrustedReads ==
  ASSUME blocks \in Token, NEW id, Place(blocks, id), NEW u, Unit(u),
         NEW r \in u.rules
  PROVE  TrustedOrigin(u.scopes, r.scopes, id, SignedUpTo(blocks, KnownAt(id)))
           = {AuthorizerBlockID} \cup
               {j \in 0..(Len(blocks) - 1) : Reads(u, r, id, j)}
<1> DEFINE scopes == IF r.scopes # {} THEN r.scopes ELSE u.scopes
           reg == SignedUpTo(blocks, KnownAt(id))
           trusted == TrustedOrigin(u.scopes, r.scopes, id, reg)
<1>1. scopes \in SUBSET Scope
  BY DEF Unit, Rule
<1>2. \A j : Reads(u, r, id, j) <=>
               \/ j = id
               \/ j = 0 /\ scopes = {}
               \/ \E s \in scopes : ReadsBy(s, id, j)
  BY DEF Reads
<1>3. trusted = {id, AuthorizerBlockID} \cup
                  IF scopes = {} THEN {0} ELSE UNION {Trusts(s, id, reg) : s \in scopes}
  BY DEF TrustedOrigin
<1> HIDE DEF scopes, trusted, reg
<1>4. \A j : \A s \in scopes :
        j \in Trusts(s, id, reg) <=> j \in 0..(Len(blocks) - 1) /\ ReadsBy(s, id, j)
  BY <1>1, TrustsReads DEF reg
<1>5. \A j : j \in UNION {Trusts(s, id, reg) : s \in scopes}
               <=> j \in 0..(Len(blocks) - 1) /\ \E s \in scopes : ReadsBy(s, id, j)
  BY <1>4
<1>6. id = AuthorizerBlockID \/ id \in 0..(Len(blocks) - 1)
  BY DEF Place
<1>7. 0 \in 0..(Len(blocks) - 1)
  BY TokenShape
<1>8. ASSUME NEW j
      PROVE  j \in trusted <=>
               \/ j = AuthorizerBlockID
               \/ j \in 0..(Len(blocks) - 1) /\ Reads(u, r, id, j)
  <2>1. CASE scopes = {}
    BY <1>2, <1>3, <1>6, <1>7, <2>1
  <2>2. CASE scopes # {}
    <3>1. trusted = {id, AuthorizerBlockID} \cup UNION {Trusts(s, id, reg) : s \in scopes}
      BY <1>3, <2>2
    <3>2. QED
      BY <1>2, <1>5, <1>6, <2>2, <3>1
  <2>3. QED
    BY <2>1, <2>2
<1>9. QED
  BY <1>8 DEF trusted, reg

(* Whatever Build has filed so far, no rule reads a block it does not name.   *)
THEOREM NoRuleReadsMore == Spec => []RulesReadOnlyNamed
<1>1. WorldInv => RulesReadOnlyNamed
  <2> SUFFICES ASSUME WorldInv PROVE RulesReadOnlyNamed
    OBVIOUS
  <2> DEFINE names(u, r, id, j) ==
               LET scopes == IF r.scopes # {} THEN r.scopes ELSE u.scopes
               IN j = id \/ (j = 0 /\ scopes = {}) \/ \E s \in scopes : Names(s, id, j)
             written(u, id, rib) ==
               \E r \in u.rules :
                 /\ rib.block = id /\ rib.instances = r.instances
                 /\ \A j \in rib.trusted \ {AuthorizerBlockID} :
                      j \in 0..(Len(blocks) - 1) /\ names(u, r, id, j)
  <2>1. /\ blocks \in Token /\ content \in Content
        /\ Len(blocks) \in Nat /\ loaded \in 0..Len(blocks)
    BY ModelShape, TokenShape DEF WorldInv
  <2>2. ASSUME NEW u, Unit(u), NEW id, Place(blocks, id),
               NEW rib \in RulesOf(u, id, SignedUpTo(blocks, KnownAt(id)))
        PROVE  written(u, id, rib)
    <3>1. PICK r \in u.rules :
            rib = [block |-> id,
                   trusted |-> TrustedOrigin(u.scopes, r.scopes, id,
                                             SignedUpTo(blocks, KnownAt(id))),
                   instances |-> r.instances, failing |-> r.failing]
      BY <2>2 DEF RulesOf
    <3>2. rib.trusted = {AuthorizerBlockID} \cup
                          {j \in 0..(Len(blocks) - 1) : Reads(u, r, id, j)}
      BY <2>1, <2>2, <3>1, TrustedReads
    <3>3. r.scopes \in SUBSET Scope /\ u.scopes \in SUBSET Scope
      BY <2>2 DEF Unit, Rule
    <3>4. ASSUME NEW j \in 0..(Len(blocks) - 1), Reads(u, r, id, j)
          PROVE  names(u, r, id, j)
      <4>1. ASSUME NEW scope \in Scope, ReadsBy(scope, id, j)
            PROVE  Names(scope, id, j)
        <5>1. j \in 1..id => j > 0
          BY <2>1
        <5>2. scope.type \in {"authority", "previous", "key"}
          BY DEF Scope
        <5>3. QED
          BY <4>1, <5>1, <5>2 DEF ReadsBy, Names
      <4>2. QED
        BY <3>3, <3>4, <4>1 DEF Reads
    <3>5. QED
      BY <3>1, <3>2, <3>4
  <2>3. ASSUME NEW i \in 1..Len(blocks), NEW rib \in RulesOf(blocks[i], i - 1, SignedUpTo(blocks, i))
        PROVE  \E k \in DOMAIN blocks : written(blocks[k], k - 1, rib)
    <3>1. /\ i \in DOMAIN blocks /\ blocks[i] \in Block
          /\ i - 1 \in 0..(Len(blocks) - 1) /\ i - 1 # AuthorizerBlockID
          /\ (i - 1) + 1 = i
      BY <2>1, TokenShape
    <3>2. Unit(blocks[i]) /\ Place(blocks, i - 1) /\ KnownAt(i - 1) = i
      BY <3>1, UnitShape DEF Place, KnownAt
    <3>3. written(blocks[i], i - 1, rib)
      BY <2>2, <2>3, <3>2
    <3>4. QED
      BY <3>1, <3>3
  <2>4. ASSUME NEW rib \in RulesOf(content, AuthorizerBlockID, Registry(blocks))
        PROVE  written(content, AuthorizerBlockID, rib)
    <3>1. Unit(content) /\ Place(blocks, AuthorizerBlockID)
      BY <2>1, UnitShape DEF Place
    <3>2. SignedUpTo(blocks, KnownAt(AuthorizerBlockID)) = Registry(blocks)
      BY <2>1, RegistryOfToken DEF KnownAt
    <3>3. QED
      BY <2>2, <2>4, <3>1, <3>2
  <2>5. rules \subseteq RulesUpTo(blocks, Len(blocks))
                          \cup RulesOf(content, AuthorizerBlockID, Registry(blocks))
    <3>1. CASE Built
      BY <2>1, <3>1, AllOfToken DEF WorldInv
    <3>2. CASE ~Built
      <4>1. 1..loaded \subseteq 1..Len(blocks)
        BY <2>1
      <4>2. QED
        BY <3>2, <4>1 DEF WorldInv, RulesUpTo
    <3>3. QED
      BY <3>1, <3>2
  <2> HIDE DEF written
  <2>6. \A rib \in rules : \/ \E k \in DOMAIN blocks : written(blocks[k], k - 1, rib)
                          \/ written(content, AuthorizerBlockID, rib)
    BY <2>3, <2>4, <2>5 DEF RulesUpTo
  <2>7. QED
    BY <2>6 DEF RulesReadOnlyNamed, written
<1>2. QED
  BY <1>1, InvHolds, PTL

----------------------------------------------------------------------------
(* Dropping a token's last blocks.  The blocks that are left, and the         *)
(* identifiers that are not those of the dropped ones.                        *)
Prefix(token, n) == SubSeq(token, 1, n)
Kept(token, n) == BlockID \ (n..(Len(token) - 1))

(* No dropped block is signed by a key that the rest trusts by name.          *)
Unheard(token, a, n) ==
  \A i \in (n + 1)..Len(token) :
    ~IsThirdParty(token[i]) \/ token[i].signer \notin Named(Prefix(token, n), a)

KeysOf(scopes) == {s.key : s \in {s \in scopes : s.type = "key"}}

LEMMA PrefixWellFormed ==
  ASSUME NEW token \in Token, NEW n \in 1..(Len(token) - 1)
  PROVE  /\ n \in Nat /\ n \in 1..Len(token)
         /\ Prefix(token, n) \in Token /\ Len(Prefix(token, n)) = n
         /\ DOMAIN Prefix(token, n) = 1..n
         /\ \A i \in 1..n : Prefix(token, n)[i] = token[i]
<1>1. /\ Len(token) \in Nat /\ Len(token) <= AuthorizerBlockID
      /\ AuthorizerBlockID \in Nat /\ 0..(Len(token) - 1) \subseteq BlockID
  BY TokenShape DEF Token
<1>2. n \in Nat /\ n \in 1..Len(token) /\ n \in 1..AuthorizerBlockID
  BY <1>1
<1>3. /\ Prefix(token, n) \in Seq(Block) /\ Len(Prefix(token, n)) = n
      /\ DOMAIN Prefix(token, n) = 1..n
      /\ \A i \in 1..n : Prefix(token, n)[i] = token[i]
  BY <1>2, PrefixShape DEF Prefix
<1>4. 0..(n - 1) \subseteq 0..(Len(token) - 1)
  BY <1>1, <1>2
<1>5. Prefix(token, n) \in Token
  BY <1>1, <1>2, <1>3, <1>4 DEF Token
<1>6. QED
  BY <1>2, <1>3, <1>5

LEMMA PrefixSigned ==
  ASSUME NEW token \in Token, NEW n \in 1..(Len(token) - 1)
  PROVE  /\ Registry(Prefix(token, n)) = SignedUpTo(token, n)
         /\ \A i \in 1..n : SignedUpTo(Prefix(token, n), i) = SignedUpTo(token, i)
<1> DEFINE p == Prefix(token, n)
<1>1. n \in Nat /\ n \in 1..Len(token) /\ \A i \in 1..n : p[i] = token[i]
  BY PrefixWellFormed
<1> HIDE DEF p
<1>2. ASSUME NEW i \in 1..n
      PROVE  SignedUpTo(p, i) = SignedUpTo(token, i)
  <2>1. \A j \in 1..(i - 1) : p[j + 1] = token[j + 1]
    <3>1. TAKE j \in 1..(i - 1)
    <3>2. j + 1 \in 1..n
      BY <1>1
    <3>3. QED
      BY <1>1, <3>2
  <2>2. QED
    BY <2>1 DEF SignedUpTo
<1>3. Registry(Prefix(token, n)) = SignedUpTo(token, n)
  BY <1>1, RegistryOfPrefix DEF Prefix
<1>4. QED
  BY <1>2, <1>3 DEF p

(* The keys the rest trusts signed the same blocks before and after.          *)
LEMMA SameSigned ==
  ASSUME NEW token \in Token, NEW a, NEW n \in 1..(Len(token) - 1),
         Unheard(token, a, n),
         NEW k \in Key, k \in Named(Prefix(token, n), a)
  PROVE  Registry(token)[k] = Registry(Prefix(token, n))[k]
<1>1. Len(token) \in Nat /\ n \in Nat
  BY TokenShape, PrefixWellFormed
<1>2. /\ Registry(token)[k] = {j \in 1..(Len(token) - 1) : token[j + 1].signer = k}
      /\ Registry(Prefix(token, n))[k] = {j \in 1..(n - 1) : token[j + 1].signer = k}
  BY RegistryOfToken, PrefixSigned DEF SignedUpTo
<1>3. ASSUME NEW j \in 1..(Len(token) - 1), token[j + 1].signer = k
      PROVE  j \in 1..(n - 1)
  <2>1. SUFFICES ASSUME j >= n PROVE FALSE
    BY <1>1
  <2>2. j + 1 \in (n + 1)..Len(token)
    BY <1>1, <2>1
  <2>3. IsThirdParty(token[j + 1])
    BY <1>3, SignerAssumption DEF IsThirdParty
  <2>4. QED
    BY <1>3, <2>2, <2>3 DEF Unheard
<1>4. \A j \in 1..(n - 1) : j \in 1..(Len(token) - 1)
  BY <1>1
<1>5. QED
  BY <1>2, <1>3, <1>4

(* Two registries that agree on the keys of some scopes.                      *)
LEMMA TrustedSame ==
  ASSUME NEW outer \in SUBSET Scope, NEW inner \in SUBSET Scope, NEW id,
         NEW reg, NEW other,
         \A k \in KeysOf(outer \cup inner) : reg[k] = other[k]
  PROVE  TrustedOrigin(outer, inner, id, reg) = TrustedOrigin(outer, inner, id, other)
<1> DEFINE scopes == IF inner # {} THEN inner ELSE outer
<1>1. scopes \subseteq outer \cup inner /\ scopes \subseteq Scope
  OBVIOUS
<1>2. \A r : TrustedOrigin(outer, inner, id, r) =
               {id, AuthorizerBlockID} \cup
                 IF scopes = {} THEN {0} ELSE UNION {Trusts(s, id, r) : s \in scopes}
  BY DEF TrustedOrigin
<1> HIDE DEF scopes
<1>3. ASSUME NEW s \in scopes
      PROVE  Trusts(s, id, reg) = Trusts(s, id, other)
  <2>1. CASE s.type = "key"
    BY <1>1, <2>1 DEF KeysOf, Trusts
  <2>2. CASE s.type = "authority"
    BY <2>2 DEF Trusts
  <2>3. CASE s.type = "previous"
    BY <2>3 DEF Trusts
  <2>4. QED
    BY <1>1, <2>1, <2>2, <2>3 DEF Scope
<1>4. {Trusts(s, id, reg) : s \in scopes} = {Trusts(s, id, other) : s \in scopes}
  BY <1>3
<1>5. QED
  BY <1>2, <1>4

(* What the rest trusts is never a dropped block.                             *)
LEMMA TrustedKept ==
  ASSUME NEW token \in Token, NEW n \in 1..(Len(token) - 1),
         NEW id, Place(Prefix(token, n), id),
         NEW outer \in SUBSET Scope, NEW inner \in SUBSET Scope,
         NEW m \in 0..n
  PROVE  /\ id \in Kept(token, n)
         /\ TrustedOrigin(outer, inner, id, SignedUpTo(token, m)) \subseteq Kept(token, n)
<1> DEFINE reg == SignedUpTo(token, m)
           p == Prefix(token, n)
           trusted == TrustedOrigin(outer, inner, id, reg)
           scopes == IF inner # {} THEN inner ELSE outer
<1>1. /\ Len(token) \in Nat /\ n \in Nat /\ Len(token) <= AuthorizerBlockID
      /\ AuthorizerBlockID \in Nat /\ AuthorizerBlockID \in BlockID
      /\ p \in Token /\ Len(p) = n
  BY TokenShape, PrefixWellFormed
<1>2. m \in 0..Len(token) /\ m \in Nat
  BY <1>1
<1>3. reg \in [Key -> SUBSET BlockID]
  BY <1>2, SignedType
<1>4. trusted \subseteq BlockID /\ id \in BlockID
  BY <1>1, <1>3, TrustedType, PlaceShape DEF Origin
<1>5. id = AuthorizerBlockID \/ id \in 0..(n - 1)
  BY <1>1 DEF Place
<1>6. scopes \subseteq Scope
  OBVIOUS
<1>7. trusted = {id, AuthorizerBlockID} \cup
                  IF scopes = {} THEN {0} ELSE UNION {Trusts(s, id, reg) : s \in scopes}
  BY DEF TrustedOrigin
<1> HIDE DEF scopes, trusted, p
<1>8. ASSUME NEW s \in scopes, NEW j \in Trusts(s, id, reg)
      PROVE  j \in 0..(n - 1)
  <2>1. CASE s.type = "authority"
    BY <1>1, <1>8, <2>1 DEF Trusts
  <2>2. CASE s.type = "previous"
    <3>1. id # AuthorizerBlockID /\ j \in 0..(id - 1)
      BY <1>8, <2>2 DEF Trusts
    <3>2. QED
      BY <1>1, <1>5, <3>1
  <2>3. CASE s.type = "key"
    <3>1. s.key \in Key
      BY <1>6, <2>3 DEF Scope
    <3>2. j \in 1..(m - 1)
      BY <1>8, <2>3, <3>1 DEF Trusts, SignedUpTo
    <3>3. QED
      BY <1>1, <1>2, <3>2
  <2>4. QED
    BY <1>6, <2>1, <2>2, <2>3 DEF Scope
<1>9. \A j \in trusted : j \in 0..(n - 1) \/ j = AuthorizerBlockID
  <2>1. 0 \in 0..(n - 1)
    BY <1>1
  <2>2. CASE scopes = {}
    BY <1>5, <1>7, <2>1, <2>2
  <2>3. CASE scopes # {}
    BY <1>5, <1>7, <1>8, <2>3
  <2>4. QED
    BY <2>2, <2>3
<1>10. \A j : j \in 0..(n - 1) \/ j = AuthorizerBlockID => j \notin n..(Len(token) - 1)
  BY <1>1
<1>11. QED
  BY <1>4, <1>5, <1>9, <1>10 DEF Kept, trusted, reg

(* A unit's rules are the same whichever of the two tokens they belong to.    *)
LEMMA RulesSame ==
  ASSUME NEW u, Unit(u), NEW id, NEW reg, NEW other,
         \A k \in NamedKeys(u) : reg[k] = other[k]
  PROVE  RulesOf(u, id, reg) = RulesOf(u, id, other)
<1>1. ASSUME NEW r \in u.rules
      PROVE  TrustedOrigin(u.scopes, r.scopes, id, reg)
               = TrustedOrigin(u.scopes, r.scopes, id, other)
  <2>1. u.scopes \in SUBSET Scope /\ r.scopes \in SUBSET Scope
    BY DEF Unit, Rule
  <2>2. KeysOf(u.scopes \cup r.scopes) \subseteq NamedKeys(u)
    BY DEF KeysOf, NamedKeys
  <2>3. QED
    BY <2>1, <2>2, TrustedSame
<1>2. QED
  BY <1>1 DEF RulesOf

LEMMA QueryScopesType ==
  ASSUME NEW checks, NEW n \in Nat, DOMAIN checks = 1..n,
         \A i \in 1..n : checks[i].queries \in Seq(Query)
  PROVE  QueryScopes(checks) \subseteq Scope
<1>1. ASSUME NEW c \in Range(checks), NEW q \in Range(c.queries)
      PROVE  q.scopes \subseteq Scope
  <2>1. PICK i \in 1..n : c = checks[i]
    BY DEF Range
  <2>2. c.queries \in Seq(Query)
    BY <2>1
  <2>3. PICK j \in 1..Len(c.queries) : q = c.queries[j]
    BY <2>2, LenProperties DEF Range
  <2>4. q \in Query
    BY <2>2, <2>3, ElementOfSeq
  <2>5. QED
    BY <2>4 DEF Query
<1>2. QED
  BY <1>1 DEF QueryScopes

LEMMA UnitKeys ==
  ASSUME NEW u \in Block \cup Content
  PROVE  NamedKeys(u) \subseteq Key
<1>1. u.scopes \subseteq Scope /\ \A r \in u.rules : r.scopes \subseteq Scope
  BY DEF Block, Content, Rule
<1>2. u.checks \in Seq(Check)
  BY DEF Block, Content
<1>3. QueryScopes(u.checks) \subseteq Scope
  <2>1. Len(u.checks) \in Nat /\ DOMAIN u.checks = 1..Len(u.checks)
    BY <1>2, LenProperties
  <2>2. \A i \in 1..Len(u.checks) : u.checks[i] \in Check
    BY <1>2, ElementOfSeq
  <2>3. QED
    BY <2>1, <2>2, QueryScopesType DEF Check
<1>4. QED
  BY <1>1, <1>3 DEF NamedKeys, Scope

(* Of the facts that the whole token derives, the rest of it derives those    *)
(* that stem from no dropped block.                                           *)
LEMMA ModelKept ==
  ASSUME NEW token \in Token, NEW a \in Content, NEW n \in 1..(Len(token) - 1),
         Unheard(token, a, n)
  PROVE  WithOrigin(Saturated(token, a), Kept(token, n)) = Saturated(Prefix(token, n), a)
<1> DEFINE p    == Prefix(token, n)
           K    == Kept(token, n)
           rs   == AllRules(p, a)
           base == AllFacts(p, a)
           more == AllRules(token, a)
           given == AllFacts(token, a)
           own  == RulesOf(a, AuthorizerBlockID, Registry(p))
<1>1. /\ p \in Token /\ Len(p) = n /\ n \in Nat /\ Len(token) \in Nat
      /\ \A i \in 1..n : p[i] = token[i]
      /\ n \in 1..Len(token)
  BY PrefixWellFormed, TokenShape
<1>2. Unit(a) /\ Place(p, AuthorizerBlockID)
  BY UnitShape DEF Place
<1>3. RulesUpTo(p, n) = RulesUpTo(token, n) /\ FactsUpTo(p, n) = FactsUpTo(token, n)
  <2>1. \A i \in 1..n : RulesOf(p[i], i - 1, SignedUpTo(p, i))
                          = RulesOf(token[i], i - 1, SignedUpTo(token, i))
    BY <1>1, PrefixSigned
  <2>2. QED
    BY <1>1, <2>1 DEF RulesUpTo, FactsUpTo
<1>4. RulesOf(a, AuthorizerBlockID, Registry(token)) = own
  <2>1. \A k \in NamedKeys(a) : k \in Key
    BY UnitKeys
  <2>2. \A k \in NamedKeys(a) : Registry(token)[k] = Registry(p)[k]
    BY <2>1, SameSigned DEF Named
  <2>3. QED
    BY <1>2, <2>2, RulesSame
<1>5. rs = RulesUpTo(token, n) \cup own /\ base = FactsUpTo(token, n) \cup FactsOf(a, AuthorizerBlockID)
  BY <1>1, <1>3, AllOfToken
<1>6. /\ more = RulesUpTo(token, Len(token)) \cup own
      /\ given = FactsUpTo(token, Len(token)) \cup FactsOf(a, AuthorizerBlockID)
  BY <1>4, AllOfToken
<1>7. /\ rs \in SUBSET RuleInBlock /\ base \in SUBSET Entry
      /\ more \in SUBSET RuleInBlock /\ given \in SUBSET Entry
  BY <1>1, AllType
<1>8. rs \subseteq more /\ base \subseteq given
  <2>1. 1..n \subseteq 1..Len(token)
    BY <1>1
  <2>2. QED
    BY <1>5, <1>6, <2>1 DEF RulesUpTo, FactsUpTo
<1>9. ASSUME NEW u, Unit(u), NEW id, Place(p, id), NEW m \in 0..n
      PROVE  /\ \A rib \in RulesOf(u, id, SignedUpTo(token, m)) :
                  rib.block \in K /\ rib.trusted \subseteq K
             /\ \A e \in FactsOf(u, id) : e.origin \subseteq K
  <2>1. ASSUME NEW r \in u.rules
        PROVE  /\ id \in K
               /\ TrustedOrigin(u.scopes, r.scopes, id, SignedUpTo(token, m)) \subseteq K
    BY <1>9, TrustedKept DEF Unit, Rule
  <2>2. id \in K
    BY <1>9, TrustedKept
  <2>3. QED
    BY <2>1, <2>2 DEF RulesOf, FactsOf
<1>10. /\ \A rib \in rs : rib.block \in K /\ rib.trusted \subseteq K
       /\ \A e \in base : e.origin \subseteq K
  <2>1. ASSUME NEW i \in 1..n
        PROVE  /\ \A rib \in RulesOf(token[i], i - 1, SignedUpTo(token, i)) :
                    rib.block \in K /\ rib.trusted \subseteq K
               /\ \A e \in FactsOf(token[i], i - 1) : e.origin \subseteq K
    <3>1. i \in 1..Len(token) /\ i \in 0..n /\ i - 1 \in 0..(n - 1)
      BY <1>1
    <3>2. Unit(token[i]) /\ Place(p, i - 1)
      BY <1>1, <3>1, TokenShape, UnitShape DEF Place
    <3>3. QED
      BY <1>9, <3>1, <3>2
  <2>2. n \in 0..n /\ Registry(p) = SignedUpTo(token, n)
    BY <1>1, PrefixSigned
  <2>3. /\ \A rib \in own : rib.block \in K /\ rib.trusted \subseteq K
        /\ \A e \in FactsOf(a, AuthorizerBlockID) : e.origin \subseteq K
    BY <1>2, <1>9, <2>2
  <2>4. QED
    BY <1>5, <2>1, <2>3 DEF RulesUpTo, FactsUpTo
<1>11. /\ \A rib \in more \ rs : rib.block \notin K
       /\ \A e \in given \ base : ~(e.origin \subseteq K)
  <2>1. ASSUME NEW i \in 1..Len(token), i \notin 1..n
        PROVE  i - 1 \notin K
    BY <1>1, <2>1 DEF Kept
  <2>2. ASSUME NEW rib \in more \ rs
        PROVE  rib.block \notin K
    <3>1. PICK i \in 1..Len(token) : rib \in RulesOf(token[i], i - 1, SignedUpTo(token, i))
      BY <1>5, <1>6, <2>2 DEF RulesUpTo
    <3>2. i \notin 1..n
      BY <1>5, <2>2, <3>1 DEF RulesUpTo
    <3>3. rib.block = i - 1
      BY <3>1 DEF RulesOf
    <3>4. QED
      BY <2>1, <3>2, <3>3
  <2>3. ASSUME NEW e \in given \ base
        PROVE  ~(e.origin \subseteq K)
    <3>1. PICK i \in 1..Len(token) : e \in FactsOf(token[i], i - 1)
      BY <1>5, <1>6, <2>3 DEF FactsUpTo
    <3>2. i \notin 1..n
      BY <1>5, <2>3, <3>1 DEF FactsUpTo
    <3>3. e.origin = {i - 1}
      BY <3>1 DEF FactsOf
    <3>4. QED
      BY <2>1, <3>2, <3>3
  <2>4. QED
    BY <2>2, <2>3
<1> HIDE DEF p, K, rs, base, more, given
<1>12. WithOrigin(LeastModel(more, given), K) = LeastModel(rs, base)
  BY <1>7, <1>8, <1>10, <1>11, LeastModelKept
<1>13. QED
  BY <1>12 DEF Saturated, p, K, rs, base, more, given

(* A query that trusts only what the rest of the token names sees the same    *)
(* facts before and after.                                                    *)
Seen(outer, inner, id, reg, entries) ==
  WithOrigin(entries, TrustedOrigin(outer, inner, id, reg))

SeesTheSame(token, a, n, id, outer, inner) ==
  Seen(outer, inner, id, Registry(token), Saturated(token, a))
    = Seen(outer, inner, id, Registry(Prefix(token, n)), Saturated(Prefix(token, n), a))

LEMMA SeenSame ==
  ASSUME NEW token \in Token, NEW a \in Content, NEW n \in 1..(Len(token) - 1),
         Unheard(token, a, n),
         NEW id, Place(Prefix(token, n), id),
         NEW outer \in SUBSET Scope, NEW inner \in SUBSET Scope,
         KeysOf(outer \cup inner) \subseteq Named(Prefix(token, n), a)
  PROVE  SeesTheSame(token, a, n, id, outer, inner)
<1> DEFINE p == Prefix(token, n)
           K == Kept(token, n)
           T == TrustedOrigin(outer, inner, id, Registry(p))
<1>1. KeysOf(outer \cup inner) \subseteq Key
  BY DEF KeysOf, Scope
<1>2. \A k \in KeysOf(outer \cup inner) : Registry(token)[k] = Registry(p)[k]
  BY <1>1, SameSigned
<1>3. TrustedOrigin(outer, inner, id, Registry(token)) = T
  BY <1>2, TrustedSame
<1>4. T \subseteq K
  <2>1. n \in 0..n /\ Registry(p) = SignedUpTo(token, n)
    BY PrefixWellFormed, PrefixSigned
  <2>2. QED
    BY <2>1, TrustedKept
<1>5. WithOrigin(Saturated(token, a), K) = Saturated(p, a)
  BY ModelKept
<1> HIDE DEF T, K, p
<1>6. WithOrigin(WithOrigin(Saturated(token, a), K), T) = WithOrigin(Saturated(token, a), T)
  BY <1>4 DEF WithOrigin
<1>7. QED
  BY <1>3, <1>5, <1>6 DEF Seen, SeesTheSame, T, p

(* The outcome of the authorizer's i-th query.                                *)
QueryOutcome(queries, outer, i, reg, entries) ==
  QueryRule(queries[i], TrustedOrigin(outer, queries[i].scopes, AuthorizerBlockID, reg), entries)

LEMMA FirstMatchSame ==
  ASSUME NEW queries \in Seq(Query), NEW outer,
         NEW reg, NEW other, NEW entries, NEW fewer,
         \A i \in DOMAIN queries :
           Seen(outer, queries[i].scopes, AuthorizerBlockID, reg, entries)
             = Seen(outer, queries[i].scopes, AuthorizerBlockID, other, fewer)
  PROVE  FirstMatch(queries, outer, reg, entries) = FirstMatch(queries, outer, other, fewer)
<1> DEFINE left(i) == QueryOutcome(queries, outer, i, reg, entries)
           right(i) == QueryOutcome(queries, outer, i, other, fewer)
           ones == {i \in DOMAIN queries : left(i) # "fail"}
           twos == {i \in DOMAIN queries : right(i) # "fail"}
<1>1. ASSUME NEW i \in DOMAIN queries
      PROVE  left(i) = right(i)
  <2>1. Found(queries[i], Seen(outer, queries[i].scopes, AuthorizerBlockID, reg, entries))
          = Found(queries[i], Seen(outer, queries[i].scopes, AuthorizerBlockID, other, fewer))
    OBVIOUS
  <2>2. QED
    BY <2>1 DEF QueryOutcome, QueryRule, Seen
<1>2. FirstMatch(queries, outer, reg, entries)
        = IF ones = {} THEN "fail" ELSE left(First(ones))
  BY DEF FirstMatch, QueryOutcome, First
<1>3. FirstMatch(queries, outer, other, fewer)
        = IF twos = {} THEN "fail" ELSE right(First(twos))
  BY DEF FirstMatch, QueryOutcome, First
<1>4. ones = twos
  BY <1>1
<1>5. ones # {} => First(ones) \in DOMAIN queries
  <2>1. Len(queries) \in Nat /\ ones \in SUBSET (1..Len(queries))
    BY LenProperties
  <2> HIDE DEF ones
  <2>2. ones # {} => First(ones) \in ones
    BY <2>1, FirstIndex
  <2>3. QED
    BY <2>2 DEF ones
<1> HIDE DEF ones, twos, left, right
<1>6. QED
  BY <1>1, <1>2, <1>3, <1>4, <1>5

(* The scopes of a unit's queries are among those it names keys by.           *)
LEMMA ChecksShape ==
  ASSUME NEW checks, NEW S, S \in {Check, Policy}, checks \in Seq(S)
  PROVE  \A c \in Range(checks) :
           /\ c \in S /\ c.queries \in Seq(Query)
           /\ DOMAIN c.queries = 1..Len(c.queries) /\ Len(c.queries) \in Nat
           /\ \A i \in DOMAIN c.queries :
                /\ c.queries[i] \in Query
                /\ c.queries[i].scopes \in SUBSET Scope
                /\ c.queries[i].scopes \subseteq QueryScopes(checks)
<1>1. TAKE c \in Range(checks)
<1>2. PICK k \in 1..Len(checks) : c = checks[k]
  BY LenProperties DEF Range
<1>3. c \in S /\ c.queries \in Seq(Query)
  <2>1. c \in S
    BY <1>2, ElementOfSeq
  <2>2. CASE S = Check
    BY <2>1, <2>2 DEF Check
  <2>3. CASE S = Policy
    BY <2>1, <2>3 DEF Policy
  <2>4. QED
    BY <2>1, <2>2, <2>3
<1>4. DOMAIN c.queries = 1..Len(c.queries) /\ Len(c.queries) \in Nat
  BY <1>3, LenProperties
<1>5. ASSUME NEW i \in DOMAIN c.queries
      PROVE  /\ c.queries[i] \in Query
             /\ c.queries[i].scopes \in SUBSET Scope
             /\ c.queries[i].scopes \subseteq QueryScopes(checks)
  <2>1. c.queries[i] \in Query
    BY <1>3, <1>4, <1>5, ElementOfSeq
  <2>2. c.queries[i] \in Range(c.queries)
    BY <1>5 DEF Range
  <2>3. QED
    BY <1>1, <2>1, <2>2 DEF Query, QueryScopes
<1>6. QED
  BY <1>3, <1>4, <1>5

LEMMA NamedByContent ==
  ASSUME NEW token, NEW a, NEW outer, NEW inner,
         \/ outer \subseteq a.scopes /\ inner \subseteq QueryScopes(a.checks)
         \/ outer = {} /\ inner \subseteq QueryScopes(a.policies)
  PROVE  KeysOf(outer \cup inner) \subseteq Named(token, a)
<1>1. SUFFICES ASSUME NEW k \in KeysOf(outer \cup inner) PROVE k \in Named(token, a)
  OBVIOUS
<1>2. PICK s \in outer \cup inner : s.type = "key" /\ k = s.key
  BY DEF KeysOf
<1>3. CASE s \in a.scopes \cup QueryScopes(a.checks)
  <2>1. k \in NamedKeys(a)
    BY <1>2, <1>3 DEF NamedKeys
  <2>2. QED
    BY <2>1 DEF Named
<1>4. CASE s \in QueryScopes(a.policies)
  <2>1. k \in {t.key : t \in {t \in QueryScopes(a.policies) : t.type = "key"}}
    BY <1>2, <1>4
  <2>2. QED
    BY <2>1 DEF Named
<1>5. QED
  BY <1>3, <1>4

LEMMA OwnSame ==
  ASSUME NEW token \in Token, NEW a \in Content, NEW n \in 1..(Len(token) - 1),
         Unheard(token, a, n)
  PROVE  /\ OwnOutcomes(a, Registry(token), Saturated(token, a))
              = OwnOutcomes(a, Registry(Prefix(token, n)), Saturated(Prefix(token, n), a))
         /\ PolicyVerdict(a.policies, Registry(token), Saturated(token, a))
              = PolicyVerdict(a.policies, Registry(Prefix(token, n)),
                              Saturated(Prefix(token, n), a))
<1> DEFINE p == Prefix(token, n)
           reg == Registry(token)
           model == Saturated(token, a)
           other == Registry(p)
           fewer == Saturated(p, a)
<1>1. p \in Token /\ Place(p, AuthorizerBlockID)
  BY PrefixWellFormed DEF Place
<1>2. /\ a.scopes \in SUBSET Scope /\ a.checks \in Seq(Check)
      /\ a.policies \in Seq(Policy)
  BY DEF Content
<1>3. ASSUME NEW outer \in SUBSET Scope, NEW inner \in SUBSET Scope,
             \/ outer \subseteq a.scopes /\ inner \subseteq QueryScopes(a.checks)
             \/ outer = {} /\ inner \subseteq QueryScopes(a.policies)
      PROVE  Seen(outer, inner, AuthorizerBlockID, reg, model)
               = Seen(outer, inner, AuthorizerBlockID, other, fewer)
  <2>1. KeysOf(outer \cup inner) \subseteq Named(p, a)
    BY <1>3, NamedByContent
  <2>2. SeesTheSame(token, a, n, AuthorizerBlockID, outer, inner)
    BY <1>1, <2>1, SeenSame
  <2>3. QED
    BY <2>2 DEF SeesTheSame
<1> HIDE DEF p, reg, model, other, fewer
<1>4. ASSUME NEW c \in Range(a.checks)
      PROVE  FirstMatch(c.queries, a.scopes, reg, model)
               = FirstMatch(c.queries, a.scopes, other, fewer)
  <2>1. c.queries \in Seq(Query)
    BY <1>2, ChecksShape
  <2>2. ASSUME NEW i \in DOMAIN c.queries
        PROVE  Seen(a.scopes, c.queries[i].scopes, AuthorizerBlockID, reg, model)
                 = Seen(a.scopes, c.queries[i].scopes, AuthorizerBlockID, other, fewer)
    <3>1. /\ c.queries[i].scopes \in SUBSET Scope
          /\ c.queries[i].scopes \subseteq QueryScopes(a.checks)
      BY <1>2, ChecksShape
    <3>2. QED
      BY <1>2, <1>3, <3>1
  <2>3. QED
    BY <2>1, <2>2, FirstMatchSame
<1>5. ASSUME NEW k \in DOMAIN a.policies
      PROVE  PolicyOutcome(a.policies, k, reg, model)
               = PolicyOutcome(a.policies, k, other, fewer)
  <2> DEFINE queries == a.policies[k].queries
  <2>1. a.policies[k] \in Range(a.policies)
    BY DEF Range
  <2>2. queries \in Seq(Query)
    BY <1>2, <2>1, ChecksShape
  <2>3. ASSUME NEW i \in DOMAIN queries
        PROVE  Seen({}, queries[i].scopes, AuthorizerBlockID, reg, model)
                 = Seen({}, queries[i].scopes, AuthorizerBlockID, other, fewer)
    <3>1. /\ queries[i].scopes \in SUBSET Scope
          /\ queries[i].scopes \subseteq QueryScopes(a.policies)
      BY <1>2, <2>1, ChecksShape
    <3> HIDE DEF queries
    <3>2. QED
      BY <1>3, <3>1
  <2> HIDE DEF queries
  <2>4. FirstMatch(queries, {}, reg, model) = FirstMatch(queries, {}, other, fewer)
    BY <2>2, <2>3, FirstMatchSame
  <2>5. QED
    BY <2>4 DEF PolicyOutcome, queries
<1>6. OwnOutcomes(a, reg, model) = OwnOutcomes(a, other, fewer)
  BY <1>4 DEF OwnOutcomes
<1>7. PolicyVerdict(a.policies, reg, model) = PolicyVerdict(a.policies, other, fewer)
  <2> DEFINE left(i) == PolicyOutcome(a.policies, i, reg, model)
             right(i) == PolicyOutcome(a.policies, i, other, fewer)
             ones == {i \in DOMAIN a.policies : left(i) # "fail"}
             twos == {i \in DOMAIN a.policies : right(i) # "fail"}
  <2>1. PolicyVerdict(a.policies, reg, model) =
          IF ones = {} THEN "noPolicy"
          ELSE IF left(First(ones)) = "error" THEN "error" ELSE a.policies[First(ones)].kind
    BY DEF PolicyVerdict, PolicyOutcome, First
  <2>2. PolicyVerdict(a.policies, other, fewer) =
          IF twos = {} THEN "noPolicy"
          ELSE IF right(First(twos)) = "error" THEN "error" ELSE a.policies[First(twos)].kind
    BY DEF PolicyVerdict, PolicyOutcome, First
  <2>3. ones = twos
    BY <1>5
  <2>4. ones # {} => First(ones) \in DOMAIN a.policies
    <3>1. Len(a.policies) \in Nat /\ ones \in SUBSET (1..Len(a.policies))
      BY <1>2, LenProperties
    <3> HIDE DEF ones
    <3>2. ones # {} => First(ones) \in ones
      BY <3>1, FirstIndex
    <3>3. QED
      BY <3>2 DEF ones
  <2> HIDE DEF ones, twos
  <2>5. QED
    BY <1>5, <2>1, <2>2, <2>3, <2>4
<1>8. QED
  BY <1>6, <1>7 DEF p, reg, model, other, fewer

(* The outcomes of a check's i-th query.                                      *)
Answers(check, outer, i, id, reg, entries) ==
  VerifyMatches(check.kind,
                Found(check.queries[i], Seen(outer, check.queries[i].scopes, id, reg, entries)))

LEMMA VerifySame ==
  ASSUME NEW check \in Check, NEW outer, NEW id,
         NEW reg, NEW other, NEW entries, NEW fewer,
         \A i \in DOMAIN check.queries :
           Seen(outer, check.queries[i].scopes, id, reg, entries)
             = Seen(outer, check.queries[i].scopes, id, other, fewer)
  PROVE  Verify(check, outer, id, reg, entries) = Verify(check, outer, id, other, fewer)
<1> DEFINE left(i) == Answers(check, outer, i, id, reg, entries)
           right(i) == Answers(check, outer, i, id, other, fewer)
           queries == DOMAIN check.queries
           verify(answers(_)) ==
             IF check.kind = "one"
             THEN {r \in {"pass", "error"} :
                     \E i \in queries : r \in answers(i) /\ \A j \in 1..(i - 1) : "fail" \in answers(j)}
                  \cup {r \in {"fail"} : \A i \in queries : r \in answers(i)}
             ELSE {r \in {"error"} : \E i \in queries : r \in answers(i)}
                  \cup {r \in {"fail"} : /\ \E i \in queries : r \in answers(i)
                                         /\ \A i \in queries : answers(i) # {"error"}}
                  \cup {r \in {"pass"} : \A i \in queries : r \in answers(i)}
<1>1. ASSUME NEW i \in queries
      PROVE  left(i) = right(i)
  BY DEF Answers
<1>2. \A i \in queries : \A j \in 1..(i - 1) : j \in queries
  <2>1. check.queries \in Seq(Query)
    BY DEF Check
  <2>2. queries = 1..Len(check.queries) /\ Len(check.queries) \in Nat
    BY <2>1, LenProperties
  <2>3. QED
    BY <2>2
<1>3. Verify(check, outer, id, reg, entries) = verify(left)
  BY DEF Verify, Answers, Seen
<1>4. Verify(check, outer, id, other, fewer) = verify(right)
  BY DEF Verify, Answers, Seen
<1> HIDE DEF left, right, queries
<1>5. \A i \in queries : left(i) = right(i) /\ \A j \in 1..(i - 1) : left(j) = right(j)
  BY <1>1, <1>2
<1>6. verify(left) = verify(right)
  <2>1. ASSUME NEW r
        PROVE  r \in verify(left) <=> r \in verify(right)
    BY <1>5
  <2>2. QED
    BY <2>1
<1>7. QED
  BY <1>3, <1>4, <1>6

LEMMA NamedByBlock ==
  ASSUME NEW token, NEW a, NEW i \in DOMAIN token, NEW outer, NEW inner,
         outer \subseteq token[i].scopes, inner \subseteq QueryScopes(token[i].checks)
  PROVE  KeysOf(outer \cup inner) \subseteq Named(token, a)
<1>1. KeysOf(outer \cup inner) \subseteq NamedKeys(token[i])
  BY DEF KeysOf, NamedKeys
<1>2. NamedKeys(token[i]) \subseteq Named(token, a)
  BY DEF Named
<1>3. QED
  BY <1>1, <1>2

(* The blocks that are left have checks with the same outcomes as before.     *)
LEMMA OutcomesKept ==
  ASSUME NEW token \in Token, NEW a \in Content, NEW n \in 1..(Len(token) - 1),
         Unheard(token, a, n)
  PROVE  BlockOutcomes(Prefix(token, n), Registry(Prefix(token, n)),
                       Saturated(Prefix(token, n), a))
           \subseteq BlockOutcomes(token, Registry(token), Saturated(token, a))
<1> DEFINE p == Prefix(token, n)
           reg == Registry(token)
           model == Saturated(token, a)
           other == Registry(p)
           fewer == Saturated(p, a)
<1>1. /\ p \in Token /\ DOMAIN p = 1..n /\ DOMAIN token = 1..Len(token)
      /\ \A i \in 1..n : p[i] = token[i]
      /\ n \in Nat /\ Len(token) \in Nat /\ n <= Len(token) /\ Len(p) = n
  BY PrefixWellFormed, TokenShape
<1>2. ASSUME NEW id, Place(p, id),
             NEW outer \in SUBSET Scope, NEW inner \in SUBSET Scope,
             KeysOf(outer \cup inner) \subseteq Named(p, a)
      PROVE  Seen(outer, inner, id, reg, model) = Seen(outer, inner, id, other, fewer)
  <2>1. SeesTheSame(token, a, n, id, outer, inner)
    BY <1>2, SeenSame
  <2>2. QED
    BY <2>1 DEF SeesTheSame
<1> HIDE DEF p, reg, model, other, fewer
<1>3. ASSUME NEW i \in 1..n, NEW c \in Range(p[i].checks)
      PROVE  Verify(c, p[i].scopes, i - 1, other, fewer)
               = Verify(c, token[i].scopes, i - 1, reg, model)
  <2>1. p[i] \in Block /\ p[i] = token[i] /\ i \in DOMAIN p /\ i - 1 \in 0..(n - 1)
    BY <1>1, TokenShape
  <2>2. p[i].scopes \in SUBSET Scope /\ p[i].checks \in Seq(Check)
    BY <2>1 DEF Block
  <2>3. c \in Check
    BY <2>2, ChecksShape
  <2>4. Place(p, i - 1)
    BY <1>1, <2>1 DEF Place
  <2>5. ASSUME NEW j \in DOMAIN c.queries
        PROVE  Seen(p[i].scopes, c.queries[j].scopes, i - 1, reg, model)
                 = Seen(p[i].scopes, c.queries[j].scopes, i - 1, other, fewer)
    <3>1. /\ c.queries[j].scopes \in SUBSET Scope
          /\ c.queries[j].scopes \subseteq QueryScopes(p[i].checks)
      BY <2>2, ChecksShape
    <3>2. KeysOf(p[i].scopes \cup c.queries[j].scopes) \subseteq Named(p, a)
      BY <2>1, <3>1, NamedByBlock
    <3>3. QED
      BY <1>2, <2>2, <2>4, <3>1, <3>2
  <2>6. QED
    BY <2>1, <2>3, <2>5, VerifySame
<1>4. ASSUME NEW i \in 1..n
      PROVE  {Verify(c, p[i].scopes, i - 1, other, fewer) : c \in Range(p[i].checks)}
               = {Verify(c, token[i].scopes, i - 1, reg, model) : c \in Range(token[i].checks)}
  BY <1>1, <1>3
<1>5. 1..n \subseteq 1..Len(token)
  BY <1>1
<1>6. BlockOutcomes(p, other, fewer) \subseteq BlockOutcomes(token, reg, model)
  <2> DEFINE kept(i) == {Verify(c, p[i].scopes, i - 1, other, fewer) : c \in Range(p[i].checks)}
             all(i) == {Verify(c, token[i].scopes, i - 1, reg, model) :
                          c \in Range(token[i].checks)}
  <2>1. BlockOutcomes(p, other, fewer) = UNION {kept(i) : i \in 1..n}
    BY <1>1 DEF BlockOutcomes
  <2>2. BlockOutcomes(token, reg, model) = UNION {all(i) : i \in 1..Len(token)}
    BY <1>1 DEF BlockOutcomes
  <2>3. \A i \in 1..n : kept(i) = all(i)
    BY <1>4
  <2> HIDE DEF kept, all
  <2>4. QED
    BY <1>5, <2>1, <2>2, <2>3
<1>7. QED
  BY <1>6 DEF p, reg, model, other, fewer

(* Authorize's yes, taken apart.                                              *)
LEMMA AllowMeans ==
  ASSUME NEW token, NEW a \in Content, NEW reg, NEW entries
  PROVE  "allow" \in Verdicts(token, a, reg, entries)
           <=> /\ OwnOutcomes(a, reg, entries) \subseteq {"pass"}
               /\ \A o \in BlockOutcomes(token, reg, entries) : "pass" \in o
               /\ PolicyVerdict(a.policies, reg, entries) = "allow"
BY DEF Verdicts

(* A yes outlives the loss of the last blocks.                                *)
LEMMA YesKept ==
  ASSUME NEW token \in Token, NEW a \in Content, NEW n \in 1..(Len(token) - 1),
         Unheard(token, a, n),
         "allow" \in Verdicts(token, a, Registry(token), Saturated(token, a))
  PROVE  "allow" \in Verdicts(Prefix(token, n), a, Registry(Prefix(token, n)),
                              Saturated(Prefix(token, n), a))
BY OwnSame, OutcomesKept, AllowMeans, SMTT(60)

----------------------------------------------------------------------------
(* What the outcomes of expressions, matches and queries say.                 *)
Truth == {"true", "false", "error"}

LEMMA FirstOther ==
  ASSUME NEW exprs \in Seq(Truth), NEW value, NEW k \in DOMAIN exprs, exprs[k] # value
  PROVE  LET i == CHOOSE i \in DOMAIN exprs :
                    exprs[i] # value /\ \A j \in 1..(i - 1) : exprs[j] = value
         IN  i \in DOMAIN exprs /\ exprs[i] # value
<1> DEFINE S == {i \in DOMAIN exprs : exprs[i] # value}
<1>1. Len(exprs) \in Nat /\ DOMAIN exprs = 1..Len(exprs)
  BY LenProperties
<1>2. S \in SUBSET (1..Len(exprs)) /\ S # {}
  BY <1>1
<1>3. /\ \A i \in S : i \in DOMAIN exprs /\ exprs[i] # value
      /\ \A j \in DOMAIN exprs : j \notin S => exprs[j] = value
  OBVIOUS
<1> HIDE DEF S
<1>4. First(S) \in S /\ \A j \in 1..(First(S) - 1) : j \notin S
  BY <1>1, <1>2, FirstIndex
<1>5. First(S) \in 1..Len(exprs)
  BY <1>2, <1>4
<1>6. \A j \in 1..(First(S) - 1) : j \in DOMAIN exprs
  BY <1>1, <1>5
<1>7. /\ First(S) \in DOMAIN exprs /\ exprs[First(S)] # value
      /\ \A j \in 1..(First(S) - 1) : exprs[j] = value
  BY <1>3, <1>4, <1>6
<1>8. \E i \in DOMAIN exprs : exprs[i] # value /\ \A j \in 1..(i - 1) : exprs[j] = value
  BY <1>7
<1>9. QED
  BY <1>8

LEMMA ConjunctionMeans ==
  ASSUME NEW exprs \in Seq(Truth)
  PROVE  /\ Conjunction(exprs) \in Truth
         /\ Conjunction(exprs) = "true" <=> \A i \in DOMAIN exprs : exprs[i] = "true"
<1> DEFINE i == CHOOSE i \in DOMAIN exprs :
                  exprs[i] # "true" /\ \A j \in 1..(i - 1) : exprs[j] = "true"
<1>1. CASE \A k \in DOMAIN exprs : exprs[k] = "true"
  BY <1>1 DEF Conjunction, Truth
<1>2. CASE \E k \in DOMAIN exprs : exprs[k] # "true"
  <2>1. Conjunction(exprs) = exprs[i]
    BY <1>2 DEF Conjunction
  <2>2. i \in DOMAIN exprs /\ exprs[i] # "true"
    BY <1>2, FirstOther
  <2> HIDE DEF i
  <2>3. exprs[i] \in Truth
    BY <2>2, LenProperties, ElementOfSeq
  <2>4. QED
    BY <1>2, <2>1, <2>2, <2>3
<1>3. QED
  BY <1>1, <1>2

LEMMA AnyTrueMeans ==
  ASSUME NEW exprs \in Seq(Truth), exprs # <<>>,
         \A i \in DOMAIN exprs : exprs[i] = "true"
  PROVE  AnyTrue(exprs) = "true"
<1> DEFINE i == CHOOSE i \in DOMAIN exprs :
                  exprs[i] # "false" /\ \A j \in 1..(i - 1) : exprs[j] = "false"
<1>1. 1 \in DOMAIN exprs
  <2>1. Len(exprs) \in Nat /\ Len(exprs) # 0 /\ DOMAIN exprs = 1..Len(exprs)
    BY LenProperties, EmptySeq
  <2>2. QED
    BY <2>1
<1>2. AnyTrue(exprs) = exprs[i]
  BY <1>1 DEF AnyTrue
<1>3. i \in DOMAIN exprs
  BY <1>1, FirstOther
<1>4. QED
  BY <1>2, <1>3

LEMMA FoundShape ==
  ASSUME NEW q \in Query, NEW entries
  PROVE  Found(q, entries) \subseteq q.matches
           /\ \A m \in Found(q, entries) : m.exprs \in Seq(Truth)
<1>1. q.matches \subseteq Match
  BY DEF Query
<1>2. QED
  BY <1>1 DEF Found, Match, Truth

(* A match whose every expression is true.                                    *)
Holds(m) == \A i \in DOMAIN m.exprs : m.exprs[i] = "true"

LEMMA PassMeans ==
  ASSUME NEW kind \in {"one", "all", "reject"}, NEW q \in Query, NEW entries,
         "pass" \in VerifyMatches(kind, Found(q, entries))
  PROVE  /\ kind = "one" => \E m \in Found(q, entries) : Holds(m)
         /\ kind = "all" => Found(q, entries) # {} /\ \A m \in Found(q, entries) : Holds(m)
         /\ kind = "reject" => \A m \in Found(q, entries) : m.exprs # <<>> => ~Holds(m)
<1> DEFINE found == Found(q, entries)
<1>1. \A m \in found : m.exprs \in Seq(Truth)
  BY FoundShape
<1> HIDE DEF found
<1>2. \A m \in found : /\ Conjunction(m.exprs) \in Truth
                       /\ Conjunction(m.exprs) = "true" <=> Holds(m)
  BY <1>1, ConjunctionMeans DEF Holds
<1>3. CASE kind = "one"
  <2> DEFINE early == {IF r = "error" THEN r ELSE "pass" :
                         r \in {Conjunction(m.exprs) : m \in found} \cap {"true", "error"}}
  <2>1. VerifyMatches(kind, found) = IF early = {} THEN {"fail"} ELSE early
    BY <1>3 DEF VerifyMatches
  <2>2. "pass" \in early
    BY <2>1 DEF found
  <2>3. \E m \in found : Conjunction(m.exprs) = "true"
    BY <2>2
  <2>4. QED
    BY <1>2, <1>3, <2>3 DEF found
<1>4. CASE kind = "all"
  <2> DEFINE early == {IF r = "error" THEN r ELSE "fail" :
                         r \in {Conjunction(m.exprs) : m \in found} \cap {"false", "error"}}
  <2>1. VerifyMatches(kind, found)
          = IF early = {} THEN {IF found = {} THEN "fail" ELSE "pass"} ELSE early
    BY <1>4 DEF VerifyMatches
  <2>2. "pass" \notin early
    OBVIOUS
  <2>3. early = {} /\ found # {}
    BY <2>1, <2>2 DEF found
  <2>4. \A m \in found : Conjunction(m.exprs) \notin {"false", "error"}
    BY <2>3
  <2>5. QED
    BY <1>2, <1>4, <2>3, <2>4 DEF found, Truth
<1>5. CASE kind = "reject"
  <2> DEFINE early == {IF r = "error" THEN r ELSE "fail" :
                         r \in {AnyTrue(m.exprs) : m \in found} \cap {"true", "error"}}
  <2>1. VerifyMatches(kind, found) = IF early = {} THEN {"pass"} ELSE early
    BY <1>5 DEF VerifyMatches
  <2>2. "pass" \notin early
    OBVIOUS
  <2>3. early = {}
    BY <2>1, <2>2 DEF found
  <2>4. \A m \in found : AnyTrue(m.exprs) # "true"
    BY <2>3
  <2>5. \A m \in found : m.exprs # <<>> => ~Holds(m)
    BY <1>1, <2>4, AnyTrueMeans DEF Holds
  <2>6. QED
    BY <1>5, <2>5 DEF found
<1>6. QED
  BY <1>3, <1>4, <1>5

LEMMA QueryRuleMeans ==
  ASSUME NEW q \in Query, NEW trusted, NEW entries
  PROVE  /\ QueryRule(q, trusted, entries) \in {"pass", "fail", "error"}
         /\ QueryRule(q, trusted, entries) = "pass"
              => \E m \in Found(q, WithOrigin(entries, trusted)) : Holds(m)
<1> DEFINE found == Found(q, WithOrigin(entries, trusted))
           results == {Conjunction(m.exprs) : m \in found}
<1>1. QueryRule(q, trusted, entries) =
        IF "error" \in results THEN "error" ELSE IF "true" \in results THEN "pass" ELSE "fail"
  BY DEF QueryRule
<1>2. "true" \in results => \E m \in found : Conjunction(m.exprs) = "true"
  OBVIOUS
<1>3. \A m \in found : Conjunction(m.exprs) = "true" => Holds(m)
  BY FoundShape, ConjunctionMeans DEF Holds
<1> HIDE DEF found, results
<1>4. QED
  BY <1>1, <1>2, <1>3 DEF found

LEMMA FirstMatchMeans ==
  ASSUME NEW queries \in Seq(Query), NEW outer, NEW reg, NEW entries
  PROVE  /\ FirstMatch(queries, outer, reg, entries) \in {"pass", "fail", "error"}
         /\ FirstMatch(queries, outer, reg, entries) = "pass"
              => \E i \in DOMAIN queries : QueryOutcome(queries, outer, i, reg, entries) = "pass"
         /\ FirstMatch(queries, outer, reg, entries) = "fail"
              => \A i \in DOMAIN queries : QueryOutcome(queries, outer, i, reg, entries) = "fail"
<1> DEFINE outcome(i) == QueryOutcome(queries, outer, i, reg, entries)
           stops == {i \in DOMAIN queries : outcome(i) # "fail"}
<1>1. FirstMatch(queries, outer, reg, entries)
        = IF stops = {} THEN "fail" ELSE outcome(First(stops))
  BY DEF FirstMatch, QueryOutcome, First
<1>2. Len(queries) \in Nat /\ DOMAIN queries = 1..Len(queries)
  BY LenProperties
<1>3. \A i \in DOMAIN queries : outcome(i) \in {"pass", "fail", "error"}
  <2>1. \A i \in DOMAIN queries : queries[i] \in Query
    BY <1>2, ElementOfSeq
  <2>2. QED
    BY <2>1, QueryRuleMeans DEF QueryOutcome
<1>4. stops \in SUBSET (1..Len(queries))
  BY <1>2
<1>5. /\ \A i \in stops : i \in DOMAIN queries /\ outcome(i) # "fail"
      /\ \A i \in DOMAIN queries : i \notin stops => outcome(i) = "fail"
  OBVIOUS
<1> HIDE DEF stops, outcome
<1>6. stops # {} => First(stops) \in stops
  BY <1>2, <1>4, FirstIndex
<1>7. QED
  BY <1>1, <1>3, <1>5, <1>6 DEF outcome

LEMMA VerifyMeans ==
  ASSUME NEW check \in Check, NEW outer, NEW id, NEW reg, NEW entries,
         "pass" \in Verify(check, outer, id, reg, entries)
  PROVE  /\ check.kind = "one" =>
              \E i \in DOMAIN check.queries : "pass" \in Answers(check, outer, i, id, reg, entries)
         /\ check.kind # "one" =>
              \A i \in DOMAIN check.queries : "pass" \in Answers(check, outer, i, id, reg, entries)
<1> DEFINE answers(i) == Answers(check, outer, i, id, reg, entries)
           queries == DOMAIN check.queries
<1>1. Verify(check, outer, id, reg, entries) =
        IF check.kind = "one"
        THEN {r \in {"pass", "error"} :
                \E i \in queries : r \in answers(i) /\ \A j \in 1..(i - 1) : "fail" \in answers(j)}
             \cup {r \in {"fail"} : \A i \in queries : r \in answers(i)}
        ELSE {r \in {"error"} : \E i \in queries : r \in answers(i)}
             \cup {r \in {"fail"} : /\ \E i \in queries : r \in answers(i)
                                    /\ \A i \in queries : answers(i) # {"error"}}
             \cup {r \in {"pass"} : \A i \in queries : r \in answers(i)}
  BY DEF Verify, Answers, Seen
<1> HIDE DEF answers, queries
<1>2. QED
  BY <1>1 DEF answers, queries

(* A passing check of a block is satisfied, as its kind asks.                 *)
LEMMA PassedIsSatisfied ==
  ASSUME NEW check \in Check, NEW outer, NEW id, NEW token, NEW entries,
         "pass" \in Verify(check, outer, id, Registry(token), entries), ~Bare(check)
  PROVE  Satisfied(check, outer, id, token, entries)
<1> DEFINE queries == Range(check.queries)
           found(q) == Found(q, Seen(outer, q.scopes, id, Registry(token), entries))
<1>1. /\ check.kind \in {"one", "all", "reject"} /\ check.queries \in Seq(Query)
  BY DEF Check
<1>2. \A i \in DOMAIN check.queries : check.queries[i] \in Query /\ check.queries[i] \in queries
  BY <1>1, LenProperties, ElementOfSeq DEF Range
<1>3. \A q \in queries : \E i \in DOMAIN check.queries : q = check.queries[i]
  BY DEF Range
<1>4. ASSUME NEW i \in DOMAIN check.queries,
             "pass" \in Answers(check, outer, i, id, Registry(token), entries)
      PROVE  LET q == check.queries[i]
             IN  /\ check.kind = "one" => \E m \in found(q) : Holds(m)
                 /\ check.kind = "all" => found(q) # {} /\ \A m \in found(q) : Holds(m)
                 /\ check.kind = "reject" => \A m \in found(q) : m.exprs # <<>> => ~Holds(m)
  BY <1>1, <1>2, <1>4, PassMeans DEF Answers
<1>5. check.kind = "reject" => \A q \in queries : \A m \in found(q) : m.exprs # <<>>
  BY DEF Bare, Found
<1>6. Satisfied(check, outer, id, token, entries) <=>
        CASE check.kind = "one"    -> \E q \in queries : \E m \in found(q) : Holds(m)
          [] check.kind = "all"    -> \A q \in queries :
                                        found(q) # {} /\ \A m \in found(q) : Holds(m)
          [] check.kind = "reject" -> \A q \in queries : \A m \in found(q) : ~Holds(m)
  BY DEF Satisfied, Seen, Holds
<1> HIDE DEF found, queries
<1>7. CASE check.kind = "one"
  <2>1. PICK i \in DOMAIN check.queries :
          "pass" \in Answers(check, outer, i, id, Registry(token), entries)
    BY <1>7, VerifyMeans
  <2>2. \E m \in found(check.queries[i]) : Holds(m)
    BY <1>4, <1>7, <2>1
  <2>3. QED
    BY <1>2, <1>6, <1>7, <2>2
<1>8. CASE check.kind \in {"all", "reject"}
  <2>1. ASSUME NEW q \in queries
        PROVE  /\ check.kind = "all" => found(q) # {} /\ \A m \in found(q) : Holds(m)
               /\ check.kind = "reject" => \A m \in found(q) : ~Holds(m)
    <3>1. PICK i \in DOMAIN check.queries : q = check.queries[i]
      BY <1>3
    <3>2. "pass" \in Answers(check, outer, i, id, Registry(token), entries)
      BY <1>8, VerifyMeans
    <3>3. QED
      BY <1>4, <1>5, <3>1, <3>2
  <2>2. CASE check.kind = "all"
    BY <1>6, <2>1, <2>2
  <2>3. CASE check.kind = "reject"
    BY <1>6, <2>1, <2>3
  <2>4. QED
    BY <1>8, <2>2, <2>3
<1>9. QED
  BY <1>1, <1>7, <1>8

LEMMA OwnIsSatisfied ==
  ASSUME NEW check \in Check, check.kind = "one", NEW outer, NEW token, NEW entries,
         FirstMatch(check.queries, outer, Registry(token), entries) = "pass"
  PROVE  Satisfied(check, outer, AuthorizerBlockID, token, entries)
<1> DEFINE found(q) == Found(q, WithOrigin(entries,
                         TrustedOrigin(outer, q.scopes, AuthorizerBlockID, Registry(token))))
<1>1. check.queries \in Seq(Query)
  BY DEF Check
<1>2. PICK i \in DOMAIN check.queries :
        QueryOutcome(check.queries, outer, i, Registry(token), entries) = "pass"
  BY <1>1, FirstMatchMeans
<1>3. check.queries[i] \in Query /\ check.queries[i] \in Range(check.queries)
  BY <1>1, LenProperties, ElementOfSeq DEF Range
<1>4. \E m \in found(check.queries[i]) : Holds(m)
  BY <1>2, <1>3, QueryRuleMeans DEF QueryOutcome
<1>5. Satisfied(check, outer, AuthorizerBlockID, token, entries)
        <=> \E q \in Range(check.queries) : \E m \in found(q) : Holds(m)
  BY DEF Satisfied, Holds
<1> HIDE DEF found
<1>6. QED
  BY <1>3, <1>4, <1>5

(* The policy that let the token through, and those before it.                *)
Matched(policies, i, reg, entries) ==
  \E j \in DOMAIN policies[i].queries :
    QueryOutcome(policies[i].queries, {}, j, reg, entries) = "pass"

LEMMA PolicyAllowed ==
  ASSUME NEW policies \in Seq(Policy), NEW reg, NEW entries,
         PolicyVerdict(policies, reg, entries) = "allow"
  PROVE  \E i \in DOMAIN policies :
           /\ policies[i].kind = "allow"
           /\ Matched(policies, i, reg, entries)
           /\ \A j \in 1..(i - 1) : ~Matched(policies, j, reg, entries)
<1>1. Len(policies) \in Nat /\ DOMAIN policies = 1..Len(policies)
  BY LenProperties
<1>2. PICK i \in 1..Len(policies) :
        /\ PolicyOutcome(policies, i, reg, entries) # "fail"
        /\ \A j \in 1..(i - 1) : PolicyOutcome(policies, j, reg, entries) = "fail"
        /\ "allow" = IF PolicyOutcome(policies, i, reg, entries) = "error"
                     THEN "error" ELSE policies[i].kind
  BY PolicyDecides
<1>3. ASSUME NEW j \in 1..Len(policies)
      PROVE  /\ PolicyOutcome(policies, j, reg, entries) \in {"pass", "fail", "error"}
             /\ PolicyOutcome(policies, j, reg, entries) = "pass"
                  => Matched(policies, j, reg, entries)
             /\ PolicyOutcome(policies, j, reg, entries) = "fail"
                  => ~Matched(policies, j, reg, entries)
  <2>1. policies[j].queries \in Seq(Query)
    <3>1. policies[j] \in Policy
      BY ElementOfSeq
    <3>2. QED
      BY <3>1 DEF Policy
  <2>2. QED
    BY <2>1, FirstMatchMeans DEF PolicyOutcome, Matched
<1>4. \A j \in 1..(i - 1) : j \in 1..Len(policies)
  BY <1>1, <1>2
<1>5. policies[i].kind = "allow" /\ PolicyOutcome(policies, i, reg, entries) = "pass"
  BY <1>2, <1>3
<1>6. QED
  BY <1>1, <1>2, <1>3, <1>4, <1>5

----------------------------------------------------------------------------
(* Authorize's way to a verdict, check by check and policy by policy.         *)
At(c, entries) == Outcomes(c, content, blocks, Registry(blocks), entries)

PolicyAt(i, entries) == PolicyOutcome(content.policies, i, Registry(blocks), entries)

AnswerInv ==
  /\ call \in {"none", "authorize", "query"}
  /\ open \subseteq Checks
  /\ failing \in BOOLEAN
  /\ passed \in 0..Len(content.policies)
  /\ verdict \in {"none", "allow", "deny", "noPolicy", "failedChecks", "error"}
  /\ overlapped \in BOOLEAN
  /\ phase \notin {"checking", "deciding"} => open = {} /\ ~failing
  /\ phase = "deciding" => open = {} /\ ~failing
  /\ phase # "deciding" => passed = 0

(* Without overlapping runs, the checks and policies so far came out as on    *)
(* the least model, and so does the verdict.                                  *)
DecisionInv ==
  ~overlapped =>
    /\ phase = "checking" =>
         /\ \A c \in Checks \ open : At(c, Model) # {"error"}
         /\ failing => \E c \in Checks \ open : "fail" \in At(c, Model)
         /\ ~failing => \A c \in Checks \ open : "pass" \in At(c, Model)
    /\ phase = "deciding" =>
         /\ \A c \in Checks : "pass" \in At(c, Model)
         /\ \A i \in 1..passed : PolicyAt(i, Model) = "fail"
    /\ verdict \in {"none", "error"} \cup Verdicts(blocks, content, Registry(blocks), Model)

LEMMA ChecksAre ==
  ASSUME blocks \in Token, content \in Content, NEW c \in Checks
  PROVE  \/ /\ c[1] = 0 /\ c[2] \in DOMAIN content.checks
            /\ content.checks[c[2]] \in Check
         \/ /\ c[1] # 0 /\ c[1] \in DOMAIN blocks
            /\ c[2] \in DOMAIN blocks[c[1]].checks
            /\ blocks[c[1]].checks[c[2]] \in Check
<1>1. CASE c \in {<<0, i>> : i \in DOMAIN content.checks}
  <2>1. PICK i \in DOMAIN content.checks : c = <<0, i>>
    BY <1>1
  <2>2. content.checks \in Seq(Check)
    BY DEF Content
  <2>3. content.checks[i] \in Check
    BY <2>2, LenProperties, ElementOfSeq
  <2>4. QED
    BY <2>1, <2>3
<1>2. CASE \E u \in DOMAIN blocks : c \in {<<u, i>> : i \in DOMAIN blocks[u].checks}
  <2>1. PICK u \in DOMAIN blocks : \E i \in DOMAIN blocks[u].checks : c = <<u, i>>
    BY <1>2
  <2> PICK i \in DOMAIN blocks[u].checks : c = <<u, i>>
    BY <2>1
  <2>2. blocks[u] \in Block /\ u # 0
    BY TokenShape
  <2>3. blocks[u].checks \in Seq(Check)
    BY <2>2 DEF Block
  <2>4. blocks[u].checks[i] \in Check
    BY <2>1, <2>3, LenProperties, ElementOfSeq
  <2>5. QED
    BY <2>1, <2>2, <2>4
<1>3. QED
  BY <1>1, <1>2 DEF Checks

LEMMA OutcomesType ==
  ASSUME blocks \in Token, content \in Content, NEW c \in Checks, NEW reg, NEW entries
  PROVE  Outcomes(c, content, blocks, reg, entries) \subseteq {"pass", "fail", "error"}
<1>1. CASE c[1] = 0
  <2>1. content.checks[c[2]].queries \in Seq(Query)
    BY <1>1, ChecksAre DEF Check
  <2>2. QED
    BY <1>1, <2>1, FirstMatchMeans DEF Outcomes
<1>2. CASE c[1] # 0
  BY <1>2 DEF Outcomes, Verify
<1>3. QED
  BY <1>1, <1>2

(* The checks, one by one, and the outcomes that the reference collects.      *)
Covered(reg, entries) ==
  /\ \A o \in OwnOutcomes(content, reg, entries) :
       \E c \in Checks : Outcomes(c, content, blocks, reg, entries) = {o}
  /\ \A o \in BlockOutcomes(blocks, reg, entries) :
       \E c \in Checks : Outcomes(c, content, blocks, reg, entries) = o
  /\ \A c \in Checks :
       \/ \E o \in OwnOutcomes(content, reg, entries) :
            Outcomes(c, content, blocks, reg, entries) = {o}
       \/ Outcomes(c, content, blocks, reg, entries) \in BlockOutcomes(blocks, reg, entries)

LEMMA ChecksCover ==
  ASSUME blocks \in Token, content \in Content, NEW reg, NEW entries
  PROVE  Covered(reg, entries)
<1>1. ASSUME NEW o \in OwnOutcomes(content, reg, entries)
      PROVE  \E c \in Checks : Outcomes(c, content, blocks, reg, entries) = {o}
  <2>1. PICK i \in DOMAIN content.checks :
          o = FirstMatch(content.checks[i].queries, content.scopes, reg, entries)
    BY <1>1 DEF OwnOutcomes, Range
  <2>2. <<0, i>> \in Checks /\ <<0, i>>[1] = 0 /\ <<0, i>>[2] = i
    BY DEF Checks
  <2>3. Outcomes(<<0, i>>, content, blocks, reg, entries) = {o}
    BY <2>1, <2>2 DEF Outcomes
  <2>4. QED
    BY <2>2, <2>3
<1>2. ASSUME NEW o \in BlockOutcomes(blocks, reg, entries)
      PROVE  \E c \in Checks : Outcomes(c, content, blocks, reg, entries) = o
  <2>1. PICK u \in DOMAIN blocks : \E d \in Range(blocks[u].checks) :
          o = Verify(d, blocks[u].scopes, u - 1, reg, entries)
    BY <1>2 DEF BlockOutcomes
  <2> PICK d \in Range(blocks[u].checks) : o = Verify(d, blocks[u].scopes, u - 1, reg, entries)
    BY <2>1
  <2>2. PICK i \in DOMAIN blocks[u].checks : d = blocks[u].checks[i]
    BY DEF Range
  <2>3. <<u, i>> \in Checks /\ <<u, i>>[1] = u /\ <<u, i>>[2] = i
    BY DEF Checks
  <2>4. u # 0
    BY TokenShape
  <2>5. Outcomes(<<u, i>>, content, blocks, reg, entries) = o
    BY <2>1, <2>2, <2>3, <2>4 DEF Outcomes
  <2>6. QED
    BY <2>3, <2>5
<1>3. ASSUME NEW c \in Checks
      PROVE  \/ \E o \in OwnOutcomes(content, reg, entries) :
                  Outcomes(c, content, blocks, reg, entries) = {o}
             \/ Outcomes(c, content, blocks, reg, entries) \in BlockOutcomes(blocks, reg, entries)
  <2>1. CASE c[1] = 0
    <3>1. content.checks[c[2]] \in Range(content.checks)
      BY <2>1, ChecksAre DEF Range
    <3>2. QED
      BY <2>1, <3>1 DEF Outcomes, OwnOutcomes
  <2>2. CASE c[1] # 0
    <3>1. c[1] \in DOMAIN blocks /\ blocks[c[1]].checks[c[2]] \in Range(blocks[c[1]].checks)
      BY <2>2, ChecksAre DEF Range
    <3>2. QED
      BY <2>2, <3>1 DEF Outcomes, BlockOutcomes
  <2>3. QED
    BY <2>1, <2>2
<1>4. QED
  BY <1>1, <1>2, <1>3 DEF Covered

LEMMA FailedIsVerdict ==
  ASSUME blocks \in Token, content \in Content, NEW reg, NEW entries,
         \A c \in Checks : Outcomes(c, content, blocks, reg, entries) # {"error"},
         \E c \in Checks : "fail" \in Outcomes(c, content, blocks, reg, entries)
  PROVE  "failedChecks" \in Verdicts(blocks, content, reg, entries)
<1> DEFINE own    == OwnOutcomes(content, reg, entries)
           others == BlockOutcomes(blocks, reg, entries)
<1>0. Covered(reg, entries)
  BY ChecksCover
<1>1. "error" \notin own /\ \A o \in others : o # {"error"}
  <2>1. ASSUME NEW o \in own PROVE o # "error"
    <3>1. PICK c \in Checks : Outcomes(c, content, blocks, reg, entries) = {o}
      BY <1>0 DEF Covered
    <3>2. QED
      BY <3>1
  <2>2. ASSUME NEW o \in others PROVE o # {"error"}
    <3>1. PICK c \in Checks : Outcomes(c, content, blocks, reg, entries) = o
      BY <1>0 DEF Covered
    <3>2. QED
      BY <3>1
  <2>3. QED
    BY <2>1, <2>2
<1>2. "fail" \in own \cup UNION others
  <2>1. PICK c \in Checks : "fail" \in Outcomes(c, content, blocks, reg, entries)
    OBVIOUS
  <2>2. \/ \E o \in own : Outcomes(c, content, blocks, reg, entries) = {o}
        \/ Outcomes(c, content, blocks, reg, entries) \in others
    BY <1>0 DEF Covered
  <2> HIDE DEF own, others
  <2>3. QED
    BY <2>1, <2>2
<1>3. Verdicts(blocks, content, reg, entries) =
        IF "error" \in own THEN {"error"}
        ELSE {u \in {"error"} : \E o \in others : u \in o}
             \cup {u \in {"failedChecks"} : /\ \A o \in others : o # {"error"}
                                            /\ "fail" \in own \cup UNION others}
             \cup {u \in {PolicyVerdict(content.policies, reg, entries)} :
                     own \subseteq {"pass"} /\ \A o \in others : "pass" \in o}
  BY DEF Verdicts
<1> HIDE DEF own, others
<1>4. QED
  BY <1>1, <1>2, <1>3

LEMMA PolicyIsVerdict ==
  ASSUME blocks \in Token, content \in Content, NEW reg, NEW entries,
         \A c \in Checks : "pass" \in Outcomes(c, content, blocks, reg, entries)
  PROVE  PolicyVerdict(content.policies, reg, entries) \in Verdicts(blocks, content, reg, entries)
<1>0. Covered(reg, entries)
  BY ChecksCover
<1>1. \A o \in OwnOutcomes(content, reg, entries) : o = "pass"
  <2>1. TAKE o \in OwnOutcomes(content, reg, entries)
  <2>2. PICK c \in Checks : Outcomes(c, content, blocks, reg, entries) = {o}
    BY <1>0 DEF Covered
  <2>3. QED
    BY <2>2
<1>2. \A o \in BlockOutcomes(blocks, reg, entries) : "pass" \in o
  BY <1>0 DEF Covered
<1>3. QED
  BY <1>1, <1>2 DEF Verdicts

(* The policies taken in order: the first that does not fail decides.         *)
LEMMA PolicyVerdictIs ==
  ASSUME NEW policies \in Seq(Policy), NEW reg, NEW entries,
         NEW n \in 0..Len(policies),
         \A i \in 1..n : PolicyOutcome(policies, i, reg, entries) = "fail"
  PROVE  /\ n = Len(policies) => PolicyVerdict(policies, reg, entries) = "noPolicy"
         /\ n < Len(policies) /\ PolicyOutcome(policies, n + 1, reg, entries) # "fail"
              => PolicyVerdict(policies, reg, entries)
                   = IF PolicyOutcome(policies, n + 1, reg, entries) = "error"
                     THEN "error" ELSE policies[n + 1].kind
<1> DEFINE outcome(i) == PolicyOutcome(policies, i, reg, entries)
           stops == {i \in DOMAIN policies : outcome(i) # "fail"}
<1>1. Len(policies) \in Nat /\ DOMAIN policies = 1..Len(policies) /\ n \in Nat
  BY LenProperties
<1>2. PolicyVerdict(policies, reg, entries) =
        IF stops = {} THEN "noPolicy"
        ELSE IF outcome(First(stops)) = "error" THEN "error" ELSE policies[First(stops)].kind
  BY DEF PolicyVerdict, PolicyOutcome, First
<1>3. /\ stops \in SUBSET (1..Len(policies))
      /\ \A i \in 1..Len(policies) : i \in stops <=> outcome(i) # "fail"
      /\ \A i \in 1..n : outcome(i) = "fail"
  BY <1>1
<1> HIDE DEF stops, outcome
<1>4. n = Len(policies) => stops = {}
  BY <1>3
<1>5. ASSUME n < Len(policies), outcome(n + 1) # "fail"
      PROVE  stops # {} /\ First(stops) = n + 1
  <2>1. n + 1 \in stops /\ n + 1 \in Nat
    BY <1>1, <1>3, <1>5
  <2>2. First(stops) \in stops /\ \A j \in 1..(First(stops) - 1) : j \notin stops
    BY <1>1, <1>3, <2>1, FirstIndex
  <2>3. First(stops) \in 1..Len(policies) /\ First(stops) \notin 1..n
    BY <1>1, <1>3, <2>2
  <2>4. n + 1 \notin 1..(First(stops) - 1)
    BY <2>1, <2>2
  <2>5. QED
    BY <1>1, <2>1, <2>3, <2>4
<1>6. QED
  BY <1>2, <1>4, <1>5 DEF outcome

(* A pass on few facts has its match on more.                                 *)
LEMMA FoundGrows ==
  ASSUME NEW q, NEW trusted, NEW entries, NEW more, entries \subseteq more
  PROVE  Found(q, WithOrigin(entries, trusted)) \subseteq Found(q, WithOrigin(more, trusted))
<1>1. WithOrigin(entries, trusted) \subseteq WithOrigin(more, trusted)
  BY DEF WithOrigin
<1>2. \A m \in q.matches : Matches(m.body, WithOrigin(entries, trusted))
                             \subseteq Matches(m.body, WithOrigin(more, trusted))
  BY <1>1, MatchesMonotone
<1>3. QED
  BY <1>2 DEF Found

(* The check's i-th query has a match whose every expression is true.         *)
HasMatch(queries, outer, i, id, entries) ==
  \E m \in Found(queries[i], Seen(outer, queries[i].scopes, id, Registry(blocks), entries)) :
    Holds(m)

LEMMA SupportedMeans ==
  ASSUME NEW check, check.kind \in {"one", "all", "reject"}, NEW outer, NEW id, NEW entries
  PROVE  Supported(check, outer, id, blocks, entries) <=>
           /\ check.kind = "one" =>
                \E i \in DOMAIN check.queries : HasMatch(check.queries, outer, i, id, entries)
           /\ check.kind = "all" =>
                \A i \in DOMAIN check.queries : HasMatch(check.queries, outer, i, id, entries)
<1> DEFINE has(i) == HasMatch(check.queries, outer, i, id, entries)
<1>1. Supported(check, outer, id, blocks, entries) <=>
        CASE check.kind = "one"    -> \E i \in DOMAIN check.queries : has(i)
          [] check.kind = "all"    -> \A i \in DOMAIN check.queries : has(i)
          [] check.kind = "reject" -> TRUE
  BY DEF Supported, HasMatch, Holds, Seen
<1> HIDE DEF has
<1>2. QED
  BY <1>1 DEF has

LEMMA PassIsSupported ==
  ASSUME NEW check \in Check, NEW outer, NEW id, NEW entries, NEW more, entries \subseteq more,
         "pass" \in Verify(check, outer, id, Registry(blocks), entries)
  PROVE  Supported(check, outer, id, blocks, more)
<1> DEFINE answers(i) == Answers(check, outer, i, id, Registry(blocks), entries)
           has(i) == HasMatch(check.queries, outer, i, id, more)
<1>1. /\ check.kind \in {"one", "all", "reject"} /\ check.queries \in Seq(Query)
  BY DEF Check
<1>2. ASSUME NEW i \in DOMAIN check.queries, "pass" \in answers(i), check.kind # "reject"
      PROVE  has(i)
  <2> DEFINE q == check.queries[i]
             few == Found(q, Seen(outer, q.scopes, id, Registry(blocks), entries))
             many == Found(q, Seen(outer, q.scopes, id, Registry(blocks), more))
  <2>1. q \in Query
    BY <1>1, LenProperties, ElementOfSeq
  <2>2. few \subseteq many
    BY FoundGrows DEF Seen
  <2>3. "pass" \in VerifyMatches(check.kind, few)
    BY <1>2 DEF Answers
  <2>4. \E m \in few : Holds(m)
    BY <1>1, <1>2, <2>1, <2>3, PassMeans
  <2>5. QED
    BY <2>2, <2>4 DEF HasMatch
<1>3. /\ check.kind = "one" => \E i \in DOMAIN check.queries : "pass" \in answers(i)
      /\ check.kind # "one" => \A i \in DOMAIN check.queries : "pass" \in answers(i)
  BY VerifyMeans
<1> HIDE DEF answers
<1>4. QED
  BY <1>1, <1>2, <1>3, SupportedMeans

LEMMA FirstIsSupported ==
  ASSUME NEW check, NEW queries \in Seq(Query), check.kind = "one", check.queries = queries,
         NEW outer, NEW entries, NEW more, entries \subseteq more,
         FirstMatch(queries, outer, Registry(blocks), entries) = "pass"
  PROVE  Supported(check, outer, AuthorizerBlockID, blocks, more)
<1>1. PICK i \in DOMAIN queries :
        QueryOutcome(queries, outer, i, Registry(blocks), entries) = "pass"
  BY FirstMatchMeans
<1> DEFINE q == queries[i]
           trusted == TrustedOrigin(outer, q.scopes, AuthorizerBlockID, Registry(blocks))
<1>2. q \in Query
  BY LenProperties, ElementOfSeq
<1>3. \E m \in Found(q, WithOrigin(entries, trusted)) : Holds(m)
  BY <1>1, <1>2, QueryRuleMeans DEF QueryOutcome
<1>4. Found(q, WithOrigin(entries, trusted)) \subseteq Found(q, WithOrigin(more, trusted))
  BY FoundGrows
<1>5. HasMatch(queries, outer, i, AuthorizerBlockID, more)
  BY <1>3, <1>4 DEF HasMatch, Seen
<1>6. QED
  BY <1>5, SupportedMeans

(* Authorize evaluates the authorizer's checks like `check if`.               *)
SupportedAt(c) ==
  IF c[1] = 0
  THEN Supported([content.checks[c[2]] EXCEPT !.kind = "one"], content.scopes,
                 AuthorizerBlockID, blocks, Model)
  ELSE Supported(blocks[c[1]].checks[c[2]], blocks[c[1]].scopes, c[1] - 1, blocks, Model)

PolicySupported ==
  \E p \in Range(content.policies) :
    /\ p.kind = "allow"
    /\ Supported([kind |-> "one", queries |-> p.queries], {}, AuthorizerBlockID, blocks, Model)

(* Whatever the runs and goroutines did, a check that passed, and the policy  *)
(* that allowed, have their matches on the least model.                       *)
SupportInv ==
  /\ phase = "checking" /\ ~failing => \A c \in Checks \ open : SupportedAt(c)
  /\ phase = "deciding" => \A c \in Checks : SupportedAt(c)
  /\ verdict = "allow" => (\A c \in Checks : SupportedAt(c)) /\ PolicySupported

LEMMA CheckIsSupported ==
  ASSUME blocks \in Token, content \in Content, NEW c \in Checks, facts \subseteq Model,
         "pass" \in Outcomes(c, content, blocks, Registry(blocks), facts)
  PROVE  SupportedAt(c)
<1>1. CASE c[1] = 0
  <2> DEFINE check == content.checks[c[2]]
             one == [check EXCEPT !.kind = "one"]
  <2>1. check \in Check
    BY <1>1, ChecksAre
  <2>2. check.queries \in Seq(Query) /\ one.kind = "one" /\ one.queries = check.queries
    BY <2>1 DEF Check
  <2>3. FirstMatch(check.queries, content.scopes, Registry(blocks), facts) = "pass"
    BY <1>1 DEF Outcomes
  <2> HIDE DEF check, one
  <2>4. Supported(one, content.scopes, AuthorizerBlockID, blocks, Model)
    BY <2>2, <2>3, FirstIsSupported
  <2>5. QED
    BY <1>1, <2>4 DEF SupportedAt, check, one
<1>2. CASE c[1] # 0
  <2>1. blocks[c[1]].checks[c[2]] \in Check
    BY <1>2, ChecksAre
  <2>2. "pass" \in Verify(blocks[c[1]].checks[c[2]], blocks[c[1]].scopes, c[1] - 1,
                          Registry(blocks), facts)
    BY <1>2 DEF Outcomes
  <2>3. QED
    BY <1>2, <2>1, <2>2, PassIsSupported DEF SupportedAt
<1>3. QED
  BY <1>1, <1>2

LEMMA PolicyIsSupported ==
  ASSUME content \in Content, facts \subseteq Model, NEW i \in DOMAIN content.policies,
         content.policies[i].kind = "allow",
         FirstMatch(content.policies[i].queries, {}, Registry(blocks), facts) = "pass"
  PROVE  PolicySupported
<1> DEFINE p == content.policies[i]
           check == [kind |-> "one", queries |-> p.queries]
<1>1. content.policies \in Seq(Policy) /\ p \in Range(content.policies)
  BY DEF Content, Range
<1>2. p \in Policy
  BY <1>1, LenProperties, ElementOfSeq
<1>3. p.queries \in Seq(Query)
  BY <1>2 DEF Policy
<1>4. Supported(check, {}, AuthorizerBlockID, blocks, Model)
  BY <1>3, FirstIsSupported
<1>5. QED
  BY <1>1, <1>4 DEF PolicySupported

(* No check may both pass and fail on the same facts, so that two verdicts    *)
(* differ only if one is an error.                                            *)
LEMMA OneAnswer ==
  ASSUME NEW check, NEW outer, NEW id, NEW reg, NEW entries
  PROVE  ~("pass" \in Verify(check, outer, id, reg, entries)
             /\ "fail" \in Verify(check, outer, id, reg, entries))
<1> DEFINE answers(i) == Answers(check, outer, i, id, reg, entries)
           queries == DOMAIN check.queries
<1>1. ASSUME NEW found
      PROVE  ~("pass" \in VerifyMatches(check.kind, found)
                 /\ "fail" \in VerifyMatches(check.kind, found))
  <2> DEFINE results == IF check.kind = "reject" THEN {AnyTrue(m.exprs) : m \in found}
                                                 ELSE {Conjunction(m.exprs) : m \in found}
             decisive == IF check.kind = "all" THEN "false" ELSE "true"
             answer == IF check.kind = "one" THEN "pass" ELSE "fail"
             early == {IF r = "error" THEN r ELSE answer : r \in results \cap {decisive, "error"}}
             otherwise == CASE check.kind = "one"    -> "fail"
                            [] check.kind = "all"    -> IF found = {} THEN "fail" ELSE "pass"
                            [] check.kind = "reject" -> "pass"
  <2>1. VerifyMatches(check.kind, found) = IF early = {} THEN {otherwise} ELSE early
    BY DEF VerifyMatches
  <2>2. early \subseteq {"error", answer}
    OBVIOUS
  <2> HIDE DEF early, otherwise
  <2>3. QED
    BY <2>1, <2>2
<1>2. \A i \in queries : ~("pass" \in answers(i) /\ "fail" \in answers(i))
  BY <1>1 DEF Answers
<1>3. Verify(check, outer, id, reg, entries) =
        IF check.kind = "one"
        THEN {r \in {"pass", "error"} :
                \E i \in queries : r \in answers(i) /\ \A j \in 1..(i - 1) : "fail" \in answers(j)}
             \cup {r \in {"fail"} : \A i \in queries : r \in answers(i)}
        ELSE {r \in {"error"} : \E i \in queries : r \in answers(i)}
             \cup {r \in {"fail"} : /\ \E i \in queries : r \in answers(i)
                                    /\ \A i \in queries : answers(i) # {"error"}}
             \cup {r \in {"pass"} : \A i \in queries : r \in answers(i)}
  BY DEF Verify, Answers, Seen
<1> HIDE DEF answers, queries
<1>4. QED
  BY <1>2, <1>3

LEMMA VerdictsAgree ==
  ASSUME NEW token, NEW a, NEW reg, NEW entries,
         NEW v \in Verdicts(token, a, reg, entries) \ {"error"},
         NEW w \in Verdicts(token, a, reg, entries) \ {"error"}
  PROVE  v = w
<1> DEFINE own    == OwnOutcomes(a, reg, entries)
           others == BlockOutcomes(token, reg, entries)
<1>1. \A o \in others : ~("pass" \in o /\ "fail" \in o)
  BY OneAnswer DEF BlockOutcomes
<1>2. Verdicts(token, a, reg, entries) =
        IF "error" \in own THEN {"error"}
        ELSE {u \in {"error"} : \E o \in others : u \in o}
             \cup {u \in {"failedChecks"} : /\ \A o \in others : o # {"error"}
                                            /\ "fail" \in own \cup UNION others}
             \cup {u \in {PolicyVerdict(a.policies, reg, entries)} :
                     own \subseteq {"pass"} /\ \A o \in others : "pass" \in o}
  BY DEF Verdicts
<1> HIDE DEF own, others
<1>3. QED
  BY <1>1, <1>2

----------------------------------------------------------------------------
(* The answers along a run of the authorizer.                                 *)
LEMMA AnswerInvNext == WorldInv /\ AnswerInv /\ [Next]_vars => AnswerInv'
<1> SUFFICES ASSUME WorldInv, AnswerInv, [Next]_vars PROVE AnswerInv'
  OBVIOUS
<1> USE DEF inputs, building, round, decision
<1>1. Checks' = Checks /\ content' = content /\ blocks' = blocks
  BY Frame DEF Checks
<1>2. content.policies \in Seq(Policy) /\ Len(content.policies) \in Nat
  BY ModelShape, LenProperties DEF Content
<1>3. ASSUME NEW answer \in {"allow", "deny", "noPolicy", "failedChecks", "error", verdict},
             Return(answer)
      PROVE  AnswerInv'
  <2>1. verdict' \in {"none", "allow", "deny", "noPolicy", "failedChecks", "error"}
    BY <1>3 DEF Return, AnswerInv
  <2>2. /\ phase' = "ready" /\ open' = {} /\ failing' = FALSE /\ passed' = 0
        /\ call' = call /\ overlapped' = overlapped
    BY <1>3 DEF Return
  <2>3. passed' \in 0..Len(content'.policies)
    BY <1>1, <1>2, <2>2
  <2>4. QED
    BY <2>1, <2>2, <2>3 DEF AnswerInv
<1>4. CASE LoadBlock \/ LoadAuthorizer
  BY <1>1, <1>4 DEF LoadBlock, LoadAuthorizer, AnswerInv
<1>5. ASSUME NEW op \in {"authorize", "query"}, StartCall(op)
      PROVE  AnswerInv'
  BY <1>1, <1>5 DEF StartCall, AnswerInv
<1>6. CASE ApplyGroup \/ NextRound \/ StaleMerge
  BY <1>1, <1>6 DEF ApplyGroup, NextRound, RoundEnds, StaleMerge, AnswerInv
<1>7. CASE RunDone
  <2>1. CASE Return(verdict)
    BY <1>3, <2>1
  <2>2. CASE phase' = "checking" /\ open' = Checks
             /\ UNCHANGED <<call, failing, passed, verdict, overlapped>>
    BY <1>1, <1>7, <2>2 DEF RunDone, RoundEnds, AnswerInv
  <2>3. QED
    BY <1>7, <2>1, <2>2 DEF RunDone
<1>8. CASE RunError \/ RunTimeout
  BY <1>3, <1>8 DEF RunError, RunTimeout
<1>9. CASE EvaluateCheck
  <2>1. CASE Return("error")
    BY <1>3, <2>1
  <2>2. CASE \E c \in open, outcome \in {"pass", "fail", "error"} :
               /\ open' = open \ {c} /\ failing' = (failing \/ outcome = "fail")
               /\ UNCHANGED <<phase, call, passed, verdict, overlapped>>
    BY <1>1, <1>9, <2>2 DEF EvaluateCheck, AnswerInv
  <2>3. \A c \in open : Outcomes(c, content, blocks, registry, facts) \subseteq {"pass", "fail", "error"}
    BY ModelShape, OutcomesType DEF AnswerInv
  <2>4. QED
    BY <1>9, <2>1, <2>2, <2>3 DEF EvaluateCheck
<1>10. CASE EndChecks
  <2>1. CASE failing
    BY <1>3, <1>10, <2>1 DEF EndChecks
  <2>2. CASE ~failing
    BY <1>1, <1>10, <2>2 DEF EndChecks, AnswerInv
  <2>3. QED
    BY <2>1, <2>2
<1>11. CASE EvaluatePolicy
  <2> DEFINE policy  == content.policies[passed + 1]
             outcome == FirstMatch(policy.queries, {}, registry, facts)
  <2>1. passed \in 0..Len(content.policies) /\ passed < Len(content.policies)
    BY <1>11 DEF EvaluatePolicy, AnswerInv
  <2>2. passed + 1 \in 1..Len(content.policies)
    BY <1>2, <2>1
  <2>3. policy.kind \in {"allow", "deny"}
    <3>1. policy \in Policy
      BY <1>2, <2>2, ElementOfSeq
    <3>2. QED
      BY <3>1 DEF Policy
  <2>4. CASE outcome = "fail"
    BY <1>1, <1>2, <1>11, <2>2, <2>4 DEF EvaluatePolicy, AnswerInv
  <2>5. CASE outcome # "fail"
    <3>1. Return(IF outcome = "error" THEN outcome ELSE policy.kind)
      BY <1>11, <2>5 DEF EvaluatePolicy
    <3> HIDE DEF policy, outcome
    <3>2. QED
      BY <1>3, <2>3, <3>1
  <2>6. QED
    BY <2>4, <2>5
<1>12. CASE EndPolicies
  BY <1>3, <1>12 DEF EndPolicies
<1>13. CASE UNCHANGED vars
  BY <1>1, <1>13 DEF vars, AnswerInv
<1>14. QED
  BY <1>4, <1>5, <1>6, <1>7, <1>8, <1>9, <1>10, <1>11, <1>12, <1>13 DEF Next

(* The registry of a built authorizer is the token's.                         *)
LEMMA BuiltRegistry ==
  ASSUME WorldInv, Built
  PROVE  registry = Registry(blocks) /\ blocks \in Token /\ content \in Content
         /\ facts \subseteq Model
<1>1. blocks \in Token /\ registry = SignedUpTo(blocks, Len(blocks))
  BY ModelShape DEF WorldInv
<1>2. QED
  BY <1>1, ModelShape, RegistryOfToken DEF WorldInv

LEMMA DecisionInvNext ==
  WorldInv /\ RunInv /\ AnswerInv /\ DecisionInv /\ [Next]_vars => DecisionInv'
<1> DEFINE verdicts == Verdicts(blocks, content, Registry(blocks), Model)
<1> SUFFICES ASSUME WorldInv, RunInv, AnswerInv, DecisionInv, [Next]_vars PROVE DecisionInv'
  OBVIOUS
<1> USE DEF inputs, building, round, decision
<1>1. /\ blocks' = blocks /\ content' = content /\ Model' = Model /\ Checks' = Checks
      /\ \A c : At(c, Model)' = At(c, Model)
      /\ \A i : PolicyAt(i, Model)' = PolicyAt(i, Model)
      /\ verdicts' = verdicts
  BY Frame DEF Checks, At, PolicyAt
<1>2. SUFFICES ASSUME ~overlapped'
               PROVE  /\ phase' = "checking" =>
                           /\ \A c \in Checks \ open' : At(c, Model) # {"error"}
                           /\ failing' => \E c \in Checks \ open' : "fail" \in At(c, Model)
                           /\ ~failing' => \A c \in Checks \ open' : "pass" \in At(c, Model)
                      /\ phase' = "deciding" =>
                           /\ \A c \in Checks : "pass" \in At(c, Model)
                           /\ \A i \in 1..passed' : PolicyAt(i, Model) = "fail"
                      /\ verdict' \in {"none", "error"} \cup verdicts
  BY <1>1, Zenon DEF DecisionInv
<1>3. ~overlapped
  BY <1>2 DEF Next, vars, LoadBlock, LoadAuthorizer, StartCall, ApplyGroup, NextRound, RunDone,
         RunError, RunTimeout, StaleMerge, EvaluateCheck, EndChecks, EvaluatePolicy, EndPolicies,
         Return
<1>4. verdict \in {"none", "error"} \cup verdicts
  BY <1>3 DEF DecisionInv
<1>5. ASSUME NEW answer \in {"error", verdict} \cup verdicts, Return(answer)
      PROVE  phase' = "ready" /\ verdict' \in {"none", "error"} \cup verdicts
  BY <1>4, <1>5 DEF Return
<1>6. CASE phase' \notin {"checking", "deciding"} /\ verdict' = verdict
  BY <1>4, <1>6
<1>7. CASE LoadBlock \/ LoadAuthorizer \/ (\E op \in {"authorize", "query"} : StartCall(op))
           \/ ApplyGroup \/ NextRound
  BY <1>6, <1>7 DEF LoadBlock, LoadAuthorizer, StartCall, ApplyGroup, NextRound, RoundEnds
<1>8. CASE RunDone
  <2>1. CASE Return(verdict)
    BY <1>5, <2>1
  <2>2. CASE phase' = "checking" /\ open' = Checks /\ failing' = failing /\ verdict' = verdict
    <3>1. ~failing
      BY <1>8 DEF RunDone, RoundEnds, AnswerInv
    <3>2. QED
      BY <1>4, <2>2, <3>1
  <2>3. QED
    BY <1>8, <2>1, <2>2 DEF RunDone
<1>9. CASE RunError \/ RunTimeout
  BY <1>5, <1>9 DEF RunError, RunTimeout
<1>10. CASE StaleMerge
  BY <1>3, <1>4, <1>10 DEF StaleMerge, DecisionInv
<1>11. CASE EvaluateCheck \/ EndChecks \/ EvaluatePolicy \/ EndPolicies
  <2>1. Built /\ facts = Model /\ registry = Registry(blocks)
        /\ blocks \in Token /\ content \in Content
    <3>1. phase \in {"checking", "deciding"}
      BY <1>11 DEF EvaluateCheck, EndChecks, EvaluatePolicy, EndPolicies
    <3>2. QED
      BY <1>3, <3>1, BuiltRegistry DEF Built, RunInv
  <2>2. CASE EvaluateCheck
    <3>1. PICK c \in open : \E outcome \in At(c, Model) :
            IF outcome = "error" THEN Return("error")
            ELSE /\ open' = open \ {c}
                 /\ failing' = (failing \/ outcome = "fail")
                 /\ UNCHANGED <<inputs, building, phase, round, call, passed, verdict, overlapped>>
      BY <2>1, <2>2 DEF EvaluateCheck, At
    <3> PICK outcome \in At(c, Model) :
            IF outcome = "error" THEN Return("error")
            ELSE /\ open' = open \ {c}
                 /\ failing' = (failing \/ outcome = "fail")
                 /\ UNCHANGED <<inputs, building, phase, round, call, passed, verdict, overlapped>>
      BY <3>1
    <3>2. CASE outcome = "error"
      BY <1>5, <3>2
    <3>3. CASE outcome # "error"
      <4>1. /\ open' = open \ {c} /\ failing' = (failing \/ outcome = "fail")
            /\ phase' = phase /\ verdict' = verdict /\ phase = "checking"
        BY <2>2, <3>3 DEF EvaluateCheck
      <4>2. c \in Checks /\ Checks \ open' = (Checks \ open) \cup {c} /\ failing \in BOOLEAN
        BY <4>1 DEF AnswerInv
      <4>3. outcome \in {"pass", "fail"}
        BY <2>1, <3>3, <4>2, OutcomesType DEF At
      <4>4. At(c, Model) # {"error"}
        BY <3>3
      <4>5. /\ \A d \in Checks \ open : At(d, Model) # {"error"}
            /\ failing => \E d \in Checks \ open : "fail" \in At(d, Model)
            /\ ~failing => \A d \in Checks \ open : "pass" \in At(d, Model)
        BY <1>3, <4>1 DEF DecisionInv
      <4>6. failing' => \E d \in Checks \ open' : "fail" \in At(d, Model)
        BY <4>1, <4>2, <4>5
      <4>7. ~failing' => \A d \in Checks \ open' : "pass" \in At(d, Model)
        BY <4>1, <4>2, <4>3, <4>5
      <4>8. QED
        BY <1>4, <4>1, <4>2, <4>4, <4>5, <4>6, <4>7
    <3>4. QED
      BY <3>2, <3>3
  <2>3. CASE EndChecks
    <3>1. /\ phase = "checking" /\ open = {} /\ failing \in BOOLEAN /\ passed = 0
          /\ \A c \in Checks : At(c, Model) # {"error"}
          /\ failing => \E c \in Checks : "fail" \in At(c, Model)
          /\ ~failing => \A c \in Checks : "pass" \in At(c, Model)
      BY <1>3, <2>3 DEF EndChecks, DecisionInv, AnswerInv
    <3>2. CASE failing
      <4>1. "failedChecks" \in verdicts
        BY <2>1, <3>1, <3>2, FailedIsVerdict DEF At
      <4>2. Return("failedChecks")
        BY <2>3, <3>2 DEF EndChecks
      <4>3. QED
        BY <1>5, <4>1, <4>2
    <3>3. CASE ~failing
      <4>1. phase' = "deciding" /\ passed' = passed /\ verdict' = verdict
        BY <2>3, <3>3 DEF EndChecks
      <4>2. QED
        BY <1>4, <3>1, <3>3, <4>1
    <3>4. QED
      BY <3>2, <3>3
  <2>4. CASE EvaluatePolicy \/ EndPolicies
    <3> DEFINE policy  == content.policies[passed + 1]
               outcome == PolicyAt(passed + 1, Model)
    <3>1. /\ phase = "deciding" /\ passed \in 0..Len(content.policies)
          /\ content.policies \in Seq(Policy) /\ Len(content.policies) \in Nat
          /\ \A c \in Checks : "pass" \in At(c, Model)
          /\ \A i \in 1..passed : PolicyAt(i, Model) = "fail"
      <4>1. content.policies \in Seq(Policy)
        BY <2>1 DEF Content
      <4>2. QED
        BY <1>3, <2>4, <4>1, LenProperties DEF EvaluatePolicy, EndPolicies, DecisionInv, AnswerInv
    <3>2. PolicyVerdict(content.policies, Registry(blocks), Model) \in verdicts
      BY <2>1, <3>1, PolicyIsVerdict DEF At
    <3>3. /\ passed = Len(content.policies) =>
               PolicyVerdict(content.policies, Registry(blocks), Model) = "noPolicy"
          /\ passed < Len(content.policies) /\ outcome # "fail" =>
               PolicyVerdict(content.policies, Registry(blocks), Model)
                 = IF outcome = "error" THEN "error" ELSE policy.kind
      BY <3>1, PolicyVerdictIs DEF PolicyAt
    <3>4. CASE EndPolicies
      BY <1>5, <3>2, <3>3, <3>4 DEF EndPolicies
    <3>5. CASE EvaluatePolicy
      <4>1. outcome = FirstMatch(policy.queries, {}, registry, facts) /\ passed < Len(content.policies)
        BY <2>1, <3>5 DEF EvaluatePolicy, PolicyAt, PolicyOutcome
      <4>2. CASE outcome = "fail"
        <5>1. phase' = phase /\ passed' = passed + 1 /\ verdict' = verdict
          BY <3>5, <4>1, <4>2 DEF EvaluatePolicy
        <5>2. \A i \in 1..passed' : i \in 1..passed \/ i = passed + 1
          BY <3>1, <5>1
        <5>3. QED
          BY <1>4, <3>1, <4>2, <5>1, <5>2
      <4>3. CASE outcome # "fail"
        <5>1. Return(IF outcome = "error" THEN outcome ELSE policy.kind)
          BY <3>5, <4>1, <4>3 DEF EvaluatePolicy
        <5> HIDE DEF outcome, policy, verdicts
        <5>2. (IF outcome = "error" THEN outcome ELSE policy.kind) \in {"error", verdict} \cup verdicts
          BY <3>2, <3>3, <4>1, <4>3
        <5>3. QED
          BY <1>5, <5>1, <5>2
      <4>4. QED
        BY <4>2, <4>3
    <3>6. QED
      BY <2>4, <3>4, <3>5
  <2>5. QED
    BY <1>11, <2>2, <2>3, <2>4
<1>12. CASE UNCHANGED vars
  BY <1>3, <1>12 DEF vars, DecisionInv
<1>13. QED
  BY <1>7, <1>8, <1>9, <1>10, <1>11, <1>12 DEF Next

LEMMA SupportInvNext == WorldInv /\ AnswerInv /\ SupportInv /\ [Next]_vars => SupportInv'
<1> DEFINE enough == (\A c \in Checks : SupportedAt(c)) /\ PolicySupported
<1> SUFFICES ASSUME WorldInv, AnswerInv, SupportInv, [Next]_vars PROVE SupportInv'
  OBVIOUS
<1> USE DEF inputs, building, round, decision
<1>1. /\ Checks' = Checks /\ \A c : SupportedAt(c)' = SupportedAt(c)
      /\ enough' = enough
  BY Frame DEF Checks, SupportedAt, PolicySupported
<1>2. SUFFICES /\ phase' = "checking" /\ ~failing' => \A c \in Checks \ open' : SupportedAt(c)
               /\ phase' = "deciding" => \A c \in Checks : SupportedAt(c)
               /\ verdict' = "allow" => enough
  BY <1>1, Zenon DEF SupportInv
<1>3. verdict = "allow" => enough
  BY DEF SupportInv
<1>4. ASSUME NEW answer, Return(answer), answer = "allow" => enough
      PROVE  phase' = "ready" /\ (verdict' = "allow" => enough)
  BY <1>3, <1>4 DEF Return
<1>5. CASE phase' \notin {"checking", "deciding"} /\ verdict' = verdict
  BY <1>3, <1>5
<1>6. CASE LoadBlock \/ LoadAuthorizer \/ (\E op \in {"authorize", "query"} : StartCall(op))
           \/ ApplyGroup \/ NextRound
  BY <1>5, <1>6 DEF LoadBlock, LoadAuthorizer, StartCall, ApplyGroup, NextRound, RoundEnds
<1>7. CASE RunDone
  <2>1. CASE Return(verdict)
    BY <1>3, <1>4, <2>1
  <2>2. CASE phase' = "checking" /\ open' = Checks /\ verdict' = verdict
    BY <1>3, <2>2
  <2>3. QED
    BY <1>7, <2>1, <2>2 DEF RunDone
<1>8. CASE RunError \/ RunTimeout
  BY <1>4, <1>8 DEF RunError, RunTimeout
<1>9. CASE StaleMerge \/ UNCHANGED vars
  BY <1>3, <1>9 DEF StaleMerge, SupportInv, vars
<1>10. CASE EvaluateCheck \/ EndChecks \/ EvaluatePolicy \/ EndPolicies
  <2>1. /\ registry = Registry(blocks) /\ blocks \in Token /\ content \in Content
        /\ facts \subseteq Model
    <3>1. phase \in {"checking", "deciding"}
      BY <1>10 DEF EvaluateCheck, EndChecks, EvaluatePolicy, EndPolicies
    <3>2. QED
      BY <3>1, BuiltRegistry DEF Built
  <2>2. CASE EvaluateCheck
    <3>1. PICK c \in open : \E outcome \in At(c, facts) :
            IF outcome = "error" THEN Return("error")
            ELSE /\ open' = open \ {c}
                 /\ failing' = (failing \/ outcome = "fail")
                 /\ UNCHANGED <<inputs, building, phase, round, call, passed, verdict, overlapped>>
      BY <2>1, <2>2 DEF EvaluateCheck, At
    <3> PICK outcome \in At(c, facts) :
            IF outcome = "error" THEN Return("error")
            ELSE /\ open' = open \ {c}
                 /\ failing' = (failing \/ outcome = "fail")
                 /\ UNCHANGED <<inputs, building, phase, round, call, passed, verdict, overlapped>>
      BY <3>1
    <3>2. CASE outcome = "error"
      BY <1>4, <3>2
    <3>3. CASE outcome # "error"
      <4>1. /\ open' = open \ {c} /\ failing' = (failing \/ outcome = "fail")
            /\ phase' = phase /\ verdict' = verdict /\ phase = "checking"
        BY <2>2, <3>3 DEF EvaluateCheck
      <4>2. c \in Checks /\ Checks \ open' = (Checks \ open) \cup {c}
        BY <4>1 DEF AnswerInv
      <4>3. outcome \in {"pass", "fail"}
        BY <2>1, <3>3, <4>2, OutcomesType DEF At
      <4>4. outcome = "pass" => SupportedAt(c)
        BY <2>1, <4>2, CheckIsSupported DEF At
      <4>5. ~failing => \A d \in Checks \ open : SupportedAt(d)
        BY <4>1 DEF SupportInv
      <4>6. ~failing' => \A d \in Checks \ open' : SupportedAt(d)
        BY <4>1, <4>2, <4>3, <4>4, <4>5
      <4>7. QED
        BY <1>3, <4>1, <4>6
    <3>4. QED
      BY <3>2, <3>3
  <2>3. CASE EndChecks
    <3>1. phase = "checking" /\ open = {} /\ (~failing => \A c \in Checks : SupportedAt(c))
      BY <2>3 DEF EndChecks, SupportInv
    <3>2. CASE failing
      BY <1>4, <2>3, <3>2 DEF EndChecks
    <3>3. CASE ~failing
      BY <1>3, <2>3, <3>1, <3>3 DEF EndChecks
    <3>4. QED
      BY <3>2, <3>3
  <2>4. CASE EndPolicies
    BY <1>4, <2>4 DEF EndPolicies
  <2>5. CASE EvaluatePolicy
    <3> DEFINE policy  == content.policies[passed + 1]
               outcome == FirstMatch(policy.queries, {}, registry, facts)
               answer  == IF outcome = "error" THEN outcome ELSE policy.kind
    <3>1. phase = "deciding" /\ \A c \in Checks : SupportedAt(c)
      BY <2>5 DEF EvaluatePolicy, SupportInv
    <3>2. CASE outcome = "fail"
      BY <1>3, <2>5, <3>1, <3>2 DEF EvaluatePolicy
    <3>3. CASE outcome # "fail"
      <4>1. Return(answer)
        BY <2>5, <3>3 DEF EvaluatePolicy
      <4>2. passed + 1 \in DOMAIN content.policies /\ policy.queries \in Seq(Query)
        <5>1. content.policies \in Seq(Policy)
          BY <2>1 DEF Content
        <5>2. passed + 1 \in 1..Len(content.policies)
          BY <2>5, <5>1, LenProperties DEF EvaluatePolicy, AnswerInv
        <5>3. policy \in Policy
          BY <5>1, <5>2, ElementOfSeq
        <5>4. QED
          BY <5>1, <5>2, <5>3, LenProperties DEF Policy
      <4>3. outcome \in {"pass", "fail", "error"}
        BY <4>2, FirstMatchMeans
      <4>4. answer = "allow" => outcome = "pass" /\ policy.kind = "allow"
        BY <3>3, <4>3
      <4>5. answer = "allow" => PolicySupported
        BY <2>1, <4>2, <4>4, PolicyIsSupported
      <4> HIDE DEF policy, outcome, answer
      <4>6. answer = "allow" => enough
        BY <3>1, <4>5
      <4>7. QED
        BY <1>4, <4>1, <4>6
    <3>4. QED
      BY <3>2, <3>3
  <2>6. QED
    BY <1>10, <2>2, <2>3, <2>4, <2>5
<1>11. QED
  BY <1>6, <1>7, <1>8, <1>9, <1>10 DEF Next

LEMMA DecisionsHold == Spec => [](WorldInv /\ RunInv /\ AnswerInv /\ DecisionInv /\ SupportInv)
<1>1. Init => RunInv /\ AnswerInv /\ DecisionInv /\ SupportInv
  <2> SUFFICES ASSUME Init PROVE RunInv /\ AnswerInv /\ DecisionInv /\ SupportInv
    OBVIOUS
  <2>1. 0 \in 0..Len(content.policies)
    <3>1. content.policies \in Seq(Policy)
      BY AuthorizerAssumption DEF Init, Content
    <3>2. QED
      BY <3>1, LenProperties
  <2>2. QED
    BY <2>1 DEF Init, RunInv, AnswerInv, DecisionInv, SupportInv
<1>2. WorldInv /\ RunInv /\ AnswerInv /\ DecisionInv /\ SupportInv /\ [Next]_vars =>
        (WorldInv /\ RunInv /\ AnswerInv /\ DecisionInv /\ SupportInv)'
  BY WorldInvNext, RunInvNext, AnswerInvNext, DecisionInvNext, SupportInvNext
<1>3. QED
  BY <1>1, <1>2, WorldInvInit, PTL DEF Spec

(* The values the variables range over.                                       *)
THEOREM TypeCorrect == Spec => []TypeOK
<1>1. WorldInv /\ AnswerInv => TypeOK
  <2> SUFFICES ASSUME WorldInv, AnswerInv PROVE TypeOK
    OBVIOUS
  <2>1. /\ blocks \in Token /\ content \in Content /\ loaded \in 0..Len(blocks)
        /\ Model \in SUBSET Entry /\ AllRules(blocks, content) \in SUBSET RuleInBlock
    BY ModelShape DEF WorldInv
  <2>2. registry \in [Key -> SUBSET BlockID]
    BY <2>1, SignedType DEF WorldInv
  <2>3. rules \in SUBSET RuleInBlock /\ facts \in SUBSET Entry
        /\ fresh \in SUBSET Entry /\ stale \in SUBSET Entry
    <3>1. CASE Built
      BY <2>1, <3>1 DEF WorldInv
    <3>2. CASE ~Built
      BY <2>1, <3>2, UpToType DEF WorldInv
    <3>3. QED
      BY <3>1, <3>2
  <2>4. groups \subseteq Origin
    BY <2>3 DEF WorldInv, Groups, RuleInBlock
  <2>5. QED
    BY <2>2, <2>3, <2>4 DEF TypeOK, WorldInv, AnswerInv
<1>2. QED
  BY <1>1, DecisionsHold, PTL

(* Dropping a token's last blocks keeps a yes, when no two runs overlapped.   *)
THEOREM DroppingBlocksKeepsYes == Spec => []Attenuation
<1>1. WorldInv /\ DecisionInv => Attenuation
  <2> SUFFICES ASSUME WorldInv, DecisionInv, verdict = "allow", ~overlapped,
                      NEW n \in 1..(Len(blocks) - 1),
                      \A i \in (n + 1)..Len(blocks) :
                        \/ ~IsThirdParty(blocks[i])
                        \/ blocks[i].signer \notin Named(SubSeq(blocks, 1, n), content)
               PROVE  "allow" \in Verdicts(SubSeq(blocks, 1, n), content,
                                           Registry(SubSeq(blocks, 1, n)),
                                           Saturated(SubSeq(blocks, 1, n), content))
    BY DEF Attenuation
  <2>1. blocks \in Token /\ content \in Content
    BY ModelShape
  <2>2. "allow" \in Verdicts(blocks, content, Registry(blocks), Saturated(blocks, content))
    BY DEF DecisionInv, Model
  <2>3. Unheard(blocks, content, n)
    BY DEF Unheard, Prefix
  <2>4. QED
    BY <2>1, <2>2, <2>3, YesKept DEF Prefix
<1>2. QED
  BY <1>1, DecisionsHold, PTL

(* Yes means what it should, when no two runs overlapped: the whole least     *)
(* model, every check, and the first policy that matched.                     *)
THEOREM YesIsJustified == Spec => []AllowJustified
<1>1. WorldInv /\ DecisionInv => AllowJustified
  <2> SUFFICES ASSUME WorldInv, DecisionInv, verdict = "allow", ~overlapped PROVE AllowJustified
    BY DEF AllowJustified
  <2> DEFINE reg == Registry(blocks)
  <2>1. blocks \in Token /\ content \in Content
    BY ModelShape
  <2>2. "allow" \in Verdicts(blocks, content, reg, Model)
    BY DEF DecisionInv
  <2>3. /\ OwnOutcomes(content, reg, Model) \subseteq {"pass"}
        /\ \A o \in BlockOutcomes(blocks, reg, Model) : "pass" \in o
        /\ PolicyVerdict(content.policies, reg, Model) = "allow"
    BY <2>1, <2>2, AllowMeans
  <2>4. content.checks \in Seq(Check) /\ content.policies \in Seq(Policy)
    BY <2>1 DEF Content
  <2>5. ASSUME NEW c \in Range(content.checks), c.kind = "one"
        PROVE  Satisfied(c, content.scopes, AuthorizerBlockID, blocks, Model)
    <3>1. c \in Check
      BY <2>4, ChecksShape
    <3>2. FirstMatch(c.queries, content.scopes, reg, Model) = "pass"
      BY <2>3 DEF OwnOutcomes
    <3>3. QED
      BY <2>5, <3>1, <3>2, OwnIsSatisfied
  <2>6. ASSUME NEW i \in DOMAIN blocks, NEW c \in Range(blocks[i].checks), ~Bare(c)
        PROVE  Satisfied(c, blocks[i].scopes, i - 1, blocks, Model)
    <3>1. blocks[i] \in Block
      BY <2>1, TokenShape
    <3>2. c \in Check
      <4>1. blocks[i].checks \in Seq(Check)
        BY <3>1 DEF Block
      <4>2. QED
        BY <4>1, ChecksShape
    <3>3. "pass" \in Verify(c, blocks[i].scopes, i - 1, reg, Model)
      BY <2>3 DEF BlockOutcomes
    <3>4. QED
      BY <2>6, <3>2, <3>3, PassedIsSatisfied
  <2>7. \E i \in DOMAIN content.policies :
          /\ content.policies[i].kind = "allow"
          /\ Matched(content.policies, i, reg, Model)
          /\ \A j \in 1..(i - 1) : ~Matched(content.policies, j, reg, Model)
    BY <2>3, <2>4, PolicyAllowed
  <2>8. QED
    BY <2>5, <2>6, <2>7 DEF AllowJustified, Model, Matched, QueryOutcome
<1>2. QED
  BY <1>1, DecisionsHold, PTL

(* Overlapping runs or not, a yes has every match it needs.                   *)
THEOREM YesIsSupported == Spec => []AllowSupported
<1>1. WorldInv /\ SupportInv => AllowSupported
  <2> SUFFICES ASSUME WorldInv, SupportInv, verdict = "allow" PROVE AllowSupported
    BY DEF AllowSupported
  <2>1. /\ \A c \in Checks : SupportedAt(c)
        /\ PolicySupported
    BY DEF SupportInv
  <2>2. ASSUME NEW c \in Range(content.checks)
        PROVE  Supported([c EXCEPT !.kind = "one"], content.scopes, AuthorizerBlockID, blocks, Model)
    <3>1. PICK i \in DOMAIN content.checks : c = content.checks[i]
      BY DEF Range
    <3>2. <<0, i>> \in Checks /\ <<0, i>>[1] = 0 /\ <<0, i>>[2] = i
      BY DEF Checks
    <3>3. SupportedAt(<<0, i>>)
      BY <2>1, <3>2
    <3>4. QED
      BY <3>1, <3>2, <3>3 DEF SupportedAt
  <2>3. ASSUME NEW u \in DOMAIN blocks, NEW c \in Range(blocks[u].checks)
        PROVE  Supported(c, blocks[u].scopes, u - 1, blocks, Model)
    <3>1. PICK i \in DOMAIN blocks[u].checks : c = blocks[u].checks[i]
      BY DEF Range
    <3>2. <<u, i>> \in Checks /\ <<u, i>>[1] = u /\ <<u, i>>[2] = i
      BY DEF Checks
    <3>3. u # 0
      BY ModelShape, TokenShape
    <3>4. SupportedAt(<<u, i>>)
      BY <2>1, <3>2
    <3>5. QED
      BY <3>1, <3>2, <3>3, <3>4 DEF SupportedAt
  <2>4. PICK p \in Range(content.policies) :
          /\ p.kind = "allow"
          /\ Supported([kind |-> "one", queries |-> p.queries], {}, AuthorizerBlockID, blocks, Model)
    BY <2>1 DEF PolicySupported
  <2>5. [[kind |-> "one", queries |-> p.queries] EXCEPT !.kind = "one"]
          = [kind |-> "one", queries |-> p.queries]
    OBVIOUS
  <2>6. QED
    BY <2>2, <2>3, <2>4, <2>5 DEF AllowSupported, Model
<1>2. QED
  BY <1>1, DecisionsHold, PTL

(* Called again, Authorize does not change its mind but for errors, when no   *)
(* run began while an earlier one could still merge.                          *)
THEOREM AuthorizeIsStable == Spec => VerdictStable
<1> DEFINE Inv == WorldInv /\ AnswerInv /\ DecisionInv
<1>1. Inv /\ Inv' /\ [Next]_vars =>
        [~overlapped' /\ verdict \notin {"none", "error"} /\ verdict' # "error"
           => verdict' = verdict]_vars
  <2> SUFFICES ASSUME Inv, Inv', [Next]_vars, ~overlapped',
                      verdict \notin {"none", "error"}, verdict' # "error"
               PROVE  verdict' = verdict
    OBVIOUS
  <2> USE DEF inputs, building, round, decision
  <2>1. blocks' = blocks /\ content' = content /\ Model' = Model
    BY Frame
  <2>2. ~overlapped
    BY DEF Next, vars, LoadBlock, LoadAuthorizer, StartCall, ApplyGroup, NextRound, RunDone,
           RunError, RunTimeout, StaleMerge, EvaluateCheck, EndChecks, EvaluatePolicy,
           EndPolicies, Return
  <2>3. verdict' # "none"
    <3>1. CASE EvaluatePolicy
      <4>1. content.policies \in Seq(Policy)
        BY ModelShape DEF Content
      <4>2. passed + 1 \in 1..Len(content.policies)
        BY <3>1, <4>1, LenProperties DEF EvaluatePolicy, AnswerInv
      <4>3. content.policies[passed + 1].kind # "none"
        <5>1. content.policies[passed + 1] \in Policy
          BY <4>1, <4>2, ElementOfSeq
        <5>2. QED
          BY <5>1 DEF Policy
      <4>4. QED
        BY <3>1, <4>3 DEF EvaluatePolicy, Return
    <3>2. CASE ~EvaluatePolicy
      BY <3>2 DEF Next, vars, LoadBlock, LoadAuthorizer, StartCall, ApplyGroup, NextRound, RunDone,
             RunError, RunTimeout, StaleMerge, EvaluateCheck, EndChecks, EndPolicies, Return
    <3>3. QED
      BY <3>1, <3>2
  <2>4. verdict \in Verdicts(blocks, content, Registry(blocks), Model)
    BY <2>2 DEF DecisionInv
  <2>5. verdict' \in Verdicts(blocks, content, Registry(blocks), Model)
    BY <2>1, <2>2, <2>3 DEF DecisionInv
  <2>6. QED
    BY <2>4, <2>5, VerdictsAgree
<1>2. Spec => []Inv
  BY DecisionsHold, PTL
<1>3. QED
  BY <1>1, <1>2, PTL DEF Spec, VerdictStable
=============================================================================
