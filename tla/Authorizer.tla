----------------------------- MODULE Authorizer -----------------------------
(* An authorizer: Build files a token's facts, rules and checks under the     *)
(* blocks they trust; Authorize and Query then run the world and decide       *)
(* (authorizer.go, datalog/origin.go, Check.Verify and the evaluator).  A     *)
(* scope names a key where the code holds the key's index in a table (Tables  *)
(* models the indices).  World models the inside of a run for one world and   *)
(* one goroutine at a time; here its steps are coarser, and what matters is   *)
(* what a caller sees who calls again after a run that was cut short, while   *)
(* the goroutine of that run may still be merging.                            *)
EXTENDS Datalog

CONSTANTS
  Key,                \* public keys
  NoSigner,           \* the absence of an external signature
  AuthorizerBlockID,  \* the authorizer's own block identifier
  Tokens,             \* the tokens to authorize: sequences of blocks
  Contents            \* the authorizers to build

Scope == [type : {"authority", "previous"}, key : {NoSigner}] \cup [type : {"key"}, key : Key]

(* A query's possible match: a ground body, and what its expressions evaluate *)
(* to, in order.                                                              *)
Match == [body : Seq(Fact), exprs : Seq({"true", "false", "error"})]
Query == [scopes : SUBSET Scope, matches : SUBSET Match]
Check == [kind : {"one", "all", "reject"}, queries : Seq(Query)]
Policy == [kind : {"allow", "deny"}, queries : Seq(Query)]
Rule == [scopes : SUBSET Scope, instances : SUBSET Instance, failing : SUBSET Seq(Fact)]
Block == [facts : SUBSET Fact, rules : SUBSET Rule, checks : Seq(Check),
          scopes : SUBSET Scope, signer : Key \cup {NoSigner}]
Content == [facts : SUBSET Fact, rules : SUBSET Rule, checks : Seq(Check),
            scopes : SUBSET Scope, policies : Seq(Policy)]

(* Blocks are numbered from 0, far below the authorizer's identifier, which   *)
(* is the largest there is.                                                   *)
ASSUME SignerAssumption == NoSigner \notin Key
ASSUME AuthorizerAssumption ==
  /\ AuthorizerBlockID \in BlockID \cap Nat
  /\ Tokens \subseteq Seq(Block)
  /\ Contents \subseteq Content
  /\ \A blocks \in Tokens :
       /\ Len(blocks) \in 1..AuthorizerBlockID
       /\ 0..(Len(blocks) - 1) \subseteq BlockID

VARIABLES
  blocks,    \* the token
  content,   \* what was added to the authorizer builder
  phase,     \* where the authorizer is: see TypeOK ("failed": Build returned an error)
  loaded,    \* the number of blocks Build has read
  registry,  \* the signature registry: the blocks each key signed
  rules,     \* the world's rules
  facts,     \* the world's facts
  groups,    \* the groups of rules the round has not visited, by the blocks they trust
  fresh,     \* newFacts: what the round derived
  stale,     \* what goroutines of runs that timed out have yet to merge
  call,      \* the running or last operation: "none", "authorize", "query"
  open,      \* the checks Authorize has not evaluated
  failing,   \* len(errs) > 0: a check was not successful
  passed,    \* the policies that did not match
  verdict,   \* what Authorize last returned
  overlapped \* history: did a run begin while an earlier one could still merge?

inputs   == <<blocks, content>>
building == <<loaded, registry, rules>>
round    == <<groups, fresh>>
decision == <<open, failing, passed>>

vars == <<inputs, building, facts, phase, round, stale, call, decision, verdict, overlapped>>

----------------------------------------------------------------------------
(* Scopes.                                                                    *)

(* Seeded fault: in the authorizer, `previous` means every block.             *)
TrustsAllPrevious(scope, id, reg) ==
  CASE scope.type = "authority" -> {0}
    [] scope.type = "previous"  -> IF id = AuthorizerBlockID THEN BlockID ELSE 0..(id - 1)
    [] scope.type = "key"       -> reg[scope.key]

Trusts(scope, id, reg) ==
  CASE scope.type = "authority" -> {0}
    [] scope.type = "previous"  -> IF id = AuthorizerBlockID THEN {} ELSE 0..(id - 1)
    [] scope.type = "key"       -> reg[scope.key]

(* NewTrustedOriginFromScopes: a rule's own scopes replace its block's.       *)
TrustedOrigin(blockScopes, ruleScopes, id, reg) ==
  LET scopes == IF ruleScopes # {} THEN ruleScopes ELSE blockScopes
  IN {id, AuthorizerBlockID} \cup
     IF scopes = {} THEN {0} ELSE UNION {Trusts(s, id, reg) : s \in scopes}

IsThirdParty(block) == block.signer # NoSigner
NoSignatures == [k \in Key |-> {}]

(* Seeded fault: a signer is registered for the block before its own.         *)
RegisterBefore(reg, block, id) ==
  IF id > 0 /\ IsThirdParty(block) THEN [reg EXCEPT ![block.signer] = @ \cup {id - 1}] ELSE reg

Register(reg, block, id) ==
  IF id > 0 /\ IsThirdParty(block) THEN [reg EXCEPT ![block.signer] = @ \cup {id}] ELSE reg

----------------------------------------------------------------------------
(* Build.                                                                     *)

(* The keys a block's scopes name, as indices on the wire.                    *)
QueryScopes(checks) == UNION {UNION {q.scopes : q \in Range(c.queries)} : c \in Range(checks)}
NamedKeys(unit) ==
  {s.key : s \in {s \in unit.scopes \cup QueryScopes(unit.checks)
                         \cup UNION {r.scopes : r \in unit.rules} : s.type = "key"}}

(* A first-party block's key indices count the keys the token had before it,  *)
(* but Build looks them up in the keys the block added, and fails.            *)
Hydrates(token, i) ==
  \/ NamedKeys(token[i]) = {}
  \/ i > 1 /\ IsThirdParty(token[i])
  \/ \A j \in 1..(i - 1) : ~IsThirdParty(token[j]) /\ NamedKeys(token[j]) = {}

FactsOf(unit, id) == {[fact |-> f, origin |-> {id}] : f \in unit.facts}

RulesOf(unit, id, reg) ==
  {[block |-> id, trusted |-> TrustedOrigin(unit.scopes, r.scopes, id, reg),
    instances |-> r.instances, failing |-> r.failing] : r \in unit.rules}

Init ==
  /\ blocks \in Tokens
  /\ content \in Contents
  /\ phase = "building"
  /\ loaded = 0
  /\ registry = NoSignatures
  /\ rules = {}
  /\ facts = {}
  /\ groups = {} /\ fresh = {} /\ stale = {}
  /\ call = "none"
  /\ open = {} /\ failing = FALSE /\ passed = 0
  /\ verdict = "none"
  /\ overlapped = FALSE

(* One turn of the loop over the token's blocks.  The block's rules are filed *)
(* with the signatures registered so far, its own included.                   *)
LoadBlock ==
  /\ phase = "building"
  /\ loaded < Len(blocks)
  /\ LET block == blocks[loaded + 1]
         reg   == Register(registry, block, loaded)
     IN IF Hydrates(blocks, loaded + 1)
        THEN /\ registry' = reg
             /\ facts' = facts \cup FactsOf(block, loaded)
             /\ rules' = rules \cup RulesOf(block, loaded, reg)
             /\ loaded' = loaded + 1
             /\ UNCHANGED phase
        ELSE /\ phase' = "failed"
             /\ UNCHANGED <<registry, facts, rules, loaded>>
  /\ UNCHANGED <<inputs, round, stale, call, decision, verdict, overlapped>>

LoadAuthorizer ==
  /\ phase = "building"
  /\ loaded = Len(blocks)
  /\ facts' = facts \cup FactsOf(content, AuthorizerBlockID)
  /\ rules' = rules \cup RulesOf(content, AuthorizerBlockID, registry)
  /\ phase' = "ready"
  /\ UNCHANGED <<inputs, loaded, registry, round, stale, call, decision, verdict, overlapped>>

----------------------------------------------------------------------------
(* Queries and checks.                                                        *)

(* Expressions are evaluated in order up to the first that is not true.       *)
Conjunction(exprs) ==
  IF \A i \in DOMAIN exprs : exprs[i] = "true" THEN "true"
  ELSE exprs[CHOOSE i \in DOMAIN exprs :
               exprs[i] # "true" /\ \A j \in 1..(i - 1) : exprs[j] = "true"]

(* verifyNoMatches looks for the first that is true (or fails).               *)
AnyTrue(exprs) ==
  IF \A i \in DOMAIN exprs : exprs[i] = "false" THEN "false"
  ELSE exprs[CHOOSE i \in DOMAIN exprs :
               exprs[i] # "false" /\ \A j \in 1..(i - 1) : exprs[j] = "false"]

Found(query, entries) == {m \in query.matches : Matches(m.body, entries) # {}}

(* World.QueryRule: every match is visited, and an error in any is returned.  *)
QueryRule(query, trusted, entries) ==
  LET results == {Conjunction(m.exprs) : m \in Found(query, WithOrigin(entries, trusted))}
  IN IF "error" \in results THEN "error" ELSE IF "true" \in results THEN "pass" ELSE "fail"

(* verifyAnyMatches, verifyAllMatches, verifyNoMatches: the first decisive    *)
(* match returns, and the facts are visited in the order of a Go map, so when *)
(* matches disagree the outcome is any of theirs.                             *)
VerifyMatches(kind, found) ==
  LET results == IF kind = "reject" THEN {AnyTrue(m.exprs) : m \in found}
                                    ELSE {Conjunction(m.exprs) : m \in found}
      decisive == IF kind = "all" THEN "false" ELSE "true"
      answer == IF kind = "one" THEN "pass" ELSE "fail"
      early == {IF r = "error" THEN r ELSE answer : r \in results \cap {decisive, "error"}}
      otherwise == CASE kind = "one"    -> "fail"
                     [] kind = "all"    -> IF found = {} THEN "fail" ELSE "pass"
                     [] kind = "reject" -> "pass"
  IN IF early = {} THEN {otherwise} ELSE early

(* Check.Verify: `check if` returns at its first passing query; the other     *)
(* kinds visit every query, since their break only leaves the switch.         *)
Verify(check, blockScopes, id, reg, entries) ==
  LET outcomes(i) ==
        VerifyMatches(check.kind,
          Found(check.queries[i],
                WithOrigin(entries, TrustedOrigin(blockScopes, check.queries[i].scopes, id, reg))))
      queries == DOMAIN check.queries
  IN IF check.kind = "one"
     THEN {r \in {"pass", "error"} :
             \E i \in queries : r \in outcomes(i) /\ \A j \in 1..(i - 1) : "fail" \in outcomes(j)}
          \cup {r \in {"fail"} : \A i \in queries : r \in outcomes(i)}
     ELSE {r \in {"error"} : \E i \in queries : r \in outcomes(i)}
          \cup {r \in {"fail"} : /\ \E i \in queries : r \in outcomes(i)
                                 /\ \A i \in queries : outcomes(i) # {"error"}}
          \cup {r \in {"pass"} : \A i \in queries : r \in outcomes(i)}

(* The authorizer's checks and its policies take their queries in order, up   *)
(* to the first that matches or fails; a check's kind is not looked at.       *)
FirstMatch(queries, scopes, reg, entries) ==
  LET outcome(i) == QueryRule(queries[i],
        TrustedOrigin(scopes, queries[i].scopes, AuthorizerBlockID, reg), entries)
      stops == {i \in DOMAIN queries : outcome(i) # "fail"}
  IN IF stops = {} THEN "fail"
     ELSE outcome(CHOOSE i \in stops : \A j \in stops : i <= j)

----------------------------------------------------------------------------
(* Authorize and Query.  Both run the world first, on the facts that earlier  *)
(* calls left in it.                                                          *)

Groups == {rib.trusted : rib \in rules}
Group(trusted) == {rib \in rules : rib.trusted = trusted}

StartCall(op) ==
  /\ phase = "ready"
  /\ phase' = "running"
  /\ call' = op
  /\ groups' = Groups
  /\ fresh' = {}
  /\ overlapped' = (overlapped \/ stale # {})
  /\ UNCHANGED <<inputs, building, facts, stale, decision, verdict>>

(* Authorize returns; so does Query, whose result is not kept.                *)
Return(answer) ==
  /\ phase' = "ready"
  /\ verdict' = IF call = "authorize" THEN answer ELSE verdict
  /\ groups' = {} /\ fresh' = {}
  /\ open' = {} /\ failing' = FALSE /\ passed' = 0
  /\ UNCHANGED <<inputs, building, call, overlapped>>

Fails(trusted) == \E rib \in Group(trusted) : ApplyFails(rib, WithOrigin(facts, trusted))

(* The rules of the next group, in map order, on the facts they trust.        *)
ApplyGroup ==
  /\ phase = "running"
  /\ \E trusted \in groups :
       /\ ~Fails(trusted)
       /\ fresh' = fresh \cup Consequences(Group(trusted), facts)
       /\ groups' = groups \ {trusted}
  /\ UNCHANGED <<inputs, building, facts, phase, stale, call, decision, verdict, overlapped>>

RoundEnds == phase = "running" /\ groups = {}

(* The new facts are merged between two counts of w.Facts, and the counts     *)
(* differ, be it by what another goroutine merges in between.                 *)
NextRound ==
  /\ RoundEnds
  /\ fresh \subseteq facts => stale # {}
  /\ facts' = facts \cup fresh
  /\ groups' = Groups
  /\ fresh' = {}
  /\ UNCHANGED <<inputs, building, phase, stale, call, decision, verdict, overlapped>>

(* Authorize's checks: the authorizer's, as unit 0, and the blocks'.          *)
Checks ==
  {<<0, i>> : i \in DOMAIN content.checks}
    \cup UNION {{<<u, i>> : i \in DOMAIN blocks[u].checks} : u \in DOMAIN blocks}

(* The counts agree, and Run returns nil.                                     *)
RunDone ==
  /\ RoundEnds
  /\ fresh \subseteq facts
  /\ IF call = "query" THEN Return(verdict)
     ELSE /\ phase' = "checking"
          /\ open' = Checks
          /\ fresh' = {}
          /\ UNCHANGED <<inputs, building, groups, call, failing, passed, verdict, overlapped>>
  /\ UNCHANGED <<facts, stale>>

(* Seeded fault: Authorize goes on to the checks when the run returned an     *)
(* error.                                                                     *)
RunErrorIgnored ==
  /\ phase = "running"
  /\ \/ \E trusted \in groups : Fails(trusted) /\ UNCHANGED facts
     \/ groups = {} /\ facts' = facts \cup fresh
  /\ IF call = "query" THEN Return(verdict)
     ELSE /\ phase' = "checking"
          /\ open' = Checks
          /\ groups' = {} /\ fresh' = {}
          /\ UNCHANGED <<inputs, building, call, failing, passed, verdict, overlapped>>
  /\ UNCHANGED stale

(* Run returns an error: a rule failed, or a limit was reached, which is only *)
(* looked at once a round is merged; the fact limit comes before the test for *)
(* a fixpoint.                                                                *)
RunError ==
  /\ phase = "running"
  /\ \/ \E trusted \in groups : Fails(trusted) /\ UNCHANGED facts
     \/ groups = {} /\ facts' = facts \cup fresh
  /\ Return("error")
  /\ UNCHANGED stale

(* The deadline, at any point of a run, its verdict being ready included.     *)
(* Between groups the goroutine looks at its context and stops; after them it *)
(* goes on to merge, at any later time.                                       *)
RunTimeout ==
  /\ phase = "running"
  /\ Return("error")
  /\ stale' = IF groups = {} THEN stale \cup (fresh \ facts) ELSE stale
  /\ UNCHANGED facts

(* Late facts arrive one by one, whatever the caller is doing by then.        *)
StaleMerge ==
  /\ \E entry \in stale :
       /\ facts' = facts \cup {entry}
       /\ stale' = stale \ {entry}
  /\ UNCHANGED <<inputs, building, phase, round, call, decision, verdict, overlapped>>

Before(c, d) == c[1] < d[1] \/ (c[1] = d[1] /\ c[2] <= d[2])

Outcomes(c, a, units, reg, entries) ==
  IF c[1] = 0 THEN {FirstMatch(a.checks[c[2]].queries, a.scopes, reg, entries)}
  ELSE Verify(units[c[1]].checks[c[2]], units[c[1]].scopes, c[1] - 1, reg, entries)

(* Seeded fault: each check overwrites what the checks before it came to.     *)
EvaluateOverwrites ==
  /\ phase = "checking"
  /\ \E c \in open :
       /\ \A d \in open : Before(c, d)
       /\ \E outcome \in Outcomes(c, content, blocks, registry, facts) :
            IF outcome = "error" THEN Return("error")
            ELSE /\ open' = open \ {c}
                 /\ failing' = (outcome = "fail")
                 /\ UNCHANGED <<inputs, building, phase, round, call, passed, verdict, overlapped>>
  /\ UNCHANGED <<facts, stale>>

(* The next check: an error is returned at once, a failure kept for later.    *)
EvaluateCheck ==
  /\ phase = "checking"
  /\ \E c \in open :
       /\ \A d \in open : Before(c, d)
       /\ \E outcome \in Outcomes(c, content, blocks, registry, facts) :
            IF outcome = "error" THEN Return("error")
            ELSE /\ open' = open \ {c}
                 /\ failing' = (failing \/ outcome = "fail")
                 /\ UNCHANGED <<inputs, building, phase, round, call, passed, verdict, overlapped>>
  /\ UNCHANGED <<facts, stale>>

EndChecks ==
  /\ phase = "checking"
  /\ open = {}
  /\ IF failing THEN Return("failedChecks")
     ELSE /\ phase' = "deciding"
          /\ UNCHANGED <<inputs, building, round, call, decision, verdict, overlapped>>
  /\ UNCHANGED <<facts, stale>>

(* Seeded fault: a matching deny policy does not end the loop.                *)
PolicyGoesOn ==
  /\ phase = "deciding"
  /\ passed < Len(content.policies)
  /\ LET policy  == content.policies[passed + 1]
         outcome == FirstMatch(policy.queries, {}, registry, facts)
     IN IF outcome = "fail" \/ (outcome = "pass" /\ policy.kind = "deny")
        THEN /\ passed' = passed + 1
             /\ UNCHANGED <<inputs, building, phase, round, call, open, failing, verdict, overlapped>>
        ELSE Return(IF outcome = "error" THEN outcome ELSE policy.kind)
  /\ UNCHANGED <<facts, stale>>

(* The next policy, evaluated without the authorizer's scopes.                *)
EvaluatePolicy ==
  /\ phase = "deciding"
  /\ passed < Len(content.policies)
  /\ LET policy  == content.policies[passed + 1]
         outcome == FirstMatch(policy.queries, {}, registry, facts)
     IN IF outcome = "fail"
        THEN /\ passed' = passed + 1
             /\ UNCHANGED <<inputs, building, phase, round, call, open, failing, verdict, overlapped>>
        ELSE Return(IF outcome = "error" THEN outcome ELSE policy.kind)
  /\ UNCHANGED <<facts, stale>>

EndPolicies ==
  /\ phase = "deciding"
  /\ passed = Len(content.policies)
  /\ Return("noPolicy")
  /\ UNCHANGED <<facts, stale>>

Next ==
  \/ LoadBlock \/ LoadAuthorizer
  \/ StartCall("authorize") \/ StartCall("query")
  \/ ApplyGroup \/ NextRound \/ RunDone \/ RunError \/ RunTimeout
  \/ StaleMerge
  \/ EvaluateCheck \/ EndChecks \/ EvaluatePolicy \/ EndPolicies

Spec == Init /\ [][Next]_vars

----------------------------------------------------------------------------
(* The values the variables range over.                                       *)
TypeOK ==
  /\ blocks \in Tokens
  /\ content \in Contents
  /\ phase \in {"building", "failed", "ready", "running", "checking", "deciding"}
  /\ loaded \in 0..Len(blocks)
  /\ registry \in [Key -> SUBSET BlockID]
  /\ rules \subseteq RuleInBlock
  /\ facts \subseteq Entry
  /\ groups \subseteq Origin
  /\ fresh \subseteq Entry /\ stale \subseteq Entry
  /\ call \in {"none", "authorize", "query"}
  /\ open \subseteq Checks
  /\ failing \in BOOLEAN
  /\ passed \in 0..Len(content.policies)
  /\ verdict \in {"none", "allow", "deny", "noPolicy", "failedChecks", "error"}
  /\ overlapped \in BOOLEAN

(* Reference: what a token and an authorizer derive, independent of how the   *)
(* calls were made.                                                           *)
Registry(token) ==
  [k \in Key |-> {i - 1 : i \in {j \in DOMAIN token : j > 1 /\ token[j].signer = k}}]

AllRules(token, a) ==
  RulesOf(a, AuthorizerBlockID, Registry(token))
    \cup UNION {RulesOf(token[i], i - 1, Registry(SubSeq(token, 1, i))) : i \in DOMAIN token}

AllFacts(token, a) ==
  FactsOf(a, AuthorizerBlockID) \cup UNION {FactsOf(token[i], i - 1) : i \in DOMAIN token}

Saturated(token, a) == LeastModel(AllRules(token, a), AllFacts(token, a))

(* The outcomes of the authorizer's checks, and of each check of a block.     *)
OwnOutcomes(a, reg, entries) ==
  {FirstMatch(c.queries, a.scopes, reg, entries) : c \in Range(a.checks)}

BlockOutcomes(token, reg, entries) ==
  UNION {{Verify(c, token[i].scopes, i - 1, reg, entries) : c \in Range(token[i].checks)} :
           i \in DOMAIN token}

(* The first policy that matches or fails decides.                            *)
PolicyVerdict(policies, reg, entries) ==
  LET outcome(i) == FirstMatch(policies[i].queries, {}, reg, entries)
      stops == {i \in DOMAIN policies : outcome(i) # "fail"}
  IN IF stops = {} THEN "noPolicy"
     ELSE LET i == CHOOSE i \in stops : \A j \in stops : i <= j
          IN IF outcome(i) = "error" THEN "error" ELSE policies[i].kind

(* What Authorize may answer from these facts: a failed check is only         *)
(* reported after every check was evaluated without error.                    *)
Verdicts(token, a, reg, entries) ==
  LET own    == OwnOutcomes(a, reg, entries)
      others == BlockOutcomes(token, reg, entries)
  IN IF "error" \in own THEN {"error"}
     ELSE {v \in {"error"} : \E o \in others : v \in o}
          \cup {v \in {"failedChecks"} : /\ \A o \in others : o # {"error"}
                                       /\ "fail" \in own \cup UNION others}
          \cup {v \in {PolicyVerdict(a.policies, reg, entries)} :
                  own \subseteq {"pass"} /\ \A o \in others : "pass" \in o}

(* The keys a token or an authorizer trusts by name.                          *)
Named(token, a) ==
  NamedKeys(a) \cup (UNION {NamedKeys(token[i]) : i \in DOMAIN token})
    \cup {s.key : s \in {s \in QueryScopes(a.policies) : s.type = "key"}}

(* Attenuation: a token that is authorized stays authorized when its last     *)
(* blocks are dropped, unless one of them is signed by a key that the rest    *)
(* trusts.  Appending a block can take rights away and never adds any, as     *)
(* long as no run began while an earlier one could still merge.               *)
Attenuation ==
  verdict = "allow" /\ ~overlapped =>
    \A n \in 1..(Len(blocks) - 1) :
      LET prefix == SubSeq(blocks, 1, n)
      IN (\A i \in (n + 1)..Len(blocks) :
            ~IsThirdParty(blocks[i]) \/ blocks[i].signer \notin Named(prefix, content))
         => "allow" \in Verdicts(prefix, content, Registry(prefix), Saturated(prefix, content))

(* A check read by its kind: `check if` wants a match whose every expression  *)
(* is true, `check all` wants it of every match of every query, and           *)
(* `reject if` wants no such match.                                           *)
Satisfied(check, scopes, id, token, entries) ==
  LET found(q) ==
        Found(q, WithOrigin(entries, TrustedOrigin(scopes, q.scopes, id, Registry(token))))
      holds(m) == \A i \in DOMAIN m.exprs : m.exprs[i] = "true"
      queries  == Range(check.queries)
  IN CASE check.kind = "one"    -> \E q \in queries : \E m \in found(q) : holds(m)
       [] check.kind = "all"    -> \A q \in queries :
                                      found(q) # {} /\ \A m \in found(q) : holds(m)
       [] check.kind = "reject" -> \A q \in queries : \A m \in found(q) : ~holds(m)

(* A `reject if` with a match that no expression restricts, which             *)
(* verifyNoMatches never fails.                                               *)
Bare(check) ==
  check.kind = "reject" /\ \E q \in Range(check.queries) : \E m \in q.matches : m.exprs = <<>>

(* As long as no run began while an earlier one could still merge, Authorize  *)
(* says yes only from the whole fixpoint of the token's and the authorizer's  *)
(* rules, also after runs that were cut short, with every check satisfied as  *)
(* its kind asks (bare rejects and the authorizer's checks of other kinds     *)
(* than `check if`, which it evaluates like one, apart) and a policy that     *)
(* allows, before which none matched.                                         *)
AllowJustified ==
  verdict = "allow" /\ ~overlapped =>
    LET entries == Saturated(blocks, content)
        matched(i) == \E j \in DOMAIN content.policies[i].queries :
                        LET q == content.policies[i].queries[j]
                        IN QueryRule(q, TrustedOrigin({}, q.scopes, AuthorizerBlockID,
                                                      Registry(blocks)), entries) = "pass"
    IN /\ \A c \in Range(content.checks) :
            c.kind = "one" => Satisfied(c, content.scopes, AuthorizerBlockID, blocks, entries)
       /\ \A i \in DOMAIN blocks : \A c \in Range(blocks[i].checks) :
            ~Bare(c) => Satisfied(c, blocks[i].scopes, i - 1, blocks, entries)
       /\ \E i \in DOMAIN content.policies :
            /\ content.policies[i].kind = "allow"
            /\ matched(i)
            /\ \A j \in 1..(i - 1) : ~matched(j)

(* Some match of some query, or of every query, has only true expressions.    *)
Supported(check, scopes, id, token, entries) ==
  LET holds(i) ==
        LET q == check.queries[i]
        IN \E m \in Found(q, WithOrigin(entries, TrustedOrigin(scopes, q.scopes, id, Registry(token)))) :
             \A k \in DOMAIN m.exprs : m.exprs[k] = "true"
  IN CASE check.kind = "one"    -> \E i \in DOMAIN check.queries : holds(i)
       [] check.kind = "all"    -> \A i \in DOMAIN check.queries : holds(i)
       [] check.kind = "reject" -> TRUE

(* A yes that came too early, from a run that returned nil short of the       *)
(* fixpoint or while late facts arrived between two checks, may miss what a   *)
(* `reject if`, a `check all` or a deny policy would have found, but never    *)
(* lacks a match it needs: on the least model, every `check if` and           *)
(* `check all` of a block, every check of the authorizer (evaluated like      *)
(* `check if`) and an allow policy have one.                                  *)
AllowSupported ==
  verdict = "allow" =>
    LET entries == Saturated(blocks, content)
        own(check, scopes) ==
          Supported([check EXCEPT !.kind = "one"], scopes, AuthorizerBlockID, blocks, entries)
    IN /\ \A c \in Range(content.checks) : own(c, content.scopes)
       /\ \A i \in DOMAIN blocks : \A c \in Range(blocks[i].checks) :
            Supported(c, blocks[i].scopes, i - 1, blocks, entries)
       /\ \E p \in Range(content.policies) :
            p.kind = "allow" /\ own([kind |-> "one", queries |-> p.queries], {})

(* Authorize may be called again, after queries and after runs cut short: as  *)
(* long as no run began while an earlier one could still merge, two of its    *)
(* answers differ only if one is an error.  An expression that fails makes a  *)
(* check pass in one call and err in the next, but not pass in one and fail   *)
(* in the next.                                                               *)
VerdictStable ==
  [][~overlapped' /\ verdict \notin {"none", "error"} /\ verdict' # "error"
       => verdict' = verdict]_vars

(* Which blocks a scope names: a key stands for all the blocks it signed.     *)
Names(scope, id, j) ==
  CASE scope.type = "authority" -> j = 0
    [] scope.type = "previous"  -> j < id /\ id # AuthorizerBlockID
    [] scope.type = "key"       -> j > 0 /\ blocks[j + 1].signer = scope.key

(* No rule is filed to read a block that it does not name, by its own scopes  *)
(* or, without any, by its block's, or by default: besides its own block and  *)
(* the authorizer.  (It may read fewer: a key's blocks that come after the    *)
(* rule's are registered too late.)                                           *)
RulesReadOnlyNamed ==
  LET names(unit, r, id, j) ==
        LET scopes == IF r.scopes # {} THEN r.scopes ELSE unit.scopes
        IN j = id \/ (j = 0 /\ scopes = {}) \/ \E s \in scopes : Names(s, id, j)
      written(unit, id, rib) ==
        \E r \in unit.rules :
          /\ rib.block = id /\ rib.instances = r.instances
          /\ \A j \in rib.trusted \ {AuthorizerBlockID} :
               j \in 0..(Len(blocks) - 1) /\ names(unit, r, id, j)
  IN \A rib \in rules :
       \/ \E i \in DOMAIN blocks : written(blocks[i], i - 1, rib)
       \/ written(content, AuthorizerBlockID, rib)
=============================================================================
