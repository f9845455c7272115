------------------------------ MODULE Builders ------------------------------
(* The builders of blocks and authorizers: what a parsed block adds to either *)
(* (builder.go, authorizer.go), the block a builder makes and what a reader   *)
(* makes of its bytes, and policies saved by one authorizer builder and       *)
(* loaded into another, item by item until one fails.                         *)
EXTENDS Conversion, Bags

CONSTANTS
  Facts, Rules, Checks, Policies,  \* what callers add
  Scopes,      \* the scopes callers add
  ParsedBlock, \* the blocks a parser may return, with the policies of an authorizer
  Foreign,     \* policies other implementations save
  Bases,       \* symbol tables a block may be built over
  Builder,     \* authorizer builders
  MaxAdded,    \* bound on the calls that add something, by what is built
  MaxLoads     \* bound on the loads

Uses == {"authorizer", "authority", "block"}

Sections == {"facts", "rules", "checks", "policies"}

ASSUME BoundAssumption == MaxAdded \in [Uses -> Nat] /\ MaxLoads \in Nat
ASSUME ParsedAssumption ==
  \A p \in ParsedBlock : /\ p.facts \subseteq Facts /\ IsFiniteSet(p.facts)
                         /\ p.rules \in Seq(Rules)
                         /\ p.checks \in Seq(Checks)
                         /\ p.policies \in Seq(Policies)
                         /\ p.scopes \in Seq(Scopes)
ASSUME ValuesAssumption ==
  /\ \A f \in Facts : IsPredicate(f)
  /\ \A r \in Rules : IsRule(r)
  /\ \A c \in Checks : IsCheck(c)
  /\ \A p \in Policies : IsPolicy(p)
  /\ \A s \in Scopes : IsScope(s)
  /\ \A base \in Bases : base \in Seq(Range(base))
ASSUME ForeignAssumption ==
  \A m \in Foreign : /\ IsListOf(IsWirePredicate, m.facts)
                     /\ IsListOf(IsWireRule, m.rules)
                     /\ IsListOf(IsWireQueries, m.checks)
                     /\ IsListOf(IsWireQueries, m.policies)

VARIABLES
  builders,  \* what each authorizer builder holds
  saved,     \* the policies last saved: [policies: on the wire, of: the builder's lists]
  use,       \* what the behaviour builds: an authorizer, an authority or a block
  block,     \* what the block builder holds
  built,     \* the block last built: [wire, base, of: the builder's contents]
  refused,   \* the parsed blocks that AddBlock refused
  added,     \* calls that added something
  loads,     \* loads
  last       \* the last call of AddBlock or LoadPolicies, and its result

vars == <<builders, saved, use, block, built, refused, added, loads, last>>

Nothing == [facts |-> <<>>, rules |-> <<>>, checks |-> <<>>, policies |-> <<>>, scopes |-> <<>>]
Idle == [call |-> "none", of |-> "none", result |-> "ok"]
None == [none |-> TRUE]

----------------------------------------------------------------------------
(* Facts of a block builder, in a hash set that may hold copies (HashSet).    *)

(* A fact that holds a set of two elements or more has several hashes, so     *)
(* Insert may miss it and store it again.                                     *)
Elusive(fact) ==
  \E i \in DOMAIN fact.terms : TypeOf(fact.terms[i]) = "set" /\ Cardinality(fact.terms[i].set) > 1

(* The sets of facts among more that Insert may find it has already.          *)
Known(facts, more) ==
  LET held == {f \in more : BagIn(f, facts)}
  IN {known \in SUBSET held : {f \in held : ~Elusive(f)} \subseteq known}

----------------------------------------------------------------------------
(* Building a block and reading it back.                                      *)

FactsInOrder(facts) == SetToSeq(BagToSet(facts))

Queries(items) == Joining(LAMBDA c : c.queries, items)

(* The strings and keys of a section after the other.                         *)
Words(b) ==
  Joining(PredicateWords, b.facts)
    \o Joining(RuleWords, b.rules \o Queries(b.checks) \o Queries(b.policies))
Keys(b) == Joining(RuleKeys, b.rules \o Queries(b.checks) \o Queries(b.policies))

AsBlock(b) == [Nothing EXCEPT !.facts = FactsInOrder(b.facts), !.rules = b.rules, !.checks = b.checks]

(* Build over a table, which keeps the symbols it had, and no keys.           *)
Built(base, b) ==
  LET symbols == InsertAll(base, Words(AsBlock(b)))
      keys    == InsertAll(<<>>, Keys(AsBlock(b)) \o ScopeKeys(b.scopes))
  IN [symbols |-> SplitOff(symbols, Len(base)),
      keys    |-> keys,
      facts   |-> BagOfAll(LAMBDA f : ConvertPredicate(symbols, f), b.facts),
      rules   |-> Map(LAMBDA r : ConvertRule(symbols, keys, r), b.rules),
      checks  |-> Map(LAMBDA c : ConvertCheck(symbols, keys, c), b.checks),
      scopes  |-> Map(LAMBDA s : ConvertScope(keys, s), b.scopes)]

BlockEncodes(b) ==
  /\ \A f \in BagToSet(b.facts) : PredicateEncodes(f)
  /\ Every(RuleEncodes, b.rules)
  /\ Every(QueriesEncode, b.checks)

(* tokenBlockToProtoBlock.                                                    *)
EncodeBlock(b) ==
  [b EXCEPT !.facts  = BagOfAll(EncodePredicate, @),
            !.rules  = Map(EncodeRule, @),
            !.checks = Map(EncodeCheck, @),
            !.scopes = Map(EncodeScope, @)]

BlockDecodes(w) ==
  /\ \A f \in BagToSet(w.facts) : PredicateDecodes(f)
  /\ Every(RuleDecodes, w.rules)
  /\ Every(CheckDecodes, w.checks)
  /\ Every(ScopeDecodes, w.scopes)

(* protoBlockToTokenBlock.                                                    *)
DecodeBlock(w) ==
  [w EXCEPT !.keys   = InsertAll(<<>>, @),
            !.facts  = BagOfAll(DecodePredicate, @),
            !.rules  = Map(DecodeRule, @),
            !.checks = Map(DecodeCheck, @),
            !.scopes = Map(DecodeScope, @)]

(* What an authorizer makes of a block whose strings are in symbols.          *)
ReadBlock(symbols, b) ==
  [facts  |-> {ReadPredicate(symbols, f) : f \in BagToSet(b.facts)},
   rules  |-> Map(LAMBDA r : ReadRule(symbols, b.keys, r), b.rules),
   checks |-> Map(LAMBDA c : ReadCheck(symbols, b.keys, c), b.checks),
   scopes |-> Map(LAMBDA s : ReadScope(b.keys, s), b.scopes)]

BlockResolves(b) ==
  /\ Every(LAMBDA r : RuleResolves(b.keys, r), b.rules \o Queries(b.checks))
  /\ Every(LAMBDA s : ScopeResolves(b.keys, s), b.scopes)

----------------------------------------------------------------------------
(* Policies on the wire: the message has symbols and no field for the keys,   *)
(* and the authorizer's scopes are not written.                               *)

MinSchemaVersion == 3
MaxSchemaVersion == 6

Encodes(b) ==
  /\ Every(PredicateEncodes, b.facts)
  /\ Every(RuleEncodes, b.rules \o Queries(b.checks) \o Queries(b.policies))

Serialized(b) ==
  LET symbols == InsertAll(<<>>, Words(b))
      keys    == InsertAll(<<>>, Keys(b))
      Rule(r) == EncodeRule(ConvertRule(symbols, keys, r))
  IN [version  |-> MaxSchemaVersion,
      symbols  |-> symbols,
      facts    |-> Map(LAMBDA f : EncodePredicate(ConvertPredicate(symbols, f)), b.facts),
      rules    |-> Map(Rule, b.rules),
      checks   |-> Map(LAMBDA c : EncodeCheck(ConvertCheck(symbols, keys, c)), b.checks),
      policies |-> Map(LAMBDA p : OverQueries(Rule, LAMBDA kind : kind, p), b.policies)]

(* The loader's key table is empty, so a rule that names a key is refused.    *)
policyPublicKeys == <<>>

RuleLoads(r) == RuleDecodes(r) /\ RuleResolves(policyPublicKeys, DecodeRule(r))
Loads(section, item) ==
  CASE section = "facts"    -> PredicateDecodes(item)
    [] section = "rules"    -> RuleLoads(item)
    [] section = "checks"   -> CheckDecodes(item) /\ Every(RuleLoads, item.queries)
    [] section = "policies" -> item.kind \in {"allow", "deny"} /\ Every(RuleLoads, item.queries)

LoadedRule(symbols, r) == ReadRule(symbols, policyPublicKeys, DecodeRule(r))
Loaded(symbols, section, item) ==
  CASE section = "facts"    -> ReadPredicate(symbols, DecodePredicate(item))
    [] section = "rules"    -> LoadedRule(symbols, item)
    [] section = "checks"   -> ReadCheck(symbols, policyPublicKeys, DecodeCheck(item))
    [] section = "policies" -> OverQueries(LAMBDA r : LoadedRule(symbols, r), LAMBDA kind : kind, item)

(* The items of a section before the first that is refused.                   *)
Accepted(m, section) ==
  LET refusedAt == {i \in DOMAIN m[section] : ~Loads(section, m[section][i])}
  IN IF refusedAt = {} THEN m[section]
     ELSE SubSeq(m[section], 1, (CHOOSE i \in refusedAt : \A j \in refusedAt : i <= j) - 1)

Complete(m, section) == Accepted(m, section) = m[section]

(* Seeded fault: policies are loaded before checks.                           *)
PoliciesBeforeChecks == <<"facts", "rules", "policies", "checks">>

LoadOrder == <<"facts", "rules", "checks", "policies">>

(* What a load adds to a section: nothing once an earlier section stopped.    *)
LoadedSection(m, section) ==
  LET n == CHOOSE n \in DOMAIN LoadOrder : LoadOrder[n] = section
  IN IF \A i \in 1..(n - 1) : Complete(m, LoadOrder[i])
     THEN Map(LAMBDA item : Loaded(m.symbols, section, item), Accepted(m, section)) ELSE <<>>

----------------------------------------------------------------------------
Init ==
  /\ builders = [b \in Builder |-> Nothing]
  /\ saved = [policies |-> Serialized(Nothing), of |-> Nothing]
  /\ use \in Uses
  /\ block = [facts |-> EmptyBag, rules |-> <<>>, checks |-> <<>>, scopes |-> <<>>]
  /\ built = None
  /\ refused = {}
  /\ added = 0
  /\ loads = 0
  /\ last = Idle

(* The authorizer builder's AddFact, AddRule, AddCheck, AddPolicy, AddScope   *)
(* append and never refuse.                                                   *)
Add(b, section, item) ==
  /\ added < MaxAdded[use]
  /\ builders' = [builders EXCEPT ![b][section] = Append(@, item)]
  /\ added' = added + 1
  /\ last' = Idle
  /\ UNCHANGED <<saved, use, block, built, refused, loads>>

AddFact(b) == \E f \in Facts : Add(b, "facts", f)
AddRule(b) == \E r \in Rules : Add(b, "rules", r)
AddCheck(b) == \E c \in Checks : Add(b, "checks", c)
AddPolicy(b) == \E p \in Policies : Add(b, "policies", p)
AddScope(b) == \E s \in Scopes : Add(b, "scopes", s)

(* AddAuthorizer: a parsed block, facts in map order, and then the policies.  *)
AddAuthorizer(b) ==
  /\ added < MaxAdded[use]
  /\ \E p \in ParsedBlock : \E facts \in SetToSeqs(p.facts) :
       builders' = [builders EXCEPT ![b] =
                      [facts    |-> @.facts \o facts,
                       rules    |-> @.rules \o p.rules,
                       checks   |-> @.checks \o p.checks,
                       policies |-> @.policies \o p.policies,
                       scopes   |-> @.scopes \o p.scopes]]
  /\ added' = added + 1
  /\ last' = Idle
  /\ UNCHANGED <<saved, use, block, built, refused, loads>>

SerializePolicies(b) ==
  /\ saved' = IF Encodes(builders[b])
              THEN [policies |-> Serialized(builders[b]), of |-> builders[b]] ELSE saved
  /\ last' = Idle
  /\ UNCHANGED <<builders, use, block, built, refused, added, loads>>

LoadPolicies(b) ==
  /\ loads < MaxLoads
  /\ \E m \in {saved.policies} \cup Foreign :
       LET supported == m.version \in MinSchemaVersion..MaxSchemaVersion
           loaded == [s \in Sections |-> IF supported THEN LoadedSection(m, s) ELSE <<>>]
       IN /\ builders' = [builders EXCEPT ![b] = [s \in DOMAIN @ |->
                            IF s \in Sections THEN @[s] \o loaded[s] ELSE @[s]]]
          /\ last' = [call |-> "LoadPolicies", of |-> [builder |-> b, message |-> m],
                      result |-> IF supported /\ \A s \in Sections : Len(loaded[s]) = Len(m[s])
                                 THEN "ok" ELSE "error"]
  /\ loads' = loads + 1
  /\ UNCHANGED <<saved, use, block, built, refused, added>>

(* The block builder's AddRule, AddCheck and AddScope append; AddFact refuses *)
(* a fact it knows.                                                           *)
AppendToBlock(section, item) ==
  /\ added < MaxAdded[use]
  /\ block' = [block EXCEPT ![section] = Append(@, item)]
  /\ added' = added + 1
  /\ last' = Idle
  /\ UNCHANGED <<builders, saved, use, built, refused, loads>>

AddBlockRule == \E r \in Rules : AppendToBlock("rules", r)
AddBlockCheck == \E c \in Checks : AppendToBlock("checks", c)

AddBlockScope == use = "block" /\ \E s \in Scopes : AppendToBlock("scopes", s)

AddBlockFact ==
  /\ added < MaxAdded[use]
  /\ \E f \in Facts : \E known \in Known(block.facts, {f}) :
       block' = [block EXCEPT !.facts = @ (+) SetToBag({f} \ known)]
  /\ added' = added + 1
  /\ last' = Idle
  /\ UNCHANGED <<builders, saved, use, built, refused, loads>>

(* Seeded fault: a refusal is rolled back by removing the block's facts.      *)
AddBlockRolledBack ==
  /\ added < MaxAdded[use]
  /\ \E p \in ParsedBlock : \E known \in Known(block.facts, p.facts) :
       /\ block' = IF known = {}
                   THEN [block EXCEPT !.facts = @ (+) SetToBag(p.facts),
                                      !.rules = @ \o p.rules, !.checks = @ \o p.checks]
                   ELSE [block EXCEPT !.facts = @ (-) SetToBag(p.facts)]
       /\ refused' = IF known = {} THEN refused ELSE refused \cup {p}
       /\ last' = [call |-> "AddBlock", of |-> p, result |-> IF known = {} THEN "ok" ELSE "error"]
  /\ added' = added + 1
  /\ UNCHANGED <<builders, saved, use, built, loads>>

(* AddBlock adds the facts in map order and returns at the first it knows:    *)
(* any of the others may have been added before.  An authority's builder      *)
(* leaves the block's scopes out.                                             *)
AddBlock ==
  /\ added < MaxAdded[use]
  /\ \E p \in ParsedBlock : \E known \in Known(block.facts, p.facts) :
       \/ /\ known = {}
          /\ block' = [block EXCEPT
                         !.facts  = @ (+) SetToBag(p.facts),
                         !.rules  = @ \o p.rules,
                         !.checks = @ \o p.checks,
                         !.scopes = IF use = "authority" THEN @ ELSE @ \o p.scopes]
          /\ last' = [call |-> "AddBlock", of |-> p, result |-> "ok"]
          /\ UNCHANGED refused
       \/ /\ known # {}
          /\ \E before \in SUBSET (p.facts \ known) :
               block' = [block EXCEPT !.facts = @ (+) SetToBag(before)]
          /\ last' = [call |-> "AddBlock", of |-> p, result |-> "error"]
          /\ refused' = refused \cup {p}
  /\ added' = added + 1
  /\ UNCHANGED <<builders, saved, use, built, loads>>

(* Build never fails; turning its block into bytes may, and then there is no  *)
(* token.  An authority block is built over empty tables.                     *)
Build ==
  /\ \E base \in IF use = "authority" THEN {<<>>} ELSE Bases :
       LET b == Built(base, block)
       IN built' = IF BlockEncodes(b)
                   THEN [wire |-> EncodeBlock(b), base |-> base, of |-> block] ELSE None
  /\ last' = Idle
  /\ UNCHANGED <<builders, saved, use, block, refused, added, loads>>

(* Builders share nothing but what is saved, so a behaviour uses those of one *)
(* kind.                                                                      *)
Next ==
  \/ /\ use = "authorizer"
     /\ \E b \in Builder :
          \/ AddFact(b)
          \/ AddRule(b)
          \/ AddCheck(b)
          \/ AddPolicy(b)
          \/ AddScope(b)
          \/ AddAuthorizer(b)
          \/ SerializePolicies(b)
          \/ LoadPolicies(b)
  \/ /\ use # "authorizer"
     /\ \/ AddBlockFact
        \/ AddBlockRule
        \/ AddBlockCheck
        \/ AddBlockScope
        \/ AddBlock
        \/ Build

Spec == Init /\ [][Next]_vars

----------------------------------------------------------------------------
(* The values the builders range over; an authority block has no scopes.      *)
TypeOK ==
  /\ DOMAIN builders = Builder
  /\ \A b \in Builder : Range(builders[b].scopes) \subseteq Scopes
  /\ IsABag(block.facts) /\ BagToSet(block.facts) \subseteq Facts
  /\ Range(block.rules) \subseteq Rules
  /\ Range(block.checks) \subseteq Checks
  /\ Range(block.scopes) \subseteq Scopes
  /\ use = "authority" => block.scopes = <<>>
  /\ refused \subseteq ParsedBlock
  /\ added \in 0..MaxAdded[use] /\ loads \in 0..MaxLoads

(* Items with their dates cut to seconds, which is all a round trip loses.    *)
Whole(section, items) ==
  IF section = "facts" THEN Map(WholePredicate, items)
  ELSE IF section = "rules" THEN Map(WholeRule, items) ELSE Map(WholeQueries, items)

(* A block that was turned into bytes is accepted by its reader, and reads as *)
(* the facts, rules, checks and scopes its builder held, whatever table it    *)
(* was built over.                                                            *)
BlockReadsBack ==
  built # None =>
    LET b == DecodeBlock(built.wire)
    IN /\ BlockDecodes(built.wire) /\ BlockResolves(b)
       /\ ReadBlock(built.base \o b.symbols, b)
            = [facts  |-> {WholePredicate(f) : f \in BagToSet(built.of.facts)},
               rules  |-> Whole("rules", built.of.rules),
               checks |-> Whole("checks", built.of.checks),
               scopes |-> built.of.scopes]

(* What the last load added to a section.                                     *)
Gained(b, section) ==
  SubSeq(builders'[b][section], Len(builders[b][section]) + 1, Len(builders'[b][section]))

(* A load of what was saved succeeds exactly when no saved item names a key,  *)
(* and then adds the items that were saved, in order, as they were.           *)
LoadRestores ==
  [][last'.call = "LoadPolicies" =>
       LET b == last'.of.builder
       IN last'.of.message = saved.policies =>
            /\ last'.result = "ok" <=> Keys(saved.of) = <<>>
            /\ last'.result = "ok" =>
                 \A s \in Sections : Gained(b, s) = Whole(s, saved.of[s])]_vars

(* Whatever the message, a load that fails on the way may leave rules and     *)
(* facts behind, but no policy before all the checks, and no policy without   *)
(* the ones before it: what is left authorizes no more than the whole.        *)
FailedLoadIsStrict ==
  [][last'.call = "LoadPolicies" =>
       LET b == last'.of.builder
           m == last'.of.message
       IN /\ IsPrefix(Map(LAMBDA p : p.kind, Gained(b, "policies")),
                      Map(LAMBDA p : p.kind, m.policies))
          /\ Gained(b, "policies") # <<>> => Len(Gained(b, "checks")) = Len(m.checks)]_vars

(* A refused AddBlock leaves facts behind but no rule, check or scope, and    *)
(* the same block is then refused for good, unless its facts hold sets.       *)
RefusedForGood ==
  [][last'.call = "AddBlock" =>
       /\ last'.result = "error" =>
            /\ block'.rules = block.rules
            /\ block'.checks = block.checks
            /\ block'.scopes = block.scopes
       /\ last'.of \in refused /\ (\A f \in last'.of.facts : ~Elusive(f)) =>
            last'.result = "error"]_vars
=============================================================================
