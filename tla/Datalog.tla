------------------------------ MODULE Datalog ------------------------------
(***************************************************************************)
(* The datalog data of a World: facts tagged with the set of blocks they    *)
(* come from, rules tagged with the block that declares them and the blocks *)
(* they trust, and the result of applying a rule to a set of facts          *)
(* (datalog/datalog.go, datalog/evaluator.go, datalog/origin.go).           *)
(*                                                                          *)
(* Terms, variables and expressions are abstracted away: a rule is the set  *)
(* of its ground instances whose expressions hold, plus the bodies on which *)
(* evaluating an expression (or an unbound head variable) is an error.      *)
(***************************************************************************)
EXTENDS FiniteSets, Functions, Integers, Sequences

CONSTANTS
  BlockID,    \* block identifiers: 0, 1, ... and the authorizer's
  Fact        \* ground facts

(* A token has finitely many blocks, and evaluation only recombines the     *)
(* finitely many terms that the loaded facts and rules mention.             *)
ASSUME DatalogAssumption == IsFiniteSet(BlockID) /\ IsFiniteSet(Fact)

Origin == SUBSET BlockID

(* An element of a FactSet: one fact under one origin.  The same fact under *)
(* two origins is two elements, as in map[string]*HashSet[Fact].            *)
Entry == [fact : Fact, origin : Origin]

Instance == [body : Seq(Fact), head : Fact]

(* A RuleInBlock together with the TrustedOrigin key it is filed under.     *)
RuleInBlock == [block : BlockID, trusted : Origin,
                instances : SUBSET Instance, failing : SUBSET Seq(Fact)]

(* FactSet.Count: every (origin, fact) pair counts.                         *)
Count(entries) == Cardinality(entries)

(* FactSet.WithOrigin: the entries whose whole origin is trusted.           *)
WithOrigin(entries, trusted) == {e \in entries : e.origin \subseteq trusted}

(* combineIt.matches: one matched entry per body predicate.  A match is     *)
(* represented by the origin of the entry chosen at each body position.     *)
Matches(body, entries) ==
  {m \in [DOMAIN body -> {e.origin : e \in entries}] :
     \A i \in DOMAIN body : [fact |-> body[i], origin |-> m[i]] \in entries}

(* Seeded fault: a derived fact is only tagged with the rule's block.       *)
ApplyForgetsMatches(rib, entries) ==
  {[fact |-> inst.head, origin |-> {rib.block}] :
     inst \in {i \in rib.instances : Matches(i.body, entries) # {}}}

(* Rule.Apply on a successful evaluation: each match yields the instance's  *)
(* head, whose origin is the rule's block and every matched fact's origin.  *)
Apply(rib, entries) ==
  UNION {{[fact |-> inst.head, origin |-> {rib.block} \cup UNION Range(m)] :
            m \in Matches(inst.body, entries)} : inst \in rib.instances}

(* Rule.Apply returns an error: some match makes an expression fail.        *)
ApplyFails(rib, entries) ==
  \E body \in rib.failing : Matches(body, entries) # {}

(* What one rule contributes to a world holding the given facts.            *)
Contribution(rib, entries) == Apply(rib, WithOrigin(entries, rib.trusted))

(* Everything one round of all the rules derives.                           *)
Consequences(rules, entries) ==
  UNION {Contribution(rib, entries) : rib \in rules}

(* No rule adds anything: the facts are a fixpoint of the rules.            *)
Closed(rules, entries) == Consequences(rules, entries) \subseteq entries

(* Reference for what a world derives: rounds of all the rules up to the    *)
(* first that adds nothing.                                                 *)
LeastModel(rs, base) ==
  LET sat[S \in SUBSET Entry] ==
        IF Closed(rs, S) THEN S ELSE sat[S \cup Consequences(rs, S)]
  IN  sat[base]
=============================================================================
