--------------------------- MODULE BuildersProofs ---------------------------
(* Proofs about module Builders: its types, that a refused block stays        *)
(* refused, that a load that fails leaves policies behind only where the      *)
(* whole would, and the round trips: a block's bytes read as what its builder *)
(* held, and saved policies load as what was saved.  A round trip goes        *)
(* through a lemma for each part of a value, from scalars up, in each of its  *)
(* four conversions: to indices into tables, to the wire, and back.           *)
EXTENDS Builders, FiniteSetTheorems, SequenceTheorems, TLAPS

WF == INSTANCE WellFoundedInduction

USE DEF Uses

----------------------------------------------------------------------------
(* The block builder.                                                         *)

BlockFields == {"facts", "rules", "checks", "scopes"}

(* Inserting a fact keeps those that are in the bag.                          *)
LEMMA BagKeeps ==
  ASSUME NEW A, NEW B, NEW f, BagIn(f, A)
  PROVE  BagIn(f, A (+) B)
BY DEF BagIn, BagToSet, (+)

LEMMA BagSum ==
  ASSUME NEW A, NEW S, IsABag(A)
  PROVE  /\ IsABag(A (+) SetToBag(S))
         /\ BagToSet(A (+) SetToBag(S)) = BagToSet(A) \cup S
         /\ IsFiniteSet(BagToSet(A)) /\ IsFiniteSet(S) => IsFiniteSet(BagToSet(A (+) SetToBag(S)))
<1>1. /\ IsABag(A (+) SetToBag(S))
      /\ BagToSet(A (+) SetToBag(S)) = BagToSet(A) \cup S
  BY DEF IsABag, SetToBag, BagToSet, (+)
<1>2. QED
  BY <1>1, FS_Union

LEMMA KnownIsHeld ==
  ASSUME NEW facts, NEW more, NEW known \in Known(facts, more)
  PROVE  /\ known \subseteq more
         /\ \A f \in known : BagIn(f, facts)
         /\ \A f \in more : BagIn(f, facts) /\ ~Elusive(f) => f \in known
BY DEF Known

(* A block with no fact that holds a set is refused from the first time on,   *)
(* since a fact of it stays in the builder.                                   *)
Remembered ==
  \A p \in refused :
    (\A f \in p.facts : ~Elusive(f)) => \E f \in p.facts : BagIn(f, block.facts)

BlockTyped ==
  /\ DOMAIN block = BlockFields
  /\ IsABag(block.facts) /\ BagToSet(block.facts) \subseteq Facts
  /\ IsFiniteSet(BagToSet(block.facts))
  /\ block.rules \in Seq(Rules)
  /\ block.checks \in Seq(Checks)
  /\ block.scopes \in Seq(Scopes)
  /\ use = "authority" => block.scopes = <<>>
  /\ refused \subseteq ParsedBlock

LEMMA AuthorizerStepBlock ==
  ASSUME NEW b \in Builder,
         \/ AddFact(b) \/ AddRule(b) \/ AddCheck(b) \/ AddPolicy(b) \/ AddScope(b)
         \/ AddAuthorizer(b) \/ SerializePolicies(b) \/ LoadPolicies(b)
  PROVE  UNCHANGED <<block, refused, use>> /\ last'.call # "AddBlock"
<1>1. CASE AddFact(b) \/ AddRule(b) \/ AddCheck(b) \/ AddPolicy(b) \/ AddScope(b)
  BY <1>1 DEF AddFact, AddRule, AddCheck, AddPolicy, AddScope, Add, Idle
<1>2. CASE AddAuthorizer(b)
  BY <1>2 DEF AddAuthorizer, Idle
<1>3. CASE SerializePolicies(b)
  BY <1>3 DEF SerializePolicies, Idle
<1>4. CASE LoadPolicies(b)
  <2>1. last'.call = "LoadPolicies"
    BY <1>4 DEF LoadPolicies
  <2>2. QED
    BY <1>4, <2>1 DEF LoadPolicies
<1>5. QED
  BY <1>1, <1>2, <1>3, <1>4

LEMMA AppendTyped ==
  ASSUME BlockTyped, Remembered, NEW section \in {"rules", "checks", "scopes"}, NEW item,
         section = "rules" => item \in Rules,
         section = "checks" => item \in Checks,
         section = "scopes" => item \in Scopes /\ use = "block",
         AppendToBlock(section, item)
  PROVE  BlockTyped' /\ Remembered' /\ last'.call = "none"
<1>1. /\ block' = [block EXCEPT ![section] = Append(@, item)]
      /\ UNCHANGED <<use, refused>>
      /\ last'.call = "none"
  BY DEF AppendToBlock, Idle
<1>2. block'.facts = block.facts /\ DOMAIN block' = BlockFields
  BY <1>1 DEF BlockTyped, BlockFields
<1>3. /\ block'.rules = IF section = "rules" THEN Append(block.rules, item) ELSE block.rules
      /\ block'.checks = IF section = "checks" THEN Append(block.checks, item) ELSE block.checks
      /\ block'.scopes = IF section = "scopes" THEN Append(block.scopes, item) ELSE block.scopes
  BY <1>1 DEF BlockTyped, BlockFields
<1>4. block'.rules \in Seq(Rules)
  BY <1>3, AppendProperties DEF BlockTyped
<1>5. block'.checks \in Seq(Checks)
  BY <1>3, AppendProperties DEF BlockTyped
<1>6. block'.scopes \in Seq(Scopes)
  BY <1>3, AppendProperties DEF BlockTyped
<1>7. use' = "authority" => block'.scopes = <<>>
  BY <1>1, <1>3 DEF BlockTyped
<1>8. QED
  BY <1>1, <1>2, <1>4, <1>5, <1>6, <1>7 DEF BlockTyped, Remembered

(* What AddBlock does with a block of which known is found.                   *)
AddsAll(p) ==
  /\ block' = [block EXCEPT
                 !.facts  = @ (+) SetToBag(p.facts),
                 !.rules  = @ \o p.rules,
                 !.checks = @ \o p.checks,
                 !.scopes = IF use = "authority" THEN @ ELSE @ \o p.scopes]
  /\ last' = [call |-> "AddBlock", of |-> p, result |-> "ok"]
  /\ UNCHANGED refused

Refuses(p, known) ==
  /\ \E before \in SUBSET (p.facts \ known) :
       block' = [block EXCEPT !.facts = @ (+) SetToBag(before)]
  /\ last' = [call |-> "AddBlock", of |-> p, result |-> "error"]
  /\ refused' = refused \cup {p}

LEMMA AddBlockCases ==
  ASSUME AddBlock
  PROVE  \E p \in ParsedBlock : \E known \in Known(block.facts, p.facts) :
           \/ known = {} /\ AddsAll(p)
           \/ known # {} /\ Refuses(p, known)
BY DEF AddBlock, AddsAll, Refuses

LEMMA AddsAllTyped ==
  ASSUME BlockTyped, NEW p \in ParsedBlock, AddsAll(p)
  PROVE  /\ DOMAIN block' = BlockFields
         /\ block'.facts = block.facts (+) SetToBag(p.facts)
         /\ block'.rules \in Seq(Rules)
         /\ block'.checks \in Seq(Checks)
         /\ block'.scopes \in Seq(Scopes)
         /\ use = "authority" => block'.scopes = <<>>
         /\ last'.call = "AddBlock" /\ last'.of = p /\ last'.result = "ok"
         /\ refused' = refused
<1>1. /\ DOMAIN block' = BlockFields
      /\ block'.facts = block.facts (+) SetToBag(p.facts)
      /\ block'.rules = block.rules \o p.rules
      /\ block'.checks = block.checks \o p.checks
      /\ block'.scopes = IF use = "authority" THEN block.scopes ELSE block.scopes \o p.scopes
  BY DEF AddsAll, BlockTyped, BlockFields
<1>2. /\ p.rules \in Seq(Rules)
      /\ p.checks \in Seq(Checks)
      /\ p.scopes \in Seq(Scopes)
  BY ParsedAssumption
<1>3. block'.rules \in Seq(Rules)
  BY <1>1, <1>2, ConcatProperties DEF BlockTyped
<1>4. block'.checks \in Seq(Checks)
  BY <1>1, <1>2, ConcatProperties DEF BlockTyped
<1>5. block'.scopes \in Seq(Scopes)
  BY <1>1, <1>2, ConcatProperties DEF BlockTyped
<1>6. /\ last'.call = "AddBlock" /\ last'.of = p /\ last'.result = "ok"
      /\ refused' = refused
  BY DEF AddsAll
<1>7. QED
  BY <1>1, <1>3, <1>4, <1>5, <1>6 DEF BlockTyped

LEMMA RefusesTyped ==
  ASSUME BlockTyped, NEW p \in ParsedBlock, NEW known \in Known(block.facts, p.facts),
         Refuses(p, known)
  PROVE  /\ DOMAIN block' = BlockFields
         /\ \E before \in SUBSET p.facts : block'.facts = block.facts (+) SetToBag(before)
         /\ block'.rules = block.rules
         /\ block'.checks = block.checks
         /\ block'.scopes = block.scopes
         /\ last'.call = "AddBlock" /\ last'.of = p /\ last'.result = "error"
         /\ refused' = refused \cup {p}
<1>1. PICK before \in SUBSET (p.facts \ known) :
        block' = [block EXCEPT !.facts = @ (+) SetToBag(before)]
  BY DEF Refuses
<1>2. /\ DOMAIN block' = BlockFields
      /\ block'.facts = block.facts (+) SetToBag(before)
      /\ block'.rules = block.rules
      /\ block'.checks = block.checks
      /\ block'.scopes = block.scopes
  BY <1>1 DEF BlockFields, BlockTyped
<1>3. /\ last'.call = "AddBlock" /\ last'.of = p /\ last'.result = "error"
      /\ refused' = refused \cup {p}
  BY DEF Refuses
<1>4. before \in SUBSET p.facts
  OBVIOUS
<1>5. QED
  BY <1>2, <1>3, <1>4

(* Known facts are in the bag, so a refused block leaves one behind.          *)
LEMMA AddBlockTyped ==
  ASSUME BlockTyped, Remembered, AddBlock
  PROVE  BlockTyped' /\ Remembered'
<1>1. PICK p \in ParsedBlock : \E known \in Known(block.facts, p.facts) :
        \/ known = {} /\ AddsAll(p)
        \/ known # {} /\ Refuses(p, known)
  BY AddBlockCases
<1>2. PICK known \in Known(block.facts, p.facts) :
        \/ known = {} /\ AddsAll(p)
        \/ known # {} /\ Refuses(p, known)
  BY <1>1
<1>3. use' = use /\ p.facts \subseteq Facts /\ IsFiniteSet(p.facts)
  BY ParsedAssumption DEF AddBlock
<1>4. CASE AddsAll(p)
  <2>1. /\ IsABag(block'.facts) /\ BagToSet(block'.facts) \subseteq Facts
        /\ IsFiniteSet(BagToSet(block'.facts))
    BY <1>3, <1>4, AddsAllTyped, BagSum DEF BlockTyped
  <2>2. BlockTyped'
    BY <1>3, <1>4, <2>1, AddsAllTyped DEF BlockTyped
  <2>3. Remembered'
    BY <1>4, AddsAllTyped, BagKeeps DEF Remembered
  <2>4. QED
    BY <2>2, <2>3
<1>5. CASE known # {} /\ Refuses(p, known)
  <2>1. PICK before \in SUBSET p.facts : block'.facts = block.facts (+) SetToBag(before)
    BY <1>5, RefusesTyped
  <2>2. /\ IsABag(block'.facts) /\ BagToSet(block'.facts) \subseteq Facts
        /\ IsFiniteSet(BagToSet(block'.facts))
    BY <1>3, <2>1, BagSum, FS_Subset DEF BlockTyped
  <2>3. BlockTyped'
    BY <1>3, <1>5, <2>2, RefusesTyped DEF BlockTyped
  <2>4. \E f \in p.facts : BagIn(f, block'.facts)
    BY <1>5, <2>1, KnownIsHeld, BagKeeps
  <2>5. refused' = refused \cup {p}
    BY <1>5, RefusesTyped
  <2>6. Remembered'
    BY <2>1, <2>4, <2>5, BagKeeps DEF Remembered
  <2>7. QED
    BY <2>3, <2>6
<1>6. QED
  BY <1>2, <1>4, <1>5

LEMMA AddBlockFactTyped ==
  ASSUME BlockTyped, Remembered, AddBlockFact
  PROVE  BlockTyped' /\ Remembered' /\ last'.call = "none"
<1>1. PICK f \in Facts : \E known \in Known(block.facts, {f}) :
        block' = [block EXCEPT !.facts = @ (+) SetToBag({f} \ known)]
  BY DEF AddBlockFact
<1>2. PICK known \in Known(block.facts, {f}) :
        block' = [block EXCEPT !.facts = @ (+) SetToBag({f} \ known)]
  BY <1>1
<1>3. UNCHANGED <<use, refused>> /\ last'.call = "none"
  BY DEF AddBlockFact, Idle
<1>4. /\ block'.facts = block.facts (+) SetToBag({f} \ known)
      /\ DOMAIN block' = BlockFields
      /\ block'.rules = block.rules
      /\ block'.checks = block.checks
      /\ block'.scopes = block.scopes
  BY <1>2 DEF BlockTyped, BlockFields
<1>5. /\ IsABag(block'.facts) /\ BagToSet(block'.facts) \subseteq Facts
      /\ IsFiniteSet(BagToSet(block'.facts))
  <2>1. IsFiniteSet({f} \ known)
    BY FS_Singleton, FS_Subset
  <2>2. QED
    BY <1>4, <2>1, BagSum DEF BlockTyped
<1>6. BlockTyped'
  BY <1>3, <1>4, <1>5 DEF BlockTyped
<1>7. Remembered'
  BY <1>3, <1>4, BagKeeps DEF Remembered
<1>8. QED
  BY <1>3, <1>6, <1>7

LEMMA BlockStepTyped ==
  ASSUME BlockTyped, Remembered, Next
  PROVE  BlockTyped' /\ Remembered' /\ (AddBlock \/ last'.call # "AddBlock")
<1>1. CASE \E b \in Builder :
             \/ AddFact(b) \/ AddRule(b) \/ AddCheck(b) \/ AddPolicy(b) \/ AddScope(b)
             \/ AddAuthorizer(b) \/ SerializePolicies(b) \/ LoadPolicies(b)
  <2>1. UNCHANGED <<block, refused, use>> /\ last'.call # "AddBlock"
    BY <1>1, AuthorizerStepBlock
  <2>2. QED
    BY <2>1 DEF BlockTyped, Remembered
<1>2. CASE AddBlockFact
  BY <1>2, AddBlockFactTyped
<1>3. CASE AddBlockRule
  BY <1>3, AppendTyped DEF AddBlockRule
<1>4. CASE AddBlockCheck
  BY <1>4, AppendTyped DEF AddBlockCheck
<1>5. CASE AddBlockScope
  BY <1>5, AppendTyped DEF AddBlockScope
<1>6. CASE AddBlock
  BY <1>6, AddBlockTyped
<1>7. CASE Build
  <2>1. UNCHANGED <<block, refused, use>> /\ last'.call # "AddBlock"
    BY <1>7 DEF Build, Idle
  <2>2. QED
    BY <2>1 DEF BlockTyped, Remembered
<1>8. QED
  BY <1>1, <1>2, <1>3, <1>4, <1>5, <1>6, <1>7 DEF Next

LEMMA RefusalStep ==
  ASSUME BlockTyped, Remembered, AddBlock
  PROVE  /\ last'.result = "error" =>
              /\ block'.rules = block.rules
              /\ block'.checks = block.checks
              /\ block'.scopes = block.scopes
         /\ last'.of \in refused /\ (\A f \in last'.of.facts : ~Elusive(f)) =>
              last'.result = "error"
<1>1. PICK p \in ParsedBlock : \E known \in Known(block.facts, p.facts) :
        \/ known = {} /\ AddsAll(p)
        \/ known # {} /\ Refuses(p, known)
  BY AddBlockCases
<1>2. PICK known \in Known(block.facts, p.facts) :
        \/ known = {} /\ AddsAll(p)
        \/ known # {} /\ Refuses(p, known)
  BY <1>1
<1>3. CASE known = {} /\ AddsAll(p)
  <2>1. last'.of = p /\ last'.result = "ok"
    BY <1>3, AddsAllTyped
  <2>2. p \in refused => \E f \in p.facts : Elusive(f)
    BY <1>3, KnownIsHeld DEF Remembered
  <2>3. QED
    BY <2>1, <2>2
<1>4. CASE known # {} /\ Refuses(p, known)
  BY <1>4, RefusesTyped
<1>5. QED
  BY <1>2, <1>3, <1>4

----------------------------------------------------------------------------
(* Lists, whatever they hold.                                                 *)

IsList(s) == s \in Seq(Range(s))

LEMMA SeqIsList ==
  ASSUME NEW S, NEW s \in Seq(S)
  PROVE  IsList(s) /\ Range(s) \subseteq S
<1>1. Len(s) \in Nat /\ DOMAIN s = 1..Len(s) /\ s \in [1..Len(s) -> S]
  BY LenProperties
<1>2. s \in [1..Len(s) -> Range(s)]
  BY <1>1 DEF Range
<1>3. Range(s) \subseteq S
  BY <1>1 DEF Range
<1>4. s \in Seq(Range(s))
  BY <1>1, <1>2, SeqDef
<1>5. QED
  BY <1>3, <1>4 DEF IsList

LEMMA ListDomain ==
  ASSUME NEW s, IsList(s)
  PROVE  Len(s) \in Nat /\ DOMAIN s = 1..Len(s)
BY LenProperties DEF IsList

LEMMA AlikeIsList ==
  ASSUME NEW s, IsList(s), NEW t, t = [i \in DOMAIN s |-> t[i]]
  PROVE  IsList(t) /\ Len(t) = Len(s)
<1>1. Len(s) \in Nat /\ DOMAIN s = 1..Len(s)
  BY ListDomain
<1>2. t \in [1..Len(s) -> Range(t)]
  BY <1>1 DEF Range
<1>3. t \in Seq(Range(t))
  BY <1>1, <1>2, SeqDef
<1>4. Len(t) = Len(s)
  BY <1>1, <1>3, LenProperties
<1>5. QED
  BY <1>3, <1>4 DEF IsList

LEMMA ConcatIsList ==
  ASSUME NEW s, NEW t, IsList(s), IsList(t)
  PROVE  /\ IsList(s \o t)
         /\ SubSeq(s \o t, Len(s) + 1, Len(s \o t)) = t
<1> DEFINE S == Range(s) \cup Range(t)
<1>1. s \in Seq(S) /\ t \in Seq(S)
  BY SeqMonotonic DEF IsList
<1> HIDE DEF S
<1>2. /\ s \o t \in Seq(S)
      /\ Len(s \o t) = Len(s) + Len(t)
      /\ \A i \in 1..Len(s) + Len(t) :
           (s \o t)[i] = IF i <= Len(s) THEN s[i] ELSE t[i - Len(s)]
  BY <1>1, ConcatProperties
<1>3. Len(s) \in Nat /\ Len(t) \in Nat /\ DOMAIN t = 1..Len(t)
  BY ListDomain
<1>4. SubSeq(s \o t, Len(s) + 1, Len(s \o t)) = [i \in 1..Len(t) |-> t[i]]
  BY <1>2, <1>3
<1>5. [i \in 1..Len(t) |-> t[i]] = t
  BY <1>1, <1>3
<1>6. QED
  BY <1>2, <1>4, <1>5, SeqIsList

LEMMA AppendIsList ==
  ASSUME NEW s, NEW x, IsList(s)
  PROVE  IsList(Append(s, x))
<1>1. s \in Seq(Range(s) \cup {x})
  BY SeqMonotonic DEF IsList
<1>2. Append(s, x) \in Seq(Range(s) \cup {x})
  BY <1>1, AppendProperties
<1>3. QED
  BY <1>2, SeqIsList

LEMMA EmptyIsList == IsList(<<>>) /\ Len(<<>>) = 0
BY SeqIsList, EmptySeq

LEMMA OrderIsList ==
  ASSUME NEW p \in ParsedBlock, NEW s \in SetToSeqs(p.facts)
  PROVE  IsList(s)
<1>1. Cardinality(p.facts) \in Nat
  BY ParsedAssumption, FS_CardinalityType
<1>2. s \in [1..Cardinality(p.facts) -> p.facts]
  BY DEF SetToSeqs
<1>3. s \in Seq(p.facts)
  BY <1>1, <1>2, SeqDef
<1>4. QED
  BY <1>3, SeqIsList

----------------------------------------------------------------------------
(* Authorizer builders and what is saved: lists, section by section.          *)

Lists(b) ==
  /\ DOMAIN b = Sections \cup {"scopes"}
  /\ \A section \in Sections : IsList(b[section])
  /\ b.scopes \in Seq(Scopes)

BuildersTyped ==
  /\ DOMAIN builders = Builder
  /\ \A b \in Builder : Lists(builders[b])
  /\ \A section \in Sections : IsList(saved.policies[section])

LEMMA NothingLists == Lists(Nothing)
<1>1. DOMAIN Nothing = Sections \cup {"scopes"}
  BY DEF Nothing, Sections
<1>2. \A section \in Sections : Nothing[section] = <<>>
  BY DEF Nothing, Sections
<1>3. Nothing.scopes \in Seq(Scopes)
  BY EmptySeq DEF Nothing
<1>4. QED
  BY <1>1, <1>2, <1>3, EmptyIsList DEF Lists

(* What is saved has a list for a list, item by item.                         *)
LEMMA SerializedLists ==
  ASSUME NEW b, Lists(b), NEW section \in Sections
  PROVE  IsList(Serialized(b)[section])
<1> DEFINE items == Serialized(b)[section]
<1>1. items = [i \in DOMAIN b[section] |-> items[i]]
  <2>1. CASE section = "facts"
    BY <2>1 DEF Serialized, Map
  <2>2. CASE section = "rules"
    BY <2>2 DEF Serialized, Map
  <2>3. CASE section = "checks"
    BY <2>3 DEF Serialized, Map
  <2>4. CASE section = "policies"
    BY <2>4 DEF Serialized, Map
  <2>5. QED
    BY <2>1, <2>2, <2>3, <2>4 DEF Sections
<1> HIDE DEF items
<1>2. IsList(b[section])
  BY DEF Lists
<1>3. IsList(items)
  BY <1>1, <1>2, AlikeIsList
<1>4. QED
  BY <1>3 DEF items

LEMMA AddLists ==
  ASSUME BuildersTyped, NEW b \in Builder, NEW section \in Sections \cup {"scopes"}, NEW item,
         section = "scopes" => item \in Scopes, Add(b, section, item)
  PROVE  BuildersTyped' /\ last'.call = "none"
<1>1. /\ builders' = [builders EXCEPT ![b][section] = Append(@, item)]
      /\ saved' = saved
      /\ last'.call = "none"
  BY DEF Add, Idle
<1>2. DOMAIN builders' = Builder /\ \A c \in Builder \ {b} : Lists(builders'[c])
  BY <1>1 DEF BuildersTyped
<1>3. /\ DOMAIN builders'[b] = Sections \cup {"scopes"}
      /\ \A s \in Sections \cup {"scopes"} :
           builders'[b][s] = IF s = section THEN Append(builders[b][s], item) ELSE builders[b][s]
  BY <1>1 DEF BuildersTyped, Lists
<1>4. Lists(builders[b])
  BY DEF BuildersTyped
<1>5. \A s \in Sections : IsList(builders'[b][s])
  BY <1>3, <1>4, AppendIsList DEF Lists
<1>6. builders'[b].scopes \in Seq(Scopes)
  <2>1. builders'[b].scopes = IF "scopes" = section THEN Append(builders[b].scopes, item)
                              ELSE builders[b].scopes
    BY <1>3
  <2>2. builders[b].scopes \in Seq(Scopes)
    BY <1>4 DEF Lists
  <2>3. QED
    BY <2>1, <2>2, AppendProperties
<1>7. Lists(builders'[b])
  BY <1>3, <1>5, <1>6 DEF Lists
<1>8. QED
  BY <1>1, <1>2, <1>7 DEF BuildersTyped

LEMMA AddAuthorizerLists ==
  ASSUME BuildersTyped, NEW b \in Builder, AddAuthorizer(b)
  PROVE  BuildersTyped' /\ last'.call = "none"
<1>1. PICK p \in ParsedBlock : \E facts \in SetToSeqs(p.facts) :
        builders' = [builders EXCEPT ![b] =
                       [facts    |-> @.facts \o facts,
                        rules    |-> @.rules \o p.rules,
                        checks   |-> @.checks \o p.checks,
                        policies |-> @.policies \o p.policies,
                        scopes   |-> @.scopes \o p.scopes]]
  BY DEF AddAuthorizer
<1>2. PICK facts \in SetToSeqs(p.facts) :
        builders' = [builders EXCEPT ![b] =
                       [facts    |-> @.facts \o facts,
                        rules    |-> @.rules \o p.rules,
                        checks   |-> @.checks \o p.checks,
                        policies |-> @.policies \o p.policies,
                        scopes   |-> @.scopes \o p.scopes]]
  BY <1>1
<1> DEFINE old == builders[b]
<1>3. Lists(old)
  BY DEF BuildersTyped
<1>4. /\ DOMAIN builders' = Builder
      /\ \A c \in Builder \ {b} : builders'[c] = builders[c]
      /\ builders'[b] = [facts    |-> old.facts \o facts,
                         rules    |-> old.rules \o p.rules,
                         checks   |-> old.checks \o p.checks,
                         policies |-> old.policies \o p.policies,
                         scopes   |-> old.scopes \o p.scopes]
  BY <1>2 DEF BuildersTyped
<1> HIDE DEF old
<1>5. IsList(facts) /\ IsList(p.rules) /\ IsList(p.checks) /\ IsList(p.policies)
  BY OrderIsList, SeqIsList, ParsedAssumption
<1>6. IsList(old.facts) /\ IsList(old.rules) /\ IsList(old.checks) /\ IsList(old.policies)
  BY <1>3 DEF Lists, Sections
<1>7. /\ IsList(old.facts \o facts) /\ IsList(old.rules \o p.rules)
      /\ IsList(old.checks \o p.checks) /\ IsList(old.policies \o p.policies)
  BY <1>5, <1>6, ConcatIsList
<1>8. old.scopes \o p.scopes \in Seq(Scopes)
  BY <1>3, ParsedAssumption, ConcatProperties DEF Lists
<1>9. Lists(builders'[b])
  BY <1>4, <1>7, <1>8 DEF Lists, Sections
<1>10. UNCHANGED saved /\ last'.call = "none"
  BY DEF AddAuthorizer, Idle
<1>11. QED
  BY <1>4, <1>9, <1>10 DEF BuildersTyped

LEMMA SerializePoliciesLists ==
  ASSUME BuildersTyped, NEW b \in Builder, SerializePolicies(b)
  PROVE  BuildersTyped' /\ last'.call = "none"
<1>1. builders' = builders /\ last'.call = "none"
  BY DEF SerializePolicies, Idle
<1>2. Lists(builders[b])
  BY DEF BuildersTyped
<1>3. saved'.policies = saved.policies \/ saved'.policies = Serialized(builders[b])
  BY DEF SerializePolicies
<1>4. QED
  BY <1>1, <1>2, <1>3, SerializedLists DEF BuildersTyped

(* What a load adds.                                                          *)

LEMMA MessageLists ==
  ASSUME BuildersTyped, NEW m \in {saved.policies} \cup Foreign, NEW section \in Sections
  PROVE  IsList(m[section])
BY ForeignAssumption DEF BuildersTyped, IsList, IsListOf, Sections

LEMMA LeastElement ==
  ASSUME NEW S \in SUBSET Nat, S # {}
  PROVE  \E i \in S : \A j \in S : i <= j
<1>1. PICK i \in S : \A j \in S : ~(<<j, i>> \in WF!OpToRel(<, Nat))
  BY WF!NatLessThanWellFounded, WF!WFMin, Zenon
<1>2. \A j \in S : ~(j < i)
  BY <1>1 DEF WF!OpToRel
<1>3. QED
  BY <1>2

LEMMA AcceptedIsPrefix ==
  ASSUME NEW m, NEW section, IsList(m[section])
  PROVE  /\ IsList(Accepted(m, section))
         /\ Len(Accepted(m, section)) <= Len(m[section])
         /\ \A i \in 1..Len(Accepted(m, section)) : Accepted(m, section)[i] = m[section][i]
         /\ Accepted(m, section) = SubSeq(m[section], 1, Len(Accepted(m, section)))
<1> DEFINE s == m[section]
           refusedAt == {i \in DOMAIN s : ~Loads(section, s[i])}
<1>1. Len(s) \in Nat /\ DOMAIN s = 1..Len(s) /\ s \in Seq(Range(s))
  BY ListDomain DEF IsList
<1>2. CASE refusedAt = {}
  <2>1. Accepted(m, section) = s
    BY <1>2 DEF Accepted
  <2>2. s = SubSeq(s, 1, Len(s))
    BY <1>1
  <2>3. QED
    BY <1>1, <2>1, <2>2
<1>3. CASE refusedAt # {}
  <2> DEFINE first == CHOOSE i \in refusedAt : \A j \in refusedAt : i <= j
  <2>1. Accepted(m, section) = SubSeq(s, 1, first - 1)
    BY <1>3 DEF Accepted
  <2>2. refusedAt \subseteq Nat /\ refusedAt \subseteq 1..Len(s)
    BY <1>1
  <2> HIDE DEF refusedAt
  <2>3. \E i \in refusedAt : \A j \in refusedAt : i <= j
    BY <1>3, <2>2, LeastElement
  <2>4. first \in refusedAt
    BY <2>3
  <2> DEFINE n == first - 1
  <2>5. n \in 0..Len(s) /\ n \in Nat
    <3> HIDE DEF first, s
    <3>1. QED
      BY <1>1, <2>2, <2>4
  <2> HIDE DEF n
  <2>6. /\ SubSeq(s, 1, n) \in Seq(Range(s))
        /\ Len(SubSeq(s, 1, n)) = n
        /\ \A i \in 1..n : SubSeq(s, 1, n)[i] = s[i]
    <3>1. \A i \in 1..n : s[i] \in Range(s)
      BY <1>1, <2>5, ElementOfSeq
    <3>2. 1 \in Int /\ n \in Int
      BY <2>5
    <3> HIDE DEF s
    <3>3. /\ SubSeq(s, 1, n) \in Seq(Range(s))
          /\ Len(SubSeq(s, 1, n)) = IF 1 <= n THEN n - 1 + 1 ELSE 0
          /\ \A i \in 1..n - 1 + 1 : SubSeq(s, 1, n)[i] = s[1 + i - 1]
      BY <3>1, <3>2, SubSeqProperties
    <3>4. QED
      BY <2>5, <3>3
  <2>7. Accepted(m, section) = SubSeq(s, 1, n)
    BY <2>1 DEF n
  <2>8. IsList(SubSeq(s, 1, n))
    BY <2>6, SeqIsList
  <2>9. QED
    <3> HIDE DEF s
    <3>1. /\ IsList(Accepted(m, section))
          /\ Len(Accepted(m, section)) <= Len(s)
          /\ \A i \in 1..Len(Accepted(m, section)) : Accepted(m, section)[i] = s[i]
          /\ Accepted(m, section) = SubSeq(s, 1, Len(Accepted(m, section)))
      BY <1>1, <2>5, <2>6, <2>7, <2>8
    <3>2. QED
      BY <3>1 DEF s
<1>4. QED
  BY <1>2, <1>3

Before(section) == CHOOSE n \in DOMAIN LoadOrder : LoadOrder[n] = section

LEMMA Positions ==
  /\ Before("policies") = 4 /\ Before("checks") = 3
  /\ LoadOrder[1] = "facts" /\ LoadOrder[2] = "rules" /\ LoadOrder[3] = "checks"
<1>1. DOMAIN LoadOrder = 1..4
  BY DEF LoadOrder
<1>2. /\ LoadOrder[1] = "facts" /\ LoadOrder[2] = "rules"
      /\ LoadOrder[3] = "checks" /\ LoadOrder[4] = "policies"
  BY DEF LoadOrder
<1>3. \A n \in 1..4 : n = 1 \/ n = 2 \/ n = 3 \/ n = 4
  OBVIOUS
<1>4. \A n \in DOMAIN LoadOrder : /\ LoadOrder[n] = "policies" <=> n = 4
                                  /\ LoadOrder[n] = "checks" <=> n = 3
  BY <1>1, <1>2, <1>3
<1>5. 3 \in DOMAIN LoadOrder /\ 4 \in DOMAIN LoadOrder
  BY <1>1
<1>6. QED
  BY <1>2, <1>4, <1>5 DEF Before

(* A section is loaded item by item, or not at all.                           *)
AllLoaded(m, section) ==
  [i \in DOMAIN Accepted(m, section) |-> Loaded(m.symbols, section, Accepted(m, section)[i])]

LEMMA LoadedSectionCases ==
  ASSUME NEW m, NEW section
  PROVE  LoadedSection(m, section) =
           IF \A i \in 1..(Before(section) - 1) : Complete(m, LoadOrder[i])
           THEN AllLoaded(m, section) ELSE <<>>
BY DEF LoadedSection, AllLoaded, Before, Map

LEMMA AllLoadedIsList ==
  ASSUME NEW m, NEW section, IsList(m[section])
  PROVE  /\ IsList(AllLoaded(m, section))
         /\ Len(AllLoaded(m, section)) = Len(Accepted(m, section))
<1> DEFINE gained == AllLoaded(m, section)
<1>1. IsList(Accepted(m, section))
  BY AcceptedIsPrefix
<1>2. gained = [i \in DOMAIN Accepted(m, section) |-> gained[i]]
  BY DEF AllLoaded
<1> HIDE DEF gained
<1>3. IsList(gained) /\ Len(gained) = Len(Accepted(m, section))
  BY <1>1, <1>2, AlikeIsList
<1>4. QED
  BY <1>3 DEF gained

LEMMA LoadedIsList ==
  ASSUME NEW m, NEW section, IsList(m[section])
  PROVE  IsList(LoadedSection(m, section))
BY LoadedSectionCases, AllLoadedIsList, EmptyIsList

(* Policies are loaded once all the checks are.                               *)
LEMMA ChecksBeforePolicies ==
  ASSUME NEW m, IsList(m.checks), LoadedSection(m, "policies") # <<>>
  PROVE  Len(LoadedSection(m, "checks")) = Len(m.checks)
<1>1. \A i \in 1..3 : Complete(m, LoadOrder[i])
  BY LoadedSectionCases, Positions
<1>2. Complete(m, "facts") /\ Complete(m, "rules") /\ Complete(m, "checks")
  BY <1>1, Positions
<1>3. LoadedSection(m, "checks") = AllLoaded(m, "checks")
  BY <1>1, LoadedSectionCases, Positions
<1>4. Accepted(m, "checks") = m.checks
  BY <1>2 DEF Complete
<1>5. QED
  BY <1>3, <1>4, AllLoadedIsList

(* A policy is loaded with its kind.                                          *)
Kinds(items) == [i \in DOMAIN items |-> items[i].kind]

LEMMA LoadedKinds ==
  ASSUME NEW m, IsList(m.policies)
  PROVE  IsPrefix(Kinds(LoadedSection(m, "policies")), Kinds(m.policies))
<1> DEFINE gained == LoadedSection(m, "policies")
           kept == Accepted(m, "policies")
<1>1. Len(m.policies) \in Nat /\ DOMAIN m.policies = 1..Len(m.policies)
  BY ListDomain
<1>2. IsList(gained) /\ Len(gained) \in Nat /\ DOMAIN gained = 1..Len(gained)
  BY LoadedIsList, ListDomain
<1>3. /\ Len(gained) <= Len(m.policies)
      /\ \A i \in 1..Len(gained) : gained[i].kind = m.policies[i].kind
  <2>1. CASE gained = <<>>
    BY <1>1, <2>1, EmptyIsList
  <2>2. CASE gained = AllLoaded(m, "policies")
    <3>1. /\ IsList(kept) /\ Len(gained) = Len(kept)
          /\ Len(kept) <= Len(m.policies)
          /\ \A i \in 1..Len(kept) : kept[i] = m.policies[i]
      BY <2>2, AcceptedIsPrefix, AllLoadedIsList
    <3>2. DOMAIN kept = 1..Len(kept)
      BY <3>1, ListDomain
    <3>3. \A i \in DOMAIN kept : gained[i] = Loaded(m.symbols, "policies", kept[i])
      BY <2>2 DEF AllLoaded
    <3>4. \A item : Loaded(m.symbols, "policies", item).kind = item.kind
      BY DEF Loaded, OverQueries
    <3>5. QED
      BY <3>1, <3>2, <3>3, <3>4
  <2>3. QED
    BY <2>1, <2>2, LoadedSectionCases
<1> HIDE DEF gained, kept
<1>4. Kinds(gained) = [i \in 1..Len(gained) |-> m.policies[i].kind]
  BY <1>2, <1>3 DEF Kinds
<1>5. Kinds(m.policies) = [i \in 1..Len(m.policies) |-> m.policies[i].kind]
  BY <1>1 DEF Kinds
<1>6. Len(Kinds(gained)) = Len(gained) /\ Len(Kinds(m.policies)) = Len(m.policies)
  BY <1>1, <1>2, <1>4, <1>5
<1>7. SubSeq(Kinds(gained), 1, Len(gained)) = SubSeq(Kinds(m.policies), 1, Len(gained))
  BY <1>1, <1>2, <1>3, <1>4, <1>5
<1>8. IsPrefix(Kinds(gained), Kinds(m.policies))
  BY <1>1, <1>3, <1>6, <1>7 DEF IsPrefix
<1>9. QED
  BY <1>8 DEF gained

Supported(m) == m.version \in MinSchemaVersion..MaxSchemaVersion
Gains(m, section) == IF Supported(m) THEN LoadedSection(m, section) ELSE <<>>

WholeGains(m) ==
  Supported(m) /\ \A section \in Sections : Len(Gains(m, section)) = Len(m[section])

LEMMA LoadPoliciesLists ==
  ASSUME BuildersTyped, NEW b \in Builder, LoadPolicies(b)
  PROVE  /\ BuildersTyped'
         /\ last'.call = "LoadPolicies" /\ last'.of.builder = b
         /\ last'.of.message \in {saved.policies} \cup Foreign
         /\ \A section \in Sections :
              /\ Gained(b, section) = Gains(last'.of.message, section)
              /\ builders'[b][section] = builders[b][section] \o Gains(last'.of.message, section)
         /\ \A c \in Builder \ {b} : builders'[c] = builders[c]
         /\ last'.result = "ok" <=> WholeGains(last'.of.message)
<1>1. PICK m \in {saved.policies} \cup Foreign :
        /\ builders' = [builders EXCEPT ![b] = [s \in DOMAIN @ |->
                          IF s \in Sections THEN @[s] \o Gains(m, s) ELSE @[s]]]
        /\ last'.call = "LoadPolicies" /\ last'.of = [builder |-> b, message |-> m]
        /\ last'.result = "ok" <=> WholeGains(m)
  <2>1. PICK m \in {saved.policies} \cup Foreign :
          /\ builders' = [builders EXCEPT ![b] = [s \in DOMAIN @ |->
                            IF s \in Sections
                            THEN @[s] \o [t \in Sections |-> Gains(m, t)][s] ELSE @[s]]]
          /\ last'.call = "LoadPolicies" /\ last'.of = [builder |-> b, message |-> m]
          /\ last'.result = "ok" <=> WholeGains(m)
    <3>1. PICK m \in {saved.policies} \cup Foreign :
            LET supported == m.version \in MinSchemaVersion..MaxSchemaVersion
                loaded == [s \in Sections |-> IF supported THEN LoadedSection(m, s) ELSE <<>>]
            IN /\ builders' = [builders EXCEPT ![b] = [s \in DOMAIN @ |->
                                 IF s \in Sections THEN @[s] \o loaded[s] ELSE @[s]]]
               /\ last' = [call |-> "LoadPolicies", of |-> [builder |-> b, message |-> m],
                           result |-> IF supported /\ \A s \in Sections : Len(loaded[s]) = Len(m[s])
                                      THEN "ok" ELSE "error"]
      BY DEF LoadPolicies
    <3>2. last'.call = "LoadPolicies" /\ last'.of = [builder |-> b, message |-> m]
      BY <3>1
    <3>3. [s \in Sections |-> Gains(m, s)]
            = [s \in Sections |-> IF m.version \in MinSchemaVersion..MaxSchemaVersion
                                  THEN LoadedSection(m, s) ELSE <<>>]
      BY DEF Gains, Supported
    <3>4. builders' = [builders EXCEPT ![b] = [s \in DOMAIN @ |->
                         IF s \in Sections
                         THEN @[s] \o [t \in Sections |-> Gains(m, t)][s] ELSE @[s]]]
      BY <3>1, <3>3
    <3>5. last'.result = "ok" <=> WholeGains(m)
      BY <3>1 DEF WholeGains, Gains, Supported
    <3>6. QED
      BY <3>2, <3>4, <3>5
  <2>2. QED
    BY <2>1
<1>2. last'.of.builder = b /\ last'.of.message = m
  BY <1>1
<1>3. Lists(builders[b])
  BY DEF BuildersTyped
<1>4. /\ DOMAIN builders' = Builder
      /\ \A c \in Builder \ {b} : builders'[c] = builders[c]
      /\ DOMAIN builders'[b] = Sections \cup {"scopes"}
      /\ \A s \in Sections : builders'[b][s] = builders[b][s] \o Gains(m, s)
      /\ builders'[b].scopes = builders[b].scopes
  BY <1>1, <1>3 DEF BuildersTyped, Lists, Sections
<1>5. \A s \in Sections : IsList(builders[b][s]) /\ IsList(Gains(m, s))
  <2>1. \A s \in Sections : IsList(m[s])
    BY MessageLists
  <2>2. \A s \in Sections : IsList(LoadedSection(m, s))
    BY <2>1, LoadedIsList
  <2>3. QED
    BY <1>3, <2>2, EmptyIsList DEF Lists, Gains
<1>6. \A s \in Sections : /\ IsList(builders'[b][s])
                          /\ Gained(b, s) = Gains(m, s)
  <2>1. TAKE s \in Sections
  <2>2. /\ IsList(builders[b][s] \o Gains(m, s))
        /\ SubSeq(builders[b][s] \o Gains(m, s), Len(builders[b][s]) + 1,
                  Len(builders[b][s] \o Gains(m, s))) = Gains(m, s)
    BY <1>5, ConcatIsList
  <2>3. builders'[b][s] = builders[b][s] \o Gains(m, s)
    BY <1>4
  <2>4. QED
    BY <2>2, <2>3 DEF Gained
<1>7. Lists(builders'[b])
  BY <1>3, <1>4, <1>6 DEF Lists
<1>8. saved' = saved
  BY DEF LoadPolicies
<1>9. BuildersTyped'
  BY <1>4, <1>7, <1>8 DEF BuildersTyped
<1>10. QED
  BY <1>1, <1>2, <1>4, <1>6, <1>9

LEMMA LoadStep ==
  ASSUME BuildersTyped, NEW b \in Builder, LoadPolicies(b)
  PROVE  LET m == last'.of.message
         IN /\ IsPrefix(Kinds(Gained(b, "policies")), Kinds(m.policies))
            /\ Gained(b, "policies") # <<>> => Len(Gained(b, "checks")) = Len(m.checks)
<1> DEFINE m == last'.of.message
<1>1. /\ m \in {saved.policies} \cup Foreign
      /\ Gained(b, "policies") = Gains(m, "policies")
      /\ Gained(b, "checks") = Gains(m, "checks")
  BY LoadPoliciesLists DEF Sections
<1> HIDE DEF m
<1>2. IsList(m.policies) /\ IsList(m.checks)
  BY <1>1, MessageLists DEF Sections
<1>3. CASE Supported(m)
  BY <1>1, <1>2, <1>3, LoadedKinds, ChecksBeforePolicies DEF Gains, m
<1>4. CASE ~Supported(m)
  <2>1. Gained(b, "policies") = <<>>
    BY <1>1, <1>4 DEF Gains
  <2>2. Kinds(<<>>) = <<>>
    BY DEF Kinds
  <2>3. Len(m.policies) \in Nat /\ DOMAIN m.policies = 1..Len(m.policies)
    BY <1>2, ListDomain
  <2>4. Len(Kinds(m.policies)) = Len(m.policies)
    BY <2>3 DEF Kinds
  <2>5. IsPrefix(<<>>, Kinds(m.policies))
    BY <2>3, <2>4 DEF IsPrefix
  <2>6. QED
    BY <2>1, <2>2, <2>5 DEF m
<1>5. QED
  BY <1>3, <1>4

LEMMA BuildersStepTyped ==
  ASSUME BuildersTyped, Next
  PROVE  /\ BuildersTyped'
         /\ \/ last'.call # "LoadPolicies"
            \/ LoadPolicies(last'.of.builder) /\ last'.of.builder \in Builder
<1>1. CASE \E b \in Builder : AddFact(b)
  BY <1>1, AddLists DEF AddFact, Sections
<1>2. CASE \E b \in Builder : AddRule(b)
  BY <1>2, AddLists DEF AddRule, Sections
<1>3. CASE \E b \in Builder : AddCheck(b)
  BY <1>3, AddLists DEF AddCheck, Sections
<1>4. CASE \E b \in Builder : AddPolicy(b)
  BY <1>4, AddLists DEF AddPolicy, Sections
<1>5. CASE \E b \in Builder : AddScope(b)
  BY <1>5, AddLists DEF AddScope, Sections
<1>6. CASE \E b \in Builder : AddAuthorizer(b)
  BY <1>6, AddAuthorizerLists
<1>7. CASE \E b \in Builder : SerializePolicies(b)
  BY <1>7, SerializePoliciesLists
<1>8. CASE \E b \in Builder : LoadPolicies(b)
  BY <1>8, LoadPoliciesLists
<1>9. CASE AddBlockFact \/ AddBlockRule \/ AddBlockCheck \/ AddBlockScope \/ AddBlock \/ Build
  <2>1. UNCHANGED <<builders, saved>>
    BY <1>9 DEF AddBlockFact, AddBlockRule, AddBlockCheck, AddBlockScope, AppendToBlock,
                AddBlock, Build
  <2>2. last'.call # "LoadPolicies"
    <3>1. CASE AddBlock
      <4>1. PICK p \in ParsedBlock : \E known \in Known(block.facts, p.facts) :
              \/ known = {} /\ AddsAll(p)
              \/ known # {} /\ Refuses(p, known)
        BY <3>1, AddBlockCases
      <4>2. last'.call = "AddBlock"
        BY <4>1 DEF AddsAll, Refuses
      <4>3. QED
        BY <4>2
    <3>2. CASE ~AddBlock
      BY <1>9, <3>2 DEF AddBlockFact, AddBlockRule, AddBlockCheck, AddBlockScope,
                        AppendToBlock, Build, Idle
    <3>3. QED
      BY <3>1, <3>2
  <2>3. QED
    BY <2>1, <2>2 DEF BuildersTyped
<1>10. QED
  BY <1>1, <1>2, <1>3, <1>4, <1>5, <1>6, <1>7, <1>8, <1>9 DEF Next

----------------------------------------------------------------------------
(* The theorems.                                                              *)

Bounded ==
  /\ use \in Uses
  /\ added \in 0..MaxAdded[use]
  /\ loads \in 0..MaxLoads

LEMMA BoundedStep ==
  ASSUME Bounded, Next
  PROVE  Bounded'
<1>1. use' = use
  BY DEF Next, AddFact, AddRule, AddCheck, AddPolicy, AddScope, Add, AddAuthorizer,
         SerializePolicies, LoadPolicies, AddBlockFact, AddBlockRule, AddBlockCheck,
         AddBlockScope, AppendToBlock, AddBlock, Build
<1>2. /\ added' = added \/ (added' = added + 1 /\ added < MaxAdded[use])
      /\ loads' = loads \/ (loads' = loads + 1 /\ loads < MaxLoads)
  BY DEF Next, AddFact, AddRule, AddCheck, AddPolicy, AddScope, Add, AddAuthorizer,
         SerializePolicies, LoadPolicies, AddBlockFact, AddBlockRule, AddBlockCheck,
         AddBlockScope, AppendToBlock, AddBlock, Build
<1>3. MaxAdded[use] \in Nat /\ MaxLoads \in Nat
  BY BoundAssumption DEF Bounded
<1>4. QED
  BY <1>1, <1>2, <1>3 DEF Bounded

BuildersInv == BlockTyped /\ Remembered /\ BuildersTyped /\ Bounded

LEMMA InitTyped ==
  ASSUME Init
  PROVE  BuildersInv
<1>1. BlockTyped
  <2>1. /\ DOMAIN block = BlockFields
        /\ block.facts = EmptyBag
        /\ block.rules = <<>> /\ block.checks = <<>> /\ block.scopes = <<>>
        /\ refused = {}
    BY DEF Init, BlockFields
  <2>2. IsABag(EmptyBag) /\ BagToSet(EmptyBag) = {}
    BY DEF IsABag, EmptyBag, SetToBag, BagToSet
  <2>3. QED
    BY <2>1, <2>2, EmptySeq, FS_EmptySet DEF BlockTyped
<1>2. Remembered
  BY DEF Init, Remembered
<1>3. BuildersTyped
  BY NothingLists, SerializedLists DEF Init, BuildersTyped
<1>4. Bounded
  BY BoundAssumption DEF Init, Bounded
<1>5. QED
  BY <1>1, <1>2, <1>3, <1>4 DEF BuildersInv

LEMMA StepTyped ==
  ASSUME BuildersInv, [Next]_vars
  PROVE  BuildersInv'
<1>1. CASE Next
  BY <1>1, BlockStepTyped, BuildersStepTyped, BoundedStep DEF BuildersInv
<1>2. CASE UNCHANGED vars
  BY <1>2 DEF vars, BuildersInv, BlockTyped, Remembered, BuildersTyped, Bounded
<1>3. QED
  BY <1>1, <1>2

(* Blocks, lists and what is saved keep their types in every behaviour, and a *)
(* refused block that may not be missed leaves one of its facts behind.       *)
THEOREM BuildersTypeCorrect == Spec => []BuildersInv
<1>1. Init => BuildersInv
  BY InitTyped
<1>2. BuildersInv /\ [Next]_vars => BuildersInv'
  BY StepTyped
<1>3. QED
  BY <1>1, <1>2, PTL DEF Spec

(* The builders hold what they range over: facts, rules, checks and scopes    *)
(* that callers add, and no scopes for an authority block.                    *)
THEOREM TypeCorrect == Spec => []TypeOK
<1>1. BuildersInv => TypeOK
  <2> SUFFICES ASSUME BuildersInv PROVE TypeOK
    OBVIOUS
  <2>1. \A b \in Builder : Range(builders[b].scopes) \subseteq Scopes
    BY SeqIsList DEF BuildersInv, BuildersTyped, Lists
  <2>2. /\ Range(block.rules) \subseteq Rules
        /\ Range(block.checks) \subseteq Checks
        /\ Range(block.scopes) \subseteq Scopes
    BY SeqIsList DEF BuildersInv, BlockTyped
  <2>3. QED
    BY <2>1, <2>2 DEF BuildersInv, BuildersTyped, BlockTyped, Bounded, TypeOK
<1>2. QED
  BY <1>1, BuildersTypeCorrect, PTL

(* A block that AddBlock refused leaves no rule, check or scope behind, and   *)
(* is refused for good unless its facts hold sets (builder.go AddBlock).      *)
THEOREM RefusalsLast == Spec => RefusedForGood
<1> DEFINE Step ==
      last'.call = "AddBlock" =>
        /\ last'.result = "error" =>
             /\ block'.rules = block.rules
             /\ block'.checks = block.checks
             /\ block'.scopes = block.scopes
        /\ last'.of \in refused /\ (\A f \in last'.of.facts : ~Elusive(f)) =>
             last'.result = "error"
<1>1. BuildersInv /\ [Next]_vars => [Step]_vars
  <2> SUFFICES ASSUME BuildersInv, Next PROVE Step
    OBVIOUS
  <2>1. CASE AddBlock
    BY <2>1, RefusalStep DEF BuildersInv
  <2>2. CASE last'.call # "AddBlock"
    BY <2>2
  <2>3. QED
    BY <2>1, <2>2, BlockStepTyped DEF BuildersInv
<1>2. QED
  BY <1>1, BuildersTypeCorrect, PTL DEF Spec, RefusedForGood

(* Whatever the message, a load that stops on the way adds no policy before   *)
(* all the checks and none without those before it (authorizer.go             *)
(* LoadPolicies).                                                             *)
THEOREM FailedLoadsAreStrict == Spec => FailedLoadIsStrict
<1> DEFINE Step ==
      last'.call = "LoadPolicies" =>
        LET b == last'.of.builder
            m == last'.of.message
        IN /\ IsPrefix(Map(LAMBDA p : p.kind, Gained(b, "policies")),
                       Map(LAMBDA p : p.kind, m.policies))
           /\ Gained(b, "policies") # <<>> => Len(Gained(b, "checks")) = Len(m.checks)
<1>1. BuildersInv /\ [Next]_vars => [Step]_vars
  <2> SUFFICES ASSUME BuildersInv, Next PROVE Step
    OBVIOUS
  <2>1. \A items : Map(LAMBDA p : p.kind, items) = Kinds(items)
    BY DEF Map, Kinds
  <2>2. CASE last'.call # "LoadPolicies"
    BY <2>2
  <2>3. CASE LoadPolicies(last'.of.builder) /\ last'.of.builder \in Builder
    BY <2>1, <2>3, LoadStep DEF BuildersInv
  <2>4. QED
    BY <2>2, <2>3, BuildersStepTyped DEF BuildersInv
<1>2. QED
  BY <1>1, BuildersTypeCorrect, PTL DEF Spec, FailedLoadIsStrict

LEMMA RangeOf ==
  ASSUME NEW s, IsList(s)
  PROVE  /\ \A i \in DOMAIN s : s[i] \in Range(s)
         /\ \A x \in Range(s) : \E i \in DOMAIN s : x = s[i]
BY DEF Range

(* Indices into tables.                                                       *)
LEMMA IndexResolves ==
  ASSUME NEW table, IsList(table), NEW x \in Range(table)
  PROVE  /\ Index(table, x) \in 0..(Len(table) - 1)
         /\ table[Index(table, x) + 1] = x
         /\ Str(table, Index(table, x)) = x
<1> DEFINE at == CHOOSE i \in DOMAIN table : table[i] = x
<1>1. at \in DOMAIN table /\ table[at] = x
  BY DEF Range
<1>2. Index(table, x) = at - 1
  BY DEF Index
<1> HIDE DEF at
<1>3. at \in 1..Len(table) /\ Len(table) \in Nat
  BY <1>1, ListDomain
<1>4. at - 1 \in 0..(Len(table) - 1) /\ (at - 1) + 1 = at /\ at - 1 < Len(table)
  BY <1>3
<1>5. QED
  BY <1>1, <1>2, <1>4 DEF Str

LEMMA DateResolves ==
  ASSUME NEW d \in Int, d \div Ticks \in -(Seconds \div 2)..(Seconds \div 2 - 1)
  PROVE  /\ Unix(d) \in Int
         /\ Time(Unix(d)) = d - (d % Ticks)
<1> DEFINE q == d \div Ticks
           h == Seconds \div 2
<1>1. /\ Ticks \in Nat /\ Ticks > 0
      /\ Seconds \in Nat /\ Seconds % 2 = 0 /\ Seconds > 0
  BY DateAssumption
<1>2. h \in Nat /\ Seconds = 2 * h
  BY <1>1
<1>3. q \in Int /\ Ticks * q = d - (d % Ticks)
  BY <1>1
<1>4. q \in -h..(h - 1)
  OBVIOUS
<1> HIDE DEF q, h
<1>5. Unix(d) = q % Seconds
  BY DEF Unix, q
<1>6. CASE q >= 0
  <2>1. q % Seconds = q /\ q < h
    BY <1>1, <1>2, <1>3, <1>4, <1>6
  <2>2. QED
    BY <1>3, <1>5, <2>1 DEF Time, h
<1>7. CASE q < 0
  <2>1. q % Seconds = q + Seconds /\ ~(q + Seconds < h)
    BY <1>1, <1>2, <1>3, <1>4, <1>7
  <2>2. (q + Seconds) - Seconds = q /\ q + Seconds \in Int
    BY <1>1, <1>3
  <2>3. QED
    BY <1>3, <1>5, <2>1, <2>2 DEF Time, h
<1>8. QED
  BY <1>3, <1>6, <1>7

----------------------------------------------------------------------------
(* Terms.                                                                     *)

LEMMA TypeOfSingle ==
  ASSUME NEW t, NEW type, DOMAIN t = {type}
  PROVE  TypeOf(t) = type
BY DEF TypeOf

LEMMA SetOf ==
  ASSUME NEW S, NEW r, r = [set |-> S]
  PROVE  DOMAIN r = {"set"} /\ TypeOf(r) = "set" /\ r["set"] = S
<1>1. DOMAIN r = {"set"} /\ r["set"] = S
  OBVIOUS
<1>2. QED
  BY <1>1, TypeOfSingle

(* The strings a term holds are in a table.                                   *)
ScalarCovered(symbols, t) ==
  \A type \in DOMAIN t : type \in {"var", "str"} => t[type] \in Range(symbols)
ElementCovered(symbols, t) ==
  IF TypeOf(t) = "set" THEN \A e \in t["set"] : ScalarCovered(symbols, e)
                       ELSE ScalarCovered(symbols, t)
TermCovered(symbols, t) ==
  IF TypeOf(t) = "set" THEN \A e \in t["set"] : ElementCovered(symbols, e)
                       ELSE ScalarCovered(symbols, t)

ConvertElement(symbols, t) == OverElements(LAMBDA e : ConvertScalar(symbols, e), t)
ReadElement(symbols, t) == OverElements(LAMBDA e : ReadScalar(symbols, e), t)
WholeElement(t) == OverElements(WholeScalar, t)

LEMMA ScalarTrip ==
  ASSUME NEW symbols, NEW t, IsScalar(t), IsList(symbols), ScalarCovered(symbols, t)
  PROVE  /\ ReadScalar(symbols, ConvertScalar(symbols, t)) = WholeScalar(t)
         /\ DOMAIN ConvertScalar(symbols, t) = DOMAIN t
<1>1. PICK type \in ScalarTypes : DOMAIN t = {type} /\ IsValue(type, t[type])
  BY DEF IsScalar
<1> DEFINE c == ConvertScalar(symbols, t)
<1>2. /\ DOMAIN c = {type}
      /\ c[type] = IF type \in {"var", "str"} THEN Index(symbols, t[type])
                   ELSE IF type = "date" THEN Unix(t[type]) ELSE t[type]
  BY <1>1 DEF ConvertScalar
<1> HIDE DEF c
<1>3. (IF type \in {"var", "str"} THEN Str(symbols, c[type])
       ELSE IF type = "date" THEN Time(c[type]) ELSE c[type])
        = IF type = "date" THEN t[type] - (t[type] % Ticks) ELSE t[type]
  <2>1. CASE type \in {"var", "str"}
    BY <1>1, <1>2, <2>1, IndexResolves DEF ScalarCovered
  <2>2. CASE type = "date"
    BY <1>1, <1>2, <2>2, DateResolves DEF IsValue
  <2>3. CASE type \notin {"var", "str", "date"}
    BY <1>2, <2>3
  <2>4. QED
    BY <2>1, <2>2, <2>3
<1>4. ReadScalar(symbols, c) = WholeScalar(t)
  BY <1>1, <1>2, <1>3 DEF ReadScalar, WholeScalar
<1>5. QED
  BY <1>1, <1>2, <1>4 DEF c

LEMMA TypeOfScalar ==
  ASSUME NEW t, IsScalar(t)
  PROVE  TypeOf(t) \in ScalarTypes /\ DOMAIN t = {TypeOf(t)} /\ TypeOf(t) # "set"
BY TypeOfSingle DEF IsScalar, ScalarTypes

LEMMA ElementTrip ==
  ASSUME NEW symbols, NEW t, IsElement(t), IsList(symbols), ElementCovered(symbols, t)
  PROVE  /\ ReadElement(symbols, ConvertElement(symbols, t)) = WholeElement(t)
         /\ TypeOf(ConvertElement(symbols, t)) = TypeOf(t)
<1>1. CASE IsScalar(t)
  <2>1. TypeOf(t) # "set" /\ DOMAIN t = {TypeOf(t)}
    BY <1>1, TypeOfScalar
  <2>2. TypeOf(ConvertScalar(symbols, t)) = TypeOf(t)
    BY <1>1, <2>1, ScalarTrip, TypeOfSingle DEF ElementCovered
  <2>3. QED
    BY <1>1, <2>1, <2>2, ScalarTrip
       DEF ElementCovered, ReadElement, ConvertElement, WholeElement, OverElements
<1>2. CASE IsSetOf(IsScalar, t)
  <2>1. TypeOf(t) = "set" /\ \A e \in t["set"] : IsScalar(e)
    BY <1>2, TypeOfSingle DEF IsSetOf
  <2> DEFINE c == ConvertElement(symbols, t)
  <2>2. c = [set |-> {ConvertScalar(symbols, e) : e \in t["set"]}]
    BY <2>1 DEF ConvertElement, OverElements
  <2>3. TypeOf(c) = "set" /\ c["set"] = {ConvertScalar(symbols, e) : e \in t["set"]}
    <3> HIDE DEF c
    <3>1. QED
      BY <2>2, SetOf
  <2> HIDE DEF c
  <2>4. \A e \in t["set"] : ReadScalar(symbols, ConvertScalar(symbols, e)) = WholeScalar(e)
    BY <2>1, ScalarTrip DEF ElementCovered
  <2>5. {ReadScalar(symbols, e) : e \in c["set"]} = {WholeScalar(e) : e \in t["set"]}
    BY <2>3, <2>4
  <2>6. ReadElement(symbols, c) = WholeElement(t)
    BY <2>1, <2>3, <2>5 DEF ReadElement, WholeElement, OverElements
  <2>7. QED
    BY <2>1, <2>3, <2>6 DEF c
<1>3. QED
  BY <1>1, <1>2 DEF IsElement

LEMMA TermTrip ==
  ASSUME NEW symbols, NEW t, IsTerm(t), IsList(symbols), TermCovered(symbols, t)
  PROVE  /\ ReadTerm(symbols, ConvertTerm(symbols, t)) = WholeTerm(t)
         /\ TypeOf(ConvertTerm(symbols, t)) = TypeOf(t)
<1>1. CASE IsScalar(t)
  <2>1. TypeOf(t) # "set" /\ DOMAIN t = {TypeOf(t)}
    BY <1>1, TypeOfScalar
  <2>2. TypeOf(ConvertScalar(symbols, t)) = TypeOf(t)
    BY <1>1, <2>1, ScalarTrip, TypeOfSingle DEF TermCovered
  <2>3. QED
    BY <1>1, <2>1, <2>2, ScalarTrip
       DEF TermCovered, ReadTerm, ConvertTerm, WholeTerm, OverScalars
<1>2. CASE IsSetOf(IsElement, t)
  <2>1. TypeOf(t) = "set" /\ \A e \in t["set"] : IsElement(e)
    BY <1>2, TypeOfSingle DEF IsSetOf
  <2> DEFINE c == ConvertTerm(symbols, t)
  <2>2. c = [set |-> {ConvertElement(symbols, e) : e \in t["set"]}]
    BY <2>1 DEF ConvertTerm, ConvertElement, OverScalars
  <2>3. TypeOf(c) = "set" /\ c["set"] = {ConvertElement(symbols, e) : e \in t["set"]}
    <3> HIDE DEF c
    <3>1. QED
      BY <2>2, SetOf
  <2> HIDE DEF c
  <2>4. \A e \in t["set"] : ReadElement(symbols, ConvertElement(symbols, e)) = WholeElement(e)
    BY <2>1, ElementTrip DEF TermCovered
  <2>5. {ReadElement(symbols, e) : e \in c["set"]} = {WholeElement(e) : e \in t["set"]}
    BY <2>3, <2>4
  <2>6. ReadTerm(symbols, c) = WholeTerm(t)
    BY <2>1, <2>3, <2>5 DEF ReadTerm, WholeTerm, OverScalars, ReadElement, WholeElement
  <2>7. QED
    BY <2>1, <2>3, <2>6 DEF c
<1>3. QED
  BY <1>1, <1>2 DEF IsTerm

----------------------------------------------------------------------------
(* Numbers of operations.                                                     *)

LEMMA TabulatedIsList ==
  ASSUME NEW s, NEW n \in Nat, DOMAIN s = 1..n, s = [i \in 1..n |-> s[i]]
  PROVE  IsList(s) /\ Len(s) = n
<1>1. s \in [1..n -> Range(s)]
  BY DEF Range
<1>2. s \in Seq(Range(s))
  BY <1>1, SeqDef
<1>3. QED
  BY <1>2, LenProperties DEF IsList

LEMMA ConcatElements ==
  ASSUME NEW s, NEW t, IsList(s), IsList(t)
  PROVE  /\ Len(s \o t) = Len(s) + Len(t)
         /\ \A i \in 1..Len(s) + Len(t) :
              (s \o t)[i] = IF i <= Len(s) THEN s[i] ELSE t[i - Len(s)]
         /\ Range(s \o t) = Range(s) \cup Range(t)
<1> DEFINE S == Range(s) \cup Range(t)
<1>1. s \in Seq(S) /\ t \in Seq(S)
  BY SeqMonotonic DEF IsList
<1> HIDE DEF S
<1>2. /\ s \o t \in Seq(S)
      /\ Len(s \o t) = Len(s) + Len(t)
      /\ \A i \in 1..Len(s) + Len(t) :
           (s \o t)[i] = IF i <= Len(s) THEN s[i] ELSE t[i - Len(s)]
  BY <1>1, ConcatProperties
<1>3. /\ Len(s) \in Nat /\ DOMAIN s = 1..Len(s)
      /\ Len(t) \in Nat /\ DOMAIN t = 1..Len(t)
      /\ DOMAIN (s \o t) = 1..(Len(s) + Len(t))
  BY <1>2, ListDomain, SeqIsList
<1>4. \A i \in DOMAIN s : i \in DOMAIN (s \o t) /\ (s \o t)[i] = s[i]
  BY <1>2, <1>3
<1>5. \A i \in DOMAIN t :
        Len(s) + i \in DOMAIN (s \o t) /\ (s \o t)[Len(s) + i] = t[i]
  BY <1>2, <1>3
<1>6. \A i \in DOMAIN (s \o t) : (s \o t)[i] \in Range(s) \cup Range(t)
  <2>1. ASSUME NEW i \in DOMAIN (s \o t)
        PROVE  (s \o t)[i] \in Range(s) \cup Range(t)
    <3>1. CASE i <= Len(s)
      BY <1>2, <1>3, <3>1 DEF Range
    <3>2. CASE ~(i <= Len(s))
      <4>1. i - Len(s) \in DOMAIN t /\ (s \o t)[i] = t[i - Len(s)]
        BY <1>2, <1>3, <3>2
      <4>2. QED
        BY <4>1 DEF Range
    <3>3. QED
      BY <3>1, <3>2
  <2>2. QED
    BY <2>1
<1>7. Range(s \o t) = Range(s) \cup Range(t)
  <2> DEFINE u == s \o t
  <2>1. Range(u) \subseteq Range(s) \cup Range(t)
    BY <1>6 DEF Range
  <2>2. /\ \A i \in DOMAIN s : i \in DOMAIN u /\ u[i] = s[i]
        /\ \A i \in DOMAIN t : Len(s) + i \in DOMAIN u /\ u[Len(s) + i] = t[i]
    BY <1>4, <1>5
  <2> HIDE DEF u
  <2>3. Range(s) \subseteq Range(u)
    BY <2>2 DEF Range
  <2>4. Range(t) \subseteq Range(u)
    BY <2>2 DEF Range
  <2>5. Range(u) = Range(s) \cup Range(t)
    BY <2>1, <2>3, <2>4
  <2>6. QED
    BY <2>5 DEF u
<1>8. QED
  BY <1>2, <1>7

LEMMA BinaryOperations ==
  ASSUME NEW second, NEW third, {second, third} = {"LessOrEqual", "GreaterThan"}
  PROVE  /\ IsList(Binary(second, third))
         /\ Len(Binary(second, third)) = 17
         /\ \A i, j \in 1..17 : Binary(second, third)[i] = Binary(second, third)[j] => i = j
         /\ Range(Binary(second, third)) = Range(Binary("LessOrEqual", "GreaterThan"))
<1> DEFINE s == Binary(second, third)
           d == Binary("LessOrEqual", "GreaterThan")
<1>1. IsList(s) /\ Len(s) = 17
  <2>1. DOMAIN s = 1..17 /\ s = [i \in 1..17 |-> s[i]]
    BY DEF Binary
  <2> HIDE DEF s
  <2>2. QED
    BY <2>1, TabulatedIsList
<1>2. \A i, j \in 1..17 : s[i] = s[j] => i = j
  BY SMTT(60) DEF Binary
<1>3. Range(s) = Range(d)
  <2>1. DOMAIN s = 1..17 /\ DOMAIN d = 1..17
    BY DEF Binary
  <2>2. \A i \in 1..17 : (i # 2 /\ i # 3) => s[i] = d[i]
    BY DEF Binary
  <2>3. /\ s[2] = second /\ s[3] = third
        /\ d[2] = "LessOrEqual" /\ d[3] = "GreaterThan"
    BY DEF Binary
  <2> HIDE DEF s, d
  <2>4. \A i \in 1..17 : \E j \in 1..17 : s[i] = d[j]
    BY <2>2, <2>3
  <2>5. \A j \in 1..17 : \E i \in 1..17 : s[i] = d[j]
    BY <2>2, <2>3
  <2>6. QED
    BY <2>1, <2>4, <2>5 DEF Range
<1>4. QED
  BY <1>1, <1>2, <1>3

LEMMA UnaryOperations ==
  /\ IsList(Unary) /\ Len(Unary) = 3
  /\ \A i, j \in 1..3 : Unary[i] = Unary[j] => i = j
<1>1. DOMAIN Unary = 1..3 /\ Unary = [i \in 1..3 |-> Unary[i]]
  BY DEF Unary
<1>2. IsList(Unary) /\ Len(Unary) = 3
  BY <1>1, TabulatedIsList
<1>3. \A i, j \in 1..3 : Unary[i] = Unary[j] => i = j
  BY DEF Unary
<1>4. QED
  BY <1>2, <1>3

(* The forms number the same operations, each once; the source also has an    *)
(* undefined one.                                                             *)
LEMMA OperationLists ==
  ASSUME NEW type \in {"unary", "binary"}
  PROVE  \E k \in Nat :
           /\ \A form \in {"datalog", "wire"} :
                /\ IsList(Operations(form, type))
                /\ Len(Operations(form, type)) = k
                /\ Range(Operations(form, type)) = Range(Operations("datalog", type))
                /\ \A i, j \in 1..k :
                     Operations(form, type)[i] = Operations(form, type)[j] => i = j
           /\ Operations("source", type) = <<"Undefined">> \o Operations("datalog", type)
<1>1. CASE type = "unary"
  <2>1. \A form \in {"datalog", "wire"} : Operations(form, type) = Unary
    BY <1>1 DEF Operations
  <2>2. Operations("source", type) = <<"Undefined">> \o Unary
    BY <1>1 DEF Operations
  <2>3. WITNESS 3 \in Nat
  <2>4. QED
    BY <2>1, <2>2, UnaryOperations
<1>2. CASE type = "binary"
  <2>1. /\ Operations("datalog", type) = Binary("LessOrEqual", "GreaterThan")
        /\ Operations("wire", type) = Binary("GreaterThan", "LessOrEqual")
        /\ Operations("source", type) = <<"Undefined">> \o Binary("LessOrEqual", "GreaterThan")
    BY <1>2 DEF Operations
  <2> DEFINE datalog == Binary("LessOrEqual", "GreaterThan")
             wire == Binary("GreaterThan", "LessOrEqual")
  <2>2. /\ IsList(datalog) /\ Len(datalog) = 17
        /\ \A i, j \in 1..17 : datalog[i] = datalog[j] => i = j
    BY BinaryOperations
  <2>3. /\ IsList(wire) /\ Len(wire) = 17
        /\ \A i, j \in 1..17 : wire[i] = wire[j] => i = j
        /\ Range(wire) = Range(datalog)
    <3>1. {"GreaterThan", "LessOrEqual"} = {"LessOrEqual", "GreaterThan"}
      OBVIOUS
    <3>2. QED
      BY <3>1, BinaryOperations
  <2> HIDE DEF datalog, wire
  <2>4. WITNESS 17 \in Nat
  <2>5. QED
    BY <2>1, <2>2, <2>3 DEF datalog, wire
<1>3. QED
  BY <1>1, <1>2

LEMMA NumberTrip ==
  ASSUME NEW from, NEW to, IsList(from), IsList(to),
         NEW n \in 0..(Len(from) - 1), from[n + 1] \in Range(to),
         \A i \in DOMAIN from : from[i] = from[n + 1] => i = n + 1
  PROVE  /\ Index(to, from[n + 1]) \in 0..(Len(to) - 1)
         /\ Index(from, to[Index(to, from[n + 1]) + 1]) = n
<1>1. /\ Index(to, from[n + 1]) \in 0..(Len(to) - 1)
      /\ to[Index(to, from[n + 1]) + 1] = from[n + 1]
  BY IndexResolves
<1>2. Len(from) \in Nat /\ n + 1 \in DOMAIN from
  BY ListDomain
<1>3. from[n + 1] \in Range(from)
  BY <1>2 DEF Range
<1>4. Index(from, from[n + 1]) \in 0..(Len(from) - 1)
      /\ from[Index(from, from[n + 1]) + 1] = from[n + 1]
  BY <1>3, IndexResolves
<1>5. Index(from, from[n + 1]) + 1 = n + 1
  BY <1>2, <1>4, ListDomain
<1>6. QED
  BY <1>1, <1>4, <1>5

Numbers(form, type) == 0..(Len(Operations(form, type)) - 1)

LEMMA UndefinedIsApart ==
  ASSUME NEW type \in {"unary", "binary"}
  PROVE  "Undefined" \notin Range(Operations("datalog", type))
<1> DEFINE D == Operations("datalog", type)
<1>1. CASE type = "unary"
  <2>1. D = Unary /\ DOMAIN D = 1..3
    BY <1>1, UnaryOperations, ListDomain DEF Operations
  <2>2. \A i \in 1..3 : Unary[i] # "Undefined"
    BY DEF Unary
  <2> HIDE DEF D
  <2>3. "Undefined" \notin Range(D)
    BY <2>1, <2>2 DEF Range
  <2>4. QED
    BY <2>3 DEF D
<1>2. CASE type = "binary"
  <2>1. D = Binary("LessOrEqual", "GreaterThan")
    BY <1>2 DEF Operations
  <2>2. \A i \in 1..17 : Binary("LessOrEqual", "GreaterThan")[i] # "Undefined"
    BY DEF Binary
  <2> HIDE DEF D
  <2>3. IsList(D) /\ Len(D) = 17
    BY <2>1, BinaryOperations
  <2>4. "Undefined" \notin Range(D)
    BY <2>1, <2>2, <2>3, ListDomain DEF Range
  <2>5. QED
    BY <2>4 DEF D
<1>3. QED
  BY <1>1, <1>2

LEMMA SourceNumbers ==
  ASSUME NEW type \in {"unary", "binary"},
         NEW n \in 1..(Len(Operations("source", type)) - 1)
  PROVE  /\ Renumbered("source", "datalog", type, n) \in Numbers("datalog", type)
         /\ Renumbered("datalog", "source", type, Renumbered("source", "datalog", type, n)) = n
<1> DEFINE S == Operations("source", type)
           D == Operations("datalog", type)
<1>1. PICK k \in Nat :
        /\ IsList(D) /\ Len(D) = k
        /\ \A i, j \in 1..k : D[i] = D[j] => i = j
        /\ S = <<"Undefined">> \o D
  BY OperationLists
<1>2. "Undefined" \notin Range(D)
  BY UndefinedIsApart
<1> HIDE DEF S, D
<1>3. IsList(<<"Undefined">>) /\ Len(<<"Undefined">>) = 1 /\ <<"Undefined">>[1] = "Undefined"
  <2>1. DOMAIN <<"Undefined">> = 1..1 /\ <<"Undefined">> = [i \in 1..1 |-> <<"Undefined">>[i]]
    OBVIOUS
  <2>2. 1 \in Nat
    OBVIOUS
  <2>3. QED
    BY <2>1, <2>2, TabulatedIsList
<1>4. /\ IsList(S) /\ Len(S) = k + 1
      /\ S[1] = "Undefined"
      /\ \A i \in 1..k : S[i + 1] = D[i]
  <2>1. IsList(S)
    BY <1>1, <1>3, ConcatIsList
  <2>2. Len(S) = k + 1
        /\ \A i \in 1..(k + 1) : S[i] = IF i <= 1 THEN "Undefined" ELSE D[i - 1]
    BY <1>1, <1>3, ConcatElements
  <2>3. QED
    BY <2>1, <2>2
<1>5. n \in 1..k /\ S[n + 1] = D[n]
  <2>1. n \in 1..(Len(S) - 1)
    BY DEF S
  <2>2. QED
    BY <1>4, <2>1
<1>6. DOMAIN D = 1..k /\ DOMAIN S = 1..(k + 1)
  BY <1>1, <1>4, ListDomain
<1>7. S[n + 1] \in Range(D)
  BY <1>5, <1>6 DEF Range
<1>8. \A i \in DOMAIN S : S[i] = S[n + 1] => i = n + 1
  <2>1. ASSUME NEW i \in 1..(k + 1), S[i] = S[n + 1]
        PROVE  i = n + 1
    <3>1. i # 1
      BY <1>2, <1>4, <1>7, <2>1
    <3>2. i - 1 \in 1..k /\ (i - 1) + 1 = i
      BY <3>1
    <3>3. D[i - 1] = D[n]
      BY <1>4, <1>5, <2>1, <3>2
    <3>4. i - 1 = n
      BY <1>1, <1>5, <3>2, <3>3
    <3>5. QED
      BY <3>2, <3>4
  <2>2. QED
    BY <1>6, <2>1
<1>9. n \in 0..(Len(S) - 1)
  BY <1>4, <1>5
<1>10. /\ Index(D, S[n + 1]) \in 0..(Len(D) - 1)
       /\ Index(S, D[Index(D, S[n + 1]) + 1]) = n
  <2>1. IsList(S) /\ IsList(D)
    BY <1>1, <1>4
  <2>2. QED
    BY <2>1, <1>7, <1>8, <1>9, NumberTrip
<1>11. QED
  BY <1>10 DEF S, D, Renumbered, Numbers

LEMMA WireNumbers ==
  ASSUME NEW type \in {"unary", "binary"}, NEW n \in Numbers("datalog", type)
  PROVE  /\ Renumbered("datalog", "wire", type, n) \in Numbers("wire", type)
         /\ Renumbered("wire", "datalog", type, Renumbered("datalog", "wire", type, n)) = n
<1> DEFINE W == Operations("wire", type)
           D == Operations("datalog", type)
<1>1. PICK k \in Nat :
        /\ IsList(D) /\ Len(D) = k
        /\ IsList(W) /\ Len(W) = k
        /\ Range(W) = Range(D)
        /\ \A i, j \in 1..k : D[i] = D[j] => i = j
  BY OperationLists
<1>2. n \in 0..(k - 1)
  BY <1>1 DEF Numbers
<1> HIDE DEF W, D
<1>3. DOMAIN D = 1..k /\ n + 1 \in 1..k
  BY <1>1, <1>2, ListDomain
<1>4. D[n + 1] \in Range(W)
  BY <1>1, <1>3 DEF Range
<1>5. \A i \in DOMAIN D : D[i] = D[n + 1] => i = n + 1
  BY <1>1, <1>3
<1>6. /\ Index(W, D[n + 1]) \in 0..(Len(W) - 1)
      /\ Index(D, W[Index(W, D[n + 1]) + 1]) = n
  BY <1>1, <1>2, <1>4, <1>5, NumberTrip
<1>7. QED
  BY <1>1, <1>6 DEF W, D, Renumbered, Numbers

----------------------------------------------------------------------------
(* Conversion to datalog and back, part by part.                              *)

PredicateCovered(symbols, p) ==
  p.name \in Range(symbols) /\ \A i \in DOMAIN p.terms : TermCovered(symbols, p.terms[i])
OpCovered(symbols, op) == TypeOf(op) = "value" => TermCovered(symbols, op["value"])
RuleCovered(symbols, r) ==
  /\ PredicateCovered(symbols, r.head)
  /\ \A i \in DOMAIN r.body : PredicateCovered(symbols, r.body[i])
  /\ \A i \in DOMAIN r.exprs : \A j \in DOMAIN r.exprs[i] : OpCovered(symbols, r.exprs[i][j])

(* Keys are read in the table they were written with, if there are any.       *)
ScopesCovered(keys, read, scopes) ==
  \A i \in DOMAIN scopes : scopes[i].key # NoKey => scopes[i].key \in Range(keys) /\ read = keys

LEMMA PredicateTrip ==
  ASSUME NEW symbols, NEW p, IsPredicate(p), IsList(symbols), PredicateCovered(symbols, p)
  PROVE  ReadPredicate(symbols, ConvertPredicate(symbols, p)) = WholePredicate(p)
<1> DEFINE c == ConvertPredicate(symbols, p)
           ts == [i \in DOMAIN p.terms |-> ConvertTerm(symbols, p.terms[i])]
<1>1. c = [name |-> Index(symbols, p.name), terms |-> ts]
  BY DEF ConvertPredicate, OverPredicate, Map
<1>2. c.name = Index(symbols, p.name) /\ c.terms = ts
  <2> HIDE DEF c, ts
  <2>1. QED
    BY <1>1
<1>3. DOMAIN ts = DOMAIN p.terms /\ \A i \in DOMAIN p.terms : ts[i] = ConvertTerm(symbols, p.terms[i])
  OBVIOUS
<1> HIDE DEF c, ts
<1>4. Str(symbols, c.name) = p.name
  BY <1>2, IndexResolves DEF PredicateCovered
<1>5. \A i \in DOMAIN p.terms : ReadTerm(symbols, ts[i]) = WholeTerm(p.terms[i])
  BY <1>3, TermTrip DEF IsPredicate, IsListOf, Every, PredicateCovered
<1>6. [i \in DOMAIN ts |-> ReadTerm(symbols, ts[i])] = [i \in DOMAIN p.terms |-> WholeTerm(p.terms[i])]
  BY <1>3, <1>5
<1>7. ReadPredicate(symbols, c) = WholePredicate(p)
  BY <1>2, <1>4, <1>6 DEF ReadPredicate, WholePredicate, OverPredicate, Map
<1>8. QED
  BY <1>7 DEF c

ConvertOp(symbols, op) ==
  OverOp(LAMBDA t : ConvertTerm(symbols, t),
         LAMBDA type, n : Renumbered("source", "datalog", type, n), op)
ReadOp(symbols, op) ==
  OverOp(LAMBDA t : ReadTerm(symbols, t),
         LAMBDA type, n : Renumbered("datalog", "source", type, n), op)
WholeOp(op) == OverOp(WholeTerm, LAMBDA type, n : n, op)

LEMMA ValueOf ==
  ASSUME NEW v, NEW r, r = [value |-> v]
  PROVE  DOMAIN r = {"value"} /\ TypeOf(r) = "value" /\ r.value = v
<1>1. DOMAIN r = {"value"} /\ r.value = v
  OBVIOUS
<1>2. QED
  BY <1>1, TypeOfSingle

LEMMA OpTrip ==
  ASSUME NEW symbols, NEW op, IsOp(op), IsList(symbols), OpCovered(symbols, op)
  PROVE  ReadOp(symbols, ConvertOp(symbols, op)) = WholeOp(op)
<1> DEFINE c == ConvertOp(symbols, op)
<1>1. CASE DOMAIN op = {"value"} /\ IsTerm(op["value"])
  <2>1. TypeOf(op) = "value"
    BY <1>1, TypeOfSingle
  <2>2. c = [value |-> ConvertTerm(symbols, op.value)]
    BY <2>1 DEF ConvertOp, OverOp
  <2> HIDE DEF c
  <2>3. TypeOf(c) = "value" /\ c.value = ConvertTerm(symbols, op.value)
    BY <2>2, ValueOf
  <2>4. ReadTerm(symbols, ConvertTerm(symbols, op.value)) = WholeTerm(op.value)
    BY <1>1, <2>1, TermTrip DEF OpCovered
  <2>5. ReadOp(symbols, c) = WholeOp(op)
    BY <2>1, <2>3, <2>4 DEF ReadOp, WholeOp, OverOp
  <2>6. QED
    BY <2>5 DEF c
<1>2. ASSUME NEW type \in {"unary", "binary"}, DOMAIN op = {type},
             op[type] \in 1..(Len(Operations("source", type)) - 1)
      PROVE  ReadOp(symbols, c) = WholeOp(op)
  <2>1. TypeOf(op) = type /\ type # "value"
    BY <1>2, TypeOfSingle
  <2>2. c = [x \in {type} |-> Renumbered("source", "datalog", x, op[x])]
    BY <2>1 DEF ConvertOp, OverOp
  <2> HIDE DEF c
  <2>3. DOMAIN c = {type} /\ c[type] = Renumbered("source", "datalog", type, op[type])
    BY <2>2
  <2>4. TypeOf(c) = type
    BY <2>3, TypeOfSingle
  <2>5. Renumbered("datalog", "source", type, c[type]) = op[type]
    BY <1>2, <2>3, SourceNumbers
  <2>6. QED
    BY <2>1, <2>4, <2>5 DEF ReadOp, WholeOp, OverOp
<1>3. QED
  BY <1>1, <1>2 DEF IsOp

LEMMA ScopeTrip ==
  ASSUME NEW keys, NEW read, NEW s, IsScope(s), IsList(keys),
         s.key # NoKey => s.key \in Range(keys) /\ read = keys
  PROVE  /\ ReadScope(read, ConvertScope(keys, s)) = s
         /\ ScopeResolves(read, ConvertScope(keys, s))
         /\ ConvertScope(keys, s).type = s.type
<1> DEFINE n == IF s.key = NoKey THEN 0 ELSE Index(keys, s.key)
           c == [type |-> s.type, key |-> n]
<1>1. c.type = s.type /\ c.key = n
  OBVIOUS
<1>2. ConvertScope(keys, s) = c
  BY DEF ConvertScope
<1> HIDE DEF c
<1>3. CASE s.type = 2
  <2>1. s.key # NoKey
    BY <1>3 DEF IsScope
  <2>2. n \in 0..(Len(keys) - 1) /\ keys[n + 1] = s.key
    BY <2>1, IndexResolves
  <2>3. n < Len(read)
    BY <2>1, <2>2, ListDomain
  <2>4. ReadScope(read, c) = [type |-> s.type, key |-> s.key]
    BY <1>1, <1>3, <2>1, <2>2 DEF ReadScope
  <2>5. QED
    BY <1>1, <1>2, <2>3, <2>4 DEF IsScope, ScopeResolves
<1>4. CASE s.type # 2
  <2>1. s.key = NoKey
    BY <1>4 DEF IsScope
  <2>2. ReadScope(read, c) = [type |-> s.type, key |-> s.key]
    BY <1>1, <1>4, <2>1 DEF ReadScope
  <2>3. QED
    BY <1>1, <1>2, <1>4, <2>2 DEF IsScope, ScopeResolves
<1>5. QED
  BY <1>3, <1>4

ConvertExpression(symbols, e) == [i \in DOMAIN e |-> ConvertOp(symbols, e[i])]
ReadExpression(symbols, e) == [i \in DOMAIN e |-> ReadOp(symbols, e[i])]
WholeExpression(e) == [i \in DOMAIN e |-> WholeOp(e[i])]

LEMMA ExpressionTrip ==
  ASSUME NEW symbols, NEW e, IsExpression(e), IsList(symbols),
         \A i \in DOMAIN e : OpCovered(symbols, e[i])
  PROVE  ReadExpression(symbols, ConvertExpression(symbols, e)) = WholeExpression(e)
<1>1. \A i \in DOMAIN e : ReadOp(symbols, ConvertOp(symbols, e[i])) = WholeOp(e[i])
  BY OpTrip DEF IsExpression, IsListOf, Every
<1>2. QED
  BY <1>1 DEF ReadExpression, ConvertExpression, WholeExpression

(* A converted rule and a rule read, field by field.                          *)
LEMMA ConvertedRule ==
  ASSUME NEW symbols, NEW keys, NEW r
  PROVE  LET c == ConvertRule(symbols, keys, r)
         IN /\ c.head = ConvertPredicate(symbols, r.head)
            /\ c.body = [i \in DOMAIN r.body |-> ConvertPredicate(symbols, r.body[i])]
            /\ c.exprs = [i \in DOMAIN r.exprs |-> ConvertExpression(symbols, r.exprs[i])]
            /\ c.scopes = [i \in DOMAIN r.scopes |-> ConvertScope(keys, r.scopes[i])]
BY DEF ConvertRule, OverRule, ConvertPredicate, ConvertExpression, ConvertOp, Map

LEMMA RuleRead ==
  ASSUME NEW symbols, NEW keys, NEW r
  PROVE  ReadRule(symbols, keys, r) =
           [head   |-> ReadPredicate(symbols, r.head),
            body   |-> [i \in DOMAIN r.body |-> ReadPredicate(symbols, r.body[i])],
            exprs  |-> [i \in DOMAIN r.exprs |-> ReadExpression(symbols, r.exprs[i])],
            scopes |-> [i \in DOMAIN r.scopes |-> ReadScope(keys, r.scopes[i])]]
BY DEF ReadRule, OverRule, ReadPredicate, ReadExpression, ReadOp, Map

LEMMA RuleWhole ==
  ASSUME NEW r
  PROVE  WholeRule(r) =
           [head   |-> WholePredicate(r.head),
            body   |-> [i \in DOMAIN r.body |-> WholePredicate(r.body[i])],
            exprs  |-> [i \in DOMAIN r.exprs |-> WholeExpression(r.exprs[i])],
            scopes |-> [i \in DOMAIN r.scopes |-> r.scopes[i]]]
BY DEF WholeRule, OverRule, WholePredicate, WholeExpression, WholeOp, Map

LEMMA RuleTrip ==
  ASSUME NEW symbols, NEW keys, NEW read, NEW r, IsRule(r), IsList(symbols), IsList(keys),
         RuleCovered(symbols, r), ScopesCovered(keys, read, r.scopes)
  PROVE  /\ ReadRule(symbols, read, ConvertRule(symbols, keys, r)) = WholeRule(r)
         /\ RuleResolves(read, ConvertRule(symbols, keys, r))
<1> DEFINE c == ConvertRule(symbols, keys, r)
<1>1. /\ c.head = ConvertPredicate(symbols, r.head)
      /\ c.body = [i \in DOMAIN r.body |-> ConvertPredicate(symbols, r.body[i])]
      /\ c.exprs = [i \in DOMAIN r.exprs |-> ConvertExpression(symbols, r.exprs[i])]
      /\ c.scopes = [i \in DOMAIN r.scopes |-> ConvertScope(keys, r.scopes[i])]
  BY ConvertedRule
<1> HIDE DEF c
<1>2. ReadPredicate(symbols, c.head) = WholePredicate(r.head)
  BY <1>1, PredicateTrip DEF IsRule, RuleCovered
<1>3. \A i \in DOMAIN r.body :
        ReadPredicate(symbols, ConvertPredicate(symbols, r.body[i])) = WholePredicate(r.body[i])
  BY PredicateTrip DEF IsRule, IsListOf, Every, RuleCovered
<1>4. \A i \in DOMAIN r.exprs :
        ReadExpression(symbols, ConvertExpression(symbols, r.exprs[i])) = WholeExpression(r.exprs[i])
  BY ExpressionTrip DEF IsRule, IsListOf, Every, RuleCovered
<1>5. \A i \in DOMAIN r.scopes :
        /\ ReadScope(read, ConvertScope(keys, r.scopes[i])) = r.scopes[i]
        /\ ScopeResolves(read, ConvertScope(keys, r.scopes[i]))
  BY ScopeTrip DEF IsRule, IsListOf, Every, ScopesCovered
<1>6. [i \in DOMAIN c.body |-> ReadPredicate(symbols, c.body[i])]
        = [i \in DOMAIN r.body |-> WholePredicate(r.body[i])]
  BY <1>1, <1>3
<1>7. [i \in DOMAIN c.exprs |-> ReadExpression(symbols, c.exprs[i])]
        = [i \in DOMAIN r.exprs |-> WholeExpression(r.exprs[i])]
  BY <1>1, <1>4
<1>8. [i \in DOMAIN c.scopes |-> ReadScope(read, c.scopes[i])]
        = [i \in DOMAIN r.scopes |-> r.scopes[i]]
  BY <1>1, <1>5
<1>9. ReadRule(symbols, read, c) = WholeRule(r)
  BY <1>2, <1>6, <1>7, <1>8, RuleRead, RuleWhole
<1>10. RuleResolves(read, c)
  BY <1>1, <1>5 DEF RuleResolves, Every
<1>11. QED
  BY <1>9, <1>10 DEF c

(* Queries, of checks and of policies.                                        *)
QueriesCovered(symbols, keys, read, c) ==
  \A i \in DOMAIN c.queries : /\ RuleCovered(symbols, c.queries[i])
                              /\ ScopesCovered(keys, read, c.queries[i].scopes)

LEMMA QueriesTrip ==
  ASSUME NEW symbols, NEW keys, NEW read, NEW c, IsListOf(IsRule, c.queries),
         IsList(symbols), IsList(keys), QueriesCovered(symbols, keys, read, c)
  PROVE  \A i \in DOMAIN c.queries :
           /\ ReadRule(symbols, read, ConvertRule(symbols, keys, c.queries[i]))
                = WholeRule(c.queries[i])
           /\ RuleResolves(read, ConvertRule(symbols, keys, c.queries[i]))
BY RuleTrip DEF IsListOf, Every, QueriesCovered

LEMMA CheckTrip ==
  ASSUME NEW symbols, NEW keys, NEW read, NEW c, IsCheck(c),
         IsList(symbols), IsList(keys), QueriesCovered(symbols, keys, read, c)
  PROVE  /\ ReadCheck(symbols, read, ConvertCheck(symbols, keys, c)) = WholeQueries(c)
         /\ Every(LAMBDA r : RuleResolves(read, r), ConvertCheck(symbols, keys, c).queries)
         /\ ConvertCheck(symbols, keys, c).kind = c.kind
<1> DEFINE d == ConvertCheck(symbols, keys, c)
<1>1. /\ d.queries = [i \in DOMAIN c.queries |-> ConvertRule(symbols, keys, c.queries[i])]
      /\ d.kind = ConvertKind(c.kind)
  BY DEF ConvertCheck, OverQueries, Map
<1> HIDE DEF d
<1>2. ConvertKind(c.kind) = c.kind
  BY DEF IsCheck, ConvertKind
<1>3. \A i \in DOMAIN c.queries :
        /\ ReadRule(symbols, read, ConvertRule(symbols, keys, c.queries[i]))
             = WholeRule(c.queries[i])
        /\ RuleResolves(read, ConvertRule(symbols, keys, c.queries[i]))
  BY QueriesTrip DEF IsCheck
<1>4. [i \in DOMAIN d.queries |-> ReadRule(symbols, read, d.queries[i])]
        = [i \in DOMAIN c.queries |-> WholeRule(c.queries[i])]
  BY <1>1, <1>3
<1>5. ReadCheck(symbols, read, d) = WholeQueries(c)
  BY <1>1, <1>2, <1>4 DEF ReadCheck, WholeQueries, OverQueries, Map
<1>6. Every(LAMBDA r : RuleResolves(read, r), d.queries)
  BY <1>1, <1>3 DEF Every
<1>7. QED
  BY <1>1, <1>2, <1>5, <1>6 DEF d

----------------------------------------------------------------------------
(* Sorted lists of sets.                                                      *)

LEMMA RanksAreDistinct ==
  ASSUME NEW S, IsFiniteSet(S), NEW before \in [S -> SUBSET S],
         \A e \in S : e \notin before[e],
         \A e, f \in S : e \in before[f] => before[e] \subseteq before[f],
         \A e, f \in S : e # f => e \in before[f] \/ f \in before[e]
  PROVE  /\ \A i \in 1..Cardinality(S) : \E e \in S : Cardinality(before[e]) = i - 1
         /\ \A e \in S : Cardinality(before[e]) + 1 \in 1..Cardinality(S)
         /\ \A e, f \in S : Cardinality(before[e]) = Cardinality(before[f]) => e = f
<1> DEFINE n == Cardinality(S)
           g == [e \in S |-> Cardinality(before[e]) + 1]
<1>1. n \in Nat
  BY FS_CardinalityType
<1>2. \A e \in S : IsFiniteSet(before[e]) /\ Cardinality(before[e]) \in Nat
  BY FS_Subset, FS_CardinalityType
<1>3. ASSUME NEW e \in S
      PROVE  Cardinality(before[e]) < n
  <2>1. /\ IsFiniteSet(before[e]) /\ Cardinality(before[e]) <= n
        /\ n = Cardinality(before[e]) => S = before[e]
    BY FS_Subset
  <2>2. Cardinality(before[e]) # n
    BY <2>1
  <2>3. QED
    BY <1>1, <1>2, <2>1, <2>2
<1>4. ASSUME NEW e \in S, NEW f \in S, e \in before[f]
      PROVE  Cardinality(before[e]) < Cardinality(before[f])
  <2>1. before[e] \in SUBSET before[f] /\ before[e] # before[f]
    BY <1>4
  <2>2. /\ Cardinality(before[e]) <= Cardinality(before[f])
        /\ Cardinality(before[f]) = Cardinality(before[e]) => before[f] = before[e]
    BY <1>2, <2>1, FS_Subset
  <2>3. QED
    BY <1>2, <2>1, <2>2
<1>5. \A e, f \in S : Cardinality(before[e]) = Cardinality(before[f]) => e = f
  BY <1>2, <1>4
<1>6. \A e \in S : Cardinality(before[e]) + 1 \in 1..n
  BY <1>1, <1>2, <1>3
<1>7. g \in Injection(S, 1..n)
  <2>1. g \in [S -> 1..n]
    BY <1>6
  <2>2. \A e, f \in S : g[e] = g[f] => e = f
    BY <1>2, <1>5
  <2> HIDE DEF g
  <2>3. QED
    BY <2>1, <2>2 DEF Injection, IsInjective
<1>8. g \in Surjection(S, 1..n)
  <2> HIDE DEF g
  <2>1. IsFiniteSet(1..n) /\ Cardinality(1..n) = n
    BY <1>1, FS_Interval
  <2>2. QED
    BY <1>7, <2>1, FS_Injection DEF n
<1>9. \A i \in 1..n : \E e \in S : g[e] = i
  <2> HIDE DEF g
  <2>1. QED
    BY <1>8 DEF Surjection
<1>10. \A i \in 1..n : \E e \in S : Cardinality(before[e]) = i - 1
  BY <1>1, <1>2, <1>9
<1>11. QED
  BY <1>5, <1>6, <1>10

LEMMA RankedHoldsAll ==
  ASSUME NEW S, IsFiniteSet(S), NEW before \in [S -> SUBSET S],
         \A e \in S : e \notin before[e],
         \A e, f \in S : e \in before[f] => before[e] \subseteq before[f],
         \A e, f \in S : e # f => e \in before[f] \/ f \in before[e],
         NEW s, DOMAIN s = 1..Cardinality(S), s = [i \in DOMAIN s |-> s[i]],
         \A i \in DOMAIN s : (\E e \in S : Cardinality(before[e]) = i - 1)
                                => s[i] \in S /\ Cardinality(before[s[i]]) = i - 1
  PROVE  IsList(s) /\ Range(s) = S
<1>1. /\ \A i \in 1..Cardinality(S) : \E e \in S : Cardinality(before[e]) = i - 1
      /\ \A e \in S : Cardinality(before[e]) + 1 \in 1..Cardinality(S)
      /\ \A e, f \in S : Cardinality(before[e]) = Cardinality(before[f]) => e = f
  BY RanksAreDistinct
<1>2. Cardinality(S) \in Nat
  BY FS_CardinalityType
<1>3. DOMAIN s = 1..Cardinality(S) /\ s = [i \in 1..Cardinality(S) |-> s[i]]
  OBVIOUS
<1>4. \A i \in 1..Cardinality(S) : s[i] \in S /\ Cardinality(before[s[i]]) = i - 1
  BY <1>1
<1>5. \A e \in S : Cardinality(before[e]) \in Nat
  BY FS_Subset, FS_CardinalityType
<1>6. ASSUME NEW e \in S
      PROVE  \E i \in 1..Cardinality(S) : s[i] = e
  <2> DEFINE i == Cardinality(before[e]) + 1
  <2>1. i \in 1..Cardinality(S) /\ i - 1 = Cardinality(before[e])
    BY <1>1, <1>5
  <2>2. s[i] = e
    BY <1>1, <1>4, <2>1
  <2>3. QED
    BY <2>1, <2>2
<1>7. Range(s) = S
  BY <1>3, <1>4, <1>6 DEF Range
<1>8. QED
  BY <1>2, <1>3, <1>7, TabulatedIsList

----------------------------------------------------------------------------
(* The order of scalars of one type.                                          *)

(* Where bytes first differ, or where the shorter ends.                       *)
BytesBefore(a, b) ==
  \E k \in 1..Len(b) : /\ k <= Len(a) + 1
                       /\ \A j \in 1..(k - 1) : a[j] = b[j]
                       /\ k <= Len(a) => a[k] < b[k]

LEMMA CompareBytesOrders ==
  ASSUME NEW a \in Seq(Int), NEW b \in Seq(Int)
  PROVE  CompareBytes(a, b) = Less <=> BytesBefore(a, b)
<1> DEFINE n == IF Len(a) < Len(b) THEN Len(a) ELSE Len(b)
           sa == SubSeq(a, 1, n)
           sb == SubSeq(b, 1, n)
           differ == {i \in DOMAIN sa : Cmp(sa[i], sb[i]) # Same}
           rest == Cmp(Len(a), Len(b))
<1>1. /\ Len(a) \in Nat /\ Len(b) \in Nat /\ n \in Nat /\ n <= Len(a) /\ n <= Len(b)
      /\ DOMAIN a = 1..Len(a) /\ DOMAIN b = 1..Len(b)
  BY LenProperties
<1>2. /\ DOMAIN sa = 1..n /\ \A i \in 1..n : sa[i] = a[i]
      /\ \A i \in 1..n : sb[i] = b[i]
  BY <1>1
<1>3. \A i \in 1..n : a[i] \in Int /\ b[i] \in Int
  BY <1>1, ElementOfSeq
<1>4. CompareBytes(a, b) = Then(Elementwise(Cmp, sa, sb), rest)
  BY DEF CompareBytes
<1>5. /\ n = Len(a) \/ n = Len(b)
      /\ Len(a) < Len(b) => n = Len(a)
      /\ ~(Len(a) < Len(b)) => n = Len(b)
  OBVIOUS
<1>6. differ = {i \in 1..n : a[i] # b[i]}
  BY <1>2, <1>3 DEF Cmp, Same, Less, More
<1>7. Elementwise(Cmp, sa, sb) =
        IF differ = {} THEN Same
        ELSE LET i == CHOOSE i \in differ : \A j \in differ : i <= j IN Cmp(sa[i], sb[i])
  BY DEF Elementwise
<1> HIDE DEF n, sa, sb, differ
<1>8. CASE differ = {}
  <2>1. \A i \in 1..n : a[i] = b[i]
    BY <1>6, <1>8
  <2>2. CompareBytes(a, b) = rest
    BY <1>4, <1>7, <1>8 DEF Then
  <2>3. rest = Less <=> Len(a) < Len(b)
    BY <1>1 DEF Cmp, Less, Same, More
  <2>4. ASSUME Len(a) < Len(b)
        PROVE  BytesBefore(a, b)
    <3>0. n = Len(a)
      BY <1>5, <2>4
    <3>1. n + 1 \in 1..Len(b) /\ (n + 1) - 1 = n /\ ~(n + 1 <= Len(a)) /\ n + 1 <= Len(a) + 1
      BY <1>1, <3>0, <2>4
    <3>2. QED
      BY <2>1, <3>1 DEF BytesBefore
  <2>5. ASSUME BytesBefore(a, b)
        PROVE  Len(a) < Len(b)
    <3>1. PICK k \in 1..Len(b) :
            /\ k <= Len(a) + 1
            /\ \A j \in 1..(k - 1) : a[j] = b[j]
            /\ k <= Len(a) => a[k] < b[k]
      BY <2>5 DEF BytesBefore
    <3>2. CASE k <= Len(a)
      <4>0. n = Len(a) \/ n = Len(b)
        BY <1>5
      <4>1. k \in 1..n
        <5>1. k \in Int /\ 1 <= k /\ k <= Len(b)
          BY <1>1
        <5>2. k <= n
          BY <3>2, <4>0, <5>1
        <5>3. QED
          BY <1>1, <5>1, <5>2
      <4>2. a[k] = b[k] /\ a[k] < b[k] /\ a[k] \in Int
        BY <1>3, <2>1, <3>1, <3>2, <4>1
      <4>3. QED
        BY <4>2
    <3>3. CASE ~(k <= Len(a))
      BY <1>1, <3>1, <3>3
    <3>4. QED
      BY <3>2, <3>3
  <2>6. QED
    BY <2>2, <2>3, <2>4, <2>5
<1>9. CASE differ # {}
  <2> DEFINE i == CHOOSE i \in differ : \A j \in differ : i <= j
  <2>1. differ \in SUBSET Nat
    BY <1>1, <1>6
  <2>2. i \in differ /\ \A j \in differ : i <= j
    BY <1>9, <2>1, LeastElement
  <2>3. Elementwise(Cmp, sa, sb) = Cmp(sa[i], sb[i])
    BY <1>7, <1>9
  <2> HIDE DEF i
  <2>4. i \in 1..n /\ a[i] # b[i] /\ a[i] \in Int /\ b[i] \in Int
    BY <1>3, <1>6, <2>2
  <2>5. CompareBytes(a, b) = Less <=> a[i] < b[i]
    <3>1. Elementwise(Cmp, sa, sb) = Cmp(a[i], b[i])
      BY <1>2, <2>3, <2>4
    <3>2. Cmp(a[i], b[i]) # Same /\ (Cmp(a[i], b[i]) = Less <=> a[i] < b[i])
      BY <2>4 DEF Cmp, Less, Same, More
    <3>3. QED
      BY <1>4, <3>1, <3>2 DEF Then
  <2>6. \A j \in 1..(i - 1) : a[j] = b[j]
    <3>1. ASSUME NEW j \in 1..(i - 1)
          PROVE  a[j] = b[j]
      <4>1. j \in 1..n /\ ~(i <= j)
        BY <1>1, <2>4
      <4>2. QED
        BY <1>6, <2>2, <4>1
    <3>2. QED
      BY <3>1
  <2>7. ASSUME a[i] < b[i]
        PROVE  BytesBefore(a, b)
    <3>1. i \in 1..Len(b) /\ i <= Len(a) + 1 /\ i <= Len(a)
      BY <1>1, <2>4
    <3>2. QED
      BY <2>6, <2>7, <3>1 DEF BytesBefore
  <2>8. ASSUME BytesBefore(a, b)
        PROVE  a[i] < b[i]
    <3>1. PICK k \in 1..Len(b) :
            /\ k <= Len(a) + 1
            /\ \A j \in 1..(k - 1) : a[j] = b[j]
            /\ k <= Len(a) => a[k] < b[k]
      BY <2>8 DEF BytesBefore
    <3>2. ~(i \in 1..(k - 1))
      BY <2>4, <3>1
    <3>3. k <= i
      BY <1>1, <2>4, <3>1, <3>2
    <3>4. k \in 1..n /\ k <= Len(a)
      BY <1>1, <2>4, <3>1, <3>3
    <3>5. a[k] < b[k] /\ a[k] \in Int /\ b[k] \in Int
      BY <1>3, <3>1, <3>4
    <3>6. k \in differ
      BY <1>6, <3>4, <3>5
    <3>7. k = i
      BY <1>1, <2>2, <2>4, <3>3, <3>6
    <3>8. QED
      BY <3>5, <3>7
  <2>9. QED
    BY <2>5, <2>7, <2>8
<1>10. QED
  BY <1>8, <1>9

LEMMA BytesBeforeOrders ==
  /\ \A a \in Seq(Int) : ~BytesBefore(a, a)
  /\ \A a, b, c \in Seq(Int) :
       BytesBefore(a, b) /\ BytesBefore(b, c) => BytesBefore(a, c)
  /\ \A a, b \in Seq(Int) : a # b => BytesBefore(a, b) \/ BytesBefore(b, a)
<1>1. \A a \in Seq(Int) : Len(a) \in Nat /\ DOMAIN a = 1..Len(a)
                          /\ (\A i \in 1..Len(a) : a[i] \in Int)
  BY LenProperties, ElementOfSeq
<1>2. ASSUME NEW a \in Seq(Int), BytesBefore(a, a)
      PROVE  FALSE
  BY <1>1, <1>2 DEF BytesBefore
<1>3. ASSUME NEW a \in Seq(Int), NEW b \in Seq(Int), NEW c \in Seq(Int),
             BytesBefore(a, b), BytesBefore(b, c)
      PROVE  BytesBefore(a, c)
  <2>1. PICK k \in 1..Len(b) : /\ k <= Len(a) + 1
                               /\ \A j \in 1..(k - 1) : a[j] = b[j]
                               /\ k <= Len(a) => a[k] < b[k]
    BY <1>3 DEF BytesBefore
  <2>2. PICK m \in 1..Len(c) : /\ m <= Len(b) + 1
                               /\ \A j \in 1..(m - 1) : b[j] = c[j]
                               /\ m <= Len(b) => b[m] < c[m]
    BY <1>3 DEF BytesBefore
  <2> DEFINE l == IF k < m THEN k ELSE m
  <2>3. Len(a) \in Nat /\ Len(b) \in Nat /\ Len(c) \in Nat
    BY <1>1
  <2>4. l \in 1..Len(c) /\ l <= Len(a) + 1 /\ l <= k /\ l <= m
    BY <2>1, <2>2, <2>3
  <2>5. \A j \in 1..(l - 1) : a[j] = c[j]
    <3>1. ASSUME NEW j \in 1..(l - 1)
          PROVE  a[j] = c[j]
      <4>1. j \in 1..(k - 1) /\ j \in 1..(m - 1)
        BY <2>1, <2>2, <2>4
      <4>2. QED
        BY <2>1, <2>2, <4>1
    <3>2. QED
      BY <3>1
  <2>6. ASSUME l <= Len(a)
        PROVE  a[l] < c[l]
    <3>1. CASE k < m
      <4>1. l = k /\ k \in 1..(m - 1) /\ k \in 1..Len(b) /\ k \in 1..Len(a)
        BY <2>1, <2>2, <2>3, <2>6, <3>1
      <4>2. a[k] < b[k] /\ b[k] = c[k]
        BY <2>1, <2>2, <4>1
      <4>3. QED
        BY <4>1, <4>2
    <3>2. CASE k = m
      <4>1. l = k /\ k \in 1..Len(b) /\ k \in 1..Len(a) /\ k \in 1..Len(c)
        BY <2>1, <2>2, <2>3, <2>6, <3>2
      <4>2. a[k] < b[k] /\ b[k] < c[k]
        BY <2>1, <2>2, <3>2, <4>1
      <4>3. a[k] \in Int /\ b[k] \in Int /\ c[k] \in Int
        BY <1>1, <4>1
      <4>4. QED
        BY <4>1, <4>2, <4>3
    <3>3. CASE m < k
      <4>1. l = m /\ m \in 1..(k - 1) /\ m \in 1..Len(b)
        BY <2>1, <2>2, <2>3, <3>3
      <4>2. a[m] = b[m] /\ b[m] < c[m]
        BY <2>1, <2>2, <4>1
      <4>3. QED
        BY <4>1, <4>2
    <3>4. QED
      BY <2>1, <2>2, <3>1, <3>2, <3>3
  <2> HIDE DEF l
  <2>7. QED
    BY <2>4, <2>5, <2>6 DEF BytesBefore
<1>4. ASSUME NEW a \in Seq(Int), NEW b \in Seq(Int), a # b,
             ~BytesBefore(a, b), ~BytesBefore(b, a)
      PROVE  FALSE
  <2> DEFINE n == IF Len(a) < Len(b) THEN Len(a) ELSE Len(b)
             differ == {i \in 1..n : a[i] # b[i]}
  <2>1. /\ Len(a) \in Nat /\ Len(b) \in Nat /\ n \in Nat /\ n <= Len(a) /\ n <= Len(b)
        /\ n = Len(a) \/ n = Len(b)
    BY <1>1
  <2> HIDE DEF n
  <2>2. CASE differ = {}
    <3>1. \A i \in 1..n : a[i] = b[i]
      BY <2>2
    <3>2. CASE Len(a) = Len(b)
      <4>1. n = Len(a) /\ DOMAIN a = 1..n /\ DOMAIN b = 1..n
        BY <1>1, <2>1, <3>2
      <4>2. a = b
        BY <3>1, <4>1, SeqEqual, <3>2
      <4>3. QED
        BY <1>4, <4>2
    <3>3. CASE Len(a) < Len(b)
      <4>1. n = Len(a) /\ n + 1 \in 1..Len(b) /\ (n + 1) - 1 = n /\ ~(n + 1 <= Len(a))
        BY <2>1, <3>3
      <4>2. BytesBefore(a, b)
        BY <3>1, <4>1 DEF BytesBefore
      <4>3. QED
        BY <1>4, <4>2
    <3>4. CASE Len(b) < Len(a)
      <4>1. n = Len(b) /\ n + 1 \in 1..Len(a) /\ (n + 1) - 1 = n /\ ~(n + 1 <= Len(b))
        BY <2>1, <3>4
      <4>2. BytesBefore(b, a)
        BY <3>1, <4>1 DEF BytesBefore
      <4>3. QED
        BY <1>4, <4>2
    <3>5. QED
      BY <2>1, <3>2, <3>3, <3>4
  <2>3. CASE differ # {}
    <3>1. differ \in SUBSET Nat
      OBVIOUS
    <3>2. PICK i \in differ : \A j \in differ : i <= j
      BY <2>3, <3>1, LeastElement
    <3>3. /\ i \in 1..n /\ a[i] # b[i] /\ a[i] \in Int /\ b[i] \in Int
          /\ i \in 1..Len(a) /\ i \in 1..Len(b)
      BY <1>1, <2>1
    <3>4. \A j \in 1..(i - 1) : a[j] = b[j]
      <4>1. ASSUME NEW j \in 1..(i - 1)
            PROVE  a[j] = b[j]
        <5>1. j \in 1..n /\ ~(i <= j)
          BY <2>1, <3>3
        <5>2. QED
          BY <3>2, <5>1
      <4>2. QED
        BY <4>1
    <3>5. a[i] < b[i] => BytesBefore(a, b)
      BY <2>1, <3>3, <3>4 DEF BytesBefore
    <3>6. b[i] < a[i] => BytesBefore(b, a)
      BY <2>1, <3>3, <3>4 DEF BytesBefore
    <3>7. QED
      BY <1>4, <3>3, <3>5, <3>6
  <2>4. QED
    BY <2>2, <2>3
<1>5. QED
  BY <1>2, <1>3, <1>4

(* Scalars of a type, once converted.                                         *)
DatalogValue(type, v) ==
  IF type = "bool" THEN v \in BOOLEAN
  ELSE IF type = "bytes" THEN v \in Seq(Int) ELSE v \in Int
DatalogScalar(type, e) ==
  DOMAIN e = {type} /\ e = [x \in {type} |-> e[type]] /\ DatalogValue(type, e[type])

LEMMA TypesRanked ==
  ASSUME NEW type \in ScalarTypes \cup {"set"}, NEW x, TypeOf(x) = type
  PROVE  Rank(TermTypes, x) \in 1..7 /\ type \in Range(TermTypes)
<1>1. DOMAIN TermTypes = 1..7
  BY DEF TermTypes
<1>2. \E i \in 1..7 : TermTypes[i] = type
  BY DEF TermTypes, ScalarTypes
<1>3. QED
  BY <1>1, <1>2 DEF Rank, Range

LEMMA CompareScalarUnfolds ==
  ASSUME NEW type \in ScalarTypes, NEW a, NEW b, DatalogScalar(type, a), DatalogScalar(type, b)
  PROVE  CompareScalar(a, b) =
           IF type = "bool" THEN CompareBool(a[type], b[type])
           ELSE IF type = "bytes" THEN CompareBytes(a[type], b[type]) ELSE Cmp(a[type], b[type])
<1>1. TypeOf(a) = type /\ TypeOf(b) = type
  BY TypeOfSingle DEF DatalogScalar
<1>2. Rank(TermTypes, a) = Rank(TermTypes, b) /\ Rank(TermTypes, a) \in Int
  <2>1. Rank(TermTypes, a) \in 1..7
    BY <1>1, TypesRanked
  <2>2. Rank(TermTypes, a) = Rank(TermTypes, b)
    BY <1>1, Zenon DEF Rank
  <2>3. QED
    BY <2>1, <2>2
<1>3. CompareType(TermTypes, a, b) = Same
  BY <1>2 DEF CompareType, Cmp
<1>4. CompareScalar(a, b) = CompareValues(a, b)
  BY <1>3 DEF CompareScalar, Then
<1>5. QED
  BY <1>1, <1>4 DEF CompareValues

(* Two elements of one type are told apart, one way, and transitively.        *)
LEMMA ScalarsOrdered ==
  ASSUME NEW type \in ScalarTypes, NEW S, \A e \in S : DatalogScalar(type, e)
  PROVE  /\ \A a \in S : CompareScalar(a, a) # Less
         /\ \A a, b, c \in S : CompareScalar(a, b) = Less /\ CompareScalar(b, c) = Less
                                 => CompareScalar(a, c) = Less
         /\ \A a, b \in S : a # b => CompareScalar(a, b) = Less \/ CompareScalar(b, a) = Less
<1>1. \A a, b \in S : a[type] = b[type] => a = b
  BY DEF DatalogScalar
<1>2. CASE type = "bool"
  <2>1. \A a, b \in S : CompareScalar(a, b) = CompareBool(a[type], b[type])
    BY <1>2, CompareScalarUnfolds
  <2>2. \A a \in S : a[type] \in BOOLEAN
    BY <1>2 DEF DatalogScalar, DatalogValue
  <2>3. \A p, q \in BOOLEAN : CompareBool(p, q) = Less <=> ~p /\ q
    BY DEF CompareBool, Less, Same, More
  <2>4. \A a, b \in S : CompareScalar(a, b) = Less <=> ~a[type] /\ b[type]
    BY <2>1, <2>2, <2>3
  <2>5. \A a, b \in S : a # b => (a[type] /\ ~b[type]) \/ (~a[type] /\ b[type])
    BY <1>1, <2>2
  <2>6. QED
    BY <2>4, <2>5
<1>3. CASE type = "bytes"
  <2>1. \A a, b \in S : CompareScalar(a, b) = CompareBytes(a[type], b[type])
    BY <1>3, CompareScalarUnfolds
  <2>2. \A a \in S : a[type] \in Seq(Int)
    BY <1>3 DEF DatalogScalar, DatalogValue
  <2>3. \A a, b \in S : CompareScalar(a, b) = Less <=> BytesBefore(a[type], b[type])
    BY <2>1, <2>2, CompareBytesOrders
  <2>4. QED
    BY <1>1, <2>2, <2>3, BytesBeforeOrders
<1>4. CASE type # "bool" /\ type # "bytes"
  <2>1. \A a, b \in S : CompareScalar(a, b) = Cmp(a[type], b[type])
    BY <1>4, CompareScalarUnfolds
  <2>2. \A a \in S : a[type] \in Int
    BY <1>4 DEF DatalogScalar, DatalogValue
  <2>3. \A i, j \in Int : Cmp(i, j) = Less <=> i < j
    BY DEF Cmp, Less, Same, More
  <2>4. \A a, b \in S : CompareScalar(a, b) = Less <=> a[type] < b[type]
    BY <2>1, <2>2, <2>3
  <2>5. QED
    BY <1>1, <2>2, <2>4
<1>5. QED
  BY <1>2, <1>3, <1>4

LEMMA SortedHoldsAll ==
  ASSUME NEW type \in ScalarTypes, NEW S, IsFiniteSet(S), \A e \in S : DatalogScalar(type, e)
  PROVE  IsList(Sorted(CompareScalar, S)) /\ Range(Sorted(CompareScalar, S)) = S
<1> DEFINE before == [e \in S |-> {x \in S : CompareScalar(x, e) = Less}]
           s == Sorted(CompareScalar, S)
<1>1. before \in [S -> SUBSET S]
  OBVIOUS
<1>2. \A e \in S : e \notin before[e]
  BY ScalarsOrdered
<1>3. \A e, f \in S : e \in before[f] => before[e] \subseteq before[f]
  BY ScalarsOrdered
<1>4. \A e, f \in S : e # f => e \in before[f] \/ f \in before[e]
  BY ScalarsOrdered
<1>5. \A e \in S : before[e] = {x \in S : CompareScalar(x, e) = Less}
  OBVIOUS
<1>6. DOMAIN s = 1..Cardinality(S) /\ s = [i \in DOMAIN s |-> s[i]]
  <2> DEFINE at(i) ==
        CHOOSE e \in S : Cardinality({x \in S : CompareScalar(x, e) = Less}) = i - 1
  <2>1. s = [i \in 1..Cardinality(S) |-> at(i)]
    BY DEF Sorted
  <2> HIDE DEF at, s
  <2>2. QED
    BY <2>1
<1> HIDE DEF before
<1>7. ASSUME NEW i \in DOMAIN s, NEW f \in S, Cardinality(before[f]) = i - 1
      PROVE  s[i] \in S /\ Cardinality(before[s[i]]) = i - 1
  <2>1. s[i] = CHOOSE e \in S : Cardinality({x \in S : CompareScalar(x, e) = Less}) = i - 1
    BY <1>6, <1>7 DEF Sorted
  <2>2. Cardinality({x \in S : CompareScalar(x, f) = Less}) = i - 1
    BY <1>5, <1>7
  <2> HIDE DEF s
  <2>3. s[i] \in S /\ Cardinality({x \in S : CompareScalar(x, s[i]) = Less}) = i - 1
    BY <2>1, <2>2
  <2>4. QED
    BY <1>5, <2>3
<1> HIDE DEF s
<1>8. \A i \in DOMAIN s : (\E e \in S : Cardinality(before[e]) = i - 1)
                             => s[i] \in S /\ Cardinality(before[s[i]]) = i - 1
  BY <1>7
<1>9. IsList(s) /\ Range(s) = S
  BY <1>1, <1>2, <1>3, <1>4, <1>6, <1>8, RankedHoldsAll
<1>10. QED
  BY <1>9 DEF s

----------------------------------------------------------------------------
(* To the wire and back, part by part.                                        *)

DatalogTerm(d) ==
  /\ TypeOf(d) \in ScalarTypes \cup {"set"}
  /\ TypeOf(d) = "set" =>
       /\ d = [set |-> d["set"]] /\ IsFiniteSet(d["set"])
       /\ \A e \in d["set"] : TypeOf(e) \in ScalarTypes => DatalogScalar(TypeOf(e), e)

LEMMA TermWireTrip ==
  ASSUME NEW d, DatalogTerm(d), TermEncodes(d)
  PROVE  TermDecodes(EncodeTerm(d)) /\ DecodeTerm(EncodeTerm(d)) = d
<1>1. TypeOf(d) \in Range(TermTypes)
  BY TypesRanked DEF DatalogTerm
<1>2. CASE TypeOf(d) # "set"
  BY <1>1, <1>2 DEF EncodeTerm, DecodeTerm, TermDecodes
<1>3. CASE TypeOf(d) = "set"
  <2> DEFINE S == d["set"]
             s == Sorted(CompareScalar, S)
             w == [set |-> s]
  <2>1. d = [set |-> S] /\ IsFiniteSet(S)
    BY <1>3 DEF DatalogTerm
  <2>2. PICK type \in {"int", "str", "date", "bytes", "bool"} : {TypeOf(e) : e \in S} \subseteq {type}
    BY <1>3 DEF TermEncodes, OneType
  <2>3. type \in ScalarTypes
    BY DEF ScalarTypes
  <2>4. \A e \in S : TypeOf(e) = type
    BY <2>2
  <2>5. \A e \in S : DatalogScalar(type, e)
    BY <1>3, <2>3, <2>4 DEF DatalogTerm
  <2>6. IsList(s) /\ Range(s) = S
    BY <2>1, <2>3, <2>5, SortedHoldsAll
  <2>7. EncodeTerm(d) = w
    BY <1>3 DEF EncodeTerm
  <2> HIDE DEF s
  <2>8. DOMAIN w = {"set"} /\ TypeOf(w) = "set" /\ w["set"] = s
    BY SetOf
  <2> HIDE DEF w, S
  <2>9. \A i \in DOMAIN s : TypeOf(s[i]) = type
    BY <2>4, <2>6 DEF Range
  <2>10. OneType({TypeOf(s[i]) : i \in DOMAIN s})
    BY <2>9 DEF OneType
  <2>11. TermDecodes(w)
    BY <2>8, <2>10, TypesRanked DEF TermDecodes
  <2>12. DecodeTerm(w) = d
    BY <2>1, <2>6, <2>8 DEF DecodeTerm
  <2>13. QED
    BY <2>7, <2>11, <2>12
<1>4. QED
  BY <1>2, <1>3

LEMMA ConvertedScalar ==
  ASSUME NEW symbols, NEW t, IsScalar(t), IsList(symbols), ScalarCovered(symbols, t)
  PROVE  DatalogScalar(TypeOf(t), ConvertScalar(symbols, t)) /\ TypeOf(t) \in ScalarTypes
<1>1. PICK type \in ScalarTypes : DOMAIN t = {type} /\ IsValue(type, t[type])
  BY DEF IsScalar
<1>2. TypeOf(t) = type
  BY <1>1, TypeOfSingle
<1> DEFINE c == ConvertScalar(symbols, t)
<1>3. /\ DOMAIN c = {type} /\ c = [x \in {type} |-> c[x]]
      /\ c[type] = IF type \in {"var", "str"} THEN Index(symbols, t[type])
                   ELSE IF type = "date" THEN Unix(t[type]) ELSE t[type]
  BY <1>1 DEF ConvertScalar
<1> HIDE DEF c
<1>4. c = [x \in {type} |-> c[type]]
  BY <1>3
<1>5. DatalogValue(type, c[type])
  <2>1. CASE type \in {"var", "str"}
    <3>1. Index(symbols, t[type]) \in 0..(Len(symbols) - 1) /\ Len(symbols) \in Nat
      BY <1>1, <2>1, IndexResolves, ListDomain DEF ScalarCovered
    <3>2. QED
      BY <1>3, <2>1, <3>1 DEF DatalogValue
  <2>2. CASE type = "date"
    BY <1>1, <1>3, <2>2, DateResolves DEF IsValue, DatalogValue
  <2>3. CASE type \in {"int", "bytes", "bool"}
    BY <1>1, <1>3, <2>3 DEF IsValue, DatalogValue
  <2>4. QED
    BY <2>1, <2>2, <2>3 DEF ScalarTypes
<1>6. QED
  BY <1>2, <1>3, <1>4, <1>5 DEF DatalogScalar, c

LEMMA ConvertedTerm ==
  ASSUME NEW symbols, NEW t, IsTerm(t), IsList(symbols), TermCovered(symbols, t)
  PROVE  DatalogTerm(ConvertTerm(symbols, t))
<1>1. CASE IsScalar(t)
  <2>1. TypeOf(t) # "set"
    BY <1>1, TypeOfScalar
  <2>2. ConvertTerm(symbols, t) = ConvertScalar(symbols, t)
    BY <2>1 DEF ConvertTerm, OverScalars
  <2>3. DatalogScalar(TypeOf(t), ConvertScalar(symbols, t)) /\ TypeOf(t) \in ScalarTypes
    BY <1>1, <2>1, ConvertedScalar DEF TermCovered
  <2>4. TypeOf(ConvertScalar(symbols, t)) = TypeOf(t)
    BY <2>3, TypeOfSingle DEF DatalogScalar
  <2>5. QED
    BY <2>1, <2>2, <2>3, <2>4 DEF DatalogTerm
<1>2. CASE IsSetOf(IsElement, t)
  <2>1. /\ TypeOf(t) = "set" /\ IsFiniteSet(t["set"])
        /\ \A e \in t["set"] : IsElement(e) /\ ElementCovered(symbols, e)
    BY <1>2, TypeOfSingle DEF IsSetOf, TermCovered
  <2> DEFINE f == [e \in t["set"] |-> ConvertElement(symbols, e)]
             S == {f[e] : e \in t["set"]}
             c == [set |-> S]
  <2>2. ConvertTerm(symbols, t) = c
    BY <2>1 DEF ConvertTerm, ConvertElement, OverScalars
  <2>3. IsFiniteSet(S)
    <3>1. f \in Surjection(t["set"], S)
      BY DEF Surjection
    <3>2. QED
      BY <2>1, <3>1, FS_Surjection
  <2>4. \A e \in t["set"] : TypeOf(f[e]) \in ScalarTypes => DatalogScalar(TypeOf(f[e]), f[e])
    <3>1. ASSUME NEW e \in t["set"], TypeOf(f[e]) \in ScalarTypes
          PROVE  DatalogScalar(TypeOf(f[e]), f[e])
      <4>1. TypeOf(f[e]) = TypeOf(e) /\ f[e] = ConvertElement(symbols, e)
        BY <2>1, ElementTrip
      <4>2. TypeOf(e) # "set"
        BY <3>1, <4>1 DEF ScalarTypes
      <4>3. IsScalar(e) /\ ScalarCovered(symbols, e)
        BY <2>1, <4>2, TypeOfSingle DEF IsElement, IsSetOf, ElementCovered
      <4>4. f[e] = ConvertScalar(symbols, e)
        BY <4>1, <4>2 DEF ConvertElement, OverElements
      <4>5. QED
        BY <4>1, <4>3, <4>4, ConvertedScalar
    <3>2. QED
      BY <3>1
  <2>5. \A x \in S : TypeOf(x) \in ScalarTypes => DatalogScalar(TypeOf(x), x)
    BY <2>4
  <2> HIDE DEF S
  <2>6. DOMAIN c = {"set"} /\ TypeOf(c) = "set" /\ c["set"] = S
    BY SetOf
  <2>7. c = [set |-> c["set"]]
    BY <2>6
  <2> HIDE DEF c
  <2>8. DatalogTerm(c)
    BY <2>3, <2>5, <2>6, <2>7 DEF DatalogTerm
  <2>9. QED
    BY <2>2, <2>8
<1>3. QED
  BY <1>1, <1>2 DEF IsTerm

----------------------------------------------------------------------------
(* Lists of lists.                                                            *)

(* A recursion over the elements of a list defines a function.                *)
Iterates(f, base, step, size) ==
  f = [n \in 0..size |-> IF n = 0 THEN base ELSE step[n][f[n - 1]]]

LEMMA Recursion ==
  ASSUME NEW S, NEW base \in S, NEW step \in [Nat -> [S -> S]], NEW size \in Nat
  PROVE  \E f \in [0..size -> S] : Iterates(f, base, step, size)
<1> DEFINE Good(f, k) == f[0] = base /\ \A n \in 1..k : f[n] = step[n][f[n - 1]]
           bad == {k \in Nat : ~\E f \in [0..k -> S] : Good(f, k)}
<1>1. bad = {}
  <2> SUFFICES ASSUME bad # {} PROVE FALSE
    OBVIOUS
  <2>1. PICK k \in bad : \A j \in bad : k <= j
    <3>1. bad \in SUBSET Nat
      OBVIOUS
    <3>2. QED
      BY <3>1, LeastElement
  <2>2. CASE k = 0
    <3>1. [n \in 0..0 |-> base] \in [0..0 -> S] /\ Good([n \in 0..0 |-> base], 0)
      OBVIOUS
    <3>2. QED
      BY <2>1, <2>2, <3>1
  <2>3. CASE k # 0
    <3>1. k \in Nat /\ k - 1 \in Nat /\ ~(k <= k - 1)
      BY <2>1, <2>3
    <3>2. k - 1 \notin bad
      BY <2>1, <3>1
    <3>3. PICK f \in [0..(k - 1) -> S] : Good(f, k - 1)
      BY <3>1, <3>2
    <3> DEFINE g == [n \in 0..k |-> IF n = k THEN step[k][f[k - 1]] ELSE f[n]]
    <3>4. g \in [0..k -> S]
      <4>1. step[k] \in [S -> S] /\ f[k - 1] \in S
        BY <3>1
      <4>2. \A n \in 0..k : n # k => n \in 0..(k - 1)
        BY <3>1
      <4>3. QED
        BY <4>1, <4>2
    <3>5. Good(g, k)
      <4>1. g[0] = base
        BY <2>3, <3>1, <3>3
      <4>2. ASSUME NEW n \in 1..k
            PROVE  g[n] = step[n][g[n - 1]]
        <5>1. n \in 0..k /\ n - 1 \in 0..k /\ n - 1 # k
          BY <3>1
        <5>2. g[n - 1] = f[n - 1]
          BY <5>1
        <5>3. CASE n = k
          BY <5>1, <5>2, <5>3
        <5>4. CASE n # k
          <6>1. n \in 1..(k - 1) /\ g[n] = f[n]
            BY <3>1, <5>1, <5>4
          <6>2. QED
            BY <3>3, <5>2, <6>1
        <5>5. QED
          BY <5>3, <5>4
      <4>3. QED
        BY <4>1, <4>2
    <3>6. QED
      BY <2>1, <3>4, <3>5
  <2>4. QED
    BY <2>2, <2>3
<1>2. PICK f \in [0..size -> S] : Good(f, size)
  BY <1>1
<1>3. f = [n \in 0..size |-> IF n = 0 THEN base ELSE step[n][f[n - 1]]]
  <2>1. \A n \in 0..size : n # 0 => n \in 1..size
    OBVIOUS
  <2>2. QED
    BY <1>2, <2>1
<1>4. QED
  BY <1>3 DEF Iterates

LEMMA FlattenUnfolds ==
  ASSUME NEW ss, IsList(ss), Len(ss) # 0, NEW S, \A i \in DOMAIN ss : ss[i] \in Seq(S)
  PROVE  \E f : /\ f[1] = ss[1]
                /\ \A n \in 2..Len(ss) : f[n] = f[n - 1] \o ss[n]
                /\ FlattenSeq(ss) = f[Len(ss)]
<1> DEFINE size == Len(ss)
           step == [n \in Nat |-> [s \in Seq(S) |-> IF n \in 1..size THEN s \o ss[n] ELSE s]]
           flatten == CHOOSE f : f = [i \in 1..size |-> IF i = 1 THEN ss[i] ELSE f[i - 1] \o ss[i]]
<1>1. size \in Nat /\ DOMAIN ss = 1..size /\ size >= 1
  BY ListDomain
<1>2. step \in [Nat -> [Seq(S) -> Seq(S)]]
  <2>1. ASSUME NEW n \in 1..size, NEW s \in Seq(S)
        PROVE  s \o ss[n] \in Seq(S)
    BY <1>1, ConcatProperties
  <2>2. QED
    BY <2>1
<1>3. \A n \in 1..size : \A s \in Seq(S) : step[n][s] = s \o ss[n]
  <2>1. \A n \in 1..size : n \in Nat
    BY <1>1
  <2>2. QED
    BY <2>1
<1>4. FlattenSeq(ss) = flatten[size]
  BY DEF FlattenSeq
<1> HIDE DEF step, size
<1>5. <<>> \in Seq(S)
  BY EmptySeq
<1>6. PICK f \in [0..size -> Seq(S)] : Iterates(f, <<>>, step, size)
  BY <1>1, <1>2, <1>5, Recursion
<1> DEFINE g == [i \in 1..size |-> f[i]]
<1>7. \A n \in 1..size : /\ n \in 0..size /\ n # 0 /\ n - 1 \in 0..size
                         /\ f[n] = f[n - 1] \o ss[n]
  <2>1. ASSUME NEW n \in 1..size
        PROVE  n \in 0..size /\ n # 0 /\ n - 1 \in 0..size
    BY <1>1
  <2>2. ASSUME NEW n \in 1..size
        PROVE  f[n] = f[n - 1] \o ss[n]
    <3>1. f[n] = step[n][f[n - 1]]
      BY <1>6, <2>1 DEF Iterates
    <3>2. f[n - 1] \in Seq(S)
      BY <1>6, <2>1
    <3>3. QED
      BY <1>3, <3>1, <3>2
  <2>3. QED
    BY <2>1, <2>2
<1>8. f[0] = <<>>
  <2>1. 0 \in 0..size
    BY <1>1
  <2>2. QED
    BY <1>6, <2>1 DEF Iterates
<1>9. f[1] = ss[1]
  <2>0. 1 \in 1..size /\ 1 - 1 = 0
    BY <1>1
  <2>1. 1 \in 1..size /\ ss[1] \in Seq(S) /\ 1 - 1 = 0
    <3>1. 1 \in DOMAIN ss
      BY <1>1, <2>0
    <3>2. QED
      BY <2>0, <3>1
  <2>2. f[1] = <<>> \o ss[1]
    BY <1>7, <1>8, <2>1
  <2>3. QED
    BY <2>1, <2>2, ConcatEmptySeq
<1>10. g = [i \in 1..size |-> IF i = 1 THEN ss[i] ELSE g[i - 1] \o ss[i]]
  <2>1. ASSUME NEW i \in 1..size, i # 1
        PROVE  g[i] = g[i - 1] \o ss[i]
    <3>1. i - 1 \in 1..size
      BY <1>1, <2>1
    <3>2. QED
      BY <1>7, <2>1, <3>1
  <2>2. QED
    BY <1>9, <2>1
<1> HIDE DEF g
<1>11. flatten = [i \in 1..size |-> IF i = 1 THEN ss[i] ELSE flatten[i - 1] \o ss[i]]
  BY <1>10
<1> HIDE DEF flatten
<1>12. flatten[1] = ss[1] /\ \A n \in 2..size : flatten[n] = flatten[n - 1] \o ss[n]
  <2>1. 1 \in 1..size /\ \A n \in 2..size : n \in 1..size /\ n # 1
    BY <1>1
  <2>2. QED
    BY <1>11, <2>1
<1>13. QED
  BY <1>4, <1>12 DEF size

(* A list of lists holds, in turn, what its lists hold.                       *)
LEMMA FlattenHolds ==
  ASSUME NEW ss, IsList(ss), \A i \in DOMAIN ss : IsList(ss[i])
  PROVE  /\ IsList(FlattenSeq(ss))
         /\ \A i \in DOMAIN ss : Range(ss[i]) \subseteq Range(FlattenSeq(ss))
         /\ \A x \in Range(FlattenSeq(ss)) : \E i \in DOMAIN ss : x \in Range(ss[i])
<1>1. Len(ss) \in Nat /\ DOMAIN ss = 1..Len(ss)
  BY ListDomain
<1>2. CASE Len(ss) = 0
  <2>1. FlattenSeq(ss) = ss /\ DOMAIN ss = {}
    BY <1>1, <1>2 DEF FlattenSeq
  <2>2. QED
    BY <2>1 DEF Range
<1>3. CASE Len(ss) # 0
  <2> DEFINE S == UNION {Range(ss[i]) : i \in DOMAIN ss}
  <2>1. \A i \in DOMAIN ss : ss[i] \in Seq(S)
    <3>1. \A i \in DOMAIN ss : Range(ss[i]) \subseteq S
      OBVIOUS
    <3> HIDE DEF S
    <3>2. QED
      BY <3>1, SeqMonotonic DEF IsList
  <2> HIDE DEF S
  <2>2. PICK f : /\ f[1] = ss[1]
                 /\ \A n \in 2..Len(ss) : f[n] = f[n - 1] \o ss[n]
                 /\ FlattenSeq(ss) = f[Len(ss)]
    BY <1>3, <2>1, FlattenUnfolds
  <2> DEFINE Good(n) == /\ IsList(f[n])
                        /\ \A i \in 1..n : Range(ss[i]) \subseteq Range(f[n])
                        /\ \A x \in Range(f[n]) : \E i \in 1..n : x \in Range(ss[i])
             bad == {n \in 1..Len(ss) : ~Good(n)}
  <2>3. Good(1)
    <3>1. 1 \in DOMAIN ss
      BY <1>1, <1>3
    <3>2. QED
      BY <2>2, <3>1
  <2>4. ASSUME NEW n \in 2..Len(ss), Good(n - 1)
        PROVE  Good(n)
    <3>1. n \in DOMAIN ss /\ n - 1 \in Nat
      BY <1>1
    <3>2. f[n] = f[n - 1] \o ss[n]
      BY <2>2
    <3>3. IsList(f[n]) /\ Range(f[n]) = Range(f[n - 1]) \cup Range(ss[n])
      BY <2>4, <3>1, <3>2, ConcatIsList, ConcatElements
    <3>4. \A i \in 1..n : i \in 1..(n - 1) \/ i = n
      BY <3>1
    <3>5. \A i \in 1..n : Range(ss[i]) \subseteq Range(f[n])
      BY <2>4, <3>3, <3>4
    <3>6. \A x \in Range(f[n]) : \E i \in 1..n : x \in Range(ss[i])
      <4>1. ASSUME NEW x \in Range(f[n])
            PROVE  \E i \in 1..n : x \in Range(ss[i])
        <5>1. CASE x \in Range(ss[n])
          <6>1. n \in 1..n
            BY <3>1
          <6>2. QED
            BY <5>1, <6>1
        <5>2. CASE x \in Range(f[n - 1])
          <6>1. PICK i \in 1..(n - 1) : x \in Range(ss[i])
            BY <2>4, <5>2
          <6>2. i \in 1..n
            BY <3>1
          <6>3. QED
            BY <6>1, <6>2
        <5>3. QED
          BY <3>3, <5>1, <5>2
      <4>2. QED
        BY <4>1
    <3>7. QED
      BY <3>3, <3>5, <3>6
  <2> HIDE DEF Good
  <2>5. bad = {}
    <3> SUFFICES ASSUME bad # {} PROVE FALSE
      OBVIOUS
    <3>1. bad \in SUBSET Nat
      OBVIOUS
    <3>2. PICK n \in bad : \A m \in bad : n <= m
      BY <3>1, LeastElement
    <3>3. n \in 2..Len(ss)
      BY <1>1, <2>3, <3>2
    <3>4. n - 1 \in 1..Len(ss) /\ ~(n <= n - 1)
      BY <1>1, <3>3
    <3>5. Good(n - 1)
      BY <3>2, <3>4
    <3>6. QED
      BY <2>4, <3>2, <3>3, <3>5
  <2>6. Good(Len(ss))
    BY <1>1, <1>3, <2>5
  <2>7. QED
    BY <1>1, <2>2, <2>6 DEF Good
<1>4. QED
  BY <1>2, <1>3

----------------------------------------------------------------------------
(* Tables grow by what they do not hold yet.                                  *)

LEMMA InsertAllUnfolds ==
  ASSUME NEW table, IsList(table), NEW more, IsList(more)
  PROVE  \E f : /\ f[0] = table
                /\ \A n \in 1..Len(more) : f[n] = Insert(f[n - 1], more[n])
                /\ InsertAll(table, more) = f[Len(more)]
<1> DEFINE size == Len(more)
           S == Range(table) \cup Range(more)
           step == [n \in Nat |-> [s \in Seq(S) |-> IF n \in 1..size THEN Insert(s, more[n]) ELSE s]]
           upTo == CHOOSE f : f = [n \in 0..size |-> IF n = 0 THEN table ELSE Insert(f[n - 1], more[n])]
<1>1. size \in Nat /\ DOMAIN more = 1..size
  BY ListDomain
<1>2. table \in Seq(S) /\ \A n \in 1..size : more[n] \in S
  <2>1. table \in Seq(S)
    BY SeqMonotonic DEF IsList
  <2>2. QED
    BY <1>1, <2>1 DEF Range
<1>3. InsertAll(table, more) = upTo[size]
  BY DEF InsertAll
<1> HIDE DEF S, size
<1>4. step \in [Nat -> [Seq(S) -> Seq(S)]]
  <2>1. ASSUME NEW n \in 1..size, NEW s \in Seq(S)
        PROVE  Insert(s, more[n]) \in Seq(S)
    BY <1>2, AppendProperties DEF Insert
  <2>2. QED
    BY <2>1
<1>5. \A n \in 1..size : \A s \in Seq(S) : step[n][s] = Insert(s, more[n])
  <2>1. \A n \in 1..size : n \in Nat
    BY <1>1
  <2>2. QED
    BY <2>1
<1> HIDE DEF step
<1>6. PICK f \in [0..size -> Seq(S)] : Iterates(f, table, step, size)
  BY <1>1, <1>2, <1>4, Recursion
<1>7. f = [n \in 0..size |-> IF n = 0 THEN table ELSE Insert(f[n - 1], more[n])]
  <2>1. \A n \in 0..size : n # 0 => n \in 1..size /\ n - 1 \in 0..size
    BY <1>1
  <2>2. \A n \in 0..size : n # 0 => step[n][f[n - 1]] = Insert(f[n - 1], more[n])
    BY <1>5, <2>1
  <2>3. QED
    BY <1>6, <2>2 DEF Iterates
<1>8. upTo = [n \in 0..size |-> IF n = 0 THEN table ELSE Insert(upTo[n - 1], more[n])]
  BY <1>7
<1> HIDE DEF upTo
<1>9. 0 \in 0..size /\ \A n \in 1..size : n \in 0..size /\ n # 0
  BY <1>1
<1>10. upTo[0] = table
  BY <1>8, <1>9
<1>11. \A n \in 1..size : upTo[n] = Insert(upTo[n - 1], more[n])
  BY <1>8, <1>9
<1>12. QED
  BY <1>3, <1>10, <1>11 DEF size

(* What a table becomes once words are inserted.                              *)
Grows(table, words, after) ==
  /\ IsList(after)
  /\ Range(after) = Range(table) \cup words
  /\ Len(table) <= Len(after)
  /\ \A i \in 1..Len(table) : after[i] = table[i]
  /\ (\A i, j \in DOMAIN table : table[i] = table[j] => i = j)
       => \A i, j \in DOMAIN after : after[i] = after[j] => i = j

LEMMA InsertGrows ==
  ASSUME NEW table, IsList(table), NEW words, NEW s, Grows(table, words, s), NEW x
  PROVE  Grows(table, words \cup {x}, Insert(s, x))
<1>1. CASE x \in Range(s)
  BY <1>1 DEF Insert, Grows
<1>2. CASE x \notin Range(s)
  <2> DEFINE a == Append(s, x)
  <2>1. IsList(s) /\ Len(s) \in Nat /\ DOMAIN s = 1..Len(s) /\ Len(table) \in Nat
    BY ListDomain DEF Grows
  <2>2. s \in Seq(Range(s) \cup {x})
    BY <2>1, SeqMonotonic DEF IsList
  <2>3. Len(a) = Len(s) + 1 /\ IsList(a) /\ a[Len(s) + 1] = x /\ \A i \in 1..Len(s) : a[i] = s[i]
    BY <2>1, <2>2, AppendProperties, AppendIsList
  <2>4. Insert(s, x) = a
    BY <1>2 DEF Insert
  <2> HIDE DEF a
  <2>5. DOMAIN a = 1..(Len(s) + 1)
    BY <2>1, <2>3, ListDomain
  <2>6. Range(a) = Range(s) \cup {x}
    <3>1. \A i \in 1..(Len(s) + 1) : i \in 1..Len(s) \/ i = Len(s) + 1
      BY <2>1
    <3>2. \A i \in 1..Len(s) : i \in 1..(Len(s) + 1)
      BY <2>1
    <3>3. Len(s) + 1 \in 1..(Len(s) + 1)
      BY <2>1
    <3>4. Range(a) \subseteq Range(s) \cup {x}
      BY <2>1, <2>3, <2>5, <3>1 DEF Range
    <3>5. Range(s) \subseteq Range(a)
      BY <2>1, <2>3, <2>5, <3>2 DEF Range
    <3>6. x \in Range(a)
      BY <2>3, <2>5, <3>3 DEF Range
    <3>7. QED
      BY <3>4, <3>5, <3>6
  <2>7. Len(table) <= Len(a) /\ \A i \in 1..Len(table) : i \in 1..Len(s) /\ a[i] = table[i]
    BY <2>1, <2>3 DEF Grows
  <2>8. ASSUME \A i, j \in DOMAIN s : s[i] = s[j] => i = j
        PROVE  \A i, j \in DOMAIN a : a[i] = a[j] => i = j
    <3>1. \A i \in DOMAIN a : i \in DOMAIN s \/ i = Len(s) + 1
      BY <2>1, <2>5
    <3>2. \A i \in DOMAIN s : a[i] = s[i] /\ s[i] # x
      BY <1>2, <2>1, <2>3 DEF Range
    <3>3. QED
      BY <2>3, <2>8, <3>1, <3>2
  <2>9. QED
    BY <2>3, <2>4, <2>6, <2>7, <2>8 DEF Grows
<1>3. QED
  BY <1>1, <1>2

LEMMA InsertAllGrows ==
  ASSUME NEW table, IsList(table), NEW more, IsList(more)
  PROVE  Grows(table, Range(more), InsertAll(table, more))
<1>1. PICK f : /\ f[0] = table
               /\ \A n \in 1..Len(more) : f[n] = Insert(f[n - 1], more[n])
               /\ InsertAll(table, more) = f[Len(more)]
  BY InsertAllUnfolds
<1>2. Len(more) \in Nat /\ DOMAIN more = 1..Len(more)
  BY ListDomain
<1> DEFINE Good(n) == Grows(table, {more[i] : i \in 1..n}, f[n])
           bad == {n \in 0..Len(more) : ~Good(n)}
<1>3. Good(0)
  <2>1. {more[i] : i \in 1..0} = {}
    OBVIOUS
  <2>2. Len(table) \in Nat
    BY ListDomain
  <2>3. Grows(table, {}, table)
    BY <2>2 DEF Grows
  <2>4. QED
    BY <1>1, <2>1, <2>3
<1>4. ASSUME NEW n \in 1..Len(more), Good(n - 1)
      PROVE  Good(n)
  <2>1. {more[i] : i \in 1..n} = {more[i] : i \in 1..(n - 1)} \cup {more[n]}
    <3>1. \A i \in 1..n : i \in 1..(n - 1) \/ i = n
      BY <1>2
    <3>2. n \in 1..n /\ \A i \in 1..(n - 1) : i \in 1..n
      BY <1>2
    <3>3. QED
      BY <3>1, <3>2
  <2>2. Grows(table, {more[i] : i \in 1..(n - 1)} \cup {more[n]}, Insert(f[n - 1], more[n]))
    BY <1>4, InsertGrows
  <2>3. f[n] = Insert(f[n - 1], more[n])
    BY <1>1
  <2>4. QED
    BY <2>1, <2>2, <2>3
<1> HIDE DEF Good
<1>5. bad = {}
  <2> SUFFICES ASSUME bad # {} PROVE FALSE
    OBVIOUS
  <2>1. bad \in SUBSET Nat
    OBVIOUS
  <2>2. PICK n \in bad : \A m \in bad : n <= m
    BY <2>1, LeastElement
  <2>3. n \in 1..Len(more)
    BY <1>2, <1>3, <2>2
  <2>4. n - 1 \in 0..Len(more) /\ ~(n <= n - 1)
    BY <1>2, <2>3
  <2>5. Good(n - 1)
    BY <2>2, <2>4
  <2>6. QED
    BY <1>4, <2>2, <2>3, <2>5
<1>6. Good(Len(more))
  BY <1>2, <1>5
<1>7. Range(more) = {more[i] : i \in 1..Len(more)}
  BY <1>2 DEF Range
<1>8. QED
  BY <1>1, <1>6, <1>7 DEF Good

(* A list without repetitions is its own table.                               *)
LEMMA InsertAllKeeps ==
  ASSUME NEW s, IsList(s), \A i, j \in DOMAIN s : s[i] = s[j] => i = j
  PROVE  InsertAll(<<>>, s) = s
<1>1. PICK f : /\ f[0] = <<>>
               /\ \A n \in 1..Len(s) : f[n] = Insert(f[n - 1], s[n])
               /\ InsertAll(<<>>, s) = f[Len(s)]
  BY EmptyIsList, InsertAllUnfolds
<1>2. Len(s) \in Nat /\ DOMAIN s = 1..Len(s) /\ s \in Seq(Range(s))
  BY ListDomain DEF IsList
<1> DEFINE Good(n) == f[n] = SubSeq(s, 1, n)
           bad == {n \in 0..Len(s) : ~Good(n)}
<1>3. Good(0)
  BY <1>1, <1>2
<1>4. ASSUME NEW n \in 1..Len(s), Good(n - 1)
      PROVE  Good(n)
  <2> DEFINE p == SubSeq(s, 1, n - 1)
  <2>1. /\ p \in Seq(Range(s)) /\ Len(p) = n - 1
        /\ \A i \in 1..(n - 1) : p[i] = s[i]
    BY <1>2
  <2>2. DOMAIN p = 1..(n - 1)
    BY <2>1, LenProperties
  <2>3. f[n - 1] = p /\ f[n] = Insert(p, s[n])
    BY <1>1, <1>4
  <2> HIDE DEF p
  <2>4. s[n] \notin Range(p)
    <3>1. \A i \in 1..(n - 1) : i \in DOMAIN s /\ i # n /\ n \in DOMAIN s
      BY <1>2
    <3>2. QED
      BY <2>1, <2>2, <3>1 DEF Range
  <2>5. f[n] = Append(p, s[n])
    BY <2>3, <2>4 DEF Insert
  <2>6. Append(p, s[n]) = SubSeq(s, 1, n)
    <3>1. s[n] \in Range(s)
      BY <1>2 DEF Range
    <3>2. /\ Append(p, s[n]) \in Seq(Range(s)) /\ Len(Append(p, s[n])) = n
          /\ \A i \in 1..(n - 1) : Append(p, s[n])[i] = s[i]
          /\ Append(p, s[n])[n] = s[n]
      BY <2>1, <3>1, AppendProperties
    <3>3. /\ SubSeq(s, 1, n) \in Seq(Range(s)) /\ Len(SubSeq(s, 1, n)) = n
          /\ \A i \in 1..n : SubSeq(s, 1, n)[i] = s[i]
      BY <1>2
    <3>4. \A i \in 1..n : i \in 1..(n - 1) \/ i = n
      BY <1>2
    <3>5. \A i \in 1..n : Append(p, s[n])[i] = SubSeq(s, 1, n)[i]
      BY <3>2, <3>3, <3>4
    <3>6. QED
      BY <3>2, <3>3, <3>5, SeqEqual
  <2>7. QED
    BY <2>5, <2>6
<1> HIDE DEF Good
<1>5. bad = {}
  <2> SUFFICES ASSUME bad # {} PROVE FALSE
    OBVIOUS
  <2>1. bad \in SUBSET Nat
    OBVIOUS
  <2>2. PICK n \in bad : \A m \in bad : n <= m
    BY <2>1, LeastElement
  <2>3. n \in 1..Len(s)
    BY <1>2, <1>3, <2>2
  <2>4. n - 1 \in 0..Len(s) /\ ~(n <= n - 1)
    BY <1>2, <2>3
  <2>5. Good(n - 1)
    BY <2>2, <2>4
  <2>6. QED
    BY <1>4, <2>2, <2>3, <2>5
<1>6. f[Len(s)] = SubSeq(s, 1, Len(s))
  BY <1>2, <1>5 DEF Good
<1>7. SubSeq(s, 1, Len(s)) = s
  BY <1>2
<1>8. QED
  BY <1>1, <1>6, <1>7

(* What is split off, after the base, is the table.                           *)
LEMMA SplitOffCompletes ==
  ASSUME NEW base, IsList(base), NEW table, IsList(table),
         Len(base) <= Len(table), \A i \in 1..Len(base) : table[i] = base[i]
  PROVE  base \o SplitOff(table, Len(base)) = table
<1> DEFINE S == Range(base) \cup Range(table)
           n == Len(base)
           t == SplitOff(table, n)
<1>1. base \in Seq(S) /\ table \in Seq(S) /\ n \in Nat /\ Len(table) \in Nat
  BY SeqMonotonic, ListDomain DEF IsList
<1> HIDE DEF S
<1>2. /\ t \in Seq(S) /\ Len(t) = Len(table) - n
      /\ \A i \in 1..(Len(table) - n) : t[i] = table[n + i]
  BY <1>1 DEF SplitOff
<1> HIDE DEF t
<1>3. /\ base \o t \in Seq(S) /\ Len(base \o t) = n + Len(t)
      /\ \A i \in 1..(n + Len(t)) : (base \o t)[i] = IF i <= n THEN base[i] ELSE t[i - n]
  BY <1>1, <1>2, ConcatProperties
<1>4. n + Len(t) = Len(table)
  BY <1>1, <1>2
<1>5. ASSUME NEW i \in 1..Len(table)
      PROVE  (base \o t)[i] = table[i]
  <2>1. (base \o t)[i] = IF i <= n THEN base[i] ELSE t[i - n]
    BY <1>3, <1>4
  <2>2. CASE i <= n
    BY <1>1, <2>1, <2>2
  <2>3. CASE ~(i <= n)
    <3>1. i - n \in 1..(Len(table) - n) /\ n + (i - n) = i
      BY <1>1, <2>3
    <3>2. QED
      BY <1>2, <2>1, <2>3, <3>1
  <2>4. QED
    BY <2>2, <2>3
<1>6. base \o t = table
  BY <1>1, <1>3, <1>4, <1>5, SeqEqual
<1>7. QED
  BY <1>6 DEF t

----------------------------------------------------------------------------
(* The strings and keys a value holds are among those interned.               *)

LEMMA JoinedHolds ==
  ASSUME NEW s, IsList(s), NEW ss, DOMAIN ss = DOMAIN s, ss = [i \in DOMAIN s |-> ss[i]],
         \A i \in DOMAIN s : IsList(ss[i])
  PROVE  /\ IsList(FlattenSeq(ss))
         /\ \A i \in DOMAIN s : Range(ss[i]) \subseteq Range(FlattenSeq(ss))
         /\ \A x \in Range(FlattenSeq(ss)) : \E i \in DOMAIN s : x \in Range(ss[i])
BY AlikeIsList, FlattenHolds

LEMMA OneIsList ==
  ASSUME NEW x
  PROVE  IsList(<<x>>) /\ Range(<<x>>) = {x} /\ Range(<<>>) = {} /\ IsList(<<>>)
<1>1. DOMAIN <<x>> = 1..1 /\ <<x>> = [i \in 1..1 |-> <<x>>[i]] /\ <<x>>[1] = x
  OBVIOUS
<1>2. 1 \in Nat
  OBVIOUS
<1>3. IsList(<<x>>)
  BY <1>1, <1>2, TabulatedIsList
<1>4. Range(<<x>>) = {x}
  BY <1>1 DEF Range
<1>5. Range(<<>>) = {}
  BY DEF Range
<1>6. QED
  BY <1>3, <1>4, <1>5, EmptyIsList

LEMMA SetToSeqHolds ==
  ASSUME NEW S, IsFiniteSet(S)
  PROVE  IsList(SetToSeq(S)) /\ Range(SetToSeq(S)) = S
<1> DEFINE n == Cardinality(S)
           f == SetToSeq(S)
<1>1. n \in Nat /\ ExistsBijection(1..n, S)
  BY FS_CardinalityType
<1>2. \E g \in [1..n -> S] : IsInjective(g)
  <2>1. PICK g : g \in Bijection(1..n, S)
    BY <1>1 DEF ExistsBijection
  <2>2. g \in [1..n -> S] /\ \A i, j \in 1..n : g[i] = g[j] => i = j
    BY <2>1 DEF Bijection, Injection, IsInjective
  <2>3. QED
    BY <2>2 DEF IsInjective
<1>3. f \in [1..n -> S] /\ IsInjective(f)
  BY <1>2 DEF SetToSeq
<1> HIDE DEF f
<1>4. f \in Injection(1..n, S)
  BY <1>3 DEF Injection, IsInjective
<1>5. Cardinality(1..n) = n
  BY <1>1, FS_Interval
<1>6. f \in Surjection(1..n, S)
  BY <1>4, <1>5, FS_Injection
<1>7. \A x \in S : \E i \in 1..n : f[i] = x
  BY <1>6 DEF Surjection
<1>8. Range(f) = S
  BY <1>3, <1>7 DEF Range
<1>9. DOMAIN f = 1..n /\ f = [i \in 1..n |-> f[i]]
  BY <1>3
<1> HIDE DEF n
<1>10. IsList(f)
  BY <1>1, <1>9, TabulatedIsList
<1>11. QED
  BY <1>8, <1>10 DEF f

LEMMA ScalarWords ==
  ASSUME NEW t, IsScalar(t)
  PROVE  /\ IsList(ElementWords(t))
         /\ \A symbols : Range(ElementWords(t)) \subseteq Range(symbols) => ScalarCovered(symbols, t)
<1>1. TypeOf(t) \in ScalarTypes /\ DOMAIN t = {TypeOf(t)}
  BY TypeOfScalar
<1>2. CASE TypeOf(t) \in {"var", "str"}
  <2>1. ElementWords(t) = <<t[TypeOf(t)]>>
    BY <1>2 DEF ElementWords
  <2>2. IsList(ElementWords(t)) /\ Range(ElementWords(t)) = {t[TypeOf(t)]}
    BY <2>1, OneIsList
  <2>3. QED
    BY <1>1, <2>2 DEF ScalarCovered
<1>3. CASE TypeOf(t) \notin {"var", "str"}
  <2>1. ElementWords(t) = <<>>
    BY <1>3 DEF ElementWords
  <2>2. QED
    BY <1>1, <1>3, <2>1, EmptyIsList DEF ScalarCovered
<1>4. QED
  BY <1>2, <1>3

LEMMA ElementWordsCover ==
  ASSUME NEW t, IsElement(t)
  PROVE  /\ IsList(NestedWords(t))
         /\ \A symbols : Range(NestedWords(t)) \subseteq Range(symbols) => ElementCovered(symbols, t)
<1>1. CASE IsScalar(t)
  BY <1>1, TypeOfScalar, ScalarWords DEF NestedWords, ElementCovered
<1>2. CASE IsSetOf(IsScalar, t)
  <2>1. TypeOf(t) = "set" /\ IsFiniteSet(t["set"]) /\ \A e \in t["set"] : IsScalar(e)
    BY <1>2, TypeOfSingle DEF IsSetOf
  <2> DEFINE s == SetToSeq(t["set"])
             ss == [i \in DOMAIN s |-> ElementWords(s[i])]
  <2>2. IsList(s) /\ Range(s) = t["set"]
    BY <2>1, SetToSeqHolds
  <2>3. NestedWords(t) = FlattenSeq(ss)
    BY <2>1 DEF NestedWords, Joining, Map
  <2> HIDE DEF s
  <2>4. \A i \in DOMAIN s : IsScalar(s[i])
    BY <2>1, <2>2 DEF Range
  <2>5. \A e \in t["set"] : \E i \in DOMAIN s : s[i] = e
    BY <2>2 DEF Range
  <2>6. DOMAIN ss = DOMAIN s /\ ss = [i \in DOMAIN s |-> ss[i]]
        /\ \A i \in DOMAIN s : ss[i] = ElementWords(s[i])
    OBVIOUS
  <2> HIDE DEF ss
  <2>7. \A i \in DOMAIN s : IsList(ss[i])
    BY <2>4, <2>6, ScalarWords
  <2>8. IsList(FlattenSeq(ss)) /\ \A i \in DOMAIN s : Range(ss[i]) \subseteq Range(FlattenSeq(ss))
    BY <2>2, <2>6, <2>7, JoinedHolds
  <2>9. ASSUME NEW symbols, Range(FlattenSeq(ss)) \subseteq Range(symbols)
        PROVE  ElementCovered(symbols, t)
    <3>1. \A i \in DOMAIN s : ScalarCovered(symbols, s[i])
      BY <2>4, <2>6, <2>8, <2>9, ScalarWords
    <3>2. QED
      BY <2>1, <2>5, <3>1 DEF ElementCovered
  <2>10. QED
    BY <2>3, <2>8, <2>9
<1>3. QED
  BY <1>1, <1>2 DEF IsElement

LEMMA TermWordsCover ==
  ASSUME NEW t, IsTerm(t)
  PROVE  /\ IsList(TermWords(t))
         /\ \A symbols : Range(TermWords(t)) \subseteq Range(symbols) => TermCovered(symbols, t)
<1>1. CASE IsScalar(t)
  BY <1>1, TypeOfScalar, ScalarWords DEF TermWords, TermCovered
<1>2. CASE IsSetOf(IsElement, t)
  <2>1. TypeOf(t) = "set" /\ IsFiniteSet(t["set"]) /\ \A e \in t["set"] : IsElement(e)
    BY <1>2, TypeOfSingle DEF IsSetOf
  <2> DEFINE s == SetToSeq(t["set"])
             ss == [i \in DOMAIN s |-> NestedWords(s[i])]
  <2>2. IsList(s) /\ Range(s) = t["set"]
    BY <2>1, SetToSeqHolds
  <2>3. TermWords(t) = FlattenSeq(ss)
    BY <2>1 DEF TermWords, Joining, Map
  <2> HIDE DEF s
  <2>4. \A i \in DOMAIN s : IsElement(s[i])
    BY <2>1, <2>2 DEF Range
  <2>5. \A e \in t["set"] : \E i \in DOMAIN s : s[i] = e
    BY <2>2 DEF Range
  <2>6. DOMAIN ss = DOMAIN s /\ ss = [i \in DOMAIN s |-> ss[i]]
        /\ \A i \in DOMAIN s : ss[i] = NestedWords(s[i])
    OBVIOUS
  <2> HIDE DEF ss
  <2>7. \A i \in DOMAIN s : IsList(ss[i])
    BY <2>4, <2>6, ElementWordsCover
  <2>8. IsList(FlattenSeq(ss)) /\ \A i \in DOMAIN s : Range(ss[i]) \subseteq Range(FlattenSeq(ss))
    BY <2>2, <2>6, <2>7, JoinedHolds
  <2>9. ASSUME NEW symbols, Range(FlattenSeq(ss)) \subseteq Range(symbols)
        PROVE  TermCovered(symbols, t)
    <3>1. \A i \in DOMAIN s : ElementCovered(symbols, s[i])
      BY <2>4, <2>6, <2>8, <2>9, ElementWordsCover
    <3>2. QED
      BY <2>1, <2>5, <3>1 DEF TermCovered
  <2>10. QED
    BY <2>3, <2>8, <2>9
<1>3. QED
  BY <1>1, <1>2 DEF IsTerm

LEMMA PredicateWordsCover ==
  ASSUME NEW p, IsPredicate(p)
  PROVE  /\ IsList(PredicateWords(p))
         /\ \A symbols :
              Range(PredicateWords(p)) \subseteq Range(symbols) => PredicateCovered(symbols, p)
<1> DEFINE ss == [i \in DOMAIN p.terms |-> TermWords(p.terms[i])]
           words == FlattenSeq(ss)
<1>1. IsList(p.terms) /\ \A i \in DOMAIN p.terms : IsTerm(p.terms[i])
  BY DEF IsPredicate, IsListOf, Every, IsList
<1>2. PredicateWords(p) = words \o <<p.name>>
  BY DEF PredicateWords, Joining, Map
<1>3. DOMAIN ss = DOMAIN p.terms /\ ss = [i \in DOMAIN p.terms |-> ss[i]]
      /\ \A i \in DOMAIN p.terms : ss[i] = TermWords(p.terms[i])
  OBVIOUS
<1> HIDE DEF ss
<1>4. \A i \in DOMAIN p.terms : IsList(ss[i])
  BY <1>1, <1>3, TermWordsCover
<1>5. IsList(words) /\ \A i \in DOMAIN p.terms : Range(ss[i]) \subseteq Range(words)
  BY <1>1, <1>3, <1>4, JoinedHolds
<1> HIDE DEF words
<1>6. IsList(<<p.name>>) /\ Range(<<p.name>>) = {p.name}
  BY OneIsList
<1>7. IsList(PredicateWords(p)) /\ Range(PredicateWords(p)) = Range(words) \cup {p.name}
  BY <1>2, <1>5, <1>6, ConcatIsList, ConcatElements
<1>8. ASSUME NEW symbols, Range(PredicateWords(p)) \subseteq Range(symbols)
      PROVE  PredicateCovered(symbols, p)
  <2>1. p.name \in Range(symbols)
    BY <1>7, <1>8
  <2>2. \A i \in DOMAIN p.terms : Range(TermWords(p.terms[i])) \subseteq Range(symbols)
    BY <1>3, <1>5, <1>7, <1>8
  <2>3. QED
    BY <1>1, <2>1, <2>2, TermWordsCover DEF PredicateCovered
<1>9. QED
  BY <1>7, <1>8

LEMMA OpWordsCover ==
  ASSUME NEW op, IsOp(op)
  PROVE  /\ IsList(OpWords(op))
         /\ \A symbols : Range(OpWords(op)) \subseteq Range(symbols) => OpCovered(symbols, op)
<1>1. CASE DOMAIN op = {"value"} /\ IsTerm(op["value"])
  <2>1. TypeOf(op) = "value"
    BY <1>1, TypeOfSingle
  <2>2. OpWords(op) = TermWords(op["value"])
    BY <2>1 DEF OpWords
  <2>3. QED
    BY <1>1, <2>2, TermWordsCover DEF OpCovered
<1>2. CASE \E type \in {"unary", "binary"} : DOMAIN op = {type}
  <2>1. TypeOf(op) # "value"
    BY <1>2, TypeOfSingle
  <2>2. QED
    BY <2>1, EmptyIsList DEF OpWords, OpCovered
<1>3. QED
  BY <1>1, <1>2 DEF IsOp

ExpressionWords(e) == Joining(OpWords, e)

LEMMA ExpressionWordsCover ==
  ASSUME NEW e, IsExpression(e)
  PROVE  /\ IsList(ExpressionWords(e))
         /\ \A symbols : Range(ExpressionWords(e)) \subseteq Range(symbols)
                           => \A i \in DOMAIN e : OpCovered(symbols, e[i])
<1> DEFINE ss == [i \in DOMAIN e |-> OpWords(e[i])]
           words == FlattenSeq(ss)
<1>1. IsList(e) /\ \A i \in DOMAIN e : IsOp(e[i])
  BY DEF IsExpression, IsListOf, Every, IsList
<1>2. ExpressionWords(e) = words
  BY DEF ExpressionWords, Joining, Map
<1>3. DOMAIN ss = DOMAIN e /\ ss = [i \in DOMAIN e |-> ss[i]]
      /\ \A i \in DOMAIN e : ss[i] = OpWords(e[i])
  OBVIOUS
<1> HIDE DEF ss
<1>4. \A i \in DOMAIN e : IsList(ss[i])
  BY <1>1, <1>3, OpWordsCover
<1>5. IsList(words) /\ \A i \in DOMAIN e : Range(ss[i]) \subseteq Range(words)
  BY <1>1, <1>3, <1>4, JoinedHolds
<1> HIDE DEF words
<1>6. ASSUME NEW symbols, Range(words) \subseteq Range(symbols)
      PROVE  \A i \in DOMAIN e : OpCovered(symbols, e[i])
  BY <1>1, <1>3, <1>5, <1>6, OpWordsCover
<1>7. QED
  BY <1>2, <1>5, <1>6

LEMMA RuleWordsCover ==
  ASSUME NEW r, IsRule(r)
  PROVE  /\ IsList(RuleWords(r))
         /\ \A symbols : Range(RuleWords(r)) \subseteq Range(symbols) => RuleCovered(symbols, r)
<1> DEFINE bs == [i \in DOMAIN r.body |-> PredicateWords(r.body[i])]
           es == [i \in DOMAIN r.exprs |-> ExpressionWords(r.exprs[i])]
           body == FlattenSeq(bs)
           exprs == FlattenSeq(es)
           head == PredicateWords(r.head)
<1>1. /\ IsPredicate(r.head)
      /\ IsList(r.body) /\ \A i \in DOMAIN r.body : IsPredicate(r.body[i])
      /\ IsList(r.exprs) /\ \A i \in DOMAIN r.exprs : IsExpression(r.exprs[i])
  BY DEF IsRule, IsListOf, Every, IsList
<1>2. RuleWords(r) = body \o exprs \o head
  BY DEF RuleWords, ExpressionWords, Joining, Map
<1>3. /\ DOMAIN bs = DOMAIN r.body /\ bs = [i \in DOMAIN r.body |-> bs[i]]
      /\ \A i \in DOMAIN r.body : bs[i] = PredicateWords(r.body[i])
  OBVIOUS
<1>4. /\ DOMAIN es = DOMAIN r.exprs /\ es = [i \in DOMAIN r.exprs |-> es[i]]
      /\ \A i \in DOMAIN r.exprs : es[i] = ExpressionWords(r.exprs[i])
  OBVIOUS
<1> HIDE DEF bs, es
<1>5. IsList(body) /\ \A i \in DOMAIN r.body : Range(bs[i]) \subseteq Range(body)
  <2>1. \A i \in DOMAIN r.body : IsList(bs[i])
    BY <1>1, <1>3, PredicateWordsCover
  <2>2. QED
    BY <1>1, <1>3, <2>1, JoinedHolds
<1>6. IsList(exprs) /\ \A i \in DOMAIN r.exprs : Range(es[i]) \subseteq Range(exprs)
  <2>1. \A i \in DOMAIN r.exprs : IsList(es[i])
    BY <1>1, <1>4, ExpressionWordsCover
  <2>2. QED
    BY <1>1, <1>4, <2>1, JoinedHolds
<1>7. IsList(head)
  BY <1>1, PredicateWordsCover
<1> HIDE DEF body, exprs, head
<1>8. IsList(body \o exprs) /\ Range(body \o exprs) = Range(body) \cup Range(exprs)
  BY <1>5, <1>6, ConcatIsList, ConcatElements
<1>9. IsList(RuleWords(r)) /\ Range(RuleWords(r)) = Range(body \o exprs) \cup Range(head)
  BY <1>2, <1>7, <1>8, ConcatIsList, ConcatElements
<1>10. ASSUME NEW symbols, Range(RuleWords(r)) \subseteq Range(symbols)
       PROVE  RuleCovered(symbols, r)
  <2>1. PredicateCovered(symbols, r.head)
    BY <1>1, <1>9, <1>10, PredicateWordsCover DEF head
  <2>2. \A i \in DOMAIN r.body : Range(PredicateWords(r.body[i])) \subseteq Range(symbols)
    BY <1>3, <1>5, <1>8, <1>9, <1>10
  <2>3. \A i \in DOMAIN r.exprs : Range(ExpressionWords(r.exprs[i])) \subseteq Range(symbols)
    BY <1>4, <1>6, <1>8, <1>9, <1>10
  <2>4. \A i \in DOMAIN r.body : PredicateCovered(symbols, r.body[i])
    BY <1>1, <2>2, PredicateWordsCover
  <2>5. \A i \in DOMAIN r.exprs : \A j \in DOMAIN r.exprs[i] : OpCovered(symbols, r.exprs[i][j])
    BY <1>1, <2>3, ExpressionWordsCover
  <2>6. QED
    BY <2>1, <2>4, <2>5 DEF RuleCovered
<1>11. QED
  BY <1>9, <1>10

(* Keys of scopes.                                                            *)
LEMMA ScopeKeysHold ==
  ASSUME NEW scopes, IsListOf(IsScope, scopes)
  PROVE  /\ IsList(ScopeKeys(scopes))
         /\ \A i \in DOMAIN scopes :
              scopes[i].key # NoKey => scopes[i].key \in Range(ScopeKeys(scopes))
<1> DEFINE ss == [i \in DOMAIN scopes |-> ScopeKey(scopes[i])]
<1>1. IsList(scopes)
  BY DEF IsListOf, IsList
<1>2. ScopeKeys(scopes) = FlattenSeq(ss)
  BY DEF ScopeKeys, Joining, Map
<1>3. DOMAIN ss = DOMAIN scopes /\ ss = [i \in DOMAIN scopes |-> ss[i]]
      /\ \A i \in DOMAIN scopes : ss[i] = ScopeKey(scopes[i])
  OBVIOUS
<1> HIDE DEF ss
<1>4. \A i \in DOMAIN scopes :
        IsList(ss[i]) /\ (scopes[i].key # NoKey => scopes[i].key \in Range(ss[i]))
  BY <1>3, OneIsList DEF ScopeKey
<1>5. /\ IsList(FlattenSeq(ss))
      /\ \A i \in DOMAIN scopes : Range(ss[i]) \subseteq Range(FlattenSeq(ss))
  BY <1>1, <1>3, <1>4, JoinedHolds
<1>6. QED
  BY <1>2, <1>4, <1>5

LEMMA RuleKeysCover ==
  ASSUME NEW r, IsRule(r)
  PROVE  /\ IsList(RuleKeys(r))
         /\ \A keys : Range(RuleKeys(r)) \subseteq Range(keys) => ScopesCovered(keys, keys, r.scopes)
<1>1. IsListOf(IsScope, r.scopes)
  BY DEF IsRule
<1>2. QED
  BY <1>1, ScopeKeysHold DEF RuleKeys, ScopesCovered

----------------------------------------------------------------------------
(* The terms of a rule, which its converters visit one after the other.       *)

ListsOfTerms(r) ==
  /\ IsList(r.head.terms)
  /\ IsList(r.body) /\ \A i \in DOMAIN r.body : IsList(r.body[i].terms)
  /\ IsList(r.exprs) /\ \A i \in DOMAIN r.exprs : IsList(r.exprs[i])

HoldsTerm(r, x) ==
  \/ x \in Range(r.head.terms)
  \/ \E i \in DOMAIN r.body : x \in Range(r.body[i].terms)
  \/ \E i \in DOMAIN r.exprs : \E j \in DOMAIN r.exprs[i] :
       TypeOf(r.exprs[i][j]) = "value" /\ x = r.exprs[i][j].value

ExpressionTerms(e) == Joining(OpTerms, e)

LEMMA ExpressionTermsHold ==
  ASSUME NEW e, IsList(e)
  PROVE  /\ IsList(ExpressionTerms(e))
         /\ \A x : x \in Range(ExpressionTerms(e)) <=>
              \E j \in DOMAIN e : TypeOf(e[j]) = "value" /\ x = e[j].value
<1> DEFINE ss == [j \in DOMAIN e |-> OpTerms(e[j])]
<1>1. ExpressionTerms(e) = FlattenSeq(ss)
  BY DEF ExpressionTerms, Joining, Map
<1>2. DOMAIN ss = DOMAIN e /\ ss = [j \in DOMAIN e |-> ss[j]]
      /\ \A j \in DOMAIN e : ss[j] = OpTerms(e[j])
  OBVIOUS
<1> HIDE DEF ss
<1>3. \A j \in DOMAIN e :
        IsList(ss[j]) /\ \A x : x \in Range(ss[j]) <=> TypeOf(e[j]) = "value" /\ x = e[j].value
  <2>1. ASSUME NEW j \in DOMAIN e
        PROVE  IsList(ss[j]) /\ \A x : x \in Range(ss[j]) <=> TypeOf(e[j]) = "value" /\ x = e[j].value
    <3>1. CASE TypeOf(e[j]) = "value"
      <4>1. ss[j] = <<e[j].value>>
        BY <1>2, <3>1 DEF OpTerms
      <4>2. IsList(ss[j]) /\ Range(ss[j]) = {e[j].value}
        BY <4>1, OneIsList
      <4>3. QED
        BY <3>1, <4>2
    <3>2. CASE TypeOf(e[j]) # "value"
      <4>1. ss[j] = <<>>
        BY <1>2, <3>2 DEF OpTerms
      <4>2. IsList(ss[j]) /\ Range(ss[j]) = {}
        BY <4>1, OneIsList
      <4>3. QED
        BY <3>2, <4>2
    <3>3. QED
      BY <3>1, <3>2
  <2>2. QED
    BY <2>1
<1>4. /\ IsList(FlattenSeq(ss))
      /\ \A j \in DOMAIN e : Range(ss[j]) \subseteq Range(FlattenSeq(ss))
      /\ \A x \in Range(FlattenSeq(ss)) : \E j \in DOMAIN e : x \in Range(ss[j])
  BY <1>2, <1>3, JoinedHolds
<1>5. QED
  BY <1>1, <1>3, <1>4

LEMMA RuleTermsHold ==
  ASSUME NEW r, ListsOfTerms(r)
  PROVE  /\ IsList(RuleTerms(r))
         /\ \A x : x \in Range(RuleTerms(r)) <=> HoldsTerm(r, x)
<1> DEFINE bs == [i \in DOMAIN r.body |-> r.body[i].terms]
           es == [i \in DOMAIN r.exprs |-> ExpressionTerms(r.exprs[i])]
           body == FlattenSeq(bs)
           exprs == FlattenSeq(es)
<1>1. RuleTerms(r) = body \o exprs \o r.head.terms
  BY DEF RuleTerms, ExpressionTerms, Joining, Map
<1>2. DOMAIN bs = DOMAIN r.body /\ bs = [i \in DOMAIN r.body |-> bs[i]]
      /\ \A i \in DOMAIN r.body : bs[i] = r.body[i].terms
  OBVIOUS
<1>3. DOMAIN es = DOMAIN r.exprs /\ es = [i \in DOMAIN r.exprs |-> es[i]]
      /\ \A i \in DOMAIN r.exprs : es[i] = ExpressionTerms(r.exprs[i])
  OBVIOUS
<1> HIDE DEF bs, es
<1>4. /\ IsList(body)
      /\ \A i \in DOMAIN r.body : Range(bs[i]) \subseteq Range(body)
      /\ \A x \in Range(body) : \E i \in DOMAIN r.body : x \in Range(bs[i])
  <2>1. IsList(r.body) /\ \A i \in DOMAIN r.body : IsList(bs[i])
    BY <1>2 DEF ListsOfTerms
  <2>2. QED
    BY <1>2, <2>1, JoinedHolds
<1>5. /\ IsList(exprs)
      /\ \A i \in DOMAIN r.exprs : Range(es[i]) \subseteq Range(exprs)
      /\ \A x \in Range(exprs) : \E i \in DOMAIN r.exprs : x \in Range(es[i])
  <2>1. IsList(r.exprs) /\ \A i \in DOMAIN r.exprs : IsList(es[i])
    BY <1>3, ExpressionTermsHold DEF ListsOfTerms
  <2>2. QED
    BY <1>3, <2>1, JoinedHolds
<1> HIDE DEF body, exprs
<1>6. IsList(body \o exprs) /\ Range(body \o exprs) = Range(body) \cup Range(exprs)
  BY <1>4, <1>5, ConcatIsList, ConcatElements
<1>7. IsList(r.head.terms)
  BY DEF ListsOfTerms
<1>8. IsList(RuleTerms(r)) /\ Range(RuleTerms(r)) = Range(body \o exprs) \cup Range(r.head.terms)
  BY <1>1, <1>6, <1>7, ConcatIsList, ConcatElements
<1>9. \A x : x \in Range(body) <=> \E i \in DOMAIN r.body : x \in Range(r.body[i].terms)
  BY <1>2, <1>4
<1>10. \A x : x \in Range(exprs) <=>
         \E i \in DOMAIN r.exprs : \E j \in DOMAIN r.exprs[i] :
           TypeOf(r.exprs[i][j]) = "value" /\ x = r.exprs[i][j].value
  <2> DEFINE Holds(i, x) ==
        \E j \in DOMAIN r.exprs[i] : TypeOf(r.exprs[i][j]) = "value" /\ x = r.exprs[i][j].value
  <2>1. \A x : x \in Range(exprs) <=> \E i \in DOMAIN r.exprs : x \in Range(es[i])
    BY <1>5
  <2>2. \A i \in DOMAIN r.exprs : \A x : x \in Range(es[i]) <=> Holds(i, x)
    BY <1>3, ExpressionTermsHold DEF ListsOfTerms
  <2> HIDE DEF Holds
  <2>3. \A x : x \in Range(exprs) <=> \E i \in DOMAIN r.exprs : Holds(i, x)
    BY <2>1, <2>2
  <2>4. QED
    BY <2>3 DEF Holds
<1>11. \A x : x \in Range(RuleTerms(r)) <=> HoldsTerm(r, x)
  BY <1>6, <1>8, <1>9, <1>10 DEF HoldsTerm
<1>12. QED
  BY <1>8, <1>11

(* A predicate that every term of a rule satisfies.                           *)
LEMMA RuleEncodesTerms ==
  ASSUME NEW r, ListsOfTerms(r), RuleEncodes(r)
  PROVE  \A x : HoldsTerm(r, x) => TermEncodes(x)
<1>1. \A i \in DOMAIN RuleTerms(r) : TermEncodes(RuleTerms(r)[i])
  BY DEF RuleEncodes, Every
<1>2. \A x \in Range(RuleTerms(r)) : TermEncodes(x)
  BY <1>1 DEF Range
<1>3. QED
  BY <1>2, RuleTermsHold

LEMMA TermsDecode ==
  ASSUME NEW r, ListsOfTerms(r), \A x : HoldsTerm(r, x) => TermDecodes(x)
  PROVE  Every(TermDecodes, RuleTerms(r))
<1>1. \A x \in Range(RuleTerms(r)) : TermDecodes(x)
  BY RuleTermsHold
<1>2. QED
  BY <1>1 DEF Every, Range

----------------------------------------------------------------------------
(* Datalog values, which converters take to the wire and back.                *)

DatalogPredicate(p) ==
  /\ p = [name |-> p.name, terms |-> p.terms]
  /\ IsList(p.terms) /\ \A i \in DOMAIN p.terms : DatalogTerm(p.terms[i])
DatalogOp(op) ==
  \/ op = [value |-> op.value] /\ DatalogTerm(op.value)
  \/ \E type \in {"unary", "binary"} :
       DOMAIN op = {type} /\ op = [x \in {type} |-> op[x]] /\ op[type] \in Numbers("datalog", type)
DatalogExpression(e) == IsList(e) /\ \A i \in DOMAIN e : DatalogOp(e[i])
DatalogScope(s) ==
  s = [type |-> s.type, key |-> s.key] /\ s.type \in 0..2 /\ (s.type # 2 => s.key = 0)
DatalogRule(r) ==
  /\ r = [head |-> r.head, body |-> r.body, exprs |-> r.exprs, scopes |-> r.scopes]
  /\ DatalogPredicate(r.head)
  /\ IsList(r.body) /\ \A i \in DOMAIN r.body : DatalogPredicate(r.body[i])
  /\ IsList(r.exprs) /\ \A i \in DOMAIN r.exprs : DatalogExpression(r.exprs[i])
  /\ IsList(r.scopes) /\ \A i \in DOMAIN r.scopes : DatalogScope(r.scopes[i])
DatalogCheck(c) ==
  /\ c = [queries |-> c.queries, kind |-> c.kind]
  /\ c.kind \in {"one", "all", "reject"}
  /\ IsList(c.queries) /\ \A i \in DOMAIN c.queries : DatalogRule(c.queries[i])

LEMMA PredicateWireTrip ==
  ASSUME NEW p, DatalogPredicate(p), \A i \in DOMAIN p.terms : TermEncodes(p.terms[i])
  PROVE  /\ DecodePredicate(EncodePredicate(p)) = p
         /\ IsList(EncodePredicate(p).terms)
         /\ DOMAIN EncodePredicate(p).terms = DOMAIN p.terms
         /\ \A i \in DOMAIN p.terms : TermDecodes(EncodePredicate(p).terms[i])
<1> DEFINE ts == [i \in DOMAIN p.terms |-> EncodeTerm(p.terms[i])]
           w == EncodePredicate(p)
<1>1. w = [name |-> p.name, terms |-> ts]
  BY DEF EncodePredicate, OverPredicate, Map, EncodeName
<1>2. w.name = p.name /\ w.terms = ts
  <2> HIDE DEF w, ts
  <2>1. QED
    BY <1>1
<1>3. DOMAIN ts = DOMAIN p.terms /\ ts = [i \in DOMAIN p.terms |-> ts[i]]
      /\ \A i \in DOMAIN p.terms : ts[i] = EncodeTerm(p.terms[i])
  OBVIOUS
<1> HIDE DEF ts, w
<1>4. \A i \in DOMAIN p.terms : TermDecodes(ts[i]) /\ DecodeTerm(ts[i]) = p.terms[i]
  BY <1>3, TermWireTrip DEF DatalogPredicate
<1>5. IsList(ts)
  BY <1>3, AlikeIsList DEF DatalogPredicate
<1>6. p.terms = [i \in DOMAIN p.terms |-> p.terms[i]]
  BY DEF DatalogPredicate, IsList
<1>7. [i \in DOMAIN ts |-> DecodeTerm(ts[i])] = p.terms
  BY <1>3, <1>4, <1>6
<1>8. DecodePredicate(w) = p
  BY <1>2, <1>7 DEF DecodePredicate, OverPredicate, Map, DecodeName, DatalogPredicate
<1>9. QED
  BY <1>2, <1>3, <1>4, <1>5, <1>8 DEF w

EncodeOp(op) ==
  OverOp(EncodeTerm, LAMBDA type, n : Renumbered("datalog", "wire", type, n), op)
DecodeOp(op) ==
  OverOp(DecodeTerm, LAMBDA type, n : Renumbered("wire", "datalog", type, n), op)

LEMMA OpWireTrip ==
  ASSUME NEW op, DatalogOp(op), TypeOf(op) = "value" => TermEncodes(op.value)
  PROVE  /\ DecodeOp(EncodeOp(op)) = op
         /\ OpDecodes(EncodeOp(op))
         /\ TypeOf(EncodeOp(op)) = "value" => TermDecodes(EncodeOp(op).value)
<1> DEFINE w == EncodeOp(op)
<1>1. CASE op = [value |-> op.value] /\ DatalogTerm(op.value)
  <2>1. TypeOf(op) = "value"
    BY <1>1, ValueOf
  <2>2. w = [value |-> EncodeTerm(op.value)]
    BY <2>1 DEF EncodeOp, OverOp
  <2> HIDE DEF w
  <2>3. TypeOf(w) = "value" /\ w.value = EncodeTerm(op.value)
    BY <2>2, ValueOf
  <2>4. TermDecodes(w.value) /\ DecodeTerm(w.value) = op.value
    BY <1>1, <2>1, <2>3, TermWireTrip
  <2>5. DecodeOp(w) = op
    BY <1>1, <2>3, <2>4 DEF DecodeOp, OverOp
  <2>6. OpDecodes(w)
    BY <2>3 DEF OpDecodes
  <2>7. QED
    BY <2>4, <2>5, <2>6 DEF w
<1>2. ASSUME NEW type \in {"unary", "binary"}, DOMAIN op = {type},
             op = [x \in {type} |-> op[x]], op[type] \in Numbers("datalog", type)
      PROVE  /\ DecodeOp(w) = op
             /\ OpDecodes(w)
             /\ TypeOf(w) # "value"
  <2>1. TypeOf(op) = type /\ type # "value"
    BY <1>2, TypeOfSingle
  <2>2. w = [x \in {type} |-> Renumbered("datalog", "wire", x, op[x])]
    BY <2>1 DEF EncodeOp, OverOp
  <2> HIDE DEF w
  <2>3. DOMAIN w = {type} /\ w[type] = Renumbered("datalog", "wire", type, op[type])
    BY <2>2
  <2>4. TypeOf(w) = type
    BY <2>3, TypeOfSingle
  <2>5. /\ w[type] \in Numbers("wire", type)
        /\ Renumbered("wire", "datalog", type, w[type]) = op[type]
    BY <1>2, <2>3, WireNumbers
  <2>6. DecodeOp(w) = [x \in {type} |-> Renumbered("wire", "datalog", x, w[x])]
    BY <2>1, <2>4 DEF DecodeOp, OverOp
  <2>7. DecodeOp(w) = op
    BY <1>2, <2>5, <2>6
  <2>8. OpDecodes(w)
    BY <2>4, <2>5 DEF OpDecodes, Numbers
  <2>9. QED
    BY <2>1, <2>4, <2>7, <2>8
<1>3. QED
  BY <1>1, <1>2 DEF DatalogOp

EncodeExpression(e) == [i \in DOMAIN e |-> EncodeOp(e[i])]
DecodeExpression(e) == [i \in DOMAIN e |-> DecodeOp(e[i])]

LEMMA ExpressionWireTrip ==
  ASSUME NEW e, DatalogExpression(e),
         \A i \in DOMAIN e : TypeOf(e[i]) = "value" => TermEncodes(e[i].value)
  PROVE  LET w == EncodeExpression(e)
         IN /\ DecodeExpression(w) = e
            /\ IsList(w)
            /\ \A i \in DOMAIN w : /\ OpDecodes(w[i])
                                   /\ TypeOf(w[i]) = "value" => TermDecodes(w[i].value)
<1> DEFINE w == EncodeExpression(e)
<1>1. DOMAIN w = DOMAIN e /\ w = [i \in DOMAIN e |-> w[i]]
      /\ \A i \in DOMAIN e : w[i] = EncodeOp(e[i])
  BY DEF EncodeExpression
<1> HIDE DEF w
<1>2. \A i \in DOMAIN e : /\ DecodeOp(w[i]) = e[i]
                          /\ OpDecodes(w[i])
                          /\ TypeOf(w[i]) = "value" => TermDecodes(w[i].value)
  BY <1>1, OpWireTrip DEF DatalogExpression
<1>3. IsList(w)
  BY <1>1, AlikeIsList DEF DatalogExpression
<1>4. e = [i \in DOMAIN e |-> e[i]]
  BY DEF DatalogExpression, IsList
<1>5. DecodeExpression(w) = e
  BY <1>1, <1>2, <1>4 DEF DecodeExpression
<1>6. QED
  BY <1>1, <1>2, <1>3, <1>5 DEF w

LEMMA ScopeWireTrip ==
  ASSUME NEW s, DatalogScope(s)
  PROVE  ScopeDecodes(EncodeScope(s)) /\ DecodeScope(EncodeScope(s)) = s
<1>1. CASE s.type = 2
  <2> DEFINE w == [publicKey |-> s.key]
  <2>1. EncodeScope(s) = w
    BY <1>1 DEF EncodeScope
  <2>2. DOMAIN w = {"publicKey"} /\ w.publicKey = s.key
    OBVIOUS
  <2> HIDE DEF w
  <2>3. TypeOf(w) = "publicKey"
    BY <2>2, TypeOfSingle
  <2>4. DecodeScope(w) = [type |-> 2, key |-> s.key]
    BY <2>2, <2>3 DEF DecodeScope
  <2>5. QED
    BY <1>1, <2>1, <2>3, <2>4 DEF DatalogScope, ScopeDecodes
<1>2. CASE s.type # 2
  <2> DEFINE w == [scopeType |-> s.type]
  <2>1. EncodeScope(s) = w
    BY <1>2 DEF EncodeScope
  <2>2. DOMAIN w = {"scopeType"} /\ w.scopeType = s.type
    OBVIOUS
  <2> HIDE DEF w
  <2>3. TypeOf(w) = "scopeType"
    BY <2>2, TypeOfSingle
  <2>4. s.type \in {0, 1} /\ s.key = 0
    BY <1>2 DEF DatalogScope
  <2>5. DecodeScope(w) = [type |-> s.type, key |-> 0]
    BY <2>2, <2>3, <2>4 DEF DecodeScope
  <2>6. QED
    BY <2>1, <2>3, <2>4, <2>5 DEF DatalogScope, ScopeDecodes
<1>3. QED
  BY <1>1, <1>2

LEMMA EncodedRule ==
  ASSUME NEW r
  PROVE  LET w == EncodeRule(r)
         IN /\ w.head = EncodePredicate(r.head)
            /\ w.body = [i \in DOMAIN r.body |-> EncodePredicate(r.body[i])]
            /\ w.exprs = [i \in DOMAIN r.exprs |-> EncodeExpression(r.exprs[i])]
            /\ w.scopes = [i \in DOMAIN r.scopes |-> EncodeScope(r.scopes[i])]
BY DEF EncodeRule, OverRule, EncodePredicate, EncodeExpression, EncodeOp, Map

LEMMA DecodedRule ==
  ASSUME NEW r
  PROVE  DecodeRule(r) =
           [head   |-> DecodePredicate(r.head),
            body   |-> [i \in DOMAIN r.body |-> DecodePredicate(r.body[i])],
            exprs  |-> [i \in DOMAIN r.exprs |-> DecodeExpression(r.exprs[i])],
            scopes |-> [i \in DOMAIN r.scopes |-> DecodeScope(r.scopes[i])]]
BY DEF DecodeRule, OverRule, DecodePredicate, DecodeExpression, DecodeOp, Map

LEMMA RuleWireTrip ==
  ASSUME NEW r, DatalogRule(r), RuleEncodes(r)
  PROVE  RuleDecodes(EncodeRule(r)) /\ DecodeRule(EncodeRule(r)) = r
<1> DEFINE w == EncodeRule(r)
<1>1. /\ w.head = EncodePredicate(r.head)
      /\ w.body = [i \in DOMAIN r.body |-> EncodePredicate(r.body[i])]
      /\ w.exprs = [i \in DOMAIN r.exprs |-> EncodeExpression(r.exprs[i])]
      /\ w.scopes = [i \in DOMAIN r.scopes |-> EncodeScope(r.scopes[i])]
  BY EncodedRule
<1> HIDE DEF w
<1>2. /\ DatalogPredicate(r.head)
      /\ IsList(r.body) /\ \A i \in DOMAIN r.body : DatalogPredicate(r.body[i])
      /\ IsList(r.exprs) /\ \A i \in DOMAIN r.exprs : DatalogExpression(r.exprs[i])
      /\ IsList(r.scopes) /\ \A i \in DOMAIN r.scopes : DatalogScope(r.scopes[i])
  BY DEF DatalogRule
<1>3. \A x : HoldsTerm(r, x) => TermEncodes(x)
  <2>1. ListsOfTerms(r)
    BY <1>2 DEF ListsOfTerms, DatalogPredicate, DatalogExpression
  <2>2. QED
    BY <2>1, RuleEncodesTerms
<1>4. /\ DecodePredicate(w.head) = r.head
      /\ IsList(w.head.terms) /\ DOMAIN w.head.terms = DOMAIN r.head.terms
      /\ \A i \in DOMAIN r.head.terms : TermDecodes(w.head.terms[i])
  <2>1. \A i \in DOMAIN r.head.terms : TermEncodes(r.head.terms[i])
    BY <1>3 DEF HoldsTerm, Range
  <2>2. QED
    BY <1>1, <1>2, <2>1, PredicateWireTrip
<1>5. ASSUME NEW i \in DOMAIN r.body
      PROVE  /\ DecodePredicate(w.body[i]) = r.body[i]
             /\ IsList(w.body[i].terms) /\ DOMAIN w.body[i].terms = DOMAIN r.body[i].terms
             /\ \A j \in DOMAIN r.body[i].terms : TermDecodes(w.body[i].terms[j])
  <2>1. \A j \in DOMAIN r.body[i].terms : TermEncodes(r.body[i].terms[j])
    BY <1>3 DEF HoldsTerm, Range
  <2>2. w.body[i] = EncodePredicate(r.body[i])
    BY <1>1
  <2>3. QED
    BY <1>2, <2>1, <2>2, PredicateWireTrip
<1>6. ASSUME NEW i \in DOMAIN r.exprs
      PROVE  /\ DecodeExpression(w.exprs[i]) = r.exprs[i]
             /\ IsList(w.exprs[i])
             /\ \A j \in DOMAIN w.exprs[i] :
                  /\ OpDecodes(w.exprs[i][j])
                  /\ TypeOf(w.exprs[i][j]) = "value" => TermDecodes(w.exprs[i][j].value)
  <2>1. \A j \in DOMAIN r.exprs[i] :
          TypeOf(r.exprs[i][j]) = "value" => TermEncodes(r.exprs[i][j].value)
    BY <1>3 DEF HoldsTerm
  <2>2. w.exprs[i] = EncodeExpression(r.exprs[i])
    BY <1>1
  <2>3. QED
    BY <1>2, <2>1, <2>2, ExpressionWireTrip
<1>7. \A i \in DOMAIN r.scopes :
        ScopeDecodes(w.scopes[i]) /\ DecodeScope(w.scopes[i]) = r.scopes[i]
  BY <1>1, <1>2, ScopeWireTrip
<1>8. DOMAIN w.body = DOMAIN r.body /\ DOMAIN w.exprs = DOMAIN r.exprs
      /\ DOMAIN w.scopes = DOMAIN r.scopes
  BY <1>1
<1>9. DecodeRule(w) = r
  <2>1. /\ r.body = [i \in DOMAIN r.body |-> r.body[i]]
        /\ r.exprs = [i \in DOMAIN r.exprs |-> r.exprs[i]]
        /\ r.scopes = [i \in DOMAIN r.scopes |-> r.scopes[i]]
    BY <1>2 DEF IsList
  <2>2. [i \in DOMAIN w.body |-> DecodePredicate(w.body[i])] = r.body
    BY <1>5, <1>8, <2>1
  <2>3. [i \in DOMAIN w.exprs |-> DecodeExpression(w.exprs[i])] = r.exprs
    BY <1>6, <1>8, <2>1
  <2>4. [i \in DOMAIN w.scopes |-> DecodeScope(w.scopes[i])] = r.scopes
    BY <1>7, <1>8, <2>1
  <2>5. DecodeRule(w) = [head |-> r.head, body |-> r.body, exprs |-> r.exprs, scopes |-> r.scopes]
    BY <1>4, <2>2, <2>3, <2>4, DecodedRule
  <2>6. QED
    BY <2>5 DEF DatalogRule
<1>10. RuleDecodes(w)
  <2>1. ListsOfTerms(w)
    <3>1. IsList(w.body) /\ IsList(w.exprs)
      BY <1>1, <1>2, AlikeIsList
    <3>2. QED
      BY <1>4, <1>5, <1>6, <1>8, <3>1 DEF ListsOfTerms
  <2>2. ASSUME NEW x, HoldsTerm(w, x)
        PROVE  TermDecodes(x)
    <3>1. CASE x \in Range(w.head.terms)
      BY <1>4, <3>1 DEF Range
    <3>2. CASE \E i \in DOMAIN w.body : x \in Range(w.body[i].terms)
      BY <1>5, <1>8, <3>2 DEF Range
    <3>3. CASE \E i \in DOMAIN w.exprs : \E j \in DOMAIN w.exprs[i] :
                 TypeOf(w.exprs[i][j]) = "value" /\ x = w.exprs[i][j].value
      BY <1>6, <1>8, <3>3
    <3>4. QED
      BY <2>2, <3>1, <3>2, <3>3 DEF HoldsTerm
  <2>3. Every(TermDecodes, RuleTerms(w))
    BY <2>1, <2>2, TermsDecode
  <2>4. Every(LAMBDA e : Every(OpDecodes, e), w.exprs)
    BY <1>6, <1>8 DEF Every
  <2>5. Every(ScopeDecodes, w.scopes)
    BY <1>7, <1>8 DEF Every
  <2>6. QED
    BY <2>3, <2>4, <2>5 DEF RuleDecodes
<1>11. QED
  BY <1>9, <1>10 DEF w

LEMMA CheckWireTrip ==
  ASSUME NEW c, DatalogCheck(c), QueriesEncode(c)
  PROVE  CheckDecodes(EncodeCheck(c)) /\ DecodeCheck(EncodeCheck(c)) = c
<1> DEFINE w == EncodeCheck(c)
<1>1. /\ w.queries = [i \in DOMAIN c.queries |-> EncodeRule(c.queries[i])]
      /\ w.kind = EncodeKind(c.kind)
  BY DEF EncodeCheck, OverQueries, Map
<1> HIDE DEF w
<1>2. \A i \in DOMAIN c.queries :
        /\ RuleDecodes(EncodeRule(c.queries[i]))
        /\ DecodeRule(EncodeRule(c.queries[i])) = c.queries[i]
  BY RuleWireTrip DEF DatalogCheck, QueriesEncode, Every
<1>3. ConvertKind(w.kind) = c.kind /\ w.kind \in {"nil", "one", "all", "reject"}
  BY <1>1 DEF DatalogCheck, ConvertKind, EncodeKind
<1>4. c.queries = [i \in DOMAIN c.queries |-> c.queries[i]]
  BY DEF DatalogCheck, IsList
<1>5. [i \in DOMAIN w.queries |-> DecodeRule(w.queries[i])] = c.queries
  BY <1>1, <1>2, <1>4
<1>6. DecodeCheck(w) = [queries |-> c.queries, kind |-> c.kind]
  BY <1>3, <1>5 DEF DecodeCheck, OverQueries, Map
<1>7. CheckDecodes(w)
  BY <1>1, <1>2, <1>3 DEF CheckDecodes, Every
<1>8. QED
  BY <1>6, <1>7 DEF w, DatalogCheck

----------------------------------------------------------------------------
(* What is converted to datalog is a datalog value.                           *)

LEMMA ConvertedPredicate ==
  ASSUME NEW symbols, NEW p, IsPredicate(p), IsList(symbols), PredicateCovered(symbols, p)
  PROVE  DatalogPredicate(ConvertPredicate(symbols, p))
<1> DEFINE ts == [i \in DOMAIN p.terms |-> ConvertTerm(symbols, p.terms[i])]
           c == ConvertPredicate(symbols, p)
<1>1. c = [name |-> Index(symbols, p.name), terms |-> ts]
  BY DEF ConvertPredicate, OverPredicate, Map
<1>2. DOMAIN ts = DOMAIN p.terms /\ ts = [i \in DOMAIN p.terms |-> ts[i]]
      /\ \A i \in DOMAIN p.terms : ts[i] = ConvertTerm(symbols, p.terms[i])
  OBVIOUS
<1> HIDE DEF ts, c
<1>3. c = [name |-> c.name, terms |-> c.terms] /\ c.terms = ts
  BY <1>1
<1>4. IsList(p.terms) /\ \A i \in DOMAIN p.terms : IsTerm(p.terms[i])
  BY DEF IsPredicate, IsListOf, Every, IsList
<1>5. IsList(ts)
  BY <1>2, <1>4, AlikeIsList
<1>6. \A i \in DOMAIN ts : DatalogTerm(ts[i])
  BY <1>2, <1>4, ConvertedTerm DEF PredicateCovered
<1>7. QED
  BY <1>3, <1>5, <1>6 DEF DatalogPredicate, c

LEMMA ConvertedOp ==
  ASSUME NEW symbols, NEW op, IsOp(op), IsList(symbols), OpCovered(symbols, op)
  PROVE  DatalogOp(ConvertOp(symbols, op))
<1> DEFINE c == ConvertOp(symbols, op)
<1>1. CASE DOMAIN op = {"value"} /\ IsTerm(op["value"])
  <2>1. TypeOf(op) = "value"
    BY <1>1, TypeOfSingle
  <2>2. c = [value |-> ConvertTerm(symbols, op.value)]
    BY <2>1 DEF ConvertOp, OverOp
  <2> HIDE DEF c
  <2>3. c.value = ConvertTerm(symbols, op.value)
    BY <2>2, ValueOf
  <2>4. DatalogTerm(c.value)
    BY <1>1, <2>1, <2>3, ConvertedTerm DEF OpCovered
  <2>5. DatalogOp(c)
    BY <2>2, <2>3, <2>4 DEF DatalogOp
  <2>6. QED
    BY <2>5 DEF c
<1>2. ASSUME NEW type \in {"unary", "binary"}, DOMAIN op = {type},
             op[type] \in 1..(Len(Operations("source", type)) - 1)
      PROVE  DatalogOp(c)
  <2>1. TypeOf(op) = type /\ type # "value"
    BY <1>2, TypeOfSingle
  <2>2. c = [x \in {type} |-> Renumbered("source", "datalog", x, op[x])]
    BY <2>1 DEF ConvertOp, OverOp
  <2> HIDE DEF c
  <2>3. DOMAIN c = {type} /\ c = [x \in {type} |-> c[x]]
        /\ c[type] = Renumbered("source", "datalog", type, op[type])
    BY <2>2
  <2>4. c[type] \in Numbers("datalog", type)
    BY <1>2, <2>3, SourceNumbers
  <2>5. QED
    BY <2>3, <2>4 DEF DatalogOp
<1>3. QED
  BY <1>1, <1>2 DEF IsOp

LEMMA ConvertedExpressionTyped ==
  ASSUME NEW symbols, NEW e, IsExpression(e), IsList(symbols),
         \A i \in DOMAIN e : OpCovered(symbols, e[i])
  PROVE  DatalogExpression(ConvertExpression(symbols, e))
<1> DEFINE c == ConvertExpression(symbols, e)
<1>1. DOMAIN c = DOMAIN e /\ c = [i \in DOMAIN e |-> c[i]]
      /\ \A i \in DOMAIN e : c[i] = ConvertOp(symbols, e[i])
  BY DEF ConvertExpression
<1> HIDE DEF c
<1>2. IsList(e) /\ \A i \in DOMAIN e : IsOp(e[i])
  BY DEF IsExpression, IsListOf, Every, IsList
<1>3. IsList(c)
  BY <1>1, <1>2, AlikeIsList
<1>4. \A i \in DOMAIN c : DatalogOp(c[i])
  BY <1>1, <1>2, ConvertedOp
<1>5. QED
  BY <1>3, <1>4 DEF DatalogExpression, c

LEMMA ConvertedScope ==
  ASSUME NEW keys, NEW s, IsScope(s)
  PROVE  DatalogScope(ConvertScope(keys, s))
<1> DEFINE n == IF s.key = NoKey THEN 0 ELSE Index(keys, s.key)
           c == [type |-> s.type, key |-> n]
<1>1. c.type = s.type /\ c.key = n
  OBVIOUS
<1>2. ConvertScope(keys, s) = c
  BY DEF ConvertScope
<1>3. c = [type |-> c.type, key |-> c.key]
  OBVIOUS
<1> HIDE DEF c
<1>4. c.type \in 0..2 /\ (c.type # 2 => c.key = 0)
  BY <1>1 DEF IsScope
<1>5. QED
  BY <1>2, <1>3, <1>4 DEF DatalogScope

LEMMA ConvertedRuleTyped ==
  ASSUME NEW symbols, NEW keys, NEW r, IsRule(r), IsList(symbols), RuleCovered(symbols, r)
  PROVE  DatalogRule(ConvertRule(symbols, keys, r))
<1> DEFINE c == ConvertRule(symbols, keys, r)
<1>1. /\ c.head = ConvertPredicate(symbols, r.head)
      /\ c.body = [i \in DOMAIN r.body |-> ConvertPredicate(symbols, r.body[i])]
      /\ c.exprs = [i \in DOMAIN r.exprs |-> ConvertExpression(symbols, r.exprs[i])]
      /\ c.scopes = [i \in DOMAIN r.scopes |-> ConvertScope(keys, r.scopes[i])]
  BY ConvertedRule
<1>2. c = [head |-> c.head, body |-> c.body, exprs |-> c.exprs, scopes |-> c.scopes]
  BY DEF ConvertRule, OverRule
<1> HIDE DEF c
<1>3. /\ IsPredicate(r.head)
      /\ IsList(r.body) /\ \A i \in DOMAIN r.body : IsPredicate(r.body[i])
      /\ IsList(r.exprs) /\ \A i \in DOMAIN r.exprs : IsExpression(r.exprs[i])
      /\ IsList(r.scopes) /\ \A i \in DOMAIN r.scopes : IsScope(r.scopes[i])
  BY DEF IsRule, IsListOf, Every, IsList
<1>4. DatalogPredicate(c.head)
  BY <1>1, <1>3, ConvertedPredicate DEF RuleCovered
<1>5. IsList(c.body) /\ \A i \in DOMAIN c.body : DatalogPredicate(c.body[i])
  <2>1. DOMAIN c.body = DOMAIN r.body /\ c.body = [i \in DOMAIN r.body |-> c.body[i]]
        /\ \A i \in DOMAIN r.body : c.body[i] = ConvertPredicate(symbols, r.body[i])
    BY <1>1
  <2>2. IsList(c.body)
    BY <1>3, <2>1, AlikeIsList
  <2>3. QED
    BY <1>3, <2>1, <2>2, ConvertedPredicate DEF RuleCovered
<1>6. IsList(c.exprs) /\ \A i \in DOMAIN c.exprs : DatalogExpression(c.exprs[i])
  <2>1. DOMAIN c.exprs = DOMAIN r.exprs /\ c.exprs = [i \in DOMAIN r.exprs |-> c.exprs[i]]
        /\ \A i \in DOMAIN r.exprs : c.exprs[i] = ConvertExpression(symbols, r.exprs[i])
    BY <1>1
  <2>2. IsList(c.exprs)
    BY <1>3, <2>1, AlikeIsList
  <2>3. QED
    BY <1>3, <2>1, <2>2, ConvertedExpressionTyped DEF RuleCovered
<1>7. IsList(c.scopes) /\ \A i \in DOMAIN c.scopes : DatalogScope(c.scopes[i])
  <2>1. DOMAIN c.scopes = DOMAIN r.scopes /\ c.scopes = [i \in DOMAIN r.scopes |-> c.scopes[i]]
        /\ \A i \in DOMAIN r.scopes : c.scopes[i] = ConvertScope(keys, r.scopes[i])
    BY <1>1
  <2>2. IsList(c.scopes)
    BY <1>3, <2>1, AlikeIsList
  <2>3. QED
    BY <1>3, <2>1, <2>2, ConvertedScope
<1>8. QED
  BY <1>2, <1>4, <1>5, <1>6, <1>7 DEF DatalogRule, c

LEMMA ConvertedCheckTyped ==
  ASSUME NEW symbols, NEW keys, NEW c, IsCheck(c), IsList(symbols),
         \A i \in DOMAIN c.queries : RuleCovered(symbols, c.queries[i])
  PROVE  DatalogCheck(ConvertCheck(symbols, keys, c))
<1> DEFINE d == ConvertCheck(symbols, keys, c)
<1>1. /\ d.queries = [i \in DOMAIN c.queries |-> ConvertRule(symbols, keys, c.queries[i])]
      /\ d.kind = ConvertKind(c.kind)
      /\ d = [queries |-> d.queries, kind |-> d.kind]
  BY DEF ConvertCheck, OverQueries, Map
<1> HIDE DEF d
<1>2. IsList(c.queries) /\ \A i \in DOMAIN c.queries : IsRule(c.queries[i])
  BY DEF IsCheck, IsListOf, Every, IsList
<1>3. IsList(d.queries)
  BY <1>1, <1>2, AlikeIsList
<1>4. \A i \in DOMAIN d.queries : DatalogRule(d.queries[i])
  BY <1>1, <1>2, ConvertedRuleTyped
<1>5. d.kind \in {"one", "all", "reject"}
  BY <1>1 DEF IsCheck, ConvertKind
<1>6. QED
  BY <1>1, <1>3, <1>4, <1>5 DEF DatalogCheck, d

----------------------------------------------------------------------------
(* What a builder holds, and the table made of it.                            *)

Contents(b) ==
  /\ IsListOf(IsPredicate, b.facts)
  /\ IsListOf(IsRule, b.rules)
  /\ IsListOf(IsCheck, b.checks)
  /\ IsListOf(IsPolicy, b.policies)

AllRules(b) == b.rules \o Queries(b.checks) \o Queries(b.policies)

LEMMA QueriesHold ==
  ASSUME NEW items, IsList(items), \A i \in DOMAIN items : IsList(items[i].queries)
  PROVE  /\ IsList(Queries(items))
         /\ \A i \in DOMAIN items : Range(items[i].queries) \subseteq Range(Queries(items))
         /\ \A x \in Range(Queries(items)) : \E i \in DOMAIN items : x \in Range(items[i].queries)
<1> DEFINE ss == [i \in DOMAIN items |-> items[i].queries]
<1>1. /\ DOMAIN ss = DOMAIN items /\ ss = [i \in DOMAIN items |-> ss[i]]
      /\ \A i \in DOMAIN items : ss[i] = items[i].queries
  OBVIOUS
<1>2. Queries(items) = FlattenSeq(ss)
  BY DEF Queries, Joining, Map
<1> HIDE DEF ss
<1>3. \A i \in DOMAIN items : IsList(ss[i])
  BY <1>1
<1>4. /\ IsList(Queries(items))
      /\ \A i \in DOMAIN items : Range(ss[i]) \subseteq Range(Queries(items))
      /\ \A x \in Range(Queries(items)) : \E i \in DOMAIN items : x \in Range(ss[i])
  BY <1>1, <1>2, <1>3, JoinedHolds
<1>5. QED
  BY <1>1, <1>4

(* Queries that are rules.                                                    *)
LEMMA RulesOfQueries ==
  ASSUME NEW items, IsList(items), \A i \in DOMAIN items : IsListOf(IsRule, items[i].queries)
  PROVE  IsList(Queries(items)) /\ \A r \in Range(Queries(items)) : IsRule(r)
<1>1. \A i \in DOMAIN items : IsList(items[i].queries)
  BY DEF IsListOf, IsList
<1>2. \A i \in DOMAIN items : \A x \in Range(items[i].queries) : IsRule(x)
  BY <1>1, RangeOf DEF IsListOf, Every
<1>3. QED
  BY <1>1, <1>2, QueriesHold

LEMMA AllRulesHold ==
  ASSUME NEW b, Contents(b)
  PROVE  /\ IsList(AllRules(b))
         /\ \A r \in Range(AllRules(b)) : IsRule(r)
         /\ Range(b.rules) \subseteq Range(AllRules(b))
         /\ Range(Queries(b.checks)) \subseteq Range(AllRules(b))
         /\ Range(Queries(b.policies)) \subseteq Range(AllRules(b))
<1>1. IsList(b.rules) /\ \A r \in Range(b.rules) : IsRule(r)
  BY RangeOf DEF Contents, IsListOf, Every, IsList
<1>2. IsList(Queries(b.checks)) /\ \A r \in Range(Queries(b.checks)) : IsRule(r)
  BY RulesOfQueries DEF Contents, IsListOf, Every, IsList, IsCheck
<1>3. IsList(Queries(b.policies)) /\ \A r \in Range(Queries(b.policies)) : IsRule(r)
  BY RulesOfQueries DEF Contents, IsListOf, Every, IsList, IsPolicy
<1>4. /\ IsList(b.rules \o Queries(b.checks))
      /\ Range(b.rules \o Queries(b.checks)) = Range(b.rules) \cup Range(Queries(b.checks))
  BY <1>1, <1>2, ConcatIsList, ConcatElements
<1>5. /\ IsList(AllRules(b))
      /\ Range(AllRules(b)) = Range(b.rules \o Queries(b.checks)) \cup Range(Queries(b.policies))
  BY <1>3, <1>4, ConcatIsList, ConcatElements DEF AllRules
<1>6. QED
  BY <1>1, <1>2, <1>3, <1>4, <1>5

LEMMA ContentsWords ==
  ASSUME NEW b, Contents(b)
  PROVE  /\ IsList(Words(b))
         /\ \A symbols : Range(Words(b)) \subseteq Range(symbols) =>
              /\ \A f \in Range(b.facts) : PredicateCovered(symbols, f)
              /\ \A r \in Range(AllRules(b)) : RuleCovered(symbols, r)
<1> DEFINE fs == [i \in DOMAIN b.facts |-> PredicateWords(b.facts[i])]
           rs == [i \in DOMAIN AllRules(b) |-> RuleWords(AllRules(b)[i])]
           facts == FlattenSeq(fs)
           rules == FlattenSeq(rs)
<1>1. IsList(b.facts) /\ \A i \in DOMAIN b.facts : IsPredicate(b.facts[i])
  BY DEF Contents, IsListOf, Every, IsList
<1>2. IsList(AllRules(b)) /\ \A i \in DOMAIN AllRules(b) : IsRule(AllRules(b)[i])
  BY AllRulesHold, RangeOf
<1>3. Words(b) = facts \o rules
  BY DEF Words, AllRules, Joining, Map
<1>4. /\ DOMAIN fs = DOMAIN b.facts /\ fs = [i \in DOMAIN b.facts |-> fs[i]]
      /\ \A i \in DOMAIN b.facts : fs[i] = PredicateWords(b.facts[i])
  OBVIOUS
<1>5. /\ DOMAIN rs = DOMAIN AllRules(b) /\ rs = [i \in DOMAIN AllRules(b) |-> rs[i]]
      /\ \A i \in DOMAIN AllRules(b) : rs[i] = RuleWords(AllRules(b)[i])
  OBVIOUS
<1> HIDE DEF fs, rs
<1>6. IsList(facts) /\ \A i \in DOMAIN b.facts : Range(fs[i]) \subseteq Range(facts)
  <2>1. \A i \in DOMAIN b.facts : IsList(fs[i])
    BY <1>1, <1>4, PredicateWordsCover
  <2>2. QED
    BY <1>1, <1>4, <2>1, JoinedHolds
<1>7. IsList(rules) /\ \A i \in DOMAIN AllRules(b) : Range(rs[i]) \subseteq Range(rules)
  <2>1. \A i \in DOMAIN AllRules(b) : IsList(rs[i])
    BY <1>2, <1>5, RuleWordsCover
  <2>2. QED
    BY <1>2, <1>5, <2>1, JoinedHolds
<1> HIDE DEF facts, rules
<1>8. IsList(Words(b)) /\ Range(Words(b)) = Range(facts) \cup Range(rules)
  BY <1>3, <1>6, <1>7, ConcatIsList, ConcatElements
<1>9. ASSUME NEW symbols, Range(Words(b)) \subseteq Range(symbols)
      PROVE  /\ \A f \in Range(b.facts) : PredicateCovered(symbols, f)
             /\ \A r \in Range(AllRules(b)) : RuleCovered(symbols, r)
  <2>1. \A i \in DOMAIN b.facts : PredicateCovered(symbols, b.facts[i])
    <3>1. \A i \in DOMAIN b.facts : Range(PredicateWords(b.facts[i])) \subseteq Range(symbols)
      BY <1>4, <1>6, <1>8, <1>9
    <3>2. QED
      BY <1>1, <3>1, PredicateWordsCover
  <2>2. \A i \in DOMAIN AllRules(b) : RuleCovered(symbols, AllRules(b)[i])
    <3>1. \A i \in DOMAIN AllRules(b) : Range(RuleWords(AllRules(b)[i])) \subseteq Range(symbols)
      BY <1>5, <1>7, <1>8, <1>9
    <3>2. QED
      BY <1>2, <3>1, RuleWordsCover
  <2>3. QED
    BY <1>1, <1>2, <2>1, <2>2, RangeOf
<1>10. QED
  BY <1>8, <1>9

LEMMA ContentsKeys ==
  ASSUME NEW b, Contents(b)
  PROVE  /\ IsList(Keys(b))
         /\ \A keys : Range(Keys(b)) \subseteq Range(keys) =>
              \A r \in Range(AllRules(b)) : ScopesCovered(keys, keys, r.scopes)
<1> DEFINE rs == [i \in DOMAIN AllRules(b) |-> RuleKeys(AllRules(b)[i])]
<1>1. IsList(AllRules(b)) /\ \A i \in DOMAIN AllRules(b) : IsRule(AllRules(b)[i])
  BY AllRulesHold, RangeOf
<1>2. Keys(b) = FlattenSeq(rs)
  BY DEF Keys, AllRules, Joining, Map
<1>3. /\ DOMAIN rs = DOMAIN AllRules(b) /\ rs = [i \in DOMAIN AllRules(b) |-> rs[i]]
      /\ \A i \in DOMAIN AllRules(b) : rs[i] = RuleKeys(AllRules(b)[i])
  OBVIOUS
<1> HIDE DEF rs
<1>4. \A i \in DOMAIN AllRules(b) : IsList(rs[i])
  BY <1>1, <1>3, RuleKeysCover
<1>5. IsList(Keys(b)) /\ \A i \in DOMAIN AllRules(b) : Range(rs[i]) \subseteq Range(Keys(b))
  BY <1>1, <1>2, <1>3, <1>4, JoinedHolds
<1>6. ASSUME NEW keys, Range(Keys(b)) \subseteq Range(keys)
      PROVE  \A r \in Range(AllRules(b)) : ScopesCovered(keys, keys, r.scopes)
  <2>1. \A i \in DOMAIN AllRules(b) : Range(RuleKeys(AllRules(b)[i])) \subseteq Range(keys)
    BY <1>3, <1>5, <1>6
  <2>2. \A i \in DOMAIN AllRules(b) : ScopesCovered(keys, keys, AllRules(b)[i].scopes)
    BY <1>1, <2>1, RuleKeysCover
  <2>3. QED
    BY <1>1, <2>2, RangeOf
<1>7. QED
  BY <1>5, <1>6

----------------------------------------------------------------------------
(* A block, from its builder to its reader.                                   *)

BlockHolds(b) ==
  /\ IsFiniteSet(BagToSet(b.facts)) /\ \A f \in BagToSet(b.facts) : IsPredicate(f)
  /\ IsListOf(IsRule, b.rules)
  /\ IsListOf(IsCheck, b.checks)
  /\ IsListOf(IsScope, b.scopes)

WrittenFields == {"symbols", "keys", "facts", "rules", "checks", "scopes"}

LEMMA AsBlockContents ==
  ASSUME NEW b, BlockHolds(b)
  PROVE  /\ Contents(AsBlock(b))
         /\ Range(AsBlock(b).facts) = BagToSet(b.facts)
         /\ AsBlock(b).rules = b.rules /\ AsBlock(b).checks = b.checks
<1> DEFINE a == AsBlock(b)
<1>1. /\ a.facts = SetToSeq(BagToSet(b.facts))
      /\ a.rules = b.rules /\ a.checks = b.checks /\ a.policies = <<>>
  BY DEF AsBlock, FactsInOrder, Nothing
<1> HIDE DEF a
<1>2. IsList(a.facts) /\ Range(a.facts) = BagToSet(b.facts)
  BY <1>1, SetToSeqHolds DEF BlockHolds
<1>3. IsListOf(IsPredicate, a.facts)
  BY <1>2, RangeOf DEF IsListOf, IsList, Every, BlockHolds
<1>4. IsListOf(IsPolicy, a.policies)
  BY <1>1, EmptyIsList, ListDomain DEF IsListOf, Every, IsList
<1>5. QED
  BY <1>1, <1>2, <1>3, <1>4 DEF Contents, BlockHolds, a

LEMMA BuiltBlock ==
  ASSUME NEW base, NEW b, NEW symbols, symbols = InsertAll(base, Words(AsBlock(b))),
         NEW keys, keys = InsertAll(<<>>, Keys(AsBlock(b)) \o ScopeKeys(b.scopes))
  PROVE  LET c == Built(base, b)
         IN /\ DOMAIN c = WrittenFields
            /\ c.symbols = SplitOff(symbols, Len(base)) /\ c.keys = keys
            /\ BagToSet(c.facts) = {ConvertPredicate(symbols, f) : f \in BagToSet(b.facts)}
            /\ c.rules = [i \in DOMAIN b.rules |-> ConvertRule(symbols, keys, b.rules[i])]
            /\ c.checks = [i \in DOMAIN b.checks |-> ConvertCheck(symbols, keys, b.checks[i])]
            /\ c.scopes = [i \in DOMAIN b.scopes |-> ConvertScope(keys, b.scopes[i])]
<1> DEFINE facts == BagOfAll(LAMBDA f : ConvertPredicate(symbols, f), b.facts)
<1>1. BagToSet(facts) = {ConvertPredicate(symbols, f) : f \in BagToSet(b.facts)}
  BY DEF BagToSet, BagOfAll
<1>2. Built(base, b) =
        [symbols |-> SplitOff(symbols, Len(base)),
         keys    |-> keys,
         facts   |-> facts,
         rules   |-> [i \in DOMAIN b.rules |-> ConvertRule(symbols, keys, b.rules[i])],
         checks  |-> [i \in DOMAIN b.checks |-> ConvertCheck(symbols, keys, b.checks[i])],
         scopes  |-> [i \in DOMAIN b.scopes |-> ConvertScope(keys, b.scopes[i])]]
  BY DEF Built, Map
<1> HIDE DEF facts
<1>3. QED
  BY <1>1, <1>2 DEF WrittenFields

LEMMA EncodedBlock ==
  ASSUME NEW c, DOMAIN c = WrittenFields
  PROVE  LET w == EncodeBlock(c)
         IN /\ DOMAIN w = WrittenFields
            /\ w.symbols = c.symbols /\ w.keys = c.keys
            /\ BagToSet(w.facts) = {EncodePredicate(f) : f \in BagToSet(c.facts)}
            /\ w.rules = [i \in DOMAIN c.rules |-> EncodeRule(c.rules[i])]
            /\ w.checks = [i \in DOMAIN c.checks |-> EncodeCheck(c.checks[i])]
            /\ w.scopes = [i \in DOMAIN c.scopes |-> EncodeScope(c.scopes[i])]
<1> DEFINE facts == BagOfAll(EncodePredicate, c.facts)
           w == EncodeBlock(c)
<1>1. BagToSet(facts) = {EncodePredicate(f) : f \in BagToSet(c.facts)}
  BY DEF BagToSet, BagOfAll
<1>2. w = [c EXCEPT !.facts  = facts,
                    !.rules  = [i \in DOMAIN @ |-> EncodeRule(@[i])],
                    !.checks = [i \in DOMAIN @ |-> EncodeCheck(@[i])],
                    !.scopes = [i \in DOMAIN @ |-> EncodeScope(@[i])]]
  BY DEF EncodeBlock, Map
<1> HIDE DEF facts, w
<1>3. QED
  BY <1>1, <1>2 DEF WrittenFields, w

LEMMA DecodedBlock ==
  ASSUME NEW w, DOMAIN w = WrittenFields
  PROVE  LET d == DecodeBlock(w)
         IN /\ d.symbols = w.symbols /\ d.keys = InsertAll(<<>>, w.keys)
            /\ BagToSet(d.facts) = {DecodePredicate(f) : f \in BagToSet(w.facts)}
            /\ d.rules = [i \in DOMAIN w.rules |-> DecodeRule(w.rules[i])]
            /\ d.checks = [i \in DOMAIN w.checks |-> DecodeCheck(w.checks[i])]
            /\ d.scopes = [i \in DOMAIN w.scopes |-> DecodeScope(w.scopes[i])]
<1> DEFINE facts == BagOfAll(DecodePredicate, w.facts)
           d == DecodeBlock(w)
<1>1. BagToSet(facts) = {DecodePredicate(f) : f \in BagToSet(w.facts)}
  BY DEF BagToSet, BagOfAll
<1>2. d = [w EXCEPT !.keys   = InsertAll(<<>>, @),
                    !.facts  = facts,
                    !.rules  = [i \in DOMAIN @ |-> DecodeRule(@[i])],
                    !.checks = [i \in DOMAIN @ |-> DecodeCheck(@[i])],
                    !.scopes = [i \in DOMAIN @ |-> DecodeScope(@[i])]]
  BY DEF DecodeBlock, Map
<1> HIDE DEF facts, d
<1>3. QED
  BY <1>1, <1>2 DEF WrittenFields, d

(* The tables a block is built with.                                          *)
SymbolsOf(base, b) == InsertAll(base, Words(AsBlock(b)))
KeysOf(b) == InsertAll(<<>>, Keys(AsBlock(b)) \o ScopeKeys(b.scopes))

(* They cover what the block's builder holds.                                 *)
LEMMA BlockTables ==
  ASSUME NEW base, IsList(base), NEW b, BlockHolds(b)
  PROVE  /\ IsList(SymbolsOf(base, b))
         /\ base \o SplitOff(SymbolsOf(base, b), Len(base))
              = SymbolsOf(base, b)
         /\ IsList(KeysOf(b)) /\ InsertAll(<<>>, KeysOf(b)) = KeysOf(b)
         /\ \A f \in BagToSet(b.facts) : PredicateCovered(SymbolsOf(base, b), f)
         /\ \A r \in Range(AllRules(AsBlock(b))) :
              RuleCovered(SymbolsOf(base, b), r) /\ ScopesCovered(KeysOf(b), KeysOf(b), r.scopes)
         /\ \A i \in DOMAIN b.scopes : b.scopes[i].key # NoKey => b.scopes[i].key \in Range(KeysOf(b))
<1> DEFINE a == AsBlock(b)
           symbols == SymbolsOf(base, b)
           keys == KeysOf(b)
           named == Keys(a) \o ScopeKeys(b.scopes)
<1>0. symbols = InsertAll(base, Words(a)) /\ keys = InsertAll(<<>>, named)
  BY DEF SymbolsOf, KeysOf
<1> HIDE DEF symbols, keys
<1>1. Contents(a) /\ Range(a.facts) = BagToSet(b.facts)
  BY AsBlockContents
<1> HIDE DEF a
<1>2. IsList(Words(a))
  BY <1>1, ContentsWords
<1>3. Grows(base, Range(Words(a)), symbols)
  BY <1>0, <1>2, InsertAllGrows
<1>4. IsList(symbols) /\ Range(Words(a)) \subseteq Range(symbols)
  BY <1>3 DEF Grows
<1>5. base \o SplitOff(symbols, Len(base)) = symbols
  BY <1>3, SplitOffCompletes DEF Grows
<1>6. IsList(Keys(a)) /\ IsList(ScopeKeys(b.scopes))
  BY <1>1, ContentsKeys, ScopeKeysHold DEF BlockHolds
<1>7. IsList(named) /\ Range(named) = Range(Keys(a)) \cup Range(ScopeKeys(b.scopes))
  BY <1>6, ConcatIsList, ConcatElements
<1>8. keys = InsertAll(<<>>, named)
  BY <1>0
<1> HIDE DEF named
<1>9. Grows(<<>>, Range(named), keys)
  BY <1>7, <1>8, EmptyIsList, InsertAllGrows
<1>10. IsList(keys) /\ Range(named) \subseteq Range(keys)
  BY <1>9 DEF Grows
<1>11. InsertAll(<<>>, keys) = keys
  <2>1. \A i, j \in DOMAIN <<>> : <<>>[i] = <<>>[j] => i = j
    BY EmptyIsList, ListDomain
  <2>2. \A i, j \in DOMAIN keys : keys[i] = keys[j] => i = j
    BY <1>9, <2>1 DEF Grows
  <2>3. QED
    BY <1>10, <2>2, InsertAllKeeps
<1>12. /\ \A f \in BagToSet(b.facts) : PredicateCovered(symbols, f)
       /\ \A r \in Range(AllRules(a)) : RuleCovered(symbols, r)
  BY <1>1, <1>4, ContentsWords
<1>13. \A r \in Range(AllRules(a)) : ScopesCovered(keys, keys, r.scopes)
  BY <1>1, <1>7, <1>10, ContentsKeys
<1>14. \A i \in DOMAIN b.scopes : b.scopes[i].key # NoKey => b.scopes[i].key \in Range(keys)
  BY <1>7, <1>10, ScopeKeysHold DEF BlockHolds
<1>15. QED
  BY <1>4, <1>5, <1>10, <1>11, <1>12, <1>13, <1>14 DEF a, symbols, keys

(* The rules and the queries of checks are among a block's.                   *)
LEMMA BlockCovered ==
  ASSUME NEW base, IsList(base), NEW b, BlockHolds(b)
  PROVE  /\ \A i \in DOMAIN b.rules :
              RuleCovered(SymbolsOf(base, b), b.rules[i]) /\ ScopesCovered(KeysOf(b), KeysOf(b), b.rules[i].scopes)
         /\ \A i \in DOMAIN b.checks : QueriesCovered(SymbolsOf(base, b), KeysOf(b), KeysOf(b), b.checks[i])
<1> DEFINE a == AsBlock(b)
<1>1. Contents(a) /\ a.rules = b.rules /\ a.checks = b.checks
  BY AsBlockContents
<1> HIDE DEF a
<1>2. \A r \in Range(AllRules(a)) :
        RuleCovered(SymbolsOf(base, b), r) /\ ScopesCovered(KeysOf(b), KeysOf(b), r.scopes)
  BY BlockTables DEF a
<1>3. IsList(b.rules) /\ IsList(b.checks) /\ \A i \in DOMAIN b.checks : IsList(b.checks[i].queries)
  BY DEF BlockHolds, IsListOf, Every, IsCheck, IsList
<1>4. \A i \in DOMAIN b.rules : b.rules[i] \in Range(AllRules(a))
  BY <1>1, <1>3, AllRulesHold, RangeOf
<1>5. \A i \in DOMAIN b.checks : \A j \in DOMAIN b.checks[i].queries :
        b.checks[i].queries[j] \in Range(AllRules(a))
  <2>1. \A i \in DOMAIN b.checks : Range(b.checks[i].queries) \subseteq Range(AllRules(a))
    BY <1>1, <1>3, AllRulesHold, QueriesHold
  <2>2. QED
    BY <1>3, <2>1, RangeOf
<1>6. QED
  BY <1>2, <1>4, <1>5 DEF QueriesCovered

(* An item is read as it was written.                                         *)
LEMMA FactWritten ==
  ASSUME NEW symbols, IsList(symbols), NEW f, IsPredicate(f), PredicateCovered(symbols, f),
         PredicateEncodes(ConvertPredicate(symbols, f))
  PROVE  LET c == ConvertPredicate(symbols, f)
             w == EncodePredicate(c)
         IN PredicateDecodes(w) /\ DecodePredicate(w) = c /\ ReadPredicate(symbols, c) = WholePredicate(f)
<1> DEFINE c == ConvertPredicate(symbols, f)
<1>1. DatalogPredicate(c) /\ ReadPredicate(symbols, c) = WholePredicate(f)
  BY ConvertedPredicate, PredicateTrip
<1>2. \A i \in DOMAIN c.terms : TermEncodes(c.terms[i])
  BY DEF PredicateEncodes, Every
<1> HIDE DEF c
<1>3. /\ DecodePredicate(EncodePredicate(c)) = c
      /\ DOMAIN EncodePredicate(c).terms = DOMAIN c.terms
      /\ \A i \in DOMAIN c.terms : TermDecodes(EncodePredicate(c).terms[i])
  BY <1>1, <1>2, PredicateWireTrip
<1>4. QED
  BY <1>1, <1>3 DEF PredicateDecodes, Every, c

LEMMA RuleWritten ==
  ASSUME NEW symbols, IsList(symbols), NEW keys, IsList(keys), NEW r, IsRule(r),
         RuleCovered(symbols, r), ScopesCovered(keys, keys, r.scopes),
         RuleEncodes(ConvertRule(symbols, keys, r))
  PROVE  LET c == ConvertRule(symbols, keys, r)
             w == EncodeRule(c)
         IN /\ RuleDecodes(w) /\ DecodeRule(w) = c
            /\ RuleResolves(keys, c) /\ ReadRule(symbols, keys, c) = WholeRule(r)
BY ConvertedRuleTyped, RuleWireTrip, RuleTrip

LEMMA CheckWritten ==
  ASSUME NEW symbols, IsList(symbols), NEW keys, IsList(keys), NEW k, IsCheck(k),
         QueriesCovered(symbols, keys, keys, k), QueriesEncode(ConvertCheck(symbols, keys, k))
  PROVE  LET c == ConvertCheck(symbols, keys, k)
             w == EncodeCheck(c)
         IN /\ CheckDecodes(w) /\ DecodeCheck(w) = c
            /\ IsList(c.queries) /\ \A i \in DOMAIN c.queries : RuleResolves(keys, c.queries[i])
            /\ ReadCheck(symbols, keys, c) = WholeQueries(k)
<1> DEFINE c == ConvertCheck(symbols, keys, k)
<1>1. \A i \in DOMAIN k.queries : RuleCovered(symbols, k.queries[i])
  BY DEF QueriesCovered
<1>2. DatalogCheck(c)
  BY <1>1, ConvertedCheckTyped
<1>3. CheckDecodes(EncodeCheck(c)) /\ DecodeCheck(EncodeCheck(c)) = c
  BY <1>2, CheckWireTrip
<1>4. /\ ReadCheck(symbols, keys, c) = WholeQueries(k)
      /\ \A i \in DOMAIN c.queries : RuleResolves(keys, c.queries[i])
  BY CheckTrip DEF Every
<1>5. QED
  BY <1>2, <1>3, <1>4 DEF DatalogCheck

LEMMA ScopeWritten ==
  ASSUME NEW keys, IsList(keys), NEW s, IsScope(s), s.key # NoKey => s.key \in Range(keys)
  PROVE  LET c == ConvertScope(keys, s)
         IN /\ ScopeDecodes(EncodeScope(c)) /\ DecodeScope(EncodeScope(c)) = c
            /\ ScopeResolves(keys, c) /\ ReadScope(keys, c) = s
BY ConvertedScope, ScopeWireTrip, ScopeTrip

(* What BlockReadsBack says of the block built of b over base, and read.      *)
ReadsBack(base, b, w) ==
  LET d == DecodeBlock(w)
  IN /\ BlockDecodes(w) /\ BlockResolves(d)
     /\ ReadBlock(base \o d.symbols, d)
          = [facts  |-> {WholePredicate(f) : f \in BagToSet(b.facts)},
             rules  |-> Map(WholeRule, b.rules),
             checks |-> Map(WholeQueries, b.checks),
             scopes |-> b.scopes]

LEMMA BlockTrip ==
  ASSUME NEW base, IsList(base), NEW b, BlockHolds(b), BlockEncodes(Built(base, b))
  PROVE  ReadsBack(base, b, EncodeBlock(Built(base, b)))
<1> DEFINE symbols == SymbolsOf(base, b)
           keys == KeysOf(b)
           c == Built(base, b)
           w == EncodeBlock(c)
           d == DecodeBlock(w)
<1>1. /\ IsList(symbols) /\ base \o SplitOff(symbols, Len(base)) = symbols
      /\ IsList(keys) /\ InsertAll(<<>>, keys) = keys
      /\ \A f \in BagToSet(b.facts) : PredicateCovered(symbols, f)
      /\ \A i \in DOMAIN b.scopes : b.scopes[i].key # NoKey => b.scopes[i].key \in Range(keys)
  BY BlockTables
<1>2. /\ \A i \in DOMAIN b.rules :
           RuleCovered(symbols, b.rules[i]) /\ ScopesCovered(keys, keys, b.rules[i].scopes)
      /\ \A i \in DOMAIN b.checks : QueriesCovered(symbols, keys, keys, b.checks[i])
  BY BlockCovered
<1> HIDE DEF c, w, d
<1>3. /\ DOMAIN c = WrittenFields
      /\ c.symbols = SplitOff(symbols, Len(base)) /\ c.keys = keys
      /\ BagToSet(c.facts) = {ConvertPredicate(symbols, f) : f \in BagToSet(b.facts)}
      /\ c.rules = [i \in DOMAIN b.rules |-> ConvertRule(symbols, keys, b.rules[i])]
      /\ c.checks = [i \in DOMAIN b.checks |-> ConvertCheck(symbols, keys, b.checks[i])]
      /\ c.scopes = [i \in DOMAIN b.scopes |-> ConvertScope(keys, b.scopes[i])]
  BY BuiltBlock DEF c, SymbolsOf, KeysOf
<1> HIDE DEF symbols, keys
<1>4. /\ DOMAIN w = WrittenFields
      /\ w.symbols = c.symbols /\ w.keys = c.keys
      /\ BagToSet(w.facts) = {EncodePredicate(f) : f \in BagToSet(c.facts)}
      /\ w.rules = [i \in DOMAIN c.rules |-> EncodeRule(c.rules[i])]
      /\ w.checks = [i \in DOMAIN c.checks |-> EncodeCheck(c.checks[i])]
      /\ w.scopes = [i \in DOMAIN c.scopes |-> EncodeScope(c.scopes[i])]
  BY <1>3, EncodedBlock DEF w
<1>5. BlockEncodes(c)
  BY DEF c
<1>6. /\ d.symbols = w.symbols /\ d.keys = InsertAll(<<>>, w.keys)
      /\ BagToSet(d.facts) = {DecodePredicate(f) : f \in BagToSet(w.facts)}
      /\ d.rules = [i \in DOMAIN w.rules |-> DecodeRule(w.rules[i])]
      /\ d.checks = [i \in DOMAIN w.checks |-> DecodeCheck(w.checks[i])]
      /\ d.scopes = [i \in DOMAIN w.scopes |-> DecodeScope(w.scopes[i])]
  BY <1>4, DecodedBlock DEF d
<1>7. d.keys = keys /\ base \o d.symbols = symbols
  BY <1>1, <1>3, <1>4, <1>6
<1>8. /\ \A f \in BagToSet(w.facts) : PredicateDecodes(f)
      /\ {ReadPredicate(symbols, f) : f \in BagToSet(d.facts)}
           = {WholePredicate(f) : f \in BagToSet(b.facts)}
  <2> DEFINE F == BagToSet(b.facts)
             C == BagToSet(c.facts)
             W == BagToSet(w.facts)
             D == BagToSet(d.facts)
  <2>1. C = {ConvertPredicate(symbols, f) : f \in F} /\ W = {EncodePredicate(g) : g \in C}
        /\ D = {DecodePredicate(g) : g \in W}
    BY <1>3, <1>4, <1>6
  <2>2. \A g \in C : PredicateEncodes(g)
    BY <1>5 DEF BlockEncodes
  <2>3. \A f \in F : IsPredicate(f) /\ PredicateCovered(symbols, f)
    BY <1>1 DEF BlockHolds
  <2> HIDE DEF F, C, W, D
  <2>4. \A f \in F : ReadPredicate(symbols, ConvertPredicate(symbols, f)) = WholePredicate(f)
    BY <1>1, <2>1, <2>2, <2>3, FactWritten
  <2>5. \A g \in C : PredicateDecodes(EncodePredicate(g)) /\ DecodePredicate(EncodePredicate(g)) = g
    BY <1>1, <2>1, <2>2, <2>3, FactWritten
  <2>6. D = C /\ \A g \in W : PredicateDecodes(g)
    BY <2>1, <2>5
  <2>7. {ReadPredicate(symbols, g) : g \in C} = {WholePredicate(f) : f \in F}
    BY <2>1, <2>4
  <2>8. QED
    BY <2>6, <2>7 DEF F, W, D
<1>9. /\ \A i \in DOMAIN w.rules : RuleDecodes(w.rules[i])
      /\ IsList(d.rules) /\ \A i \in DOMAIN d.rules : RuleResolves(keys, d.rules[i])
      /\ [i \in DOMAIN d.rules |-> ReadRule(symbols, keys, d.rules[i])]
           = [i \in DOMAIN b.rules |-> WholeRule(b.rules[i])]
  <2> DEFINE br == b.rules
             cr == c.rules
             wr == w.rules
             dr == d.rules
  <2>1. /\ DOMAIN cr = DOMAIN br /\ DOMAIN wr = DOMAIN br /\ DOMAIN dr = DOMAIN br
        /\ \A i \in DOMAIN br : /\ cr[i] = ConvertRule(symbols, keys, br[i])
                                /\ wr[i] = EncodeRule(cr[i])
                                /\ dr[i] = DecodeRule(wr[i])
        /\ dr = [i \in DOMAIN br |-> dr[i]]
    BY <1>3, <1>4, <1>6
  <2>2. \A i \in DOMAIN cr : RuleEncodes(cr[i])
    BY <1>5 DEF BlockEncodes, Every
  <2>3. IsList(br) /\ \A i \in DOMAIN br : IsRule(br[i])
    BY DEF BlockHolds, IsListOf, Every, IsList
  <2>4. \A i \in DOMAIN br :
          RuleCovered(symbols, br[i]) /\ ScopesCovered(keys, keys, br[i].scopes)
    BY <1>2
  <2> HIDE DEF br, cr, wr, dr
  <2>5. \A i \in DOMAIN br :
          /\ RuleDecodes(wr[i]) /\ RuleResolves(keys, dr[i])
          /\ ReadRule(symbols, keys, dr[i]) = WholeRule(br[i])
    BY <1>1, <2>1, <2>2, <2>3, <2>4, RuleWritten
  <2>6. IsList(dr)
    BY <2>1, <2>3, AlikeIsList
  <2>7. [i \in DOMAIN dr |-> ReadRule(symbols, keys, dr[i])]
          = [i \in DOMAIN br |-> WholeRule(br[i])]
    BY <2>1, <2>5
  <2>8. QED
    BY <2>1, <2>5, <2>6, <2>7 DEF br, wr, dr
<1>10. /\ \A i \in DOMAIN w.checks : CheckDecodes(w.checks[i])
       /\ IsList(d.checks)
       /\ \A i \in DOMAIN d.checks :
            /\ IsList(d.checks[i].queries)
            /\ \A j \in DOMAIN d.checks[i].queries : RuleResolves(keys, d.checks[i].queries[j])
       /\ [i \in DOMAIN d.checks |-> ReadCheck(symbols, keys, d.checks[i])]
            = [i \in DOMAIN b.checks |-> WholeQueries(b.checks[i])]
  <2> DEFINE bc == b.checks
             cc == c.checks
             wc == w.checks
             dc == d.checks
  <2>1. /\ DOMAIN cc = DOMAIN bc /\ DOMAIN wc = DOMAIN bc /\ DOMAIN dc = DOMAIN bc
        /\ \A i \in DOMAIN bc : /\ cc[i] = ConvertCheck(symbols, keys, bc[i])
                                /\ wc[i] = EncodeCheck(cc[i])
                                /\ dc[i] = DecodeCheck(wc[i])
        /\ dc = [i \in DOMAIN bc |-> dc[i]]
    BY <1>3, <1>4, <1>6
  <2>2. \A i \in DOMAIN cc : QueriesEncode(cc[i])
    BY <1>5 DEF BlockEncodes, Every
  <2>3. IsList(bc) /\ \A i \in DOMAIN bc : IsCheck(bc[i])
    BY DEF BlockHolds, IsListOf, Every, IsList
  <2>4. \A i \in DOMAIN bc : QueriesCovered(symbols, keys, keys, bc[i])
    BY <1>2
  <2> HIDE DEF bc, cc, wc, dc
  <2>5. \A i \in DOMAIN bc :
          /\ CheckDecodes(wc[i])
          /\ IsList(dc[i].queries)
          /\ \A j \in DOMAIN dc[i].queries : RuleResolves(keys, dc[i].queries[j])
          /\ ReadCheck(symbols, keys, dc[i]) = WholeQueries(bc[i])
    BY <1>1, <2>1, <2>2, <2>3, <2>4, CheckWritten
  <2>6. IsList(dc)
    BY <2>1, <2>3, AlikeIsList
  <2>7. [i \in DOMAIN dc |-> ReadCheck(symbols, keys, dc[i])]
          = [i \in DOMAIN bc |-> WholeQueries(bc[i])]
    BY <2>1, <2>5
  <2>8. QED
    BY <2>1, <2>5, <2>6, <2>7 DEF bc, wc, dc
<1>11. /\ \A i \in DOMAIN w.scopes : ScopeDecodes(w.scopes[i])
       /\ \A i \in DOMAIN d.scopes : ScopeResolves(keys, d.scopes[i])
       /\ [i \in DOMAIN d.scopes |-> ReadScope(keys, d.scopes[i])] = b.scopes
  <2> DEFINE bs == b.scopes
             cs == c.scopes
             ws == w.scopes
             ds == d.scopes
  <2>1. /\ DOMAIN cs = DOMAIN bs /\ DOMAIN ws = DOMAIN bs /\ DOMAIN ds = DOMAIN bs
        /\ \A i \in DOMAIN bs : /\ cs[i] = ConvertScope(keys, bs[i])
                                /\ ws[i] = EncodeScope(cs[i])
                                /\ ds[i] = DecodeScope(ws[i])
    BY <1>3, <1>4, <1>6
  <2>2. IsList(bs) /\ \A i \in DOMAIN bs : IsScope(bs[i])
    BY DEF BlockHolds, IsListOf, Every, IsList
  <2>3. \A i \in DOMAIN bs : bs[i].key # NoKey => bs[i].key \in Range(keys)
    BY <1>1
  <2> HIDE DEF bs, cs, ws, ds
  <2>4. \A i \in DOMAIN bs : /\ ScopeDecodes(ws[i]) /\ ScopeResolves(keys, ds[i])
                            /\ ReadScope(keys, ds[i]) = bs[i]
    BY <1>1, <2>1, <2>2, <2>3, ScopeWritten
  <2>5. bs = [i \in DOMAIN bs |-> bs[i]]
    BY <2>2 DEF IsList
  <2>6. [i \in DOMAIN ds |-> ReadScope(keys, ds[i])] = bs
    BY <2>1, <2>4, <2>5
  <2>7. QED
    BY <2>1, <2>4, <2>6 DEF bs, ws, ds
<1>12. BlockDecodes(w)
  BY <1>8, <1>9, <1>10, <1>11 DEF BlockDecodes, Every
<1>13. BlockResolves(d)
  <2>1. \A r \in Range(Queries(d.checks)) : RuleResolves(keys, r)
    <3>1. \A i \in DOMAIN d.checks : \A r \in Range(d.checks[i].queries) : RuleResolves(keys, r)
      BY <1>10, RangeOf
    <3>2. QED
      BY <1>10, <3>1, QueriesHold
  <2>2. \A r \in Range(d.rules) : RuleResolves(keys, r)
    BY <1>9, RangeOf
  <2>3. IsList(d.rules \o Queries(d.checks))
        /\ Range(d.rules \o Queries(d.checks)) = Range(d.rules) \cup Range(Queries(d.checks))
    <3>1. IsList(Queries(d.checks))
      BY <1>10, QueriesHold
    <3>2. QED
      BY <1>9, <3>1, ConcatIsList, ConcatElements
  <2>4. Every(LAMBDA r : RuleResolves(keys, r), d.rules \o Queries(d.checks))
    BY <2>1, <2>2, <2>3, RangeOf DEF Every
  <2>5. QED
    BY <1>7, <1>11, <2>4 DEF BlockResolves, Every
<1>14. ReadBlock(base \o d.symbols, d)
         = [facts  |-> {WholePredicate(f) : f \in BagToSet(b.facts)},
            rules  |-> Map(WholeRule, b.rules),
            checks |-> Map(WholeQueries, b.checks),
            scopes |-> b.scopes]
  <2>1. ReadBlock(base \o d.symbols, d)
          = [facts  |-> {ReadPredicate(symbols, f) : f \in BagToSet(d.facts)},
             rules  |-> [i \in DOMAIN d.rules |-> ReadRule(symbols, keys, d.rules[i])],
             checks |-> [i \in DOMAIN d.checks |-> ReadCheck(symbols, keys, d.checks[i])],
             scopes |-> [i \in DOMAIN d.scopes |-> ReadScope(keys, d.scopes[i])]]
    BY <1>7 DEF ReadBlock, Map
  <2>2. QED
    BY <1>8, <1>9, <1>10, <1>11, <2>1 DEF Map
<1>15. QED
  BY <1>12, <1>13, <1>14 DEF ReadsBack, c, w, d

LEMMA TypedBlockHolds ==
  ASSUME BlockTyped
  PROVE  BlockHolds(block)
<1>1. \A f \in BagToSet(block.facts) : IsPredicate(f)
  BY ValuesAssumption DEF BlockTyped
<1>2. IsListOf(IsRule, block.rules)
  BY ValuesAssumption, SeqIsList, RangeOf DEF BlockTyped, IsListOf, IsList, Every
<1>3. IsListOf(IsCheck, block.checks)
  BY ValuesAssumption, SeqIsList, RangeOf DEF BlockTyped, IsListOf, IsList, Every
<1>4. IsListOf(IsScope, block.scopes)
  BY ValuesAssumption, SeqIsList, RangeOf DEF BlockTyped, IsListOf, IsList, Every
<1>5. QED
  BY <1>1, <1>2, <1>3, <1>4 DEF BlockHolds, BlockTyped

(* The block last built, if any, is read as its builder held it.              *)
BuiltTrip == built # None => ReadsBack(built.base, built.of, built.wire)

LEMMA BuildTrip ==
  ASSUME BlockTyped, Build
  PROVE  BuiltTrip'
<1>1. PICK base \in IF use = "authority" THEN {<<>>} ELSE Bases :
        built' = IF BlockEncodes(Built(base, block))
                 THEN [wire |-> EncodeBlock(Built(base, block)), base |-> base, of |-> block]
                 ELSE None
  BY DEF Build
<1>2. IsList(base)
  BY EmptyIsList, ValuesAssumption DEF IsList
<1>3. CASE BlockEncodes(Built(base, block))
  <2>1. /\ built'.base = base /\ built'.of = block
        /\ built'.wire = EncodeBlock(Built(base, block))
    BY <1>1, <1>3
  <2>2. ReadsBack(base, block, EncodeBlock(Built(base, block)))
    BY <1>2, <1>3, TypedBlockHolds, BlockTrip
  <2>3. ReadsBack(built'.base, built'.of, built'.wire)
    BY <2>1, <2>2
  <2>4. QED
    BY <2>3 DEF BuiltTrip
<1>4. CASE ~BlockEncodes(Built(base, block))
  BY <1>1, <1>4 DEF BuiltTrip, None
<1>5. QED
  BY <1>3, <1>4

LEMMA BuiltStep ==
  ASSUME BlockTyped, BuiltTrip, [Next]_vars
  PROVE  BuiltTrip'
<1>1. CASE Build
  BY <1>1, BuildTrip
<1>2. CASE ~Build /\ Next
  <2>1. built' = built
    BY <1>2 DEF Next, AddFact, AddRule, AddCheck, AddPolicy, AddScope, Add, AddAuthorizer,
                SerializePolicies, LoadPolicies, AddBlockFact, AddBlockRule, AddBlockCheck,
                AddBlockScope, AppendToBlock, AddBlock
  <2>2. QED
    BY <2>1 DEF BuiltTrip
<1>3. CASE UNCHANGED vars
  BY <1>3 DEF vars, BuiltTrip
<1>4. QED
  BY <1>1, <1>2, <1>3

(* The bytes of a block are accepted by their reader and read as the facts,   *)
(* rules, checks and scopes its builder held, whatever the values and the     *)
(* table it was built over (builder.go Build, converters.go).                 *)
THEOREM BlocksReadBack == Spec => []BlockReadsBack
<1>1. Init => BuiltTrip
  BY DEF Init, BuiltTrip, None
<1>2. BuildersInv /\ BuiltTrip /\ [Next]_vars => BuiltTrip'
  BY BuiltStep DEF BuildersInv
<1>3. BuiltTrip => BlockReadsBack
  BY DEF BuiltTrip, ReadsBack, BlockReadsBack, Whole
<1>4. QED
  BY <1>1, <1>2, <1>3, BuildersTypeCorrect, PTL DEF Spec

----------------------------------------------------------------------------
(* What a round trip leaves is what its author might have written.            *)

LEMMA WholeDate ==
  ASSUME NEW d \in Int, d \div Ticks \in -(Seconds \div 2)..(Seconds \div 2 - 1)
  PROVE  /\ d - (d % Ticks) \in Int
         /\ (d - (d % Ticks)) \div Ticks = d \div Ticks
<1>1. Ticks \in Nat /\ Ticks > 0
  BY DateAssumption
<1>2. PICK q, r \in Int : q = d \div Ticks /\ r = d % Ticks
  BY <1>1
<1>3. d = q * Ticks + r /\ r \in 0..(Ticks - 1)
  BY <1>1, <1>2
<1>4. d - r = Ticks * q
  BY <1>1, <1>2, <1>3
<1>5. (Ticks * q) \div Ticks = q
  BY <1>1, <1>2
<1>6. QED
  BY <1>1, <1>2, <1>4, <1>5

LEMMA WholeScalarIs ==
  ASSUME NEW t, IsScalar(t)
  PROVE  IsScalar(WholeScalar(t))
<1>1. PICK type \in ScalarTypes : DOMAIN t = {type} /\ IsValue(type, t[type])
  BY DEF IsScalar
<1> DEFINE w == WholeScalar(t)
<1>2. /\ DOMAIN w = {type}
      /\ w[type] = IF type = "date" THEN t[type] - (t[type] % Ticks) ELSE t[type]
  BY <1>1 DEF WholeScalar
<1> HIDE DEF w
<1>3. IsValue(type, w[type])
  <2>1. CASE type = "date"
    <3>1. t["date"] \in Int /\ t["date"] \div Ticks \in -(Seconds \div 2)..(Seconds \div 2 - 1)
      BY <1>1, <2>1 DEF IsValue
    <3>2. w["date"] = t["date"] - (t["date"] % Ticks)
      BY <1>2, <2>1
    <3>3. QED
      BY <2>1, <3>1, <3>2, WholeDate DEF IsValue
  <2>2. CASE type # "date"
    BY <1>1, <1>2, <2>2
  <2>3. QED
    BY <2>1, <2>2
<1>4. QED
  BY <1>2, <1>3 DEF IsScalar, w

LEMMA WholeElementIs ==
  ASSUME NEW t, IsElement(t)
  PROVE  IsElement(WholeElement(t))
<1>1. CASE IsScalar(t)
  <2>1. WholeElement(t) = WholeScalar(t)
    BY <1>1, TypeOfScalar DEF WholeElement, OverElements
  <2>2. QED
    BY <1>1, <2>1, WholeScalarIs DEF IsElement
<1>2. CASE IsSetOf(IsScalar, t)
  <2>1. TypeOf(t) = "set" /\ IsFiniteSet(t["set"]) /\ \A e \in t["set"] : IsScalar(e)
    BY <1>2, TypeOfSingle DEF IsSetOf
  <2> DEFINE f == [e \in t["set"] |-> WholeScalar(e)]
             S == {f[e] : e \in t["set"]}
             w == [set |-> S]
  <2>2. WholeElement(t) = w
    BY <2>1 DEF WholeElement, OverElements
  <2>3. IsFiniteSet(S)
    <3>1. f \in Surjection(t["set"], S)
      BY DEF Surjection
    <3>2. QED
      BY <2>1, <3>1, FS_Surjection
  <2>4. \A x \in S : IsScalar(x)
    BY <2>1, WholeScalarIs
  <2> HIDE DEF S
  <2>5. DOMAIN w = {"set"} /\ w["set"] = S
    BY SetOf
  <2> HIDE DEF w
  <2>6. IsElement(w)
    BY <2>3, <2>4, <2>5 DEF IsElement, IsSetOf
  <2>7. QED
    BY <2>2, <2>6
<1>3. QED
  BY <1>1, <1>2 DEF IsElement

LEMMA WholeTermIs ==
  ASSUME NEW t, IsTerm(t)
  PROVE  IsTerm(WholeTerm(t))
<1>1. CASE IsScalar(t)
  <2>1. WholeTerm(t) = WholeScalar(t)
    BY <1>1, TypeOfScalar DEF WholeTerm, OverScalars
  <2>2. QED
    BY <1>1, <2>1, WholeScalarIs DEF IsTerm
<1>2. CASE IsSetOf(IsElement, t)
  <2>1. TypeOf(t) = "set" /\ IsFiniteSet(t["set"]) /\ \A e \in t["set"] : IsElement(e)
    BY <1>2, TypeOfSingle DEF IsSetOf
  <2> DEFINE f == [e \in t["set"] |-> WholeElement(e)]
             S == {f[e] : e \in t["set"]}
             w == [set |-> S]
  <2>2. WholeTerm(t) = w
    BY <2>1 DEF WholeTerm, OverScalars, WholeElement
  <2>3. IsFiniteSet(S)
    <3>1. f \in Surjection(t["set"], S)
      BY DEF Surjection
    <3>2. QED
      BY <2>1, <3>1, FS_Surjection
  <2>4. \A x \in S : IsElement(x)
    BY <2>1, WholeElementIs
  <2> HIDE DEF S
  <2>5. DOMAIN w = {"set"} /\ w["set"] = S
    BY SetOf
  <2> HIDE DEF w
  <2>6. IsTerm(w)
    BY <2>3, <2>4, <2>5 DEF IsTerm, IsSetOf
  <2>7. QED
    BY <2>2, <2>6
<1>3. QED
  BY <1>1, <1>2 DEF IsTerm

LEMMA WholePredicateIs ==
  ASSUME NEW p, IsPredicate(p)
  PROVE  IsPredicate(WholePredicate(p))
<1> DEFINE ts == [i \in DOMAIN p.terms |-> WholeTerm(p.terms[i])]
<1>1. WholePredicate(p).terms = ts
  BY DEF WholePredicate, OverPredicate, Map
<1>2. DOMAIN ts = DOMAIN p.terms /\ ts = [i \in DOMAIN p.terms |-> ts[i]]
      /\ \A i \in DOMAIN p.terms : ts[i] = WholeTerm(p.terms[i])
  OBVIOUS
<1> HIDE DEF ts
<1>3. IsList(p.terms) /\ \A i \in DOMAIN p.terms : IsTerm(p.terms[i])
  BY DEF IsPredicate, IsListOf, Every, IsList
<1>4. IsList(ts)
  BY <1>2, <1>3, AlikeIsList
<1>5. \A i \in DOMAIN ts : IsTerm(ts[i])
  BY <1>2, <1>3, WholeTermIs
<1>6. QED
  BY <1>1, <1>4, <1>5 DEF IsPredicate, IsListOf, Every, IsList

LEMMA WholeOpIs ==
  ASSUME NEW op, IsOp(op)
  PROVE  IsOp(WholeOp(op))
<1> DEFINE w == WholeOp(op)
<1>1. CASE DOMAIN op = {"value"} /\ IsTerm(op["value"])
  <2>1. TypeOf(op) = "value"
    BY <1>1, TypeOfSingle
  <2>2. w = [value |-> WholeTerm(op.value)]
    BY <2>1 DEF WholeOp, OverOp
  <2> HIDE DEF w
  <2>3. DOMAIN w = {"value"} /\ w.value = WholeTerm(op.value)
    BY <2>2, ValueOf
  <2>4. IsOp(w)
    BY <1>1, <2>3, WholeTermIs DEF IsOp
  <2>5. QED
    BY <2>4 DEF w
<1>2. ASSUME NEW type \in {"unary", "binary"}, DOMAIN op = {type},
             op[type] \in 1..(Len(Operations("source", type)) - 1)
      PROVE  IsOp(w)
  <2>1. TypeOf(op) = type /\ type # "value"
    BY <1>2, TypeOfSingle
  <2>2. w = [x \in {type} |-> op[x]]
    BY <2>1 DEF WholeOp, OverOp
  <2> HIDE DEF w
  <2>3. DOMAIN w = {type} /\ w[type] = op[type]
    BY <2>2
  <2>4. QED
    BY <1>2, <2>3 DEF IsOp
<1>3. QED
  BY <1>1, <1>2 DEF IsOp

LEMMA WholeExpressionIs ==
  ASSUME NEW e, IsExpression(e)
  PROVE  IsExpression(WholeExpression(e))
<1> DEFINE w == WholeExpression(e)
<1>1. DOMAIN w = DOMAIN e /\ w = [i \in DOMAIN e |-> w[i]]
      /\ \A i \in DOMAIN e : w[i] = WholeOp(e[i])
  BY DEF WholeExpression
<1> HIDE DEF w
<1>2. IsList(e) /\ \A i \in DOMAIN e : IsOp(e[i])
  BY DEF IsExpression, IsListOf, Every, IsList
<1>3. IsList(w)
  BY <1>1, <1>2, AlikeIsList
<1>4. \A i \in DOMAIN w : IsOp(w[i])
  BY <1>1, <1>2, WholeOpIs
<1>5. QED
  BY <1>3, <1>4 DEF IsExpression, IsListOf, Every, IsList, w

LEMMA WholeRuleIs ==
  ASSUME NEW r, IsRule(r)
  PROVE  IsRule(WholeRule(r))
<1> DEFINE w == WholeRule(r)
           body == [i \in DOMAIN r.body |-> WholePredicate(r.body[i])]
           exprs == [i \in DOMAIN r.exprs |-> WholeExpression(r.exprs[i])]
<1>1. /\ IsPredicate(r.head)
      /\ IsList(r.body) /\ \A i \in DOMAIN r.body : IsPredicate(r.body[i])
      /\ IsList(r.exprs) /\ \A i \in DOMAIN r.exprs : IsExpression(r.exprs[i])
      /\ IsListOf(IsScope, r.scopes)
  BY DEF IsRule, IsListOf, Every, IsList
<1>2. r.scopes = [i \in DOMAIN r.scopes |-> r.scopes[i]]
  BY <1>1 DEF IsListOf
<1>3. /\ w.head = WholePredicate(r.head) /\ w.body = body /\ w.exprs = exprs
      /\ w.scopes = r.scopes
  BY <1>2, RuleWhole
<1>4. /\ DOMAIN body = DOMAIN r.body /\ body = [i \in DOMAIN r.body |-> body[i]]
      /\ \A i \in DOMAIN r.body : body[i] = WholePredicate(r.body[i])
  OBVIOUS
<1>5. /\ DOMAIN exprs = DOMAIN r.exprs /\ exprs = [i \in DOMAIN r.exprs |-> exprs[i]]
      /\ \A i \in DOMAIN r.exprs : exprs[i] = WholeExpression(r.exprs[i])
  OBVIOUS
<1> HIDE DEF w, body, exprs
<1>6. IsList(body) /\ IsList(exprs)
  BY <1>1, <1>4, <1>5, AlikeIsList
<1>7. \A i \in DOMAIN body : IsPredicate(body[i])
  BY <1>1, <1>4, WholePredicateIs
<1>8. \A i \in DOMAIN exprs : IsExpression(exprs[i])
  BY <1>1, <1>5, WholeExpressionIs
<1>9. IsPredicate(w.head)
  BY <1>1, <1>3, WholePredicateIs
<1>10. IsListOf(IsPredicate, w.body)
  BY <1>3, <1>6, <1>7 DEF IsListOf, Every, IsList
<1>11. IsListOf(IsExpression, w.exprs)
  BY <1>3, <1>6, <1>8 DEF IsListOf, Every, IsList
<1>12. IsListOf(IsScope, w.scopes)
  BY <1>1, <1>3
<1>13. QED
  BY <1>9, <1>10, <1>11, <1>12 DEF IsRule, w

LEMMA WholeQueriesIs ==
  ASSUME NEW c, IsListOf(IsRule, c.queries)
  PROVE  IsListOf(IsRule, WholeQueries(c).queries) /\ WholeQueries(c).kind = c.kind
<1> DEFINE qs == [i \in DOMAIN c.queries |-> WholeRule(c.queries[i])]
<1>1. WholeQueries(c).queries = qs /\ WholeQueries(c).kind = c.kind
  BY DEF WholeQueries, OverQueries, Map
<1>2. IsList(c.queries) /\ \A i \in DOMAIN c.queries : IsRule(c.queries[i])
  BY DEF IsListOf, Every, IsList
<1>3. DOMAIN qs = DOMAIN c.queries /\ qs = [i \in DOMAIN c.queries |-> qs[i]]
      /\ \A i \in DOMAIN c.queries : qs[i] = WholeRule(c.queries[i])
  OBVIOUS
<1> HIDE DEF qs
<1>4. IsList(qs)
  BY <1>2, <1>3, AlikeIsList
<1>5. \A i \in DOMAIN qs : IsRule(qs[i])
  BY <1>2, <1>3, WholeRuleIs
<1>6. QED
  BY <1>1, <1>4, <1>5 DEF IsListOf, Every, IsList

----------------------------------------------------------------------------
(* What is loaded from the wire is what an author might have written, whoever *)
(* wrote the message.                                                         *)

LEMMA TimeInRange ==
  ASSUME NEW v \in 0..(Seconds - 1)
  PROVE  /\ Time(v) \in Int
         /\ Time(v) \div Ticks \in -(Seconds \div 2)..(Seconds \div 2 - 1)
<1> DEFINE h == Seconds \div 2
           k == IF v < h THEN v ELSE v - Seconds
<1>1. /\ Ticks \in Nat /\ Ticks > 0
      /\ Seconds \in Nat /\ Seconds % 2 = 0
  BY DateAssumption
<1>2. h \in Nat /\ Seconds = 2 * h
  BY <1>1
<1>3. Time(v) = Ticks * k
  BY DEF Time
<1> HIDE DEF h
<1>4. k \in -h..(h - 1) /\ k \in Int
  BY <1>1, <1>2
<1> HIDE DEF k
<1>5. (Ticks * k) \div Ticks = k
  BY <1>1, <1>4
<1>6. Ticks * k \in Int
  BY <1>1, <1>4
<1>7. QED
  BY <1>3, <1>4, <1>5, <1>6 DEF h

LEMMA WireScalarLoads ==
  ASSUME NEW symbols, NEW t, IsWireElement(t), TypeOf(t) \in ScalarTypes
  PROVE  IsScalar(ReadScalar(symbols, t))
<1> DEFINE type == TypeOf(t)
           r == ReadScalar(symbols, t)
<1>1. DOMAIN t = {type} /\ IsWireValue(type, t[type])
  BY DEF IsWireElement
<1>2. type \in ScalarTypes
  OBVIOUS
<1> HIDE DEF type
<1>3. /\ DOMAIN r = {type}
      /\ r[type] = IF type \in {"var", "str"} THEN Str(symbols, t[type])
                   ELSE IF type = "date" THEN Time(t[type]) ELSE t[type]
  BY <1>1 DEF ReadScalar
<1> HIDE DEF r
<1>4. IsValue(type, r[type])
  <2>1. CASE type \in {"var", "str"}
    BY <2>1 DEF IsValue
  <2>2. CASE type = "date"
    <3>1. t["date"] \in 0..(Seconds - 1)
      BY <1>1, <2>2 DEF IsWireValue
    <3>2. r["date"] = Time(t["date"])
      BY <1>3, <2>2
    <3>3. QED
      BY <2>2, <3>1, <3>2, TimeInRange DEF IsValue
  <2>3. CASE type = "int"
    BY <1>1, <1>3, <2>3 DEF IsValue, IsWireValue
  <2>4. CASE type = "bytes"
    BY <1>1, <1>3, <2>4 DEF IsValue, IsWireValue
  <2>5. CASE type = "bool"
    BY <1>1, <1>3, <2>5 DEF IsValue, IsWireValue
  <2>6. QED
    BY <1>2, <2>1, <2>2, <2>3, <2>4, <2>5 DEF ScalarTypes
<1>5. QED
  BY <1>2, <1>3, <1>4 DEF IsScalar, r

LEMMA RangeIsFinite ==
  ASSUME NEW s, IsList(s)
  PROVE  IsFiniteSet(Range(s))
<1>1. Len(s) \in Nat /\ DOMAIN s = 1..Len(s)
  BY ListDomain
<1>2. IsFiniteSet(1..Len(s))
  BY <1>1, FS_Interval
<1>3. s \in Surjection(1..Len(s), Range(s))
  <2>1. s \in [1..Len(s) -> Range(s)]
    BY <1>1, LenProperties DEF IsList
  <2>2. QED
    BY <1>1, <2>1 DEF Surjection, Range
<1>4. QED
  BY <1>2, <1>3, FS_Surjection

LEMMA WireTermLoads ==
  ASSUME NEW symbols, NEW t, IsWireTerm(t), TermDecodes(t)
  PROVE  IsTerm(ReadTerm(symbols, DecodeTerm(t)))
<1>1. CASE TypeOf(t) = "set"
  <2> DEFINE s == t["set"]
             D == Range(s)
             d == [set |-> D]
  <2>1. IsList(s) /\ \A e \in D : IsWireElement(e)
    BY <1>1, RangeOf DEF IsWireTerm, IsListOf, Every, IsList
  <2>2. PICK type \in {"int", "str", "date", "bytes", "bool"} :
          {TypeOf(s[i]) : i \in DOMAIN s} \subseteq {type}
    BY <1>1 DEF TermDecodes, OneType
  <2>3. \A e \in D : TypeOf(e) = type
    BY <2>1, <2>2, RangeOf
  <2>4. type \in ScalarTypes /\ type # "set"
    BY DEF ScalarTypes
  <2>5. IsFiniteSet(D)
    BY <2>1, RangeIsFinite
  <2>6. DecodeTerm(t) = d
    BY <1>1 DEF DecodeTerm
  <2> HIDE DEF s, D
  <2>7. DOMAIN d = {"set"} /\ TypeOf(d) = "set" /\ d["set"] = D
    BY SetOf
  <2> HIDE DEF d
  <2> DEFINE f == [e \in D |-> ReadElement(symbols, e)]
             S == {f[e] : e \in D}
             r == [set |-> S]
  <2>8. ReadTerm(symbols, d) = r
    BY <2>7 DEF ReadTerm, OverScalars, ReadElement
  <2>9. IsFiniteSet(S)
    <3>1. f \in Surjection(D, S)
      BY DEF Surjection
    <3>2. QED
      BY <2>5, <3>1, FS_Surjection
  <2>10. \A e \in D : IsElement(ReadElement(symbols, e))
    <3>1. ASSUME NEW e \in D
          PROVE  IsElement(ReadElement(symbols, e))
      <4>1. TypeOf(e) # "set" /\ TypeOf(e) \in ScalarTypes
        BY <2>3, <2>4
      <4>2. ReadElement(symbols, e) = ReadScalar(symbols, e)
        BY <4>1 DEF ReadElement, OverElements
      <4>3. QED
        BY <2>1, <4>1, <4>2, WireScalarLoads DEF IsElement
    <3>2. QED
      BY <3>1
  <2>11. \A x \in S : IsElement(x)
    BY <2>10
  <2> HIDE DEF S
  <2>12. DOMAIN r = {"set"} /\ r["set"] = S
    BY SetOf
  <2> HIDE DEF r
  <2>13. IsTerm(r)
    BY <2>9, <2>11, <2>12 DEF IsTerm, IsSetOf
  <2>14. QED
    BY <2>6, <2>8, <2>13
<1>2. CASE TypeOf(t) # "set"
  <2>1. TypeOf(t) \in ScalarTypes
    <3>1. PICK i \in DOMAIN TermTypes : TypeOf(t) = TermTypes[i]
      BY DEF TermDecodes, Range
    <3>2. QED
      BY <1>2, <3>1 DEF TermTypes, ScalarTypes
  <2>2. ReadTerm(symbols, DecodeTerm(t)) = ReadScalar(symbols, t)
    BY <1>2 DEF ReadTerm, OverScalars, DecodeTerm
  <2>3. QED
    BY <2>1, <2>2, WireScalarLoads DEF IsWireTerm, IsTerm
<1>3. QED
  BY <1>1, <1>2

LEMMA WirePredicateLoads ==
  ASSUME NEW symbols, NEW p, IsWirePredicate(p),
         \A i \in DOMAIN p.terms : TermDecodes(p.terms[i])
  PROVE  IsPredicate(ReadPredicate(symbols, DecodePredicate(p)))
<1> DEFINE r == ReadPredicate(symbols, DecodePredicate(p))
           ts == [i \in DOMAIN p.terms |-> ReadTerm(symbols, DecodeTerm(p.terms[i]))]
<1>1. r.terms = ts
  BY DEF ReadPredicate, DecodePredicate, OverPredicate, Map
<1>2. DOMAIN ts = DOMAIN p.terms /\ ts = [i \in DOMAIN p.terms |-> ts[i]]
      /\ \A i \in DOMAIN p.terms : ts[i] = ReadTerm(symbols, DecodeTerm(p.terms[i]))
  OBVIOUS
<1> HIDE DEF r, ts
<1>3. IsList(p.terms) /\ \A i \in DOMAIN p.terms : IsWireTerm(p.terms[i])
  BY DEF IsWirePredicate, IsListOf, Every, IsList
<1>4. IsList(ts)
  BY <1>2, <1>3, AlikeIsList
<1>5. \A i \in DOMAIN ts : IsTerm(ts[i])
  BY <1>2, <1>3, WireTermLoads
<1>6. QED
  BY <1>1, <1>4, <1>5 DEF IsPredicate, IsListOf, Every, IsList, r

LEMMA LoadedNumbers ==
  ASSUME NEW type \in {"unary", "binary"}, NEW n \in Numbers("wire", type)
  PROVE  Renumbered("datalog", "source", type, Renumbered("wire", "datalog", type, n))
           \in 1..(Len(Operations("source", type)) - 1)
<1> DEFINE S == Operations("source", type)
           D == Operations("datalog", type)
           W == Operations("wire", type)
           undefined == <<"Undefined">>
           m == Renumbered("wire", "datalog", type, n)
<1>1. PICK k \in Nat :
        /\ IsList(D) /\ Len(D) = k
        /\ IsList(W) /\ Len(W) = k /\ Range(W) = Range(D)
        /\ S = undefined \o D
  BY OperationLists
<1>2. "Undefined" \notin Range(D)
  BY UndefinedIsApart
<1>3. n \in 0..(k - 1)
  BY <1>1 DEF Numbers
<1>4. m = Index(D, W[n + 1])
  BY DEF Renumbered
<1>5. DOMAIN undefined = 1..1 /\ undefined = [i \in 1..1 |-> undefined[i]] /\ undefined[1] = "Undefined"
  OBVIOUS
<1> HIDE DEF S, D, W, undefined, m
<1>6. IsList(undefined) /\ Len(undefined) = 1
  <2>1. 1 \in Nat
    OBVIOUS
  <2>2. QED
    BY <1>5, <2>1, TabulatedIsList
<1>7. W[n + 1] \in Range(D)
  <2>1. n + 1 \in DOMAIN W
    BY <1>1, <1>3, ListDomain
  <2>2. QED
    BY <1>1, <2>1, RangeOf
<1>8. m \in 0..(k - 1)
  BY <1>1, <1>4, <1>7, IndexResolves
<1> DEFINE x == D[m + 1]
<1>9. x \in Range(D)
  <2>1. m + 1 \in DOMAIN D
    BY <1>1, <1>8, ListDomain
  <2>2. QED
    BY <1>1, <2>1, RangeOf
<1> HIDE DEF x
<1>10. /\ IsList(S) /\ Len(S) = k + 1
       /\ Range(S) = Range(undefined) \cup Range(D)
       /\ S[1] = undefined[1]
  <2>1. IsList(undefined \o D)
    BY <1>1, <1>6, ConcatIsList
  <2>2. /\ Len(undefined \o D) = Len(undefined) + Len(D)
        /\ Range(undefined \o D) = Range(undefined) \cup Range(D)
        /\ \A i \in 1..Len(undefined) + Len(D) :
             (undefined \o D)[i] = IF i <= Len(undefined) THEN undefined[i] ELSE D[i - Len(undefined)]
    BY <1>1, <1>6, ConcatElements
  <2>3. 1 \in 1..Len(undefined) + Len(D) /\ Len(undefined) + Len(D) = k + 1
    BY <1>1, <1>6
  <2>4. (undefined \o D)[1] = undefined[1]
    BY <1>6, <2>2, <2>3
  <2>5. QED
    BY <1>1, <2>1, <2>2, <2>3, <2>4
<1>11. S[1] = "Undefined"
  BY <1>5, <1>10
<1>12. Index(S, x) \in 0..k /\ S[Index(S, x) + 1] = x
  <2>1. x \in Range(S)
    BY <1>9, <1>10
  <2>2. QED
    BY <1>10, <2>1, IndexResolves
<1>13. Index(S, x) # 0
  BY <1>2, <1>9, <1>11, <1>12
<1>14. Index(S, x) \in 1..(Len(S) - 1)
  BY <1>10, <1>12, <1>13
<1>15. QED
  BY <1>14 DEF S, D, m, x, Renumbered

LEMMA WireOpLoads ==
  ASSUME NEW symbols, NEW op, IsWireOp(op), OpDecodes(op),
         TypeOf(op) = "value" => TermDecodes(op.value)
  PROVE  IsOp(ReadOp(symbols, DecodeOp(op)))
<1> DEFINE d == DecodeOp(op)
           r == ReadOp(symbols, d)
<1>1. CASE TypeOf(op) = "value"
  <2>1. d = [value |-> DecodeTerm(op.value)]
    BY <1>1 DEF DecodeOp, OverOp
  <2> HIDE DEF d
  <2>2. TypeOf(d) = "value" /\ d.value = DecodeTerm(op.value)
    BY <2>1, ValueOf
  <2>3. r = [value |-> ReadTerm(symbols, d.value)]
    BY <2>2 DEF ReadOp, OverOp
  <2> HIDE DEF r
  <2>4. DOMAIN r = {"value"} /\ r.value = ReadTerm(symbols, d.value)
    BY <2>3, ValueOf
  <2>5. IsTerm(r.value)
    BY <1>1, <2>2, <2>4, WireTermLoads DEF IsWireOp
  <2>6. IsOp(r)
    BY <2>4, <2>5 DEF IsOp
  <2>7. QED
    BY <2>6 DEF r, d
<1>2. ASSUME NEW type \in {"unary", "binary"}, TypeOf(op) = type,
             op[type] \in 0..(Len(Operations("wire", type)) - 1)
      PROVE  IsOp(r)
  <2>1. type # "value" /\ op[type] \in Numbers("wire", type)
    BY <1>2 DEF Numbers
  <2>2. d = [x \in {type} |-> Renumbered("wire", "datalog", x, op[x])]
    BY <1>2, <2>1 DEF DecodeOp, OverOp
  <2> HIDE DEF d
  <2>3. DOMAIN d = {type} /\ d[type] = Renumbered("wire", "datalog", type, op[type])
    BY <2>2
  <2>4. TypeOf(d) = type
    BY <2>3, TypeOfSingle
  <2>5. r = [x \in {type} |-> Renumbered("datalog", "source", x, d[x])]
    BY <2>1, <2>4 DEF ReadOp, OverOp
  <2> HIDE DEF r
  <2>6. DOMAIN r = {type} /\ r[type] = Renumbered("datalog", "source", type, d[type])
    BY <2>5
  <2>7. r[type] \in 1..(Len(Operations("source", type)) - 1)
    BY <1>2, <2>1, <2>3, <2>6, LoadedNumbers
  <2>8. QED
    BY <2>6, <2>7 DEF IsOp
<1>3. QED
  BY <1>1, <1>2 DEF OpDecodes

LEMMA WireExpressionLoads ==
  ASSUME NEW symbols, NEW e, IsWireExpression(e),
         \A i \in DOMAIN e : OpDecodes(e[i]) /\ (TypeOf(e[i]) = "value" => TermDecodes(e[i].value))
  PROVE  IsExpression(ReadExpression(symbols, DecodeExpression(e)))
<1> DEFINE r == ReadExpression(symbols, DecodeExpression(e))
<1>1. DOMAIN r = DOMAIN e /\ r = [i \in DOMAIN e |-> r[i]]
      /\ \A i \in DOMAIN e : r[i] = ReadOp(symbols, DecodeOp(e[i]))
  BY DEF ReadExpression, DecodeExpression
<1> HIDE DEF r
<1>2. IsList(e) /\ \A i \in DOMAIN e : IsWireOp(e[i])
  BY DEF IsWireExpression, IsListOf, Every, IsList
<1>3. IsList(r)
  BY <1>1, <1>2, AlikeIsList
<1>4. \A i \in DOMAIN r : IsOp(r[i])
  BY <1>1, <1>2, WireOpLoads
<1>5. QED
  BY <1>3, <1>4 DEF IsExpression, IsListOf, Every, IsList, r

LEMMA WireScopeLoads ==
  ASSUME NEW s, IsWireScope(s), ScopeResolves(policyPublicKeys, DecodeScope(s))
  PROVE  IsScope(ReadScope(policyPublicKeys, DecodeScope(s)))
<1>1. Len(policyPublicKeys) = 0
  BY EmptyIsList DEF policyPublicKeys
<1>2. TypeOf(s) # "publicKey"
  <2>1. SUFFICES ASSUME TypeOf(s) = "publicKey" PROVE FALSE
    OBVIOUS
  <2>2. DecodeScope(s).type = 2 /\ DecodeScope(s).key \in Nat
    BY <2>1 DEF DecodeScope, IsWireScope
  <2>3. QED
    BY <1>1, <2>2 DEF ScopeResolves
<1> DEFINE d == DecodeScope(s)
<1>3. d.type \in {0, 1}
  BY <1>2 DEF DecodeScope
<1> HIDE DEF d
<1> DEFINE r == [type |-> d.type, key |-> NoKey]
<1>4. ReadScope(policyPublicKeys, d) = r
  BY <1>3 DEF ReadScope
<1>5. IsScope(r)
  BY <1>3 DEF IsScope
<1>6. QED
  BY <1>4, <1>5 DEF d

LEMMA RuleDecodesTerms ==
  ASSUME NEW r, ListsOfTerms(r), RuleDecodes(r)
  PROVE  \A x : HoldsTerm(r, x) => TermDecodes(x)
<1>1. \A i \in DOMAIN RuleTerms(r) : TermDecodes(RuleTerms(r)[i])
  BY DEF RuleDecodes, Every
<1>2. \A x \in Range(RuleTerms(r)) : TermDecodes(x)
  BY <1>1 DEF Range
<1>3. QED
  BY <1>2, RuleTermsHold

LEMMA WireRuleLoads ==
  ASSUME NEW symbols, NEW r, IsWireRule(r), RuleLoads(r)
  PROVE  IsRule(LoadedRule(symbols, r))
<1> DEFINE d == DecodeRule(r)
           l == LoadedRule(symbols, r)
<1>1. /\ IsWirePredicate(r.head)
      /\ IsList(r.body) /\ \A i \in DOMAIN r.body : IsWirePredicate(r.body[i])
      /\ IsList(r.exprs) /\ \A i \in DOMAIN r.exprs : IsWireExpression(r.exprs[i])
      /\ IsList(r.scopes) /\ \A i \in DOMAIN r.scopes : IsWireScope(r.scopes[i])
  BY DEF IsWireRule, IsListOf, Every, IsList
<1>2. RuleDecodes(r) /\ RuleResolves(policyPublicKeys, d)
  BY DEF RuleLoads
<1>3. \A x : HoldsTerm(r, x) => TermDecodes(x)
  <2>1. /\ IsList(r.head.terms)
        /\ \A i \in DOMAIN r.body : IsList(r.body[i].terms)
        /\ \A i \in DOMAIN r.exprs : IsList(r.exprs[i])
    BY <1>1 DEF IsWirePredicate, IsWireExpression, IsListOf, IsList
  <2>2. ListsOfTerms(r)
    BY <1>1, <2>1 DEF ListsOfTerms
  <2>3. QED
    BY <1>2, <2>2, RuleDecodesTerms
<1>4. /\ d.head = DecodePredicate(r.head)
      /\ d.body = [i \in DOMAIN r.body |-> DecodePredicate(r.body[i])]
      /\ d.exprs = [i \in DOMAIN r.exprs |-> DecodeExpression(r.exprs[i])]
      /\ d.scopes = [i \in DOMAIN r.scopes |-> DecodeScope(r.scopes[i])]
  <2> HIDE DEF d
  <2>1. d = [head   |-> DecodePredicate(r.head),
             body   |-> [i \in DOMAIN r.body |-> DecodePredicate(r.body[i])],
             exprs  |-> [i \in DOMAIN r.exprs |-> DecodeExpression(r.exprs[i])],
             scopes |-> [i \in DOMAIN r.scopes |-> DecodeScope(r.scopes[i])]]
    BY DecodedRule DEF d
  <2>2. QED
    BY <2>1
<1> HIDE DEF d
<1>5. /\ l.head = ReadPredicate(symbols, d.head)
      /\ l.body = [i \in DOMAIN d.body |-> ReadPredicate(symbols, d.body[i])]
      /\ l.exprs = [i \in DOMAIN d.exprs |-> ReadExpression(symbols, d.exprs[i])]
      /\ l.scopes = [i \in DOMAIN d.scopes |-> ReadScope(policyPublicKeys, d.scopes[i])]
  <2>1. l = [head   |-> ReadPredicate(symbols, d.head),
             body   |-> [i \in DOMAIN d.body |-> ReadPredicate(symbols, d.body[i])],
             exprs  |-> [i \in DOMAIN d.exprs |-> ReadExpression(symbols, d.exprs[i])],
             scopes |-> [i \in DOMAIN d.scopes |-> ReadScope(policyPublicKeys, d.scopes[i])]]
    BY RuleRead DEF LoadedRule, d
  <2> HIDE DEF l
  <2>2. QED
    BY <2>1
<1> HIDE DEF l
<1>6. IsPredicate(l.head)
  <2>1. \A i \in DOMAIN r.head.terms : TermDecodes(r.head.terms[i])
    BY <1>3 DEF HoldsTerm, Range
  <2>2. QED
    BY <1>1, <1>4, <1>5, <2>1, WirePredicateLoads
<1>7. IsListOf(IsPredicate, l.body)
  <2>1. /\ DOMAIN l.body = DOMAIN r.body /\ l.body = [i \in DOMAIN r.body |-> l.body[i]]
        /\ \A i \in DOMAIN r.body : l.body[i] = ReadPredicate(symbols, DecodePredicate(r.body[i]))
    BY <1>4, <1>5
  <2>2. ASSUME NEW i \in DOMAIN r.body
        PROVE  IsPredicate(l.body[i])
    <3>1. \A j \in DOMAIN r.body[i].terms : TermDecodes(r.body[i].terms[j])
      BY <1>3 DEF HoldsTerm, Range
    <3>2. QED
      BY <1>1, <2>1, <3>1, WirePredicateLoads
  <2>3. IsList(l.body)
    BY <1>1, <2>1, AlikeIsList
  <2>4. QED
    BY <2>1, <2>2, <2>3 DEF IsListOf, Every, IsList
<1>8. IsListOf(IsExpression, l.exprs)
  <2>1. /\ DOMAIN l.exprs = DOMAIN r.exprs /\ l.exprs = [i \in DOMAIN r.exprs |-> l.exprs[i]]
        /\ \A i \in DOMAIN r.exprs :
             l.exprs[i] = ReadExpression(symbols, DecodeExpression(r.exprs[i]))
    BY <1>4, <1>5
  <2>2. ASSUME NEW i \in DOMAIN r.exprs
        PROVE  IsExpression(l.exprs[i])
    <3>1. \A j \in DOMAIN r.exprs[i] :
            /\ OpDecodes(r.exprs[i][j])
            /\ TypeOf(r.exprs[i][j]) = "value" => TermDecodes(r.exprs[i][j].value)
      BY <1>2, <1>3 DEF HoldsTerm, RuleDecodes, Every
    <3>2. QED
      BY <1>1, <2>1, <3>1, WireExpressionLoads
  <2>3. IsList(l.exprs)
    BY <1>1, <2>1, AlikeIsList
  <2>4. QED
    BY <2>1, <2>2, <2>3 DEF IsListOf, Every, IsList
<1>9. IsListOf(IsScope, l.scopes)
  <2>1. /\ DOMAIN l.scopes = DOMAIN r.scopes /\ l.scopes = [i \in DOMAIN r.scopes |-> l.scopes[i]]
        /\ \A i \in DOMAIN r.scopes :
             l.scopes[i] = ReadScope(policyPublicKeys, DecodeScope(r.scopes[i]))
    BY <1>4, <1>5
  <2>2. \A i \in DOMAIN r.scopes : ScopeResolves(policyPublicKeys, DecodeScope(r.scopes[i]))
    BY <1>2, <1>4 DEF RuleResolves, Every
  <2>3. \A i \in DOMAIN r.scopes : IsScope(l.scopes[i])
    BY <1>1, <2>1, <2>2, WireScopeLoads
  <2>4. IsList(l.scopes)
    BY <1>1, <2>1, AlikeIsList
  <2>5. QED
    BY <2>1, <2>3, <2>4 DEF IsListOf, Every, IsList
<1>10. QED
  BY <1>6, <1>7, <1>8, <1>9 DEF IsRule, l

LEMMA WireQueriesLoad ==
  ASSUME NEW symbols, NEW c, IsWireQueries(c), Every(RuleLoads, c.queries)
  PROVE  IsListOf(IsRule, [i \in DOMAIN c.queries |-> LoadedRule(symbols, c.queries[i])])
<1> DEFINE ls == [i \in DOMAIN c.queries |-> LoadedRule(symbols, c.queries[i])]
<1>1. DOMAIN ls = DOMAIN c.queries /\ ls = [i \in DOMAIN c.queries |-> ls[i]]
      /\ \A i \in DOMAIN c.queries : ls[i] = LoadedRule(symbols, c.queries[i])
  OBVIOUS
<1> HIDE DEF ls
<1>2. IsList(c.queries) /\ \A i \in DOMAIN c.queries : IsWireRule(c.queries[i])
  BY DEF IsWireQueries, IsListOf, Every, IsList
<1>3. IsList(ls)
  BY <1>1, <1>2, AlikeIsList
<1>4. \A i \in DOMAIN ls : IsRule(ls[i])
  BY <1>1, <1>2, WireRuleLoads DEF Every
<1>5. IsListOf(IsRule, ls)
  BY <1>3, <1>4 DEF IsListOf, Every, IsList
<1>6. QED
  BY <1>5 DEF ls

(* The items of a section, as an author writes them and on the wire.          *)
IsItem(section, x) ==
  IF section = "facts" THEN IsPredicate(x)
  ELSE IF section = "rules" THEN IsRule(x)
  ELSE IF section = "checks" THEN IsCheck(x) ELSE IsPolicy(x)
IsWireItem(section, x) ==
  IF section = "facts" THEN IsWirePredicate(x)
  ELSE IF section = "rules" THEN IsWireRule(x) ELSE IsWireQueries(x)

LEMMA LoadedCases ==
  ASSUME NEW symbols, NEW x
  PROVE  /\ Loaded(symbols, "facts", x) = ReadPredicate(symbols, DecodePredicate(x))
         /\ Loads("facts", x) <=> PredicateDecodes(x)
         /\ Loaded(symbols, "rules", x) = LoadedRule(symbols, x)
         /\ Loads("rules", x) <=> RuleLoads(x)
         /\ Loaded(symbols, "checks", x)
              = [queries |-> [i \in DOMAIN x.queries |-> LoadedRule(symbols, x.queries[i])],
                 kind    |-> ConvertKind(ConvertKind(x.kind))]
         /\ Loads("checks", x) <=> CheckDecodes(x) /\ Every(RuleLoads, x.queries)
         /\ Loaded(symbols, "policies", x)
              = [queries |-> [i \in DOMAIN x.queries |-> LoadedRule(symbols, x.queries[i])],
                 kind    |-> x.kind]
         /\ Loads("policies", x) <=> x.kind \in {"allow", "deny"} /\ Every(RuleLoads, x.queries)
<1>1. /\ Loaded(symbols, "facts", x) = ReadPredicate(symbols, DecodePredicate(x))
      /\ Loads("facts", x) <=> PredicateDecodes(x)
  BY DEF Loaded, Loads
<1>2. /\ Loaded(symbols, "rules", x) = LoadedRule(symbols, x)
      /\ Loads("rules", x) <=> RuleLoads(x)
  BY DEF Loaded, Loads
<1>3. /\ Loaded(symbols, "checks", x) = ReadCheck(symbols, policyPublicKeys, DecodeCheck(x))
      /\ Loads("checks", x) <=> CheckDecodes(x) /\ Every(RuleLoads, x.queries)
  BY DEF Loaded, Loads
<1>4. /\ Loaded(symbols, "policies", x)
           = [queries |-> [i \in DOMAIN x.queries |-> LoadedRule(symbols, x.queries[i])],
              kind    |-> x.kind]
      /\ Loads("policies", x) <=> x.kind \in {"allow", "deny"} /\ Every(RuleLoads, x.queries)
  BY DEF Loaded, Loads, OverQueries, Map
<1>5. ReadCheck(symbols, policyPublicKeys, DecodeCheck(x))
        = [queries |-> [i \in DOMAIN x.queries |-> LoadedRule(symbols, x.queries[i])],
           kind    |-> ConvertKind(ConvertKind(x.kind))]
  BY DEF ReadCheck, DecodeCheck, OverQueries, Map, LoadedRule
<1>6. QED
  BY <1>1, <1>2, <1>3, <1>4, <1>5

LEMMA WireItemLoads ==
  ASSUME NEW symbols, NEW section \in Sections, NEW x, IsWireItem(section, x), Loads(section, x)
  PROVE  IsItem(section, Loaded(symbols, section, x))
<1> DEFINE l == Loaded(symbols, section, x)
           qs == [i \in DOMAIN x.queries |-> LoadedRule(symbols, x.queries[i])]
<1>1. CASE section = "facts"
  <2>1. l = ReadPredicate(symbols, DecodePredicate(x)) /\ PredicateDecodes(x)
    BY <1>1, LoadedCases
  <2>2. \A i \in DOMAIN x.terms : TermDecodes(x.terms[i])
    BY <2>1 DEF PredicateDecodes, Every
  <2>3. QED
    BY <1>1, <2>1, <2>2, WirePredicateLoads DEF IsItem, IsWireItem
<1>2. CASE section = "rules"
  <2>1. l = LoadedRule(symbols, x) /\ RuleLoads(x)
    BY <1>2, LoadedCases
  <2>2. IsWireRule(x)
    BY <1>2 DEF IsWireItem
  <2>3. IsRule(l)
    BY <2>1, <2>2, WireRuleLoads
  <2> HIDE DEF l
  <2>4. IsItem(section, l)
    BY <1>2, <2>3 DEF IsItem
  <2>5. QED
    BY <2>4 DEF l
<1>3. CASE section = "checks"
  <2>1. l = [queries |-> qs, kind |-> ConvertKind(ConvertKind(x.kind))] /\ Every(RuleLoads, x.queries)
    BY <1>3, LoadedCases
  <2>2. IsListOf(IsRule, qs)
    BY <1>3, <2>1, WireQueriesLoad DEF IsWireItem
  <2> HIDE DEF l, qs
  <2>3. l.queries = qs /\ l.kind = ConvertKind(ConvertKind(x.kind))
    BY <2>1
  <2>4. l.kind \in {"one", "all", "reject"}
    BY <2>3 DEF ConvertKind
  <2>5. IsCheck(l)
    BY <2>2, <2>3, <2>4 DEF IsCheck
  <2>6. QED
    BY <1>3, <2>5 DEF IsItem, l
<1>4. CASE section = "policies"
  <2>1. l = [queries |-> qs, kind |-> x.kind] /\ Every(RuleLoads, x.queries)
        /\ x.kind \in {"allow", "deny"}
    BY <1>4, LoadedCases
  <2>2. IsListOf(IsRule, qs)
    BY <1>4, <2>1, WireQueriesLoad DEF IsWireItem
  <2> HIDE DEF l, qs
  <2>3. l.queries = qs /\ l.kind = x.kind
    BY <2>1
  <2>4. IsPolicy(l)
    BY <2>1, <2>2, <2>3 DEF IsPolicy
  <2>5. QED
    BY <1>4, <2>4 DEF IsItem, l
<1>5. QED
  BY <1>1, <1>2, <1>3, <1>4 DEF Sections

----------------------------------------------------------------------------
(* Policies, from the builder that saves them to the one that loads them.     *)

(* What may be written before it has its indices may be written after.        *)
LEMMA ConvertedTermEncodes ==
  ASSUME NEW symbols, NEW t, IsTerm(t), IsList(symbols), TermCovered(symbols, t), TermEncodes(t)
  PROVE  TermEncodes(ConvertTerm(symbols, t))
<1>1. CASE TypeOf(t) # "set"
  BY <1>1, TermTrip DEF TermEncodes
<1>2. CASE TypeOf(t) = "set"
  <2>1. IsSetOf(IsElement, t)
    BY <1>2, TypeOfScalar DEF IsTerm
  <2>2. \A e \in t["set"] : IsElement(e) /\ ElementCovered(symbols, e)
    BY <1>2, <2>1 DEF IsSetOf, TermCovered
  <2> DEFINE S == {ConvertElement(symbols, e) : e \in t["set"]}
             c == [set |-> S]
  <2>3. ConvertTerm(symbols, t) = c
    BY <1>2 DEF ConvertTerm, ConvertElement, OverScalars
  <2>4. \A e \in t["set"] : TypeOf(ConvertElement(symbols, e)) = TypeOf(e)
    BY <2>2, ElementTrip
  <2>5. {TypeOf(x) : x \in S} = {TypeOf(e) : e \in t["set"]}
    BY <2>4
  <2>6. OneType({TypeOf(e) : e \in t["set"]})
    BY <1>2 DEF TermEncodes
  <2> HIDE DEF S
  <2>7. c["set"] = S
    BY SetOf
  <2> HIDE DEF c
  <2>8. OneType({TypeOf(x) : x \in c["set"]})
    BY <2>5, <2>6, <2>7
  <2>9. TermEncodes(c)
    BY <2>8 DEF TermEncodes
  <2>10. QED
    BY <2>3, <2>9
<1>3. QED
  BY <1>1, <1>2

LEMMA ConvertedPredicateEncodes ==
  ASSUME NEW symbols, NEW p, IsPredicate(p), IsList(symbols), PredicateCovered(symbols, p),
         \A i \in DOMAIN p.terms : TermEncodes(p.terms[i])
  PROVE  LET c == ConvertPredicate(symbols, p)
         IN DOMAIN c.terms = DOMAIN p.terms /\ \A i \in DOMAIN c.terms : TermEncodes(c.terms[i])
<1> DEFINE c == ConvertPredicate(symbols, p)
<1>1. /\ DOMAIN c.terms = DOMAIN p.terms
      /\ \A i \in DOMAIN p.terms : c.terms[i] = ConvertTerm(symbols, p.terms[i])
  BY DEF ConvertPredicate, OverPredicate, Map
<1> HIDE DEF c
<1>2. \A i \in DOMAIN p.terms : IsTerm(p.terms[i]) /\ TermCovered(symbols, p.terms[i])
  BY DEF IsPredicate, IsListOf, Every, PredicateCovered
<1>3. \A i \in DOMAIN c.terms : TermEncodes(c.terms[i])
  BY <1>1, <1>2, ConvertedTermEncodes
<1>4. QED
  BY <1>1, <1>3 DEF c

LEMMA ConvertedOpEncodes ==
  ASSUME NEW symbols, NEW op, IsOp(op), IsList(symbols), OpCovered(symbols, op),
         TypeOf(op) = "value" => TermEncodes(op.value)
  PROVE  LET c == ConvertOp(symbols, op) IN TypeOf(c) = "value" => TermEncodes(c.value)
<1> DEFINE c == ConvertOp(symbols, op)
<1>1. CASE DOMAIN op = {"value"} /\ IsTerm(op["value"])
  <2>1. TypeOf(op) = "value"
    BY <1>1, TypeOfSingle
  <2>2. c = [value |-> ConvertTerm(symbols, op.value)]
    BY <2>1 DEF ConvertOp, OverOp
  <2> HIDE DEF c
  <2>3. c.value = ConvertTerm(symbols, op.value)
    BY <2>2, ValueOf
  <2>4. TermEncodes(c.value)
    BY <1>1, <2>1, <2>3, ConvertedTermEncodes DEF OpCovered
  <2>5. QED
    BY <2>4 DEF c
<1>2. ASSUME NEW type \in {"unary", "binary"}, DOMAIN op = {type}
      PROVE  TypeOf(c) # "value"
  <2>1. TypeOf(op) = type /\ type # "value"
    BY <1>2, TypeOfSingle
  <2>2. c = [x \in {type} |-> Renumbered("source", "datalog", x, op[x])]
    BY <2>1 DEF ConvertOp, OverOp
  <2> HIDE DEF c
  <2>3. DOMAIN c = {type}
    BY <2>2
  <2>4. QED
    BY <2>1, <2>3, TypeOfSingle
<1>3. QED
  BY <1>1, <1>2 DEF IsOp

LEMMA RuleEncodesOf ==
  ASSUME NEW r, ListsOfTerms(r), \A x : HoldsTerm(r, x) => TermEncodes(x)
  PROVE  RuleEncodes(r)
<1>1. \A x \in Range(RuleTerms(r)) : TermEncodes(x)
  BY RuleTermsHold
<1>2. QED
  BY <1>1, RuleTermsHold, RangeOf DEF RuleEncodes, Every

LEMMA ConvertedRuleEncodes ==
  ASSUME NEW symbols, NEW keys, NEW r, IsRule(r), IsList(symbols), RuleCovered(symbols, r),
         RuleEncodes(r)
  PROVE  RuleEncodes(ConvertRule(symbols, keys, r))
<1> DEFINE c == ConvertRule(symbols, keys, r)
<1>1. /\ c.head = ConvertPredicate(symbols, r.head)
      /\ c.body = [i \in DOMAIN r.body |-> ConvertPredicate(symbols, r.body[i])]
      /\ c.exprs = [i \in DOMAIN r.exprs |-> ConvertExpression(symbols, r.exprs[i])]
      /\ c.scopes = [i \in DOMAIN r.scopes |-> ConvertScope(keys, r.scopes[i])]
  BY ConvertedRule
<1>2. /\ IsPredicate(r.head)
      /\ IsList(r.body) /\ \A i \in DOMAIN r.body : IsPredicate(r.body[i])
      /\ IsList(r.exprs) /\ \A i \in DOMAIN r.exprs : IsExpression(r.exprs[i])
  BY DEF IsRule, IsListOf, Every, IsList
<1>3. ListsOfTerms(r)
  BY <1>2 DEF ListsOfTerms, IsPredicate, IsExpression, IsListOf, IsList
<1>4. \A x : HoldsTerm(r, x) => TermEncodes(x)
  BY <1>3, RuleEncodesTerms
<1>5. DatalogRule(c)
  BY ConvertedRuleTyped
<1> HIDE DEF c
<1>6. ListsOfTerms(c)
  BY <1>5 DEF DatalogRule, DatalogPredicate, DatalogExpression, ListsOfTerms
<1>7. ASSUME NEW x, x \in Range(c.head.terms) PROVE TermEncodes(x)
  <2>1. \A i \in DOMAIN r.head.terms : TermEncodes(r.head.terms[i])
    BY <1>4 DEF HoldsTerm, Range
  <2>2. \A i \in DOMAIN c.head.terms : TermEncodes(c.head.terms[i])
    BY <1>1, <1>2, <2>1, ConvertedPredicateEncodes DEF RuleCovered
  <2>3. QED
    BY <1>7, <2>2 DEF Range
<1>8. ASSUME NEW i \in DOMAIN c.body, NEW x, x \in Range(c.body[i].terms) PROVE TermEncodes(x)
  <2>1. i \in DOMAIN r.body /\ c.body[i] = ConvertPredicate(symbols, r.body[i])
    BY <1>1
  <2>2. \A j \in DOMAIN r.body[i].terms : TermEncodes(r.body[i].terms[j])
    BY <1>4, <2>1 DEF HoldsTerm, Range
  <2>3. \A j \in DOMAIN c.body[i].terms : TermEncodes(c.body[i].terms[j])
    BY <1>2, <2>1, <2>2, ConvertedPredicateEncodes DEF RuleCovered
  <2>4. QED
    BY <1>8, <2>3 DEF Range
<1>9. ASSUME NEW i \in DOMAIN c.exprs, NEW j \in DOMAIN c.exprs[i], TypeOf(c.exprs[i][j]) = "value"
      PROVE  TermEncodes(c.exprs[i][j].value)
  <2>1. i \in DOMAIN r.exprs /\ j \in DOMAIN r.exprs[i]
        /\ c.exprs[i][j] = ConvertOp(symbols, r.exprs[i][j])
    BY <1>1 DEF ConvertExpression
  <2>2. IsOp(r.exprs[i][j])
    BY <1>2, <2>1 DEF IsExpression, IsListOf, Every
  <2>3. TypeOf(r.exprs[i][j]) = "value" => TermEncodes(r.exprs[i][j].value)
    BY <1>4, <2>1 DEF HoldsTerm
  <2>4. OpCovered(symbols, r.exprs[i][j])
    BY <2>1 DEF RuleCovered
  <2>5. QED
    BY <1>9, <2>1, <2>2, <2>3, <2>4, ConvertedOpEncodes
<1>10. \A x : HoldsTerm(c, x) => TermEncodes(x)
  BY <1>7, <1>8, <1>9 DEF HoldsTerm
<1>11. RuleEncodes(c)
  BY <1>6, <1>10, RuleEncodesOf
<1>12. QED
  BY <1>11 DEF c

(* A rule that names no key.                                                  *)
Keyless(r) == \A i \in DOMAIN r.scopes : r.scopes[i].key = NoKey

LEMMA NothingListed ==
  ASSUME NEW s, IsList(s)
  PROVE  s = <<>> <=> Range(s) = {}
<1>1. Len(s) \in Nat /\ DOMAIN s = 1..Len(s) /\ s \in Seq(Range(s))
  BY ListDomain DEF IsList
<1>2. CASE Len(s) = 0
  <2>1. s = <<>>
    BY <1>1, <1>2, EmptySeq
  <2>2. QED
    BY <2>1, OneIsList
<1>3. CASE Len(s) # 0
  <2>1. 1 \in DOMAIN s
    BY <1>1, <1>3
  <2>2. s # <<>>
    BY <1>3, EmptyIsList
  <2>3. s[1] \in Range(s)
    BY <2>1, RangeOf
  <2>4. QED
    BY <2>2, <2>3
<1>4. QED
  BY <1>2, <1>3

LEMMA KeysOfRule ==
  ASSUME NEW r, IsRule(r)
  PROVE  Range(RuleKeys(r)) = {} <=> Keyless(r)
<1> DEFINE ks == [i \in DOMAIN r.scopes |-> ScopeKey(r.scopes[i])]
<1>1. IsList(r.scopes)
  BY DEF IsRule, IsListOf, IsList
<1>2. RuleKeys(r) = FlattenSeq(ks)
  BY DEF RuleKeys, ScopeKeys, Joining, Map
<1>3. /\ DOMAIN ks = DOMAIN r.scopes /\ ks = [i \in DOMAIN r.scopes |-> ks[i]]
      /\ \A i \in DOMAIN r.scopes : ks[i] = ScopeKey(r.scopes[i])
  OBVIOUS
<1> HIDE DEF ks
<1>4. \A i \in DOMAIN r.scopes : /\ IsList(ks[i])
                                 /\ Range(ks[i]) = {} <=> r.scopes[i].key = NoKey
  <2>1. SUFFICES ASSUME NEW i \in DOMAIN r.scopes
                 PROVE  /\ IsList(ks[i])
                        /\ Range(ks[i]) = {} <=> r.scopes[i].key = NoKey
    OBVIOUS
  <2>2. CASE r.scopes[i].key = NoKey
    <3>1. ks[i] = <<>>
      BY <1>3, <2>2 DEF ScopeKey
    <3>2. QED
      BY <2>2, <3>1, OneIsList
  <2>3. CASE r.scopes[i].key # NoKey
    <3>1. ks[i] = <<r.scopes[i].key>>
      BY <1>3, <2>3 DEF ScopeKey
    <3>2. IsList(ks[i]) /\ Range(ks[i]) = {r.scopes[i].key}
      BY <3>1, OneIsList
    <3>3. QED
      BY <2>3, <3>2
  <2>4. QED
    BY <2>2, <2>3
<1>5. /\ \A i \in DOMAIN r.scopes : Range(ks[i]) \subseteq Range(RuleKeys(r))
      /\ \A x \in Range(RuleKeys(r)) : \E i \in DOMAIN r.scopes : x \in Range(ks[i])
  BY <1>1, <1>2, <1>3, <1>4, JoinedHolds
<1>6. QED
  BY <1>4, <1>5 DEF Keyless

LEMMA ContentsKeyless ==
  ASSUME NEW b, Contents(b)
  PROVE  Keys(b) = <<>> <=> \A r \in Range(AllRules(b)) : Keyless(r)
<1> DEFINE rs == [i \in DOMAIN AllRules(b) |-> RuleKeys(AllRules(b)[i])]
<1>1. IsList(AllRules(b)) /\ \A i \in DOMAIN AllRules(b) : IsRule(AllRules(b)[i])
  BY AllRulesHold, RangeOf
<1>2. Keys(b) = FlattenSeq(rs)
  BY DEF Keys, AllRules, Joining, Map
<1>3. /\ DOMAIN rs = DOMAIN AllRules(b) /\ rs = [i \in DOMAIN AllRules(b) |-> rs[i]]
      /\ \A i \in DOMAIN AllRules(b) : rs[i] = RuleKeys(AllRules(b)[i])
  OBVIOUS
<1> HIDE DEF rs
<1>4. \A i \in DOMAIN AllRules(b) : /\ IsList(rs[i])
                                    /\ Range(rs[i]) = {} <=> Keyless(AllRules(b)[i])
  BY <1>1, <1>3, RuleKeysCover, KeysOfRule
<1>5. /\ IsList(Keys(b))
      /\ \A i \in DOMAIN AllRules(b) : Range(rs[i]) \subseteq Range(Keys(b))
      /\ \A x \in Range(Keys(b)) : \E i \in DOMAIN AllRules(b) : x \in Range(rs[i])
  BY <1>1, <1>2, <1>3, <1>4, JoinedHolds
<1>6. Range(Keys(b)) = {} <=> \A i \in DOMAIN AllRules(b) : Keyless(AllRules(b)[i])
  BY <1>4, <1>5
<1>7. QED
  BY <1>1, <1>5, <1>6, NothingListed, RangeOf

(* A loader, who has no keys, accepts the rules that name none.               *)
LEMMA KeylessResolves ==
  ASSUME NEW symbols, NEW keys, IsList(keys), NEW r, IsRule(r), ScopesCovered(keys, keys, r.scopes)
  PROVE  RuleResolves(policyPublicKeys, ConvertRule(symbols, keys, r)) <=> Keyless(r)
<1> DEFINE c == ConvertRule(symbols, keys, r)
<1>1. /\ c.head = ConvertPredicate(symbols, r.head)
      /\ c.body = [i \in DOMAIN r.body |-> ConvertPredicate(symbols, r.body[i])]
      /\ c.exprs = [i \in DOMAIN r.exprs |-> ConvertExpression(symbols, r.exprs[i])]
      /\ c.scopes = [i \in DOMAIN r.scopes |-> ConvertScope(keys, r.scopes[i])]
  BY ConvertedRule
<1> HIDE DEF c
<1>2. Len(policyPublicKeys) = 0
  BY EmptyIsList DEF policyPublicKeys
<1>3. \A i \in DOMAIN r.scopes :
        ScopeResolves(policyPublicKeys, c.scopes[i]) <=> r.scopes[i].key = NoKey
  <2>1. SUFFICES ASSUME NEW i \in DOMAIN r.scopes
                 PROVE  ScopeResolves(policyPublicKeys, c.scopes[i]) <=> r.scopes[i].key = NoKey
    OBVIOUS
  <2> DEFINE s == r.scopes[i]
  <2>2. IsScope(s)
    BY DEF IsRule, IsListOf, Every
  <2>3. s.key # NoKey => s.key \in Range(keys)
    BY DEF ScopesCovered
  <2>4. /\ c.scopes[i].type = s.type
        /\ c.scopes[i].key = IF s.key = NoKey THEN 0 ELSE Index(keys, s.key)
    BY <1>1 DEF ConvertScope
  <2> HIDE DEF s
  <2>5. CASE s.key = NoKey
    BY <2>2, <2>4, <2>5 DEF IsScope, ScopeResolves, s
  <2>6. CASE s.key # NoKey
    <3>1. Index(keys, s.key) \in 0..(Len(keys) - 1)
      BY <2>3, <2>6, IndexResolves
    <3>2. Len(keys) \in Nat
      BY ListDomain
    <3>3. ~(c.scopes[i].key < 0) /\ c.scopes[i].type = 2
      BY <2>2, <2>4, <2>6, <3>1, <3>2 DEF IsScope
    <3>4. QED
      BY <1>2, <2>6, <3>3 DEF ScopeResolves, s
  <2>7. QED
    BY <2>5, <2>6
<1>4. RuleResolves(policyPublicKeys, c) <=>
        \A i \in DOMAIN r.scopes : ScopeResolves(policyPublicKeys, c.scopes[i])
  BY <1>1 DEF RuleResolves, Every
<1>5. QED
  BY <1>3, <1>4 DEF Keyless, c

(* A rule that is saved loads when it names no key, and then as it was.       *)
SavedRule(symbols, keys, r) == EncodeRule(ConvertRule(symbols, keys, r))

LEMMA SavedRuleLoads ==
  ASSUME NEW symbols, IsList(symbols), NEW keys, IsList(keys), NEW r, IsRule(r),
         RuleCovered(symbols, r), ScopesCovered(keys, keys, r.scopes), RuleEncodes(r)
  PROVE  LET w == SavedRule(symbols, keys, r)
         IN /\ RuleDecodes(w)
            /\ RuleLoads(w) <=> Keyless(r)
            /\ Keyless(r) => LoadedRule(symbols, w) = WholeRule(r)
<1> DEFINE c == ConvertRule(symbols, keys, r)
           w == SavedRule(symbols, keys, r)
<1>1. DatalogRule(c) /\ RuleEncodes(c)
  BY ConvertedRuleTyped, ConvertedRuleEncodes
<1>2. RuleResolves(policyPublicKeys, c) <=> Keyless(r)
  BY KeylessResolves
<1>3. Keyless(r) => ReadRule(symbols, policyPublicKeys, c) = WholeRule(r)
  <2>1. Keyless(r) => ScopesCovered(keys, policyPublicKeys, r.scopes)
    BY DEF Keyless, ScopesCovered
  <2>2. QED
    BY <2>1, RuleTrip
<1>4. w = EncodeRule(c)
  BY DEF SavedRule
<1> HIDE DEF c, w
<1>5. RuleDecodes(w) /\ DecodeRule(w) = c
  BY <1>1, <1>4, RuleWireTrip
<1>6. /\ RuleLoads(w) <=> Keyless(r)
      /\ Keyless(r) => LoadedRule(symbols, w) = WholeRule(r)
  BY <1>2, <1>3, <1>5 DEF RuleLoads, LoadedRule
<1>7. QED
  BY <1>5, <1>6 DEF w

(* An item of a section, saved.                                               *)
SavedQueries(symbols, keys, x) ==
  [i \in DOMAIN x.queries |-> SavedRule(symbols, keys, x.queries[i])]

SavedItem(symbols, keys, section, x) ==
  IF section = "facts" THEN EncodePredicate(ConvertPredicate(symbols, x))
  ELSE IF section = "rules" THEN SavedRule(symbols, keys, x)
  ELSE [queries |-> SavedQueries(symbols, keys, x),
        kind    |-> IF section = "checks" THEN EncodeKind(ConvertKind(x.kind)) ELSE x.kind]

ItemCovered(symbols, keys, section, x) ==
  IF section = "facts" THEN PredicateCovered(symbols, x)
  ELSE IF section = "rules" THEN RuleCovered(symbols, x) /\ ScopesCovered(keys, keys, x.scopes)
  ELSE QueriesCovered(symbols, keys, keys, x)

ItemEncodes(section, x) ==
  IF section = "facts" THEN PredicateEncodes(x)
  ELSE IF section = "rules" THEN RuleEncodes(x) ELSE QueriesEncode(x)

ItemKeyless(section, x) ==
  IF section = "facts" THEN TRUE
  ELSE IF section = "rules" THEN Keyless(x) ELSE \A i \in DOMAIN x.queries : Keyless(x.queries[i])

WholeItem(section, x) ==
  IF section = "facts" THEN WholePredicate(x)
  ELSE IF section = "rules" THEN WholeRule(x) ELSE WholeQueries(x)

LEMMA SavedFactLoads ==
  ASSUME NEW symbols, IsList(symbols), NEW f, IsPredicate(f), PredicateCovered(symbols, f),
         PredicateEncodes(f)
  PROVE  LET w == EncodePredicate(ConvertPredicate(symbols, f))
         IN /\ PredicateDecodes(w)
            /\ ReadPredicate(symbols, DecodePredicate(w)) = WholePredicate(f)
<1> DEFINE c == ConvertPredicate(symbols, f)
<1>1. \A i \in DOMAIN f.terms : TermEncodes(f.terms[i])
  BY DEF PredicateEncodes, Every
<1>2. \A i \in DOMAIN c.terms : TermEncodes(c.terms[i])
  BY <1>1, ConvertedPredicateEncodes
<1>3. PredicateEncodes(c)
  BY <1>2 DEF PredicateEncodes, Every
<1>4. QED
  BY <1>3, FactWritten

LEMMA SavedQueriesLoad ==
  ASSUME NEW symbols, IsList(symbols), NEW keys, IsList(keys), NEW x,
         IsListOf(IsRule, x.queries), QueriesCovered(symbols, keys, keys, x), QueriesEncode(x)
  PROVE  LET ws == SavedQueries(symbols, keys, x)
         IN /\ Every(RuleDecodes, ws)
            /\ Every(RuleLoads, ws) <=> \A i \in DOMAIN x.queries : Keyless(x.queries[i])
            /\ (\A i \in DOMAIN x.queries : Keyless(x.queries[i]))
                 => [i \in DOMAIN ws |-> LoadedRule(symbols, ws[i])] = WholeQueries(x).queries
<1> DEFINE ws == SavedQueries(symbols, keys, x)
<1>1. \A i \in DOMAIN x.queries : /\ IsRule(x.queries[i]) /\ RuleEncodes(x.queries[i])
                                  /\ RuleCovered(symbols, x.queries[i])
                                  /\ ScopesCovered(keys, keys, x.queries[i].scopes)
  BY DEF IsListOf, Every, QueriesCovered, QueriesEncode
<1>2. DOMAIN ws = DOMAIN x.queries
      /\ \A i \in DOMAIN x.queries : ws[i] = SavedRule(symbols, keys, x.queries[i])
  BY DEF SavedQueries
<1> HIDE DEF ws
<1>3. \A i \in DOMAIN x.queries :
        /\ RuleDecodes(ws[i])
        /\ RuleLoads(ws[i]) <=> Keyless(x.queries[i])
        /\ Keyless(x.queries[i]) => LoadedRule(symbols, ws[i]) = WholeRule(x.queries[i])
  <2>1. SUFFICES ASSUME NEW i \in DOMAIN x.queries
                 PROVE  /\ RuleDecodes(ws[i])
                        /\ RuleLoads(ws[i]) <=> Keyless(x.queries[i])
                        /\ Keyless(x.queries[i])
                             => LoadedRule(symbols, ws[i]) = WholeRule(x.queries[i])
    OBVIOUS
  <2> DEFINE r == x.queries[i]
  <2>2. /\ IsRule(r) /\ RuleEncodes(r) /\ RuleCovered(symbols, r)
        /\ ScopesCovered(keys, keys, r.scopes) /\ ws[i] = SavedRule(symbols, keys, r)
    BY <1>1, <1>2
  <2> HIDE DEF r
  <2>3. /\ RuleDecodes(ws[i])
        /\ RuleLoads(ws[i]) <=> Keyless(r)
        /\ Keyless(r) => LoadedRule(symbols, ws[i]) = WholeRule(r)
    BY <2>2, SavedRuleLoads
  <2>4. QED
    BY <2>3 DEF r
<1>4. WholeQueries(x).queries = [i \in DOMAIN x.queries |-> WholeRule(x.queries[i])]
  BY DEF WholeQueries, OverQueries, Map
<1>5. Every(RuleDecodes, ws)
      /\ (Every(RuleLoads, ws) <=> \A i \in DOMAIN x.queries : Keyless(x.queries[i]))
  BY <1>2, <1>3 DEF Every
<1>6. (\A i \in DOMAIN x.queries : Keyless(x.queries[i]))
        => [i \in DOMAIN ws |-> LoadedRule(symbols, ws[i])] = WholeQueries(x).queries
  BY <1>2, <1>3, <1>4
<1>7. QED
  BY <1>5, <1>6 DEF ws

LEMMA SavedItemLoads ==
  ASSUME NEW symbols, IsList(symbols), NEW keys, IsList(keys), NEW section \in Sections, NEW x,
         IsItem(section, x), ItemCovered(symbols, keys, section, x), ItemEncodes(section, x)
  PROVE  LET w == SavedItem(symbols, keys, section, x)
         IN /\ Loads(section, w) <=> ItemKeyless(section, x)
            /\ ItemKeyless(section, x) => Loaded(symbols, section, w) = WholeItem(section, x)
<1> DEFINE w == SavedItem(symbols, keys, section, x)
           all == \A i \in DOMAIN x.queries : Keyless(x.queries[i])
           ls == [i \in DOMAIN w.queries |-> LoadedRule(symbols, w.queries[i])]
<1>1. CASE section = "facts"
  <2>1. w = EncodePredicate(ConvertPredicate(symbols, x))
    BY <1>1 DEF SavedItem
  <2>2. IsPredicate(x) /\ PredicateCovered(symbols, x) /\ PredicateEncodes(x)
    BY <1>1 DEF IsItem, ItemCovered, ItemEncodes
  <2>3. PredicateDecodes(w) /\ ReadPredicate(symbols, DecodePredicate(w)) = WholePredicate(x)
    BY <2>1, <2>2, SavedFactLoads
  <2> HIDE DEF w
  <2>4. /\ Loaded(symbols, "facts", w) = ReadPredicate(symbols, DecodePredicate(w))
        /\ Loads("facts", w) <=> PredicateDecodes(w)
    BY LoadedCases
  <2>5. QED
    BY <1>1, <2>3, <2>4 DEF ItemKeyless, WholeItem, w
<1>2. CASE section = "rules"
  <2>1. w = SavedRule(symbols, keys, x)
    BY <1>2 DEF SavedItem
  <2>2. IsRule(x) /\ RuleCovered(symbols, x) /\ ScopesCovered(keys, keys, x.scopes) /\ RuleEncodes(x)
    BY <1>2 DEF IsItem, ItemCovered, ItemEncodes
  <2>3. /\ RuleLoads(w) <=> Keyless(x)
        /\ Keyless(x) => LoadedRule(symbols, w) = WholeRule(x)
    BY <2>1, <2>2, SavedRuleLoads
  <2> HIDE DEF w
  <2>4. /\ Loaded(symbols, "rules", w) = LoadedRule(symbols, w)
        /\ Loads("rules", w) <=> RuleLoads(w)
    BY LoadedCases
  <2>5. QED
    BY <1>2, <2>3, <2>4 DEF ItemKeyless, WholeItem, w
<1>3. ASSUME section \in {"checks", "policies"}
      PROVE  /\ w.queries = SavedQueries(symbols, keys, x)
             /\ w.kind = IF section = "checks" THEN EncodeKind(ConvertKind(x.kind)) ELSE x.kind
             /\ ItemKeyless(section, x) <=> all
             /\ Every(RuleDecodes, w.queries)
             /\ Every(RuleLoads, w.queries) <=> all
             /\ all => ls = WholeQueries(x).queries
  <2>1. /\ w.queries = SavedQueries(symbols, keys, x)
        /\ w.kind = IF section = "checks" THEN EncodeKind(ConvertKind(x.kind)) ELSE x.kind
    BY <1>3 DEF SavedItem
  <2>2. /\ IsListOf(IsRule, x.queries)
        /\ QueriesCovered(symbols, keys, keys, x) /\ QueriesEncode(x)
    BY <1>3 DEF IsItem, IsCheck, IsPolicy, ItemCovered, ItemEncodes
  <2>3. ItemKeyless(section, x) <=> all
    BY <1>3 DEF ItemKeyless
  <2> HIDE DEF w
  <2>4. QED
    BY <2>1, <2>2, <2>3, SavedQueriesLoad
<1>4. WholeQueries(x) = [queries |-> WholeQueries(x).queries, kind |-> x.kind]
  BY DEF WholeQueries, OverQueries
<1>5. CASE section = "checks"
  <2>1. x.kind \in {"one", "all", "reject"}
    BY <1>5 DEF IsItem, IsCheck
  <2>2. w.kind \in {"nil", "all", "reject"} /\ ConvertKind(ConvertKind(w.kind)) = x.kind
    BY <1>3, <1>5, <2>1 DEF EncodeKind, ConvertKind
  <2> HIDE DEF w
  <2>3. CheckDecodes(w)
    BY <1>3, <1>5, <2>2 DEF CheckDecodes
  <2>4. /\ Loaded(symbols, "checks", w) = [queries |-> ls, kind |-> ConvertKind(ConvertKind(w.kind))]
        /\ Loads("checks", w) <=> CheckDecodes(w) /\ Every(RuleLoads, w.queries)
    BY LoadedCases
  <2> HIDE DEF ls
  <2>5. all => Loaded(symbols, "checks", w) = WholeQueries(x)
    BY <1>3, <1>4, <1>5, <2>2, <2>4
  <2>6. QED
    BY <1>3, <1>5, <2>3, <2>4, <2>5 DEF WholeItem, w
<1>6. CASE section = "policies"
  <2>1. w.kind = x.kind /\ x.kind \in {"allow", "deny"}
    BY <1>3, <1>6 DEF IsItem, IsPolicy
  <2> HIDE DEF w
  <2>2. /\ Loaded(symbols, "policies", w) = [queries |-> ls, kind |-> w.kind]
        /\ Loads("policies", w) <=> w.kind \in {"allow", "deny"} /\ Every(RuleLoads, w.queries)
    BY LoadedCases
  <2> HIDE DEF ls
  <2>3. all => Loaded(symbols, "policies", w) = WholeQueries(x)
    BY <1>3, <1>4, <1>6, <2>1, <2>2
  <2>4. QED
    BY <1>3, <1>6, <2>1, <2>2, <2>3 DEF WholeItem, w
<1>7. QED
  BY <1>1, <1>2, <1>5, <1>6 DEF Sections

LEMMA AllRulesAre ==
  ASSUME NEW b, Contents(b)
  PROVE  \A r : r \in Range(AllRules(b)) <=>
           \/ r \in Range(b.rules)
           \/ \E i \in DOMAIN b.checks : r \in Range(b.checks[i].queries)
           \/ \E i \in DOMAIN b.policies : r \in Range(b.policies[i].queries)
<1> DEFINE cs == Queries(b.checks)
           ps == Queries(b.policies)
<1>1. /\ IsList(b.rules) /\ IsList(b.checks) /\ IsList(b.policies)
      /\ \A i \in DOMAIN b.checks : IsList(b.checks[i].queries)
      /\ \A i \in DOMAIN b.policies : IsList(b.policies[i].queries)
  BY DEF Contents, IsListOf, Every, IsList, IsCheck, IsPolicy
<1>2. /\ IsList(cs)
      /\ \A r : r \in Range(cs) <=> \E i \in DOMAIN b.checks : r \in Range(b.checks[i].queries)
  BY <1>1, QueriesHold
<1>3. /\ IsList(ps)
      /\ \A r : r \in Range(ps) <=> \E i \in DOMAIN b.policies : r \in Range(b.policies[i].queries)
  BY <1>1, QueriesHold
<1>4. AllRules(b) = b.rules \o cs \o ps
  BY DEF AllRules
<1> HIDE DEF cs, ps
<1>5. IsList(b.rules \o cs) /\ Range(b.rules \o cs) = Range(b.rules) \cup Range(cs)
  BY <1>1, <1>2, ConcatIsList, ConcatElements
<1>6. Range(AllRules(b)) = Range(b.rules \o cs) \cup Range(ps)
  BY <1>3, <1>4, <1>5, ConcatElements
<1>7. QED
  BY <1>2, <1>3, <1>5, <1>6

SavedSymbols(b) == InsertAll(<<>>, Words(b))
SavedKeys(b) == InsertAll(<<>>, Keys(b))

LEMMA SavedTables ==
  ASSUME NEW b, Contents(b)
  PROVE  /\ IsList(SavedSymbols(b)) /\ IsList(SavedKeys(b))
         /\ \A f \in Range(b.facts) : PredicateCovered(SavedSymbols(b), f)
         /\ \A r \in Range(AllRules(b)) : /\ RuleCovered(SavedSymbols(b), r)
                                          /\ ScopesCovered(SavedKeys(b), SavedKeys(b), r.scopes)
<1> DEFINE symbols == SavedSymbols(b)
           keys == SavedKeys(b)
<1>1. IsList(Words(b)) /\ IsList(Keys(b))
  BY ContentsWords, ContentsKeys
<1>2. Grows(<<>>, Range(Words(b)), symbols) /\ Grows(<<>>, Range(Keys(b)), keys)
  BY <1>1, EmptyIsList, InsertAllGrows DEF SavedSymbols, SavedKeys
<1> HIDE DEF symbols, keys
<1>3. /\ IsList(symbols) /\ Range(Words(b)) \subseteq Range(symbols)
      /\ IsList(keys) /\ Range(Keys(b)) \subseteq Range(keys)
  BY <1>2 DEF Grows
<1>4. QED
  BY <1>3, ContentsWords, ContentsKeys DEF symbols, keys

(* What is saved of a section, item by item.                                  *)
LEMMA SerializedItems ==
  ASSUME NEW b, NEW section \in Sections
  PROVE  /\ Serialized(b)[section] =
              [i \in DOMAIN b[section] |->
                 SavedItem(SavedSymbols(b), SavedKeys(b), section, b[section][i])]
         /\ Serialized(b).symbols = SavedSymbols(b)
         /\ Supported(Serialized(b))
<1> DEFINE symbols == SavedSymbols(b)
           keys == SavedKeys(b)
           s == Serialized(b)
<1>1. s = [version  |-> MaxSchemaVersion,
           symbols  |-> symbols,
           facts    |-> [i \in DOMAIN b.facts |-> EncodePredicate(ConvertPredicate(symbols, b.facts[i]))],
           rules    |-> [i \in DOMAIN b.rules |-> SavedRule(symbols, keys, b.rules[i])],
           checks   |-> [i \in DOMAIN b.checks |->
                           EncodeCheck(ConvertCheck(symbols, keys, b.checks[i]))],
           policies |-> [i \in DOMAIN b.policies |->
                           [queries |-> SavedQueries(symbols, keys, b.policies[i]),
                            kind    |-> b.policies[i].kind]]]
  BY DEF Serialized, SavedSymbols, SavedKeys, Map, OverQueries, SavedRule, SavedQueries
<1>2. \A c : EncodeCheck(ConvertCheck(symbols, keys, c))
               = [queries |-> SavedQueries(symbols, keys, c), kind |-> EncodeKind(ConvertKind(c.kind))]
  BY DEF EncodeCheck, ConvertCheck, OverQueries, Map, SavedRule, SavedQueries
<1> HIDE DEF symbols, keys, s
<1>3. s.symbols = symbols /\ Supported(s)
  BY <1>1 DEF Supported, MinSchemaVersion, MaxSchemaVersion
<1>4. CASE section = "facts"
  BY <1>1, <1>3, <1>4 DEF SavedItem, symbols, keys, s
<1>5. CASE section = "rules"
  BY <1>1, <1>3, <1>5 DEF SavedItem, symbols, keys, s
<1>6. CASE section = "checks"
  BY <1>1, <1>2, <1>3, <1>6 DEF SavedItem, symbols, keys, s
<1>7. CASE section = "policies"
  BY <1>1, <1>3, <1>7 DEF SavedItem, symbols, keys, s
<1>8. QED
  BY <1>4, <1>5, <1>6, <1>7 DEF Sections

(* What an authorizer builder holds, section by section.                      *)
Holds(b) ==
  \A section \in Sections :
    IsList(b[section]) /\ \A x \in Range(b[section]) : IsItem(section, x)

LEMMA HoldsContents ==
  ASSUME NEW b, Holds(b)
  PROVE  Contents(b)
<1>1. /\ IsList(b.facts) /\ \A x \in Range(b.facts) : IsPredicate(x)
      /\ IsList(b.rules) /\ \A x \in Range(b.rules) : IsRule(x)
      /\ IsList(b.checks) /\ \A x \in Range(b.checks) : IsCheck(x)
      /\ IsList(b.policies) /\ \A x \in Range(b.policies) : IsPolicy(x)
  BY DEF Holds, IsItem, Sections
<1>2. QED
  BY <1>1, RangeOf DEF Contents, IsListOf, Every, IsList

LEMMA HeldItems ==
  ASSUME NEW b, Holds(b), Encodes(b), NEW section \in Sections, NEW i \in DOMAIN b[section]
  PROVE  LET x == b[section][i]
         IN /\ IsItem(section, x)
            /\ ItemCovered(SavedSymbols(b), SavedKeys(b), section, x)
            /\ ItemEncodes(section, x)
<1> DEFINE x == b[section][i]
           symbols == SavedSymbols(b)
           keys == SavedKeys(b)
<1>1. Contents(b)
  BY HoldsContents
<1>2. /\ \A f \in Range(b.facts) : PredicateCovered(symbols, f)
      /\ \A r \in Range(AllRules(b)) : RuleCovered(symbols, r) /\ ScopesCovered(keys, keys, r.scopes)
  BY <1>1, SavedTables
<1>3. \A f \in Range(b.facts) : PredicateEncodes(f)
  BY DEF Encodes, Every, Range
<1>4. \A r \in Range(AllRules(b)) : RuleEncodes(r)
  BY DEF Encodes, AllRules, Every, Range
<1> HIDE DEF symbols, keys, x
<1>5. IsList(b[section]) /\ x \in Range(b[section]) /\ IsItem(section, x)
  BY RangeOf DEF Holds, x
<1>6. CASE section = "facts"
  BY <1>2, <1>3, <1>5, <1>6 DEF ItemCovered, ItemEncodes, x, symbols
<1>7. CASE section = "rules"
  <2>1. x \in Range(AllRules(b))
    BY <1>1, <1>5, <1>7, AllRulesAre
  <2>2. QED
    BY <1>2, <1>4, <1>5, <1>7, <2>1 DEF ItemCovered, ItemEncodes, x, symbols, keys
<1>8. CASE section \in {"checks", "policies"}
  <2>1. IsList(x.queries)
    BY <1>5, <1>8 DEF IsItem, IsCheck, IsPolicy, IsListOf, IsList
  <2>2. Range(x.queries) \subseteq Range(AllRules(b))
    BY <1>1, <1>8, AllRulesAre DEF x
  <2>3. \A j \in DOMAIN x.queries : x.queries[j] \in Range(AllRules(b))
    BY <2>1, <2>2, RangeOf
  <2>4. QueriesCovered(symbols, keys, keys, x) /\ QueriesEncode(x)
    BY <1>2, <1>4, <2>3 DEF QueriesCovered, QueriesEncode, Every
  <2>5. QED
    BY <1>5, <1>8, <2>4 DEF ItemCovered, ItemEncodes, x, symbols, keys
<1>9. QED
  BY <1>6, <1>7, <1>8 DEF Sections

LEMMA HeldKeyless ==
  ASSUME NEW b, Holds(b)
  PROVE  Keys(b) = <<>> <=>
           \A section \in Sections : \A i \in DOMAIN b[section] : ItemKeyless(section, b[section][i])
<1>1. Contents(b)
  BY HoldsContents
<1>2. /\ IsList(b.rules)
      /\ \A i \in DOMAIN b.checks : IsList(b.checks[i].queries)
      /\ \A i \in DOMAIN b.policies : IsList(b.policies[i].queries)
  BY <1>1 DEF Contents, IsListOf, Every, IsList, IsCheck, IsPolicy
<1>3. (\A r \in Range(AllRules(b)) : Keyless(r)) <=>
        /\ \A i \in DOMAIN b.rules : Keyless(b.rules[i])
        /\ \A i \in DOMAIN b.checks : \A r \in Range(b.checks[i].queries) : Keyless(r)
        /\ \A i \in DOMAIN b.policies : \A r \in Range(b.policies[i].queries) : Keyless(r)
  BY <1>1, <1>2, AllRulesAre, RangeOf
<1>4. /\ \A i \in DOMAIN b.checks :
           (\A r \in Range(b.checks[i].queries) : Keyless(r)) <=> ItemKeyless("checks", b.checks[i])
      /\ \A i \in DOMAIN b.policies :
           (\A r \in Range(b.policies[i].queries) : Keyless(r))
             <=> ItemKeyless("policies", b.policies[i])
  BY <1>2, RangeOf DEF ItemKeyless
<1>5. (\A section \in Sections : \A i \in DOMAIN b[section] : ItemKeyless(section, b[section][i])) <=>
        /\ \A i \in DOMAIN b.rules : Keyless(b.rules[i])
        /\ \A i \in DOMAIN b.checks : ItemKeyless("checks", b.checks[i])
        /\ \A i \in DOMAIN b.policies : ItemKeyless("policies", b.policies[i])
  BY DEF Sections, ItemKeyless
<1>6. QED
  BY <1>1, <1>3, <1>4, <1>5, ContentsKeyless

(* A section is accepted up to the first item that does not load.             *)
LEMMA AcceptedStops ==
  ASSUME NEW m, NEW section, IsList(m[section])
  PROVE  LET n == Len(Accepted(m, section))
         IN /\ \A i \in 1..n : Loads(section, m[section][i])
            /\ n # Len(m[section]) => \E i \in DOMAIN m[section] : ~Loads(section, m[section][i])
<1> DEFINE s == m[section]
           refusedAt == {i \in DOMAIN s : ~Loads(section, s[i])}
<1>1. Len(s) \in Nat /\ DOMAIN s = 1..Len(s)
  BY ListDomain
<1>2. CASE refusedAt = {}
  <2>1. Accepted(m, section) = s
    BY <1>2 DEF Accepted
  <2>2. \A i \in DOMAIN s : Loads(section, s[i])
    BY <1>2
  <2>3. QED
    BY <1>1, <2>1, <2>2
<1>3. CASE refusedAt # {}
  <2> DEFINE first == CHOOSE i \in refusedAt : \A j \in refusedAt : i <= j
  <2>1. Accepted(m, section) = SubSeq(s, 1, first - 1)
    BY <1>3 DEF Accepted
  <2>2. \E i \in DOMAIN s : ~Loads(section, s[i])
    BY <1>3
  <2>3. /\ refusedAt \subseteq Nat /\ refusedAt \subseteq 1..Len(s)
        /\ \A i \in 1..Len(s) : i \notin refusedAt => Loads(section, s[i])
    BY <1>1
  <2> HIDE DEF refusedAt
  <2>4. \E i \in refusedAt : \A j \in refusedAt : i <= j
    BY <1>3, <2>3, LeastElement
  <2>5. first \in refusedAt /\ \A j \in refusedAt : first <= j
    BY <2>4
  <2> HIDE DEF first, s
  <2>6. first \in 1..Len(s)
    BY <2>3, <2>5
  <2> DEFINE n == first - 1
  <2>7. n \in 0..Len(s)
    BY <1>1, <2>6
  <2>8. \A i \in 1..n : Loads(section, s[i])
    <3>1. SUFFICES ASSUME NEW i \in 1..n PROVE Loads(section, s[i])
      OBVIOUS
    <3>2. i \in 1..Len(s) /\ ~(first <= i)
      BY <1>1, <2>6
    <3>3. QED
      BY <2>3, <2>5, <3>2
  <2> HIDE DEF n
  <2>9. Len(SubSeq(s, 1, n)) = n
    <3>1. \A i \in 1..n : s[i] \in Range(s)
      BY <1>1, <2>7, RangeOf DEF s
    <3>2. 1 \in Int /\ n \in Int
      BY <2>7
    <3>3. Len(SubSeq(s, 1, n)) = IF 1 <= n THEN n - 1 + 1 ELSE 0
      BY <3>1, <3>2, SubSeqProperties
    <3>4. QED
      BY <2>7, <3>3
  <2>10. Len(Accepted(m, section)) = n
    BY <2>1, <2>9 DEF n
  <2>11. QED
    BY <2>2, <2>8, <2>10 DEF s
<1>4. QED
  BY <1>2, <1>3

LEMMA AcceptedLength ==
  ASSUME NEW m, NEW section, IsList(m[section])
  PROVE  Complete(m, section) <=> Len(Accepted(m, section)) = Len(m[section])
<1> DEFINE a == Accepted(m, section)
           s == m[section]
<1>1. a = SubSeq(s, 1, Len(a))
  BY AcceptedIsPrefix
<1>2. Len(s) \in Nat /\ s \in Seq(Range(s))
  BY ListDomain DEF IsList
<1> HIDE DEF a, s
<1>3. SubSeq(s, 1, Len(s)) = s
  BY <1>2
<1>4. a = s <=> Len(a) = Len(s)
  BY <1>1, <1>3
<1>5. QED
  BY <1>4 DEF Complete, a, s

(* A section is accepted whole when each of its items loads.                  *)
LEMMA CompleteSections ==
  ASSUME NEW m, NEW section, IsList(m[section])
  PROVE  Complete(m, section) <=> \A i \in DOMAIN m[section] : Loads(section, m[section][i])
<1>1. DOMAIN m[section] = 1..Len(m[section])
  BY ListDomain
<1>2. QED
  BY <1>1, AcceptedStops, AcceptedLength

LEMMA SectionsInOrder ==
  /\ Before("facts") = 1 /\ Before("rules") = 2
  /\ Before("checks") = 3 /\ Before("policies") = 4
<1>1. DOMAIN LoadOrder = 1..4
  BY DEF LoadOrder
<1>2. /\ LoadOrder[1] = "facts" /\ LoadOrder[2] = "rules"
      /\ LoadOrder[3] = "checks" /\ LoadOrder[4] = "policies"
  BY DEF LoadOrder
<1>3. \A n \in 1..4 : n = 1 \/ n = 2 \/ n = 3 \/ n = 4
  OBVIOUS
<1>4. \A n \in DOMAIN LoadOrder : /\ LoadOrder[n] = "facts" <=> n = 1
                                  /\ LoadOrder[n] = "rules" <=> n = 2
  BY <1>1, <1>2, <1>3
<1>5. 1 \in DOMAIN LoadOrder /\ 2 \in DOMAIN LoadOrder
  BY <1>1
<1>6. Before("facts") = 1 /\ Before("rules") = 2
  BY <1>4, <1>5 DEF Before
<1>7. QED
  BY <1>6, Positions

(* A load that reaches the end of each section has accepted every section.    *)
LEMMA WholeLoads ==
  ASSUME NEW m, \A section \in Sections : IsList(m[section])
  PROVE  /\ (\A section \in Sections : Len(LoadedSection(m, section)) = Len(m[section]))
              <=> \A section \in Sections : Complete(m, section)
         /\ (\A section \in Sections : Complete(m, section))
              => \A section \in Sections :
                   LoadedSection(m, section) =
                     [i \in DOMAIN m[section] |-> Loaded(m.symbols, section, m[section][i])]
<1> DEFINE Reached(section) == \A i \in 1..(Before(section) - 1) : Complete(m, LoadOrder[i])
<1>1. /\ Reached("facts")
      /\ Complete(m, "facts") => Reached("rules")
      /\ Complete(m, "facts") /\ Complete(m, "rules") => Reached("checks")
      /\ Complete(m, "facts") /\ Complete(m, "rules") /\ Complete(m, "checks")
           => Reached("policies")
  <2>1. LoadOrder[1] = "facts" /\ LoadOrder[2] = "rules" /\ LoadOrder[3] = "checks"
    BY Positions
  <2>2. 1..0 = {} /\ 1..1 = {1} /\ 1..2 = {1, 2} /\ 1..3 = {1, 2, 3}
    OBVIOUS
  <2>3. /\ 1..(Before("facts") - 1) = {} /\ 1..(Before("rules") - 1) = {1}
        /\ 1..(Before("checks") - 1) = {1, 2} /\ 1..(Before("policies") - 1) = {1, 2, 3}
    BY <2>2, SectionsInOrder
  <2>4. QED
    BY <2>1, <2>3
<1>2. ASSUME NEW section \in Sections, Reached(section)
      PROVE  /\ LoadedSection(m, section) = AllLoaded(m, section)
             /\ Len(LoadedSection(m, section)) = Len(m[section]) <=> Complete(m, section)
  <2>1. LoadedSection(m, section) = AllLoaded(m, section)
    BY <1>2, LoadedSectionCases
  <2>2. Len(AllLoaded(m, section)) = Len(Accepted(m, section))
    BY AllLoadedIsList
  <2>3. QED
    BY <2>1, <2>2, AcceptedLength
<1> HIDE DEF Reached
<1>3. ASSUME \A section \in Sections : Complete(m, section)
      PROVE  \A section \in Sections : Reached(section)
  BY <1>1, <1>3 DEF Sections
<1>4. ASSUME \A section \in Sections : Len(LoadedSection(m, section)) = Len(m[section])
      PROVE  \A section \in Sections : Complete(m, section)
  <2>1. Complete(m, "facts")
    BY <1>1, <1>2, <1>4 DEF Sections
  <2>2. Complete(m, "rules")
    BY <1>1, <1>2, <1>4, <2>1 DEF Sections
  <2>3. Complete(m, "checks")
    BY <1>1, <1>2, <1>4, <2>1, <2>2 DEF Sections
  <2>4. Complete(m, "policies")
    BY <1>1, <1>2, <1>4, <2>1, <2>2, <2>3 DEF Sections
  <2>5. QED
    BY <2>1, <2>2, <2>3, <2>4 DEF Sections
<1>5. ASSUME \A section \in Sections : Complete(m, section)
      PROVE  \A section \in Sections :
               LoadedSection(m, section) =
                 [i \in DOMAIN m[section] |-> Loaded(m.symbols, section, m[section][i])]
  BY <1>2, <1>3, <1>5 DEF AllLoaded, Complete
<1>6. QED
  BY <1>2, <1>3, <1>4, <1>5

(* An item that was saved loads when it names no key, and then as it was.     *)
LEMMA SavedItemsLoad ==
  ASSUME NEW b, Holds(b), Encodes(b), NEW section \in Sections, NEW i \in DOMAIN b[section]
  PROVE  LET m == Serialized(b)
         IN /\ Loads(section, m[section][i]) <=> ItemKeyless(section, b[section][i])
            /\ ItemKeyless(section, b[section][i])
                 => Loaded(m.symbols, section, m[section][i]) = WholeItem(section, b[section][i])
<1> DEFINE m == Serialized(b)
           symbols == SavedSymbols(b)
           keys == SavedKeys(b)
           x == b[section][i]
<1>1. /\ m[section] = [j \in DOMAIN b[section] |-> SavedItem(symbols, keys, section, b[section][j])]
      /\ m.symbols = symbols
  BY SerializedItems
<1>2. IsList(symbols) /\ IsList(keys)
  BY HoldsContents, SavedTables
<1>3. IsItem(section, x) /\ ItemCovered(symbols, keys, section, x) /\ ItemEncodes(section, x)
  BY HeldItems
<1> HIDE DEF m, symbols, keys
<1>4. m[section][i] = SavedItem(symbols, keys, section, x)
  BY <1>1
<1> HIDE DEF x
<1>5. /\ Loads(section, m[section][i]) <=> ItemKeyless(section, x)
      /\ ItemKeyless(section, x) => Loaded(m.symbols, section, m[section][i]) = WholeItem(section, x)
  BY <1>1, <1>2, <1>3, <1>4, SavedItemLoads
<1>6. QED
  BY <1>5 DEF m, x

(* What was saved loads when no item of it names a key, and then as it was.   *)
LEMMA SavedLoads ==
  ASSUME NEW b, Holds(b), Encodes(b),
         \A section \in Sections : IsList(Serialized(b)[section])
  PROVE  LET m == Serialized(b)
         IN /\ (\A section \in Sections : Len(LoadedSection(m, section)) = Len(m[section]))
                 <=> Keys(b) = <<>>
            /\ Keys(b) = <<>> => \A section \in Sections :
                                   LoadedSection(m, section) = Whole(section, b[section])
<1> DEFINE m == Serialized(b)
<1>1. \A section \in Sections :
        /\ m[section] = [i \in DOMAIN b[section] |->
                           SavedItem(SavedSymbols(b), SavedKeys(b), section, b[section][i])]
        /\ m.symbols = SavedSymbols(b)
        /\ Supported(m)
  BY SerializedItems
<1>2. \A section \in Sections : IsList(m[section])
  OBVIOUS
<1>3. \A section \in Sections : \A i \in DOMAIN b[section] :
        /\ Loads(section, m[section][i]) <=> ItemKeyless(section, b[section][i])
        /\ ItemKeyless(section, b[section][i])
             => Loaded(m.symbols, section, m[section][i]) = WholeItem(section, b[section][i])
  BY SavedItemsLoad
<1> HIDE DEF m
<1>4. (\A section \in Sections : Complete(m, section)) <=> Keys(b) = <<>>
  <2>1. \A section \in Sections :
          Complete(m, section) <=> \A i \in DOMAIN b[section] : ItemKeyless(section, b[section][i])
    BY <1>1, <1>2, <1>3, CompleteSections
  <2>2. QED
    BY <2>1, HeldKeyless
<1>5. ASSUME Keys(b) = <<>>, NEW section \in Sections
      PROVE  LoadedSection(m, section) = Whole(section, b[section])
  <2>1. LoadedSection(m, section)
          = [i \in DOMAIN m[section] |-> Loaded(m.symbols, section, m[section][i])]
    BY <1>2, <1>4, <1>5, WholeLoads
  <2>2. \A i \in DOMAIN b[section] : ItemKeyless(section, b[section][i])
    BY <1>5, HeldKeyless
  <2>3. LoadedSection(m, section) = [i \in DOMAIN b[section] |-> WholeItem(section, b[section][i])]
    BY <1>1, <1>3, <2>1, <2>2
  <2>4. Whole(section, b[section]) = [i \in DOMAIN b[section] |-> WholeItem(section, b[section][i])]
    BY DEF Whole, WholeItem, Map
  <2>5. QED
    BY <2>3, <2>4
<1>6. (\A section \in Sections : Len(LoadedSection(m, section)) = Len(m[section])) <=> Keys(b) = <<>>
  BY <1>2, <1>4, WholeLoads
<1>7. QED
  BY <1>5, <1>6 DEF m

LEMMA WholeItemIs ==
  ASSUME NEW section \in Sections, NEW x, IsItem(section, x)
  PROVE  IsItem(section, WholeItem(section, x))
<1>1. CASE section = "facts"
  BY <1>1, WholePredicateIs DEF IsItem, WholeItem
<1>2. CASE section = "rules"
  BY <1>2, WholeRuleIs DEF IsItem, WholeItem
<1>3. CASE section = "checks"
  BY <1>3, WholeQueriesIs DEF IsItem, WholeItem, IsCheck
<1>4. CASE section = "policies"
  BY <1>4, WholeQueriesIs DEF IsItem, WholeItem, IsPolicy
<1>5. QED
  BY <1>1, <1>2, <1>3, <1>4 DEF Sections

(* Every builder holds what its author may write, and what was saved is a     *)
(* builder's contents in writing.                                             *)
BuildersHold ==
  /\ \A b \in Builder : Holds(builders[b])
  /\ Holds(saved.of) /\ Encodes(saved.of)
  /\ saved.policies = Serialized(saved.of)

(* What a load adds is what an author may write.                              *)
LEMMA GainedItems ==
  ASSUME BuildersTyped, BuildersHold, NEW m \in {saved.policies} \cup Foreign, NEW section \in Sections
  PROVE  \A x \in Range(Gains(m, section)) : IsItem(section, x)
<1> DEFINE a == Accepted(m, section)
           l == AllLoaded(m, section)
<1>1. IsList(m[section])
  BY MessageLists
<1>2. /\ IsList(a) /\ DOMAIN a = 1..Len(a)
      /\ \A i \in DOMAIN a : a[i] = m[section][i] /\ i \in DOMAIN m[section] /\ Loads(section, m[section][i])
  <2>1. IsList(a) /\ DOMAIN a = 1..Len(a) /\ Len(a) \in Nat
        /\ DOMAIN m[section] = 1..Len(m[section]) /\ Len(m[section]) \in Nat
    BY <1>1, AcceptedIsPrefix, ListDomain
  <2>2. Len(a) <= Len(m[section]) /\ \A i \in 1..Len(a) : a[i] = m[section][i]
    BY <1>1, AcceptedIsPrefix
  <2>3. \A i \in 1..Len(a) : Loads(section, m[section][i])
    BY <1>1, AcceptedStops
  <2> HIDE DEF a
  <2>4. QED
    BY <2>1, <2>2, <2>3
<1>3. ASSUME NEW i \in DOMAIN m[section], Loads(section, m[section][i])
      PROVE  IsItem(section, Loaded(m.symbols, section, m[section][i]))
  <2>1. CASE m \in Foreign
    <3>1. IsWireItem(section, m[section][i])
      BY <2>1, ForeignAssumption DEF IsListOf, Every, IsWireItem, Sections
    <3>2. QED
      BY <1>3, <3>1, WireItemLoads
  <2>2. CASE m = saved.policies
    <3> DEFINE b == saved.of
               x == b[section][i]
    <3>1. Holds(b) /\ Encodes(b) /\ m = Serialized(b)
      BY <2>2 DEF BuildersHold
    <3> HIDE DEF b
    <3>2. i \in DOMAIN b[section]
      <4>1. Serialized(b)[section] = [j \in DOMAIN b[section] |->
              SavedItem(SavedSymbols(b), SavedKeys(b), section, b[section][j])]
        BY SerializedItems
      <4>2. DOMAIN m[section] = DOMAIN b[section]
        BY <3>1, <4>1
      <4>3. QED
        BY <4>2
    <3>3. IsItem(section, x)
      BY <3>1, <3>2, HeldItems
    <3>4. Loaded(m.symbols, section, m[section][i]) = WholeItem(section, x)
      BY <1>3, <3>1, <3>2, SavedItemsLoad
    <3>5. QED
      BY <3>3, <3>4, WholeItemIs
  <2>3. QED
    BY <2>1, <2>2
<1>4. /\ IsList(l) /\ DOMAIN l = DOMAIN a
      /\ \A i \in DOMAIN a : l[i] = Loaded(m.symbols, section, a[i])
  BY <1>1, AllLoadedIsList DEF AllLoaded
<1> HIDE DEF a, l
<1>5. \A i \in DOMAIN l : IsItem(section, l[i])
  BY <1>2, <1>3, <1>4
<1>6. \A x \in Range(l) : IsItem(section, x)
  BY <1>4, <1>5, RangeOf
<1>7. Gains(m, section) = l \/ Gains(m, section) = <<>>
  BY LoadedSectionCases DEF Gains, l
<1>8. QED
  BY <1>6, <1>7, OneIsList

(* No step puts anything else into a builder.                                 *)

LEMMA AppendHolds ==
  ASSUME NEW s, IsList(s), NEW x
  PROVE  Range(Append(s, x)) \subseteq Range(s) \cup {x}
<1>1. s \in Seq(Range(s) \cup {x})
  BY SeqMonotonic DEF IsList
<1>2. Append(s, x) \in Seq(Range(s) \cup {x})
  BY <1>1, AppendProperties
<1>3. QED
  BY <1>2, SeqIsList

LEMMA NothingHolds == Holds(Nothing) /\ Encodes(Nothing)
<1>1. \A section \in Sections : Nothing[section] = <<>>
  BY DEF Nothing, Sections
<1>2. Holds(Nothing)
  BY <1>1, OneIsList DEF Holds
<1>3. Range(AllRules(Nothing)) = {}
  <2>1. /\ Range(Nothing.rules) = {}
        /\ DOMAIN Nothing.checks = {} /\ DOMAIN Nothing.policies = {}
    BY <1>1, OneIsList DEF Sections, Range
  <2>2. QED
    BY <1>2, <2>1, HoldsContents, AllRulesAre
<1>4. IsList(AllRules(Nothing))
  BY <1>2, HoldsContents, AllRulesHold
<1>5. DOMAIN AllRules(Nothing) = {}
  BY <1>3, <1>4, RangeOf
<1>6. Every(RuleEncodes, AllRules(Nothing))
  BY <1>5 DEF Every
<1>7. Every(PredicateEncodes, Nothing.facts)
  BY <1>1, OneIsList DEF Every, Sections, Range
<1>8. QED
  BY <1>2, <1>6, <1>7 DEF Encodes, AllRules

LEMMA AddHolds ==
  ASSUME BuildersTyped, BuildersHold, NEW b \in Builder,
         NEW section \in Sections \cup {"scopes"}, NEW item,
         section = "scopes" \/ IsItem(section, item), Add(b, section, item)
  PROVE  BuildersHold'
<1>1. /\ builders' = [builders EXCEPT ![b][section] = Append(@, item)]
      /\ saved' = saved
  BY DEF Add
<1>2. \A c \in Builder \ {b} : builders'[c] = builders[c]
  BY <1>1 DEF BuildersTyped
<1>3. \A s \in Sections :
        builders'[b][s] = IF s = section THEN Append(builders[b][s], item) ELSE builders[b][s]
  BY <1>1 DEF BuildersTyped, Lists
<1>4. Holds(builders[b])
  BY DEF BuildersHold
<1>5. ASSUME NEW s \in Sections
      PROVE  IsList(builders'[b][s]) /\ \A x \in Range(builders'[b][s]) : IsItem(s, x)
  <2>1. IsList(builders[b][s]) /\ \A x \in Range(builders[b][s]) : IsItem(s, x)
    BY <1>4 DEF Holds
  <2>2. CASE s = section
    <3>1. IsItem(s, item)
      BY <2>2 DEF Sections
    <3>2. QED
      BY <1>3, <2>1, <2>2, <3>1, AppendIsList, AppendHolds
  <2>3. CASE s # section
    BY <1>3, <2>1, <2>3
  <2>4. QED
    BY <2>2, <2>3
<1>6. Holds(builders'[b])
  BY <1>5 DEF Holds
<1>7. QED
  BY <1>1, <1>2, <1>6 DEF BuildersHold

(* Lists that grow by items of their section.                                 *)
LEMMA ConcatHolds ==
  ASSUME NEW section, NEW s, NEW t, IsList(s), IsList(t),
         \A x \in Range(s) : IsItem(section, x), \A x \in Range(t) : IsItem(section, x)
  PROVE  IsList(s \o t) /\ \A x \in Range(s \o t) : IsItem(section, x)
BY ConcatIsList, ConcatElements

LEMMA ParsedItems ==
  ASSUME NEW p \in ParsedBlock, NEW facts \in SetToSeqs(p.facts)
  PROVE  /\ IsList(facts) /\ \A x \in Range(facts) : IsItem("facts", x)
         /\ IsList(p.rules) /\ \A x \in Range(p.rules) : IsItem("rules", x)
         /\ IsList(p.checks) /\ \A x \in Range(p.checks) : IsItem("checks", x)
         /\ IsList(p.policies) /\ \A x \in Range(p.policies) : IsItem("policies", x)
<1>1. p.facts \subseteq Facts /\ facts \in Seq(p.facts)
  <2>1. Cardinality(p.facts) \in Nat /\ p.facts \subseteq Facts
    BY ParsedAssumption, FS_CardinalityType
  <2>2. facts \in [1..Cardinality(p.facts) -> p.facts]
    BY DEF SetToSeqs
  <2>3. QED
    BY <2>1, <2>2, SeqDef
<1>2. IsList(facts) /\ Range(facts) \subseteq Facts
  BY <1>1, SeqIsList
<1>3. /\ IsList(p.rules) /\ Range(p.rules) \subseteq Rules
      /\ IsList(p.checks) /\ Range(p.checks) \subseteq Checks
      /\ IsList(p.policies) /\ Range(p.policies) \subseteq Policies
  BY SeqIsList, ParsedAssumption
<1>4. QED
  BY <1>2, <1>3, ValuesAssumption DEF IsItem

LEMMA AddAuthorizerHolds ==
  ASSUME BuildersTyped, BuildersHold, NEW b \in Builder, AddAuthorizer(b)
  PROVE  BuildersHold'
<1>1. PICK p \in ParsedBlock : \E facts \in SetToSeqs(p.facts) :
        builders' = [builders EXCEPT ![b] =
                       [facts    |-> @.facts \o facts,
                        rules    |-> @.rules \o p.rules,
                        checks   |-> @.checks \o p.checks,
                        policies |-> @.policies \o p.policies,
                        scopes   |-> @.scopes \o p.scopes]]
  BY DEF AddAuthorizer
<1>2. PICK facts \in SetToSeqs(p.facts) :
        builders' = [builders EXCEPT ![b] =
                       [facts    |-> @.facts \o facts,
                        rules    |-> @.rules \o p.rules,
                        checks   |-> @.checks \o p.checks,
                        policies |-> @.policies \o p.policies,
                        scopes   |-> @.scopes \o p.scopes]]
  BY <1>1
<1> DEFINE old == builders[b]
<1>3. /\ \A c \in Builder \ {b} : builders'[c] = builders[c]
      /\ builders'[b].facts = old.facts \o facts
      /\ builders'[b].rules = old.rules \o p.rules
      /\ builders'[b].checks = old.checks \o p.checks
      /\ builders'[b].policies = old.policies \o p.policies
  BY <1>2 DEF BuildersTyped
<1>4. \A section \in Sections :
        IsList(old[section]) /\ \A x \in Range(old[section]) : IsItem(section, x)
  BY DEF BuildersHold, Holds
<1> HIDE DEF old
<1>5. /\ IsList(facts) /\ \A x \in Range(facts) : IsItem("facts", x)
      /\ IsList(p.rules) /\ \A x \in Range(p.rules) : IsItem("rules", x)
      /\ IsList(p.checks) /\ \A x \in Range(p.checks) : IsItem("checks", x)
      /\ IsList(p.policies) /\ \A x \in Range(p.policies) : IsItem("policies", x)
  BY ParsedItems
<1>6. \A section \in Sections :
        IsList(builders'[b][section]) /\ \A x \in Range(builders'[b][section]) : IsItem(section, x)
  <2>1. IsList(builders'[b].facts) /\ \A x \in Range(builders'[b].facts) : IsItem("facts", x)
    BY <1>3, <1>4, <1>5, ConcatHolds DEF Sections
  <2>2. IsList(builders'[b].rules) /\ \A x \in Range(builders'[b].rules) : IsItem("rules", x)
    BY <1>3, <1>4, <1>5, ConcatHolds DEF Sections
  <2>3. IsList(builders'[b].checks) /\ \A x \in Range(builders'[b].checks) : IsItem("checks", x)
    BY <1>3, <1>4, <1>5, ConcatHolds DEF Sections
  <2>4. /\ IsList(builders'[b].policies)
        /\ \A x \in Range(builders'[b].policies) : IsItem("policies", x)
    BY <1>3, <1>4, <1>5, ConcatHolds DEF Sections
  <2>5. QED
    BY <2>1, <2>2, <2>3, <2>4 DEF Sections
<1>7. Holds(builders'[b])
  BY <1>6 DEF Holds
<1>8. UNCHANGED saved
  BY DEF AddAuthorizer
<1>9. QED
  BY <1>3, <1>7, <1>8 DEF BuildersHold

LEMMA SerializePoliciesHolds ==
  ASSUME BuildersHold, NEW b \in Builder, SerializePolicies(b)
  PROVE  BuildersHold'
<1>1. builders' = builders
  BY DEF SerializePolicies
<1>2. CASE Encodes(builders[b])
  <2>1. saved' = [policies |-> Serialized(builders[b]), of |-> builders[b]]
    BY <1>2 DEF SerializePolicies
  <2>2. saved'.policies = Serialized(builders[b]) /\ saved'.of = builders[b]
    BY <2>1
  <2>3. QED
    BY <1>1, <1>2, <2>2 DEF BuildersHold
<1>3. CASE ~Encodes(builders[b])
  <2>1. saved' = saved
    BY <1>3 DEF SerializePolicies
  <2>2. QED
    BY <1>1, <2>1 DEF BuildersHold
<1>4. QED
  BY <1>2, <1>3

(* Nor does a load, whatever the message.                                     *)
LEMMA LoadPoliciesHolds ==
  ASSUME BuildersTyped, BuildersHold, NEW b \in Builder, LoadPolicies(b)
  PROVE  BuildersHold'
<1> DEFINE m == last'.of.message
<1>1. /\ m \in {saved.policies} \cup Foreign
      /\ \A section \in Sections : builders'[b][section] = builders[b][section] \o Gains(m, section)
      /\ \A c \in Builder \ {b} : builders'[c] = builders[c]
  BY LoadPoliciesLists
<1> HIDE DEF m
<1>2. \A section \in Sections :
        IsList(builders'[b][section]) /\ \A x \in Range(builders'[b][section]) : IsItem(section, x)
  <2>1. SUFFICES ASSUME NEW section \in Sections
                 PROVE  /\ IsList(builders'[b][section])
                        /\ \A x \in Range(builders'[b][section]) : IsItem(section, x)
    OBVIOUS
  <2>2. IsList(builders[b][section]) /\ \A x \in Range(builders[b][section]) : IsItem(section, x)
    BY DEF BuildersHold, Holds
  <2>3. IsList(Gains(m, section))
    BY <1>1, MessageLists, LoadedIsList, EmptyIsList DEF Gains
  <2>4. \A x \in Range(Gains(m, section)) : IsItem(section, x)
    BY <1>1, GainedItems
  <2>5. QED
    BY <1>1, <2>2, <2>3, <2>4, ConcatHolds
<1>3. Holds(builders'[b])
  BY <1>2 DEF Holds
<1>4. UNCHANGED saved
  BY DEF LoadPolicies
<1>5. QED
  BY <1>1, <1>3, <1>4 DEF BuildersHold

LEMMA HoldStep ==
  ASSUME BuildersTyped, BuildersHold, [Next]_vars
  PROVE  BuildersHold'
<1>1. CASE \E b \in Builder : AddFact(b)
  <2>1. PICK b \in Builder : AddFact(b)
    BY <1>1
  <2>2. PICK f \in Facts : Add(b, "facts", f)
    BY <2>1 DEF AddFact
  <2>3. IsItem("facts", f) /\ "facts" \in Sections \cup {"scopes"}
    BY ValuesAssumption DEF IsItem, Sections
  <2>4. QED
    BY <2>2, <2>3, AddHolds
<1>2. CASE \E b \in Builder : AddRule(b)
  <2>1. PICK b \in Builder : AddRule(b)
    BY <1>2
  <2>2. PICK r \in Rules : Add(b, "rules", r)
    BY <2>1 DEF AddRule
  <2>3. IsItem("rules", r) /\ "rules" \in Sections \cup {"scopes"}
    BY ValuesAssumption DEF IsItem, Sections
  <2>4. QED
    BY <2>2, <2>3, AddHolds
<1>3. CASE \E b \in Builder : AddCheck(b)
  <2>1. PICK b \in Builder : AddCheck(b)
    BY <1>3
  <2>2. PICK c \in Checks : Add(b, "checks", c)
    BY <2>1 DEF AddCheck
  <2>3. IsItem("checks", c) /\ "checks" \in Sections \cup {"scopes"}
    BY ValuesAssumption DEF IsItem, Sections
  <2>4. QED
    BY <2>2, <2>3, AddHolds
<1>4. CASE \E b \in Builder : AddPolicy(b)
  <2>1. PICK b \in Builder : AddPolicy(b)
    BY <1>4
  <2>2. PICK p \in Policies : Add(b, "policies", p)
    BY <2>1 DEF AddPolicy
  <2>3. IsItem("policies", p) /\ "policies" \in Sections \cup {"scopes"}
    BY ValuesAssumption DEF IsItem, Sections
  <2>4. QED
    BY <2>2, <2>3, AddHolds
<1>5. CASE \E b \in Builder : AddScope(b)
  <2>1. PICK b \in Builder : AddScope(b)
    BY <1>5
  <2>2. PICK s \in Scopes : Add(b, "scopes", s)
    BY <2>1 DEF AddScope
  <2>3. QED
    BY <2>2, AddHolds
<1>6. CASE \E b \in Builder : AddAuthorizer(b)
  BY <1>6, AddAuthorizerHolds
<1>7. CASE \E b \in Builder : SerializePolicies(b)
  BY <1>7, SerializePoliciesHolds
<1>8. CASE \E b \in Builder : LoadPolicies(b)
  BY <1>8, LoadPoliciesHolds
<1>9. CASE AddBlockFact \/ AddBlockRule \/ AddBlockCheck \/ AddBlockScope \/ AddBlock \/ Build
  <2>1. UNCHANGED <<builders, saved>>
    BY <1>9 DEF AddBlockFact, AddBlockRule, AddBlockCheck, AddBlockScope, AppendToBlock,
                AddBlock, Build
  <2>2. QED
    BY <2>1 DEF BuildersHold
<1>10. CASE UNCHANGED vars
  BY <1>10 DEF vars, BuildersHold
<1>11. QED
  BY <1>1, <1>2, <1>3, <1>4, <1>5, <1>6, <1>7, <1>8, <1>9, <1>10 DEF Next

(* A load of what was saved.                                                  *)
LEMMA RestoreStep ==
  ASSUME BuildersTyped, BuildersHold, NEW b \in Builder, LoadPolicies(b),
         last'.of.message = saved.policies
  PROVE  /\ last'.result = "ok" <=> Keys(saved.of) = <<>>
         /\ last'.result = "ok" =>
              \A section \in Sections : Gained(b, section) = Whole(section, saved.of[section])
<1> DEFINE m == last'.of.message
           of == saved.of
<1>1. /\ \A section \in Sections : Gained(b, section) = Gains(m, section)
      /\ last'.result = "ok" <=> WholeGains(m)
  BY LoadPoliciesLists
<1>2. Holds(of) /\ Encodes(of) /\ m = Serialized(of)
  BY DEF BuildersHold
<1> HIDE DEF m, of
<1>3. Supported(m)
  <2>1. "facts" \in Sections
    BY DEF Sections
  <2>2. Supported(Serialized(of))
    BY <2>1, SerializedItems
  <2>3. QED
    BY <1>2, <2>2
<1>4. \A section \in Sections : Gains(m, section) = LoadedSection(m, section)
  BY <1>3 DEF Gains
<1>5. \A section \in Sections : IsList(Serialized(of)[section])
  BY <1>2 DEF BuildersTyped, m
<1>6. /\ (\A section \in Sections : Len(LoadedSection(m, section)) = Len(m[section]))
           <=> Keys(of) = <<>>
      /\ Keys(of) = <<>> => \A section \in Sections :
                              LoadedSection(m, section) = Whole(section, of[section])
  BY <1>2, <1>5, SavedLoads
<1>7. WholeGains(m) <=> Keys(of) = <<>>
  BY <1>3, <1>4, <1>6 DEF WholeGains
<1>8. QED
  BY <1>1, <1>4, <1>6, <1>7 DEF of

(* Policies that were saved load exactly when no rule in them names a key,    *)
(* and then the loader's builder gains the facts, rules, checks and policies  *)
(* that were saved, in their order (authorizer.go SerializePolicies,          *)
(* LoadPolicies).                                                             *)
THEOREM LoadsRestore == Spec => LoadRestores
<1> DEFINE Step ==
      last'.call = "LoadPolicies" =>
        LET b == last'.of.builder
        IN last'.of.message = saved.policies =>
             /\ last'.result = "ok" <=> Keys(saved.of) = <<>>
             /\ last'.result = "ok" =>
                  \A s \in Sections : Gained(b, s) = Whole(s, saved.of[s])
<1>1. Init => BuildersHold
  BY NothingHolds DEF Init, BuildersHold
<1>2. BuildersInv /\ BuildersHold /\ [Next]_vars => BuildersHold'
  BY HoldStep DEF BuildersInv
<1>3. BuildersInv /\ BuildersHold /\ [Next]_vars => [Step]_vars
  <2> SUFFICES ASSUME BuildersInv, BuildersHold, Next PROVE Step
    OBVIOUS
  <2>1. CASE last'.call # "LoadPolicies"
    BY <2>1
  <2>2. CASE LoadPolicies(last'.of.builder) /\ last'.of.builder \in Builder
    <3>1. last'.of.message = saved.policies =>
            /\ last'.result = "ok" <=> Keys(saved.of) = <<>>
            /\ last'.result = "ok" =>
                 \A s \in Sections : Gained(last'.of.builder, s) = Whole(s, saved.of[s])
      BY <2>2, RestoreStep DEF BuildersInv
    <3>2. QED
      BY <3>1
  <2>3. QED
    BY <2>1, <2>2, BuildersStepTyped DEF BuildersInv
<1>4. QED
  BY <1>1, <1>2, <1>3, BuildersTypeCorrect, PTL DEF Spec, LoadRestores
=============================================================================
