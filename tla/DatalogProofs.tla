--------------------------- MODULE DatalogProofs ---------------------------
(* Facts about the operators of module Datalog that the proofs about World  *)
(* rest on: entries are finitely many, and applying a rule is monotone and  *)
(* local to the blocks in the origin of what it derives.                    *)
EXTENDS Datalog, FiniteSetTheorems, FunctionTheorems,
        WellFoundedInduction, TLAPS

(* There are finitely many entries, so every FactSet can be counted.        *)
LEMMA EntryFinite == IsFiniteSet(Entry)
<1> DEFINE P == Fact \X Origin
           f == [p \in P |-> [fact |-> p[1], origin |-> p[2]]]
<1>1. IsFiniteSet(P)
  BY DatalogAssumption, FS_SUBSET, FS_Product DEF Origin
<1>2. f \in [P -> Entry]
  BY DEF Entry
<1>3. \A e \in Entry : \E p \in P : f[p] = e
  <2>1. TAKE e \in Entry
  <2>2. <<e.fact, e.origin>> \in P
    BY DEF Entry
  <2>3. f[<<e.fact, e.origin>>] = e
    BY <2>2 DEF Entry
  <2>4. QED BY <2>2, <2>3
<1>4. f \in Surjection(P, Entry)
  BY <1>2, <1>3 DEF Surjection
<1>5. QED
  BY <1>1, <1>4, FS_Surjection

LEMMA EntriesFinite ==
  ASSUME NEW S \in SUBSET Entry
  PROVE  IsFiniteSet(S) /\ Count(S) \in Nat
BY EntryFinite, FS_Subset, FS_CardinalityType DEF Count

(* A rule of the universe derives entries, whatever it is applied to.       *)
LEMMA ApplyType ==
  ASSUME NEW rib \in RuleInBlock, NEW S \in SUBSET Entry
  PROVE  Apply(rib, S) \subseteq Entry
<1> SUFFICES ASSUME NEW inst \in rib.instances, NEW m \in Matches(inst.body, S)
             PROVE  [fact |-> inst.head,
                     origin |-> {rib.block} \cup UNION Range(m)] \in Entry
  BY DEF Apply
<1>1. inst.head \in Fact /\ rib.block \in BlockID
  BY DEF RuleInBlock, Instance
<1>2. m \in [DOMAIN inst.body -> Origin]
  BY DEF Matches, Entry
<1>3. \A o \in Range(m) : o \subseteq BlockID
  BY <1>2 DEF Range, Origin
<1>4. QED
  BY <1>1, <1>3 DEF Entry, Origin

(* More facts, more matches.                                                *)
LEMMA MatchesMonotone ==
  ASSUME NEW S1, NEW S2, S1 \subseteq S2, NEW body
  PROVE  Matches(body, S1) \subseteq Matches(body, S2)
BY DEF Matches

LEMMA ApplyMonotone ==
  ASSUME NEW S1, NEW S2, S1 \subseteq S2, NEW rib
  PROVE  Apply(rib, S1) \subseteq Apply(rib, S2)
<1>1. ASSUME NEW inst \in rib.instances
      PROVE  Matches(inst.body, S1) \subseteq Matches(inst.body, S2)
  BY MatchesMonotone
<1>2. QED
  BY <1>1 DEF Apply

LEMMA ContributionMonotone ==
  ASSUME NEW S1, NEW S2, S1 \subseteq S2, NEW rib
  PROVE  Contribution(rib, S1) \subseteq Contribution(rib, S2)
<1>1. WithOrigin(S1, rib.trusted) \subseteq WithOrigin(S2, rib.trusted)
  BY DEF WithOrigin
<1>2. QED
  BY <1>1, ApplyMonotone DEF Contribution

(* Provenance: an entry whose origin lies in T was derived by a rule of a   *)
(* block in T, from entries whose origins lie in T.                         *)
LEMMA ApplyLocal ==
  ASSUME NEW rib, NEW S, NEW T,
         NEW e \in Apply(rib, S), e.origin \subseteq T
  PROVE  rib.block \in T /\ e \in Apply(rib, WithOrigin(S, T))
<1>0. PICK inst \in rib.instances : \E m \in Matches(inst.body, S) :
        e = [fact |-> inst.head, origin |-> {rib.block} \cup UNION Range(m)]
  BY DEF Apply
<1>1. PICK m \in Matches(inst.body, S) :
        e = [fact |-> inst.head, origin |-> {rib.block} \cup UNION Range(m)]
  BY <1>0
<1>2. rib.block \in T /\ \A o \in Range(m) : o \subseteq T
  BY <1>1
<1>3. m \in [DOMAIN inst.body -> {x.origin : x \in S}]
  BY DEF Matches
<1>4. \A i \in DOMAIN inst.body :
        /\ m[i] \subseteq T
        /\ [fact |-> inst.body[i], origin |-> m[i]] \in WithOrigin(S, T)
  BY <1>2, <1>3 DEF Matches, WithOrigin, Range
<1>5. m \in [DOMAIN inst.body -> {x.origin : x \in WithOrigin(S, T)}]
  <2>1. ASSUME NEW i \in DOMAIN inst.body
        PROVE  m[i] \in {x.origin : x \in WithOrigin(S, T)}
    <3> DEFINE x == [fact |-> inst.body[i], origin |-> m[i]]
    <3>1. x \in WithOrigin(S, T) /\ x.origin = m[i]
      BY <1>4
    <3>2. QED BY <3>1
  <2>2. QED BY <1>3, <2>1
<1>6. m \in Matches(inst.body, WithOrigin(S, T))
  BY <1>4, <1>5 DEF Matches
<1>7. QED
  BY <1>1, <1>2, <1>6 DEF Apply

(* What a rule of a block in T derives from entries whose origins lie in T  *)
(* has its origin in T.                                                     *)
LEMMA ApplyOrigin ==
  ASSUME NEW rib, NEW S, NEW T, rib.block \in T,
         \A x \in S : x.origin \subseteq T, NEW e \in Apply(rib, S)
  PROVE  e.origin \subseteq T
<1>1. PICK inst \in rib.instances : \E m \in Matches(inst.body, S) :
        e = [fact |-> inst.head, origin |-> {rib.block} \cup UNION Range(m)]
  BY DEF Apply
<1>2. PICK m \in Matches(inst.body, S) :
        e = [fact |-> inst.head, origin |-> {rib.block} \cup UNION Range(m)]
  BY <1>1
<1>3. \A o \in Range(m) : o \subseteq T
  BY DEF Matches, Range
<1>4. QED
  BY <1>2, <1>3

LEMMA ConsequencesMonotone ==
  ASSUME NEW rs, NEW S1, NEW S2, S1 \subseteq S2
  PROVE  Consequences(rs, S1) \subseteq Consequences(rs, S2)
BY ContributionMonotone DEF Consequences

LEMMA ConsequencesType ==
  ASSUME NEW rs \in SUBSET RuleInBlock, NEW S \in SUBSET Entry
  PROVE  Consequences(rs, S) \subseteq Entry
<1>1. ASSUME NEW rib \in rs
      PROVE  Contribution(rib, S) \subseteq Entry
  BY ApplyType DEF Contribution, WithOrigin
<1>2. QED
  BY <1>1 DEF Consequences
-----------------------------------------------------------------------------
(* The recursion of LeastModel reaches the least set that contains base and *)
(* is closed under the rules: every round adds consequences only, and there *)
(* are finitely many entries to add.                                        *)
Closure(rs, S) ==
  {e \in Entry : \A M \in SUBSET Entry :
                   S \subseteq M /\ Closed(rs, M) => e \in M}

LEMMA ClosureOfClosed ==
  ASSUME NEW rs, NEW S \in SUBSET Entry, Closed(rs, S)
  PROVE  Closure(rs, S) = S
BY DEF Closure

LEMMA ClosureOfRound ==
  ASSUME NEW rs, NEW S \in SUBSET Entry
  PROVE  Closure(rs, S \cup Consequences(rs, S)) = Closure(rs, S)
<1>1. ASSUME NEW M \in SUBSET Entry, S \subseteq M, Closed(rs, M)
      PROVE  S \cup Consequences(rs, S) \subseteq M
  BY <1>1, ConsequencesMonotone DEF Closed
<1>2. QED
  BY <1>1 DEF Closure

LEMMA ClosureClosed ==
  ASSUME NEW rs \in SUBSET RuleInBlock, NEW S \in SUBSET Entry
  PROVE  S \subseteq Closure(rs, S) /\ Closed(rs, Closure(rs, S))
<1>1. S \subseteq Closure(rs, S)
  BY DEF Closure
<1>2. ASSUME NEW e \in Consequences(rs, Closure(rs, S))
      PROVE  e \in Closure(rs, S)
  <2>1. e \in Entry
    BY ConsequencesType DEF Closure
  <2>2. ASSUME NEW M \in SUBSET Entry, S \subseteq M, Closed(rs, M)
        PROVE  e \in M
    <3>1. Closure(rs, S) \subseteq M
      BY <2>2 DEF Closure
    <3>2. Consequences(rs, Closure(rs, S)) \subseteq Consequences(rs, M)
      BY <3>1, ConsequencesMonotone
    <3>3. QED
      BY <2>2, <3>2 DEF Closed
  <2>3. QED
    BY <2>1, <2>2 DEF Closure
<1>3. QED
  BY <1>1, <1>2 DEF Closed

LEMMA LeastModelIsClosure ==
  ASSUME NEW rs \in SUBSET RuleInBlock, NEW base \in SUBSET Entry
  PROVE  LeastModel(rs, base) = Closure(rs, base)
<1> DEFINE Step(f) == [S \in SUBSET Entry |->
                         IF Closed(rs, S) THEN S ELSE f[S \cup Consequences(rs, S)]]
           closure == [S \in SUBSET Entry |-> Closure(rs, S)]
           sat == CHOOSE f : f = Step(f)
           bad == {C \in SUBSET Entry : sat[Entry \ C] # Closure(rs, Entry \ C)}
<1>1. \A S \in SUBSET Entry : S \cup Consequences(rs, S) \in SUBSET Entry
  BY ConsequencesType
<1>2. closure = Step(closure)
  <2>1. ASSUME NEW S \in SUBSET Entry
        PROVE  closure[S] = Step(closure)[S]
    BY <1>1, ClosureOfClosed, ClosureOfRound
  <2>2. QED BY <2>1
<1>3. sat = Step(sat)
  BY <1>2
<1> HIDE DEF sat
<1>4. \A S \in SUBSET Entry :
        sat[S] = IF Closed(rs, S) THEN S ELSE sat[S \cup Consequences(rs, S)]
  BY <1>3
<1>5. bad = {}
  <2> SUFFICES ASSUME bad # {} PROVE FALSE
    OBVIOUS
  <2>1. IsWellFoundedOn(StrictSubsetOrdering(Entry), SUBSET Entry)
    BY EntryFinite, FS_FiniteSubsetsOfFinite, FS_StrictSubsetOrderingWellFounded
  <2>2. bad \subseteq SUBSET Entry
    OBVIOUS
  <2>3. PICK C \in bad : \A D \in bad : ~(<<D, C>> \in StrictSubsetOrdering(Entry))
    BY <2>1, <2>2, WFMin
  <2> DEFINE S == Entry \ C
             R == S \cup Consequences(rs, S)
  <2>4. /\ S \in SUBSET Entry /\ R \in SUBSET Entry
        /\ sat[S] # Closure(rs, S)
    BY <1>1
  <2>5. ~Closed(rs, S)
    BY <1>4, <2>4, ClosureOfClosed
  <2>6. sat[S] = sat[R] /\ Closure(rs, S) = Closure(rs, R)
    BY <1>4, <2>4, <2>5, ClosureOfRound
  <2>7. Entry \ R \subseteq C /\ Entry \ R # C
    BY <2>2, <2>4, <2>5 DEF Closed
  <2>8. Entry \ R \in bad
    <3>1. Entry \ (Entry \ R) = R
      BY <2>4
    <3>2. QED
      BY <2>4, <2>6, <3>1
  <2>9. QED
    BY <2>2, <2>3, <2>7, <2>8 DEF StrictSubsetOrdering
<1>6. sat[base] = Closure(rs, base)
  <2>1. Entry \ base \notin bad /\ Entry \ (Entry \ base) = base
    BY <1>5
  <2>2. QED BY <2>1
<1>7. LeastModel(rs, base) = sat[base]
  BY DEF LeastModel, sat
<1>8. QED
  BY <1>6, <1>7

(* The least model is one, and every other contains it.                     *)
LEMMA LeastModelIsModel ==
  ASSUME NEW rs \in SUBSET RuleInBlock, NEW base \in SUBSET Entry
  PROVE  /\ LeastModel(rs, base) \in SUBSET Entry
         /\ base \subseteq LeastModel(rs, base)
         /\ Closed(rs, LeastModel(rs, base))
<1>1. Closure(rs, base) \in SUBSET Entry
  BY DEF Closure
<1>2. QED
  BY <1>1, LeastModelIsClosure, ClosureClosed

LEMMA LeastModelLeast ==
  ASSUME NEW rs \in SUBSET RuleInBlock, NEW base \in SUBSET Entry,
         NEW M \in SUBSET Entry, base \subseteq M, Closed(rs, M)
  PROVE  LeastModel(rs, base) \subseteq M
<1>1. Closure(rs, base) \subseteq M
  BY DEF Closure
<1>2. QED
  BY <1>1, LeastModelIsClosure

(* Attenuation of the model: rules and facts of blocks outside K, added to  *)
(* some that only trust blocks of K, leave what K derives as it was.        *)
LEMMA LeastModelKept ==
  ASSUME NEW K,
         NEW rs \in SUBSET RuleInBlock, NEW base \in SUBSET Entry,
         NEW more \in SUBSET RuleInBlock, NEW given \in SUBSET Entry,
         rs \subseteq more, base \subseteq given,
         \A rib \in rs : rib.block \in K /\ rib.trusted \subseteq K,
         \A e \in base : e.origin \subseteq K,
         \A rib \in more \ rs : rib.block \notin K,
         \A e \in given \ base : ~(e.origin \subseteq K)
  PROVE  WithOrigin(LeastModel(more, given), K) = LeastModel(rs, base)
<1> DEFINE small == LeastModel(rs, base)
           large == LeastModel(more, given)
           seen  == WithOrigin(large, K)
           wide  == small \cup {e \in Entry : ~(e.origin \subseteq K)}
<1>1. /\ small \in SUBSET Entry /\ base \subseteq small /\ Closed(rs, small)
      /\ large \in SUBSET Entry /\ given \subseteq large /\ Closed(more, large)
  BY LeastModelIsModel
<1>2. small \subseteq seen
  <2>1. seen \in SUBSET Entry /\ base \subseteq seen
    BY <1>1 DEF WithOrigin
  <2>2. ASSUME NEW rib \in rs, NEW e \in Contribution(rib, seen)
        PROVE  e \in seen
    <3>1. e \in Contribution(rib, large)
      <4>1. seen \subseteq large
        BY DEF WithOrigin
      <4>2. QED
        BY <4>1, ContributionMonotone
    <3>2. e \in large
      BY <1>1, <3>1 DEF Closed, Consequences
    <3>3. e.origin \subseteq K
      BY <2>2, ApplyOrigin DEF Contribution, WithOrigin
    <3>4. QED
      BY <3>2, <3>3 DEF WithOrigin
  <2>3. Closed(rs, seen)
    BY <2>2 DEF Closed, Consequences
  <2>4. QED
    BY <2>1, <2>3, LeastModelLeast
<1>3. large \subseteq wide
  <2>1. wide \in SUBSET Entry /\ given \subseteq wide
    BY <1>1
  <2>2. ASSUME NEW rib \in more, NEW e \in Contribution(rib, wide)
        PROVE  e \in wide
    <3>1. e \in Entry
      BY <2>1, ApplyType DEF Contribution, WithOrigin
    <3>2. CASE rib \in rs
      <4>1. WithOrigin(wide, rib.trusted) \subseteq WithOrigin(small, rib.trusted)
        BY <3>2 DEF WithOrigin
      <4>2. e \in Contribution(rib, small)
        <5>1. Apply(rib, WithOrigin(wide, rib.trusted))
                \subseteq Apply(rib, WithOrigin(small, rib.trusted))
          BY <4>1, ApplyMonotone
        <5>2. e \in Apply(rib, WithOrigin(wide, rib.trusted))
          BY <2>2 DEF Contribution
        <5>3. QED
          BY <5>1, <5>2 DEF Contribution
      <4>3. e \in Consequences(rs, small)
        BY <3>2, <4>2 DEF Consequences
      <4>4. QED
        BY <1>1, <4>3 DEF Closed
    <3>3. CASE rib \notin rs
      <4>1. rib.block \notin K
        BY <3>3
      <4> DEFINE read == WithOrigin(wide, rib.trusted)
      <4>2. e \in Apply(rib, read)
        BY <2>2 DEF Contribution
      <4> HIDE DEF read
      <4>3. ASSUME e.origin \subseteq K
            PROVE  FALSE
        <5>1. rib.block \in K
          BY <4>2, <4>3, ApplyLocal
        <5>2. QED
          BY <4>1, <5>1
      <4>4. QED
        BY <3>1, <4>3
    <3>4. QED
      BY <3>2, <3>3
  <2>3. Closed(more, wide)
    BY <2>2 DEF Closed, Consequences
  <2>4. QED
    BY <2>1, <2>3, LeastModelLeast
<1>4. \A e \in small : e.origin \subseteq K
  BY <1>2 DEF WithOrigin
<1>5. seen \subseteq small
  BY <1>3 DEF WithOrigin
<1>6. QED
  BY <1>2, <1>5
=============================================================================
