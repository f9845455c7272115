--------------------------- MODULE CombineProofs ---------------------------
(* Proofs about the search for matches: for any body, any facts and however   *)
(* the evaluator stops it, it yields every match that precedes the odometer,  *)
(* once, in order.                                                            *)
EXTENDS Combine, SequenceTheorems, WellFoundedInduction, TLAPS

LEMMA BodyShape ==
  ASSUME predicates \in Bodies
  PROVE  /\ Len(predicates) \in Nat /\ Positions = 1..Len(predicates)
         /\ \A p \in Positions :
              /\ predicates[p] \in Seq(Term)
              /\ DOMAIN predicates[p] = 1..Len(predicates[p])
              /\ \A i \in DOMAIN predicates[p] : predicates[p][i] \in Term
<1>1. predicates \in Seq(Seq(Term))
  BY CombineAssumption
<1>2. Len(predicates) \in Nat /\ Positions = 1..Len(predicates)
  BY <1>1, LenProperties DEF Positions
<1>3. \A p \in Positions : predicates[p] \in Seq(Term)
  BY <1>1, <1>2, ElementOfSeq
<1>4. ASSUME NEW p \in Positions
      PROVE  /\ DOMAIN predicates[p] = 1..Len(predicates[p])
             /\ \A i \in DOMAIN predicates[p] : predicates[p][i] \in Term
  BY <1>3, LenProperties, ElementOfSeq
<1>5. QED
  BY <1>2, <1>3, <1>4

(* The index vectors of facts.                                                *)
Vector == [Positions -> FactIndexes]

LEMMA FactShape ==
  ASSUME allFacts \in FactLists, NEW ix \in Vector, NEW p \in Positions
  PROVE  /\ Len(allFacts) \in Nat /\ ix[p] \in Nat /\ ix[p] <= Len(allFacts) - 1
         /\ FactAt(ix, p) \in Seq(Value)
         /\ DOMAIN FactAt(ix, p) = 1..Len(FactAt(ix, p))
         /\ \A i \in DOMAIN FactAt(ix, p) : FactAt(ix, p)[i] \in Value
<1>1. allFacts \in Seq(Seq(Value)) /\ Len(allFacts) \in Nat
  BY CombineAssumption, LenProperties
<1>2. ix[p] \in 0..(Len(allFacts) - 1)
  BY DEF Vector, FactIndexes
<1>3. ix[p] \in Nat /\ ix[p] <= Len(allFacts) - 1 /\ ix[p] + 1 \in 1..Len(allFacts)
  BY <1>1, <1>2
<1>4. FactAt(ix, p) \in Seq(Value)
  BY <1>1, <1>3, ElementOfSeq DEF FactAt
<1>5. /\ DOMAIN FactAt(ix, p) = 1..Len(FactAt(ix, p))
      /\ \A i \in DOMAIN FactAt(ix, p) : FactAt(ix, p)[i] \in Value
  BY <1>4, LenProperties, ElementOfSeq
<1>6. QED
  BY <1>1, <1>3, <1>4, <1>5

----------------------------------------------------------------------------
(* Extreme elements of sets of positions.                                     *)
LEMMA Least ==
  ASSUME NEW S \in SUBSET Nat, S # {}
  PROVE  \E i \in S : \A j \in S : i <= j
<1>1. PICK i \in S : \A j \in S : ~(<<j, i>> \in OpToRel(<, Nat))
  BY NatLessThanWellFounded, WFMin, Zenon
<1>2. \A j \in S : ~(j < i)
  BY <1>1 DEF OpToRel
<1>3. QED
  BY <1>2

LEMMA FirstIsLeast ==
  ASSUME NEW S \in SUBSET Nat, S # {}
  PROVE  First(S) \in S /\ \A j \in S : First(S) <= j
BY Least DEF First

LEMMA Greatest ==
  ASSUME NEW n \in Nat, NEW S \in SUBSET (1..n), S # {}
  PROVE  \E i \in S : \A j \in S : j <= i
<1> DEFINE T == {n - i : i \in S}
<1>1. T \in SUBSET Nat /\ T # {}
  <2>1. \A i \in S : i \in 1..n /\ n - i \in Nat
    OBVIOUS
  <2>2. QED
    BY <2>1
<1>2. PICK t \in T : \A u \in T : t <= u
  BY <1>1, Least
<1>3. PICK i \in S : t = n - i
  BY <1>2
<1>4. ASSUME NEW j \in S
      PROVE  j <= i
  <2>1. t <= n - j
    BY <1>2
  <2>2. QED
    BY <1>3, <2>1
<1>5. QED
  BY <1>4

----------------------------------------------------------------------------
(* The order of index vectors.                                                *)
LEMMA BeforeTotal ==
  ASSUME NEW n \in Nat, Positions = 1..n,
         NEW a \in [Positions -> Nat], NEW b \in [Positions -> Nat], a # b
  PROVE  Before(a, b) \/ Before(b, a)
<1> DEFINE S == {p \in Positions : a[p] # b[p]}
<1>1. S \in SUBSET Nat /\ S # {}
  <2>1. \E p \in Positions : a[p] # b[p]
    OBVIOUS
  <2>2. S # {}
    BY <2>1
  <2>3. S \in SUBSET Nat
    OBVIOUS
  <2>4. QED
    BY <2>2, <2>3
<1>2. PICK p \in S : \A q \in S : p <= q
  BY <1>1, Least
<1>3. p \in 1..n /\ a[p] \in Nat /\ b[p] \in Nat /\ a[p] # b[p]
  BY <1>2
<1>4. ASSUME NEW q \in 1..(p - 1)
      PROVE  a[q] = b[q]
  <2>1. q \in Positions /\ ~(p <= q)
    BY <1>3
  <2>2. QED
    BY <1>2, <2>1
<1>5. a[p] < b[p] \/ b[p] < a[p]
  BY <1>3
<1>6. QED
  BY <1>3, <1>4, <1>5 DEF Before

LEMMA BeforeAsymmetric ==
  ASSUME NEW n \in Nat, Positions = 1..n,
         NEW a \in [Positions -> Nat], NEW b \in [Positions -> Nat], Before(a, b)
  PROVE  ~Before(b, a) /\ a # b
<1>1. PICK p \in 1..n : a[p] < b[p] /\ \A q \in 1..(p - 1) : a[q] = b[q]
  BY DEF Before
<1>2. a[p] \in Nat /\ b[p] \in Nat
  OBVIOUS
<1>3. ASSUME NEW r \in 1..n, b[r] < a[r], \A q \in 1..(r - 1) : b[q] = a[q]
      PROVE  FALSE
  <2>1. CASE r = p
    BY <1>1, <1>2, <1>3, <2>1
  <2>2. CASE r < p
    <3>1. r \in 1..(p - 1)
      BY <2>2
    <3>2. a[r] = b[r] /\ a[r] \in Nat
      BY <1>1, <3>1
    <3>3. QED
      BY <1>3, <3>2
  <2>3. CASE p < r
    <3>1. p \in 1..(r - 1)
      BY <2>3
    <3>2. a[p] = b[p]
      BY <1>3, <3>1
    <3>3. QED
      BY <1>1, <1>2, <3>2
  <2>4. QED
    BY <2>1, <2>2, <2>3
<1>4. a # b
  BY <1>1, <1>2
<1>5. QED
  BY <1>3, <1>4 DEF Before

----------------------------------------------------------------------------
(* Vectors that begin alike.                                                  *)
Agree(a, b, p) == \A q \in 1..p : a[q] = b[q]

(* What a rejected vector has in common with others: none of them is a match. *)
LEMMA RejectedIsNoSolution ==
  ASSUME predicates \in Bodies, allFacts \in FactLists,
         NEW ix \in Vector, FailurePosition(ix) # 0,
         NEW s \in Vector, Agree(s, ix, FailurePosition(ix))
  PROVE  s \notin Solutions /\ FailurePosition(ix) \in Positions
<1> DEFINE p == FailurePosition(ix)
           unmatched == {q \in Positions : ~Match(FactAt(ix, q), predicates[q])}
           conflicting == {q \in Positions : Conflict(ix, q)}
<1>1. Len(predicates) \in Nat /\ Positions = 1..Len(predicates)
  BY BodyShape
<1>2. unmatched \in SUBSET Nat /\ conflicting \in SUBSET Nat
  BY <1>1
<1>3. p \in unmatched \/ p \in conflicting
  <2>1. p = IF unmatched # {} THEN First(unmatched)
            ELSE IF conflicting # {} THEN First(conflicting) ELSE 0
    BY DEF FailurePosition
  <2> HIDE DEF unmatched, conflicting
  <2>2. QED
    BY <1>2, <2>1, FirstIsLeast
<1>4. p \in Positions /\ p \in 1..p /\ p \in Nat
  <2>1. p \in Positions
    BY <1>3
  <2> HIDE DEF p
  <2>2. QED
    BY <1>1, <2>1
<1>5. \A q \in 1..p : q \in Positions /\ FactAt(s, q) = FactAt(ix, q)
  <2> HIDE DEF p
  <2>1. TAKE q \in 1..p
  <2>2. q \in Positions
    BY <1>1, <1>4
  <2>3. s[q] = ix[q]
    BY DEF Agree, p
  <2>4. QED
    BY <2>2, <2>3 DEF FactAt
<1>6. SUFFICES ASSUME NEW subst, Unifies(subst, s) PROVE FALSE
  BY <1>4 DEF Solutions
<1> HIDE DEF p
<1>7. \A q \in 1..p :
        FactAt(ix, q) = [i \in DOMAIN predicates[q] |->
                           IF predicates[q][i] \in Variable
                           THEN subst[predicates[q][i]] ELSE predicates[q][i]]
  BY <1>5, <1>6 DEF Unifies
<1>8. CASE p \in unmatched
  <2>1. /\ DOMAIN FactAt(ix, p) = 1..Len(FactAt(ix, p)) /\ Len(FactAt(ix, p)) \in Nat
        /\ DOMAIN predicates[p] = 1..Len(predicates[p]) /\ Len(predicates[p]) \in Nat
    BY <1>4, BodyShape, FactShape, LenProperties
  <2>2. DOMAIN FactAt(ix, p) = DOMAIN predicates[p]
    BY <1>4, <1>7
  <2>3. Len(FactAt(ix, p)) = Len(predicates[p])
    BY <2>1, <2>2
  <2>4. \A i \in DOMAIN predicates[p] :
          predicates[p][i] \in Variable \/ predicates[p][i] = FactAt(ix, p)[i]
    BY <1>4, <1>7
  <2>5. Match(FactAt(ix, p), predicates[p])
    BY <2>3, <2>4 DEF Match
  <2>6. QED
    BY <1>8, <2>5
<1>9. CASE p \in conflicting
  <2>1. PICK i \in DOMAIN predicates[p] : \E q \in 1..p : \E j \in DOMAIN predicates[q] :
          /\ predicates[p][i] \in Variable
          /\ predicates[q][j] = predicates[p][i]
          /\ FactAt(ix, q)[j] # FactAt(ix, p)[i]
    BY <1>9 DEF Conflict
  <2>2. PICK q \in 1..p : \E j \in DOMAIN predicates[q] :
          /\ predicates[p][i] \in Variable
          /\ predicates[q][j] = predicates[p][i]
          /\ FactAt(ix, q)[j] # FactAt(ix, p)[i]
    BY <2>1
  <2>3. PICK j \in DOMAIN predicates[q] :
          /\ predicates[p][i] \in Variable
          /\ predicates[q][j] = predicates[p][i]
          /\ FactAt(ix, q)[j] # FactAt(ix, p)[i]
    BY <2>2
  <2>4. FactAt(ix, p)[i] = subst[predicates[p][i]]
    BY <1>4, <1>7, <2>3
  <2>5. FactAt(ix, q)[j] = subst[predicates[q][j]]
    BY <1>7, <2>3
  <2>6. QED
    BY <2>3, <2>4, <2>5
<1>10. QED
  BY <1>3, <1>8, <1>9

(* What an accepted vector is.                                                *)
LEMMA AcceptedIsSolution ==
  ASSUME predicates \in Bodies, allFacts \in FactLists,
         NEW ix \in Vector, FailurePosition(ix) = 0
  PROVE  ix \in Solutions
<1> DEFINE unmatched == {q \in Positions : ~Match(FactAt(ix, q), predicates[q])}
           conflicting == {q \in Positions : Conflict(ix, q)}
<1>1. Len(predicates) \in Nat /\ Positions = 1..Len(predicates)
  BY BodyShape
<1>2. unmatched = {} /\ conflicting = {}
  <2>1. unmatched \in SUBSET Nat /\ conflicting \in SUBSET Nat
        /\ 0 \notin unmatched /\ 0 \notin conflicting
    BY <1>1
  <2>2. 0 = IF unmatched # {} THEN First(unmatched)
            ELSE IF conflicting # {} THEN First(conflicting) ELSE 0
    BY DEF FailurePosition
  <2> HIDE DEF unmatched, conflicting
  <2>3. QED
    BY <2>1, <2>2, FirstIsLeast
<1>3. ASSUME NEW p \in Positions
      PROVE  /\ Match(FactAt(ix, p), predicates[p])
             /\ DOMAIN FactAt(ix, p) = DOMAIN predicates[p]
  <2>1. Match(FactAt(ix, p), predicates[p])
    BY <1>2
  <2>2. DOMAIN FactAt(ix, p) = 1..Len(FactAt(ix, p))
    BY FactShape
  <2>3. QED
    BY <2>1, <2>2, BodyShape DEF Match
<1> DEFINE Binds(v, w) == \E p \in Positions : \E i \in DOMAIN predicates[p] :
                            predicates[p][i] = v /\ w = FactAt(ix, p)[i]
           subst == [v \in Variable |->
                       IF \E w \in Value : Binds(v, w) THEN CHOOSE w \in Value : Binds(v, w)
                                                       ELSE CHOOSE w \in Value : TRUE]
<1>4. ASSUME NEW p \in Positions, NEW i \in DOMAIN predicates[p],
             NEW q \in Positions, NEW j \in DOMAIN predicates[q],
             predicates[p][i] \in Variable, predicates[q][j] = predicates[p][i]
      PROVE  FactAt(ix, q)[j] = FactAt(ix, p)[i]
  <2>1. q \in 1..p \/ p \in 1..q
    BY <1>1
  <2>2. ~Conflict(ix, p) /\ ~Conflict(ix, q)
    BY <1>2
  <2>3. CASE q \in 1..p
    BY <1>4, <2>2, <2>3 DEF Conflict
  <2>4. CASE p \in 1..q
    BY <1>4, <2>2, <2>4 DEF Conflict
  <2>5. QED
    BY <2>1, <2>3, <2>4
<1>5. subst \in [Variable -> Value]
  BY CombineAssumption
<1>6. ASSUME NEW p \in Positions, NEW i \in DOMAIN predicates[p], predicates[p][i] \in Variable
      PROVE  subst[predicates[p][i]] = FactAt(ix, p)[i]
  <2> DEFINE v == predicates[p][i]
  <2>1. FactAt(ix, p)[i] \in Value
    BY <1>3, FactShape
  <2>2. Binds(v, FactAt(ix, p)[i])
    OBVIOUS
  <2>3. \A w : Binds(v, w) => w = FactAt(ix, p)[i]
    BY <1>4, <1>6
  <2> HIDE DEF Binds
  <2>4. subst[v] = CHOOSE w \in Value : Binds(v, w)
    BY <1>6, <2>1, <2>2
  <2>5. QED
    BY <2>1, <2>2, <2>3, <2>4
<1>7. ASSUME NEW p \in Positions
      PROVE  FactAt(ix, p) = [i \in DOMAIN predicates[p] |->
                                IF predicates[p][i] \in Variable
                                THEN subst[predicates[p][i]] ELSE predicates[p][i]]
  <2> HIDE DEF subst
  <2>1. \A i \in DOMAIN predicates[p] :
          FactAt(ix, p)[i] = IF predicates[p][i] \in Variable
                             THEN subst[predicates[p][i]] ELSE predicates[p][i]
    BY <1>3, <1>6 DEF Match
  <2>2. FactAt(ix, p) = [i \in DOMAIN FactAt(ix, p) |-> FactAt(ix, p)[i]]
    BY FactShape
  <2>3. QED
    BY <1>3, <2>1, <2>2
<1> HIDE DEF subst
<1>8. QED
  BY <1>5, <1>7 DEF Solutions, Unifies, Vector

----------------------------------------------------------------------------
(* One increment of the odometer.  Positions that cannot advance hold the     *)
(* last fact.                                                                 *)
LEMMA Clipped ==
  ASSUME predicates \in Bodies, allFacts \in FactLists,
         NEW ix \in Vector, NEW s \in Vector,
         NEW p \in 0..Len(predicates), NEW q \in 0..p,
         \A x \in (q + 1)..p : ix[x] >= Len(allFacts) - 1,
         Agree(s, ix, q)
  PROVE  Before(s, ix) \/ Agree(s, ix, p)
<1>1. Len(predicates) \in Nat /\ Positions = 1..Len(predicates) /\ p \in Nat /\ q \in Nat
  BY BodyShape
<1>2. SUFFICES ASSUME ~Agree(s, ix, p) PROVE Before(s, ix)
  OBVIOUS
<1> DEFINE S == {x \in 1..p : s[x] # ix[x]}
<1>3. S \in SUBSET Nat /\ S # {}
  BY <1>1, <1>2 DEF Agree
<1>4. PICK x \in S : \A y \in S : x <= y
  BY <1>3, Least
<1>5. x \in 1..p /\ s[x] # ix[x] /\ x \in Positions
  BY <1>1, <1>4
<1>6. \A y \in 1..(x - 1) : s[y] = ix[y]
  <2>1. TAKE y \in 1..(x - 1)
  <2>2. y \in 1..p /\ ~(x <= y)
    BY <1>1, <1>5
  <2>3. QED
    BY <1>4, <2>2
<1>7. x \in (q + 1)..p
  <2>1. ~(x <= q)
    <3>1. SUFFICES ASSUME x <= q PROVE FALSE
      OBVIOUS
    <3>2. x \in 1..q
      BY <1>1, <1>5, <3>1
    <3>3. QED
      BY <1>5, <3>2 DEF Agree
  <2>2. QED
    BY <1>1, <1>5, <2>1
<1>8. /\ s[x] \in Nat /\ ix[x] \in Nat /\ s[x] <= Len(allFacts) - 1
      /\ ix[x] >= Len(allFacts) - 1 /\ Len(allFacts) \in Nat
  BY <1>5, <1>7, FactShape
<1>9. s[x] < ix[x]
  BY <1>5, <1>8
<1>10. QED
  BY <1>5, <1>6, <1>9 DEF Before

LEMMA Exhausted ==
  ASSUME predicates \in Bodies, allFacts \in FactLists,
         indexes \in Vector, NEW s \in Vector,
         NEW p \in 0..Len(predicates), Advanceable(p) = {}
  PROVE  Before(s, indexes) \/ Agree(s, indexes, p)
<1>1. Len(predicates) \in Nat /\ Positions = 1..Len(predicates) /\ p \in Nat
  BY BodyShape
<1>2. \A x \in 1..p : indexes[x] \in Nat /\ Len(allFacts) \in Nat
  <2>1. \A x \in 1..p : x \in Positions
    BY <1>1
  <2>2. QED
    BY <2>1, FactShape
<1> DEFINE S == {x \in 1..p : ~(indexes[x] >= Len(allFacts) - 1)}
<1>3. S = {}
  <2>1. SUFFICES ASSUME S # {} PROVE FALSE
    OBVIOUS
  <2>2. S \in SUBSET (1..p)
    OBVIOUS
  <2>3. PICK x \in S : \A y \in S : y <= x
    <3> HIDE DEF S
    <3>1. QED
      BY <1>1, <2>1, <2>2, Greatest
  <2>4. x \in 1..p /\ indexes[x] < Len(allFacts) - 1
    BY <1>2, <2>3
  <2>5. \A y \in (x + 1)..p : indexes[y] >= Len(allFacts) - 1
    <3>1. TAKE y \in (x + 1)..p
    <3>2. y \in 1..p /\ ~(y <= x)
      BY <1>1, <2>4
    <3>3. QED
      BY <2>3, <3>2
  <2>6. x \in Advanceable(p)
    BY <2>4, <2>5 DEF Advanceable
  <2>7. QED
    BY <2>6
<1>4. \A x \in (0 + 1)..p : indexes[x] >= Len(allFacts) - 1
  BY <1>3
<1>5. 0 \in 0..p /\ Agree(s, indexes, 0)
  BY <1>1 DEF Agree
<1>6. QED
  BY <1>4, <1>5, Clipped

LEMMA Incremented ==
  ASSUME predicates \in Bodies, allFacts \in FactLists,
         indexes \in Vector, NEW p \in 0..Len(predicates), NEW q \in Advanceable(p),
         NEW next, next = [x \in Positions |-> IF x < q THEN indexes[x]
                                               ELSE IF x = q THEN indexes[q] + 1 ELSE 0]
  PROVE  /\ next \in Vector
         /\ \A s \in Vector : Before(s, next) <=> Before(s, indexes) \/ Agree(s, indexes, p)
<1>1. /\ Len(predicates) \in Nat /\ Positions = 1..Len(predicates) /\ p \in Nat
      /\ q \in 1..p /\ q \in Positions /\ q \in Nat
  BY BodyShape DEF Advanceable
<1>2. \A s \in Vector : \A x \in Positions :
        s[x] \in Nat /\ s[x] <= Len(allFacts) - 1 /\ Len(allFacts) \in Nat
  BY FactShape
<1>3. indexes[q] < Len(allFacts) - 1
  BY DEF Advanceable
<1>4. \A x \in (q + 1)..p : indexes[x] >= Len(allFacts) - 1
  BY DEF Advanceable
<1>5. /\ \A x \in Positions : x < q => next[x] = indexes[x]
      /\ next[q] = indexes[q] + 1
      /\ \A x \in Positions : x > q => next[x] = 0
  BY <1>1
<1>6. next \in Vector
  <2>1. ASSUME NEW x \in Positions
        PROVE  next[x] \in 0..(Len(allFacts) - 1)
    <3>1. indexes[x] \in Nat /\ indexes[x] <= Len(allFacts) - 1 /\ Len(allFacts) \in Nat
      BY <1>2
    <3>2. CASE x < q
      BY <1>5, <3>1, <3>2
    <3>3. CASE x = q
      BY <1>3, <1>5, <3>1, <3>3
    <3>4. CASE x > q
      BY <1>5, <3>1, <3>4
    <3>5. QED
      BY <1>1, <3>2, <3>3, <3>4
  <2>2. QED
    BY <2>1 DEF Vector, FactIndexes
<1>7. \A x \in 1..(q - 1) : x \in Positions /\ x < q
  BY <1>1
<1>8. ASSUME NEW s \in Vector, Agree(s, indexes, q) PROVE Before(s, next)
  <2>1. q \in 1..q /\ \A x \in 1..(q - 1) : x \in 1..q
    BY <1>1
  <2>2. s[q] = indexes[q] /\ \A x \in 1..(q - 1) : s[x] = indexes[x]
    BY <1>8, <2>1 DEF Agree
  <2>3. s[q] < next[q]
    BY <1>1, <1>2, <1>5, <2>2
  <2>4. \A x \in 1..(q - 1) : s[x] = next[x]
    BY <1>5, <1>7, <2>2
  <2>5. QED
    BY <1>1, <2>3, <2>4 DEF Before
<1>9. ASSUME NEW s \in Vector, Agree(s, indexes, p) PROVE Before(s, next)
  <2>1. Agree(s, indexes, q)
    BY <1>1, <1>9 DEF Agree
  <2>2. QED
    BY <1>8, <2>1
<1>10. ASSUME NEW s \in Vector, Before(s, indexes) PROVE Before(s, next)
  <2>1. PICK r \in Positions : s[r] < indexes[r] /\ \A x \in 1..(r - 1) : s[x] = indexes[x]
    BY <1>10 DEF Before
  <2>2. \A x \in 1..(r - 1) : x \in Positions /\ x < r
    BY <1>1
  <2>3. CASE r < q
    <3>1. s[r] < next[r] /\ \A x \in 1..(r - 1) : s[x] = next[x]
      BY <1>1, <1>5, <2>1, <2>2, <2>3
    <3>2. QED
      BY <3>1 DEF Before
  <2>4. CASE r = q
    <3>1. s[q] < next[q]
      BY <1>1, <1>2, <1>5, <2>1, <2>4
    <3>2. \A x \in 1..(q - 1) : s[x] = next[x]
      BY <1>5, <1>7, <2>1, <2>4
    <3>3. QED
      BY <1>1, <3>1, <3>2 DEF Before
  <2>5. CASE r > q
    <3>1. \A x \in 1..q : x \in 1..(r - 1)
      BY <1>1, <2>5
    <3>2. Agree(s, indexes, q)
      BY <2>1, <3>1 DEF Agree
    <3>3. QED
      BY <1>8, <3>2
  <2>6. QED
    BY <1>1, <2>3, <2>4, <2>5
<1>11. ASSUME NEW s \in Vector, Before(s, next)
       PROVE  Before(s, indexes) \/ Agree(s, indexes, p)
  <2>1. PICK r \in Positions : s[r] < next[r] /\ \A x \in 1..(r - 1) : s[x] = next[x]
    BY <1>11 DEF Before
  <2>2. \A x \in 1..(r - 1) : x \in Positions /\ x < r
    BY <1>1
  <2>3. CASE r > q
    BY <1>2, <1>5, <2>1, <2>3
  <2>4. CASE r < q
    <3>1. s[r] < indexes[r] /\ \A x \in 1..(r - 1) : s[x] = indexes[x]
      BY <1>1, <1>5, <2>1, <2>2, <2>4
    <3>2. QED
      BY <3>1 DEF Before
  <2>5. CASE r = q
    <3>1. \A x \in 1..(q - 1) : s[x] = indexes[x]
      BY <1>5, <1>7, <2>1, <2>5
    <3>2. CASE s[q] < indexes[q]
      BY <1>1, <3>1, <3>2 DEF Before
    <3>3. CASE s[q] = indexes[q]
      <4>1. \A x \in 1..q : x \in 1..(q - 1) \/ x = q
        BY <1>1
      <4>2. Agree(s, indexes, q)
        BY <3>1, <3>3, <4>1 DEF Agree
      <4>3. q \in 0..p
        BY <1>1
      <4>4. QED
        BY <1>4, <4>2, <4>3, Clipped, Zenon
    <3>4. s[q] \in Nat /\ indexes[q] \in Nat /\ s[q] < indexes[q] + 1
      BY <1>1, <1>2, <1>5, <2>1, <2>5
    <3>5. QED
      BY <3>2, <3>3, <3>4
  <2>6. QED
    BY <1>1, <2>3, <2>4, <2>5
<1>12. QED
  BY <1>6, <1>9, <1>10, <1>11

----------------------------------------------------------------------------
(* The inductive invariant: between yields the odometer stands where the next *)
(* vector to yield, or the last one yielded, says it does, and everything     *)
(* before it that is a match has been yielded, once and in order.             *)
CombineInv ==
  /\ predicates \in Bodies
  /\ allFacts \in FactLists
  /\ indexes \in [Positions -> Nat]
  /\ done \in BOOLEAN
  /\ failed \in BOOLEAN
  /\ pc \in {"yielded", "advance", "end", "stopped"}
  /\ results \in Seq(Vector)
  /\ pc \in {"yielded", "advance"} /\ ~done => indexes \in Vector
  /\ pc = "yielded" => ~done /\ ~failed
  /\ SearchExact
  /\ YieldedInOrder

LEMMA SolutionsAreVectors == Solutions \subseteq Vector
BY DEF Solutions, Vector

LEMMA VectorsAreNat ==
  ASSUME allFacts \in FactLists
  PROVE  Vector \subseteq [Positions -> Nat]
BY FactShape DEF Vector

LEMMA FoundShape ==
  ASSUME results \in Seq(Vector)
  PROVE  /\ Len(results) \in Nat /\ DOMAIN results = 1..Len(results)
         /\ \A i \in 1..Len(results) : results[i] \in Vector /\ results[i] \in Found
BY LenProperties, ElementOfSeq DEF Found

LEMMA CombineInvInit == Init => CombineInv
<1> SUFFICES ASSUME Init PROVE CombineInv
  OBVIOUS
<1>1. /\ predicates \in Bodies /\ allFacts \in FactLists
      /\ indexes = [p \in Positions |-> 0] /\ done = FALSE /\ failed = FALSE
      /\ pc = IF predicates # <<>> /\ allFacts = <<>> THEN "end" ELSE "yielded"
      /\ results = <<>>
  BY DEF Init
<1>2. /\ Len(predicates) \in Nat /\ Positions = 1..Len(predicates)
      /\ Len(allFacts) \in Nat /\ allFacts \in Seq(Seq(Value))
      /\ predicates \in Seq(Seq(Term))
  BY <1>1, BodyShape, LenProperties, CombineAssumption
<1>3. Found = {} /\ YieldedInOrder /\ results \in Seq(Vector)
  BY <1>1 DEF Found, YieldedInOrder
<1>4. CASE pc = "end"
  <2>1. Positions # {} /\ FactIndexes = {}
    <3>1. Len(predicates) # 0 /\ Len(allFacts) = 0
      BY <1>1, <1>2, <1>4, EmptySeq
    <3>2. 1 \in Positions
      BY <1>2, <3>1
    <3>3. FactIndexes = {}
      BY <3>1 DEF FactIndexes
    <3>4. QED
      BY <3>2, <3>3
  <2>2. Solutions = {}
    BY <2>1 DEF Solutions
  <2>3. QED
    BY <1>1, <1>3, <1>4, <2>2 DEF CombineInv, SearchExact, Pending
<1>5. CASE pc = "yielded"
  <2>1. indexes \in Vector
    <3>1. CASE Positions = {}
      BY <1>1, <3>1 DEF Vector
    <3>2. CASE Positions # {}
      <4>1. Len(predicates) # 0
        BY <1>2, <3>2
      <4>2. predicates # <<>>
        BY <1>2, <4>1, EmptySeq
      <4>3. Len(allFacts) # 0
        BY <1>1, <1>2, <1>5, <4>2, EmptySeq
      <4>4. 0 \in FactIndexes
        BY <1>2, <4>3 DEF FactIndexes
      <4>5. QED
        BY <1>1, <4>4 DEF Vector
    <3>3. QED
      BY <3>1, <3>2
  <2>2. \A s \in Solutions : ~Before(s, indexes)
    <3>1. SUFFICES ASSUME NEW s \in Vector, Before(s, indexes) PROVE FALSE
      BY SolutionsAreVectors
    <3>2. PICK p \in Positions : s[p] < indexes[p]
      BY <3>1 DEF Before
    <3>3. s[p] \in Nat
      BY <1>1, FactShape
    <3>4. QED
      BY <1>1, <3>2, <3>3
  <2>3. SearchExact
    BY <1>3, <1>5, <2>2 DEF SearchExact, Pending
  <2>4. QED
    BY <1>1, <1>3, <1>5, <2>1, <2>3 DEF CombineInv
<1>6. QED
  BY <1>1, <1>4, <1>5

(* What one increment from p makes of the vectors still to come.              *)
LEMMA StepShape ==
  ASSUME CombineInv, pc \in {"yielded", "advance"}, ~done,
         NEW p \in 0..Len(predicates), IncrementAt(p)
  PROVE  /\ indexes' \in [Positions -> Nat] /\ done' \in BOOLEAN
         /\ ~done' => /\ indexes' \in Vector
                      /\ \A s \in Vector :
                           Before(s, indexes') <=> Before(s, indexes) \/ Agree(s, indexes, p)
         /\ done' => \A s \in Vector : Before(s, indexes) \/ Agree(s, indexes, p)
<1>1. predicates \in Bodies /\ allFacts \in FactLists /\ indexes \in Vector
  BY DEF CombineInv
<1>2. CASE Advanceable(p) = {}
  <2>1. indexes' = [x \in Positions |-> IF x <= p THEN 0 ELSE indexes[x]] /\ done' = TRUE
    BY <1>2 DEF IncrementAt
  <2>2. indexes' \in [Positions -> Nat]
    BY <2>1 DEF CombineInv
  <2>3. QED
    BY <1>1, <1>2, <2>1, <2>2, Exhausted
<1>3. CASE Advanceable(p) # {}
  <2>1. PICK q \in Advanceable(p) :
          /\ indexes' = [x \in Positions |-> IF x < q THEN indexes[x]
                                             ELSE IF x = q THEN indexes[q] + 1 ELSE 0]
          /\ done' = done
    BY <1>3 DEF IncrementAt
  <2>2. /\ indexes' \in Vector
        /\ \A s \in Vector :
             Before(s, indexes') <=> Before(s, indexes) \/ Agree(s, indexes, p)
    BY <1>1, <2>1, Incremented
  <2>3. QED
    BY <1>1, <2>1, <2>2, VectorsAreNat DEF CombineInv
<1>4. QED
  BY <1>2, <1>3

(* Neither the body nor the facts change, nor what is said of them.           *)
LEMMA InputsKept ==
  ASSUME UNCHANGED <<predicates, allFacts>>
  PROVE  /\ Positions' = Positions /\ Vector' = Vector /\ Solutions' = Solutions
         /\ \A s \in Vector : Before(s, indexes)' <=> Before(s, indexes')
         /\ \A s \in Vector : Before(indexes, s)' <=> Before(indexes', s)
<1>1. Positions' = Positions /\ FactIndexes' = FactIndexes
  BY DEF Positions, FactIndexes
<1>2. Vector' = Vector
  BY <1>1 DEF Vector
<1>3. Solutions' = Solutions
  BY <1>1 DEF Solutions, Unifies, FactAt
<1>4. QED
  BY <1>1, <1>2, <1>3 DEF Before

LEMMA AcceptInv ==
  ASSUME CombineInv, Accept
  PROVE  CombineInv'
<1>1. /\ predicates \in Bodies /\ allFacts \in FactLists /\ indexes \in Vector
      /\ results \in Seq(Vector) /\ pc = "yielded" /\ ~done /\ ~failed
      /\ Found = {s \in Solutions : Before(s, indexes)}
  BY SolutionsAreVectors DEF CombineInv, Accept, SearchExact, Pending
<1>2. /\ results' = Append(results, indexes) /\ pc' \in {"advance", "stopped"}
      /\ UNCHANGED <<predicates, allFacts, indexes, done, failed>>
  BY DEF Accept
<1>3. indexes \in Solutions
  BY <1>1, AcceptedIsSolution DEF Accept
<1>4. /\ results' \in Seq(Vector) /\ Len(results) \in Nat
      /\ Len(results') = Len(results) + 1
      /\ \A i \in 1..Len(results) : results'[i] = results[i]
      /\ results'[Len(results) + 1] = indexes
      /\ DOMAIN results' = 1..(Len(results) + 1)
  BY <1>1, <1>2, AppendProperties, LenProperties
<1>5. /\ Positions' = Positions /\ Vector' = Vector /\ Solutions' = Solutions
      /\ \A s \in Vector : Before(s, indexes)' <=> Before(s, indexes')
      /\ \A s \in Vector : Before(indexes, s)' <=> Before(indexes', s)
  BY <1>2, InputsKept
<1>6. Found' = Found \cup {indexes}
  <2>1. Found' = {results'[i] : i \in 1..(Len(results) + 1)}
    BY <1>4 DEF Found
  <2>2. Found = {results[i] : i \in 1..Len(results)}
    BY <1>1, LenProperties DEF Found
  <2>3. 1..(Len(results) + 1) = (1..Len(results)) \cup {Len(results) + 1}
    BY <1>4
  <2>4. QED
    BY <1>4, <2>1, <2>2, <2>3
<1>7. \A s \in Vector : ~Before(indexes, s) <=> Before(s, indexes) \/ s = indexes
  <2>1. Len(predicates) \in Nat /\ Positions = 1..Len(predicates)
    BY <1>1, BodyShape
  <2>2. indexes \in [Positions -> Nat] /\ \A s \in Vector : s \in [Positions -> Nat]
    BY <1>1, VectorsAreNat
  <2>3. QED
    BY <2>1, <2>2, BeforeTotal, BeforeAsymmetric
<1>8. SearchExact'
  <2>1. Pending' = {s \in Solutions : Before(indexes, s)}
    BY <1>1, <1>2, <1>5, SolutionsAreVectors DEF Pending
  <2>2. QED
    BY <1>1, <1>3, <1>6, <1>5, <1>7, <2>1, SolutionsAreVectors DEF SearchExact
<1>9. YieldedInOrder'
  <2>1. SUFFICES ASSUME NEW i \in 1..(Len(results) + 1), NEW j \in 1..(Len(results) + 1), i < j
                 PROVE  Before(results'[i], results'[j])
    BY <1>2, <1>4 DEF YieldedInOrder, Before, Positions
  <2>2. i \in 1..Len(results) /\ results'[i] = results[i]
    BY <1>4, <2>1
  <2>3. CASE j \in 1..Len(results)
    <3>1. Before(results[i], results[j])
      BY <1>1, <2>1, <2>2, <2>3, FoundShape DEF CombineInv, YieldedInOrder
    <3>2. QED
      BY <1>4, <2>2, <2>3, <3>1
  <2>4. CASE j = Len(results) + 1
    <3>1. results[i] \in Found
      BY <1>1, <2>2, FoundShape
    <3>2. QED
      BY <1>1, <1>4, <2>2, <2>4, <3>1
  <2>5. QED
    BY <1>4, <2>3, <2>4
<1>10. QED
  BY <1>1, <1>2, <1>4, <1>5, <1>8, <1>9 DEF CombineInv

(* A step that yields nothing keeps the order, and the account if nothing     *)
(* pending is skipped or repeated.                                            *)
LEMMA QuietInv ==
  ASSUME CombineInv, UNCHANGED <<predicates, allFacts, results>>,
         indexes' \in [Positions -> Nat], done' \in BOOLEAN, failed' \in BOOLEAN,
         pc' \in {"yielded", "advance", "end"},
         pc' \in {"yielded", "advance"} /\ ~done' => indexes' \in Vector,
         pc' = "yielded" => ~done' /\ ~failed',
         Pending' = Pending
  PROVE  CombineInv'
<1>1. Positions' = Positions /\ Vector' = Vector /\ Solutions' = Solutions
  BY InputsKept
<1>2. Found' = Found
  BY DEF Found
<1>3. SearchExact'
  BY <1>1, <1>2 DEF CombineInv, SearchExact
<1>4. YieldedInOrder'
  <2>1. \A i, j \in DOMAIN results : i < j => Before(results[i], results[j])
    BY DEF CombineInv, YieldedInOrder
  <2>2. QED
    BY <1>1, <2>1 DEF YieldedInOrder, Before
<1>5. QED
  BY <1>1, <1>3, <1>4 DEF CombineInv

LEMMA RejectInv ==
  ASSUME CombineInv, Reject
  PROVE  CombineInv'
<1> DEFINE p == FailurePosition(indexes)
<1>1. /\ predicates \in Bodies /\ allFacts \in FactLists /\ indexes \in Vector
      /\ pc = "yielded" /\ ~done /\ ~failed /\ p # 0
  BY DEF CombineInv, Reject
<1>2. /\ IncrementAt(p) /\ failed' = TRUE /\ pc' = "advance"
      /\ UNCHANGED <<predicates, allFacts, results>>
  BY DEF Reject
<1>3. \A s \in Solutions : s \in Vector /\ ~Agree(s, indexes, p)
  BY <1>1, RejectedIsNoSolution, SolutionsAreVectors
<1>4. p \in 0..Len(predicates)
  <2>1. Agree(indexes, indexes, p)
    BY DEF Agree
  <2>2. p \in Positions
    BY <1>1, <2>1, RejectedIsNoSolution
  <2>3. QED
    BY <1>1, <2>2, BodyShape
<1> HIDE DEF p
<1>5. /\ indexes' \in [Positions -> Nat] /\ done' \in BOOLEAN
      /\ ~done' => /\ indexes' \in Vector
                   /\ \A s \in Vector :
                        Before(s, indexes') <=> Before(s, indexes) \/ Agree(s, indexes, p)
      /\ done' => \A s \in Vector : Before(s, indexes) \/ Agree(s, indexes, p)
  BY <1>1, <1>2, <1>4, StepShape
<1>6. /\ Solutions' = Solutions
      /\ \A s \in Vector : Before(s, indexes)' <=> Before(s, indexes')
  BY <1>2, InputsKept
<1>7. Pending = {s \in Solutions : ~Before(s, indexes)}
  BY <1>1 DEF Pending
<1>8. CASE done'
  <2>1. Pending' = {}
    BY <1>2, <1>8 DEF Pending
  <2>2. Pending = {}
    BY <1>3, <1>5, <1>7, <1>8
  <2>3. QED
    BY <1>2, <1>5, <1>8, <2>1, <2>2, QuietInv
<1>9. CASE ~done'
  <2>1. Pending' = {s \in Solutions : ~Before(s, indexes')}
    BY <1>2, <1>3, <1>6, <1>9 DEF Pending
  <2>2. Pending' = Pending
    BY <1>3, <1>5, <1>7, <1>9, <2>1
  <2>3. QED
    BY <1>2, <1>5, <1>9, <2>2, QuietInv
<1>10. QED
  BY <1>8, <1>9

LEMMA AdvanceInv ==
  ASSUME CombineInv, Advance
  PROVE  CombineInv'
<1>1. /\ predicates \in Bodies /\ allFacts \in FactLists /\ pc = "advance"
      /\ indexes \in [Positions -> Nat] /\ done \in BOOLEAN /\ failed \in BOOLEAN
      /\ UNCHANGED <<predicates, allFacts, results>>
  BY DEF CombineInv, Advance
<1>2. /\ Solutions' = Solutions
      /\ \A s \in Vector : Before(s, indexes)' <=> Before(s, indexes')
  BY <1>1, InputsKept
<1>3. CASE done
  <2>1. pc' = "end" /\ UNCHANGED <<indexes, done, failed>>
    BY <1>3 DEF Advance
  <2>2. Pending' = {} /\ Pending = {}
    BY <1>1, <1>3, <2>1 DEF Pending
  <2>3. QED
    BY <1>1, <2>1, <2>2, QuietInv
<1>4. CASE ~done /\ failed
  <2>1. pc' = "yielded" /\ failed' = FALSE /\ UNCHANGED <<indexes, done>>
    BY <1>1, <1>4 DEF Advance
  <2>2. Pending = {s \in Solutions : ~Before(s, indexes)}
    BY <1>1, <1>4 DEF Pending
  <2>3. Pending' = {s \in Solutions : ~Before(s, indexes')}
    BY <1>2, <2>1, SolutionsAreVectors DEF Pending
  <2>4. Pending' = Pending /\ indexes \in Vector
    BY <1>1, <1>4, <2>1, <2>2, <2>3 DEF CombineInv
  <2>5. QED
    BY <1>1, <1>4, <2>1, <2>4, QuietInv
<1>5. CASE ~done /\ ~failed
  <2> DEFINE n == Len(predicates)
  <2>1. /\ IncrementAt(n) /\ failed' = failed
        /\ pc' = IF done' THEN "end" ELSE "yielded"
    BY <1>5 DEF Advance
  <2>2. n \in 0..n /\ n \in Nat /\ Positions = 1..n /\ indexes \in Vector
    BY <1>1, <1>5, BodyShape DEF CombineInv
  <2>3. Pending = {s \in Solutions : Before(indexes, s)}
    BY <1>1, <1>5 DEF Pending
  <2>4. /\ indexes' \in [Positions -> Nat] /\ done' \in BOOLEAN
        /\ ~done' => /\ indexes' \in Vector
                     /\ \A s \in Vector :
                          Before(s, indexes') <=> Before(s, indexes) \/ Agree(s, indexes, n)
        /\ done' => \A s \in Vector : Before(s, indexes) \/ Agree(s, indexes, n)
    BY <1>1, <1>5, <2>1, <2>2, StepShape
  <2>5. ASSUME NEW s \in Vector
        PROVE  Before(indexes, s) <=> ~(Before(s, indexes) \/ Agree(s, indexes, n))
    <3>1. s \in [Positions -> Nat]
      BY <1>1, VectorsAreNat
    <3>2. Agree(s, indexes, n) <=> s = indexes
      BY <1>1, <2>2, <3>1 DEF Agree
    <3>3. QED
      BY <1>1, <2>2, <3>1, <3>2, BeforeTotal, BeforeAsymmetric
  <2> HIDE DEF n
  <2>6. CASE done'
    <3>1. Pending' = {}
      BY <2>1, <2>6 DEF Pending
    <3>2. Pending = {}
      BY <2>3, <2>4, <2>5, <2>6, SolutionsAreVectors
    <3>3. QED
      BY <1>1, <1>5, <2>1, <2>4, <2>6, <3>1, <3>2, QuietInv
  <2>7. CASE ~done'
    <3>1. Pending' = {s \in Solutions : ~Before(s, indexes')}
      BY <1>2, <2>1, <2>7, SolutionsAreVectors DEF Pending
    <3>2. Pending' = Pending
      BY <2>3, <2>4, <2>5, <2>7, <3>1, SolutionsAreVectors
    <3>3. QED
      BY <1>1, <1>5, <2>1, <2>4, <2>7, <3>2, QuietInv
  <2>8. QED
    BY <2>6, <2>7
<1>6. QED
  BY <1>3, <1>4, <1>5

LEMMA CombineInvNext == CombineInv /\ [Next]_vars => CombineInv'
<1> SUFFICES ASSUME CombineInv, [Next]_vars PROVE CombineInv'
  OBVIOUS
<1>1. CASE UNCHANGED vars
  <2>1. UNCHANGED <<predicates, allFacts, indexes, done, failed, pc, results>>
    BY <1>1 DEF vars
  <2>2. Pending' = Pending
    BY <2>1 DEF Pending, Solutions, Unifies, Before, FactAt, FactIndexes, Positions
  <2>3. /\ Positions' = Positions /\ Vector' = Vector /\ Solutions' = Solutions
        /\ Found' = Found
    BY <2>1, InputsKept DEF Found
  <2>4. YieldedInOrder'
    BY <2>1, <2>3 DEF CombineInv, YieldedInOrder, Before
  <2>5. QED
    BY <2>1, <2>2, <2>3, <2>4 DEF CombineInv, SearchExact
<1>2. QED
  BY <1>1, AcceptInv, RejectInv, AdvanceInv DEF Next

(* The account of the search holds at every step.                             *)
THEOREM SearchAccounts == Spec => []CombineInv
BY CombineInvInit, CombineInvNext, PTL DEF Spec

(* Skipping loses nothing: the matches yielded are exactly those that precede *)
(* the odometer.                                                              *)
THEOREM NothingSkipped == Spec => []SearchExact
<1>1. CombineInv => SearchExact
  BY DEF CombineInv
<1>2. QED
  BY <1>1, SearchAccounts, PTL

(* Matches come in odometer order, none twice.                                *)
THEOREM InOdometerOrder == Spec => []YieldedInOrder
<1>1. CombineInv => YieldedInOrder
  BY DEF CombineInv
<1>2. QED
  BY <1>1, SearchAccounts, PTL

(* The variables have values of their types.                                  *)
THEOREM TypeCorrect == Spec => []TypeOK
<1>1. CombineInv => TypeOK
  <2> SUFFICES ASSUME CombineInv PROVE TypeOK
    OBVIOUS
  <2>1. \A i \in DOMAIN results : results[i] \in Vector
    BY FoundShape DEF CombineInv
  <2>2. Found \subseteq [Positions -> Nat]
    BY <2>1, VectorsAreNat DEF Found, CombineInv
  <2>3. QED
    BY <2>2 DEF CombineInv, TypeOK
<1>2. QED
  BY <1>1, SearchAccounts, PTL
=============================================================================
