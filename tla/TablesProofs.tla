---------------------------- MODULE TablesProofs ----------------------------
(* Proofs about symbol and key tables: for any strings, keys, blocks and      *)
(* order of operations, indices mean what they were made for.                 *)
EXTENDS Tables, SequenceTheorems, WellFoundedInduction, TLAPS

LEMMA Least ==
  ASSUME NEW S \in SUBSET Nat, S # {}
  PROVE  \E i \in S : \A j \in S : i <= j
<1>1. PICK i \in S : \A j \in S : ~(<<j, i>> \in OpToRel(<, Nat))
  BY NatLessThanWellFounded, WFMin, Zenon
<1>2. \A j \in S : ~(j < i)
  BY <1>1 DEF OpToRel
<1>3. QED
  BY <1>2

(* A recursion over the elements of a list defines a function.                *)
Iterates(f, base, step, size) ==
  f = [n \in 0..size |-> IF n = 0 THEN base ELSE step[n][f[n - 1]]]

LEMMA Recursion ==
  ASSUME NEW S, NEW base \in S, NEW step \in [Nat -> [S -> S]], NEW size \in Nat
  PROVE  \E f \in [0..size -> S] : Iterates(f, base, step, size)
<1> DEFINE Good(f, k) == f[0] = base /\ \A n \in 1..k : f[n] = step[n][f[n - 1]]
           bad == {k \in Nat : ~\E f \in [0..k -> S] : Good(f, k)}
<1>1. bad = {}
  <2> SUFFICES ASSUME bad # {} PROVE FALSE
    OBVIOUS
  <2>1. PICK k \in bad : \A j \in bad : k <= j
    <3>1. bad \in SUBSET Nat
      OBVIOUS
    <3>2. QED
      BY <3>1, Least
  <2>2. CASE k = 0
    <3>1. [n \in 0..0 |-> base] \in [0..0 -> S] /\ Good([n \in 0..0 |-> base], 0)
      OBVIOUS
    <3>2. QED
      BY <2>1, <2>2, <3>1
  <2>3. CASE k # 0
    <3>1. k \in Nat /\ k - 1 \in Nat /\ ~(k <= k - 1)
      BY <2>1, <2>3
    <3>2. k - 1 \notin bad
      BY <2>1, <3>1
    <3>3. PICK f \in [0..(k - 1) -> S] : Good(f, k - 1)
      BY <3>1, <3>2
    <3> DEFINE g == [n \in 0..k |-> IF n = k THEN step[k][f[k - 1]] ELSE f[n]]
    <3>4. g \in [0..k -> S]
      <4>1. step[k] \in [S -> S] /\ f[k - 1] \in S
        BY <3>1
      <4>2. \A n \in 0..k : n # k => n \in 0..(k - 1)
        BY <3>1
      <4>3. QED
        BY <4>1, <4>2
    <3>5. Good(g, k)
      <4>1. g[0] = base
        BY <2>3, <3>1, <3>3
      <4>2. ASSUME NEW n \in 1..k
            PROVE  g[n] = step[n][g[n - 1]]
        <5>1. n \in 0..k /\ n - 1 \in 0..k /\ n - 1 # k
          BY <3>1
        <5>2. g[n - 1] = f[n - 1]
          BY <5>1
        <5>3. CASE n = k
          BY <5>1, <5>2, <5>3
        <5>4. CASE n # k
          <6>1. n \in 1..(k - 1) /\ g[n] = f[n]
            BY <3>1, <5>1, <5>4
          <6>2. QED
            BY <3>3, <5>2, <6>1
        <5>5. QED
          BY <5>3, <5>4
      <4>3. QED
        BY <4>1, <4>2
    <3>6. QED
      BY <2>1, <3>4, <3>5
  <2>4. QED
    BY <2>2, <2>3
<1>2. PICK f \in [0..size -> S] : Good(f, size)
  BY <1>1
<1>3. f = [n \in 0..size |-> IF n = 0 THEN base ELSE step[n][f[n - 1]]]
  <2>1. \A n \in 0..size : n # 0 => n \in 1..size
    OBVIOUS
  <2>2. QED
    BY <1>2, <2>1
<1>4. QED
  BY <1>3 DEF Iterates

----------------------------------------------------------------------------
(* Tables, as values: both kinds grow by the elements they do not have yet;   *)
(* symbol tables also leave out the default symbols.                          *)

Add(table, x, skip) == IF x \in skip \cup Range(table) THEN table ELSE Append(table, x)

Adds(f, base, more, skip) ==
  f[0] = base /\ \A n \in 1..Len(more) : f[n] = Add(f[n - 1], more[n], skip)

(* known is base with new elements after it, each of them new when it was     *)
(* added, and holds the first n elements of more.                             *)
Grown(S, skip, base, more, known, n) ==
  /\ known \in Seq(S) /\ Len(base) <= Len(known)
  /\ \A i \in 1..Len(base) : known[i] = base[i]
  /\ \A i \in 1..n : more[i] \in skip \/ \E j \in 1..Len(known) : known[j] = more[i]
  /\ \A i \in 1..Len(known) : i > Len(base) =>
       /\ known[i] \notin skip
       /\ \E j \in 1..n : known[i] = more[j]
       /\ \A j \in 1..(i - 1) : known[j] # known[i]

LEMMA InRange ==
  ASSUME NEW S, NEW table \in Seq(S), NEW x
  PROVE  x \in Range(table) <=> \E j \in 1..Len(table) : table[j] = x
BY LenProperties DEF Range

LEMMA GrownOnce ==
  ASSUME NEW S, NEW skip, NEW base \in Seq(S), NEW more \in Seq(S), NEW known,
         NEW n \in 1..Len(more), Grown(S, skip, base, more, known, n - 1)
  PROVE  Grown(S, skip, base, more, Add(known, more[n], skip), n)
<1> DEFINE x == more[n]
           longer == Append(known, x)
<1>1. /\ n \in Nat /\ n - 1 \in Nat /\ Len(base) \in Nat /\ Len(known) \in Nat
      /\ known \in Seq(S) /\ x \in S
  BY LenProperties, ElementOfSeq DEF Grown
<1>2. 1..n = 1..(n - 1) \cup {n}
  BY <1>1
<1>3. CASE x \in skip \cup Range(known)
  <2>1. x \in skip \/ \E j \in 1..Len(known) : known[j] = x
    BY <1>1, <1>3, InRange
  <2>2. Grown(S, skip, base, more, known, n)
    <3>1. \A i \in 1..n : more[i] \in skip \/ \E j \in 1..Len(known) : known[j] = more[i]
      BY <1>2, <2>1 DEF Grown
    <3>2. ASSUME NEW i \in 1..Len(known), i > Len(base)
          PROVE  /\ known[i] \notin skip
                 /\ \E j \in 1..n : known[i] = more[j]
                 /\ \A j \in 1..(i - 1) : known[j] # known[i]
      BY <1>2, <3>2 DEF Grown
    <3>3. QED
      BY <3>1, <3>2 DEF Grown
  <2>3. Add(known, more[n], skip) = known
    BY <1>3 DEF Add
  <2>4. QED
    BY <2>2, <2>3
<1>4. CASE x \notin skip \cup Range(known)
  <2>1. Add(known, more[n], skip) = longer
    BY <1>4 DEF Add
  <2>2. /\ longer \in Seq(S) /\ Len(longer) = Len(known) + 1
        /\ \A i \in 1..Len(known) : longer[i] = known[i]
        /\ longer[Len(known) + 1] = x
    BY <1>1, AppendProperties
  <2>3. x \notin skip /\ \A j \in 1..Len(known) : known[j] # x
    BY <1>1, <1>4, InRange
  <2> HIDE DEF longer, x
  <2>4. Len(base) <= Len(known)
    BY DEF Grown
  <2>5. Len(base) <= Len(longer) /\ \A i \in 1..Len(base) : longer[i] = base[i]
    <3>1. \A i \in 1..Len(base) : i \in 1..Len(known)
      BY <1>1, <2>4
    <3>2. QED
      BY <1>1, <2>2, <2>4, <3>1 DEF Grown
  <2>6. ASSUME NEW i \in 1..n
        PROVE  more[i] \in skip \/ \E j \in 1..Len(longer) : longer[j] = more[i]
    <3>1. \A j \in 1..Len(known) : j \in 1..Len(longer)
      BY <1>1, <2>2
    <3>2. CASE i = n
      <4>1. Len(known) + 1 \in 1..Len(longer)
        BY <1>1, <2>2
      <4>2. QED
        BY <2>2, <3>2, <4>1 DEF x
    <3>3. CASE i # n
      <4>1. i \in 1..(n - 1)
        BY <1>2, <3>3
      <4>2. more[i] \in skip \/ \E j \in 1..Len(known) : known[j] = more[i]
        BY <4>1 DEF Grown
      <4>3. QED
        BY <2>2, <3>1, <4>2
    <3>4. QED
      BY <3>2, <3>3
  <2>7. ASSUME NEW i \in 1..Len(longer), i > Len(base)
        PROVE  /\ longer[i] \notin skip
               /\ \E j \in 1..n : longer[i] = more[j]
               /\ \A j \in 1..(i - 1) : longer[j] # longer[i]
    <3>1. CASE i = Len(known) + 1
      <4>1. \A j \in 1..(i - 1) : j \in 1..Len(known)
        BY <1>1, <3>1
      <4>2. longer[i] = x /\ n \in 1..n
        BY <1>1, <2>2, <3>1
      <4>3. QED
        BY <2>2, <2>3, <4>1, <4>2 DEF x
    <3>2. CASE i # Len(known) + 1
      <4>0. Len(longer) = Len(known) + 1 /\ Len(known) \in Nat
        BY <1>1, <2>2
      <4>1. i \in 1..Len(known)
        BY <3>2, <4>0
      <4>4. \A j \in 1..(i - 1) : j \in 1..Len(known)
        BY <4>0, <4>1
      <4>2. /\ known[i] \notin skip
            /\ \E j \in 1..(n - 1) : known[i] = more[j]
            /\ \A j \in 1..(i - 1) : known[j] # known[i]
        BY <2>7, <4>1 DEF Grown
      <4>3. QED
        BY <1>2, <2>2, <4>1, <4>2, <4>4
    <3>3. QED
      BY <3>1, <3>2
  <2>8. Grown(S, skip, base, more, longer, n)
    BY <2>2, <2>5, <2>6, <2>7 DEF Grown
  <2>9. QED
    BY <2>1, <2>8
<1>5. QED
  BY <1>3, <1>4

LEMMA AddingGrows ==
  ASSUME NEW S, NEW skip, NEW base \in Seq(S), NEW more \in Seq(S), NEW f,
         Adds(f, base, more, skip)
  PROVE  \A n \in 0..Len(more) : Grown(S, skip, base, more, f[n], n)
<1> DEFINE bad == {n \in 0..Len(more) : ~Grown(S, skip, base, more, f[n], n)}
<1>1. Len(more) \in Nat /\ Len(base) \in Nat
  BY LenProperties
<1>2. SUFFICES ASSUME bad # {} PROVE FALSE
  OBVIOUS
<1>3. PICK n \in bad : \A k \in bad : n <= k
  <2>1. bad \in SUBSET Nat
    BY <1>1
  <2> HIDE DEF bad
  <2>2. QED
    BY <1>2, <2>1, Least
<1>4. CASE n = 0
  <2>1. Grown(S, skip, base, more, base, 0)
    <3>1. \A i \in 1..Len(base) : ~(i > Len(base))
      BY <1>1
    <3>2. QED
      BY <1>1, <3>1 DEF Grown
  <2>2. QED
    BY <1>3, <1>4, <2>1 DEF Adds
<1>5. CASE n # 0
  <2>1. n \in 1..Len(more) /\ n - 1 \in 0..Len(more) /\ ~(n <= n - 1)
    BY <1>1, <1>3, <1>5
  <2>2. Grown(S, skip, base, more, f[n - 1], n - 1)
    BY <1>3, <2>1
  <2>3. Grown(S, skip, base, more, f[n], n)
    BY <2>1, <2>2, GrownOnce DEF Adds
  <2>4. QED
    BY <1>3, <2>3
<1>6. QED
  BY <1>4, <1>5

(* Elements that are all new are all appended.                                *)
Fresh(base, more, skip) ==
  \A i \in 1..Len(more) :
    /\ more[i] \notin skip
    /\ \A j \in 1..Len(base) : base[j] # more[i]
    /\ \A j \in 1..(i - 1) : more[j] # more[i]

Joined(S, base, more, known, n) ==
  /\ known \in Seq(S) /\ Len(known) = Len(base) + n
  /\ \A i \in 1..Len(base) : known[i] = base[i]
  /\ \A i \in 1..n : known[Len(base) + i] = more[i]

LEMMA JoinedOnce ==
  ASSUME NEW S, NEW skip, NEW base \in Seq(S), NEW more \in Seq(S), NEW known,
         NEW n \in 1..Len(more), Joined(S, base, more, known, n - 1), Fresh(base, more, skip)
  PROVE  Joined(S, base, more, Add(known, more[n], skip), n)
<1> DEFINE longer == Append(known, more[n])
<1>1. /\ n \in Nat /\ n - 1 \in Nat /\ Len(base) \in Nat
      /\ known \in Seq(S) /\ more[n] \in S /\ Len(known) = Len(base) + n - 1
  BY LenProperties, ElementOfSeq DEF Joined
<1>2. ASSUME NEW j \in 1..Len(known)
      PROVE  known[j] # more[n]
  <2>1. j \in Nat /\ 1 <= j /\ j <= Len(base) + n - 1
    BY <1>1
  <2>2. CASE j <= Len(base)
    <3>1. j \in 1..Len(base)
      BY <1>1, <2>1, <2>2
    <3>2. QED
      BY <3>1 DEF Joined, Fresh
  <2>3. CASE ~(j <= Len(base))
    <3> DEFINE i == j - Len(base)
    <3>1. i \in 1..(n - 1) /\ j = Len(base) + i
      BY <1>1, <2>1, <2>3
    <3> HIDE DEF i
    <3>2. known[j] = more[i]
      BY <3>1 DEF Joined
    <3>3. more[i] # more[n]
      BY <3>1 DEF Fresh
    <3>4. QED
      BY <3>2, <3>3
  <2>4. QED
    BY <2>2, <2>3
<1>3. Add(known, more[n], skip) = longer
  <2>1. more[n] \notin skip
    BY DEF Fresh
  <2>2. more[n] \notin Range(known)
    BY <1>1, <1>2, InRange
  <2>3. QED
    BY <2>1, <2>2 DEF Add
<1>4. /\ longer \in Seq(S) /\ Len(longer) = Len(base) + n
      /\ \A i \in 1..(Len(base) + n - 1) : longer[i] = known[i]
      /\ longer[Len(base) + n] = more[n]
  BY <1>1, AppendProperties
<1> HIDE DEF longer
<1>5. \A i \in 1..Len(base) : i \in 1..(Len(base) + n - 1)
  BY <1>1
<1>6. ASSUME NEW i \in 1..n
      PROVE  longer[Len(base) + i] = more[i]
  <2>1. CASE i = n
    BY <1>4, <2>1
  <2>2. CASE i # n
    <3>1. i \in 1..(n - 1) /\ Len(base) + i \in 1..(Len(base) + n - 1)
      BY <1>1, <2>2
    <3>2. QED
      BY <1>4, <3>1 DEF Joined
  <2>3. QED
    BY <2>1, <2>2
<1>7. Joined(S, base, more, longer, n)
  BY <1>4, <1>5, <1>6 DEF Joined
<1>8. QED
  BY <1>3, <1>7

LEMMA AddingJoins ==
  ASSUME NEW S, NEW skip, NEW base \in Seq(S), NEW more \in Seq(S), NEW f,
         Adds(f, base, more, skip), Fresh(base, more, skip)
  PROVE  Joined(S, base, more, f[Len(more)], Len(more))
<1> DEFINE bad == {n \in 0..Len(more) : ~Joined(S, base, more, f[n], n)}
<1>1. Len(more) \in Nat /\ Len(base) \in Nat
  BY LenProperties
<1>2. bad = {}
  <2>1. SUFFICES ASSUME bad # {} PROVE FALSE
    OBVIOUS
  <2>2. PICK n \in bad : \A k \in bad : n <= k
    <3>1. bad \in SUBSET Nat
      BY <1>1
    <3> HIDE DEF bad
    <3>2. QED
      BY <2>1, <3>1, Least
  <2>3. CASE n = 0
    <3>1. Joined(S, base, more, base, 0)
      BY <1>1 DEF Joined
    <3>2. QED
      BY <2>2, <2>3, <3>1 DEF Adds
  <2>4. CASE n # 0
    <3>1. n \in 1..Len(more) /\ n - 1 \in 0..Len(more) /\ ~(n <= n - 1)
      BY <1>1, <2>2, <2>4
    <3>2. Joined(S, base, more, f[n - 1], n - 1)
      BY <2>2, <3>1
    <3>3. Joined(S, base, more, f[n], n)
      BY <3>1, <3>2, JoinedOnce DEF Adds
    <3>4. QED
      BY <2>2, <3>3
  <2>5. QED
    BY <2>3, <2>4
<1>3. Len(more) \in 0..Len(more)
  BY <1>1
<1>4. QED
  BY <1>2, <1>3

(* What is added determines the table.                                        *)
LEMMA AddingSame ==
  ASSUME NEW S, NEW skip, NEW base, NEW more \in Seq(S), NEW f, NEW g,
         Adds(f, base, more, skip), Adds(g, base, more, skip)
  PROVE  f[Len(more)] = g[Len(more)]
<1> DEFINE bad == {n \in 0..Len(more) : f[n] # g[n]}
<1>1. Len(more) \in Nat
  BY LenProperties
<1>2. bad = {}
  <2>1. SUFFICES ASSUME bad # {} PROVE FALSE
    OBVIOUS
  <2>2. PICK n \in bad : \A k \in bad : n <= k
    <3>1. bad \in SUBSET Nat
      BY <1>1
    <3> HIDE DEF bad
    <3>2. QED
      BY <2>1, <3>1, Least
  <2>3. n # 0
    BY <2>2 DEF Adds
  <2>4. n \in 1..Len(more) /\ n - 1 \in 0..Len(more) /\ ~(n <= n - 1)
    BY <1>1, <2>2, <2>3
  <2>5. f[n - 1] = g[n - 1]
    BY <2>2, <2>4
  <2>6. QED
    BY <2>2, <2>4, <2>5 DEF Adds
<1>3. Len(more) \in 0..Len(more)
  BY <1>1
<1>4. QED
  BY <1>2, <1>3

(* Position is where an element is found first.                               *)
LEMMA PositionFinds ==
  ASSUME NEW S, NEW table \in Seq(S), NEW i \in 1..Len(table)
  PROVE  /\ Position(table, table[i]) \in 1..Len(table)
         /\ table[Position(table, table[i])] = table[i]
<1> DEFINE found == {k \in 1..Len(table) : table[k] = table[i]}
<1>1. DOMAIN table = 1..Len(table) /\ Len(table) \in Nat
  BY LenProperties
<1>2. PICK k \in found : \A j \in found : k <= j
  <2>1. found \in SUBSET Nat /\ found # {}
    BY <1>1
  <2> HIDE DEF found
  <2>2. QED
    BY <2>1, Least
<1>3. \A j \in 1..(k - 1) : table[j] # table[i]
  <2>1. SUFFICES ASSUME NEW j \in 1..(k - 1), table[j] = table[i] PROVE FALSE
    OBVIOUS
  <2>2. j \in 1..Len(table) /\ ~(k <= j)
    BY <1>1, <1>2
  <2>3. QED
    BY <1>2, <2>1, <2>2
<1>4. \E p \in DOMAIN table : table[p] = table[i] /\ \A j \in 1..(p - 1) : table[j] # table[i]
  BY <1>1, <1>2, <1>3
<1>5. QED
  BY <1>1, <1>4 DEF Position

----------------------------------------------------------------------------
(* Public keys.                                                               *)

LEMMA ExtendKeysUnfolds ==
  ASSUME NEW keys \in Seq(Key), NEW more \in Seq(Key)
  PROVE  \E f :
           /\ f[0] = keys
           /\ \A n \in 1..Len(more) : f[n] = InsertKey(f[n - 1], more[n])
           /\ ExtendKeys(keys, more) = f[Len(more)]
<1> DEFINE step == [n \in Nat |-> [s \in Seq(Key) |->
                      IF n \in 1..Len(more) THEN InsertKey(s, more[n]) ELSE s]]
           upTo == CHOOSE f : f = [n \in 0..Len(more) |->
                                     IF n = 0 THEN keys ELSE InsertKey(f[n - 1], more[n])]
<1>1. Len(more) \in Nat
  BY LenProperties
<1>2. step \in [Nat -> [Seq(Key) -> Seq(Key)]]
  <2>1. ASSUME NEW n \in 1..Len(more), NEW s \in Seq(Key)
        PROVE  InsertKey(s, more[n]) \in Seq(Key)
    BY ElementOfSeq, AppendProperties DEF InsertKey
  <2>2. QED
    BY <2>1
<1>3. \A n \in 1..Len(more), s \in Seq(Key) : step[n][s] = InsertKey(s, more[n])
  <2>1. \A n \in 1..Len(more) : n \in Nat
    BY <1>1
  <2>2. QED
    BY <2>1
<1> HIDE DEF step
<1>4. PICK f \in [0..Len(more) -> Seq(Key)] : Iterates(f, keys, step, Len(more))
  BY <1>1, <1>2, Recursion
<1>5. f = [n \in 0..Len(more) |-> IF n = 0 THEN keys ELSE InsertKey(f[n - 1], more[n])]
  <2>1. \A n \in 0..Len(more) : n # 0 => n \in 1..Len(more) /\ n - 1 \in 0..Len(more)
    BY <1>1
  <2>2. \A n \in 0..Len(more) : n # 0 => step[n][f[n - 1]] = InsertKey(f[n - 1], more[n])
    BY <1>3, <2>1
  <2>3. QED
    BY <1>4, <2>2 DEF Iterates
<1>6. upTo = [n \in 0..Len(more) |-> IF n = 0 THEN keys ELSE InsertKey(upTo[n - 1], more[n])]
  BY <1>5
<1>7. ExtendKeys(keys, more) = upTo[Len(more)]
  BY DEF ExtendKeys
<1> HIDE DEF upTo
<1>8. \A n \in 1..Len(more) : n \in 0..Len(more) /\ n # 0
  BY <1>1
<1>9. upTo[0] = keys
  <2>1. 0 \in 0..Len(more)
    BY <1>1
  <2>2. QED
    BY <1>6, <2>1
<1>10. ASSUME NEW n \in 1..Len(more)
       PROVE  upTo[n] = InsertKey(upTo[n - 1], more[n])
  BY <1>6, <1>8
<1>11. QED
  BY <1>7, <1>9, <1>10

LEMMA KeysGrown ==
  ASSUME NEW keys \in Seq(Key), NEW more \in Seq(Key)
  PROVE  Grown(Key, {}, keys, more, ExtendKeys(keys, more), Len(more))
<1>1. PICK f :
        /\ f[0] = keys
        /\ \A n \in 1..Len(more) : f[n] = InsertKey(f[n - 1], more[n])
        /\ ExtendKeys(keys, more) = f[Len(more)]
  BY ExtendKeysUnfolds
<1>2. Adds(f, keys, more, {})
  BY <1>1 DEF Adds, Add, InsertKey
<1>3. Len(more) \in 0..Len(more)
  BY LenProperties
<1>4. QED
  BY <1>1, <1>2, <1>3, AddingGrows

----------------------------------------------------------------------------
(* The registry, and the tables a reader gathers.                             *)

Cell == Word \cup {Blank}
Blocks == [words : Seq(Word), terms : Seq(Nat), table : Seq(Cell),
           wrote : Seq(Key), scopes : Seq(Nat), keys : Seq(Key), signer : Key \cup {NoSigner}]
Registries == UNION {[D -> SUBSET Nat] : D \in SUBSET Nat}
KeyTables == [keys : Seq(Key), registry : Registries]

LEMMA InsertedKey ==
  ASSUME NEW keys \in Seq(Key), NEW k \in Key
  PROVE  /\ InsertKey(keys, k) \in Seq(Key)
         /\ Grown(Key, {}, keys, <<k>>, InsertKey(keys, k), 1)
         /\ KeyIndex(InsertKey(keys, k), k) \in Nat
         /\ KeyIndex(InsertKey(keys, k), k) \in 0..(Len(InsertKey(keys, k)) - 1)
         /\ InsertKey(keys, k)[KeyIndex(InsertKey(keys, k), k) + 1] = k
<1> DEFINE longer == InsertKey(keys, k)
<1>1. <<k>> \in Seq(Key) /\ Len(<<k>>) = 1 /\ <<k>>[1] = k
  OBVIOUS
<1>2. Grown(Key, {}, keys, <<k>>, keys, 0)
  <2>1. Len(keys) \in Nat
    BY LenProperties
  <2>2. \A i \in 1..Len(keys) : ~(i > Len(keys))
    BY <2>1
  <2>3. QED
    BY <2>1, <2>2 DEF Grown
<1>3. Grown(Key, {}, keys, <<k>>, Add(keys, k, {}), 1)
  <2>1. 1 \in 1..Len(<<k>>) /\ 1 - 1 = 0
    BY <1>1
  <2>2. QED
    BY <1>1, <1>2, <2>1, GrownOnce
<1>4. longer = Add(keys, k, {})
  BY DEF InsertKey, Add
<1>5. longer \in Seq(Key) /\ \E j \in 1..Len(longer) : longer[j] = k
  BY <1>1, <1>3, <1>4 DEF Grown
<1> HIDE DEF longer
<1>6. Position(longer, k) \in 1..Len(longer) /\ longer[Position(longer, k)] = k
  BY <1>5, PositionFinds
<1>7. Len(longer) \in Nat
  BY <1>5, LenProperties
<1>8. /\ KeyIndex(longer, k) \in Nat /\ KeyIndex(longer, k) \in 0..(Len(longer) - 1)
      /\ longer[KeyIndex(longer, k) + 1] = k
  BY <1>6, <1>7 DEF KeyIndex
<1>9. QED
  BY <1>3, <1>4, <1>5, <1>8 DEF longer

LEMMA RegisterType ==
  ASSUME NEW registry \in Registries, NEW index \in Nat, NEW id \in Nat
  PROVE  Register(registry, index, id) \in Registries
<1>1. PICK D \in SUBSET Nat : registry \in [D -> SUBSET Nat]
  BY DEF Registries
<1>2. D \cup {index} \in SUBSET Nat /\ DOMAIN registry = D
  BY <1>1
<1>3. Register(registry, index, id) \in [D \cup {index} -> SUBSET Nat]
  <2>1. \A i \in D : registry[i] \in SUBSET Nat
    BY <1>1
  <2>2. QED
    BY <1>2, <2>1 DEF Register
<1>4. QED
  BY <1>2, <1>3 DEF Registries

LEMMA UpdateType ==
  ASSUME NEW tables \in KeyTables, NEW block \in Blocks, NEW id \in Nat
  PROVE  UpdatePublicKeys(tables, block, id) \in KeyTables
<1>1. tables.keys \in Seq(Key) /\ tables.registry \in Registries
  BY DEF KeyTables
<1>2. block.keys \in Seq(Key) /\ block.signer \in Key \cup {NoSigner}
  BY DEF Blocks
<1>3. CASE IsThirdParty(block)
  <2>1. block.signer \in Key
    BY <1>2, <1>3 DEF IsThirdParty
  <2>2. InsertKey(tables.keys, block.signer) \in Seq(Key)
    BY <1>1, <2>1, InsertedKey
  <2>3. KeyIndex(InsertKey(tables.keys, block.signer), block.signer) \in Nat
    BY <1>1, <2>1, InsertedKey
  <2>4. QED
    BY <1>1, <1>3, <2>2, <2>3, RegisterType DEF UpdatePublicKeys, KeyTables
<1>4. CASE ~IsThirdParty(block)
  <2>1. ExtendKeys(tables.keys, block.keys) \in Seq(Key)
    BY <1>1, <1>2, KeysGrown DEF Grown
  <2>2. QED
    BY <1>1, <1>4, <2>1 DEF UpdatePublicKeys, KeyTables
<1>5. QED
  BY <1>3, <1>4

LEMMA NoKeysType == NoKeys \in KeyTables
<1>1. <<>> \in [{} -> SUBSET Nat] /\ <<>> \in Seq(Key)
  OBVIOUS
<1>2. QED
  BY <1>1 DEF NoKeys, KeyTables, Registries

LEMMA UnmarshalKeysUnfolds ==
  ASSUME NEW blocks \in Seq(Blocks)
  PROVE  \E f :
           /\ f[0] = NoKeys
           /\ \A n \in 1..Len(blocks) : f[n] = UpdatePublicKeys(f[n - 1], blocks[n], n - 1)
           /\ UnmarshalKeys(blocks) = f[Len(blocks)]
<1> DEFINE step == [n \in Nat |-> [s \in KeyTables |->
                      IF n \in 1..Len(blocks) THEN UpdatePublicKeys(s, blocks[n], n - 1) ELSE s]]
           upTo == CHOOSE f : f = [n \in 0..Len(blocks) |->
                     IF n = 0 THEN NoKeys ELSE UpdatePublicKeys(f[n - 1], blocks[n], n - 1)]
<1>1. Len(blocks) \in Nat
  BY LenProperties
<1>2. step \in [Nat -> [KeyTables -> KeyTables]]
  <2>1. ASSUME NEW n \in 1..Len(blocks), NEW s \in KeyTables
        PROVE  UpdatePublicKeys(s, blocks[n], n - 1) \in KeyTables
    <3>1. blocks[n] \in Blocks /\ n - 1 \in Nat
      BY <1>1, ElementOfSeq
    <3>2. QED
      BY <3>1, UpdateType
  <2>2. QED
    BY <2>1
<1>3. \A n \in 1..Len(blocks), s \in KeyTables : step[n][s] = UpdatePublicKeys(s, blocks[n], n - 1)
  <2>1. \A n \in 1..Len(blocks) : n \in Nat
    BY <1>1
  <2>2. QED
    BY <2>1
<1> HIDE DEF step
<1>4. PICK f \in [0..Len(blocks) -> KeyTables] : Iterates(f, NoKeys, step, Len(blocks))
  BY <1>1, <1>2, Recursion, NoKeysType
<1>5. f = [n \in 0..Len(blocks) |->
             IF n = 0 THEN NoKeys ELSE UpdatePublicKeys(f[n - 1], blocks[n], n - 1)]
  <2>1. \A n \in 0..Len(blocks) : n # 0 => n \in 1..Len(blocks) /\ n - 1 \in 0..Len(blocks)
    BY <1>1
  <2>2. \A n \in 0..Len(blocks) :
          n # 0 => step[n][f[n - 1]] = UpdatePublicKeys(f[n - 1], blocks[n], n - 1)
    BY <1>3, <2>1
  <2>3. QED
    BY <1>4, <2>2 DEF Iterates
<1>6. upTo = [n \in 0..Len(blocks) |->
                IF n = 0 THEN NoKeys ELSE UpdatePublicKeys(upTo[n - 1], blocks[n], n - 1)]
  BY <1>5
<1>7. UnmarshalKeys(blocks) = upTo[Len(blocks)]
  BY DEF UnmarshalKeys
<1> HIDE DEF upTo
<1>8. \A n \in 1..Len(blocks) : n \in 0..Len(blocks) /\ n # 0
  BY <1>1
<1>9. upTo[0] = NoKeys
  <2>1. 0 \in 0..Len(blocks)
    BY <1>1
  <2>2. QED
    BY <1>6, <2>1
<1>10. ASSUME NEW n \in 1..Len(blocks)
       PROVE  upTo[n] = UpdatePublicKeys(upTo[n - 1], blocks[n], n - 1)
  BY <1>6, <1>8
<1>11. QED
  BY <1>7, <1>9, <1>10

LEMMA UnmarshalKeysAppend ==
  ASSUME NEW blocks \in Seq(Blocks), NEW block \in Blocks
  PROVE  UnmarshalKeys(Append(blocks, block))
           = UpdatePublicKeys(UnmarshalKeys(blocks), block, Len(blocks))
<1> DEFINE longer == Append(blocks, block)
           size == Len(blocks)
<1>1. /\ longer \in Seq(Blocks) /\ Len(longer) = size + 1 /\ size \in Nat
      /\ longer[size + 1] = block /\ \A n \in 1..size : longer[n] = blocks[n]
  BY AppendProperties, LenProperties
<1>2. PICK f :
        /\ f[0] = NoKeys
        /\ \A n \in 1..size : f[n] = UpdatePublicKeys(f[n - 1], blocks[n], n - 1)
        /\ UnmarshalKeys(blocks) = f[size]
  BY UnmarshalKeysUnfolds
<1> HIDE DEF longer, size
<1>3. PICK g :
        /\ g[0] = NoKeys
        /\ \A n \in 1..Len(longer) : g[n] = UpdatePublicKeys(g[n - 1], longer[n], n - 1)
        /\ UnmarshalKeys(longer) = g[Len(longer)]
  BY <1>1, UnmarshalKeysUnfolds
<1> DEFINE bad == {n \in 0..size : f[n] # g[n]}
<1>4. bad = {}
  <2>1. SUFFICES ASSUME bad # {} PROVE FALSE
    OBVIOUS
  <2>2. PICK n \in bad : \A k \in bad : n <= k
    <3>1. bad \in SUBSET Nat
      BY <1>1
    <3> HIDE DEF bad
    <3>2. QED
      BY <2>1, <3>1, Least
  <2>3. n # 0
    BY <1>2, <1>3, <2>2
  <2>4. n \in 1..size /\ n \in 1..Len(longer) /\ n - 1 \in 0..size /\ ~(n <= n - 1)
    BY <1>1, <2>2, <2>3
  <2>5. f[n - 1] = g[n - 1]
    BY <2>2, <2>4
  <2>6. QED
    BY <1>1, <1>2, <1>3, <2>2, <2>4, <2>5
<1>5. f[size] = g[size]
  BY <1>1, <1>4
<1>6. size + 1 \in 1..Len(longer) /\ size + 1 - 1 = size
  BY <1>1
<1>7. g[size + 1] = UpdatePublicKeys(g[size], block, size)
  BY <1>1, <1>3, <1>6
<1>8. QED
  BY <1>1, <1>2, <1>3, <1>5, <1>7 DEF longer, size

LEMMA UnmarshalKeysOne ==
  ASSUME NEW block \in Blocks
  PROVE  UnmarshalKeys(<<block>>) = UpdatePublicKeys(NoKeys, block, 0)
<1>1. <<>> \in Seq(Blocks) /\ Len(<<>>) = 0 /\ Append(<<>>, block) = <<block>>
  OBVIOUS
<1>2. UnmarshalKeys(<<>>) = NoKeys
  BY <1>1, UnmarshalKeysUnfolds
<1>3. QED
  BY <1>1, <1>2, UnmarshalKeysAppend

----------------------------------------------------------------------------
(* Scope keys: those of a block are made over the keys its author knew.       *)

KeysWellMade(block) ==
  \E keys \in Seq(Key) :
    LET known == ExtendKeys(keys, block.wrote)
    IN  /\ block.scopes = [i \in DOMAIN block.wrote |-> KeyIndex(known, block.wrote[i])]
        /\ block.keys = SubSeq(known, Len(keys) + 1, Len(known))

LEMMA ScopesRight ==
  ASSUME NEW block \in Blocks, KeysWellMade(block), ScopesHydrate(block)
  PROVE  ReadScopes(block) = block.wrote
<1> DEFINE wrote == block.wrote
<1>1. PICK keys \in Seq(Key) :
        /\ block.scopes = [i \in DOMAIN wrote |-> KeyIndex(ExtendKeys(keys, wrote), wrote[i])]
        /\ block.keys = SubSeq(ExtendKeys(keys, wrote), Len(keys) + 1, Len(ExtendKeys(keys, wrote)))
  BY DEF KeysWellMade
<1> DEFINE known == ExtendKeys(keys, wrote)
<1>2. wrote \in Seq(Key)
  BY DEF Blocks
<1>3. Grown(Key, {}, keys, wrote, known, Len(wrote))
  BY <1>2, KeysGrown
<1> HIDE DEF known, wrote
<1>4. /\ DOMAIN wrote = 1..Len(wrote) /\ Len(wrote) \in Nat /\ Len(keys) \in Nat
      /\ known \in Seq(Key) /\ Len(known) \in Nat /\ Len(keys) <= Len(known)
  BY <1>2, <1>3, LenProperties DEF Grown
<1>5. ASSUME NEW i \in 1..Len(wrote)
      PROVE  /\ KeyIndex(known, wrote[i]) \in Nat
             /\ KeyIndex(known, wrote[i]) + 1 \in 1..Len(known)
             /\ known[KeyIndex(known, wrote[i]) + 1] = wrote[i]
  <2>1. PICK j \in 1..Len(known) : known[j] = wrote[i]
    BY <1>3 DEF Grown
  <2>2. Position(known, wrote[i]) \in 1..Len(known) /\ known[Position(known, wrote[i])] = wrote[i]
    BY <1>4, <2>1, PositionFinds
  <2>3. /\ KeyIndex(known, wrote[i]) \in Nat
        /\ KeyIndex(known, wrote[i]) + 1 = Position(known, wrote[i])
    BY <1>4, <2>2 DEF KeyIndex
  <2>4. QED
    BY <2>2, <2>3
<1>6. /\ Len(block.keys) = Len(known) - Len(keys)
      /\ \A i \in 1..(Len(known) - Len(keys)) : block.keys[i] = known[Len(keys) + i]
  <2>1. \A i \in (Len(keys) + 1)..Len(known) : i \in 1..Len(known)
    BY <1>4
  <2>2. \A i \in (Len(keys) + 1)..Len(known) : known[i] \in Key
    BY <1>4, <2>1, ElementOfSeq
  <2> DEFINE new == SubSeq(known, Len(keys) + 1, Len(known))
  <2>3. /\ Len(new) = IF Len(keys) + 1 <= Len(known) THEN Len(known) - (Len(keys) + 1) + 1 ELSE 0
        /\ \A i \in 1..(Len(known) - (Len(keys) + 1) + 1) : new[i] = known[Len(keys) + 1 + i - 1]
    BY <1>4, <2>2, SubSeqProperties
  <2>4. block.keys = new
    BY <1>1 DEF known
  <2> HIDE DEF new
  <2>5. Len(new) = Len(known) - Len(keys)
    BY <1>4, <2>3
  <2>6. ASSUME NEW i \in 1..(Len(known) - Len(keys))
        PROVE  new[i] = known[Len(keys) + i]
    <3>1. i \in 1..(Len(known) - (Len(keys) + 1) + 1) /\ Len(keys) + 1 + i - 1 = Len(keys) + i
      BY <1>4
    <3>2. QED
      BY <2>3, <3>1
  <2>7. QED
    BY <2>4, <2>5, <2>6
<1>7. DOMAIN block.scopes = DOMAIN wrote /\ \A i \in DOMAIN wrote : block.scopes[i] = KeyIndex(known, wrote[i])
  BY <1>1 DEF known
<1>8. \A i \in 1..Len(wrote) : KeyIndex(known, wrote[i]) < Len(known) - Len(keys)
  BY <1>4, <1>6, <1>7 DEF ScopesHydrate
<1>9. Len(keys) = 0 \/ wrote = <<>>
  <2>1. SUFFICES ASSUME Len(keys) # 0, wrote # <<>> PROVE FALSE
    OBVIOUS
  <2>2. 1 \in 1..Len(wrote)
    BY <1>2, <2>1, EmptySeq
  <2>3. Len(keys) < Len(known)
    BY <1>4, <1>5, <1>8, <2>2
  <2>4. Len(known) \in 1..Len(known) /\ Len(known) > Len(keys)
    BY <1>4, <2>3
  <2>5. PICK i \in 1..Len(wrote) : known[Len(known)] = wrote[i]
    BY <1>3, <2>4 DEF Grown
  <2>6. \A j \in 1..(Len(known) - 1) : known[j] # wrote[i]
    BY <1>3, <2>4, <2>5 DEF Grown
  <2>7. KeyIndex(known, wrote[i]) + 1 = Len(known)
    BY <1>4, <1>5, <2>6
  <2>8. QED
    BY <1>4, <1>5, <1>8, <2>1, <2>7
<1>10. ASSUME NEW i \in 1..Len(wrote)
       PROVE  block.keys[block.scopes[i] + 1] = wrote[i]
  <2>1. Len(keys) = 0
    <3>1. wrote # <<>>
      BY <1>4
    <3>2. QED
      BY <1>9, <3>1
  <2>2. block.scopes[i] = KeyIndex(known, wrote[i])
    BY <1>4, <1>7
  <2> DEFINE p == KeyIndex(known, wrote[i]) + 1
  <2>3. p \in 1..(Len(known) - Len(keys)) /\ Len(keys) + p = p
    BY <1>4, <1>5, <2>1
  <2>4. known[p] = wrote[i]
    BY <1>5
  <2> HIDE DEF p
  <2>5. block.keys[p] = known[p]
    BY <1>6, <2>3
  <2>6. QED
    BY <2>2, <2>4, <2>5 DEF p
<1>11. ReadScopes(block) = [i \in 1..Len(wrote) |-> wrote[i]]
  BY <1>4, <1>7, <1>10 DEF ReadScopes
<1>12. wrote = [i \in 1..Len(wrote) |-> wrote[i]]
  BY <1>2, LenProperties
<1>13. QED
  BY <1>11, <1>12 DEF wrote

----------------------------------------------------------------------------
(* The registry.                                                              *)

Distinct(keys) == \A i \in 1..Len(keys) : \A j \in 1..(i - 1) : keys[j] # keys[i]

Filed(tables, k) == IF k - 1 \in DOMAIN tables.registry THEN tables.registry[k - 1] ELSE {}
SignedWith(blocks, key) == {i - 1 : i \in {b \in DOMAIN blocks : blocks[b].signer = key}}

RegistryFits(tables, blocks) ==
  /\ tables \in KeyTables
  /\ Distinct(tables.keys)
  /\ DOMAIN tables.registry \subseteq 0..(Len(tables.keys) - 1)
  /\ \A b \in DOMAIN blocks :
       blocks[b].signer \in Key => \E j \in 1..Len(tables.keys) : tables.keys[j] = blocks[b].signer
  /\ \A k \in 1..Len(tables.keys) : Filed(tables, k) = SignedWith(blocks, tables.keys[k])

LEMMA DistinctNames ==
  ASSUME NEW keys \in Seq(Key), Distinct(keys),
         NEW i \in 1..Len(keys), NEW j \in 1..Len(keys), keys[i] = keys[j]
  PROVE  i = j
<1>1. Len(keys) \in Nat
  BY LenProperties
<1>2. i \in Nat /\ j \in Nat /\ 1 <= i /\ 1 <= j
  BY <1>1
<1>3. ~(i < j)
  BY <1>2 DEF Distinct
<1>4. ~(j < i)
  BY <1>2 DEF Distinct
<1>5. QED
  BY <1>2, <1>3, <1>4

LEMMA GrownDistinct ==
  ASSUME NEW keys \in Seq(Key), Distinct(keys), NEW more, NEW known, NEW n,
         Grown(Key, {}, keys, more, known, n)
  PROVE  Distinct(known)
<1>1. Len(keys) \in Nat /\ Len(known) \in Nat
  BY LenProperties DEF Grown
<1>2. ASSUME NEW i \in 1..Len(known), NEW j \in 1..(i - 1)
      PROVE  known[j] # known[i]
  <2>1. CASE i > Len(keys)
    BY <2>1 DEF Grown
  <2>2. CASE ~(i > Len(keys))
    <3>1. i \in 1..Len(keys) /\ j \in 1..Len(keys)
      BY <1>1, <2>2
    <3>2. known[i] = keys[i] /\ known[j] = keys[j]
      BY <3>1 DEF Grown
    <3>3. QED
      BY <3>1, <3>2 DEF Distinct
  <2>3. QED
    BY <2>1, <2>2
<1>3. QED
  BY <1>2 DEF Distinct

(* What is filed is right for the keys that will be added too.                *)
LEMMA FiledBefore ==
  ASSUME NEW blocks \in Seq(Blocks), NEW tables, RegistryFits(tables, blocks),
         NEW more, NEW known, NEW n, Grown(Key, {}, tables.keys, more, known, n),
         NEW k \in 1..Len(known)
  PROVE  Filed(tables, k) = SignedWith(blocks, known[k])
<1>1. /\ tables.keys \in Seq(Key) /\ Len(tables.keys) \in Nat
      /\ known \in Seq(Key) /\ Len(known) \in Nat
  BY LenProperties DEF RegistryFits, KeyTables, Grown
<1>2. CASE k <= Len(tables.keys)
  <2>1. k \in 1..Len(tables.keys)
    BY <1>1, <1>2
  <2>2. known[k] = tables.keys[k]
    BY <2>1 DEF Grown
  <2>3. QED
    BY <2>1, <2>2 DEF RegistryFits
<1>3. CASE ~(k <= Len(tables.keys))
  <2>1. k - 1 \notin 0..(Len(tables.keys) - 1) /\ k > Len(tables.keys)
    BY <1>1, <1>3
  <2>2. Filed(tables, k) = {}
    BY <2>1 DEF Filed, RegistryFits
  <2>3. known[k] \in Key
    BY <1>1, ElementOfSeq
  <2>4. ASSUME NEW b \in DOMAIN blocks, blocks[b].signer = known[k]
        PROVE  FALSE
    <3>1. PICK j \in 1..Len(tables.keys) : tables.keys[j] = known[k]
      BY <2>3, <2>4 DEF RegistryFits
    <3>2. known[j] = tables.keys[j] /\ j \in 1..(k - 1)
      <4>1. j \in 1..(k - 1)
        BY <1>1, <2>1
      <4>2. QED
        BY <4>1 DEF Grown
    <3>3. QED
      BY <2>1, <3>1, <3>2 DEF Grown
  <2>5. SignedWith(blocks, known[k]) = {}
    BY <2>4 DEF SignedWith
  <2>6. QED
    BY <2>2, <2>5
<1>4. QED
  BY <1>2, <1>3

LEMMA SignedWithAppended ==
  ASSUME NEW blocks \in Seq(Blocks), NEW block \in Blocks, NEW key
  PROVE  SignedWith(Append(blocks, block), key)
           = SignedWith(blocks, key) \cup (IF block.signer = key THEN {Len(blocks)} ELSE {})
<1> DEFINE longer == Append(blocks, block)
           size == Len(blocks)
<1>1. /\ size \in Nat /\ DOMAIN blocks = 1..size
      /\ longer \in Seq(Blocks) /\ Len(longer) = size + 1
      /\ \A i \in 1..size : longer[i] = blocks[i]
      /\ longer[size + 1] = block
  BY AppendProperties, LenProperties
<1>2. DOMAIN longer = 1..(size + 1)
  <2>1. DOMAIN longer = 1..Len(longer)
    BY <1>1, LenProperties
  <2>2. QED
    BY <1>1, <2>1
<1> HIDE DEF longer, size
<1>3. DOMAIN longer = DOMAIN blocks \cup {size + 1} /\ size + 1 - 1 = size /\ size \in Nat
  BY <1>1, <1>2
<1>4. {b \in DOMAIN longer : longer[b].signer = key}
        = {b \in DOMAIN blocks : blocks[b].signer = key}
            \cup (IF block.signer = key THEN {size + 1} ELSE {})
  BY <1>1, <1>3
<1>5. SignedWith(longer, key)
        = SignedWith(blocks, key) \cup (IF block.signer = key THEN {size} ELSE {})
  <2> DEFINE all == {b \in DOMAIN longer : longer[b].signer = key}
             old == {b \in DOMAIN blocks : blocks[b].signer = key}
  <2>1. all = old \cup (IF block.signer = key THEN {size + 1} ELSE {})
    BY <1>4
  <2>2. SignedWith(longer, key) = {i - 1 : i \in all} /\ SignedWith(blocks, key) = {i - 1 : i \in old}
    BY DEF SignedWith
  <2> HIDE DEF all, old
  <2>3. CASE block.signer = key
    <3>1. all = old \cup {size + 1}
      BY <2>1, <2>3
    <3>2. {i - 1 : i \in all} = {i - 1 : i \in old} \cup {size}
      <4>1. \A i \in all : i \in old \/ i - 1 = size
        BY <1>3, <3>1
      <4>2. old \subseteq all /\ size + 1 \in all
        BY <3>1
      <4>3. QED
        BY <1>3, <4>1, <4>2
    <3>3. QED
      BY <2>2, <2>3, <3>2
  <2>4. CASE block.signer # key
    BY <2>1, <2>2, <2>4
  <2>5. QED
    BY <2>3, <2>4
<1>6. QED
  BY <1>5 DEF longer, size

LEMMA RegistryKept ==
  ASSUME NEW blocks \in Seq(Blocks), NEW tables, RegistryFits(tables, blocks),
         NEW block \in Blocks
  PROVE  RegistryFits(UpdatePublicKeys(tables, block, Len(blocks)), Append(blocks, block))
<1> DEFINE after  == UpdatePublicKeys(tables, block, Len(blocks))
           longer == Append(blocks, block)
           keys   == tables.keys
           known  == after.keys
<1>1. /\ tables \in KeyTables /\ keys \in Seq(Key) /\ Len(keys) \in Nat
      /\ Len(blocks) \in Nat /\ DOMAIN blocks = 1..Len(blocks)
      /\ block.keys \in Seq(Key) /\ block.signer \in Key \cup {NoSigner}
  BY LenProperties DEF RegistryFits, KeyTables, Blocks
<1>2. after \in KeyTables
  BY <1>1, UpdateType
<1>3. known \in Seq(Key) /\ Len(known) \in Nat
  BY <1>2, LenProperties DEF KeyTables
<1>4. /\ longer \in Seq(Blocks) /\ DOMAIN longer = DOMAIN blocks \cup {Len(blocks) + 1}
      /\ \A i \in DOMAIN blocks : longer[i] = blocks[i]
      /\ longer[Len(blocks) + 1] = block
  <2>1. longer \in Seq(Blocks) /\ Len(longer) = Len(blocks) + 1
    BY AppendProperties
  <2>2. DOMAIN longer = 1..(Len(blocks) + 1)
    BY <2>1, LenProperties
  <2>3. QED
    BY <1>1, <2>1, <2>2, AppendProperties
<1>5. ASSUME NEW more, NEW n, Grown(Key, {}, keys, more, known, n),
             DOMAIN after.registry \subseteq 0..(Len(known) - 1),
             block.signer \in Key => \E j \in 1..Len(known) : known[j] = block.signer,
             \A k \in 1..Len(known) :
               Filed(after, k) = Filed(tables, k)
                                   \cup (IF block.signer = known[k] THEN {Len(blocks)} ELSE {})
      PROVE  RegistryFits(after, longer)
  <2> HIDE DEF after, longer
  <2>1. Distinct(known)
    BY <1>1, <1>5, GrownDistinct DEF RegistryFits
  <2>2. ASSUME NEW b \in DOMAIN longer, longer[b].signer \in Key
        PROVE  \E j \in 1..Len(known) : known[j] = longer[b].signer
    <3>1. CASE b \in DOMAIN blocks
      <4>1. PICK j \in 1..Len(keys) : keys[j] = longer[b].signer
        BY <1>4, <2>2, <3>1 DEF RegistryFits
      <4>2. known[j] = keys[j] /\ j \in 1..Len(known)
        BY <1>1, <1>3, <1>5 DEF Grown
      <4>3. QED
        BY <4>1, <4>2
    <3>2. CASE b = Len(blocks) + 1
      BY <1>4, <1>5, <2>2, <3>2
    <3>3. QED
      BY <1>4, <3>1, <3>2
  <2>3. ASSUME NEW k \in 1..Len(known)
        PROVE  Filed(after, k) = SignedWith(longer, known[k])
    <3>1. Filed(tables, k) = SignedWith(blocks, known[k])
      <4>1. Grown(Key, {}, tables.keys, more, known, n)
        BY <1>5
      <4>2. QED
        BY <4>1, FiledBefore, ZenonT(60)
    <3>2. SignedWith(longer, known[k])
            = SignedWith(blocks, known[k]) \cup (IF block.signer = known[k] THEN {Len(blocks)} ELSE {})
      BY SignedWithAppended DEF longer
    <3>3. QED
      BY <1>5, <3>1, <3>2
  <2>4. QED
    BY <1>2, <1>5, <2>1, <2>2, <2>3 DEF RegistryFits
<1>6. CASE IsThirdParty(block)
  <2> DEFINE index == KeyIndex(known, block.signer)
  <2>1. block.signer \in Key
    BY <1>1, <1>6 DEF IsThirdParty
  <2>2. /\ known = InsertKey(keys, block.signer)
        /\ after.registry = Register(tables.registry, index, Len(blocks))
    BY <1>6 DEF UpdatePublicKeys
  <2> HIDE DEF after, longer
  <2>3. /\ Grown(Key, {}, keys, <<block.signer>>, known, 1)
        /\ index \in Nat /\ index \in 0..(Len(known) - 1)
        /\ known[index + 1] = block.signer
    BY <1>1, <2>1, <2>2, InsertedKey
  <2>4. Len(keys) <= Len(known) /\ Distinct(known)
    BY <1>1, <2>3, GrownDistinct DEF Grown, RegistryFits
  <2>5. DOMAIN after.registry = DOMAIN tables.registry \cup {index}
    BY <2>2 DEF Register
  <2>6. DOMAIN after.registry \subseteq 0..(Len(known) - 1)
    <3>1. DOMAIN tables.registry \subseteq 0..(Len(keys) - 1)
      BY DEF RegistryFits
    <3>2. \A i \in 0..(Len(keys) - 1) : i \in 0..(Len(known) - 1)
      BY <1>1, <1>3, <2>4
    <3>3. QED
      BY <2>3, <2>5, <3>1, <3>2
  <2>7. index + 1 \in 1..Len(known)
    BY <1>3, <2>3
  <2>8. ASSUME NEW k \in 1..Len(known)
        PROVE  Filed(after, k) = Filed(tables, k)
                 \cup (IF block.signer = known[k] THEN {Len(blocks)} ELSE {})
    <3>1. k - 1 = index <=> block.signer = known[k]
      <4>1. k - 1 = index => k = index + 1
        BY <1>3, <2>3
      <4>2. ASSUME known[k] = known[index + 1] PROVE k - 1 = index
        <5>1. k = index + 1
          BY <1>3, <2>4, <2>7, <4>2, DistinctNames
        <5>2. QED
          BY <2>3, <5>1
      <4>3. QED
        BY <2>3, <4>1, <4>2
    <3>2. CASE k - 1 \in DOMAIN after.registry
      <4>1. after.registry[k - 1]
              = (IF k - 1 \in DOMAIN tables.registry THEN tables.registry[k - 1] ELSE {})
                  \cup (IF k - 1 = index THEN {Len(blocks)} ELSE {})
        BY <2>2, <2>5, <3>2 DEF Register
      <4>2. QED
        BY <3>1, <3>2, <4>1 DEF Filed
    <3>3. CASE k - 1 \notin DOMAIN after.registry
      BY <2>5, <3>1, <3>3 DEF Filed
    <3>4. QED
      BY <3>2, <3>3
  <2>9. QED
    BY <1>5, <2>3, <2>6, <2>7, <2>8 DEF after, longer
<1>7. CASE ~IsThirdParty(block)
  <2>1. known = ExtendKeys(keys, block.keys) /\ after.registry = tables.registry
    BY <1>7 DEF UpdatePublicKeys
  <2>2. block.signer \notin Key
    BY <1>7, SignerAssumption DEF IsThirdParty
  <2> HIDE DEF after, longer
  <2>3. Grown(Key, {}, keys, block.keys, known, Len(block.keys))
    BY <1>1, <2>1, KeysGrown
  <2>4. DOMAIN after.registry \subseteq 0..(Len(known) - 1)
    <3>1. DOMAIN tables.registry \subseteq 0..(Len(keys) - 1) /\ Len(keys) <= Len(known)
      BY <2>3 DEF RegistryFits, Grown
    <3>2. \A i \in 0..(Len(keys) - 1) : i \in 0..(Len(known) - 1)
      BY <1>1, <1>3, <3>1
    <3>3. QED
      BY <2>1, <3>1, <3>2
  <2>5. \A k \in 1..Len(known) : known[k] \in Key
    BY <1>3, ElementOfSeq
  <2>6. \A k \in 1..Len(known) :
          Filed(after, k) = Filed(tables, k)
                              \cup (IF block.signer = known[k] THEN {Len(blocks)} ELSE {})
    BY <2>1, <2>2, <2>5 DEF Filed
  <2>7. QED
    BY <1>5, <2>2, <2>3, <2>4, <2>6 DEF after, longer
<1>8. QED
  BY <1>6, <1>7

LEMMA NothingFiled == RegistryFits(NoKeys, <<>>)
<1>1. /\ NoKeys \in KeyTables /\ Len(NoKeys.keys) = 0
      /\ DOMAIN NoKeys.registry = {} /\ DOMAIN <<>> = {}
  BY NoKeysType DEF NoKeys
<1>2. 1..0 = {}
  OBVIOUS
<1>3. QED
  BY <1>1, <1>2 DEF RegistryFits, Distinct

----------------------------------------------------------------------------
(* Slices over the heap.                                                      *)

Arrays == Seq(Cell) \ {<<>>}
Heaps == Seq(Arrays)
Slices == [arr : Nat, len : Nat]
Fits(h, s) == s \in Slices /\ s.arr \in 0..Len(h) /\ s.len \in 0..Cap(h, s)
Memories == {m \in [heap : Heaps, slice : Slices] : Fits(m.heap, m.slice)}
Held(m) == Cells(m.heap, m.slice)

(* What appending through the slice of m may do: the cells other slices show  *)
(* stay as they are, unless they lie beyond this slice in its own array.      *)
Later(m, n) ==
  /\ m \in Memories /\ n \in Memories
  /\ Len(m.heap) <= Len(n.heap)
  /\ \A a \in 1..Len(m.heap) :
       /\ Len(n.heap[a]) = Len(m.heap[a])
       /\ \A i \in 1..Len(m.heap[a]) :
            a # m.slice.arr \/ i <= m.slice.len => n.heap[a][i] = m.heap[a][i]
  /\ \/ n.slice.arr = m.slice.arr /\ m.slice.len <= n.slice.len
     \/ n.slice.arr > Len(m.heap)

LEMMA HeapFacts ==
  ASSUME NEW h \in Heaps
  PROVE  /\ Len(h) \in Nat /\ DOMAIN h = 1..Len(h)
         /\ \A a \in 1..Len(h) : /\ h[a] \in Seq(Cell) /\ h[a] # <<>>
                                 /\ Len(h[a]) \in Nat /\ Len(h[a]) > 0
                                 /\ \A i \in 1..Len(h[a]) : h[a][i] \in Cell
<1>1. Len(h) \in Nat /\ DOMAIN h = 1..Len(h)
  BY LenProperties DEF Heaps
<1>2. ASSUME NEW a \in 1..Len(h)
      PROVE  h[a] \in Arrays
  BY ElementOfSeq DEF Heaps
<1>3. ASSUME NEW a \in 1..Len(h)
      PROVE  /\ h[a] \in Seq(Cell) /\ h[a] # <<>>
             /\ Len(h[a]) \in Nat /\ Len(h[a]) > 0
             /\ \A i \in 1..Len(h[a]) : h[a][i] \in Cell
  <2>1. h[a] \in Seq(Cell) /\ h[a] # <<>>
    BY <1>2 DEF Arrays
  <2>2. Len(h[a]) \in Nat \ {0}
    BY <2>1, EmptySeq
  <2>3. QED
    BY <2>1, <2>2, ElementOfSeq
<1>4. QED
  BY <1>1, <1>3

LEMMA CellsFacts ==
  ASSUME NEW h \in Heaps, NEW s, Fits(h, s)
  PROVE  /\ s.arr \in Nat /\ s.len \in Nat
         /\ s.arr = 0 => s.len = 0
         /\ s.arr # 0 => s.arr \in 1..Len(h) /\ s.len <= Len(h[s.arr])
         /\ Cells(h, s) \in Seq(Cell) /\ Len(Cells(h, s)) = s.len
         /\ \A i \in 1..s.len : Cells(h, s)[i] = h[s.arr][i]
<1>1. s.arr \in Nat /\ s.len \in Nat /\ s.arr \in 0..Len(h) /\ s.len \in 0..Cap(h, s) /\ Len(h) \in Nat
  BY HeapFacts DEF Fits, Slices
<1>2. s.arr = 0 => s.len = 0
  BY <1>1 DEF Cap
<1>3. s.arr # 0 => s.arr \in 1..Len(h) /\ s.len <= Len(h[s.arr])
  <2>1. SUFFICES ASSUME s.arr # 0 PROVE s.arr \in 1..Len(h) /\ s.len <= Len(h[s.arr])
    OBVIOUS
  <2>2. s.arr \in 1..Len(h)
    BY <1>1, <2>1
  <2>3. Len(h[s.arr]) \in Nat
    BY <2>2, HeapFacts
  <2>4. QED
    BY <1>1, <2>1, <2>2, <2>3 DEF Cap
<1>4. ASSUME NEW i \in 1..s.len
      PROVE  h[s.arr][i] \in Cell
  <2>1. s.arr \in 1..Len(h) /\ s.len <= Len(h[s.arr])
    BY <1>1, <1>2, <1>3
  <2>2. i \in 1..Len(h[s.arr])
    <3>1. Len(h[s.arr]) \in Nat
      BY <2>1, HeapFacts
    <3>2. QED
      BY <1>1, <2>1, <3>1
  <2>3. QED
    BY <2>1, <2>2, HeapFacts
<1>5. Cells(h, s) \in [1..s.len -> Cell]
  BY <1>4 DEF Cells
<1>6. Cells(h, s) \in Seq(Cell)
  BY <1>1, <1>5, SeqDef
<1>7. Len(Cells(h, s)) = s.len
  BY <1>1, <1>5, <1>6, LenProperties
<1>8. \A i \in 1..s.len : Cells(h, s)[i] = h[s.arr][i]
  BY DEF Cells
<1>9. QED
  BY <1>1, <1>2, <1>3, <1>6, <1>7, <1>8

LEMMA MemoryFacts ==
  ASSUME NEW m \in Memories
  PROVE  /\ m.heap \in Heaps /\ Fits(m.heap, m.slice) /\ m.slice \in Slices
         /\ m = [heap |-> m.heap, slice |-> m.slice]
BY DEF Memories

LEMMA NilFits ==
  ASSUME NEW h \in Heaps
  PROVE  /\ [heap |-> h, slice |-> Nil] \in Memories
         /\ Cells(h, Nil) = <<>>
<1>1. Nil \in Slices /\ Nil.arr = 0 /\ Nil.len = 0
  BY DEF Nil, Slices
<1>2. Fits(h, Nil)
  BY <1>1, HeapFacts DEF Fits, Cap
<1>3. Len(Cells(h, Nil)) = 0 /\ Cells(h, Nil) \in Seq(Cell)
  BY <1>1, <1>2, CellsFacts
<1>4. QED
  BY <1>1, <1>2, <1>3, EmptySeq DEF Memories

LEMMA LaterSelf ==
  ASSUME NEW m \in Memories
  PROVE  Later(m, m)
<1>1. m.heap \in Heaps /\ Fits(m.heap, m.slice)
  BY MemoryFacts
<1>2. Len(m.heap) \in Nat /\ m.slice.len \in Nat
  BY <1>1, HeapFacts, CellsFacts
<1>3. QED
  BY <1>2 DEF Later

LEMMA LaterReads ==
  ASSUME NEW m, NEW n, Later(m, n), NEW s, Fits(m.heap, s),
         s.arr # m.slice.arr \/ s.len <= m.slice.len
  PROVE  Fits(n.heap, s) /\ Cells(n.heap, s) = Cells(m.heap, s)
<1>1. m.heap \in Heaps /\ n.heap \in Heaps
  BY MemoryFacts DEF Later
<1>2. /\ s \in Slices /\ s.arr \in Nat /\ s.len \in Nat
      /\ s.arr = 0 => s.len = 0
      /\ s.arr # 0 => s.arr \in 1..Len(m.heap) /\ s.len <= Len(m.heap[s.arr])
  BY <1>1, CellsFacts DEF Fits
<1>3. Len(m.heap) \in Nat /\ Len(n.heap) \in Nat /\ Len(m.heap) <= Len(n.heap)
  BY <1>1, HeapFacts DEF Later
<1>4. CASE s.arr = 0
  <2>1. 0 \in 0..Len(n.heap)
    BY <1>3
  <2>2. Fits(n.heap, s)
    BY <1>2, <1>4, <2>1 DEF Fits, Cap
  <2>3. \A i \in 1..s.len : FALSE
    BY <1>2, <1>4
  <2>4. Cells(n.heap, s) = Cells(m.heap, s)
    BY <2>3 DEF Cells
  <2>5. QED
    BY <2>2, <2>4
<1>5. CASE s.arr # 0
  <2>1. s.arr \in 1..Len(m.heap) /\ s.arr \in 0..Len(n.heap)
    BY <1>2, <1>3, <1>5
  <2>2. Len(n.heap[s.arr]) = Len(m.heap[s.arr]) /\ Len(m.heap[s.arr]) \in Nat
    BY <1>1, <2>1, HeapFacts DEF Later
  <2>3. s.len \in 0..Len(n.heap[s.arr])
    BY <1>2, <1>5, <2>2
  <2>4. Fits(n.heap, s)
    BY <1>2, <1>5, <2>1, <2>3 DEF Fits, Cap
  <2>5. ASSUME NEW i \in 1..s.len
        PROVE  n.heap[s.arr][i] = m.heap[s.arr][i]
    <3>1. i \in 1..Len(m.heap[s.arr])
      BY <1>2, <1>5, <2>2
    <3>2. s.arr # m.slice.arr \/ i <= m.slice.len
      <4>1. CASE s.len <= m.slice.len
        <5>1. m.slice.len \in Nat
          BY MemoryFacts DEF Later, Slices
        <5>2. QED
          BY <1>2, <4>1, <5>1
      <4>2. QED
        BY <4>1
    <3>3. QED
      BY <2>1, <3>1, <3>2 DEF Later
  <2>6. Cells(n.heap, s) = Cells(m.heap, s)
    BY <2>5 DEF Cells
  <2>7. QED
    BY <2>4, <2>6
<1>6. QED
  BY <1>4, <1>5

LEMMA LaterTransitive ==
  ASSUME NEW m, NEW n, NEW p, Later(m, n), Later(n, p)
  PROVE  Later(m, p)
<1>1. m \in Memories /\ n \in Memories /\ p \in Memories
  BY DEF Later
<1>2. /\ Len(m.heap) \in Nat /\ Len(n.heap) \in Nat /\ Len(p.heap) \in Nat
      /\ m.slice.arr \in Nat /\ n.slice.arr \in Nat /\ p.slice.arr \in Nat
      /\ m.slice.len \in Nat /\ n.slice.len \in Nat /\ p.slice.len \in Nat
  BY <1>1, MemoryFacts, HeapFacts DEF Slices
<1>3. Len(m.heap) <= Len(n.heap) /\ Len(n.heap) <= Len(p.heap)
  BY DEF Later
<1>4. \/ n.slice.arr = m.slice.arr /\ m.slice.len <= n.slice.len
      \/ n.slice.arr > Len(m.heap)
  BY DEF Later
<1>5. ASSUME NEW a \in 1..Len(m.heap)
      PROVE  /\ Len(p.heap[a]) = Len(m.heap[a])
             /\ \A i \in 1..Len(m.heap[a]) :
                  a # m.slice.arr \/ i <= m.slice.len => p.heap[a][i] = m.heap[a][i]
  <2>1. a \in 1..Len(n.heap) /\ a \in Nat
    BY <1>2, <1>3
  <2>2. Len(n.heap[a]) = Len(m.heap[a]) /\ Len(p.heap[a]) = Len(n.heap[a])
    BY <2>1 DEF Later
  <2>3. ASSUME NEW i \in 1..Len(m.heap[a]), a # m.slice.arr \/ i <= m.slice.len
        PROVE  p.heap[a][i] = m.heap[a][i]
    <3>1. n.heap[a][i] = m.heap[a][i]
      BY <2>3 DEF Later
    <3>2. i \in Nat
      OBVIOUS
    <3>3. a # n.slice.arr \/ i <= n.slice.len
      BY <1>2, <1>4, <2>1, <2>3, <3>2
    <3>4. p.heap[a][i] = n.heap[a][i]
      BY <2>1, <2>2, <3>3 DEF Later
    <3>5. QED
      BY <3>1, <3>4
  <2>4. QED
    BY <2>2, <2>3
<1>6. \/ p.slice.arr = m.slice.arr /\ m.slice.len <= p.slice.len
      \/ p.slice.arr > Len(m.heap)
  <2>1. \/ p.slice.arr = n.slice.arr /\ n.slice.len <= p.slice.len
        \/ p.slice.arr > Len(n.heap)
    BY DEF Later
  <2>2. QED
    BY <1>2, <1>3, <1>4, <2>1
<1>7. QED
  BY <1>1, <1>2, <1>3, <1>5, <1>6 DEF Later

(* Go's append, in both cases.                                                *)
LEMMA PushInPlace ==
  ASSUME NEW m \in Memories, NEW w \in Cell, m.slice.len < Cap(m.heap, m.slice)
  PROVE  Later(m, Push(m, w)) /\ Held(Push(m, w)) = Append(Held(m), w)
<1> DEFINE h == m.heap
           a == m.slice.arr
           k == m.slice.len
           n == Push(m, w)
           array == [h[a] EXCEPT ![k + 1] = w]
<1>1. h \in Heaps /\ Fits(h, m.slice) /\ a \in Nat /\ k \in Nat
  BY MemoryFacts, CellsFacts
<1>2. a # 0
  BY <1>1 DEF Cap
<1>3. a \in 1..Len(h) /\ k < Len(h[a]) /\ Len(h) \in Nat
  BY <1>1, <1>2, CellsFacts, HeapFacts DEF Cap
<1>4. h[a] \in Seq(Cell) /\ Len(h[a]) \in Nat /\ k + 1 \in 1..Len(h[a])
  BY <1>1, <1>3, HeapFacts
<1>5. n = [heap |-> [h EXCEPT ![a] = array], slice |-> [arr |-> a, len |-> k + 1]]
  BY DEF Push
<1>6. /\ array \in Seq(Cell) /\ Len(array) = Len(h[a])
      /\ \A i \in 1..Len(h[a]) : array[i] = IF i = k + 1 THEN w ELSE h[a][i]
  BY <1>4, ExceptSeq
<1>7. array \in Arrays
  <2>1. Len(array) # 0
    BY <1>4, <1>6
  <2> HIDE DEF array
  <2>2. array # <<>>
    BY <2>1, EmptySeq
  <2>3. QED
    BY <1>6, <2>2 DEF Arrays
<1> HIDE DEF array
<1>8. /\ n.heap \in Heaps /\ Len(n.heap) = Len(h)
      /\ \A b \in 1..Len(h) : n.heap[b] = IF b = a THEN array ELSE h[b]
  <2>1. h \in Seq(Arrays)
    BY <1>1 DEF Heaps
  <2> HIDE DEF h
  <2>2. n.heap = [h EXCEPT ![a] = array]
    BY <1>5
  <2>3. QED
    BY <1>3, <1>7, <2>1, <2>2, ExceptSeq DEF Heaps
<1>9. n.slice = [arr |-> a, len |-> k + 1] /\ n.slice.arr = a /\ n.slice.len = k + 1
  BY <1>5
<1> HIDE DEF n
<1>10. Fits(n.heap, n.slice)
  <2>1. n.slice \in Slices
    BY <1>1, <1>9 DEF Slices
  <2>2. Cap(n.heap, n.slice) = Len(h[a])
    BY <1>2, <1>3, <1>6, <1>8, <1>9 DEF Cap
  <2>3. QED
    BY <1>1, <1>3, <1>4, <1>8, <1>9, <2>1, <2>2 DEF Fits
<1>11. n \in Memories
  BY <1>5, <1>8, <1>10 DEF Memories, Fits, n
<1>12. ASSUME NEW b \in 1..Len(h)
       PROVE  /\ Len(n.heap[b]) = Len(h[b])
              /\ \A i \in 1..Len(h[b]) : b # a \/ i <= k => n.heap[b][i] = h[b][i]
  <2>1. CASE b = a
    <3>1. \A i \in 1..Len(h[a]) : i <= k => i # k + 1
      BY <1>1
    <3>2. QED
      BY <1>6, <1>8, <2>1, <3>1
  <2>2. CASE b # a
    BY <1>8, <2>2
  <2>3. QED
    BY <2>1, <2>2
<1>13. Later(m, n)
  BY <1>1, <1>3, <1>8, <1>9, <1>11, <1>12 DEF Later
<1>14. Held(n) = Append(Held(m), w)
  <2>1. /\ Held(n) \in Seq(Cell) /\ Len(Held(n)) = k + 1
        /\ \A i \in 1..(k + 1) : Held(n)[i] = array[i]
    <3>1. n.heap[n.slice.arr] = array
      BY <1>3, <1>8, <1>9
    <3>2. QED
      BY <1>8, <1>9, <1>10, <3>1, CellsFacts DEF Held
  <2>2. /\ Held(m) \in Seq(Cell) /\ Len(Held(m)) = k
        /\ \A i \in 1..k : Held(m)[i] = h[a][i]
    BY <1>1, CellsFacts DEF Held
  <2>3. /\ Append(Held(m), w) \in Seq(Cell) /\ Len(Append(Held(m), w)) = k + 1
        /\ \A i \in 1..k : Append(Held(m), w)[i] = h[a][i]
        /\ Append(Held(m), w)[k + 1] = w
    BY <2>2, AppendProperties
  <2>4. ASSUME NEW i \in 1..(k + 1)
        PROVE  Held(n)[i] = Append(Held(m), w)[i]
    <3>1. i \in 1..Len(h[a]) /\ (i = k + 1 \/ i \in 1..k)
      BY <1>1, <1>4
    <3>2. QED
      BY <1>1, <1>6, <2>1, <2>3, <3>1
  <2>5. QED
    BY <2>1, <2>3, <2>4, SeqEqual
<1>15. QED
  BY <1>13, <1>14 DEF n

LEMMA PushAllocates ==
  ASSUME NEW m \in Memories, NEW w \in Cell, ~(m.slice.len < Cap(m.heap, m.slice))
  PROVE  Later(m, Push(m, w)) /\ Held(Push(m, w)) = Append(Held(m), w)
<1> DEFINE h == m.heap
           k == m.slice.len
           n == Push(m, w)
           size == IF k = 0 THEN 1 ELSE 2 * k
           array == [i \in 1..size |-> IF i <= k THEN Held(m)[i] ELSE IF i = k + 1 THEN w ELSE Blank]
<1>1. h \in Heaps /\ Fits(h, m.slice) /\ k \in Nat /\ Len(h) \in Nat
  BY MemoryFacts, CellsFacts, HeapFacts
<1>2. n = [heap |-> Append(h, array), slice |-> [arr |-> Len(h) + 1, len |-> k + 1]]
  BY DEF Push, Held
<1>3. Held(m) \in Seq(Cell) /\ Len(Held(m)) = k
  BY <1>1, CellsFacts DEF Held
<1>4. size \in Nat /\ k + 1 \in 1..size
  BY <1>1
<1> HIDE DEF size
<1>5. \A i \in 1..size : i <= k => Held(m)[i] \in Cell
  <2>1. \A i \in 1..size : i <= k => i \in 1..k
    BY <1>1, <1>4
  <2>2. QED
    BY <1>3, <2>1, ElementOfSeq
<1>6. Blank \in Cell
  BY DEF Cell
<1>7. array \in [1..size -> Cell]
  BY <1>5, <1>6
<1>8. \A i \in 1..size : array[i] = IF i <= k THEN Held(m)[i] ELSE IF i = k + 1 THEN w ELSE Blank
  OBVIOUS
<1> HIDE DEF array
<1>9. array \in Seq(Cell) /\ Len(array) = size
  <2>1. array \in Seq(Cell)
    BY <1>4, <1>7, SeqDef
  <2>2. QED
    BY <1>4, <1>7, <2>1, LenProperties
<1>10. array \in Arrays
  <2>1. Len(array) # 0
    BY <1>4, <1>9
  <2>2. array # <<>>
    BY <2>1, EmptySeq
  <2>3. QED
    BY <1>9, <2>2 DEF Arrays
<1>11. /\ n.heap \in Heaps /\ Len(n.heap) = Len(h) + 1
       /\ \A b \in 1..Len(h) : n.heap[b] = h[b]
       /\ n.heap[Len(h) + 1] = array
  <2>1. h \in Seq(Arrays)
    BY <1>1 DEF Heaps
  <2> HIDE DEF h
  <2>2. n.heap = Append(h, array)
    BY <1>2
  <2>3. QED
    BY <1>10, <2>1, <2>2, AppendProperties DEF Heaps
<1>12. n.slice = [arr |-> Len(h) + 1, len |-> k + 1] /\ n.slice.arr = Len(h) + 1 /\ n.slice.len = k + 1
  BY <1>2
<1> HIDE DEF n
<1>13. Fits(n.heap, n.slice)
  <2>1. n.slice \in Slices
    BY <1>1, <1>12 DEF Slices
  <2>2. Cap(n.heap, n.slice) = size
    BY <1>1, <1>9, <1>11, <1>12 DEF Cap
  <2>3. n.slice.arr \in 0..Len(n.heap) /\ n.slice.len \in 0..size
    BY <1>1, <1>4, <1>11, <1>12
  <2>4. QED
    BY <2>1, <2>2, <2>3 DEF Fits
<1>14. n \in Memories
  BY <1>2, <1>11, <1>13 DEF Memories, Fits, n
<1>15. Later(m, n)
  BY <1>1, <1>11, <1>12, <1>14 DEF Later
<1>16. Held(n) = Append(Held(m), w)
  <2>1. /\ Held(n) \in Seq(Cell) /\ Len(Held(n)) = k + 1
        /\ \A i \in 1..(k + 1) : Held(n)[i] = array[i]
    BY <1>11, <1>12, <1>13, CellsFacts DEF Held
  <2>2. /\ Append(Held(m), w) \in Seq(Cell) /\ Len(Append(Held(m), w)) = k + 1
        /\ \A i \in 1..k : Append(Held(m), w)[i] = Held(m)[i]
        /\ Append(Held(m), w)[k + 1] = w
    BY <1>3, AppendProperties
  <2>3. ASSUME NEW i \in 1..(k + 1)
        PROVE  Held(n)[i] = Append(Held(m), w)[i]
    <3>1. i \in 1..size
      BY <1>1, <1>4
    <3>2. CASE i <= k
      <4>1. i \in 1..k
        BY <1>1, <3>2
      <4>2. QED
        BY <1>8, <2>1, <2>2, <3>1, <3>2, <4>1
    <3>3. CASE ~(i <= k)
      <4>1. i = k + 1
        BY <1>1, <3>3
      <4>2. QED
        BY <1>8, <2>1, <2>2, <3>1, <3>3, <4>1
    <3>4. QED
      BY <3>2, <3>3
  <2>4. QED
    BY <2>1, <2>2, <2>3, SeqEqual
<1>17. QED
  BY <1>15, <1>16 DEF n

LEMMA InsertAdds ==
  ASSUME NEW m \in Memories, NEW w \in Cell
  PROVE  /\ Later(m, Insert(m, w)) /\ Insert(m, w) \in Memories
         /\ Held(Insert(m, w)) = Add(Held(m), w, Range(Default))
<1>1. CASE w \in Range(Default) \cup Range(Cells(m.heap, m.slice))
  BY <1>1, LaterSelf DEF Insert, Add, Held
<1>2. CASE w \notin Range(Default) \cup Range(Cells(m.heap, m.slice))
  <2>1. Insert(m, w) = Push(m, w)
    BY <1>2 DEF Insert
  <2>2. Later(m, Push(m, w)) /\ Held(Push(m, w)) = Append(Held(m), w)
    BY PushInPlace, PushAllocates
  <2>3. Add(Held(m), w, Range(Default)) = Append(Held(m), w)
    BY <1>2 DEF Add, Held
  <2>4. QED
    BY <2>1, <2>2, <2>3 DEF Later
<1>3. QED
  BY <1>1, <1>2

LEMMA ExtendUnfolds ==
  ASSUME NEW m \in Memories, NEW words \in Seq(Cell)
  PROVE  \E f \in [0..Len(words) -> Memories] :
           /\ f[0] = m
           /\ \A n \in 1..Len(words) : f[n] = Insert(f[n - 1], words[n])
           /\ Extend(m, words) = f[Len(words)]
<1> DEFINE step == [n \in Nat |-> [s \in Memories |->
                      IF n \in 1..Len(words) THEN Insert(s, words[n]) ELSE s]]
           upTo == CHOOSE f : f = [n \in 0..Len(words) |->
                                     IF n = 0 THEN m ELSE Insert(f[n - 1], words[n])]
<1>1. Len(words) \in Nat
  BY LenProperties
<1>2. step \in [Nat -> [Memories -> Memories]]
  <2>1. ASSUME NEW n \in 1..Len(words), NEW s \in Memories
        PROVE  Insert(s, words[n]) \in Memories
    BY ElementOfSeq, InsertAdds
  <2>2. QED
    BY <2>1
<1>3. \A n \in 1..Len(words), s \in Memories : step[n][s] = Insert(s, words[n])
  <2>1. \A n \in 1..Len(words) : n \in Nat
    BY <1>1
  <2>2. QED
    BY <2>1
<1> HIDE DEF step
<1>4. PICK f \in [0..Len(words) -> Memories] : Iterates(f, m, step, Len(words))
  BY <1>1, <1>2, Recursion
<1>5. f = [n \in 0..Len(words) |-> IF n = 0 THEN m ELSE Insert(f[n - 1], words[n])]
  <2>1. \A n \in 0..Len(words) : n # 0 => n \in 1..Len(words) /\ n - 1 \in 0..Len(words)
    BY <1>1
  <2>2. \A n \in 0..Len(words) : n # 0 => step[n][f[n - 1]] = Insert(f[n - 1], words[n])
    BY <1>3, <2>1
  <2>3. QED
    BY <1>4, <2>2 DEF Iterates
<1>6. upTo = [n \in 0..Len(words) |-> IF n = 0 THEN m ELSE Insert(upTo[n - 1], words[n])]
  BY <1>5
<1>7. Extend(m, words) = upTo[Len(words)]
  BY DEF Extend
<1> HIDE DEF upTo
<1>8. \A n \in 1..Len(words) : n \in 0..Len(words) /\ n # 0 /\ n - 1 \in 0..Len(words)
  BY <1>1
<1>9. upTo[0] = m
  <2>1. 0 \in 0..Len(words)
    BY <1>1
  <2>2. QED
    BY <1>6, <2>1
<1>10. ASSUME NEW n \in 1..Len(words)
       PROVE  upTo[n] = Insert(upTo[n - 1], words[n])
  BY <1>6, <1>8
<1>11. upTo \in [0..Len(words) -> Memories]
  <2> DEFINE bad == {n \in 0..Len(words) : upTo[n] \notin Memories}
  <2>1. bad = {}
    <3>1. SUFFICES ASSUME bad # {} PROVE FALSE
      OBVIOUS
    <3>2. PICK n \in bad : \A k \in bad : n <= k
      <4>1. bad \in SUBSET Nat
        BY <1>1
      <4> HIDE DEF bad
      <4>2. QED
        BY <3>1, <4>1, Least
    <3>3. n # 0
      BY <1>9, <3>2
    <3>4. n \in 1..Len(words) /\ n - 1 \in 0..Len(words) /\ ~(n <= n - 1)
      BY <1>1, <3>2, <3>3
    <3>5. upTo[n - 1] \in Memories /\ words[n] \in Cell
      BY <3>2, <3>4, ElementOfSeq
    <3>6. upTo[n] \in Memories
      BY <1>10, <3>4, <3>5, InsertAdds
    <3>7. QED
      BY <3>2, <3>6
  <2>2. QED
    BY <1>6, <2>1
<1>12. QED
  BY <1>7, <1>9, <1>10, <1>11

(* Extend moves on from m, and its table is a matter of values only.          *)
LEMMA ExtendAdds ==
  ASSUME NEW m \in Memories, NEW words \in Seq(Cell)
  PROVE  /\ Later(m, Extend(m, words)) /\ Extend(m, words) \in Memories
         /\ \E g : /\ Adds(g, Held(m), words, Range(Default))
                   /\ g[Len(words)] = Held(Extend(m, words))
<1>1. PICK f \in [0..Len(words) -> Memories] :
        /\ f[0] = m
        /\ \A n \in 1..Len(words) : f[n] = Insert(f[n - 1], words[n])
        /\ Extend(m, words) = f[Len(words)]
  BY ExtendUnfolds
<1>2. Len(words) \in Nat
  BY LenProperties
<1>3. ASSUME NEW n \in 1..Len(words)
      PROVE  /\ n \in 0..Len(words) /\ n - 1 \in 0..Len(words) /\ n # 0
             /\ f[n - 1] \in Memories /\ words[n] \in Cell
  <2>1. n \in 0..Len(words) /\ n - 1 \in 0..Len(words) /\ n # 0
    BY <1>2
  <2>2. QED
    BY <2>1, ElementOfSeq
<1> DEFINE bad == {n \in 0..Len(words) : ~Later(m, f[n])}
<1>4. bad = {}
  <2>1. SUFFICES ASSUME bad # {} PROVE FALSE
    OBVIOUS
  <2>2. PICK n \in bad : \A k \in bad : n <= k
    <3>1. bad \in SUBSET Nat
      BY <1>2
    <3> HIDE DEF bad
    <3>2. QED
      BY <2>1, <3>1, Least
  <2>3. n # 0
    BY <1>1, <2>2, LaterSelf
  <2>4. n \in 1..Len(words) /\ n - 1 \in 0..Len(words) /\ ~(n <= n - 1)
    BY <1>2, <2>2, <2>3
  <2>5. Later(m, f[n - 1])
    BY <2>2, <2>4
  <2>6. Later(f[n - 1], f[n])
    BY <1>1, <1>3, <2>4, InsertAdds
  <2>7. Later(m, f[n])
    BY <2>5, <2>6, LaterTransitive
  <2>8. QED
    BY <2>2, <2>7
<1>5. Later(m, Extend(m, words))
  <2>1. Len(words) \in 0..Len(words)
    BY <1>2
  <2>2. QED
    BY <1>1, <1>4, <2>1
<1> DEFINE g == [n \in 0..Len(words) |-> Held(f[n])]
<1>6. Adds(g, Held(m), words, Range(Default))
  <2>1. g[0] = Held(m)
    <3>1. 0 \in 0..Len(words)
      BY <1>2
    <3>2. QED
      BY <1>1, <3>1
  <2>2. ASSUME NEW n \in 1..Len(words)
        PROVE  g[n] = Add(g[n - 1], words[n], Range(Default))
    <3>1. g[n] = Held(f[n]) /\ g[n - 1] = Held(f[n - 1])
      BY <1>3
    <3>2. Held(Insert(f[n - 1], words[n])) = Add(Held(f[n - 1]), words[n], Range(Default))
      BY <1>3, InsertAdds
    <3>3. f[n] = Insert(f[n - 1], words[n])
      BY <1>1
    <3> HIDE DEF g
    <3>4. QED
      BY <3>1, <3>2, <3>3
  <2> HIDE DEF g
  <2>3. QED
    BY <2>1, <2>2 DEF Adds
<1>7. g[Len(words)] = Held(Extend(m, words))
  <2>1. Len(words) \in 0..Len(words)
    BY <1>2
  <2>2. QED
    BY <1>1, <2>1
<1> HIDE DEF g
<1>8. QED
  BY <1>5, <1>6, <1>7 DEF Later

LEMMA HeldFacts ==
  ASSUME NEW m \in Memories
  PROVE  Held(m) \in Seq(Cell) /\ Len(Held(m)) = m.slice.len /\ m.slice.len \in Nat
BY MemoryFacts, CellsFacts DEF Held

LEMMA ExtendGrows ==
  ASSUME NEW m \in Memories, NEW words \in Seq(Cell)
  PROVE  Grown(Cell, Range(Default), Held(m), words, Held(Extend(m, words)), Len(words))
<1>1. PICK g : /\ Adds(g, Held(m), words, Range(Default))
               /\ g[Len(words)] = Held(Extend(m, words))
  BY ExtendAdds
<1>2. Held(m) \in Seq(Cell) /\ Len(words) \in 0..Len(words)
  BY HeldFacts, LenProperties
<1>3. QED
  BY <1>1, <1>2, AddingGrows

LEMMA ExtendJoins ==
  ASSUME NEW m \in Memories, NEW words \in Seq(Cell),
         Fresh(Held(m), words, Range(Default))
  PROVE  Joined(Cell, Held(m), words, Held(Extend(m, words)), Len(words))
<1>1. PICK g : /\ Adds(g, Held(m), words, Range(Default))
               /\ g[Len(words)] = Held(Extend(m, words))
  BY ExtendAdds
<1>2. Held(m) \in Seq(Cell)
  BY HeldFacts
<1>3. QED
  BY <1>1, <1>2, AddingJoins

LEMMA ExtendSame ==
  ASSUME NEW m \in Memories, NEW n \in Memories, Held(m) = Held(n), NEW words \in Seq(Cell)
  PROVE  Held(Extend(m, words)) = Held(Extend(n, words))
<1>1. PICK f : /\ Adds(f, Held(m), words, Range(Default))
               /\ f[Len(words)] = Held(Extend(m, words))
  BY ExtendAdds
<1>2. PICK g : /\ Adds(g, Held(m), words, Range(Default))
               /\ g[Len(words)] = Held(Extend(n, words))
  BY ExtendAdds
<1>3. QED
  BY <1>1, <1>2, AddingSame

----------------------------------------------------------------------------
(* Symbols: an index names its string in every table that goes on from the    *)
(* one it was made in.                                                        *)

Begins(T, U) == Len(T) <= Len(U) /\ \A i \in 1..Len(T) : U[i] = T[i]

LEMMA IndexResolves ==
  ASSUME NEW T \in Seq(Cell), NEW w, w \in Range(Default) \/ \E j \in 1..Len(T) : T[j] = w
  PROVE  /\ Index(T, w) \in Nat
         /\ \A U \in Seq(Cell) : Begins(T, U) => Str(U, Index(T, w)) = w
<1>1. Default \in Seq(Word) /\ Offset \in Nat /\ Len(Default) \in Nat /\ Len(Default) <= Offset
  BY SymbolAssumption, LenProperties
<1>2. Len(T) \in Nat
  BY LenProperties
<1>3. CASE w \in Range(Default)
  <2> DEFINE p == Position(Default, w)
  <2>1. PICK i \in 1..Len(Default) : Default[i] = w
    BY <1>1, <1>3, InRange
  <2>2. p \in 1..Len(Default) /\ Default[p] = w
    BY <1>1, <2>1, PositionFinds
  <2>3. Index(T, w) = p - 1
    BY <1>3 DEF Index
  <2> HIDE DEF p
  <2>4. p - 1 \in Nat /\ p - 1 < Offset /\ p - 1 < Len(Default) /\ p - 1 + 1 = p
    BY <1>1, <2>2
  <2>5. ASSUME NEW U
        PROVE  Str(U, p - 1) = w
    BY <2>2, <2>4 DEF Str
  <2>6. QED
    BY <2>3, <2>4, <2>5
<1>4. CASE w \notin Range(Default)
  <2> DEFINE p == Position(T, w)
  <2>1. PICK i \in 1..Len(T) : T[i] = w
    BY <1>4
  <2>2. p \in 1..Len(T) /\ T[p] = w
    BY <2>1, PositionFinds
  <2> DEFINE sym == Offset + p - 1
  <2>3. Index(T, w) = sym
    BY <1>4 DEF Index
  <2> HIDE DEF p
  <2>4. /\ sym \in Nat /\ ~(sym < Offset)
        /\ sym - Offset = p - 1 /\ sym - Offset + 1 = p
    BY <1>1, <1>2, <2>2
  <2> HIDE DEF sym
  <2>5. ASSUME NEW U \in Seq(Cell), Begins(T, U)
        PROVE  Str(U, sym) = w
    <3>1. Len(U) \in Nat /\ Len(T) <= Len(U) /\ U[p] = w
      BY <2>2, <2>5, LenProperties DEF Begins
    <3>2. sym - Offset < Len(U)
      BY <1>2, <2>2, <2>4, <3>1
    <3>3. QED
      BY <2>4, <3>1, <3>2 DEF Str
  <2>6. QED
    BY <2>3, <2>4, <2>5
<1>5. QED
  BY <1>3, <1>4

(* What a table yields beyond its first elements.                             *)
LEMMA GrownSplits ==
  ASSUME NEW skip, NEW base \in Seq(Cell), NEW more \in Seq(Cell), NEW known,
         Grown(Cell, skip, base, more, known, Len(more))
  PROVE  LET new == SubSeq(known, Len(base) + 1, Len(known))
         IN  /\ new \in Seq(Cell)
             /\ Joined(Cell, base, new, known, Len(new))
             /\ Fresh(base, new, skip)
<1> DEFINE new == SubSeq(known, Len(base) + 1, Len(known))
           size == Len(known) - Len(base)
<1>1. /\ known \in Seq(Cell) /\ Len(known) \in Nat /\ Len(base) \in Nat /\ Len(base) <= Len(known)
      /\ size \in Nat
  BY LenProperties DEF Grown
<1>2. \A i \in (Len(base) + 1)..Len(known) : known[i] \in Cell
  <2>1. \A i \in (Len(base) + 1)..Len(known) : i \in 1..Len(known)
    BY <1>1
  <2>2. QED
    BY <1>1, <2>1, ElementOfSeq
<1>3. /\ new \in Seq(Cell)
      /\ Len(new) = IF Len(base) + 1 <= Len(known) THEN Len(known) - (Len(base) + 1) + 1 ELSE 0
      /\ \A i \in 1..(Len(known) - (Len(base) + 1) + 1) : new[i] = known[Len(base) + 1 + i - 1]
  BY <1>1, <1>2, SubSeqProperties
<1> HIDE DEF new
<1>4. Len(new) = size /\ Len(known) = Len(base) + size
  BY <1>1, <1>3
<1>5. ASSUME NEW i \in 1..size
      PROVE  new[i] = known[Len(base) + i] /\ Len(base) + i \in 1..Len(known) /\ Len(base) + i > Len(base)
  <2>1. i \in 1..(Len(known) - (Len(base) + 1) + 1) /\ Len(base) + 1 + i - 1 = Len(base) + i
    BY <1>1
  <2>2. Len(base) + i \in 1..Len(known) /\ Len(base) + i > Len(base)
    BY <1>1
  <2>3. QED
    BY <1>3, <2>1, <2>2
<1> HIDE DEF size
<1>6. Joined(Cell, base, new, known, Len(new))
  BY <1>1, <1>4, <1>5 DEF Joined, Grown
<1>7. ASSUME NEW i \in 1..size
      PROVE  /\ new[i] \notin skip
             /\ \A j \in 1..Len(base) : base[j] # new[i]
             /\ \A j \in 1..(i - 1) : new[j] # new[i]
  <2> DEFINE k == Len(base) + i
  <2>1. k \in 1..Len(known) /\ k > Len(base) /\ new[i] = known[k]
    BY <1>5
  <2>2. known[k] \notin skip /\ \A j \in 1..(k - 1) : known[j] # known[k]
    BY <2>1 DEF Grown
  <2>3. ASSUME NEW j \in 1..Len(base)
        PROVE  base[j] # new[i]
    <3>1. j \in 1..(k - 1) /\ known[j] = base[j]
      BY <1>1, <2>1 DEF Grown
    <3>2. QED
      BY <2>1, <2>2, <3>1
  <2>4. ASSUME NEW j \in 1..(i - 1)
        PROVE  new[j] # new[i]
    <3>1. j \in 1..size /\ Len(base) + j \in 1..(k - 1)
      BY <1>1, <1>4
    <3>2. new[j] = known[Len(base) + j]
      BY <1>5, <3>1
    <3>3. QED
      BY <2>1, <2>2, <3>1, <3>2
  <2>5. QED
    BY <2>1, <2>2, <2>3, <2>4
<1>8. Fresh(base, new, skip)
  BY <1>4, <1>7 DEF Fresh
<1>9. QED
  BY <1>3, <1>6, <1>8 DEF new

LEMMA WordsAreCells ==
  ASSUME NEW content \in Contents
  PROVE  content.words \in Seq(Word) /\ content.words \in Seq(Cell) /\ content.scopes \in Seq(Key)
<1>1. content.words \in Seq(Word) /\ content.scopes \in Seq(Key)
  BY ContentAssumption
<1>2. Word \subseteq Cell
  BY DEF Cell
<1>3. QED
  BY <1>1, <1>2, SeqMonotonic

(* The block Build makes over the table of m.                                 *)
LEMMA BuiltFacts ==
  ASSUME NEW m \in Memories, NEW keys \in Seq(Key), NEW content \in Contents,
         NEW signer \in Key \cup {NoSigner}
  PROVE  LET built == Built(m, keys, content, signer)
             block == built.block
             table == Held(Extend(m, content.words))
         IN  /\ built.heap = Extend(m, content.words).heap
             /\ block \in Blocks /\ block.signer = signer /\ KeysWellMade(block)
             /\ DOMAIN block.terms = DOMAIN block.words
             /\ \A i \in DOMAIN block.words :
                  \A U \in Seq(Cell) : Begins(table, U) => Str(U, block.terms[i]) = block.words[i]
             /\ Joined(Cell, Held(m), block.table, table, Len(block.table))
             /\ Fresh(Held(m), block.table, Range(Default))
<1> DEFINE words == content.words
           scopes == content.scopes
           after == Extend(m, words)
           table == Held(after)
           known == ExtendKeys(keys, scopes)
           built == Built(m, keys, content, signer)
           block == built.block
           new == SubSeq(table, Len(Held(m)) + 1, Len(table))
           terms == [i \in DOMAIN words |-> Index(table, words[i])]
           indexes == [i \in DOMAIN scopes |-> KeyIndex(known, scopes[i])]
           newKeys == SubSeq(known, Len(keys) + 1, Len(known))
<1>1. words \in Seq(Word) /\ words \in Seq(Cell) /\ scopes \in Seq(Key)
  BY WordsAreCells
<1>2. Held(m) \in Seq(Cell) /\ Len(Held(m)) = m.slice.len
  BY HeldFacts
<1>3. Grown(Cell, Range(Default), Held(m), words, table, Len(words))
  BY <1>1, ExtendGrows
<1>4. Grown(Key, {}, keys, scopes, known, Len(scopes))
  BY <1>1, KeysGrown
<1>5. /\ built.heap = after.heap
      /\ block = [words |-> words, terms |-> terms, table |-> new, wrote |-> scopes,
                  scopes |-> indexes, keys |-> newKeys, signer |-> signer]
  BY <1>2 DEF Built, Held
<1> HIDE DEF built, after, known, words, scopes
<1>6. new \in Seq(Cell) /\ Joined(Cell, Held(m), new, table, Len(new)) /\ Fresh(Held(m), new, Range(Default))
  BY <1>1, <1>2, <1>3, GrownSplits
<1>7. table \in Seq(Cell) /\ known \in Seq(Key) /\ Len(known) \in Nat /\ Len(keys) \in Nat
  BY <1>3, <1>4, LenProperties DEF Grown
<1>8. newKeys \in Seq(Key)
  <2>1. \A i \in (Len(keys) + 1)..Len(known) : i \in 1..Len(known)
    BY <1>7
  <2>2. \A i \in (Len(keys) + 1)..Len(known) : known[i] \in Key
    BY <1>7, <2>1, ElementOfSeq
  <2>3. Len(keys) + 1 \in Int /\ Len(known) \in Int
    BY <1>7
  <2>4. QED
    BY <2>2, <2>3, SubSeqProperties
<1>9. /\ Len(words) \in Nat /\ DOMAIN words = 1..Len(words)
      /\ Len(scopes) \in Nat /\ DOMAIN scopes = 1..Len(scopes)
  BY <1>1, LenProperties
<1>10. ASSUME NEW i \in 1..Len(words)
       PROVE  /\ Index(table, words[i]) \in Nat
              /\ \A U \in Seq(Cell) : Begins(table, U) => Str(U, Index(table, words[i])) = words[i]
  <2>1. words[i] \in Range(Default) \/ \E j \in 1..Len(table) : table[j] = words[i]
    BY <1>3 DEF Grown
  <2> HIDE DEF table
  <2>2. QED
    BY <1>7, <2>1, IndexResolves
<1>11. ASSUME NEW i \in 1..Len(scopes)
       PROVE  KeyIndex(known, scopes[i]) \in Nat
  <2>1. PICK j \in 1..Len(known) : known[j] = scopes[i]
    BY <1>4 DEF Grown
  <2>2. Position(known, scopes[i]) \in 1..Len(known)
    BY <1>7, <2>1, PositionFinds
  <2>3. QED
    BY <1>7, <2>2 DEF KeyIndex
<1> HIDE DEF table, new, newKeys
<1>12. terms \in Seq(Nat) /\ indexes \in Seq(Nat)
  <2>1. terms \in [1..Len(words) -> Nat] /\ indexes \in [1..Len(scopes) -> Nat]
    BY <1>9, <1>10, <1>11
  <2> HIDE DEF terms, indexes
  <2>2. terms \in Seq(Nat)
    BY <1>9, <2>1, SeqDef
  <2>3. indexes \in Seq(Nat)
    BY <1>9, <2>1, SeqDef
  <2>4. QED
    BY <2>2, <2>3
<1>13. /\ \A i \in DOMAIN words : terms[i] = Index(table, words[i])
       /\ DOMAIN terms = DOMAIN words
  OBVIOUS
<1>14. KeysWellMade(block)
  BY <1>5 DEF KeysWellMade, known, newKeys
<1> HIDE DEF terms, indexes, block
<1>15. /\ block.words = words /\ block.terms = terms /\ block.table = new /\ block.wrote = scopes
       /\ block.scopes = indexes /\ block.keys = newKeys /\ block.signer = signer
       /\ block \in Blocks
  BY <1>1, <1>5, <1>6, <1>8, <1>12 DEF Blocks
<1>16. ASSUME NEW i \in DOMAIN block.words, NEW U \in Seq(Cell), Begins(table, U)
       PROVE  Str(U, block.terms[i]) = block.words[i]
  BY <1>9, <1>10, <1>13, <1>15, <1>16
<1>17. QED
  BY <1>5, <1>6, <1>13, <1>14, <1>15, <1>16 DEF built, block, after, words, table

----------------------------------------------------------------------------
(* The symbols a reader gathers.                                              *)

LEMMA BlockTable ==
  ASSUME NEW blocks \in Seq(Blocks), NEW n \in 1..Len(blocks)
  PROVE  blocks[n] \in Blocks /\ blocks[n].table \in Seq(Cell)
<1>1. blocks[n] \in Blocks
  BY ElementOfSeq
<1>2. QED
  BY <1>1 DEF Blocks

LEMMA UnmarshalSymbolsUnfolds ==
  ASSUME NEW h \in Heaps, NEW blocks \in Seq(Blocks)
  PROVE  \E f \in [0..Len(blocks) -> Memories] :
           /\ f[0] = [heap |-> h, slice |-> Nil]
           /\ \A n \in 1..Len(blocks) : f[n] = Extend(f[n - 1], blocks[n].table)
           /\ UnmarshalSymbols(h, blocks) = f[Len(blocks)]
<1> DEFINE start == [heap |-> h, slice |-> Nil]
           step == [n \in Nat |-> [s \in Memories |->
                      IF n \in 1..Len(blocks) THEN Extend(s, blocks[n].table) ELSE s]]
           upTo == CHOOSE f : f = [n \in 0..Len(blocks) |->
                     IF n = 0 THEN [heap |-> h, slice |-> Nil] ELSE Extend(f[n - 1], blocks[n].table)]
<1>1. Len(blocks) \in Nat
  BY LenProperties
<1>2. start \in Memories
  BY NilFits
<1>3. ASSUME NEW n \in 1..Len(blocks), NEW s \in Memories
      PROVE  Extend(s, blocks[n].table) \in Memories
  <2>1. blocks[n].table \in Seq(Cell)
    BY BlockTable
  <2>2. QED
    BY <2>1, ExtendAdds
<1>4. step \in [Nat -> [Memories -> Memories]]
  BY <1>3
<1>5. \A n \in 1..Len(blocks), s \in Memories : step[n][s] = Extend(s, blocks[n].table)
  <2>1. \A n \in 1..Len(blocks) : n \in Nat
    BY <1>1
  <2>2. QED
    BY <2>1
<1> HIDE DEF step, start
<1>6. PICK f \in [0..Len(blocks) -> Memories] : Iterates(f, start, step, Len(blocks))
  BY <1>1, <1>2, <1>4, Recursion
<1>7. f = [n \in 0..Len(blocks) |-> IF n = 0 THEN start ELSE Extend(f[n - 1], blocks[n].table)]
  <2>1. \A n \in 0..Len(blocks) : n # 0 => n \in 1..Len(blocks) /\ n - 1 \in 0..Len(blocks)
    BY <1>1
  <2>2. \A n \in 0..Len(blocks) : n # 0 => step[n][f[n - 1]] = Extend(f[n - 1], blocks[n].table)
    BY <1>5, <2>1
  <2>3. QED
    BY <1>6, <2>2 DEF Iterates
<1>8. upTo = [n \in 0..Len(blocks) |-> IF n = 0 THEN start ELSE Extend(upTo[n - 1], blocks[n].table)]
  BY <1>7 DEF start
<1>9. UnmarshalSymbols(h, blocks) = upTo[Len(blocks)]
  BY DEF UnmarshalSymbols
<1> HIDE DEF upTo
<1>10. \A n \in 1..Len(blocks) : n \in 0..Len(blocks) /\ n # 0 /\ n - 1 \in 0..Len(blocks)
  BY <1>1
<1>11. upTo[0] = start
  <2>1. 0 \in 0..Len(blocks)
    BY <1>1
  <2>2. QED
    BY <1>8, <2>1
<1>12. ASSUME NEW n \in 1..Len(blocks)
       PROVE  upTo[n] = Extend(upTo[n - 1], blocks[n].table)
  BY <1>8, <1>10
<1>13. upTo \in [0..Len(blocks) -> Memories]
  <2> DEFINE bad == {n \in 0..Len(blocks) : upTo[n] \notin Memories}
  <2>1. bad = {}
    <3>1. SUFFICES ASSUME bad # {} PROVE FALSE
      OBVIOUS
    <3>2. PICK n \in bad : \A k \in bad : n <= k
      <4>1. bad \in SUBSET Nat
        BY <1>1
      <4> HIDE DEF bad
      <4>2. QED
        BY <3>1, <4>1, Least
    <3>3. n # 0
      BY <1>2, <1>11, <3>2
    <3>4. n \in 1..Len(blocks) /\ n - 1 \in 0..Len(blocks) /\ ~(n <= n - 1)
      BY <1>1, <3>2, <3>3
    <3>5. upTo[n - 1] \in Memories
      BY <3>2, <3>4
    <3>6. upTo[n] \in Memories
      BY <1>3, <1>12, <3>4, <3>5
    <3>7. QED
      BY <3>2, <3>6
  <2>2. QED
    BY <1>8, <2>1
<1>14. QED
  BY <1>9, <1>11, <1>12, <1>13 DEF start

LEMMA UnmarshalSymbolsLater ==
  ASSUME NEW h \in Heaps, NEW blocks \in Seq(Blocks)
  PROVE  /\ UnmarshalSymbols(h, blocks) \in Memories
         /\ Later([heap |-> h, slice |-> Nil], UnmarshalSymbols(h, blocks))
<1> DEFINE start == [heap |-> h, slice |-> Nil]
<1>1. PICK f \in [0..Len(blocks) -> Memories] :
        /\ f[0] = start
        /\ \A n \in 1..Len(blocks) : f[n] = Extend(f[n - 1], blocks[n].table)
        /\ UnmarshalSymbols(h, blocks) = f[Len(blocks)]
  BY UnmarshalSymbolsUnfolds
<1>2. Len(blocks) \in Nat /\ start \in Memories
  BY LenProperties, NilFits
<1> HIDE DEF start
<1> DEFINE bad == {n \in 0..Len(blocks) : ~Later(start, f[n])}
<1>3. bad = {}
  <2>1. SUFFICES ASSUME bad # {} PROVE FALSE
    OBVIOUS
  <2>2. PICK n \in bad : \A k \in bad : n <= k
    <3>1. bad \in SUBSET Nat
      BY <1>2
    <3> HIDE DEF bad
    <3>2. QED
      BY <2>1, <3>1, Least
  <2>3. n # 0
    BY <1>1, <1>2, <2>2, LaterSelf
  <2>4. n \in 1..Len(blocks) /\ n - 1 \in 0..Len(blocks) /\ ~(n <= n - 1)
    BY <1>2, <2>2, <2>3
  <2>5. Later(start, f[n - 1]) /\ f[n - 1] \in Memories
    BY <2>2, <2>4
  <2>6. blocks[n].table \in Seq(Cell)
    BY <2>4, BlockTable
  <2>7. Later(f[n - 1], f[n])
    BY <1>1, <2>4, <2>5, <2>6, ExtendAdds
  <2>8. Later(start, f[n])
    BY <2>5, <2>7, LaterTransitive
  <2>9. QED
    BY <2>2, <2>8
<1>4. Len(blocks) \in 0..Len(blocks)
  BY <1>2
<1>5. Later(start, f[Len(blocks)])
  BY <1>3, <1>4
<1>6. QED
  BY <1>1, <1>4, <1>5 DEF start

(* The heap they are put on does not matter.                                  *)
LEMMA UnmarshalSymbolsSame ==
  ASSUME NEW h \in Heaps, NEW k \in Heaps, NEW blocks \in Seq(Blocks)
  PROVE  Held(UnmarshalSymbols(h, blocks)) = Held(UnmarshalSymbols(k, blocks))
<1>1. PICK f \in [0..Len(blocks) -> Memories] :
        /\ f[0] = [heap |-> h, slice |-> Nil]
        /\ \A n \in 1..Len(blocks) : f[n] = Extend(f[n - 1], blocks[n].table)
        /\ UnmarshalSymbols(h, blocks) = f[Len(blocks)]
  BY UnmarshalSymbolsUnfolds
<1>2. PICK g \in [0..Len(blocks) -> Memories] :
        /\ g[0] = [heap |-> k, slice |-> Nil]
        /\ \A n \in 1..Len(blocks) : g[n] = Extend(g[n - 1], blocks[n].table)
        /\ UnmarshalSymbols(k, blocks) = g[Len(blocks)]
  BY UnmarshalSymbolsUnfolds
<1>3. Len(blocks) \in Nat
  BY LenProperties
<1>4. Held(f[0]) = <<>> /\ Held(g[0]) = <<>>
  BY <1>1, <1>2, NilFits DEF Held
<1> DEFINE bad == {n \in 0..Len(blocks) : Held(f[n]) # Held(g[n])}
<1>5. bad = {}
  <2>1. SUFFICES ASSUME bad # {} PROVE FALSE
    OBVIOUS
  <2>2. PICK n \in bad : \A j \in bad : n <= j
    <3>1. bad \in SUBSET Nat
      BY <1>3
    <3> HIDE DEF bad
    <3>2. QED
      BY <2>1, <3>1, Least
  <2>3. n # 0
    BY <1>4, <2>2
  <2>4. n \in 1..Len(blocks) /\ n - 1 \in 0..Len(blocks) /\ ~(n <= n - 1)
    BY <1>3, <2>2, <2>3
  <2>5. Held(f[n - 1]) = Held(g[n - 1]) /\ f[n - 1] \in Memories /\ g[n - 1] \in Memories
    BY <2>2, <2>4
  <2>6. blocks[n].table \in Seq(Cell)
    BY <2>4, BlockTable
  <2>7. Held(Extend(f[n - 1], blocks[n].table)) = Held(Extend(g[n - 1], blocks[n].table))
    BY <2>5, <2>6, ExtendSame
  <2>8. QED
    BY <1>1, <1>2, <2>2, <2>4, <2>7
<1>6. Len(blocks) \in 0..Len(blocks)
  BY <1>3
<1>7. QED
  BY <1>1, <1>2, <1>5, <1>6

LEMMA UnmarshalSymbolsAppend ==
  ASSUME NEW h \in Heaps, NEW blocks \in Seq(Blocks), NEW block \in Blocks
  PROVE  UnmarshalSymbols(h, Append(blocks, block))
           = Extend(UnmarshalSymbols(h, blocks), block.table)
<1> DEFINE longer == Append(blocks, block)
           size == Len(blocks)
<1>1. /\ longer \in Seq(Blocks) /\ Len(longer) = size + 1 /\ size \in Nat
      /\ longer[size + 1] = block /\ \A n \in 1..size : longer[n] = blocks[n]
  BY AppendProperties, LenProperties
<1>2. PICK f :
        /\ f[0] = [heap |-> h, slice |-> Nil]
        /\ \A n \in 1..size : f[n] = Extend(f[n - 1], blocks[n].table)
        /\ UnmarshalSymbols(h, blocks) = f[size]
  BY UnmarshalSymbolsUnfolds
<1> HIDE DEF longer, size
<1>3. PICK g :
        /\ g[0] = [heap |-> h, slice |-> Nil]
        /\ \A n \in 1..Len(longer) : g[n] = Extend(g[n - 1], longer[n].table)
        /\ UnmarshalSymbols(h, longer) = g[Len(longer)]
  BY <1>1, UnmarshalSymbolsUnfolds
<1> DEFINE bad == {n \in 0..size : f[n] # g[n]}
<1>4. bad = {}
  <2>1. SUFFICES ASSUME bad # {} PROVE FALSE
    OBVIOUS
  <2>2. PICK n \in bad : \A k \in bad : n <= k
    <3>1. bad \in SUBSET Nat
      BY <1>1
    <3> HIDE DEF bad
    <3>2. QED
      BY <2>1, <3>1, Least
  <2>3. n # 0
    BY <1>2, <1>3, <2>2
  <2>4. n \in 1..size /\ n \in 1..Len(longer) /\ n - 1 \in 0..size /\ ~(n <= n - 1)
    BY <1>1, <2>2, <2>3
  <2>5. f[n - 1] = g[n - 1]
    BY <2>2, <2>4
  <2>6. QED
    BY <1>1, <1>2, <1>3, <2>2, <2>4, <2>5
<1>5. f[size] = g[size]
  BY <1>1, <1>4
<1>6. size + 1 \in 1..Len(longer) /\ size + 1 - 1 = size
  BY <1>1
<1>7. g[size + 1] = Extend(g[size], block.table)
  BY <1>1, <1>3, <1>6
<1>8. QED
  BY <1>1, <1>2, <1>3, <1>5, <1>7 DEF longer, size

LEMMA UnmarshalSymbolsOne ==
  ASSUME NEW h \in Heaps, NEW block \in Blocks
  PROVE  UnmarshalSymbols(h, <<block>>) = Extend([heap |-> h, slice |-> Nil], block.table)
<1>1. <<>> \in Seq(Blocks) /\ Len(<<>>) = 0 /\ Append(<<>>, block) = <<block>>
  OBVIOUS
<1>2. UnmarshalSymbols(h, <<>>) = [heap |-> h, slice |-> Nil]
  <2> DEFINE none == <<>>
  <2>1. none \in Seq(Blocks) /\ Len(none) = 0
    BY <1>1
  <2> HIDE DEF none
  <2>2. PICK f \in [0..Len(none) -> Memories] :
          /\ f[0] = [heap |-> h, slice |-> Nil]
          /\ \A n \in 1..Len(none) : f[n] = Extend(f[n - 1], none[n].table)
          /\ UnmarshalSymbols(h, none) = f[Len(none)]
    BY <2>1, UnmarshalSymbolsUnfolds
  <2>3. QED
    BY <2>1, <2>2 DEF none
<1>3. QED
  BY <1>1, <1>2, UnmarshalSymbolsAppend

----------------------------------------------------------------------------
(* The invariant of all tokens, whatever is forked or reloaded.               *)

TokenSet == [symbols : Slices, keys : Seq(Key), registry : Registries,
             blocks : Seq(Blocks), sealed : BOOLEAN]
KeyTablesOf(token) == [keys |-> token.keys, registry |-> token.registry]

TokenFits(h, token) ==
  /\ Fits(h, token.symbols)
  /\ token.blocks # <<>>
  /\ RegistryFits(KeyTablesOf(token), token.blocks)
  /\ UnmarshalKeys(token.blocks) = KeyTablesOf(token)
  /\ \A i \in 1..Len(token.blocks) : KeysWellMade(token.blocks[i])

TablesInv ==
  /\ heap \in Heaps
  /\ tokens \in Seq(TokenSet)
  /\ \A t \in 1..Len(tokens) : TokenFits(heap, tokens[t])

(* The invariant of tokens that form a line, none of whose third-party blocks *)
(* is unmarshalled: the latest table is the longest in its array, each block  *)
(* reads as it was meant, and first-party tables make up the token's.         *)
Meant(block, T) ==
  /\ DOMAIN block.terms = DOMAIN block.words
  /\ \A i \in DOMAIN block.words :
       \A U \in Seq(Cell) : Begins(T, U) => Str(U, block.terms[i]) = block.words[i]

ReadIn(h, token, i) ==
  IF i > 1 /\ IsThirdParty(token.blocks[i]) THEN token.blocks[i].table ELSE Cells(h, token.symbols)

Readable(h, token) ==
  \A i \in 1..Len(token.blocks) : Meant(token.blocks[i], ReadIn(h, token, i))

ReadBack(h, token) ==
  (\A i \in 1..Len(token.blocks) : ~IsThirdParty(token.blocks[i]))
    => Held(UnmarshalSymbols(<<>>, token.blocks)) = Cells(h, token.symbols)

Longest(s) ==
  \A t \in 1..Len(tokens) : tokens[t].symbols.arr = s.arr => tokens[t].symbols.len <= s.len

SymbolsInv ==
  /\ tokens # <<>> => Longest(tokens[Len(tokens)].symbols)
  /\ \A t \in 1..Len(tokens) : Readable(heap, tokens[t]) /\ ReadBack(heap, tokens[t])

LEMMA TokenFacts ==
  ASSUME TablesInv
  PROVE  /\ heap \in Heaps /\ Len(tokens) \in Nat /\ DOMAIN tokens = 1..Len(tokens)
         /\ \A t \in 1..Len(tokens) :
              /\ tokens[t] \in TokenSet /\ TokenFits(heap, tokens[t])
              /\ tokens[t].symbols \in Slices /\ Fits(heap, tokens[t].symbols)
              /\ tokens[t].blocks \in Seq(Blocks) /\ tokens[t].blocks # <<>>
              /\ tokens[t].keys \in Seq(Key) /\ tokens[t].sealed \in BOOLEAN
              /\ [heap |-> heap, slice |-> tokens[t].symbols] \in Memories
<1>1. heap \in Heaps /\ tokens \in Seq(TokenSet)
  BY DEF TablesInv
<1>2. Len(tokens) \in Nat /\ DOMAIN tokens = 1..Len(tokens)
  BY <1>1, LenProperties
<1>3. ASSUME NEW t \in 1..Len(tokens)
      PROVE  /\ tokens[t] \in TokenSet /\ TokenFits(heap, tokens[t])
             /\ tokens[t].symbols \in Slices /\ Fits(heap, tokens[t].symbols)
             /\ tokens[t].blocks \in Seq(Blocks) /\ tokens[t].blocks # <<>>
             /\ tokens[t].keys \in Seq(Key) /\ tokens[t].sealed \in BOOLEAN
             /\ [heap |-> heap, slice |-> tokens[t].symbols] \in Memories
  <2>1. tokens[t] \in TokenSet /\ TokenFits(heap, tokens[t])
    BY <1>1, ElementOfSeq DEF TablesInv
  <2>2. tokens[t].symbols \in Slices /\ tokens[t].blocks \in Seq(Blocks) /\ tokens[t].keys \in Seq(Key)
          /\ tokens[t].sealed \in BOOLEAN
    BY <2>1 DEF TokenSet
  <2>3. Fits(heap, tokens[t].symbols) /\ tokens[t].blocks # <<>>
    BY <2>1 DEF TokenFits
  <2>4. [heap |-> heap, slice |-> tokens[t].symbols] \in Memories
    BY <1>1, <2>2, <2>3 DEF Memories
  <2>5. QED
    BY <2>1, <2>2, <2>3, <2>4
<1>4. QED
  BY <1>1, <1>2, <1>3

LEMMA LaterFits ==
  ASSUME NEW m, NEW n, Later(m, n), NEW s, Fits(m.heap, s)
  PROVE  Fits(n.heap, s)
<1>1. m.heap \in Heaps /\ n.heap \in Heaps
  BY MemoryFacts DEF Later
<1>2. /\ s \in Slices /\ s.arr \in Nat /\ s.len \in Nat
      /\ s.arr = 0 => s.len = 0
      /\ s.arr # 0 => s.arr \in 1..Len(m.heap) /\ s.len <= Len(m.heap[s.arr])
  BY <1>1, CellsFacts DEF Fits
<1>3. Len(m.heap) \in Nat /\ Len(n.heap) \in Nat /\ Len(m.heap) <= Len(n.heap)
  BY <1>1, HeapFacts DEF Later
<1>4. CASE s.arr = 0
  BY <1>2, <1>3, <1>4 DEF Fits, Cap
<1>5. CASE s.arr # 0
  <2>1. s.arr \in 1..Len(m.heap) /\ s.arr \in 0..Len(n.heap)
    BY <1>2, <1>3, <1>5
  <2>2. Len(n.heap[s.arr]) = Len(m.heap[s.arr]) /\ Len(m.heap[s.arr]) \in Nat
    BY <1>1, <2>1, HeapFacts DEF Later
  <2>3. s.len \in 0..Len(n.heap[s.arr])
    BY <1>2, <1>5, <2>2
  <2>4. QED
    BY <1>2, <1>5, <2>1, <2>3 DEF Fits, Cap
<1>6. QED
  BY <1>4, <1>5

(* The tokens there are, after strings were appended through a slice.         *)
LEMMA OldFit ==
  ASSUME TablesInv, NEW s, NEW m, Later([heap |-> heap, slice |-> s], m),
         NEW t \in 1..Len(tokens)
  PROVE  TokenFits(m.heap, tokens[t])
<1>1. TokenFits(heap, tokens[t]) /\ Fits(heap, tokens[t].symbols)
  BY TokenFacts
<1> DEFINE start == [heap |-> heap, slice |-> s]
<1>2. start.heap = heap
  OBVIOUS
<1> HIDE DEF start
<1>3. Fits(m.heap, tokens[t].symbols)
  BY <1>1, <1>2, LaterFits DEF start
<1>4. QED
  BY <1>1, <1>3 DEF TokenFits

LEMMA OldRead ==
  ASSUME TablesInv, SymbolsInv, NEW s, NEW m, Later([heap |-> heap, slice |-> s], m), Longest(s),
         NEW t \in 1..Len(tokens)
  PROVE  /\ Cells(m.heap, tokens[t].symbols) = Cells(heap, tokens[t].symbols)
         /\ Readable(m.heap, tokens[t]) /\ ReadBack(m.heap, tokens[t])
         /\ tokens[t].symbols.arr = m.slice.arr => tokens[t].symbols.len <= m.slice.len
<1> DEFINE start == [heap |-> heap, slice |-> s]
           own == tokens[t].symbols
<1>1. start.heap = heap /\ start.slice = s
  OBVIOUS
<1>2. Later(start, m)
  OBVIOUS
<1> HIDE DEF start
<1>3. Fits(heap, own) /\ heap \in Heaps /\ own \in Slices
  BY TokenFacts
<1>4. own.arr = s.arr => own.len <= s.len
  BY DEF Longest
<1>5. own.arr # s.arr \/ own.len <= s.len
  BY <1>4
<1>6. Cells(m.heap, own) = Cells(heap, own)
  BY <1>1, <1>2, <1>3, <1>5, LaterReads
<1>7. Readable(heap, tokens[t]) /\ ReadBack(heap, tokens[t])
  BY DEF SymbolsInv
<1>8. Readable(m.heap, tokens[t]) /\ ReadBack(m.heap, tokens[t])
  BY <1>6, <1>7 DEF Readable, ReadBack, ReadIn
<1>9. own.arr = m.slice.arr => own.len <= m.slice.len
  <2>1. own.arr \in Nat /\ own.len \in Nat /\ own.arr <= Len(heap) /\ Len(heap) \in Nat
    BY <1>3, HeapFacts DEF Fits, Slices
  <2>2. s.len \in Nat /\ m.slice.len \in Nat /\ m.slice.arr \in Nat
    BY <1>1, <1>2, MemoryFacts DEF Later, Slices
  <2>3. \/ m.slice.arr = s.arr /\ s.len <= m.slice.len
        \/ m.slice.arr > Len(heap)
    BY <1>1, <1>2 DEF Later
  <2>4. QED
    BY <1>4, <2>1, <2>2, <2>3
<1>10. QED
  BY <1>6, <1>8, <1>9

----------------------------------------------------------------------------
(* What every operation does: it appends strings through a slice of the heap, *)
(* and makes no token or one, which owns what was appended.                   *)

Quiet(s, m) ==
  /\ Later([heap |-> heap, slice |-> s], m)
  /\ heap' = m.heap /\ tokens' = tokens

Derived(s, m, new) ==
  /\ Later([heap |-> heap, slice |-> s], m)
  /\ heap' = m.heap /\ tokens' = Append(tokens, new)
  /\ new \in TokenSet /\ new.symbols = m.slice
  /\ TokenFits(m.heap, new)

LEMMA QuietInv ==
  ASSUME TablesInv, NEW s, NEW m, Quiet(s, m)
  PROVE  TablesInv'
<1>1. Later([heap |-> heap, slice |-> s], m) /\ heap' = m.heap /\ tokens' = tokens
  BY DEF Quiet
<1>2. m.heap \in Heaps
  BY <1>1, MemoryFacts DEF Later
<1>3. \A t \in 1..Len(tokens) : TokenFits(m.heap, tokens[t])
  BY <1>1, OldFit
<1>4. QED
  BY <1>1, <1>2, <1>3 DEF TablesInv

LEMMA AppendedTokens ==
  ASSUME TablesInv, NEW new \in TokenSet, tokens' = Append(tokens, new)
  PROVE  /\ tokens' \in Seq(TokenSet) /\ Len(tokens') = Len(tokens) + 1 /\ Len(tokens) \in Nat
         /\ \A t \in 1..Len(tokens') :
              \/ t \in 1..Len(tokens) /\ tokens'[t] = tokens[t]
              \/ t = Len(tokens) + 1 /\ tokens'[t] = new
         /\ tokens'[Len(tokens')] = new
<1>1. tokens \in Seq(TokenSet) /\ Len(tokens) \in Nat
  BY LenProperties DEF TablesInv
<1>2. /\ tokens' \in Seq(TokenSet) /\ Len(tokens') = Len(tokens) + 1
      /\ \A t \in 1..Len(tokens) : tokens'[t] = tokens[t]
      /\ tokens'[Len(tokens) + 1] = new
  BY <1>1, AppendProperties
<1>3. \A t \in 1..(Len(tokens) + 1) : t \in 1..Len(tokens) \/ t = Len(tokens) + 1
  BY <1>1
<1>4. QED
  BY <1>1, <1>2, <1>3

LEMMA DerivedInv ==
  ASSUME TablesInv, NEW s, NEW m, NEW new, Derived(s, m, new)
  PROVE  TablesInv'
<1>1. /\ Later([heap |-> heap, slice |-> s], m) /\ heap' = m.heap
      /\ tokens' = Append(tokens, new) /\ new \in TokenSet /\ TokenFits(m.heap, new)
  BY DEF Derived
<1>2. m.heap \in Heaps
  BY <1>1, MemoryFacts DEF Later
<1>3. \A t \in 1..Len(tokens) : TokenFits(m.heap, tokens[t])
  BY <1>1, OldFit
<1>4. /\ tokens' \in Seq(TokenSet)
      /\ \A t \in 1..Len(tokens') : \/ t \in 1..Len(tokens) /\ tokens'[t] = tokens[t]
                                    \/ t = Len(tokens) + 1 /\ tokens'[t] = new
  BY <1>1, AppendedTokens
<1>5. QED
  BY <1>1, <1>2, <1>3, <1>4 DEF TablesInv

LEMMA QuietSymbols ==
  ASSUME TablesInv, SymbolsInv, NEW s, NEW m, Quiet(s, m), Longest(s)
  PROVE  SymbolsInv'
<1>1. Later([heap |-> heap, slice |-> s], m) /\ heap' = m.heap /\ tokens' = tokens
  BY DEF Quiet
<1>2. \A t \in 1..Len(tokens) : Readable(m.heap, tokens[t]) /\ ReadBack(m.heap, tokens[t])
  BY <1>1, OldRead
<1>3. QED
  BY <1>1, <1>2 DEF SymbolsInv, Longest

LEMMA DerivedSymbols ==
  ASSUME TablesInv, SymbolsInv, NEW s, NEW m, NEW new, Derived(s, m, new), Longest(s),
         Readable(m.heap, new), ReadBack(m.heap, new)
  PROVE  SymbolsInv'
<1>1. /\ Later([heap |-> heap, slice |-> s], m) /\ heap' = m.heap
      /\ tokens' = Append(tokens, new) /\ new \in TokenSet /\ new.symbols = m.slice
  BY DEF Derived
<1>2. \A t \in 1..Len(tokens) :
        /\ Readable(m.heap, tokens[t]) /\ ReadBack(m.heap, tokens[t])
        /\ tokens[t].symbols.arr = m.slice.arr => tokens[t].symbols.len <= m.slice.len
  BY <1>1, OldRead
<1>3. /\ \A t \in 1..Len(tokens') : \/ t \in 1..Len(tokens) /\ tokens'[t] = tokens[t]
                                    \/ t = Len(tokens) + 1 /\ tokens'[t] = new
      /\ tokens'[Len(tokens')] = new
  BY <1>1, AppendedTokens
<1>4. new.symbols.len <= new.symbols.len
  <2>1. m.slice.len \in Nat
    BY <1>1, MemoryFacts DEF Later, Slices
  <2>2. QED
    BY <1>1, <2>1
<1>5. \A t \in 1..Len(tokens') :
        tokens'[t].symbols.arr = new.symbols.arr => tokens'[t].symbols.len <= new.symbols.len
  BY <1>1, <1>2, <1>3, <1>4
<1>6. (\A t \in 1..Len(tokens) : Readable(heap, tokens[t]) /\ ReadBack(heap, tokens[t]))'
  BY <1>1, <1>2, <1>3
<1>7. QED
  BY <1>3, <1>5, <1>6 DEF SymbolsInv, Longest

LEMMA TokenMade ==
  ASSUME NEW slice \in Slices, NEW tables \in KeyTables, NEW blocks \in Seq(Blocks),
         NEW sealed \in BOOLEAN
  PROVE  LET new == Token(slice, tables, blocks, sealed)
         IN  /\ new \in TokenSet /\ new.symbols = slice /\ new.blocks = blocks
             /\ KeyTablesOf(new) = tables
<1>1. tables = [keys |-> tables.keys, registry |-> tables.registry]
  BY DEF KeyTables
<1>2. tables.keys \in Seq(Key) /\ tables.registry \in Registries
  BY DEF KeyTables
<1>3. Token(slice, tables, blocks, sealed) \in TokenSet
  BY <1>2 DEF Token, TokenSet
<1>4. QED
  BY <1>1, <1>3 DEF Token, KeyTablesOf

LEMMA KeyTablesFit ==
  ASSUME TablesInv, NEW t \in 1..Len(tokens)
  PROVE  KeyTablesOf(tokens[t]) \in KeyTables
BY TokenFacts DEF TokenFits, RegistryFits

(* What stays in the heap when the arrays Build allocated are dropped.        *)
LEMMA TrimLater ==
  ASSUME NEW m, NEW n, Later(m, n)
  PROVE  Later(m, [heap |-> SubSeq(n.heap, 1, Len(m.heap)), slice |-> m.slice])
<1> DEFINE g == SubSeq(n.heap, 1, Len(m.heap))
           p == [heap |-> g, slice |-> m.slice]
<1>1. /\ m \in Memories /\ m.heap \in Heaps /\ n.heap \in Heaps
      /\ Fits(m.heap, m.slice) /\ m.slice \in Slices
  BY MemoryFacts DEF Later
<1>2. Len(m.heap) \in Nat /\ Len(n.heap) \in Nat /\ Len(m.heap) <= Len(n.heap)
  BY <1>1, HeapFacts DEF Later
<1>3. \A a \in 1..Len(m.heap) : n.heap[a] \in Arrays
  <2>1. \A a \in 1..Len(m.heap) : a \in 1..Len(n.heap)
    BY <1>2
  <2>2. n.heap \in Seq(Arrays)
    BY <1>1 DEF Heaps
  <2>3. QED
    BY <2>1, <2>2, ElementOfSeq
<1>4. /\ g \in Seq(Arrays)
      /\ Len(g) = IF 1 <= Len(m.heap) THEN Len(m.heap) - 1 + 1 ELSE 0
      /\ \A a \in 1..(Len(m.heap) - 1 + 1) : g[a] = n.heap[1 + a - 1]
  BY <1>2, <1>3, SubSeqProperties
<1> HIDE DEF g
<1>5. /\ g \in Heaps /\ Len(g) = Len(m.heap)
      /\ \A a \in 1..Len(m.heap) : g[a] = n.heap[a]
  <2>1. Len(g) = Len(m.heap)
    BY <1>2, <1>4
  <2>2. ASSUME NEW a \in 1..Len(m.heap)
        PROVE  g[a] = n.heap[a]
    <3>1. a \in 1..(Len(m.heap) - 1 + 1) /\ 1 + a - 1 = a
      BY <1>2
    <3>2. QED
      BY <1>4, <3>1
  <2>3. QED
    BY <1>4, <2>1, <2>2 DEF Heaps
<1>6. /\ p.heap = g /\ p.slice = m.slice
  OBVIOUS
<1>7. Fits(g, m.slice)
  <2>1. m.slice.arr \in Nat /\ (m.slice.arr # 0 => m.slice.arr \in 1..Len(m.heap))
    BY <1>1, CellsFacts
  <2>2. ASSUME m.slice.arr # 0
        PROVE  Len(g[m.slice.arr]) = Len(m.heap[m.slice.arr])
    BY <1>5, <2>1, <2>2 DEF Later
  <2>3. Cap(g, m.slice) = Cap(m.heap, m.slice)
    BY <2>2 DEF Cap
  <2>4. QED
    BY <1>1, <1>5, <2>3 DEF Fits
<1>8. p \in Memories
  BY <1>1, <1>5, <1>7 DEF Memories
<1> HIDE DEF p
<1>9. m.slice.len <= m.slice.len
  <2>1. m.slice.len \in Nat
    BY <1>1 DEF Slices
  <2>2. QED
    BY <2>1
<1>10. ASSUME NEW a \in 1..Len(m.heap)
       PROVE  /\ Len(p.heap[a]) = Len(m.heap[a])
              /\ \A i \in 1..Len(m.heap[a]) :
                   a # m.slice.arr \/ i <= m.slice.len => p.heap[a][i] = m.heap[a][i]
  BY <1>5, <1>6 DEF Later
<1>11. Len(m.heap) <= Len(p.heap)
  BY <1>2, <1>5, <1>6
<1>12. QED
  BY <1>1, <1>6, <1>8, <1>9, <1>10, <1>11 DEF Later, p, g

(* The new block joins a token's tables.                                      *)
LEMMA BlockFits ==
  ASSUME TablesInv, NEW t \in 1..Len(tokens), NEW block \in Blocks, KeysWellMade(block),
         NEW h, NEW s, Fits(h, s), s \in Slices
  PROVE  LET tables == [keys |-> tokens[t].keys, registry |-> tokens[t].registry]
             blocks == Append(tokens[t].blocks, block)
             new    == Token(s, UpdatePublicKeys(tables, block, Len(tokens[t].blocks)), blocks, FALSE)
         IN  new \in TokenSet /\ new.symbols = s /\ new.blocks = blocks /\ TokenFits(h, new)
<1> DEFINE tables == KeyTablesOf(tokens[t])
           old    == tokens[t].blocks
           blocks == Append(old, block)
           after  == UpdatePublicKeys(tables, block, Len(old))
           new    == Token(s, after, blocks, FALSE)
<1>1. /\ old \in Seq(Blocks) /\ TokenFits(heap, tokens[t])
  BY TokenFacts
<1>2. RegistryFits(tables, old) /\ UnmarshalKeys(old) = tables /\ \A i \in 1..Len(old) : KeysWellMade(old[i])
  BY <1>1 DEF TokenFits
<1> HIDE DEF tables, old
<1>3. RegistryFits(after, blocks)
  BY <1>1, <1>2, RegistryKept
<1>4. UnmarshalKeys(blocks) = after
  BY <1>1, <1>2, UnmarshalKeysAppend
<1>5. /\ blocks \in Seq(Blocks) /\ blocks # <<>> /\ Len(blocks) = Len(old) + 1 /\ Len(old) \in Nat
      /\ \A i \in 1..Len(old) : blocks[i] = old[i]
      /\ blocks[Len(old) + 1] = block
  BY <1>1, AppendProperties, LenProperties
<1>6. after \in KeyTables
  BY <1>3 DEF RegistryFits
<1> HIDE DEF after, blocks
<1>7. \A i \in 1..Len(blocks) : KeysWellMade(blocks[i])
  <2>1. \A i \in 1..(Len(old) + 1) : i \in 1..Len(old) \/ i = Len(old) + 1
    BY <1>5
  <2>2. QED
    BY <1>2, <1>5, <2>1
<1>8. new \in TokenSet /\ new.symbols = s /\ new.blocks = blocks /\ KeyTablesOf(new) = after
  BY <1>5, <1>6, TokenMade
<1> HIDE DEF new
<1>9. TokenFits(h, new)
  BY <1>3, <1>4, <1>5, <1>7, <1>8 DEF TokenFits
<1>10. QED
  BY <1>8, <1>9 DEF new, after, blocks, tables, old, KeyTablesOf

Base(t, h) == [heap |-> h, slice |-> tokens[t].symbols]
Joins(base, block) == IF IsThirdParty(block) THEN base ELSE Extend(base, block.table)

LEMMA JoinsLater ==
  ASSUME NEW base \in Memories, NEW block \in Blocks
  PROVE  Later(base, Joins(base, block)) /\ Joins(base, block) \in Memories
<1>1. block.table \in Seq(Cell)
  BY DEF Blocks
<1>2. QED
  BY <1>1, LaterSelf, ExtendAdds DEF Joins

LEMMA AppendDerives ==
  ASSUME TablesInv, NEW t \in 1..Len(tokens), NEW block \in Blocks, KeysWellMade(block),
         NEW h, Later(Base(t, heap), Base(t, h)), append(t, h, block)
  PROVE  \/ Quiet(tokens[t].symbols, Base(t, h))
         \/ \E new : /\ Derived(tokens[t].symbols, Joins(Base(t, h), block), new)
                     /\ new.blocks = Append(tokens[t].blocks, block)
<1> DEFINE base == Base(t, h)
           m == Joins(base, block)
           tables == [keys |-> tokens[t].keys, registry |-> tokens[t].registry]
           blocks == Append(tokens[t].blocks, block)
           new == Token(m.slice, UpdatePublicKeys(tables, block, Len(tokens[t].blocks)), blocks, FALSE)
<1>1. base.heap = h /\ Base(t, heap) = [heap |-> heap, slice |-> tokens[t].symbols]
  BY DEF Base
<1>2. base \in Memories
  BY DEF Later
<1>3. Later(base, m) /\ m \in Memories
  BY <1>2, JoinsLater
<1>4. Later(Base(t, heap), m)
  BY <1>3, LaterTransitive
<1>5. CASE tokens[t].sealed \/ ~IsDisjoint(Symbols(t), block)
  <2>1. heap' = h /\ tokens' = tokens
    BY <1>5 DEF append
  <2>2. QED
    BY <1>1, <2>1 DEF Quiet
<1>6. CASE ~(tokens[t].sealed \/ ~IsDisjoint(Symbols(t), block))
  <2>1. heap' = m.heap /\ tokens' = Append(tokens, new)
    BY <1>6 DEF append, Joins, Base
  <2>2. Fits(m.heap, m.slice) /\ m.slice \in Slices
    BY <1>3, MemoryFacts
  <2> HIDE DEF m
  <2>3. new \in TokenSet /\ new.symbols = m.slice /\ new.blocks = blocks /\ TokenFits(m.heap, new)
    BY <2>2, BlockFits
  <2> HIDE DEF new
  <2>4. Derived(tokens[t].symbols, m, new)
    BY <1>1, <1>4, <2>1, <2>3 DEF Derived
  <2>5. QED
    BY <2>3, <2>4 DEF m
<1>7. QED
  BY <1>5, <1>6

----------------------------------------------------------------------------
(* What an appended block reads as.                                           *)

LEMMA JoinedBegins ==
  ASSUME NEW S, NEW base \in Seq(S), NEW more \in Seq(S), NEW known, NEW n \in Nat,
         Joined(S, base, more, known, n)
  PROVE  Begins(base, known)
<1>1. Len(base) \in Nat /\ Len(known) = Len(base) + n /\ \A i \in 1..Len(base) : known[i] = base[i]
  BY LenProperties DEF Joined
<1>2. QED
  BY <1>1 DEF Begins

LEMMA JoinedSame ==
  ASSUME NEW S, NEW base \in Seq(S), NEW more \in Seq(S), NEW n \in Nat,
         NEW one, Joined(S, base, more, one, n), NEW two, Joined(S, base, more, two, n)
  PROVE  one = two
<1>1. /\ one \in Seq(S) /\ two \in Seq(S) /\ Len(base) \in Nat
      /\ Len(one) = Len(base) + n /\ Len(two) = Len(base) + n
      /\ \A i \in 1..Len(base) : one[i] = base[i] /\ two[i] = base[i]
      /\ \A i \in 1..n : one[Len(base) + i] = more[i] /\ two[Len(base) + i] = more[i]
  BY LenProperties DEF Joined
<1>2. ASSUME NEW i \in 1..Len(one)
      PROVE  one[i] = two[i]
  <2>1. CASE i <= Len(base)
    <3>1. i \in 1..Len(base)
      BY <1>1, <2>1
    <3>2. QED
      BY <1>1, <3>1
  <2>2. CASE ~(i <= Len(base))
    <3>1. i - Len(base) \in 1..n /\ Len(base) + (i - Len(base)) = i
      BY <1>1, <2>2
    <3>2. QED
      BY <1>1, <3>1
  <2>3. QED
    BY <2>1, <2>2
<1>3. QED
  BY <1>1, <1>2, SeqEqual

LEMMA JoinedNothing ==
  ASSUME NEW S, NEW more \in Seq(S), NEW known, Joined(S, <<>>, more, known, Len(more))
  PROVE  known = more
<1>1. known \in Seq(S) /\ Len(more) \in Nat
  BY LenProperties DEF Joined
<1>2. Len(<<>>) = 0
  OBVIOUS
<1>3. Len(known) = 0 + Len(more) /\ \A i \in 1..Len(more) : known[0 + i] = more[i]
  BY <1>2 DEF Joined
<1>4. Len(known) = Len(more) /\ \A i \in 1..Len(more) : known[i] = more[i]
  BY <1>1, <1>3
<1>5. QED
  BY <1>1, <1>4, SeqEqual

LEMMA MeantLater ==
  ASSUME NEW block \in Blocks, NEW T \in Seq(Cell), NEW U \in Seq(Cell),
         Meant(block, T), Begins(T, U)
  PROVE  Meant(block, U)
<1>1. Len(T) \in Nat /\ Len(U) \in Nat
  BY LenProperties
<1>2. ASSUME NEW V \in Seq(Cell), Begins(U, V)
      PROVE  Begins(T, V)
  <2>1. Len(V) \in Nat
    BY LenProperties
  <2>2. \A i \in 1..Len(T) : i \in 1..Len(U)
    BY <1>1 DEF Begins
  <2>3. QED
    BY <1>1, <1>2, <2>1, <2>2 DEF Begins
<1>3. QED
  BY <1>2 DEF Meant

(* A block built over token t, or over nothing by a third party, before it is *)
(* appended.                                                                  *)
OwnBlock(t, block) ==
  IF IsThirdParty(block) THEN Meant(block, block.table)
  ELSE \E table \in Seq(Cell) :
         /\ Meant(block, table)
         /\ Joined(Cell, Symbols(t), block.table, table, Len(block.table))
         /\ Fresh(Symbols(t), block.table, Range(Default))

LEMMA JoinsReads ==
  ASSUME NEW t, NEW block \in Blocks, OwnBlock(t, block), NEW base \in Memories,
         Held(base) = Symbols(t)
  PROVE  /\ Held(Joins(base, block)) \in Seq(Cell)
         /\ Begins(Symbols(t), Held(Joins(base, block)))
         /\ IsThirdParty(block) => Meant(block, block.table)
         /\ ~IsThirdParty(block) => Meant(block, Held(Joins(base, block)))
<1>1. block.table \in Seq(Cell) /\ Len(block.table) \in Nat
  BY LenProperties DEF Blocks
<1>2. Held(base) \in Seq(Cell) /\ Held(Joins(base, block)) \in Seq(Cell)
  BY JoinsLater, HeldFacts
<1>3. CASE IsThirdParty(block)
  <2>1. Joins(base, block) = base
    BY <1>3 DEF Joins
  <2>2. Len(Held(base)) \in Nat
    BY <1>2, LenProperties
  <2>3. Begins(Held(base), Held(base))
    BY <2>2 DEF Begins
  <2>4. QED
    BY <1>2, <1>3, <2>1, <2>3 DEF OwnBlock
<1>4. CASE ~IsThirdParty(block)
  <2>1. Joins(base, block) = Extend(base, block.table)
    BY <1>4 DEF Joins
  <2>2. PICK table \in Seq(Cell) :
          /\ Meant(block, table)
          /\ Joined(Cell, Held(base), block.table, table, Len(block.table))
          /\ Fresh(Held(base), block.table, Range(Default))
    BY <1>4 DEF OwnBlock
  <2>3. Joined(Cell, Held(base), block.table, Held(Extend(base, block.table)), Len(block.table))
    BY <1>1, <2>2, ExtendJoins
  <2>4. Held(Extend(base, block.table)) = table
    BY <1>1, <1>2, <2>2, <2>3, JoinedSame
  <2>5. Begins(Held(base), Held(Extend(base, block.table)))
    BY <1>1, <1>2, <2>3, JoinedBegins
  <2>6. QED
    BY <1>2, <1>4, <2>1, <2>2, <2>4, <2>5
<1>5. QED
  BY <1>3, <1>4

LEMMA BaseHolds ==
  ASSUME TablesInv, NEW t \in 1..Len(tokens), NEW h, Later(Base(t, heap), Base(t, h))
  PROVE  Base(t, h) \in Memories /\ Held(Base(t, h)) = Symbols(t)
<1> DEFINE s == tokens[t].symbols
<1>1. Fits(heap, s) /\ s \in Slices /\ s.len \in Nat
  BY TokenFacts DEF Slices
<1>2. /\ Base(t, heap).heap = heap /\ Base(t, heap).slice = s
      /\ Base(t, h).heap = h /\ Base(t, h).slice = s
  BY DEF Base
<1> HIDE DEF s
<1>3. s.len <= s.len
  BY <1>1
<1>4. Cells(Base(t, h).heap, s) = Cells(Base(t, heap).heap, s)
  BY <1>1, <1>2, <1>3, LaterReads
<1>5. Base(t, h) \in Memories
  BY DEF Later
<1>6. QED
  BY <1>2, <1>4, <1>5 DEF Held, Symbols, s

LEMMA AppendReads ==
  ASSUME TablesInv, SymbolsInv, NEW t \in 1..Len(tokens), NEW block \in Blocks,
         OwnBlock(t, block), NEW h, Later(Base(t, heap), Base(t, h)),
         NEW m, m = Joins(Base(t, h), block),
         NEW new, new \in TokenSet, new.symbols = m.slice,
         new.blocks = Append(tokens[t].blocks, block)
  PROVE  Readable(m.heap, new) /\ ReadBack(m.heap, new)
<1> DEFINE old == tokens[t].blocks
           base == Base(t, h)
<1>1. /\ old \in Seq(Blocks) /\ old # <<>> /\ Len(old) \in Nat /\ Len(old) > 0
      /\ Readable(heap, tokens[t]) /\ ReadBack(heap, tokens[t])
  <2>1. old \in Seq(Blocks) /\ old # <<>>
    BY TokenFacts
  <2>2. Len(old) \in Nat /\ Len(old) > 0
    BY <2>1, EmptySeq, LenProperties
  <2>3. QED
    BY <2>1, <2>2 DEF SymbolsInv
<1>2. base \in Memories /\ Held(base) = Symbols(t) /\ Symbols(t) = Cells(heap, tokens[t].symbols)
  BY BaseHolds DEF Symbols
<1>3. /\ Held(m) \in Seq(Cell) /\ Begins(Symbols(t), Held(m))
      /\ IsThirdParty(block) => Meant(block, block.table)
      /\ ~IsThirdParty(block) => Meant(block, Held(m))
  BY <1>2, JoinsReads
<1>4. Cells(m.heap, new.symbols) = Held(m)
  BY DEF Held
<1>5. /\ Len(new.blocks) = Len(old) + 1
      /\ \A i \in 1..Len(old) : new.blocks[i] = old[i]
      /\ new.blocks[Len(old) + 1] = block
  BY <1>1, AppendProperties
<1>6. Symbols(t) \in Seq(Cell)
  BY <1>2, HeldFacts
<1> HIDE DEF old, base
<1>7. ASSUME NEW i \in 1..Len(new.blocks)
      PROVE  Meant(new.blocks[i], ReadIn(m.heap, new, i))
  <2>1. CASE i \in 1..Len(old)
    <3>1. /\ new.blocks[i] = old[i] /\ old[i] \in Blocks
          /\ Meant(old[i], ReadIn(heap, tokens[t], i))
      BY <1>1, <1>5, <2>1, ElementOfSeq DEF Readable, old
    <3>2. CASE i > 1 /\ IsThirdParty(old[i])
      BY <3>1, <3>2 DEF ReadIn, old
    <3>3. CASE ~(i > 1 /\ IsThirdParty(old[i]))
      <4>1. Meant(old[i], Symbols(t)) /\ ReadIn(m.heap, new, i) = Held(m)
        BY <1>2, <1>4, <3>1, <3>3 DEF ReadIn, old
      <4>2. QED
        BY <1>3, <1>6, <3>1, <4>1, MeantLater
    <3>4. QED
      BY <3>2, <3>3
  <2>2. CASE i = Len(old) + 1
    <3>1. new.blocks[i] = block /\ i > 1
      BY <1>1, <1>5, <2>2
    <3>2. QED
      BY <1>3, <1>4, <3>1 DEF ReadIn
  <2>3. QED
    BY <1>1, <1>5, <2>1, <2>2
<1>8. ASSUME \A i \in 1..Len(new.blocks) : ~IsThirdParty(new.blocks[i])
      PROVE  Held(UnmarshalSymbols(<<>>, new.blocks)) = Cells(m.heap, new.symbols)
  <2>1. ~IsThirdParty(block) /\ \A i \in 1..Len(old) : ~IsThirdParty(old[i])
    <3>1. Len(old) + 1 \in 1..Len(new.blocks) /\ \A i \in 1..Len(old) : i \in 1..Len(new.blocks)
      BY <1>1, <1>5
    <3>2. QED
      BY <1>5, <1>8, <3>1
  <2>2. Held(UnmarshalSymbols(<<>>, old)) = Held(base)
    BY <1>1, <1>2, <2>1 DEF ReadBack, old
  <2>3. <<>> \in Heaps
    BY EmptySeq DEF Heaps
  <2>4. UnmarshalSymbols(<<>>, new.blocks) = Extend(UnmarshalSymbols(<<>>, old), block.table)
    BY <1>1, <2>3, UnmarshalSymbolsAppend DEF old
  <2>5. m = Extend(base, block.table)
    BY <2>1 DEF Joins, base
  <2>6. block.table \in Seq(Cell)
    BY DEF Blocks
  <2>7. UnmarshalSymbols(<<>>, old) \in Memories
    BY <1>1, <2>3, UnmarshalSymbolsLater
  <2>8. Held(Extend(UnmarshalSymbols(<<>>, old), block.table)) = Held(Extend(base, block.table))
    BY <1>2, <2>2, <2>6, <2>7, ExtendSame
  <2>9. QED
    BY <1>4, <2>4, <2>5, <2>8
<1>9. QED
  BY <1>7, <1>8 DEF Readable, ReadBack

LEMMA BuiltOver ==
  ASSUME TablesInv, NEW t \in 1..Len(tokens), NEW content \in Contents
  PROVE  LET built == Built([heap |-> heap, slice |-> tokens[t].symbols], tokens[t].keys,
                            content, NoSigner)
         IN  /\ built.block \in Blocks /\ KeysWellMade(built.block)
             /\ OwnBlock(t, built.block)
             /\ Fresh(Symbols(t), built.block.table, Range(Default))
             /\ Later(Base(t, heap), Base(t, SubSeq(built.heap, 1, Len(heap))))
<1> DEFINE m == [heap |-> heap, slice |-> tokens[t].symbols]
           built == Built(m, tokens[t].keys, content, NoSigner)
           block == built.block
           after == Extend(m, content.words)
<1>1. m \in Memories /\ tokens[t].keys \in Seq(Key) /\ m.heap = heap /\ m.slice = tokens[t].symbols
  BY TokenFacts
<1>2. content.words \in Seq(Cell)
  BY WordsAreCells
<1>3. Later(m, after) /\ after \in Memories
  BY <1>1, <1>2, ExtendAdds
<1>4. Held(m) = Symbols(t)
  BY <1>1 DEF Held, Symbols
<1>5. Held(after) \in Seq(Cell)
  BY <1>3, HeldFacts
<1>6. Base(t, heap) = m
  BY DEF Base
<1> HIDE DEF m
<1>7. /\ built.heap = after.heap
      /\ block \in Blocks /\ block.signer = NoSigner /\ KeysWellMade(block)
      /\ DOMAIN block.terms = DOMAIN block.words
      /\ \A i \in DOMAIN block.words :
           \A U \in Seq(Cell) : Begins(Held(after), U) => Str(U, block.terms[i]) = block.words[i]
      /\ Joined(Cell, Held(m), block.table, Held(after), Len(block.table))
      /\ Fresh(Held(m), block.table, Range(Default))
  BY <1>1, BuiltFacts
<1>8. Later(m, [heap |-> SubSeq(built.heap, 1, Len(heap)), slice |-> tokens[t].symbols])
  BY <1>1, <1>3, <1>7, TrimLater
<1> HIDE DEF built, after
<1>9. OwnBlock(t, block)
  BY <1>4, <1>5, <1>7 DEF OwnBlock, IsThirdParty, Meant
<1>10. QED
  BY <1>4, <1>6, <1>7, <1>8, <1>9 DEF Base, built, m

LEMMA SignedAlone ==
  ASSUME NEW content \in Contents, NEW signer \in Key \cup {NoSigner}
  PROVE  LET block == Built([heap |-> <<>>, slice |-> Nil], <<>>, content, signer).block
         IN  /\ block \in Blocks /\ KeysWellMade(block) /\ block.signer = signer
             /\ Meant(block, block.table)
             /\ Fresh(<<>>, block.table, Range(Default))
<1> DEFINE m == [heap |-> <<>>, slice |-> Nil]
           none == <<>>
           block == Built(m, none, content, signer).block
           table == Held(Extend(m, content.words))
<1>1. <<>> \in Heaps /\ <<>> \in Seq(Key) /\ <<>> \in Seq(Cell) /\ Len(<<>>) = 0
  BY EmptySeq DEF Heaps
<1>2. m \in Memories /\ Held(m) = <<>>
  BY <1>1, NilFits DEF Held
<1>3. table \in Seq(Cell)
  BY <1>2, WordsAreCells, ExtendAdds, HeldFacts
<1>4. none \in Seq(Key)
  BY <1>1
<1> HIDE DEF m, none
<1>5. /\ block \in Blocks /\ block.signer = signer /\ KeysWellMade(block)
      /\ DOMAIN block.terms = DOMAIN block.words
      /\ \A i \in DOMAIN block.words :
           \A U \in Seq(Cell) : Begins(table, U) => Str(U, block.terms[i]) = block.words[i]
      /\ Joined(Cell, <<>>, block.table, table, Len(block.table))
      /\ Fresh(<<>>, block.table, Range(Default))
  <2>1. /\ block \in Blocks /\ block.signer = signer /\ KeysWellMade(block)
        /\ DOMAIN block.terms = DOMAIN block.words
        /\ \A i \in DOMAIN block.words :
             \A U \in Seq(Cell) : Begins(table, U) => Str(U, block.terms[i]) = block.words[i]
        /\ Joined(Cell, Held(m), block.table, table, Len(block.table))
        /\ Fresh(Held(m), block.table, Range(Default))
    BY <1>2, <1>4, BuiltFacts
  <2> HIDE DEF block, table
  <2>2. QED
    BY <1>2, <2>1
<1> HIDE DEF block, table
<1>6. table = block.table
  BY <1>5, JoinedNothing DEF Blocks
<1>7. QED
  BY <1>3, <1>5, <1>6 DEF Meant, block, m, none

LEMMA SignRequestFacts ==
  ASSUME NEW content \in Contents, NEW signer \in Signers, NEW t
  PROVE  /\ SignRequest(content, signer) \in Blocks
         /\ KeysWellMade(SignRequest(content, signer))
         /\ OwnBlock(t, SignRequest(content, signer))
<1>1. signer \in Key \cup {NoSigner} /\ signer # NoSigner
  BY SignerAssumption
<1>2. LET block == SignRequest(content, signer)
      IN  /\ block \in Blocks /\ KeysWellMade(block) /\ block.signer = signer
          /\ Meant(block, block.table)
  BY <1>1, SignedAlone DEF SignRequest
<1>3. QED
  BY <1>1, <1>2 DEF OwnBlock, IsThirdParty

(* What a derived token keeps, and what it keeps when the tokens form a line. *)
Kept(s, m) ==
  \/ Quiet(s, m)
  \/ \E new : Derived(s, m, new)

KeptReadable(s, m) ==
  \/ Quiet(s, m)
  \/ \E new : Derived(s, m, new) /\ Readable(m.heap, new) /\ ReadBack(m.heap, new)

LEMMA KeptInv ==
  ASSUME TablesInv, NEW s, NEW m, Kept(s, m)
  PROVE  TablesInv'
<1>1. CASE Quiet(s, m)
  BY <1>1, QuietInv
<1>2. CASE \E new : Derived(s, m, new)
  BY <1>2, DerivedInv
<1>3. QED
  BY <1>1, <1>2 DEF Kept

LEMMA KeptSymbols ==
  ASSUME TablesInv, SymbolsInv, NEW s, NEW m, KeptReadable(s, m), Longest(s)
  PROVE  SymbolsInv'
<1>1. CASE Quiet(s, m)
  BY <1>1, QuietSymbols
<1>2. CASE \E new : Derived(s, m, new) /\ Readable(m.heap, new) /\ ReadBack(m.heap, new)
  <2>1. PICK new : Derived(s, m, new) /\ Readable(m.heap, new) /\ ReadBack(m.heap, new)
    BY <1>2
  <2>2. QED
    BY <2>1, DerivedSymbols
<1>3. QED
  BY <1>1, <1>2 DEF KeptReadable

LEMMA AppendKeeps ==
  ASSUME TablesInv, NEW t \in 1..Len(tokens), NEW block \in Blocks, KeysWellMade(block),
         NEW h, Later(Base(t, heap), Base(t, h)), append(t, h, block)
  PROVE  \E m : /\ Kept(tokens[t].symbols, m)
                /\ SymbolsInv /\ OwnBlock(t, block) => KeptReadable(tokens[t].symbols, m)
<1>1. CASE Quiet(tokens[t].symbols, Base(t, h))
  BY <1>1 DEF Kept, KeptReadable
<1>2. CASE \E new : /\ Derived(tokens[t].symbols, Joins(Base(t, h), block), new)
                    /\ new.blocks = Append(tokens[t].blocks, block)
  <2> DEFINE m == Joins(Base(t, h), block)
  <2>1. PICK new : /\ Derived(tokens[t].symbols, m, new)
                   /\ new.blocks = Append(tokens[t].blocks, block)
    BY <1>2
  <2>2. new \in TokenSet /\ new.symbols = m.slice
    BY <2>1 DEF Derived
  <2>3. ASSUME SymbolsInv, OwnBlock(t, block)
        PROVE  Readable(m.heap, new) /\ ReadBack(m.heap, new)
    BY <2>1, <2>2, <2>3, AppendReads
  <2> HIDE DEF m
  <2>4. QED
    BY <2>1, <2>3 DEF Kept, KeptReadable
<1>3. QED
  BY <1>1, <1>2, AppendDerives

----------------------------------------------------------------------------
(* One fact per operation.                                                    *)

LEMMA AppendBlockKeeps ==
  ASSUME TablesInv, NEW t \in 1..Len(tokens), AppendBlock(t)
  PROVE  \E m : /\ Kept(tokens[t].symbols, m)
                /\ SymbolsInv => KeptReadable(tokens[t].symbols, m)
<1>1. PICK content \in Contents :
        LET built == Built([heap |-> heap, slice |-> tokens[t].symbols], tokens[t].keys,
                           content, NoSigner)
        IN  append(t, SubSeq(built.heap, 1, Len(heap)), built.block)
  BY DEF AppendBlock
<1> DEFINE built == Built([heap |-> heap, slice |-> tokens[t].symbols], tokens[t].keys,
                          content, NoSigner)
           h     == SubSeq(built.heap, 1, Len(heap))
<1>2. /\ built.block \in Blocks /\ KeysWellMade(built.block) /\ OwnBlock(t, built.block)
      /\ Later(Base(t, heap), Base(t, h))
  BY BuiltOver
<1>3. append(t, h, built.block)
  BY <1>1
<1> HIDE DEF built, h
<1>4. QED
  BY <1>2, <1>3, AppendKeeps

LEMMA AppendThirdPartyBlockKeeps ==
  ASSUME TablesInv, NEW t \in 1..Len(tokens), AppendThirdPartyBlock(t)
  PROVE  \E m : /\ Kept(tokens[t].symbols, m)
                /\ SymbolsInv => KeptReadable(tokens[t].symbols, m)
<1>1. PICK content \in Contents, signer \in Signers : append(t, heap, SignRequest(content, signer))
  BY DEF AppendThirdPartyBlock
<1>2. /\ SignRequest(content, signer) \in Blocks /\ KeysWellMade(SignRequest(content, signer))
      /\ OwnBlock(t, SignRequest(content, signer))
  BY SignRequestFacts
<1>3. Later(Base(t, heap), Base(t, heap))
  <2>1. Base(t, heap) \in Memories
    BY TokenFacts DEF Base
  <2>2. QED
    BY <2>1, LaterSelf
<1>4. QED
  BY <1>1, <1>2, <1>3, AppendKeeps

LEMMA SealKeeps ==
  ASSUME TablesInv, NEW t \in 1..Len(tokens), Seal(t)
  PROVE  \E m : /\ Kept(tokens[t].symbols, m)
                /\ SymbolsInv => KeptReadable(tokens[t].symbols, m)
<1> DEFINE m      == [heap |-> heap, slice |-> tokens[t].symbols]
           tables == KeyTablesOf(tokens[t])
           new    == Token(tokens[t].symbols, tables, tokens[t].blocks, TRUE)
<1>1. /\ m \in Memories /\ TokenFits(heap, tokens[t]) /\ tokens[t].symbols \in Slices
      /\ tokens[t].blocks \in Seq(Blocks)
  BY TokenFacts
<1>2. Later(m, m)
  BY <1>1, LaterSelf
<1>3. heap' = m.heap /\ tokens' = Append(tokens, new) /\ m.slice = tokens[t].symbols /\ m.heap = heap
  BY DEF Seal, Token, KeyTablesOf
<1>4. tables \in KeyTables
  BY KeyTablesFit
<1>5. /\ new \in TokenSet /\ new.symbols = tokens[t].symbols /\ new.blocks = tokens[t].blocks
      /\ KeyTablesOf(new) = tables
  <2> HIDE DEF tables
  <2>1. QED
    BY <1>1, <1>4, TokenMade
<1> HIDE DEF new
<1>6. TokenFits(heap, new)
  BY <1>1, <1>5 DEF TokenFits
<1>7. Derived(tokens[t].symbols, m, new)
  BY <1>2, <1>3, <1>5, <1>6 DEF Derived
<1>8. ASSUME SymbolsInv
      PROVE  Readable(heap, new) /\ ReadBack(heap, new)
  <2>1. Readable(heap, tokens[t]) /\ ReadBack(heap, tokens[t])
    BY <1>8 DEF SymbolsInv
  <2>2. QED
    BY <1>5, <2>1 DEF Readable, ReadBack, ReadIn
<1> HIDE DEF m
<1>9. QED
  BY <1>3, <1>7, <1>8 DEF Kept, KeptReadable

LEMMA ReloadKeeps ==
  ASSUME TablesInv, NEW t \in 1..Len(tokens), Reload(t)
  PROVE  \E m : /\ Kept(Nil, m)
                /\ SymbolsInv /\ ~ReloadThirdParty => KeptReadable(Nil, m)
<1> DEFINE blocks == tokens[t].blocks
           m      == UnmarshalSymbols(heap, blocks)
           tables == UnmarshalKeys(blocks)
           new    == Token(m.slice, tables, blocks, tokens[t].sealed)
<1>1. /\ TokenFits(heap, tokens[t]) /\ tokens[t].sealed \in BOOLEAN
      /\ blocks \in Seq(Blocks) /\ heap \in Heaps
  BY TokenFacts
<1>2. tables = KeyTablesOf(tokens[t]) /\ tables \in KeyTables
  BY <1>1, KeyTablesFit DEF TokenFits
<1>3. m \in Memories /\ Later([heap |-> heap, slice |-> Nil], m)
  BY <1>1, UnmarshalSymbolsLater
<1>4. Fits(m.heap, m.slice) /\ m.slice \in Slices
  BY <1>3, MemoryFacts
<1>5. heap' = m.heap /\ tokens' = Append(tokens, new)
  BY DEF Reload
<1>6. /\ ReloadThirdParty \/ \A i \in DOMAIN blocks : ~IsThirdParty(blocks[i])
      /\ DOMAIN blocks = 1..Len(blocks)
  BY <1>1, LenProperties DEF Reload
<1> HIDE DEF m, tables
<1>7. /\ new \in TokenSet /\ new.symbols = m.slice /\ new.blocks = blocks
      /\ KeyTablesOf(new) = tables
  BY <1>1, <1>2, <1>4, TokenMade
<1> HIDE DEF new
<1>8. TokenFits(m.heap, new)
  BY <1>1, <1>2, <1>4, <1>7 DEF TokenFits
<1>9. Derived(Nil, m, new)
  BY <1>3, <1>5, <1>7, <1>8 DEF Derived
<1>10. ASSUME SymbolsInv, ~ReloadThirdParty
       PROVE  Readable(m.heap, new) /\ ReadBack(m.heap, new)
  <2>1. Readable(heap, tokens[t]) /\ ReadBack(heap, tokens[t])
    BY <1>10 DEF SymbolsInv
  <2>2. \A i \in 1..Len(blocks) : ~IsThirdParty(blocks[i])
    BY <1>6, <1>10
  <2>3. Held(UnmarshalSymbols(<<>>, blocks)) = Cells(heap, tokens[t].symbols)
    BY <2>1, <2>2 DEF ReadBack
  <2>4. Held(UnmarshalSymbols(<<>>, blocks)) = Held(m)
    <3>1. <<>> \in Heaps
      BY EmptySeq DEF Heaps
    <3>2. QED
      BY <1>1, <3>1, UnmarshalSymbolsSame DEF m
  <2>5. Cells(m.heap, new.symbols) = Held(m)
    BY <1>7 DEF Held
  <2>6. ReadBack(m.heap, new)
    BY <1>7, <2>4, <2>5 DEF ReadBack
  <2>7. Readable(m.heap, new)
    BY <1>7, <2>1, <2>2, <2>3, <2>4, <2>5 DEF Readable, ReadIn
  <2>8. QED
    BY <2>6, <2>7
<1>11. QED
  BY <1>9, <1>10 DEF Kept, KeptReadable

LEMMA LongestNil ==
  ASSUME TablesInv
  PROVE  Longest(Nil)
<1>1. ASSUME NEW t \in 1..Len(tokens), tokens[t].symbols.arr = 0
      PROVE  tokens[t].symbols.len <= 0
  <2>1. Fits(heap, tokens[t].symbols) /\ heap \in Heaps
    BY TokenFacts
  <2>2. tokens[t].symbols.len = 0
    BY <1>1, <2>1, CellsFacts
  <2>3. QED
    BY <2>2
<1>2. QED
  BY <1>1 DEF Longest, Nil

LEMMA SourceFacts ==
  ASSUME TablesInv, NEW t \in Sources
  PROVE  t \in 1..Len(tokens) /\ (SymbolsInv /\ ~Forks => Longest(tokens[t].symbols))
<1>1. tokens \in Seq(TokenSet) /\ Len(tokens) \in Nat /\ DOMAIN tokens = 1..Len(tokens)
  BY TokenFacts DEF TablesInv
<1>2. CASE Forks
  BY <1>1, <1>2 DEF Sources
<1>3. CASE ~Forks
  <2>1. t = Len(tokens) /\ Len(tokens) # 0
    BY <1>3 DEF Sources
  <2>2. t \in 1..Len(tokens) /\ tokens # <<>>
    BY <1>1, <2>1, EmptySeq
  <2>3. QED
    BY <2>1, <2>2 DEF SymbolsInv
<1>4. QED
  BY <1>2, <1>3

LEMMA newBiscuitKeeps ==
  ASSUME TablesInv, newBiscuit
  PROVE  \E m : /\ Kept(Nil, m)
                /\ SymbolsInv => KeptReadable(Nil, m)
<1>1. PICK content \in Contents :
        LET block == Built([heap |-> <<>>, slice |-> Nil], <<>>, content, NoSigner).block
            m     == Extend([heap |-> heap, slice |-> Nil], block.table)
        IN /\ heap' = m.heap
           /\ tokens' = <<Token(m.slice, UpdatePublicKeys(NoKeys, block, 0), <<block>>, FALSE)>>
  BY DEF newBiscuit
<1> DEFINE block  == Built([heap |-> <<>>, slice |-> Nil], <<>>, content, NoSigner).block
           none   == [heap |-> heap, slice |-> Nil]
           m      == Extend(none, block.table)
           tables == UpdatePublicKeys(NoKeys, block, 0)
           new    == Token(m.slice, tables, <<block>>, FALSE)
<1>2. heap' = m.heap /\ tokens' = <<new>> /\ tokens = <<>>
  BY <1>1 DEF newBiscuit
<1>3. /\ block \in Blocks /\ KeysWellMade(block) /\ block.signer = NoSigner
      /\ Meant(block, block.table) /\ Fresh(<<>>, block.table, Range(Default))
  BY SignedAlone
<1> HIDE DEF block
<1>4. block.table \in Seq(Cell)
  BY <1>3 DEF Blocks
<1>5. heap \in Heaps /\ none \in Memories /\ Held(none) = <<>>
  BY NilFits DEF TablesInv, Held
<1> HIDE DEF none
<1>6. Later(none, m) /\ m \in Memories
  BY <1>4, <1>5, ExtendAdds
<1>7. Held(m) = block.table
  <2>1. Fresh(Held(none), block.table, Range(Default))
    BY <1>3, <1>5
  <2>2. Joined(Cell, Held(none), block.table, Held(m), Len(block.table))
    BY <1>4, <1>5, <2>1, ExtendJoins
  <2>3. QED
    BY <1>4, <1>5, <2>2, JoinedNothing
<1>8. Fits(m.heap, m.slice) /\ m.slice \in Slices
  BY <1>6, MemoryFacts
<1>9. <<block>> \in Seq(Blocks) /\ <<block>> # <<>> /\ Len(<<block>>) = 1 /\ <<block>>[1] = block
  BY <1>3
<1>10. RegistryFits(tables, <<block>>)
  <2>1. <<>> \in Seq(Blocks) /\ Append(<<>>, block) = <<block>> /\ Len(<<>>) = 0
    BY <1>3
  <2>2. RegistryFits(UpdatePublicKeys(NoKeys, block, Len(<<>>)), Append(<<>>, block))
    BY <1>3, <2>1, NothingFiled, RegistryKept
  <2>3. QED
    BY <2>1, <2>2
<1>11. UnmarshalKeys(<<block>>) = tables
  BY <1>3, UnmarshalKeysOne
<1>12. tables \in KeyTables
  BY <1>10 DEF RegistryFits
<1>13. UnmarshalSymbols(<<>>, <<block>>) = Extend([heap |-> <<>>, slice |-> Nil], block.table)
  <2>1. <<>> \in Heaps
    BY EmptySeq DEF Heaps
  <2>2. QED
    BY <1>3, <2>1, UnmarshalSymbolsOne
<1>14. Held(UnmarshalSymbols(<<>>, <<block>>)) = Held(m)
  <2>1. <<>> \in Heaps
    BY EmptySeq DEF Heaps
  <2>2. [heap |-> <<>>, slice |-> Nil] \in Memories /\ Held([heap |-> <<>>, slice |-> Nil]) = <<>>
    BY <2>1, NilFits DEF Held
  <2>3. QED
    BY <1>4, <1>5, <1>13, <2>2, ExtendSame
<1> DEFINE blocks == <<block>>
<1>15. /\ blocks \in Seq(Blocks) /\ blocks # <<>>
       /\ \A i \in 1..Len(blocks) : i = 1 /\ blocks[i] = block /\ ~(i > 1)
  BY <1>9
<1>16. /\ RegistryFits(tables, blocks) /\ UnmarshalKeys(blocks) = tables
       /\ Held(UnmarshalSymbols(<<>>, blocks)) = Held(m)
       /\ new = Token(m.slice, tables, blocks, FALSE)
  BY <1>10, <1>11, <1>14
<1> HIDE DEF blocks, tables, m, new
<1>17. /\ new \in TokenSet /\ new.symbols = m.slice /\ new.blocks = blocks
       /\ KeyTablesOf(new) = tables
  BY <1>8, <1>12, <1>15, <1>16, TokenMade, ZenonT(60)
<1>18. TokenFits(m.heap, new)
  BY <1>3, <1>8, <1>15, <1>16, <1>17 DEF TokenFits
<1>19. tokens' = Append(tokens, new)
  BY <1>2
<1>20. Derived(Nil, m, new)
  BY <1>2, <1>6, <1>17, <1>18, <1>19 DEF Derived, none
<1>21. Cells(m.heap, new.symbols) = block.table
  BY <1>7, <1>17 DEF Held
<1>22. Readable(m.heap, new)
  BY <1>3, <1>15, <1>17, <1>21 DEF Readable, ReadIn
<1>23. ReadBack(m.heap, new)
  BY <1>7, <1>16, <1>17, <1>21 DEF ReadBack
<1>24. QED
  BY <1>20, <1>22, <1>23 DEF Kept, KeptReadable

LEMMA StepKeeps ==
  ASSUME TablesInv, Next
  PROVE  \E s, m :
           /\ Kept(s, m)
           /\ SymbolsInv /\ ~Forks /\ ~ReloadThirdParty => KeptReadable(s, m) /\ Longest(s)
<1>1. CASE newBiscuit
  <2>1. PICK m : Kept(Nil, m) /\ (SymbolsInv => KeptReadable(Nil, m))
    BY <1>1, newBiscuitKeeps
  <2>2. QED
    BY <2>1, LongestNil
<1>2. CASE \E t \in Sources : AppendBlock(t) \/ AppendThirdPartyBlock(t) \/ Seal(t) \/ Reload(t)
  <2>1. PICK t \in Sources : AppendBlock(t) \/ AppendThirdPartyBlock(t) \/ Seal(t) \/ Reload(t)
    BY <1>2
  <2>2. t \in 1..Len(tokens) /\ (SymbolsInv /\ ~Forks => Longest(tokens[t].symbols))
    BY SourceFacts
  <2>3. CASE Reload(t)
    <3>1. PICK m : Kept(Nil, m) /\ (SymbolsInv /\ ~ReloadThirdParty => KeptReadable(Nil, m))
      BY <2>2, <2>3, ReloadKeeps
    <3>2. QED
      BY <3>1, LongestNil
  <2>4. CASE AppendBlock(t) \/ AppendThirdPartyBlock(t) \/ Seal(t)
    <3>1. PICK m : /\ Kept(tokens[t].symbols, m)
                   /\ SymbolsInv => KeptReadable(tokens[t].symbols, m)
      BY <2>2, <2>4, AppendBlockKeeps, AppendThirdPartyBlockKeeps, SealKeeps
    <3>2. QED
      BY <2>2, <3>1
  <2>5. QED
    BY <2>1, <2>3, <2>4
<1>3. QED
  BY <1>1, <1>2 DEF Next

----------------------------------------------------------------------------
(* Theorems.                                                                  *)

LEMMA InitInv == Init => TablesInv
<1>1. SUFFICES ASSUME Init PROVE TablesInv
  OBVIOUS
<1>2. heap \in Heaps /\ tokens \in Seq(TokenSet) /\ Len(tokens) = 0
  BY <1>1, EmptySeq DEF Init, Heaps
<1>3. QED
  BY <1>2 DEF TablesInv

LEMMA StepInv == TablesInv /\ [Next]_vars => TablesInv'
<1>1. ASSUME TablesInv, Next PROVE TablesInv'
  <2>1. PICK s, m : Kept(s, m)
    BY <1>1, StepKeeps
  <2>2. QED
    BY <1>1, <2>1, KeptInv
<1>2. ASSUME TablesInv, UNCHANGED vars PROVE TablesInv'
  BY <1>2 DEF TablesInv, vars
<1>3. QED
  BY <1>1, <1>2

(* The heap, the tables, the registry and the blocks of every token stay of   *)
(* their kinds, and what a token gathered as AppendBlock, Seal and Unmarshal  *)
(* handed it on is what its blocks say.                                       *)
THEOREM TablesSound == Spec => []TablesInv
BY InitInv, StepInv, PTL DEF Spec

LEMMA TypeInv == TablesInv => TypeOK
<1>1. SUFFICES ASSUME TablesInv PROVE TypeOK
  OBVIOUS
<1>2. \A a \in DOMAIN heap : Len(heap[a]) > 0
  BY <1>1, HeapFacts DEF TablesInv
<1>3. ASSUME NEW t \in DOMAIN tokens
      PROVE  /\ tokens[t].symbols.arr \in 0..Len(heap)
             /\ tokens[t].symbols.len \in 0..Cap(heap, tokens[t].symbols)
             /\ tokens[t].blocks # <<>>
             /\ DOMAIN tokens[t].registry \subseteq 0..(Len(tokens[t].keys) - 1)
             /\ tokens[t].sealed \in BOOLEAN
  <2>1. TokenFits(heap, tokens[t]) /\ tokens[t].sealed \in BOOLEAN
    BY <1>1, <1>3, TokenFacts
  <2>2. /\ tokens[t].symbols.arr \in 0..Len(heap)
        /\ tokens[t].symbols.len \in 0..Cap(heap, tokens[t].symbols)
        /\ tokens[t].blocks # <<>>
    BY <2>1 DEF TokenFits, Fits
  <2>3. DOMAIN tokens[t].registry \subseteq 0..(Len(tokens[t].keys) - 1)
    BY <2>1 DEF TokenFits, RegistryFits, KeyTablesOf
  <2>4. QED
    BY <2>1, <2>2, <2>3
<1>4. QED
  BY <1>2, <1>3 DEF TypeOK

(* Whatever the order of Builds, Appends, Seals and Unmarshals, the heap, the *)
(* slices into it and the registries stay within their types.                 *)
THEOREM TypeCorrect == Spec => []TypeOK
BY TablesSound, TypeInv, PTL

LEMMA KeysInv == TablesInv => KeysNeverConfused
<1>1. SUFFICES ASSUME TablesInv, NEW t \in DOMAIN tokens, NEW i \in DOMAIN tokens[t].blocks,
                      ScopesHydrate(tokens[t].blocks[i])
               PROVE  ReadScopes(tokens[t].blocks[i]) = tokens[t].blocks[i].wrote
  BY DEF KeysNeverConfused
<1>2. t \in 1..Len(tokens) /\ tokens[t].blocks \in Seq(Blocks) /\ TokenFits(heap, tokens[t])
  BY <1>1, TokenFacts
<1>3. i \in 1..Len(tokens[t].blocks) /\ tokens[t].blocks[i] \in Blocks
  BY <1>1, <1>2, LenProperties, ElementOfSeq
<1>4. KeysWellMade(tokens[t].blocks[i])
  BY <1>2, <1>3 DEF TokenFits
<1>5. QED
  BY <1>1, <1>3, <1>4, ScopesRight

(* A block that the authorizer can hydrate trusts the keys its author named   *)
(* and no other, whatever table its scopes were numbered in.                  *)
THEOREM KeysNamed == Spec => []KeysNeverConfused
BY TablesSound, KeysInv, PTL

LEMMA CanonicalInv == TablesInv => TablesCanonical
<1>1. SUFFICES ASSUME TablesInv, NEW t \in DOMAIN tokens
               PROVE  UnmarshalKeys(tokens[t].blocks)
                        = [keys |-> tokens[t].keys, registry |-> tokens[t].registry]
  BY DEF TablesCanonical
<1>2. TokenFits(heap, tokens[t])
  BY <1>1, TokenFacts
<1>3. QED
  BY <1>2 DEF TokenFits, KeyTablesOf

(* Append, AppendThirdParty and Seal number a token's keys and file its       *)
(* signers just as Unmarshal does when it reads the token's blocks.           *)
THEOREM NumberedAlike == Spec => []TablesCanonical
BY TablesSound, CanonicalInv, PTL

LEMMA SignersInv == TablesInv => RegistryNamesSigners
<1>1. SUFFICES ASSUME TablesInv, NEW t \in DOMAIN tokens, NEW k \in DOMAIN tokens[t].keys
               PROVE  Filed(KeyTablesOf(tokens[t]), k)
                        = SignedWith(tokens[t].blocks, tokens[t].keys[k])
  BY DEF RegistryNamesSigners, Filed, SignedWith, KeyTablesOf
<1>2. TokenFits(heap, tokens[t]) /\ tokens[t].keys \in Seq(Key)
  BY <1>1, TokenFacts
<1>3. k \in 1..Len(tokens[t].keys) /\ KeyTablesOf(tokens[t]).keys = tokens[t].keys
  BY <1>1, <1>2, LenProperties DEF KeyTablesOf
<1>4. QED
  BY <1>2, <1>3 DEF TokenFits, RegistryFits

(* The registry files every third-party block under the index of the key that *)
(* signed it, and under no other.                                             *)
THEOREM SignersRegistered == Spec => []RegistryNamesSigners
BY TablesSound, SignersInv, PTL

LEMMA OwnBlocksInv == TablesInv => OwnBlocksFit
<1>1. SUFFICES ASSUME TablesInv, NEW t \in Sources, NEW content \in Contents
               PROVE  IsDisjoint(Symbols(t),
                        Built([heap |-> heap, slice |-> tokens[t].symbols], tokens[t].keys,
                              content, NoSigner).block)
  BY DEF OwnBlocksFit
<1> DEFINE block == Built([heap |-> heap, slice |-> tokens[t].symbols], tokens[t].keys,
                          content, NoSigner).block
<1>2. t \in 1..Len(tokens)
  BY <1>1, SourceFacts
<1>3. block \in Blocks /\ Fresh(Symbols(t), block.table, Range(Default))
  BY <1>1, <1>2, BuiltOver
<1>4. block.table \in Seq(Cell) /\ Symbols(t) \in Seq(Cell)
  <2>1. heap \in Heaps /\ Fits(heap, tokens[t].symbols)
    BY <1>1, <1>2, TokenFacts
  <2>2. Symbols(t) \in Seq(Cell)
    BY <2>1, CellsFacts DEF Symbols
  <2> HIDE DEF block
  <2>3. QED
    BY <1>3, <2>2 DEF Blocks
<1> HIDE DEF block
<1>5. ASSUME NEW w, w \in Range(Symbols(t)), w \in Range(block.table)
      PROVE  FALSE
  <2>1. PICK j \in 1..Len(Symbols(t)) : Symbols(t)[j] = w
    BY <1>4, <1>5, InRange
  <2>2. PICK i \in 1..Len(block.table) : block.table[i] = w
    BY <1>4, <1>5, InRange
  <2>3. QED
    BY <1>3, <2>1, <2>2 DEF Fresh
<1>6. QED
  BY <1>5 DEF IsDisjoint, block

(* Append never refuses a block AppendBlock has just built over the token.    *)
THEOREM BuiltBlocksFit == Spec => []OwnBlocksFit
BY TablesSound, OwnBlocksInv, PTL

LEMMA ResolveInv == TablesInv /\ SymbolsInv => SymbolsResolve
<1>1. SUFFICES ASSUME TablesInv, SymbolsInv,
                      NEW t \in DOMAIN tokens, NEW i \in DOMAIN tokens[t].blocks
               PROVE  ReadWords(t, i) = tokens[t].blocks[i].words
  BY DEF SymbolsResolve
<1> DEFINE block == tokens[t].blocks[i]
<1>2. t \in 1..Len(tokens) /\ tokens[t].blocks \in Seq(Blocks)
      /\ heap \in Heaps /\ Fits(heap, tokens[t].symbols)
  BY <1>1, TokenFacts
<1>3. i \in 1..Len(tokens[t].blocks) /\ block \in Blocks
  BY <1>1, <1>2, LenProperties, ElementOfSeq
<1>4. Meant(block, ReadIn(heap, tokens[t], i))
  BY <1>1, <1>2, <1>3 DEF SymbolsInv, Readable
<1>5. ReadIn(heap, tokens[t], i) = TableOf(t, i)
  BY DEF ReadIn, TableOf, Symbols
<1>6. TableOf(t, i) \in Seq(Cell)
  <2>1. Symbols(t) \in Seq(Cell)
    BY <1>2, CellsFacts DEF Symbols
  <2>2. block.table \in Seq(Cell)
    BY <1>3 DEF Blocks
  <2>3. QED
    BY <2>1, <2>2 DEF TableOf
<1>7. Begins(TableOf(t, i), TableOf(t, i))
  BY <1>6, LenProperties DEF Begins
<1>8. ReadWords(t, i) = [j \in DOMAIN block.terms |-> Str(TableOf(t, i), block.terms[j])]
  BY DEF ReadWords
<1> HIDE DEF block
<1>9. /\ DOMAIN block.terms = DOMAIN block.words
      /\ \A j \in DOMAIN block.words : Str(TableOf(t, i), block.terms[j]) = block.words[j]
  BY <1>4, <1>5, <1>6, <1>7 DEF Meant
<1>10. block.words \in Seq(Word)
  BY <1>3 DEF Blocks
<1>11. block.words = [j \in DOMAIN block.words |-> block.words[j]]
  BY <1>10
<1>12. QED
  BY <1>8, <1>9, <1>11 DEF block

(* Every block of a line of tokens, none of them reloaded with a third-party  *)
(* block, reads as the strings its author wrote: an append, sealing or reload *)
(* writes over no cell that a token's table still shows.                      *)
THEOREM LinesResolve ==
  ASSUME ~Forks, ~ReloadThirdParty
  PROVE  Spec => []SymbolsResolve
<1>1. Init => SymbolsInv
  <2>1. SUFFICES ASSUME tokens = <<>> PROVE SymbolsInv
    BY DEF Init
  <2>2. Len(tokens) = 0
    BY <2>1
  <2>3. QED
    BY <2>1, <2>2 DEF SymbolsInv
<1>2. TablesInv /\ SymbolsInv /\ [Next]_vars => SymbolsInv'
  <2>1. ASSUME TablesInv, SymbolsInv, Next PROVE SymbolsInv'
    <3>1. PICK s, m : KeptReadable(s, m) /\ Longest(s)
      BY <2>1, StepKeeps
    <3>2. QED
      BY <2>1, <3>1, KeptSymbols
  <2>2. ASSUME SymbolsInv, UNCHANGED vars PROVE SymbolsInv'
    BY <2>2 DEF SymbolsInv, Longest, vars
  <2>3. QED
    BY <2>1, <2>2
<1>3. QED
  BY <1>1, <1>2, TablesSound, ResolveInv, PTL DEF Spec
=============================================================================
