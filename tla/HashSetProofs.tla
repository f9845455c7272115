--------------------------- MODULE HashSetProofs ---------------------------
(* Proofs about hash sets for any elements, hashes and number of sets, where  *)
(* elements may collide, hash in several ways and differ from themselves.     *)
EXTENDS HashSet, FiniteSetTheorems, FunctionTheorems, SequenceTheorems, TLAPS

LEMMA EqualIsSame ==
  ASSUME NEW x \in Element, NEW y \in Element, Equal(x, y)
  PROVE  x = y
BY CompareAssumption DEF Equal

LEMMA BucketType ==
  ASSUME NEW b \in Buckets, NEW h \in Hash
  PROVE  /\ b[h] \in Seq(Element) /\ Len(b[h]) \in Nat
         /\ DOMAIN b[h] = 1..Len(b[h])
         /\ \A i \in DOMAIN b[h] : b[h][i] \in Element /\ h \in Hashes[b[h][i]]
BY DEF Buckets

----------------------------------------------------------------------------
(* What an insertion does to a set's buckets.                                 *)
LEMMA AppendedBucket ==
  ASSUME NEW b \in Buckets, NEW x \in Element, NEW h \in Hashes[x],
         ~Found(b, h, x)
  PROVE  LET c == Inserted(b, h, x)
         IN  /\ h \in Hash
             /\ c \in [Hash -> Seq(Element)]
             /\ \A g \in Hash \ {h} : c[g] = b[g]
             /\ Len(c[h]) = Len(b[h]) + 1
             /\ \A i \in 1..Len(b[h]) : c[h][i] = b[h][i]
             /\ c[h][Len(b[h]) + 1] = x
<1>1. h \in Hash
  BY HashAssumption
<1>2. b[h] \in Seq(Element) /\ b \in [Hash -> Seq(Element)]
  BY <1>1 DEF Buckets
<1>3. Inserted(b, h, x) = [b EXCEPT ![h] = Append(b[h], x)]
  BY DEF Inserted
<1>4. QED
  BY <1>1, <1>2, <1>3, AppendProperties

LEMMA InsertedType ==
  ASSUME NEW b \in Buckets, NEW x \in Element, NEW h \in Hashes[x]
  PROVE  Inserted(b, h, x) \in Buckets
<1>1. CASE Found(b, h, x)
  BY <1>1 DEF Inserted
<1>2. CASE ~Found(b, h, x)
  <2> DEFINE c == Inserted(b, h, x)
  <2>1. /\ h \in Hash
        /\ c \in [Hash -> Seq(Element)]
        /\ \A g \in Hash \ {h} : c[g] = b[g]
        /\ Len(c[h]) = Len(b[h]) + 1
        /\ \A i \in 1..Len(b[h]) : c[h][i] = b[h][i]
        /\ c[h][Len(b[h]) + 1] = x
    BY <1>2, AppendedBucket
  <2> HIDE DEF c
  <2>2. ASSUME NEW g \in Hash, NEW i \in DOMAIN c[g]
        PROVE  g \in Hashes[c[g][i]]
    <3>1. CASE g = h
      <4>1. Len(b[h]) \in Nat /\ DOMAIN c[h] = 1..Len(c[h])
        BY <2>1, BucketType
      <4>2. i \in 1..Len(b[h]) \/ i = Len(b[h]) + 1
        BY <2>1, <2>2, <3>1, <4>1
      <4>3. QED
        BY <2>1, <3>1, <4>1, <4>2, BucketType
    <3>2. CASE g # h
      BY <2>1, <2>2, <3>2, BucketType
    <3>3. QED
      BY <3>1, <3>2
  <2>3. QED
    BY <2>1, <2>2 DEF Buckets, c
<1>3. QED
  BY <1>1, <1>2

(* An insertion that finds its element changes nothing; another takes one     *)
(* place more.                                                                *)
LEMMA InsertedPlaces ==
  ASSUME NEW b \in Buckets, NEW x \in Element, NEW h \in Hashes[x],
         ~Found(b, h, x)
  PROVE  /\ Places(Inserted(b, h, x)) = Places(b) \cup {<<h, Len(b[h]) + 1>>}
         /\ <<h, Len(b[h]) + 1>> \notin Places(b)
<1> DEFINE c == Inserted(b, h, x)
<1>1. /\ h \in Hash
      /\ c \in [Hash -> Seq(Element)]
      /\ \A g \in Hash \ {h} : c[g] = b[g]
      /\ Len(c[h]) = Len(b[h]) + 1
  BY AppendedBucket
<1> HIDE DEF c
<1>2. /\ Len(b[h]) \in Nat
      /\ DOMAIN b[h] = 1..Len(b[h])
      /\ DOMAIN c[h] = 1..(Len(b[h]) + 1)
  BY <1>1, BucketType
<1>3. \A g \in Hash \ {h} : DOMAIN c[g] = DOMAIN b[g]
  BY <1>1
<1>4. DOMAIN c[h] = DOMAIN b[h] \cup {Len(b[h]) + 1}
  BY <1>2
<1>5. \A p : p \in Places(c) <=> \E g \in Hash : \E i \in DOMAIN c[g] : p = <<g, i>>
  BY DEF Places
<1>6. \A p : p \in Places(b) <=> \E g \in Hash : \E i \in DOMAIN b[g] : p = <<g, i>>
  BY DEF Places
<1>7. Places(c) \subseteq Places(b) \cup {<<h, Len(b[h]) + 1>>}
  BY <1>3, <1>4, <1>5, <1>6
<1>8. Places(b) \cup {<<h, Len(b[h]) + 1>>} \subseteq Places(c)
  BY <1>1, <1>3, <1>4, <1>5, <1>6
<1>9. <<h, Len(b[h]) + 1>> \notin Places(b)
  BY <1>2, <1>6
<1>10. QED
  BY <1>7, <1>8, <1>9 DEF c

(* The count of a set is the number of its places.                            *)
Sized(n, b) == IsFiniteSet(Places(b)) /\ n = Cardinality(Places(b))

LEMMA InsertedSized ==
  ASSUME NEW b \in Buckets, NEW x \in Element, NEW h \in Hashes[x], NEW n,
         Sized(n, b)
  PROVE  Sized(SizeInserted(n, b, h, x), Inserted(b, h, x))
<1>1. CASE Found(b, h, x)
  BY <1>1 DEF Inserted, SizeInserted
<1>2. CASE ~Found(b, h, x)
  <2> DEFINE p == <<h, Len(b[h]) + 1>>
  <2>1. SizeInserted(n, b, h, x) = n + 1
    BY <1>2 DEF SizeInserted
  <2>2. /\ Places(Inserted(b, h, x)) = Places(b) \cup {p}
        /\ p \notin Places(b)
    BY <1>2, InsertedPlaces
  <2>3. IsFiniteSet(Places(b)) /\ n = Cardinality(Places(b))
    BY DEF Sized
  <2>4. /\ IsFiniteSet(Places(b) \cup {p})
        /\ Cardinality(Places(b) \cup {p}) = n + 1
    BY <2>2, <2>3, FS_AddElement
  <2>5. QED
    BY <2>1, <2>2, <2>4 DEF Sized
<1>3. QED
  BY <1>1, <1>2

LEMMA InsertedStored ==
  ASSUME NEW b \in Buckets, NEW x \in Element, NEW h \in Hashes[x]
  PROVE  Stored(Inserted(b, h, x)) = Stored(b) \cup {x}
<1>1. h \in Hash
  BY HashAssumption
<1>2. CASE Found(b, h, x)
  BY <1>1, <1>2, BucketType, EqualIsSame DEF Found, Inserted, Stored, Range
<1>3. CASE ~Found(b, h, x)
  <2> DEFINE c == Inserted(b, h, x)
             n == Len(b[h])
  <2>1. /\ c \in [Hash -> Seq(Element)]
        /\ \A g \in Hash \ {h} : c[g] = b[g]
        /\ Len(c[h]) = n + 1
        /\ \A i \in 1..n : c[h][i] = b[h][i]
        /\ c[h][n + 1] = x
    BY <1>3, AppendedBucket
  <2> HIDE DEF c
  <2>2. /\ n \in Nat /\ DOMAIN b[h] = 1..n
        /\ DOMAIN c[h] = 1..n \cup {n + 1}
    BY <1>1, <2>1, BucketType
  <2>3. Range(c[h]) = Range(b[h]) \cup {x}
    BY <2>1, <2>2, SMTT(60) DEF Range
  <2>4. Stored(c) \subseteq Stored(b) \cup {x}
    BY <1>1, <2>1, <2>3 DEF Stored
  <2>5. Stored(b) \cup {x} \subseteq Stored(c)
    BY <1>1, <2>1, <2>3 DEF Stored
  <2>6. QED
    BY <2>4, <2>5 DEF c
<1>4. QED
  BY <1>2, <1>3

----------------------------------------------------------------------------
(* What a removal does: the first place that equals the element is filled     *)
(* with the bucket's last element.                                            *)
LEMMA FirstPlace ==
  ASSUME NEW bucket \in Seq(Element), NEW x, \E i \in DOMAIN bucket : Equal(bucket[i], x)
  PROVE  \E i \in DOMAIN bucket : /\ Equal(bucket[i], x)
                                  /\ \A j \in 1..(i - 1) : ~Equal(bucket[j], x)
<1> DEFINE P == {i \in DOMAIN bucket : Equal(bucket[i], x)}
<1>1. P \subseteq Nat /\ P # {} /\ DOMAIN bucket = 1..Len(bucket) /\ Len(bucket) \in Nat
  OBVIOUS
<1>2. PICK i \in P : \A j \in P : ~(<<j, i>> \in OpToRel(<, Nat))
  BY <1>1, NatLessThanWellFounded, WFMin
<1>3. \A j \in P : ~(j < i)
  BY <1>1, <1>2 DEF OpToRel
<1>4. \A j \in 1..(i - 1) : j \in DOMAIN bucket /\ j < i
  BY <1>1
<1>5. QED
  BY <1>3, <1>4

LEMMA ShrunkBucket ==
  ASSUME NEW bucket \in Seq(Element), NEW x \in Element,
         \E i \in DOMAIN bucket : Equal(bucket[i], x)
  PROVE  /\ Equal(x, x)
         /\ Len(bucket) \in Nat \ {0}
         /\ Shrunk(bucket, x) \in Seq(Element)
         /\ Len(Shrunk(bucket, x)) = Len(bucket) - 1
         /\ \E i \in 1..Len(bucket) :
              /\ bucket[i] = x
              /\ \A j \in 1..(Len(bucket) - 1) :
                   Shrunk(bucket, x)[j] = IF j = i THEN bucket[Len(bucket)] ELSE bucket[j]
<1> DEFINE n == Len(bucket)
           i == CHOOSE i \in DOMAIN bucket :
                  Equal(bucket[i], x) /\ \A j \in 1..(i - 1) : ~Equal(bucket[j], x)
           moved == [bucket EXCEPT ![i] = bucket[n]]
<1>1. i \in DOMAIN bucket /\ Equal(bucket[i], x)
  BY FirstPlace
<1>2. n \in Nat \ {0} /\ i \in 1..n /\ bucket[i] = x
  BY <1>1, EqualIsSame
<1>3. Shrunk(bucket, x) = SubSeq(moved, 1, n - 1)
  BY DEF Shrunk
<1> HIDE DEF i
<1>4. /\ moved \in Seq(Element) /\ Len(moved) = n
      /\ \A j \in 1..n : moved[j] = IF j = i THEN bucket[n] ELSE bucket[j]
  BY <1>2, ExceptSeq
<1> HIDE DEF moved
<1>5. \A j \in 1..(n - 1) : moved[j] \in Element
  BY <1>2, <1>4, ElementOfSeq
<1>6. /\ SubSeq(moved, 1, n - 1) \in Seq(Element)
      /\ Len(SubSeq(moved, 1, n - 1)) = n - 1
      /\ \A j \in 1..(n - 1) : SubSeq(moved, 1, n - 1)[j] = moved[j]
  <2>1. 1 \in Int /\ n - 1 \in Int
    BY <1>2
  <2>2. /\ SubSeq(moved, 1, n - 1) \in Seq(Element)
        /\ Len(SubSeq(moved, 1, n - 1)) = IF 1 <= n - 1 THEN n - 1 - 1 + 1 ELSE 0
        /\ \A j \in 1..(n - 1 - 1 + 1) : SubSeq(moved, 1, n - 1)[j] = moved[1 + j - 1]
    BY <2>1, <1>5, SubSeqProperties
  <2> HIDE DEF n
  <2>3. QED
    BY <1>2, <2>2
<1>7. Equal(x, x)
  BY <1>1, <1>2
<1>8. QED
  BY <1>2, <1>3, <1>4, <1>6, <1>7

Removed(b, h, x) == [b EXCEPT ![h] = IF Found(b, h, x) THEN Shrunk(@, x) ELSE @]

LEMMA RemovedBucket ==
  ASSUME NEW b \in Buckets, NEW x \in Element, NEW h \in Hashes[x], Found(b, h, x)
  PROVE  LET c == Removed(b, h, x)
             n == Len(b[h])
         IN  /\ h \in Hash /\ Equal(x, x)
             /\ c \in [Hash -> Seq(Element)]
             /\ \A g \in Hash \ {h} : c[g] = b[g]
             /\ n \in Nat \ {0}
             /\ DOMAIN b[h] = 1..n
             /\ DOMAIN c[h] = 1..(n - 1)
             /\ \E i \in 1..n : /\ b[h][i] = x
                               /\ \A j \in 1..(n - 1) :
                                    c[h][j] = IF j = i THEN b[h][n] ELSE b[h][j]
<1>1. h \in Hash
  BY HashAssumption
<1>2. b[h] \in Seq(Element) /\ b \in [Hash -> Seq(Element)]
  BY <1>1 DEF Buckets
<1>3. Removed(b, h, x) = [b EXCEPT ![h] = Shrunk(b[h], x)]
  BY DEF Removed
<1>4. /\ Equal(x, x)
      /\ Len(b[h]) \in Nat \ {0}
      /\ Shrunk(b[h], x) \in Seq(Element)
      /\ Len(Shrunk(b[h], x)) = Len(b[h]) - 1
      /\ \E i \in 1..Len(b[h]) :
           /\ b[h][i] = x
           /\ \A j \in 1..(Len(b[h]) - 1) :
                Shrunk(b[h], x)[j] = IF j = i THEN b[h][Len(b[h])] ELSE b[h][j]
  BY <1>2, ShrunkBucket DEF Found
<1>5. /\ DOMAIN b[h] = 1..Len(b[h])
      /\ DOMAIN Shrunk(b[h], x) = 1..(Len(b[h]) - 1)
  BY <1>2, <1>4
<1>6. QED
  BY <1>1, <1>2, <1>3, <1>4, <1>5

LEMMA RemovedType ==
  ASSUME NEW b \in Buckets, NEW x \in Element, NEW h \in Hashes[x]
  PROVE  Removed(b, h, x) \in Buckets
<1>1. CASE Found(b, h, x)
  <2> DEFINE c == Removed(b, h, x)
             n == Len(b[h])
  <2>1. /\ h \in Hash /\ n \in Nat \ {0}
        /\ c \in [Hash -> Seq(Element)]
        /\ \A g \in Hash \ {h} : c[g] = b[g]
        /\ DOMAIN b[h] = 1..n
        /\ DOMAIN c[h] = 1..(n - 1)
    BY <1>1, RemovedBucket
  <2>2. PICK i \in 1..n : \A j \in 1..(n - 1) :
          c[h][j] = IF j = i THEN b[h][n] ELSE b[h][j]
    BY <1>1, RemovedBucket
  <2> HIDE DEF c
  <2>3. \A j \in 1..n : h \in Hashes[b[h][j]]
    BY <2>1, BucketType
  <2> HIDE DEF n
  <2>4. ASSUME NEW j \in 1..(n - 1)
        PROVE  h \in Hashes[c[h][j]]
    <3>1. j \in 1..n /\ n \in 1..n
      BY <2>1
    <3>2. QED
      BY <2>2, <2>3, <3>1
  <2>5. \A g \in Hash : \A j \in DOMAIN c[g] : g \in Hashes[c[g][j]]
    BY <2>1, <2>4, BucketType
  <2>6. QED
    BY <2>1, <2>5 DEF Buckets, c
<1>2. CASE ~Found(b, h, x)
  BY <1>2, HashAssumption DEF Removed, Buckets
<1>3. QED
  BY <1>1, <1>2

LEMMA RemovedSized ==
  ASSUME NEW b \in Buckets, NEW x \in Element, NEW h \in Hashes[x], Found(b, h, x),
         NEW n, Sized(n, b)
  PROVE  Sized(n - 1, Removed(b, h, x))
<1> DEFINE c == Removed(b, h, x)
           p == <<h, Len(b[h])>>
<1>1. /\ h \in Hash /\ Len(b[h]) \in Nat \ {0}
      /\ c \in [Hash -> Seq(Element)]
      /\ \A g \in Hash \ {h} : c[g] = b[g]
      /\ DOMAIN b[h] = 1..Len(b[h])
      /\ DOMAIN c[h] = 1..(Len(b[h]) - 1)
  BY RemovedBucket
<1> HIDE DEF c
<1>2. DOMAIN c[h] = DOMAIN b[h] \ {Len(b[h])} /\ Len(b[h]) \in DOMAIN b[h]
  BY <1>1
<1>3. \A q : q \in Places(c) <=> \E g \in Hash : \E i \in DOMAIN c[g] : q = <<g, i>>
  BY DEF Places
<1>4. \A q : q \in Places(b) <=> \E g \in Hash : \E i \in DOMAIN b[g] : q = <<g, i>>
  BY DEF Places
<1>5. Places(c) = Places(b) \ {p} /\ p \in Places(b)
  BY <1>1, <1>2, <1>3, <1>4
<1>6. IsFiniteSet(Places(b)) /\ n = Cardinality(Places(b))
  BY DEF Sized
<1>7. /\ IsFiniteSet(Places(b) \ {p})
      /\ Cardinality(Places(b) \ {p}) = n - 1
  BY <1>5, <1>6, FS_RemoveElement
<1>8. QED
  BY <1>5, <1>7 DEF Sized, c

(* Only copies of the element that is removed can disappear.                  *)
LEMMA RemovedStored ==
  ASSUME NEW b \in Buckets, NEW x \in Element, NEW h \in Hashes[x], Found(b, h, x)
  PROVE  /\ x \in Stored(b)
         /\ Stored(Removed(b, h, x)) \cup {x} = Stored(b)
<1> DEFINE c == Removed(b, h, x)
           n == Len(b[h])
<1>1. /\ h \in Hash /\ n \in Nat \ {0}
      /\ c \in [Hash -> Seq(Element)]
      /\ \A g \in Hash \ {h} : c[g] = b[g]
      /\ DOMAIN b[h] = 1..n
      /\ DOMAIN c[h] = 1..(n - 1)
  BY RemovedBucket
<1> HIDE DEF c, n
<1>2. PICK i \in 1..n : /\ b[h][i] = x
                        /\ \A j \in 1..(n - 1) :
                             c[h][j] = IF j = i THEN b[h][n] ELSE b[h][j]
  <2>1. \A d, m : d = c /\ m = n =>
          \E i \in 1..m : /\ b[h][i] = x
                          /\ \A j \in 1..(m - 1) :
                               d[h][j] = IF j = i THEN b[h][m] ELSE b[h][j]
    BY RemovedBucket, SMTT(60) DEF c, n
  <2>2. QED
    BY <2>1
<1>3. x \in Range(b[h])
  BY <1>1, <1>2 DEF Range
<1> HIDE DEF n
<1>4. ASSUME NEW y \in Range(c[h])
      PROVE  y \in Range(b[h])
  <2>1. PICK j \in 1..(n - 1) : c[h][j] = y
    BY <1>1 DEF Range
  <2>2. j \in 1..n /\ n \in 1..n
    BY <1>1
  <2>3. y = b[h][n] \/ y = b[h][j]
    BY <1>2, <2>1
  <2>4. QED
    BY <1>1, <2>2, <2>3 DEF Range
<1>5. ASSUME NEW y \in Range(b[h]), y # x
      PROVE  y \in Range(c[h])
  <2>1. PICK j \in 1..n : b[h][j] = y
    BY <1>1 DEF Range
  <2>2. CASE j = n
    <3>1. i \in 1..(n - 1) /\ c[h][i] = y
      BY <1>1, <1>2, <1>5, <2>1, <2>2
    <3>2. QED
      BY <1>1, <3>1 DEF Range
  <2>3. CASE j # n
    <3>1. j \in 1..(n - 1) /\ c[h][j] = y
      BY <1>1, <1>2, <1>5, <2>1, <2>3
    <3>2. QED
      BY <1>1, <3>1 DEF Range
  <2>4. QED
    BY <2>2, <2>3
<1>6. Stored(c) \subseteq Stored(b)
  BY <1>1, <1>4 DEF Stored
<1>7. Stored(b) \subseteq Stored(c) \cup {x}
  BY <1>1, <1>5 DEF Stored
<1>8. x \in Stored(b)
  BY <1>1, <1>3 DEF Stored
<1>9. QED
  BY <1>6, <1>7, <1>8 DEF c

----------------------------------------------------------------------------
(* An element that equals itself is at most once in a bucket.                 *)
Unique(b) ==
  \A h \in Hash : \A i, j \in DOMAIN b[h] :
    b[h][i] = b[h][j] /\ Equal(b[h][i], b[h][i]) => i = j

(* A set whose count is exact and whose buckets hold no element twice.        *)
Good(n, b) == n \in Nat /\ b \in Buckets /\ Sized(n, b) /\ Unique(b)

LEMMA NewGood == Good(0, NewHashSet)
<1>1. NewHashSet \in Buckets
  BY DEF NewHashSet, Buckets
<1>2. Places(NewHashSet) = {}
  BY DEF Places, NewHashSet
<1>3. QED
  BY <1>1, <1>2, FS_EmptySet DEF Good, Sized, Unique, NewHashSet

LEMMA InsertedGood ==
  ASSUME NEW n, NEW b, Good(n, b), NEW x \in Element, NEW h \in Hashes[x]
  PROVE  Good(SizeInserted(n, b, h, x), Inserted(b, h, x))
<1>1. CASE Found(b, h, x)
  BY <1>1 DEF Inserted, SizeInserted
<1>2. CASE ~Found(b, h, x)
  <2> DEFINE c == Inserted(b, h, x)
             k == Len(b[h])
  <2>1. b \in Buckets
    BY DEF Good
  <2>2. /\ h \in Hash /\ c \in [Hash -> Seq(Element)]
        /\ \A g \in Hash \ {h} : c[g] = b[g]
        /\ Len(c[h]) = k + 1
        /\ \A i \in 1..k : c[h][i] = b[h][i]
        /\ c[h][k + 1] = x
    BY <1>2, <2>1, AppendedBucket
  <2> HIDE DEF c
  <2>3. k \in Nat /\ DOMAIN b[h] = 1..k /\ DOMAIN c[h] = 1..(k + 1)
    BY <2>1, <2>2, BucketType
  <2>4. \A i \in 1..k : ~Equal(b[h][i], x)
    BY <1>2, <2>3 DEF Found
  <2>5. \A i, j \in 1..k : b[h][i] = b[h][j] /\ Equal(b[h][i], b[h][i]) => i = j
    BY <2>2, <2>3 DEF Good, Unique
  <2> HIDE DEF k
  <2>6. ASSUME NEW i \in 1..(k + 1), NEW j \in 1..(k + 1),
               c[h][i] = c[h][j], Equal(c[h][i], c[h][i])
        PROVE  i = j
    <3>1. (i \in 1..k \/ i = k + 1) /\ (j \in 1..k \/ j = k + 1)
      BY <2>3
    <3>2. QED
      BY <2>2, <2>4, <2>5, <2>6, <3>1
  <2>7. Unique(c)
    BY <2>2, <2>3, <2>6 DEF Good, Unique
  <2>8. SizeInserted(n, b, h, x) \in Nat
    BY DEF Good, SizeInserted
  <2>9. QED
    BY <2>1, <2>7, <2>8, InsertedType, InsertedSized DEF Good, c
<1>3. QED
  BY <1>1, <1>2

LEMMA RemovedGood ==
  ASSUME NEW n, NEW b, Good(n, b), NEW x \in Element, NEW h \in Hashes[x]
  PROVE  Good(IF Found(b, h, x) THEN n - 1 ELSE n, Removed(b, h, x))
<1>0. b \in Buckets
  BY DEF Good
<1>1. CASE Found(b, h, x)
  <2> DEFINE c == Removed(b, h, x)
             k == Len(b[h])
  <2>1. /\ h \in Hash /\ k \in Nat \ {0}
        /\ \A g \in Hash \ {h} : c[g] = b[g]
        /\ DOMAIN b[h] = 1..k
        /\ DOMAIN c[h] = 1..(k - 1)
    BY <1>0, <1>1, RemovedBucket
  <2>2. PICK i \in 1..k : \A j \in 1..(k - 1) :
          c[h][j] = IF j = i THEN b[h][k] ELSE b[h][j]
    BY <1>0, <1>1, RemovedBucket
  <2>3. Sized(n - 1, c) /\ c \in Buckets
    BY <1>0, <1>1, RemovedSized, RemovedType DEF Good
  <2>4. n - 1 \in Nat
    BY <2>3, FS_CardinalityType DEF Sized
  <2> HIDE DEF c
  <2>5. \A p, q \in 1..k : b[h][p] = b[h][q] /\ Equal(b[h][p], b[h][p]) => p = q
    BY <2>1 DEF Good, Unique
  <2> HIDE DEF k
  <2>6. ASSUME NEW p \in 1..(k - 1), NEW q \in 1..(k - 1),
               c[h][p] = c[h][q], Equal(c[h][p], c[h][p])
        PROVE  p = q
    <3> DEFINE at(j) == IF j = i THEN k ELSE j
    <3>1. at(p) \in 1..k /\ at(q) \in 1..k
      BY <2>1
    <3>2. c[h][p] = b[h][at(p)] /\ c[h][q] = b[h][at(q)]
      BY <2>2
    <3>3. at(p) = at(q)
      BY <2>5, <2>6, <3>1, <3>2
    <3>4. QED
      BY <2>1, <3>3
  <2>7. Unique(c)
    BY <2>1, <2>6 DEF Good, Unique
  <2>8. QED
    BY <1>1, <2>3, <2>4, <2>7 DEF Good, c
<1>2. CASE ~Found(b, h, x)
  <2>1. Removed(b, h, x) = b
    BY <1>0, <1>2, HashAssumption DEF Removed, Buckets
  <2>2. QED
    BY <1>2, <2>1
<1>3. QED
  BY <1>1, <1>2

(* The inductive invariant: the sets, and the one a loop builds, are good.    *)
HashInv ==
  /\ TypeOK
  /\ \A s \in SetName : Good(size[s], buckets[s])
  /\ Good(workSize, work)

LEMMA CallType ==
  ASSUME TypeOK, call # Idle
  PROVE  /\ call = <<call[1], call[2], call[3]>>
         /\ call[1] \in {"union", "intersect", "superset"}
         /\ call[2] \in SetName /\ call[3] \in SetName
BY DEF TypeOK, Calls, Idle

(* One step of one operation on sets that no loop is visiting.                *)
LEMMA OneStepInv ==
  ASSUME HashInv, NEW s \in SetName, NEW n, NEW b, Good(n, b),
         buckets' = [buckets EXCEPT ![s] = b], size' = [size EXCEPT ![s] = n],
         UNCHANGED loop
  PROVE  HashInv'
<1> USE DEF HashInv
<1>1. TypeOK'
  BY DEF TypeOK, Good, loop
<1>2. \A t \in SetName : Good(size'[t], buckets'[t])
  BY DEF TypeOK
<1>3. QED
  BY <1>1, <1>2 DEF loop

LEMMA StartInv ==
  ASSUME HashInv, NEW op \in {"union", "intersect", "superset"},
         NEW s \in SetName, NEW t \in SetName, NEW visited, NEW initial, NEW n,
         Good(n, initial), Start(op, s, t, visited, initial, n)
  PROVE  HashInv'
<1>1. /\ call' = <<op, s, t>> /\ todo' \subseteq Hash /\ rest' = <<>>
      /\ work' = initial /\ workSize' = n
      /\ UNCHANGED <<buckets, size>>
  BY DEF Start
<1>2. call' \in Calls
  BY <1>1 DEF Calls
<1>3. QED
  BY <1>1, <1>2 DEF HashInv, TypeOK, Good

(* One element visited by a union or an intersection.                         *)
LEMMA ElementInv ==
  ASSUME HashInv, rest # <<>>, rest' = Tail(rest),
         UNCHANGED <<buckets, size, call, todo>>,
         \/ UNCHANGED <<work, workSize>>
         \/ \E h \in Hashes[Head(rest)] :
              /\ work' = Inserted(work, h, Head(rest))
              /\ workSize' = SizeInserted(workSize, work, h, Head(rest))
  PROVE  HashInv'
<1> USE DEF HashInv
<1>1. rest' \in Seq(Element) /\ Head(rest) \in Element
  BY HeadTailProperties DEF TypeOK
<1>2. Good(workSize', work')
  BY <1>1, InsertedGood
<1>3. TypeOK'
  BY <1>1, <1>2 DEF TypeOK, Good
<1>4. QED
  BY <1>2, <1>3

LEMMA NextInv ==
  ASSUME HashInv, Next
  PROVE  HashInv'
<1> USE DEF HashInv
<1>1. ASSUME NEW s \in SetName, NEW x \in Element, Insert(s, x)
      PROVE  HashInv'
  <2>1. PICK h \in Hashes[x] :
          /\ buckets' = [buckets EXCEPT ![s] = Inserted(buckets[s], h, x)]
          /\ size' = [size EXCEPT ![s] = SizeInserted(size[s], buckets[s], h, x)]
    BY <1>1 DEF Insert
  <2>2. UNCHANGED loop
    BY <1>1 DEF Insert
  <2>3. Good(SizeInserted(size[s], buckets[s], h, x), Inserted(buckets[s], h, x))
    BY InsertedGood
  <2>4. QED
    BY <2>1, <2>2, <2>3, OneStepInv
<1>2. ASSUME NEW s \in SetName, NEW x \in Element, Remove(s, x)
      PROVE  HashInv'
  <2>1. PICK h \in Hashes[x] :
          LET found == Found(buckets[s], h, x)
          IN  /\ buckets' = [buckets EXCEPT ![s][h] = IF found THEN Shrunk(@, x) ELSE @]
              /\ size' = [size EXCEPT ![s] = IF found THEN @ - 1 ELSE @]
    BY <1>2 DEF Remove
  <2>2. UNCHANGED loop
    BY <1>2 DEF Remove
  <2>3. buckets' = [buckets EXCEPT ![s] = Removed(buckets[s], h, x)]
    BY <2>1 DEF Removed
  <2>4. Good(IF Found(buckets[s], h, x) THEN size[s] - 1 ELSE size[s],
             Removed(buckets[s], h, x))
    BY RemovedGood
  <2>5. QED
    BY <2>1, <2>2, <2>3, <2>4, OneStepInv
<1>3. ASSUME NEW s \in SetName, NEW t \in SetName, Clone(s, t)
      PROVE  HashInv'
  BY <1>3, OneStepInv DEF Clone
<1>4. CASE UNCHANGED <<buckets, size, loop>>
  BY <1>4 DEF loop, TypeOK
<1>5. ASSUME NEW s \in SetName, NEW t \in SetName, Union(s, t)
      PROVE  HashInv'
  BY <1>5, StartInv DEF Union
<1>6. ASSUME NEW s \in SetName, NEW t \in SetName, Intersect(s, t) \/ IsSuperSet(s, t)
      PROVE  HashInv'
  BY <1>6, StartInv, NewGood DEF Intersect, IsSuperSet
<1>7. CASE NextBucket
  <2>1. rest' \in Seq(Element)
    BY <1>7, CallType, BucketType DEF NextBucket, TypeOK
  <2>2. QED
    BY <1>7, <2>1 DEF NextBucket, TypeOK
<1>8. CASE UnionElement
  BY <1>8, ElementInv DEF UnionElement
<1>9. CASE IntersectElement
  BY <1>9, ElementInv DEF IntersectElement
<1>10. CASE SuperSetElement
  <2>1. \/ rest' = Tail(rest) /\ UNCHANGED <<call, todo, work, workSize>>
        \/ Return(FALSE)
    BY <1>10 DEF SuperSetElement
  <2>2. rest # <<>> /\ UNCHANGED <<buckets, size>>
    BY <1>10 DEF SuperSetElement
  <2>3. CASE Return(FALSE)
    BY <2>2, <2>3, NewGood, EmptySeq DEF Return, TypeOK, Calls, Good
  <2>4. QED
    BY <2>1, <2>2, <2>3, ElementInv
<1>11. CASE Finish
  <2>1. call # Idle /\ Return(TRUE)
    BY <1>11 DEF Finish
  <2>2. call[2] \in SetName
    BY <2>1, CallType
  <2>3. \/ UNCHANGED <<buckets, size>>
        \/ /\ buckets' = [buckets EXCEPT ![call[2]] = work]
           /\ size' = [size EXCEPT ![call[2]] = workSize]
    BY <1>11 DEF Finish
  <2>4. /\ buckets' \in [SetName -> Buckets] /\ size' \in [SetName -> Nat]
        /\ \A s \in SetName : Good(size'[s], buckets'[s])
    BY <2>2, <2>3, ZenonT(60) DEF TypeOK, Good
  <2>5. QED
    BY <2>1, <2>4, NewGood, EmptySeq DEF Return, TypeOK, Calls, Good
<1>12. QED
  BY <1>1, <1>2, <1>3, <1>4, <1>5, <1>6, <1>7, <1>8, <1>9, <1>10, <1>11
     DEF Next, Contains, Compared

(* Between any two steps of Insert, Remove, Union, Intersect or a comparison, *)
(* every set, and the set a loop builds, has a size field that counts its     *)
(* places and no bucket that holds an element equal to itself twice.          *)
THEOREM HashInvariant == Spec => []HashInv
<1>1. Init => HashInv
  BY NewGood, EmptySeq DEF Init, HashInv, TypeOK, Calls, Good
<1>2. HashInv /\ [Next]_vars => HashInv'
  <2>1. HashInv /\ UNCHANGED vars => HashInv'
    BY DEF vars, loop, HashInv, TypeOK
  <2>2. QED
    BY <2>1, NextInv
<1>3. QED
  BY <1>1, <1>2, PTL DEF Spec

(* Every set, and the set a loop builds, counts its elements exactly, however *)
(* its elements collide, hash or differ from themselves.                      *)
THEOREM CountsExact == Spec => []SizeExact
<1>1. HashInv => SizeExact
  BY DEF HashInv, Good, Sized, SizeExact
<1>2. QED
  BY <1>1, HashInvariant, PTL

LEMMA CopiesFewerThanHashes ==
  ASSUME NEW n, NEW b, Good(n, b), NEW x \in Element, Equal(x, x)
  PROVE  Cardinality(Copies(b, x)) <= Cardinality(Hashes[x])
<1> DEFINE C == Copies(b, x)
           f == [p \in C |-> p[1]]
<1>1. \A p \in C : \E h \in Hash : \E i \in DOMAIN b[h] : p = <<h, i>> /\ b[h][i] = x
  BY DEF Copies, Places
<1>2. \A p \in C : p[1] \in Hashes[x]
  BY <1>1, BucketType DEF Good
<1>3. \A p, q \in C : p[1] = q[1] => p = q
  BY <1>1 DEF Good, Unique
<1> HIDE DEF C
<1>4. f \in Injection(C, Hashes[x])
  BY <1>2, <1>3 DEF Injection, IsInjective
<1>5. IsFiniteSet(Hashes[x])
  BY HashAssumption, FS_Subset
<1>6. QED
  BY <1>4, <1>5, FS_Injection DEF C

(* An element that equals itself is stored at most once under each of its     *)
(* hashes: however often it is inserted, merged or kept.                      *)
THEOREM CopiesLimited == Spec => []CopiesBounded
<1>1. HashInv => CopiesBounded
  BY CopiesFewerThanHashes DEF HashInv, CopiesBounded
<1>2. QED
  BY <1>1, HashInvariant, PTL

----------------------------------------------------------------------------
(* What a lookup says of the elements stored.                                 *)
LEMMA FoundIsStored ==
  ASSUME NEW b \in Buckets, NEW x \in Element, NEW h \in Hashes[x], Found(b, h, x)
  PROVE  x \in Stored(b)
BY HashAssumption, BucketType, EqualIsSame DEF Found, Stored, Range

LEMMA ExactIsFound ==
  ASSUME NEW b \in Buckets, NEW x \in Stored(b) \cap Exact, NEW h \in Hashes[x]
  PROVE  Found(b, h, x)
<1>1. PICK g \in Hash : \E i \in DOMAIN b[g] : b[g][i] = x
  BY DEF Stored, Range
<1>2. g = h
  BY <1>1, BucketType DEF Exact
<1>3. QED
  BY <1>1, <1>2 DEF Found, Exact

LEMMA StoredType ==
  ASSUME NEW b \in Buckets
  PROVE  Stored(b) \subseteq Element
BY BucketType DEF Stored, Range

(* An exact element that is removed is gone.                                  *)
LEMMA ExactIsGone ==
  ASSUME NEW n, NEW b, Good(n, b), NEW x \in Exact, NEW h \in Hashes[x], Found(b, h, x)
  PROVE  x \notin Stored(Removed(b, h, x))
<1> DEFINE c == Removed(b, h, x)
           k == Len(b[h])
<1>0. b \in Buckets /\ x \in Element /\ Equal(x, x)
  BY DEF Good, Exact
<1>1. /\ h \in Hash /\ k \in Nat \ {0}
      /\ \A g \in Hash \ {h} : c[g] = b[g]
      /\ DOMAIN b[h] = 1..k
      /\ DOMAIN c[h] = 1..(k - 1)
  BY <1>0, RemovedBucket
<1>2. PICK i \in 1..k : /\ b[h][i] = x
                        /\ \A j \in 1..(k - 1) :
                             c[h][j] = IF j = i THEN b[h][k] ELSE b[h][j]
  BY <1>0, RemovedBucket
<1> HIDE DEF c
<1>3. \A j \in 1..k : b[h][j] = x => j = i
  BY <1>0, <1>1, <1>2 DEF Good, Unique
<1> HIDE DEF k
<1>4. ASSUME NEW j \in 1..(k - 1)
      PROVE  c[h][j] # x
  <2>1. j \in 1..k /\ k \in 1..k /\ j # k
    BY <1>1
  <2>2. QED
    BY <1>2, <1>3, <2>1
<1>5. ASSUME NEW g \in Hash \ {h}, NEW j \in DOMAIN b[g]
      PROVE  b[g][j] # x
  BY <1>0, BucketType DEF Exact
<1>6. QED
  BY <1>1, <1>4, <1>5 DEF Stored, Range, c

(* What a loop has yet to visit.                                              *)
Source == IF call[1] = "intersect" THEN call[2] ELSE call[3]

Pending == Range(rest) \cup UNION {Range(buckets[Source][h]) : h \in todo}

(* What a loop has built, together with what it has yet to visit, decides     *)
(* its result.                                                                *)
LoopInv ==
  call # Idle =>
    /\ Pending \subseteq Stored(buckets[Source])
    /\ call[1] = "union" =>
         Stored(work) \cup Pending = Stored(buckets[call[2]]) \cup Stored(buckets[call[3]])
    /\ call[1] = "intersect" =>
         /\ Stored(work) \subseteq Stored(buckets[call[2]]) \cap Stored(buckets[call[3]])
         /\ Stored(buckets[call[2]]) \cap Stored(buckets[call[3]]) \cap Exact
              \subseteq Stored(work) \cup Pending
    /\ call[1] = "superset" =>
         Stored(buckets[call[3]]) \subseteq Stored(buckets[call[2]]) \cup Pending

LEMMA NewStored == Stored(NewHashSet) = {}
BY DEF Stored, NewHashSet, Range

LEMMA StartLoop ==
  ASSUME HashInv, NEW op \in {"union", "intersect", "superset"},
         NEW s \in SetName, NEW t \in SetName, NEW initial, NEW n,
         Start(op, s, t, buckets[IF op = "intersect" THEN s ELSE t], initial, n),
         op = "union" => initial = buckets[s],
         op = "intersect" => initial = NewHashSet
  PROVE  LoopInv'
<1> DEFINE src == IF op = "intersect" THEN s ELSE t
<1>1. /\ call' = <<op, s, t>> /\ rest' = <<>> /\ work' = initial
      /\ todo' = {h \in Hash : buckets[src][h] # <<>>}
      /\ buckets' = buckets
  BY DEF Start
<1>2. Source' = src /\ call'[1] = op /\ call'[2] = s /\ call'[3] = t
  BY <1>1 DEF Source
<1>3. Pending' = Stored(buckets[src])
  <2>1. Range(<<>>) = {}
    BY DEF Range
  <2>2. UNION {Range(buckets[src][h]) : h \in todo'} = Stored(buckets[src])
    <3>1. \A h \in Hash : buckets[src][h] = <<>> => Range(buckets[src][h]) = {}
      BY <2>1
    <3>2. QED
      BY <1>1, <3>1, SMTT(60) DEF Stored
  <2>3. QED
    BY <1>1, <1>2, <2>1, <2>2 DEF Pending
<1> HIDE DEF src
<1>4. CASE op = "union"
  BY <1>1, <1>2, <1>3, <1>4 DEF LoopInv, src
<1>5. CASE op = "intersect"
  BY <1>1, <1>2, <1>3, <1>5, NewStored DEF LoopInv, src
<1>6. CASE op = "superset"
  BY <1>1, <1>2, <1>3, <1>6 DEF LoopInv, src
<1>7. QED
  BY <1>4, <1>5, <1>6

LEMMA NextBucketLoop ==
  ASSUME HashInv, LoopInv, NextBucket
  PROVE  LoopInv'
<1>1. /\ call # Idle /\ rest = <<>>
      /\ UNCHANGED <<buckets, call, work>>
      /\ \E h \in todo : rest' = buckets[Source][h] /\ todo' = todo \ {h}
  BY DEF NextBucket, Source
<1>2. Source' = Source
  BY <1>1 DEF Source
<1>3. Range(rest) = {}
  BY <1>1 DEF Range
<1>4. Pending' = Pending
  BY <1>1, <1>2, <1>3 DEF Pending
<1>5. QED
  BY <1>1, <1>2, <1>4 DEF LoopInv

(* Visiting an element takes it from what is pending.                         *)
LEMMA VisitElement ==
  ASSUME HashInv, rest # <<>>, rest' = Tail(rest), UNCHANGED <<buckets, call, todo>>
  PROVE  /\ Head(rest) \in Element
         /\ Source' = Source
         /\ Pending = Pending' \cup {Head(rest)}
<1>1. rest \in Seq(Element)
  BY DEF HashInv, TypeOK
<1>2. Source' = Source
  BY DEF Source
<1>3. Range(rest) = {Head(rest)} \cup Range(Tail(rest))
  <2> DEFINE n == Len(rest)
  <2>1. /\ n \in Nat \ {0} /\ DOMAIN rest = 1..n
        /\ DOMAIN Tail(rest) = 1..(n - 1)
        /\ \A i \in 1..(n - 1) : Tail(rest)[i] = rest[i + 1]
        /\ Head(rest) = rest[1]
    BY <1>1, HeadTailProperties, EmptySeq
  <2> HIDE DEF n
  <2>2. ASSUME NEW i \in 1..n
        PROVE  rest[i] \in {Head(rest)} \cup Range(Tail(rest))
    <3>1. i = 1 \/ (i - 1 \in 1..(n - 1) /\ (i - 1) + 1 = i)
      BY <2>1
    <3>2. QED
      BY <2>1, <3>1 DEF Range
  <2>3. ASSUME NEW i \in 1..(n - 1)
        PROVE  Tail(rest)[i] \in Range(rest)
    <3>1. i + 1 \in 1..n
      BY <2>1
    <3>2. QED
      BY <2>1, <3>1 DEF Range
  <2>4. 1 \in 1..n
    BY <2>1
  <2>5. QED
    BY <2>1, <2>2, <2>3, <2>4 DEF Range
<1>4. QED
  BY <1>1, <1>2, <1>3, HeadTailProperties DEF Pending

LEMMA SourceType ==
  ASSUME HashInv, call # Idle
  PROVE  /\ Source \in SetName
         /\ buckets[Source] \in Buckets /\ buckets[call[2]] \in Buckets
         /\ buckets[call[3]] \in Buckets /\ work \in Buckets
BY CallType DEF HashInv, TypeOK, Source

LEMMA UnionLoop ==
  ASSUME HashInv, LoopInv, UnionElement
  PROVE  LoopInv'
<1>1. /\ call[1] = "union" /\ call # Idle /\ rest # <<>> /\ rest' = Tail(rest)
      /\ UNCHANGED <<buckets, call, todo>>
  BY DEF UnionElement, Idle
<1>2. /\ Head(rest) \in Element /\ Source' = Source
      /\ Pending = Pending' \cup {Head(rest)}
  BY <1>1, VisitElement
<1>3. Stored(work') = Stored(work) \cup {Head(rest)}
  BY <1>1, <1>2, SourceType, InsertedStored DEF UnionElement
<1>4. QED
  BY <1>1, <1>2, <1>3 DEF LoopInv

LEMMA IntersectLoop ==
  ASSUME HashInv, LoopInv, IntersectElement
  PROVE  LoopInv'
<1> DEFINE x == Head(rest)
           left == Stored(buckets[call[2]])
           right == Stored(buckets[call[3]])
<1>1. /\ call[1] = "intersect" /\ call # Idle /\ rest # <<>> /\ rest' = Tail(rest)
      /\ UNCHANGED <<buckets, call, todo>>
  BY DEF IntersectElement, Idle
<1>2. /\ x \in Element /\ Source' = Source /\ Source = call[2]
      /\ Pending = Pending' \cup {x}
  BY <1>1, VisitElement DEF Source
<1>3. /\ Pending \subseteq left
      /\ Stored(work) \subseteq left \cap right
      /\ left \cap right \cap Exact \subseteq Stored(work) \cup Pending
  BY <1>1, <1>2 DEF LoopInv
<1>4. x \in left
  BY <1>2, <1>3
<1>5. PICK g \in Hashes[x] : \E h \in Hashes[x] :
        work' = IF Found(buckets[call[3]], g, x) THEN Inserted(work, h, x) ELSE work
  BY DEF IntersectElement
<1>6. PICK h \in Hashes[x] :
        work' = IF Found(buckets[call[3]], g, x) THEN Inserted(work, h, x) ELSE work
  BY <1>5
<1>7. /\ Stored(work') \subseteq left \cap right
      /\ left \cap right \cap Exact \subseteq Stored(work') \cup Pending'
  <2>1. CASE Found(buckets[call[3]], g, x)
    <3>1. x \in right
      BY <1>1, <1>2, <2>1, FoundIsStored, SourceType
    <3>2. Stored(work') = Stored(work) \cup {x}
      BY <1>1, <1>2, <1>6, <2>1, InsertedStored, SourceType
    <3>3. QED
      BY <1>2, <1>3, <1>4, <3>1, <3>2
  <2>2. CASE ~Found(buckets[call[3]], g, x)
    <3>1. x \notin right \cap Exact
      BY <1>1, <2>2, ExactIsFound, SourceType
    <3>2. work' = work
      BY <1>6, <2>2
    <3>3. QED
      BY <1>2, <1>3, <3>1, <3>2
  <2>3. QED
    BY <2>1, <2>2
<1>8. Pending' \subseteq left
  BY <1>2, <1>3
<1>9. QED
  BY <1>1, <1>2, <1>7, <1>8 DEF LoopInv

LEMMA SuperSetLoop ==
  ASSUME HashInv, LoopInv, SuperSetElement, call' # Idle
  PROVE  LoopInv'
<1>1. /\ call[1] = "superset" /\ call # Idle /\ rest # <<>>
      /\ UNCHANGED buckets
  BY DEF SuperSetElement, Idle
<1>2. PICK h \in Hashes[Head(rest)] :
        /\ Found(buckets[call[2]], h, Head(rest))
        /\ rest' = Tail(rest) /\ UNCHANGED <<call, todo, work>>
  BY DEF SuperSetElement, Return
<1>3. /\ Head(rest) \in Element /\ Source' = Source
      /\ Pending = Pending' \cup {Head(rest)}
  BY <1>1, <1>2, VisitElement
<1>4. Head(rest) \in Stored(buckets[call[2]])
  BY <1>1, <1>2, <1>3, FoundIsStored, SourceType
<1>5. QED
  BY <1>1, <1>2, <1>3, <1>4 DEF LoopInv

LEMMA NextLoop ==
  ASSUME HashInv, LoopInv, Next
  PROVE  LoopInv'
<1>1. ASSUME NEW s \in SetName, NEW x \in Element, Insert(s, x) \/ Remove(s, x) \/ Contains(s, x)
      PROVE  LoopInv'
  BY <1>1 DEF Insert, Remove, Contains, loop, LoopInv
<1>2. ASSUME NEW s \in SetName, NEW t \in SetName, Clone(s, t) \/ Compared(s, t)
      PROVE  LoopInv'
  BY <1>2 DEF Clone, Compared, loop, LoopInv
<1>3. ASSUME NEW s \in SetName, NEW t \in SetName, Union(s, t)
      PROVE  LoopInv'
  <2>1. Start("union", s, t, buckets[t], buckets[s], size[s])
    BY <1>3 DEF Union
  <2>2. QED
    BY <2>1, StartLoop
<1>4. ASSUME NEW s \in SetName, NEW t \in SetName, Intersect(s, t)
      PROVE  LoopInv'
  <2>1. Start("intersect", s, t, buckets[s], NewHashSet, 0)
    BY <1>4 DEF Intersect
  <2>2. QED
    BY <2>1, StartLoop
<1>5. ASSUME NEW s \in SetName, NEW t \in SetName, IsSuperSet(s, t)
      PROVE  LoopInv'
  <2>1. Start("superset", s, t, buckets[t], NewHashSet, 0)
    BY <1>5 DEF IsSuperSet
  <2>2. QED
    BY <2>1, StartLoop
<1>6. CASE Finish
  BY <1>6 DEF Finish, Return, LoopInv
<1>7. CASE SuperSetElement /\ call' = Idle
  BY <1>7 DEF LoopInv
<1>8. QED
  BY <1>1, <1>2, <1>3, <1>4, <1>5, <1>6, <1>7, NextBucketLoop, UnionLoop,
     IntersectLoop, SuperSetLoop DEF Next

LEMMA LoopInvariant == Spec => []LoopInv
<1>1. Init => LoopInv
  BY DEF Init, LoopInv
<1>2. HashInv /\ LoopInv /\ [Next]_vars => LoopInv'
  <2>1. LoopInv /\ UNCHANGED vars => LoopInv'
    BY DEF vars, loop, LoopInv, Pending, Source
  <2>2. QED
    BY <2>1, NextLoop
<1>3. QED
  BY <1>1, <1>2, HashInvariant, PTL DEF Spec

----------------------------------------------------------------------------
(* Counting copies tells which elements are stored.                           *)
LEMMA CopiesOfStored ==
  ASSUME NEW n, NEW b, Good(n, b), NEW x
  PROVE  /\ Cardinality(Copies(b, x)) \in Nat
         /\ x \in Stored(b) <=> Cardinality(Copies(b, x)) # 0
         /\ x \in Stored(b) \cap Exact => Cardinality(Copies(b, x)) = 1
<1>1. IsFiniteSet(Copies(b, x))
  BY FS_Subset DEF Good, Sized, Copies
<1>2. x \in Stored(b) <=> Copies(b, x) # {}
  <2>1. ASSUME NEW h \in Hash, NEW i \in DOMAIN b[h], b[h][i] = x
        PROVE  <<h, i>> \in Copies(b, x)
    BY <2>1 DEF Copies, Places
  <2>2. ASSUME NEW p \in Copies(b, x)
        PROVE  \E h \in Hash : \E i \in DOMAIN b[h] : b[h][i] = x
    BY DEF Copies, Places
  <2>3. x \in Stored(b) <=> \E h \in Hash : \E i \in DOMAIN b[h] : b[h][i] = x
    BY DEF Stored, Range
  <2>4. QED
    BY <2>1, <2>2, <2>3
<1>3. ASSUME x \in Exact, NEW p \in Copies(b, x), NEW q \in Copies(b, x)
      PROVE  p = q
  <2>1. /\ \E h \in Hash : \E i \in DOMAIN b[h] : p = <<h, i>> /\ b[h][i] = x
        /\ \E h \in Hash : \E i \in DOMAIN b[h] : q = <<h, i>> /\ b[h][i] = x
    BY DEF Copies, Places
  <2>2. p[1] \in Hashes[x] /\ q[1] \in Hashes[x]
    BY <2>1, BucketType DEF Good
  <2>3. p[1] = q[1] /\ Equal(x, x)
    BY <1>3, <2>2 DEF Exact
  <2>4. QED
    BY <2>1, <2>3 DEF Good, Unique
<1>4. x \in Stored(b) \cap Exact => \E p : Copies(b, x) = {p}
  BY <1>2, <1>3
<1>5. QED
  BY <1>1, <1>2, <1>4, FS_CardinalityType, FS_EmptySet, FS_Singleton

Contents == [s \in SetName |-> Stored(buckets[s])]

LEMMA ContentsOfSet ==
  ASSUME HashInv, NEW s \in SetName, NEW b, buckets' = [buckets EXCEPT ![s] = b]
  PROVE  Contents' = [Contents EXCEPT ![s] = Stored(b)]
BY DEF Contents, HashInv, TypeOK

(* Each operation on one element is the abstract one.                         *)
LEMMA InsertRefines ==
  ASSUME HashInv, NEW s \in SetName, NEW x \in Element, Insert(s, x)
  PROVE  AbstractSets!Insert(s, x)
<1>1. PICK h \in Hashes[x] :
        /\ buckets' = [buckets EXCEPT ![s] = Inserted(buckets[s], h, x)]
        /\ answer' = <<"insert", s, x, ~Found(buckets[s], h, x)>>
  BY DEF Insert
<1>2. call = Idle /\ call' = call /\ buckets[s] \in Buckets
  BY DEF Insert, loop, HashInv, TypeOK
<1>3. Contents' = [Contents EXCEPT ![s] = Contents[s] \cup {x}]
  <2>1. Contents' = [Contents EXCEPT ![s] = Stored(Inserted(buckets[s], h, x))]
    BY <1>1, ContentsOfSet
  <2>2. Stored(Inserted(buckets[s], h, x)) = Contents[s] \cup {x}
    BY <1>2, InsertedStored DEF Contents
  <2>3. QED
    BY <2>1, <2>2
<1>4. x \notin Contents[s] => ~Found(buckets[s], h, x)
  BY <1>2, FoundIsStored DEF Contents
<1>5. x \in Contents[s] \cap Exact => Found(buckets[s], h, x)
  BY <1>2, ExactIsFound DEF Contents
<1>6. (~Found(buckets[s], h, x)) \in BOOLEAN
  BY DEF Found
<1>7. QED
  BY <1>1, <1>2, <1>3, <1>4, <1>5, <1>6
     DEF AbstractSets!Insert, AbstractSets!Answer, AbstractSets!Idle, Idle, Contents

LEMMA RemoveRefines ==
  ASSUME HashInv, NEW s \in SetName, NEW x \in Element, Remove(s, x)
  PROVE  AbstractSets!Remove(s, x)
<1>1. PICK h \in Hashes[x] :
        /\ buckets' = [buckets EXCEPT ![s][h] =
                         IF Found(buckets[s], h, x) THEN Shrunk(@, x) ELSE @]
        /\ answer' = <<"remove", s, x, Found(buckets[s], h, x)>>
  BY DEF Remove
<1> DEFINE removed == Found(buckets[s], h, x)
           c == Removed(buckets[s], h, x)
           left == {x} \cap Stored(c)
<1>2. /\ call = Idle /\ call' = call
      /\ buckets[s] \in Buckets /\ Good(size[s], buckets[s])
  BY DEF Remove, loop, HashInv, TypeOK
<1>3. Contents' = [Contents EXCEPT ![s] = Stored(c)]
  <2>1. buckets' = [buckets EXCEPT ![s] = c]
    BY <1>1 DEF Removed, HashInv, TypeOK
  <2>2. QED
    BY <2>1, ContentsOfSet
<1>4. removed => Stored(c) = (Contents[s] \ {x}) \cup left /\ x \in Contents[s]
  BY <1>2, RemovedStored DEF Contents
<1>5. ~removed => Stored(c) = Contents[s]
  BY <1>2, HashAssumption DEF Removed, Buckets, Contents
<1>6. x \in Exact => removed = (x \in Contents[s])
  <2>1. x \in Exact => (removed <=> x \in Contents[s])
    BY <1>2, FoundIsStored, ExactIsFound DEF Contents
  <2>2. removed \in BOOLEAN
    BY DEF Found
  <2>3. QED
    BY <2>1, <2>2
<1>7. x \in Exact /\ removed => left = {}
  BY <1>2, ExactIsGone
<1>8. removed \in BOOLEAN
  BY DEF Found
<1> DEFINE rest1 == IF removed THEN left ELSE {}
<1> HIDE DEF removed, c, left
<1>9. /\ rest1 \in SUBSET {x}
      /\ x \in Exact => removed = (x \in Contents[s]) /\ rest1 = {}
      /\ x \notin Contents[s] => ~removed /\ rest1 = {}
      /\ Contents' = [Contents EXCEPT ![s] =
                       IF removed THEN (Contents[s] \ {x}) \cup rest1 ELSE Contents[s]]
  BY <1>3, <1>4, <1>5, <1>6, <1>7 DEF left
<1>10. answer' = <<"remove", s, x, removed>>
  BY <1>1 DEF removed
<1> HIDE DEF rest1
<1>11. QED
  BY <1>2, <1>8, <1>9, <1>10
     DEF AbstractSets!Remove, AbstractSets!Answer, AbstractSets!Idle, Idle, Contents

LEMMA ContainsRefines ==
  ASSUME HashInv, NEW s \in SetName, NEW x \in Element, Contains(s, x)
  PROVE  AbstractSets!Contains(s, x)
<1>1. PICK h \in Hashes[x] : answer' = <<"contains", s, x, Found(buckets[s], h, x)>>
  BY DEF Contains
<1>2. /\ call = Idle /\ UNCHANGED <<call, buckets>> /\ buckets[s] \in Buckets
  BY DEF Contains, loop, HashInv, TypeOK
<1>3. /\ Found(buckets[s], h, x) => x \in Stored(buckets[s])
      /\ x \in Stored(buckets[s]) \cap Exact => Found(buckets[s], h, x)
  BY <1>2, FoundIsStored, ExactIsFound
<1>4. Found(buckets[s], h, x) \in BOOLEAN
  BY DEF Found
<1>5. QED
  BY <1>1, <1>2, <1>3, <1>4
     DEF AbstractSets!Contains, AbstractSets!Answer, AbstractSets!Idle, Idle

LEMMA CloneRefines ==
  ASSUME HashInv, NEW s \in SetName, NEW t \in SetName, Clone(s, t)
  PROVE  AbstractSets!Clone(s, t)
<1>1. /\ call = Idle /\ call' = call /\ answer' = <<"clone", s, t, TRUE>>
      /\ buckets' = [buckets EXCEPT ![s] = buckets[t]]
  BY DEF Clone, loop
<1>2. Contents' = [Contents EXCEPT ![s] = Contents[t]]
  BY <1>1, ContentsOfSet DEF Contents
<1>3. QED
  BY <1>1, <1>2
     DEF AbstractSets!Clone, AbstractSets!Answer, AbstractSets!Idle, Idle, Contents

LEMMA ComparedRefines ==
  ASSUME HashInv, NEW s \in SetName, NEW t \in SetName, Compared(s, t)
  PROVE  AbstractSets!Compared(s, t)
<1> DEFINE left == Stored(buckets[s])
           right == Stored(buckets[t])
           equal == \A x \in left \cup right :
                      /\ Equal(x, x)
                      /\ Cardinality(Copies(buckets[s], x)) = Cardinality(Copies(buckets[t], x))
<1>1. /\ call = Idle /\ UNCHANGED <<call, buckets>>
      /\ answer' = <<"compared", s, t, equal>>
  BY DEF Compared, loop
<1>2. Good(size[s], buckets[s]) /\ Good(size[t], buckets[t])
  BY DEF HashInv
<1>3. ASSUME equal, NEW x \in left \cup right
      PROVE  x \in left \cap right
  BY <1>2, <1>3, CopiesOfStored
<1>4. ASSUME left = right, right \subseteq Exact, NEW x \in left \cup right
      PROVE  /\ Equal(x, x)
             /\ Cardinality(Copies(buckets[s], x)) = Cardinality(Copies(buckets[t], x))
  BY <1>2, <1>4, CopiesOfStored DEF Exact
<1>5. /\ equal => left = right
      /\ left = right /\ right \subseteq Exact => equal
  <2>1. equal => left = right
    BY <1>3
  <2>2. QED
    BY <1>4, <2>1
<1>6. equal \in BOOLEAN
  OBVIOUS
<1> HIDE DEF equal
<1>7. QED
  BY <1>1, <1>5, <1>6
     DEF AbstractSets!Compared, AbstractSets!Answer, AbstractSets!Idle, Idle

LEMMA AppendToTriple ==
  ASSUME NEW a, NEW b, NEW c, NEW d
  PROVE  <<a, b, c>> \o <<d>> = <<a, b, c, d>>
<1> DEFINE S == {a, b, c, d}
           u == <<a, b, c>> \o <<d>>
           v == <<a, b, c, d>>
<1>1. <<a, b, c>> \in Seq(S) /\ <<d>> \in Seq(S) /\ v \in Seq(S)
  OBVIOUS
<1>2. /\ u \in Seq(S)
      /\ Len(u) = Len(<<a, b, c>>) + Len(<<d>>)
      /\ \A i \in 1..Len(<<a, b, c>>) + Len(<<d>>) :
           u[i] = IF i <= Len(<<a, b, c>>) THEN <<a, b, c>>[i]
                                           ELSE <<d>>[i - Len(<<a, b, c>>)]
  BY <1>1, ConcatProperties
<1>3. Len(<<a, b, c>>) = 3 /\ Len(<<d>>) = 1 /\ Len(v) = 4
  OBVIOUS
<1>4. \A i \in 1..4 : u[i] = v[i]
  <2>1. \A i \in 1..4 : u[i] = IF i <= 3 THEN <<a, b, c>>[i] ELSE <<d>>[i - 3]
    BY <1>2, <1>3
  <2> HIDE DEF u
  <2>2. u[1] = a /\ u[2] = b /\ u[3] = c /\ u[4] = d
    BY <2>1
  <2>3. \A i \in 1..4 : i = 1 \/ i = 2 \/ i = 3 \/ i = 4
    OBVIOUS
  <2>4. QED
    BY <2>2, <2>3
<1> HIDE DEF u, v
<1>5. u = v
  BY <1>1, <1>2, <1>3, <1>4, SeqEqual
<1>6. QED
  BY <1>5 DEF u, v

(* A loop returns: its operation, its sets and the result.                    *)
LEMMA ReturnRefines ==
  ASSUME HashInv, call # Idle, NEW result, Return(result)
  PROVE  AbstractSets!Return(call[1], call[2], call[3], result)
<1>1. call = <<call[1], call[2], call[3]>>
  BY CallType DEF HashInv
<1>2. call \o <<result>> = <<call[1], call[2], call[3], result>>
  BY <1>1, AppendToTriple
<1>3. QED
  BY <1>1, <1>2 DEF Return, AbstractSets!Return, AbstractSets!Idle, Idle

LEMMA NothingPending ==
  ASSUME rest = <<>>, todo = {}
  PROVE  Pending = {}
BY DEF Pending, Range

LEMMA FinishRefines ==
  ASSUME HashInv, LoopInv, Finish
  PROVE  AbstractSets!Next
<1> DEFINE s == call[2]
           t == call[3]
<1>1. /\ call # Idle /\ Return(TRUE)
      /\ Pending = {}
  BY NothingPending DEF Finish
<1>2. /\ s \in SetName /\ t \in SetName
      /\ call[1] \in {"union", "intersect", "superset"}
  BY <1>1, CallType DEF HashInv
<1>3. AbstractSets!Return(call[1], s, t, TRUE)
  BY <1>1, ReturnRefines
<1>4. CASE call[1] = "union"
  <2>1. Contents' = [Contents EXCEPT ![s] = Stored(work)]
    BY <1>2, <1>4, ContentsOfSet DEF Finish
  <2>2. Stored(work) = Contents[s] \cup Contents[t]
    BY <1>1, <1>2, <1>4 DEF LoopInv, Contents
  <2>3. AbstractSets!Union(s, t)
    BY <1>3, <1>4, <2>1, <2>2 DEF AbstractSets!Union, Contents
  <2>4. QED
    BY <1>2, <2>3 DEF AbstractSets!Next
<1>5. CASE call[1] = "intersect"
  <2> DEFINE missed == (Contents[s] \cap Contents[t]) \ Stored(work)
  <2>1. Contents' = [Contents EXCEPT ![s] = Stored(work)]
    BY <1>2, <1>5, ContentsOfSet DEF Finish
  <2>2. /\ Stored(work) \subseteq Contents[s] \cap Contents[t]
        /\ Contents[s] \cap Contents[t] \cap Exact \subseteq Stored(work)
    BY <1>1, <1>2, <1>5 DEF LoopInv, Contents
  <2>3. Contents[s] \subseteq Element
    BY <1>1, <1>2, SourceType, StoredType DEF Contents
  <2>4. /\ missed \in SUBSET (Element \ Exact)
        /\ Stored(work) = (Contents[s] \cap Contents[t]) \ missed
    BY <2>2, <2>3
  <2> HIDE DEF missed
  <2>5. AbstractSets!Intersect(s, t)
    BY <1>3, <1>5, <2>1, <2>4 DEF AbstractSets!Intersect, Contents
  <2>6. QED
    BY <1>2, <2>5 DEF AbstractSets!Next
<1>6. CASE call[1] = "superset"
  <2>1. buckets' = buckets
    BY <1>6 DEF Finish
  <2>2. Stored(buckets[t]) \subseteq Stored(buckets[s])
    BY <1>1, <1>6 DEF LoopInv
  <2>3. Contents[t] \subseteq Contents[s] /\ Contents' = Contents
    BY <1>2, <2>1, <2>2 DEF Contents
  <2>4. AbstractSets!IsSuperSet(s, t)
    BY <1>3, <1>6, <2>3 DEF AbstractSets!IsSuperSet, Contents
  <2>5. QED
    BY <1>2, <2>4 DEF AbstractSets!Next
<1>7. QED
  BY <1>2, <1>4, <1>5, <1>6

(* An element of the inclusion is missing: the answer is no.                  *)
LEMMA MissingRefines ==
  ASSUME HashInv, LoopInv, SuperSetElement, call' = Idle
  PROVE  AbstractSets!Next
<1> DEFINE s == call[2]
           t == call[3]
           x == Head(rest)
<1>1. /\ call[1] = "superset" /\ call # Idle /\ rest # <<>> /\ buckets' = buckets
  BY DEF SuperSetElement, Idle
<1>2. PICK h \in Hashes[x] : ~Found(buckets[s], h, x) /\ Return(FALSE)
  BY <1>1 DEF SuperSetElement
<1>3. s \in SetName /\ t \in SetName
  BY <1>1, CallType DEF HashInv
<1>4. x \notin Stored(buckets[s]) \cap Exact
  BY <1>1, <1>2, ExactIsFound, SourceType
<1>5. x \in Stored(buckets[t])
  <2>1. rest \in Seq(Element)
    BY DEF HashInv, TypeOK
  <2>2. 1 \in DOMAIN rest /\ x = rest[1]
    BY <1>1, <2>1, EmptySeq
  <2>3. x \in Pending
    BY <2>2 DEF Pending, Range
  <2>4. QED
    BY <1>1, <2>3 DEF LoopInv, Source
<1>6. ~(Contents[t] \subseteq Contents[s] \cap Exact)
  BY <1>3, <1>4, <1>5 DEF Contents
<1>7. AbstractSets!Return("superset", s, t, FALSE)
  BY <1>1, <1>2, ReturnRefines
<1>8. Contents' = Contents
  BY <1>1 DEF Contents
<1>9. AbstractSets!IsSuperSet(s, t)
  BY <1>6, <1>7, <1>8 DEF AbstractSets!IsSuperSet, Contents
<1>10. QED
  BY <1>3, <1>9 DEF AbstractSets!Next

LEMMA StartRefines ==
  ASSUME NEW op \in {"union", "intersect", "superset"},
         NEW s \in SetName, NEW t \in SetName, NEW visited, NEW initial, NEW n,
         Start(op, s, t, visited, initial, n)
  PROVE  AbstractSets!Next
<1>1. AbstractSets!Begin(op, s, t)
  BY DEF Start, AbstractSets!Begin, AbstractSets!Idle, Idle
<1>2. QED
  BY <1>1 DEF AbstractSets!Next

LEMMA StepRefines ==
  ASSUME HashInv, LoopInv, Next
  PROVE  AbstractSets!Next \/ UNCHANGED AbstractSets!vars
<1>1. ASSUME NEW s \in SetName, NEW x \in Element, Insert(s, x) \/ Remove(s, x) \/ Contains(s, x)
      PROVE  AbstractSets!Next
  BY <1>1, InsertRefines, RemoveRefines, ContainsRefines DEF AbstractSets!Next
<1>2. ASSUME NEW s \in SetName, NEW t \in SetName, Clone(s, t) \/ Compared(s, t)
      PROVE  AbstractSets!Next
  BY <1>2, CloneRefines, ComparedRefines DEF AbstractSets!Next
<1>3. ASSUME NEW s \in SetName, NEW t \in SetName, Union(s, t) \/ Intersect(s, t) \/ IsSuperSet(s, t)
      PROVE  AbstractSets!Next
  BY <1>3, StartRefines DEF Union, Intersect, IsSuperSet
<1>4. CASE NextBucket \/ UnionElement \/ IntersectElement
  BY <1>4 DEF NextBucket, UnionElement, IntersectElement, AbstractSets!vars
<1>5. CASE SuperSetElement
  <2>1. CASE call' = Idle
    BY <1>5, <2>1, MissingRefines
  <2>2. CASE call' # Idle
    BY <1>5, <2>2 DEF SuperSetElement, Return, AbstractSets!vars
  <2>3. QED
    BY <2>1, <2>2
<1>6. CASE Finish
  BY <1>6, FinishRefines
<1>7. QED
  BY <1>1, <1>2, <1>3, <1>4, <1>5, <1>6 DEF Next

(* Hash sets implement module Sets: whatever the order in which their buckets *)
(* are visited, every operation answers and changes a set as that module      *)
(* promises, exactly on exact elements and erring one way on the others.      *)
THEOREM HashSetsAreSets == Spec => Implements
<1>1. Init => AbstractSets!Init
  <2>1. Init => \A s \in SetName : Stored(buckets[s]) = {}
    BY NewStored DEF Init
  <2>2. QED
    BY <2>1 DEF Init, AbstractSets!Init, AbstractSets!Idle, Idle
<1>2. HashInv /\ LoopInv /\ [Next]_vars => [AbstractSets!Next]_(AbstractSets!vars)
  <2>1. UNCHANGED vars => UNCHANGED AbstractSets!vars
    BY DEF vars, loop, AbstractSets!vars
  <2>2. QED
    BY <2>1, StepRefines
<1>3. QED
  BY <1>1, <1>2, HashInvariant, LoopInvariant, PTL
     DEF Spec, Implements, AbstractSets!Spec
=============================================================================
