------------------------------ MODULE HashSet ------------------------------
(* Hash sets (internal/set/hashset.go): a map from hashes to buckets, each a  *)
(* slice of elements, and a count.  An element is looked for in the bucket of *)
(* one hash, with Equal.  Datalog elements stretch both: a term that holds a  *)
(* set hashes in several ways, and a rule without scopes does not equal       *)
(* itself (module Ordering).  Unions, intersections and inclusions visit the  *)
(* buckets in any order, as Go visits a map.                                  *)
EXTENDS Integers, Sequences, FiniteSets, Functions

CONSTANTS
  Element,  \* the elements
  Hash,     \* the hashes
  Hashes,   \* the hashes an element may have
  Compare,  \* how two elements compare: -1, 0, 1
  SetName,  \* the sets a caller holds
  MaxSize   \* bound on what is inserted, and merged, into a set

(* A hash is a 64-bit number.                                                 *)
ASSUME HashAssumption ==
  /\ IsFiniteSet(Hash)
  /\ Hashes \in [Element -> (SUBSET Hash) \ {{}}]
ASSUME CompareAssumption ==
  /\ Compare \in [Element \X Element -> {-1, 0, 1}]
  /\ \A x, y \in Element : Compare[<<x, y>>] = 0 => x = y
ASSUME MaxSizeAssumption == MaxSize \in Nat

VARIABLES
  buckets,   \* each set's buckets
  size,      \* each set's size field
  call,      \* the loop that runs: its operation and sets, or Idle
  todo,      \* the buckets it has yet to visit
  rest,      \* what it has yet to visit of the current bucket
  work,      \* the buckets of the set it builds
  workSize,  \* the size of that set
  answer     \* the last operation and what it returned, or a loop that runs

loop == <<call, todo, rest, work, workSize>>
vars == <<buckets, size, loop, answer>>

Equal(x, y) == Compare[<<x, y>>] = 0

(* The elements whose every lookup succeeds.                                  *)
Exact == {x \in Element : Equal(x, x) /\ \A g, h \in Hashes[x] : g = h}

NewHashSet == [h \in Hash |-> <<>>]
Idle == <<"idle">>

Stored(b) == UNION {Range(b[h]) : h \in Hash}

(* The places of a set that are in use.                                       *)
Places(b) == UNION {{<<h, i>> : i \in DOMAIN b[h]} : h \in Hash}

Found(b, h, x) == \E i \in DOMAIN b[h] : Equal(b[h][i], x)

(* Seeded fault: the bucket is not searched.                                  *)
AppendInserted(b, h, x) == [b EXCEPT ![h] = Append(@, x)]

Inserted(b, h, x) == IF Found(b, h, x) THEN b ELSE [b EXCEPT ![h] = Append(@, x)]
SizeInserted(n, b, h, x) == IF Found(b, h, x) THEN n ELSE n + 1

(* The last element takes the place of the one removed.                       *)
Shrunk(bucket, x) ==
  LET i == CHOOSE i \in DOMAIN bucket :
             Equal(bucket[i], x) /\ \A j \in 1..(i - 1) : ~Equal(bucket[j], x)
  IN SubSeq([bucket EXCEPT ![i] = bucket[Len(bucket)]], 1, Len(bucket) - 1)

----------------------------------------------------------------------------
Init ==
  /\ buckets = [s \in SetName |-> NewHashSet]
  /\ size = [s \in SetName |-> 0]
  /\ call = Idle
  /\ todo = {}
  /\ rest = <<>>
  /\ work = NewHashSet
  /\ workSize = 0
  /\ answer = <<"none">>

Insert(s, x) ==
  /\ call = Idle
  /\ size[s] < MaxSize
  /\ \E h \in Hashes[x] :
       /\ buckets' = [buckets EXCEPT ![s] = Inserted(@, h, x)]
       /\ size' = [size EXCEPT ![s] = SizeInserted(@, buckets[s], h, x)]
       /\ answer' = <<"insert", s, x, ~Found(buckets[s], h, x)>>
  /\ UNCHANGED loop

(* Seeded fault: a removal does not count.                                    *)
RemoveUncounted(s, x) ==
  /\ call = Idle
  /\ \E h \in Hashes[x] :
       LET found == Found(buckets[s], h, x)
       IN /\ buckets' = [buckets EXCEPT ![s][h] = IF found THEN Shrunk(@, x) ELSE @]
          /\ answer' = <<"remove", s, x, found>>
  /\ UNCHANGED <<size, loop>>

Remove(s, x) ==
  /\ call = Idle
  /\ \E h \in Hashes[x] :
       LET found == Found(buckets[s], h, x)
       IN /\ buckets' = [buckets EXCEPT ![s][h] = IF found THEN Shrunk(@, x) ELSE @]
          /\ size' = [size EXCEPT ![s] = IF found THEN @ - 1 ELSE @]
          /\ answer' = <<"remove", s, x, found>>
  /\ UNCHANGED loop

Contains(s, x) ==
  /\ call = Idle
  /\ \E h \in Hashes[x] : answer' = <<"contains", s, x, Found(buckets[s], h, x)>>
  /\ UNCHANGED <<buckets, size, loop>>

Clone(s, t) ==
  /\ call = Idle
  /\ buckets' = [buckets EXCEPT ![s] = buckets[t]]
  /\ size' = [size EXCEPT ![s] = size[t]]
  /\ answer' = <<"clone", s, t, TRUE>>
  /\ UNCHANGED loop

(* Compared sorts both sets and compares them element by element: equal when  *)
(* each element is in both as often, and equals itself.                       *)
Copies(b, x) == {p \in Places(b) : b[p[1]][p[2]] = x}

Compared(s, t) ==
  /\ call = Idle
  /\ LET equal == \A x \in Stored(buckets[s]) \cup Stored(buckets[t]) :
                    /\ Equal(x, x)
                    /\ Cardinality(Copies(buckets[s], x)) = Cardinality(Copies(buckets[t], x))
     IN answer' = <<"compared", s, t, equal>>
  /\ UNCHANGED <<buckets, size, loop>>

----------------------------------------------------------------------------
(* The loops.                                                                 *)

Start(op, s, t, visited, initial, initialSize) ==
  /\ call = Idle
  /\ call' = <<op, s, t>>
  /\ todo' = {h \in Hash : visited[h] # <<>>}
  /\ rest' = <<>>
  /\ work' = initial
  /\ workSize' = initialSize
  /\ answer' = <<"running">>
  /\ UNCHANGED <<buckets, size>>

(* A union clones the left set and visits the right; an intersection visits   *)
(* the left; an inclusion visits the set that should be included.             *)
Union(s, t) ==
  /\ size[s] + size[t] <= MaxSize
  /\ Start("union", s, t, buckets[t], buckets[s], size[s])
Intersect(s, t) == Start("intersect", s, t, buckets[s], NewHashSet, 0)
IsSuperSet(s, t) == Start("superset", s, t, buckets[t], NewHashSet, 0)

(* Iter: the buckets in any order, each from its first element.               *)
NextBucket ==
  /\ call # Idle
  /\ rest = <<>>
  /\ \E h \in todo :
       /\ rest' = IF call[1] = "intersect" THEN buckets[call[2]][h] ELSE buckets[call[3]][h]
       /\ todo' = todo \ {h}
  /\ UNCHANGED <<buckets, size, call, work, workSize, answer>>

Return(result) ==
  /\ call' = Idle
  /\ todo' = {}
  /\ rest' = <<>>
  /\ work' = NewHashSet
  /\ workSize' = 0
  /\ answer' = call \o <<result>>

UnionElement ==
  /\ call[1] = "union"
  /\ rest # <<>>
  /\ \E h \in Hashes[Head(rest)] :
       /\ work' = Inserted(work, h, Head(rest))
       /\ workSize' = SizeInserted(workSize, work, h, Head(rest))
  /\ rest' = Tail(rest)
  /\ UNCHANGED <<buckets, size, call, todo, answer>>

(* Seeded fault: what is not found in the other set is kept.                  *)
KeepMissing ==
  /\ call[1] = "intersect"
  /\ rest # <<>>
  /\ \E h \in Hashes[Head(rest)] :
       /\ work' = Inserted(work, h, Head(rest))
       /\ workSize' = SizeInserted(workSize, work, h, Head(rest))
  /\ rest' = Tail(rest)
  /\ UNCHANGED <<buckets, size, call, todo, answer>>

(* The element is hashed twice: for the lookup and for the insertion.         *)
IntersectElement ==
  /\ call[1] = "intersect"
  /\ rest # <<>>
  /\ \E g, h \in Hashes[Head(rest)] :
       LET kept == Found(buckets[call[3]], g, Head(rest))
       IN /\ work' = IF kept THEN Inserted(work, h, Head(rest)) ELSE work
          /\ workSize' = IF kept THEN SizeInserted(workSize, work, h, Head(rest)) ELSE workSize
  /\ rest' = Tail(rest)
  /\ UNCHANGED <<buckets, size, call, todo, answer>>

(* The first element that is not found ends an inclusion.                     *)
SuperSetElement ==
  /\ call[1] = "superset"
  /\ rest # <<>>
  /\ \E h \in Hashes[Head(rest)] :
       IF Found(buckets[call[2]], h, Head(rest))
       THEN rest' = Tail(rest) /\ UNCHANGED <<call, todo, work, workSize, answer>>
       ELSE Return(FALSE)
  /\ UNCHANGED <<buckets, size>>

(* The set that was built takes the left one's place, as the callers assign   *)
(* it (origin.go, FactSet.InsertMulti).                                       *)
Finish ==
  /\ call # Idle
  /\ rest = <<>>
  /\ todo = {}
  /\ buckets' = IF call[1] = "superset" THEN buckets ELSE [buckets EXCEPT ![call[2]] = work]
  /\ size' = IF call[1] = "superset" THEN size ELSE [size EXCEPT ![call[2]] = workSize]
  /\ Return(TRUE)

Next ==
  \/ \E s \in SetName, x \in Element : Insert(s, x) \/ Remove(s, x) \/ Contains(s, x)
  \/ \E s, t \in SetName :
       \/ Clone(s, t)
       \/ Compared(s, t)
       \/ Union(s, t)
       \/ Intersect(s, t)
       \/ IsSuperSet(s, t)
  \/ NextBucket
  \/ UnionElement
  \/ IntersectElement
  \/ SuperSetElement
  \/ Finish

Spec == Init /\ [][Next]_vars

----------------------------------------------------------------------------
(* The values the variables range over: only elements are stored, each under  *)
(* one of its hashes.                                                         *)
Buckets ==
  {b \in [Hash -> Seq(Element)] : \A h \in Hash : \A i \in DOMAIN b[h] : h \in Hashes[b[h][i]]}

Calls == {Idle} \cup ({"union", "intersect", "superset"} \X SetName \X SetName)

TypeOK ==
  /\ buckets \in [SetName -> Buckets]
  /\ size \in [SetName -> Nat]
  /\ call \in Calls
  /\ todo \subseteq Hash
  /\ rest \in Seq(Element)
  /\ work \in Buckets
  /\ workSize \in Nat

(* FactSet.Count and len(terms) take the size field for the number of         *)
(* elements that iterating yields.                                            *)
SizeExact ==
  /\ \A s \in SetName : size[s] = Cardinality(Places(buckets[s]))
  /\ workSize = Cardinality(Places(work))

(* An element that equals itself is stored at most once under each of its     *)
(* hashes, however often it is inserted: the facts of a world that hold a set *)
(* of n terms number at most n! times what they should, and rounds of a run   *)
(* cannot add copies of any other.                                            *)
CopiesBounded ==
  \A s \in SetName : \A x \in Element :
    Equal(x, x) => Cardinality(Copies(buckets[s], x)) <= Cardinality(Hashes[x])

(* Up to those copies, hash sets are sets.                                    *)
AbstractSets == INSTANCE Sets WITH contents <- [s \in SetName |-> Stored(buckets[s])]
Implements == AbstractSets!Spec
=============================================================================
