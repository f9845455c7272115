------------------------------ MODULE Combine ------------------------------
(***************************************************************************)
(* The search of datalog/evaluator.go for the ways to match the predicates  *)
(* of a rule body against facts: the odometer of `combinations` and the     *)
(* consumer combineIt.matches, which tests each index vector and reports    *)
(* where it fails so that the odometer can skip vectors.                    *)
(*                                                                          *)
(* A predicate is the sequence of its name and terms, a term a variable or  *)
(* a value; a fact has values only.  Indexes count facts from 0, as in Go.  *)
(***************************************************************************)
EXTENDS Integers, Sequences, FiniteSets

CONSTANTS
  Variable,    \* datalog.Variable
  Value,       \* names and ground terms
  Bodies,      \* the bodies to search for, sequences of predicates
  FactLists    \* the results of getFactWithOrigins; a fact may be repeated,
               \* once per origin

Term == Variable \cup Value

ASSUME CombineAssumption ==
  /\ Variable \cap Value = {} /\ Value # {}
  /\ Bodies \subseteq Seq(Seq(Term))
  /\ FactLists \subseteq Seq(Seq(Value))

VARIABLES
  predicates,   \* ci.predicates
  allFacts,     \* ci.allFacts
  indexes,      \* the odometer, one fact index per predicate
  done, failed, \* its flags
  pc,           \* "yielded" (the consumer has indexes), "advance", "end",
                \* "stopped" (the consumer left the loop early)
  results       \* the matches yielded to the evaluator, in order

vars == <<predicates, allFacts, indexes, done, failed, pc, results>>

Positions == DOMAIN predicates
FactIndexes == 0..(Len(allFacts) - 1)

FactAt(ix, p) == allFacts[ix[p] + 1]

(* Predicate.Match: same length and equal terms where neither is a variable.*)
Match(fact, predicate) ==
  /\ Len(fact) = Len(predicate)
  /\ \A i \in DOMAIN predicate :
       predicate[i] \in Variable \/ predicate[i] = fact[i]

(* matchedVariables.insert refuses predicate p under ix: one of its         *)
(* variables is already bound to another term, here or further left.        *)
Conflict(ix, p) ==
  \E i \in DOMAIN predicates[p] : \E q \in 1..p : \E j \in DOMAIN predicates[q] :
    /\ predicates[p][i] \in Variable
    /\ predicates[q][j] = predicates[p][i]
    /\ FactAt(ix, q)[j] # FactAt(ix, p)[i]

(* The position reported to failedAtIndex, 0 when the vector is a match:    *)
(* the first predicate its fact does not match, else the first in conflict. *)
First(S) == CHOOSE p \in S : \A q \in S : p <= q

FailurePosition(ix) ==
  LET unmatched == {p \in Positions : ~Match(FactAt(ix, p), predicates[p])}
      conflicting == {p \in Positions : Conflict(ix, p)}
  IN  IF unmatched # {} THEN First(unmatched)
      ELSE IF conflicting # {} THEN First(conflicting) ELSE 0

(* The carry shared by both increments: the rightmost position up to p that *)
(* can still advance, {} when the odometer is exhausted.                    *)
Advanceable(p) ==
  {q \in 1..p : indexes[q] < Len(allFacts) - 1
                /\ \A x \in (q+1)..p : indexes[x] >= Len(allFacts) - 1}

(* Seeded fault: positions after q keep their index.                        *)
IncrementKeepsLater(p) ==
  \/ \E q \in Advanceable(p) :
       /\ indexes' = [indexes EXCEPT ![q] = @ + 1]
       /\ UNCHANGED done
  \/ /\ Advanceable(p) = {}
     /\ indexes' = [x \in Positions |-> IF x <= p THEN 0 ELSE indexes[x]]
     /\ done' = TRUE

(* newIncrementAt (and newIncrement, for the last position): advance at q   *)
(* and reset every position after it.                                       *)
IncrementAt(p) ==
  \/ \E q \in Advanceable(p) :
       /\ indexes' = [x \in Positions |-> IF x < q THEN indexes[x]
                                          ELSE IF x = q THEN indexes[q] + 1
                                          ELSE 0]
       /\ UNCHANGED done
  \/ /\ Advanceable(p) = {}
     /\ indexes' = [x \in Positions |-> IF x <= p THEN 0 ELSE indexes[x]]
     /\ done' = TRUE

(* combinations.iter: no predicate yields one empty vector; predicates but  *)
(* no fact yield nothing.                                                   *)
Init ==
  /\ predicates \in Bodies
  /\ allFacts \in FactLists
  /\ indexes = [p \in Positions |-> 0]
  /\ done = FALSE /\ failed = FALSE
  /\ pc = IF predicates # <<>> /\ allFacts = <<>> THEN "end" ELSE "yielded"
  /\ results = <<>>

(* The vector is a match: it is passed on, and the evaluator either asks    *)
(* for more or stops.                                                       *)
Accept ==
  /\ pc = "yielded"
  /\ FailurePosition(indexes) = 0
  /\ results' = Append(results, indexes)
  /\ pc' \in {"advance", "stopped"}
  /\ UNCHANGED <<predicates, allFacts, indexes, done, failed>>

(* The vector fails at p: failedAtIndex(p) advances the odometer itself.    *)
Reject ==
  /\ pc = "yielded"
  /\ FailurePosition(indexes) # 0
  /\ IncrementAt(FailurePosition(indexes))
  /\ failed' = TRUE
  /\ pc' = "advance"
  /\ UNCHANGED <<predicates, allFacts, results>>

(* Seeded faults: the failed flag is never cleared; it is tested first.     *)
FailedNotCleared ==
  /\ pc = "advance"
  /\ UNCHANGED <<predicates, allFacts, results, failed>>
  /\ \/ /\ done
        /\ pc' = "end"
        /\ UNCHANGED <<indexes, done>>
     \/ /\ ~done /\ failed
        /\ pc' = "yielded"
        /\ UNCHANGED <<indexes, done>>
     \/ /\ ~done /\ ~failed
        /\ IncrementAt(Len(predicates))
        /\ pc' = IF done' THEN "end" ELSE "yielded"

FailedTestedFirst ==
  /\ pc = "advance"
  /\ UNCHANGED <<predicates, allFacts, results>>
  /\ \/ /\ failed
        /\ failed' = FALSE
        /\ pc' = "yielded"
        /\ UNCHANGED <<indexes, done>>
     \/ /\ ~failed
        /\ IncrementAt(Len(predicates))
        /\ pc' = IF done' THEN "end" ELSE "yielded"
        /\ UNCHANGED failed

(* The odometer's loop: done is tested before and after the increment,      *)
(* which is skipped when the consumer has incremented already.              *)
Advance ==
  /\ pc = "advance"
  /\ UNCHANGED <<predicates, allFacts, results>>
  /\ \/ /\ done
        /\ pc' = "end"
        /\ UNCHANGED <<indexes, done, failed>>
     \/ /\ ~done /\ failed
        /\ failed' = FALSE
        /\ pc' = "yielded"
        /\ UNCHANGED <<indexes, done>>
     \/ /\ ~done /\ ~failed
        /\ IncrementAt(Len(predicates))
        /\ pc' = IF done' THEN "end" ELSE "yielded"
        /\ UNCHANGED failed

Next == Accept \/ Reject \/ Advance

(* The search is sequential code: it runs to its end.                       *)
Spec == Init /\ [][Next]_vars /\ WF_vars(Next)

-----------------------------------------------------------------------------
(* The reference: an assignment of facts to predicates for which some value *)
(* of the variables makes every predicate its fact.                         *)
Unifies(subst, ix) ==
  \A p \in Positions :
    FactAt(ix, p) = [i \in DOMAIN predicates[p] |->
                       IF predicates[p][i] \in Variable
                       THEN subst[predicates[p][i]] ELSE predicates[p][i]]

Solutions ==
  {ix \in [Positions -> FactIndexes] :
     \E subst \in [Variable -> Value] : Unifies(subst, ix)}

(* The order of the odometer.                                               *)
Before(a, b) ==
  \E p \in Positions : a[p] < b[p] /\ \A q \in 1..(p-1) : a[q] = b[q]

Found == {results[i] : i \in DOMAIN results}

(* Type invariant.                                                          *)
TypeOK ==
  /\ predicates \in Bodies /\ allFacts \in FactLists
  /\ indexes \in [Positions -> Nat]
  /\ done \in BOOLEAN /\ failed \in BOOLEAN
  /\ pc \in {"yielded", "advance", "end", "stopped"}
  /\ Found \subseteq [Positions -> Nat]

(* Skipping loses nothing: wherever the search stands, the solutions that   *)
(* precede the odometer are exactly the matches yielded, so the pruning of  *)
(* failedAtIndex never skips a match and the end of the loop has them all.  *)
Pending ==
  CASE pc = "yielded" -> {s \in Solutions : ~Before(s, indexes)}
    [] pc = "advance" /\ done -> {}
    [] pc = "advance" /\ ~done /\ failed -> {s \in Solutions : ~Before(s, indexes)}
    [] pc = "advance" /\ ~done /\ ~failed -> {s \in Solutions : Before(indexes, s)}
    [] pc = "end" -> {}
    [] pc = "stopped" -> {s \in Solutions : Before(indexes, s)}

SearchExact == Found = Solutions \ Pending

(* No match is yielded twice, and matches come in odometer order.           *)
YieldedInOrder ==
  \A i, j \in DOMAIN results : i < j => Before(results[i], results[j])

(* Every search ends, whatever is reported to failedAtIndex.                *)
SearchEnds == <>(pc \in {"end", "stopped"})
=============================================================================
