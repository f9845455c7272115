---------------------------- MODULE WorldProofs ----------------------------
(* Proofs about World.Run for any blocks, facts, rules, limits and number   *)
(* of runs, up to its refinement of module Saturation.                      *)
EXTENDS World, DatalogProofs

USE DEF Goto, Send, world, callers, locals

LEMMA WorkerStepType ==
  ASSUME TypeOK, NEW r \in Runs, WorkerNext(r)
  PROVE  TypeOK'
<1>1. CASE Iterate(r)
  <2>1. {rib.trusted : rib \in rules} \in SUBSET Origin
    BY WorldAssumption DEF TypeOK, RuleInBlock
  <2>2. QED
    BY <1>1, <2>1 DEF Iterate, TypeOK, PC, Verdict
<1>2. CASE NextGroup(r)
  <2>1. \A t \in groups[r] : WithOrigin(facts, t) \in SUBSET Entry
    BY DEF WithOrigin, TypeOK
  <2>2. QED
    BY <1>2, <2>1 DEF NextGroup, TypeOK, PC
<1>3. CASE ApplyRule(r)
  <2>1. \A rib \in queue[r] : Apply(rib, filtered[r]) \in SUBSET Entry
    BY ApplyType, WorldAssumption DEF TypeOK
  <2>2. QED
    BY <1>3, <2>1 DEF ApplyRule, TypeOK, PC, Verdict
<1>4. CASE EndGroup(r) \/ EndMerge(r)
  BY <1>4 DEF EndGroup, EndMerge, TypeOK, PC
<1>5. CASE CountFacts(r)
  <2>1. Count(facts) \in Nat
    BY EntriesFinite DEF TypeOK
  <2>2. QED
    BY <1>5, <2>1 DEF CountFacts, TypeOK, PC
<1>6. CASE MergeOrigin(r)
  BY <1>6 DEF MergeOrigin, TypeOK
<1>7. CASE Decide(r)
  BY <1>7 DEF Decide, TypeOK, PC, Verdict
<1>8. QED
  BY <1>1, <1>2, <1>3, <1>4, <1>5, <1>6, <1>7 DEF WorkerNext

(* The caller's actions and the runtime's fault.                            *)
CallerStep ==
  \/ Load \/ StartRun \/ BeginRead \/ EndRead \/ MapFault
  \/ \E r \in Runs : Deadline(r) \/ Return(r)

LEMMA NextSplit ==
  ASSUME Next
  PROVE  CallerStep \/ \E r \in Runs : WorkerNext(r)
BY DEF Next, CallerStep

LEMMA CallerStepType ==
  ASSUME TypeOK, CallerStep
  PROVE  TypeOK'
<1>1. CASE Load
  BY <1>1, WorldAssumption DEF Load, AddFact, AddRule, ResetRules, TypeOK
<1>2. CASE StartRun
  BY <1>2, WorldAssumption DEF StartRun, TypeOK, Runs, PC
<1>3. CASE BeginRead \/ EndRead \/ MapFault
  BY <1>3 DEF BeginRead, EndRead, MapFault, TypeOK
<1>4. ASSUME NEW r \in Runs, Deadline(r) \/ Return(r)
      PROVE  TypeOK'
  BY <1>4 DEF Deadline, Return, ReturnTimeout, ReturnVerdict, TypeOK, PC
<1>5. QED
  BY <1>1, <1>2, <1>3, <1>4 DEF CallerStep

(* Every variable of caller, context and goroutines keeps its type, for all *)
(* blocks, facts, rules, limits and numbers of runs.                        *)
THEOREM TypeCorrect == Spec => []TypeOK
<1>1. Init => TypeOK
  <2>1. Init => run \in 0..MaxRuns
    BY WorldAssumption DEF Init
  <2>2. Init => fault \in BOOLEAN
    BY DEF Init
  <2>3. QED
    BY <2>1, <2>2 DEF Init, TypeOK, PC, Verdict
<1>2. TypeOK /\ [Next]_vars => TypeOK'
  <2>1. TypeOK /\ Next => TypeOK'
    BY NextSplit, CallerStepType, WorkerStepType
  <2>2. TypeOK /\ UNCHANGED vars => TypeOK'
    BY DEF vars, TypeOK
  <2>3. QED BY <2>1, <2>2
<1>3. QED
  BY <1>1, <1>2, PTL DEF Spec

-----------------------------------------------------------------------------
(* Equal counts of nested fact sets mean equal fact sets.                   *)
LEMMA EqualCounts ==
  ASSUME NEW F \in SUBSET Entry, NEW G \in SUBSET F, Count(G) = Count(F)
  PROVE  G = F
BY EntriesFinite, FS_Subset DEF Count

(* Only an active goroutine takes steps.                                    *)
LEMMA StepperIsActive ==
  ASSUME NEW r \in Runs, WorkerNext(r)
  PROVE  Active(r)
BY DEF WorkerNext, Iterate, NextGroup, ApplyRule, EndGroup, CountFacts,
       MergeOrigin, EndMerge, Decide, Active

(* A goroutine step leaves the caller alone and moves only its own pc.      *)
LEMMA StepFrame ==
  ASSUME TypeOK, NEW r \in Runs, WorkerNext(r)
  PROVE  /\ UNCHANGED <<rules, loaded, caller, run, result, ctx, fault>>
         /\ pc' \in [Runs -> PC]
         /\ \A q \in Runs \ {r} : pc'[q] = pc[q]
         /\ pc'[r] # "unborn"
<1>1. pc' \in [Runs -> PC]
  BY WorkerStepType DEF TypeOK
<1>2. UNCHANGED <<rules, loaded, caller, run, result, ctx, fault>>
  BY DEF WorkerNext, Iterate, NextGroup, ApplyRule, EndGroup, CountFacts,
         MergeOrigin, EndMerge, Decide
<1>3. /\ \A q \in Runs \ {r} : pc'[q] = pc[q]
      /\ pc'[r] # "unborn"
  BY DEF WorkerNext, Iterate, NextGroup, ApplyRule, EndGroup, CountFacts,
         MergeOrigin, EndMerge, Decide, TypeOK
<1>4. QED
  BY <1>1, <1>2, <1>3

LEMMA WorkerStepSequenced ==
  ASSUME TypeOK, Sequenced, NEW r \in Runs, WorkerNext(r)
  PROVE  Sequenced' /\ r = run
<1>1. Active(r) /\ r = run
  BY StepperIsActive DEF Sequenced
<1>2. result[r] \in {"none", "timeout"}
  BY <1>1 DEF Sequenced, Active
<1>3. run \in Int
  BY WorldAssumption DEF TypeOK
<1>4. ~(r > run)
  BY <1>1, <1>3
<1>5. QED
  BY <1>1, <1>2, <1>4, StepFrame DEF Sequenced, Active

(* Each step of the goroutine keeps what it has established of its round.   *)
LEMMA WorkerStepRound ==
  ASSUME TypeOK, NEW r \in Runs, Round(r), WorkerNext(r)
  PROVE  Round(r)'
<1> USE DEF TypeOK
<1>0. rules' = rules
  BY StepFrame
<1>1. CASE Iterate(r)
  <2>1. CASE pc'[r] = "group"
    <3>1. groups'[r] = {rib.trusted : rib \in rules}
      BY <1>1, <2>1 DEF Iterate
    <3>2. QED
      BY <1>0, <2>1, <3>1 DEF Round
  <2>2. CASE pc'[r] # "group"
    <3>1. pc'[r] = "gone" \/ (pc'[r] = "send" /\ verdict'[r] = "maxIterations")
      BY <1>1, <2>2 DEF Iterate
    <3>2. QED
      BY <3>1 DEF Round
  <2>3. QED
    BY <2>1, <2>2
<1>2. CASE NextGroup(r)
  <2>1. PICK t \in groups[r] :
          /\ groups'[r] = groups[r] \ {t}
          /\ queue'[r] = {rib \in rules : rib.trusted = t}
          /\ filtered'[r] = WithOrigin(facts, t)
    BY <1>2 DEF NextGroup
  <2>2. pc[r] = "group" /\ pc'[r] = "rule" /\ facts' = facts /\ fresh' = fresh
    BY <1>2 DEF NextGroup
  <2>3. \A rib \in rules : \/ rib.trusted \in groups[r]
                           \/ Contribution(rib, facts) \subseteq fresh[r]
    BY <2>2 DEF Round
  <2>4. \A rib \in queue'[r] : filtered'[r] = WithOrigin(facts, rib.trusted)
    BY <2>1
  <2>5. \A rib \in rules : \/ rib.trusted \in groups'[r]
                           \/ rib \in queue'[r]
                           \/ Contribution(rib, facts) \subseteq fresh[r]
    BY <2>1, <2>3
  <2>6. QED
    BY <1>0, <2>2, <2>4, <2>5 DEF Round
<1>3. CASE ApplyRule(r)
  <2>1. PICK rib \in queue[r] :
          \/ pc'[r] = "gone"
          \/ pc'[r] = "send" /\ verdict'[r] = "ruleError"
          \/ /\ pc'[r] = "rule"
             /\ queue'[r] = queue[r] \ {rib}
             /\ fresh'[r] = fresh[r] \cup Apply(rib, filtered[r])
             /\ filtered'[r] = filtered[r] /\ groups'[r] = groups[r]
    BY <1>3 DEF ApplyRule
  <2>2. pc[r] = "rule" /\ facts' = facts
    BY <1>3 DEF ApplyRule
  <2>3. CASE pc'[r] # "rule"
    BY <2>1, <2>3 DEF Round
  <2>4. CASE pc'[r] = "rule"
    <3>1. /\ queue'[r] = queue[r] \ {rib}
          /\ fresh'[r] = fresh[r] \cup Apply(rib, filtered[r])
          /\ filtered'[r] = filtered[r] /\ groups'[r] = groups[r]
      BY <2>1, <2>4
    <3>2. /\ \A x \in queue[r] : filtered[r] = WithOrigin(facts, x.trusted)
          /\ \A x \in rules : \/ x.trusted \in groups[r]
                              \/ x \in queue[r]
                              \/ Contribution(x, facts) \subseteq fresh[r]
      BY <2>2 DEF Round
    <3>3. Contribution(rib, facts) \subseteq fresh'[r]
      BY <3>1, <3>2 DEF Contribution
    <3>4. \A x \in rules : \/ x.trusted \in groups'[r]
                           \/ x \in queue'[r]
                           \/ Contribution(x, facts) \subseteq fresh'[r]
      BY <3>1, <3>2, <3>3
    <3>5. \A x \in queue'[r] : filtered'[r] = WithOrigin(facts, x.trusted)
      BY <3>1, <3>2
    <3>6. QED
      BY <1>0, <2>2, <2>4, <3>4, <3>5 DEF Round
  <2>5. QED
    BY <2>3, <2>4
<1>4. CASE EndGroup(r)
  <2>1. /\ pc[r] = "rule" /\ queue[r] = {} /\ pc'[r] = "group"
        /\ facts' = facts /\ fresh' = fresh /\ groups' = groups
    BY <1>4 DEF EndGroup
  <2>2. QED
    BY <1>0, <2>1 DEF Round
<1>5. CASE CountFacts(r)
  <2>1. /\ pc[r] = "group" /\ groups[r] = {} /\ pc'[r] = "merge"
        /\ prev'[r] = Count(facts) /\ facts' = facts /\ fresh' = fresh
    BY <1>5 DEF CountFacts
  <2>2. \A rib \in rules : Contribution(rib, facts) \subseteq fresh[r]
    BY <2>1 DEF Round
  <2>3. Consequences(rules, facts) \subseteq facts \cup fresh[r]
    BY <2>2 DEF Consequences
  <2>4. QED
    BY <1>0, <2>1, <2>3 DEF Round
<1>6. CASE MergeOrigin(r)
  <2>1. /\ pc[r] = "merge" /\ pc'[r] = "merge" /\ prev' = prev
        /\ facts \subseteq facts'
        /\ facts' \cup fresh'[r] = facts \cup fresh[r]
    BY <1>6 DEF MergeOrigin
  <2>2. PICK G \in SUBSET facts :
          /\ Count(G) = prev[r]
          /\ Consequences(rules, G) \subseteq facts \cup fresh[r]
    BY <2>1 DEF Round
  <2>3. G \in SUBSET facts'
    BY <2>1
  <2>4. QED
    BY <1>0, <2>1, <2>2, <2>3 DEF Round
<1>7. CASE EndMerge(r)
  <2>1. /\ pc[r] = "merge" /\ fresh[r] = {} /\ pc'[r] = "decide"
        /\ prev' = prev /\ facts' = facts
    BY <1>7 DEF EndMerge
  <2>2. QED
    BY <1>0, <2>1 DEF Round
<1>8. CASE Decide(r)
  <2>1. /\ pc[r] = "decide" /\ facts' = facts
        /\ \/ pc'[r] = "iterate"
           \/ pc'[r] = "send" /\ verdict'[r] = "maxFacts"
           \/ /\ pc'[r] = "send" /\ verdict'[r] = "ok"
              /\ Count(facts) < MaxFacts /\ Count(facts) = prev[r]
    BY <1>8 DEF Decide
  <2>2. CASE pc'[r] = "send" /\ verdict'[r] = "ok"
    <3>1. Count(facts) < MaxFacts /\ Count(facts) = prev[r]
      BY <2>1, <2>2
    <3>2. PICK G \in SUBSET facts :
            Count(G) = prev[r] /\ Consequences(rules, G) \subseteq facts
      BY <2>1 DEF Round
    <3>3. G = facts
      BY <3>1, <3>2, EqualCounts
    <3>4. QED
      BY <1>0, <2>1, <2>2, <3>1, <3>2, <3>3 DEF Round, Closed
  <2>3. CASE ~(pc'[r] = "send" /\ verdict'[r] = "ok")
    BY <2>1, <2>3 DEF Round
  <2>4. QED
    BY <2>2, <2>3
<1>9. QED
  BY <1>1, <1>2, <1>3, <1>4, <1>5, <1>6, <1>7, <1>8 DEF WorkerNext

LEMMA CallerStepFixpoint ==
  ASSUME TypeOK, FixpointInv, CallerStep, ~AllowOverlap
  PROVE  FixpointInv'
<1> USE DEF FixpointInv, TypeOK
<1>0. run \in Int /\ MaxRuns \in Int /\ Runs = 1..MaxRuns /\ (run > 0 => run \in Runs)
  BY WorldAssumption DEF Runs
<1>1. CASE Load
  <2>1. /\ run = 0 /\ caller = "idle"
        /\ UNCHANGED <<callers, pc>>
    BY <1>1 DEF Load, AddFact, AddRule, ResetRules, Loading
  <2>2. QED
    BY <2>1 DEF Sequenced, SuccessIsFixpoint, Latest, Active
<1>2. CASE StartRun
  <2>1. /\ run' = run + 1 /\ run' \in Runs /\ caller' = "waiting"
        /\ pc' = [pc EXCEPT ![run'] = "iterate"]
        /\ result' = result
        /\ \A r \in Runs : ~Active(r)
    BY <1>0, <1>2 DEF StartRun
  <2>2. result'[run'] = "none"
    BY <1>0, <2>1 DEF Sequenced
  <2>3. Sequenced'
    <3>1. \A r \in Runs : r > run' => pc'[r] = "unborn" /\ result'[r] = "none"
      BY <1>0, <2>1 DEF Sequenced
    <3>2. \A r \in Runs : Active(r)' => r = run'
      BY <2>1 DEF Active
    <3>3. \A r \in Runs : result'[r] \notin {"none", "timeout"} => pc'[r] = "gone"
      BY <2>1, <2>2 DEF Sequenced
    <3>4. QED
      BY <1>0, <2>1, <2>2, <3>1, <3>2, <3>3 DEF Sequenced
  <2>4. Round(run)'
    BY <2>1 DEF Round
  <2>5. SuccessIsFixpoint'
    BY <1>0, <2>1, <2>2 DEF SuccessIsFixpoint, Latest
  <2>6. QED
    BY <2>3, <2>4, <2>5
<1>3. CASE BeginRead \/ EndRead \/ MapFault
  <2>1. /\ UNCHANGED <<facts, rules, run, result, pc, locals>>
        /\ run > 0 \/ caller' = "idle" \/ caller' = caller
        /\ caller' = "waiting" => caller = "waiting"
    BY <1>3 DEF BeginRead, EndRead, MapFault
  <2>2. QED
    BY <2>1 DEF Sequenced, SuccessIsFixpoint, Latest, Active, Round
<1>4. ASSUME NEW r \in Runs, Deadline(r)
      PROVE  FixpointInv'
  <2>1. UNCHANGED <<facts, rules, caller, run, result, pc, locals>>
    BY <1>4 DEF Deadline
  <2>2. QED
    BY <2>1 DEF Sequenced, SuccessIsFixpoint, Latest, Active, Round
<1>5. ASSUME NEW r \in Runs, ReturnTimeout(r)
      PROVE  FixpointInv'
  <2>1. /\ UNCHANGED <<facts, rules, run, pc, locals>>
        /\ r = run /\ caller' = "idle"
        /\ result' = [result EXCEPT ![r] = "timeout"]
    BY <1>5 DEF ReturnTimeout
  <2>2. Sequenced'
    BY <1>0, <2>1 DEF Sequenced, Active
  <2>3. QED
    BY <2>1, <2>2 DEF SuccessIsFixpoint, Latest, Round
<1>6. ASSUME NEW r \in Runs, ReturnVerdict(r)
      PROVE  FixpointInv'
  <2>1. /\ UNCHANGED <<facts, rules, run, locals>>
        /\ r = run /\ caller' = "idle" /\ pc[r] = "send"
        /\ result' = [result EXCEPT ![r] = verdict[r]]
        /\ pc' = [pc EXCEPT ![r] = "gone"]
    BY <1>6 DEF ReturnVerdict
  <2>2. Sequenced'
    BY <1>0, <2>1 DEF Sequenced, Active
  <2>3. Round(run)'
    BY <2>1 DEF Round
  <2>4. SuccessIsFixpoint'
    BY <1>0, <2>1 DEF SuccessIsFixpoint, Latest, Round
  <2>5. QED
    BY <2>2, <2>3, <2>4
<1>7. QED
  BY <1>1, <1>2, <1>3, <1>4, <1>5, <1>6 DEF CallerStep, Return

LEMMA WorkerStepFixpoint ==
  ASSUME TypeOK, FixpointInv, NEW r \in Runs, WorkerNext(r)
  PROVE  FixpointInv'
<1>1. Sequenced' /\ r = run
  BY WorkerStepSequenced DEF FixpointInv
<1>2. Active(r) /\ run > 0
  BY <1>1, StepperIsActive DEF Runs
<1>3. Round(r)'
  BY <1>1, <1>2, WorkerStepRound DEF FixpointInv
<1>4. UNCHANGED <<run, result>>
  BY StepFrame
<1>5. Latest # "ok"
  BY <1>1, <1>2 DEF FixpointInv, Sequenced, Latest, Active
<1>6. SuccessIsFixpoint'
  BY <1>4, <1>5 DEF SuccessIsFixpoint, Latest
<1>7. Round(run)'
  BY <1>1, <1>3, <1>4
<1>8. QED
  BY <1>1, <1>6, <1>7 DEF FixpointInv

(* If the caller never overlaps runs, at most the latest goroutine touches  *)
(* the facts, and what it knows of its round stays true until it decides.   *)
THEOREM RunKeepsRound ==
  ASSUME ~AllowOverlap
  PROVE  Spec => []FixpointInv
<1>1. Init => FixpointInv
  BY WorldAssumption DEF Init, FixpointInv, Sequenced, SuccessIsFixpoint,
     Latest, Active, Runs
<1>2. TypeOK /\ FixpointInv /\ [Next]_vars => FixpointInv'
  <2>1. TypeOK /\ FixpointInv /\ Next => FixpointInv'
    BY NextSplit, CallerStepFixpoint, WorkerStepFixpoint
  <2>2. FixpointInv /\ UNCHANGED vars => FixpointInv'
    BY DEF vars, FixpointInv, Sequenced, Round, SuccessIsFixpoint, Latest, Active
  <2>3. QED BY <2>1, <2>2
<1>3. QED
  BY <1>1, <1>2, TypeCorrect, PTL DEF Spec

(* If the caller never overlaps runs, a Run that returns nil leaves a       *)
(* fixpoint of the rules below the fact limit, for every rule set.          *)
THEOREM RunReachesFixpoint ==
  ASSUME ~AllowOverlap
  PROVE  Spec => []SuccessIsFixpoint
<1>1. FixpointInv => SuccessIsFixpoint
  BY DEF FixpointInv
<1>2. QED
  BY <1>1, RunKeepsRound, PTL

-----------------------------------------------------------------------------
(* Where a goroutine can still be when its Run has returned.  Runs may      *)
(* overlap: a run without a result is the one the caller waits in, and a    *)
(* run that returned the goroutine's verdict has ended it.                  *)
Accounted ==
  /\ caller # "idle" => run > 0
  /\ caller = "waiting" => result[run] = "none"
  /\ \A r \in Runs : r > run => pc[r] = "unborn" /\ result[r] = "none"
  /\ \A r \in Runs : r <= run /\ result[r] = "none" => r = run /\ caller = "waiting"
  /\ \A r \in Runs : result[r] \notin {"none", "timeout"} => pc[r] = "gone"

AccountedInv == Accounted /\ FaultNeedsTimeout

(* An active goroutine whose Run has not timed out is the caller's.         *)
LEMMA ActiveAccounted ==
  ASSUME TypeOK, Accounted, NEW r \in Runs, Active(r), result[r] # "timeout"
  PROVE  r = run /\ caller = "waiting"
<1>1. result[r] = "none" /\ ~(r > run)
  BY DEF Accounted, Active
<1>2. r \in Int /\ run \in Int
  BY WorldAssumption DEF Runs, TypeOK
<1>3. QED
  BY <1>1, <1>2 DEF Accounted

LEMMA RaceNeedsTimeout ==
  ASSUME TypeOK, Accounted, Race
  PROVE  \E r \in Runs : result[r] = "timeout"
<1> SUFFICES ASSUME \A r \in Runs : result[r] # "timeout"
             PROVE  FALSE
  OBVIOUS
<1>1. PICK r \in Runs :
        /\ Writing(r)
        /\ caller = "reading" \/ \E q \in Runs \ {r} : Accessing(q)
  BY DEF Race
<1>2. r = run /\ caller = "waiting"
  BY <1>1, ActiveAccounted DEF Writing, Active
<1>3. PICK q \in Runs \ {r} : Accessing(q)
  BY <1>1, <1>2
<1>4. q = run
  BY <1>3, ActiveAccounted DEF Accessing, Writing, Active
<1>5. QED
  BY <1>2, <1>3, <1>4

LEMMA WorkerStepAccounted ==
  ASSUME TypeOK, AccountedInv, NEW r \in Runs, WorkerNext(r)
  PROVE  AccountedInv'
<1> USE DEF AccountedInv, Accounted, FaultNeedsTimeout
<1>1. pc[r] \notin {"unborn", "gone"}
  BY StepperIsActive DEF Active
<1>2. QED
  BY <1>1, StepFrame

LEMMA CallerStepAccounted ==
  ASSUME TypeOK, AccountedInv, CallerStep
  PROVE  AccountedInv'
<1> USE DEF AccountedInv, FaultNeedsTimeout, TypeOK
<1>0. run \in Int /\ MaxRuns \in Int /\ Runs = 1..MaxRuns
  BY WorldAssumption DEF Runs
<1>1. CASE Load
  <2>1. UNCHANGED <<callers, pc, fault>>
    BY <1>1 DEF Load, AddFact, AddRule, ResetRules
  <2>2. QED
    BY <2>1 DEF Accounted
<1>2. CASE StartRun
  <2>1. /\ run' = run + 1 /\ run' \in Runs
        /\ caller = "idle" /\ caller' = "waiting"
        /\ pc' = [pc EXCEPT ![run'] = "iterate"]
        /\ UNCHANGED <<result, fault>>
    BY <1>0, <1>2 DEF StartRun
  <2>2. result[run'] = "none"
    BY <1>0, <2>1 DEF Accounted
  <2>3. \A r \in Runs : r # run' /\ r <= run' => result[r] # "none"
    BY <1>0, <2>1 DEF Accounted
  <2>4. \A r \in Runs : r > run' => pc'[r] = "unborn" /\ result'[r] = "none"
    BY <1>0, <2>1 DEF Accounted
  <2>5. \A r \in Runs : result'[r] \notin {"none", "timeout"} => pc'[r] = "gone"
    BY <2>1, <2>2 DEF Accounted
  <2>6. QED
    BY <1>0, <2>1, <2>2, <2>3, <2>4, <2>5 DEF Accounted
<1>3. CASE BeginRead \/ EndRead
  <2>1. /\ UNCHANGED <<run, result, pc, fault>>
        /\ run > 0 \/ caller' = "idle"
        /\ caller # "waiting" /\ caller' # "waiting"
    BY <1>3 DEF BeginRead, EndRead
  <2>2. QED
    BY <2>1 DEF Accounted
<1>4. CASE MapFault
  <2>1. Race /\ UNCHANGED <<callers, pc>>
    BY <1>4 DEF MapFault
  <2>2. QED
    BY <2>1, RaceNeedsTimeout DEF Accounted
<1>5. ASSUME NEW r \in Runs, Deadline(r)
      PROVE  AccountedInv'
  <2>1. UNCHANGED <<callers, pc, fault>>
    BY <1>5 DEF Deadline
  <2>2. QED
    BY <2>1 DEF Accounted
<1>6. ASSUME NEW r \in Runs, Return(r)
      PROVE  AccountedInv'
  <2>1. /\ r = run /\ caller = "waiting" /\ caller' = "idle"
        /\ UNCHANGED <<run, fault>>
    BY <1>6 DEF Return, ReturnTimeout, ReturnVerdict
  <2>2. PICK v \in {"timeout"} \cup Verdict :
          /\ result' = [result EXCEPT ![r] = v]
          /\ \/ v = "timeout" /\ pc' = pc
             \/ pc' = [pc EXCEPT ![r] = "gone"]
    BY <1>6 DEF Return, ReturnTimeout, ReturnVerdict
  <2>3. v # "none"
    BY DEF Verdict
  <2>4. Accounted'
    BY <1>0, <2>1, <2>2, <2>3, SMTT(60) DEF Accounted
  <2>5. \A q \in Runs : result[q] = "timeout" => result'[q] = "timeout"
    BY <2>1, <2>2 DEF Accounted
  <2>6. QED
    BY <2>1, <2>4, <2>5
<1>7. QED
  BY <1>1, <1>2, <1>3, <1>4, <1>5, <1>6 DEF CallerStep

LEMMA GoroutinesAccounted == Spec => []AccountedInv
<1>1. Init => AccountedInv
  BY WorldAssumption DEF Init, AccountedInv, Accounted, FaultNeedsTimeout, Runs
<1>2. TypeOK /\ AccountedInv /\ [Next]_vars => AccountedInv'
  <2>1. TypeOK /\ AccountedInv /\ Next => AccountedInv'
    BY NextSplit, CallerStepAccounted, WorkerStepAccounted
  <2>2. AccountedInv /\ UNCHANGED vars => AccountedInv'
    BY DEF vars, AccountedInv, Accounted, FaultNeedsTimeout
  <2>3. QED BY <2>1, <2>2
<1>3. QED
  BY <1>1, <1>2, TypeCorrect, PTL DEF Spec

(* However runs overlap, the runtime aborts on a concurrent access to       *)
(* w.Facts only after some Run has timed out.                               *)
THEOREM NoFaultWithoutTimeout == Spec => []FaultNeedsTimeout
<1>1. AccountedInv => FaultNeedsTimeout
  BY DEF AccountedInv
<1>2. QED
  BY <1>1, GoroutinesAccounted, PTL

(* Facts are never removed, and they do not change under a caller outside   *)
(* Run unless a Run has timed out.                                          *)
THEOREM FactsOnlyGrow == Spec => FactsStable
<1> DEFINE A == /\ facts \subseteq facts'
                /\ (facts' # facts /\ run > 0 /\ caller # "waiting")
                     => \E r \in Runs : result[r] = "timeout"
<1>1. TypeOK /\ AccountedInv /\ [Next]_vars => [A]_vars
  <2> SUFFICES ASSUME TypeOK, AccountedInv, Next
               PROVE  A
    OBVIOUS
  <2>1. CASE CallerStep
    <3>1. /\ facts \subseteq facts'
          /\ facts' # facts => run = 0
      BY <2>1 DEF CallerStep, Load, AddFact, AddRule, ResetRules, Loading,
         StartRun, BeginRead, EndRead, MapFault, Deadline, Return,
         ReturnTimeout, ReturnVerdict
    <3>2. QED
      BY <3>1
  <2>2. ASSUME NEW r \in Runs, WorkerNext(r)
        PROVE  A
    <3>1. facts \subseteq facts'
      BY <2>2 DEF WorkerNext, Iterate, NextGroup, ApplyRule, EndGroup,
         CountFacts, MergeOrigin, EndMerge, Decide
    <3>2. result[r] = "timeout" \/ caller = "waiting"
      BY <2>2, StepperIsActive, ActiveAccounted DEF AccountedInv
    <3>3. QED
      BY <3>1, <3>2
  <2>3. QED
    BY <2>1, <2>2, NextSplit
<1>2. QED
  BY <1>1, TypeCorrect, GoroutinesAccounted, PTL DEF Spec, FactsStable

-----------------------------------------------------------------------------
(* The inductive invariant behind Noninterference: if S is a model of what  *)
(* the blocks in T say, everything of T that the world or a goroutine holds *)
(* is in S.  Goroutines may overlap.                                        *)
Held(S, T) ==
  /\ WithOrigin(facts, T) \subseteq S
  /\ \A r \in Runs : /\ WithOrigin(fresh[r], T) \subseteq S
                     /\ WithOrigin(filtered[r], T) \subseteq S

GroupsKept ==
  \A r \in Runs : \A rib \in queue[r] :
    rib \in rules /\ filtered[r] = WithOrigin(filtered[r], rib.trusted)

NotRun ==
  /\ facts = loaded
  /\ \A r \in Runs : fresh[r] = {} /\ filtered[r] = {} /\ queue[r] = {}
                     /\ pc[r] = "unborn"

TracedInv(S, T) ==
  /\ run = 0 => NotRun
  /\ GroupsKept
  /\ IsModelFor(S, T) => Held(S, T)

(* What a rule derives for T from entries held in S is in S.                *)
LEMMA ApplyHeld ==
  ASSUME NEW S, NEW T, IsModelFor(S, T), NEW rib \in rules, NEW F,
         F = WithOrigin(F, rib.trusted), WithOrigin(F, T) \subseteq S
  PROVE  WithOrigin(Apply(rib, F), T) \subseteq S
<1> SUFFICES ASSUME NEW e \in Apply(rib, F), e.origin \subseteq T
             PROVE  e \in S
  BY DEF WithOrigin
<1>1. rib.block \in T /\ e \in Apply(rib, WithOrigin(F, T))
  BY ApplyLocal
<1>2. WithOrigin(F, T) \subseteq WithOrigin(S, rib.trusted)
  BY DEF WithOrigin
<1>3. e \in Contribution(rib, S)
  BY <1>1, <1>2, ApplyMonotone DEF Contribution
<1>4. QED
  BY <1>1, <1>3 DEF IsModelFor, Closed, Consequences

LEMMA WorkerStepGroupsKept ==
  ASSUME TypeOK, GroupsKept, NEW r \in Runs, WorkerNext(r)
  PROVE  GroupsKept'
<1> USE DEF TypeOK
<1>1. CASE NextGroup(r)
  <2>1. PICK t \in groups[r] :
          /\ queue' = [queue EXCEPT ![r] = {rib \in rules : rib.trusted = t}]
          /\ filtered' = [filtered EXCEPT ![r] = WithOrigin(facts, t)]
    BY <1>1 DEF NextGroup
  <2>2. rules' = rules
    BY StepFrame
  <2>3. WithOrigin(facts, t) = WithOrigin(WithOrigin(facts, t), t)
    BY DEF WithOrigin
  <2>4. QED
    BY <2>1, <2>2, <2>3 DEF GroupsKept
<1>2. CASE ~NextGroup(r)
  <2>1. UNCHANGED <<rules, filtered>> /\ \A q \in Runs : queue'[q] \subseteq queue[q]
    BY <1>2 DEF WorkerNext, Iterate, ApplyRule, EndGroup, CountFacts,
                MergeOrigin, EndMerge, Decide
  <2>2. QED
    BY <2>1 DEF GroupsKept
<1>3. QED
  BY <1>1, <1>2

LEMMA WorkerStepHeld ==
  ASSUME TypeOK, NEW S, NEW T, GroupsKept, IsModelFor(S, T), Held(S, T),
         NEW r \in Runs, WorkerNext(r)
  PROVE  Held(S, T)'
<1> USE DEF TypeOK
<1>1. CASE NextGroup(r)
  <2>1. PICK t \in groups[r] :
          filtered' = [filtered EXCEPT ![r] = WithOrigin(facts, t)]
    BY <1>1 DEF NextGroup
  <2>2. UNCHANGED <<facts, fresh>>
    BY <1>1 DEF NextGroup
  <2>3. WithOrigin(WithOrigin(facts, t), T) \subseteq WithOrigin(facts, T)
    BY DEF WithOrigin
  <2>4. QED
    BY <2>1, <2>2, <2>3 DEF Held
<1>2. CASE ApplyRule(r)
  <2>1. PICK rib \in queue[r] :
          \/ fresh' = fresh
          \/ fresh' = [fresh EXCEPT ![r] = @ \cup Apply(rib, filtered[r])]
    BY <1>2 DEF ApplyRule
  <2>2. UNCHANGED <<facts, filtered>>
    BY <1>2 DEF ApplyRule
  <2>3. WithOrigin(Apply(rib, filtered[r]), T) \subseteq S
    BY ApplyHeld DEF GroupsKept, Held
  <2>4. WithOrigin(fresh[r] \cup Apply(rib, filtered[r]), T) \subseteq S
    BY <2>3 DEF WithOrigin, Held
  <2>5. QED
    BY <2>1, <2>2, <2>4 DEF Held
<1>3. CASE MergeOrigin(r)
  <2>1. PICK merged \in SUBSET fresh[r] :
          /\ facts' = facts \cup merged
          /\ fresh' = [fresh EXCEPT ![r] = @ \ merged]
    BY <1>3 DEF MergeOrigin
  <2>2. filtered' = filtered
    BY <1>3 DEF MergeOrigin
  <2>3. WithOrigin(facts', T) \subseteq S
    BY <2>1 DEF WithOrigin, Held
  <2>4. \A q \in Runs : fresh'[q] \subseteq fresh[q]
    BY <2>1
  <2>5. \A q \in Runs : WithOrigin(fresh'[q], T) \subseteq S
    BY <2>4 DEF WithOrigin, Held
  <2>6. QED
    BY <2>2, <2>3, <2>5 DEF Held
<1>4. CASE Iterate(r) \/ EndGroup(r) \/ CountFacts(r) \/ EndMerge(r) \/ Decide(r)
  <2>1. UNCHANGED <<facts, filtered>> /\ \A q \in Runs : fresh'[q] \subseteq fresh[q]
    BY <1>4 DEF Iterate, EndGroup, CountFacts, EndMerge, Decide
  <2>2. \A q \in Runs : WithOrigin(fresh'[q], T) \subseteq S
    BY <2>1 DEF WithOrigin, Held
  <2>3. QED
    BY <2>1, <2>2 DEF Held
<1>5. QED
  BY <1>1, <1>2, <1>3, <1>4 DEF WorkerNext

LEMMA WorkerStepTraced ==
  ASSUME TypeOK, NEW S, NEW T, TracedInv(S, T), NEW r \in Runs, WorkerNext(r)
  PROVE  TracedInv(S, T)'
<1>1. UNCHANGED <<rules, loaded, run>>
  BY StepFrame
<1>2. run # 0
  BY StepperIsActive DEF TracedInv, NotRun, Active
<1>3. GroupsKept'
  BY WorkerStepGroupsKept DEF TracedInv
<1>4. IsModelFor(S, T)' = IsModelFor(S, T)
  BY <1>1 DEF IsModelFor
<1>5. IsModelFor(S, T) => Held(S, T)'
  BY WorkerStepHeld DEF TracedInv
<1>6. QED
  BY <1>1, <1>2, <1>3, <1>4, <1>5 DEF TracedInv

LEMMA CallerStepTraced ==
  ASSUME TypeOK, NEW S, NEW T, TracedInv(S, T), CallerStep
  PROVE  TracedInv(S, T)'
<1>1. CASE Load
  <2>1. /\ NotRun /\ UNCHANGED <<callers, pc, locals>>
        /\ facts' = loaded'
    BY <1>1 DEF Load, AddFact, AddRule, ResetRules, Loading, TracedInv, NotRun
  <2>2. NotRun'
    BY <2>1 DEF NotRun
  <2>3. IsModelFor(S, T)' => Held(S, T)'
    BY <2>2 DEF NotRun, Held, IsModelFor, WithOrigin
  <2>4. QED
    BY <2>2, <2>3 DEF TracedInv, GroupsKept, NotRun
<1>2. CASE StartRun
  <2>1. run' # 0 /\ UNCHANGED <<facts, world, locals>>
    BY <1>2, WorldAssumption DEF StartRun, TypeOK
  <2>2. QED
    BY <2>1 DEF TracedInv, GroupsKept, IsModelFor, Held
<1>3. CASE BeginRead \/ EndRead \/ MapFault
  <2>1. UNCHANGED <<facts, world, run, pc, locals>>
    BY <1>3 DEF BeginRead, EndRead, MapFault
  <2>2. QED
    BY <2>1 DEF TracedInv, NotRun, GroupsKept, IsModelFor, Held
<1>4. ASSUME NEW r \in Runs, Deadline(r) \/ Return(r)
      PROVE  TracedInv(S, T)'
  <2>1. run # 0 /\ UNCHANGED <<facts, world, run, locals>>
    BY <1>4 DEF Deadline, Return, ReturnTimeout, ReturnVerdict, Runs
  <2>2. QED
    BY <2>1 DEF TracedInv, GroupsKept, IsModelFor, Held
<1>5. QED
  BY <1>1, <1>2, <1>3, <1>4 DEF CallerStep

Traced == \A S, T : TracedInv(S, T)

LEMMA AllTraced == Spec => []Traced
<1>1. Init => Traced
  <2>1. Init => NotRun
    BY DEF Init, NotRun
  <2>2. Init => \A S, T : IsModelFor(S, T) => Held(S, T)
    BY DEF Init, Held, WithOrigin
  <2>3. QED
    BY <2>1, <2>2 DEF Traced, TracedInv, NotRun, GroupsKept
<1>2. TypeOK /\ Traced /\ [Next]_vars => Traced'
  <2>1. ASSUME TypeOK, Traced, Next
        PROVE  Traced'
    <3> SUFFICES ASSUME NEW S, NEW T
                 PROVE  TracedInv(S, T)'
      BY DEF Traced
    <3>1. TracedInv(S, T)
      BY <2>1 DEF Traced
    <3>2. QED
      BY <2>1, <3>1, NextSplit, CallerStepTraced, WorkerStepTraced
  <2>2. Traced /\ UNCHANGED vars => Traced'
    BY DEF vars, Traced, TracedInv, NotRun, GroupsKept, IsModelFor, Held
  <2>3. QED BY <2>1, <2>2
<1>3. QED
  BY <1>1, <1>2, TypeCorrect, PTL DEF Spec

(* However goroutines overlap, the facts that a scope trusting the blocks T *)
(* sees are in every set that contains what these blocks load and is closed *)
(* under the rules they declare: no other block can add to them.            *)
THEOREM ScopeDetermined == Spec => [](\A S, T : DeterminedBy(S, T))
<1>1. Traced => \A S, T : DeterminedBy(S, T)
  BY DEF Traced, TracedInv, Held, DeterminedBy
<1>2. QED
  BY <1>1, AllTraced, PTL

-----------------------------------------------------------------------------
(* The facts a scope may see after a Run that returned nil are a model of   *)
(* what the blocks it trusts say.                                           *)
LEMMA SuccessIsModel ==
  ASSUME TypeOK, loaded \subseteq facts, Closed(rules, facts), NEW T
  PROVE  IsModelFor(WithOrigin(facts, T), T)
<1>1. WithOrigin(loaded, T) \subseteq WithOrigin(facts, T)
  BY DEF WithOrigin
<1>2. ASSUME NEW rib \in rules, rib.block \in T,
             NEW e \in Contribution(rib, WithOrigin(facts, T))
      PROVE  e \in WithOrigin(facts, T)
  <2>1. e \in Contribution(rib, facts)
    <3>1. WithOrigin(facts, T) \subseteq facts
      BY DEF WithOrigin
    <3>2. QED
      BY <3>1, ContributionMonotone
  <2>2. e \in facts
    BY <2>1 DEF Closed, Consequences
  <2>3. e.origin \subseteq T
    BY <1>2, ApplyOrigin DEF Contribution, WithOrigin
  <2>4. QED
    BY <2>2, <2>3 DEF WithOrigin
<1>3. QED
  BY <1>1, <1>2 DEF IsModelFor, Closed, Consequences

(* What the caller loads stays.                                             *)
LoadedStays == loaded \subseteq facts

LEMMA AllLoadedStays == Spec => []LoadedStays
<1>1. Init => LoadedStays
  BY DEF Init, LoadedStays
<1>2. LoadedStays /\ [Next]_vars => LoadedStays'
  <2>1. ASSUME LoadedStays, CallerStep
        PROVE  LoadedStays'
    BY <2>1 DEF LoadedStays, CallerStep, Load, AddFact, AddRule, ResetRules,
       StartRun, BeginRead, EndRead, MapFault, Deadline, Return,
       ReturnTimeout, ReturnVerdict
  <2>2. ASSUME LoadedStays, NEW r \in Runs, WorkerNext(r)
        PROVE  LoadedStays'
    BY <2>2 DEF LoadedStays, WorkerNext, Iterate, NextGroup, ApplyRule,
       EndGroup, CountFacts, MergeOrigin, EndMerge, Decide
  <2>3. LoadedStays /\ UNCHANGED vars => LoadedStays'
    BY DEF LoadedStays, vars
  <2>4. QED
    BY <2>1, <2>2, <2>3, NextSplit
<1>3. QED
  BY <1>1, <1>2, PTL DEF Spec

(* Noninterference between blocks, if the caller never overlaps runs: a     *)
(* scope only ever sees facts derivable from what the blocks it trusts say, *)
(* and after a Run that returned nil it sees all of them.                   *)
THEOREM BlocksDoNotInterfere ==
  ASSUME ~AllowOverlap
  PROVE  Spec => []Noninterference
<1>1. ASSUME TypeOK, Traced, LoadedStays, FixpointInv
      PROVE  Noninterference
  <2> SUFFICES ASSUME NEW T \in Origin
               PROVE  LET S == LeastModel({rib \in rules : rib.block \in T},
                                          WithOrigin(loaded, T))
                      IN  /\ WithOrigin(facts, T) \subseteq S
                          /\ Latest = "ok" => WithOrigin(facts, T) = S
    BY DEF Noninterference
  <2> DEFINE rs == {rib \in rules : rib.block \in T}
             base == WithOrigin(loaded, T)
             S == LeastModel(rs, base)
             seen == WithOrigin(facts, T)
  <2>1. rs \in SUBSET RuleInBlock /\ base \in SUBSET Entry
    BY <1>1, WorldAssumption DEF TypeOK, WithOrigin
  <2>2. seen \in SUBSET Entry
    BY <1>1 DEF TypeOK, WithOrigin
  <2>3. S = Closure(rs, base)
    BY <2>1, LeastModelIsClosure
  <2> HIDE DEF S
  <2>4. IsModelFor(S, T)
    BY <2>1, <2>3, ClosureClosed DEF IsModelFor
  <2>5. seen \subseteq S
    BY <1>1, <2>4 DEF Traced, TracedInv, Held
  <2>6. ASSUME Latest = "ok"
        PROVE  S \subseteq seen
    <3>1. IsModelFor(seen, T)
      BY <1>1, <2>6, SuccessIsModel DEF FixpointInv, SuccessIsFixpoint, LoadedStays
    <3>2. QED
      BY <2>2, <2>3, <3>1 DEF IsModelFor, Closure
  <2>7. QED
    BY <2>5, <2>6 DEF S
<1>2. QED
  BY <1>1, TypeCorrect, AllTraced, AllLoadedStays, RunKeepsRound, PTL

----------------------------------------------------------------------------
(* World.Run implements module Saturation, for any blocks, facts, rules and *)
(* limits, as long as no Run starts while an earlier goroutine is active.   *)

(* Facts derived but not merged are derivable from the world as it is; a    *)
(* verdict that waits to be received is still true of it.                   *)
Derivable ==
  \A r \in Runs : fresh[r] \subseteq facts \cup Consequences(rules, facts)

Warranted(r) ==
  pc[r] = "send" =>
    /\ verdict[r] = "maxFacts" => Count(facts) >= MaxFacts
    /\ verdict[r] = "ruleError" =>
         \E rib \in rules : ApplyFails(rib, WithOrigin(facts, rib.trusted))

GrownInv == Derivable /\ (run > 0 => Warranted(run))

(* What an instance of Saturation says of data is what World says.          *)
LEMMA SameConsequences ==
  ASSUME NEW rs, NEW F
  PROVE  Abstract!Consequences(rs, F) = Consequences(rs, F)
BY DEF Abstract!Consequences, Abstract!Contribution, Abstract!Apply,
       Abstract!Matches, Abstract!WithOrigin, Abstract!Range,
       Consequences, Contribution, Apply, Matches, WithOrigin, Range

LEMMA SameFailure ==
  ASSUME NEW rib, NEW F
  PROVE  Abstract!ApplyFails(rib, Abstract!WithOrigin(F, rib.trusted))
           <=> ApplyFails(rib, WithOrigin(F, rib.trusted))
BY DEF Abstract!ApplyFails, Abstract!Matches, Abstract!WithOrigin,
       ApplyFails, Matches, WithOrigin

LEMMA SameCount ==
  ASSUME NEW F
  PROVE  Abstract!Count(F) = Count(F)
BY DEF Abstract!Count, Abstract!Cardinality, Count, Cardinality

LEMMA OutcomeCases ==
  /\ run = 0 => Outcome = "loading"
  /\ run # 0 /\ caller = "waiting" => Outcome = "running"
  /\ run # 0 /\ caller # "waiting" => Outcome = result[run]
BY DEF Outcome

LEMMA WorkerStepGrown ==
  ASSUME TypeOK, FixpointInv, GroupsKept, GrownInv, NEW r \in Runs, WorkerNext(r)
  PROVE  GrownInv'
<1> USE DEF TypeOK
<1>0. r = run /\ UNCHANGED <<rules, run>>
  BY WorkerStepSequenced, StepFrame DEF FixpointInv
<1>1. CASE ApplyRule(r)
  <2>1. PICK rib \in queue[r] :
          \/ pc'[r] = "gone" /\ fresh' = fresh
          \/ /\ ApplyFails(rib, filtered[r])
             /\ pc'[r] = "send" /\ verdict'[r] = "ruleError" /\ fresh' = fresh
          \/ /\ pc'[r] = "rule"
             /\ fresh' = [fresh EXCEPT ![r] = @ \cup Apply(rib, filtered[r])]
    BY <1>1 DEF ApplyRule
  <2>2. facts' = facts /\ rib \in rules
    BY <1>1 DEF ApplyRule, GroupsKept
  <2>3. filtered[r] = WithOrigin(facts, rib.trusted)
    BY <1>0, <1>1 DEF ApplyRule, FixpointInv, Round, Runs
  <2>4. Apply(rib, filtered[r]) \subseteq Consequences(rules, facts)
    BY <2>2, <2>3 DEF Consequences, Contribution
  <2>5. Derivable'
    BY <1>0, <2>1, <2>2, <2>4 DEF GrownInv, Derivable
  <2>6. Warranted(r)'
    BY <1>0, <2>1, <2>2, <2>3 DEF Warranted
  <2>7. QED
    BY <1>0, <2>5, <2>6 DEF GrownInv
<1>2. CASE MergeOrigin(r)
  <2>1. PICK merged \in SUBSET fresh[r] :
          /\ facts' = facts \cup merged
          /\ fresh' = [fresh EXCEPT ![r] = @ \ merged]
    BY <1>2 DEF MergeOrigin
  <2>2. pc'[r] = "merge"
    BY <1>2 DEF MergeOrigin
  <2>3. Consequences(rules, facts) \subseteq Consequences(rules, facts')
    BY <2>1, ConsequencesMonotone
  <2>4. Derivable'
    BY <1>0, <2>1, <2>3 DEF GrownInv, Derivable
  <2>5. QED
    BY <1>0, <2>2, <2>4 DEF GrownInv, Warranted
<1>3. CASE Decide(r)
  <2>1. /\ UNCHANGED <<facts, fresh>>
        /\ \/ pc'[r] = "iterate"
           \/ pc'[r] = "send" /\ verdict'[r] = "ok"
           \/ pc'[r] = "send" /\ verdict'[r] = "maxFacts" /\ Count(facts) >= MaxFacts
    BY <1>3 DEF Decide
  <2>2. QED
    BY <1>0, <2>1 DEF GrownInv, Derivable, Warranted
<1>4. CASE Iterate(r) \/ NextGroup(r) \/ EndGroup(r) \/ CountFacts(r) \/ EndMerge(r)
  <2>1. /\ facts' = facts
        /\ \A q \in Runs : fresh'[q] \subseteq fresh[q]
        /\ pc'[r] = "send" => verdict'[r] = "maxIterations"
    BY <1>4 DEF Iterate, NextGroup, EndGroup, CountFacts, EndMerge
  <2>2. QED
    BY <1>0, <2>1 DEF GrownInv, Derivable, Warranted
<1>5. QED
  BY <1>1, <1>2, <1>3, <1>4 DEF WorkerNext

LEMMA CallerStepGrown ==
  ASSUME TypeOK, run = 0 => NotRun, GrownInv, CallerStep
  PROVE  GrownInv'
<1> USE DEF TypeOK
<1>1. CASE Load
  <2>1. run = 0 /\ run' = 0 /\ \A r \in Runs : fresh'[r] = {}
    BY <1>1 DEF Load, AddFact, AddRule, ResetRules, Loading, NotRun
  <2>2. QED
    BY <2>1 DEF GrownInv, Derivable
<1>2. CASE StartRun
  <2>1. /\ run' = run + 1 /\ run' \in Runs
        /\ pc' = [pc EXCEPT ![run'] = "iterate"]
        /\ UNCHANGED <<facts, rules, fresh>>
    BY <1>2, WorldAssumption DEF StartRun, Runs
  <2>2. QED
    BY <2>1 DEF GrownInv, Derivable, Warranted
<1>3. CASE BeginRead \/ EndRead \/ MapFault
  BY <1>3 DEF BeginRead, EndRead, MapFault, GrownInv, Derivable, Warranted
<1>4. ASSUME NEW r \in Runs, Deadline(r) \/ Return(r)
      PROVE  GrownInv'
  <2>1. /\ UNCHANGED <<facts, rules, run, fresh, verdict>>
        /\ r = run /\ (pc' = pc \/ pc' = [pc EXCEPT ![r] = "gone"])
    BY <1>4 DEF Deadline, Return, ReturnTimeout, ReturnVerdict
  <2>2. QED
    BY <2>1 DEF GrownInv, Derivable, Warranted
<1>5. QED
  BY <1>1, <1>2, <1>3, <1>4 DEF CallerStep

LEMMA WorldGrown ==
  ASSUME ~AllowOverlap
  PROVE  Spec => []GrownInv
<1>1. Init => GrownInv
  BY DEF Init, GrownInv, Derivable
<1>2. TypeOK /\ FixpointInv /\ Traced /\ GrownInv /\ [Next]_vars => GrownInv'
  <2>1. TypeOK /\ FixpointInv /\ Traced /\ GrownInv /\ Next => GrownInv'
    BY NextSplit, CallerStepGrown, WorkerStepGrown DEF Traced, TracedInv
  <2>2. GrownInv /\ UNCHANGED vars => GrownInv'
    BY DEF vars, GrownInv, Derivable, Warranted
  <2>3. QED BY <2>1, <2>2
<1>3. QED
  BY <1>1, <1>2, TypeCorrect, RunKeepsRound, AllTraced, PTL DEF Spec

-----------------------------------------------------------------------------
(* Every step of the caller is a step of Saturation or leaves it alone.     *)
LEMMA CallerStepRefines ==
  ASSUME TypeOK, TypeOK', FixpointInv, GrownInv, CallerStep
  PROVE  [Abstract!Next]_(Abstract!vars)
<1> USE DEF TypeOK, Abstract!Next, Abstract!vars
<1>0. run \in Nat
  BY WorldAssumption
<1>1. CASE Load
  <2>1. /\ run = 0 /\ run' = run /\ facts \subseteq facts'
        /\ facts' \subseteq facts \cup Loadable
    BY <1>1 DEF Load, AddFact, AddRule, ResetRules, Loading
  <2>2. Outcome = "loading" /\ Outcome' = "loading"
    BY <2>1, OutcomeCases DEF Outcome
  <2>3. Abstract!Load
    BY <2>1, <2>2 DEF Abstract!Load
  <2>4. QED BY <2>3
<1>2. CASE StartRun
  <2>1. /\ caller = "idle" /\ caller' = "waiting" /\ run' = run + 1
        /\ UNCHANGED <<facts, rules>>
    BY <1>2 DEF StartRun
  <2>2. run = 0 \/ run \in Runs
    BY WorldAssumption DEF Runs
  <2>3. Outcome # "running"
    BY <2>1, <2>2, OutcomeCases DEF Verdict
  <2>4. Outcome' = "running"
    BY <1>0, <2>1 DEF Outcome
  <2>5. Abstract!Start
    BY <2>1, <2>3, <2>4 DEF Abstract!Start
  <2>6. QED BY <2>5
<1>3. CASE BeginRead \/ EndRead \/ MapFault \/ \E r \in Runs : Deadline(r)
  <2>1. /\ UNCHANGED <<facts, rules, run, result>>
        /\ (caller' = "waiting") <=> (caller = "waiting")
    BY <1>3 DEF BeginRead, EndRead, MapFault, Deadline
  <2>2. Outcome' = Outcome
    BY <2>1 DEF Outcome
  <2>3. QED BY <2>1, <2>2
<1>4. ASSUME NEW r \in Runs, Return(r)
      PROVE  Abstract!Next
  <2>1. /\ r = run /\ r # 0 /\ caller = "waiting" /\ caller' = "idle"
        /\ UNCHANGED <<facts, rules, run>>
    BY <1>4 DEF Return, ReturnTimeout, ReturnVerdict, Runs
  <2>2. Outcome = "running" /\ Outcome' = result'[r]
    BY <2>1, OutcomeCases DEF Outcome
  <2>3. CASE ReturnTimeout(r)
    <3>1. Outcome' = "timeout"
      BY <2>2, <2>3 DEF ReturnTimeout
    <3>2. Abstract!Finish("timeout")
      BY <2>1, <2>2, <3>1 DEF Abstract!Finish, Abstract!Justified
    <3>3. QED BY <3>2
  <2>4. CASE ReturnVerdict(r)
    <3>1. pc[r] = "send" /\ Outcome' = verdict[r]
      BY <2>2, <2>4 DEF ReturnVerdict
    <3>2. verdict[r] = "ok" => Closed(rules, facts) /\ Count(facts) < MaxFacts
      BY <2>1, <3>1 DEF FixpointInv, Round, Runs
    <3>3. Warranted(r)
      BY <2>1 DEF GrownInv, Runs
    <3>4. Abstract!Justified(verdict[r])
      <4>1. CASE verdict[r] = "ok"
        BY <3>2, <4>1, SameConsequences, SameCount
           DEF Abstract!Justified, Abstract!Closed, Closed
      <4>2. CASE verdict[r] = "maxFacts"
        BY <3>1, <3>3, <4>2, SameCount DEF Warranted, Abstract!Justified
      <4>3. CASE verdict[r] = "ruleError"
        BY <3>1, <3>3, <4>3, SameFailure DEF Warranted, Abstract!Justified
      <4>4. CASE verdict[r] = "maxIterations"
        BY <4>4 DEF Abstract!Justified
      <4>5. QED
        BY <4>1, <4>2, <4>3, <4>4 DEF Verdict
    <3>5. Abstract!Finish(verdict[r])
      BY <2>1, <2>2, <3>1, <3>4 DEF Abstract!Finish
    <3>6. QED
      BY <3>5 DEF Verdict
  <2>5. QED
    BY <1>4, <2>3, <2>4 DEF Return
<1>5. QED
  BY <1>1, <1>2, <1>3, <1>4 DEF CallerStep

(* A goroutine's step is hidden, except that merging grows the facts.       *)
LEMMA WorkerStepRefines ==
  ASSUME TypeOK, FixpointInv, AccountedInv, GrownInv,
         NEW r \in Runs, WorkerNext(r)
  PROVE  [Abstract!Next]_(Abstract!vars)
<1> USE DEF TypeOK, Abstract!Next, Abstract!vars
<1>1. UNCHANGED <<rules, caller, run, result>>
  BY StepFrame
<1>2. Outcome' = Outcome
  BY <1>1 DEF Outcome
<1>3. CASE facts' = facts
  BY <1>1, <1>2, <1>3
<1>4. CASE MergeOrigin(r)
  <2>1. facts \subseteq facts' /\ facts' \subseteq facts \cup fresh[r]
    BY <1>4 DEF MergeOrigin
  <2>2. facts' \subseteq facts \cup Abstract!Consequences(rules, facts)
    BY <2>1, SameConsequences DEF GrownInv, Derivable
  <2>3. r = run /\ r # 0 /\ Active(r)
    BY StepperIsActive, WorkerStepSequenced DEF FixpointInv, Runs
  <2>4. result[r] = "timeout" \/ caller = "waiting"
    BY <2>3, ActiveAccounted DEF AccountedInv
  <2>5. Outcome \in {"running", "timeout"}
    BY <2>3, <2>4, OutcomeCases
  <2>6. Abstract!Grow
    BY <1>1, <1>2, <2>1, <2>2, <2>5 DEF Abstract!Grow
  <2>7. QED BY <2>6
<1>5. MergeOrigin(r) \/ facts' = facts
  BY DEF WorkerNext, Iterate, NextGroup, ApplyRule, EndGroup, CountFacts,
         EndMerge, Decide
<1>6. QED
  BY <1>3, <1>4, <1>5

(* If the caller never overlaps runs, World.Run implements Saturation: the  *)
(* facts grow during a run or after its timeout, only by what the rules     *)
(* derive from the facts present, and every verdict is justified by the     *)
(* facts it is returned with.                                               *)
THEOREM RunImplementsSaturation ==
  ASSUME ~AllowOverlap
  PROVE  Spec => Saturates
<1>1. Init => Abstract!Init
  BY DEF Init, Abstract!Init, Outcome
<1>2. TypeOK /\ TypeOK' /\ FixpointInv /\ AccountedInv /\ GrownInv /\ [Next]_vars
        => [Abstract!Next]_(Abstract!vars)
  <2>1. TypeOK /\ TypeOK' /\ FixpointInv /\ AccountedInv /\ GrownInv /\ Next
          => [Abstract!Next]_(Abstract!vars)
    BY NextSplit, CallerStepRefines, WorkerStepRefines
  <2>2. UNCHANGED vars => UNCHANGED Abstract!vars
    BY DEF vars, Abstract!vars, Outcome
  <2>3. QED BY <2>1, <2>2
<1>3. QED
  BY <1>1, <1>2, TypeCorrect, RunKeepsRound, GoroutinesAccounted, WorldGrown,
     PTL DEF Spec, Saturates, Abstract!Spec
=============================================================================
