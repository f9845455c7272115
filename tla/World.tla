------------------------------- MODULE World -------------------------------
(***************************************************************************)
(* World.Run (datalog/datalog.go): the caller that loads a World, runs it   *)
(* and reads it, and the goroutine each Run starts.  The goroutine and the  *)
(* caller share w.Facts without a lock; they meet on an unbuffered channel  *)
(* and on a context that expires after maxDuration and is cancelled when    *)
(* Run returns.                                                             *)
(***************************************************************************)
EXTENDS Datalog

CONSTANTS
  Loadable,        \* the entries a caller may load with AddFact
  Rules,           \* the rules a caller may load with AddRule
  MaxFacts,        \* runLimits.maxFacts
  MaxIterations,   \* runLimits.maxIterations
  MaxRuns,         \* bound: how many times the caller calls Run
  AllowOverlap     \* may Run be called while an earlier goroutine is active?

ASSUME WorldAssumption ==
  /\ Loadable \subseteq Entry
  /\ Rules \subseteq RuleInBlock
  /\ MaxFacts \in Nat
  /\ MaxIterations \in Nat
  /\ MaxRuns \in Nat
  /\ AllowOverlap \in BOOLEAN

VARIABLES
  facts,     \* w.Facts
  rules,     \* w.Rules
  loaded,    \* history: the entries loaded with AddFact
  caller,    \* the calling goroutine: "idle", "waiting" (in Run), "reading"
  run,       \* number of Run calls so far; the latest one's identity
  result,    \* result[r]: what run r returned, "none" until it returns
  ctx,       \* ctx[r]: is the context of run r "live" or "done"
  fault      \* the Go runtime aborted on a concurrent map access

(* The goroutine started by run r: program counter and locals.              *)
VARIABLES
  pc,        \* pc[r]
  iter,      \* i
  groups,    \* keys of w.Rules that the iteration has not visited yet
  queue,     \* rules of the current group not applied yet
  filtered,  \* filteredFacts of the current group
  fresh,     \* newFacts, less what has been merged
  prev,      \* prevCount
  verdict    \* the value of the pending send on done

world == <<rules, loaded>>
callers == <<caller, run, result>>
locals == <<iter, groups, queue, filtered, fresh, prev, verdict>>
vars == <<facts, world, callers, ctx, fault, pc, locals>>

Runs == 1..MaxRuns

Verdict == {"ok", "ruleError", "maxFacts", "maxIterations"}

PC == {"unborn", "iterate", "group", "rule", "merge", "decide", "send", "gone"}

Init ==
  /\ facts = {} /\ rules = {} /\ loaded = {}
  /\ caller = "idle"
  /\ run = 0
  /\ result = [r \in Runs |-> "none"]
  /\ ctx = [r \in Runs |-> "live"]
  /\ fault = FALSE
  /\ pc = [r \in Runs |-> "unborn"]
  /\ iter = [r \in Runs |-> 0]
  /\ groups = [r \in Runs |-> {}]
  /\ queue = [r \in Runs |-> {}]
  /\ filtered = [r \in Runs |-> {}]
  /\ fresh = [r \in Runs |-> {}]
  /\ prev = [r \in Runs |-> 0]
  /\ verdict = [r \in Runs |-> "ok"]

-----------------------------------------------------------------------------
(* The caller.  As in authorizerBuilder.Build, a world is loaded before it  *)
(* is first run.                                                            *)

Loading == caller = "idle" /\ run = 0

(* World.AddFact, World.InsertFacts (one fact at a time).                   *)
AddFact(e) ==
  /\ Loading
  /\ facts' = facts \cup {e}
  /\ loaded' = loaded \cup {e}
  /\ UNCHANGED <<rules, callers, ctx, fault, pc, locals>>

(* World.AddRule: the rule is filed under the encoding of its trusted       *)
(* origin; the group is recovered below as the rules with equal "trusted".  *)
AddRule(rib) ==
  /\ Loading
  /\ rules' = rules \cup {rib}
  /\ UNCHANGED <<facts, loaded, callers, ctx, fault, pc, locals>>

ResetRules ==
  /\ Loading
  /\ rules' = {}
  /\ UNCHANGED <<facts, loaded, callers, ctx, fault, pc, locals>>

(* A goroutine that may still read or write w.Facts.                        *)
Active(r) == pc[r] \notin {"unborn", "send", "gone"}

(* World.Run up to its select: a fresh context and a fresh goroutine.       *)
StartRun ==
  /\ caller = "idle"
  /\ run < MaxRuns
  /\ AllowOverlap \/ \A r \in Runs : ~Active(r)
  /\ run' = run + 1
  /\ caller' = "waiting"
  /\ pc' = [pc EXCEPT ![run + 1] = "iterate"]
  /\ UNCHANGED <<facts, world, result, ctx, fault, locals>>

(* The deadline of context.WithTimeout passes.                              *)
Deadline(r) ==
  /\ caller = "waiting" /\ run = r
  /\ ctx[r] = "live"
  /\ ctx' = [ctx EXCEPT ![r] = "done"]
  /\ UNCHANGED <<facts, world, callers, fault, pc, locals>>

(* Seeded fault: the select has no ctx.Done branch.                         *)
NoTimeoutBranch(r) == FALSE

(* The select of World.Run takes its ctx.Done branch.                       *)
ReturnTimeout(r) ==
  /\ caller = "waiting" /\ run = r
  /\ ctx[r] = "done"
  /\ caller' = "idle"
  /\ result' = [result EXCEPT ![r] = "timeout"]
  /\ UNCHANGED <<facts, world, run, ctx, fault, pc, locals>>

(* Seeded fault: the verdict is read while the goroutine is still deciding, *)
(* as from a shared variable in place of the channel.                       *)
VerdictNotReceived(r) ==
  /\ caller = "waiting" /\ run = r
  /\ pc[r] \in {"decide", "send"}
  /\ caller' = "idle"
  /\ result' = [result EXCEPT ![r] = verdict[r]]
  /\ UNCHANGED <<facts, world, run, ctx, fault, pc, locals>>

(* The select of World.Run receives from done; the deferred cancel runs.    *)
(* When the context has expired too, either branch may be taken.            *)
ReturnVerdict(r) ==
  /\ caller = "waiting" /\ run = r
  /\ pc[r] = "send"
  /\ caller' = "idle"
  /\ result' = [result EXCEPT ![r] = verdict[r]]
  /\ ctx' = [ctx EXCEPT ![r] = "done"]
  /\ pc' = [pc EXCEPT ![r] = "gone"]
  /\ UNCHANGED <<facts, world, run, fault, locals>>

(* QueryRule, Check.Verify, PrintWorld: the caller iterates over w.Facts.   *)
BeginRead ==
  /\ caller = "idle" /\ run > 0
  /\ caller' = "reading"
  /\ UNCHANGED <<facts, world, run, result, ctx, fault, pc, locals>>

EndRead ==
  /\ caller = "reading"
  /\ caller' = "idle"
  /\ UNCHANGED <<facts, world, run, result, ctx, fault, pc, locals>>

-----------------------------------------------------------------------------
(* The goroutine of run r.                                                  *)

Goto(r, label) == pc' = [pc EXCEPT ![r] = label]

(* done <- v: the goroutine blocks until the caller receives.               *)
Send(r, v) ==
  /\ Goto(r, "send")
  /\ verdict' = [verdict EXCEPT ![r] = v]
  /\ UNCHANGED <<iter, groups, queue, filtered, fresh, prev>>

(* The loop head: the iteration limit, then the non-blocking context check. *)
Iterate(r) ==
  /\ pc[r] = "iterate"
  /\ \/ iter[r] >= MaxIterations /\ Send(r, "maxIterations")
     \/ /\ iter[r] < MaxIterations /\ ctx[r] = "done"
        /\ Goto(r, "gone")
        /\ UNCHANGED locals
     \/ /\ iter[r] < MaxIterations /\ ctx[r] = "live"
        /\ Goto(r, "group")
        /\ fresh' = [fresh EXCEPT ![r] = {}]
        /\ groups' = [groups EXCEPT ![r] = {rib.trusted : rib \in rules}]
        /\ UNCHANGED <<iter, queue, filtered, prev, verdict>>
  /\ UNCHANGED <<facts, world, callers, ctx, fault>>

(* Seeded fault: the filtered facts of the first iteration are kept.        *)
FilteredOnce(r) ==
  /\ pc[r] = "group"
  /\ \E t \in groups[r] :
       /\ groups' = [groups EXCEPT ![r] = @ \ {t}]
       /\ queue' = [queue EXCEPT ![r] = {rib \in rules : rib.trusted = t}]
       /\ filtered' = [filtered EXCEPT ![r] = IF iter[r] = 0 THEN WithOrigin(facts, t) ELSE @]
  /\ Goto(r, "rule")
  /\ UNCHANGED <<facts, world, callers, ctx, fault, iter, fresh, prev, verdict>>

(* The next trusted origin of w.Rules, in map order: its visible facts are  *)
(* read once for all its rules.                                             *)
NextGroup(r) ==
  /\ pc[r] = "group"
  /\ \E t \in groups[r] :
       /\ groups' = [groups EXCEPT ![r] = @ \ {t}]
       /\ queue' = [queue EXCEPT ![r] = {rib \in rules : rib.trusted = t}]
       /\ filtered' = [filtered EXCEPT ![r] = WithOrigin(facts, t)]
  /\ Goto(r, "rule")
  /\ UNCHANGED <<facts, world, callers, ctx, fault, iter, fresh, prev, verdict>>

(* Seeded fault: the rule is applied to all facts, trusted or not.          *)
ApplyUnfiltered(r) ==
  /\ pc[r] = "rule"
  /\ \E rib \in queue[r] :
       /\ ctx[r] = "live"
       /\ queue' = [queue EXCEPT ![r] = @ \ {rib}]
       /\ fresh' = [fresh EXCEPT ![r] = @ \cup Apply(rib, facts)]
  /\ UNCHANGED <<facts, world, callers, ctx, fault, pc, iter, groups, filtered, prev, verdict>>

(* One rule of the group: the context check, then Apply.                    *)
ApplyRule(r) ==
  /\ pc[r] = "rule"
  /\ \E rib \in queue[r] :
       \/ /\ ctx[r] = "done"
          /\ Goto(r, "gone")
          /\ UNCHANGED locals
       \/ /\ ctx[r] = "live"
          /\ ApplyFails(rib, filtered[r])
          /\ Send(r, "ruleError")
       \/ /\ ctx[r] = "live"
          /\ ~ApplyFails(rib, filtered[r])
          /\ queue' = [queue EXCEPT ![r] = @ \ {rib}]
          /\ fresh' = [fresh EXCEPT ![r] = @ \cup Apply(rib, filtered[r])]
          /\ UNCHANGED <<pc, iter, groups, filtered, prev, verdict>>
  /\ UNCHANGED <<facts, world, callers, ctx, fault>>

EndGroup(r) ==
  /\ pc[r] = "rule"
  /\ queue[r] = {}
  /\ Goto(r, "group")
  /\ UNCHANGED <<facts, world, callers, ctx, fault, locals>>

(* Seeded fault: prevCount is read as if after the merge.                   *)
CountAfterMerge(r) ==
  /\ pc[r] = "group"
  /\ groups[r] = {}
  /\ Goto(r, "merge")
  /\ prev' = [prev EXCEPT ![r] = Count(facts \cup fresh[r])]
  /\ UNCHANGED <<facts, world, callers, ctx, fault,
                 iter, groups, queue, filtered, fresh, verdict>>

(* All groups visited: prevCount is read.  There is no context check from   *)
(* here to the next loop head.                                              *)
CountFacts(r) ==
  /\ pc[r] = "group"
  /\ groups[r] = {}
  /\ Goto(r, "merge")
  /\ prev' = [prev EXCEPT ![r] = Count(facts)]
  /\ UNCHANGED <<facts, world, callers, ctx, fault,
                 iter, groups, queue, filtered, fresh, verdict>>

(* Seeded fault: the new facts of an origin replace the earlier ones.       *)
MergeReplaces(r) ==
  /\ pc[r] = "merge"
  /\ \E o \in {e.origin : e \in fresh[r]} :
       LET merged == {e \in fresh[r] : e.origin = o}
       IN  /\ facts' = {e \in facts : e.origin # o} \cup merged
           /\ fresh' = [fresh EXCEPT ![r] = @ \ merged]
  /\ UNCHANGED <<world, callers, ctx, fault, pc,
                 iter, groups, queue, filtered, prev, verdict>>

(* InsertMulti of the new facts of one origin, in map order.                *)
MergeOrigin(r) ==
  /\ pc[r] = "merge"
  /\ \E o \in {e.origin : e \in fresh[r]} :
       LET merged == {e \in fresh[r] : e.origin = o}
       IN  /\ facts' = facts \cup merged
           /\ fresh' = [fresh EXCEPT ![r] = @ \ merged]
  /\ UNCHANGED <<world, callers, ctx, fault, pc,
                 iter, groups, queue, filtered, prev, verdict>>

(* Seeded fault: the goroutine waits for its caller before it goes on.      *)
EndMergeWithCaller(r) ==
  /\ pc[r] = "merge"
  /\ fresh[r] = {}
  /\ caller = "waiting" /\ run = r
  /\ Goto(r, "decide")
  /\ UNCHANGED <<facts, world, callers, ctx, fault, locals>>

EndMerge(r) ==
  /\ pc[r] = "merge"
  /\ fresh[r] = {}
  /\ Goto(r, "decide")
  /\ UNCHANGED <<facts, world, callers, ctx, fault, locals>>

(* Seeded fault: the iterations are counted down.                           *)
DecideCountsDown(r) ==
  /\ pc[r] = "decide"
  /\ \/ Count(facts) >= MaxFacts /\ Send(r, "maxFacts")
     \/ Count(facts) < MaxFacts /\ Count(facts) = prev[r] /\ Send(r, "ok")
     \/ /\ Count(facts) < MaxFacts /\ Count(facts) # prev[r]
        /\ Goto(r, "iterate")
        /\ iter' = [iter EXCEPT ![r] = @ - 1]
        /\ UNCHANGED <<groups, queue, filtered, fresh, prev, verdict>>
  /\ UNCHANGED <<facts, world, callers, ctx, fault>>

(* newCount is read: too many facts, no new fact, or another iteration.     *)
Decide(r) ==
  /\ pc[r] = "decide"
  /\ \/ Count(facts) >= MaxFacts /\ Send(r, "maxFacts")
     \/ Count(facts) < MaxFacts /\ Count(facts) = prev[r] /\ Send(r, "ok")
     \/ /\ Count(facts) < MaxFacts /\ Count(facts) # prev[r]
        /\ Goto(r, "iterate")
        /\ iter' = [iter EXCEPT ![r] = @ + 1]
        /\ UNCHANGED <<groups, queue, filtered, fresh, prev, verdict>>
  /\ UNCHANGED <<facts, world, callers, ctx, fault>>

WorkerNext(r) ==
  \/ Iterate(r) \/ NextGroup(r) \/ ApplyRule(r) \/ EndGroup(r)
  \/ CountFacts(r) \/ MergeOrigin(r) \/ EndMerge(r) \/ Decide(r)

-----------------------------------------------------------------------------
(* w.Facts is a Go map: a write unordered with another access is a data     *)
(* race, whose outcome is either some interleaving (the actions above) or a *)
(* fatal "concurrent map" error of the runtime that ends the process.       *)

Writing(r) == pc[r] = "merge" /\ fresh[r] # {}

Accessing(r) == Writing(r) \/ pc[r] \in {"group", "decide"}

Race ==
  \E r \in Runs : /\ Writing(r)
                  /\ \/ caller = "reading"
                     \/ \E q \in Runs \ {r} : Accessing(q)

MapFault ==
  /\ Race
  /\ fault' = TRUE
  /\ UNCHANGED <<facts, world, callers, ctx, pc, locals>>

Load ==
  \/ \E e \in Loadable : AddFact(e)
  \/ \E rib \in Rules : AddRule(rib)
  \/ ResetRules

Return(r) == ReturnTimeout(r) \/ ReturnVerdict(r)

Next ==
  /\ ~fault
  /\ \/ Load
     \/ StartRun
     \/ BeginRead
     \/ EndRead
     \/ MapFault
     \/ \E r \in Runs : Deadline(r) \/ Return(r) \/ WorkerNext(r)

Spec == Init /\ [][Next]_vars

(* Every goroutine is scheduled, time passes, and a ready select is taken.  *)
Fairness ==
  \A r \in Runs : /\ WF_vars(~fault /\ WorkerNext(r))
                  /\ WF_vars(~fault /\ Deadline(r))
                  /\ WF_vars(~fault /\ Return(r))

FairSpec == Spec /\ Fairness

-----------------------------------------------------------------------------
(* The promise of Run (module Saturation), with goroutines hidden.          *)
Outcome ==
  IF run = 0 THEN "loading"
  ELSE IF caller = "waiting" THEN "running"
  ELSE result[run]

Abstract == INSTANCE Saturation WITH outcome <- Outcome

(* Run implements its promise: every step of caller and goroutines grows    *)
(* the facts by consequences only, or returns a verdict that is justified.  *)
Saturates == Abstract!Spec

(* Type invariant.                                                          *)
TypeOK ==
  /\ facts \in SUBSET Entry
  /\ rules \in SUBSET Rules
  /\ caller \in {"idle", "waiting", "reading"}
  /\ run \in 0..MaxRuns
  /\ result \in [Runs -> {"none", "timeout"} \cup Verdict]
  /\ ctx \in [Runs -> {"live", "done"}]
  /\ loaded \in SUBSET Loadable
  /\ fault \in BOOLEAN
  /\ pc \in [Runs -> PC]
  /\ iter \in [Runs -> Nat]
  /\ groups \in [Runs -> SUBSET Origin]
  /\ queue \in [Runs -> SUBSET Rules]
  /\ filtered \in [Runs -> SUBSET Entry]
  /\ fresh \in [Runs -> SUBSET Entry]
  /\ prev \in [Runs -> Nat]
  /\ verdict \in [Runs -> Verdict]

(* The outcome the caller acts upon: that of the latest Run.                *)
Latest == IF run = 0 THEN "none" ELSE result[run]

(* When Run returns nil, Authorize and Query evaluate checks, policies and  *)
(* queries against a fixpoint of the rules below the fact limit; it stays   *)
(* one for as long as the caller looks at it.  The comment in Run says why: *)
(* "last iteration did not generate any new facts, so we can stop here".    *)
SuccessIsFixpoint ==
  Latest = "ok" => Closed(rules, facts) /\ Count(facts) < MaxFacts

(* At most the latest run's goroutine touches the facts.                    *)
Sequenced ==
  /\ caller # "idle" => run > 0
  /\ caller = "waiting" => result[run] = "none"
  /\ \A r \in Runs : r > run => pc[r] = "unborn" /\ result[r] = "none"
  /\ \A r \in Runs : Active(r) => r = run
  /\ \A r \in Runs : result[r] \notin {"none", "timeout"} => pc[r] = "gone"

(* What the goroutine has established about the round it is in.  From       *)
(* "merge" on, G is the set of facts the round's rules were applied to.     *)
Round(r) ==
  /\ pc[r] = "group" =>
       \A rib \in rules : \/ rib.trusted \in groups[r]
                          \/ Contribution(rib, facts) \subseteq fresh[r]
  /\ pc[r] = "rule" =>
       /\ \A rib \in queue[r] : filtered[r] = WithOrigin(facts, rib.trusted)
       /\ \A rib \in rules : \/ rib.trusted \in groups[r]
                             \/ rib \in queue[r]
                             \/ Contribution(rib, facts) \subseteq fresh[r]
  /\ pc[r] = "merge" =>
       \E G \in SUBSET facts :
          Count(G) = prev[r] /\ Consequences(rules, G) \subseteq facts \cup fresh[r]
  /\ pc[r] = "decide" =>
       \E G \in SUBSET facts :
          Count(G) = prev[r] /\ Consequences(rules, G) \subseteq facts
  /\ (pc[r] = "send" /\ verdict[r] = "ok") =>
       Closed(rules, facts) /\ Count(facts) < MaxFacts

(* The inductive invariant behind SuccessIsFixpoint when runs do not        *)
(* overlap: a round of the sole active goroutine is computed from facts     *)
(* that do not change until it merges, so equal counts mean a fixpoint.     *)
FixpointInv ==
  /\ Sequenced
  /\ run > 0 => Round(run)
  /\ SuccessIsFixpoint

(* The facts a scope trusting exactly the blocks T can see are a subset of  *)
(* any set S that contains what those blocks loaded and is closed under the *)
(* rules those blocks declare.                                              *)
IsModelFor(S, T) ==
  /\ WithOrigin(loaded, T) \subseteq S
  /\ Closed({rib \in rules : rib.block \in T}, S)

DeterminedBy(S, T) == IsModelFor(S, T) => WithOrigin(facts, T) \subseteq S

(* Noninterference between blocks: whatever the goroutines' interleaving,   *)
(* the facts visible to a scope trusting the blocks T are derivable from    *)
(* the facts and rules of the blocks in T alone, so a block outside the     *)
(* scope cannot add anything to it; and after a successful Run all of the   *)
(* derivable ones are there.                                                *)
Noninterference ==
  \A T \in Origin :
    LET S == LeastModel({rib \in rules : rib.block \in T},
                        WithOrigin(loaded, T))
    IN  /\ WithOrigin(facts, T) \subseteq S
        /\ Latest = "ok" => WithOrigin(facts, T) = S

(* The Go runtime can only meet a concurrent map access after some Run has  *)
(* timed out and left its goroutine behind.                                 *)
FaultNeedsTimeout == fault => \E r \in Runs : result[r] = "timeout"

(* Facts are never removed, and they never change under a caller that is    *)
(* not inside Run unless a Run has timed out.                               *)
FactsStable ==
  [][/\ facts \subseteq facts'
     /\ (facts' # facts /\ run > 0 /\ caller # "waiting")
          => \E r \in Runs : result[r] = "timeout"]_vars

(* A timed-out Run is not retracted: Run always returns, by its deadline if *)
(* not by the goroutine's verdict.                                          *)
RunReturns ==
  \A r \in Runs : (run = r) ~> (result[r] # "none" \/ fault)

(* Every goroutine stops computing: it ends or blocks in its final send.    *)
GoroutineStops == \A r \in Runs : Active(r) ~> (~Active(r) \/ fault)
=============================================================================
