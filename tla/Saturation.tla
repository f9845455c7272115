----------------------------- MODULE Saturation -----------------------------
(***************************************************************************)
(* What World.Run promises, without goroutines, rounds or channels: facts   *)
(* only grow, and only by what the rules derive from the facts present; a   *)
(* verdict says something definite about the facts it is returned with.     *)
(***************************************************************************)
EXTENDS Datalog

CONSTANTS Loadable, Rules, MaxFacts

VARIABLES
  facts,     \* the world's facts
  rules,     \* the world's rules
  outcome    \* "loading", "running", or the verdict of the latest run

vars == <<facts, rules, outcome>>

Init == facts = {} /\ rules = {} /\ outcome = "loading"

Load ==
  /\ outcome = "loading"
  /\ facts \subseteq facts' /\ facts' \subseteq facts \cup Loadable
  /\ rules' \subseteq Rules
  /\ UNCHANGED outcome

Start ==
  /\ outcome # "running"
  /\ outcome' = "running"
  /\ UNCHANGED <<facts, rules>>

(* Derived facts appear during a run, or late, after a run that timed out.  *)
Grow ==
  /\ outcome \in {"running", "timeout"}
  /\ facts \subseteq facts'
  /\ facts' \subseteq facts \cup Consequences(rules, facts)
  /\ UNCHANGED <<rules, outcome>>

(* What each verdict guarantees about the facts; the other two, nothing.    *)
Justified(verdict) ==
  /\ verdict = "ok" => Closed(rules, facts) /\ Count(facts) < MaxFacts
  /\ verdict = "maxFacts" => Count(facts) >= MaxFacts
  /\ verdict = "ruleError" =>
       \E rib \in rules : ApplyFails(rib, WithOrigin(facts, rib.trusted))

Finish(verdict) ==
  /\ outcome = "running"
  /\ Justified(verdict)
  /\ outcome' = verdict
  /\ UNCHANGED <<facts, rules>>

Next ==
  \/ Load \/ Start \/ Grow
  \/ \E verdict \in {"ok", "maxFacts", "ruleError", "maxIterations", "timeout"} :
       Finish(verdict)

Spec == Init /\ [][Next]_vars
=============================================================================
