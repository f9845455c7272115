-------------------------------- MODULE Sets --------------------------------
(* What hash sets promise their users (internal/set/hashset.go): each set     *)
(* holds some elements, and operations answer about them.  An element is      *)
(* Exact when it equals itself and always hashes alike; about the others an   *)
(* answer may err, in one direction only.                                     *)
CONSTANTS
  Element,  \* the elements
  Exact,    \* those that are always found
  SetName   \* the sets

VARIABLES
  contents,  \* the elements of each set
  call,      \* the operation that runs, with its sets, or Idle
  answer     \* the last operation that returned, with its arguments and result

vars == <<contents, call, answer>>

Idle == <<"idle">>

Init ==
  /\ contents = [s \in SetName |-> {}]
  /\ call = Idle
  /\ answer = <<"none">>

(* An operation that takes several steps begins, and returns.                 *)
Begin(op, s, t) ==
  /\ call = Idle
  /\ call' = <<op, s, t>>
  /\ answer' = <<"running">>
  /\ UNCHANGED contents

Return(op, s, t, result) ==
  /\ call = <<op, s, t>>
  /\ call' = Idle
  /\ answer' = <<op, s, t, result>>

(* An operation of one step.                                                  *)
Answer(op, s, x, result) ==
  /\ call = Idle
  /\ answer' = <<op, s, x, result>>
  /\ UNCHANGED call

(* An element that was not there is inserted, and the answer says so.         *)
Insert(s, x) ==
  \E inserted \in BOOLEAN :
    /\ Answer("insert", s, x, inserted)
    /\ x \notin contents[s] => inserted
    /\ x \in contents[s] \cap Exact => ~inserted
    /\ contents' = [contents EXCEPT ![s] = @ \cup {x}]

(* An element that is removed is gone if it is exact; nothing else changes.   *)
Remove(s, x) ==
  \E removed \in BOOLEAN, left \in SUBSET {x} :
    /\ Answer("remove", s, x, removed)
    /\ x \in Exact => removed = (x \in contents[s]) /\ left = {}
    /\ x \notin contents[s] => ~removed /\ left = {}
    /\ contents' = [contents EXCEPT ![s] = IF removed THEN (@ \ {x}) \cup left ELSE @]

(* Found only what is there, and every exact element that is.                 *)
Contains(s, x) ==
  \E found \in BOOLEAN :
    /\ Answer("contains", s, x, found)
    /\ found => x \in contents[s]
    /\ x \in contents[s] \cap Exact => found
    /\ UNCHANGED contents

(* Inclusion and equality: a yes is right, and on exact elements a no is too. *)
IsSuperSet(s, t) ==
  \E includes \in BOOLEAN :
    /\ Return("superset", s, t, includes)
    /\ includes => contents[t] \subseteq contents[s]
    /\ contents[t] \subseteq contents[s] \cap Exact => includes
    /\ UNCHANGED contents

Compared(s, t) ==
  \E equal \in BOOLEAN :
    /\ Answer("compared", s, t, equal)
    /\ equal => contents[s] = contents[t]
    /\ contents[s] = contents[t] /\ contents[t] \subseteq Exact => equal
    /\ UNCHANGED contents

Clone(s, t) ==
  /\ Answer("clone", s, t, TRUE)
  /\ contents' = [contents EXCEPT ![s] = contents[t]]

Union(s, t) ==
  /\ Return("union", s, t, TRUE)
  /\ contents' = [contents EXCEPT ![s] = @ \cup contents[t]]

(* An intersection may miss elements that are not exact.                      *)
Intersect(s, t) ==
  \E missed \in SUBSET (Element \ Exact) :
    /\ Return("intersect", s, t, TRUE)
    /\ contents' = [contents EXCEPT ![s] = (@ \cap contents[t]) \ missed]

Next ==
  \/ \E op \in {"union", "intersect", "superset"}, s, t \in SetName : Begin(op, s, t)
  \/ \E s \in SetName, x \in Element : Insert(s, x) \/ Remove(s, x) \/ Contains(s, x)
  \/ \E s, t \in SetName :
       \/ IsSuperSet(s, t)
       \/ Compared(s, t)
       \/ Clone(s, t)
       \/ Union(s, t)
       \/ Intersect(s, t)

Spec == Init /\ [][Next]_vars
=============================================================================
