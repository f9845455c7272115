----------------------------- MODULE MCCombine -----------------------------
(* Bodies of up to two binary predicates over two variables and two values, *)
(* three-predicate joins, and lists of up to three facts, repeats included. *)
EXTENDS Combine

MCVariable == {-1, -2, -3}
MCValue == {1, 2}

Binary(S) == {<<a, b>> : a \in S, b \in S}
Lists(S, n) == UNION {[1..k -> S] : k \in 0..n}

MCBodies ==
  Lists(Binary({-1, -2, 1}), 2)
    \cup {<< <<-1, -2>>, <<-2, -3>>, <<-3, -1>> >>,
          << <<-1, 1>>, <<-2>>, <<-1, -2>> >>}
MCFactLists == Lists(Binary(MCValue) \cup {<<1>>}, 3)
=============================================================================
