------------------------------ MODULE MCQHashArr -------------------------------
(***************************************************************************)
(* Instances of QHashArr for TLC.  A first slot takes 2 value bytes and an *)
(* extension slot 3 (128 and 242 in the code).                             *)
(***************************************************************************)
EXTENDS QHashArrProps, TLC

CONSTANTS a, b, c, d, small, big, huge, R1

\* Keys a, b and d collide; c hashes to the next slot, which they overflow to.
Colliding == [k \in Keys |-> IF k = c THEN 1 ELSE 0]

\* Values of one, two and three slots; 2 and 5 bytes fill theirs exactly.
Sizes ==
  [v \in Values |-> IF v = small THEN 2 ELSE IF v = big THEN 5 ELSE 6]

\* Colliding keys are alike.
Sym == Permutations({a, b, d})
SymAB == Permutations({a, b})
===============================================================================
