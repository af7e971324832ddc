---------------------------- MODULE MCMrswHashtable ----------------------------
(***************************************************************************)
(* Instances of MrswHashtable for TLC: values of one, two and four slots   *)
(* in a table of three, so that the last never fits.                       *)
(***************************************************************************)
EXTENDS MrswHashtableProps, TLC

CONSTANTS a, b, c, small, big, huge, w1, w2

BlocksOf == [v \in Values |-> IF v = small THEN 1 ELSE IF v = big THEN 2 ELSE 4]
================================================================================
