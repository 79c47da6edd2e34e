---------------------------- MODULE MCDocHistory ----------------------------
(* DocHistory on small instances, for TLC. *)
EXTENDS DocHistory, TLC

CONSTANTS a, c, d, new, outer

\* One group that holds a; c and d are not drawn and new is not formed yet.
OneGroup ==
  [n \in Objects \cup Groups |->
     CASE n = a -> outer [] n = outer -> Top [] OTHER -> NoGroup]

Symmetry == Permutations({c, d})
=============================================================================
