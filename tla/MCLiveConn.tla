----------------------------- MODULE MCLiveConn -----------------------------
(* LiveConn on small instances, for TLC. *)
EXTENDS LiveConn, TLC

Symmetry == Permutations(Windows) \cup Permutations(Conns)
=============================================================================
