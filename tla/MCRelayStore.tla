---------------------------- MODULE MCRelayStore ----------------------------
(* RelayStore on a small instance, for TLC. *)
EXTENDS RelayStore, TLC

UploadSymmetry == Permutations(Uploads)
=============================================================================
