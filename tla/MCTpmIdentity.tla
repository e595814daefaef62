---------------------------- MODULE MCTpmIdentity ----------------------------
(* Two users and up to two keys: one may replace the other at any point. *)
EXTENDS TpmIdentity, TLC

CallerSymmetry == Permutations(Caller)
=============================================================================
