--------------------------- MODULE MCProtectedApi ---------------------------
(* Two tokens whose lifetimes overlap, a proof of each, and three requests, *)
(* so that a proof is presented up to three times.                         *)
EXTENDS ProtectedApi, TLC

CONSTANTS t1, t2, p1, p2

MCToken == {t1, t2}
MCProof == {p1, p2}
MCIssuedAt == t1 :> 0 @@ t2 :> 1
MCBoundTo == p1 :> t1 @@ p2 :> t2
MCProofIat == p1 :> 1 @@ p2 :> 1

Symmetry == Permutations(Request)
=============================================================================
