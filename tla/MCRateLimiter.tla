--------------------------- MODULE MCRateLimiter ----------------------------
(* Three addresses compete for a table of two, over three windows.          *)
EXTENDS RateLimiter, TLC

Symmetry == Permutations(Key)
=============================================================================
