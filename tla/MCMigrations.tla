---------------------------- MODULE MCMigrations ----------------------------
(* The three versions of the repository: the second alters a table of the   *)
(* first, the down scripts of the first two say "if exists".               *)
EXTENDS Migrations, TLC

MCNeeds == 1 :> {} @@ 2 :> {1} @@ 3 :> {}

Symmetry == Permutations(Process)
=============================================================================
