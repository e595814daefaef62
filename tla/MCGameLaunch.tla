---------------------------- MODULE MCGameLaunch ----------------------------
(* Three runs of the game, the first and the last under the same process id. *)
EXTENDS GameLaunch, TLC

CONSTANTS g1, g2, g3

MCGame == {g1, g2, g3}
MCPidOf == g1 :> 1 @@ g2 :> 2 @@ g3 :> 1
=============================================================================
