--------------------------- MODULE MCClientWindows ---------------------------
(* Up to nine starts and abandonments of an attempt, so that a second session *)
(* follows a first that was signed out or expired.                            *)
EXTENDS ClientWindows
=============================================================================
