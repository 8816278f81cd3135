------------------------------ MODULE MCClient ------------------------------
(* An instance of Client for TLC.                                          *)
EXTENDS Client, TLC

CONSTANTS c1, c2

MCCommands == c1 :> {"pull", "pullnb", "expire"} @@ c2 :> {"pull", "lookup"}
=============================================================================
