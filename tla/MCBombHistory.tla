---------------------------- MODULE MCBombHistory ----------------------------
(***************************************************************************)
(* The rooms of MCGame for BombHistory.                                    *)
(***************************************************************************)
EXTENDS BombHistory, MCGame
=============================================================================
