------------------------------- MODULE MCTSM -------------------------------
(***************************************************************************)
(* The TSM table on a small instance: as many slots as invoke IDs, so that *)
(* the table fills and the counter wraps past IDs still in use.            *)
(***************************************************************************)
EXTENDS TSM

MCElapsed == {1, 2}
=============================================================================
