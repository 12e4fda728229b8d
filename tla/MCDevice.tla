------------------------------ MODULE MCDevice ------------------------------
(***************************************************************************)
(* Two applications over two slots and three invoke IDs, or a notifier.    *)
(***************************************************************************)
EXTENDS Device, TLC

MCPdus == Users \X (1 .. MaxRequests)
One == {1}
ZeroOrOne == {0, 1}
NoOne == {}
AppSymmetry == Permutations(Apps)
=============================================================================
