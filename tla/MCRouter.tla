------------------------------ MODULE MCRouter ------------------------------
(***************************************************************************)
(* Three routers in a row join four networks; the third network's number   *)
(* does not fit an octet.  Devices ask for a network two or three routers  *)
(* away, and for all there are.                                            *)
(***************************************************************************)
EXTENDS NetworkRouter, TLC

CONSTANTS r1, r2, r3

BIPOf == r1 :> 1 @@ r2 :> 300 @@ r3 :> 300
MSTPOf == r1 :> 2 @@ r2 :> 2 @@ r3 :> 4
Pairs == {<<1, 2>>, <<2, 4>>}
Questions == {<<1, 4>>, <<2, 4>>, <<2, 0>>}

NRFairSpec == NRSpec /\ NRFairness
=============================================================================
