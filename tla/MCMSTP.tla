------------------------------- MODULE MCMSTP -------------------------------
(***************************************************************************)
(* Rings of two and three master nodes.                                    *)
(***************************************************************************)
EXTENDS MSTPMaster

TwoStations == {0, 2}
ThreeStations == {0, 1, 2}
NoTraffic == {}
AllTraffic == WithData \ {"TEST_RESPONSE"}
GarbleOnly == {"garble"}
AllFaults == {"late", "lose", "garble", "crash", "stagger"}
=============================================================================
