---------------------------- MODULE MCRouterPorts ----------------------------
(***************************************************************************)
(* Three ports with boxes for one message, and a network behind another    *)
(* router.                                                                 *)
(***************************************************************************)
EXTENDS RouterPorts

SomePackets ==
  {[kind |-> k[1], net |-> k[2]] :
     k \in {<<"apdu", 7>>, <<"apdu", 4>>, <<"i-am", 4>>, <<"who-is", 1>>}}

RPFairSpec == RPSpec /\ RPFairness
=============================================================================
