---------------------------- MODULE MCMSTPReceive ----------------------------
(***************************************************************************)
(* A station with address 1 and a buffer for two octets.  It hears tokens  *)
(* for itself and for station 2, data for itself (in which the preamble    *)
(* occurs), for everyone, for station 2, and too long.                     *)
(***************************************************************************)
EXTENDS MSTPReceive

SomeFrames ==
  {[type |-> 0, dst |-> 1, src |-> 2, data |-> <<>>],
   [type |-> 0, dst |-> 2, src |-> 0, data |-> <<>>],
   [type |-> 6, dst |-> 1, src |-> 2, data |-> <<85, 255>>],
   [type |-> 6, dst |-> 255, src |-> 2, data |-> <<7>>],
   [type |-> 6, dst |-> 2, src |-> 0, data |-> <<7>>],
   [type |-> 6, dst |-> 1, src |-> 2, data |-> <<7, 85, 7>>]}
SomeNoise == {7, 85, 255}
=============================================================================
