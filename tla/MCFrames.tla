------------------------------ MODULE MCFrames ------------------------------
(***************************************************************************)
(* The two state machines of an MS/TP node, one at work in each behaviour  *)
(* while the other keeps the state it starts with: two masters that pass a *)
(* token and data, and a station that receives octets.                     *)
(***************************************************************************)
EXTENDS MCMSTP, MCMSTPReceive

VARIABLE part

framesVars == <<vars, rcvVars, part>>

FramesInit ==
    /\ part \in {"masters", "receiver"}
    /\ Init /\ RcvInit
    /\ part # "masters" => up = {}
    /\ part # "receiver" => frame = CHOOSE f \in Frames : TRUE

Masters == part = "masters" /\ Next /\ UNCHANGED <<rcvVars, part>>
Receiver == part = "receiver" /\ RcvNext /\ UNCHANGED <<vars, part>>

FramesSpec == FramesInit /\ [][Masters \/ Receiver]_framesVars

\* The masters alone, each with its task running and with time passing.
RingInit == part = "masters" /\ FramesInit

RingSpec == RingInit /\ [][Masters]_framesVars /\ Fairness
=============================================================================
