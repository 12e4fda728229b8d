----------------------------- MODULE MCObjects -----------------------------
(***************************************************************************)
(* Seven parts of a device that share no state, one of them at work in each *)
(* behaviour while the others keep the state they start with.              *)
(***************************************************************************)
EXTENDS MCAddressCache, MCEvent, MCLoadControl, MCTrendLog, KeyList, MCDateTime,
        MCFileTransfer

VARIABLE part

objVars == <<acVars, erVars, lcVars, tlVars, klVars, dtVars, ftVars, part>>

ObjInit ==
    /\ part \in {"binding", "events", "load", "trend", "keys", "dates", "files"}
    /\ ACInit /\ ERInit /\ LCInit /\ TLInit /\ KLInit /\ DTInit /\ FTInit
    /\ part # "events" => Time_Delay = 0 /\ ~bound
    /\ part # "trend" => LogInfo.ulLogInterval = 1 /\ LogInfo.stop = 0
    /\ part # "keys" => list.size = 0
    /\ part # "files" => world = CHOOSE w \in Worlds : ~w.local
    /\ part # "dates" => bdatetime.year = 1900 /\ bdatetime.month = 1

Binding == part = "binding" /\ ACNext /\ UNCHANGED <<erVars, lcVars, tlVars, klVars, dtVars, ftVars, part>>
Events == part = "events" /\ ERNext /\ UNCHANGED <<acVars, lcVars, tlVars, klVars, dtVars, ftVars, part>>
Load == part = "load" /\ LCNext /\ UNCHANGED <<acVars, erVars, tlVars, klVars, dtVars, ftVars, part>>
Trend == part = "trend" /\ TLNext /\ UNCHANGED <<acVars, erVars, lcVars, klVars, dtVars, ftVars, part>>
Keys == part = "keys" /\ KLNext /\ UNCHANGED <<acVars, erVars, lcVars, tlVars, dtVars, ftVars, part>>
Dates == part = "dates" /\ DTNext /\ UNCHANGED <<acVars, erVars, lcVars, tlVars, klVars, ftVars, part>>
Files == part = "files" /\ FTNext /\ UNCHANGED <<acVars, erVars, lcVars, tlVars, klVars, dtVars, part>>

\* The fairness of the part at work.
ObjFairness ==
    /\ WF_erVars(part = "events" /\ Intrinsic_Reporting)
    /\ WF_lcVars(part = "load" /\ Load_Control_State_Machine_Handler)
    /\ WF_lcVars(part = "load" /\ Minute_Passes)
    /\ WF_ftVars(part = "files" /\ Tick)

ObjNext == Binding \/ Events \/ Load \/ Trend \/ Keys \/ Dates \/ Files

ObjSpec == ObjInit /\ [][ObjNext]_objVars /\ ObjFairness
============================================================================
