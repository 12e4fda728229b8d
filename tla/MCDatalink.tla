----------------------------- MODULE MCDatalink -----------------------------
(***************************************************************************)
(* Two data links and the queue before one of them, one at work in each    *)
(* behaviour while the others keep the state they start with: a ring of    *)
(* masters that meets every fault, the PDU queue of an MS/TP port, and the *)
(* BBMDs of a BACnet/IP network.                                           *)
(***************************************************************************)
EXTENDS MCMSTP, MCMSTPQueue, MCBBMD

VARIABLE part

linkVars == <<vars, mqVars, bbmdVars, part>>

LinkInit ==
    /\ part \in {"ring", "queue", "bbmd"}
    /\ Init /\ MQInit /\ BInit
    /\ part # "ring" => up = {}
    /\ part # "queue" => driver = "dlmstp" /\ head = 0
    /\ part # "bbmd" => world = CHOOSE w \in Scenarios : ~w.clock

Ring == part = "ring" /\ Next /\ UNCHANGED <<mqVars, bbmdVars, part>>
Queue == part = "queue" /\ MQNext /\ UNCHANGED <<vars, bbmdVars, part>>
Distribution == part = "bbmd" /\ BNext /\ UNCHANGED <<vars, mqVars, part>>

\* The fairness of the part at work.
LinkFairness ==
    /\ \A n \in Stations : WF_vars(part = "ring" /\ Prompt(n))
    /\ WF_vars(part = "ring" /\ Tick)
    /\ WF_mqVars(part = "queue" /\ MSTP_Get_Send)
    /\ SF_mqVars(part = "queue" /\ ReplyPostponed)
    /\ WF_mqVars(part = "queue" /\ (PutStore \/ PutReady \/ PutPost))
    /\ WF_mqVars(part = "queue" /\ (Compare \/ Create \/ Ringbuf_Pop))
    /\ WF_mqVars(part = "queue" /\ (PopFind \/ PopShift \/ PopAdvance))
    /\ WF_bbmdVars(part = "bbmd" /\ bvlc_handler)
    /\ WF_bbmdVars(part = "bbmd" /\ Second)
    /\ \A x \in BBMDs : WF_bbmdVars(part = "bbmd" /\ bvlc_maintenance_timer(x))
    /\ \A x \in Foreign : WF_bbmdVars(part = "bbmd" /\ dlenv_maintenance_timer(x))

LinkSpec == LinkInit /\ [][Ring \/ Queue \/ Distribution]_linkVars /\ LinkFairness
=============================================================================
