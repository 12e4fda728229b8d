----------------------------- MODULE MCNetwork -----------------------------
(***************************************************************************)
(* Three parts that share no state: the transactions of a client, the      *)
(* routers of an internetwork, and the threads of one router.  One of them *)
(* is at work in each behaviour while the others keep the state they start *)
(* with.                                                                   *)
(***************************************************************************)
EXTENDS MCTSM, MCRouter, MCRouterPorts

VARIABLE part

netVars == <<tsmVars, nrVars, rpVars, part>>

NetInit ==
    /\ part \in {"transactions", "routers", "threads"}
    /\ TSMInit /\ NRInit /\ RPInit

Transactions == part = "transactions" /\ TSMNext /\ UNCHANGED <<nrVars, rpVars, part>>
Internetwork == part = "routers" /\ NRNext /\ UNCHANGED <<tsmVars, rpVars, part>>
Threads == part = "threads" /\ RPNext /\ UNCHANGED <<tsmVars, nrVars, part>>

\* The fairness of the part at work.
NetFairness ==
    /\ \A r \in Routers : \A p \in Ports(r) : WF_nrVars(part = "routers" /\ Receive(r, p))
    /\ \A q \in Asked : SF_nrVars(part = "routers" /\ AskForRoute(q))
    /\ WF_rpVars(part = "threads" /\ MainSteps)
    /\ \A p \in Port : WF_rpVars(part = "threads" /\ PortSteps(p))

NetSpec == NetInit /\ [][Transactions \/ Internetwork \/ Threads]_netVars /\ NetFairness
=============================================================================
