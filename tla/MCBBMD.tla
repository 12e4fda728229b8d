------------------------------- MODULE MCBBMD -------------------------------
(***************************************************************************)
(* Three BBMDs, a plain device beside two of them, two foreign devices.    *)
(***************************************************************************)
EXTENDS BBMD, TLC

CONSTANTS bbmd1, bbmd2, bbmd3, dev1, dev2, fd1, fd2

SubnetOf == dev1 :> bbmd1 @@ dev2 :> bbmd2
SlotsOf == bbmd1 :> 2 @@ bbmd2 :> 1 @@ bbmd3 :> 1
TTLOf == fd1 :> 2 @@ fd2 :> 1

\* Each BBMD lists itself and its peers; which are reached by unicast, or by a
\* broadcast directed at their subnet.  The entry of bbmd3, which has its subnet
\* to itself, is the same in its own table, so that its broadcasts come back.
Tables(mask) ==
    [x \in BBMDs |->
        {[addr |-> y, mask |-> IF x = y /\ x # bbmd3 THEN "unicast" ELSE mask] : y \in BBMDs}]

Scenario(mask, home, sends, faults, clock) ==
    [bdt |-> Tables(mask), home |-> home, sends |-> sends, faults |-> faults, clock |-> clock]

\* A broadcast while nothing else happens, or with one fault; leases on the BBMD
\* with a single slot, or with one for each device; a home that is no BBMD.
Worlds ==
    {Scenario(mask, fd1 :> bbmd1 @@ fd2 :> h, 1, 0, FALSE) :
        mask \in {"unicast", "directed"}, h \in {bbmd1, bbmd2}}
    \cup {Scenario("unicast", fd1 :> bbmd1 @@ fd2 :> bbmd2, 1, 1, FALSE)}
    \cup {Scenario("unicast", fd1 :> h @@ fd2 :> bbmd2, 0, 2, TRUE) : h \in {bbmd2, dev1}}
    \cup {Scenario("unicast", fd1 :> bbmd1 @@ fd2 :> bbmd1, 0, 0, TRUE)}
=============================================================================
