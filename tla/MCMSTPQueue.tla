---------------------------- MODULE MCMSTPQueue ----------------------------
(***************************************************************************)
(* A ring of four elements whose indices wrap at eight.                    *)
(***************************************************************************)
EXTENDS MSTPQueue

BothPorts == {"dlmstp", "dlmstp_linux"}
\* The port that walks its ring is taken before its indices wrap, the other
\* one also when they are about to.
Before == [dlmstp |-> {0, 6}, dlmstp_linux |-> {0}]
Puts == [dlmstp |-> 5, dlmstp_linux |-> 5]
=============================================================================
