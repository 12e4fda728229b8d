------------------------------- MODULE MCCOV -------------------------------
(***************************************************************************)
(* Instances of COV: which subscriptions the clients c1 and c2 ask for.    *)
(***************************************************************************)
EXTENDS COV

CONSTANTS c1, c2, o1, o2, o3

\* Each client watches an object of its own.
OneSubscriberEach == {[src |-> c1, pid |-> 1, obj |-> o1],
                      [src |-> c2, pid |-> 1, obj |-> o2]}

\* Both clients watch the same object, under different process identifiers.
SharedObject == {[src |-> c1, pid |-> 1, obj |-> o1],
                 [src |-> c2, pid |-> 2, obj |-> o1]}

\* One client watches two objects, the other a third.
ThreeObjects == {[src |-> c1, pid |-> 1, obj |-> o1],
                 [src |-> c1, pid |-> 1, obj |-> o2],
                 [src |-> c2, pid |-> 2, obj |-> o3]}

NoOne == {}
Zero == {0}
One == {1}
ZeroOrOne == {0, 1}
=============================================================================
