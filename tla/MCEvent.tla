------------------------------ MODULE MCEvent ------------------------------
EXTENDS EventReporting

People ==
    {[kind |-> "device", confirmed |-> TRUE, transitions |-> Transitions],
     [kind |-> "address", confirmed |-> FALSE, transitions |-> {"offnormal"}],
     [kind |-> "address", confirmed |-> TRUE, transitions |-> {"normal"}]}
Both == Transitions
Delays == {0, 1}
=============================================================================
