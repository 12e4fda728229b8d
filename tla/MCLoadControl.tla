--------------------------- MODULE MCLoadControl ---------------------------
EXTENDS LoadControl

TwoLevels == {[value |-> 90, default |-> TRUE], [value |-> 80, default |-> FALSE]}
LCDurations == {0, 2}
LCStarts == {0, 1}
Levels == {85}
============================================================================
