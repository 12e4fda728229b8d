----------------------------- MODULE MCTrendLog -----------------------------
EXTENDS TrendLog

FewCounts == {-4, -2, 1, 4}
OneTwo == {1, 2}
ZeroOne == {0, 1}
=============================================================================
