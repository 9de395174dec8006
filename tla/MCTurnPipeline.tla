--------------------------- MODULE MCTurnPipeline ---------------------------
EXTENDS TurnPipeline
CONSTANTS m1, m2, m3, n1, s1, s2, w1, w2
=============================================================================
