------------------------------ MODULE MCBatch ------------------------------
(* BatchManager with small sets of callers and events, for TLC.            *)
EXTENDS ForkedManager

CONSTANTS c1, c2

OneCaller == {c1}
TwoCallers == {c1, c2}
=============================================================================
