------------------------- MODULE MCRangeDiagnostics -------------------------
(* Model values for RangeDiagnostics.                                      *)
EXTENDS RangeDiagnostics, TLC

CONSTANTS c1, c2

CallersDef == {c1, c2}
KindsDef   == AwaitKinds \cup DiagKinds
=============================================================================
