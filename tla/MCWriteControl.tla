--------------------------- MODULE MCWriteControl ---------------------------
(* Model values for WriteControl.                                          *)
EXTENDS WriteControl

CONSTANTS p1, p2

TwoProcs == {p1, p2}
=============================================================================
