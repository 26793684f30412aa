------------------------- MODULE MCSessionDirectory -------------------------
(* Model values for SessionDirectory.                                      *)
EXTENDS SessionDirectory, TLC

CONSTANTS a, b, k1, k2

CallersDef == {a, b}
OneConn    == {k1}
TwoConns   == {k1, k2}
AllOps     == {"ensure", "remove", "stop", "shutdown"}
DownOps    == {"ensure", "shutdown"}
=============================================================================
