----------------------- MODULE MCCollectionController -----------------------
(* Model values for CollectionController.                                  *)
EXTENDS CollectionController, TLC

CONSTANTS p1, p2, p3

TwoProcs   == {p1, p2}
ThreeProcs == {p1, p2, p3}
BothModes  == {"Configured", "AllSimulation"}
OneMode    == {"Configured"}
AllOps     == LifecycleOps \cup {"live"}
StopLive   == {"start", "stop", "live"}
StopOnly   == {"start", "stop"}
None       == {}
DropStop   == {"stop"}
BothExits  == {"quit", "down"}
=============================================================================
