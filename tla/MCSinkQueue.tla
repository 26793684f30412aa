---------------------------- MODULE MCSinkQueue ----------------------------
(* Model values for SinkQueue.                                             *)
EXTENDS SinkQueue, TLC

CONSTANTS t, u, a, b, x, y, f1, f2

TwoTables == {t, u}
TwoSpecs  == {a, b}
TwoConns  == {x, y}
First     == [table |-> t, spec |-> a, conn |-> x]

\* Other tags, no tags, another table, another database, no database.
Some == {[First EXCEPT !.spec = b], [First EXCEPT !.spec = None], [First EXCEPT !.table = u],
         [First EXCEPT !.conn = y], [First EXCEPT !.conn = None]}
Two       == {f1, f2}
=============================================================================
