----------------------------- MODULE MCTsWriter -----------------------------
(* Model values for TsWriter.                                              *)
EXTENDS TsWriter

CONSTANTS A, B

TwoTimes  == {0, 3}
Both      == {A, B}
OneConfig == {A}
Widths    == [c \in Configs |-> IF c = A THEN 4 ELSE 8]
=============================================================================
