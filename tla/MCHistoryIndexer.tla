-------------------------- MODULE MCHistoryIndexer --------------------------
(* Instances of HistoryIndexer for TLC. *)
EXTENDS HistoryIndexer

CONSTANTS w1, w2

LongCurve == [v \in Venues |-> IF v = "dbc" THEN 3 ELSE 0]
LongPool  == [v \in Venues |-> IF v = "dbc" THEN 1 ELSE 4]
BothShort == [v \in Venues |-> IF v = "dbc" THEN 1 ELSE 2]
=============================================================================
