------------------------------ MODULE MCService ------------------------------
(* Service for TLC: two utilities, one of which fills more than a page. *)
EXTENDS Service

RowBound == [d \in Dbs |-> IF d = 1 THEN Batch + 1 ELSE 1]
=============================================================================
