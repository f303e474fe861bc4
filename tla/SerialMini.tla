------------------------------ MODULE SerialMini ------------------------------
(***************************************************************************)
(* The Mini as if files were applied one at a time: each step is one file's  *)
(* whole transaction.                                                        *)
(***************************************************************************)
EXTENDS MiniTables

VARIABLE db

Init == db = EmptyDatabase

Next == \E f \in Files : db' = ApplyFile(db, f.body)

Spec == Init /\ [][Next]_db
=============================================================================
