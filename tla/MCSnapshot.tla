------------------------------ MODULE MCSnapshot ------------------------------
(* The snapshot for TLC: Collect with a feed that breaks, and the rows of    *)
(* every small table against its trigger.                                    *)
EXTENDS MCCollect, SnapshotRow

(* Whenever a snapshot emits rows, whatever the table, an I it emits has the *)
(* key the row's trigger gave it -- or capture.current would hold the row    *)
(* twice -- and the captured columns with their own values, none that the    *)
(* utility excluded.                                                         *)
SnapshotAgreesWithTrigger == (\E p \in Procs : pc[p] = "emit") => AllAgree
=============================================================================
