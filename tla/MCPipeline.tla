------------------------------ MODULE MCPipeline ------------------------------
(* Pipeline for TLC: one collector process, two rows. *)
EXTENDS PointInTime

CONSTANT a
=============================================================================
