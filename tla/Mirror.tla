-------------------------------- MODULE Mirror --------------------------------
(***************************************************************************)
(* What the Mini promises when the files of one source may reach it in any   *)
(* order: a log that only grows, with events of the journal, and rows that   *)
(* follow it -- except those a D reached after a later image of the row.     *)
(* Such a row is late: it stays wrong until something happens to it that is  *)
(* later than all that is logged of it.                                      *)
(***************************************************************************)
EXTENDS CaptureEvents

VARIABLES
  journal,    \* every event the source has emitted
  log, live,
  late        \* the keys whose rows are wrong

RowsAt(rows, k) == {r \in rows : r.key = k}

(* The keys that an event decides of `new`, later than all others of the row. *)
Settled(old, new) ==
  {e.key : e \in {e \in new : (e.op = "D" \/ CarriesRow(e)) /\ Latest(old \cup new, e)}}

(* The keys with a D that comes when the row's latest image is there.        *)
Overtaken(old, new) ==
  {c.key : c \in {c \in old : /\ CarriesRow(c) /\ Latest(old \cup new, c)
                              /\ \E d \in new : SameRow(d, c) /\ d.op = "D"}}

StillLate(old, new) == (late \ Settled(old, new)) \cup Overtaken(old, new)

(* The rows of the log, and no others, but for the late ones, which are wrong. *)
Faithful == \A k \in Keys : RowsAt(live, k) = RowsAt(LiveRows(log), k) <=> k \notin late
-----------------------------------------------------------------------------
Init == log = {} /\ live = {} /\ late = {}

Emit ==
  /\ journal \subseteq journal' /\ UNCHANGED <<log, live, late>>
  /\ \A e \in journal' \ journal : \A d \in journal : d.src = e.src => d.seq < e.seq

(* A right row changes only by what is later than all that is logged of it.  *)
Grow ==
  /\ log \subseteq log' /\ log' \subseteq journal /\ UNCHANGED journal
  /\ late' = StillLate(log, log' \ log)
  /\ \A k \in Keys \ late' :
       RowsAt(live', k) = RowsAt(IF k \in Settled(log, log' \ log) THEN LiveRows(log') ELSE live, k)

Spec == Init /\ [][Emit \/ Grow]_<<journal, log, live, late>>
=============================================================================
