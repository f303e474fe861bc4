----------------------------- MODULE PointInTime -----------------------------
(***************************************************************************)
(* What a reader of the Mini may take capture.current for: row by row, the   *)
(* utility's table as it was at the moment the watermark names, where no     *)
(* event of the row is missing and no D of it came late.  The variables of   *)
(* this module are history: they change nothing of what the bus does.        *)
(***************************************************************************)
EXTENDS Pipeline

VARIABLES
  was,      \* seq -> the table as it was while that was the journal's last
  late,     \* the keys of the rows that a D reached too late
  reach     \* the last seq that was published when this rsync began

history == <<was, late, reach>>
datedVars == <<allVars, history>>

(* The promise of the bus when files reach the Mini in any order. *)
Bus == INSTANCE Mirror WITH log <- mini.events, live <- mini.current

(* The last seq of some events. *)
Top(events) == Max({0} \cup Seqs(events))

(* While the feed misses changes, the journal does not tell the table.       *)
Record ==
  /\ was' = IF missed' THEN was
            ELSE [s \in DOMAIN was \cup {Top(journal)'} |->
                    IF s = Top(journal)' THEN table' ELSE was[s]]
  /\ late' = Bus!StillLate(mini.events, mini'.events \ mini.events)
  /\ reach' = IF pull' # "rsync" THEN 0 ELSE IF pull = "idle" THEN Top(Published) ELSE reach

DatedInit == PipelineInit /\ was = [s \in {0} |-> table] /\ late = {} /\ reach = 0
DatedNext == PipelineNext /\ Record
DatedSpec == DatedInit /\ [][DatedNext]_datedVars
FairDatedSpec == DatedSpec /\ PipelineFairness
-----------------------------------------------------------------------------
(* The rows are those of the log, except the ones a D reached after a later  *)
(* image, and those are wrong until something newer happens to the row: a    *)
(* later pull that brings the missed file does not mend them.                *)
LiveButLate == Bus!Faithful

(* The bus as one step after another of an abstract one: files in any order, *)
(* again and again, change a right row only by what is later than all that   *)
(* is logged of it, or make it late; the utility writes behind all it wrote. *)
Mirrors == Bus!Spec

(* What rsync brings closes every gap up to what was published when it       *)
(* began, gaps that earlier pulls or failed ones left included.              *)
RsyncCatchesUp ==
  [][ListLocal => \A e \in journal :
       e.seq <= reach =>
         e \in mini.events \cup UNION {incoming[n] : n \in DOMAIN incoming}]_datedVars

(* Of a table: key and image of the row at k, if there is one.               *)
ImageAt(t, k) == IF t[k] = NoAfter THEN {} ELSE {t[k]}

(* A row that is not late, and that no event up to the watermark is missing  *)
(* of, is the table's as it was when the watermark's event was the last one: *)
(* no mixture of two moments, in whatever pages drains and snapshots cut it. *)
(* With a feed that misses nothing there is such a moment for every          *)
(* watermark: no file ends in the middle of a page.                          *)
ShowsAPastTable ==
  LET mark == mini.watermarks[Db]
      Missing(k) == \E e \in journal \ mini.events : e.key = k /\ e.seq <= mark IN
    /\ mark \in DOMAIN was =>
         \A k \in Keys \ late :
           Missing(k) \/ {r.after : r \in Bus!RowsAt(mini.current, k)} = ImageAt(was[mark], k)
    /\ Missable = {} => mark \in DOMAIN was

(* In the end nothing is missing, and of the rows that are not late those of *)
(* the table are in capture.current, and no others.                          *)
MiniConverges ==
  <>[](/\ journal \subseteq mini.events
       /\ \A k \in Keys \ late :
            {r.after : r \in Bus!RowsAt(mini.current, k)} = ImageAt(table, k))
=============================================================================
