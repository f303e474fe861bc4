------------------------------ MODULE MiniTables ------------------------------
(***************************************************************************)
(* The Mini's spool files and capture tables, and what the statements of     *)
(* apply.rs do to a table: shared by one applier (Apply), by several at once *)
(* (Appliers) and by the abstract Mini (SerialMini).                         *)
(***************************************************************************)
EXTENDS CaptureEvents, Sequences

CONSTANT Files    \* the files that may arrive: [path, body] records

(* A file is named `<src_db>/<lo>-<hi>.jsonl`. *)
Path == [src: SrcDbs, lo: Nat, hi: Nat]
File == [path: Path, body: Seq(Event)]

ASSUME FilesAssumption == Files \subseteq File

(* The order list_jsonl sorts paths into. *)
Before(p, q) ==
  \/ p.src < q.src
  \/ p.src = q.src /\ p.lo < q.lo
  \/ p.src = q.src /\ p.lo = q.lo /\ p.hi < q.hi

(* A src_db without a row in capture.watermarks has watermark 0. *)
Database == [events: SUBSET Event, current: SUBSET Row,
             watermarks: [SrcDbs -> Nat]]

EmptyDatabase == [events |-> {}, current |-> {},
                  watermarks |-> [s \in SrcDbs |-> 0]]
-----------------------------------------------------------------------------
(* Fault: the GREATEST is missing. *)
BumpedBackwards(watermarks, e) == [watermarks EXCEPT ![e.src] = e.seq]

(* bump_watermark *)
Bumped(watermarks, e) ==
  [watermarks EXCEPT ![e.src] = IF @ < e.seq THEN e.seq ELSE @]

(* apply_current on a D: the row goes, whatever its seq. *)
Deleted(current, e) == {r \in current : ~SameRow(r, e)}

(* Fault: the NOT EXISTS is missing. *)
UpsertedUnderDelete(log, current, e) ==
  IF \E r \in current : SameRow(r, e) /\ r.seq >= e.seq THEN current
  ELSE Deleted(current, e) \cup {RowOf(e)}

(* Fault: DO UPDATE sets after and forgets seq. *)
UpsertedKeepingSeq(log, current, e) ==
  IF LaterDelete(log, e) \/ \E r \in current : SameRow(r, e) /\ r.seq >= e.seq
  THEN current
  ELSE Deleted(current, e)
       \cup {IF \E r \in current : SameRow(r, e)
            THEN [RowOf(e) EXCEPT !.seq = (CHOOSE r \in current : SameRow(r, e)).seq]
            ELSE RowOf(e)}

(* Fault: the seq comparison of DO UPDATE is the wrong way round. *)
UpsertedIfOlder(log, current, e) ==
  IF LaterDelete(log, e) \/ \E r \in current : SameRow(r, e) /\ r.seq <= e.seq
  THEN current
  ELSE Deleted(current, e) \cup {RowOf(e)}

(* apply_current on an I or a U with a row image: nothing when a later D is  *)
(* logged or the row is already at this seq or a later one.                  *)
Upserted(log, current, e) ==
  IF LaterDelete(log, e) \/ \E r \in current : SameRow(r, e) /\ r.seq >= e.seq
  THEN current
  ELSE Deleted(current, e) \cup {RowOf(e)}

ApplyCurrent(log, current, e) ==
  IF e.op = "D" THEN Deleted(current, e)
  ELSE IF CarriesRow(e) THEN Upserted(log, current, e)
  ELSE current

(* retract_stale_current *)
Retracted(log, current, src) ==
  {r \in current : ~(r.src = src /\ LaterDelete(log, r))}
-----------------------------------------------------------------------------
(* One event of a file: logged and applied, or passed over when it is        *)
(* logged already.                                                           *)
ApplyEvent(d, e) ==
  LET log == d.events \cup {e} IN
    [events |-> IF Logged(d.events, e) THEN d.events ELSE log,
     current |-> IF Logged(d.events, e) THEN d.current
                 ELSE ApplyCurrent(log, d.current, e),
     watermarks |-> Bumped(d.watermarks, e)]

(* A whole file: its events one after the other, and when some were passed   *)
(* over the rows of its source are healed.                                   *)
ApplyFile(d, body) ==
  LET upTo[i \in 0..Len(body)] == IF i = 0 THEN d ELSE ApplyEvent(upTo[i - 1], body[i])
      done == upTo[Len(body)] IN
    IF \E i \in DOMAIN body : Logged(d.events, body[i])
    THEN [done EXCEPT !.current = Retracted(done.events, @, body[1].src)]
    ELSE done
=============================================================================
