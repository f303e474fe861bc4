---------------------------- MODULE CaptureEvents ----------------------------
(***************************************************************************)
(* The event envelope every part of the capture bus exchanges, and what a   *)
(* set of events says about the rows of the captured tables.                *)
(*                                                                          *)
(* An event keeps the fields the code decides on: src_db, seq, the row it    *)
(* is about, op and after.  A row's identity is the pair (tbl, key) of the   *)
(* code; the model folds both into one member of Keys.  ts and before are    *)
(* carried by the code and never read by it, so they are left out.           *)
(***************************************************************************)
EXTENDS Integers

CONSTANTS
  SrcDbs,    \* announce db_names, each given by its rank in string order
  Keys,      \* (tbl, key) pairs
  Afters,    \* row images
  NoAfter    \* the missing `after` of a D (or of a malformed I / U)

ASSUME EventConstants == SrcDbs \subseteq Int /\ NoAfter \notin Afters

(* What capture.events accepts: CHECK (op IN ('I','U','D')). *)
Ops == {"I", "U", "D"}

(* A line of a spool file.  Op "X" stands for every line the Mini refuses:   *)
(* one serde cannot parse, one the CHECK refuses, one whose JSON Postgres    *)
(* cannot store.                                                             *)
Event == [src: SrcDbs, seq: Nat, key: Keys, op: Ops \cup {"X"},
          after: Afters \cup {NoAfter}]

(* A row of capture.current. *)
Row == [src: SrcDbs, key: Keys, after: Afters, seq: Nat]

RowOf(e) == [src |-> e.src, key |-> e.key, after |-> e.after, seq |-> e.seq]

SameRow(a, b) == a.src = b.src /\ a.key = b.key

(* An I or a U that carries a row image; an I or U without one changes no    *)
(* row.                                                                      *)
CarriesRow(e) == e.op # "D" /\ e.after # NoAfter

(* S holds a D of the same row, later than r. *)
LaterDelete(S, r) == \E d \in S : SameRow(d, r) /\ d.op = "D" /\ d.seq > r.seq

(* The rows a set of events leaves behind when each row is decided by the    *)
(* latest of its events that says anything about it: the reference meaning   *)
(* of capture.current.                                                       *)
Latest(S, e) ==
  \A d \in S : SameRow(d, e) /\ (d.op = "D" \/ CarriesRow(d)) => d.seq <= e.seq

LiveRows(S) == {RowOf(e) : e \in {e \in S : CarriesRow(e) /\ Latest(S, e)}}

(* The events with the primary key (src_db, seq) of e. *)
Logged(S, e) == \E d \in S : d.src = e.src /\ d.seq = e.seq
=============================================================================
