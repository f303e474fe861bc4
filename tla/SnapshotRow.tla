----------------------------- MODULE SnapshotRow -----------------------------
(***************************************************************************)
(* What a snapshot's I events say of a row, against what the table's insert  *)
(* trigger says of it.  The snapshot knows the captured columns only from    *)
(* the text of the trigger, which it reads as tokens here: the call          *)
(* `json_object(`, a quoted name, a `)`, or anything else.                   *)
(*                                                                          *)
(* The triggers are the utility's, of the shape DAILY_OPS promises: the last *)
(* `json_object(` is the captured payload.                                   *)
(***************************************************************************)
EXTENDS Integers, FiniteSetsExt, Sequences
LOCAL INSTANCE SequencesExt

CONSTANTS
  Columns,    \* the column names of the utilities' tables, "rowid" not among them
  Idents,     \* those that validate_ident accepts
  MaxCaptured \* bound: the columns of a payload

ASSUME SnapshotRowConstants ==
  Idents \subseteq Columns /\ "rowid" \notin Columns /\ MaxCaptured \in Nat

ColumnLists(n) == {s \in BoundedSeq(Columns, n) : IsInjective(s)}

(* A captured table: its primary key in the order of its ranks, the columns  *)
(* the utility has chosen to capture.                                        *)
Tables == {t \in [pk: ColumnLists(2), payload: ColumnLists(MaxCaptured) \ {<<>>},
                  withoutRowid: BOOLEAN] :
             t.withoutRowid => t.pk # <<>>}

(* A row tells its columns apart. *)
RowOfTable == [c \in Columns \cup {"rowid"} |-> <<"value of", c>>]
-----------------------------------------------------------------------------
Quote(c) == [kind |-> "quote", name |-> c]
Mark(kind) == [kind |-> kind, name |-> ""]
Call == Mark("call")
Close == Mark("close")
Other == Mark("other")

(* json_object('c', NEW.c, ...) *)
JsonObject(cols) ==
  <<Call>> \o FlattenSeq([i \in DOMAIN cols |-> <<Quote(cols[i]), Other>>]) \o <<Close>>

KeyColumns(t) == IF t.pk = <<>> THEN <<"rowid">> ELSE t.pk

(* VALUES ('tbl', 'I', <key>, NULL, <payload>); END *)
TriggerText(t) ==
  <<Quote("tbl"), Quote("I")>> \o JsonObject(KeyColumns(t)) \o <<Other>>
    \o JsonObject(t.payload) \o <<Close, Other>>

(* What the trigger writes of a row. *)
TriggerKey(t, row) == [c \in Range(KeyColumns(t)) |-> row[c]]
TriggerAfter(t, row) == [c \in Range(t.payload) |-> row[c]]
-----------------------------------------------------------------------------
(* Fault: find in place of rfind. *)
FromFirstCall(text) == Min({i \in DOMAIN text : text[i].kind = "call"})

(* rfind of `json_object(`, 0 when there is none. *)
FromLastCall(text) == Max({0} \cup {i \in DOMAIN text : text[i].kind = "call"})

(* payload_from_insert_trigger: the quoted identifiers up to the first `)`.  *)
(* <<>> is a refusal, and with it the whole database's.                      *)
PayloadOf(text) ==
  LET call == FromLastCall(text)
      close == Min({Len(text) + 1} \cup {i \in call + 1..Len(text) : text[i].kind = "close"})
      names == SelectSeq(SubSeq(text, call + 1, close - 1),
                         LAMBDA token : token.kind = "quote" /\ token.name \in Idents) IN
    IF call = 0 THEN <<>> ELSE [i \in DOMAIN names |-> names[i].name]

(* captured_tables: a key column that is no identifier refuses it as well.   *)
Accepted(t) == PayloadOf(TriggerText(t)) # <<>> /\ Range(t.pk) \subseteq Idents

(* ordered_cols *)
OrderedColumns(t) ==
  t.pk \o SelectSeq(PayloadOf(TriggerText(t)), LAMBDA c : c \notin Range(t.pk))

(* A row of the SELECT: a WITHOUT ROWID table has no rowid in front.         *)
Selected(t, row) ==
  (IF t.withoutRowid THEN <<>> ELSE <<row["rowid"]>>)
    \o [i \in DOMAIN OrderedColumns(t) |-> row[OrderedColumns(t)[i]]]

(* The offset its callers give row_snap. *)
Offset(t) == IF t.withoutRowid THEN 0 ELSE 1

(* row_snap *)
ValueOf(t, row, c) ==
  LET cols == OrderedColumns(t) IN
    Selected(t, row)[Offset(t) + CHOOSE i \in DOMAIN cols : cols[i] = c]

SnapKey(t, row) ==
  IF t.pk = <<>> THEN [c \in {"rowid"} |-> row[c]]
  ELSE [c \in Range(t.pk) |-> ValueOf(t, row, c)]

SnapAfter(t, row) == [c \in Range(PayloadOf(TriggerText(t))) |-> ValueOf(t, row, c)]
-----------------------------------------------------------------------------
(* What the snapshot says of a row is what the trigger says of it, except    *)
(* for payload columns whose names are no identifiers, which it leaves out;  *)
(* only such names refuse a table.                                           *)
Agrees(t) ==
  /\ Range(t.pk) \cup Range(t.payload) \subseteq Idents => Accepted(t)
  /\ Accepted(t) =>
       /\ SnapKey(t, RowOfTable) = TriggerKey(t, RowOfTable)
       /\ SnapAfter(t, RowOfTable)
            = [c \in Range(t.payload) \cap Idents |-> TriggerAfter(t, RowOfTable)[c]]

AllAgree == \A t \in Tables : Agrees(t)
=============================================================================
