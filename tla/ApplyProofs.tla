----------------------------- MODULE ApplyProofs -----------------------------
(***************************************************************************)
(* Apply's safety properties, for every set of files, in whatever order they *)
(* arrive.  The properties of the tables hold of the open transaction after  *)
(* each of its events, so the inductive invariant states them of tx as well  *)
(* as of db; the rest of it says how far the file in hand has got.           *)
(***************************************************************************)
EXTENDS Apply, TLAPS

TablesOK(d) == NoResurrectionIn(d) /\ RowsBackedIn(d) /\ WatermarkIsMaxIn(d)

InHand == pc \in {"events", "remove"}

(* The file in hand is the one whose events were read, and leaves the list.  *)
FileInHand ==
  IF InHand
  THEN \E p \in DOMAIN incoming :
         path = {p} /\ body = incoming[p] /\ p \notin paths
  ELSE path = {} /\ body = <<>> /\ pos = 1 /\ skipped = FALSE

(* The events before pos are logged, and all of them after the commit. *)
PassedLogged ==
  /\ InHand => \A i \in DOMAIN body : i < pos => Logged(tx.events, body[i])
  /\ pc = "remove" => pos > Len(body)

(* Outside a transaction, and in one that replays, tx sees db. *)
AllLogged == \A i \in DOMAIN body : Logged(db.events, body[i])
TxView == pc # "events" \/ AllLogged => tx = db

IInv ==
  TypeOK /\ TablesOK(db) /\ TablesOK(tx) /\ FileInHand /\ PassedLogged /\ TxView
-----------------------------------------------------------------------------
(* apply_current keeps each row's promise: what it leaves for the row of e   *)
(* is backed by the log and newer than every logged D of that row.           *)
LEMMA CurrentStep ==
  ASSUME NEW log \in SUBSET Event, NEW current \in SUBSET Row,
         NEW e \in Event, e.op \in Ops,
         \A r \in current : ~LaterDelete(log, r),
         \A r \in current : \E f \in log : CarriesRow(f) /\ r = RowOf(f),
         \A q, r \in current : SameRow(q, r) => q = r
  PROVE  LET new == ApplyCurrent(log \cup {e}, current, e) IN
           /\ new \in SUBSET Row
           /\ \A r \in new : ~LaterDelete(log \cup {e}, r)
           /\ \A r \in new : \E f \in log \cup {e} : CarriesRow(f) /\ r = RowOf(f)
           /\ \A q, r \in new : SameRow(q, r) => q = r
<1> DEFINE new == ApplyCurrent(log \cup {e}, current, e)
<1>1. \A r \in Deleted(current, e) : r \in current /\ ~SameRow(r, e)
  BY DEF Deleted
<1>2. CASE e.op = "D"
  <2>1. new = Deleted(current, e)
    BY <1>2 DEF ApplyCurrent
  <2>2. \A r \in new : ~LaterDelete(log \cup {e}, r)
    BY <2>1, <1>1 DEF LaterDelete, SameRow
  <2> QED
    BY <2>1, <2>2, <1>1
<1>3. CASE e.op # "D" /\ ~CarriesRow(e)
  <2>1. new = current
    BY <1>3 DEF ApplyCurrent
  <2> QED
    BY <2>1, <1>3 DEF LaterDelete
<1>4. CASE CarriesRow(e)
  <2>1. e.op # "D" /\ RowOf(e) \in Row
    BY <1>4 DEF CarriesRow, RowOf, Row, Event
  <2>2. \A r : LaterDelete(log \cup {e}, r) => LaterDelete(log, r)
    BY <2>1 DEF LaterDelete
  <2>3. CASE new = current
    BY <2>2, <2>3
  <2>4. CASE new # current
    <3>1. /\ new = Deleted(current, e) \cup {RowOf(e)}
          /\ ~LaterDelete(log \cup {e}, e)
      BY <1>4, <2>1, <2>4 DEF ApplyCurrent, Upserted
    <3>2. ~LaterDelete(log \cup {e}, RowOf(e))
      BY <3>1 DEF LaterDelete, SameRow, RowOf
    <3>3. \A r \in new : r = RowOf(e) \/ (r \in current /\ ~SameRow(r, RowOf(e)))
      BY <3>1, <1>1 DEF SameRow, RowOf
    <3>4. \A q, r \in new : SameRow(q, r) => q = r
      BY <3>3 DEF SameRow
    <3> QED
      BY <1>4, <2>1, <2>2, <3>2, <3>3, <3>4
  <2> QED
    BY <2>3, <2>4
<1> QED
  BY <1>2, <1>3, <1>4 DEF CarriesRow

(* The watermark stays the highest logged seq when e is logged. *)
LEMMA WatermarkStep ==
  ASSUME NEW log \in SUBSET Event, NEW marks \in [SrcDbs -> Nat],
         NEW e \in Event,
         \A f \in log : f.seq <= marks[f.src],
         \A s \in SrcDbs : marks[s] = 0 \/ \E f \in log : f.src = s /\ f.seq = marks[s]
  PROVE  LET new == Bumped(marks, e) IN
           /\ new \in [SrcDbs -> Nat]
           /\ \A f \in log \cup {e} : f.seq <= new[f.src]
           /\ \A s \in SrcDbs : new[s] = 0
                 \/ \E f \in log \cup {e} : f.src = s /\ f.seq = new[s]
<1> DEFINE new == Bumped(marks, e)
<1>1. /\ e.src \in SrcDbs /\ e.seq \in Nat
      /\ \A f \in log : f.src \in SrcDbs /\ f.seq \in Nat
  BY DEF Event
<1>2. /\ new \in [SrcDbs -> Nat]
      /\ \A s \in SrcDbs : s # e.src => new[s] = marks[s]
      /\ new[e.src] = IF marks[e.src] < e.seq THEN e.seq ELSE marks[e.src]
  BY <1>1 DEF Bumped
<1> HIDE DEF new
<1>3. \A f \in log \cup {e} : f.seq <= new[f.src]
  BY <1>1, <1>2
<1>4. ASSUME NEW s \in SrcDbs, new[s] # 0
      PROVE  \E f \in log \cup {e} : f.src = s /\ f.seq = new[s]
  <2>1. CASE s = e.src /\ marks[s] < e.seq
    BY <1>2, <2>1
  <2>2. CASE ~(s = e.src /\ marks[s] < e.seq)
    <3>1. new[s] = marks[s]
      BY <1>2, <2>2
    <3> QED
      BY <1>4, <3>1
  <2> QED
    BY <2>1, <2>2
<1> QED
  BY <1>2, <1>3, <1>4 DEF new

(* Bumping the watermark to the seq of a logged event does nothing. *)
LEMMA WatermarkSkip ==
  ASSUME NEW log \in SUBSET Event, NEW marks \in [SrcDbs -> Nat],
         NEW e \in Event, Logged(log, e),
         \A f \in log : f.seq <= marks[f.src]
  PROVE  Bumped(marks, e) = marks
<1>1. e.src \in SrcDbs /\ e.seq \in Nat /\ e.seq <= marks[e.src]
  BY DEF Event, Logged
<1>2. ~(marks[e.src] < e.seq)
  BY <1>1
<1> QED
  BY <1>2 DEF Bumped

(* With no resurrected row there is nothing to retract. *)
LEMMA RetractNothing ==
  ASSUME NEW log, NEW current, NEW src,
         \A r \in current : ~LaterDelete(log, r)
  PROVE  Retracted(log, current, src) = current
BY DEF Retracted
-----------------------------------------------------------------------------
(* The empty Mini satisfies the invariant. *)
LEMMA InitIInv == Init => IInv
<1> SUFFICES ASSUME Init PROVE IInv
  OBVIOUS
<1>1. EmptyDatabase \in Database /\ TablesOK(EmptyDatabase)
  BY DEF EmptyDatabase, Database, TablesOK, NoResurrectionIn, RowsBackedIn,
         WatermarkIsMaxIn
<1>2. DOMAIN incoming = {}
  BY DEF Init
<1>3. body \in Seq(Event) /\ pos \in Nat \ {0}
  BY DEF Init
<1>4. TypeOK
  BY <1>1, <1>2, <1>3 DEF Init, TypeOK
<1> QED
  BY <1>1, <1>4 DEF Init, IInv, FileInHand, PassedLogged, TxView, InHand

(* One step per action.  A delivery, or the start of a run, leaves tables    *)
(* and file alone.                                                           *)
LEMMA ArriveIInv ==
  ASSUME IInv, NEW F \in SUBSET Files, Arrive(F)
  PROVE  IInv'
<1>1. DOMAIN incoming' = DOMAIN incoming \cup {f.path : f \in F}
  BY DEF Arrive
<1>2. ASSUME NEW p \in DOMAIN incoming'
      PROVE  p \in Path /\ incoming'[p] \in Seq(Event)
  <2>1. CASE \E f \in F : f.path = p
    <3> DEFINE g == CHOOSE f \in F : f.path = p
    <3>1. g \in F /\ g.path = p
      BY <2>1
    <3>2. incoming'[p] = g.body
      BY <1>1, <2>1 DEF Arrive
    <3> QED
      BY <3>1, <3>2, FilesAssumption DEF File
  <2>2. CASE ~\E f \in F : f.path = p
    BY <1>1, <2>2 DEF Arrive, IInv, TypeOK
  <2> QED
    BY <2>1, <2>2
<1>3. paths' \subseteq DOMAIN incoming'
  BY <1>1 DEF IInv, TypeOK, Arrive
<1>4. TypeOK'
  BY <1>2, <1>3 DEF IInv, TypeOK, Arrive
<1> QED
  BY <1>4 DEF IInv, Arrive, FileInHand, PassedLogged, TxView, InHand, AllLogged

(* Listing the directory touches no table. *)
LEMMA StartSpoolIInv ==
  ASSUME IInv, NEW delete \in BOOLEAN, StartSpool(delete)
  PROVE  IInv'
BY DEF IInv, StartSpool, TypeOK, FileInHand, PassedLogged, TxView, InHand, AllLogged

(* Opening a file: the transaction sees what is committed. *)
LEMMA BeginIInv ==
  ASSUME IInv, pc \in {"idle", "next"},
         NEW p \in DOMAIN incoming, Begin(p), deleteAfter' \in BOOLEAN,
         paths' \subseteq DOMAIN incoming, p \notin paths'
  PROVE  IInv'
<1>1. TypeOK'
  BY DEF IInv, TypeOK, Begin
<1>2. FileInHand'
  <2>1. /\ pc' = "events" /\ path' = {p} /\ body' = incoming'[p]
        /\ p \in DOMAIN incoming' /\ p \notin paths'
    BY DEF Begin
  <2> QED
    BY <2>1 DEF FileInHand, InHand
<1>3. PassedLogged'
  <2>1. pc' = "events" /\ pos' = 1
    BY DEF IInv, Begin, FileInHand, InHand
  <2>2. \A i \in DOMAIN body' : ~(i < pos')
    BY <1>1, <2>1 DEF TypeOK
  <2> QED
    BY <2>1, <2>2 DEF PassedLogged
<1>4. TxView'
  BY DEF IInv, Begin, TxView
<1> QED
  BY <1>1, <1>2, <1>3, <1>4 DEF IInv, Begin

(* One event: the transaction's tables keep their promises, and the event    *)
(* passed is logged.                                                         *)
LEMMA EventIInv ==
  ASSUME IInv, LogEvent \/ SkipEvent
  PROVE  IInv'
<1>1. /\ pc = "events" /\ pos \in DOMAIN body /\ Ev \in Event /\ Ev = body[pos]
      /\ Ev.op \in Ops
  BY DEF IInv, TypeOK, LogEvent, SkipEvent, AtEvent, Ev
<1>2. /\ tx.events \in SUBSET Event /\ tx.current \in SUBSET Row
      /\ tx.watermarks \in [SrcDbs -> Nat]
  BY DEF IInv, TypeOK, Database
<1>3. /\ pos' = pos + 1 /\ pos' \in Nat \ {0}
      /\ UNCHANGED <<db, incoming, pc, paths, path, body, deleteAfter>>
  BY DEF LogEvent, SkipEvent, IInv, TypeOK
<1>4. /\ tx' \in Database /\ TablesOK(tx')
      /\ tx.events \subseteq tx'.events /\ Logged(tx'.events, Ev)
      /\ Logged(tx.events, Ev) => tx' = tx
  <2>1. CASE LogEvent
    <3> DEFINE log == tx.events \cup {Ev}
               current == ApplyCurrent(log, tx.current, Ev)
               marks == Bumped(tx.watermarks, Ev)
    <3>1. /\ current \in SUBSET Row
          /\ \A r \in current : ~LaterDelete(log, r)
          /\ \A r \in current : \E f \in log : CarriesRow(f) /\ r = RowOf(f)
          /\ \A q, r \in current : SameRow(q, r) => q = r
      BY <1>1, <1>2, CurrentStep DEF IInv, TablesOK, NoResurrectionIn, RowsBackedIn
    <3>2. /\ marks \in [SrcDbs -> Nat]
          /\ \A f \in log : f.seq <= marks[f.src]
          /\ \A s \in SrcDbs :
               marks[s] = 0 \/ \E f \in log : f.src = s /\ f.seq = marks[s]
      BY <1>1, <1>2, WatermarkStep DEF IInv, TablesOK, WatermarkIsMaxIn
    <3>3. tx' = [events |-> log, current |-> current, watermarks |-> marks]
      BY <2>1 DEF LogEvent
    <3> HIDE DEF current, marks
    <3>4. tx'.events = log /\ tx'.current = current /\ tx'.watermarks = marks
      BY <3>3
    <3>5. tx' \in Database
      BY <1>1, <1>2, <3>1, <3>2, <3>3 DEF Database
    <3>6. TablesOK(tx')
      BY <3>1, <3>2, <3>4 DEF TablesOK, NoResurrectionIn, RowsBackedIn, WatermarkIsMaxIn
    <3>7. ~Logged(tx.events, Ev) /\ Logged(tx'.events, Ev)
      BY <2>1, <3>4 DEF LogEvent, Logged
    <3> QED
      BY <3>4, <3>5, <3>6, <3>7
  <2>2. CASE SkipEvent
    <3>1. Logged(tx.events, Ev)
      BY <2>2 DEF SkipEvent
    <3>2. Bumped(tx.watermarks, Ev) = tx.watermarks
      BY <1>1, <1>2, <3>1, WatermarkSkip DEF IInv, TablesOK, WatermarkIsMaxIn
    <3>3. tx' = tx
      BY <2>2, <3>2 DEF SkipEvent, IInv, TypeOK, Database
    <3> QED
      BY <3>1, <3>3 DEF IInv, TypeOK
  <2> QED
    BY <2>1, <2>2
<1>5. TypeOK'
  BY <1>3, <1>4 DEF IInv, TypeOK, LogEvent, SkipEvent
<1>6. FileInHand'
  BY <1>1, <1>3 DEF IInv, FileInHand, InHand
<1>7. PassedLogged'
  <2>1. \A i \in DOMAIN body : i < pos + 1 => i < pos \/ i = pos
    BY DEF IInv, TypeOK
  <2>2. \A i \in DOMAIN body : i < pos' => Logged(tx'.events, body[i])
    BY <1>1, <1>3, <1>4, <2>1 DEF IInv, PassedLogged, InHand, Logged
  <2> QED
    BY <1>1, <1>3, <2>2 DEF PassedLogged
<1>8. TxView'
  <2>1. AllLogged => Logged(tx.events, Ev) /\ tx = db
    BY <1>1 DEF IInv, TxView, AllLogged
  <2> QED
    BY <1>1, <1>3, <1>4, <2>1 DEF TxView, AllLogged
<1> QED
  BY <1>3, <1>4, <1>5, <1>6, <1>7, <1>8 DEF IInv

(* The commit publishes exactly the transaction's tables: the heal finds no  *)
(* row to retract.                                                           *)
LEMMA CommitStep ==
  ASSUME IInv, Commit
  PROVE  db' = tx /\ tx' = tx
<1>1. tx.current = Retracted(tx.events, tx.current, body[1].src)
  BY RetractNothing DEF IInv, TablesOK, NoResurrectionIn
<1>2. tx = [tx EXCEPT !.current = tx.current]
  BY DEF IInv, TypeOK, Database
<1> QED
  BY <1>1, <1>2 DEF Commit

(* The committed tables become those of the transaction. *)
LEMMA CommitIInv ==
  ASSUME IInv, Commit
  PROVE  IInv'
<1>1. db' = tx /\ tx' = tx
  BY CommitStep
<1>2. /\ pc = "events" /\ pos > Len(body) /\ pc' = "remove"
      /\ UNCHANGED <<incoming, paths, path, body, pos, skipped, deleteAfter>>
  BY DEF Commit
<1>3. TypeOK'
  BY <1>1, <1>2 DEF IInv, TypeOK
<1>4. FileInHand' /\ PassedLogged' /\ TxView'
  BY <1>1, <1>2 DEF IInv, FileInHand, PassedLogged, TxView, InHand
<1> QED
  BY <1>1, <1>3, <1>4 DEF IInv

(* The file removed is the one in hand, which is no longer listed. *)
LEMMA RemoveIInv ==
  ASSUME IInv, Remove
  PROVE  IInv'
<1>1. /\ DOMAIN incoming' = DOMAIN incoming \ (IF deleteAfter THEN path ELSE {})
      /\ \A p \in DOMAIN incoming' : incoming'[p] = incoming[p]
  BY DEF Remove
<1>2. paths' \subseteq DOMAIN incoming'
  BY <1>1 DEF IInv, TypeOK, Remove, FileInHand, InHand
<1>3. body' \in Seq(Event) /\ pos' \in Nat \ {0}
  BY DEF Remove, Close
<1>4. TypeOK'
  BY <1>1, <1>2, <1>3 DEF IInv, TypeOK, Remove, Close
<1>5. pc = "remove" /\ pc' = "next"
  BY DEF Remove
<1>6. FileInHand' /\ PassedLogged' /\ TxView'
  BY <1>5 DEF IInv, Remove, Close, FileInHand, PassedLogged, TxView, InHand
<1> QED
  BY <1>4, <1>6 DEF IInv, Remove

(* A run that ends early leaves what is committed. *)
LEMMA AbortIInv ==
  ASSUME IInv, Abort
  PROVE  IInv'
<1>1. body' \in Seq(Event) /\ pos' \in Nat \ {0} /\ path' \in SUBSET Path
  BY DEF Abort, Close
<1>2. TypeOK'
  BY <1>1 DEF IInv, TypeOK, Abort, Close
<1>3. FileInHand' /\ PassedLogged' /\ TxView'
  BY DEF IInv, Abort, Close, FileInHand, PassedLogged, TxView, InHand
<1> QED
  BY <1>2, <1>3 DEF IInv, Abort

(* Every step of a run keeps the invariant. *)
LEMMA RunIInv ==
  ASSUME IInv, Run
  PROVE  IInv'
<1>1. CASE OpenNext
  <2>1. PICK p \in paths : Begin(p) /\ paths' = paths \ {p}
    BY <1>1 DEF OpenNext
  <2> QED
    BY <1>1, <2>1, BeginIInv DEF OpenNext, IInv, TypeOK
<1>2. CASE LogEvent \/ SkipEvent
  BY <1>2, EventIInv
<1>3. CASE Reject
  BY <1>3, AbortIInv DEF Reject
<1>4. CASE Commit
  BY <1>4, CommitIInv
<1>5. CASE Remove
  BY <1>5, RemoveIInv
<1>6. CASE Finish
  BY <1>6 DEF Finish, IInv, TypeOK, FileInHand, PassedLogged, TxView, InHand, AllLogged
<1> QED
  BY <1>1, <1>2, <1>3, <1>4, <1>5, <1>6 DEF Run

(* Every step keeps the invariant. *)
LEMMA NextIInv ==
  ASSUME IInv, [Next]_vars
  PROVE  IInv'
<1>1. CASE \E f \in Files : Arrive({f})
  BY <1>1, ArriveIInv
<1>2. CASE \E delete \in BOOLEAN : StartSpool(delete)
  BY <1>2, StartSpoolIInv
<1>3. CASE \E p \in DOMAIN incoming : StartFile(p)
  BY <1>3, BeginIInv DEF StartFile
<1>4. CASE Run
  BY <1>4, RunIInv
<1>5. CASE Crash
  BY <1>5, AbortIInv DEF Crash
<1>6. CASE UNCHANGED vars
  BY <1>6 DEF vars, IInv, TypeOK, TablesOK, FileInHand, PassedLogged, TxView, InHand,
              AllLogged
<1> QED
  BY <1>1, <1>2, <1>3, <1>4, <1>5, <1>6 DEF Next
-----------------------------------------------------------------------------
(* The inductive invariant holds in every behaviour of Apply. *)
THEOREM Invariance == Spec => []IInv
<1>1. Init => IInv
  BY InitIInv
<1>2. IInv /\ [Next]_vars => IInv'
  BY NextIInv
<1> QED
  BY <1>1, <1>2, PTL DEF Spec

(* Every variable of Apply keeps its type. *)
THEOREM TypeCorrect == Spec => []TypeOK
<1>1. IInv => TypeOK
  BY DEF IInv
<1> QED
  BY <1>1, Invariance, PTL

(* However files arrive, are replayed or applied out of turn, no row of      *)
(* capture.current is older than a logged D of that row.                     *)
THEOREM NoRowResurrects == Spec => []NoResurrection
<1>1. IInv => NoResurrection
  BY DEF IInv, TablesOK, NoResurrection
<1> QED
  BY <1>1, Invariance, PTL

(* capture.current holds one row per key, each the image of a logged event. *)
THEOREM RowsAreBacked == Spec => []RowsBacked
<1>1. IInv => RowsBacked
  BY DEF IInv, TablesOK, RowsBacked
<1> QED
  BY <1>1, Invariance, PTL

(* last_seq is the highest logged seq of its source. *)
THEOREM WatermarksAreMax == Spec => []WatermarkIsMax
<1>1. IInv => WatermarkIsMax
  BY DEF IInv, TablesOK, WatermarkIsMax
<1> QED
  BY <1>1, Invariance, PTL

(* Applying a file whose events are all logged leaves the tables alone. *)
THEOREM ReplayChangesNothing == Spec => ReplayIsNoop
<1>1. IInv /\ [Next]_vars =>
        [pc = "events" /\ pc' = "remove"
           /\ (\A i \in DOMAIN body : Logged(db.events, body[i]))
         => db' = db]_vars
  <2> SUFFICES ASSUME IInv, [Next]_vars, pc = "events", pc' = "remove",
                      \A i \in DOMAIN body : Logged(db.events, body[i])
               PROVE  db' = db
    OBVIOUS
  <2>1. CASE Commit
    BY <2>1, CommitStep DEF IInv, TxView, AllLogged
  <2>2. CASE ~Commit
    BY <2>2 DEF Next, vars, Run, Arrive, StartSpool, StartFile, OpenNext, Begin,
                LogEvent, SkipEvent, Reject, Abort, Remove, Finish, Crash
  <2> QED
    BY <2>1, <2>2
<1> QED
  BY <1>1, Invariance, PTL DEF Spec, ReplayIsNoop

(* A file leaves the local spool only when all its events are committed. *)
THEOREM RemovedOnlyWhenLogged == Spec => RemovedWasLogged
<1>1. IInv /\ [Next]_vars =>
        [\A p \in DOMAIN incoming \ DOMAIN incoming' :
           \A i \in DOMAIN incoming[p] : Logged(db.events, incoming[p][i])]_vars
  <2> SUFFICES ASSUME IInv, [Next]_vars,
                      NEW p \in DOMAIN incoming \ DOMAIN incoming',
                      NEW i \in DOMAIN incoming[p]
               PROVE  Logged(db.events, incoming[p][i])
    OBVIOUS
  <2>1. CASE Remove
    <3>1. p \in path /\ pc = "remove"
      BY <2>1 DEF Remove
    <3>2. body = incoming[p] /\ tx = db
      BY <3>1 DEF IInv, FileInHand, TxView, InHand
    <3>3. i < pos
      BY <3>1, <3>2 DEF IInv, PassedLogged, TypeOK
    <3> QED
      BY <3>1, <3>2, <3>3 DEF IInv, PassedLogged, InHand
  <2>2. CASE \E f \in Files : Arrive({f})
    BY <2>2 DEF Arrive
  <2>3. CASE ~Remove /\ ~(\E f \in Files : Arrive({f}))
    BY <2>3 DEF Next, vars, Run, StartSpool, StartFile, OpenNext, Begin, LogEvent,
                SkipEvent, Reject, Abort, Commit, Finish, Crash
  <2> QED
    BY <2>1, <2>2, <2>3
<1> QED
  BY <1>1, Invariance, PTL DEF Spec, RemovedWasLogged
=============================================================================
