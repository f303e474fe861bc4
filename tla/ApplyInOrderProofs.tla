------------------------- MODULE ApplyInOrderProofs -------------------------
(***************************************************************************)
(* With the spool delivered in order, capture.current is the live rows of    *)
(* capture.events, and the two tables implement Replica.                     *)
(*                                                                          *)
(* The argument: an event the transaction logs is later than everything      *)
(* logged of its source, because a journal event before it is in the file in *)
(* hand, or in a file that sorts before it and is already applied, or        *)
(* logged long ago.                                                          *)
(***************************************************************************)
EXTENDS ApplyInOrder, ApplyProofs, MiniTablesProofs

(* What holds of a log that is a prefix of every journal. *)
Faithful(d) ==
  /\ d.events \subseteq Journal /\ Mini!PrefixClosed(d.events)
  /\ d.current = LiveRows(d.events)

(* The spool holds published files, and no gap before any of them. *)
SpoolInOrder ==
  /\ \A p \in DOMAIN incoming : \E f \in Files : f.path = p /\ f.body = incoming[p]
  /\ NoGap(incoming)

(* A listed path is still to come, or the one in hand, or applied. *)
AppliedFirst ==
  pc # "idle" =>
    /\ \A p \in (DOMAIN incoming \ paths) \ path : SeqRange(incoming[p]) \subseteq db.events
    /\ InHand => \A p \in path : \A q \in paths : Before(p, q)

OrderInv ==
  /\ Faithful(db) /\ Faithful(tx) /\ db.events \subseteq tx.events
  /\ SpoolInOrder /\ AppliedFirst

IOInv == IInv /\ OrderInv
-----------------------------------------------------------------------------
(* The empty Mini satisfies the invariant. *)
LEMMA InitIOInv == Init => IOInv
<1> SUFFICES ASSUME Init PROVE IOInv
  OBVIOUS
<1>1. IInv
  BY InitIInv
<1>2. db.events = {} /\ db.current = {} /\ tx = db
  BY DEF Init, EmptyDatabase
<1>3. Faithful(db)
  BY <1>2 DEF Faithful, Mini!PrefixClosed, LiveRows
<1>4. DOMAIN incoming = {}
  BY DEF Init
<1>5. SpoolInOrder
  BY <1>4 DEF SpoolInOrder, NoGap, GapFree
<1>6. AppliedFirst
  BY DEF Init, AppliedFirst
<1> QED
  BY <1>1, <1>2, <1>3, <1>5, <1>6 DEF IOInv, OrderInv

(* The file in hand is one of Files, named after its events. *)
LEMMA HandIsBatch ==
  ASSUME IOInv, InHand
  PROVE  \E p \in DOMAIN incoming : \E f \in Files :
           /\ path = {p} /\ body = incoming[p] /\ f.path = p /\ f.body = body
           /\ SeqRange(body) \subseteq Journal
<1>1. PICK p \in DOMAIN incoming : path = {p} /\ body = incoming[p]
  BY DEF IOInv, IInv, FileInHand
<1>2. PICK f \in Files : f.path = p /\ f.body = incoming[p]
  BY <1>1 DEF IOInv, OrderInv, SpoolInOrder
<1>3. SeqRange(body) \subseteq Journal
  BY <1>1, <1>2 DEF Journal
<1> QED
  BY <1>1, <1>2, <1>3

(* A journal event before the file in hand is committed. *)
LEMMA EarlierIsCommitted ==
  ASSUME IOInv, pc = "events", NEW p \in path, NEW d \in Journal,
         d.src = p.src, d.seq < p.lo
  PROVE  d \in db.events
<1>1. path = {p} /\ p \in DOMAIN incoming
  BY DEF IOInv, IInv, FileInHand, InHand
<1>2. CASE d \in Held(incoming)
  <2>1. PICK q \in DOMAIN incoming : d \in SeqRange(incoming[q])
    BY <1>2 DEF Held
  <2>2. PICK f \in Files : f.path = q /\ f.body = incoming[q]
    BY <2>1 DEF IOInv, OrderInv, SpoolInOrder
  <2>3. PICK i \in DOMAIN f.body : d = f.body[i]
    BY <2>1, <2>2 DEF SeqRange
  <2>4. f.body \in Seq(Event) /\ q.lo \in Nat /\ q.hi \in Nat /\ q.src \in Int
    BY <2>2, FilesAssumption, EventConstants DEF File, Path
  <2>5. p.lo \in Nat /\ p.src \in Int
    BY <1>1, EventConstants DEF IOInv, IInv, TypeOK, Path
  <2>6. /\ i \in Nat /\ 1 <= i /\ 1 \in DOMAIN f.body
        /\ d.seq \in Nat /\ f.body[1].seq \in Nat
    <3>1. i \in Nat /\ 1 <= i /\ 1 \in DOMAIN f.body
      BY <2>3, <2>4
    <3>2. d \in Event /\ f.body[1] \in Event
      BY <2>3, <2>4, <3>1
    <3> QED
      BY <3>1, <3>2 DEF Event
  <2>7. q.src = d.src /\ q.lo <= d.seq
    <3>1. q.src = d.src /\ q.lo = f.body[1].seq
      BY <2>2, <2>3, BatchAssumption
    <3>2. i = 1 \/ f.body[1].seq < d.seq
      BY <2>2, <2>3, <2>6, BatchAssumption
    <3> QED
      BY <2>3, <2>6, <3>1, <3>2
  <2>8. q # p /\ ~Before(p, q)
    BY <2>4, <2>5, <2>6, <2>7 DEF Before
  <2>9. q \notin paths
    BY <1>1, <2>8 DEF IOInv, OrderInv, AppliedFirst, InHand
  <2> QED
    BY <1>1, <2>1, <2>8, <2>9 DEF IOInv, OrderInv, AppliedFirst
<1>3. CASE d \notin Held(incoming)
  BY <1>1, <1>3 DEF IOInv, OrderInv, SpoolInOrder, NoGap, GapFree
<1> QED
  BY <1>2, <1>3

(* The event about to be logged is later than the whole log of its source,   *)
(* and everything before it is logged.                                       *)
LEMMA NextIsLatest ==
  ASSUME IOInv, LogEvent
  PROVE  /\ Ev \in Event /\ Ev \in Journal
         /\ \A d \in Journal : d.src = Ev.src /\ d.seq < Ev.seq => d \in tx.events
         /\ \A f \in tx.events : f.src = Ev.src => f.seq < Ev.seq
<1>1. /\ pc = "events" /\ pos \in DOMAIN body /\ Ev \in Event /\ Ev = body[pos]
      /\ ~Logged(tx.events, Ev) /\ InHand
  BY DEF IOInv, IInv, TypeOK, LogEvent, AtEvent, Ev, InHand
<1>2. PICK p \in DOMAIN incoming, f \in Files :
        /\ path = {p} /\ f.path = p /\ f.body = body
        /\ SeqRange(body) \subseteq Journal
  BY <1>1, HandIsBatch
<1>3. Ev \in SeqRange(body) /\ Ev \in Journal /\ Ev.src = p.src
  BY <1>1, <1>2, BatchAssumption DEF SeqRange
<1>4. body \in Seq(Event) /\ p.lo \in Nat
  BY DEF IOInv, IInv, TypeOK, Path
<1>5. \A d \in Journal : d.seq \in Nat
  <2> SUFFICES ASSUME NEW d \in Journal PROVE d.seq \in Nat
    OBVIOUS
  <2>1. PICK g \in Files : d \in SeqRange(g.body)
    BY DEF Journal
  <2>2. d \in Event
    BY <2>1, FilesAssumption DEF File, SeqRange
  <2> QED
    BY <2>2 DEF Event
<1>6. ASSUME NEW d \in Journal, d.src = Ev.src, d.seq < Ev.seq
      PROVE  d \in tx.events
  <2>1. CASE d.seq < p.lo
    BY <1>1, <1>2, <1>3, <1>6, <2>1, EarlierIsCommitted DEF IOInv, OrderInv
  <2>2. CASE ~(d.seq < p.lo)
    <3>1. p.lo <= d.seq /\ d.seq <= body[pos].seq
      BY <1>1, <1>3, <1>4, <1>5, <1>6, <2>2
    <3>2. d \in SeqRange(body)
      BY <1>1, <1>2, <1>3, <1>6, <3>1, BatchAssumption
    <3>3. PICK i \in DOMAIN body : d = body[i]
      BY <3>2 DEF SeqRange
    <3>4. i < pos
      <4>1. i \in Nat /\ pos \in Nat
        BY <1>1, <1>4, <3>3
      <4>2. ~(pos < i)
        BY <1>1, <1>2, <1>5, <1>6, <1>3, <3>3, BatchAssumption
      <4>3. i # pos
        BY <1>1, <1>3, <1>5, <1>6, <3>3
      <4> QED
        BY <4>1, <4>2, <4>3
    <3>5. Logged(tx.events, d)
      BY <1>1, <3>3, <3>4 DEF IOInv, IInv, PassedLogged
    <3> QED
      BY <3>5, LoggedIsMember DEF IOInv, OrderInv, Faithful
  <2> QED
    BY <2>1, <2>2
<1>7. ASSUME NEW g \in tx.events, g.src = Ev.src
      PROVE  g.seq < Ev.seq
  <2>1. g \in Journal /\ Mini!PrefixClosed(tx.events)
    BY DEF IOInv, OrderInv, Faithful
  <2>2. g.seq # Ev.seq
    BY <1>1, <1>7 DEF Logged
  <2>3. ~(Ev.seq < g.seq)
    <3>1. Ev \notin tx.events
      BY <1>1 DEF Logged
    <3> QED
      BY <1>3, <1>7, <2>1, <3>1 DEF Mini!PrefixClosed
  <2> QED
    BY <1>3, <1>5, <2>1, <2>2, <2>3
<1> QED
  BY <1>1, <1>3, <1>6, <1>7

(* Logging the next event keeps the open transaction's rows the live rows. *)
LEMMA LogEventIOInv ==
  ASSUME IOInv, LogEvent
  PROVE  IOInv'
<1> DEFINE log == tx.events \cup {Ev}
<1>1. IInv'
  BY EventIInv DEF IOInv
<1>2. /\ Ev \in Event /\ Ev \in Journal
      /\ \A d \in Journal : d.src = Ev.src /\ d.seq < Ev.seq => d \in tx.events
      /\ \A f \in tx.events : f.src = Ev.src => f.seq < Ev.seq
  BY NextIsLatest
<1>3. /\ tx'.events = log /\ tx'.current = ApplyCurrent(log, tx.current, Ev)
      /\ UNCHANGED <<db, incoming, pc, paths, path, body>>
  BY DEF LogEvent
<1>4. tx.events \in SUBSET Event /\ Faithful(tx)
  BY DEF IOInv, IInv, TypeOK, Database, OrderInv
<1>5. tx'.current = LiveRows(tx'.events)
  BY <1>2, <1>3, <1>4, LiveRowsStep DEF Faithful
<1>6. Mini!PrefixClosed(log)
  BY <1>2, <1>4 DEF Faithful, Mini!PrefixClosed
<1>7. Faithful(tx')
  BY <1>2, <1>3, <1>4, <1>5, <1>6 DEF Faithful
<1>8. OrderInv'
  BY <1>3, <1>7 DEF IOInv, OrderInv, SpoolInOrder, NoGap, GapFree, Held, AppliedFirst, InHand,
                    Faithful
<1> QED
  BY <1>1, <1>8 DEF IOInv

(* Passing over a logged event changes no table but the watermark. *)
LEMMA SkipEventIOInv ==
  ASSUME IOInv, SkipEvent
  PROVE  IOInv'
<1>1. IInv'
  BY EventIInv DEF IOInv
<1>2. tx'.events = tx.events /\ tx'.current = tx.current
  BY DEF SkipEvent, IOInv, IInv, TypeOK, Database
<1>3. UNCHANGED <<db, incoming, pc, paths, path, body>>
  BY DEF SkipEvent
<1>4. OrderInv'
  BY <1>2, <1>3 DEF IOInv, OrderInv, Faithful, SpoolInOrder, NoGap, GapFree, Held, AppliedFirst,
                    InHand
<1> QED
  BY <1>1, <1>4 DEF IOInv

(* The committed tables become those of the transaction. *)
LEMMA CommitIOInv ==
  ASSUME IOInv, Commit
  PROVE  IOInv'
<1>1. IInv' /\ db' = tx /\ tx' = tx
  BY CommitIInv, CommitStep DEF IOInv
<1>2. /\ InHand /\ pc = "events" /\ pc' = "remove"
      /\ UNCHANGED <<incoming, paths, path>>
  BY DEF Commit, InHand
<1>3. SpoolInOrder'
  BY <1>1, <1>2 DEF IOInv, OrderInv, SpoolInOrder, NoGap, GapFree, Held
<1>4. AppliedFirst'
  BY <1>1, <1>2 DEF IOInv, OrderInv, AppliedFirst, InHand
<1> QED
  BY <1>1, <1>3, <1>4 DEF IOInv, OrderInv, Faithful

(* What leaves the spool is in the log, so no gap opens. *)
LEMMA RemoveIOInv ==
  ASSUME IOInv, Remove
  PROVE  IOInv'
<1>1. IInv' /\ pc = "remove" /\ pc' = "next" /\ InHand
  BY RemoveIInv DEF IOInv, Remove, InHand
<1>2. PICK p \in DOMAIN incoming :
        path = {p} /\ body = incoming[p] /\ SeqRange(body) \subseteq Journal
  BY <1>1, HandIsBatch
<1>3. SeqRange(incoming[p]) \subseteq db.events
  <2> SUFFICES ASSUME NEW i \in DOMAIN body PROVE body[i] \in db.events
    BY <1>2 DEF SeqRange
  <2>1. tx = db /\ i < pos
    BY <1>1 DEF IOInv, IInv, TxView, PassedLogged, TypeOK
  <2>2. Logged(db.events, body[i])
    BY <1>1, <2>1 DEF IOInv, IInv, PassedLogged
  <2> QED
    BY <1>2, <2>2, LoggedIsMember DEF IOInv, OrderInv, Faithful, SeqRange
<1>4. /\ DOMAIN incoming' = DOMAIN incoming \ (IF deleteAfter THEN path ELSE {})
      /\ \A q \in DOMAIN incoming' : incoming'[q] = incoming[q]
      /\ UNCHANGED <<db, tx, paths>> /\ path' = {}
  BY DEF Remove, Close
<1>5. NoGap(incoming)'
  <2> SUFFICES ASSUME NEW q \in DOMAIN incoming', NEW e \in Journal,
                      e.src = q.src, e.seq < q.lo
               PROVE  e \in db.events \cup Held(incoming')
    BY <1>4 DEF NoGap, GapFree
  <2>1. e \in db.events \cup Held(incoming)
    BY <1>4 DEF IOInv, OrderInv, SpoolInOrder, NoGap, GapFree
  <2>2. ASSUME NEW r \in DOMAIN incoming, e \in SeqRange(incoming[r]), r \notin path
        PROVE  e \in Held(incoming')
    BY <1>4, <2>2 DEF Held
  <2> QED
    BY <1>2, <1>3, <2>1, <2>2 DEF Held
<1>6. SpoolInOrder'
  BY <1>4, <1>5 DEF IOInv, OrderInv, SpoolInOrder
<1>7. AppliedFirst'
  BY <1>1, <1>2, <1>3, <1>4 DEF IOInv, OrderInv, AppliedFirst, InHand
<1> QED
  BY <1>1, <1>4, <1>6, <1>7 DEF IOInv, OrderInv, Faithful

(* The file that sorts first is opened: everything before it is applied. *)
LEMMA OpenNextIOInv ==
  ASSUME IOInv, OpenNext
  PROVE  IOInv'
<1>1. PICK p \in paths : /\ \A q \in paths : q = p \/ Before(p, q)
                        /\ Begin(p) /\ paths' = paths \ {p}
  BY DEF OpenNext
<1>2. pc = "next" /\ paths \subseteq DOMAIN incoming /\ path = {}
  BY DEF OpenNext, IOInv, IInv, TypeOK, FileInHand, InHand
<1>3. IInv'
  BY RunIInv DEF Run, IOInv
<1>4. /\ UNCHANGED <<db, tx, incoming>> /\ path' = {p} /\ pc' = "events"
      /\ p \in DOMAIN incoming
  BY <1>1, <1>2 DEF Begin
<1>5. AppliedFirst'
  BY <1>1, <1>2, <1>4 DEF IOInv, OrderInv, AppliedFirst, InHand
<1> QED
  BY <1>3, <1>4, <1>5 DEF IOInv, OrderInv, SpoolInOrder, NoGap, GapFree, Held, Faithful

(* A delivery without a gap keeps the spool in order. *)
LEMMA ArriveIOInv ==
  ASSUME IOInv, ArriveInOrder
  PROVE  IOInv'
<1>1. PICK F \in SUBSET Files : Arrive(F) /\ NoGap(incoming')
  BY DEF ArriveInOrder
<1>2. IInv'
  BY <1>1, ArriveIInv DEF IOInv
<1>3. /\ UNCHANGED <<db, tx, pc>> /\ pc = "idle"
      /\ DOMAIN incoming' = DOMAIN incoming \cup {f.path : f \in F}
  BY <1>1 DEF Arrive
<1>4. ASSUME NEW p \in DOMAIN incoming'
      PROVE  \E f \in Files : f.path = p /\ f.body = incoming'[p]
  <2>1. CASE \E f \in F : f.path = p
    <3> DEFINE g == CHOOSE f \in F : f.path = p
    <3>1. g \in F /\ g.path = p
      BY <2>1
    <3>2. incoming'[p] = g.body
      BY <1>1, <1>3, <2>1 DEF Arrive
    <3> QED
      BY <3>1, <3>2
  <2>2. CASE ~\E f \in F : f.path = p
    <3>1. p \in DOMAIN incoming /\ incoming'[p] = incoming[p]
      BY <1>1, <1>3, <2>2 DEF Arrive
    <3> QED
      BY <3>1 DEF IOInv, OrderInv, SpoolInOrder
  <2> QED
    BY <2>1, <2>2
<1>5. NoGap(incoming)'
  BY <1>1, <1>3 DEF NoGap, GapFree
<1>6. SpoolInOrder' /\ AppliedFirst'
  BY <1>3, <1>4, <1>5 DEF SpoolInOrder, AppliedFirst
<1> QED
  BY <1>2, <1>3, <1>6 DEF IOInv, OrderInv, Faithful

(* The steps that neither read nor change a table or a file. *)
LEMMA ControlIOInv ==
  ASSUME IOInv,
         \/ \E delete \in BOOLEAN : StartSpool(delete)
         \/ Finish \/ Abort
         \/ UNCHANGED vars
  PROVE  IOInv'
<1>1. IInv'
  BY StartSpoolIInv, RunIInv, AbortIInv, NextIInv DEF IOInv, Run
<1>2. UNCHANGED <<db, incoming>> /\ tx' \in {tx, db}
  BY DEF StartSpool, Finish, Abort, vars
<1>3. AppliedFirst'
  BY DEF IOInv, IInv, FileInHand, OrderInv, AppliedFirst, InHand, StartSpool, Finish,
         Abort, Close, vars
<1> QED
  BY <1>1, <1>2, <1>3 DEF IOInv, OrderInv, SpoolInOrder, NoGap, GapFree, Held, Faithful

(* Every step keeps the invariant. *)
LEMMA NextIOInv ==
  ASSUME IOInv, [InOrderNext]_vars
  PROVE  IOInv'
<1>1. CASE ArriveInOrder
  BY <1>1, ArriveIOInv
<1>2. CASE OpenNext
  BY <1>2, OpenNextIOInv
<1>3. CASE LogEvent
  BY <1>3, LogEventIOInv
<1>4. CASE SkipEvent
  BY <1>4, SkipEventIOInv
<1>5. CASE Commit
  BY <1>5, CommitIOInv
<1>6. CASE Remove
  BY <1>6, RemoveIOInv
<1>7. CASE Reject \/ Crash
  BY <1>7, ControlIOInv DEF Reject, Crash
<1>8. CASE Finish \/ UNCHANGED vars \/ \E delete \in BOOLEAN : StartSpool(delete)
  BY <1>8, ControlIOInv
<1> QED
  BY <1>1, <1>2, <1>3, <1>4, <1>5, <1>6, <1>7, <1>8 DEF InOrderNext, Run
-----------------------------------------------------------------------------
(* The invariant holds in every behaviour of ApplyInOrder. *)
THEOREM InOrderInvariance == InOrderSpec => []IOInv
<1>1. Init => IOInv
  BY InitIOInv
<1>2. IOInv /\ [InOrderNext]_vars => IOInv'
  BY NextIOInv
<1> QED
  BY <1>1, <1>2, PTL DEF InOrderSpec

(* Delivered in order, capture.current is always the live rows of            *)
(* capture.events: crashes, replays, overlapping files and refused lines     *)
(* included.                                                                 *)
THEOREM CurrentStaysLatest == InOrderSpec => []CurrentIsLatest
<1>1. IOInv => CurrentIsLatest
  BY DEF IOInv, OrderInv, Faithful, CurrentIsLatest
<1> QED
  BY <1>1, InOrderInvariance, PTL

(* Every commit of the Mini is a Grow of Replica, and nothing else changes   *)
(* the tables.                                                               *)
THEOREM ImplementsReplica == InOrderSpec => Replicates
<1>1. Init => Mini!Init
  BY DEF Init, EmptyDatabase, Mini!Init
<1>2. IOInv /\ [InOrderNext]_vars => [Mini!Emit \/ Mini!Grow]_<<Journal, db.events, db.current>>
  <2> SUFFICES ASSUME IOInv, [InOrderNext]_vars
               PROVE  Mini!Grow \/ UNCHANGED db
    OBVIOUS
  <2>1. CASE Commit
    <3>1. db' = tx
      BY <2>1, CommitStep DEF IOInv
    <3> QED
      BY <3>1 DEF IOInv, OrderInv, Faithful, Mini!Grow, Mini!PrefixClosed, Mini!LiveRows, LiveRows,
                  Mini!RowOf, RowOf, Mini!CarriesRow, CarriesRow, Mini!Latest, Latest,
                  Mini!SameRow, SameRow
  <2>2. CASE ~Commit
    BY <2>2 DEF InOrderNext, Run, vars, ArriveInOrder, Arrive, StartSpool, OpenNext, Begin,
                LogEvent, SkipEvent, Reject, Abort, Remove, Finish, Crash
  <2> QED
    BY <2>1, <2>2
<1> QED
  BY <1>1, <1>2, InOrderInvariance, PTL DEF InOrderSpec, Replicates, Mini!Spec
=============================================================================
