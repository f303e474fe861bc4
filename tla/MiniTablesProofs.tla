-------------------------- MODULE MiniTablesProofs --------------------------
(***************************************************************************)
(* What the statements of apply.rs do to the live rows of a log, and what a  *)
(* published file says about the journal: the facts the proofs share about   *)
(* one applier in order, about several at once, and about one that gets its  *)
(* files in any order.                                                       *)
(***************************************************************************)
EXTENDS Delivery, IntegerSets

(* The events, or the rows, of one source. *)
Of(S, s) == {x \in S : x.src = s}
-----------------------------------------------------------------------------
(* An event later than the whole log of its source is applied exactly as the *)
(* live rows change.                                                         *)
LEMMA LiveRowsStep ==
  ASSUME NEW log \in SUBSET Event, NEW e \in Event,
         \A f \in log : f.src = e.src => f.seq < e.seq
  PROVE  ApplyCurrent(log \cup {e}, LiveRows(log), e) = LiveRows(log \cup {e})
<1> DEFINE all == log \cup {e}
           live == LiveRows(log)
<1>1. e.seq \in Nat /\ \A f \in log : f.seq \in Nat
  BY DEF Event
<1>2. \A f \in log : SameRow(f, e) => f.seq < e.seq
  BY DEF SameRow
<1>3. ASSUME NEW f \in log, SameRow(f, e), e.op = "D" \/ CarriesRow(e)
      PROVE  ~Latest(all, f)
  <2>1. e \in all /\ SameRow(e, f) /\ ~(e.seq <= f.seq)
    BY <1>1, <1>2, <1>3 DEF SameRow
  <2> QED
    BY <1>3, <2>1 DEF Latest
<1>4. ASSUME NEW f \in log, ~SameRow(f, e) \/ ~(e.op = "D" \/ CarriesRow(e))
      PROVE  Latest(all, f) <=> Latest(log, f)
  BY <1>4 DEF Latest, SameRow
<1>5. Latest(all, e)
  BY <1>1, <1>2 DEF Latest, SameRow
<1>6. ASSUME NEW f
      PROVE  SameRow(RowOf(f), e) <=> SameRow(f, e)
  BY DEF SameRow, RowOf
<1>7. CASE e.op = "D" \/ CarriesRow(e)
  <2>1. {f \in log : CarriesRow(f) /\ Latest(all, f)}
        = {f \in log : CarriesRow(f) /\ Latest(log, f) /\ ~SameRow(f, e)}
    BY <1>3, <1>4, <1>7
  <2>2. Deleted(live, e)
        = {RowOf(f) : f \in {f \in log : CarriesRow(f) /\ Latest(all, f)}}
    BY <1>6, <2>1 DEF Deleted, LiveRows
  <2>3. CASE e.op = "D"
    <3>1. LiveRows(all) = Deleted(live, e)
      BY <2>2, <2>3 DEF LiveRows, CarriesRow
    <3> QED
      BY <2>3, <3>1 DEF ApplyCurrent
  <2>4. CASE CarriesRow(e)
    <3>1. LiveRows(all) = Deleted(live, e) \cup {RowOf(e)}
      BY <1>5, <2>2, <2>4 DEF LiveRows
    <3>2. ~LaterDelete(all, e)
      BY <1>1, <1>2 DEF LaterDelete
    <3>3. ASSUME NEW r \in live, SameRow(r, e)
          PROVE  ~(r.seq >= e.seq)
      <4>1. PICK f \in log : r = RowOf(f)
        BY <3>3 DEF LiveRows
      <4>2. r.seq = f.seq /\ SameRow(f, e)
        BY <3>3, <4>1 DEF RowOf, SameRow
      <4> QED
        BY <1>1, <1>2, <4>2
    <3>4. Upserted(all, live, e) = Deleted(live, e) \cup {RowOf(e)}
      BY <3>2, <3>3 DEF Upserted
    <3> QED
      BY <2>4, <3>1, <3>4 DEF ApplyCurrent, CarriesRow
  <2> QED
    BY <1>7, <2>3, <2>4
<1>8. CASE ~(e.op = "D" \/ CarriesRow(e))
  <2>1. {f \in all : CarriesRow(f) /\ Latest(all, f)}
        = {f \in log : CarriesRow(f) /\ Latest(log, f)}
    BY <1>4, <1>8
  <2>2. LiveRows(all) = live
    BY <2>1 DEF LiveRows
  <2> QED
    BY <1>8, <2>2 DEF ApplyCurrent
<1> QED
  BY <1>7, <1>8
(* Each source's rows depend on its own events only. *)
LEMMA LiveRowsOf ==
  ASSUME NEW S, NEW s
  PROVE  Of(LiveRows(S), s) = LiveRows(Of(S, s))
<1>1. ASSUME NEW e \in S, e.src = s
      PROVE  Latest(S, e) <=> Latest(Of(S, s), e)
  BY <1>1 DEF Latest, Of, SameRow
<1>2. ASSUME NEW e PROVE RowOf(e).src = e.src
  BY DEF RowOf
<1>3. {e \in Of(S, s) : CarriesRow(e) /\ Latest(Of(S, s), e)}
      = {e \in S : e.src = s /\ CarriesRow(e) /\ Latest(S, e)}
  BY <1>1 DEF Of
<1>4. Of(LiveRows(S), s) = {RowOf(e) : e \in {e \in S : e.src = s /\ CarriesRow(e) /\ Latest(S, e)}}
  BY <1>2 DEF Of, LiveRows
<1> QED
  BY <1>3, <1>4 DEF LiveRows

(* Tables that agree source by source are equal. *)
LEMMA SameBySource ==
  ASSUME NEW S, NEW T, \A r \in S \cup T : Of(S, r.src) = Of(T, r.src)
  PROVE  S = T
BY DEF Of
-----------------------------------------------------------------------------
(* In the log, a logged journal event is itself a member. *)
LEMMA LoggedIsMember ==
  ASSUME NEW log \in SUBSET Journal, NEW e \in Journal, Logged(log, e)
  PROVE  e \in log
BY JournalAssumption DEF Logged

(* A published file holds journal events of one source. *)
LEMMA FileFacts ==
  ASSUME NEW f \in Files
  PROVE  /\ f.path \in Path /\ f.body \in Seq(Event) /\ f.body # <<>>
         /\ 1 \in DOMAIN f.body /\ f.path.lo = f.body[1].seq
         /\ SeqRange(f.body) \subseteq Journal
         /\ \A i \in DOMAIN f.body : f.body[i].src = f.body[1].src
         /\ f.path.src = f.body[1].src
<1>1. f.path \in Path /\ f.body \in Seq(Event) /\ f.body # <<>>
  BY FilesAssumption, BatchAssumption DEF File
<1>2. 1 \in DOMAIN f.body
  BY <1>1
<1>3. \A i \in DOMAIN f.body : f.body[i].src = f.path.src
  BY BatchAssumption
<1> QED
  BY <1>1, <1>2, <1>3, BatchAssumption DEF Journal

(* A published event is one. *)
LEMMA JournalIsEvents == Journal \subseteq Event
<1> SUFFICES ASSUME NEW f \in Files, NEW e \in SeqRange(f.body) PROVE e \in Event
  BY DEF Journal
<1> QED
  BY FileFacts DEF SeqRange

(* A journal event of a file's source between its first and its j-th is one  *)
(* of those in between.                                                      *)
LEMMA BetweenIsInFile ==
  ASSUME NEW f \in Files, NEW j \in DOMAIN f.body, NEW e \in Journal,
         e.src = f.body[1].src, ~(e.seq < f.body[1].seq), e.seq < f.body[j].seq
  PROVE  \E i \in DOMAIN f.body : i < j /\ f.body[i] = e
<1>1. e.seq \in Nat /\ \A i \in DOMAIN f.body : i \in Nat /\ f.body[i].seq \in Nat
  <2>1. f.body \in Seq(Event) /\ e \in Event
    BY FileFacts, JournalIsEvents
  <2>2. \A i \in DOMAIN f.body : f.body[i] \in Event /\ i \in Nat
    BY <2>1
  <2> QED
    BY <2>1, <2>2 DEF Event
<1>2. e \in SeqRange(f.body)
  <2>1. e.src = f.path.src /\ f.path.lo <= e.seq /\ e.seq <= f.body[j].seq
    BY <1>1, FileFacts
  <2> QED
    BY <2>1, BatchAssumption
<1>3. PICK i \in DOMAIN f.body : f.body[i] = e
  BY <1>2 DEF SeqRange
<1>4. ~(j < i)
  BY <1>1, <1>3, BatchAssumption
<1>5. i # j
  BY <1>1, <1>3
<1> QED
  BY <1>1, <1>3, <1>4, <1>5
-----------------------------------------------------------------------------
(* The tables after the first i events of a file, for each i up to n.        *)
Runs(step, d, body, n) ==
  step = [i \in 0..n |-> IF i = 0 THEN d ELSE ApplyEvent(step[i - 1], body[i])]

(* There is such a sequence of tables. *)
LEMMA RunExists ==
  ASSUME NEW d, NEW body, NEW n \in Nat
  PROVE  \E step : Runs(step, d, body, n)
<1> DEFINE S == {m \in 0..n : \E step : Runs(step, d, body, m)}
<1>1. 0 \in S
  <2> DEFINE step == [i \in 0..0 |-> d]
  <2>1. Runs(step, d, body, 0)
    BY DEF Runs
  <2> QED
    BY <2>1
<1>2. ASSUME NEW m \in 0..n, m \in S, m < n PROVE m + 1 \in S
  <2>1. PICK step : Runs(step, d, body, m)
    BY <1>2
  <2> DEFINE longer == [i \in 0..(m + 1) |->
                          IF i = m + 1 THEN ApplyEvent(step[m], body[m + 1]) ELSE step[i]]
  <2>2. ASSUME NEW i \in 0..(m + 1)
        PROVE  longer[i] = IF i = 0 THEN d ELSE ApplyEvent(longer[i - 1], body[i])
    <3>1. CASE i = m + 1
      <4>1. i # 0 /\ i - 1 = m /\ m \in 0..(m + 1) /\ m # m + 1
        BY <3>1
      <4>2. longer[m] = step[m] /\ longer[i] = ApplyEvent(step[m], body[i])
        BY <3>1, <4>1
      <4> QED
        BY <4>1, <4>2
    <3>2. CASE i # m + 1
      <4>1. i \in 0..m /\ (i # 0 => i - 1 \in 0..(m + 1) /\ i - 1 # m + 1)
        BY <3>2
      <4>2. longer[i] = step[i] /\ (i # 0 => longer[i - 1] = step[i - 1])
        BY <3>2, <4>1
      <4>3. step[i] = IF i = 0 THEN d ELSE ApplyEvent(step[i - 1], body[i])
        BY <2>1, <4>1 DEF Runs
      <4> QED
        BY <4>2, <4>3
    <3> QED
      BY <3>1, <3>2
  <2>3. Runs(longer, d, body, m + 1)
    BY <2>2 DEF Runs
  <2>4. m + 1 \in 0..n
    BY <1>2
  <2> QED
    BY <2>3, <2>4
<1> HIDE DEF S
<1>3. n \in 0..n
  OBVIOUS
<1>4. n \in S
  BY <1>1, <1>2, <1>3, UpTo
<1> QED
  BY <1>4 DEF S

(* ApplyFile goes through it to its end. *)
LEMMA ApplyFileRuns ==
  ASSUME NEW d, NEW body, Len(body) \in Nat
  PROVE  \E step :
           /\ step[0] = d
           /\ \A i \in 1..Len(body) : step[i] = ApplyEvent(step[i - 1], body[i])
           /\ ApplyFile(d, body) =
                IF \E i \in DOMAIN body : Logged(d.events, body[i])
                THEN [step[Len(body)] EXCEPT !.current =
                        Retracted(step[Len(body)].events, @, body[1].src)]
                ELSE step[Len(body)]
<1> DEFINE step == CHOOSE step : Runs(step, d, body, Len(body))
<1>1. Runs(step, d, body, Len(body))
  BY RunExists
<1>2. ApplyFile(d, body) =
        IF \E i \in DOMAIN body : Logged(d.events, body[i])
        THEN [step[Len(body)] EXCEPT !.current =
                Retracted(step[Len(body)].events, @, body[1].src)]
        ELSE step[Len(body)]
  BY DEF ApplyFile, Runs
<1> HIDE DEF step
<1>3. step[0] = d
  BY <1>1 DEF Runs
<1>4. \A i \in 1..Len(body) : step[i] = ApplyEvent(step[i - 1], body[i])
  BY <1>1 DEF Runs
<1> QED
  BY <1>2, <1>3, <1>4

(* A log has no live row to retract. *)
LEMMA NothingToRetract ==
  ASSUME NEW log \in SUBSET Event, NEW s
  PROVE  Retracted(log, LiveRows(log), s) = LiveRows(log)
<1> SUFFICES ASSUME NEW r \in LiveRows(log), NEW d \in log,
                    SameRow(d, r), d.op = "D", d.seq > r.seq
             PROVE  FALSE
  BY DEF Retracted, LaterDelete
<1>1. PICK e \in log : r = RowOf(e) /\ Latest(log, e)
  BY DEF LiveRows
<1>2. r.seq = e.seq /\ SameRow(d, e)
  BY <1>1 DEF RowOf, SameRow
<1>3. d.seq \in Nat /\ e.seq \in Nat
  BY DEF Event
<1> QED
  BY <1>1, <1>2, <1>3 DEF Latest
(* Applied to the live rows of a log that its new events all come after, a   *)
(* file adds its events to the log and leaves the live rows of that.         *)
LEMMA AppliedInOrder ==
  ASSUME NEW d \in Database, d.current = LiveRows(d.events),
         NEW body \in Seq(Event), body # <<>>,
         \A i \in DOMAIN body : body[i].src = body[1].src,
         \A i, j \in DOMAIN body : i < j => body[i].seq < body[j].seq,
         \A i \in DOMAIN body : Logged(d.events, body[i]) => body[i] \in d.events,
         \A i \in DOMAIN body : body[i] \notin d.events =>
           \A e \in d.events : e.src = body[1].src => e.seq < body[i].seq
  PROVE  ApplyFile(d, body) =
           [events |-> d.events \cup SeqRange(body),
            current |-> LiveRows(d.events \cup SeqRange(body)),
            watermarks |-> Bumped(d.watermarks, body[Len(body)])]
<1> DEFINE s == body[1].src
           n == Len(body)
           Log(i) == d.events \cup {body[j] : j \in 1..i}
           Marks(i) == IF i = 0 THEN d.watermarks ELSE Bumped(d.watermarks, body[i])
           Tables(i) == [events |-> Log(i), current |-> LiveRows(Log(i)), watermarks |-> Marks(i)]
<1>1. /\ n \in Nat /\ n # 0 /\ DOMAIN body = 1..n
      /\ \A i \in 1..n : body[i] \in Event /\ body[i].seq \in Nat /\ body[i].src = s
      /\ \A e \in d.events : e.seq \in Nat
  <2>1. \A i \in DOMAIN body : body[i] \in Event
    OBVIOUS
  <2>2. d.events \in SUBSET Event
    BY DEF Database
  <2> QED
    BY <2>1, <2>2 DEF Event
<1>2. s \in SrcDbs
  BY <1>1 DEF Event
<1>3. PICK step :
        /\ step[0] = d
        /\ \A i \in 1..n : step[i] = ApplyEvent(step[i - 1], body[i])
        /\ ApplyFile(d, body) =
             IF \E i \in DOMAIN body : Logged(d.events, body[i])
             THEN [step[n] EXCEPT !.current = Retracted(step[n].events, @, s)]
             ELSE step[n]
  <2>1. Len(body) \in Nat
    BY <1>1
  <2> HIDE DEF Log, Marks, Tables
  <2> QED
    BY <2>1, ApplyFileRuns
<1>4. \A i \in 0..n : Log(i) \in SUBSET Event
  BY <1>1 DEF Database
<1> DEFINE S == {i \in 0..n : step[i] = Tables(i)}
<1>5. 0 \in S
  <2>1. Log(0) = d.events
    OBVIOUS
  <2>2. d = [events |-> d.events, current |-> d.current, watermarks |-> d.watermarks]
    BY DEF Database
  <2>3. step[0] = Tables(0)
    BY <1>3, <2>1, <2>2
  <2> QED
    BY <1>1, <2>3
<1>6. ASSUME NEW i \in 0..n, i \in S, i < n PROVE i + 1 \in S
  <2> DEFINE e == body[i + 1]
             log == Log(i)
  <2>1. /\ i + 1 \in 1..n /\ (i + 1) - 1 = i /\ i + 1 \in DOMAIN body /\ i + 1 \in 0..n
        /\ \A j \in 1..i : j \in 1..n /\ j < i + 1
    BY <1>1, <1>6
  <2>2. /\ e \in Event /\ e.src = s /\ e.seq \in Nat
        /\ \A j \in 1..i : body[j].seq < e.seq /\ body[j].seq \in Nat
    BY <1>1, <2>1
  <2>3. Log(i + 1) = log \cup {e}
    BY <2>1
  <2>4. step[i] = Tables(i) /\ step[i + 1] = ApplyEvent(Tables(i), e)
    <3>1. step[i] = Tables(i)
      BY <1>6
    <3>2. step[i + 1] = ApplyEvent(step[i], e)
      BY <1>3, <2>1
    <3> QED
      BY <3>1, <3>2
  <2>5. Bumped(Marks(i), e) = Bumped(d.watermarks, e)
    <3>1. CASE i = 0
      BY <3>1
    <3>2. CASE i # 0
      <4>1. i \in 1..i /\ i \in 1..n
        BY <2>1, <3>2
      <4>2. body[i].src = s /\ body[i].seq < e.seq /\ body[i].seq \in Nat
        BY <1>1, <2>2, <4>1
      <4>3. d.watermarks \in [SrcDbs -> Nat] /\ d.watermarks[s] \in Nat
        BY <1>2 DEF Database
      <4>4. Marks(i) = Bumped(d.watermarks, body[i])
        BY <3>2
      <4> QED
        BY <1>2, <2>2, <4>2, <4>3, <4>4 DEF Bumped
    <3> QED
      BY <3>1, <3>2
  <2>6. Marks(i + 1) = Bumped(d.watermarks, e)
    BY <2>1
  <2>7. CASE e \in d.events
    <3>1. Logged(log, e) /\ log \cup {e} = log
      BY <2>7 DEF Logged
    <3>2. ApplyEvent(Tables(i), e)
          = [events |-> log, current |-> LiveRows(log), watermarks |-> Bumped(Marks(i), e)]
      BY <3>1 DEF ApplyEvent
    <3> QED
      BY <2>1, <2>3, <2>4, <2>5, <2>6, <3>1, <3>2
  <2>8. CASE e \notin d.events
    <3>1. \A f \in log : f.src = e.src => f.seq < e.seq
      BY <2>1, <2>2, <2>8
    <3>2. ~Logged(log, e)
      <4> SUFFICES ASSUME NEW f \in log, f.src = e.src, f.seq = e.seq PROVE FALSE
        BY DEF Logged
      <4> QED
        BY <2>2, <3>1
    <3>3. ApplyCurrent(log \cup {e}, LiveRows(log), e) = LiveRows(log \cup {e})
      BY <1>4, <2>2, <3>1, LiveRowsStep
    <3>4. ApplyEvent(Tables(i), e)
          = [events |-> log \cup {e}, current |-> ApplyCurrent(log \cup {e}, LiveRows(log), e),
             watermarks |-> Bumped(Marks(i), e)]
      BY <3>2 DEF ApplyEvent
    <3> QED
      BY <2>1, <2>3, <2>4, <2>5, <2>6, <3>3, <3>4
  <2> QED
    BY <2>7, <2>8
<1>7. step[n] = Tables(n)
  <2>1. n \in 0..n
    BY <1>1
  <2> HIDE DEF S
  <2>2. n \in S
    BY <1>1, <1>5, <1>6, <2>1, UpTo
  <2> QED
    BY <2>2 DEF S
<1>8. Log(n) = d.events \cup SeqRange(body) /\ Marks(n) = Bumped(d.watermarks, body[n])
  BY <1>1 DEF SeqRange
<1>9. Retracted(Log(n), LiveRows(Log(n)), s) = LiveRows(Log(n))
  BY <1>1, <1>4, NothingToRetract
<1>10. [step[n] EXCEPT !.current = Retracted(step[n].events, @, s)] = step[n]
  BY <1>7, <1>9
<1> QED
  BY <1>3, <1>7, <1>8, <1>10
-----------------------------------------------------------------------------
(***************************************************************************)
(* Files in any order, row by row.                                           *)
(***************************************************************************)
RowsAt(rows, k) == {r \in rows : r.key = k}
Decides(e) == e.op = "D" \/ CarriesRow(e)

(* Rows are images of logged events. *)
FromLog(log, rows) == \A r \in rows : \E c \in log : CarriesRow(c) /\ r = RowOf(c)

(* The events of one source, each with its own seq. *)
OneSource(log, s) == \A e \in log : e.src = s /\ \A f \in log : f.seq = e.seq => f = e

(* What leaves the row of k as it is. *)
Spares(log, current, e, k) ==
  \/ e.key # k
  \/ ~Decides(e)
  \/ e.op = "D" /\ RowsAt(current, k) = {}
  \/ CarriesRow(e) /\ (LaterDelete(log, e) \/ \E r \in current : SameRow(r, e) /\ r.seq >= e.seq)

LEMMA RowSpared ==
  ASSUME NEW log, NEW current, NEW e, NEW k, Spares(log, current, e, k)
  PROVE  RowsAt(ApplyCurrent(log, current, e), k) = RowsAt(current, k)
<1>1. CASE e.key # k
  BY <1>1 DEF RowsAt, ApplyCurrent, Upserted, Deleted, SameRow, RowOf
<1>2. CASE ~Decides(e)
  BY <1>2 DEF Decides, ApplyCurrent
<1>3. CASE e.op = "D" /\ RowsAt(current, k) = {}
  BY <1>3 DEF RowsAt, ApplyCurrent, Deleted
<1>4. CASE /\ CarriesRow(e)
           /\ LaterDelete(log, e) \/ \E r \in current : SameRow(r, e) /\ r.seq >= e.seq
  BY <1>4 DEF ApplyCurrent, Upserted, CarriesRow
<1> QED
  BY <1>1, <1>2, <1>3, <1>4 DEF Spares

(* An image comes to the table only with its own event. *)
LEMMA ImageOfOwn ==
  ASSUME NEW log, NEW current, NEW e, NEW r \in ApplyCurrent(log, current, e)
  PROVE  r \in current \/ (CarriesRow(e) /\ r = RowOf(e))
BY DEF ApplyCurrent, Upserted, Deleted

(* An event that decides its row later than all others of the log. *)
LEMMA RowSettled ==
  ASSUME NEW log \in SUBSET Event, NEW current, NEW e \in log, NEW s,
         OneSource(log, s), FromLog(log \ {e}, current), Decides(e), Latest(log, e)
  PROVE  RowsAt(ApplyCurrent(log, current, e), e.key)
           = (IF CarriesRow(e) THEN {RowOf(e)} ELSE {})
<1>1. /\ \A c \in log : c.src = s /\ c.seq \in Nat
      /\ \A r \in current : r.src = s
  BY DEF OneSource, FromLog, RowOf, Event
<1>2. RowsAt(Deleted(current, e), e.key) = {}
  BY <1>1 DEF RowsAt, Deleted, SameRow
<1>3. CASE e.op = "D"
  BY <1>2, <1>3 DEF ApplyCurrent, CarriesRow
<1>4. CASE CarriesRow(e)
  <2>1. ~LaterDelete(log, e)
    BY <1>1 DEF LaterDelete, Latest
  <2>2. ASSUME NEW r \in current, SameRow(r, e), r.seq >= e.seq PROVE FALSE
    <3>1. PICK c \in log \ {e} : CarriesRow(c) /\ r = RowOf(c)
      BY DEF FromLog
    <3>2. SameRow(c, e) /\ c.seq >= e.seq
      BY <2>2, <3>1 DEF RowOf, SameRow
    <3>3. c.seq <= e.seq
      BY <3>1, <3>2 DEF Latest
    <3>4. c.seq = e.seq
      BY <1>1, <3>1, <3>2, <3>3
    <3> QED
      BY <3>1, <3>4 DEF OneSource
  <2>3. ApplyCurrent(log, current, e) = Deleted(current, e) \cup {RowOf(e)}
    BY <1>4, <2>1, <2>2 DEF ApplyCurrent, Upserted, CarriesRow
  <2> QED
    BY <1>2, <1>4, <2>3 DEF RowsAt, RowOf
<1> QED
  BY <1>3, <1>4 DEF Decides

(* The rows of a log, one by one. *)
LEMMA LiveRowAt ==
  ASSUME NEW log \in SUBSET Event, NEW s, OneSource(log, s)
  PROVE  /\ \A m \in log : Decides(m) /\ Latest(log, m) =>
              RowsAt(LiveRows(log), m.key) = (IF CarriesRow(m) THEN {RowOf(m)} ELSE {})
         /\ \A k : (\A e \in log : e.key = k => ~Decides(e)) => RowsAt(LiveRows(log), k) = {}
<1>1. \A e \in log : e.src = s /\ e.seq \in Nat
  BY DEF OneSource, Event
<1>2. ASSUME NEW m \in log, Decides(m), Latest(log, m), NEW c \in log, CarriesRow(c),
             Latest(log, c), c.key = m.key
      PROVE  c = m
  <2>1. SameRow(c, m) /\ SameRow(m, c) /\ Decides(c)
    BY <1>1, <1>2 DEF SameRow, Decides
  <2>2. c.seq <= m.seq /\ m.seq <= c.seq
    BY <1>2, <2>1 DEF Latest, Decides
  <2>3. c.seq = m.seq
    BY <1>1, <2>2
  <2> QED
    BY <2>3 DEF OneSource
<1>3. \A k : RowsAt(LiveRows(log), k)
             = {RowOf(c) : c \in {c \in log : c.key = k /\ CarriesRow(c) /\ Latest(log, c)}}
  BY DEF RowsAt, LiveRows, RowOf
<1>4. ASSUME NEW m \in log, Decides(m), Latest(log, m)
      PROVE  RowsAt(LiveRows(log), m.key) = (IF CarriesRow(m) THEN {RowOf(m)} ELSE {})
  <2>1. CASE CarriesRow(m)
    <3>1. {c \in log : c.key = m.key /\ CarriesRow(c) /\ Latest(log, c)} = {m}
      BY <1>2, <1>4, <2>1
    <3> QED
      BY <1>3, <2>1, <3>1
  <2>2. CASE ~CarriesRow(m)
    <3>1. {c \in log : c.key = m.key /\ CarriesRow(c) /\ Latest(log, c)} = {}
      BY <1>2, <1>4, <2>2
    <3> QED
      BY <1>3, <2>2, <3>1
  <2> QED
    BY <2>1, <2>2
<1>5. ASSUME NEW k, \A e \in log : e.key = k => ~Decides(e)
      PROVE  RowsAt(LiveRows(log), k) = {}
  BY <1>3, <1>5 DEF Decides
<1> QED
  BY <1>4, <1>5

(* A row is decided by a latest event, or by none. *)
LEMMA LatestExists ==
  ASSUME NEW log \in SUBSET Event, NEW s, OneSource(log, s), NEW top \in Nat,
         \A e \in log : e.seq <= top, NEW k, NEW e \in log, e.key = k, Decides(e)
  PROVE  \E m \in log : m.key = k /\ Decides(m) /\ Latest(log, m)
<1> DEFINE S == {c.seq : c \in {c \in log : c.key = k /\ Decides(c)}}
<1>1. S \in SUBSET (0..top) /\ e.seq \in S
  BY DEF Event
<1>2. S \in SUBSET Int /\ S # {} /\ IsFiniteSet(S)
  <2>1. IsFiniteSet(0..top)
    BY FS_Interval
  <2>2. IsFiniteSet(S)
    BY <1>1, <2>1, FS_Subset
  <2> QED
    BY <1>1, <2>2
<1>3. PICK last \in S : \A x \in S : x <= last
  <2> HIDE DEF S
  <2> QED
    BY <1>2, FiniteHasMax
<1>4. PICK m \in log : m.key = k /\ Decides(m) /\ m.seq = last
  BY <1>3
<1>5. \A c \in log : c.key = k /\ Decides(c) => c.seq <= m.seq
  BY <1>3, <1>4
<1> QED
  BY <1>4, <1>5 DEF Latest, SameRow, Decides

(* The log after the first i events of a file. *)
LogTo(d, body, i) == d.events \cup {body[j] : j \in 1..i}

(* The rows on the way through a file, in whatever order files come: only    *)
(* its new events change them, and at its end those are healed that a logged *)
(* D is later than.                                                          *)
LEMMA FileRows ==
  ASSUME NEW d \in Database, FromLog(d.events, d.current),
         NEW body \in Seq(Event), body # <<>>, NEW s,
         \A i, j \in DOMAIN body : i < j => body[i].seq < body[j].seq,
         OneSource(d.events \cup SeqRange(body), s)
  PROVE  LET n == Len(body)
             log == d.events \cup SeqRange(body)
             done == ApplyFile(d, body) IN
           \E rows :
             /\ rows[0] = d.current
             /\ \A i \in 1..n :
                  rows[i] = IF body[i] \in d.events THEN rows[i - 1]
                            ELSE ApplyCurrent(LogTo(d, body, i), rows[i - 1], body[i])
             /\ \A i \in 0..n : FromLog(LogTo(d, body, i), rows[i])
             /\ LogTo(d, body, n) = log /\ done.events = log
             /\ done.watermarks = Bumped(d.watermarks, body[n])
             /\ done.current = rows[n] \/ done.current = Retracted(log, rows[n], s)
             /\ done = [events |-> done.events, current |-> done.current,
                        watermarks |-> done.watermarks]
<1> DEFINE n == Len(body)
           Log(i) == LogTo(d, body, i)
           Marks(i) == IF i = 0 THEN d.watermarks ELSE Bumped(d.watermarks, body[i])
<1>1. /\ n \in Nat /\ n # 0 /\ DOMAIN body = 1..n
      /\ \A i \in 1..n : body[i] \in Event /\ body[i].seq \in Nat /\ body[i].src = s
      /\ \A e \in d.events : e.seq \in Nat /\ e.src = s
      /\ d.events \in SUBSET Event
  <2>1. \A i \in DOMAIN body : body[i] \in Event /\ body[i] \in SeqRange(body)
    BY DEF SeqRange
  <2>2. d.events \in SUBSET Event
    BY DEF Database
  <2> QED
    BY <2>1, <2>2 DEF Event, OneSource
<1>2. s \in SrcDbs
  BY <1>1 DEF Event
<1>3. PICK step :
        /\ step[0] = d
        /\ \A i \in 1..n : step[i] = ApplyEvent(step[i - 1], body[i])
        /\ ApplyFile(d, body) =
             IF \E i \in DOMAIN body : Logged(d.events, body[i])
             THEN [step[n] EXCEPT !.current = Retracted(step[n].events, @, s)]
             ELSE step[n]
  <2>1. Len(body) \in Nat /\ body[1].src = s
    BY <1>1
  <2> HIDE DEF Log, Marks
  <2> QED
    BY <2>1, ApplyFileRuns
<1>4. Log(n) = d.events \cup SeqRange(body) /\ Log(0) = d.events
  BY <1>1 DEF SeqRange, LogTo
<1> DEFINE Fits(i) ==
             /\ step[i] = [events |-> Log(i), current |-> step[i].current,
                           watermarks |-> Marks(i)]
             /\ FromLog(Log(i), step[i].current)
             /\ i # 0 => step[i].current =
                  IF body[i] \in d.events THEN step[i - 1].current
                  ELSE ApplyCurrent(Log(i), step[i - 1].current, body[i])
           S == {i \in 0..n : Fits(i)}
<1>5. 0 \in S
  <2>1. d = [events |-> d.events, current |-> d.current, watermarks |-> d.watermarks]
    BY DEF Database
  <2>2. Fits(0)
    BY <1>3, <1>4, <2>1
  <2> QED
    BY <1>1, <2>2
<1>6. ASSUME NEW i \in 0..n, i \in S, i < n PROVE i + 1 \in S
  <2> DEFINE e == body[i + 1]
             log == Log(i)
  <2>1. /\ i + 1 \in 1..n /\ (i + 1) - 1 = i /\ i + 1 \in DOMAIN body /\ i + 1 \in 0..n
        /\ \A j \in 1..i : j \in 1..n /\ j < i + 1
    BY <1>1, <1>6
  <2>2. /\ e \in Event /\ e.src = s /\ e.seq \in Nat
        /\ \A j \in 1..i : body[j].seq < e.seq /\ body[j].seq \in Nat /\ body[j].src = s
    BY <1>1, <2>1
  <2>3. Log(i + 1) = log \cup {e}
    BY <2>1 DEF LogTo
  <2>4. /\ step[i] = [events |-> log, current |-> step[i].current, watermarks |-> Marks(i)]
        /\ FromLog(log, step[i].current)
        /\ step[i + 1] = ApplyEvent(step[i], e)
    BY <1>3, <1>6, <2>1
  <2>5. Bumped(Marks(i), e) = Marks(i + 1)
    <3>1. Marks(i + 1) = Bumped(d.watermarks, e)
      BY <2>1
    <3>2. CASE i = 0
      BY <3>1, <3>2
    <3>3. CASE i # 0
      <4>1. i \in 1..i /\ i \in 1..n
        BY <2>1, <3>3
      <4>2. body[i].src = s /\ body[i].seq < e.seq /\ body[i].seq \in Nat
        BY <1>1, <2>2, <4>1
      <4>3. d.watermarks \in [SrcDbs -> Nat] /\ d.watermarks[s] \in Nat
        BY <1>2 DEF Database
      <4>4. Marks(i) = Bumped(d.watermarks, body[i])
        BY <3>3
      <4>5. Bumped(Bumped(d.watermarks, body[i]), e) = Bumped(d.watermarks, e)
        <5> HIDE DEF e
        <5> QED
          BY <1>2, <2>2, <4>2, <4>3 DEF Bumped
      <4> QED
        BY <3>1, <4>4, <4>5
    <3> QED
      BY <3>2, <3>3
  <2>6. Logged(log, e) <=> e \in d.events
    <3>1. CASE e \in d.events
      BY <3>1 DEF Logged, LogTo
    <3>2. ASSUME NEW f \in log, f.src = e.src, f.seq = e.seq PROVE e \in d.events
      <4>1. CASE f \in d.events
        <5>1. e \in SeqRange(body)
          BY <2>1 DEF SeqRange
        <5> QED
          BY <3>2, <4>1, <5>1 DEF OneSource
      <4>2. ASSUME NEW j \in 1..i, f = body[j] PROVE FALSE
        BY <2>2, <3>2, <4>2
      <4> QED
        BY <4>1, <4>2 DEF LogTo
    <3> QED
      BY <3>1, <3>2 DEF Logged
  <2>7. step[i + 1] =
          [events |-> IF e \in d.events THEN log ELSE log \cup {e},
           current |-> IF e \in d.events THEN step[i].current
                       ELSE ApplyCurrent(log \cup {e}, step[i].current, e),
           watermarks |-> Marks(i + 1)]
    <3>1. step[i].events = log /\ step[i].watermarks = Marks(i)
      BY <2>4
    <3> QED
      BY <2>4, <2>5, <2>6, <3>1 DEF ApplyEvent
  <2>8. e \in d.events => log \cup {e} = log
    BY DEF LogTo
  <2> HIDE DEF Log, Marks, e, log
  <2>9. PICK cur :
          /\ cur = IF e \in d.events THEN step[i].current
                   ELSE ApplyCurrent(Log(i + 1), step[i].current, e)
          /\ step[i + 1] = [events |-> Log(i + 1), current |-> cur, watermarks |-> Marks(i + 1)]
    <3>1. CASE e \in d.events
      BY <2>3, <2>7, <2>8, <3>1
    <3>2. CASE e \notin d.events
      BY <2>3, <2>7, <3>2
    <3> QED
      BY <3>1, <3>2
  <2>10. step[i + 1].current = cur
    BY <2>9
  <2>11. FromLog(Log(i + 1), step[i + 1].current)
    <3>1. FromLog(log, step[i].current) /\ log \subseteq Log(i + 1) /\ e \in Log(i + 1)
      BY <2>3, <2>4
    <3> QED
      BY <2>9, <2>10, <3>1, ImageOfOwn DEF FromLog
  <2>12. Fits(i + 1)
    BY <2>1, <2>9, <2>10, <2>11 DEF e
  <2> QED
    BY <2>1, <2>12
<1>7. \A i \in 0..n : Fits(i)
  <2> HIDE DEF Fits
  <2>1. \A i \in 0..n : i \in S
    <3> HIDE DEF S
    <3> QED
      BY <1>1, <1>5, <1>6, UpTo
  <2> QED
    BY <2>1
<1>8. PICK rows : rows = [i \in 0..n |-> step[i].current]
  OBVIOUS
<1>9. n \in 0..n /\ 0 \in 0..n /\ rows[0] = d.current /\ rows[n] = step[n].current
  BY <1>1, <1>3, <1>8
<1>10. ASSUME NEW i \in 1..n
       PROVE  rows[i] = IF body[i] \in d.events THEN rows[i - 1]
                        ELSE ApplyCurrent(Log(i), rows[i - 1], body[i])
  <2>1. i \in 0..n /\ i - 1 \in 0..n /\ i # 0
    BY <1>1
  <2>2. rows[i] = step[i].current /\ rows[i - 1] = step[i - 1].current
    BY <1>8, <2>1
  <2> QED
    BY <1>7, <2>1, <2>2
<1>11. \A i \in 0..n : FromLog(Log(i), rows[i])
  BY <1>7, <1>8
<1>12. /\ step[n].events = Log(n) /\ step[n].watermarks = Bumped(d.watermarks, body[n])
       /\ step[n] = [events |-> Log(n), current |-> step[n].current,
                     watermarks |-> Bumped(d.watermarks, body[n])]
  <2>1. Fits(n) /\ Marks(n) = Bumped(d.watermarks, body[n])
    BY <1>1, <1>7, <1>9
  <2> QED
    BY <2>1
<1> HIDE DEF n, Log
<1>13. \/ ApplyFile(d, body) = step[n]
       \/ ApplyFile(d, body) = [events |-> Log(n), current |-> Retracted(Log(n), rows[n], s),
                                watermarks |-> Bumped(d.watermarks, body[n])]
  BY <1>3, <1>9, <1>12
<1> QED
  BY <1>4, <1>9, <1>10, <1>11, <1>12, <1>13 DEF n, Log

(* A file in any order: the log has its events, a row that one of the new    *)
(* ones decides is right, a right row that no D reaches too late stays as it *)
(* is, and a live image that is missing, or that a late D takes, is missing. *)
Follows(d, done, events) ==
  LET log == d.events \cup events
      new == log \ d.events IN
    /\ done \in Database /\ done.events = log /\ FromLog(log, done.current)
    /\ \A m \in new : Decides(m) /\ Latest(log, m) =>
         RowsAt(done.current, m.key) = RowsAt(LiveRows(log), m.key)
    /\ \A m \in d.events :
         /\ CarriesRow(m) /\ Latest(log, m)
         /\ RowOf(m) \notin d.current \/ \E e \in new : e.key = m.key /\ e.op = "D"
         => RowOf(m) \notin done.current
    /\ \A k :
         /\ \A m \in new : m.key = k /\ Decides(m) => ~Latest(log, m)
         /\ RowsAt(d.current, k) = RowsAt(LiveRows(d.events), k)
         /\ \A m \in d.events, e \in new :
              m.key = k /\ CarriesRow(m) /\ Latest(log, m) => ~(e.key = k /\ e.op = "D")
         => /\ RowsAt(done.current, k) = RowsAt(d.current, k)
            /\ RowsAt(done.current, k) = RowsAt(LiveRows(log), k)

LEMMA AppliedAnyOrder ==
  ASSUME NEW d \in Database, FromLog(d.events, d.current),
         NEW body \in Seq(Event), body # <<>>, NEW s, NEW top \in Nat,
         \A i, j \in DOMAIN body : i < j => body[i].seq < body[j].seq,
         OneSource(d.events \cup SeqRange(body), s),
         \A e \in d.events \cup SeqRange(body) : e.seq <= top
  PROVE  /\ Follows(d, ApplyFile(d, body), SeqRange(body))
         /\ ApplyFile(d, body).watermarks = Bumped(d.watermarks, body[Len(body)])
<1> DEFINE n == Len(body)
           done == ApplyFile(d, body)
           log == d.events \cup SeqRange(body)
           new == log \ d.events
           Log(i) == LogTo(d, body, i)
<1>1. /\ n \in Nat /\ n # 0 /\ DOMAIN body = 1..n /\ 0 \in 0..n /\ n \in 0..n /\ n \in 1..n
      /\ \A i \in 1..n : body[i] \in log /\ body[i] \in SeqRange(body)
      /\ log \in SUBSET Event /\ d.events \subseteq log
      /\ \A e \in log : e.seq \in Nat /\ e.src = s
      /\ \A e, f \in log : e.seq = f.seq => e = f
  <2>1. DOMAIN body = 1..n /\ n \in Nat /\ n # 0
    OBVIOUS
  <2>2. d.events \in SUBSET Event /\ SeqRange(body) \in SUBSET Event
    BY DEF Database, SeqRange
  <2>3. \A i \in 1..n : body[i] \in SeqRange(body)
    BY <2>1 DEF SeqRange
  <2> QED
    BY <2>1, <2>2, <2>3 DEF Event, OneSource
<1>2. /\ OneSource(log, s) /\ OneSource(d.events, s)
      /\ \A i \in 0..n : Log(i) \subseteq log
      /\ \A i \in 1..n : body[i] \in Log(i)
      /\ \A i \in 1..n : Log(i) \ {body[i]} \subseteq Log(i)
  BY <1>1 DEF OneSource, LogTo
<1>3. PICK rows :
        /\ rows[0] = d.current
        /\ \A i \in 1..n :
             rows[i] = IF body[i] \in d.events THEN rows[i - 1]
                       ELSE ApplyCurrent(Log(i), rows[i - 1], body[i])
        /\ \A i \in 0..n : FromLog(Log(i), rows[i])
        /\ Log(n) = log /\ done.events = log
        /\ done.watermarks = Bumped(d.watermarks, body[n])
        /\ done.current = rows[n] \/ done.current = Retracted(log, rows[n], s)
        /\ done = [events |-> done.events, current |-> done.current,
                   watermarks |-> done.watermarks]
  BY FileRows
<1> HIDE DEF n, done, log, Log
<1>4. done.current \subseteq rows[n] /\ FromLog(log, done.current)
  BY <1>1, <1>3 DEF Retracted, FromLog
<1>5. done \in Database
  <2>1. done.current \subseteq Row
    <3>1. \A c \in Event : CarriesRow(c) => RowOf(c) \in Row
      BY DEF Event, Row, RowOf, CarriesRow
    <3> QED
      BY <1>1, <1>4, <3>1 DEF FromLog
  <2>2. done.watermarks \in [SrcDbs -> Nat]
    <3>1. body[n].seq \in Nat /\ d.watermarks \in [SrcDbs -> Nat]
      BY <1>1 DEF Database
    <3> QED
      BY <1>3, <3>1 DEF Bumped
  <2> QED
    BY <1>1, <1>3, <2>1, <2>2 DEF Database
<1>6. ASSUME NEW m \in log, CarriesRow(m), Latest(log, m), RowOf(m) \in rows[n]
      PROVE  RowOf(m) \in done.current
  <2>1. ~LaterDelete(log, RowOf(m))
    <3> SUFFICES ASSUME NEW e \in log, SameRow(e, RowOf(m)), e.op = "D", e.seq > RowOf(m).seq
                 PROVE  FALSE
      BY DEF LaterDelete
    <3>1. SameRow(e, m) /\ e.seq > m.seq
      BY DEF SameRow, RowOf
    <3> QED
      BY <1>1, <1>6, <3>1 DEF Latest
  <2> QED
    BY <1>3, <1>6, <2>1 DEF Retracted
<1>7. \A i \in 1..n : i - 1 \in 0..n /\ i \in 0..n
  BY <1>1
(* A row that nothing changes from some event on is that of the end. *)
<1>8. ASSUME NEW j \in 0..n, NEW k, NEW at, RowsAt(rows[j], k) = at,
             \A i \in 1..n : j < i /\ body[i] \notin d.events /\ RowsAt(rows[i - 1], k) = at
               => Spares(Log(i), rows[i - 1], body[i], k)
      PROVE  RowsAt(rows[n], k) = at
  <2> DEFINE S == {i \in 0..n : j <= i => RowsAt(rows[i], k) = at}
  <2>1. 0 \in S
    <3>1. j <= 0 => j = 0
      BY <1>1
    <3> QED
      BY <1>1, <1>8, <3>1
  <2>2. ASSUME NEW i \in 0..n, i \in S, i < n PROVE i + 1 \in S
    <3>1. /\ i + 1 \in 1..n /\ i + 1 \in 0..n /\ (i + 1) - 1 = i
          /\ j <= i + 1 => j = i + 1 \/ (j <= i /\ j < i + 1)
      BY <1>1, <2>2
    <3>2. CASE j <= i /\ j < i + 1
      <4>1. RowsAt(rows[i], k) = at
        BY <2>2, <3>2
      <4>2. CASE body[i + 1] \in d.events
        BY <1>3, <3>1, <4>1, <4>2
      <4>3. CASE body[i + 1] \notin d.events
        <5>1. Spares(Log(i + 1), rows[i], body[i + 1], k)
          BY <1>8, <3>1, <3>2, <4>1, <4>3
        <5>2. rows[i + 1] = ApplyCurrent(Log(i + 1), rows[i], body[i + 1])
          BY <1>3, <3>1, <4>3
        <5> QED
          BY <3>1, <4>1, <5>1, <5>2, RowSpared
      <4> QED
        BY <4>2, <4>3
    <3> QED
      BY <1>8, <3>1, <3>2
  <2> HIDE DEF S
  <2>3. n \in S
    BY <1>1, <2>1, <2>2, UpTo
  <2> QED
    BY <1>1, <2>3 DEF S
(* The image of an event logged before does not come back. *)
<1>9. ASSUME NEW j \in 0..n, NEW m \in d.events, RowOf(m) \notin rows[j]
      PROVE  RowOf(m) \notin rows[n]
  <2> DEFINE S == {i \in 0..n : j <= i => RowOf(m) \notin rows[i]}
  <2>1. 0 \in S
    <3>1. j <= 0 => j = 0
      BY <1>1
    <3> QED
      BY <1>1, <1>9, <3>1
  <2>2. ASSUME NEW i \in 0..n, i \in S, i < n PROVE i + 1 \in S
    <3>1. /\ i + 1 \in 1..n /\ i + 1 \in 0..n /\ (i + 1) - 1 = i
          /\ j <= i + 1 => j = i + 1 \/ (j <= i /\ j < i + 1)
      BY <1>1, <2>2
    <3>2. CASE j <= i /\ j < i + 1
      <4>1. RowOf(m) \notin rows[i]
        BY <2>2, <3>2
      <4>2. CASE body[i + 1] \in d.events
        BY <1>3, <3>1, <4>1, <4>2
      <4>3. CASE body[i + 1] \notin d.events
        <5>1. rows[i + 1] = ApplyCurrent(Log(i + 1), rows[i], body[i + 1])
          BY <1>3, <3>1, <4>3
        <5>2. ASSUME RowOf(m) = RowOf(body[i + 1]) PROVE FALSE
          <6>1. m.seq = body[i + 1].seq
            BY <5>2 DEF RowOf
          <6> QED
            BY <1>1, <3>1, <4>3, <6>1
        <5> QED
          BY <3>1, <4>1, <5>1, <5>2, ImageOfOwn
      <4> QED
        BY <4>2, <4>3
    <3> QED
      BY <1>9, <3>1, <3>2
  <2> HIDE DEF S
  <2>3. n \in S
    BY <1>1, <2>1, <2>2, UpTo
  <2> QED
    BY <1>1, <2>3 DEF S
<1>10. \A k : RowsAt(done.current, k) \subseteq RowsAt(rows[n], k)
  BY <1>4 DEF RowsAt
<1>11. ASSUME NEW m \in log, CarriesRow(m), Latest(log, m), RowsAt(rows[n], m.key) = {RowOf(m)}
       PROVE  RowsAt(done.current, m.key) = {RowOf(m)}
  <2>1. RowOf(m) \in rows[n] /\ RowOf(m).key = m.key
    BY <1>11 DEF RowsAt, RowOf
  <2>2. RowOf(m) \in RowsAt(done.current, m.key)
    BY <1>6, <1>11, <2>1 DEF RowsAt
  <2> QED
    BY <1>10, <1>11, <2>2
<1>12. \A e \in new : e \in log /\ e \notin d.events /\ \E j \in 1..n : e = body[j]
  BY <1>1 DEF log, n, SeqRange
<1>13. ASSUME NEW m \in new, Decides(m), Latest(log, m)
       PROVE  RowsAt(done.current, m.key) = RowsAt(LiveRows(log), m.key)
  <2>1. PICK j \in 1..n : m = body[j]
    BY <1>12
  <2>2. m \in log /\ m \notin d.events /\ m \in Log(j) /\ j - 1 \in 0..n /\ j \in 0..n
    BY <1>2, <1>7, <1>12, <2>1
  <2>3. FromLog(Log(j) \ {m}, rows[j - 1])
    <3>1. Log(j - 1) \subseteq Log(j) \ {m}
      <4>1. \A i \in 1..(j - 1) : i \in 1..j /\ i \in DOMAIN body /\ j \in DOMAIN body /\ i < j
        BY <1>1
      <4>2. \A i \in 1..(j - 1) : body[i] # m
        <5>1. \A i \in 1..(j - 1) : body[i].seq < body[j].seq /\ body[j].seq \in Nat
          BY <1>1, <4>1
        <5>2. \A i \in 1..(j - 1) : body[i].seq # body[j].seq
          BY <1>1, <4>1, <5>1
        <5> QED
          BY <2>1, <5>2
      <4> QED
        BY <2>2, <4>1, <4>2 DEF Log, LogTo
    <3>2. FromLog(Log(j - 1), rows[j - 1])
      BY <1>3, <2>2
    <3> QED
      BY <3>1, <3>2 DEF FromLog
  <2>4. Log(j) \in SUBSET Event /\ OneSource(Log(j), s) /\ Latest(Log(j), m)
    BY <1>1, <1>2, <1>13, <2>2 DEF OneSource, Latest
  <2>5. rows[j] = ApplyCurrent(Log(j), rows[j - 1], m)
    BY <1>3, <2>1, <2>2
  <2>6. PICK at : at = IF CarriesRow(m) THEN {RowOf(m)} ELSE {}
    OBVIOUS
  <2>7. RowsAt(rows[j], m.key) = at
    BY <1>13, <2>2, <2>3, <2>4, <2>5, <2>6, RowSettled
  <2>8. ASSUME NEW i \in 1..n, j < i PROVE body[i].key # m.key \/ ~Decides(body[i])
    <3>1. m.seq < body[i].seq
      BY <1>1, <2>1, <2>8
    <3>2. body[i] \in log /\ body[i].src = m.src /\ body[i].seq \in Nat /\ m.seq \in Nat
      BY <1>1, <2>2
    <3> QED
      BY <1>13, <3>1, <3>2 DEF Latest, SameRow, Decides
  <2>9. RowsAt(rows[n], m.key) = at
    BY <1>8, <2>2, <2>7, <2>8 DEF Spares
  <2>10. RowsAt(done.current, m.key) = at
    <3>1. CASE CarriesRow(m)
      BY <1>11, <1>13, <2>2, <2>6, <2>9, <3>1
    <3>2. CASE ~CarriesRow(m)
      BY <1>10, <2>6, <2>9, <3>2
    <3> QED
      BY <3>1, <3>2
  <2> QED
    BY <1>1, <1>2, <1>13, <2>2, <2>6, <2>10, LiveRowAt
<1>14. ASSUME NEW m \in d.events,
              RowOf(m) \notin d.current \/ \E e \in new : e.key = m.key /\ e.op = "D"
       PROVE  RowOf(m) \notin done.current
  <2>1. CASE RowOf(m) \notin d.current
    BY <1>1, <1>3, <1>4, <1>9, <2>1
  <2>2. ASSUME NEW e \in new, e.key = m.key, e.op = "D" PROVE RowOf(m) \notin done.current
    <3>1. PICK j \in 1..n : e = body[j]
      BY <1>12
    <3>2. rows[j] = ApplyCurrent(Log(j), rows[j - 1], e) /\ j \in 0..n
      BY <1>3, <1>7, <1>12, <3>1
    <3>3. SameRow(RowOf(m), e)
      BY <1>1, <1>12, <2>2 DEF SameRow, RowOf
    <3>4. RowOf(m) \notin rows[j]
      BY <2>2, <3>2, <3>3 DEF ApplyCurrent, Deleted
    <3> QED
      BY <1>4, <1>9, <3>2, <3>4
  <2> QED
    BY <1>14, <2>1, <2>2
<1>15. ASSUME NEW k,
              \A m \in new : m.key = k /\ Decides(m) => ~Latest(log, m),
              RowsAt(d.current, k) = RowsAt(LiveRows(d.events), k),
              \A m \in d.events, e \in new :
                m.key = k /\ CarriesRow(m) /\ Latest(log, m) => ~(e.key = k /\ e.op = "D")
       PROVE  /\ RowsAt(done.current, k) = RowsAt(d.current, k)
              /\ RowsAt(done.current, k) = RowsAt(LiveRows(log), k)
  <2>1. CASE \A e \in log : e.key = k => ~Decides(e)
    <3>1. RowsAt(LiveRows(log), k) = {} /\ RowsAt(d.current, k) = {}
      BY <1>1, <1>2, <1>15, <2>1, LiveRowAt
    <3>2. \A i \in 1..n : Spares(Log(i), rows[i - 1], body[i], k)
      BY <1>1, <2>1 DEF Spares
    <3>3. RowsAt(rows[n], k) = {}
      BY <1>1, <1>3, <1>8, <3>1, <3>2
    <3> QED
      BY <1>10, <3>1, <3>3
  <2>2. ASSUME NEW e0 \in log, e0.key = k, Decides(e0)
        PROVE  /\ RowsAt(done.current, k) = RowsAt(d.current, k)
               /\ RowsAt(done.current, k) = RowsAt(LiveRows(log), k)
    <3>1. PICK m \in log : m.key = k /\ Decides(m) /\ Latest(log, m)
      <4>1. \A e \in log : e.seq <= top
        BY DEF log
      <4> QED
        BY <1>1, <1>2, <2>2, <4>1, LatestExists
    <3>2. m \in d.events
      BY <1>15, <3>1
    <3>3. Latest(d.events, m)
      BY <1>1, <3>1 DEF Latest
    <3>4. /\ RowsAt(LiveRows(log), k) = (IF CarriesRow(m) THEN {RowOf(m)} ELSE {})
          /\ RowsAt(LiveRows(d.events), k) = (IF CarriesRow(m) THEN {RowOf(m)} ELSE {})
      BY <1>1, <1>2, <3>1, <3>2, <3>3, LiveRowAt
    <3>5. ASSUME NEW i \in 1..n, body[i] \notin d.events, body[i].key = k, Decides(body[i])
          PROVE  /\ body[i].seq < m.seq /\ m \in Log(i)
                 /\ SameRow(m, body[i]) /\ body[i] \in new
      <4>1. body[i] \in log /\ SameRow(body[i], m) /\ SameRow(m, body[i]) /\ body[i] # m
        BY <1>1, <3>1, <3>2, <3>5 DEF SameRow
      <4>2. body[i].seq <= m.seq /\ body[i].seq # m.seq /\ body[i].seq \in Nat /\ m.seq \in Nat
        BY <1>1, <3>1, <3>5, <4>1 DEF Latest, Decides
      <4>3. m \in Log(i)
        BY <3>2 DEF Log, LogTo
      <4> QED
        BY <3>5, <4>1, <4>2, <4>3
    <3>6. CASE ~CarriesRow(m)
      <4>1. RowsAt(d.current, k) = {} /\ m.op = "D"
        BY <1>15, <3>1, <3>4, <3>6 DEF Decides
      <4>2. ASSUME NEW i \in 1..n, body[i] \notin d.events, RowsAt(rows[i - 1], k) = {}
            PROVE  Spares(Log(i), rows[i - 1], body[i], k)
        <5>1. ASSUME body[i].key = k, CarriesRow(body[i]) PROVE LaterDelete(Log(i), body[i])
          <6>1. body[i].seq < m.seq /\ m \in Log(i) /\ SameRow(m, body[i])
            BY <3>5, <4>2, <5>1 DEF Decides
          <6>2. m.seq > body[i].seq
            BY <1>1, <3>1, <6>1
          <6> QED
            BY <4>1, <6>1, <6>2 DEF LaterDelete
        <5> QED
          BY <4>2, <5>1 DEF Spares, Decides
      <4>3. RowsAt(rows[n], k) = {}
        BY <1>1, <1>3, <1>8, <4>1, <4>2
      <4> QED
        BY <1>10, <3>4, <3>6, <4>1, <4>3
    <3>7. CASE CarriesRow(m)
      <4>1. RowsAt(d.current, k) = {RowOf(m)}
        BY <1>15, <3>4, <3>7
      <4>2. ASSUME NEW i \in 1..n, body[i] \notin d.events, RowsAt(rows[i - 1], k) = {RowOf(m)}
            PROVE  Spares(Log(i), rows[i - 1], body[i], k)
        <5>1. ASSUME body[i].key = k, Decides(body[i])
              PROVE  /\ CarriesRow(body[i])
                     /\ \E r \in rows[i - 1] : SameRow(r, body[i]) /\ r.seq >= body[i].seq
          <6>1. body[i].seq < m.seq /\ SameRow(m, body[i]) /\ body[i] \in new
            BY <3>5, <4>2, <5>1
          <6>2. body[i].op # "D"
            BY <1>15, <3>1, <3>2, <3>7, <5>1, <6>1
          <6>3. RowOf(m) \in rows[i - 1] /\ SameRow(RowOf(m), body[i])
            BY <4>2, <6>1 DEF RowsAt, SameRow, RowOf
          <6>4. RowOf(m).seq >= body[i].seq
            BY <1>1, <3>1, <6>1 DEF RowOf
          <6> QED
            BY <5>1, <6>2, <6>3, <6>4 DEF Decides
        <5> QED
          BY <5>1 DEF Spares
      <4>3. RowsAt(rows[n], k) = {RowOf(m)}
        <5>1. RowsAt(rows[0], k) = {RowOf(m)} /\ 0 \in 0..n
          BY <1>1, <1>3, <4>1
        <5>2. PICK at : at = {RowOf(m)}
          OBVIOUS
        <5> QED
          BY <1>8, <4>2, <5>1, <5>2
      <4> QED
        BY <1>11, <3>1, <3>4, <3>7, <4>1, <4>3
    <3> QED
      BY <3>6, <3>7
  <2> QED
    BY <2>1, <2>2
<1>16. done.events = log /\ done.watermarks = Bumped(d.watermarks, body[n])
  BY <1>3
<1> HIDE DEF new
<1>17. \A m \in d.events :
         /\ CarriesRow(m) /\ Latest(log, m)
         /\ RowOf(m) \notin d.current \/ \E e \in new : e.key = m.key /\ e.op = "D"
         => RowOf(m) \notin done.current
  BY <1>14
<1> QED
  BY <1>4, <1>5, <1>13, <1>15, <1>16, <1>17 DEF n, done, log, new, Follows
=============================================================================
