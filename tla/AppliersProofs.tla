--------------------------- MODULE AppliersProofs ---------------------------
(***************************************************************************)
(* Several appliers on one Mini, for any number of them and every set of     *)
(* published files: the Mini still implements Replica and SerialMini, its    *)
(* rows are the live rows of its log, and no file goes that is not committed. *)
(*                                                                          *)
(* The argument: every event before the file in hand is committed, and every *)
(* event the applier has passed is committed or its own.  So two appliers    *)
(* with uncommitted events of one source would both have logged the least    *)
(* event of the source that is not committed, and the primary key of         *)
(* capture.events lets only one of them.  Whoever logs events of a source    *)
(* thus sees its rows as the live rows of all it sees, one event after the   *)
(* other; the locks on rows are not needed for that.  The lock on the        *)
(* watermark is: it makes the mark of a transaction the one a lone applier   *)
(* would leave, so that a commit is a step of SerialMini.                    *)
(***************************************************************************)
EXTENDS Appliers, MiniTablesProofs

Open(p) == run[p].pc \in {"insert", "current", "write", "bump"}
InHand(p) == Open(p) \/ At(p, "remove")
AtEvent(p) == run[p].pc \in {"current", "write", "bump"}

(* The spool holds published files. *)
SpoolIsFiles ==
  \A g \in DOMAIN incoming : \E f \in Files : f.path = g /\ f.body = incoming[g]

(* An applier reads a published file, and has a transaction only on one.     *)
Reading(p) ==
  /\ \A g \in run[p].paths : \E f \in Files : f.path = g
  /\ InHand(p) => \E f \in Files : run[p].path = {f.path} /\ run[p].body = f.body
  /\ AtEvent(p) => More(p)
  /\ At(p, "remove") => ~More(p)
  /\ At(p, "write") => Ev(p).op = "D" \/ CarriesRow(Ev(p))
  /\ ~Open(p) => own[p] = NoWrites

TypeInv == TypeOK /\ SpoolIsFiles /\ \A p \in Procs : Reading(p)

(* The log is a prefix of every journal, and the spool has no gap after it.  *)
LogOK ==
  /\ db.events \subseteq Journal /\ Mini!PrefixClosed(db.events)
  /\ GapFree(db.events, incoming)

(* What precedes a listed file is committed, listed too, or in hand. *)
Listed(p) ==
  \A g \in run[p].paths, e \in Journal :
    e.src = g.src /\ e.seq < g.lo =>
      \/ e \in db.events
      \/ \E f \in Files : f.path \in run[p].paths /\ e \in SeqRange(f.body)
      \/ InHand(p) /\ e \in SeqRange(run[p].body)

(* What precedes the file in hand is committed. *)
EarlierLogged(p) ==
  InHand(p) =>
    \A e \in Journal : e.src = Source(p) /\ e.seq < run[p].body[1].seq => e \in db.events

(* The events the applier has passed are committed or its own. *)
Passed(p) ==
  InHand(p) =>
    \A i \in DOMAIN run[p].body :
      i < run[p].pos \/ (i = run[p].pos /\ AtEvent(p)) => run[p].body[i] \in SeenEvents(p)

(* What it has logged itself is from its file, and continues the log. *)
OwnLog(p) ==
  /\ own[p].log \subseteq SeqRange(run[p].body) /\ own[p].log \cap db.events = {}
  /\ Mini!PrefixClosed(SeenEvents(p))

(* The event it applies is its own, and the last of the source it sees. *)
NewestOfSource(p) ==
  run[p].pc \in {"current", "write"} =>
    /\ Ev(p) \in own[p].log
    /\ \A f \in SeenEvents(p) : f.src = Source(p) /\ f # Ev(p) => f.seq < Ev(p).seq

LogPart(p) ==
  Listed(p) /\ EarlierLogged(p) /\ Passed(p) /\ OwnLog(p) /\ NewestOfSource(p)

(* Uncommitted events of one source are one applier's. *)
OneLogger ==
  \A p, q \in Procs :
    p # q /\ own[p].log # {} /\ own[q].log # {} => Source(p) # Source(q)

LogInv == LogOK /\ OneLogger /\ \A p \in Procs : LogPart(p)

(* The rows an applier reads are the live rows of the events it was told of: *)
(* those it sees, but for the one it is applying.                            *)
Told(p) ==
  IF run[p].pc \in {"current", "write"} THEN SeenEvents(p) \ {Ev(p)} ELSE SeenEvents(p)

ReadsLiveRows(p) ==
  Open(p) => Of(SeenCurrent(p), Source(p)) = LiveRows(Of(Told(p), Source(p)))

(* It changes rows of its source only, and only on behalf of its events. *)
OwnRows(p) ==
  /\ \A x \in own[p].gone \cup own[p].rows : x.src = Source(p)
  /\ own[p].log = {} => own[p].gone = {} /\ own[p].rows = {}

RowInv == CurrentIsLatest /\ \A p \in Procs : ReadsLiveRows(p) /\ OwnRows(p)

(* What a step of p may touch: its own run and its own transaction. *)
Only(p) ==
  /\ run' = [run EXCEPT ![p] = run'[p]] /\ own' = [own EXCEPT ![p] = own'[p]]
-----------------------------------------------------------------------------
(* The file in hand, and the event at pos. *)
LEMMA HandFacts ==
  ASSUME TypeInv, NEW p \in Procs, InHand(p)
  PROVE  /\ \E f \in Files : run[p].path = {f.path} /\ run[p].body = f.body
         /\ 1 \in DOMAIN run[p].body /\ run[p].body # <<>>
         /\ SeqRange(run[p].body) \subseteq Journal
         /\ \A i \in DOMAIN run[p].body : run[p].body[i].src = Source(p)
         /\ Source(p) \in SrcDbs
         /\ run[p].pos \in Nat \ {0} /\ Len(run[p].body) \in Nat
         /\ DOMAIN run[p].body = 1..Len(run[p].body)
<1>1. PICK f \in Files : run[p].path = {f.path} /\ run[p].body = f.body
  BY DEF TypeInv, Reading
<1>2. run[p] \in Run
  BY DEF TypeInv, TypeOK
<1>3. run[p].pos \in Nat \ {0} /\ run[p].body \in Seq(Event)
  BY <1>2 DEF Run
<1>4. f.path.src \in SrcDbs
  BY FileFacts DEF Path
<1> QED
  BY <1>1, <1>3, <1>4, FileFacts DEF Source

(* A statement is about an event of the journal, of the file's source. *)
LEMMA EvFacts ==
  ASSUME TypeInv, NEW p \in Procs, InHand(p), More(p)
  PROVE  /\ run[p].pos \in DOMAIN run[p].body /\ Ev(p) = run[p].body[run[p].pos]
         /\ Ev(p) \in Event /\ Ev(p) \in Journal /\ Ev(p).src = Source(p)
         /\ Ev(p).op \in Ops
<1>1. run[p].pos \in DOMAIN run[p].body
  BY HandFacts DEF More
<1>2. Ev(p) \in SeqRange(run[p].body) /\ Ev(p) = run[p].body[run[p].pos]
  BY <1>1 DEF Ev, SeqRange
<1>3. Ev(p) \in Journal /\ Ev(p).src = Source(p)
  BY <1>1, <1>2, HandFacts DEF Ev
<1> QED
  BY <1>1, <1>2, <1>3, JournalIsEvents, ApplierConstants

(* The empty Mini satisfies it. *)
LEMMA TypeInvInit == Init => TypeInv
<1> SUFFICES ASSUME Init PROVE TypeInv
  OBVIOUS
<1>1. Idle \in Run
  BY DEF Idle, Run
<1>2. NoWrites \in Writes
  BY DEF NoWrites, Writes
<1>3. EmptyDatabase \in Database
  BY DEF EmptyDatabase, Database
<1>4. DOMAIN incoming = {}
  BY DEF Init
<1>5. \A p \in Procs : run[p] = Idle /\ own[p] = NoWrites
  BY DEF Init
<1>6. TypeOK
  BY <1>1, <1>2, <1>3, <1>4, <1>5 DEF TypeOK, Init, Idle
<1>7. \A p \in Procs : Reading(p)
  BY <1>5 DEF Reading, Idle, InHand, Open, AtEvent, At
<1> QED
  BY <1>4, <1>6, <1>7 DEF TypeInv, SpoolIsFiles

(* A step of p that keeps its own part keeps the whole. *)
LEMMA TypeInvOf ==
  ASSUME TypeInv, NEW p \in Procs, Only(p),
         db' \in Database,
         \/ UNCHANGED incoming
         \/ /\ DOMAIN incoming' \subseteq DOMAIN incoming
            /\ \A g \in DOMAIN incoming' : incoming'[g] = incoming[g],
         run'[p] \in Run, own'[p] \in Writes, run'[p].path \cap run'[p].paths = {},
         Reading(p)'
  PROVE  TypeInv'
<1>1. \A q \in Procs : q # p => run'[q] = run[q] /\ own'[q] = own[q]
  BY DEF Only, TypeInv, TypeOK
<1>2. run' \in [Procs -> Run] /\ own' \in [Procs -> Writes]
  BY DEF Only, TypeInv, TypeOK
<1>3. \A q \in Procs : Reading(q)'
  <2> SUFFICES ASSUME NEW q \in Procs, q # p PROVE Reading(q)'
    OBVIOUS
  <2>1. Reading(q) /\ run'[q] = run[q] /\ own'[q] = own[q]
    BY <1>1 DEF TypeInv
  <2> QED
    BY <2>1 DEF Reading, InHand, Open, AtEvent, At, More, Ev
<1>4. /\ DOMAIN incoming' \subseteq DOMAIN incoming
      /\ \A g \in DOMAIN incoming' : incoming'[g] = incoming[g]
  OBVIOUS
<1>5. TypeOK'
  BY <1>1, <1>2, <1>4 DEF TypeInv, TypeOK
<1>6. SpoolIsFiles'
  BY <1>4 DEF TypeInv, SpoolIsFiles
<1> QED
  BY <1>3, <1>5, <1>6 DEF TypeInv

(* A run that ends leaves nothing behind. *)
LEMMA AbortTypeInv ==
  ASSUME TypeInv, NEW p \in Procs, Abort(p)
  PROVE  TypeInv'
<1>1. run'[p] = Idle /\ own'[p] = NoWrites /\ Only(p) /\ UNCHANGED <<db, incoming>>
  BY DEF Abort, Only, TypeInv, TypeOK
<1>2. Idle \in Run /\ NoWrites \in Writes
  BY DEF Idle, Run, NoWrites, Writes
<1>3. Reading(p)'
  BY <1>1 DEF Reading, InHand, Open, AtEvent, At, Idle
<1> QED
  BY <1>1, <1>2, <1>3, TypeInvOf DEF Idle, TypeInv, TypeOK

(* A run that starts lists files. *)
LEMMA StartTypeInv ==
  ASSUME TypeInv, NEW p \in Procs, NEW delete \in BOOLEAN, StartSpool(p, delete)
  PROVE  TypeInv'
<1> DEFINE r == [Idle EXCEPT !.pc = "next", !.paths = DOMAIN incoming, !.delete = delete]
<1>1. run'[p] = r /\ own'[p] = own[p] /\ Only(p) /\ UNCHANGED <<db, incoming>>
  BY DEF StartSpool, Only, TypeInv, TypeOK
<1>2. r \in Run /\ own[p] \in Writes /\ own[p] = NoWrites
  <2>1. Idle \in Run /\ DOMAIN incoming \in SUBSET Path
    BY DEF Idle, Run, TypeInv, TypeOK
  <2>2. r \in Run
    BY <2>1 DEF Run
  <2> QED
    BY <2>2 DEF TypeInv, TypeOK, StartSpool, Reading, Open, At
<1>3. Reading(p)'
  BY <1>1, <1>2 DEF Reading, InHand, Open, AtEvent, At, Idle, TypeInv, SpoolIsFiles
<1>4. r.path = {}
  BY DEF Idle
<1>5. db \in Database
  BY DEF TypeInv, TypeOK
<1> HIDE DEF r
<1> QED
  BY <1>1, <1>2, <1>3, <1>4, <1>5, TypeInvOf

(* A file is opened as the spool holds it. *)
LEMMA OpenNextTypeInv ==
  ASSUME TypeInv, NEW p \in Procs, OpenNext(p), ~Abort(p)
  PROVE  TypeInv'
<1>1. PICK g \in run[p].paths : g \in DOMAIN incoming
        /\ run' = [run EXCEPT ![p] =
                     [pc |-> "insert", paths |-> @.paths \ {g}, path |-> {g},
                      body |-> incoming[g], pos |-> 1, skipped |-> FALSE,
                      delete |-> @.delete]]
        /\ UNCHANGED <<db, incoming, own>>
  BY DEF OpenNext
<1>0. PICK b \in BOOLEAN : b = FALSE
  OBVIOUS
<1> DEFINE r == [pc |-> "insert", paths |-> run[p].paths \ {g}, path |-> {g},
                 body |-> incoming[g], pos |-> 1, skipped |-> b, delete |-> run[p].delete]
<1>2. run'[p] = r /\ own'[p] = own[p] /\ Only(p) /\ UNCHANGED <<db, incoming>>
  BY <1>0, <1>1 DEF Only, TypeInv, TypeOK
<1>3. run[p] \in Run /\ own[p] \in Writes /\ incoming[g] \in Seq(Event) /\ g \in Path
  BY <1>1 DEF TypeInv, TypeOK
<1>4. r \in Run
  <2>1. run[p].paths \ {g} \in SUBSET Path /\ {g} \in SUBSET Path
    BY <1>3 DEF Run
  <2> QED
    BY <1>3, <2>1 DEF Run
<1>5. PICK f \in Files : f.path = g /\ f.body = incoming[g]
  BY <1>1 DEF TypeInv, SpoolIsFiles
<1>6. /\ r.pc = "insert" /\ r.paths = run[p].paths \ {g} /\ r.path = {g}
      /\ r.body = incoming[g]
  BY <1>3 DEF Run
<1>7. Reading(p)'
  BY <1>2, <1>5, <1>6 DEF Reading, InHand, Open, AtEvent, At, TypeInv
<1>8. r.path \cap r.paths = {} /\ db \in Database
  BY <1>6 DEF TypeInv, TypeOK
<1> HIDE DEF r
<1> QED
  BY <1>2, <1>3, <1>4, <1>7, <1>8, TypeInvOf

(* The steps inside a transaction keep the file and move along it. *)
LEMMA MoveTypeInv ==
  ASSUME TypeInv, NEW p \in Procs, Open(p), Only(p), UNCHANGED <<db, incoming>>,
         NEW l \in {"insert", "current", "write", "bump"},
         NEW i \in Nat \ {0}, NEW b \in BOOLEAN,
         run'[p] = [run[p] EXCEPT !.pc = l, !.pos = i, !.skipped = b],
         own'[p] \in Writes,
         l # "insert" => i <= Len(run[p].body),
         l = "write" => run[p].body[i].op = "D" \/ CarriesRow(run[p].body[i])
  PROVE  TypeInv'
<1>1. run[p] \in Run
  BY DEF TypeInv, TypeOK
<1>2. run'[p] \in Run
  BY <1>1 DEF Run
<1>3. /\ run'[p].pc = l /\ run'[p].pos = i /\ run'[p].body = run[p].body
      /\ run'[p].path = run[p].path /\ run'[p].paths = run[p].paths
  BY <1>1 DEF Run
<1>4. Reading(p) /\ InHand(p)
  BY DEF TypeInv, InHand
<1>5. Reading(p)'
  BY <1>3, <1>4 DEF Reading, InHand, Open, AtEvent, At, More, Ev
<1> QED
  BY <1>2, <1>3, <1>5, TypeInvOf DEF TypeInv, TypeOK

(* What a statement reads. *)
LEMMA SeenFacts ==
  ASSUME TypeInv, NEW p \in Procs
  PROVE  /\ run[p] \in Run /\ own[p] \in Writes /\ db \in Database
         /\ SeenEvents(p) \in SUBSET Event /\ SeenCurrent(p) \in SUBSET Row
<1>1. run[p] \in Run /\ own[p] \in Writes /\ db \in Database
  BY DEF TypeInv, TypeOK
<1> QED
  BY <1>1 DEF Writes, Database, SeenEvents, SeenCurrent

(* The statements of an event, and the retract at the end. *)
LEMMA InsertTypeInv ==
  ASSUME TypeInv, NEW p \in Procs, Insert(p)
  PROVE  TypeInv'
<1>1. /\ Open(p) /\ InHand(p) /\ More(p) /\ UNCHANGED <<db, incoming>>
      /\ run[p].pos <= Len(run[p].body)
  BY DEF Insert, Open, InHand, At, More
<1>2. run[p] \in Run /\ own[p] \in Writes /\ Ev(p) \in Event
  BY <1>1, EvFacts, SeenFacts
<1>3. run[p].pos \in Nat \ {0} /\ run[p].skipped \in BOOLEAN
  BY <1>2 DEF Run
<1>4. CASE Logged(SeenEvents(p), Ev(p))
  <2>0. PICK b \in BOOLEAN : b = TRUE
    OBVIOUS
  <2>1. /\ run' = [run EXCEPT ![p] = [run[p] EXCEPT !.pc = "bump", !.skipped = b]]
        /\ own' = own
    BY <1>4, <2>0 DEF Insert
  <2>2. run'[p] = [run[p] EXCEPT !.pc = "bump", !.pos = run[p].pos, !.skipped = b]
    BY <1>2, <2>1 DEF Run, TypeInv, TypeOK
  <2>3. Only(p) /\ own'[p] \in Writes
    BY <1>2, <2>1 DEF Only, TypeInv, TypeOK
  <2> QED
    BY <1>1, <1>3, <2>2, <2>3, MoveTypeInv
<1>5. CASE ~Logged(SeenEvents(p), Ev(p))
  <2>1. /\ run' = [run EXCEPT ![p] = [run[p] EXCEPT !.pc = "current"]]
        /\ own' = [own EXCEPT ![p] = [own[p] EXCEPT !.log = own[p].log \cup {Ev(p)}]]
    BY <1>5 DEF Insert
  <2>2. run'[p] = [run[p] EXCEPT !.pc = "current", !.pos = run[p].pos, !.skipped = run[p].skipped]
    BY <1>2, <2>1 DEF Run, TypeInv, TypeOK
  <2>3. Only(p) /\ own'[p] = [own[p] EXCEPT !.log = own[p].log \cup {Ev(p)}]
    BY <1>2, <2>1 DEF Only, TypeInv, TypeOK
  <2>4. own'[p] \in Writes
    BY <1>2, <2>3 DEF Writes
  <2> QED
    BY <1>1, <1>3, <2>2, <2>3, <2>4, MoveTypeInv
<1> QED
  BY <1>4, <1>5

(* What apply_current decides is to write a D or a row, or nothing. *)
LEMMA CurrentTypeInv ==
  ASSUME TypeInv, NEW p \in Procs, Current(p)
  PROVE  TypeInv'
<1>1. /\ Open(p) /\ AtEvent(p) /\ UNCHANGED <<db, incoming, own>>
  BY DEF Current, Open, AtEvent, At
<1>2. run[p] \in Run /\ own[p] \in Writes /\ run[p].pos <= Len(run[p].body)
  BY <1>1, SeenFacts DEF TypeInv, Reading, More
<1>3. run[p].pos \in Nat \ {0} /\ run[p].skipped \in BOOLEAN
  BY <1>2 DEF Run
<1>4. PICK l \in {"write", "bump"} :
        /\ run' = [run EXCEPT ![p] = [run[p] EXCEPT !.pc = l]]
        /\ l = "write" => Ev(p).op = "D" \/ CarriesRow(Ev(p))
  BY DEF Current
<1>5. run'[p] = [run[p] EXCEPT !.pc = l, !.pos = run[p].pos, !.skipped = run[p].skipped]
  BY <1>2, <1>4 DEF Run, TypeInv, TypeOK
<1>6. Only(p) /\ own'[p] \in Writes
  BY <1>1, <1>2, <1>4 DEF Only, TypeInv, TypeOK
<1> QED
  BY <1>1, <1>2, <1>3, <1>4, <1>5, <1>6, MoveTypeInv DEF Ev

(* What it writes is a row of the event. *)
LEMMA WriteTypeInv ==
  ASSUME TypeInv, NEW p \in Procs, Write(p)
  PROVE  TypeInv'
<1>1. /\ Open(p) /\ InHand(p) /\ AtEvent(p) /\ UNCHANGED <<db, incoming>>
  BY DEF Write, Open, AtEvent, InHand, At
<1>2. run[p] \in Run /\ own[p] \in Writes /\ run[p].pos <= Len(run[p].body) /\ More(p)
  BY <1>1, SeenFacts DEF TypeInv, Reading, More
<1>3. run[p].pos \in Nat \ {0} /\ run[p].skipped \in BOOLEAN
  BY <1>2 DEF Run
<1>4. Ev(p) \in Event /\ (Ev(p).op = "D" \/ CarriesRow(Ev(p)))
  BY <1>1, <1>2, EvFacts DEF TypeInv, Reading, Write
<1> DEFINE e == Ev(p)
           mine == {r \in SeenCurrent(p) : SameRow(r, e)}
           rows == IF e.op = "D" THEN {}
                   ELSE IF \E r \in mine : r.seq >= e.seq THEN mine
                   ELSE {RowOf(e)}
<1>5. rows \in SUBSET Row
  <2>1. e.op # "D" => RowOf(e) \in Row
    BY <1>4 DEF RowOf, Row, Event, CarriesRow
  <2> QED
    BY <2>1, SeenFacts
<1>6. /\ run' = [run EXCEPT ![p] = [run[p] EXCEPT !.pc = "bump"]]
      /\ own' = [own EXCEPT ![p] = 
                   [own[p] EXCEPT !.gone = own[p].gone \cup {IdOf(e)},
                                  !.rows = Deleted(own[p].rows, e) \cup rows]]
  BY DEF Write
<1> HIDE DEF rows
<1>7. run'[p] = [run[p] EXCEPT !.pc = "bump", !.pos = run[p].pos, !.skipped = run[p].skipped]
  BY <1>2, <1>6 DEF Run, TypeInv, TypeOK
<1>8. Only(p) /\ own'[p] = [own[p] EXCEPT !.gone = own[p].gone \cup {IdOf(e)},
                                          !.rows = Deleted(own[p].rows, e) \cup rows]
  BY <1>2, <1>6 DEF Only, TypeInv, TypeOK
<1>9. own'[p] \in Writes
  <2>1. IdOf(e) \in [src: SrcDbs, key: Keys]
    BY <1>4 DEF IdOf, Event
  <2>2. own[p].gone \cup {IdOf(e)} \in SUBSET [src: SrcDbs, key: Keys]
    BY <1>2, <2>1 DEF Writes
  <2>3. Deleted(own[p].rows, e) \cup rows \in SUBSET Row
    BY <1>2, <1>5 DEF Writes, Deleted
  <2> QED
    BY <1>2, <1>8, <2>2, <2>3 DEF Writes
<1> QED
  BY <1>1, <1>2, <1>3, <1>7, <1>8, <1>9, MoveTypeInv

(* The watermark is a seq. *)
LEMMA BumpTypeInv ==
  ASSUME TypeInv, NEW p \in Procs, Bump(p)
  PROVE  TypeInv'
<1>1. /\ Open(p) /\ InHand(p) /\ AtEvent(p) /\ UNCHANGED <<db, incoming>>
  BY DEF Bump, Open, AtEvent, InHand, At
<1>2. run[p] \in Run /\ own[p] \in Writes /\ More(p) /\ db \in Database
  BY <1>1, SeenFacts DEF TypeInv, Reading
<1>3. run[p].pos \in Nat \ {0} /\ run[p].pos + 1 \in Nat \ {0} /\ run[p].skipped \in BOOLEAN
  BY <1>2 DEF Run
<1>4. Ev(p).seq \in Nat /\ Ev(p).src = Source(p) /\ Source(p) \in SrcDbs
  BY <1>1, <1>2, EvFacts, HandFacts DEF Event
<1> DEFINE s == Source(p)
           seen == [db.watermarks EXCEPT ![s] = IF @ < own[p].mark THEN own[p].mark ELSE @]
           mark == Bumped(seen, Ev(p))[s]
<1>5. mark \in Nat
  <2>1. own[p].mark \in Nat /\ db.watermarks \in [SrcDbs -> Nat]
    BY <1>2 DEF Writes, Database
  <2>2. seen \in [SrcDbs -> Nat]
    BY <1>4, <2>1
  <2> HIDE DEF seen
  <2> QED
    BY <1>4, <2>2 DEF Bumped
<1>6. /\ run' = [run EXCEPT ![p] = [run[p] EXCEPT !.pc = "insert", !.pos = run[p].pos + 1]]
      /\ own' = [own EXCEPT ![p] = [own[p] EXCEPT !.mark = mark]]
  BY DEF Bump
<1> HIDE DEF mark
<1>7. run'[p] = [run[p] EXCEPT !.pc = "insert", !.pos = run[p].pos + 1, !.skipped = run[p].skipped]
  BY <1>2, <1>6 DEF Run, TypeInv, TypeOK
<1>8. Only(p) /\ own'[p] = [own[p] EXCEPT !.mark = mark]
  BY <1>2, <1>6 DEF Only, TypeInv, TypeOK
<1>9. own'[p] \in Writes
  BY <1>2, <1>5, <1>8 DEF Writes
<1> QED
  BY <1>1, <1>3, <1>7, <1>8, <1>9, MoveTypeInv

(* The retract takes rows away and adds none. *)
LEMMA RetractTypeInv ==
  ASSUME TypeInv, NEW p \in Procs, Retract(p)
  PROVE  TypeInv'
<1>1. /\ Open(p) /\ At(p, "insert") /\ UNCHANGED <<db, incoming>>
  BY DEF Retract, Open, At
<1>2. run[p] \in Run /\ own[p] \in Writes
  BY SeenFacts
<1>3. run[p].pos \in Nat \ {0}
  BY <1>2 DEF Run
<1> DEFINE stale == {IdOf(r) : r \in Stale(p)}
<1>4. stale \in SUBSET [src: SrcDbs, key: Keys]
  BY SeenFacts DEF Stale, IdOf, Row
<1>0. PICK b \in BOOLEAN : b = FALSE
  OBVIOUS
<1>5. /\ run' = [run EXCEPT ![p] = [run[p] EXCEPT !.skipped = b]]
      /\ own' = [own EXCEPT ![p] = [own[p] EXCEPT !.gone = own[p].gone \cup stale,
                                                  !.rows = own[p].rows \ Stale(p)]]
  BY <1>0 DEF Retract
<1> HIDE DEF stale
<1>6. run'[p] = [run[p] EXCEPT !.pc = "insert", !.pos = run[p].pos, !.skipped = b]
  BY <1>1, <1>2, <1>5 DEF Run, TypeInv, TypeOK, At
<1>7. Only(p) /\ own'[p] = [own[p] EXCEPT !.gone = own[p].gone \cup stale,
                                          !.rows = own[p].rows \ Stale(p)]
  BY <1>2, <1>5 DEF Only, TypeInv, TypeOK
<1>8. own'[p] \in Writes
  <2>1. /\ own[p].gone \cup stale \in SUBSET [src: SrcDbs, key: Keys]
        /\ own[p].rows \ Stale(p) \in SUBSET Row
    BY <1>2, <1>4 DEF Writes
  <2> QED
    BY <1>2, <1>7, <2>1 DEF Writes
<1> QED
  BY <1>1, <1>3, <1>6, <1>7, <1>8, MoveTypeInv

(* The transaction ends, and its file goes. *)
LEMMA CommitTypeInv ==
  ASSUME TypeInv, NEW p \in Procs, Commit(p)
  PROVE  TypeInv'
<1>1. /\ Open(p) /\ InHand(p) /\ ~More(p) /\ UNCHANGED incoming
  BY DEF Commit, Open, InHand, At
<1>2. run[p] \in Run /\ own[p] \in Writes /\ db \in Database
  BY SeenFacts
<1>3. db' \in Database
  <2>1. own[p].mark \in Nat /\ db.watermarks \in [SrcDbs -> Nat]
    BY <1>2 DEF Writes, Database
  <2>2. [db.watermarks EXCEPT ![Source(p)] = own[p].mark] \in [SrcDbs -> Nat]
    BY <2>1
  <2> QED
    BY <2>2, SeenFacts DEF Commit, Database
<1>4. run'[p] = [run[p] EXCEPT !.pc = "remove"] /\ own'[p] = NoWrites /\ Only(p)
  BY DEF Commit, Only, TypeInv, TypeOK
<1>5. run'[p] \in Run /\ NoWrites \in Writes
  BY <1>2, <1>4 DEF Run, NoWrites, Writes
<1>6. /\ run'[p].pc = "remove" /\ run'[p].pos = run[p].pos /\ run'[p].body = run[p].body
      /\ run'[p].path = run[p].path /\ run'[p].paths = run[p].paths
  BY <1>2, <1>4 DEF Run
<1>7. Reading(p)'
  BY <1>1, <1>4, <1>6 DEF TypeInv, Reading, InHand, Open, AtEvent, At, More
<1>8. run'[p].path \cap run'[p].paths = {}
  BY <1>6 DEF TypeInv, TypeOK
<1> QED
  BY <1>1, <1>3, <1>4, <1>5, <1>7, <1>8, TypeInvOf

(* Removing the file leaves the others as they are. *)
LEMMA RemoveTypeInv ==
  ASSUME TypeInv, NEW p \in Procs, Remove(p), ~Abort(p)
  PROVE  TypeInv'
<1>1. /\ At(p, "remove") /\ UNCHANGED <<db, own>>
      /\ run' = [run EXCEPT ![p].pc = "next"]
      /\ incoming' = [f \in DOMAIN incoming \ (IF run[p].delete THEN run[p].path ELSE {})
                        |-> incoming[f]]
  BY DEF Remove
<1>2. run[p] \in Run /\ own[p] = NoWrites /\ own[p] \in Writes /\ db \in Database
  BY <1>1, SeenFacts DEF TypeInv, Reading, Open, At
<1>3. run'[p] = [run[p] EXCEPT !.pc = "next"] /\ own'[p] = own[p] /\ Only(p)
  BY <1>1 DEF Only, TypeInv, TypeOK
<1>4. /\ run'[p].pc = "next" /\ run'[p].pos = run[p].pos /\ run'[p].body = run[p].body
      /\ run'[p].path = run[p].path /\ run'[p].paths = run[p].paths
  BY <1>2, <1>3 DEF Run
<1>5. run'[p] \in Run
  BY <1>2, <1>3 DEF Run
<1>6. Reading(p)'
  BY <1>2, <1>3, <1>4 DEF TypeInv, Reading, InHand, Open, AtEvent, At
<1>7. run'[p].path \cap run'[p].paths = {}
  BY <1>4 DEF TypeInv, TypeOK
<1>8. /\ DOMAIN incoming' \subseteq DOMAIN incoming
      /\ \A g \in DOMAIN incoming' : incoming'[g] = incoming[g]
  BY <1>1
<1> QED
  BY <1>1, <1>2, <1>3, <1>5, <1>6, <1>7, <1>8, TypeInvOf

(* The end of a run leaves it as a kill would. *)
LEMMA FinishIsAbort ==
  ASSUME TypeInv, NEW p \in Procs, Finish(p)
  PROVE  Abort(p)
<1>1. own[p] = NoWrites
  BY DEF Finish, TypeInv, Reading, Open, At
<1> QED
  BY <1>1 DEF Finish, Abort, TypeInv, TypeOK

(* What comes is a published file, under its own name. *)
LEMMA CopyBrings ==
  ASSUME Copy
  PROVE  /\ UNCHANGED <<db, run, own>> /\ DOMAIN incoming \subseteq DOMAIN incoming'
         /\ \A g \in DOMAIN incoming' :
              \/ \E f \in Files : f.path = g /\ f.body = incoming'[g]
              \/ g \in DOMAIN incoming /\ incoming'[g] = incoming[g]
<1>1. PICK F \in SUBSET Files :
        incoming' = [g \in DOMAIN incoming \cup {f.path : f \in F} |->
                       IF \E f \in F : f.path = g
                       THEN (CHOOSE f \in F : f.path = g).body
                       ELSE incoming[g]]
  BY DEF Copy
<1>2. ASSUME NEW g \in DOMAIN incoming', \E f \in F : f.path = g
      PROVE  \E f \in Files : f.path = g /\ f.body = incoming'[g]
  <2> DEFINE h == CHOOSE f \in F : f.path = g
  <2>1. h \in F /\ h.path = g
    BY <1>2
  <2>2. incoming'[g] = h.body
    BY <1>1, <1>2
  <2> QED
    BY <2>1, <2>2
<1>3. ASSUME NEW g \in DOMAIN incoming', ~\E f \in F : f.path = g
      PROVE  g \in DOMAIN incoming /\ incoming'[g] = incoming[g]
  BY <1>1, <1>3
<1>4. DOMAIN incoming \subseteq DOMAIN incoming'
  BY <1>1
<1>5. UNCHANGED <<db, run, own>>
  BY DEF Copy
<1> QED
  BY <1>2, <1>3, <1>4, <1>5

(* So the spool holds published files after it. *)
LEMMA CopyTypeInv ==
  ASSUME TypeInv, Copy
  PROVE  TypeInv'
<1>1. SpoolIsFiles'
  BY CopyBrings DEF SpoolIsFiles, TypeInv
<1>2. \A g \in DOMAIN incoming' : g \in Path /\ incoming'[g] \in Seq(Event)
  BY <1>1, FileFacts DEF SpoolIsFiles
<1>3. TypeOK'
  BY <1>2, CopyBrings DEF TypeInv, TypeOK
<1>4. \A p \in Procs : Reading(p)'
  BY CopyBrings DEF TypeInv, Reading, InHand, Open, AtEvent, At, More, Ev
<1> QED
  BY <1>1, <1>3, <1>4 DEF TypeInv

(* Every step keeps the types. *)
LEMMA TypeInvStep ==
  ASSUME TypeInv, [Next]_vars
  PROVE  TypeInv'
<1>1. CASE UNCHANGED vars
  BY <1>1 DEF vars, TypeInv, TypeOK, SpoolIsFiles, Reading, InHand, Open, AtEvent, At, More, Ev
<1>2. CASE Arrive
  BY <1>2, CopyTypeInv DEF Arrive
<1>3. ASSUME NEW p \in Procs,
             \/ \E delete \in BOOLEAN : StartSpool(p, delete)
             \/ Goes(p) \/ Crash(p)
      PROVE  TypeInv'
  <2>1. CASE \E delete \in BOOLEAN : StartSpool(p, delete)
    BY <2>1, StartTypeInv
  <2>2. CASE Abort(p)
    BY <2>2, AbortTypeInv
  <2>3. CASE OpenNext(p) /\ ~Abort(p)
    BY <2>3, OpenNextTypeInv
  <2>4. CASE Finish(p)
    BY <2>4, FinishIsAbort, AbortTypeInv
  <2>5. CASE Insert(p)
    BY <2>5, InsertTypeInv
  <2>6. CASE Current(p)
    BY <2>6, CurrentTypeInv
  <2>7. CASE Write(p)
    BY <2>7, WriteTypeInv
  <2>8. CASE Bump(p)
    BY <2>8, BumpTypeInv
  <2>9. CASE Retract(p)
    BY <2>9, RetractTypeInv
  <2>10. CASE Commit(p)
    BY <2>10, CommitTypeInv
  <2>11. CASE Remove(p) /\ ~Abort(p)
    BY <2>11, RemoveTypeInv
  <2> QED
    BY <1>3, <2>1, <2>2, <2>3, <2>4, <2>5, <2>6, <2>7, <2>8, <2>9, <2>10, <2>11
       DEF Goes, DeadlockVictim, Crash
<1> QED
  BY <1>1, <1>2, <1>3 DEF Next

(* Every variable keeps its type. *)
THEOREM TypeInvariance == Spec => []TypeInv
<1>1. Init => TypeInv
  BY TypeInvInit
<1>2. TypeInv /\ [Next]_vars => TypeInv'
  BY TypeInvStep
<1> QED
  BY <1>1, <1>2, PTL DEF Spec

(* However many appliers run, every variable keeps its type, and a file in   *)
(* hand is no longer on its run's list.                                      *)
THEOREM TypeCorrect == Spec => []TypeOK
<1>1. TypeInv => TypeOK
  BY DEF TypeInv
<1> QED
  BY <1>1, TypeInvariance, PTL
-----------------------------------------------------------------------------
(* A transaction is on a file. *)
LEMMA LoggerIsOpen ==
  ASSUME TypeInv, NEW p \in Procs, own[p].log # {}
  PROVE  Open(p) /\ InHand(p)
BY DEF TypeInv, Reading, NoWrites, InHand

(* The events a transaction has logged are journal events of its source. *)
LEMMA OwnLogFacts ==
  ASSUME TypeInv, LogInv, NEW p \in Procs, NEW d \in own[p].log
  PROVE  d \in Journal /\ d.src = Source(p) /\ d \notin db.events
<1>1. InHand(p)
  BY LoggerIsOpen
<1>2. d \in SeqRange(run[p].body) /\ d \notin db.events
  BY DEF LogInv, LogPart, OwnLog
<1>3. PICK i \in DOMAIN run[p].body : d = run[p].body[i]
  BY <1>2 DEF SeqRange
<1> QED
  BY <1>1, <1>2, <1>3, HandFacts

(* What a statement sees is a prefix of every journal. *)
LEMMA SeenIsJournal ==
  ASSUME TypeInv, LogInv, NEW p \in Procs
  PROVE  SeenEvents(p) \subseteq Journal /\ Mini!PrefixClosed(SeenEvents(p))
BY OwnLogFacts DEF SeenEvents, LogInv, LogOK, LogPart, OwnLog

(* The heart: an event that is inserted comes right after all its applier    *)
(* sees of the source, and no other applier has events of that source.       *)
LEMMA InsertIsNext ==
  ASSUME TypeInv, LogInv, NEW p \in Procs, Insert(p), ~Logged(SeenEvents(p), Ev(p))
  PROVE  /\ \A d \in Journal : d.src = Source(p) /\ d.seq < Ev(p).seq => d \in SeenEvents(p)
         /\ \A d \in SeenEvents(p) : d.src = Source(p) => d.seq < Ev(p).seq
         /\ \A q \in Procs : q # p /\ own[q].log # {} => Source(q) # Source(p)
<1>1. InHand(p) /\ More(p) /\ At(p, "insert") /\ Free(p)
  BY DEF Insert, InHand, Open, At
<1>2. /\ run[p].pos \in DOMAIN run[p].body /\ Ev(p) = run[p].body[run[p].pos]
      /\ Ev(p) \in Journal /\ Ev(p).src = Source(p) /\ Ev(p).seq \in Nat
  BY <1>1, EvFacts DEF Event
<1>3. \A d \in Journal : d.seq \in Nat
  BY JournalIsEvents DEF Event
<1>4. ASSUME NEW d \in Journal, d.src = Source(p), d.seq < Ev(p).seq
      PROVE  d \in SeenEvents(p)
  <2>1. PICK f \in Files : run[p].body = f.body
    BY <1>1, HandFacts
  <2>2. CASE d.seq < run[p].body[1].seq
    BY <1>1, <1>4, <2>2 DEF LogInv, LogPart, EarlierLogged, SeenEvents
  <2>3. CASE ~(d.seq < run[p].body[1].seq)
    <3>1. PICK i \in DOMAIN f.body : i < run[p].pos /\ f.body[i] = d
      BY <1>2, <1>4, <2>1, <2>3, BetweenIsInFile DEF Source
    <3> QED
      BY <1>1, <2>1, <3>1 DEF LogInv, LogPart, Passed
  <2> QED
    BY <2>2, <2>3
<1>5. ASSUME NEW d \in SeenEvents(p), d.src = Source(p)
      PROVE  d.seq < Ev(p).seq
  <2>1. d \in Journal /\ Mini!PrefixClosed(SeenEvents(p))
    BY SeenIsJournal
  <2>2. d.seq # Ev(p).seq /\ Ev(p) \notin SeenEvents(p)
    BY <1>2, <1>5 DEF Logged
  <2>3. ~(Ev(p).seq < d.seq)
    BY <1>2, <1>5, <2>1, <2>2 DEF Mini!PrefixClosed
  <2> QED
    BY <1>2, <1>3, <2>1, <2>2, <2>3
<1>6. ASSUME NEW q \in Procs, q # p, own[q].log # {}, Source(q) = Source(p)
      PROVE  FALSE
  <2>1. own[p].log = {}
    BY <1>6 DEF LogInv, OneLogger
  <2>2. SeenEvents(p) = db.events
    BY <2>1 DEF SeenEvents
  <2>3. PICK d \in own[q].log : TRUE
    BY <1>6
  <2>4. d \in Journal /\ d.src = Source(p) /\ d \notin db.events
    BY <1>6, OwnLogFacts
  <2>5. ~Logged(own[q].log, Ev(p))
    BY <1>1, <1>6 DEF Free, Waits, At
  <2>6. d.seq # Ev(p).seq
    BY <1>2, <2>4, <2>5 DEF Logged
  <2>7. ~(d.seq < Ev(p).seq)
    BY <1>4, <2>2, <2>4
  <2>8. Ev(p) \in SeenEvents(q)
    <3>1. d \in SeenEvents(q) /\ Ev(p).seq < d.seq
      BY <1>2, <1>3, <2>4, <2>6, <2>7 DEF SeenEvents
    <3> QED
      BY <1>2, <2>4, <3>1, SeenIsJournal DEF Mini!PrefixClosed
  <2>9. Ev(p) \in own[q].log
    BY <1>2, <2>2, <2>8 DEF SeenEvents, Logged
  <2> QED
    BY <2>5, <2>9 DEF Logged
<1> QED
  BY <1>4, <1>5, <1>6

(* The empty log satisfies it. *)
LEMMA LogInvInit == Init => LogInv
<1> SUFFICES ASSUME Init PROVE LogInv
  OBVIOUS
<1>1. db.events = {} /\ DOMAIN incoming = {}
  BY DEF Init, EmptyDatabase
<1>2. \A p \in Procs : run[p] = Idle /\ own[p] = NoWrites
  BY DEF Init
<1>3. \A p \in Procs : LogPart(p)
  BY <1>1, <1>2 DEF LogPart, Listed, EarlierLogged, Passed, OwnLog, NewestOfSource, InHand,
                    Open, At, Idle, NoWrites, SeenEvents, Mini!PrefixClosed
<1>4. LogOK /\ OneLogger
  BY <1>1, <1>2 DEF LogOK, OneLogger, GapFree, NoWrites, Mini!PrefixClosed
<1> QED
  BY <1>3, <1>4 DEF LogInv

(* What holds of an applier that takes no step, when others commit nothing. *)
LEMMA LogPartStays ==
  ASSUME LogInv, NEW q \in Procs, run'[q] = run[q], own'[q] = own[q],
         db'.events = db.events
  PROVE  LogPart(q)'
<1>1. LogPart(q)
  BY DEF LogInv
<1>2. InHand(q)' = InHand(q) /\ AtEvent(q)' = AtEvent(q)
  BY DEF InHand, Open, AtEvent, At
<1>3. SeenEvents(q)' = SeenEvents(q) /\ Source(q)' = Source(q) /\ Ev(q)' = Ev(q)
  BY DEF SeenEvents, Source, Ev
<1>4. Listed(q)' /\ EarlierLogged(q)'
  BY <1>1, <1>2, <1>3 DEF LogPart, Listed, EarlierLogged
<1>5. Passed(q)' /\ NewestOfSource(q)'
  BY <1>1, <1>2, <1>3 DEF LogPart, Passed, NewestOfSource
<1>6. OwnLog(q)'
  BY <1>1, <1>3 DEF LogPart, OwnLog, Mini!PrefixClosed
<1> QED
  BY <1>4, <1>5, <1>6 DEF LogPart

(* A step of p that commits nothing and logs nothing. *)
LEMMA LogInvOf ==
  ASSUME TypeInv, LogInv, NEW p \in Procs, Only(p), db'.events = db.events,
         GapFree(db.events, incoming'),
         own'[p].log = {} \/ (own'[p].log = own[p].log /\ Source(p)' = Source(p)),
         LogPart(p)'
  PROVE  LogInv'
<1>1. \A q \in Procs : q # p => run'[q] = run[q] /\ own'[q] = own[q]
  BY DEF Only, TypeInv, TypeOK
<1>2. \A q \in Procs : LogPart(q)'
  BY <1>1, LogPartStays
<1>3. LogOK'
  BY DEF LogInv, LogOK, GapFree, Mini!PrefixClosed
<1>4. OneLogger'
  BY <1>1 DEF LogInv, OneLogger, Source
<1> QED
  BY <1>2, <1>3, <1>4 DEF LogInv

(* The statements of a transaction that log nothing. *)
LEMMA MoveLogInv ==
  ASSUME TypeInv, LogInv, NEW p \in Procs, Only(p), UNCHANGED <<db, incoming>>,
         Open(p), Open(p)',
         run'[p].paths = run[p].paths, run'[p].body = run[p].body,
         own'[p].log = own[p].log,
         Passed(p)', NewestOfSource(p)'
  PROVE  LogInv'
<1>1. LogPart(p) /\ InHand(p) /\ InHand(p)'
  BY DEF LogInv, InHand
<1>2. SeenEvents(p)' = SeenEvents(p) /\ Source(p)' = Source(p)
  BY DEF SeenEvents, Source
<1>3. Listed(p)' /\ EarlierLogged(p)'
  BY <1>1, <1>2 DEF LogPart, Listed, EarlierLogged
<1>4. OwnLog(p)'
  BY <1>1, <1>2 DEF LogPart, OwnLog, Mini!PrefixClosed
<1>5. LogPart(p)'
  BY <1>3, <1>4 DEF LogPart
<1>6. GapFree(db.events, incoming')
  BY DEF LogInv, LogOK, GapFree
<1> QED
  BY <1>2, <1>5, <1>6, LogInvOf

(* What a transaction that rolls back had logged is nobody's again. *)
LEMMA AbortLogInv ==
  ASSUME TypeInv, LogInv, NEW p \in Procs, Abort(p)
  PROVE  LogInv'
<1>1. run'[p] = Idle /\ own'[p] = NoWrites /\ Only(p) /\ UNCHANGED <<db, incoming>>
  BY DEF Abort, Only, TypeInv, TypeOK
<1>2. LogPart(p)'
  BY <1>1 DEF LogPart, Listed, EarlierLogged, Passed, OwnLog, NewestOfSource, InHand, Open, At,
              Idle, NoWrites, SeenEvents, Mini!PrefixClosed, LogInv, LogOK
<1>3. GapFree(db.events, incoming') /\ own'[p].log = {}
  BY <1>1 DEF LogInv, LogOK, GapFree, NoWrites
<1> QED
  BY <1>1, <1>2, <1>3, LogInvOf

(* The list of a run is a spool without a gap. *)
LEMMA StartLogInv ==
  ASSUME TypeInv, LogInv, NEW p \in Procs, NEW delete \in BOOLEAN, StartSpool(p, delete)
  PROVE  LogInv'
<1>1. /\ run'[p].pc = "next" /\ run'[p].paths = DOMAIN incoming /\ own'[p] = own[p]
      /\ Only(p) /\ UNCHANGED <<db, incoming>>
  BY DEF StartSpool, Only, TypeInv, TypeOK, Idle
<1>2. own[p] = NoWrites
  BY DEF StartSpool, TypeInv, Reading, Open, At
<1>3. ASSUME NEW g \in DOMAIN incoming, NEW e \in Journal, e.src = g.src, e.seq < g.lo,
             e \notin db.events
      PROVE  \E f \in Files : f.path \in DOMAIN incoming /\ e \in SeqRange(f.body)
  <2>1. PICK h \in DOMAIN incoming : e \in SeqRange(incoming[h])
    BY <1>3 DEF LogInv, LogOK, GapFree, Held
  <2> QED
    BY <2>1 DEF TypeInv, SpoolIsFiles
<1>4. Listed(p)'
  BY <1>1, <1>3 DEF Listed
<1>5. LogPart(p)'
  BY <1>1, <1>2, <1>4 DEF LogPart, EarlierLogged, Passed, OwnLog, NewestOfSource, InHand, Open,
                          At, NoWrites, SeenEvents, Mini!PrefixClosed, LogInv, LogOK
<1>6. GapFree(db.events, incoming') /\ own'[p].log = {}
  BY <1>1, <1>2 DEF LogInv, LogOK, GapFree, NoWrites
<1> QED
  BY <1>1, <1>5, <1>6, LogInvOf

(* The file that sorts first is opened: what precedes it is committed. *)
LEMMA OpenNextLogInv ==
  ASSUME TypeInv, LogInv, NEW p \in Procs, OpenNext(p), ~Abort(p)
  PROVE  LogInv'
<1>1. PICK g \in run[p].paths :
        /\ \A h \in run[p].paths : h = g \/ Before(g, h)
        /\ g \in DOMAIN incoming
        /\ run' = [run EXCEPT ![p] =
                     [pc |-> "insert", paths |-> @.paths \ {g}, path |-> {g},
                      body |-> incoming[g], pos |-> 1, skipped |-> FALSE,
                      delete |-> @.delete]]
        /\ UNCHANGED <<db, incoming, own>>
  BY DEF OpenNext
<1>2. /\ run'[p].pc = "insert" /\ run'[p].paths = run[p].paths \ {g}
      /\ run'[p].body = incoming[g] /\ run'[p].pos = 1
      /\ own'[p] = own[p] /\ Only(p) /\ UNCHANGED <<db, incoming>>
  BY <1>1 DEF Only, TypeInv, TypeOK
<1>3. own[p] = NoWrites /\ ~InHand(p) /\ LogPart(p)
  BY DEF OpenNext, TypeInv, Reading, InHand, Open, At, LogInv
<1>4. PICK f \in Files : f.path = g /\ f.body = incoming[g]
  BY <1>1 DEF TypeInv, SpoolIsFiles
<1>5. g.src = incoming[g][1].src /\ g.lo = incoming[g][1].seq /\ 1 \in DOMAIN incoming[g]
  BY <1>4, FileFacts
<1>6. ASSUME NEW e \in Journal, e.src = g.src, e.seq < g.lo
      PROVE  e \in db.events
  <2>1. SUFFICES ASSUME e \notin db.events PROVE FALSE
    OBVIOUS
  <2>2. PICK h \in Files : h.path \in run[p].paths /\ e \in SeqRange(h.body)
    BY <1>3, <1>6, <2>1 DEF LogPart, Listed
  <2>3. PICK i \in DOMAIN h.body : e = h.body[i]
    BY <2>2 DEF SeqRange
  <2>4. /\ h.path.src \in Int /\ h.path.lo \in Nat /\ g.lo \in Nat /\ e.seq \in Nat /\ i \in Nat
        /\ i = 1 \/ 1 < i
    <3>1. h.path \in Path /\ g \in Path /\ h.body \in Seq(Event) /\ e \in Event
      BY <1>4, <2>2, FileFacts, JournalIsEvents
    <3>2. h.path.src \in Int /\ h.path.lo \in Nat /\ g.lo \in Nat /\ e.seq \in Nat
      BY <3>1, EventConstants DEF Path, Event
    <3>3. i \in Nat /\ 1 <= i
      BY <2>3, <3>1
    <3> QED
      BY <3>2, <3>3
  <2>5. e.src = h.path.src /\ h.path.lo <= e.seq
    <3>1. 1 \in DOMAIN h.body /\ h.path.lo = h.body[1].seq /\ h.path.src = h.body[1].src
          /\ e.src = h.body[1].src
      BY <2>3, FileFacts
    <3>2. i = 1 \/ h.body[1].seq < e.seq
      BY <2>3, <2>4, <3>1, BatchAssumption
    <3> QED
      BY <2>3, <2>4, <3>1, <3>2
  <2>6. h.path # g /\ ~Before(g, h.path)
    BY <1>6, <2>4, <2>5 DEF Before
  <2> QED
    BY <1>1, <2>2, <2>6
<1>7. EarlierLogged(p)'
  BY <1>2, <1>5, <1>6 DEF EarlierLogged, Source
<1>8. Listed(p)'
  <2> SUFFICES ASSUME NEW h \in run[p].paths \ {g}, NEW e \in Journal,
                      e.src = h.src, e.seq < h.lo
               PROVE  \/ e \in db.events
                      \/ \E k \in Files : k.path \in run[p].paths \ {g} /\ e \in SeqRange(k.body)
                      \/ e \in SeqRange(incoming[g])
    BY <1>2 DEF Listed, InHand, Open
  <2>1. CASE e \in db.events
    BY <2>1
  <2>2. CASE e \notin db.events
    <3>1. PICK k \in Files : k.path \in run[p].paths /\ e \in SeqRange(k.body)
      BY <1>3, <2>2 DEF LogPart, Listed
    <3> QED
      BY <1>4, <3>1, PathAssumption
  <2> QED
    BY <2>1, <2>2
<1>9. Passed(p)' /\ NewestOfSource(p)' /\ OwnLog(p)'
  <2>1. \A i \in DOMAIN incoming[g] : ~(i < 1)
    <3>1. incoming[g] \in Seq(Event)
      BY <1>4, FileFacts
    <3> QED
      BY <3>1
  <2> QED
    BY <1>2, <1>3, <2>1 DEF Passed, NewestOfSource, OwnLog, AtEvent, NoWrites, SeenEvents,
                            Mini!PrefixClosed, LogInv, LogOK
<1>10. GapFree(db.events, incoming') /\ own'[p].log = {}
  BY <1>2, <1>3 DEF LogInv, LogOK, GapFree, NoWrites
<1> QED
  BY <1>2, <1>7, <1>8, <1>9, <1>10, LogInvOf DEF LogPart

(* The statements of an event, and the retract. *)
LEMMA InsertLogInv ==
  ASSUME TypeInv, LogInv, NEW p \in Procs, Insert(p)
  PROVE  LogInv'
<1>1. /\ Open(p) /\ InHand(p) /\ More(p) /\ At(p, "insert") /\ ~AtEvent(p)
      /\ UNCHANGED <<db, incoming>>
  BY DEF Insert, Open, InHand, AtEvent, At
<1>2. /\ run[p].pos \in DOMAIN run[p].body /\ Ev(p) = run[p].body[run[p].pos]
      /\ Ev(p) \in Journal /\ Ev(p).src = Source(p) /\ run[p] \in Run /\ own[p] \in Writes
  BY <1>1, EvFacts, SeenFacts
<1>3. LogPart(p)
  BY DEF LogInv
<1>4. CASE Logged(SeenEvents(p), Ev(p))
  <2>1. /\ run'[p] = [run[p] EXCEPT !.pc = "bump", !.skipped = TRUE]
        /\ own' = own /\ run' = [run EXCEPT ![p].pc = "bump", ![p].skipped = TRUE]
    BY <1>4 DEF Insert, TypeInv, TypeOK
  <2>2. /\ run'[p].pc = "bump" /\ run'[p].pos = run[p].pos /\ run'[p].body = run[p].body
        /\ run'[p].paths = run[p].paths
    BY <1>2, <2>1 DEF Run
  <2>3. Only(p)
    BY <2>1 DEF Only, TypeInv, TypeOK
  <2>4. Ev(p) \in SeenEvents(p)
    BY <1>2, <1>4, SeenIsJournal, LoggedIsMember
  <2>5. Passed(p)' /\ NewestOfSource(p)'
    BY <1>1, <1>2, <1>3, <2>1, <2>2, <2>4
       DEF LogPart, Passed, NewestOfSource, InHand, AtEvent, Open, At, SeenEvents
  <2> QED
    BY <1>1, <2>1, <2>2, <2>3, <2>5, MoveLogInv DEF Open
<1>5. CASE ~Logged(SeenEvents(p), Ev(p))
  <2>1. /\ run' = [run EXCEPT ![p].pc = "current"]
        /\ own' = [own EXCEPT ![p].log = own[p].log \cup {Ev(p)}]
    BY <1>5 DEF Insert
  <2>2. /\ run'[p] = [run[p] EXCEPT !.pc = "current"]
        /\ own'[p] = [own[p] EXCEPT !.log = own[p].log \cup {Ev(p)}]
        /\ \A q \in Procs : q # p => run'[q] = run[q] /\ own'[q] = own[q]
    BY <2>1 DEF TypeInv, TypeOK
  <2>3. /\ run'[p].pc = "current" /\ run'[p].pos = run[p].pos /\ run'[p].body = run[p].body
        /\ run'[p].paths = run[p].paths
        /\ own'[p].log = own[p].log \cup {Ev(p)}
    BY <1>2, <2>2 DEF Run, Writes
  <2>4. /\ SeenEvents(p)' = SeenEvents(p) \cup {Ev(p)} /\ Source(p)' = Source(p)
        /\ Ev(p)' = Ev(p) /\ InHand(p)'
    BY <1>1, <2>3 DEF SeenEvents, Source, Ev, InHand, Open
  <2>5. /\ \A d \in Journal : d.src = Source(p) /\ d.seq < Ev(p).seq => d \in SeenEvents(p)
        /\ \A d \in SeenEvents(p) : d.src = Source(p) => d.seq < Ev(p).seq
        /\ \A q \in Procs : q # p /\ own[q].log # {} => Source(q) # Source(p)
    BY <1>5, InsertIsNext
  <2>6. Listed(p)' /\ EarlierLogged(p)'
    BY <1>1, <1>3, <2>3, <2>4 DEF LogPart, Listed, EarlierLogged
  <2>7. Passed(p)' /\ NewestOfSource(p)'
    BY <1>1, <1>2, <1>3, <2>3, <2>4, <2>5 DEF LogPart, Passed, NewestOfSource
  <2>8. OwnLog(p)'
    <3>1. Mini!PrefixClosed(SeenEvents(p) \cup {Ev(p)})
      BY <1>2, <1>3, <2>5 DEF LogPart, OwnLog, Mini!PrefixClosed
    <3>2. Mini!PrefixClosed(SeenEvents(p))'
      BY <2>4, <3>1 DEF Mini!PrefixClosed
    <3>3. Ev(p) \in SeqRange(run[p].body) /\ Ev(p) \notin db.events
      BY <1>2, <1>5 DEF SeqRange, Logged, SeenEvents
    <3> QED
      BY <1>1, <1>3, <2>3, <3>2, <3>3 DEF LogPart, OwnLog
  <2>9. \A q \in Procs : LogPart(q)'
    BY <1>1, <2>2, <2>6, <2>7, <2>8, LogPartStays DEF LogPart
  <2>10. OneLogger'
    <3>1. \A q \in Procs : Source(q)' = Source(q) /\ (q # p => own'[q].log = own[q].log)
      BY <2>2, <2>4 DEF Source
    <3> QED
      BY <2>5, <3>1 DEF LogInv, OneLogger
  <2>11. LogOK'
    BY <1>1 DEF LogInv, LogOK, GapFree, Mini!PrefixClosed
  <2> QED
    BY <2>9, <2>10, <2>11 DEF LogInv
<1> QED
  BY <1>4, <1>5

(* apply_current logs nothing. *)
LEMMA CurrentLogInv ==
  ASSUME TypeInv, LogInv, NEW p \in Procs, Current(p)
  PROVE  LogInv'
<1>1. /\ Open(p) /\ AtEvent(p) /\ At(p, "current") /\ UNCHANGED <<db, incoming, own>>
  BY DEF Current, Open, AtEvent, At
<1>2. PICK l \in {"write", "bump"} : run' = [run EXCEPT ![p].pc = l]
  BY DEF Current
<1>3. run'[p] = [run[p] EXCEPT !.pc = l] /\ Only(p) /\ run[p] \in Run
  BY <1>1, <1>2 DEF Only, TypeInv, TypeOK
<1>4. /\ run'[p].pc = l /\ run'[p].pos = run[p].pos /\ run'[p].body = run[p].body
      /\ run'[p].paths = run[p].paths
  BY <1>3 DEF Run
<1>5. Passed(p)' /\ NewestOfSource(p)'
  BY <1>1, <1>4 DEF LogInv, LogPart, Passed, NewestOfSource, InHand, AtEvent, Open, At,
                    SeenEvents, Ev, Source
<1> QED
  BY <1>1, <1>3, <1>4, <1>5, MoveLogInv DEF Open

(* Nor does its write. *)
LEMMA WriteLogInv ==
  ASSUME TypeInv, LogInv, NEW p \in Procs, Write(p)
  PROVE  LogInv'
<1>1. /\ Open(p) /\ AtEvent(p) /\ UNCHANGED <<db, incoming>>
      /\ run' = [run EXCEPT ![p].pc = "bump"]
  BY DEF Write, Open, AtEvent, At
<1>2. PICK gone, rows : own' = [own EXCEPT ![p].gone = gone, ![p].rows = rows]
  BY DEF Write
<1>3. /\ run'[p] = [run[p] EXCEPT !.pc = "bump"] /\ Only(p) /\ run[p] \in Run
      /\ own'[p] = [own[p] EXCEPT !.gone = gone, !.rows = rows] /\ own[p] \in Writes
  BY <1>1, <1>2 DEF Only, TypeInv, TypeOK
<1>4. /\ run'[p].pc = "bump" /\ run'[p].pos = run[p].pos /\ run'[p].body = run[p].body
      /\ run'[p].paths = run[p].paths /\ own'[p].log = own[p].log
  BY <1>3 DEF Run, Writes
<1>5. Passed(p)' /\ NewestOfSource(p)'
  BY <1>1, <1>4 DEF LogInv, LogPart, Passed, NewestOfSource, InHand, AtEvent, Open, At,
                    SeenEvents
<1> QED
  BY <1>1, <1>3, <1>4, <1>5, MoveLogInv DEF Open

(* With the watermark the event at pos is passed; it is logged by then. *)
LEMMA BumpLogInv ==
  ASSUME TypeInv, LogInv, NEW p \in Procs, Bump(p)
  PROVE  LogInv'
<1>1. /\ Open(p) /\ AtEvent(p) /\ InHand(p) /\ UNCHANGED <<db, incoming>>
      /\ run' = [run EXCEPT ![p].pc = "insert", ![p].pos = run[p].pos + 1]
  BY DEF Bump, Open, AtEvent, InHand, At
<1>2. PICK mark : own' = [own EXCEPT ![p].mark = mark]
  BY DEF Bump
<1>3. /\ run'[p] = [run[p] EXCEPT !.pc = "insert", !.pos = run[p].pos + 1]
      /\ Only(p) /\ run[p] \in Run
      /\ own'[p] = [own[p] EXCEPT !.mark = mark] /\ own[p] \in Writes
  BY <1>1, <1>2 DEF Only, TypeInv, TypeOK
<1>4. /\ run'[p].pc = "insert" /\ run'[p].pos = run[p].pos + 1 /\ run'[p].body = run[p].body
      /\ run'[p].paths = run[p].paths /\ own'[p].log = own[p].log
  BY <1>3 DEF Run, Writes
<1>5. \A i \in DOMAIN run[p].body : i < run[p].pos + 1 => i < run[p].pos \/ i = run[p].pos
  BY <1>1, HandFacts
<1>6. Passed(p)' /\ NewestOfSource(p)'
  BY <1>1, <1>4, <1>5 DEF LogInv, LogPart, Passed, NewestOfSource, AtEvent, SeenEvents
<1> QED
  BY <1>1, <1>3, <1>4, <1>6, MoveLogInv DEF Open

(* The retract logs nothing. *)
LEMMA RetractLogInv ==
  ASSUME TypeInv, LogInv, NEW p \in Procs, Retract(p)
  PROVE  LogInv'
<1>1. /\ Open(p) /\ At(p, "insert") /\ UNCHANGED <<db, incoming>>
      /\ run' = [run EXCEPT ![p].skipped = FALSE]
  BY DEF Retract, Open, At
<1>2. PICK gone, rows : own' = [own EXCEPT ![p].gone = gone, ![p].rows = rows]
  BY DEF Retract
<1>3. /\ run'[p] = [run[p] EXCEPT !.skipped = FALSE] /\ Only(p) /\ run[p] \in Run
      /\ own'[p] = [own[p] EXCEPT !.gone = gone, !.rows = rows] /\ own[p] \in Writes
  BY <1>1, <1>2 DEF Only, TypeInv, TypeOK
<1>4. /\ run'[p].pc = "insert" /\ run'[p].pos = run[p].pos /\ run'[p].body = run[p].body
      /\ run'[p].paths = run[p].paths /\ own'[p].log = own[p].log
  BY <1>1, <1>3 DEF Run, Writes, At
<1>5. Passed(p)' /\ NewestOfSource(p)'
  BY <1>1, <1>4 DEF LogInv, LogPart, Passed, NewestOfSource, InHand, AtEvent, Open, At,
                    SeenEvents
<1> QED
  BY <1>1, <1>3, <1>4, <1>5, MoveLogInv DEF Open

(* What one applier commits is a prefix for the others too, and none of them *)
(* has uncommitted events of the same source.                                *)
LEMMA CommitLogInv ==
  ASSUME TypeInv, LogInv, NEW p \in Procs, Commit(p)
  PROVE  LogInv'
<1>1. /\ Open(p) /\ InHand(p) /\ At(p, "insert") /\ UNCHANGED incoming
      /\ db'.events = SeenEvents(p)
      /\ run' = [run EXCEPT ![p].pc = "remove"] /\ own' = [own EXCEPT ![p] = NoWrites]
  BY DEF Commit, Open, InHand, At
<1>2. /\ run'[p] = [run[p] EXCEPT !.pc = "remove"] /\ own'[p] = NoWrites /\ run[p] \in Run
      /\ \A q \in Procs : q # p => run'[q] = run[q] /\ own'[q] = own[q]
  BY <1>1 DEF TypeInv, TypeOK
<1>3. /\ run'[p].pc = "remove" /\ run'[p].pos = run[p].pos /\ run'[p].body = run[p].body
      /\ run'[p].paths = run[p].paths /\ own'[p].log = {}
  BY <1>2 DEF Run, NoWrites
<1>4. SeenEvents(p) \subseteq Journal /\ Mini!PrefixClosed(SeenEvents(p))
  BY SeenIsJournal
<1>5. db.events \subseteq db'.events /\ db'.events = db.events \cup own[p].log
  BY <1>1 DEF SeenEvents
<1>6. LogOK'
  <2>1. Mini!PrefixClosed(db.events)'
    BY <1>1, <1>4 DEF Mini!PrefixClosed
  <2> QED
    BY <1>1, <1>4, <1>5, <2>1 DEF LogInv, LogOK, GapFree
<1>7. \A q \in Procs : Source(q)' = Source(q)
  BY <1>2, <1>3 DEF Source
<1>8. OneLogger'
  BY <1>2, <1>3, <1>7 DEF LogInv, OneLogger
<1>9. LogPart(p)'
  <2>1. InHand(p)' /\ ~AtEvent(p)' /\ SeenEvents(p)' = SeenEvents(p) /\ LogPart(p)
    BY <1>1, <1>3 DEF InHand, AtEvent, At, SeenEvents, LogInv
  <2>2. Listed(p)' /\ EarlierLogged(p)'
    BY <1>1, <1>3, <1>5, <1>7, <2>1 DEF LogPart, Listed, EarlierLogged
  <2>3. Passed(p)' /\ NewestOfSource(p)'
    BY <1>1, <1>3, <2>1 DEF LogPart, Passed, NewestOfSource
  <2>4. OwnLog(p)'
    BY <1>3, <1>4, <2>1 DEF OwnLog, Mini!PrefixClosed
  <2> QED
    BY <2>2, <2>3, <2>4 DEF LogPart
<1>10. ASSUME NEW q \in Procs, q # p
       PROVE  LogPart(q)'
  <2>1. /\ InHand(q)' = InHand(q) /\ AtEvent(q)' = AtEvent(q) /\ LogPart(q)
        /\ run'[q] = run[q] /\ own'[q] = own[q] /\ Ev(q)' = Ev(q)
        /\ SeenEvents(q)' = SeenEvents(q) \cup own[p].log
    BY <1>2, <1>5, <1>10 DEF InHand, AtEvent, Open, At, Ev, SeenEvents, LogInv
  <2>2. Listed(q)' /\ EarlierLogged(q)'
    BY <1>5, <1>7, <2>1 DEF LogPart, Listed, EarlierLogged
  <2>3. Passed(q)'
    BY <2>1 DEF LogPart, Passed
  <2>4. own[q].log # {} => \A d \in own[p].log : d.src # Source(q)
    BY <1>10, OwnLogFacts DEF LogInv, OneLogger
  <2>5. NewestOfSource(q)'
    BY <1>7, <2>1, <2>4 DEF LogPart, NewestOfSource
  <2>6. OwnLog(q)'
    <3>1. own[q].log \cap own[p].log = {}
      BY <2>4, OwnLogFacts
    <3>2. SeenEvents(q)' = SeenEvents(q) \cup SeenEvents(p)
      BY <2>1 DEF SeenEvents
    <3>3. Mini!PrefixClosed(SeenEvents(q) \cup SeenEvents(p))
      BY <1>4, <2>1 DEF LogPart, OwnLog, Mini!PrefixClosed
    <3>4. Mini!PrefixClosed(SeenEvents(q))'
      BY <3>2, <3>3 DEF Mini!PrefixClosed
    <3> QED
      BY <1>5, <2>1, <3>1, <3>4 DEF LogPart, OwnLog
  <2> QED
    BY <2>2, <2>3, <2>5, <2>6 DEF LogPart
<1> QED
  BY <1>6, <1>8, <1>9, <1>10 DEF LogInv

(* A file is removed by a run that has committed it, as the spool holds it.  *)
LEMMA RemovedIsCommitted ==
  ASSUME TypeInv, LogInv, NEW p \in Procs, At(p, "remove")
  PROVE  /\ SeqRange(run[p].body) \subseteq db.events
         /\ \A g \in run[p].path \cap DOMAIN incoming : incoming[g] = run[p].body
<1>1. InHand(p) /\ ~More(p) /\ own[p] = NoWrites
  BY DEF InHand, Open, At, TypeInv, Reading
<1>2. SeenEvents(p) = db.events
  BY <1>1 DEF SeenEvents, NoWrites
<1>3. \A i \in DOMAIN run[p].body : i < run[p].pos
  BY <1>1, HandFacts DEF More
<1>4. SeqRange(run[p].body) \subseteq db.events
  BY <1>1, <1>2, <1>3 DEF LogInv, LogPart, Passed, SeqRange
<1>5. PICK f \in Files : run[p].path = {f.path} /\ run[p].body = f.body
  BY <1>1, HandFacts
<1>6. ASSUME NEW g \in run[p].path \cap DOMAIN incoming
      PROVE  incoming[g] = run[p].body
  BY <1>5, PathAssumption DEF TypeInv, SpoolIsFiles
<1> QED
  BY <1>4, <1>6

(* What leaves the spool is committed, so no gap opens. *)
LEMMA RemoveLogInv ==
  ASSUME TypeInv, LogInv, NEW p \in Procs, Remove(p), ~Abort(p)
  PROVE  LogInv'
<1>1. /\ At(p, "remove") /\ UNCHANGED <<db, own>>
      /\ run' = [run EXCEPT ![p].pc = "next"]
      /\ incoming' = [f \in DOMAIN incoming \ (IF run[p].delete THEN run[p].path ELSE {})
                        |-> incoming[f]]
  BY DEF Remove
<1>2. run[p] \in Run /\ own[p] = NoWrites /\ InHand(p) /\ LogPart(p)
  BY <1>1, SeenFacts DEF TypeInv, Reading, Open, At, InHand, LogInv
<1>3. run'[p] = [run[p] EXCEPT !.pc = "next"] /\ own'[p] = own[p] /\ Only(p)
  BY <1>1 DEF Only, TypeInv, TypeOK
<1>4. run'[p].pc = "next" /\ run'[p].body = run[p].body /\ run'[p].paths = run[p].paths
  BY <1>2, <1>3 DEF Run
<1>5. /\ SeqRange(run[p].body) \subseteq db.events
      /\ \A g \in run[p].path \cap DOMAIN incoming : incoming[g] = run[p].body
  BY <1>1, RemovedIsCommitted
<1>6. GapFree(db.events, incoming')
  <2> SUFFICES ASSUME NEW g \in DOMAIN incoming', NEW e \in Journal,
                      e.src = g.src, e.seq < g.lo, e \notin db.events
               PROVE  e \in Held(incoming')
    BY DEF GapFree
  <2>1. g \in DOMAIN incoming
    BY <1>1
  <2>2. PICK h \in DOMAIN incoming : e \in SeqRange(incoming[h])
    BY <2>1 DEF LogInv, LogOK, GapFree, Held
  <2>3. h \notin run[p].path
    BY <1>5, <2>2
  <2>4. h \in DOMAIN incoming' /\ incoming'[h] = incoming[h]
    BY <1>1, <2>3
  <2> QED
    BY <2>2, <2>4 DEF Held
<1>7. Listed(p)'
  BY <1>1, <1>2, <1>4, <1>5 DEF LogPart, Listed
<1>8. LogPart(p)'
  BY <1>1, <1>2, <1>4, <1>7 DEF LogPart, EarlierLogged, Passed, OwnLog, NewestOfSource, InHand,
                                Open, At, SeenEvents, NoWrites, Mini!PrefixClosed
<1> QED
  BY <1>1, <1>2, <1>3, <1>6, <1>8, LogInvOf DEF NoWrites

(* Every step keeps the logs in order. *)
LEMMA LogInvStep ==
  ASSUME TypeInv, LogInv, [Next]_vars
  PROVE  LogInv'
<1>1. CASE UNCHANGED vars
  <2>1. \A q \in Procs : LogPart(q)'
    BY <1>1, LogPartStays DEF vars
  <2> QED
    BY <1>1, <2>1 DEF vars, LogInv, LogOK, OneLogger, GapFree, Mini!PrefixClosed, Source
<1>2. CASE Arrive
  <2>1. UNCHANGED <<db, run, own>> /\ GapFree(db.events, incoming')
    BY <1>2 DEF Arrive, Copy
  <2>2. \A q \in Procs : LogPart(q)'
    BY <2>1, LogPartStays
  <2> QED
    BY <2>1, <2>2 DEF LogInv, LogOK, OneLogger, GapFree, Mini!PrefixClosed, Source
<1>3. ASSUME NEW p \in Procs,
             \/ \E delete \in BOOLEAN : StartSpool(p, delete)
             \/ Goes(p) \/ Crash(p)
      PROVE  LogInv'
  <2>1. CASE \E delete \in BOOLEAN : StartSpool(p, delete)
    BY <2>1, StartLogInv
  <2>2. CASE Abort(p)
    BY <2>2, AbortLogInv
  <2>3. CASE OpenNext(p) /\ ~Abort(p)
    BY <2>3, OpenNextLogInv
  <2>4. CASE Finish(p)
    BY <2>4, FinishIsAbort, AbortLogInv
  <2>5. CASE Insert(p)
    BY <2>5, InsertLogInv
  <2>6. CASE Current(p)
    BY <2>6, CurrentLogInv
  <2>7. CASE Write(p)
    BY <2>7, WriteLogInv
  <2>8. CASE Bump(p)
    BY <2>8, BumpLogInv
  <2>9. CASE Retract(p)
    BY <2>9, RetractLogInv
  <2>10. CASE Commit(p)
    BY <2>10, CommitLogInv
  <2>11. CASE Remove(p) /\ ~Abort(p)
    BY <2>11, RemoveLogInv
  <2> QED
    BY <1>3, <2>1, <2>2, <2>3, <2>4, <2>5, <2>6, <2>7, <2>8, <2>9, <2>10, <2>11
       DEF Goes, DeadlockVictim, Crash
<1> QED
  BY <1>1, <1>2, <1>3 DEF Next
-----------------------------------------------------------------------------
(* Row identities. *)
LEMMA IdIsSameRow ==
  ASSUME NEW r, NEW e
  PROVE  /\ IdOf(r) = IdOf(e) <=> SameRow(r, e)
         /\ IdOf(r).src = r.src /\ RowOf(e).src = e.src
         /\ SameRow(r, e) => r.src = e.src
<1>1. IdOf(r).src = r.src /\ IdOf(r).key = r.key /\ IdOf(e).src = e.src /\ IdOf(e).key = e.key
  BY DEF IdOf
<1> QED
  BY <1>1 DEF IdOf, RowOf, SameRow

(* The event an applier applies, among the live rows of its source. *)
LEMMA ApplyIsLive ==
  ASSUME TypeInv, LogInv, RowInv, NEW p \in Procs, run[p].pc \in {"current", "write"}
  PROVE  LET e == Ev(p)  s == Source(p)
             all == Of(SeenEvents(p), s)  rows == Of(SeenCurrent(p), s) IN
         /\ e \in Event /\ e.src = s /\ own[p].log # {}
         /\ LiveRows(all) = ApplyCurrent(all, rows, e)
         /\ ~LaterDelete(SeenEvents(p), e) /\ ~LaterDelete(all, e)
         /\ \A r \in SeenCurrent(p) : SameRow(r, e) => r \in rows /\ ~(r.seq >= e.seq)
<1> DEFINE e == Ev(p)
           s == Source(p)
           all == Of(SeenEvents(p), s)
           rows == Of(SeenCurrent(p), s)
           log == Of(SeenEvents(p) \ {e}, s)
<1>1. InHand(p) /\ Open(p) /\ AtEvent(p) /\ More(p)
  BY DEF InHand, Open, AtEvent, TypeInv, Reading
<1>2. e \in Event /\ e.src = s
  BY <1>1, EvFacts
<1>3. /\ e \in own[p].log
      /\ \A f \in SeenEvents(p) : f.src = s /\ f # e => f.seq < e.seq
  BY DEF LogInv, LogPart, NewestOfSource
<1>4. rows = LiveRows(log)
  BY <1>1 DEF RowInv, ReadsLiveRows, Told
<1>5. log \cup {e} = all /\ log \in SUBSET Event
  BY <1>2, <1>3, SeenFacts DEF Of, SeenEvents
<1>6. \A f \in log : f.src = e.src => f.seq < e.seq
  BY <1>2, <1>3 DEF Of
<1>7. LiveRows(all) = ApplyCurrent(all, rows, e)
  BY <1>2, <1>4, <1>5, <1>6, LiveRowsStep
<1>8. e.seq \in Nat /\ \A f \in SeenEvents(p) : f.seq \in Nat
  BY <1>2, SeenFacts DEF Event
<1>9. ~LaterDelete(SeenEvents(p), e) /\ ~LaterDelete(all, e)
  BY <1>2, <1>3, <1>8 DEF LaterDelete, SameRow, Of
<1>10. ASSUME NEW r \in SeenCurrent(p), SameRow(r, e)
       PROVE  r \in rows /\ ~(r.seq >= e.seq)
  <2>1. r \in rows
    BY <1>2, <1>10 DEF Of, SameRow
  <2>2. PICK f \in log : r = RowOf(f)
    BY <1>4, <2>1 DEF LiveRows
  <2>3. r.seq = f.seq /\ f \in SeenEvents(p) /\ f.src = s /\ f # e
    BY <2>2 DEF RowOf, Of
  <2> QED
    BY <1>3, <1>8, <2>1, <2>3
<1> QED
  BY <1>2, <1>3, <1>7, <1>9, <1>10

(* Of other sources an applier sees what is committed. *)
LEMMA OtherSources ==
  ASSUME TypeInv, LogInv, RowInv, NEW p \in Procs, NEW t, t # Source(p)
  PROVE  /\ Of(SeenCurrent(p), t) = Of(db.current, t)
         /\ Of(SeenEvents(p), t) = Of(db.events, t)
<1>1. \A r \in db.current : r.src = t => IdOf(r) \notin own[p].gone
  BY IdIsSameRow DEF RowInv, OwnRows
<1>2. \A r \in own[p].rows : r.src # t
  BY DEF RowInv, OwnRows
<1>3. \A e \in own[p].log : e.src # t
  BY OwnLogFacts
<1> QED
  BY <1>1, <1>2, <1>3 DEF Of, SeenCurrent, SeenEvents

(* A transaction without events reads the committed rows. *)
LEMMA UntouchedReads ==
  ASSUME TypeInv, LogInv, RowInv, NEW p \in Procs, own[p].log = {}
  PROVE  /\ SeenCurrent(p) = db.current /\ SeenEvents(p) = db.events /\ Told(p) = db.events
         /\ own[p].gone = {} /\ own[p].rows = {}
<1>1. own[p].gone = {} /\ own[p].rows = {}
  BY DEF RowInv, OwnRows
<1>2. run[p].pc \notin {"current", "write"}
  BY DEF LogInv, LogPart, NewestOfSource
<1> QED
  BY <1>1, <1>2 DEF SeenCurrent, SeenEvents, Told

(* Neither reads nor rows of an applier change while it rests. *)
LEMMA RowPartStays ==
  ASSUME RowInv, NEW q \in Procs, run'[q] = run[q], own'[q] = own[q], db' = db
  PROVE  ReadsLiveRows(q)' /\ OwnRows(q)'
<1>1. /\ SeenEvents(q)' = SeenEvents(q) /\ SeenCurrent(q)' = SeenCurrent(q)
      /\ Source(q)' = Source(q) /\ Ev(q)' = Ev(q) /\ Open(q)' = Open(q)
  BY DEF SeenEvents, SeenCurrent, Source, Ev, Open
<1>2. Told(q)' = Told(q)
  BY <1>1 DEF Told
<1> QED
  BY <1>1, <1>2 DEF RowInv, ReadsLiveRows, OwnRows

(* A step of p that commits nothing. *)
LEMMA RowInvOf ==
  ASSUME TypeInv, RowInv, NEW p \in Procs, Only(p), db' = db,
         ReadsLiveRows(p)', OwnRows(p)'
  PROVE  RowInv'
<1>1. \A q \in Procs : q # p => run'[q] = run[q] /\ own'[q] = own[q]
  BY DEF Only, TypeInv, TypeOK
<1>2. \A q \in Procs : ReadsLiveRows(q)' /\ OwnRows(q)'
  BY <1>1, RowPartStays
<1> QED
  BY <1>2 DEF RowInv, CurrentIsLatest

(* The empty tables agree. *)
LEMMA RowInvInit == Init => RowInv
<1> SUFFICES ASSUME Init PROVE RowInv
  OBVIOUS
<1>1. db.events = {} /\ db.current = {}
  BY DEF Init, EmptyDatabase
<1>2. \A p \in Procs : run[p] = Idle /\ own[p] = NoWrites
  BY DEF Init
<1>3. CurrentIsLatest
  BY <1>1 DEF CurrentIsLatest, LiveRows
<1>4. \A p \in Procs : ReadsLiveRows(p) /\ OwnRows(p)
  BY <1>2 DEF ReadsLiveRows, OwnRows, Open, Idle, NoWrites
<1> QED
  BY <1>3, <1>4 DEF RowInv

(* Outside a transaction there is nothing to keep, and one that begins reads *)
(* what is committed.                                                        *)
LEMMA RestRowInv ==
  ASSUME TypeInv, RowInv, NEW p \in Procs, Only(p), db' = db, own'[p] = NoWrites,
         run'[p].pc \notin {"current", "write"}
  PROVE  RowInv'
<1>1. SeenEvents(p)' = db.events /\ SeenCurrent(p)' = db.current
  BY DEF SeenEvents, SeenCurrent, NoWrites
<1>2. Told(p)' = db.events
  BY <1>1 DEF Told
<1>3. ReadsLiveRows(p)'
  <2>1. \A s : Of(db.current, s) = LiveRows(Of(db.events, s))
    BY LiveRowsOf DEF RowInv, CurrentIsLatest
  <2> QED
    BY <1>1, <1>2, <2>1 DEF ReadsLiveRows
<1>4. OwnRows(p)'
  BY DEF OwnRows, NoWrites
<1> QED
  BY <1>3, <1>4, RowInvOf

(* The event that is logged is the one the rows are not told of yet. *)
LEMMA InsertRowInv ==
  ASSUME TypeInv, LogInv, RowInv, NEW p \in Procs, Insert(p)
  PROVE  RowInv'
<1>1. /\ Open(p) /\ At(p, "insert") /\ UNCHANGED <<db, incoming>>
  BY DEF Insert, Open, At
<1>2. run[p] \in Run /\ own[p] \in Writes
  BY SeenFacts
<1>3. /\ Of(SeenCurrent(p), Source(p)) = LiveRows(Of(SeenEvents(p), Source(p)))
      /\ OwnRows(p)
  BY <1>1 DEF RowInv, ReadsLiveRows, Told, At
<1>4. CASE Logged(SeenEvents(p), Ev(p))
  <2>1. /\ run'[p] = [run[p] EXCEPT !.pc = "bump", !.skipped = TRUE]
        /\ own' = own /\ run' = [run EXCEPT ![p].pc = "bump", ![p].skipped = TRUE]
    BY <1>4 DEF Insert, TypeInv, TypeOK
  <2>2. run'[p].pc = "bump" /\ run'[p].body = run[p].body
    BY <1>2, <2>1 DEF Run
  <2>3. Only(p)
    BY <2>1 DEF Only, TypeInv, TypeOK
  <2>4. /\ SeenEvents(p)' = SeenEvents(p) /\ SeenCurrent(p)' = SeenCurrent(p)
        /\ Source(p)' = Source(p)
    BY <1>1, <2>1, <2>2 DEF SeenEvents, SeenCurrent, Source
  <2>5. ReadsLiveRows(p)' /\ OwnRows(p)'
    BY <1>3, <2>1, <2>2, <2>4 DEF ReadsLiveRows, OwnRows, Told
  <2> QED
    BY <1>1, <2>3, <2>5, RowInvOf
<1>5. CASE ~Logged(SeenEvents(p), Ev(p))
  <2>1. /\ run' = [run EXCEPT ![p].pc = "current"]
        /\ own' = [own EXCEPT ![p].log = own[p].log \cup {Ev(p)}]
    BY <1>5 DEF Insert
  <2>2. /\ run'[p] = [run[p] EXCEPT !.pc = "current"] /\ Only(p)
        /\ own'[p] = [own[p] EXCEPT !.log = own[p].log \cup {Ev(p)}]
    BY <2>1 DEF Only, TypeInv, TypeOK
  <2>3. /\ run'[p].pc = "current" /\ run'[p].pos = run[p].pos /\ run'[p].body = run[p].body
        /\ own'[p].log = own[p].log \cup {Ev(p)}
        /\ own'[p].gone = own[p].gone /\ own'[p].rows = own[p].rows
    BY <1>2, <2>2 DEF Run, Writes
  <2>4. /\ SeenEvents(p)' = SeenEvents(p) \cup {Ev(p)} /\ SeenCurrent(p)' = SeenCurrent(p)
        /\ Source(p)' = Source(p) /\ Ev(p)' = Ev(p)
    BY <1>1, <2>3 DEF SeenEvents, SeenCurrent, Source, Ev
  <2>5. Told(p)' = SeenEvents(p)
    BY <1>5, <2>3, <2>4 DEF Told, Logged
  <2>6. ReadsLiveRows(p)' /\ OwnRows(p)'
    BY <1>3, <2>3, <2>4, <2>5 DEF ReadsLiveRows, OwnRows
  <2> QED
    BY <1>1, <2>2, <2>6, RowInvOf
<1> QED
  BY <1>4, <1>5

(* When apply_current finds nothing to write, the rows are right already.    *)
LEMMA CurrentRowInv ==
  ASSUME TypeInv, LogInv, RowInv, NEW p \in Procs, Current(p)
  PROVE  RowInv'
<1> DEFINE e == Ev(p)
           s == Source(p)
           all == Of(SeenEvents(p), s)
           rows == Of(SeenCurrent(p), s)
           writes == IF e.op = "D" THEN \E r \in SeenCurrent(p) : SameRow(r, e)
                     ELSE CarriesRow(e) /\ ~LaterDelete(SeenEvents(p), e)
<1>1. /\ Open(p) /\ At(p, "current") /\ UNCHANGED <<db, incoming, own>>
      /\ run' = [run EXCEPT ![p].pc = IF writes THEN "write" ELSE "bump"]
  BY DEF Current, Open, At
<1>2. /\ LiveRows(all) = ApplyCurrent(all, rows, e)
      /\ ~LaterDelete(SeenEvents(p), e)
  BY <1>1, ApplyIsLive DEF At
<1>3. ~writes => LiveRows(all) = rows
  <2>1. CASE e.op = "D" /\ \A r \in SeenCurrent(p) : ~SameRow(r, e)
    BY <1>2, <2>1 DEF ApplyCurrent, Deleted, Of
  <2>2. CASE e.op # "D" /\ ~CarriesRow(e)
    BY <1>2, <2>2 DEF ApplyCurrent
  <2> QED
    BY <1>2, <2>1, <2>2
<1>4. rows = LiveRows(Of(SeenEvents(p) \ {e}, s)) /\ OwnRows(p)
  BY <1>1 DEF RowInv, ReadsLiveRows, Told, At
<1> HIDE DEF writes
<1>5. PICK l \in {"write", "bump"} :
        /\ run' = [run EXCEPT ![p].pc = l]
        /\ l = "bump" => ~writes
  BY <1>1
<1>6. run'[p] = [run[p] EXCEPT !.pc = l] /\ Only(p) /\ run[p] \in Run
  BY <1>1, <1>5 DEF Only, TypeInv, TypeOK
<1>7. run'[p].pc = l /\ run'[p].pos = run[p].pos /\ run'[p].body = run[p].body
  BY <1>6 DEF Run
<1>8. /\ SeenEvents(p)' = SeenEvents(p) /\ SeenCurrent(p)' = SeenCurrent(p)
      /\ Source(p)' = s /\ Ev(p)' = e
  BY <1>1, <1>7 DEF SeenEvents, SeenCurrent, Source, Ev
<1>9. Told(p)' = IF l = "write" THEN SeenEvents(p) \ {e} ELSE SeenEvents(p)
  BY <1>7, <1>8 DEF Told
<1>10. ReadsLiveRows(p)'
  BY <1>3, <1>4, <1>5, <1>8, <1>9 DEF ReadsLiveRows
<1>11. OwnRows(p)'
  BY <1>1, <1>4, <1>8 DEF OwnRows
<1> QED
  BY <1>1, <1>6, <1>10, <1>11, RowInvOf

(* The write of apply_current makes the rows those of the longer log.        *)
LEMMA WriteRowInv ==
  ASSUME TypeInv, LogInv, RowInv, NEW p \in Procs, Write(p)
  PROVE  RowInv'
<1> DEFINE e == Ev(p)
           s == Source(p)
           all == Of(SeenEvents(p), s)
           rows == Of(SeenCurrent(p), s)
           mine == {r \in SeenCurrent(p) : SameRow(r, e)}
           put == IF e.op = "D" THEN {}
                  ELSE IF \E r \in mine : r.seq >= e.seq THEN mine
                  ELSE {RowOf(e)}
<1>1. /\ Open(p) /\ At(p, "write") /\ UNCHANGED <<db, incoming>>
      /\ run' = [run EXCEPT ![p].pc = "bump"]
      /\ own' = [own EXCEPT ![p].gone = own[p].gone \cup {IdOf(e)},
                            ![p].rows = Deleted(own[p].rows, e) \cup put]
  BY DEF Write, Open, At
<1>2. /\ e \in Event /\ e.src = s /\ own[p].log # {}
      /\ LiveRows(all) = ApplyCurrent(all, rows, e)
      /\ ~LaterDelete(all, e)
      /\ \A r \in SeenCurrent(p) : SameRow(r, e) => r \in rows /\ ~(r.seq >= e.seq)
  BY <1>1, ApplyIsLive DEF At
<1>3. e.op = "D" \/ CarriesRow(e)
  BY <1>1 DEF TypeInv, Reading
<1>4. put = IF e.op = "D" THEN {} ELSE {RowOf(e)}
  BY <1>2
<1>5. LiveRows(all) = Deleted(rows, e) \cup put
  <2>1. CASE e.op = "D"
    BY <1>2, <1>4, <2>1 DEF ApplyCurrent
  <2>2. CASE e.op # "D"
    <3>1. ~\E r \in rows : SameRow(r, e) /\ r.seq >= e.seq
      BY <1>2 DEF Of
    <3> QED
      BY <1>2, <1>3, <1>4, <2>2, <3>1 DEF ApplyCurrent, Upserted
  <2> QED
    BY <2>1, <2>2
<1>6. \A r \in put : r.src = s
  BY <1>2, <1>4, IdIsSameRow
<1> HIDE DEF put
<1>7. /\ run'[p] = [run[p] EXCEPT !.pc = "bump"] /\ Only(p) /\ run[p] \in Run
      /\ own'[p] = [own[p] EXCEPT !.gone = own[p].gone \cup {IdOf(e)},
                                  !.rows = Deleted(own[p].rows, e) \cup put]
      /\ own[p] \in Writes
  BY <1>1 DEF Only, TypeInv, TypeOK
<1>8. /\ run'[p].pc = "bump" /\ run'[p].body = run[p].body
      /\ own'[p].gone = own[p].gone \cup {IdOf(e)} /\ own'[p].log = own[p].log
      /\ own'[p].rows = Deleted(own[p].rows, e) \cup put
  BY <1>7 DEF Run, Writes
<1>9. SeenCurrent(p)' = Deleted(SeenCurrent(p), e) \cup put
  <2>1. SeenCurrent(p)' = {r \in db.current : IdOf(r) \notin own[p].gone \cup {IdOf(e)}}
                          \cup Deleted(own[p].rows, e) \cup put
    BY <1>1, <1>8 DEF SeenCurrent
  <2>2. {r \in db.current : IdOf(r) \notin own[p].gone \cup {IdOf(e)}}
        = {r \in db.current : IdOf(r) \notin own[p].gone /\ ~SameRow(r, e)}
    BY IdIsSameRow
  <2> QED
    BY <2>1, <2>2 DEF SeenCurrent, Deleted
<1>10. Of(SeenCurrent(p)', s) = Deleted(rows, e) \cup put
  BY <1>6, <1>9 DEF Of, Deleted
<1>11. SeenEvents(p)' = SeenEvents(p) /\ Told(p)' = SeenEvents(p) /\ Source(p)' = s
  BY <1>1, <1>8 DEF SeenEvents, Told, Source
<1>12. ReadsLiveRows(p)'
  BY <1>5, <1>10, <1>11 DEF ReadsLiveRows
<1>13. OwnRows(p)'
  <2>1. OwnRows(p) /\ IdOf(e).src = s
    BY <1>2, IdIsSameRow DEF RowInv
  <2>2. \A x \in Deleted(own[p].rows, e) : x \in own[p].rows
    BY DEF Deleted
  <2> QED
    BY <1>2, <1>6, <1>8, <1>11, <2>1, <2>2 DEF OwnRows
<1> QED
  BY <1>1, <1>7, <1>12, <1>13, RowInvOf

(* bump_watermark touches no row. *)
LEMMA BumpRowInv ==
  ASSUME TypeInv, RowInv, NEW p \in Procs, Bump(p)
  PROVE  RowInv'
<1>1. /\ Open(p) /\ At(p, "bump") /\ UNCHANGED <<db, incoming>>
      /\ run' = [run EXCEPT ![p].pc = "insert", ![p].pos = run[p].pos + 1]
  BY DEF Bump, Open, At
<1>2. PICK mark : own' = [own EXCEPT ![p].mark = mark]
  BY DEF Bump
<1>3. /\ run'[p] = [run[p] EXCEPT !.pc = "insert", !.pos = run[p].pos + 1]
      /\ Only(p) /\ run[p] \in Run
      /\ own'[p] = [own[p] EXCEPT !.mark = mark] /\ own[p] \in Writes
  BY <1>1, <1>2 DEF Only, TypeInv, TypeOK
<1>4. /\ run'[p].pc = "insert" /\ run'[p].body = run[p].body /\ own'[p].log = own[p].log
      /\ own'[p].gone = own[p].gone /\ own'[p].rows = own[p].rows
  BY <1>3 DEF Run, Writes
<1>5. /\ SeenEvents(p)' = SeenEvents(p) /\ SeenCurrent(p)' = SeenCurrent(p)
      /\ Source(p)' = Source(p)
  BY <1>1, <1>4 DEF SeenEvents, SeenCurrent, Source
<1>6. ReadsLiveRows(p)' /\ OwnRows(p)'
  BY <1>1, <1>4, <1>5 DEF RowInv, ReadsLiveRows, OwnRows, Told, At
<1> QED
  BY <1>1, <1>3, <1>6, RowInvOf

(* There is no stale row to retract. *)
LEMMA RetractRowInv ==
  ASSUME TypeInv, LogInv, RowInv, NEW p \in Procs, Retract(p)
  PROVE  RowInv'
<1>1. /\ Open(p) /\ At(p, "insert") /\ UNCHANGED <<db, incoming>>
      /\ run' = [run EXCEPT ![p].skipped = FALSE]
      /\ own' = [own EXCEPT ![p].gone = own[p].gone \cup {IdOf(r) : r \in Stale(p)},
                            ![p].rows = own[p].rows \ Stale(p)]
  BY DEF Retract, Open, At
<1>2. Of(SeenCurrent(p), Source(p)) = LiveRows(Of(SeenEvents(p), Source(p)))
  BY <1>1 DEF RowInv, ReadsLiveRows, Told, At
<1>3. Stale(p) = {}
  <2> SUFFICES ASSUME NEW r \in SeenCurrent(p), r.src = Source(p),
                      NEW d \in SeenEvents(p), SameRow(d, r), d.op = "D", d.seq > r.seq
               PROVE  FALSE
    BY DEF Stale, LaterDelete
  <2>1. r \in LiveRows(Of(SeenEvents(p), Source(p)))
    BY <1>2 DEF Of
  <2>2. PICK f \in Of(SeenEvents(p), Source(p)) :
          r = RowOf(f) /\ Latest(Of(SeenEvents(p), Source(p)), f)
    BY <2>1 DEF LiveRows
  <2>3. r.seq = f.seq /\ SameRow(d, f) /\ d \in Of(SeenEvents(p), Source(p))
    BY <2>2 DEF RowOf, SameRow, Of
  <2>4. d.seq \in Nat /\ f.seq \in Nat
    BY <2>2, SeenFacts DEF Of, Event
  <2> QED
    BY <2>2, <2>3, <2>4 DEF Latest
<1>4. own' = [own EXCEPT ![p].gone = own[p].gone, ![p].rows = own[p].rows]
  BY <1>1, <1>3
<1>5. /\ run'[p] = [run[p] EXCEPT !.skipped = FALSE] /\ Only(p) /\ run[p] \in Run
      /\ own'[p] = [own[p] EXCEPT !.gone = own[p].gone, !.rows = own[p].rows]
      /\ own[p] \in Writes
  BY <1>1, <1>4 DEF Only, TypeInv, TypeOK
<1>6. /\ run'[p].pc = "insert" /\ run'[p].body = run[p].body
      /\ own'[p].log = own[p].log /\ own'[p].gone = own[p].gone /\ own'[p].rows = own[p].rows
  <2>1. run'[p].pc = "insert" /\ run'[p].body = run[p].body
    BY <1>1, <1>5 DEF Run, At
  <2>2. own'[p].log = own[p].log /\ own'[p].gone = own[p].gone /\ own'[p].rows = own[p].rows
    BY <1>5 DEF Writes
  <2> QED
    BY <2>1, <2>2
<1>7. /\ SeenEvents(p)' = SeenEvents(p) /\ SeenCurrent(p)' = SeenCurrent(p)
      /\ Source(p)' = Source(p)
  BY <1>1, <1>6 DEF SeenEvents, SeenCurrent, Source
<1>8. Told(p)' = SeenEvents(p)
  BY <1>6, <1>7 DEF Told
<1>9. ReadsLiveRows(p)'
  BY <1>2, <1>7, <1>8 DEF ReadsLiveRows
<1>10. OwnRows(p)'
  BY <1>6, <1>7 DEF RowInv, OwnRows
<1> QED
  BY <1>1, <1>5, <1>9, <1>10, RowInvOf

(* Between two events an applier reads the live rows of all the events it    *)
(* sees, whatever their source.                                              *)
LEMMA SeesLiveRows ==
  ASSUME TypeInv, LogInv, RowInv, NEW p \in Procs, At(p, "insert")
  PROVE  /\ \A t : Of(SeenCurrent(p), t) = LiveRows(Of(SeenEvents(p), t))
         /\ SeenCurrent(p) = LiveRows(SeenEvents(p))
<1>1. Of(SeenCurrent(p), Source(p)) = LiveRows(Of(SeenEvents(p), Source(p)))
  BY DEF RowInv, ReadsLiveRows, Told, At, Open
<1>2. ASSUME NEW t
      PROVE  Of(SeenCurrent(p), t) = LiveRows(Of(SeenEvents(p), t))
  <2>1. CASE t = Source(p)
    BY <1>1, <2>1
  <2>2. CASE t # Source(p)
    <3>1. /\ Of(SeenCurrent(p), t) = Of(db.current, t)
          /\ Of(SeenEvents(p), t) = Of(db.events, t)
      BY <2>2, OtherSources
    <3>2. Of(db.current, t) = LiveRows(Of(db.events, t))
      BY LiveRowsOf DEF RowInv, CurrentIsLatest
    <3> QED
      BY <3>1, <3>2
  <2> QED
    BY <2>1, <2>2
<1>3. \A r \in SeenCurrent(p) \cup LiveRows(SeenEvents(p)) :
        Of(SeenCurrent(p), r.src) = Of(LiveRows(SeenEvents(p)), r.src)
  BY <1>2, LiveRowsOf
<1>4. SeenCurrent(p) = LiveRows(SeenEvents(p))
  BY <1>3, SameBySource
<1> QED
  BY <1>2, <1>4

(* A commit makes public the live rows of a longer log, and takes nothing    *)
(* from another transaction: either it is of another source, or one of the   *)
(* two has no events.                                                        *)
LEMMA CommitRowInv ==
  ASSUME TypeInv, LogInv, RowInv, NEW p \in Procs, Commit(p)
  PROVE  RowInv'
<1>1. /\ Open(p) /\ At(p, "insert") /\ UNCHANGED incoming
      /\ db'.events = SeenEvents(p) /\ db'.current = SeenCurrent(p)
      /\ run' = [run EXCEPT ![p].pc = "remove"] /\ own' = [own EXCEPT ![p] = NoWrites]
  BY DEF Commit, Open, At
<1>2. /\ run'[p] = [run[p] EXCEPT !.pc = "remove"] /\ own'[p] = NoWrites /\ run[p] \in Run
      /\ \A q \in Procs : q # p => run'[q] = run[q] /\ own'[q] = own[q]
  BY <1>1 DEF TypeInv, TypeOK
<1>3. run'[p].pc = "remove"
  BY <1>2 DEF Run
<1>5. ASSUME NEW t
      PROVE  Of(SeenCurrent(p), t) = LiveRows(Of(SeenEvents(p), t))
  BY <1>1, SeesLiveRows
<1>6. SeenCurrent(p) = LiveRows(SeenEvents(p))
  BY <1>1, SeesLiveRows
<1>7. CurrentIsLatest'
  BY <1>1, <1>6 DEF CurrentIsLatest
<1>8. ReadsLiveRows(p)' /\ OwnRows(p)'
  BY <1>2, <1>3 DEF ReadsLiveRows, OwnRows, Open, NoWrites
<1>9. ASSUME NEW q \in Procs, q # p
      PROVE  ReadsLiveRows(q)' /\ OwnRows(q)'
  <2>1. /\ run'[q] = run[q] /\ own'[q] = own[q] /\ Source(q)' = Source(q) /\ Ev(q)' = Ev(q)
        /\ Open(q)' = Open(q) /\ OwnRows(q) /\ ReadsLiveRows(q)
        /\ SeenEvents(q)' = db'.events \cup own[q].log
        /\ SeenCurrent(q)' = {r \in db'.current : IdOf(r) \notin own[q].gone} \cup own[q].rows
    BY <1>2, <1>9 DEF Source, Ev, Open, SeenEvents, SeenCurrent, RowInv
  <2>2. OwnRows(q)'
    BY <2>1 DEF OwnRows
  <2>3. CASE own[q].log = {}
    <3>1. /\ own[q].gone = {} /\ own[q].rows = {} /\ run[q].pc \notin {"current", "write"}
      BY <2>3, UntouchedReads DEF LogInv, LogPart, NewestOfSource
    <3>2. SeenCurrent(q)' = SeenCurrent(p) /\ Told(q)' = SeenEvents(p)
      BY <1>1, <2>1, <2>3, <3>1 DEF Told
    <3> QED
      BY <1>5, <2>1, <2>2, <3>2 DEF ReadsLiveRows
  <2>4. CASE own[p].log = {}
    <3>1. db'.events = db.events /\ db'.current = db.current
      BY <1>1, <2>4, UntouchedReads
    <3>2. SeenEvents(q)' = SeenEvents(q) /\ SeenCurrent(q)' = SeenCurrent(q)
      BY <2>1, <3>1 DEF SeenEvents, SeenCurrent
    <3>3. Told(q)' = Told(q)
      BY <2>1, <3>2 DEF Told
    <3> QED
      BY <2>1, <2>2, <3>2, <3>3 DEF ReadsLiveRows
  <2>5. CASE own[q].log # {} /\ own[p].log # {}
    <3> DEFINE s == Source(q)
    <3>1. s # Source(p)
      BY <1>9, <2>5 DEF LogInv, OneLogger
    <3>2. Of(db'.events, s) = Of(db.events, s) /\ Of(db'.current, s) = Of(db.current, s)
      BY <1>1, <3>1, OtherSources
    <3>3. Of(SeenCurrent(q)', s) = Of(SeenCurrent(q), s)
      BY <2>1, <3>2 DEF Of, SeenCurrent
    <3>4. Of(SeenEvents(q)', s) = Of(SeenEvents(q), s)
      BY <2>1, <3>2 DEF Of, SeenEvents
    <3>5. Of(Told(q)', s) = Of(Told(q), s)
      BY <2>1, <3>4 DEF Told, Of
    <3> QED
      BY <2>1, <2>2, <3>3, <3>5 DEF ReadsLiveRows
  <2> QED
    BY <2>3, <2>4, <2>5
<1> QED
  BY <1>7, <1>8, <1>9 DEF RowInv

(* Every step keeps the rows. *)
LEMMA RowInvStep ==
  ASSUME TypeInv, LogInv, RowInv, [Next]_vars
  PROVE  RowInv'
<1>1. CASE UNCHANGED <<db, run, own>>
  BY <1>1, RowPartStays DEF RowInv, CurrentIsLatest
<1>2. ASSUME NEW p \in Procs, StartSpool(p, TRUE) \/ StartSpool(p, FALSE)
      PROVE  RowInv'
  <2>1. run'[p].pc = "next" /\ own'[p] = own[p] /\ Only(p) /\ UNCHANGED db
    BY <1>2 DEF StartSpool, Only, TypeInv, TypeOK, Idle
  <2>2. own[p] = NoWrites
    BY <1>2 DEF StartSpool, TypeInv, Reading, Open, At
  <2> QED
    BY <2>1, <2>2, RestRowInv
<1>3. ASSUME NEW p \in Procs, Goes(p) \/ Crash(p)
      PROVE  RowInv'
  <2>1. CASE Abort(p)
    <3>1. run'[p] = Idle /\ own'[p] = NoWrites /\ Only(p) /\ UNCHANGED db
      BY <2>1 DEF Abort, Only, TypeInv, TypeOK
    <3> QED
      BY <3>1, RestRowInv DEF Idle
  <2>2. CASE OpenNext(p) /\ ~Abort(p)
    <3>1. own' = own /\ own[p] = NoWrites /\ UNCHANGED db
      BY <2>2 DEF OpenNext, TypeInv, Reading, Open, At
    <3>2. run'[p].pc = "insert" /\ Only(p)
      BY <2>2, <3>1 DEF OpenNext, Only, TypeInv, TypeOK
    <3> QED
      BY <3>1, <3>2, RestRowInv
  <2>3. CASE Finish(p)
    <3>1. Abort(p)
      BY <2>3, FinishIsAbort
    <3> QED
      BY <2>1, <3>1
  <2>4. CASE Insert(p)
    BY <2>4, InsertRowInv
  <2>5. CASE Current(p)
    BY <2>5, CurrentRowInv
  <2>6. CASE Write(p)
    BY <2>6, WriteRowInv
  <2>7. CASE Bump(p)
    BY <2>7, BumpRowInv
  <2>8. CASE Retract(p)
    BY <2>8, RetractRowInv
  <2>9. CASE Commit(p)
    BY <2>9, CommitRowInv
  <2>10. CASE Remove(p) /\ ~Abort(p)
    <3>1. own' = own /\ own[p] = NoWrites /\ UNCHANGED db
      BY <2>10 DEF Remove, TypeInv, Reading, Open, At
    <3>2. run' = [run EXCEPT ![p].pc = "next"] /\ run[p] \in Run
      BY <2>10 DEF Remove, TypeInv, TypeOK
    <3>3. run'[p] = [run[p] EXCEPT !.pc = "next"] /\ Only(p)
      BY <3>1, <3>2 DEF Only, TypeInv, TypeOK
    <3>4. run'[p].pc = "next"
      BY <3>2, <3>3 DEF Run
    <3> QED
      BY <3>1, <3>3, <3>4, RestRowInv
  <2> QED
    BY <1>3, <2>1, <2>2, <2>3, <2>4, <2>5, <2>6, <2>7, <2>8, <2>9, <2>10
       DEF Goes, DeadlockVictim, Crash
<1> QED
  BY <1>1, <1>2, <1>3 DEF Next, vars, Arrive, Copy
-----------------------------------------------------------------------------
(* The mark an open transaction leaves is the watermark after the events it  *)
(* has passed, and what it would write if it ended here.                     *)
Marked(p) ==
  Open(p) =>
    /\ run[p].pos <= Len(run[p].body) + 1
    /\ own[p].mark = IF run[p].pos = 1 THEN 0
                     ELSE Bumped(db.watermarks, run[p].body[run[p].pos - 1])[Source(p)]

(* The watermark of a source is one transaction's. *)
OneMarker ==
  \A p, q \in Procs :
    p # q /\ own[p].mark # 0 /\ own[q].mark # 0 => Source(p) # Source(q)

MarkInv == OneMarker /\ \A p \in Procs : Marked(p)

(* The watermark of an event's source after it. *)
LEMMA BumpedMark ==
  ASSUME NEW w \in [SrcDbs -> Nat], NEW e \in Event
  PROVE  Bumped(w, e)[e.src] = IF w[e.src] < e.seq THEN e.seq ELSE w[e.src]
BY DEF Bumped, Event

(* A transaction has a mark when it is past its first event. *)
LEMMA MarkFacts ==
  ASSUME TypeInv, NEW p \in Procs, Open(p), Marked(p)
  PROVE  /\ db.watermarks \in [SrcDbs -> Nat]
         /\ run[p].pos # 1 =>
              /\ run[p].pos - 1 \in DOMAIN run[p].body
              /\ run[p].body[run[p].pos - 1] \in Event
              /\ run[p].body[run[p].pos - 1].src = Source(p)
              /\ own[p].mark # 0
<1>1. db.watermarks \in [SrcDbs -> Nat]
  BY SeenFacts DEF Database
<1>2. ASSUME run[p].pos # 1
      PROVE  /\ run[p].pos - 1 \in DOMAIN run[p].body
             /\ run[p].body[run[p].pos - 1] \in Event
             /\ run[p].body[run[p].pos - 1].src = Source(p)
             /\ own[p].mark # 0
  <2> DEFINE e == run[p].body[run[p].pos - 1]
  <2>0. InHand(p)
    BY DEF InHand
  <2>1. run[p].pos - 1 \in DOMAIN run[p].body
    BY <1>2, <2>0, HandFacts DEF Marked
  <2>2. e \in SeqRange(run[p].body) /\ e.src = Source(p)
    BY <2>0, <2>1, HandFacts DEF SeqRange
  <2>3. e \in Journal /\ e \in Event
    BY <2>0, <2>2, HandFacts, JournalIsEvents
  <2>4. e.seq > 0 /\ e.seq \in Nat /\ e.src \in SrcDbs
    BY <2>3, ApplierConstants DEF Event
  <2>5. own[p].mark = Bumped(db.watermarks, e)[e.src]
    BY <1>2, <2>2 DEF Marked
  <2>6. own[p].mark # 0
    BY <1>1, <2>3, <2>4, <2>5, BumpedMark
  <2> QED
    BY <2>1, <2>2, <2>3, <2>6
<1> QED
  BY <1>1, <1>2

(* No transaction, no mark. *)
LEMMA MarkInvInit == Init => MarkInv
<1> SUFFICES ASSUME Init PROVE MarkInv
  OBVIOUS
<1>1. \A p \in Procs : run[p] = Idle /\ own[p] = NoWrites
  BY DEF Init
<1> QED
  BY <1>1 DEF MarkInv, OneMarker, Marked, Open, Idle, NoWrites

(* A step of p that commits nothing and takes no mark. *)
LEMMA MarkInvOf ==
  ASSUME TypeInv, MarkInv, NEW p \in Procs, Only(p), db' = db, Marked(p)',
         \/ own'[p].mark = 0
         \/ own'[p].mark = own[p].mark /\ run'[p].body = run[p].body
  PROVE  MarkInv'
<1>1. \A q \in Procs : q # p => run'[q] = run[q] /\ own'[q] = own[q]
  BY DEF Only, TypeInv, TypeOK
<1>2. \A q \in Procs : Marked(q)'
  BY <1>1 DEF MarkInv, Marked, Open, Source
<1>3. \A q \in Procs :
        own'[q].mark # 0 => own'[q].mark = own[q].mark /\ Source(q)' = Source(q)
  BY <1>1 DEF Source
<1>4. OneMarker'
  BY <1>3 DEF MarkInv, OneMarker
<1> QED
  BY <1>2, <1>4 DEF MarkInv

(* One that keeps its place in the file. *)
LEMMA StayMarkInv ==
  ASSUME TypeInv, MarkInv, NEW p \in Procs, Open(p), Only(p), db' = db,
         run'[p].body = run[p].body, run'[p].pos = run[p].pos, own'[p].mark = own[p].mark
  PROVE  MarkInv'
<1>1. Marked(p)'
  BY DEF MarkInv, Marked, Source
<1> QED
  BY <1>1, MarkInvOf

(* One that ends outside a transaction, or at the first event of one. *)
LEMMA RestMarkInv ==
  ASSUME TypeInv, MarkInv, NEW p \in Procs, Only(p), db' = db, own'[p] = NoWrites,
         \/ run'[p].pc \in {"idle", "next", "remove"}
         \/ run'[p].pos = 1 /\ Len(run'[p].body) \in Nat
  PROVE  MarkInv'
<1>1. own'[p].mark = 0
  BY DEF NoWrites
<1>2. Marked(p)'
  BY <1>1 DEF Marked, Open
<1> QED
  BY <1>1, <1>2, MarkInvOf

(* bump_watermark is the one statement that takes a mark: it waited for      *)
(* whoever had the watermark of the source.                                  *)
LEMMA BumpMarkInv ==
  ASSUME TypeInv, MarkInv, NEW p \in Procs, Bump(p)
  PROVE  MarkInv'
<1>1. /\ Open(p) /\ InHand(p) /\ AtEvent(p) /\ UNCHANGED db /\ Marked(p)
      /\ \A q \in Procs : q # p => ~(own[q].mark # 0 /\ Source(q) = Source(p))
  BY DEF Bump, Open, InHand, AtEvent, At, Free, Waits, MarkInv
<1> DEFINE s == Source(p)
           e == Ev(p)
           w == db.watermarks
           i == run[p].pos
           seen == [w EXCEPT ![s] = IF w[s] < own[p].mark THEN own[p].mark ELSE w[s]]
           mark == Bumped(seen, e)[s]
<1>2. /\ e \in Event /\ e = run[p].body[i] /\ e.src = s /\ i \in DOMAIN run[p].body
      /\ i \in Nat \ {0} /\ i <= Len(run[p].body) /\ Len(run[p].body) \in Nat
      /\ e.seq \in Nat /\ e.seq > 0 /\ s \in SrcDbs
      /\ run[p] \in Run /\ own[p] \in Writes /\ own[p].mark \in Nat
  <2>1. More(p) /\ run[p] \in Run /\ own[p] \in Writes
    BY <1>1, SeenFacts DEF TypeInv, Reading
  <2>2. e \in Event /\ e \in Journal /\ e.src = s /\ i \in DOMAIN run[p].body /\ e = run[p].body[i]
    BY <1>1, <2>1, EvFacts
  <2>3. i \in Nat \ {0} /\ Len(run[p].body) \in Nat
    BY <1>1, HandFacts
  <2> QED
    BY <2>1, <2>2, <2>3, ApplierConstants DEF Event, Writes, More
<1>3. w \in [SrcDbs -> Nat] /\ w[s] \in Nat
  BY <1>1, <1>2, MarkFacts
<1>4. mark = Bumped(w, e)[s]
  <2>1. CASE i = 1
    <3>1. own[p].mark = 0
      BY <1>1, <2>1 DEF Marked
    <3>2. seen = w
      BY <1>3, <3>1
    <3> QED
      BY <3>2
  <2>2. CASE i # 1
    <3> DEFINE d == run[p].body[i - 1]
    <3>1. i - 1 \in DOMAIN run[p].body /\ d \in Event /\ d.src = s
      BY <1>1, <2>2, MarkFacts
    <3>2. d.seq < e.seq /\ d.seq \in Nat
      <4>1. PICK f \in Files : run[p].body = f.body
        BY <1>1, HandFacts
      <4> QED
        BY <1>2, <3>1, <4>1, BatchAssumption DEF Event
    <3>3. own[p].mark = IF w[s] < d.seq THEN d.seq ELSE w[s]
      <4>1. own[p].mark = Bumped(w, d)[d.src]
        BY <1>1, <2>2, <3>1 DEF Marked
      <4> QED
        BY <1>3, <3>1, <4>1, BumpedMark
    <3>4. seen \in [SrcDbs -> Nat] /\ seen[s] = own[p].mark
      BY <1>2, <1>3, <3>2, <3>3
    <3> HIDE DEF seen
    <3>5. Bumped(seen, e)[e.src] = IF seen[e.src] < e.seq THEN e.seq ELSE seen[e.src]
      BY <1>2, <3>4, BumpedMark
    <3>6. Bumped(w, e)[e.src] = IF w[e.src] < e.seq THEN e.seq ELSE w[e.src]
      BY <1>2, <1>3, BumpedMark
    <3> QED
      BY <1>2, <1>3, <3>2, <3>3, <3>4, <3>5, <3>6
  <2> QED
    BY <2>1, <2>2
<1>5. /\ run' = [run EXCEPT ![p] = [run[p] EXCEPT !.pc = "insert", !.pos = i + 1]]
      /\ own' = [own EXCEPT ![p] = [own[p] EXCEPT !.mark = mark]]
  BY DEF Bump
<1> HIDE DEF mark
<1>6. /\ run'[p] = [run[p] EXCEPT !.pc = "insert", !.pos = i + 1]
      /\ own'[p] = [own[p] EXCEPT !.mark = mark]
      /\ \A q \in Procs : q # p => run'[q] = run[q] /\ own'[q] = own[q]
  BY <1>5 DEF TypeInv, TypeOK
<1>7. /\ run'[p].pos = i + 1 /\ run'[p].body = run[p].body /\ own'[p].mark = mark
      /\ Source(p)' = s
  BY <1>2, <1>6 DEF Run, Writes, Source
<1>8. Marked(p)'
  <2>1. i + 1 # 1 /\ (i + 1) - 1 = i /\ i + 1 <= Len(run[p].body) + 1
    BY <1>2
  <2> QED
    BY <1>1, <1>2, <1>4, <1>7, <2>1 DEF Marked
<1>9. ASSUME NEW q \in Procs, q # p
      PROVE  Marked(q)'
  <2>1. run'[q] = run[q] /\ own'[q] = own[q] /\ db' = db /\ Marked(q)
    BY <1>1, <1>6, <1>9 DEF MarkInv
  <2> QED
    BY <2>1 DEF Marked, Open, Source
<1>10. \A q \in Procs : q # p => Source(q)' = Source(q) /\ own'[q].mark = own[q].mark
  BY <1>6 DEF Source
<1>11. OneMarker'
  BY <1>1, <1>7, <1>10 DEF MarkInv, OneMarker
<1> QED
  BY <1>8, <1>9, <1>11 DEF MarkInv

(* A commit moves the watermark of its source: no other transaction has a    *)
(* mark on that.                                                             *)
LEMMA CommitMarkInv ==
  ASSUME TypeInv, MarkInv, NEW p \in Procs, Commit(p)
  PROVE  MarkInv'
<1>1. /\ Open(p) /\ InHand(p) /\ Marked(p) /\ ~More(p)
      /\ db'.watermarks = [db.watermarks EXCEPT ![Source(p)] = own[p].mark]
      /\ run' = [run EXCEPT ![p].pc = "remove"] /\ own' = [own EXCEPT ![p] = NoWrites]
  BY DEF Commit, Open, InHand, At, MarkInv
<1>2. /\ run'[p] = [run[p] EXCEPT !.pc = "remove"] /\ own'[p] = NoWrites /\ run[p] \in Run
      /\ \A q \in Procs : q # p => run'[q] = run[q] /\ own'[q] = own[q]
  BY <1>1 DEF TypeInv, TypeOK
<1>3. run'[p].pc = "remove" /\ own'[p].mark = 0
  BY <1>2 DEF Run, NoWrites
<1>4. own[p].mark # 0
  <2>1. run[p].pos # 1
    BY <1>1, HandFacts DEF More
  <2> QED
    BY <1>1, <2>1, MarkFacts
<1>5. Marked(p)'
  BY <1>3 DEF Marked, Open
<1>6. ASSUME NEW q \in Procs, q # p
      PROVE  Marked(q)'
  <2>1. run'[q] = run[q] /\ own'[q] = own[q] /\ Source(q)' = Source(q) /\ Open(q)' = Open(q)
    BY <1>2, <1>6 DEF Source, Open
  <2>2. CASE ~Open(q) \/ run[q].pos = 1
    BY <2>1, <2>2 DEF MarkInv, Marked
  <2>3. CASE Open(q) /\ run[q].pos # 1
    <3> DEFINE e == run[q].body[run[q].pos - 1]
               s == Source(q)
    <3>1. /\ e \in Event /\ e.src = s /\ own[q].mark # 0
          /\ db.watermarks \in [SrcDbs -> Nat] /\ s \in SrcDbs
      BY <2>3, MarkFacts, HandFacts DEF MarkInv, InHand
    <3>2. s # Source(p)
      BY <1>4, <1>6, <3>1 DEF MarkInv, OneMarker
    <3>3. db'.watermarks[s] = db.watermarks[s] /\ DOMAIN db'.watermarks = SrcDbs
      BY <1>1, <3>1, <3>2
    <3>4. Bumped(db'.watermarks, e)[s] = Bumped(db.watermarks, e)[s]
      BY <3>1, <3>3 DEF Bumped
    <3> QED
      BY <2>1, <2>3, <3>4 DEF MarkInv, Marked
  <2> QED
    BY <2>2, <2>3
<1>7. \A q \in Procs : q # p => Source(q)' = Source(q) /\ own'[q].mark = own[q].mark
  BY <1>2 DEF Source
<1>8. OneMarker'
  BY <1>3, <1>7 DEF MarkInv, OneMarker
<1> QED
  BY <1>5, <1>6, <1>8 DEF MarkInv

(* Every step keeps the marks. *)
LEMMA MarkInvStep ==
  ASSUME TypeInv, MarkInv, [Next]_vars
  PROVE  MarkInv'
<1>1. CASE UNCHANGED <<db, run, own>>
  BY <1>1 DEF MarkInv, OneMarker, Marked, Open, Source
<1>2. ASSUME NEW p \in Procs, StartSpool(p, TRUE) \/ StartSpool(p, FALSE)
      PROVE  MarkInv'
  <2>1. run'[p].pc = "next" /\ own'[p] = own[p] /\ Only(p) /\ UNCHANGED db
    BY <1>2 DEF StartSpool, Only, TypeInv, TypeOK, Idle
  <2>2. own[p] = NoWrites
    BY <1>2 DEF StartSpool, TypeInv, Reading, Open, At
  <2> QED
    BY <2>1, <2>2, RestMarkInv
<1>3. ASSUME NEW p \in Procs, Goes(p) \/ Crash(p)
      PROVE  MarkInv'
  <2>0. run[p] \in Run /\ own[p] \in Writes
    BY DEF TypeInv, TypeOK
  <2>1. CASE Abort(p)
    <3>1. run'[p] = Idle /\ own'[p] = NoWrites /\ Only(p) /\ UNCHANGED db
      BY <2>1 DEF Abort, Only, TypeInv, TypeOK
    <3> QED
      BY <3>1, RestMarkInv DEF Idle
  <2>2. CASE OpenNext(p) /\ ~Abort(p)
    <3>1. own' = own /\ own[p] = NoWrites /\ UNCHANGED db
      BY <2>2 DEF OpenNext, TypeInv, Reading, Open, At
    <3>2. PICK g \in DOMAIN incoming : run'[p].pos = 1 /\ run'[p].body = incoming[g]
      BY <2>2 DEF OpenNext, TypeInv, TypeOK
    <3>3. Only(p)
      BY <2>2, <3>1 DEF OpenNext, Only, TypeInv, TypeOK
    <3>4. Len(run'[p].body) \in Nat
      BY <3>2 DEF TypeInv, TypeOK
    <3> QED
      BY <3>1, <3>2, <3>3, <3>4, RestMarkInv
  <2>3. CASE Finish(p)
    <3>1. Abort(p)
      BY <2>3, FinishIsAbort
    <3> QED
      BY <2>1, <3>1
  <2>4. CASE Insert(p)
    <3>1. Open(p) /\ UNCHANGED db
      BY <2>4 DEF Insert, Open, At
    <3>2. Only(p)
      BY <2>4 DEF Insert, Only, TypeInv, TypeOK
    <3>3. run'[p].body = run[p].body /\ run'[p].pos = run[p].pos
      BY <2>0, <2>4 DEF Insert, Run, TypeInv, TypeOK
    <3>4. own'[p].mark = own[p].mark
      BY <2>0, <2>4 DEF Insert, Writes, TypeInv, TypeOK
    <3> QED
      BY <3>1, <3>2, <3>3, <3>4, StayMarkInv
  <2>5. CASE Current(p)
    <3>1. Open(p) /\ UNCHANGED db /\ UNCHANGED own
      BY <2>5 DEF Current, Open, At
    <3>2. Only(p) /\ run'[p].body = run[p].body /\ run'[p].pos = run[p].pos
      BY <2>0, <2>5 DEF Current, Only, Run, TypeInv, TypeOK
    <3> QED
      BY <3>1, <3>2, StayMarkInv
  <2>6. CASE Write(p)
    <3>1. Open(p) /\ UNCHANGED db
      BY <2>6 DEF Write, Open, At
    <3>2. PICK g, r : /\ run' = [run EXCEPT ![p] = [run[p] EXCEPT !.pc = "bump"]]
                      /\ own' = [own EXCEPT ![p] = [own[p] EXCEPT !.gone = g, !.rows = r]]
      BY <2>6 DEF Write
    <3>3. Only(p) /\ run'[p].body = run[p].body /\ run'[p].pos = run[p].pos
      BY <2>0, <3>2 DEF Only, Run, TypeInv, TypeOK
    <3>4. own'[p].mark = own[p].mark
      BY <2>0, <3>2 DEF Writes, TypeInv, TypeOK
    <3> QED
      BY <3>1, <3>3, <3>4, StayMarkInv
  <2>7. CASE Bump(p)
    BY <2>7, BumpMarkInv
  <2>8. CASE Retract(p)
    <3>1. Open(p) /\ UNCHANGED db
      BY <2>8 DEF Retract, Open, At
    <3>2. PICK g, r, b : /\ run' = [run EXCEPT ![p] = [run[p] EXCEPT !.skipped = b]]
                         /\ own' = [own EXCEPT ![p] = [own[p] EXCEPT !.gone = g, !.rows = r]]
      BY <2>8 DEF Retract
    <3>3. Only(p) /\ run'[p].body = run[p].body /\ run'[p].pos = run[p].pos
      BY <2>0, <3>2 DEF Only, Run, TypeInv, TypeOK
    <3>4. own'[p].mark = own[p].mark
      BY <2>0, <3>2 DEF Writes, TypeInv, TypeOK
    <3> QED
      BY <3>1, <3>3, <3>4, StayMarkInv
  <2>9. CASE Commit(p)
    BY <2>9, CommitMarkInv
  <2>10. CASE Remove(p) /\ ~Abort(p)
    <3>1. own' = own /\ own[p] = NoWrites /\ UNCHANGED db
      BY <2>10 DEF Remove, TypeInv, Reading, Open, At
    <3>2. run' = [run EXCEPT ![p] = [run[p] EXCEPT !.pc = "next"]]
      BY <2>10 DEF Remove
    <3>3. run'[p].pc = "next" /\ Only(p)
      BY <2>0, <3>1, <3>2 DEF Only, Run, TypeInv, TypeOK
    <3> QED
      BY <3>1, <3>3, RestMarkInv
  <2> QED
    BY <1>3, <2>1, <2>2, <2>3, <2>4, <2>5, <2>6, <2>7, <2>8, <2>9, <2>10
       DEF Goes, DeadlockVictim, Crash
<1> QED
  BY <1>1, <1>2, <1>3 DEF Next, vars, Arrive, Copy

(* So a commit does what applying its file in one piece does. *)
LEMMA CommitIsSerial ==
  ASSUME TypeInv, LogInv, RowInv, MarkInv, NEW p \in Procs, Commit(p)
  PROVE  \E f \in Files : db' = ApplyFile(db, f.body)
<1>1. /\ Open(p) /\ InHand(p) /\ At(p, "insert") /\ ~More(p) /\ Marked(p)
      /\ db' = [events |-> SeenEvents(p), current |-> SeenCurrent(p),
                watermarks |-> [db.watermarks EXCEPT ![Source(p)] = own[p].mark]]
  BY DEF Commit, Open, InHand, At, MarkInv
<1>2. PICK f \in Files : run[p].body = f.body
  BY <1>1, HandFacts
<1> DEFINE body == f.body
           s == body[1].src
           n == Len(body)
<1>3. /\ body \in Seq(Event) /\ body # <<>> /\ SeqRange(body) \subseteq Journal
      /\ \A i \in DOMAIN body : body[i].src = s /\ body[i] \in Journal
      /\ \A i, j \in DOMAIN body : i < j => body[i].seq < body[j].seq
      /\ s = Source(p) /\ s \in SrcDbs
      /\ n \in Nat /\ n # 0 /\ DOMAIN body = 1..n /\ run[p].pos = n + 1
  <2>1. \A i \in DOMAIN body : body[i] \in Journal
    BY FileFacts DEF SeqRange
  <2>2. run[p].pos = n + 1
    BY <1>1, <1>2, HandFacts DEF Marked, More
  <2> QED
    BY <1>1, <1>2, <2>1, <2>2, FileFacts, HandFacts, BatchAssumption DEF Source
<1>4. /\ db \in Database /\ db.current = LiveRows(db.events)
      /\ db.events \in SUBSET Journal /\ Mini!PrefixClosed(db.events)
  BY SeenFacts DEF RowInv, CurrentIsLatest, LogInv, LogOK
<1>5. ASSUME NEW i \in DOMAIN body, Logged(db.events, body[i])
      PROVE  body[i] \in db.events
  BY <1>3, <1>4, <1>5, LoggedIsMember
<1>6. ASSUME NEW i \in DOMAIN body, body[i] \notin db.events,
             NEW e \in db.events, e.src = s
      PROVE  e.seq < body[i].seq
  <2>1. body[i] \in Journal /\ e \in Journal /\ body[i].src = e.src
    BY <1>3, <1>4, <1>6
  <2>2. body[i].seq \in Nat /\ e.seq \in Nat
    BY <2>1, JournalIsEvents DEF Event
  <2>3. body[i].seq # e.seq
    BY <1>6, <2>1, JournalAssumption
  <2>4. ~(body[i].seq < e.seq)
    BY <1>4, <1>6, <2>1 DEF Mini!PrefixClosed
  <2> QED
    BY <2>2, <2>3, <2>4
<1>7. ApplyFile(db, body) =
        [events |-> db.events \cup SeqRange(body),
         current |-> LiveRows(db.events \cup SeqRange(body)),
         watermarks |-> Bumped(db.watermarks, body[n])]
  BY <1>3, <1>4, <1>5, <1>6, AppliedInOrder
<1>8. SeenEvents(p) = db.events \cup SeqRange(body)
  <2>1. own[p].log \subseteq SeqRange(body)
    BY <1>2 DEF LogInv, LogPart, OwnLog
  <2>2. \A i \in DOMAIN body : body[i] \in SeenEvents(p)
    BY <1>1, <1>2, <1>3 DEF LogInv, LogPart, Passed
  <2> QED
    BY <2>1, <2>2 DEF SeenEvents, SeqRange
<1>9. SeenCurrent(p) = LiveRows(SeenEvents(p))
  BY <1>1, SeesLiveRows
<1>10. [db.watermarks EXCEPT ![Source(p)] = own[p].mark] = Bumped(db.watermarks, body[n])
  <2>1. n \in DOMAIN body /\ n + 1 # 1 /\ (n + 1) - 1 = n
    BY <1>3
  <2>2. own[p].mark = Bumped(db.watermarks, body[n])[s] /\ body[n].src = s
    BY <1>1, <1>2, <1>3, <2>1 DEF Marked
  <2>3. db.watermarks \in [SrcDbs -> Nat]
    BY <1>4 DEF Database
  <2> QED
    BY <1>3, <2>2, <2>3 DEF Bumped
<1> QED
  BY <1>1, <1>7, <1>8, <1>9, <1>10
-----------------------------------------------------------------------------
(* The three invariants hold together. *)
THEOREM Invariance == Spec => [](TypeInv /\ LogInv /\ RowInv)
<1>1. Init => TypeInv /\ LogInv /\ RowInv
  BY TypeInvInit, LogInvInit, RowInvInit
<1>2. TypeInv /\ LogInv /\ RowInv /\ [Next]_vars => (TypeInv /\ LogInv /\ RowInv)'
  BY TypeInvStep, LogInvStep, RowInvStep
<1> QED
  BY <1>1, <1>2, PTL DEF Spec

(* However the transactions of several appliers overlap, wait, deadlock or   *)
(* roll back, what is committed to capture.current is the live rows of what  *)
(* is committed to capture.events.                                           *)
THEOREM CurrentStaysLatest == Spec => []CurrentIsLatest
<1>1. TypeInv /\ LogInv /\ RowInv => CurrentIsLatest
  BY DEF RowInv
<1> QED
  BY <1>1, Invariance, PTL

(* A file that leaves the spool, whoever removes it and whatever the others  *)
(* are doing, has all its events committed.                                  *)
THEOREM RemovedIsLogged == Spec => RemovedWasLogged
<1>1. TypeInv /\ LogInv /\ RowInv /\ [Next]_vars
        => [\A f \in DOMAIN incoming \ DOMAIN incoming' :
              \A i \in DOMAIN incoming[f] : Logged(db.events, incoming[f][i])]_vars
  <2> SUFFICES ASSUME TypeInv, LogInv, [Next]_vars,
                      NEW f \in DOMAIN incoming, f \notin DOMAIN incoming',
                      NEW i \in DOMAIN incoming[f]
               PROVE  Logged(db.events, incoming[f][i])
    OBVIOUS
  <2>1. PICK p \in Procs : Remove(p) /\ incoming' # incoming
    BY CopyBrings DEF Next, vars, Arrive, Goes, StartSpool, OpenNext, Finish, Insert, Current,
           Write, Bump, Retract, Commit, DeadlockVictim, Crash, Abort
  <2>2. At(p, "remove") /\ f \in run[p].path
    BY <2>1 DEF Remove, Abort
  <2>3. SeqRange(incoming[f]) \subseteq db.events
    BY <2>2, RemovedIsCommitted
  <2> QED
    BY <2>3 DEF SeqRange, Logged
<1> QED
  BY <1>1, Invariance, PTL DEF Spec, RemovedWasLogged

(* Several appliers keep the promise of one: each commit is a Grow of        *)
(* Replica, and nothing else changes the two tables.                         *)
THEOREM ImplementsReplica == Spec => Replicates
<1>1. Init => Mini!Init
  BY DEF Init, EmptyDatabase, Mini!Init
<1>2. TypeInv /\ LogInv /\ RowInv /\ [Next]_vars /\ (TypeInv /\ LogInv /\ RowInv)'
        => [Mini!Emit \/ Mini!Grow]_<<Journal, db.events, db.current>>
  <2> SUFFICES ASSUME TypeInv, LogInv, LogInv', RowInv', [Next]_vars
               PROVE  Mini!Grow \/ UNCHANGED <<db.events, db.current>>
    OBVIOUS
  <2>1. ASSUME NEW p \in Procs, Commit(p) PROVE Mini!Grow
    <3>1. db.events \subseteq db'.events
      BY <2>1 DEF Commit, SeenEvents
    <3>2. db'.events \subseteq Journal /\ Mini!PrefixClosed(db.events)'
      BY DEF LogInv, LogOK
    <3>3. db'.current = LiveRows(db'.events)
      BY DEF RowInv, CurrentIsLatest
    <3> QED
      BY <3>1, <3>2, <3>3 DEF Mini!Grow, Mini!PrefixClosed, Mini!LiveRows, LiveRows, Mini!RowOf,
                  RowOf, Mini!CarriesRow, CarriesRow, Mini!Latest, Latest, Mini!SameRow, SameRow
  <2>2. CASE \A p \in Procs : ~Commit(p)
    BY <2>2 DEF Next, vars, Arrive, Copy, Goes, StartSpool, OpenNext, Finish, Insert, Current,
                Write, Bump, Retract, Remove, DeadlockVictim, Crash, Abort
  <2> QED
    BY <2>1, <2>2
<1> QED
  BY <1>1, <1>2, Invariance, PTL DEF Spec, Replicates, Mini!Spec

(* Transactions of several appliers that interleave statement by statement,  *)
(* wait for each other's locks and deadlock amount to files applied one at a *)
(* time: each commit is one step of SerialMini, and nothing else is one.     *)
THEOREM ImplementsSerialMini == Spec => AppliesSerially
<1>1. Init => MarkInv /\ Serially!Init
  BY MarkInvInit DEF Init, Serially!Init, EmptyDatabase, Serially!EmptyDatabase
<1>2. TypeInv /\ MarkInv /\ [Next]_vars => MarkInv'
  BY MarkInvStep
<1>3. ASSUME NEW d, NEW body
      PROVE  Serially!ApplyFile(d, body) = ApplyFile(d, body)
  BY DEF ApplyFile, Serially!ApplyFile, ApplyEvent, Serially!ApplyEvent, Logged, Serially!Logged,
         Bumped, Serially!Bumped, ApplyCurrent, Serially!ApplyCurrent, Deleted, Serially!Deleted,
         Upserted, Serially!Upserted, LaterDelete, Serially!LaterDelete, SameRow,
         Serially!SameRow, CarriesRow, Serially!CarriesRow, RowOf, Serially!RowOf, Retracted,
         Serially!Retracted
<1>4. TypeInv /\ LogInv /\ RowInv /\ MarkInv /\ [Next]_vars => [Serially!Next]_db
  <2> SUFFICES ASSUME TypeInv, LogInv, RowInv, MarkInv, [Next]_vars
               PROVE  Serially!Next \/ UNCHANGED db
    OBVIOUS
  <2>1. ASSUME NEW p \in Procs, Commit(p) PROVE Serially!Next
    BY <1>3, <2>1, CommitIsSerial DEF Serially!Next
  <2>2. CASE \A p \in Procs : ~Commit(p)
    BY <2>2 DEF Next, vars, Arrive, Copy, Goes, StartSpool, OpenNext, Finish, Insert, Current,
                Write, Bump, Retract, Remove, DeadlockVictim, Crash, Abort
  <2> QED
    BY <2>1, <2>2
<1> QED
  BY <1>1, <1>2, <1>4, Invariance, PTL DEF Spec, AppliesSerially, Serially!Spec
=============================================================================
