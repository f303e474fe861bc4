------------------------------- MODULE Appliers -------------------------------
(***************************************************************************)
(* Several appliers on one Mini: the one pull.sh starts under its lock, and  *)
(* `apply --spool` run by hand beside it, which takes no lock.               *)
(*                                                                          *)
(* Every SQL statement of apply_events is a step (an I, U or D of            *)
(* capture.current is two, its snapshot and its write), READ COMMITTED: a    *)
(* statement sees what is committed and what its own transaction wrote.      *)
(* A statement that meets a key or a row another open transaction has        *)
(* written waits until that transaction ends; when two wait for each other   *)
(* Postgres fails one of them.  The events of a file have one source.        *)
(***************************************************************************)
EXTENDS Delivery

CONSTANTS
  Procs,      \* the appliers
  Puller      \* the one of pull.sh

ASSUME ApplierConstants ==
  /\ Puller \in Procs
  /\ \A e \in Journal :
       /\ e.op \in Ops    \* lines the Mini refuses: see Apply
       /\ e.seq > 0       \* AUTOINCREMENT starts at 1

VARIABLES
  db,         \* the committed tables
  incoming,   \* $LOCAL_SPOOL
  run,        \* what each applier is at
  own         \* what each open transaction has written and not committed

vars == <<db, incoming, run, own>>
-----------------------------------------------------------------------------
(* The identity of a row. *)
IdOf(r) == [src |-> r.src, key |-> r.key]

Run == [pc: {"idle", "next", "insert", "current", "write", "bump", "remove"},
        paths: SUBSET Path,                \* listed and still to apply
        path: SUBSET Path, body: Seq(Event),   \* {the file in hand}
        pos: Nat \ {0},                    \* the event it is at
        skipped: BOOLEAN, delete: BOOLEAN]

Idle == [pc |-> "idle", paths |-> {}, path |-> {}, body |-> <<>>, pos |-> 1,
         skipped |-> FALSE, delete |-> FALSE]

(* Each is also a lock: on the keys of log, on the rows of gone, and on the  *)
(* watermark of the file's source when mark is not 0.                        *)
Writes == [log: SUBSET Event, gone: SUBSET [src: SrcDbs, key: Keys],
           rows: SUBSET Row, mark: Nat]

NoWrites == [log |-> {}, gone |-> {}, rows |-> {}, mark |-> 0]

TypeOK ==
  /\ db \in Database
  /\ DOMAIN incoming \subseteq Path
  /\ \A p \in DOMAIN incoming : incoming[p] \in Seq(Event)
  /\ run \in [Procs -> Run] /\ own \in [Procs -> Writes]
  /\ \A p \in Procs : run[p].path \cap run[p].paths = {}

Init ==
  /\ db = EmptyDatabase /\ incoming = [p \in {} |-> <<>>]
  /\ run = [p \in Procs |-> Idle] /\ own = [p \in Procs |-> NoWrites]
-----------------------------------------------------------------------------
Ev(p) == run[p].body[run[p].pos]
More(p) == run[p].pos <= Len(run[p].body)
Source(p) == run[p].body[1].src

(* The tables as the next statement of p sees them. *)
SeenEvents(p) == db.events \cup own[p].log
SeenCurrent(p) == {r \in db.current : IdOf(r) \notin own[p].gone} \cup own[p].rows

(* The rows retract_stale_current deletes. *)
Stale(p) == {r \in SeenCurrent(p) : r.src = Source(p) /\ LaterDelete(SeenEvents(p), r)}

(* The next statement of p waits for the transaction of q. *)
Waits(p, q) ==
  /\ p # q
  /\ \/ run[p].pc = "insert" /\ More(p) /\ Logged(own[q].log, Ev(p))
     \/ run[p].pc = "write" /\ IdOf(Ev(p)) \in own[q].gone
     \/ run[p].pc = "bump" /\ own[q].mark # 0 /\ Source(q) = Source(p)
     \/ run[p].pc = "insert" /\ ~More(p) /\ run[p].skipped
          /\ \E r \in Stale(p) : IdOf(r) \in own[q].gone

Free(p) == \A q \in Procs : ~Waits(p, q)

At(p, pc) == run[p].pc = pc
-----------------------------------------------------------------------------
(* The files of F come, whatever was there. *)
Copy ==
  /\ At(Puller, "idle")
  /\ \E F \in SUBSET Files :
       incoming' = [p \in DOMAIN incoming \cup {f.path : f \in F} |->
                      IF \E f \in F : f.path = p
                      THEN (CHOOSE f \in F : f.path = p).body
                      ELSE incoming[p]]
  /\ UNCHANGED <<db, run, own>>

(* One rsync of pull.sh, with all that its source published before them: see *)
(* ApplyInOrder for when it is so.                                           *)
Arrive == Copy /\ GapFree(db.events, incoming')

StartSpool(p, delete) ==
  /\ At(p, "idle")
  /\ run' = [run EXCEPT ![p] = [Idle EXCEPT !.pc = "next", !.paths = DOMAIN incoming,
                                            !.delete = delete]]
  /\ UNCHANGED <<db, incoming, own>>

(* Fault: the error is logged and the run goes on to remove_file. *)
AbortAndRemove(p) ==
  /\ run' = [run EXCEPT ![p].pc = "remove"] /\ own' = [own EXCEPT ![p] = NoWrites]
  /\ UNCHANGED <<db, incoming>>

(* The run ends, with an error or by a kill; Postgres rolls back. *)
Abort(p) ==
  /\ run' = [run EXCEPT ![p] = Idle] /\ own' = [own EXCEPT ![p] = NoWrites]
  /\ UNCHANGED <<db, incoming>>

(* Fault: an applied path stays on the list. *)
OpenNextAgain(p) ==
  /\ At(p, "next")
  /\ \E f \in run[p].paths \cap DOMAIN incoming :
       run' = [run EXCEPT ![p] = [@ EXCEPT !.pc = "insert", !.path = {f},
                                           !.body = incoming[f], !.pos = 1]]
  /\ UNCHANGED <<db, incoming, own>>

(* apply_file on the first path left, unless another applier removed it. *)
OpenNext(p) ==
  /\ At(p, "next")
  /\ \E f \in run[p].paths :
       /\ \A g \in run[p].paths : g = f \/ Before(f, g)
       /\ IF f \in DOMAIN incoming
          THEN /\ run' = [run EXCEPT ![p] =
                            [pc |-> "insert", paths |-> @.paths \ {f}, path |-> {f},
                             body |-> incoming[f], pos |-> 1, skipped |-> FALSE,
                             delete |-> @.delete]]
               /\ UNCHANGED <<db, incoming, own>>
          ELSE Abort(p)

Finish(p) ==
  /\ At(p, "next") /\ run[p].paths = {}
  /\ run' = [run EXCEPT ![p] = Idle]
  /\ UNCHANGED <<db, incoming, own>>
-----------------------------------------------------------------------------
(* Fault: no `continue`, a logged event is applied again. *)
InsertAnyway(p) ==
  /\ At(p, "insert") /\ More(p) /\ Free(p)
  /\ run' = [run EXCEPT ![p].pc = "current"]
  /\ own' = [own EXCEPT ![p].log =
               IF Logged(SeenEvents(p), Ev(p)) THEN @ ELSE @ \cup {Ev(p)}]
  /\ UNCHANGED <<db, incoming>>

(* insert_event: ON CONFLICT finds the committed event, or its own. *)
Insert(p) ==
  /\ At(p, "insert") /\ More(p) /\ Free(p)
  /\ IF Logged(SeenEvents(p), Ev(p))
     THEN /\ run' = [run EXCEPT ![p].pc = "bump", ![p].skipped = TRUE]
          /\ UNCHANGED own
     ELSE /\ run' = [run EXCEPT ![p].pc = "current"]
          /\ own' = [own EXCEPT ![p].log = @ \cup {Ev(p)}]
  /\ UNCHANGED <<db, incoming>>

(* apply_current takes its snapshot: a D finds the row or nothing to delete, *)
(* an I or a U finds a later D or none.                                      *)
Current(p) ==
  /\ At(p, "current")
  /\ LET e == Ev(p)
         writes == IF e.op = "D" THEN \E r \in SeenCurrent(p) : SameRow(r, e)
                   ELSE CarriesRow(e) /\ ~LaterDelete(SeenEvents(p), e) IN
       run' = [run EXCEPT ![p].pc = IF writes THEN "write" ELSE "bump"]
  /\ UNCHANGED <<db, incoming, own>>

(* and writes: the DELETE, or the upsert, whose DO UPDATE looks at the row   *)
(* as it is now, locks it and replaces an older one.                         *)
Write(p) ==
  /\ At(p, "write") /\ Free(p)
  /\ LET e == Ev(p)
         mine == {r \in SeenCurrent(p) : SameRow(r, e)}
         rows == IF e.op = "D" THEN {}
                 ELSE IF \E r \in mine : r.seq >= e.seq THEN mine
                 ELSE {RowOf(e)} IN
       own' = [own EXCEPT ![p].gone = @ \cup {IdOf(e)},
                          ![p].rows = Deleted(@, e) \cup rows]
  /\ run' = [run EXCEPT ![p].pc = "bump"]
  /\ UNCHANGED <<db, incoming>>

(* Fault: the statements run on the client, each its own transaction. *)
BumpOnClient(p) ==
  /\ At(p, "bump") /\ Free(p)
  /\ db' = [events |-> SeenEvents(p), current |-> SeenCurrent(p),
            watermarks |-> Bumped(db.watermarks, Ev(p))]
  /\ own' = [own EXCEPT ![p] = [NoWrites EXCEPT !.mark = Bumped(db.watermarks, Ev(p))[Source(p)]]]
  /\ run' = [run EXCEPT ![p].pc = "insert", ![p].pos = @ + 1]
  /\ UNCHANGED incoming

(* bump_watermark, the last statement for an event. *)
Bump(p) ==
  /\ At(p, "bump") /\ Free(p)
  /\ LET seen == [db.watermarks EXCEPT ![Source(p)] = IF @ < own[p].mark THEN own[p].mark ELSE @] IN
       own' = [own EXCEPT ![p].mark = Bumped(seen, Ev(p))[Source(p)]]
  /\ run' = [run EXCEPT ![p].pc = "insert", ![p].pos = @ + 1]
  /\ UNCHANGED <<db, incoming>>

(* retract_stale_current, once, when an event was skipped. *)
Retract(p) ==
  /\ At(p, "insert") /\ ~More(p) /\ run[p].skipped /\ Free(p)
  /\ own' = [own EXCEPT ![p].gone = @ \cup {IdOf(r) : r \in Stale(p)},
                        ![p].rows = @ \ Stale(p)]
  /\ run' = [run EXCEPT ![p].skipped = FALSE]
  /\ UNCHANGED <<db, incoming>>

(* Fault: the transaction is dropped without a commit. *)
DropTransaction(p) ==
  /\ At(p, "insert") /\ ~More(p) /\ ~run[p].skipped
  /\ own' = [own EXCEPT ![p] = NoWrites] /\ run' = [run EXCEPT ![p].pc = "remove"]
  /\ UNCHANGED <<db, incoming>>

Commit(p) ==
  /\ At(p, "insert") /\ ~More(p) /\ ~run[p].skipped
  /\ db' = [events |-> SeenEvents(p), current |-> SeenCurrent(p),
            watermarks |-> [db.watermarks EXCEPT ![Source(p)] = own[p].mark]]
  /\ own' = [own EXCEPT ![p] = NoWrites]
  /\ run' = [run EXCEPT ![p].pc = "remove"]
  /\ UNCHANGED incoming

(* remove_file, which fails when another applier was first. *)
Remove(p) ==
  /\ At(p, "remove")
  /\ IF run[p].delete /\ run[p].path \cap DOMAIN incoming = {} THEN Abort(p)
     ELSE /\ incoming' = [f \in DOMAIN incoming \ (IF run[p].delete THEN run[p].path ELSE {})
                            |-> incoming[f]]
          /\ run' = [run EXCEPT ![p].pc = "next"]
          /\ UNCHANGED <<db, own>>

(* The deadlock detector fails the transaction of p. *)
DeadlockVictim(p) == (\E q \in Procs : Waits(p, q) /\ Waits(q, p)) /\ Abort(p)

Crash(p) == ~At(p, "idle") /\ Abort(p)
-----------------------------------------------------------------------------
(* What a run does once it is started. *)
Goes(p) ==
  \/ OpenNext(p) \/ Finish(p)
  \/ Insert(p) \/ Current(p) \/ Write(p) \/ Bump(p) \/ Retract(p) \/ Commit(p)
  \/ Remove(p) \/ DeadlockVictim(p)

Next ==
  \/ Arrive
  \/ \E p \in Procs :
       \/ \E delete \in BOOLEAN : StartSpool(p, delete)
       \/ Goes(p)
       \/ Crash(p)

Spec == Init /\ [][Next]_vars

(* launchd starts pull.sh again and again; statements return, deadlocks are  *)
(* detected, and Postgres grants a lock to who waits for it when its holder  *)
(* ends, however often another transaction takes it meanwhile.               *)
FairSpec ==
  /\ Spec /\ WF_vars(\E delete \in BOOLEAN : StartSpool(Puller, delete))
  /\ \A p \in Procs : SF_vars(Goes(p))
-----------------------------------------------------------------------------
(* Transactions that overlap leave the tables as if the files had been       *)
(* applied one after the other, although apply_current of a transaction's    *)
(* first event runs before bump_watermark has locked out the other applier.  *)
Serially == INSTANCE SerialMini
AppliesSerially == Serially!Spec

(* What any session reads is the live rows of the log it reads. *)
CurrentIsLatest == db.current = LiveRows(db.events)

(* Each commit takes the log to another prefix of every source's journal and *)
(* the rows to the live rows of that log: two appliers keep the promise one  *)
(* makes in ApplyInOrder.                                                    *)
Mini == INSTANCE Replica WITH journal <- Journal, log <- db.events, live <- db.current
Replicates == Mini!Spec

(* Nothing is removed that is not committed, whoever removes it. *)
RemovedWasLogged ==
  [][\A f \in DOMAIN incoming \ DOMAIN incoming' :
       \A i \in DOMAIN incoming[f] : Logged(db.events, incoming[f][i])]_vars

(* Deadlocks, and runs that find a file gone, cost a run and never a file:   *)
(* what has arrived gets logged, once runs are no longer killed and the      *)
(* operator starts no more of them.                                          *)
Undisturbed ==
  \A p \in Procs :
    /\ Crash(p) => Goes(p)
    /\ p # Puller => \A delete \in BOOLEAN : ~StartSpool(p, delete)
EventuallyLogged ==
  <>[][Undisturbed]_vars
  => \A f \in Files : f.path \in DOMAIN incoming ~> SeqRange(f.body) \subseteq db.events
=============================================================================
