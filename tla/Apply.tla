-------------------------------- MODULE Apply --------------------------------
(***************************************************************************)
(* The Mini: `state-capture apply` loads spool files into Postgres.          *)
(*                                                                          *)
(* pull.sh holds one lock while it runs rsync and then the applier, so       *)
(* files arrive only while no applier runs and one applier runs at a time.   *)
(* A file is one Postgres transaction (apply_events); the model takes one    *)
(* step per event of the file, on the uncommitted copy tx of the database.   *)
(* Files may arrive in any order and any number of times; the operator may   *)
(* also apply a single file out of turn (--file).                            *)
(***************************************************************************)
EXTENDS MiniTables

VARIABLES
  db,           \* the committed tables events, current and watermarks
  tx,           \* the same tables as the open transaction sees them
  incoming,     \* $LOCAL_SPOOL: path -> the events of the file
  pc,           \* where the applier is: idle, next, events or remove
  paths,        \* the listed paths it has still to apply
  path, body,   \* {the file in hand}, read into memory before the transaction
  pos,          \* the next event of body
  skipped,      \* some event of body was already in capture.events
  deleteAfter   \* the --delete-after flag of this run

vars == <<db, tx, incoming, pc, paths, path, body, pos, skipped, deleteAfter>>
-----------------------------------------------------------------------------
TypeOK ==
  /\ db \in Database /\ tx \in Database
  /\ DOMAIN incoming \subseteq Path
  /\ \A p \in DOMAIN incoming : incoming[p] \in Seq(Event)
  /\ pc \in {"idle", "next", "events", "remove"}
  /\ paths \subseteq DOMAIN incoming
  /\ path \in SUBSET Path /\ body \in Seq(Event) /\ pos \in Nat \ {0}
  /\ skipped \in BOOLEAN /\ deleteAfter \in BOOLEAN

Init ==
  /\ db = EmptyDatabase /\ tx = EmptyDatabase
  /\ incoming = [p \in {} |-> <<>>]
  /\ pc = "idle" /\ paths = {} /\ deleteAfter = FALSE
  /\ path = {} /\ body = <<>> /\ pos = 1 /\ skipped = FALSE
-----------------------------------------------------------------------------
(* rsync delivers the files of F; a file of the same name is replaced. *)
Arrive(F) ==
  /\ pc = "idle"
  /\ incoming' = [p \in DOMAIN incoming \cup {f.path : f \in F} |->
                    IF \E f \in F : f.path = p
                    THEN (CHOOSE f \in F : f.path = p).body
                    ELSE incoming[p]]
  /\ UNCHANGED <<db, tx, pc, paths, path, body, pos, skipped, deleteAfter>>

(* apply --spool [--delete-after]: the directory is listed once. *)
StartSpool(delete) ==
  /\ pc = "idle"
  /\ pc' = "next" /\ paths' = DOMAIN incoming /\ deleteAfter' = delete
  /\ UNCHANGED <<db, tx, incoming, path, body, pos, skipped>>

(* apply_file reads p into memory and begins a transaction. *)
Begin(p) ==
  /\ pc' = "events" /\ path' = {p} /\ body' = incoming[p]
  /\ UNCHANGED <<db, tx, incoming, pos, skipped>>

(* apply --file: one file, whatever its place in the order. *)
StartFile(p) ==
  /\ pc = "idle"
  /\ Begin(p) /\ paths' = {} /\ deleteAfter' = FALSE

(* Fault: an applied path stays on the list. *)
OpenNextAgain ==
  /\ pc = "next" /\ \E p \in paths : Begin(p) /\ paths' = paths
  /\ UNCHANGED deleteAfter

(* Fault: the listing is not sorted. *)
OpenNextUnsorted ==
  /\ pc = "next" /\ \E p \in paths : Begin(p) /\ paths' = paths \ {p}
  /\ UNCHANGED deleteAfter

OpenNext ==
  /\ pc = "next"
  /\ \E p \in paths :
       /\ \A q \in paths : q = p \/ Before(p, q)
       /\ Begin(p) /\ paths' = paths \ {p}
  /\ UNCHANGED deleteAfter

Finish ==
  /\ pc = "next" /\ paths = {}
  /\ pc' = "idle"
  /\ UNCHANGED <<db, tx, incoming, paths, path, body, pos, skipped, deleteAfter>>
-----------------------------------------------------------------------------
(* The event apply_events is at. *)
AtEvent == pc = "events" /\ pos <= Len(body)
Ev == body[pos]

(* Ev is new in capture.events: ON CONFLICT (src_db, seq) found nothing. *)
LogEvent ==
  /\ AtEvent /\ Ev.op \in Ops /\ ~Logged(tx.events, Ev)
  /\ LET log == tx.events \cup {Ev} IN
       tx' = [events |-> log,
              current |-> ApplyCurrent(log, tx.current, Ev),
              watermarks |-> Bumped(tx.watermarks, Ev)]
  /\ pos' = pos + 1
  /\ UNCHANGED <<db, incoming, pc, paths, path, body, skipped, deleteAfter>>

(* Fault: no `continue`, a logged event is applied again. *)
ReapplyEvent ==
  /\ AtEvent /\ Ev.op \in Ops /\ Logged(tx.events, Ev)
  /\ tx' = [tx EXCEPT !.watermarks = Bumped(@, Ev),
                      !.current = ApplyCurrent(tx.events, @, Ev)]
  /\ pos' = pos + 1 /\ skipped' = TRUE
  /\ UNCHANGED <<db, incoming, pc, paths, path, body, deleteAfter>>

(* The insert did nothing: capture.current is left alone. *)
SkipEvent ==
  /\ AtEvent /\ Ev.op \in Ops /\ Logged(tx.events, Ev)
  /\ tx' = [tx EXCEPT !.watermarks = Bumped(@, Ev)]
  /\ pos' = pos + 1 /\ skipped' = TRUE
  /\ UNCHANGED <<db, incoming, pc, paths, path, body, deleteAfter>>

(* No file in hand any more. *)
Close == path' = {} /\ body' = <<>> /\ pos' = 1 /\ skipped' = FALSE

(* The transaction rolls back and the run ends, the files it still had       *)
(* listed included.                                                          *)
Abort ==
  /\ pc' = "idle" /\ paths' = {} /\ tx' = db /\ Close
  /\ UNCHANGED <<db, incoming, deleteAfter>>

(* Fault: the error is logged and the run goes on with the file. *)
RejectAndGoOn ==
  /\ AtEvent /\ Ev.op \notin Ops
  /\ pc' = "remove" /\ tx' = db
  /\ UNCHANGED <<db, incoming, paths, path, body, pos, skipped, deleteAfter>>

(* A refused line; the `?` of apply_spool passes the error on. *)
Reject == AtEvent /\ Ev.op \notin Ops /\ Abort

Commit ==
  /\ pc = "events" /\ pos > Len(body)
  /\ db' = [tx EXCEPT !.current =
              IF skipped THEN Retracted(tx.events, @, body[1].src) ELSE @]
  /\ tx' = db' /\ pc' = "remove"
  /\ UNCHANGED <<incoming, paths, path, body, pos, skipped, deleteAfter>>

(* Back in apply_spool, after the transaction. *)
Remove ==
  /\ pc = "remove"
  /\ incoming' = [p \in DOMAIN incoming \ (IF deleteAfter THEN path ELSE {})
                    |-> incoming[p]]
  /\ pc' = "next" /\ Close
  /\ UNCHANGED <<db, tx, paths, deleteAfter>>

(* The applier dies or loses its connection; Postgres rolls back. *)
Crash == pc # "idle" /\ Abort
-----------------------------------------------------------------------------
(* What a run does once it is started. *)
Run == OpenNext \/ LogEvent \/ SkipEvent \/ Reject \/ Commit \/ Remove \/ Finish

Next ==
  \/ \E f \in Files : Arrive({f})
  \/ \E delete \in BOOLEAN : StartSpool(delete)
  \/ \E p \in DOMAIN incoming : StartFile(p)
  \/ Run
  \/ Crash

Spec == Init /\ [][Next]_vars
-----------------------------------------------------------------------------
(* The tables as a query on the Mini, or the open transaction, sees them. *)

(* No row of capture.current is older than a logged D of the same row, in    *)
(* whatever order the files came: the NOT EXISTS of apply_current and the    *)
(* DELETE keep each other's promise.                                         *)
NoResurrectionIn(d) == \A r \in d.current : ~LaterDelete(d.events, r)
NoResurrection == NoResurrectionIn(db)

(* capture.current holds one row per (src_db, tbl, key), and each is the     *)
(* image some logged I or U carried: neither the replay nor the heal path    *)
(* invents or blends a row.                                                  *)
RowsBackedIn(d) ==
  /\ \A r \in d.current : \E e \in d.events : CarriesRow(e) /\ r = RowOf(e)
  /\ \A q, r \in d.current : SameRow(q, r) => q = r
RowsBacked == RowsBackedIn(db)

(* last_seq is the highest seq in capture.events for its src_db, replays and *)
(* late files included.                                                      *)
WatermarkIsMaxIn(d) ==
  /\ \A e \in d.events : e.seq <= d.watermarks[e.src]
  /\ \A s \in SrcDbs : d.watermarks[s] = 0
                       \/ \E e \in d.events : e.src = s /\ e.seq = d.watermarks[s]
WatermarkIsMax == WatermarkIsMaxIn(db)

(* Applying a file whose events are all logged changes nothing: rsync of the *)
(* whole spool and a crash between commit and remove are harmless.           *)
ReplayIsNoop ==
  [][pc = "events" /\ pc' = "remove"
       /\ (\A i \in DOMAIN body : Logged(db.events, body[i]))
     => db' = db]_vars

(* A file leaves the local spool only when every event in it is committed:   *)
(* pull.sh forgets on Oracle whatever is gone here, and then no copy is left. *)
RemovedWasLogged ==
  [][\A p \in DOMAIN incoming \ DOMAIN incoming' :
       \A i \in DOMAIN incoming[p] : Logged(db.events, incoming[p][i])]_vars
=============================================================================
