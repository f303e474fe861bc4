------------------------------- MODULE Collect -------------------------------
(***************************************************************************)
(* Oracle: one utility's sqlite, its _outbox, and the processes that move    *)
(* the outbox into closed spool files -- the collect service and the         *)
(* operator's `collect --once` or `collect --snapshot`.                      *)
(*                                                                          *)
(* A process takes one step per system call the others can see.  A page and  *)
(* a file are sets of events: write_batch writes a page in seq order.  A     *)
(* snapshot sees and changes the outbox in its own sqlite transaction (tx)   *)
(* under the write lock; the files it writes are outside that transaction.   *)
(***************************************************************************)
EXTENDS CaptureEvents, FiniteSetsExt

CONSTANTS
  Db,            \* the announced db_name
  Procs,         \* the collector processes
  Service,       \* the one that ticks; the others are the operator's
  Batch,         \* JSONL_BATCH
  RowCap,        \* SNAPSHOT_ROW_CAP
  MinSeqs,       \* the --min-seq values an operator gives; 0 is none given
  WithoutRowid,  \* the captured table is WITHOUT ROWID
  Overlap,       \* the operator runs the CLI while another process drains
  EmitMayFail,   \* a snapshot may end early once it has published I events
  Missable,      \* the ops a broken feed loses
  MaxSeq,        \* bound: no change or snapshot passes this seq
  MaxDeaths      \* bound: how often a process dies or the power fails

ASSUME CollectConstants ==
  /\ Db \in SrcDbs /\ Keys \subseteq Int /\ IsFiniteSet(Keys)
  /\ Batch \in Nat \ {0} /\ RowCap \in Nat /\ MinSeqs \subseteq Nat
  /\ MaxSeq \in Nat /\ MaxDeaths \in Nat
  /\ WithoutRowid \in BOOLEAN /\ Overlap \in BOOLEAN /\ EmitMayFail \in BOOLEAN
  /\ Missable \subseteq Ops /\ Service \in Procs /\ "none" \notin Procs

VARIABLES
  table,      \* the captured table: rowid -> image, NoAfter where there is no row
  capturing,  \* the _cap_* triggers are in place
  missed,     \* the feed lost changes no snapshot has caught up with
  box,        \* [rows, seq]: _outbox and its sqlite_sequence entry
  lock,       \* the process holding BEGIN IMMEDIATE, or "none"
  tx,         \* box as the lock's holder sees it
  tmp,        \* `<lo>-<hi>.jsonl.tmp` files: name -> [lines, stable]
  closed,     \* `<lo>-<hi>.jsonl` files: name -> [lines, stable]
  durable,    \* the names whose closed entry survives a power loss
  pc, phase, page, left, after, fd,   \* each process: see TypeOK
  journal,    \* history: every event a trigger or a snapshot ever emitted
  deaths      \* how many there were

procVars == <<pc, phase, page, left, after, fd>>
sqlVars == <<table, capturing, missed, box, lock, tx>>
spoolVars == <<tmp, closed, durable>>
vars == <<sqlVars, spoolVars, procVars, journal, deaths>>
-----------------------------------------------------------------------------
(* `stable` is what of a file's lines an fsync has made durable. *)
FileData == [lines: SUBSET Event, stable: SUBSET Event]
Name == [lo: Nat, hi: Nat]
Outbox == [rows: SUBSET Event, seq: Nat]

TypeOK ==
  /\ table \in [Keys -> Afters \cup {NoAfter}]
  /\ capturing \in BOOLEAN /\ missed \in BOOLEAN
  /\ box \in Outbox /\ tx \in Outbox
  /\ lock \in {"none"} \cup {p \in Procs : pc[p] # "idle"}
  /\ DOMAIN tmp \cup DOMAIN closed \subseteq Name /\ durable \subseteq DOMAIN closed
  /\ \A n \in DOMAIN tmp : tmp[n] \in FileData
  /\ \A n \in DOMAIN closed : closed[n] \in FileData
  /\ pc \in [Procs -> {"idle", "fetch", "open", "write", "rename", "syncdir",
                       "delete", "emit", "commit"}]
  /\ phase \in [Procs -> {"drain", "emit"}]
  /\ page \in [Procs -> SUBSET Event]   \* the batch in hand
  /\ left \in [Procs -> SUBSET Event]   \* what of it is not written yet
  /\ after \in [Procs -> Int]           \* the drain's after_seq, the emit's after_rowid
  /\ fd \in [Procs -> {"none", "tmp", "closed", "gone"}]  \* where its open file is now
  /\ journal \subseteq Event /\ deaths \in Nat

Init ==
  /\ table = [k \in Keys |-> NoAfter] /\ capturing = TRUE /\ missed = FALSE
  /\ box = [rows |-> {}, seq |-> 0] /\ tx = box /\ lock = "none"
  /\ tmp = [n \in {} |-> {}] /\ closed = [n \in {} |-> {}] /\ durable = {}
  /\ pc = [p \in Procs |-> "idle"] /\ phase = [p \in Procs |-> "drain"]
  /\ page = [p \in Procs |-> {}] /\ left = [p \in Procs |-> {}]
  /\ after = [p \in Procs |-> 0] /\ fd = [p \in Procs |-> "none"]
  /\ journal = {} /\ deaths = 0
-----------------------------------------------------------------------------
Seqs(S) == {e.seq : e \in S}

(* Fault: ORDER BY ... DESC. *)
Topmost(S, n) == {i \in S : Cardinality({j \in S : j > i}) < n}

(* ORDER BY ... LIMIT n over a set of integers. *)
Lowest(S, n) == {i \in S : Cardinality({j \in S : j < i}) < n}

(* current_outbox_seq, and what AUTOINCREMENT goes on from. *)
CurrentSeq(b) == Max({b.seq} \cup Seqs(b.rows))

(* The outbox as p's connection sees it, and p writing it. *)
Box(p) == IF lock = p THEN tx ELSE box
SetBox(p, b) ==
  IF lock = p THEN tx' = b /\ UNCHANGED box ELSE box' = b /\ tx' = b

Present == {k \in Keys : table[k] # NoAfter}

NameOf(events) == [lo |-> Min(Seqs(events)), hi |-> Max(Seqs(events))]

(* Set a file of a directory. *)
Put(dir, n, file) == [m \in DOMAIN dir \cup {n} |-> IF m = n THEN file ELSE dir[m]]
Drop(dir, n) == [m \in DOMAIN dir \ {n} |-> dir[m]]

Goto(p, label) == pc' = [pc EXCEPT ![p] = label]

(* p's run is over: its descriptors are closed. *)
Stop(p) ==
  /\ Goto(p, "idle") /\ phase' = [phase EXCEPT ![p] = "drain"]
  /\ page' = [page EXCEPT ![p] = {}] /\ left' = [left EXCEPT ![p] = {}]
  /\ after' = [after EXCEPT ![p] = 0] /\ fd' = [fd EXCEPT ![p] = "none"]

(* Fault: the write lock is never released. *)
KeepLock(p) == UNCHANGED <<lock, tx>>

(* The transaction of a process that ends without commit is rolled back. *)
Rollback(p) == IF lock = p THEN lock' = "none" /\ tx' = box ELSE UNCHANGED <<lock, tx>>

MayStart(p) == pc[p] = "idle" /\ (Overlap \/ \A q \in Procs : pc[q] = "idle")
-----------------------------------------------------------------------------
(* The utility, its triggers and the operator who repairs them.              *)

(* What a statement of the utility does to one row. *)
Change(k, op, image) ==
  /\ op = (IF image = NoAfter THEN "D" ELSE IF table[k] = NoAfter THEN "I" ELSE "U")
  /\ ~(image = NoAfter /\ table[k] = NoAfter)
  /\ table' = [table EXCEPT ![k] = image]

(* A captured statement: the trigger's outbox row commits with it. *)
Write(k, op, image) ==
  /\ lock = "none" /\ capturing /\ CurrentSeq(box) < MaxSeq
  /\ Change(k, op, image)
  /\ LET seq == CurrentSeq(box) + 1
         e == [src |-> Db, seq |-> seq, key |-> k, op |-> op, after |-> image] IN
       /\ box' = [rows |-> box.rows \cup {e}, seq |-> seq] /\ tx' = box'
       /\ journal' = journal \cup {e}
  /\ UNCHANGED <<capturing, missed, lock, spoolVars, procVars, deaths>>

(* A statement of a table whose triggers are gone. *)
MissedWrite(k, op, image) ==
  /\ lock = "none" /\ ~capturing /\ op \in Missable
  /\ Change(k, op, image) /\ missed' = TRUE
  /\ UNCHANGED <<capturing, box, lock, tx, spoolVars, procVars, journal, deaths>>

BreakFeed ==
  /\ lock = "none" /\ capturing /\ Missable # {} /\ capturing' = FALSE
  /\ UNCHANGED <<table, missed, box, lock, tx, spoolVars, procVars, journal, deaths>>

RepairFeed ==
  /\ lock = "none" /\ ~capturing /\ capturing' = TRUE
  /\ UNCHANGED <<table, missed, box, lock, tx, spoolVars, procVars, journal, deaths>>

Utility ==
  \/ \E k \in Keys, op \in Ops, image \in Afters \cup {NoAfter} :
       Write(k, op, image) \/ MissedWrite(k, op, image)
  \/ BreakFeed \/ RepairFeed
-----------------------------------------------------------------------------
(* drain_conn, by the service's tick or nudge or by --once. *)
StartDrain(p) ==
  /\ MayStart(p) /\ Goto(p, "fetch")
  /\ UNCHANGED <<sqlVars, spoolVars, phase, page, left, after, fd, journal, deaths>>

(* snapshot_sqlite up to the drain: BEGIN IMMEDIATE, floor_outbox_seq and    *)
(* enforce_snapshot_cap, whose refusal rolls the floor back.                 *)
StartSnapshot(p, min, allowLarge) ==
  /\ MayStart(p) /\ lock = "none"
  /\ allowLarge \/ ~capturing \/ Cardinality(Present) <= RowCap
  /\ Max({CurrentSeq(box), min}) + Cardinality(Present) <= MaxSeq
  /\ lock' = p
  /\ tx' = IF CurrentSeq(box) >= min THEN box ELSE [box EXCEPT !.seq = min]
  /\ Goto(p, "fetch")
  /\ UNCHANGED <<table, capturing, missed, box, spoolVars, phase, page, left, after, fd,
                 journal, deaths>>

(* Fault: the first page starts one row too late. *)
FromSecond == IF WithoutRowid THEN Min(Keys) ELSE 1

(* The drain is over. A snapshot goes on with the rows of the table, from    *)
(* after_rowid 0, unless no trigger names the table.                         *)
FromStart == IF WithoutRowid THEN Min(Keys \cup {0}) - 1 ELSE 0
EndDrain(p) ==
  IF lock = p
  THEN /\ Goto(p, IF capturing THEN "emit" ELSE "commit")
       /\ phase' = [phase EXCEPT ![p] = "emit"]
       /\ after' = [after EXCEPT ![p] = FromStart]
       /\ UNCHANGED <<page, left, fd>>
  ELSE Stop(p)

(* fetch_outbox_page *)
NextPage(rows, seq) ==
  LET later == {e \in rows : e.seq > seq} IN {e \in later : e.seq \in Lowest(Seqs(later), Batch)}

Fetch(p) ==
  /\ pc[p] = "fetch"
  /\ LET next == NextPage(Box(p).rows, after[p]) IN
       IF next = {} THEN EndDrain(p)
       ELSE /\ Goto(p, "open") /\ page' = [page EXCEPT ![p] = next]
            /\ UNCHANGED <<phase, left, after, fd>>
  /\ UNCHANGED <<sqlVars, spoolVars, journal, deaths>>

(* An I event for each of these rows, in rowid order from this seq on. *)
Reemitted(rows, seq) ==
  {[src |-> Db, seq |-> seq + Cardinality({j \in rows : j <= k}), key |-> k, op |-> "I",
    after |-> table[k]] : k \in rows}

(* snapshot_table, one page of rows, behind seqs of reserve_outbox_seq. *)
Emit(p) ==
  /\ pc[p] = "emit"
  /\ LET rows == Lowest({k \in Present : k > after[p]}, Batch)
         cur == CurrentSeq(tx) IN
       IF rows = {} THEN Goto(p, "commit") /\ UNCHANGED <<page, after, tx>>
       ELSE /\ tx' = [tx EXCEPT !.seq = cur + Cardinality(rows)]
            /\ page' = [page EXCEPT ![p] = Reemitted(rows, cur)]
            /\ after' = [after EXCEPT ![p] = Max(rows)]
            /\ Goto(p, "open")
  /\ UNCHANGED <<table, capturing, missed, box, lock, spoolVars, phase, left, fd, journal,
                 deaths>>

(* Fault: the reserved seqs are forgotten. *)
CommitUnreserved(p) ==
  /\ pc[p] = "commit"
  /\ box' = [tx EXCEPT !.seq = box.seq] /\ tx' = box' /\ lock' = "none"
  /\ missed' = (missed /\ ~capturing)
  /\ Stop(p)
  /\ UNCHANGED <<table, capturing, spoolVars, journal, deaths>>

(* Commit: the drained rows are gone, the reserved seqs stay reserved. *)
CommitSnapshot(p) ==
  /\ pc[p] = "commit"
  /\ box' = tx /\ lock' = "none" /\ missed' = (missed /\ ~capturing)
  /\ Stop(p)
  /\ UNCHANGED <<table, capturing, tx, spoolVars, journal, deaths>>
-----------------------------------------------------------------------------
(* Fault: the file is written under its final name. *)
OpenClosed(p) ==
  /\ pc[p] = "open"
  /\ closed' = Put(closed, NameOf(page[p]), [lines |-> {}, stable |-> {}])
  /\ left' = [left EXCEPT ![p] = page[p]] /\ fd' = [fd EXCEPT ![p] = "closed"]
  /\ Goto(p, "write")
  /\ UNCHANGED <<sqlVars, tmp, durable, phase, page, after, journal, deaths>>

(* write_batch.  Two processes with the same page have one tmp file between  *)
(* them: the second open truncates what the first has written, and the first *)
(* rename takes the file along with the second's descriptor.                 *)
Open(p) ==
  /\ pc[p] = "open"
  /\ tmp' = Put(tmp, NameOf(page[p]), [lines |-> {}, stable |-> {}])
  /\ left' = [left EXCEPT ![p] = page[p]] /\ fd' = [fd EXCEPT ![p] = "tmp"]
  /\ Goto(p, "write")
  /\ UNCHANGED <<sqlVars, closed, durable, phase, page, after, journal, deaths>>

(* What p's descriptor refers to becomes file. *)
SetFile(p, file) ==
  LET n == NameOf(page[p]) IN
    /\ tmp' = IF fd[p] = "tmp" THEN Put(tmp, n, file) ELSE tmp
    /\ closed' = IF fd[p] = "closed" THEN Put(closed, n, file) ELSE closed

FileOf(p) ==
  LET n == NameOf(page[p]) IN
    IF fd[p] = "tmp" THEN tmp[n]
    ELSE IF fd[p] = "closed" THEN closed[n]
    ELSE [lines |-> {}, stable |-> {}]

WriteLine(p) ==
  /\ pc[p] = "write"
  /\ \E e \in left[p] :
       /\ e.seq = Min(Seqs(left[p]))
       /\ left' = [left EXCEPT ![p] = @ \ {e}]
       /\ SetFile(p, [FileOf(p) EXCEPT !.lines = @ \cup {e}])
  /\ UNCHANGED <<sqlVars, durable, pc, phase, page, after, fd, journal, deaths>>

(* Fault: the buffer is not flushed. *)
SyncUnflushed(p) ==
  /\ pc[p] = "write"
  /\ SetFile(p, [FileOf(p) EXCEPT !.stable = FileOf(p).lines])
  /\ fd' = [fd EXCEPT ![p] = "none"] /\ Goto(p, "rename")
  /\ UNCHANGED <<sqlVars, durable, phase, page, left, after, journal, deaths>>

(* fsync, and the descriptor is dropped. *)
Sync(p) ==
  /\ pc[p] = "write" /\ left[p] = {}
  /\ SetFile(p, [FileOf(p) EXCEPT !.stable = FileOf(p).lines])
  /\ fd' = [fd EXCEPT ![p] = "none"] /\ Goto(p, "rename")
  /\ UNCHANGED <<sqlVars, durable, phase, page, left, after, journal, deaths>>

Rename(p) ==
  /\ pc[p] = "rename"
  /\ LET n == NameOf(page[p])
         Moved(q) == fd[q] # "none" /\ NameOf(page[q]) = n IN
       /\ n \in DOMAIN tmp
       /\ closed' = Put(closed, n, tmp[n]) /\ tmp' = Drop(tmp, n)
       /\ fd' = [q \in Procs |->
                   IF ~Moved(q) THEN fd[q]
                   ELSE IF fd[q] = "tmp" THEN "closed" ELSE "gone"]
  /\ journal' = journal \cup page[p] /\ Goto(p, "syncdir")
  /\ UNCHANGED <<sqlVars, durable, phase, page, left, after, deaths>>

(* Fault: the directory is not synced. *)
NoSyncDir(p) ==
  /\ pc[p] = "syncdir"
  /\ Goto(p, IF phase[p] = "emit" THEN "emit" ELSE "delete")
  /\ UNCHANGED <<sqlVars, spoolVars, phase, page, left, after, fd, journal, deaths>>

(* sync_dir; then a drain deletes the page, a snapshot emits the next one. *)
SyncDir(p) ==
  /\ pc[p] = "syncdir"
  /\ durable' = DOMAIN closed
  /\ Goto(p, IF phase[p] = "emit" THEN "emit" ELSE "delete")
  /\ UNCHANGED <<sqlVars, tmp, closed, phase, page, left, after, fd, journal, deaths>>

(* Fault: the outbox is emptied. *)
DeleteAll(p) ==
  /\ pc[p] = "delete" /\ lock \in {"none", p}
  /\ SetBox(p, [Box(p) EXCEPT !.rows = {}]) /\ EndDrain(p)
  /\ UNCHANGED <<table, capturing, missed, lock, spoolVars, journal, deaths>>

(* DELETE FROM _outbox WHERE seq <= hi, which waits for the write lock. *)
Delete(p) ==
  /\ pc[p] = "delete" /\ lock \in {"none", p}
  /\ LET hi == NameOf(page[p]).hi IN
       /\ SetBox(p, [Box(p) EXCEPT !.rows = {e \in @ : e.seq > hi}])
       /\ IF Cardinality(page[p]) < Batch THEN EndDrain(p)
          ELSE /\ after' = [after EXCEPT ![p] = hi] /\ Goto(p, "fetch")
               /\ UNCHANGED <<phase, page, left, fd>>
  /\ UNCHANGED <<table, capturing, missed, lock, spoolVars, journal, deaths>>
-----------------------------------------------------------------------------
Published == UNION {closed[n].lines : n \in DOMAIN closed}

(* A snapshot's files outlive its rollback. *)
HasEmitted(p) == lock = p /\ \E e \in journal : e.seq > CurrentSeq(box)

MayDie(p) == EmitMayFail \/ ~HasEmitted(p)
CountDeath == deaths < MaxDeaths /\ deaths' = deaths + 1

(* Its tmp file stays behind. *)
Abandon(p) ==
  /\ Stop(p) /\ Rollback(p)
  /\ UNCHANGED <<table, capturing, missed, box, spoolVars, journal>>

(* p is killed, or one of its calls fails (ENOSPC, SQLITE_BUSY after 5 s).   *)
Die(p) == pc[p] # "idle" /\ MayDie(p) /\ CountDeath /\ Abandon(p)

(* Another process renamed the tmp file first: ENOENT. *)
RenameFails(p) ==
  /\ pc[p] = "rename" /\ NameOf(page[p]) \notin DOMAIN tmp
  /\ Abandon(p) /\ UNCHANGED deaths

(* Only what is synced survives; an entry that is not may or may not.  A tmp *)
(* file that survives is truncated when it is opened again.                  *)
PowerLoss ==
  /\ \E p \in Procs : pc[p] # "idle"
  /\ CountDeath /\ \A p \in Procs : MayDie(p)
  /\ \E kept \in SUBSET (DOMAIN closed \ durable) :
       /\ closed' = [n \in durable \cup kept |->
                       [closed[n] EXCEPT !.lines = closed[n].stable]]
       /\ durable' = durable \cup kept
  /\ tmp' = [n \in {} |-> {}]
  /\ pc' = [p \in Procs |-> "idle"] /\ phase' = [p \in Procs |-> "drain"]
  /\ page' = [p \in Procs |-> {}] /\ left' = [p \in Procs |-> {}]
  /\ after' = [p \in Procs |-> 0] /\ fd' = [p \in Procs |-> "none"]
  /\ lock' = "none" /\ tx' = box
  /\ UNCHANGED <<table, capturing, missed, box, journal>>
-----------------------------------------------------------------------------
(* What a run does once it is started. *)
Step(p) ==
  \/ Fetch(p) \/ Emit(p) \/ CommitSnapshot(p)
  \/ Open(p) \/ WriteLine(p) \/ Sync(p) \/ Rename(p) \/ SyncDir(p) \/ Delete(p)
  \/ RenameFails(p)

Next ==
  \/ Utility
  \/ \E p \in Procs :
       \/ StartDrain(p)
       \/ \E min \in MinSeqs, allowLarge \in BOOLEAN : StartSnapshot(p, min, allowLarge)
       \/ Step(p)
       \/ Die(p)
  \/ PowerLoss

Spec == Init /\ [][Next]_vars

(* The service ticks for ever, and system calls return. *)
FairSpec == Spec /\ WF_vars(StartDrain(Service)) /\ \A p \in Procs : WF_vars(Step(p))
-----------------------------------------------------------------------------
(* A closed file is whole: whatever its name spans of the journal is in it.  *)
(* rsync, which takes any closed file at any moment, never sees a part.      *)
ClosedComplete ==
  \A n \in DOMAIN closed :
    closed[n].lines = {e \in journal : n.lo <= e.seq /\ e.seq <= n.hi}

(* Overlapping processes that do not fail leave whole files behind: the one  *)
(* that finishes last completes what the other published too early.          *)
WholeAtRest == (\A p \in Procs : pc[p] = "idle") => ClosedComplete

(* A committed change is in the outbox or in a closed file, through crashes, *)
(* power losses, failed calls and rollbacks: write_batch is durable before   *)
(* the DELETE.                                                               *)
NoEventLost == journal \subseteq box.rows \cup Published

(* Nothing is published before an earlier event of the source: what          *)
(* ApplyInOrder needs of the spool.                                          *)
PublishedInOrder ==
  \A e \in Published : \A d \in journal : d.seq < e.seq => d \in Published

(* Processes that overlap may delete rows whose file another has emptied.    *)
(* Once all rest, the files they leave and the outbox have all of the        *)
(* journal again, and the files no event without the earlier ones.           *)
KeptAtRest == (\A p \in Procs : pc[p] = "idle") => NoEventLost /\ PublishedInOrder

(* One seq, one event: the Mini's ON CONFLICT drops the second one. *)
SeqUnique == \A d, e \in journal : d.seq = e.seq => d = e

(* Replaying the journal gives the table, except while changes the feed lost *)
(* have not been caught up by a snapshot.                                    *)
JournalRebuildsTable ==
  ~missed => {<<r.key, r.after>> : r \in LiveRows(journal)}
             = {<<k, table[k]>> : k \in Present}

(* What is in the outbox reaches a closed file: the tick comes back for what *)
(* a dead drain left.                                                        *)
EventuallyPublished ==
  \A s \in 1..MaxSeq :
    (\E e \in box.rows : e.seq = s) ~> (\E e \in Published : e.seq = s)
=============================================================================
