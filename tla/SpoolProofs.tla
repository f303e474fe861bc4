------------------------------ MODULE SpoolProofs ------------------------------
(***************************************************************************)
(* What the spool promises, and what the whole bus does, for collectors that *)
(* do not overlap (~Overlap) and snapshots that do not end early once they   *)
(* have published (NoneFailsLate); tmp_race and snapshot_rollback are runs   *)
(* where each is missing.  TypeInv, LockInv and JournalInv are Collect's;    *)
(* OneRuns and FileInv are what one collector at a time adds.                *)
(*                                                                          *)
(* SpoolInv is about the closed files and what of them a power loss leaves,  *)
(* given what a Mini has taken from the spool by now.  Of Collect alone the  *)
(* Mini has taken nothing; in Pipeline it has taken what it has logged.      *)
(* PipeInv is the bus's invariant; BusInv adds what becomes of the rows when *)
(* files come in any order, WasInv and DatedInv the table as it once was.    *)
(***************************************************************************)
EXTENDS PointInTime, CollectProofs, Sequences

(* One collector runs at a time. *)
OneRuns == \A p, q \in Procs : pc[p] # "idle" /\ pc[q] # "idle" => p = q

(* The tmp file has the page's lines as far as they are written, and all of  *)
(* them on disk when it is renamed.                                          *)
FileInv ==
  \A p \in Procs :
    LET n == NameOf(page[p]) IN
      /\ pc[p] = "write" => fd[p] = "tmp" /\ tmp[n].lines = page[p] \ left[p]
      /\ pc[p] = "rename" =>
           n \in DOMAIN tmp /\ tmp[n].lines = page[p] /\ tmp[n].stable = page[p]
-----------------------------------------------------------------------------
(* Nobody runs. *)
LEMMA OneRunsInit == Init => OneRuns
BY DEF Init, OneRuns

(* The others are idle before and after a step of p. *)
LEMMA OthersStayIdle ==
  ASSUME ~Overlap, TypeInv, OneRuns, NEW p \in Procs,
         \/ StartDrain(p) \/ Step(p) \/ Die(p)
         \/ \E min \in MinSeqs, allowLarge \in BOOLEAN : StartSnapshot(p, min, allowLarge)
  PROVE  \A q \in Procs : q # p => pc[q] = "idle" /\ pc'[q] = "idle"
<1>1. MayStart(p) \/ pc[p] # "idle"
  BY DEF StartDrain, StartSnapshot, Die, Step, Fetch, Emit, CommitSnapshot, Open, WriteLine,
         Sync, Rename, SyncDir, Delete, RenameFails
<1>2. \A q \in Procs : q # p => pc[q] = "idle"
  BY <1>1 DEF MayStart, OneRuns
<1> QED
  BY <1>2, OthersStay

(* A process starts when all are idle. *)
LEMMA OneRunsStep ==
  ASSUME ~Overlap, TypeInv, OneRuns, [Next]_vars
  PROVE  OneRuns'
<1>1. CASE Utility \/ UNCHANGED vars
  BY <1>1 DEF OneRuns, Utility, Write, MissedWrite, BreakFeed, RepairFeed, vars, procVars
<1>2. CASE PowerLoss
  BY <1>2 DEF OneRuns, PowerLoss
<1>3. ASSUME NEW p \in Procs,
             \/ StartDrain(p) \/ Step(p) \/ Die(p)
             \/ \E min \in MinSeqs, allowLarge \in BOOLEAN : StartSnapshot(p, min, allowLarge)
      PROVE  OneRuns'
  BY <1>3, OthersStayIdle DEF OneRuns
<1> QED
  BY <1>1, <1>2, <1>3 DEF Next

(* The open file. *)
LEMMA FileInvInit == Init => FileInv
BY DEF Init, FileInv

(* Every step keeps the open file in step with the page. *)
LEMMA FileInvStep ==
  ASSUME ~Overlap, TypeInv, OneRuns, FileInv, [Next]_vars
  PROVE  FileInv'
<1>a. Types
  BY TypeParts
<1>b. ASSUME UNCHANGED <<tmp, procVars>> PROVE FileInv'
  BY <1>b DEF FileInv, procVars
<1>c. ASSUME \A q \in Procs : pc'[q] \notin {"write", "rename"} PROVE FileInv'
  BY <1>c DEF FileInv
<1>1. CASE Utility
  BY <1>1, <1>b DEF Utility, Write, MissedWrite, BreakFeed, RepairFeed, spoolVars
<1>2. ASSUME NEW p \in Procs, NEW label, label \notin {"write", "rename"},
             pc' = [pc EXCEPT ![p] = label],
             \A q \in Procs : q # p => pc'[q] = "idle"
      PROVE  FileInv'
  BY <1>a, <1>2, <1>c DEF Types, ProcTypes
<1>3. ASSUME NEW p \in Procs,
             \/ StartDrain(p)
             \/ \E min \in MinSeqs, allowLarge \in BOOLEAN : StartSnapshot(p, min, allowLarge)
             \/ Fetch(p) \/ Emit(p) \/ CommitSnapshot(p) \/ Rename(p) \/ SyncDir(p) \/ Delete(p)
             \/ RenameFails(p) \/ Die(p)
      PROVE  FileInv'
  <2>1. \A q \in Procs : q # p => pc'[q] = "idle"
    BY <1>3, OthersStayIdle DEF Step
  <2>2. \E label : label \notin {"write", "rename"} /\ pc' = [pc EXCEPT ![p] = label]
    BY <1>3 DEF StartDrain, StartSnapshot, Die, Fetch, Emit, CommitSnapshot, Rename, SyncDir,
                Delete, RenameFails, EndDrain, Abandon, Stop, Goto
  <2> QED
    BY <2>1, <2>2, <1>2
<1>4. ASSUME NEW p \in Procs, pc[p] = "open" \/ pc[p] = "write", UNCHANGED page,
             Open(p) \/ WriteLine(p) \/ Sync(p),
             LET n == NameOf(page[p]) IN
               /\ pc'[p] = "write" => fd'[p] = "tmp" /\ tmp'[n].lines = page[p] \ left'[p]
               /\ pc'[p] = "rename" =>
                    n \in DOMAIN tmp' /\ tmp'[n].lines = page[p] /\ tmp'[n].stable = page[p]
      PROVE  FileInv'
  <2>1. \A q \in Procs : q # p => pc'[q] = "idle"
    BY <1>4, OthersStayIdle DEF Step
  <2> QED
    BY <1>4, <2>1 DEF FileInv
<1>5. ASSUME NEW p \in Procs, Open(p) PROVE FileInv'
  <2> DEFINE n == NameOf(page[p])
             empty == [lines |-> {}, stable |-> {}]
  <2>1. /\ pc[p] = "open" /\ tmp' = Put(tmp, n, empty) /\ UNCHANGED page
        /\ left' = [left EXCEPT ![p] = page[p]] /\ fd' = [fd EXCEPT ![p] = "tmp"]
        /\ pc' = [pc EXCEPT ![p] = "write"]
    BY <1>5 DEF Open, Goto
  <2>2. pc'[p] = "write" /\ fd'[p] = "tmp" /\ left'[p] = page[p]
    BY <1>a, <2>1 DEF Types, ProcTypes
  <2>3. tmp'[n] = empty
    BY <2>1 DEF Put
  <2> QED
    BY <1>4, <1>5, <2>1, <2>2, <2>3
<1>6. ASSUME NEW p \in Procs, WriteLine(p) PROVE FileInv'
  <2> DEFINE n == NameOf(page[p])
  <2>1. PICK e \in left[p] : /\ left' = [left EXCEPT ![p] = @ \ {e}]
                             /\ SetFile(p, [FileOf(p) EXCEPT !.lines = @ \cup {e}])
    BY <1>6 DEF WriteLine
  <2>2. pc[p] = "write" /\ UNCHANGED <<pc, page, fd>>
    BY <1>6 DEF WriteLine
  <2>3. fd[p] = "tmp" /\ tmp[n].lines = page[p] \ left[p]
    BY <2>2 DEF FileInv
  <2>4. e \in page[p] /\ e \in Event /\ left'[p] = left[p] \ {e}
    BY <1>a, <2>1 DEF Types, ProcTypes, PageTypes
  <2>5. FileOf(p) \in FileData
    BY <1>a DEF Types, DirTypes, OpenTypes, FileOf, FileData
  <2>6. [FileOf(p) EXCEPT !.lines = @ \cup {e}] \in FileData
    BY <2>4, <2>5 DEF FileData
  <2>7. tmp'[n] = [tmp[n] EXCEPT !.lines = @ \cup {e}] /\ tmp[n] \in FileData
    BY <2>1, <2>2, <2>3, <2>5, <2>6, SetFileTypes
  <2>8. tmp'[n].lines = tmp[n].lines \cup {e}
    BY <2>7 DEF FileData
  <2>9. tmp'[n].lines = page[p] \ left'[p]
    BY <2>3, <2>4, <2>8
  <2> QED
    BY <1>4, <1>6, <2>2, <2>3, <2>9
<1>7. ASSUME NEW p \in Procs, Sync(p) PROVE FileInv'
  <2> DEFINE n == NameOf(page[p])
  <2>1. /\ pc[p] = "write" /\ left[p] = {}
        /\ SetFile(p, [FileOf(p) EXCEPT !.stable = FileOf(p).lines])
        /\ pc' = [pc EXCEPT ![p] = "rename"] /\ UNCHANGED page
    BY <1>7 DEF Sync, Goto
  <2>2. fd[p] = "tmp" /\ tmp[n].lines = page[p]
    BY <2>1 DEF FileInv
  <2>3. FileOf(p) \in FileData
    BY <1>a DEF Types, DirTypes, OpenTypes, FileOf, FileData
  <2>4. [FileOf(p) EXCEPT !.stable = FileOf(p).lines] \in FileData
    BY <2>3 DEF FileData
  <2>5. /\ tmp'[n] = [tmp[n] EXCEPT !.stable = tmp[n].lines] /\ tmp[n] \in FileData
        /\ DOMAIN tmp' = DOMAIN tmp
    BY <2>1, <2>2, <2>3, <2>4, SetFileTypes
  <2>6. tmp'[n].lines = page[p] /\ tmp'[n].stable = page[p]
    BY <2>2, <2>5 DEF FileData
  <2>7. n \in DOMAIN tmp'
    BY <1>a, <2>2, <2>5 DEF Types, OpenTypes
  <2>8. pc'[p] = "rename"
    BY <1>a, <2>1 DEF Types, ProcTypes
  <2> QED
    BY <1>4, <1>7, <2>1, <2>6, <2>7, <2>8
<1>8. CASE \E p \in Procs : Step(p)
  BY <1>3, <1>5, <1>6, <1>7, <1>8 DEF Step
<1>9. CASE PowerLoss
  <2>1. pc' = [p \in Procs |-> "idle"]
    BY <1>9 DEF PowerLoss
  <2> QED
    BY <1>c, <2>1
<1>10. CASE UNCHANGED vars
  BY <1>10, <1>b DEF vars, spoolVars
<1> QED
  BY <1>1, <1>3, <1>8, <1>9, <1>10 DEF Next

(* A run that fails, or a power loss, leaves the committed outbox, and every *)
(* seq of the journal below it: a snapshot that has published goes on.       *)
LEMMA AbandonKeepsSeqs ==
  ASSUME ~Overlap, NoneFailsLate, TypeInv, LockInv, JournalInv, OneRuns,
         (\E p \in Procs : Die(p) \/ RenameFails(p)) \/ PowerLoss
  PROVE  /\ box' = box /\ tx' = box /\ journal' = journal
         /\ \A q \in Procs : pc'[q] = "idle"
         /\ \A e \in journal : e.seq <= box.seq
<1>a. Types
  BY TypeParts
<1>1. \A e \in journal : e.seq <= box.seq
  <2>1. CASE \A p \in Procs : phase[p] = "drain"
    BY <2>1 DEF JournalInv, NoneAhead
  <2>2. ASSUME NEW p \in Procs, phase[p] = "emit" PROVE \A e \in journal : e.seq <= box.seq
    <3>1. pc[p] # "idle"
      BY <2>2 DEF LockInv, LockFits, PhaseFits
    <3>2. Die(p) \/ RenameFails(p) \/ PowerLoss
      BY <3>1, OthersStayIdle DEF Step
    <3> QED
      BY <2>2, <3>2, EndsUnpublished
  <2> QED
    BY <1>a, <2>1, <2>2 DEF Types, ProcTypes
<1>2. ASSUME NEW p \in Procs, Die(p) \/ RenameFails(p)
      PROVE  /\ box' = box /\ tx' = box /\ journal' = journal
             /\ \A q \in Procs : pc'[q] = "idle"
  <2>1. Abandon(p) /\ \A q \in Procs : q # p => pc[q] = "idle" /\ pc'[q] = "idle"
    BY <1>2, OthersStayIdle DEF Die, RenameFails, Step
  <2>2. lock \in {"none", p} /\ (lock = "none" => tx = box)
    BY <1>a, <2>1 DEF Types, LockType, LockInv, TxOfBox
  <2>3. pc'[p] = "idle"
    BY <1>a, <2>1 DEF Abandon, Stop, Goto, Types, ProcTypes
  <2> QED
    BY <2>1, <2>2, <2>3 DEF Abandon, Rollback
<1>3. CASE PowerLoss
  BY <1>1, <1>3 DEF PowerLoss
<1> QED
  BY <1>1, <1>2, <1>3
-----------------------------------------------------------------------------
(* What outlives a power loss: the durable files, and what was taken from    *)
(* the spool before.                                                         *)
Kept(taken) == taken \cup UNION {closed[n].lines : n \in durable}

(* A closed file's last line gives it its name, and all of it is on disk;    *)
(* an entry that was just renamed may be lost, or forgotten once it is taken. *)
FilesWhole(taken) ==
  /\ \A n \in DOMAIN closed :
       closed[n].stable = closed[n].lines /\ \E e \in closed[n].lines : e.seq = n.hi
  /\ \A p \in Procs : pc[p] = "syncdir" =>
       \/ page[p] \subseteq taken
       \/ NameOf(page[p]) \in DOMAIN closed /\ closed[NameOf(page[p])].lines = page[p]

(* What a power loss leaves, with what was taken, is in order, whichever     *)
(* entries it takes; what was taken need not be.                             *)
InOrder(S) == \A e \in S : \A d \in journal : d.seq < e.seq => d \in S
KeptInOrder(taken) == taken \subseteq journal /\ InOrder(Kept(taken))
FilesInOrder(taken) == \A n \in DOMAIN closed : InOrder(Kept(taken) \cup closed[n].lines)

(* What is not in the outbox, or leaves it with the transaction or with the  *)
(* DELETE, survives a power loss; a snapshot that has published cannot meet  *)
(* one.                                                                      *)
GoneIsKept(taken) ==
  /\ \A e \in journal :
       \/ e \in box.rows \cup Kept(taken)
       \/ box.seq < e.seq /\ \E p \in Procs : pc[p] = "syncdir" /\ Emits(p) /\ e \in page[p]
  /\ box.rows \ tx.rows \subseteq Kept(taken)
  /\ \A p \in Procs : pc[p] = "delete" => page[p] \subseteq Kept(taken)

SpoolInv(taken) ==
  /\ KeptInOrder(taken) /\ FilesWhole(taken) /\ ClosedComplete /\ FilesInOrder(taken)
  /\ GoneIsKept(taken)
-----------------------------------------------------------------------------
(* The closed files. *)
LEMMA SpoolInvInit == Init => SpoolInv({})
<1> SUFFICES ASSUME Init PROVE SpoolInv({})
  OBVIOUS
<1>1. DOMAIN closed = {} /\ journal = {} /\ box = tx /\ \A p \in Procs : pc[p] = "idle"
  BY DEF Init
<1> QED
  BY <1>1 DEF SpoolInv, KeptInOrder, InOrder, FilesWhole, ClosedComplete, FilesInOrder, GoneIsKept

(* What is in a closed file is in the journal, and what is durable in the    *)
(* closed files; so the last seq a name gives is one of the journal's.       *)
LEMMA FilesAreJournal ==
  ASSUME TypeInv, NEW taken, SpoolInv(taken)
  PROVE  /\ \A n \in DOMAIN closed : closed[n].lines \subseteq journal
         /\ Kept(taken) \subseteq taken \cup Published /\ taken \cup Published \subseteq journal
         /\ \A n \in DOMAIN closed : \E e \in journal : e \in closed[n].lines /\ e.seq = n.hi
<1>1. \A n \in DOMAIN closed : closed[n].lines \subseteq journal
  BY DEF SpoolInv, ClosedComplete
<1>2. durable \subseteq DOMAIN closed
  BY TypeParts DEF Types, DirTypes
<1> QED
  BY <1>1, <1>2 DEF SpoolInv, KeptInOrder, FilesWhole, Kept, Published

(* Events later than all of the journal leave the files as they are.         *)
LEMMA LaterEventsKeepFiles ==
  ASSUME TypeInv, NEW taken, SpoolInv(taken), NEW new \in SUBSET Event, journal' = journal \cup new,
         \A e \in new : \A d \in journal : d.seq < e.seq,
         UNCHANGED <<closed, durable>>
  PROVE  ClosedComplete' /\ FilesInOrder(taken)' /\ KeptInOrder(taken)'
<1>1. /\ \A e \in journal : e.seq \in Nat
      /\ \A e \in new : e.seq \in Nat
      /\ DOMAIN closed \subseteq Name
  BY TypeParts DEF Types, SqlTypes, DirTypes, Event
<1>2. ASSUME NEW n \in DOMAIN closed, NEW e \in new PROVE ~(e.seq <= n.hi)
  <2>1. PICK d \in journal : d.seq = n.hi
    BY FilesAreJournal
  <2> QED
    BY <1>1, <2>1
<1>3. ClosedComplete'
  <2> SUFFICES ASSUME NEW n \in DOMAIN closed
               PROVE  closed[n].lines = {e \in journal' : n.lo <= e.seq /\ e.seq <= n.hi}
    BY DEF ClosedComplete
  <2>1. closed[n].lines = {e \in journal : n.lo <= e.seq /\ e.seq <= n.hi}
    BY DEF SpoolInv, ClosedComplete
  <2> QED
    BY <1>2, <2>1
<1>4. FilesInOrder(taken)'
  <2> SUFFICES ASSUME NEW n \in DOMAIN closed, NEW e \in Kept(taken) \cup closed[n].lines,
                      NEW d \in journal', d.seq < e.seq
               PROVE  d \in Kept(taken) \cup closed[n].lines
    BY DEF FilesInOrder, InOrder, Kept
  <2>1. e \in journal
    BY FilesAreJournal
  <2>2. d \in journal
    BY <1>1, <2>1
  <2> QED
    BY <2>1, <2>2 DEF SpoolInv, FilesInOrder, InOrder
<1>5. KeptInOrder(taken)'
  <2>1. UNCHANGED Kept(taken) /\ Kept(taken) \subseteq journal
    BY FilesAreJournal DEF Kept
  <2>2. ASSUME NEW e \in Kept(taken), NEW d \in journal', d.seq < e.seq PROVE d \in Kept(taken)
    <3>1. d \in journal
      BY <1>1, <2>1, <2>2
    <3> QED
      BY <2>2, <3>1 DEF SpoolInv, KeptInOrder, InOrder
  <2> QED
    BY <2>1, <2>2 DEF SpoolInv, KeptInOrder, InOrder
<1> QED
  BY <1>3, <1>4, <1>5

(* The rename publishes the page, behind everything that came before it, and *)
(* leaves the other files as they are.                                       *)
LEMMA RenamePublishes ==
  ASSUME TypeInv, LockInv, JournalInv, OneRuns, FileInv, NEW taken, SpoolInv(taken),
         NEW p \in Procs, Rename(p)
  PROVE  LET n == NameOf(page[p]) IN
           /\ n \in Name /\ DOMAIN closed' = DOMAIN closed \cup {n}
           /\ closed'[n].lines = page[p] /\ closed'[n].stable = page[p]
           /\ \A m \in DOMAIN closed : closed'[m].lines = closed[m].lines
           /\ \A m \in DOMAIN closed : closed'[m].stable = closed[m].lines
           /\ page[p] = {e \in journal' : n.lo <= e.seq /\ e.seq <= n.hi}
           /\ UNCHANGED Kept(taken)
<1> DEFINE n == NameOf(page[p])
<1>a. Types
  BY TypeParts
<1>1. /\ pc[p] = "rename" /\ n \in DOMAIN tmp /\ closed' = Put(closed, n, tmp[n])
      /\ UNCHANGED durable /\ journal' = journal \cup page[p]
  BY DEF Rename
<1>2. tmp[n].lines = page[p] /\ tmp[n].stable = page[p]
  BY <1>1 DEF FileInv
<1>3. /\ page[p] \in SUBSET Event /\ IsFiniteSet(page[p]) /\ page[p] # {}
      /\ Holding(p) /\ phase[p] \in {"drain", "emit"}
      /\ DOMAIN closed \subseteq Name /\ \A m \in DOMAIN closed : closed[m] \in FileData
      /\ tmp[n] \in FileData /\ \A e \in journal : e.seq \in Nat
  BY <1>a, <1>1
     DEF Types, SqlTypes, ProcTypes, PageTypes, DirTypes, Holding, Event
<1>4. /\ n \in Name
      /\ \A e \in page[p] : n.lo <= e.seq /\ e.seq <= n.hi
      /\ \E e \in page[p] : e.seq = n.lo
      /\ \E e \in page[p] : e.seq = n.hi
  BY <1>3, NameOfPage
<1>5. Emits(p) => \A e \in page[p] : \A d \in journal : d.seq < e.seq
  BY <1>1 DEF JournalInv, EmitsNew
<1>6. Drains(p) =>
        page[p] \subseteq journal
        /\ page[p] = {e \in journal : n.lo <= e.seq /\ e.seq <= n.hi}
  BY DEF JournalInv, PagesWhole, Span
<1> HIDE DEF n
<1>7. page[p] = {e \in journal' : n.lo <= e.seq /\ e.seq <= n.hi}
  <2>1. CASE Drains(p)
    BY <1>1, <1>6, <2>1
  <2>2. CASE Emits(p)
    <3>1. PICK bottom \in page[p] : bottom.seq = n.lo
      BY <1>4
    <3>2. \A d \in journal : ~(n.lo <= d.seq)
      <4>1. bottom.seq \in Nat
        BY <1>3 DEF Event
      <4> QED
        BY <1>3, <1>5, <2>2, <3>1, <4>1
    <3> QED
      BY <1>1, <1>4, <3>2
  <2> QED
    BY <1>3, <2>1, <2>2 DEF Drains, Emits
<1>8. n \in DOMAIN closed => closed[n].lines = page[p]
  <2>1. n \in DOMAIN closed =>
          closed[n].lines = {e \in journal : n.lo <= e.seq /\ e.seq <= n.hi}
    BY DEF SpoolInv, ClosedComplete
  <2>2. CASE Drains(p)
    BY <1>6, <2>1, <2>2
  <2>3. CASE Emits(p)
    <3>1. n \in DOMAIN closed => \E d \in journal : d.seq = n.hi
      BY FilesAreJournal
    <3>2. PICK top \in page[p] : top.seq = n.hi
      BY <1>4
    <3> QED
      BY <1>3, <1>5, <2>3, <3>1, <3>2
  <2> QED
    BY <1>3, <2>2, <2>3 DEF Drains, Emits
<1>9. /\ DOMAIN closed' = DOMAIN closed \cup {n} /\ closed'[n] = tmp[n]
      /\ \A m \in DOMAIN closed : m # n => closed'[m] = closed[m]
  BY <1>1 DEF Put
<1>10. /\ closed'[n].lines = page[p] /\ closed'[n].stable = page[p]
  BY <1>2, <1>9
<1>11. ASSUME NEW m \in DOMAIN closed
       PROVE  closed'[m].lines = closed[m].lines /\ closed'[m].stable = closed[m].lines
  <2>1. closed[m].stable = closed[m].lines
    BY DEF SpoolInv, FilesWhole
  <2>2. CASE m = n
    BY <1>8, <1>10, <2>2
  <2> QED
    BY <1>9, <2>1, <2>2
<1>12. UNCHANGED Kept(taken)
  <2>1. durable \subseteq DOMAIN closed
    BY <1>a DEF Types, DirTypes
  <2> QED
    BY <1>1, <1>11, <2>1 DEF Kept
<1> QED
  BY <1>4, <1>7, <1>9, <1>10, <1>11, <1>12 DEF n

(* What a power loss leaves when it comes right after the rename: whatever   *)
(* is earlier than the page is durable, in the outbox's order.               *)
LEMMA RenameKeepsOrder ==
  ASSUME TypeInv, LockInv, JournalInv, OneRuns, FileInv, NEW taken, SpoolInv(taken),
         NEW p \in Procs, Rename(p)
  PROVE  FilesInOrder(taken)' /\ KeptInOrder(taken)'
<1> DEFINE n == NameOf(page[p])
<1>1. /\ DOMAIN closed' = DOMAIN closed \cup {n} /\ closed'[n].lines = page[p]
      /\ \A m \in DOMAIN closed : closed'[m].lines = closed[m].lines
      /\ UNCHANGED Kept(taken)
  BY RenamePublishes
<1>2. pc[p] = "rename" /\ journal' = journal \cup page[p]
  BY DEF Rename
<1>3. /\ Holding(p) /\ (Drains(p) \/ Emits(p))
      /\ \A e \in journal : e.seq \in Nat
      /\ \A e \in page[p] : e.seq \in Nat
      /\ box.seq \in Nat
  BY <1>2, TypeParts DEF Types, SqlTypes, ProcTypes, Outbox, Holding, Drains, Emits, Event
<1>4. Drains(p) => page[p] \subseteq journal
  BY DEF JournalInv, PagesWhole, Span
<1>5. Emits(p) => \A e \in page[p] : \A d \in journal : d.seq < e.seq
  BY <1>2 DEF JournalInv, EmitsNew
<1> HIDE DEF n
<1>6. ASSUME NEW e \in Kept(taken), NEW d \in journal, d.seq < e.seq PROVE d \in Kept(taken)
  BY <1>6 DEF SpoolInv, KeptInOrder, InOrder
<1>7. ASSUME NEW e \in page[p], NEW d \in journal, d.seq < e.seq
      PROVE  d \in Kept(taken) \cup page[p]
  <2>1. \A q \in Procs : pc[q] # "syncdir"
    BY <1>2 DEF OneRuns
  <2>2. d \in box.rows \cup Kept(taken)
    BY <2>1 DEF SpoolInv, GoneIsKept
  <2>3. CASE Drains(p)
    <3>1. d \in Box(p).rows => d \in page[p]
      BY <1>3, <1>7, <2>3 DEF LockInv, LockFits, PhaseFits, PageLow, TxPage
    <3>2. d \in box.rows /\ d \notin Box(p).rows => d \in Kept(taken)
      BY DEF Box, SpoolInv, GoneIsKept
    <3> QED
      BY <2>2, <3>1, <3>2
  <2>4. CASE Emits(p)
    <3>1. tx.rows = {}
      BY <2>4 DEF Emits, LockInv, LockFits, PhaseFits, PageLow, TxPage
    <3> QED
      BY <2>2, <3>1 DEF SpoolInv, GoneIsKept
  <2> QED
    BY <1>3, <2>3, <2>4
<1>8. ASSUME NEW e \in journal, NEW d \in page[p], d.seq < e.seq, Emits(p) PROVE FALSE
  BY <1>3, <1>5, <1>8
<1>9. ASSUME NEW m \in DOMAIN closed,
             NEW e \in Kept(taken) \cup closed[m].lines, NEW d \in journal', d.seq < e.seq
      PROVE  d \in Kept(taken) \cup closed[m].lines
  <2>1. e \in journal
    BY FilesAreJournal
  <2>2. d \in journal
    BY <1>2, <1>3, <1>4, <1>8, <1>9, <2>1
  <2> QED
    BY <1>9, <2>2 DEF SpoolInv, FilesInOrder, InOrder
<1>10. ASSUME NEW e \in Kept(taken) \cup page[p], NEW d \in journal', d.seq < e.seq
       PROVE  d \in Kept(taken) \cup page[p]
  <2>1. CASE e \in page[p]
    BY <1>2, <1>7, <1>10, <2>1
  <2>2. CASE e \in Kept(taken)
    BY <1>2, <1>6, <1>10, <2>2
  <2> QED
    BY <2>1, <2>2
<1>11. ASSUME NEW e \in Kept(taken), NEW d \in journal', d.seq < e.seq PROVE d \in Kept(taken)
  <2>1. e \in journal
    BY FilesAreJournal
  <2>2. d \in journal
    BY <1>2, <1>3, <1>4, <1>8, <1>11, <2>1
  <2> QED
    BY <1>6, <1>11, <2>2
<1>12. taken \subseteq journal'
  BY <1>2 DEF SpoolInv, KeptInOrder
<1> QED
  BY <1>1, <1>9, <1>10, <1>11, <1>12 DEF FilesInOrder, KeptInOrder, InOrder

(* Every step keeps the closed files whole and in order. *)
LEMMA SpoolInvStep ==
  ASSUME ~Overlap, NoneFailsLate, TypeInv, LockInv, JournalInv, OneRuns, FileInv,
         NEW taken, SpoolInv(taken), [Next]_vars
  PROVE  SpoolInv(taken)'
<1>a. Types
  BY TypeParts
<1>b. /\ box.seq \in Nat /\ \A e \in box.rows : e.seq \in Nat
      /\ \A e \in journal : e.seq \in Nat
      /\ \A p \in Procs : \A e \in page[p] : e.seq \in Nat
  BY <1>a DEF Types, SqlTypes, ProcTypes, Outbox, Event
<1>c. CurrentSeq(box) = box.seq
  BY <1>a, CurrentSeqOf DEF Types, SqlTypes, LockInv, SeqOnTop
<1>d. ASSUME UNCHANGED <<closed, durable, journal>>
      PROVE  KeptInOrder(taken)' /\ ClosedComplete' /\ FilesInOrder(taken)'
  BY <1>d DEF SpoolInv, KeptInOrder, ClosedComplete, FilesInOrder, InOrder, Kept
<1>e. ASSUME UNCHANGED <<closed, durable>>, \A q \in Procs : pc'[q] # "syncdir"
      PROVE  FilesWhole(taken)'
  BY <1>e DEF SpoolInv, FilesWhole
<1>f. ASSUME UNCHANGED <<closed, durable>> PROVE UNCHANGED Kept(taken)
  BY <1>f DEF Kept
<1>g. ASSUME UNCHANGED <<closed, durable, journal, box, tx, procVars>> PROVE SpoolInv(taken)'
  <2>1. FilesWhole(taken)'
    BY <1>g DEF SpoolInv, FilesWhole, procVars
  <2>2. GoneIsKept(taken)'
    BY <1>g, <1>f DEF SpoolInv, GoneIsKept, Emits, Holding, procVars
  <2> QED
    BY <1>d, <1>g, <2>1, <2>2 DEF SpoolInv
<1>h. ASSUME UNCHANGED <<closed, durable, journal, box>>, tx'.rows = tx.rows,
             \A q \in Procs : pc[q] # "syncdir" /\ pc'[q] \notin {"syncdir", "delete"}
      PROVE  SpoolInv(taken)'
  <2>1. GoneIsKept(taken)'
    BY <1>h, <1>f DEF SpoolInv, GoneIsKept
  <2> QED
    BY <1>d, <1>e, <1>h, <2>1 DEF SpoolInv
<1>1. ASSUME NEW k \in Keys, NEW op \in Ops, NEW image \in Afters \cup {NoAfter},
             Write(k, op, image)
      PROVE  SpoolInv(taken)'
  <2> DEFINE e == [src |-> Db, seq |-> box.seq + 1, key |-> k, op |-> op, after |-> image]
  <2>1. /\ lock = "none" /\ box' = [rows |-> box.rows \cup {e}, seq |-> box.seq + 1]
        /\ tx' = box' /\ journal' = journal \cup {e}
        /\ UNCHANGED <<closed, durable, procVars>>
    BY <1>1, <1>c DEF Write, spoolVars
  <2>2. e.seq = box.seq + 1 /\ e \in Event
    BY <1>b, CollectConstants DEF Event
  <2> HIDE DEF e
  <2>3. box'.rows = box.rows \cup {e}
    BY <2>1
  <2>4. \A d \in journal : d.seq < e.seq
    BY <1>b, <2>1, <2>2 DEF LockInv, TxOfBox, JournalInv, SeqsTaken
  <2>5. KeptInOrder(taken)' /\ ClosedComplete' /\ FilesInOrder(taken)'
    <3>1. {e} \in SUBSET Event /\ \A c \in {e} : \A d \in journal : d.seq < c.seq
      BY <2>2, <2>4
    <3> QED
      BY <2>1, <3>1, LaterEventsKeepFiles
  <2>6. FilesWhole(taken)'
    BY <2>1 DEF SpoolInv, FilesWhole, procVars
  <2>7. GoneIsKept(taken)'
    <3>1. \A d \in journal : d \in box.rows \cup Kept(taken)
      BY <2>1, CollectConstants
         DEF SpoolInv, GoneIsKept, LockInv, LockFits, PhaseFits, Emits
    <3>2. UNCHANGED Kept(taken)
      BY <1>f, <2>1
    <3>3. \A d \in journal' : d \in box'.rows \cup Kept(taken)'
      BY <2>1, <2>3, <3>1, <3>2
    <3>4. box'.rows \ tx'.rows \subseteq Kept(taken)'
      BY <2>1
    <3>5. \A p \in Procs : pc'[p] = "delete" => page'[p] \subseteq Kept(taken)'
      BY <2>1, <3>2 DEF SpoolInv, GoneIsKept, procVars
    <3> QED
      BY <3>3, <3>4, <3>5 DEF GoneIsKept
  <2> QED
    BY <2>5, <2>6, <2>7 DEF SpoolInv
<1>2. ASSUME NEW k \in Keys, NEW op \in Ops, NEW image \in Afters \cup {NoAfter},
             MissedWrite(k, op, image)
      PROVE  SpoolInv(taken)'
  BY <1>2, <1>g DEF MissedWrite, spoolVars
<1>3. ASSUME BreakFeed \/ RepairFeed PROVE SpoolInv(taken)'
  BY <1>3, <1>g DEF BreakFeed, RepairFeed, spoolVars
<1>4. ASSUME NEW p \in Procs,
             \A q \in Procs : q # p => pc[q] = "idle" /\ pc'[q] = "idle",
             UNCHANGED <<closed, durable, journal, box>>, tx'.rows = tx.rows,
             pc[p] # "syncdir", pc'[p] \notin {"syncdir", "delete"}
      PROVE  SpoolInv(taken)'
  BY <1>4, <1>h
<1>5. ASSUME NEW p \in Procs, StartDrain(p) PROVE SpoolInv(taken)'
  <2>1. /\ pc[p] = "idle" /\ pc'[p] = "fetch"
        /\ UNCHANGED <<closed, durable, journal, box, tx>>
    BY <1>a, <1>5 DEF StartDrain, MayStart, Goto, Types, ProcTypes, sqlVars, spoolVars
  <2> QED
    BY <1>4, <1>5, <2>1, OthersStayIdle
<1>6. ASSUME NEW p \in Procs, NEW min \in MinSeqs, NEW allowLarge \in BOOLEAN,
             StartSnapshot(p, min, allowLarge)
      PROVE  SpoolInv(taken)'
  <2>1. /\ pc[p] = "idle" /\ pc'[p] = "fetch" /\ lock = "none"
        /\ UNCHANGED <<closed, durable, journal, box>>
        /\ tx' = IF box.seq >= min THEN box ELSE [box EXCEPT !.seq = min]
    BY <1>a, <1>c, <1>6 DEF StartSnapshot, MayStart, Goto, Types, ProcTypes, spoolVars
  <2>2. tx'.rows = tx.rows
    BY <1>a, <2>1 DEF Types, SqlTypes, Outbox, LockInv, TxOfBox
  <2> QED
    BY <1>4, <1>6, <2>1, <2>2, OthersStayIdle
<1>7. ASSUME NEW p \in Procs, Fetch(p) PROVE SpoolInv(taken)'
  <2>1. /\ pc[p] = "fetch" /\ pc'[p] \in {"emit", "commit", "idle", "open"}
        /\ UNCHANGED <<closed, durable, journal, box, tx>>
    BY <1>a, <1>7
       DEF Fetch, EndDrain, Stop, Goto, Types, ProcTypes, sqlVars, spoolVars
  <2>2. \A q \in Procs : q # p => pc[q] = "idle" /\ pc'[q] = "idle"
    BY <1>7, OthersStayIdle DEF Step
  <2> QED
    BY <1>4, <2>1, <2>2
<1>8. ASSUME NEW p \in Procs, Emit(p) PROVE SpoolInv(taken)'
  <2>1. /\ pc[p] = "emit" /\ pc'[p] \in {"commit", "open"}
        /\ UNCHANGED <<closed, durable, journal, box>>
    BY <1>a, <1>8 DEF Emit, Goto, Types, ProcTypes, spoolVars
  <2>2. tx'.rows = tx.rows
    <3>1. \A i : [tx EXCEPT !.seq = i].rows = tx.rows
      BY <1>a DEF Types, SqlTypes, Outbox
    <3>2. \E i : tx' = [tx EXCEPT !.seq = i] \/ tx' = tx
      BY <1>8 DEF Emit
    <3> QED
      BY <3>1, <3>2
  <2>3. \A q \in Procs : q # p => pc[q] = "idle" /\ pc'[q] = "idle"
    BY <1>8, OthersStayIdle DEF Step
  <2> QED
    BY <1>4, <2>1, <2>2, <2>3
<1>9. ASSUME NEW p \in Procs, Open(p) \/ WriteLine(p) \/ Sync(p) PROVE SpoolInv(taken)'
  <2>1. /\ pc[p] \in {"open", "write"} /\ pc'[p] \in {"write", "rename"}
        /\ UNCHANGED <<durable, journal, box, tx>>
    BY <1>a, <1>9 DEF Open, WriteLine, Sync, Goto, Types, ProcTypes, sqlVars
  <2>2. UNCHANGED closed
    BY <1>9 DEF Open, WriteLine, Sync, SetFile, FileInv
  <2>3. \A q \in Procs : q # p => pc[q] = "idle" /\ pc'[q] = "idle"
    BY <1>9, OthersStayIdle DEF Step
  <2> QED
    BY <1>4, <2>1, <2>2, <2>3
<1>10. ASSUME NEW p \in Procs, Rename(p) PROVE SpoolInv(taken)'
  <2> DEFINE n == NameOf(page[p])
  <2>1. /\ pc[p] = "rename" /\ pc'[p] = "syncdir" /\ journal' = journal \cup page[p]
        /\ UNCHANGED <<box, tx, lock, page, phase, durable>>
    BY <1>a, <1>10 DEF Rename, Goto, sqlVars, Types, ProcTypes
  <2>2. \A q \in Procs : q # p => pc[q] = "idle" /\ pc'[q] = "idle"
    BY <1>10, OthersStayIdle DEF Step
  <2>3. /\ n \in Name /\ DOMAIN closed' = DOMAIN closed \cup {n}
        /\ closed'[n].lines = page[p] /\ closed'[n].stable = page[p]
        /\ \A m \in DOMAIN closed : closed'[m].lines = closed[m].lines
        /\ \A m \in DOMAIN closed : closed'[m].stable = closed[m].lines
        /\ page[p] = {e \in journal' : n.lo <= e.seq /\ e.seq <= n.hi}
        /\ UNCHANGED Kept(taken)
    BY <1>10, RenamePublishes
  <2>4. /\ Holding(p) /\ (Drains(p) \/ Emits(p))
        /\ page[p] \in SUBSET Event /\ IsFiniteSet(page[p]) /\ page[p] # {}
    BY <1>a, <2>1 DEF Types, ProcTypes, PageTypes, Holding, Drains, Emits
  <2>5. \E e \in page[p] : e.seq = n.hi
    BY <2>4, NameOfPage
  <2>6. Emits(p) => \A e \in page[p] : box.seq < e.seq /\ \A d \in journal : d.seq < e.seq
    BY <2>1 DEF JournalInv, EmitsNew
  <2>7. Drains(p) => page[p] \subseteq journal
    BY DEF JournalInv, PagesWhole, Span
  <2>8. page'[p] = page[p] /\ NameOf(page[p])' = n
    BY <2>1
  <2>9. FilesWhole(taken)'
    <3>1. \A m \in DOMAIN closed' : /\ closed'[m].stable = closed'[m].lines
                                     /\ \E e \in closed'[m].lines : e.seq = m.hi
      <4> HIDE DEF n
      <4>1. \A m \in DOMAIN closed : \E e \in closed[m].lines : e.seq = m.hi
        BY DEF SpoolInv, FilesWhole
      <4> QED
        BY <2>3, <2>5, <4>1
    <3>2. \A q \in Procs : pc'[q] = "syncdir" => q = p
      BY <2>2
    <3> QED
      BY <2>3, <2>8, <3>1, <3>2 DEF FilesWhole
  <2> HIDE DEF n
  <2>10. ClosedComplete'
    <3>1. ASSUME NEW m \in DOMAIN closed
          PROVE  closed'[m].lines = {e \in journal' : m.lo <= e.seq /\ e.seq <= m.hi}
      <4>1. closed'[m].lines = {e \in journal : m.lo <= e.seq /\ e.seq <= m.hi}
        BY <2>3 DEF SpoolInv, ClosedComplete
      <4>2. CASE Drains(p)
        BY <2>1, <2>7, <4>1, <4>2
      <4>3. CASE Emits(p)
        <5>1. PICK d \in journal : d.seq = m.hi
          BY FilesAreJournal
        <5>2. \A e \in page[p] : ~(e.seq <= m.hi)
          BY <1>b, <2>6, <4>3, <5>1
        <5> QED
          BY <2>1, <4>1, <5>2
      <4> QED
        BY <2>4, <4>2, <4>3
    <3> QED
      BY <2>3, <3>1 DEF ClosedComplete
  <2>11. FilesInOrder(taken)' /\ KeptInOrder(taken)'
    BY <1>10, RenameKeepsOrder
  <2>12. GoneIsKept(taken)'
    <3>1. ASSUME NEW e \in journal'
          PROVE  \/ e \in box'.rows \cup Kept(taken)'
                 \/ box'.seq < e.seq
                    /\ \E q \in Procs : pc'[q] = "syncdir" /\ Emits(q)' /\ e \in page'[q]
      <4>1. CASE e \in journal
        <5>1. \A q \in Procs : pc[q] # "syncdir"
          BY <2>1, <2>2
        <5> QED
          BY <2>1, <2>3, <4>1, <5>1 DEF SpoolInv, GoneIsKept
      <4>2. CASE e \in page[p] /\ Emits(p)
        <5>1. Emits(p)'
          BY <2>1, <4>2 DEF Emits, Holding
        <5> QED
          BY <2>1, <2>6, <2>8, <4>2, <5>1
      <4> QED
        BY <2>1, <2>4, <2>7, <4>1, <4>2
    <3>2. box'.rows \ tx'.rows \subseteq Kept(taken)'
      BY <2>1, <2>3 DEF SpoolInv, GoneIsKept
    <3>3. \A q \in Procs : pc'[q] # "delete"
      BY <2>1, <2>2
    <3> QED
      BY <3>1, <3>2, <3>3 DEF GoneIsKept
  <2> QED
    BY <2>9, <2>10, <2>11, <2>12 DEF SpoolInv
<1>11. ASSUME NEW p \in Procs, SyncDir(p) PROVE SpoolInv(taken)'
  <2>1. /\ pc[p] = "syncdir" /\ pc'[p] \in {"emit", "delete"} /\ durable' = DOMAIN closed
        /\ UNCHANGED <<box, tx, page, closed, journal>>
    BY <1>a, <1>11 DEF SyncDir, Goto, sqlVars, Types, ProcTypes
  <2>2. \A q \in Procs : q # p => pc[q] = "idle" /\ pc'[q] = "idle"
    BY <1>11, OthersStayIdle DEF Step
  <2>3. Kept(taken)' = taken \cup Published /\ Kept(taken) \subseteq Kept(taken)'
    BY <2>1, FilesAreJournal DEF Kept, Published
  <2>4. FilesWhole(taken)'
    BY <2>1, <2>2 DEF SpoolInv, FilesWhole
  <2>5. FilesInOrder(taken)' /\ KeptInOrder(taken)'
    <3> SUFFICES ASSUME NEW e \in taken \cup Published, NEW d \in journal, d.seq < e.seq
                 PROVE  d \in taken \cup Published
      BY <2>1, <2>3 DEF SpoolInv, FilesInOrder, KeptInOrder, InOrder, Published
    <3>1. CASE e \in taken
      BY <2>3, <3>1 DEF SpoolInv, KeptInOrder, InOrder, Kept
    <3>2. ASSUME NEW m \in DOMAIN closed, e \in closed[m].lines PROVE d \in taken \cup Published
      <4>1. d \in Kept(taken) \cup closed[m].lines
        BY <3>2 DEF SpoolInv, FilesInOrder, InOrder
      <4> QED
        BY <2>3, <4>1 DEF Published
    <3> QED
      BY <3>1, <3>2 DEF Published
  <2>6. page[p] \subseteq Kept(taken)'
    BY <2>1, <2>3 DEF SpoolInv, FilesWhole, Published
  <2>7. GoneIsKept(taken)'
    <3>1. \A e \in journal' : e \in box'.rows \cup Kept(taken)'
      BY <2>1, <2>2, <2>3, <2>6 DEF SpoolInv, GoneIsKept
    <3>2. box'.rows \ tx'.rows \subseteq Kept(taken)'
      BY <2>1, <2>3 DEF SpoolInv, GoneIsKept
    <3>3. \A q \in Procs : pc'[q] = "delete" => page'[q] \subseteq Kept(taken)'
      BY <2>1, <2>2, <2>6
    <3> QED
      BY <3>1, <3>2, <3>3 DEF GoneIsKept
  <2>8. ClosedComplete'
    BY <2>1 DEF SpoolInv, ClosedComplete
  <2> QED
    BY <2>4, <2>5, <2>7, <2>8 DEF SpoolInv
<1>12. ASSUME NEW p \in Procs, Delete(p) PROVE SpoolInv(taken)'
  <2> DEFINE hi == NameOf(page[p]).hi
             b == [Box(p) EXCEPT !.rows = {e \in @ : e.seq > hi}]
  <2>1. /\ pc[p] = "delete" /\ SetBox(p, b) /\ lock \in {"none", p}
        /\ UNCHANGED <<closed, durable, journal>>
        /\ EndDrain(p) \/ (pc' = [pc EXCEPT ![p] = "fetch"])
    BY <1>12 DEF Delete, Goto, spoolVars
  <2>2. PICK top \in page[p] : top.seq = hi
    BY <1>a, <2>1, NameOfPage DEF Types, ProcTypes, PageTypes, Holding
  <2>3. b.rows = {e \in Box(p).rows : e.seq > hi} /\ b.seq = Box(p).seq
    BY BoxTypes DEF Outbox
  <2> HIDE DEF b, hi
  <2>4. Drains(p)
    BY <2>1 DEF LockInv, LockFits, PhaseFits, Drains, Holding
  <2>5. \A e \in Box(p).rows : e \in b.rows \/ e \in page[p]
    <3>1. \A e \in Box(p).rows : e.seq <= hi => e \in page[p]
      BY <2>2, <2>4 DEF LockInv, LockFits, PhaseFits, PageLow, TxPage
    <3>2. hi \in Nat /\ \A e \in Box(p).rows : e.seq \in Nat
      BY <1>a, <1>b, <2>2 DEF Box, Types, SqlTypes, Outbox, Event
    <3> QED
      BY <2>3, <3>1, <3>2
  <2>6. page[p] \subseteq Kept(taken) /\ UNCHANGED Kept(taken)
    BY <1>f, <2>1 DEF SpoolInv, GoneIsKept
  <2>7. /\ tx' = b
        /\ lock = "none" => box' = b /\ Box(p) = box
        /\ lock = p => UNCHANGED box /\ Box(p) = tx
    BY <2>1, CollectConstants DEF SetBox, Box
  <2>8. \A q \in Procs : q # p => pc[q] = "idle" /\ pc'[q] = "idle"
    BY <1>12, OthersStayIdle DEF Step
  <2>9. pc'[p] \in {"emit", "commit", "idle", "fetch"}
    BY <1>a, <2>1 DEF EndDrain, Stop, Goto, Types, ProcTypes
  <2>10. GoneIsKept(taken)'
    <3>1. ASSUME NEW e \in journal' PROVE e \in box'.rows \cup Kept(taken)'
      <4>1. e \in box.rows \cup Kept(taken)
        BY <2>1, <2>8 DEF SpoolInv, GoneIsKept
      <4> QED
        BY <2>1, <2>5, <2>6, <2>7, <4>1
    <3>2. box'.rows \ tx'.rows \subseteq Kept(taken)'
      <4>1. box.rows \ tx.rows \subseteq Kept(taken)
        BY DEF SpoolInv, GoneIsKept
      <4> QED
        BY <2>1, <2>5, <2>6, <2>7, <4>1
    <3>3. \A q \in Procs : pc'[q] # "delete"
      BY <2>8, <2>9
    <3> QED
      BY <3>1, <3>2, <3>3 DEF GoneIsKept
  <2>11. FilesWhole(taken)'
    BY <1>e, <2>1, <2>8, <2>9
  <2> QED
    BY <1>d, <2>1, <2>10, <2>11 DEF SpoolInv
<1>13. ASSUME NEW p \in Procs, CommitSnapshot(p) PROVE SpoolInv(taken)'
  <2>1. /\ pc[p] = "commit" /\ pc'[p] = "idle" /\ box' = tx
        /\ UNCHANGED <<tx, journal, closed, durable>>
    BY <1>a, <1>13 DEF CommitSnapshot, Stop, Goto, Types, ProcTypes, spoolVars
  <2>2. \A q \in Procs : q # p => pc[q] = "idle" /\ pc'[q] = "idle"
    BY <1>13, OthersStayIdle DEF Step
  <2>3. tx.rows = {}
    BY <2>1 DEF LockInv, LockFits, PhaseFits, TxPage
  <2>4. GoneIsKept(taken)'
    BY <1>f, <2>1, <2>2, <2>3 DEF SpoolInv, GoneIsKept
  <2> QED
    BY <1>d, <1>e, <2>1, <2>2, <2>4 DEF SpoolInv
<1>14. ASSUME NEW e \in journal, e.seq <= box.seq PROVE e \in box.rows \cup Kept(taken)
  BY <1>14, <1>b DEF SpoolInv, GoneIsKept
<1>15. ASSUME NEW p \in Procs, Die(p) \/ RenameFails(p) PROVE SpoolInv(taken)'
  <2>1. /\ box' = box /\ tx' = box /\ journal' = journal
        /\ \A q \in Procs : pc'[q] = "idle"
        /\ \A e \in journal : e.seq <= box.seq
    BY <1>15, AbandonKeepsSeqs
  <2>2. UNCHANGED <<closed, durable>>
    BY <1>15 DEF Die, RenameFails, Abandon, spoolVars
  <2>3. GoneIsKept(taken)'
    BY <1>14, <1>f, <2>1, <2>2 DEF GoneIsKept
  <2> QED
    BY <1>d, <1>e, <2>1, <2>2, <2>3 DEF SpoolInv
<1>16. ASSUME PowerLoss PROVE SpoolInv(taken)'
  <2>1. PICK kept \in SUBSET (DOMAIN closed \ durable) :
          /\ closed' = [n \in durable \cup kept |->
                          [closed[n] EXCEPT !.lines = closed[n].stable]]
          /\ durable' = durable \cup kept
    BY <1>16 DEF PowerLoss
  <2>2. /\ box' = box /\ tx' = box /\ journal' = journal
        /\ \A q \in Procs : pc'[q] = "idle"
        /\ \A e \in journal : e.seq <= box.seq
    BY <1>16, AbandonKeepsSeqs
  <2>3. DOMAIN closed' = durable' /\ durable \subseteq durable' /\ durable' \subseteq DOMAIN closed
    BY <1>a, <2>1 DEF Types, DirTypes
  <2>4. ASSUME NEW n \in durable'
        PROVE  closed'[n].lines = closed[n].lines /\ closed'[n].stable = closed[n].lines
    <3>1. closed[n] \in FileData /\ closed[n].stable = closed[n].lines
      BY <1>a, <2>3 DEF Types, DirTypes, SpoolInv, FilesWhole
    <3>2. closed'[n] = [closed[n] EXCEPT !.lines = closed[n].stable]
      BY <2>1
    <3> QED
      BY <3>1, <3>2 DEF FileData
  <2>5. FilesWhole(taken)'
    BY <2>2, <2>3, <2>4 DEF SpoolInv, FilesWhole
  <2>6. ClosedComplete'
    BY <2>2, <2>3, <2>4 DEF SpoolInv, ClosedComplete
  <2>7. /\ Kept(taken) \subseteq Kept(taken)'
        /\ \A n \in durable' : closed[n].lines \subseteq Kept(taken)'
    BY <2>3, <2>4 DEF Kept
  <2>8. FilesInOrder(taken)' /\ KeptInOrder(taken)'
    <3> SUFFICES ASSUME NEW e \in Kept(taken)', NEW d \in journal, d.seq < e.seq
                 PROVE  d \in Kept(taken)'
      BY <2>2, <2>3, <2>4, <2>7 DEF SpoolInv, FilesInOrder, KeptInOrder, InOrder
    <3>1. CASE e \in taken
      BY <2>7, <3>1 DEF SpoolInv, KeptInOrder, InOrder, Kept
    <3>2. ASSUME NEW m \in durable', e \in closed[m].lines PROVE d \in Kept(taken)'
      <4>1. d \in Kept(taken) \cup closed[m].lines
        BY <2>3, <3>2 DEF SpoolInv, FilesInOrder, InOrder
      <4> QED
        BY <2>7, <3>2, <4>1
    <3> QED
      BY <2>4, <3>1, <3>2 DEF Kept
  <2>9. GoneIsKept(taken)'
    BY <1>14, <2>2, <2>7 DEF GoneIsKept
  <2> QED
    BY <2>5, <2>6, <2>8, <2>9 DEF SpoolInv
<1>17. CASE UNCHANGED vars
  BY <1>17, <1>g DEF vars, sqlVars, spoolVars
<1>18. CASE \E p \in Procs : Step(p)
  BY <1>7, <1>8, <1>9, <1>10, <1>11, <1>12, <1>13, <1>15, <1>18 DEF Step
<1> QED
  BY <1>1, <1>2, <1>3, <1>5, <1>6, <1>15, <1>16, <1>17, <1>18 DEF Next, Utility

(* What is kept stays kept: a directory's sync and a power loss add to it.   *)
LEMMA KeptGrows ==
  ASSUME TypeInv, LockInv, JournalInv, OneRuns, FileInv, NEW taken, SpoolInv(taken), [Next]_vars
  PROVE  /\ Kept(taken) \subseteq Kept(taken)'
         /\ ~PowerLoss => \A n \in DOMAIN closed :
                           n \in DOMAIN closed' /\ closed'[n].lines = closed[n].lines
<1>a. Types
  BY TypeParts
<1>1. ASSUME NEW p \in Procs, Rename(p)
      PROVE  /\ UNCHANGED Kept(taken)
             /\ \A n \in DOMAIN closed : n \in DOMAIN closed' /\ closed'[n].lines = closed[n].lines
  BY <1>1, RenamePublishes
<1>2. ASSUME NEW p \in Procs, SyncDir(p)
      PROVE  UNCHANGED closed /\ Kept(taken) \subseteq Kept(taken)'
  BY <1>a, <1>2 DEF SyncDir, Kept, Types, DirTypes
<1>3. ASSUME NEW p \in Procs, WriteLine(p) \/ Sync(p) PROVE UNCHANGED <<closed, durable>>
  BY <1>3 DEF WriteLine, Sync, SetFile, FileInv
<1>4. CASE PowerLoss
  <2>1. PICK kept \in SUBSET (DOMAIN closed \ durable) :
          /\ closed' = [n \in durable \cup kept |->
                          [closed[n] EXCEPT !.lines = closed[n].stable]]
          /\ durable' = durable \cup kept
    BY <1>4 DEF PowerLoss
  <2>2. ASSUME NEW n \in durable PROVE closed'[n].lines = closed[n].lines
    <3>1. closed[n] \in FileData /\ closed[n].stable = closed[n].lines
      BY <1>a DEF Types, DirTypes, SpoolInv, FilesWhole
    <3>2. closed'[n] = [closed[n] EXCEPT !.lines = closed[n].stable]
      BY <2>1
    <3> QED
      BY <3>1, <3>2 DEF FileData
  <2> QED
    BY <1>4, <2>1, <2>2 DEF Kept
<1>5. CASE \/ Utility \/ UNCHANGED vars
           \/ \E p \in Procs :
                \/ StartDrain(p) \/ Fetch(p) \/ Emit(p) \/ CommitSnapshot(p) \/ Open(p)
                \/ Delete(p) \/ RenameFails(p) \/ Die(p)
                \/ \E min \in MinSeqs, allowLarge \in BOOLEAN : StartSnapshot(p, min, allowLarge)
  <2>1. UNCHANGED <<closed, durable>>
    BY <1>5 DEF Utility, Write, MissedWrite, BreakFeed, RepairFeed, vars, spoolVars, StartDrain,
                Fetch, Emit, CommitSnapshot, Open, Delete, RenameFails, Die, Abandon,
                StartSnapshot
  <2> QED
    BY <2>1 DEF Kept
<1>6. CASE UNCHANGED <<closed, durable>>
  BY <1>6 DEF Kept
<1> QED
  BY <1>1, <1>2, <1>3, <1>4, <1>5, <1>6 DEF Next, Step

(* The layers together are inductive.                                        *)
SpoolSafe == TypeInv /\ LockInv /\ JournalInv /\ OneRuns /\ FileInv /\ SpoolInv({})

(* The layers hold together. *)
LEMMA SpoolSafeAlways ==
  ASSUME ~Overlap, NoneFailsLate
  PROVE  Spec => []SpoolSafe
<1>1. Init => SpoolSafe
  BY TypeInvInit, LockInvInit, JournalInvInit, OneRunsInit, FileInvInit, SpoolInvInit DEF SpoolSafe
<1>2. SpoolSafe /\ [Next]_vars => SpoolSafe'
  BY TypeInvStep, LockInvStep, JournalInvStep, OneRunsStep, FileInvStep, SpoolInvStep DEF SpoolSafe
<1> QED
  BY <1>1, <1>2, PTL DEF Spec

(* rsync may take a closed file at any moment, and after any crash: it holds *)
(* all that its name spans of what the source ever emitted.                  *)
THEOREM ClosedFilesAreComplete ==
  ASSUME ~Overlap, NoneFailsLate
  PROVE  Spec => []ClosedComplete
<1>1. SpoolSafe => ClosedComplete
  BY DEF SpoolSafe, SpoolInv
<1> QED
  BY <1>1, SpoolSafeAlways, PTL

(* A committed change is in the outbox or in a closed file: what the DELETE  *)
(* and the COMMIT take out of the outbox survives a power loss.              *)
THEOREM NothingIsLost ==
  ASSUME ~Overlap, NoneFailsLate
  PROVE  Spec => []NoEventLost
<1>1. SpoolSafe => NoEventLost
  <2> SUFFICES ASSUME SpoolSafe, NEW e \in journal PROVE e \in box.rows \cup Published
    BY DEF NoEventLost
  <2>1. Kept({}) \subseteq Published
    BY FilesAreJournal DEF SpoolSafe
  <2>2. ASSUME NEW p \in Procs, pc[p] = "syncdir", e \in page[p] PROVE e \in Published
    BY <2>2 DEF SpoolSafe, SpoolInv, FilesWhole, Published
  <2> QED
    BY <2>1, <2>2 DEF SpoolSafe, SpoolInv, GoneIsKept
<1> QED
  BY <1>1, SpoolSafeAlways, PTL

(* The closed files never have an event without all the earlier ones of the  *)
(* source, whichever entries a power loss takes: what a Mini that applies    *)
(* the files in the order of their names rests on.                           *)
THEOREM PublishesInOrder ==
  ASSUME ~Overlap, NoneFailsLate
  PROVE  Spec => []PublishedInOrder
<1>1. SpoolSafe => PublishedInOrder
  <2> SUFFICES ASSUME SpoolSafe, NEW n \in DOMAIN closed, NEW e \in closed[n].lines,
                      NEW d \in journal, d.seq < e.seq
               PROVE  d \in Published
    BY DEF PublishedInOrder, Published
  <2>1. d \in Kept({}) \cup closed[n].lines
    BY DEF SpoolSafe, SpoolInv, FilesInOrder, InOrder
  <2> QED
    BY <2>1, FilesAreJournal DEF SpoolSafe, Published
<1> QED
  BY <1>1, SpoolSafeAlways, PTL
-----------------------------------------------------------------------------
(***************************************************************************)
(* The whole bus: between the outbox, the closed files and the Mini no event *)
(* is lost, in whatever order the files reach the Mini, and what is missing  *)
(* below its watermark is in a file that outlives a power loss.              *)
(***************************************************************************)
Tables == INSTANCE MiniTablesProofs WITH Files <- {}

(* Every event is of this utility and AUTOINCREMENT has given it its seq.    *)
OfDb(e) == e.src = Db /\ e.seq > 0

SourceInv ==
  /\ \A e \in journal : OfDb(e)
  /\ \A p \in Procs : Emits(p) => \A e \in page[p] : OfDb(e)

(* The collector's side: what the Mini has logged needs no file any more. *)
CollectInv ==
  /\ TypeInv /\ LockInv /\ JournalInv /\ OneRuns /\ FileInv /\ SourceInv
  /\ \E taken \in {mini.events} : SpoolInv(taken)

(* The Mini's side: it has logged events of the journal, its rows are images *)
(* of those, and its watermark is the last of them.                          *)
Mark == mini.watermarks[Db]

ImagesOf(log, rows) == \A r \in rows : \E c \in log : CarriesRow(c) /\ r = RowOf(c)

MiniInv ==
  /\ mini \in Mini!Database /\ mini.events \subseteq journal
  /\ ImagesOf(mini.events, mini.current)
  /\ \A e \in mini.events : e.seq <= Mark
  /\ Mark = 0 \/ \E e \in mini.events : e.seq = Mark

(* The files of the local spool are whole, and each of them goes on where    *)
(* the Mini and what is durable on Oracle end.                               *)
Ends(n) == \E e \in journal : e.seq = n.hi /\ n.lo <= n.hi

HereInv ==
  \A n \in DOMAIN incoming :
    /\ n \in Name /\ incoming[n] = Span(n) /\ Ends(n)
    /\ InOrder(Kept(mini.events) \cup incoming[n])

(* rsync finds what it has listed, pull.sh applies all there is, and what it *)
(* has removed, and will forget on Oracle, is in the Mini.                   *)
PullInv ==
  /\ pull \in {"idle", "rsync", "apply", "remove", "forget"} /\ listed \subseteq Name
  /\ pull = "idle" => todo = {}
  /\ pull \in {"idle", "rsync"} => listed = {}
  /\ pull = "rsync" => todo \subseteq DOMAIN closed
  /\ pull \in {"apply", "remove"} => todo = DOMAIN incoming /\ todo \subseteq listed
  /\ pull = "remove" => todo # {} /\ incoming[FirstOf(todo)] \subseteq mini.events
  /\ \A n \in listed \ DOMAIN incoming : Ends(n) /\ Span(n) \subseteq mini.events
  /\ pull = "forget" => todo \subseteq listed \ DOMAIN incoming

PipeInv == CollectInv /\ MiniInv /\ HereInv /\ PullInv
-----------------------------------------------------------------------------
(* A page, or a file, has finitely many events, and one order.               *)
LEMMA RangeFinite ==
  ASSUME TypeOK, SeqUnique, NEW n \in Name
  PROVE  IsFiniteSet({e \in journal : n.lo <= e.seq /\ e.seq <= n.hi})
<1> DEFINE E == {e \in journal : n.lo <= e.seq /\ e.seq <= n.hi}
           f == [e \in E |-> e.seq]
<1>1. \A e \in E : e.seq \in n.lo .. n.hi
  BY DEF TypeOK, Event, Name
<1>2. \A d, e \in E : d.seq = e.seq => d = e
  BY DEF SeqUnique
<1>3. f \in Injection(E, n.lo .. n.hi)
  BY <1>1, <1>2 DEF Injection, IsInjective
<1>4. IsFiniteSet(n.lo .. n.hi)
  BY FS_Interval DEF Name
<1> QED
  BY <1>3, <1>4, FS_Injection

LEMMA SortedExists ==
  ASSUME NEW E \in SUBSET Event, IsFiniteSet(E), \A d, e \in E : d.seq = e.seq => d = e
  PROVE  \E s \in [1..Cardinality(E) -> E] :
           \A i, j \in DOMAIN s : i < j => s[i].seq < s[j].seq
<1> DEFINE n == Cardinality(E)
           Till(e) == {d \in E : d.seq <= e.seq}
           Rank == [e \in E |-> Cardinality(Till(e))]
<1>1. n \in Nat /\ IsFiniteSet(1..n) /\ Cardinality(1..n) = n
  BY FS_CardinalityType, FS_Interval
<1>2. \A e \in E : e.seq \in Nat
  BY DEF Event
<1>3. ASSUME NEW e \in E PROVE Rank[e] \in 1..n /\ IsFiniteSet(Till(e))
  <2>1. Till(e) \in SUBSET E /\ e \in Till(e)
    BY <1>2
  <2> HIDE DEF Till
  <2>2. IsFiniteSet(Till(e)) /\ Cardinality(Till(e)) <= n
    BY <2>1, FS_Subset
  <2>3. Cardinality(Till(e)) \in Nat /\ Cardinality(Till(e)) # 0
    BY <2>1, <2>2, FS_CardinalityType, FS_EmptySet
  <2>4. Rank[e] = Cardinality(Till(e))
    OBVIOUS
  <2> QED
    BY <1>1, <2>2, <2>3, <2>4
<1>4. ASSUME NEW d \in E, NEW e \in E, d.seq <= e.seq
      PROVE  Rank[d] <= Rank[e] /\ (Rank[d] = Rank[e] => d = e)
  <2>1. Till(d) \in SUBSET Till(e) /\ e \in Till(e) /\ (e \in Till(d) => e.seq <= d.seq)
    BY <1>2, <1>4
  <2>2. Rank[d] = Cardinality(Till(d)) /\ Rank[e] = Cardinality(Till(e))
    OBVIOUS
  <2>3. IsFiniteSet(Till(e)) /\ IsFiniteSet(Till(d))
    BY <1>3
  <2> HIDE DEF Till, Rank
  <2>4. Cardinality(Till(d)) <= Cardinality(Till(e))
        /\ (Cardinality(Till(d)) = Cardinality(Till(e)) => Till(d) = Till(e))
    BY <2>1, <2>3, FS_Subset
  <2>5. e.seq <= d.seq => d = e
    BY <1>2, <1>4
  <2> QED
    BY <2>1, <2>2, <2>4, <2>5
<1> DEFINE s == [i \in 1..n |-> CHOOSE e \in E : Rank[e] = i]
<1>5. Rank \in Injection(E, 1..n)
  <2>1. \A d, e \in E : Rank[d] = Rank[e] => d = e
    <3> SUFFICES ASSUME NEW d \in E, NEW e \in E, Rank[d] = Rank[e] PROVE d = e
      OBVIOUS
    <3>1. d.seq <= e.seq \/ e.seq <= d.seq
      BY <1>2
    <3> HIDE DEF Rank
    <3> QED
      BY <1>4, <3>1
  <2>2. Rank \in [E -> 1..n]
    <3>1. \A e \in E : Cardinality(Till(e)) \in 1..n
      BY <1>3
    <3> HIDE DEF Till
    <3> QED
      BY <3>1
  <2> HIDE DEF Rank
  <2> QED
    BY <2>1, <2>2 DEF Injection, IsInjective
<1> HIDE DEF Rank
<1>6. \A i \in 1..n : \E e \in E : Rank[e] = i
  <2>1. Rank \in Surjection(E, 1..n)
    BY <1>1, <1>5, FS_Injection
  <2> QED
    BY <2>1 DEF Surjection
<1>7. \A i \in 1..n : s[i] \in E /\ Rank[s[i]] = i
  <2> SUFFICES ASSUME NEW i \in 1..n PROVE s[i] \in E /\ Rank[s[i]] = i
    OBVIOUS
  <2>1. s[i] = CHOOSE e \in E : Rank[e] = i
    OBVIOUS
  <2> HIDE DEF s
  <2> QED
    BY <1>6, <2>1
<1>8. s \in [1..n -> E] /\ DOMAIN s = 1..n
  BY <1>7
<1> HIDE DEF s
<1>9. ASSUME NEW i \in 1..n, NEW j \in 1..n, i < j PROVE s[i].seq < s[j].seq
  <2>1. ~(s[j].seq <= s[i].seq)
    <3> SUFFICES ASSUME s[j].seq <= s[i].seq PROVE FALSE
      OBVIOUS
    <3>1. Rank[s[j]] <= Rank[s[i]]
      BY <1>4, <1>7
    <3> QED
      BY <1>7, <1>9, <3>1
  <2> QED
    BY <1>2, <1>7, <2>1
<1> QED
  BY <1>8, <1>9

LEMMA Sorted ==
  ASSUME NEW E \in SUBSET Event, IsFiniteSet(E), E # {},
         \A d, e \in E : d.seq = e.seq => d = e
  PROVE  LET s == InSeqOrder(E) IN
           /\ s \in Seq(Event) /\ s # <<>> /\ Tables!SeqRange(s) = E
           /\ \A i, j \in DOMAIN s : i < j => s[i].seq < s[j].seq
           /\ \A e \in E : e.seq <= s[Len(s)].seq
<1> DEFINE n == Cardinality(E)
           s == InSeqOrder(E)
<1>1. n \in Nat /\ n # 0 /\ IsFiniteSet(1..n) /\ Cardinality(1..n) = n
  <2>1. n \in Nat /\ n # 0
    BY FS_CardinalityType, FS_EmptySet
  <2> HIDE DEF n
  <2> QED
    BY <2>1, FS_Interval
<1>2. s \in [1..n -> E] /\ \A i, j \in DOMAIN s : i < j => s[i].seq < s[j].seq
  BY SortedExists DEF InSeqOrder
<1> HIDE DEF s
<1>3. DOMAIN s = 1..n /\ s \in Seq(Event) /\ Len(s) = n
  BY <1>1, <1>2
<1>4. \A i \in 1..n : s[i] \in E /\ s[i].seq \in Nat
  BY <1>2 DEF Event
<1>5. \A i, j \in 1..n : s[i] = s[j] => i = j
  <2> SUFFICES ASSUME NEW i \in 1..n, NEW j \in 1..n, s[i] = s[j] PROVE i = j
    OBVIOUS
  <2> QED
    BY <1>2, <1>3, <1>4
<1>6. s \in Surjection(1..n, E)
  <2>1. s \in Injection(1..n, E)
    BY <1>2, <1>5 DEF Injection, IsInjective
  <2> QED
    BY <1>1, <2>1, FS_Injection
<1>7. \A e \in E : \E i \in 1..n : s[i] = e
  BY <1>6 DEF Surjection
<1>8. Tables!SeqRange(s) = E
  BY <1>3, <1>4, <1>7 DEF Tables!SeqRange
<1>9. \A e \in E : e.seq <= s[n].seq
  <2> SUFFICES ASSUME NEW i \in 1..n PROVE s[i].seq <= s[n].seq
    BY <1>7
  <2>1. n \in 1..n /\ (i < n \/ i = n)
    BY <1>1
  <2>2. s[i].seq \in Nat /\ s[n].seq \in Nat
    BY <1>4, <2>1
  <2> QED
    BY <1>2, <1>3, <2>1, <2>2
<1> QED
  BY <1>1, <1>2, <1>3, <1>8, <1>9 DEF s
-----------------------------------------------------------------------------
(* The listing is sorted: FirstOf is the first in it.                        *)
LEMMA NatHasMin ==
  ASSUME NEW S \in SUBSET Nat, S # {}
  PROVE  \E m \in S : \A x \in S : m <= x
<1>1. PICK x \in S : TRUE
  OBVIOUS
<1>2. IsFiniteSet(0..x)
  BY FS_Interval
<1>3. S \cap 0..x \in SUBSET Int /\ S \cap 0..x # {} /\ IsFiniteSet(S \cap 0..x)
  BY <1>1, <1>2, FS_Subset
<1>4. PICK m \in S \cap 0..x : \A y \in S \cap 0..x : m <= y
  BY <1>3, FiniteHasMin
<1> QED
  BY <1>4

LEMMA FirstOfIs ==
  ASSUME NEW names \in SUBSET Name, names # {}
  PROVE  FirstOf(names) \in names /\ \A m \in names : FirstOf(names).lo <= m.lo
<1> DEFINE PathOf(n) == [src |-> Db, lo |-> n.lo, hi |-> n.hi]
           First(n) == \A m \in names : m = n \/ Mini!Before(PathOf(n), PathOf(m))
           Los == {n.lo : n \in names}
<1>1. Db \in Int /\ \A n \in names : n.lo \in Nat /\ n.hi \in Nat
  BY EventConstants, CollectConstants DEF Name
<1>2. \A m, n \in names : m.lo = n.lo /\ m.hi = n.hi => m = n
  BY DEF Name
<1>3. PICK lo \in Los : \A l \in Los : lo <= l
  <2>1. Los \in SUBSET Nat /\ Los # {}
    BY <1>1
  <2> HIDE DEF Los
  <2> QED
    BY <2>1, NatHasMin
<1> DEFINE His == {n.hi : n \in {m \in names : m.lo = lo}}
<1>4. PICK hi \in His : \A h \in His : hi <= h
  <2>1. His \in SUBSET Nat /\ His # {}
    BY <1>1, <1>3
  <2> HIDE DEF His
  <2> QED
    BY <2>1, NatHasMin
<1>5. PICK n \in names : n.lo = lo /\ n.hi = hi
  BY <1>4
<1>6. \A m \in names : lo <= m.lo /\ (m.lo = lo => hi <= m.hi)
  BY <1>3, <1>4
<1>7. \A m, k \in names :
        Mini!Before(PathOf(k), PathOf(m)) <=> k.lo < m.lo \/ (k.lo = m.lo /\ k.hi < m.hi)
  BY <1>1 DEF Mini!Before
<1> HIDE DEF PathOf
<1>8. First(n)
  <2> SUFFICES ASSUME NEW m \in names, m # n
               PROVE  n.lo < m.lo \/ (n.lo = m.lo /\ n.hi < m.hi)
    BY <1>7
  <2> QED
    BY <1>1, <1>2, <1>5, <1>6
<1>9. FirstOf(names) = CHOOSE k \in names : First(k)
  BY DEF FirstOf, PathOf
<1> HIDE DEF First
<1>10. FirstOf(names) \in names /\ First(FirstOf(names))
  BY <1>8, <1>9
<1>11. \A k \in names : First(k) => \A m \in names : k.lo <= m.lo
  BY <1>1, <1>7 DEF First
<1> QED
  BY <1>10, <1>11
-----------------------------------------------------------------------------
(* The Mini's tables are MiniTables' with no files to compare them with.     *)
LEMMA SameTables ==
  /\ Mini!Database = Tables!Database /\ Tables!Event = Event /\ Tables!Row = Row
  /\ \A S : LiveRows(S) = Tables!LiveRows(S)
  /\ \A e : RowOf(e) = Tables!RowOf(e) /\ CarriesRow(e) = Tables!CarriesRow(e)
  /\ \A S, e : Latest(S, e) = Tables!Latest(S, e)
  /\ \A log, rows : ImagesOf(log, rows) = Tables!FromLog(log, rows)
  /\ \A d, body : Mini!ApplyFile(d, body) = Tables!ApplyFile(d, body)
<1>1. Mini!Database = Tables!Database /\ Tables!Event = Event /\ Tables!Row = Row
  BY DEF Mini!Database, Tables!Database, Mini!Event, Tables!Event, Event, Mini!Row, Tables!Row,
         Row, Mini!Ops, Tables!Ops, Ops
<1>2. \A S : LiveRows(S) = Tables!LiveRows(S)
  BY DEF LiveRows, Tables!LiveRows, RowOf, Tables!RowOf, CarriesRow, Tables!CarriesRow,
         Latest, Tables!Latest, SameRow, Tables!SameRow
<1>3. ASSUME NEW d, NEW body PROVE Mini!ApplyFile(d, body) = Tables!ApplyFile(d, body)
  BY DEF Mini!ApplyFile, Tables!ApplyFile, Mini!ApplyEvent, Tables!ApplyEvent,
         Mini!Logged, Tables!Logged, Mini!ApplyCurrent, Tables!ApplyCurrent,
         Mini!Bumped, Tables!Bumped, Mini!Deleted, Tables!Deleted,
         Mini!Upserted, Tables!Upserted, Mini!Retracted, Tables!Retracted,
         Mini!LaterDelete, Tables!LaterDelete, Mini!SameRow, Tables!SameRow,
         Mini!RowOf, Tables!RowOf, Mini!CarriesRow, Tables!CarriesRow
<1>4. \A e : RowOf(e) = Tables!RowOf(e) /\ CarriesRow(e) = Tables!CarriesRow(e)
  BY DEF RowOf, Tables!RowOf, CarriesRow, Tables!CarriesRow
<1>5. \A S, e : Latest(S, e) = Tables!Latest(S, e)
  BY DEF Latest, Tables!Latest, SameRow, Tables!SameRow, CarriesRow, Tables!CarriesRow
<1>6. \A log, rows : ImagesOf(log, rows) = Tables!FromLog(log, rows)
  BY DEF ImagesOf, Tables!FromLog, RowOf, Tables!RowOf, CarriesRow, Tables!CarriesRow
<1> QED
  BY <1>1, <1>2, <1>3, <1>4, <1>5, <1>6
-----------------------------------------------------------------------------
(* The collector's steps.  New events are of this utility and come after all *)
(* that there were.                                                          *)
Adds(new) ==
  /\ new \subseteq Event /\ journal' = journal \cup new
  /\ \A e \in new : OfDb(e) /\ \A d \in journal : d.seq < e.seq

LEMMA JournalGrows ==
  ASSUME ~Overlap, NoneFailsLate, TypeInv, LockInv, JournalInv, OneRuns, FileInv, SourceInv,
         [Next]_vars
  PROVE  SourceInv' /\ \E new : Adds(new)
<1>a. Types
  BY TypeParts
<1>b. /\ box.seq \in Nat /\ tx.seq \in Nat /\ Db \in SrcDbs
      /\ \A e \in journal : e.seq \in Nat
  BY <1>a, CollectConstants DEF Types, SqlTypes, Outbox, Event
<1>c. CurrentSeq(box) = box.seq /\ CurrentSeq(tx) = tx.seq
  BY <1>a, CurrentSeqOf DEF Types, SqlTypes, LockInv, SeqOnTop
<1>d. ASSUME UNCHANGED journal,
             \A q \in Procs : Emits(q)' => \A e \in page'[q] : OfDb(e)
      PROVE  SourceInv' /\ \E new : Adds(new)
  <2>1. Adds({})
    BY <1>d DEF Adds
  <2> QED
    BY <1>d, <2>1 DEF SourceInv, OfDb
<1>e. ASSUME UNCHANGED <<journal, procVars>> PROVE SourceInv' /\ \E new : Adds(new)
  <2>1. \A q \in Procs : Emits(q)' => \A e \in page'[q] : OfDb(e)
    BY <1>e DEF Emits, Holding, procVars, SourceInv
  <2> QED
    BY <1>d, <1>e, <2>1
<1>f. ASSUME UNCHANGED journal, NEW p \in Procs, \A q \in Procs : q # p => pc'[q] = "idle",
             Emits(p)' => Emits(p) /\ page'[p] = page[p]
      PROVE  SourceInv' /\ \E new : Adds(new)
  <2>1. \A q \in Procs : Emits(q)' => \A e \in page'[q] : OfDb(e)
    <3> SUFFICES ASSUME NEW q \in Procs, Emits(q)' PROVE \A e \in page'[q] : OfDb(e)
      OBVIOUS
    <3>1. q = p
      BY <1>f DEF Emits, Holding
    <3> QED
      BY <1>f, <3>1 DEF SourceInv
  <2> QED
    BY <1>d, <1>f, <2>1
<1>1. ASSUME NEW k \in Keys, NEW op \in Ops, NEW image \in Afters \cup {NoAfter},
             Write(k, op, image)
      PROVE  SourceInv' /\ \E new : Adds(new)
  <2> DEFINE e == [src |-> Db, seq |-> box.seq + 1, key |-> k, op |-> op, after |-> image]
  <2>1. /\ journal' = journal \cup {e} /\ UNCHANGED procVars /\ lock = "none"
    BY <1>1, <1>c DEF Write
  <2>2. e \in Event /\ OfDb(e) /\ e.seq = box.seq + 1
    BY <1>b, CollectConstants DEF Event, OfDb
  <2> HIDE DEF e
  <2>3. \A d \in journal : d.seq < e.seq
    BY <1>b, <2>1, <2>2 DEF LockInv, TxOfBox, JournalInv, SeqsTaken
  <2>4. Adds({e})
    BY <2>1, <2>2, <2>3 DEF Adds
  <2>5. \A q \in Procs : ~Emits(q)'
    BY <2>1, CollectConstants DEF LockInv, LockFits, PhaseFits, Emits, Holding, procVars
  <2>6. \A d \in journal' : OfDb(d)
    BY <2>1, <2>2 DEF SourceInv
  <2> QED
    BY <2>4, <2>5, <2>6 DEF SourceInv, OfDb
<1>2. ASSUME NEW k \in Keys, NEW op \in Ops, NEW image \in Afters \cup {NoAfter},
             MissedWrite(k, op, image)
      PROVE  SourceInv' /\ \E new : Adds(new)
  BY <1>2, <1>e DEF MissedWrite
<1>3. ASSUME BreakFeed \/ RepairFeed PROVE SourceInv' /\ \E new : Adds(new)
  BY <1>3, <1>e DEF BreakFeed, RepairFeed
<1>4. ASSUME NEW p \in Procs,
             \/ StartDrain(p)
             \/ \E min \in MinSeqs, allowLarge \in BOOLEAN : StartSnapshot(p, min, allowLarge)
      PROVE  SourceInv' /\ \E new : Adds(new)
  <2>1. pc'[p] = "fetch" /\ UNCHANGED journal
    BY <1>a, <1>4 DEF StartDrain, StartSnapshot, Goto, Types, ProcTypes
  <2>2. \A q \in Procs : q # p => pc'[q] = "idle"
    BY <1>4, OthersStayIdle
  <2> QED
    BY <1>f, <2>1, <2>2 DEF Emits, Holding
<1>5. ASSUME NEW p \in Procs, Fetch(p) \/ Delete(p) \/ CommitSnapshot(p)
      PROVE  SourceInv' /\ \E new : Adds(new)
  <2>1. /\ UNCHANGED journal
        /\ \/ EndDrain(p) \/ (Stop(p) /\ pc[p] = "commit")
           \/ (UNCHANGED phase /\ pc[p] \in {"fetch", "delete"})
    BY <1>5 DEF Fetch, Delete, CommitSnapshot
  <2>2. \A q \in Procs : q # p => pc'[q] = "idle"
    BY <1>5, OthersStayIdle DEF Step
  <2>3. ~Emits(p)'
    <3>1. CASE EndDrain(p) \/ Stop(p)
      BY <1>a, <3>1 DEF EndDrain, Stop, Goto, Types, ProcTypes, Emits, Holding
    <3>2. CASE UNCHANGED phase /\ pc[p] \in {"fetch", "delete"}
      BY <3>2 DEF LockInv, LockFits, PhaseFits, Emits
    <3> QED
      BY <2>1, <3>1, <3>2
  <2> QED
    BY <1>f, <2>1, <2>2, <2>3
<1>6. ASSUME NEW p \in Procs, Emit(p) PROVE SourceInv' /\ \E new : Adds(new)
  <2> DEFINE rows == Lowest({k \in Present : k > after[p]}, Batch)
  <2>1. UNCHANGED <<journal, phase>>
    BY <1>6 DEF Emit
  <2>2. \A q \in Procs : q # p => pc'[q] = "idle"
    BY <1>6, OthersStayIdle DEF Step
  <2>3. CASE pc' = [pc EXCEPT ![p] = "commit"]
    <3>1. pc'[p] = "commit"
      BY <1>a, <2>3 DEF Types, ProcTypes
    <3> QED
      BY <1>f, <2>1, <2>2, <3>1 DEF Emits, Holding
  <2>4. CASE rows # {} /\ page' = [page EXCEPT ![p] = Reemitted(rows, tx.seq)]
    <3>1. rows \in SUBSET Present /\ TypeOK
      BY DEF Lowest, TypeInv
    <3> HIDE DEF rows
    <3>2. \A e \in Reemitted(rows, tx.seq) : e.src = Db
      BY <3>1, ReemittedRows DEF Tells
    <3>3. /\ Reemitted(rows, tx.seq) \in SUBSET Event
          /\ \A e \in Reemitted(rows, tx.seq) : tx.seq < e.seq
      BY <1>b, <2>4, <3>1, ReemittedPage
    <3>4. \A e \in page'[p] : OfDb(e)
      <4>1. page'[p] = Reemitted(rows, tx.seq)
        BY <1>a, <2>4 DEF Types, ProcTypes
      <4>2. \A e \in Reemitted(rows, tx.seq) : e.seq \in Nat /\ tx.seq < e.seq
        BY <3>3 DEF Event
      <4> QED
        BY <1>b, <3>2, <4>1, <4>2 DEF OfDb
    <3>5. \A q \in Procs : Emits(q)' => \A e \in page'[q] : OfDb(e)
      <4>1. \A q \in Procs : Emits(q)' => q = p
        BY <2>2 DEF Emits, Holding
      <4> QED
        BY <3>4, <4>1
    <3> QED
      BY <1>d, <2>1, <3>5
  <2> QED
    BY <1>6, <1>c, <2>3, <2>4 DEF Emit, Goto
<1>7. ASSUME NEW p \in Procs, Open(p) \/ WriteLine(p) \/ Sync(p) \/ SyncDir(p)
      PROVE  SourceInv' /\ \E new : Adds(new)
  <2>1. /\ UNCHANGED <<journal, page, phase>> /\ Holding(p)
    BY <1>7 DEF Open, WriteLine, Sync, SyncDir, Holding
  <2>2. \A q \in Procs : q # p => pc'[q] = "idle"
    BY <1>7, OthersStayIdle DEF Step
  <2> QED
    BY <1>f, <2>1, <2>2 DEF Emits
<1>8. ASSUME NEW p \in Procs, Rename(p) PROVE SourceInv' /\ \E new : Adds(new)
  <2>1. /\ pc[p] = "rename" /\ journal' = journal \cup page[p] /\ UNCHANGED <<page, phase>>
    BY <1>8 DEF Rename
  <2>2. \A q \in Procs : q # p => pc'[q] = "idle"
    BY <1>8, OthersStayIdle DEF Step
  <2>3. CASE phase[p] = "drain"
    <3>1. page[p] \subseteq journal
      BY <2>1, <2>3 DEF Drains, Holding, JournalInv, PagesWhole, Span
    <3>2. UNCHANGED journal /\ ~Emits(p)'
      BY <2>1, <2>3, <3>1 DEF Emits
    <3> QED
      BY <1>f, <2>2, <3>2
  <2>4. CASE phase[p] = "emit"
    <3>1. Emits(p) /\ page[p] \in SUBSET Event
      BY <1>a, <2>1, <2>4 DEF Emits, Holding, Types, ProcTypes
    <3>2. \A e \in page[p] : OfDb(e) /\ \A d \in journal : d.seq < e.seq
      BY <2>1, <3>1 DEF SourceInv, JournalInv, EmitsNew
    <3>3. Adds(page[p])
      BY <2>1, <3>1, <3>2 DEF Adds
    <3>4. \A q \in Procs : Emits(q)' => \A e \in page'[q] : OfDb(e)
      <4>1. \A q \in Procs : Emits(q)' => q = p
        BY <2>2 DEF Emits, Holding
      <4> QED
        BY <2>1, <3>2, <4>1
    <3>5. \A e \in journal' : OfDb(e)
      BY <2>1, <3>2 DEF SourceInv
    <3> QED
      BY <3>3, <3>4, <3>5 DEF SourceInv, OfDb
  <2> QED
    BY <1>a, <2>3, <2>4 DEF Types, ProcTypes
<1>9. CASE (\E p \in Procs : Die(p) \/ RenameFails(p)) \/ PowerLoss
  <2>1. journal' = journal /\ \A q \in Procs : pc'[q] = "idle"
    BY <1>9, AbandonKeepsSeqs
  <2> QED
    BY <1>d, <2>1 DEF Emits, Holding
<1>10. CASE UNCHANGED vars
  BY <1>10, <1>e DEF vars
<1>11. CASE \E p \in Procs : Step(p)
  BY <1>5, <1>6, <1>7, <1>8, <1>9, <1>11 DEF Step
<1> QED
  BY <1>1, <1>2, <1>3, <1>4, <1>9, <1>10, <1>11 DEF Next, Utility

(* What a collector's step leaves of the Mini, of the local spool and of the *)
(* names that were applied: new events come after all of them.               *)
LEMMA CollectKeeps ==
  ASSUME ~Overlap, NoneFailsLate, PipeInv, [Next]_vars, UNCHANGED <<mini, incoming>>
  PROVE  /\ CollectInv' /\ MiniInv' /\ HereInv'
         /\ \A n \in Name : Ends(n) => Ends(n)' /\ Span(n)' = Span(n)
<1>1. TypeInv /\ LockInv /\ JournalInv /\ OneRuns /\ FileInv /\ SourceInv /\ MiniInv /\ HereInv
  BY DEF PipeInv, CollectInv
<1>2. SourceInv' /\ \E new : Adds(new)
  BY <1>1, JournalGrows
<1>3. PICK taken : taken = mini.events /\ SpoolInv(taken)
  BY DEF PipeInv, CollectInv
<1>4. SpoolInv(taken)' /\ Kept(taken) \subseteq Kept(taken)'
  BY <1>1, <1>3, SpoolInvStep, KeptGrows
<1>5. CollectInv'
  <2>1. \E A \in {mini.events'} : SpoolInv(A)'
    BY <1>3, <1>4
  <2>2. TypeInv' /\ LockInv' /\ JournalInv' /\ OneRuns' /\ FileInv'
    BY <1>1, TypeInvStep, LockInvStep, JournalInvStep, OneRunsStep, FileInvStep
  <2> QED
    BY <1>2, <2>1, <2>2 DEF CollectInv
<1>6. PICK new : Adds(new)
  BY <1>2
<1>7. /\ \A e \in journal : e.seq \in Nat
      /\ \A e \in new : e.seq \in Nat /\ \A d \in journal : d.seq < e.seq
      /\ journal' = journal \cup new
  BY <1>1, <1>6 DEF TypeInv, TypeOK, Event, Adds
<1>8. ASSUME NEW n \in Name, Ends(n) PROVE Ends(n)' /\ Span(n)' = Span(n)
  <2>1. PICK d \in journal : d.seq = n.hi
    BY <1>8 DEF Ends
  <2>2. \A e \in new : ~(e.seq <= n.hi)
    BY <1>7, <2>1
  <2> QED
    BY <1>7, <1>8, <2>2 DEF Ends, Span
<1>9. MiniInv'
  BY <1>1, <1>7 DEF MiniInv, Mark
<1>10. HereInv'
  <2> SUFFICES ASSUME NEW n \in DOMAIN incoming
               PROVE  /\ n \in Name /\ incoming[n] = Span(n)' /\ Ends(n)'
                      /\ InOrder(Kept(taken) \cup incoming[n])'
    BY <1>3 DEF HereInv
  <2>1. n \in Name /\ incoming[n] = Span(n)' /\ Ends(n)'
    BY <1>1, <1>8 DEF HereInv
  <2>2. ASSUME NEW e \in Kept(taken)' \cup incoming[n], NEW d \in journal', d.seq < e.seq
        PROVE  d \in Kept(taken)' \cup incoming[n]
    <3>1. CASE e \in Kept(taken)'
      BY <1>4, <2>2, <3>1 DEF SpoolInv, KeptInOrder, InOrder
    <3>2. CASE e \in incoming[n]
      <4>1. e \in journal
        BY <1>1, <3>2 DEF HereInv, Span
      <4>2. d \in journal
        BY <1>7, <2>2, <4>1
      <4>3. d \in Kept(taken) \cup incoming[n]
        BY <1>1, <1>3, <2>2, <3>2, <4>2 DEF HereInv, InOrder
      <4> QED
        BY <1>4, <4>3
    <3> QED
      BY <2>2, <3>1, <3>2
  <2> QED
    BY <2>1, <2>2 DEF InOrder
<1> QED
  BY <1>5, <1>8, <1>9, <1>10

(* A collector's step changes nothing of what the Mini and pull.sh know; a   *)
(* power loss may end rsync or forget-spool.sh.                              *)
LEMMA CollectStep ==
  ASSUME ~Overlap, NoneFailsLate, PipeInv, [Next]_vars, UNCHANGED <<mini, incoming>>,
         EndPull \/ (UNCHANGED pullVars /\ (PowerLoss /\ Connected => UNCHANGED closed))
  PROVE  PipeInv'
<1>1. TypeInv /\ LockInv /\ JournalInv /\ OneRuns /\ FileInv /\ PullInv
  BY DEF PipeInv, CollectInv
<1>2. /\ CollectInv' /\ MiniInv' /\ HereInv'
      /\ \A n \in Name : Ends(n) => Ends(n)' /\ Span(n)' = Span(n)
  BY CollectKeeps
<1>3. PullInv'
  <2>1. CASE EndPull
    BY <2>1 DEF EndPull, PullInv
  <2>2. CASE UNCHANGED pullVars /\ (PowerLoss /\ Connected => UNCHANGED closed)
    <3>1. UNCHANGED <<mini, incoming, pull, listed, todo>> /\ FirstOf(todo)' = FirstOf(todo)
      BY <2>2 DEF pullVars, FirstOf
    <3>2. pull = "rsync" => todo \subseteq DOMAIN closed'
      <4>1. PICK taken : taken = mini.events /\ SpoolInv(taken)
        BY DEF PipeInv, CollectInv
      <4>2. ~PowerLoss => DOMAIN closed \subseteq DOMAIN closed'
        BY <1>1, <4>1, KeptGrows
      <4> QED
        BY <1>1, <2>2, <4>2 DEF Connected, PullInv
    <3>3. \A n \in listed \ DOMAIN incoming : Ends(n)' /\ Span(n)' \subseteq mini.events
      BY <1>1, <1>2 DEF PullInv
    <3> QED
      BY <1>1, <3>1, <3>2, <3>3 DEF PullInv
  <2> QED
    BY <2>1, <2>2
<1> QED
  BY <1>2, <1>3 DEF PipeInv
-----------------------------------------------------------------------------
(* pull.sh's steps. *)

(* The more the Mini has logged, the less the files are needed. *)
LEMMA TakenMore ==
  ASSUME NEW taken, NEW more, SpoolInv(taken), taken \subseteq more, KeptInOrder(more)
  PROVE  SpoolInv(more)
<1>1. Kept(taken) \subseteq Kept(more) /\ Kept(more) = more \cup Kept(taken)
  BY DEF Kept
<1>2. FilesInOrder(more)
  <2> SUFFICES ASSUME NEW n \in DOMAIN closed, NEW e \in Kept(more) \cup closed[n].lines,
                      NEW d \in journal, d.seq < e.seq
               PROVE  d \in Kept(more) \cup closed[n].lines
    BY DEF FilesInOrder, InOrder
  <2>1. CASE e \in Kept(more)
    BY <2>1 DEF KeptInOrder, InOrder
  <2>2. CASE e \in closed[n].lines
    BY <1>1, <2>2 DEF SpoolInv, FilesInOrder, InOrder
  <2> QED
    BY <2>1, <2>2
<1>3. FilesWhole(more)
  BY DEF SpoolInv, FilesWhole
<1>4. GoneIsKept(more)
  BY <1>1 DEF SpoolInv, GoneIsKept
<1> QED
  BY <1>2, <1>3, <1>4 DEF SpoolInv

(* The collector's variables stay as they are. *)
LEMMA CollectStays ==
  ASSUME ~Overlap, NoneFailsLate, TypeInv, LockInv, JournalInv, OneRuns, FileInv, SourceInv,
         NEW taken, SpoolInv(taken), UNCHANGED vars, mini.events' = taken
  PROVE  CollectInv'
<1>1. [Next]_vars
  OBVIOUS
<1>2. SpoolInv(taken)' /\ SourceInv'
  BY <1>1, SpoolInvStep, JournalGrows
<1>3. TypeInv' /\ LockInv' /\ JournalInv' /\ OneRuns' /\ FileInv'
  BY <1>1, TypeInvStep, LockInvStep, JournalInvStep, OneRunsStep, FileInvStep
<1>4. \E A \in {mini.events'} : SpoolInv(A)'
  BY <1>2
<1> QED
  BY <1>2, <1>3, <1>4 DEF CollectInv

(* Files whose events the Mini has logged may go, whatever becomes of them   *)
(* while the collector goes on.                                              *)
LEMMA FilesGo ==
  ASSUME CollectInv, MiniInv, UNCHANGED <<sqlVars, tmp, procVars, journal, mini>>, deaths' \in Nat,
         DOMAIN closed' \subseteq DOMAIN closed, durable' = durable \cap DOMAIN closed',
         \A n \in DOMAIN closed' : closed'[n] = closed[n],
         \A n \in DOMAIN closed \ DOMAIN closed' : closed[n].lines \subseteq mini.events
  PROVE  CollectInv' /\ UNCHANGED Kept(mini.events)
<1>1. TypeInv /\ LockInv /\ JournalInv /\ OneRuns /\ FileInv /\ SourceInv
  BY DEF CollectInv
<1>2. PICK taken : taken = mini.events /\ SpoolInv(taken)
  BY DEF CollectInv
<1>3. LockInv'
  BY <1>1 DEF LockInv, LockFits, PhaseFits, SeqOnTop, TxOfBox, PageLow, TxPage, Drains, Holding,
              Box, sqlVars, procVars
<1>4. OneRuns' /\ FileInv'
  BY <1>1 DEF OneRuns, FileInv, procVars
<1>5. JournalInv'
  <2>1. SeqUnique' /\ SeqsTaken' /\ NoneAhead' /\ BoxIsTail'
    BY <1>1 DEF JournalInv, SeqUnique, SeqsTaken, NoneAhead, BoxIsTail, sqlVars, procVars
  <2>2. PagesWhole'
    BY <1>1 DEF JournalInv, PagesWhole, Span, Drains, Holding, procVars
  <2>3. EmitsNew'
    BY <1>1 DEF JournalInv, EmitsNew, Emits, Holding, sqlVars, procVars
  <2>4. EmitsToTmp'
    BY <1>1 DEF JournalInv, EmitsToTmp, procVars
  <2> QED
    BY <2>1, <2>2, <2>3, <2>4 DEF JournalInv
<1>6. SourceInv'
  BY <1>1 DEF SourceInv, Emits, Holding, procVars
<1>7. TypeInv'
  <2>1. Types
    BY <1>1, TypeParts
  <2>2. SqlTypes'
    BY <2>1 DEF Types, SqlTypes, sqlVars
  <2>3. LockType' /\ ProcTypes' /\ PageTypes'
    BY <2>1 DEF Types, LockType, ProcTypes, PageTypes, Holding, sqlVars, procVars
  <2>4. DirTypes'
    BY <2>1 DEF Types, DirTypes
  <2>5. OpenTypes'
    <3>1. \A p \in Procs : fd[p] # "closed"
      BY <1>1, <2>1 DEF FileInv, Types, PageTypes
    <3> QED
      BY <2>1, <3>1 DEF Types, OpenTypes, procVars
  <2> QED
    BY <2>2, <2>3, <2>4, <2>5, TypePartsNext DEF Types
<1>8. \A n \in DOMAIN closed \ DOMAIN closed' : closed[n].lines \subseteq taken
  BY <1>2
<1>9. Kept(taken)' = Kept(taken)
  <2>1. durable \subseteq DOMAIN closed
    BY <1>1 DEF TypeInv, TypeOK
  <2>2. Kept(taken)' \subseteq Kept(taken)
    BY DEF Kept
  <2>3. ASSUME NEW n \in durable PROVE closed[n].lines \subseteq Kept(taken)'
    BY <1>8, <2>1 DEF Kept
  <2>4. Kept(taken) \subseteq Kept(taken)'
    BY <2>3 DEF Kept
  <2> QED
    BY <2>2, <2>4
<1>10. SpoolInv(taken)'
  <2>1. KeptInOrder(taken)' /\ ClosedComplete' /\ FilesInOrder(taken)'
    BY <1>2, <1>9 DEF SpoolInv, KeptInOrder, ClosedComplete, FilesInOrder, InOrder
  <2>2. FilesWhole(taken)'
    <3>1. ASSUME NEW p \in Procs, pc[p] = "syncdir"
          PROVE  \/ page[p] \subseteq taken
                 \/ NameOf(page[p]) \in DOMAIN closed' /\ closed'[NameOf(page[p])].lines = page[p]
      BY <1>2, <1>8, <3>1 DEF SpoolInv, FilesWhole
    <3> QED
      BY <1>2, <3>1 DEF SpoolInv, FilesWhole, procVars
  <2>3. GoneIsKept(taken)'
    BY <1>2, <1>9 DEF SpoolInv, GoneIsKept, Emits, Holding, sqlVars, procVars
  <2> QED
    BY <2>1, <2>2, <2>3 DEF SpoolInv
<1>11. \E A \in {mini.events'} : SpoolInv(A)'
  BY <1>2, <1>10
<1>12. UNCHANGED Kept(mini.events)
  BY <1>2, <1>9 DEF Kept
<1> QED
  BY <1>3, <1>4, <1>5, <1>6, <1>7, <1>11, <1>12 DEF CollectInv

(* What an applied file does to the Mini, row by row: a row that one of its  *)
(* new events decides is right, a right row that no D reaches too late stays *)
(* as it is, and the image that a late D takes, or that was missing, is      *)
(* missing.                                                                  *)
RowsOfK(rows, k) == {r \in rows : r.key = k}
Decisive(e) == e.op = "D" \/ CarriesRow(e)

Takes(E) ==
  LET log == mini.events \cup E
      new == log \ mini.events IN
    /\ mini' \in Mini!Database /\ mini'.events = log /\ ImagesOf(log, mini'.current)
    /\ \A m \in new : Decisive(m) /\ Latest(log, m) =>
         RowsOfK(mini'.current, m.key) = RowsOfK(LiveRows(log), m.key)
    /\ \A m \in mini.events :
         /\ CarriesRow(m) /\ Latest(log, m)
         /\ RowOf(m) \notin mini.current \/ \E e \in new : e.key = m.key /\ e.op = "D"
         => RowOf(m) \notin mini'.current
    /\ \A k :
         /\ \A m \in new : m.key = k /\ Decisive(m) => ~Latest(log, m)
         /\ RowsOfK(mini.current, k) = RowsOfK(LiveRows(mini.events), k)
         /\ \A m \in mini.events, e \in new :
              m.key = k /\ CarriesRow(m) /\ Latest(log, m) => ~(e.key = k /\ e.op = "D")
         => /\ RowsOfK(mini'.current, k) = RowsOfK(mini.current, k)
            /\ RowsOfK(mini'.current, k) = RowsOfK(LiveRows(log), k)

LEMMA ApplyTakes ==
  ASSUME PipeInv, ApplyNext
  PROVE  LET f == FirstOf(todo) IN
           /\ f \in DOMAIN incoming /\ Takes(incoming[f])
           /\ Mark' = (IF Mark < f.hi THEN f.hi ELSE Mark)
<1> DEFINE f == FirstOf(todo)
           E == incoming[f]
           body == InSeqOrder(E)
<1>1. /\ TypeOK /\ SeqUnique /\ SourceInv /\ MiniInv /\ HereInv /\ PullInv
      /\ pull = "apply" /\ todo # {} /\ mini' = Mini!ApplyFile(mini, body)
      /\ UNCHANGED <<journal, incoming>> /\ tx.seq \in Nat /\ SeqsTaken
  BY DEF PipeInv, CollectInv, TypeInv, TypeOK, Outbox, JournalInv, ApplyNext, vars
<1>2. todo = DOMAIN incoming /\ f \in DOMAIN incoming
  <2>1. todo = DOMAIN incoming /\ todo \in SUBSET Name
    BY <1>1 DEF PullInv
  <2> HIDE DEF f
  <2> QED
    BY <1>1, <2>1, FirstOfIs DEF f
<1>3. /\ f \in Name /\ f.lo \in Nat /\ f.hi \in Nat
      /\ E = {e \in journal : f.lo <= e.seq /\ e.seq <= f.hi} /\ \E e \in E : e.seq = f.hi
  <2>1. f \in Name /\ E = Span(f) /\ Ends(f)
    BY <1>1, <1>2 DEF HereInv
  <2> HIDE DEF f
  <2> QED
    BY <2>1 DEF Name, Span, Ends
<1> HIDE DEF f
<1>4. /\ E \in SUBSET Event /\ E # {} /\ IsFiniteSet(E) /\ \A d, e \in E : d.seq = e.seq => d = e
  <2>1. E \in SUBSET Event /\ E # {} /\ \A d, e \in E : d.seq = e.seq => d = e
    BY <1>1, <1>3 DEF TypeOK, SeqUnique
  <2>2. IsFiniteSet(E)
    BY <1>1, <1>3, RangeFinite
  <2> QED
    BY <2>1, <2>2
<1> HIDE DEF E
<1>5. /\ body \in Seq(Event) /\ body # <<>> /\ Tables!SeqRange(body) = E
      /\ \A i, j \in DOMAIN body : i < j => body[i].seq < body[j].seq
      /\ \A e \in E : e.seq <= body[Len(body)].seq
  BY <1>4, Sorted
<1> HIDE DEF body
<1>6. Len(body) \in DOMAIN body /\ body[Len(body)] \in E
  <2>1. DOMAIN body = 1..Len(body) /\ Len(body) \in Nat /\ Len(body) # 0
    BY <1>5
  <2> QED
    BY <1>5, <2>1 DEF Tables!SeqRange
<1>7. /\ \A e \in journal : e \in Event /\ e.seq \in Nat /\ e.src = Db
      /\ mini.events \cup E \subseteq journal
      /\ mini.watermarks \in [SrcDbs -> Nat] /\ Db \in SrcDbs
  BY <1>1, <1>3, CollectConstants
     DEF TypeOK, Event, SourceInv, OfDb, MiniInv, Mini!Database
<1>8. body[Len(body)].seq = f.hi /\ body[Len(body)].src = Db
  <2>1. body[Len(body)].seq <= f.hi /\ f.hi <= body[Len(body)].seq
    BY <1>3, <1>5, <1>6
  <2> QED
    BY <1>3, <1>6, <1>7, <2>1
<1>9. PICK top \in Nat : \A e \in journal : e.seq <= top
  BY <1>1 DEF SeqsTaken
<1>10. /\ mini \in Tables!Database /\ Tables!FromLog(mini.events, mini.current)
       /\ body \in Seq(Tables!Event) /\ Tables!OneSource(mini.events \cup E, Db)
       /\ \A e \in mini.events \cup E : e.seq <= top
  <2>1. Tables!OneSource(mini.events \cup E, Db)
    BY <1>1, <1>7 DEF Tables!OneSource, SeqUnique
  <2>2. body \in Seq(Tables!Event)
    BY <1>5, SameTables
  <2> QED
    BY <1>1, <1>7, <1>9, <2>1, <2>2, SameTables DEF MiniInv
<1>11. Tables!Journal = {}
  BY DEF Tables!Journal
<1>12. /\ Tables!Follows(mini, mini', E)
       /\ mini'.watermarks = Tables!Bumped(mini.watermarks, body[Len(body)])
  <2>1. mini' = Tables!ApplyFile(mini, body)
    BY <1>1, SameTables
  <2> QED
    BY <1>5, <1>10, <1>11, <2>1, EventConstants, Tables!AppliedAnyOrder
<1>13. /\ \A m : Tables!Decides(m) = Decisive(m)
       /\ \A rows, k : Tables!RowsAt(rows, k) = RowsOfK(rows, k)
  BY SameTables DEF Tables!Decides, Decisive, Tables!RowsAt, RowsOfK
<1>14. Takes(E)
  BY <1>12, <1>13, SameTables DEF Takes, Tables!Follows
<1>15. Mark' = (IF Mark < f.hi THEN f.hi ELSE Mark)
  <2>1. mini'.watermarks = [mini.watermarks EXCEPT ![Db] = IF @ < f.hi THEN f.hi ELSE @]
    BY <1>8, <1>12 DEF Tables!Bumped
  <2> QED
    BY <1>7, <2>1 DEF Mark
<1> QED
  BY <1>2, <1>14, <1>15 DEF f, E

LEMMA ApplyStep ==
  ASSUME ~Overlap, NoneFailsLate, PipeInv, ApplyNext
  PROVE  PipeInv'
<1> DEFINE f == FirstOf(todo)
<1>1. /\ TypeInv /\ LockInv /\ JournalInv /\ OneRuns /\ FileInv /\ SourceInv
      /\ MiniInv /\ HereInv /\ PullInv
  BY DEF PipeInv, CollectInv
<1>2. /\ UNCHANGED <<vars, incoming, listed, todo>>
      /\ UNCHANGED <<journal, closed, durable>>
      /\ pull = "apply" /\ pull' = "remove" /\ todo # {}
  BY DEF ApplyNext, vars, spoolVars
<1>3. /\ f \in DOMAIN incoming /\ Takes(incoming[f])
      /\ Mark' = (IF Mark < f.hi THEN f.hi ELSE Mark)
  BY ApplyTakes
<1> HIDE DEF f
<1>4. /\ mini' \in Mini!Database /\ mini'.events = mini.events \cup incoming[f]
      /\ ImagesOf(mini'.events, mini'.current)
  BY <1>3 DEF Takes
<1>5. /\ Mark \in Nat /\ f.hi \in Nat /\ \A e \in journal : e.seq \in Nat
      /\ incoming[f] = {e \in journal : f.lo <= e.seq /\ e.seq <= f.hi}
      /\ \E e \in incoming[f] : e.seq = f.hi
  <2>1. Mark \in Nat /\ \A e \in journal : e.seq \in Nat
    BY <1>1, CollectConstants DEF MiniInv, Mini!Database, Mark, TypeInv, TypeOK, Event
  <2>2. f \in Name /\ incoming[f] = Span(f) /\ Ends(f)
    BY <1>1, <1>3 DEF HereInv
  <2> QED
    BY <2>1, <2>2 DEF Ends, Span, Name
<1>6. MiniInv'
  <2>1. Mark <= Mark' /\ f.hi <= Mark' /\ Mark' \in Nat /\ (Mark' = Mark \/ Mark' = f.hi)
    BY <1>3, <1>5
  <2>2. mini'.events \subseteq journal
    BY <1>1, <1>4, <1>5 DEF MiniInv
  <2>3. ASSUME NEW e \in mini'.events PROVE e.seq <= Mark'
    <3>1. e.seq <= Mark \/ e.seq <= f.hi
      BY <1>1, <1>4, <1>5, <2>3 DEF MiniInv
    <3> QED
      BY <1>5, <2>1, <2>2, <3>1
  <2>4. Mark' = 0 \/ \E e \in mini'.events : e.seq = Mark'
    BY <1>1, <1>4, <1>5, <2>1 DEF MiniInv
  <2> QED
    BY <1>2, <1>4, <2>2, <2>3, <2>4 DEF MiniInv
<1>7. /\ Kept(mini.events)' = Kept(mini.events) \cup incoming[f]
      /\ Kept(mini.events \cup incoming[f]) = Kept(mini.events) \cup incoming[f]
  BY <1>2, <1>4 DEF Kept
<1>8. InOrder(Kept(mini.events) \cup incoming[f])
  BY <1>1, <1>3 DEF HereInv
<1>9. CollectInv'
  <2>1. PICK taken : taken = mini.events /\ SpoolInv(taken)
    BY DEF PipeInv, CollectInv
  <2>2. PICK more : more = mini.events \cup incoming[f]
    OBVIOUS
  <2>3. KeptInOrder(more)
    BY <1>1, <1>5, <1>7, <1>8, <2>2 DEF KeptInOrder, MiniInv
  <2>4. SpoolInv(more)
    BY <2>1, <2>2, <2>3, TakenMore
  <2> QED
    BY <1>1, <1>2, <1>4, <2>2, <2>4, CollectStays
<1>10. HereInv'
  <2> SUFFICES ASSUME NEW n \in DOMAIN incoming
               PROVE  /\ n \in Name /\ incoming[n] = Span(n) /\ Ends(n)
                      /\ InOrder(Kept(mini.events) \cup incoming[f] \cup incoming[n])
    BY <1>2, <1>7 DEF HereInv, Span, Ends, InOrder
  <2>1. InOrder(Kept(mini.events) \cup incoming[n])
    BY <1>1 DEF HereInv
  <2>2. InOrder(Kept(mini.events) \cup incoming[f] \cup incoming[n])
    BY <1>8, <2>1 DEF InOrder
  <2> QED
    BY <1>1, <2>2 DEF HereInv
<1>11. PullInv'
  <2>1. FirstOf(todo)' = f
    BY <1>2 DEF FirstOf, f
  <2>2. \A n \in listed \ DOMAIN incoming : Ends(n)' /\ Span(n)' \subseteq mini'.events
    BY <1>1, <1>2, <1>4 DEF PullInv, Ends, Span
  <2> QED
    BY <1>1, <1>2, <1>4, <2>1, <2>2 DEF PullInv
<1> QED
  BY <1>6, <1>9, <1>10, <1>11 DEF PipeInv

(* What a step of pull.sh leaves that moves no file on Oracle and applies    *)
(* none.                                                                     *)
LEMMA CollectorStays ==
  ASSUME ~Overlap, NoneFailsLate, PipeInv, UNCHANGED <<vars, mini>>
  PROVE  CollectInv' /\ MiniInv' /\ UNCHANGED <<journal, closed, durable, Kept(mini.events)>>
<1>1. /\ TypeInv /\ LockInv /\ JournalInv /\ OneRuns /\ FileInv /\ SourceInv /\ MiniInv
  BY DEF PipeInv, CollectInv
<1>2. PICK taken : taken = mini.events /\ SpoolInv(taken)
  BY DEF PipeInv, CollectInv
<1>3. UNCHANGED <<journal, closed, durable>>
  BY DEF vars, spoolVars
<1> QED
  BY <1>1, <1>2, <1>3, CollectStays DEF MiniInv, Mark, Kept

LEMMA RsyncStep ==
  ASSUME ~Overlap, NoneFailsLate, PipeInv, Rsync \/ ListLocal
  PROVE  PipeInv'
<1>1. /\ HereInv /\ PullInv /\ UNCHANGED <<vars, mini, incoming>>
  BY DEF PipeInv, Rsync, ListLocal
<1>2. CollectInv' /\ MiniInv' /\ UNCHANGED <<journal, closed, durable, Kept(mini.events)>>
  BY <1>1, CollectorStays
<1>3. HereInv'
  BY <1>1, <1>2 DEF HereInv, Span, Ends, InOrder
<1>4. PullInv'
  <2>1. CASE Rsync
    BY <1>1, <1>2, <2>1 DEF Rsync, PullInv
  <2>2. CASE ListLocal
    <3>1. DOMAIN incoming \subseteq Name
      BY <1>1 DEF HereInv
    <3> QED
      BY <1>1, <2>2, <3>1 DEF ListLocal, PullInv
  <2> QED
    BY <2>1, <2>2
<1> QED
  BY <1>2, <1>3, <1>4 DEF PipeInv

(* A file that is copied is whole, and what it has of its own again.         *)
LEMMA CopyTakes ==
  ASSUME PipeInv, NEW n, Copy(n)
  PROVE  /\ n \in DOMAIN closed /\ n \in Name /\ closed[n].lines = Span(n) /\ Ends(n)
         /\ DOMAIN incoming' = DOMAIN incoming \cup {n} /\ incoming'[n] = closed[n].lines
         /\ \A m \in DOMAIN incoming : incoming'[m] = incoming[m]
<1>1. TypeInv /\ HereInv /\ PullInv
  BY DEF PipeInv, CollectInv
<1>2. PICK taken : taken = mini.events /\ SpoolInv(taken)
  BY DEF PipeInv, CollectInv
<1>3. n \in DOMAIN closed /\ n \in Name /\ closed[n].lines = Span(n) /\ Ends(n)
  <2>1. n \in DOMAIN closed /\ n \in Name
    BY <1>1 DEF Copy, PullInv, TypeInv, TypeOK
  <2>2. closed[n].lines = Span(n)
    BY <1>2, <2>1 DEF SpoolInv, ClosedComplete, Span
  <2>3. PICK e \in closed[n].lines : e.seq = n.hi
    BY <1>2, <2>1 DEF SpoolInv, FilesWhole
  <2> QED
    BY <2>1, <2>2, <2>3 DEF Ends, Span
<1>4. /\ DOMAIN incoming' = DOMAIN incoming \cup {n} /\ incoming'[n] = closed[n].lines
      /\ \A m \in DOMAIN incoming : m # n => incoming'[m] = incoming[m]
  BY DEF Copy, Put
<1>5. n \in DOMAIN incoming => incoming[n] = closed[n].lines
  BY <1>1, <1>3 DEF HereInv
<1> QED
  BY <1>3, <1>4, <1>5

LEMMA CopyStep ==
  ASSUME ~Overlap, NoneFailsLate, PipeInv, NEW n, Copy(n)
  PROVE  PipeInv'
<1>1. HereInv /\ PullInv /\ UNCHANGED <<vars, mini, pull, listed>> /\ pull = "rsync"
  BY DEF PipeInv, Copy
<1>2. CollectInv' /\ MiniInv' /\ UNCHANGED <<journal, closed, durable, Kept(mini.events)>>
  BY <1>1, CollectorStays
<1>3. /\ n \in DOMAIN closed /\ n \in Name /\ closed[n].lines = Span(n) /\ Ends(n)
      /\ DOMAIN incoming' = DOMAIN incoming \cup {n} /\ incoming'[n] = closed[n].lines
      /\ \A m \in DOMAIN incoming : incoming'[m] = incoming[m]
  BY CopyTakes
<1>4. InOrder(Kept(mini.events) \cup closed[n].lines)
  <2>1. PICK taken : taken = mini.events /\ SpoolInv(taken)
    BY DEF PipeInv, CollectInv
  <2> QED
    BY <1>3, <2>1 DEF SpoolInv, FilesInOrder
<1>5. HereInv'
  <2> SUFFICES ASSUME NEW m \in DOMAIN incoming'
               PROVE  /\ m \in Name /\ incoming'[m] = Span(m) /\ Ends(m)
                      /\ InOrder(Kept(mini.events) \cup incoming'[m])
    BY <1>2 DEF HereInv, Span, Ends, InOrder
  <2> QED
    BY <1>1, <1>3, <1>4 DEF HereInv
<1>6. PullInv'
  BY <1>1, <1>2 DEF Copy, PullInv
<1> QED
  BY <1>2, <1>5, <1>6 DEF PipeInv

LEMMA RemoveStep ==
  ASSUME ~Overlap, NoneFailsLate, PipeInv, RemoveApplied
  PROVE  PipeInv'
<1> DEFINE f == FirstOf(todo)
<1>1. /\ HereInv /\ PullInv /\ UNCHANGED <<vars, mini, listed>>
      /\ pull = "remove" /\ pull' = "apply"
      /\ todo' = todo \ {f} /\ DOMAIN incoming' = DOMAIN incoming \ {f}
      /\ \A n \in DOMAIN incoming' : incoming'[n] = incoming[n]
  BY DEF PipeInv, RemoveApplied, Drop
<1>2. CollectInv' /\ MiniInv' /\ UNCHANGED <<journal, closed, durable, Kept(mini.events)>>
  BY <1>1, CollectorStays
<1>3. todo = DOMAIN incoming /\ todo \subseteq listed /\ incoming[f] \subseteq mini.events
  BY <1>1 DEF PullInv
<1> HIDE DEF f
<1>4. HereInv'
  BY <1>1, <1>2 DEF HereInv, Span, Ends, InOrder
<1>5. \A n \in listed \ DOMAIN incoming' : Ends(n)' /\ Span(n)' \subseteq mini.events
  <2> SUFFICES ASSUME NEW n \in listed \ DOMAIN incoming'
               PROVE  Ends(n) /\ Span(n) \subseteq mini.events
    BY <1>2 DEF Ends, Span
  <2>1. CASE n \in DOMAIN incoming
    BY <1>1, <1>3, <2>1 DEF HereInv
  <2> QED
    BY <1>1, <2>1 DEF PullInv
<1>6. PullInv'
  BY <1>1, <1>3, <1>5 DEF PullInv
<1> QED
  BY <1>2, <1>4, <1>6 DEF PipeInv

LEMMA ForgetStep ==
  ASSUME ~Overlap, NoneFailsLate, PipeInv, ListForget \/ Forget \/ PullDone \/ PullFails
  PROVE  PipeInv'
<1>1. TypeInv /\ CollectInv /\ MiniInv /\ HereInv /\ PullInv
  BY DEF PipeInv, CollectInv
<1>2. UNCHANGED <<mini, incoming, journal>>
  BY DEF ListForget, Forget, PullDone, PullFails, vars
<1>3. CollectInv' /\ UNCHANGED Kept(mini.events)
  <2>1. /\ UNCHANGED <<sqlVars, tmp, procVars, journal, mini>> /\ deaths' \in Nat
    BY <1>1, <1>2
       DEF ListForget, Forget, PullDone, PullFails, CountDeath, vars, spoolVars, TypeInv, TypeOK
  <2>2. \/ UNCHANGED <<closed, durable>>
        \/ \E n \in listed \ DOMAIN incoming :
             closed' = Drop(closed, n) /\ durable' = durable \ {n}
    BY <1>1 DEF ListForget, Forget, PullDone, PullFails, vars, spoolVars, PullInv
  <2>3. \A n \in DOMAIN closed : closed[n].lines = Span(n)
    <3>1. PICK taken : taken = mini.events /\ SpoolInv(taken)
      BY <1>1 DEF CollectInv
    <3> QED
      BY <3>1 DEF SpoolInv, ClosedComplete, Span
  <2>4. /\ DOMAIN closed' \subseteq DOMAIN closed /\ durable' = durable \cap DOMAIN closed'
        /\ \A n \in DOMAIN closed' : closed'[n] = closed[n]
        /\ \A n \in DOMAIN closed \ DOMAIN closed' : closed[n].lines \subseteq mini.events
    <3>1. durable \subseteq DOMAIN closed
      BY <1>1 DEF TypeInv, TypeOK
    <3>2. CASE UNCHANGED <<closed, durable>>
      BY <3>1, <3>2
    <3>3. ASSUME NEW n \in listed \ DOMAIN incoming,
                 closed' = Drop(closed, n), durable' = durable \ {n}
          PROVE  /\ DOMAIN closed' \subseteq DOMAIN closed /\ durable' = durable \cap DOMAIN closed'
                 /\ \A m \in DOMAIN closed' : closed'[m] = closed[m]
                 /\ \A m \in DOMAIN closed \ DOMAIN closed' : closed[m].lines \subseteq mini.events
      <4>1. DOMAIN closed' = DOMAIN closed \ {n} /\ \A m \in DOMAIN closed' : closed'[m] = closed[m]
        BY <3>3 DEF Drop
      <4>2. Span(n) \subseteq mini.events
        BY <1>1 DEF PullInv
      <4> QED
        BY <2>3, <3>1, <3>3, <4>1, <4>2
    <3> QED
      BY <2>2, <3>2, <3>3
  <2> QED
    BY <1>1, <2>1, <2>4, FilesGo
<1>4. MiniInv'
  BY <1>1, <1>2 DEF MiniInv, Mark
<1>5. HereInv'
  BY <1>1, <1>2, <1>3 DEF HereInv, Span, Ends, InOrder
<1>6. PullInv'
  <2>1. \A n : (Ends(n)' <=> Ends(n)) /\ Span(n)' = Span(n)
    BY <1>2 DEF Ends, Span
  <2>2. CASE ListForget
    BY <1>1, <1>2, <2>1, <2>2 DEF PullInv, ListForget
  <2>3. CASE Forget
    BY <1>1, <1>2, <2>1, <2>3 DEF PullInv, Forget
  <2>4. CASE PullDone \/ PullFails
    BY <2>4 DEF PullInv, PullDone, PullFails, EndPull
  <2> QED
    BY <2>2, <2>3, <2>4
<1> QED
  BY <1>3, <1>4, <1>5, <1>6 DEF PipeInv
-----------------------------------------------------------------------------
LEMMA PipeInvInit == PipelineInit => PipeInv
<1> SUFFICES ASSUME PipelineInit PROVE PipeInv
  OBVIOUS
<1>1. /\ Init /\ mini = Mini!EmptyDatabase /\ DOMAIN incoming = {} /\ journal = {}
      /\ pull = "idle" /\ listed = {} /\ todo = {}
  BY DEF PipelineInit, Init
<1>2. /\ mini.events = {} /\ mini.current = {} /\ mini \in Mini!Database /\ Mark = 0
  BY <1>1, CollectConstants DEF Mini!EmptyDatabase, Mini!Database, Mark
<1>3. TypeInv /\ LockInv /\ JournalInv /\ OneRuns /\ FileInv /\ SpoolInv({})
  BY <1>1, TypeInvInit, LockInvInit, JournalInvInit, OneRunsInit, FileInvInit, SpoolInvInit
<1>4. SourceInv
  BY <1>1 DEF Init, SourceInv, Emits, Holding
<1>5. CollectInv
  BY <1>2, <1>3, <1>4 DEF CollectInv
<1>6. MiniInv
  BY <1>1, <1>2 DEF MiniInv, ImagesOf
<1>7. HereInv /\ PullInv
  BY <1>1, <1>2 DEF HereInv, PullInv
<1> QED
  BY <1>5, <1>6, <1>7 DEF PipeInv

(* Every step of the bus, collector's or pull.sh's. *)
LEMMA PipeInvStep ==
  ASSUME ~Overlap, NoneFailsLate, PipeInv, [PipelineNext]_allVars
  PROVE  PipeInv'
<1>1. CASE Collecting
  BY <1>1, CollectStep DEF Collecting, pullVars
<1>2. CASE UNCHANGED allVars
  BY <1>2, CollectStep DEF allVars, pullVars, vars, spoolVars
<1>3. CASE Pull \/ PullFails
  BY <1>3, RsyncStep, CopyStep, ApplyStep, RemoveStep, ForgetStep DEF Pull
<1> QED
  BY <1>1, <1>2, <1>3 DEF PipelineNext

(* The whole bus keeps its invariant. *)
LEMMA PipeInvAlways ==
  ASSUME ~Overlap, NoneFailsLate
  PROVE  PipelineSpec => []PipeInv
BY PipeInvInit, PipeInvStep, PTL DEF PipelineSpec
-----------------------------------------------------------------------------
(* Every variable of the bus keeps its type: rsync finds what it listed,     *)
(* pull.sh applies only names it has a file of, and forgets only names it    *)
(* has listed.                                                               *)
THEOREM PipelineTypes ==
  ASSUME ~Overlap, NoneFailsLate
  PROVE  PipelineSpec => []PipelineTypeOK
<1>1. PipeInv => PipelineTypeOK
  <2> SUFFICES ASSUME PipeInv PROVE PipelineTypeOK
    OBVIOUS
  <2>1. TypeOK /\ MiniInv /\ HereInv /\ PullInv
    BY DEF PipeInv, CollectInv, TypeInv
  <2>2. DOMAIN incoming \subseteq Name /\ \A n \in DOMAIN incoming : incoming[n] \subseteq Event
    BY <2>1 DEF HereInv, Span, TypeOK
  <2>3. /\ todo \subseteq Name /\ listed \subseteq Name
        /\ pull = "rsync" => todo \subseteq DOMAIN closed
        /\ pull \in {"apply", "remove"} => todo \subseteq DOMAIN incoming \cap listed
    BY <2>1, <2>2 DEF PullInv, TypeOK
  <2> QED
    BY <2>1, <2>2, <2>3 DEF PipelineTypeOK, MiniInv, PullInv
<1> QED
  BY <1>1, PipeInvAlways, PTL

(* No committed change is ever gone: it is in the outbox, in a closed file   *)
(* or in the Mini, whoever dies between fsync and DELETE, between apply and  *)
(* removal, between removal and forget, and whatever name forget-spool.sh    *)
(* deletes while the collector publishes it again.                           *)
THEOREM NothingIsEverLost ==
  ASSUME ~Overlap, NoneFailsLate
  PROVE  PipelineSpec => []NeverLost
<1>1. PipeInv => NeverLost
  <2> SUFFICES ASSUME PipeInv, NEW e \in journal
               PROVE  e \in box.rows \cup Published \cup mini.events
    BY DEF NeverLost
  <2>1. PICK taken : taken = mini.events /\ SpoolInv(taken)
    BY DEF PipeInv, CollectInv
  <2>2. Kept(taken) \subseteq taken \cup Published
    BY <2>1, FilesAreJournal DEF PipeInv, CollectInv
  <2>3. ASSUME NEW p \in Procs, pc[p] = "syncdir", e \in page[p]
        PROVE  e \in taken \cup Published
    BY <2>1, <2>3 DEF SpoolInv, FilesWhole, Published
  <2> QED
    BY <2>1, <2>2, <2>3 DEF SpoolInv, GoneIsKept
<1> QED
  BY <1>1, PipeInvAlways, PTL

(* What the Mini misses below its watermark, because a later file reached it *)
(* before an earlier one, is in a closed file that outlives a power loss: no *)
(* file goes before all that is in it was applied, and nothing that is later *)
(* than an event of the outbox is published before it.                       *)
THEOREM WhatIsMissingIsSpooled ==
  ASSUME ~Overlap, NoneFailsLate
  PROVE  PipelineSpec => []GapsAreSpooled
<1>1. PipeInv => GapsAreSpooled
  <2> SUFFICES ASSUME PipeInv, NEW e \in journal, e.seq <= Mark
               PROVE  e \in Kept(mini.events)
    BY DEF GapsAreSpooled, Mark, Kept
  <2>1. PICK taken : taken = mini.events /\ SpoolInv(taken)
    BY DEF PipeInv, CollectInv
  <2>2. e.seq \in Nat /\ e.seq > 0 /\ MiniInv /\ SeqUnique
    BY DEF PipeInv, CollectInv, TypeInv, TypeOK, SourceInv, OfDb, Event, JournalInv
  <2>3. PICK last \in mini.events : last.seq = Mark
    BY <2>2 DEF MiniInv
  <2>4. last \in Kept(taken) /\ last \in journal /\ last.seq \in Nat
    BY <2>1, <2>2 DEF Kept, MiniInv, PipeInv, CollectInv, TypeInv, TypeOK, Event
  <2>5. e = last \/ e.seq < last.seq
    BY <2>2, <2>3, <2>4 DEF SeqUnique
  <2> QED
    BY <2>1, <2>4, <2>5 DEF SpoolInv, KeptInOrder, InOrder
<1> QED
  BY <1>1, PipeInvAlways, PTL
-----------------------------------------------------------------------------
(***************************************************************************)
(* Files in any order: the rows are those of the log, but for the ones a D   *)
(* reached too late, and what an rsync has still to copy is what it lacks of *)
(* all that was published when it began.                                     *)
(***************************************************************************)

(* A row that is not late is right; the image that a late one had, when the  *)
(* D came, is missing from it, and it is still the latest.                   *)
LateInv ==
  \A k \in Keys :
    /\ k \notin late => RowsOfK(mini.current, k) = RowsOfK(LiveRows(mini.events), k)
    /\ k \in late => \E m \in mini.events :
         m.key = k /\ CarriesRow(m) /\ Latest(mini.events, m) /\ RowOf(m) \notin mini.current

ReachInv ==
  pull = "rsync" =>
    /\ reach = 0 \/ \E e \in journal : e.seq = reach
    /\ \A e \in journal : e.seq <= reach =>
         \/ e \in mini.events \cup UNION {incoming[n] : n \in DOMAIN incoming}
         \/ \E n \in todo : e \in closed[n].lines

(* The last seq is that of the last event. *)
LEMMA LastSeq ==
  ASSUME NEW J \in SUBSET Event, NEW s \in Nat, \A e \in J : e.seq <= s
  PROVE  LET last == Max({0} \cup Seqs(J)) IN
           /\ last \in Nat /\ \A e \in J : e.seq <= last
           /\ last = 0 \/ \E e \in J : e.seq = last
<1> DEFINE S == {0} \cup Seqs(J)
<1>1. \A e \in J : e.seq \in Nat
  BY DEF Event
<1>2. /\ S \in SUBSET (0 .. s) /\ \A e \in J : e.seq \in S
      /\ \A i \in S : i = 0 \/ \E e \in J : e.seq = i
  BY <1>1 DEF Seqs
<1>n. S # {}
  OBVIOUS
<1> HIDE DEF S
<1>3. IsFiniteSet(S) /\ S \in SUBSET Int
  <2>1. IsFiniteSet(0 .. s)
    BY FS_Interval
  <2>2. IsFiniteSet(S)
    BY <1>2, <2>1, FS_Subset
  <2> QED
    BY <1>2, <2>2
<1>4. Max(S) \in S /\ \A i \in S : i <= Max(S)
  BY <1>3, <1>n, MaxOf
<1>5. Max(S) \in Nat
  <2>1. S \subseteq Nat
    BY <1>2
  <2> QED
    BY <1>4, <2>1
<1> QED
  BY <1>2, <1>4, <1>5 DEF S

(* Mirror's operators. *)
LEMMA SameBus ==
  /\ \A rows, k : Bus!RowsAt(rows, k) = RowsOfK(rows, k)
  /\ \A S : Bus!LiveRows(S) = LiveRows(S)
  /\ \A old, new :
       Bus!Settled(old, new)
         = {e.key : e \in {e \in new : Decisive(e) /\ Latest(old \cup new, e)}}
  /\ \A old, new :
       Bus!Overtaken(old, new)
         = {c.key : c \in {c \in old : /\ CarriesRow(c) /\ Latest(old \cup new, c)
                                       /\ \E d \in new : SameRow(d, c) /\ d.op = "D"}}
<1>1. /\ \A a, b : Bus!SameRow(a, b) <=> SameRow(a, b)
      /\ \A e : Bus!CarriesRow(e) <=> CarriesRow(e)
      /\ \A e : Bus!RowOf(e) = RowOf(e)
  BY DEF Bus!SameRow, SameRow, Bus!CarriesRow, CarriesRow, Bus!RowOf, RowOf
<1>2. \A S, e : Bus!Latest(S, e) <=> Latest(S, e)
  BY <1>1 DEF Bus!Latest, Latest
<1>3. \A rows, k : Bus!RowsAt(rows, k) = RowsOfK(rows, k)
  BY DEF Bus!RowsAt, RowsOfK
<1>4. \A S : Bus!LiveRows(S) = LiveRows(S)
  BY <1>1, <1>2 DEF Bus!LiveRows, LiveRows
<1>5. ASSUME NEW old, NEW new
      PROVE  Bus!Settled(old, new)
               = {e.key : e \in {e \in new : Decisive(e) /\ Latest(old \cup new, e)}}
  BY <1>1, <1>2 DEF Bus!Settled, Decisive
<1>6. ASSUME NEW old, NEW new
      PROVE  Bus!Overtaken(old, new)
               = {c.key : c \in {c \in old : /\ CarriesRow(c) /\ Latest(old \cup new, c)
                                             /\ \E d \in new : SameRow(d, c) /\ d.op = "D"}}
  BY <1>1, <1>2 DEF Bus!Overtaken
<1> QED
  BY <1>3, <1>4, <1>5, <1>6

(* One of the events that decide a row is the latest. *)
LEMMA LatestOfLog ==
  ASSUME PipeInv, NEW log, log \subseteq journal, NEW e \in log, Decisive(e)
  PROVE  \E m \in log : m.key = e.key /\ Decisive(m) /\ Latest(log, m)
<1>1. /\ log \in SUBSET Event /\ tx.seq \in Nat /\ \A d \in log : d.seq <= tx.seq
      /\ \A d \in log : d.src = Db /\ \A f \in log : f.seq = d.seq => f = d
  BY DEF PipeInv, CollectInv, TypeInv, TypeOK, Outbox, JournalInv, SeqsTaken, SeqUnique,
         SourceInv, OfDb
<1>2. Tables!OneSource(log, Db) /\ log \in SUBSET Tables!Event /\ Tables!Decides(e)
  BY <1>1, SameTables DEF Tables!OneSource, Tables!Decides, Decisive
<1>3. PICK top \in Nat : \A d \in log : d.seq <= top
  BY <1>1
<1>4. Tables!Journal = {}
  BY DEF Tables!Journal
<1>5. \E m \in log : m.key = e.key /\ Tables!Decides(m) /\ Tables!Latest(log, m)
  BY <1>2, <1>3, <1>4, EventConstants, Tables!LatestExists
<1> QED
  BY <1>5, SameTables DEF Tables!Decides, Decisive

(* An applied file keeps the right rows, and counts the late ones. *)
LEMMA LateInvApplied ==
  ASSUME PipeInv, PipeInv', LateInv, ApplyNext, Record
  PROVE  LateInv' /\ Bus!Grow
<1> DEFINE old == mini.events
           log == mini'.events
           new == log \ old
<1>1. /\ old \subseteq log /\ log \subseteq journal /\ UNCHANGED journal
      /\ \A e \in journal : e.src = Db /\ e.seq \in Nat
      /\ \A d, e \in journal : d.seq = e.seq => d = e
  <2>1. old \subseteq log
    BY ApplyTakes DEF Takes
  <2>2. UNCHANGED journal
    BY DEF ApplyNext, vars
  <2> QED
    BY <2>1, <2>2 DEF PipeInv, MiniInv, CollectInv, SourceInv, OfDb, TypeInv, TypeOK, Event,
                      JournalInv, SeqUnique
<1>2. /\ \A m \in new : Decisive(m) /\ Latest(log, m) =>
           RowsOfK(mini'.current, m.key) = RowsOfK(LiveRows(log), m.key)
      /\ \A m \in old :
           /\ CarriesRow(m) /\ Latest(log, m)
           /\ RowOf(m) \notin mini.current \/ \E e \in new : e.key = m.key /\ e.op = "D"
           => RowOf(m) \notin mini'.current
      /\ \A k :
           /\ \A m \in new : m.key = k /\ Decisive(m) => ~Latest(log, m)
           /\ RowsOfK(mini.current, k) = RowsOfK(LiveRows(old), k)
           /\ \A m \in old, e \in new :
                m.key = k /\ CarriesRow(m) /\ Latest(log, m) => ~(e.key = k /\ e.op = "D")
           => /\ RowsOfK(mini'.current, k) = RowsOfK(mini.current, k)
              /\ RowsOfK(mini'.current, k) = RowsOfK(LiveRows(log), k)
  BY ApplyTakes DEF Takes
<1> HIDE DEF old, log, new
<1>3. /\ old \cup new = log /\ new \subseteq log /\ new \cap old = {}
      /\ \A e \in log : e \in old \/ e \in new
  BY <1>1 DEF new
<1>4. late' = (late \ Bus!Settled(old, new)) \cup Bus!Overtaken(old, new)
  BY DEF Record, Bus!StillLate, old, new, log
<1>5. \A k : k \in Bus!Settled(old, new)
             <=> \E m \in new : m.key = k /\ Decisive(m) /\ Latest(log, m)
  BY <1>3, SameBus
<1>6. \A k : k \in Bus!Overtaken(old, new)
             <=> \E m \in old : /\ m.key = k /\ CarriesRow(m) /\ Latest(log, m)
                                /\ \E e \in new : e.key = k /\ e.op = "D"
  <2>1. \A m \in old, e \in new : SameRow(e, m) <=> e.key = m.key
    BY <1>1, <1>3 DEF SameRow
  <2>2. Bus!Overtaken(old, new)
          = {c.key : c \in {c \in old : /\ CarriesRow(c) /\ Latest(log, c)
                                        /\ \E d \in new : SameRow(d, c) /\ d.op = "D"}}
    BY <1>3, SameBus
  <2> QED
    BY <2>1, <2>2
<1>7. ASSUME NEW k \in Keys, k \notin late'
      PROVE  /\ RowsOfK(mini'.current, k) = RowsOfK(LiveRows(log), k)
             /\ k \notin Bus!Settled(old, new) =>
                  RowsOfK(mini'.current, k) = RowsOfK(mini.current, k)
  <2>1. CASE k \in Bus!Settled(old, new)
    BY <1>2, <1>5, <2>1
  <2>2. CASE k \notin Bus!Settled(old, new)
    <3>1. k \notin late /\ k \notin Bus!Overtaken(old, new)
      BY <1>4, <1>7, <2>2
    <3>2. RowsOfK(mini.current, k) = RowsOfK(LiveRows(old), k)
      BY <3>1 DEF LateInv, old
    <3> QED
      BY <1>2, <1>5, <1>6, <2>2, <3>1, <3>2
  <2> QED
    BY <2>1, <2>2
<1>8. ASSUME NEW k \in Keys, k \in late'
      PROVE  \E m \in log : /\ m.key = k /\ CarriesRow(m) /\ Latest(log, m)
                            /\ RowOf(m) \notin mini'.current
  <2>1. CASE k \in Bus!Overtaken(old, new)
    <3>1. PICK m \in old : /\ m.key = k /\ CarriesRow(m) /\ Latest(log, m)
                           /\ \E e \in new : e.key = k /\ e.op = "D"
      BY <1>6, <2>1
    <3> QED
      BY <1>2, <1>3, <3>1
  <2>2. CASE k \in late \ Bus!Settled(old, new)
    <3>1. PICK c \in old : /\ c.key = k /\ CarriesRow(c) /\ Latest(old, c)
                           /\ RowOf(c) \notin mini.current
      BY <2>2 DEF LateInv, old
    <3>2. PICK m \in log : m.key = k /\ Decisive(m) /\ Latest(log, m)
      <4>1. c \in log /\ Decisive(c)
        BY <1>3, <3>1 DEF Decisive
      <4> QED
        BY <1>1, <3>1, <4>1, LatestOfLog
    <3>3. m \in old
      BY <1>3, <1>5, <2>2, <3>2
    <3>4. m = c
      <4>1. SameRow(m, c) /\ SameRow(c, m) /\ m \in journal /\ c \in journal
        BY <1>1, <1>3, <3>1, <3>2, <3>3 DEF SameRow
      <4>2. m.seq <= c.seq
        BY <3>1, <3>2, <3>3, <4>1 DEF Latest, Decisive
      <4>3. c.seq <= m.seq
        BY <1>3, <3>1, <3>2, <4>1 DEF Latest
      <4>4. m.seq = c.seq
        BY <1>1, <4>1, <4>2, <4>3
      <4> QED
        BY <1>1, <4>1, <4>4
    <3> QED
      BY <1>2, <1>3, <3>1, <3>2, <3>4
  <2> QED
    BY <1>4, <1>8, <2>1, <2>2
<1>9. LateInv'
  BY <1>7, <1>8 DEF LateInv, log
<1>10. Bus!Grow
  <2>1. \A k \in Keys \ late' :
          Bus!RowsAt(mini'.current, k)
            = Bus!RowsAt(IF k \in Bus!Settled(old, new) THEN Bus!LiveRows(log)
                         ELSE mini.current, k)
    BY <1>7, SameBus
  <2>2. late' = Bus!StillLate(old, new)
    BY <1>4 DEF Bus!StillLate
  <2> QED
    BY <1>1, <2>1, <2>2 DEF Bus!Grow, old, log, new
<1> QED
  BY <1>9, <1>10

(* Where nothing is applied nothing becomes late. *)
LEMMA LateStays ==
  ASSUME UNCHANGED mini, Record
  PROVE  UNCHANGED late
<1>1. late' = Bus!StillLate(mini.events, {})
  BY DEF Record
<1>2. Bus!Settled(mini.events, {}) = {} /\ Bus!Overtaken(mini.events, {}) = {}
  BY SameBus
<1> QED
  BY <1>1, <1>2 DEF Bus!StillLate

(* What rsync has still to copy stays what it lacks. *)
LEMMA ReachInvStep ==
  ASSUME ~Overlap, NoneFailsLate, PipeInv, ReachInv, PipelineNext, Record
  PROVE  ReachInv'
<1>1. /\ TypeInv /\ LockInv /\ JournalInv /\ OneRuns /\ FileInv /\ SourceInv /\ MiniInv /\ PullInv
      /\ \A e \in journal : e.seq \in Nat /\ e.seq > 0 /\ e \in Event
  BY DEF PipeInv, CollectInv, TypeInv, TypeOK, SourceInv, OfDb, Event
<1>2. PICK taken : taken = mini.events /\ SpoolInv(taken)
  BY DEF PipeInv, CollectInv
<1>3. CASE Rsync
  <2>1. /\ pull = "idle" /\ pull' = "rsync" /\ todo' = DOMAIN closed /\ reach' = Top(Published)
        /\ UNCHANGED <<journal, closed, mini>>
    BY <1>3 DEF Rsync, Record, vars, spoolVars
  <2>2. Published \subseteq journal
    BY <1>1, <1>2, FilesAreJournal
  <2>3. Top(Published) = 0 \/ \E e \in Published : e.seq = Top(Published)
    <3>1. Published \in SUBSET Event /\ tx.seq \in Nat /\ \A e \in Published : e.seq <= tx.seq
      BY <1>1, <2>2 DEF JournalInv, SeqsTaken, TypeInv, TypeOK, Outbox
    <3> QED
      BY <3>1, LastSeq DEF Top
  <2>4. ASSUME NEW e \in journal, e.seq <= Top(Published)
        PROVE  e \in mini.events \/ \E n \in DOMAIN closed : e \in closed[n].lines
    <3>1. PICK last \in Published : last.seq = Top(Published)
      BY <1>1, <2>3, <2>4
    <3>2. last \in journal /\ (e = last \/ e.seq < last.seq)
      BY <1>1, <2>2, <2>4, <3>1 DEF JournalInv, SeqUnique
    <3>3. PICK n \in DOMAIN closed : last \in closed[n].lines
      BY DEF Published
    <3>4. e \in Kept(taken) \cup closed[n].lines
      BY <1>2, <3>2, <3>3 DEF SpoolInv, FilesInOrder, InOrder
    <3>5. Kept(taken) \subseteq taken \cup Published
      BY <1>1, <1>2, FilesAreJournal
    <3> QED
      BY <1>2, <3>4, <3>5 DEF Published
  <2> QED
    BY <2>1, <2>2, <2>3, <2>4 DEF ReachInv
<1>4. ASSUME NEW n, Copy(n) PROVE ReachInv'
  <2>1. /\ pull = "rsync" /\ pull' = "rsync" /\ todo' = todo \ {n} /\ reach' = reach
        /\ UNCHANGED <<journal, closed, mini>>
    BY <1>4 DEF Copy, Record, vars, spoolVars
  <2>2. /\ DOMAIN incoming' = DOMAIN incoming \cup {n} /\ incoming'[n] = closed[n].lines
        /\ \A m \in DOMAIN incoming : incoming'[m] = incoming[m]
    BY <1>4, CopyTakes
  <2>3. (UNION {incoming[m] : m \in DOMAIN incoming}) \cup closed[n].lines
          \subseteq UNION {incoming'[m] : m \in DOMAIN incoming'}
    BY <2>2
  <2> QED
    BY <2>1, <2>3 DEF ReachInv
<1>5. CASE Collecting
  <2>1. CASE pull' = "rsync"
    <3>1. Next /\ UNCHANGED pullVars /\ ~(PowerLoss /\ Connected)
      BY <1>5, <2>1 DEF Collecting, EndPull
    <3>2. UNCHANGED <<mini, incoming, pull, todo>> /\ reach' = reach /\ pull = "rsync"
      BY <2>1, <3>1 DEF pullVars, Record
    <3>3. PICK new : Adds(new)
      BY <1>1, <3>1, JournalGrows
    <3>4. \A n \in todo : closed'[n].lines = closed[n].lines
      BY <1>1, <1>2, <3>1, <3>2, KeptGrows DEF Connected, PullInv
    <3>5. /\ journal' = journal \cup new
          /\ \A e \in new : e.seq \in Nat /\ e.seq > 0 /\ \A d \in journal : d.seq < e.seq
      BY <3>3 DEF Adds, OfDb, Event
    <3>6. \A e \in new : ~(e.seq <= reach)
      BY <1>1, <3>2, <3>5 DEF ReachInv
    <3> QED
      BY <3>2, <3>4, <3>5, <3>6 DEF ReachInv
  <2> QED
    BY <2>1 DEF ReachInv
<1>6. CASE ListLocal \/ ApplyNext \/ RemoveApplied \/ ListForget \/ Forget \/ PullDone \/ PullFails
  <2>1. pull' # "rsync"
    BY <1>6 DEF ListLocal, ApplyNext, RemoveApplied, ListForget, Forget, PullDone, PullFails,
                EndPull
  <2> QED
    BY <2>1 DEF ReachInv
<1> QED
  BY <1>3, <1>4, <1>5, <1>6 DEF PipelineNext, Pull

(* What changes the Mini's tables. *)
LEMMA AppliesOrNot ==
  ASSUME PipelineNext
  PROVE  ApplyNext \/ (Collecting /\ UNCHANGED mini) \/ UNCHANGED <<journal, mini>>
BY DEF PipelineNext, Collecting, pullVars, Pull, Rsync, Copy, ListLocal, RemoveApplied,
       ListForget, Forget, PullDone, PullFails, vars

BusInv == PipeInv /\ LateInv /\ ReachInv

LEMMA BusInvInit == DatedInit => BusInv
<1> SUFFICES ASSUME DatedInit PROVE BusInv
  OBVIOUS
<1>1. PipeInv /\ mini.events = {} /\ mini.current = {} /\ late = {} /\ pull = "idle"
  BY PipeInvInit DEF DatedInit, PipelineInit, Mini!EmptyDatabase
<1> QED
  BY <1>1 DEF BusInv, LateInv, ReachInv, RowsOfK, LiveRows

LEMMA BusInvStep ==
  ASSUME ~Overlap, NoneFailsLate, BusInv, [DatedNext]_datedVars
  PROVE  BusInv'
<1>1. PipeInv /\ LateInv /\ ReachInv /\ PipeInv'
  BY PipeInvStep DEF BusInv, DatedNext, datedVars
<1>2. CASE UNCHANGED datedVars
  BY <1>1, <1>2 DEF datedVars, history, allVars, pullVars, vars, spoolVars, BusInv, LateInv,
                    ReachInv
<1>3. CASE DatedNext
  <2>1. ReachInv'
    BY <1>1, <1>3, ReachInvStep DEF DatedNext
  <2>2. LateInv'
    <3>1. CASE ApplyNext
      BY <1>1, <1>3, <3>1, LateInvApplied DEF DatedNext
    <3>2. CASE UNCHANGED mini
      <4>1. UNCHANGED late
        BY <1>3, <3>2, LateStays DEF DatedNext
      <4> QED
        BY <1>1, <3>2, <4>1 DEF LateInv
    <3> QED
      BY <1>3, <3>1, <3>2, AppliesOrNot DEF DatedNext
  <2> QED
    BY <1>1, <2>1, <2>2 DEF BusInv
<1> QED
  BY <1>2, <1>3

LEMMA BusInvAlways ==
  ASSUME ~Overlap, NoneFailsLate
  PROVE  DatedSpec => []BusInv
BY BusInvInit, BusInvStep, PTL DEF DatedSpec

(* capture.current has the rows of the log, and no others, at every key but  *)
(* those where a D came after a later image, and at those it is wrong: which *)
(* rows a reader may trust after files came out of order, whatever became of *)
(* the collector and of earlier pulls.                                       *)
THEOREM RowsFollowTheLog ==
  ASSUME ~Overlap, NoneFailsLate
  PROVE  DatedSpec => []LiveButLate
<1>1. BusInv => LiveButLate
  <2> SUFFICES ASSUME BusInv, NEW k \in Keys
               PROVE  RowsOfK(mini.current, k) = RowsOfK(LiveRows(mini.events), k)
                      <=> k \notin late
    BY SameBus DEF LiveButLate, Bus!Faithful
  <2>1. CASE k \notin late
    BY <2>1 DEF BusInv, LateInv
  <2>2. CASE k \in late
    <3>1. PICK m \in mini.events :
            m.key = k /\ CarriesRow(m) /\ Latest(mini.events, m) /\ RowOf(m) \notin mini.current
      BY <2>2 DEF BusInv, LateInv
    <3>2. RowOf(m) \in RowsOfK(LiveRows(mini.events), k)
      BY <3>1 DEF RowsOfK, LiveRows, RowOf
    <3>3. RowOf(m) \notin RowsOfK(mini.current, k)
      BY <3>1 DEF RowsOfK
    <3> QED
      BY <2>2, <3>2, <3>3
  <2> QED
    BY <2>1, <2>2
<1> QED
  BY <1>1, BusInvAlways, PTL

(* The whole bus implements the abstract Mirror: what the utility emits      *)
(* comes after all it has emitted, an applied file grows the Mini's log by   *)
(* events of that, in whatever order files come, and changes a right row     *)
(* only by what is later than all that is logged of it, and no other step of *)
(* collector, pull.sh or forget-spool.sh touches log or rows.                *)
THEOREM ImplementsMirror ==
  ASSUME ~Overlap, NoneFailsLate
  PROVE  DatedSpec => Mirrors
<1>1. DatedInit => Bus!Init
  BY DEF DatedInit, PipelineInit, Mini!EmptyDatabase, Bus!Init
<1>2. BusInv /\ [DatedNext]_datedVars
        => [Bus!Emit \/ Bus!Grow]_<<journal, mini.events, mini.current, late>>
  <2> SUFFICES ASSUME BusInv, [DatedNext]_datedVars
               PROVE  \/ Bus!Emit \/ Bus!Grow
                      \/ UNCHANGED <<journal, mini.events, mini.current, late>>
    OBVIOUS
  <2>1. CASE UNCHANGED datedVars
    BY <2>1 DEF datedVars, history, allVars, pullVars, vars
  <2>2. CASE DatedNext
    <3>1. PipelineNext /\ Record /\ PipeInv /\ PipeInv' /\ LateInv
      BY <2>2, PipeInvStep DEF DatedNext, BusInv
    <3>2. CASE ApplyNext
      BY <3>1, <3>2, LateInvApplied
    <3>3. CASE Collecting /\ UNCHANGED mini
      <4>1. PICK new : Adds(new)
        BY <3>1, <3>3, JournalGrows DEF PipeInv, CollectInv, Collecting
      <4>2. UNCHANGED late
        BY <3>1, <3>3, LateStays
      <4> QED
        BY <3>3, <4>1, <4>2 DEF Adds, Bus!Emit
    <3>4. CASE UNCHANGED <<journal, mini>>
      BY <3>1, <3>4, LateStays
    <3> QED
      BY <3>1, <3>2, <3>3, <3>4, AppliesOrNot
  <2> QED
    BY <2>1, <2>2
<1> QED
  BY <1>1, <1>2, BusInvAlways, PTL DEF DatedSpec, Mirrors, Bus!Spec

(* An rsync that ends well closes every gap up to what was published when it *)
(* began: what it was bound to list, what pulls before it brought and the    *)
(* Mini has not applied, and what the Mini has, together miss nothing.       *)
THEOREM RsyncBringsAll ==
  ASSUME ~Overlap, NoneFailsLate
  PROVE  DatedSpec => RsyncCatchesUp
<1>1. BusInv => [ListLocal => \A e \in journal :
                   e.seq <= reach =>
                     e \in mini.events \cup UNION {incoming[n] : n \in DOMAIN incoming}]_datedVars
  BY DEF BusInv, ReachInv, ListLocal
<1> QED
  BY <1>1, BusInvAlways, PTL DEF RsyncCatchesUp
-----------------------------------------------------------------------------
(***************************************************************************)
(* Point in time: what the journal told at an earlier moment it still tells, *)
(* because all that is new comes after it; and the Mini's watermark is the   *)
(* end of a page.                                                            *)
(***************************************************************************)
JournalTo(s) == {e \in journal : e.seq <= s}

(* What was recorded is what the journal, up to then, tells of the table. *)
TellsTable(log, t) == \A k \in Keys : {r.after : r \in RowsOfK(LiveRows(log), k)} = ImageAt(t, k)

WasInv ==
  /\ 0 \in DOMAIN was
  /\ \A s \in DOMAIN was :
       /\ s = 0 \/ \E e \in journal : e.seq = s
       /\ TellsTable(JournalTo(s), was[s])

(* With a feed that misses nothing, every event of the outbox and the end of *)
(* every page and file were recorded.                                        *)
DatedInv ==
  /\ ~missed /\ Mark \in DOMAIN was
  /\ \A e \in box.rows : e.seq \in DOMAIN was
  /\ \A n \in DOMAIN closed \cup DOMAIN incoming : n.hi \in DOMAIN was
  /\ \A p \in Procs : Drains(p) => NameOf(page[p]).hi \in DOMAIN was

(* A journal that rebuilds the table tells it. *)
LEMMA RebuiltIsTold ==
  ASSUME NEW log, NEW t,
         {<<r.key, r.after>> : r \in LiveRows(log)}
           = {<<k, t[k]>> : k \in {k \in Keys : t[k] # NoAfter}}
  PROVE  TellsTable(log, t)
<1> SUFFICES ASSUME NEW k \in Keys
             PROVE  {r.after : r \in RowsOfK(LiveRows(log), k)} = ImageAt(t, k)
  BY DEF TellsTable
<1> DEFINE rows == LiveRows(log)
<1>1. {<<r.key, r.after>> : r \in rows} = {<<j, t[j]>> : j \in {j \in Keys : t[j] # NoAfter}}
  OBVIOUS
<1> HIDE DEF rows
<1>2. ASSUME NEW r \in rows, r.key = k
      PROVE  r.after = t[k] /\ t[k] # NoAfter
  <2>1. <<r.key, r.after>> \in {<<j, t[j]>> : j \in {j \in Keys : t[j] # NoAfter}}
    BY <1>1
  <2>2. PICK j \in Keys : t[j] # NoAfter /\ <<r.key, r.after>> = <<j, t[j]>>
    BY <2>1
  <2>3. r.key = j /\ r.after = t[j]
    BY <2>2
  <2> QED
    BY <1>2, <2>2, <2>3
<1>3. ASSUME t[k] # NoAfter
      PROVE  \E r \in rows : r.key = k /\ r.after = t[k]
  <2>1. <<k, t[k]>> \in {<<r.key, r.after>> : r \in rows}
    BY <1>1, <1>3
  <2>2. PICK r \in rows : <<k, t[k]>> = <<r.key, r.after>>
    BY <2>1
  <2> QED
    BY <2>2
<1>4. {r.after : r \in {r \in rows : r.key = k}} = ImageAt(t, k)
  <2>1. CASE t[k] = NoAfter
    <3>1. {r \in rows : r.key = k} = {}
      BY <1>2, <2>1
    <3> QED
      BY <2>1, <3>1 DEF ImageAt
  <2>2. CASE t[k] # NoAfter
    <3>1. \A i : i \in {r.after : r \in {r \in rows : r.key = k}} <=> i = t[k]
      BY <1>2, <1>3, <2>2
    <3> QED
      BY <2>2, <3>1 DEF ImageAt
  <2> QED
    BY <2>1, <2>2
<1> QED
  BY <1>4 DEF rows, RowsOfK

(* A new moment is recorded, and the old ones stay what they were. *)
LEMMA WasInvStep ==
  ASSUME WasInv, TypeOK', SeqsTaken', JournalRebuildsTable',
         NEW new, Adds(new), Record
  PROVE  WasInv'
<1>1. /\ \A e \in journal' : e.seq \in Nat /\ e.seq <= Top(journal')
      /\ Top(journal') = 0 \/ \E e \in journal' : e.seq = Top(journal')
  <2>1. journal' \in SUBSET Event /\ tx'.seq \in Nat /\ \A e \in journal' : e.seq <= tx'.seq
    BY DEF TypeOK, Outbox, SeqsTaken
  <2> QED
    BY <2>1, LastSeq DEF Top, Event
<1>2. ASSUME NEW s \in DOMAIN was
      PROVE  /\ s = 0 \/ \E e \in journal' : e.seq = s
             /\ TellsTable(JournalTo(s)', was[s])
  <2>1. /\ s = 0 \/ \E e \in journal : e.seq = s
        /\ TellsTable(JournalTo(s), was[s])
    BY DEF WasInv
  <2>2. /\ journal' = journal \cup new
        /\ \A e \in new : e.seq > 0 /\ e.seq \in Nat /\ \A d \in journal : d.seq < e.seq
        /\ \A d \in journal : d.seq \in Nat
    BY <1>1 DEF Adds, OfDb
  <2>3. \A e \in new : ~(e.seq <= s)
    BY <2>1, <2>2
  <2>4. JournalTo(s)' = JournalTo(s)
    BY <2>2, <2>3 DEF JournalTo
  <2> QED
    BY <2>1, <2>2, <2>4
<1>3. CASE missed'
  <2>1. was' = was
    BY <1>3 DEF Record
  <2> QED
    BY <1>2, <2>1 DEF WasInv, JournalTo
<1>4. CASE ~missed'
  <2>1. was' = [s \in DOMAIN was \cup {Top(journal')} |->
                  IF s = Top(journal') THEN table' ELSE was[s]]
    BY <1>4 DEF Record
  <2>2. {e \in journal' : e.seq <= Top(journal')} = journal'
    BY <1>1
  <2>3. TellsTable(journal', table')
    BY <1>4, RebuiltIsTold DEF JournalRebuildsTable, Present
  <2>4. ASSUME NEW s \in DOMAIN was'
        PROVE  /\ s = 0 \/ \E e \in journal' : e.seq = s
               /\ TellsTable({e \in journal' : e.seq <= s}, was'[s])
    <3>1. CASE s = Top(journal')
      <4>1. was'[s] = table'
        BY <2>1, <3>1
      <4> QED
        BY <1>1, <2>2, <2>3, <3>1, <4>1
    <3>2. CASE s # Top(journal')
      <4>1. s \in DOMAIN was /\ was'[s] = was[s]
        BY <2>1, <3>2
      <4> QED
        BY <1>2, <4>1 DEF JournalTo
    <3> QED
      BY <3>1, <3>2
  <2>5. 0 \in DOMAIN was'
    BY <2>1 DEF WasInv
  <2> QED
    BY <2>4, <2>5 DEF WasInv, JournalTo
<1> QED
  BY <1>3, <1>4

(* Adding to the journal makes the event that was added the last one. *)
LEMMA LastAdded ==
  ASSUME TypeOK', NEW e \in journal', \A d \in journal' : d.seq <= e.seq
  PROVE  Top(journal') = e.seq
<1>1. \A d \in journal' : d.seq \in Nat
  BY DEF TypeOK, Event
<1>2. /\ {0} \cup Seqs(journal') \in SUBSET Int /\ e.seq \in {0} \cup Seqs(journal')
      /\ \A i \in {0} \cup Seqs(journal') : i <= e.seq
  BY <1>1 DEF Seqs
<1> QED
  BY <1>2, MaxIs DEF Top

(* What gets into the outbox is the last event of the journal. *)
LEMMA BoxDated ==
  ASSUME TypeInv, TypeInv', LockInv, JournalInv, [Next]_vars
  PROVE  \A e \in box'.rows : e \in box.rows \/ e.seq = Top(journal')
<1>a. Types
  BY TypeParts
<1>1. ASSUME NEW k \in Keys, NEW op \in Ops, NEW image \in Afters \cup {NoAfter},
             Write(k, op, image)
      PROVE  \A e \in box'.rows : e \in box.rows \/ e.seq = Top(journal')
  <2>1. PICK e : /\ e.seq = CurrentSeq(box) + 1 /\ journal' = journal \cup {e}
                 /\ box'.rows = box.rows \cup {e} /\ lock = "none"
    BY <1>1 DEF Write
  <2>2. e.seq = box.seq + 1 /\ box.seq \in Nat /\ \A d \in journal : d.seq \in Nat
    BY <1>a, <2>1, CurrentSeqOf DEF Types, SqlTypes, Outbox, Event, LockInv, SeqOnTop
  <2>3. \A d \in journal : d.seq <= box.seq
    BY <2>1 DEF LockInv, TxOfBox, JournalInv, SeqsTaken
  <2>4. e \in journal' /\ \A d \in journal' : d.seq <= e.seq
    BY <2>1, <2>2, <2>3
  <2>5. Top(journal') = e.seq
    BY <2>4, LastAdded DEF TypeInv
  <2> QED
    BY <2>1, <2>5
<1>2. ASSUME NEW p \in Procs, Delete(p) PROVE box'.rows \subseteq box.rows
  <2>1. UNCHANGED box \/ (lock # p /\ box' = [Box(p) EXCEPT !.rows =
                                                {e \in @ : e.seq > NameOf(page[p]).hi}])
    BY <1>2 DEF Delete, SetBox
  <2> QED
    BY <1>a, <2>1 DEF Box, Types, SqlTypes, Outbox
<1>3. ASSUME NEW p \in Procs, CommitSnapshot(p) PROVE box'.rows \subseteq box.rows
  BY <1>3 DEF CommitSnapshot, LockInv, TxOfBox
<1>4. CASE \/ \E k \in Keys, op \in Ops, image \in Afters \cup {NoAfter} : MissedWrite(k, op, image)
           \/ BreakFeed \/ RepairFeed \/ PowerLoss \/ UNCHANGED vars
           \/ \E p \in Procs :
                \/ StartDrain(p) \/ Fetch(p) \/ Emit(p) \/ Open(p) \/ WriteLine(p) \/ Sync(p)
                \/ Rename(p) \/ SyncDir(p) \/ RenameFails(p) \/ Die(p)
                \/ \E min \in MinSeqs, allowLarge \in BOOLEAN : StartSnapshot(p, min, allowLarge)
  <2>1. UNCHANGED box
    BY <1>4 DEF MissedWrite, BreakFeed, RepairFeed, PowerLoss, vars, sqlVars, StartDrain, Fetch,
                Emit, Open, WriteLine, Sync, Rename, SyncDir, RenameFails, Die, Abandon,
                StartSnapshot
  <2> QED
    BY <2>1
<1> QED
  BY <1>1, <1>2, <1>3, <1>4 DEF Next, Utility, Step

(* What is closed was a drain's page, or ends with the last of the journal.  *)
LEMMA ClosedDated ==
  ASSUME TypeInv, TypeInv', LockInv, JournalInv, [Next]_vars, NEW n \in DOMAIN closed'
  PROVE  \/ n \in DOMAIN closed \/ n.hi = Top(journal')
         \/ \E p \in Procs : Drains(p) /\ n = NameOf(page[p])
<1>a. Types
  BY TypeParts
<1>1. ASSUME NEW p \in Procs, Rename(p), n \notin DOMAIN closed
      PROVE  n.hi = Top(journal') \/ (Drains(p) /\ n = NameOf(page[p]))
  <2>1. /\ n = NameOf(page[p]) /\ pc[p] = "rename" /\ Holding(p)
        /\ journal' = journal \cup page[p]
    BY <1>1 DEF Rename, Put, Holding
  <2>2. CASE Emits(p)
    <3>1. page[p] \in SUBSET Event /\ IsFiniteSet(page[p]) /\ page[p] # {}
      BY <1>a, <2>1 DEF Types, ProcTypes, PageTypes
    <3>2. PICK e \in page[p] : e.seq = n.hi
      BY <2>1, <3>1, NameOfPage
    <3>3. /\ \A d \in page[p] : d.seq <= n.hi
          /\ \A d \in journal : d.seq < e.seq /\ d.seq \in Nat /\ e.seq \in Nat
      BY <1>a, <2>1, <2>2, <3>1, NameOfPage DEF JournalInv, EmitsNew, Types, SqlTypes, Event
    <3>4. e \in journal' /\ \A d \in journal' : d.seq <= e.seq
      BY <2>1, <3>2, <3>3
    <3> QED
      BY <3>2, <3>4, LastAdded DEF TypeInv
  <2> QED
    BY <1>a, <2>1, <2>2 DEF Emits, Drains, Types, ProcTypes
<1>2. ASSUME NEW p \in Procs, WriteLine(p) \/ Sync(p) PROVE n \in DOMAIN closed
  BY <1>a, <1>2 DEF WriteLine, Sync, SetFile, Put, Types, OpenTypes
<1>3. CASE PowerLoss
  BY <1>a, <1>3 DEF PowerLoss, Types, DirTypes
<1>4. CASE \/ Utility \/ UNCHANGED vars
           \/ \E p \in Procs :
                \/ StartDrain(p) \/ Fetch(p) \/ Emit(p) \/ CommitSnapshot(p) \/ Open(p)
                \/ SyncDir(p) \/ Delete(p) \/ RenameFails(p) \/ Die(p)
                \/ \E min \in MinSeqs, allowLarge \in BOOLEAN : StartSnapshot(p, min, allowLarge)
  <2>1. UNCHANGED closed
    BY <1>4 DEF Utility, Write, MissedWrite, BreakFeed, RepairFeed, vars, spoolVars, StartDrain,
                Fetch, Emit, CommitSnapshot, Open, SyncDir, Delete, RenameFails, Die, Abandon,
                StartSnapshot
  <2> QED
    BY <2>1
<1> QED
  BY <1>1, <1>2, <1>3, <1>4 DEF Next, Step

(* A drain's page ends with an event of the outbox. *)
LEMMA PageDated ==
  ASSUME TypeInv, TypeInv', LockInv, [Next]_vars, NEW p \in Procs, Drains(p)'
  PROVE  \/ Drains(p) /\ page'[p] = page[p]
         \/ \E e \in box.rows : NameOf(page'[p]).hi = e.seq
<1>a. Types
  BY TypeParts
<1>1. CASE Fetch(p)
  <2>1. page'[p] \subseteq Box(p).rows
    <3>1. EndDrain(p) => pc'[p] \in {"emit", "commit", "idle"}
      BY <1>a DEF EndDrain, Stop, Goto, Types, ProcTypes
    <3>2. ~EndDrain(p)
      BY <3>1 DEF Drains, Holding
    <3>3. page' = [page EXCEPT ![p] = NextPage(Box(p).rows, after[p])]
      BY <1>1, <3>2 DEF Fetch
    <3>4. page'[p] = NextPage(Box(p).rows, after[p])
      BY <1>a, <3>3 DEF Types, ProcTypes
    <3> QED
      BY <3>4 DEF NextPage
  <2>2. page'[p] \in SUBSET Event /\ IsFiniteSet(page'[p]) /\ page'[p] # {}
    BY DEF TypeInv, TypeOK, Finite, InHand, Drains
  <2>3. PICK e \in page'[p] : e.seq = NameOf(page'[p]).hi
    BY <2>2, NameOfPage
  <2> QED
    BY <2>1, <2>3 DEF Box, LockInv, TxOfBox
<1>2. CASE Emit(p)
  BY <1>2 DEF Emit, Drains, LockInv, LockFits, PhaseFits
<1> QED
  BY <1>1, <1>2, PageStays DEF Drains

(* Moments that were recorded stay so, and the watermark moves to one.       *)
LEMMA DatedInvStep ==
  ASSUME Missable = {}, PipeInv, PipeInv', DatedInv, PipelineNext, Record
  PROVE  DatedInv'
<1>a. /\ TypeInv /\ LockInv /\ JournalInv /\ TypeInv' /\ HereInv /\ PullInv /\ MiniInv
  BY DEF PipeInv, CollectInv
<1>1. ~missed'
  <2>1. CASE Collecting
    BY <1>a, <2>1
       DEF DatedInv, Collecting, Next, Utility, Write, MissedWrite, BreakFeed, RepairFeed, Step,
           StartDrain, StartSnapshot, Fetch, Emit, CommitSnapshot, Open, WriteLine, Sync, Rename,
           SyncDir, Delete, RenameFails, Die, Abandon, PowerLoss, sqlVars
  <2>2. CASE Pull \/ PullFails
    BY <2>2 DEF DatedInv, Pull, Rsync, Copy, ListLocal, ApplyNext, RemoveApplied, ListForget,
                Forget, PullDone, PullFails, vars, sqlVars
  <2> QED
    BY <2>1, <2>2 DEF PipelineNext
<1>2. DOMAIN was' = DOMAIN was \cup {Top(journal')}
  BY <1>1 DEF Record
<1>3. CASE Collecting
  <2>1. Next /\ UNCHANGED incoming /\ Mark' = Mark
    BY <1>3 DEF Collecting, pullVars, Mark
  <2>2. \A e \in box'.rows : e.seq \in DOMAIN was'
    BY <1>a, <1>2, <2>1, BoxDated DEF DatedInv
  <2>3. \A n \in DOMAIN closed' : n.hi \in DOMAIN was'
    BY <1>a, <1>2, <2>1, ClosedDated DEF DatedInv
  <2>4. \A p \in Procs : Drains(p)' => NameOf(page'[p]).hi \in DOMAIN was'
    BY <1>a, <1>2, <2>1, PageDated DEF DatedInv
  <2> QED
    BY <1>1, <1>2, <2>1, <2>2, <2>3, <2>4 DEF DatedInv
<1>4. CASE Pull \/ PullFails
  <2>1. UNCHANGED <<sqlVars, procVars>> /\ DOMAIN closed' \subseteq DOMAIN closed
    BY <1>4 DEF Pull, Rsync, Copy, ListLocal, ApplyNext, RemoveApplied, ListForget, Forget,
                PullDone, PullFails, vars, spoolVars, Drop
  <2>2. DOMAIN incoming' \subseteq DOMAIN incoming \cup DOMAIN closed
    BY <1>4 DEF Pull, Rsync, Copy, ListLocal, ApplyNext, RemoveApplied, ListForget, Forget,
                PullDone, PullFails, Put, Drop
  <2>3. Mark' \in DOMAIN was
    <3>1. CASE ApplyNext
      BY <3>1, ApplyTakes DEF DatedInv
    <3>2. CASE UNCHANGED mini
      BY <3>2 DEF DatedInv, Mark
    <3> QED
      BY <1>4, <3>1, <3>2 DEF Pull, Rsync, Copy, ListLocal, RemoveApplied, ListForget, Forget,
                              PullDone, PullFails
  <2> QED
    BY <1>1, <1>2, <2>1, <2>2, <2>3 DEF DatedInv, Drains, Holding, sqlVars, procVars
<1> QED
  BY <1>3, <1>4 DEF PipelineNext

(* pull.sh touches nothing that the table's part of the invariant is about.  *)
LEMMA TableStays ==
  ASSUME TableInv, UNCHANGED <<sqlVars, procVars, journal>>
  PROVE  TableInv'
<1>1. UNCHANGED <<table, capturing, missed, pc, phase, page, after, journal>>
  BY DEF sqlVars, procVars
<1>2. \A k : RowFits(k)' <=> RowFits(k)
  BY <1>1 DEF RowFits
<1>3. \A p \in Procs : EmitsTable(p)'
  BY <1>1, <1>2 DEF TableInv, EmitsTable, Emits, Holding, InPage, Present
<1> QED
  BY <1>1, <1>2, <1>3 DEF TableInv

(* An event that tells of a row tells so of that row alone. *)
LEMMA RowsOfOneKey ==
  ASSUME NEW S, NEW T, NEW k, \A e : e.key = k => (e \in S <=> e \in T)
  PROVE  RowsOfK(LiveRows(S), k) = RowsOfK(LiveRows(T), k)
<1>1. \A e : e.key = k => (e \in S /\ Latest(S, e) <=> e \in T /\ Latest(T, e))
  BY DEF Latest, SameRow
<1>2. \A r : r \in RowsOfK(LiveRows(S), k)
               <=> \E e \in S : r = RowOf(e) /\ e.key = k /\ CarriesRow(e) /\ Latest(S, e)
  BY DEF RowsOfK, LiveRows, RowOf
<1>3. \A r : r \in RowsOfK(LiveRows(T), k)
               <=> \E e \in T : r = RowOf(e) /\ e.key = k /\ CarriesRow(e) /\ Latest(T, e)
  BY DEF RowsOfK, LiveRows, RowOf
<1>4. \A r : r \in RowsOfK(LiveRows(S), k) <=> r \in RowsOfK(LiveRows(T), k)
  BY <1>1, <1>2, <1>3
<1> QED
  BY <1>4 DEF RowsOfK

(* A reader of the Mini sees, row by row, the utility's table as it was when *)
(* the event of the watermark was its last: at every row of which nothing up *)
(* to the watermark is missing and that no D reached too late, neither pages *)
(* nor files, neither snapshots nor a feed that breaks, and no death or      *)
(* power loss make it a mixture of two moments.  (A broken feed that loses   *)
(* deletes is the run ghost_row.)                                            *)
THEOREM MiniShowsAPastTable ==
  ASSUME ~Overlap, NoneFailsLate, "D" \notin Missable,
         WithoutRowid \/ \A k \in Keys : k > 0
  PROVE  DatedSpec => []ShowsAPastTable
<1> DEFINE Inv == BusInv /\ TableInv /\ WasInv /\ (Missable = {} => DatedInv)
<1>1. DatedInit => Inv
  <2> SUFFICES ASSUME DatedInit PROVE Inv
    OBVIOUS
  <2>1. BusInv /\ TableInv /\ Init /\ mini = Mini!EmptyDatabase /\ DOMAIN incoming = {}
    BY BusInvInit, TableInvInit DEF DatedInit, PipelineInit
  <2>2. WasInv
    <3>1. /\ DOMAIN was = {0} /\ was[0] = table /\ JournalTo(0) = {}
          /\ \A k \in Keys : table[k] = NoAfter
      BY <2>1 DEF DatedInit, Init, JournalTo
    <3>2. TellsTable({}, table)
      BY <3>1 DEF TellsTable, ImageAt, RowsOfK, LiveRows
    <3> QED
      BY <3>1, <3>2 DEF WasInv
  <2>3. DatedInv
    <3>1. Mark = 0
      BY <2>1, CollectConstants DEF Mini!EmptyDatabase, Mark
    <3> QED
      BY <2>1, <3>1 DEF DatedInit, DatedInv, Init, Drains, Holding
  <2> QED
    BY <2>1, <2>2, <2>3
<1>2. Inv /\ [DatedNext]_datedVars => Inv'
  <2> SUFFICES ASSUME Inv, [DatedNext]_datedVars PROVE Inv'
    OBVIOUS
  <2>1. BusInv' /\ PipeInv /\ PipeInv'
    BY BusInvStep DEF BusInv
  <2>2. JournalSafe /\ JournalSafe'
    BY <2>1 DEF PipeInv, CollectInv, JournalSafe
  <2>3. CASE UNCHANGED datedVars
    <3>1. TableInv'
      <4>1. [Next]_vars
        BY <2>3 DEF datedVars, allVars
      <4> QED
        BY <2>2, <4>1, StartsBelow, TableInvStep
    <3>2. WasInv' /\ (DatedInv => DatedInv')
      BY <2>3 DEF datedVars, history, allVars, vars, sqlVars, spoolVars, procVars, pullVars,
                  WasInv, JournalTo, DatedInv, Mark, Drains, Holding
    <3> QED
      BY <2>1, <3>1, <3>2
  <2>4. CASE DatedNext
    <3>a. Collecting \/ Pull \/ PullFails
      BY <2>4 DEF DatedNext, PipelineNext
    <3>1. TableInv'
      <4>1. CASE Collecting
        BY <2>2, <4>1, StartsBelow, TableInvStep DEF Collecting
      <4>2. CASE Pull \/ PullFails
        <5>1. UNCHANGED <<sqlVars, procVars, journal>>
          BY <4>2 DEF Pull, Rsync, Copy, ListLocal, ApplyNext, RemoveApplied, ListForget, Forget,
                      PullDone, PullFails, vars
        <5> QED
          BY <5>1, TableStays
      <4> QED
        BY <3>a, <4>1, <4>2
    <3>2. JournalRebuildsTable'
      BY <2>2, <3>1, JournalSaysTable, PTL
    <3>3. PICK new : Adds(new)
      <4>1. CASE Collecting
        BY <2>1, <4>1, JournalGrows DEF PipeInv, CollectInv, Collecting
      <4>2. CASE Pull \/ PullFails
        <5>1. Adds({})
          BY <4>2 DEF Adds, Pull, Rsync, Copy, ListLocal, ApplyNext, RemoveApplied, ListForget,
                      Forget, PullDone, PullFails, vars
        <5> QED
          BY <5>1
      <4> QED
        BY <3>a, <4>1, <4>2
    <3>4. WasInv'
      BY <2>2, <2>4, <3>2, <3>3, WasInvStep DEF DatedNext, JournalSafe, TypeInv, JournalInv
    <3>5. Missable = {} => DatedInv'
      BY <2>1, <2>4, DatedInvStep DEF DatedNext
    <3> QED
      BY <2>1, <3>1, <3>4, <3>5
  <2> QED
    BY <2>3, <2>4
<1>3. Inv => ShowsAPastTable
  <2> SUFFICES ASSUME Inv PROVE ShowsAPastTable
    OBVIOUS
  <2>1. ASSUME Mark \in DOMAIN was, NEW k \in Keys \ late,
               \A e \in journal \ mini.events : ~(e.key = k /\ e.seq <= Mark)
        PROVE  {r.after : r \in Bus!RowsAt(mini.current, k)} = ImageAt(was[Mark], k)
    <3>1. RowsOfK(mini.current, k) = RowsOfK(LiveRows(mini.events), k)
      BY <2>1 DEF BusInv, LateInv
    <3>2. mini.events \subseteq journal /\ \A e \in mini.events : e.seq <= Mark
      BY DEF BusInv, PipeInv, MiniInv
    <3>3. \A e : e.key = k => (e \in mini.events <=> e \in JournalTo(Mark))
      BY <2>1, <3>2 DEF JournalTo
    <3>4. RowsOfK(mini.current, k) = RowsOfK(LiveRows(JournalTo(Mark)), k)
      BY <3>1, <3>3, RowsOfOneKey
    <3> QED
      BY <2>1, <3>4, SameBus DEF WasInv, TellsTable
  <2> QED
    BY <2>1 DEF ShowsAPastTable, DatedInv, Mark
<1> QED
  BY <1>1, <1>2, <1>3, PTL DEF DatedSpec
=============================================================================
