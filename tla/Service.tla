-------------------------------- MODULE Service --------------------------------
(***************************************************************************)
(* The collect service over all announced databases: a tick drains every     *)
(* announced one, a datagram (a nudge) drains the one it names, and whatever *)
(* is wrong with one database is logged and left to the next tick.           *)
(*                                                                          *)
(* Collect models one drain system call by system call; here write_batch is  *)
(* one step, and an event is its seq.  A utility commits first and sends its *)
(* nudge later, if at all.                                                   *)
(***************************************************************************)
EXTENDS FiniteSetsExt, Sequences

CONSTANTS
  Dbs,         \* db_names, each given by its rank in string order
  Junk,        \* a datagram that names no database
  Batch,       \* JSONL_BATCH
  QueueCap,    \* the datagrams the socket holds
  MaxSeq,      \* bound: how many rows each utility commits
  MaxMishaps   \* bound: how often anything goes wrong

ASSUME ServiceConstants ==
  /\ Dbs \subseteq Int /\ IsFiniteSet(Dbs) /\ Junk \notin Dbs /\ Batch \in Nat \ {0}
  /\ QueueCap \in Nat /\ MaxSeq \in [Dbs -> Nat] /\ MaxMishaps \in Nat

VARIABLES
  announced,  \* the databases with an announce file load_file accepts
  ready,      \* those whose sqlite is there and has an _outbox
  outbox,     \* the seqs of its _outbox
  malformed,  \* those whose key, before or after is not JSON
  spooled,    \* the seqs in its closed files
  owes,       \* the databases whose utility has committed and not nudged since
  queue,      \* the socket
  due,        \* last_tick is at least a tick ago
  pc,         \* the service: see TypeOK
  ticking,    \* drain_all is running
  todo,       \* the announced databases it has still to drain
  db,         \* {the database in hand}
  after,      \* after_seq
  page,       \* the seqs it has fetched and not deleted
  unheard,    \* history: a nudge or a drain of it was lost since its _outbox was last read
  asked,      \* history: what a running tick has to spool; see Tick
  mishaps

fileVars == <<announced, ready>>
boxVars == <<outbox, malformed, spooled>>
serveVars == <<pc, ticking, todo, db, after, page>>
vars == <<fileVars, boxVars, owes, queue, due, serveVars, unheard, asked, mishaps>>
-----------------------------------------------------------------------------
TypeOK ==
  /\ announced \subseteq Dbs /\ ready \subseteq Dbs
  /\ outbox \in [Dbs -> SUBSET Nat] /\ spooled \in [Dbs -> SUBSET Nat]
  /\ malformed \in [Dbs -> SUBSET Nat] /\ asked \in [Dbs -> SUBSET Nat]
  /\ \A d \in Dbs : outbox[d] \cup spooled[d] \subseteq 1..MaxSeq[d]
  /\ owes \subseteq Dbs /\ queue \in Seq(Dbs \cup {Junk}) /\ Len(queue) <= QueueCap
  /\ due \in BOOLEAN
  /\ pc \in {"down", "loop", "recv", "next", "open", "fetch", "publish", "prune"}
  /\ ticking \in BOOLEAN /\ (ticking \/ todo = {})
  /\ todo \subseteq Dbs /\ db \subseteq Dbs /\ after \in Nat /\ page \subseteq Nat
  /\ (db # {}) = (pc \in {"open", "fetch", "publish", "prune"})
  /\ (after # 0 => db # {})
  /\ (page # {}) = (pc \in {"publish", "prune"})
  /\ unheard \subseteq Dbs /\ mishaps \in Nat

Init ==
  /\ announced = Dbs /\ ready = Dbs
  /\ outbox = [d \in Dbs |-> {}] /\ spooled = [d \in Dbs |-> {}]
  /\ malformed = [d \in Dbs |-> {}]
  /\ owes = {} /\ queue = <<>> /\ due = TRUE
  /\ pc = "loop" /\ ticking = FALSE /\ todo = {} /\ db = {} /\ after = 0 /\ page = {}
  /\ unheard = {} /\ asked = [d \in Dbs |-> {}] /\ mishaps = 0
-----------------------------------------------------------------------------
(* The utilities. *)

LastSeq(d) == Max({0} \cup outbox[d] \cup spooled[d])

(* A drain of d meets nothing wrong. *)
Healthy(d) == d \in announced \cap ready /\ malformed[d] \cap outbox[d] = {}

CountMishap == mishaps < MaxMishaps /\ mishaps' = mishaps + 1

(* Something went wrong with d: a running tick owes it nothing any more. *)
Excuse(d) == asked' = [asked EXCEPT ![d] = {}]

Commit(d) ==
  /\ LastSeq(d) < MaxSeq[d]
  /\ outbox' = [outbox EXCEPT ![d] = @ \cup {LastSeq(d) + 1}]
  /\ owes' = owes \cup {d}
  /\ \/ UNCHANGED <<malformed, asked, mishaps>>
     \/ /\ malformed' = [malformed EXCEPT ![d] = @ \cup {LastSeq(d) + 1}]
        /\ Excuse(d) /\ CountMishap
  /\ UNCHANGED <<fileVars, spooled, queue, due, serveVars, unheard>>

(* Its datagram, when there is room; anyone may send junk at any time.       *)
Nudge(name) ==
  /\ name \in owes \cup {Junk} /\ Len(queue) < QueueCap
  /\ queue' = Append(queue, name) /\ owes' = owes \ {name}
  /\ UNCHANGED <<fileVars, boxVars, due, serveVars, unheard, asked, mishaps>>

(* It is not: no room, EACCES, or the utility died after its commit. *)
NudgeLost(d) ==
  /\ d \in owes
  /\ owes' = owes \ {d} /\ unheard' = unheard \cup {d}
  /\ UNCHANGED <<fileVars, boxVars, queue, due, serveVars, asked, mishaps>>

(* The announce file goes, is not JSON or names another database; the sqlite *)
(* goes or has no _outbox.                                                   *)
Break(d) ==
  /\ \/ d \in announced /\ announced' = announced \ {d} /\ UNCHANGED ready
     \/ d \in ready /\ ready' = ready \ {d} /\ UNCHANGED announced
  /\ Excuse(d) /\ CountMishap
  /\ UNCHANGED <<boxVars, owes, queue, due, serveVars, unheard>>

Repair(d) ==
  /\ announced' = announced \cup {d} /\ ready' = ready \cup {d}
  /\ malformed' = [malformed EXCEPT ![d] = {}]
  /\ UNCHANGED <<outbox, spooled, owes, queue, due, serveVars, unheard, asked, mishaps>>
-----------------------------------------------------------------------------
(* serve *)

(* The rest of the tick interval passes. *)
Elapse ==
  /\ ~due /\ due' = TRUE
  /\ UNCHANGED <<fileVars, boxVars, owes, queue, serveVars, unheard, asked, mishaps>>

(* load_dir, which skips the announce files it cannot read. *)
LoadDir == announced

(* drain_all ends where it began: the directory cannot be read. *)
LoadDirFails ==
  /\ pc = "loop" /\ due
  /\ pc' = "recv" /\ due' = FALSE /\ CountMishap
  /\ UNCHANGED <<fileVars, boxVars, owes, queue, ticking, todo, db, after, page, unheard, asked>>

(* drain_all begins. *)
Tick ==
  /\ pc = "loop" /\ due
  /\ pc' = "next" /\ ticking' = TRUE /\ todo' = LoadDir
  /\ asked' = [d \in Dbs |-> IF Healthy(d) THEN outbox[d] ELSE {}]
  /\ UNCHANGED <<fileVars, boxVars, owes, queue, due, db, after, page, unheard, mishaps>>

TickNext ==
  /\ pc = "next" /\ todo # {}
  /\ pc' = "open" /\ db' = {Min(todo)} /\ todo' = todo \ db'
  /\ UNCHANGED <<fileVars, boxVars, owes, queue, due, ticking, after, page, unheard, asked,
                 mishaps>>

TickDone ==
  /\ pc = "next" /\ todo = {}
  /\ pc' = "recv" /\ ticking' = FALSE /\ due' = FALSE
  /\ asked' = [d \in Dbs |-> {}]
  /\ UNCHANGED <<fileVars, boxVars, owes, queue, todo, db, after, page, unheard, mishaps>>

(* Fault: the tick is looked at only when the socket is quiet. *)
ListenWhileBusy ==
  /\ pc = "loop" /\ (~due \/ queue # <<>>)
  /\ pc' = "recv"
  /\ UNCHANGED <<fileVars, boxVars, owes, queue, due, ticking, todo, db, after, page, unheard,
                 asked, mishaps>>

Listen ==
  /\ pc = "loop" /\ ~due
  /\ pc' = "recv"
  /\ UNCHANGED <<fileVars, boxVars, owes, queue, due, ticking, todo, db, after, page, unheard,
                 asked, mishaps>>

(* recv_from returns a datagram, or times out after 500 ms. *)
Recv ==
  /\ pc = "recv"
  /\ IF queue = <<>> \/ Head(queue) = Junk THEN pc' = "loop" /\ UNCHANGED db
     ELSE pc' = "open" /\ db' = {Head(queue)}
  /\ queue' = IF queue = <<>> THEN queue ELSE Tail(queue)
  /\ UNCHANGED <<fileVars, boxVars, owes, due, ticking, todo, after, page, unheard, asked,
                 mishaps>>
-----------------------------------------------------------------------------
(* drain_named, for the database in hand. *)

(* Fault: after_seq is not set back to 0 for the next database. *)
ReturnKeepingAfter ==
  /\ pc' = IF ticking THEN "next" ELSE "loop"
  /\ db' = {} /\ page' = {} /\ UNCHANGED <<after, ticking, todo>>

(* Back in drain_all or in serve, which log an error and go on. *)
Return ==
  /\ pc' = IF ticking THEN "next" ELSE "loop"
  /\ db' = {} /\ after' = 0 /\ page' = {} /\ UNCHANGED <<ticking, todo>>

(* Fault: the first error ends the tick. *)
FailTick ==
  /\ pc' = IF ticking THEN "next" ELSE "loop"
  /\ db' = {} /\ after' = 0 /\ page' = {} /\ todo' = {}
  /\ unheard' = unheard \cup db /\ UNCHANGED ticking

Fail == Return /\ unheard' = unheard \cup db

(* load_named reads the announce file again; the sqlite is opened. *)
Open ==
  /\ pc = "open"
  /\ IF db \subseteq announced \cap ready
     THEN pc' = "fetch" /\ UNCHANGED <<ticking, todo, db, after, page, unheard>>
     ELSE Fail
  /\ UNCHANGED <<fileVars, boxVars, owes, queue, due, asked, mishaps>>

(* Fault: rows that do not parse are passed over. *)
NextPageThatParses(d) ==
  LET later == {s \in outbox[d] \ malformed[d] : s > after} IN
    {s \in later : Cardinality({r \in later : r < s}) < Batch}

NextPage(d) ==
  LET later == {s \in outbox[d] : s > after} IN
    {s \in later : Cardinality({r \in later : r < s}) < Batch}

(* fetch_outbox_page: one malformed row fails the page, no row ends the      *)
(* drain.                                                                    *)
Fetch ==
  /\ pc = "fetch"
  /\ \E d \in db : LET next == NextPage(d) IN
       IF next \cap malformed[d] # {} THEN Fail
       ELSE /\ unheard' = unheard \ db
            /\ IF next = {} THEN Return
               ELSE /\ pc' = "publish" /\ page' = next
                    /\ UNCHANGED <<ticking, todo, db, after>>
  /\ UNCHANGED <<fileVars, boxVars, owes, queue, due, asked, mishaps>>

(* write_batch *)
Publish ==
  /\ pc = "publish" /\ pc' = "prune"
  /\ spooled' = [d \in Dbs |-> IF d \in db THEN spooled[d] \cup page ELSE spooled[d]]
  /\ UNCHANGED <<fileVars, outbox, malformed, owes, queue, due, ticking, todo, db, after, page,
                 unheard, asked, mishaps>>

(* Fault: one page and no more. *)
PruneOnce ==
  /\ pc = "prune"
  /\ outbox' = [d \in Dbs |-> IF d \in db THEN {s \in outbox[d] : s > Max(page)} ELSE outbox[d]]
  /\ Return
  /\ UNCHANGED <<fileVars, malformed, spooled, owes, queue, due, unheard, asked, mishaps>>

(* The DELETE; a page that was not full is the last. *)
Prune ==
  /\ pc = "prune"
  /\ outbox' = [d \in Dbs |-> IF d \in db THEN {s \in outbox[d] : s > Max(page)} ELSE outbox[d]]
  /\ IF Cardinality(page) < Batch THEN Return
     ELSE /\ pc' = "fetch" /\ after' = Max(page) /\ page' = {}
          /\ UNCHANGED <<ticking, todo, db>>
  /\ UNCHANGED <<fileVars, malformed, spooled, owes, queue, due, unheard, asked, mishaps>>

(* ENOSPC, or SQLITE_BUSY after 5 s. *)
CallFails ==
  /\ pc \in {"open", "fetch", "publish", "prune"} /\ Fail
  /\ asked' = [d \in Dbs |-> IF d \in db THEN {} ELSE asked[d]] /\ CountMishap
  /\ UNCHANGED <<fileVars, boxVars, owes, queue, due>>

(* The service dies and systemd starts it again, its first tick due. *)
Die ==
  /\ pc # "down" /\ pc' = "down"
  /\ ticking' = FALSE /\ todo' = {} /\ db' = {} /\ after' = 0 /\ page' = {}
  /\ unheard' = unheard \cup db
  /\ asked' = [d \in Dbs |-> {}] /\ CountMishap
  /\ UNCHANGED <<fileVars, boxVars, owes, queue, due>>

(* bind_sock: systemd passes on the socket it has kept, with what was sent   *)
(* meanwhile, or the service binds one of its own, which is empty.           *)
BindSock ==
  \/ UNCHANGED <<queue, unheard>>
  \/ queue' = <<>> /\ unheard' = unheard \cup (Dbs \cap {queue[i] : i \in DOMAIN queue})

Restart ==
  /\ pc = "down" /\ pc' = "loop" /\ due' = TRUE /\ BindSock
  /\ UNCHANGED <<fileVars, boxVars, owes, ticking, todo, db, after, page, asked, mishaps>>
-----------------------------------------------------------------------------
Serve ==
  \/ Tick \/ TickNext \/ TickDone \/ Listen \/ Recv
  \/ Open \/ Fetch \/ Publish \/ Prune \/ Restart

Next ==
  \/ \E d \in Dbs : Commit(d) \/ NudgeLost(d) \/ Break(d) \/ Repair(d)
  \/ \E name \in Dbs \cup {Junk} : Nudge(name)
  \/ Elapse
  \/ Serve \/ LoadDirFails \/ CallFails \/ Die

Spec == Init /\ [][Next]_vars

(* Time passes, the service's calls return, systemd restarts it; nothing is  *)
(* asked of the utilities and their nudges.                                  *)
FairSpec == Spec /\ WF_vars(Elapse) /\ WF_vars(Serve)
-----------------------------------------------------------------------------
(* No wake-up is lost between a drain that is ending and a utility that has  *)
(* just committed: rows in an _outbox have a nudge to come, one in the       *)
(* socket, or a drain in hand that will see them, unless a nudge or a drain  *)
(* of their database failed, or the socket was lost with a nudge in it,      *)
(* after it was last read.  Ticks are not needed for it.                     *)
NoLostWakeup ==
  \A d \in Dbs : outbox[d] # {} =>
    d \in owes \cup unheard \cup db \cup {queue[i] : i \in DOMAIN queue}

(* When a tick ends, whatever was committed before it began is spooled, of   *)
(* every database that was sound when it began and untouched since, however  *)
(* broken the others are.  (A tick that cannot list them drains none.)       *)
TickDrainsAll == [][TickDone => \A d \in Dbs : asked[d] \subseteq spooled[d]]_vars

(* Nothing is spooled past a row that could not be: a malformed row holds up *)
(* its database, and never lets a later row overtake it.                     *)
NoOvertaking ==
  \A d \in Dbs : \A s \in spooled[d] : 1..s \subseteq spooled[d]

(* "_outbox stays until the 60s tick": lost nudges, a flooded or lost        *)
(* socket, broken other databases, failed calls and ticks, and restarts      *)
(* delay a sound database and never keep it from being drained.              *)
SoundIsDrained ==
  \A d \in Dbs :
    <>[]Healthy(d) => \A s \in 1..MaxSeq[d] : s \in outbox[d] ~> s \in spooled[d]
=============================================================================
