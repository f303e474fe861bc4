------------------------------- MODULE Pipeline -------------------------------
(***************************************************************************)
(* The whole bus for one utility: Collect on the Oracle side, the Mini's     *)
(* tables, and pull.sh between them, which copies the closed files, applies  *)
(* them and forgets the applied ones on Oracle while the collector goes on.  *)
(*                                                                          *)
(* The Mini is SerialMini: a file is one step, because the applier of        *)
(* pull.sh's lock is alone and its transaction is seen when it commits.      *)
(* rsync takes one file after another while the collector publishes: what    *)
(* was closed when its listing began is in it, and of what is closed while   *)
(* it lists any part, a later file without an earlier one included.          *)
(***************************************************************************)
EXTENDS Collect

VARIABLES
  mini,       \* capture.events, capture.current and capture.watermarks
  incoming,   \* $LOCAL_SPOOL: name -> the events of the file
  pull,       \* pull.sh: idle, rsync, apply, remove or forget
  listed,     \* $before, the names it listed after rsync
  todo        \* the names it has still to copy, to apply or to forget

pullVars == <<mini, incoming, pull, listed, todo>>
allVars == <<vars, pullVars>>

Mini == INSTANCE SerialMini WITH db <- mini, Files <- {}

PipelineTypeOK ==
  /\ TypeOK
  /\ mini \in Mini!Database
  /\ DOMAIN incoming \subseteq Name /\ \A n \in DOMAIN incoming : incoming[n] \subseteq Event
  /\ pull \in {"idle", "rsync", "apply", "remove", "forget"}
  /\ listed \subseteq Name /\ todo \subseteq Name
  /\ (pull = "rsync" => todo \subseteq DOMAIN closed)
  /\ (pull \in {"apply", "remove"} => todo \subseteq DOMAIN incoming \cap listed)

PipelineInit ==
  /\ Init
  /\ mini = Mini!EmptyDatabase /\ incoming = [n \in {} |-> {}]
  /\ pull = "idle" /\ listed = {} /\ todo = {}
-----------------------------------------------------------------------------
(* pull.sh takes the lock, and rsync opens the directory. *)
Rsync ==
  /\ pull = "idle" /\ pull' = "rsync" /\ todo' = DOMAIN closed
  /\ UNCHANGED <<vars, mini, incoming, listed>>

(* rsync copies a file: one that readdir had to list, or one that was closed *)
(* while it was listing.                                                     *)
Copy(n) ==
  /\ pull = "rsync" /\ n \in todo \cup (DOMAIN closed \ DOMAIN incoming)
  /\ incoming' = Put(incoming, n, closed[n].lines) /\ todo' = todo \ {n}
  /\ UNCHANGED <<vars, mini, pull, listed>>

(* Fault: rsync's exit status is ignored. *)
ListAnyway ==
  /\ pull = "rsync" /\ pull' = "apply"
  /\ listed' = DOMAIN incoming /\ todo' = listed'
  /\ UNCHANGED <<vars, mini, incoming>>

(* rsync has copied all that it listed, and pull.sh lists the local spool.   *)
ListLocal ==
  /\ pull = "rsync" /\ todo = {} /\ pull' = "apply"
  /\ listed' = DOMAIN incoming /\ todo' = listed'
  /\ UNCHANGED <<vars, mini, incoming>>

(* The first in the order of list_jsonl. *)
FirstOf(names) ==
  LET PathOf(n) == [src |-> Db, lo |-> n.lo, hi |-> n.hi] IN
    CHOOSE n \in names : \A m \in names : m = n \/ Mini!Before(PathOf(n), PathOf(m))

(* The lines of a file, as write_batch wrote them: in seq order. *)
InSeqOrder(events) ==
  CHOOSE s \in [1..Cardinality(events) -> events] :
    \A i, j \in DOMAIN s : i < j => s[i].seq < s[j].seq

(* apply --delete-after, one file: its transaction, *)
ApplyNext ==
  /\ pull = "apply" /\ todo # {} /\ pull' = "remove"
  /\ mini' = Mini!ApplyFile(mini, InSeqOrder(incoming[FirstOf(todo)]))
  /\ UNCHANGED <<vars, incoming, listed, todo>>

(* Fault: an applied path stays on the list. *)
RemoveAndKeepListed ==
  /\ pull = "remove" /\ pull' = "apply"
  /\ incoming' = Drop(incoming, FirstOf(todo))
  /\ UNCHANGED <<vars, mini, listed, todo>>

(* and its removal. *)
RemoveApplied ==
  /\ pull = "remove" /\ pull' = "apply"
  /\ todo' = todo \ {FirstOf(todo)} /\ incoming' = Drop(incoming, FirstOf(todo))
  /\ UNCHANGED <<vars, mini, listed>>

(* Fault: whatever is on Oracle by now is forgotten. *)
ListWhatIsClosed ==
  /\ pull = "apply" /\ todo = {} /\ pull' = "forget"
  /\ listed' = DOMAIN closed /\ todo' = listed'
  /\ UNCHANGED <<vars, mini, incoming>>

(* What was listed and is gone here is to be forgotten there. *)
ListForget ==
  /\ pull = "apply" /\ todo = {} /\ pull' = "forget"
  /\ todo' = listed \ DOMAIN incoming
  /\ UNCHANGED <<vars, mini, incoming, listed>>

(* forget-spool.sh, one name: rm -f, whether the file is there or not. *)
Forget ==
  /\ pull = "forget"
  /\ \E n \in todo :
       /\ closed' = Drop(closed, n) /\ durable' = durable \ {n}
       /\ todo' = todo \ {n}
  /\ UNCHANGED <<sqlVars, tmp, procVars, journal, deaths, mini, incoming, pull, listed>>

PullDone ==
  /\ pull = "forget" /\ todo = {} /\ pull' = "idle" /\ listed' = {}
  /\ UNCHANGED <<vars, mini, incoming, todo>>

(* rsync, the applier or ssh fails, or the Mini goes down: `set -e` ends it. *)
EndPull == pull' = "idle" /\ todo' = {} /\ listed' = {}

PullFails ==
  /\ pull # "idle" /\ CountDeath /\ EndPull
  /\ UNCHANGED <<sqlVars, spoolVars, procVars, journal, mini, incoming>>

(* A collector's step.  When the power of its host fails, rsync and ssh lose *)
(* their connection.                                                         *)
Connected == pull \in {"rsync", "forget"}

Collecting ==
  /\ Next
  /\ IF PowerLoss /\ Connected THEN EndPull /\ UNCHANGED <<mini, incoming>>
     ELSE UNCHANGED pullVars
-----------------------------------------------------------------------------
Pull ==
  \/ Rsync \/ (\E n \in DOMAIN closed : Copy(n)) \/ ListLocal
  \/ ApplyNext \/ RemoveApplied \/ ListForget \/ Forget \/ PullDone

PipelineNext == Collecting \/ Pull \/ PullFails

PipelineSpec == PipelineInit /\ [][PipelineNext]_allVars

(* The service ticks, launchd starts pull.sh again and again, and what is    *)
(* started goes on.                                                          *)
PipelineFairness ==
  /\ WF_allVars(Pull)
  /\ WF_allVars(StartDrain(Service) /\ UNCHANGED pullVars)
  /\ \A p \in Procs : WF_allVars(Step(p) /\ UNCHANGED pullVars)
-----------------------------------------------------------------------------
(* A committed change is in the outbox, in a closed file or in the Mini,     *)
(* whoever dies when: neither the DELETE of a drain, nor the removal of an   *)
(* applied file, nor forget-spool.sh takes the last copy, of a name that was *)
(* published again meanwhile included.                                       *)
NeverLost == journal \subseteq box.rows \cup Published \cup mini.events

(* The watermark may be ahead of a gap, and what is in the gap is then in a  *)
(* closed file a power loss leaves, not in the outbox alone: a later pull    *)
(* fills it, and no seq is still to come that --min-seq has to stay above.   *)
GapsAreSpooled ==
  \A e \in journal :
    e.seq <= mini.watermarks[Db] =>
      e \in mini.events \cup UNION {closed[n].lines : n \in durable}
=============================================================================
