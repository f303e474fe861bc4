---------------------------- MODULE ApplyInOrder ----------------------------
(***************************************************************************)
(* The Mini when its spool is delivered in order: every rsync leaves, with   *)
(* each file, all the files its source published before it (unless they are  *)
(* applied), as it does while the collector does not publish under its       *)
(* listing, and nothing is applied out of turn with --file.  Then            *)
(* capture.current is what DAILY_OPS calls it, the reconstructed live row of *)
(* the log.  Pipeline has the rsync that misses a file.                      *)
(***************************************************************************)
EXTENDS Apply, Delivery

(* Every event before one of the spool's is in the log or in the spool. *)
NoGap(spool) == GapFree(db.events, spool)

(* One rsync: the files of F, in any order among themselves. *)
ArriveInOrder == \E F \in SUBSET Files : Arrive(F) /\ NoGap(incoming')

InOrderNext ==
  \/ ArriveInOrder
  \/ \E delete \in BOOLEAN : StartSpool(delete)
  \/ Run
  \/ Crash

InOrderSpec == Init /\ [][InOrderNext]_vars

(* launchd starts pull.sh again and again; a run that is not killed goes on. *)
FairSpec ==
  InOrderSpec /\ WF_vars(\E delete \in BOOLEAN : StartSpool(delete)) /\ WF_vars(Run)
-----------------------------------------------------------------------------
(* capture.current is the live rows of capture.events: each row's latest     *)
(* event decides it, through crashes, replays and overlapping files.         *)
CurrentIsLatest == db.current = LiveRows(db.events)

(* The two tables move together along prefixes of the journals. *)
Mini == INSTANCE Replica WITH journal <- Journal, log <- db.events, live <- db.current
Replicates == Mini!Spec

(* A file that sorts before every refused one gets applied, once runs are no *)
(* longer killed: every one ends by itself, when it has done all its files   *)
(* or at a refused line.  That error ends the run, so only what sorts behind *)
(* a bad file waits for it.                                                  *)
Refused(f) == \E i \in DOMAIN f.body : f.body[i].op \notin Ops
EventuallyLogged ==
  \A f \in Files :
    (\A g \in Files : Refused(g) => Before(f.path, g.path))
    => (<>[][Crash => Run]_vars
        => (f.path \in DOMAIN incoming
              ~> SeqRange(f.body) \subseteq db.events))
=============================================================================
