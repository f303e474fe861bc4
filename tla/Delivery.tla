------------------------------- MODULE Delivery -------------------------------
(***************************************************************************)
(* What the sources publish, and what "in order" means for the files an      *)
(* rsync brings: write_batch cuts each source's events into files that may   *)
(* overlap, when a drain was repeated after a crash, but have no holes.      *)
(***************************************************************************)
EXTENDS MiniTables

SeqRange(s) == {s[i] : i \in DOMAIN s}

(* The events the sources emitted. *)
Journal == UNION {SeqRange(f.body) : f \in Files}

ASSUME JournalAssumption ==
  \A d, e \in Journal : d.src = e.src /\ d.seq = e.seq => d = e

ASSUME BatchAssumption ==
  \A f \in Files :
    /\ f.body # <<>> /\ f.path.lo = f.body[1].seq
    /\ \A i \in DOMAIN f.body : f.body[i].src = f.path.src
    /\ \A i, j \in DOMAIN f.body : i < j => f.body[i].seq < f.body[j].seq
    /\ \A e \in Journal :
         e.src = f.path.src /\ f.path.lo <= e.seq
           /\ (\E i \in DOMAIN f.body : e.seq <= f.body[i].seq)
         => e \in SeqRange(f.body)

ASSUME PathAssumption == \A f, g \in Files : f.path = g.path => f = g

(* What a local spool holds. *)
Held(spool) == UNION {SeqRange(spool[p]) : p \in DOMAIN spool}

(* Every event before one of the spool's is in the log or in the spool. *)
GapFree(log, spool) ==
  \A p \in DOMAIN spool : \A e \in Journal :
    e.src = p.src /\ e.seq < p.lo => e \in log \cup Held(spool)
=============================================================================
