------------------------------- MODULE Replica -------------------------------
(***************************************************************************)
(* What the Mini promises when the spool reaches it in order: a log that     *)
(* only grows, each time to another prefix of every source's journal, and    *)
(* the live rows of exactly that log, changed together with it.  The sources *)
(* go on writing: what they emit comes after all they have emitted before.   *)
(***************************************************************************)
EXTENDS CaptureEvents

VARIABLES
  journal,    \* every event the sources have emitted
  log, live

(* No event is in S before an earlier one of its source. *)
PrefixClosed(S) ==
  \A e \in S : \A d \in journal : d.src = e.src /\ d.seq < e.seq => d \in S

Init == log = {} /\ live = {}

Emit ==
  /\ journal \subseteq journal' /\ UNCHANGED <<log, live>>
  /\ \A e \in journal' \ journal : \A d \in journal : d.src = e.src => d.seq < e.seq

Grow ==
  /\ log \subseteq log' /\ log' \subseteq journal /\ PrefixClosed(log')
  /\ live' = LiveRows(log') /\ UNCHANGED journal

Spec == Init /\ [][Emit \/ Grow]_<<journal, log, live>>
=============================================================================
