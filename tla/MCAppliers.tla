------------------------------ MODULE MCAppliers ------------------------------
(* Appliers for TLC: a row created, deleted and created again over files     *)
(* that overlap, as a drain repeated after a crash publishes them.           *)
EXTENDS Appliers

CONSTANTS k1, a, b, none

Line(seq, op, after) ==
  [src |-> 1, seq |-> seq, key |-> k1, op |-> op, after |-> after]

Batch(lines) ==
  [path |-> [src |-> 1, lo |-> lines[1].seq, hi |-> lines[Len(lines)].seq],
   body |-> lines]

I1 == Line(1, "I", a)
U2 == Line(2, "U", b)
D3 == Line(3, "D", none)
I4 == Line(4, "I", a)

OverlappingFiles == {Batch(<<I1>>), Batch(<<I1, U2, D3>>), Batch(<<U2, D3, I4>>)}
=============================================================================
