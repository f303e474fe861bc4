------------------------------- MODULE MCApply -------------------------------
(***************************************************************************)
(* Instances of Apply and ApplyInOrder for TLC: two sources, the second with *)
(* a file the Mini refuses; a row that is created, updated, deleted and      *)
(* created again over three files; and a fourth file that overlaps them, as  *)
(* a drain repeated after a crash publishes it.                              *)
(***************************************************************************)
EXTENDS ApplyInOrder

CONSTANTS k1, k2, a, b, none

Line(src, seq, op, key, after) ==
  [src |-> src, seq |-> seq, key |-> key, op |-> op, after |-> after]

Batch(lines) ==
  [path |-> [src |-> lines[1].src, lo |-> lines[1].seq,
             hi |-> lines[Len(lines)].seq],
   body |-> lines]

I1 == Line(1, 1, "I", k1, a)
I2 == Line(1, 2, "I", k2, a)
U3 == Line(1, 3, "U", k1, b)
D4 == Line(1, 4, "D", k1, none)
I5 == Line(1, 5, "I", k1, a)
N6 == Line(1, 6, "U", k2, none)
O1 == Line(2, 1, "I", k1, a)
X2 == Line(2, 2, "X", k1, a)

(* Out of order, every single order of the files counts. *)
AnyOrderFiles == {Batch(<<I1, I2>>), Batch(<<U3, D4>>), Batch(<<I5>>),
                  Batch(<<I1, I2, U3>>), Batch(<<O1>>), Batch(<<X2>>)}

InOrderFiles == {Batch(<<I1, I2>>), Batch(<<U3, D4>>), Batch(<<I1, I2, U3>>),
                 Batch(<<D4, I5, N6>>), Batch(<<O1>>), Batch(<<X2>>)}
=============================================================================
