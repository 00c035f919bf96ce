---------------------------- MODULE MCMaskedJoin ----------------------------
(* A small instance of MaskedJoin: the group of order Q, three sources.    *)
EXTENDS MaskedJoin, ExponentGroup, TLC

CONSTANTS A, B, C

ThreeSources == <<A, B, C>>

Item(s, u, v) == [src |-> s, uid |-> u, val |-> v]

(* One key in common and one of A only; the same with A's key sent twice,  *)
(* in a group that is too small for the join, or just the wrong one.       *)
SomeInputs == {
  << Item(1, "u", 3), Item(2, "u", 4), Item(3, "u", 5), Item(1, "v", 6) >>,
  << Item(1, "v", 6), Item(2, "u", 4), Item(1, "v", 6), Item(3, "u", 5) >>,
  << Item(1, "u", 3), Item(2, "u", 4), Item(1, "u", 3) >> }

SomeHash == [u |-> 2, v |-> 5]

Draws ==
  "bsk" :> {2, 7} @@ "esk" :> {3} @@ "convK" :> {3, 4} @@ "share" :> {1, 2, 4}
  @@ "blind" :> {2} @@ "encrypt" :> {1} @@ "joinid" :> {0, 5} @@ "value" :> {4}
  @@ "rp" :> {6, 9} @@ "mask" :> {8} @@ "hint" :> {2}
=============================================================================
