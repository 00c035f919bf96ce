--------------------------- MODULE ExponentGroup ---------------------------
(***************************************************************************)
(* The group of src/mppj-go/group.go: a cyclic group of prime order with a *)
(* generator, in multiplicative notation.  A point is its exponent to the  *)
(* base of the generator, so the product of points is a sum of exponents.  *)
(* This is how TLC calculates in the group that MaskedJoin leaves open.    *)
(***************************************************************************)
EXTENDS Integers

CONSTANT Q  \* the order of the group

ASSUME OrderAssumption ==
  /\ Q \in Nat /\ Q > 2
  /\ \A a, b \in 1 .. Q - 1 : (a * b) % Q # 0

GPoint  == 0 .. Q - 1
GScalar == 0 .. Q - 1

GGen      == 1
GIdentity == 0

GMul(a, b)       == (a + b) % Q
GInvert(a)       == (Q - a) % Q
GScalarExp(a, s) == (a * s) % Q

GZero      == 0
GAdd(s, t) == (s + t) % Q
GNeg(s)    == (Q - s) % Q
=============================================================================
