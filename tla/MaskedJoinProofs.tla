-------------------------- MODULE MaskedJoinProofs --------------------------
(***************************************************************************)
(* Proofs about MaskedJoin, for any group that satisfies GroupAssumption,  *)
(* any hash that satisfies HashAssumption, any sources and rows, and any   *)
(* outcome of the random draws.                                            *)
(***************************************************************************)
EXTENDS MaskedJoin, DataLemmas

-----------------------------------------------------------------------------
(* The group.                                                              *)

(* Multiplying by a point and by its inverse changes nothing.              *)
LEMMA Cancel ==
  ASSUME NEW m \in Point, NEW a \in Point
  PROVE  Mul(Mul(m, a), Invert(a)) = m
  <1>1. Invert(a) \in Point /\ Mul(a, Invert(a)) = Identity BY GroupAssumption
  <1>2. Mul(Mul(m, a), Invert(a)) = Mul(m, Mul(a, Invert(a))) BY <1>1, GroupAssumption
  <1> QED BY <1>1, <1>2, GroupAssumption

(* The inverse is unique.                                                  *)
LEMMA InvertUnique ==
  ASSUME NEW a \in Point, NEW b \in Point, Mul(a, b) = Identity
  PROVE  b = Invert(a)
  <1>1. Invert(a) \in Point BY GroupAssumption
  <1>2. Mul(b, a) = Identity BY GroupAssumption
  <1>3. Mul(Mul(b, a), Invert(a)) = b BY Cancel
  <1>4. Mul(Identity, Invert(a)) = Invert(a) BY <1>1, GroupAssumption
  <1> QED BY <1>2, <1>3, <1>4

LEMMA InvertTwice ==
  ASSUME NEW a \in Point PROVE Invert(Invert(a)) = a
  <1>1. Invert(a) \in Point /\ Mul(a, Invert(a)) = Identity BY GroupAssumption
  <1>2. Mul(Invert(a), a) = Identity BY <1>1, GroupAssumption
  <1> QED BY <1>1, <1>2, InvertUnique

(* Points with one quotient are equal.                                     *)
LEMMA QuotientEqual ==
  ASSUME NEW a \in Point, NEW b \in Point, Mul(a, Invert(b)) = Identity
  PROVE  a = b
  <1>1. Invert(b) \in Point BY GroupAssumption
  <1>2. Mul(Invert(b), a) = Identity BY <1>1, GroupAssumption
  <1>3. a = Invert(Invert(b)) BY <1>1, <1>2, InvertUnique
  <1> QED BY <1>3, InvertTwice

(* The laws of powers, one by one.                                         *)
LEMMA PowerOfProduct ==
  ASSUME NEW a \in Point, NEW b \in Point, NEW s \in Scalar
  PROVE  ScalarExp(Mul(a, b), s) = Mul(ScalarExp(a, s), ScalarExp(b, s))
  BY GroupAssumption

LEMMA PowerOfSum ==
  ASSUME NEW a \in Point, NEW s \in Scalar, NEW t \in Scalar
  PROVE  ScalarExp(a, Add(s, t)) = Mul(ScalarExp(a, s), ScalarExp(a, t))
  BY GroupAssumption

LEMMA PowersCommute ==
  ASSUME NEW a \in Point, NEW s \in Scalar, NEW t \in Scalar
  PROVE  ScalarExp(ScalarExp(a, s), t) = ScalarExp(ScalarExp(a, t), s)
  BY GroupAssumption

(* Powers of the identity and of inverses.                                 *)
LEMMA PowerOfIdentity ==
  ASSUME NEW s \in Scalar PROVE ScalarExp(Identity, s) = Identity
  <1> DEFINE e == ScalarExp(Identity, s)
  <1>1. e \in Point /\ Identity \in Point BY GroupAssumption
  <1>2. Mul(Identity, Identity) = Identity BY <1>1, GroupAssumption
  <1>3. ScalarExp(Mul(Identity, Identity), s) = Mul(e, e) BY <1>1, GroupAssumption
  <1>4. Mul(e, e) = e BY <1>2, <1>3
  <1>5. Mul(Mul(e, e), Invert(e)) = e BY <1>1, Cancel
  <1>6. Mul(e, Invert(e)) = Identity BY <1>1, GroupAssumption
  <1> QED BY <1>4, <1>5, <1>6

LEMMA PowerOfInverse ==
  ASSUME NEW a \in Point, NEW s \in Scalar
  PROVE  ScalarExp(Invert(a), s) = Invert(ScalarExp(a, s))
  <1>1. Invert(a) \in Point /\ Mul(a, Invert(a)) = Identity BY GroupAssumption
  <1>2. ScalarExp(Mul(a, Invert(a)), s) = Mul(ScalarExp(a, s), ScalarExp(Invert(a), s))
        BY <1>1, GroupAssumption
  <1>3. Mul(ScalarExp(a, s), ScalarExp(Invert(a), s)) = Identity
        BY <1>1, <1>2, PowerOfIdentity
  <1>4. ScalarExp(a, s) \in Point /\ ScalarExp(Invert(a), s) \in Point
        BY <1>1, GroupAssumption
  <1> QED BY <1>3, <1>4, InvertUnique

(* Raising to a power other than zero is injective.                        *)
LEMMA PowerInjective ==
  ASSUME NEW a \in Point, NEW b \in Point, NEW k \in Scalar \ {Zero},
         ScalarExp(a, k) = ScalarExp(b, k)
  PROVE  a = b
  <1>1. Invert(b) \in Point /\ ScalarExp(b, k) \in Point BY GroupAssumption
  <1>2. ScalarExp(Mul(a, Invert(b)), k) = Mul(ScalarExp(a, k), ScalarExp(Invert(b), k))
        BY <1>1, GroupAssumption
  <1>3. ScalarExp(Invert(b), k) = Invert(ScalarExp(b, k)) BY PowerOfInverse
  <1>4. Mul(ScalarExp(b, k), Invert(ScalarExp(b, k))) = Identity BY <1>1, GroupAssumption
  <1>5. ScalarExp(Mul(a, Invert(b)), k) = Identity BY <1>2, <1>3, <1>4
  <1>6. Mul(a, Invert(b)) \in Point BY <1>1, GroupAssumption
  <1>7. Mul(a, Invert(b)) = Identity BY <1>5, <1>6, GroupAssumption
  <1> QED BY <1>7, QuotientEqual

(* Powers with the exponents zero and -s.                                  *)
LEMMA PowerZero ==
  ASSUME NEW a \in Point PROVE ScalarExp(a, Zero) = Identity
  <1> DEFINE e == ScalarExp(a, Zero)
  <1>1. e \in Point /\ Zero \in Scalar BY GroupAssumption
  <1>2. Add(Zero, Zero) = Zero BY <1>1, GroupAssumption
  <1>3. ScalarExp(a, Add(Zero, Zero)) = Mul(e, e) BY <1>1, GroupAssumption
  <1>4. Mul(Mul(e, e), Invert(e)) = e BY <1>1, Cancel
  <1>5. Mul(e, Invert(e)) = Identity BY <1>1, GroupAssumption
  <1> QED BY <1>2, <1>3, <1>4, <1>5

LEMMA PowerOfNegation ==
  ASSUME NEW a \in Point, NEW s \in Scalar
  PROVE  Neg(s) \in Scalar /\ ScalarExp(a, Neg(s)) = Invert(ScalarExp(a, s))
  <1>1. Neg(s) \in Scalar /\ Add(s, Neg(s)) = Zero BY GroupAssumption
  <1>2. ScalarExp(a, s) \in Point /\ ScalarExp(a, Neg(s)) \in Point
        BY <1>1, GroupAssumption
  <1>3. ScalarExp(a, Add(s, Neg(s))) = Mul(ScalarExp(a, s), ScalarExp(a, Neg(s)))
        BY <1>1, GroupAssumption
  <1> QED BY <1>1, <1>2, <1>3, PowerZero, InvertUnique

(* The powers of a point other than the identity are distinct.             *)
LEMMA ExponentInjective ==
  ASSUME NEW a \in Point \ {Identity}, NEW s \in Scalar, NEW t \in Scalar,
         ScalarExp(a, s) = ScalarExp(a, t)
  PROVE  s = t
  <1> DEFINE d == Add(s, Neg(t))
  <1>1. Neg(t) \in Scalar /\ ScalarExp(a, Neg(t)) = Invert(ScalarExp(a, t))
        BY PowerOfNegation
  <1>2. d \in Scalar /\ ScalarExp(a, d) = Mul(ScalarExp(a, s), ScalarExp(a, Neg(t)))
        BY <1>1, GroupAssumption
  <1>3. ScalarExp(a, t) \in Point BY GroupAssumption
  <1>4. ScalarExp(a, d) = Identity BY <1>1, <1>2, <1>3, GroupAssumption
  <1>5. d = Zero
    <2> HIDE DEF d
    <2> QED BY <1>2, <1>4, GroupAssumption
  <1>6. Add(d, t) = Add(s, Add(Neg(t), t)) BY <1>1, GroupAssumption
  <1>7. Add(Neg(t), t) = Zero BY <1>1, GroupAssumption
  <1>8. Add(Zero, t) = t BY GroupAssumption
  <1>9. Add(s, Zero) = s BY GroupAssumption
  <1> QED BY <1>5, <1>6, <1>7, <1>8, <1>9

-----------------------------------------------------------------------------
(* Sums and products.  it[s] is the sum of the exponents q[j], or the      *)
(* product of the points h[i], over a set s of indices.                    *)
Totals(S, q, it) ==
  /\ it \in [SUBSET S -> Scalar] /\ it[{}] = Zero
  /\ \A s \in SUBSET S : \A y \in s : it[s] = Add(it[s \ {y}], q[y])

Products(S, h, it) ==
  /\ it \in [SUBSET S -> Point] /\ it[{}] = Identity
  /\ \A s \in SUBSET S : \A y \in s : it[s] = Mul(it[s \ {y}], h[y])

LEMMA AddSwap ==
  ASSUME NEW v \in Scalar, NEW s \in Scalar, NEW t \in Scalar
  PROVE  Add(Add(v, s), t) = Add(Add(v, t), s)
  <1>1. Add(Add(v, s), t) = Add(v, Add(s, t)) BY GroupAssumption
  <1>2. Add(s, t) = Add(t, s) BY GroupAssumption
  <1>3. Add(Add(v, t), s) = Add(v, Add(t, s)) BY GroupAssumption
  <1> QED BY <1>1, <1>2, <1>3

LEMMA MulSwap ==
  ASSUME NEW v \in Point, NEW a \in Point, NEW b \in Point
  PROVE  Mul(Mul(v, a), b) = Mul(Mul(v, b), a)
  <1>1. Mul(Mul(v, a), b) = Mul(v, Mul(a, b)) BY GroupAssumption
  <1>2. Mul(a, b) = Mul(b, a) BY GroupAssumption
  <1>3. Mul(Mul(v, b), a) = Mul(v, Mul(b, a)) BY GroupAssumption
  <1> QED BY <1>1, <1>2, <1>3

(* Sum adds up in any order.                                               *)
LEMMA SumIsTotal ==
  ASSUME N \in Nat, NEW q \in [1 .. N -> Scalar]
  PROVE  Sum(q) \in Scalar /\ \E it : Totals(1 .. N, q, it) /\ Sum(q) = it[1 .. N]
  <1> DEFINE S == 1 .. N
             c == [s \in SUBSET S |-> Max(s)]
             F == [p \in S \X Scalar |-> Add(p[2], q[p[1]])]
             Body(it) == [s \in SUBSET S |->
                            IF s = {} THEN Zero ELSE Add(it[s \ {Max(s)}], q[Max(s)])]
  <1>1. IsFiniteSet(S) BY FS_Interval
  <1>2. \A s \in SUBSET S : s # {} => Max(s) \in s
    <2> SUFFICES ASSUME NEW s \in SUBSET S, s # {} PROVE Max(s) \in s OBVIOUS
    <2>1. \E x \in s : \A y \in s : x >= y BY Greatest
    <2> QED BY <2>1 DEF Max
  <1>3. Chooser(S, c) BY <1>2 DEF Chooser
  <1>4. Zero \in Scalar /\ F \in [S \X Scalar -> Scalar] BY GroupAssumption
  <1>5. \A x \in S : \A v \in Scalar : F[<<x, v>>] = Add(v, q[x]) OBVIOUS
  <1>6. \A s \in SUBSET S : c[s] = Max(s) OBVIOUS
  <1>7. Swaps(S, Scalar, F)
    <2> SUFFICES ASSUME NEW x \in S, NEW y \in S, NEW v \in Scalar
                 PROVE  F[<<x, F[<<y, v>>]>>] = F[<<y, F[<<x, v>>]>>]
        BY DEF Swaps
    <2>1. q[x] \in Scalar /\ q[y] \in Scalar OBVIOUS
    <2>2. Add(v, q[x]) \in Scalar /\ Add(v, q[y]) \in Scalar BY <2>1, GroupAssumption
    <2> HIDE DEF F, S
    <2> QED BY <1>5, <2>1, <2>2, AddSwap
  <1>8. PICK it : IsFold(S, Scalar, Zero, c, F, it)
    <2> HIDE DEF S, c, F
    <2> QED BY <1>1, <1>3, <1>4, FoldExists
  <1>9. AnyLast(S, Zero, F, it)
    <2> HIDE DEF S, c, F
    <2> QED BY <1>1, <1>3, <1>7, <1>8, FoldAnyOrder
  <1>10. it \in [SUBSET S -> Scalar] BY <1>8 DEF IsFold
  <1>11. \A s \in SUBSET S : \A y \in s : it[s] = Add(it[s \ {y}], q[y])
    <2> SUFFICES ASSUME NEW s \in SUBSET S, NEW y \in s
                 PROVE  it[s] = Add(it[s \ {y}], q[y])
        OBVIOUS
    <2>1. it[s \ {y}] \in Scalar /\ y \in S BY <1>10
    <2> HIDE DEF F, S
    <2> QED BY <1>5, <1>9, <2>1 DEF AnyLast
  <1>12. Totals(S, q, it) BY <1>9, <1>10, <1>11 DEF Totals, AnyLast
  <1>13. it = Body(it)
    <2>1. \A s \in SUBSET S : it[s] = IF s = {} THEN Zero
                                      ELSE Add(it[s \ {Max(s)}], q[Max(s)])
      <3> HIDE DEF S
      <3> QED BY <1>2, <1>9, <1>11 DEF AnyLast
    <2>2. it = [s \in SUBSET S |-> it[s]] BY <1>10
    <2> QED BY <2>1, <2>2
  <1>14. PICK i : i = Body(i) /\ Sum(q) = i[S]
    <2>1. DOMAIN q = S OBVIOUS
    <2> HIDE DEF S
    <2> QED BY <1>13, <2>1 DEF Sum, FoldLeft, MapThenFoldSet
  <1>15. SUBSET S \subseteq {s \in SUBSET S : i[s] = it[s]}
    <2> DEFINE T == {s \in SUBSET S : i[s] = it[s]}
    <2>1. ASSUME NEW s \in SUBSET S, \A x \in s : s \ {x} \in T PROVE s \in T
      <3>1. i[s] = IF s = {} THEN Zero ELSE Add(i[s \ {Max(s)}], q[Max(s)]) BY <1>14
      <3>2. it[s] = IF s = {} THEN Zero ELSE Add(it[s \ {Max(s)}], q[Max(s)]) BY <1>13
      <3>3. s # {} => i[s \ {Max(s)}] = it[s \ {Max(s)}] BY <1>2, <2>1
      <3> QED BY <3>1, <3>2, <3>3
    <2>2. \A s \in SUBSET S : (\A x \in s : s \ {x} \in T) => s \in T BY <2>1
    <2> HIDE DEF T, S
    <2>3. SUBSET S \subseteq T BY <1>1, <2>2, SetInduct
    <2> QED BY <2>3 DEF T
  <1>16. Sum(q) = it[S]
    <2>1. S \in SUBSET S OBVIOUS
    <2> QED BY <1>14, <1>15, <2>1
  <1>17. it[S] \in Scalar
    <2>1. S \in SUBSET S OBVIOUS
    <2> HIDE DEF S
    <2> QED BY <1>10, <2>1
  <1> QED BY <1>12, <1>16, <1>17

(* MaskOf multiplies the hints in any order.                               *)
LEMMA MaskIsProduct ==
  ASSUME NEW g, IsFiniteSet(g), NEW h \in [g -> Point],
         \A i \in g : PKEDecrypt(rsk.bsk, conv[i].CHint) = h[i]
  PROVE  \E it : Products(g, h, it) /\ MaskOf(g) = it[g]
  <1> DEFINE Pick(s) == CHOOSE x \in s : TRUE
             D(j) == PKEDecrypt(rsk.bsk, conv[j].CHint)
             c == [s \in SUBSET g |-> Pick(s)]
             F == [p \in g \X Point |-> Mul(p[2], h[p[1]])]
             Body(it) == [s \in SUBSET g |->
                            IF s = {} THEN Identity ELSE Mul(it[s \ {Pick(s)}], D(Pick(s)))]
  <1>1. \A s \in SUBSET g : s # {} => Pick(s) \in s OBVIOUS
  <1>2. Chooser(g, c) BY <1>1 DEF Chooser
  <1>3. Identity \in Point /\ F \in [g \X Point -> Point] BY GroupAssumption
  <1>4. \A x \in g : \A v \in Point : F[<<x, v>>] = Mul(v, h[x]) OBVIOUS
  <1>5. Swaps(g, Point, F)
    <2> SUFFICES ASSUME NEW x \in g, NEW y \in g, NEW v \in Point
                 PROVE  F[<<x, F[<<y, v>>]>>] = F[<<y, F[<<x, v>>]>>]
        BY DEF Swaps
    <2>1. h[x] \in Point /\ h[y] \in Point OBVIOUS
    <2>2. Mul(v, h[x]) \in Point /\ Mul(v, h[y]) \in Point BY <2>1, GroupAssumption
    <2> HIDE DEF F
    <2> QED BY <1>4, <2>1, <2>2, MulSwap
  <1>6. PICK it : IsFold(g, Point, Identity, c, F, it)
    <2> HIDE DEF c, F
    <2> QED BY <1>2, <1>3, FoldExists
  <1>7. AnyLast(g, Identity, F, it)
    <2> HIDE DEF c, F
    <2> QED BY <1>2, <1>5, <1>6, FoldAnyOrder
  <1>8. it \in [SUBSET g -> Point] BY <1>6 DEF IsFold
  <1>9. \A s \in SUBSET g : \A y \in s : it[s] = Mul(it[s \ {y}], h[y])
    <2> SUFFICES ASSUME NEW s \in SUBSET g, NEW y \in s
                 PROVE  it[s] = Mul(it[s \ {y}], h[y])
        OBVIOUS
    <2>1. it[s \ {y}] \in Point /\ y \in g BY <1>8
    <2> HIDE DEF F
    <2> QED BY <1>4, <1>7, <2>1 DEF AnyLast
  <1>10. Products(g, h, it) BY <1>7, <1>8, <1>9 DEF Products, AnyLast
  <1>11. \A s \in SUBSET g : s # {} => it[s] = Mul(it[s \ {Pick(s)}], D(Pick(s)))
    <2> SUFFICES ASSUME NEW s \in SUBSET g, s # {}
                 PROVE  it[s] = Mul(it[s \ {Pick(s)}], D(Pick(s)))
        OBVIOUS
    <2>1. Pick(s) \in s /\ Pick(s) \in g /\ D(Pick(s)) = h[Pick(s)] BY <1>1
    <2> HIDE DEF Pick, D
    <2> QED BY <1>9, <2>1
  <1>12. it = Body(it)
    <2>1. \A s \in SUBSET g : it[s] = IF s = {} THEN Identity
                                      ELSE Mul(it[s \ {Pick(s)}], D(Pick(s)))
          BY <1>7, <1>11 DEF AnyLast
    <2>2. it = [s \in SUBSET g |-> it[s]] BY <1>8
    <2> QED BY <2>1, <2>2
  <1>13. PICK i : i = Body(i) /\ MaskOf(g) = i[g]
    <2> QED BY <1>12 DEF MaskOf, FoldSet, MapThenFoldSet
  <1>14. SUBSET g \subseteq {s \in SUBSET g : i[s] = it[s]}
    <2> DEFINE T == {s \in SUBSET g : i[s] = it[s]}
    <2>1. ASSUME NEW s \in SUBSET g, \A x \in s : s \ {x} \in T PROVE s \in T
      <3>1. i[s] = IF s = {} THEN Identity ELSE Mul(i[s \ {Pick(s)}], D(Pick(s)))
            BY <1>13
      <3>2. it[s] = IF s = {} THEN Identity ELSE Mul(it[s \ {Pick(s)}], D(Pick(s)))
            BY <1>12
      <3>3. s # {} => i[s \ {Pick(s)}] = it[s \ {Pick(s)}] BY <1>1, <2>1
      <3> QED BY <3>1, <3>2, <3>3
    <2>2. \A s \in SUBSET g : (\A x \in s : s \ {x} \in T) => s \in T BY <2>1
    <2> HIDE DEF T
    <2>3. SUBSET g \subseteq T BY <2>2, SetInduct
    <2> QED BY <2>3 DEF T
  <1>15. MaskOf(g) = it[g]
    <2>1. g \in SUBSET g OBVIOUS
    <2> QED BY <1>13, <1>14, <2>1
  <1> QED BY <1>10, <1>15

(* If the points are powers of p, one for each exponent other than zero,   *)
(* their product is p to the sum of the exponents.                         *)
LEMMA ProductOfPowers ==
  ASSUME N \in Nat, NEW m \in 0 .. N, NEW g, NEW e \in Bijection(1 .. m, g),
         NEW p \in Point, NEW q \in [1 .. N -> Scalar], NEW h,
         \A j \in 1 .. m : h[e[j]] = ScalarExp(p, q[j]),
         \A j \in 1 .. N : j > m => q[j] = Zero,
         NEW a, Totals(1 .. N, q, a), NEW b, Products(g, h, b)
  PROVE  b[g] = ScalarExp(p, a[1 .. N])
  <1> DEFINE S == 1 .. N
             Img(s) == {e[j] : j \in s \cap (1 .. m)}
             T == {s \in SUBSET S : b[Img(s)] = ScalarExp(p, a[s])}
  <1>1. IsFiniteSet(S) BY FS_Interval
  <1>2. /\ e \in [1 .. m -> g] /\ \A i, j \in 1 .. m : e[i] = e[j] => i = j
        /\ \A x \in g : \E j \in 1 .. m : e[j] = x
        BY DEF Bijection, Injection, Surjection, IsInjective
  <1>3. ASSUME NEW s \in SUBSET S, \A x \in s : s \ {x} \in T PROVE s \in T
    <2>1. CASE s = {}
      <3>1. Img(s) = {} BY <2>1
      <3>2. b[{}] = Identity /\ a[{}] = Zero BY DEF Products, Totals
      <3> QED BY <2>1, <3>1, <3>2, PowerZero
    <2>2. ASSUME NEW y \in s PROVE s \in T
      <3> DEFINE r == s \ {y}
      <3>1. b[Img(r)] = ScalarExp(p, a[r]) BY <1>3
      <3>2. a[s] = Add(a[r], q[y]) /\ a[r] \in Scalar /\ q[y] \in Scalar
            BY DEF Totals
      <3>3. ScalarExp(p, a[s]) = Mul(ScalarExp(p, a[r]), ScalarExp(p, q[y]))
        <4> HIDE DEF r, S
        <4> QED BY <3>2, PowerOfSum
      <3>4. CASE y \in 1 .. m
        <4>1. Img(s) \in SUBSET g /\ e[y] \in Img(s) BY <1>2, <3>4
        <4>2. Img(s) \ {e[y]} = Img(r) BY <1>2, <3>4
        <4>3. b[Img(s)] = Mul(b[Img(s) \ {e[y]}], h[e[y]])
          <5> HIDE DEF Img
          <5> QED BY <4>1 DEF Products
        <4>4. h[e[y]] = ScalarExp(p, q[y]) BY <3>4
        <4> HIDE DEF Img, r
        <4>5. b[Img(s)] = ScalarExp(p, a[s]) BY <3>1, <3>3, <4>2, <4>3, <4>4
        <4> QED BY <4>5
      <3>5. CASE y \notin 1 .. m
        <4>1. Img(s) = Img(r) BY <3>5
        <4>2. y \in 1 .. N /\ y > m BY <3>5
        <4>3. q[y] = Zero BY <4>2
        <4>4. ScalarExp(p, a[r]) \in Point BY <3>2, GroupAssumption
        <4>5. Mul(ScalarExp(p, a[r]), Identity) = ScalarExp(p, a[r])
              BY <4>4, GroupAssumption
        <4>6. ScalarExp(p, q[y]) = Identity BY <4>3, PowerZero
        <4> HIDE DEF Img, r
        <4>7. b[Img(s)] = ScalarExp(p, a[s]) BY <3>1, <3>3, <4>1, <4>5, <4>6
        <4> QED BY <4>7
      <3> QED BY <3>4, <3>5
    <2> QED BY <2>1, <2>2
  <1>4. SUBSET S \subseteq T
    <2>1. \A s \in SUBSET S : (\A x \in s : s \ {x} \in T) => s \in T BY <1>3
    <2> HIDE DEF T, S
    <2> QED BY <1>1, <2>1, SetInduct
  <1>5. Img(S) = g BY <1>2
  <1>6. S \in T BY <1>4
  <1> HIDE DEF Img
  <1>7. b[Img(S)] = ScalarExp(p, a[S]) BY <1>6
  <1> QED BY <1>5, <1>7

-----------------------------------------------------------------------------
(* Encryption.  sk and pk belong together if Gen^sk is the inverse of pk.  *)
KeyPair(sk, pk) == sk \in Scalar /\ pk \in Point /\ BaseExp(sk) = Invert(pk)

(* Raising Gen^r to the secret key gives the inverse of pk^r.              *)
LEMMA SharedSecret ==
  ASSUME NEW sk, NEW pk, KeyPair(sk, pk), NEW r \in Scalar
  PROVE  /\ BaseExp(r) \in Point /\ ScalarExp(pk, r) \in Point
         /\ ScalarExp(BaseExp(r), sk) = Invert(ScalarExp(pk, r))
  <1>1. sk \in Scalar /\ pk \in Point /\ Gen \in Point
        BY GroupAssumption DEF KeyPair
  <1>2. BaseExp(r) \in Point /\ ScalarExp(pk, r) \in Point
        BY <1>1, GroupAssumption DEF BaseExp
  <1>3. ScalarExp(BaseExp(r), sk) = ScalarExp(BaseExp(sk), r)
        BY <1>1, GroupAssumption DEF BaseExp
  <1>4. ScalarExp(BaseExp(sk), r) = ScalarExp(Invert(pk), r) BY DEF KeyPair
  <1>5. ScalarExp(Invert(pk), r) = Invert(ScalarExp(pk, r)) BY <1>1, PowerOfInverse
  <1> QED BY <1>2, <1>3, <1>4, <1>5

(* Decryption undoes encryption.                                           *)
LEMMA DecryptEncrypt ==
  ASSUME NEW sk, NEW pk, KeyPair(sk, pk), NEW m \in Point, NEW r \in Scalar
  PROVE  /\ PKEEncrypt(pk, m, r) \in Ciphertext
         /\ PKEDecrypt(sk, PKEEncrypt(pk, m, r)) = m
  <1>1. /\ BaseExp(r) \in Point /\ ScalarExp(pk, r) \in Point
        /\ ScalarExp(BaseExp(r), sk) = Invert(ScalarExp(pk, r))
        BY SharedSecret
  <1>2. Mul(m, ScalarExp(pk, r)) \in Point BY <1>1, GroupAssumption
  <1>3. Mul(Mul(m, ScalarExp(pk, r)), Invert(ScalarExp(pk, r))) = m BY <1>1, Cancel
  <1> QED BY <1>1, <1>2, <1>3 DEF PKEEncrypt, PKEDecrypt, Ciphertext

(* Re-randomization keeps the plaintext.                                   *)
LEMMA DecryptReRand ==
  ASSUME NEW sk, NEW pk, KeyPair(sk, pk), NEW ct \in Ciphertext, NEW r \in Scalar
  PROVE  /\ ReRand(pk, ct, r) \in Ciphertext
         /\ PKEDecrypt(sk, ReRand(pk, ct, r)) = PKEDecrypt(sk, ct)
  <1> DEFINE b == BaseExp(r)
             p == ScalarExp(pk, r)
             d == ScalarExp(ct.c0, sk)
  <1>1. b \in Point /\ p \in Point /\ ScalarExp(b, sk) = Invert(p) BY SharedSecret
  <1>2. ct.c0 \in Point /\ ct.c1 \in Point /\ sk \in Scalar BY DEF Ciphertext, KeyPair
  <1>3. d \in Point /\ Invert(p) \in Point BY <1>1, <1>2, GroupAssumption
  <1>4. ScalarExp(Mul(ct.c0, b), sk) = Mul(d, Invert(p))
        BY <1>1, <1>2, PowerOfProduct
  <1>5. Mul(Mul(ct.c1, p), Mul(d, Invert(p))) = Mul(ct.c1, d)
    <2> HIDE DEF p, d
    <2>1. Mul(d, Invert(p)) = Mul(Invert(p), d) BY <1>3, GroupAssumption
    <2>2. Mul(ct.c1, p) \in Point BY <1>1, <1>2, GroupAssumption
    <2>3. Mul(Mul(ct.c1, p), Mul(Invert(p), d)) = Mul(Mul(Mul(ct.c1, p), Invert(p)), d)
          BY <2>2, <1>3, GroupAssumption
    <2>4. Mul(Mul(ct.c1, p), Invert(p)) = ct.c1 BY <1>1, <1>2, Cancel
    <2> QED BY <2>1, <2>3, <2>4
  <1>6. Mul(ct.c0, b) \in Point /\ Mul(ct.c1, p) \in Point
        BY <1>1, <1>2, GroupAssumption
  <1>7. ReRand(pk, ct, r) = [c0 |-> Mul(ct.c0, b), c1 |-> Mul(ct.c1, p)] BY DEF ReRand
  <1>8. ReRand(pk, ct, r) \in Ciphertext BY <1>6, <1>7 DEF Ciphertext
  <1>9. PKEDecrypt(sk, ReRand(pk, ct, r)) = Mul(Mul(ct.c1, p), ScalarExp(Mul(ct.c0, b), sk))
        BY <1>7 DEF PKEDecrypt
  <1> QED BY <1>4, <1>5, <1>8, <1>9 DEF PKEDecrypt

(* The evaluation of the OPRF raises the plaintext to its key.             *)
LEMMA DecryptEval ==
  ASSUME NEW sk, NEW pk, KeyPair(sk, pk), NEW ct \in Ciphertext,
         NEW k \in Scalar, NEW r \in Scalar
  PROVE  /\ OPRFEval(k, pk, ct, r) \in Ciphertext
         /\ PKEDecrypt(sk, OPRFEval(k, pk, ct, r)) = ScalarExp(PKEDecrypt(sk, ct), k)
  <1> DEFINE raised == [c0 |-> ScalarExp(ct.c0, k), c1 |-> ScalarExp(ct.c1, k)]
  <1>1. ct.c0 \in Point /\ ct.c1 \in Point /\ sk \in Scalar BY DEF Ciphertext, KeyPair
  <1>2. raised \in Ciphertext BY <1>1, GroupAssumption DEF Ciphertext
  <1>3. PKEDecrypt(sk, raised) = Mul(ScalarExp(ct.c1, k), ScalarExp(ScalarExp(ct.c0, k), sk))
        BY DEF PKEDecrypt
  <1>4. ScalarExp(ScalarExp(ct.c0, k), sk) = ScalarExp(ScalarExp(ct.c0, sk), k)
        BY <1>1, PowersCommute
  <1>5. ScalarExp(ct.c0, sk) \in Point BY <1>1, GroupAssumption
  <1>6. Mul(ScalarExp(ct.c1, k), ScalarExp(ScalarExp(ct.c0, sk), k))
          = ScalarExp(Mul(ct.c1, ScalarExp(ct.c0, sk)), k)
        BY <1>1, <1>5, PowerOfProduct
  <1>7. PKEDecrypt(sk, raised) = ScalarExp(PKEDecrypt(sk, ct), k)
        BY <1>3, <1>4, <1>6 DEF PKEDecrypt
  <1>8. OPRFEval(k, pk, ct, r) = ReRand(pk, raised, r) BY DEF OPRFEval
  <1> HIDE DEF raised
  <1> QED BY <1>2, <1>7, <1>8, DecryptReRand

-----------------------------------------------------------------------------
(* The inductive invariant: the keys belong together, and under the        *)
(* receiver's keys every row still decrypts to what it was made from.  A   *)
(* row the helper has converted has the key's pseudonym, the point of its  *)
(* value's key masked with the pseudonym to padKey, and the pseudonym to   *)
(* its source's share.                                                     *)

KeysMatch ==
  /\ rsk \in [bsk : Scalar, esk : Scalar] /\ rpk \in [bpk : Point, epk : Point]
  /\ KeyPair(rsk.bsk, rpk.bpk) /\ KeyPair(rsk.esk, rpk.epk)
  /\ helper \in [convK : Scalar \ {Zero}, shares : [1 .. N -> Scalar], padKey : Scalar]
  /\ helper.padKey = Sum(helper.shares) /\ Independent(helper.shares)

RowsInPlace ==
  /\ in \in Inputs /\ DOMAIN enc = DOMAIN in /\ DOMAIN conv = DOMAIN in
  /\ \A i \in DOMAIN in : enc[i] = NoRow \/ conv[i] = NoRow

Nym(i) == ScalarExp(Hash[in[i].uid], helper.convK)

EncRowIs(i, row) ==
  /\ row \in EncRow
  /\ PKEDecrypt(rsk.bsk, row.Cuid) = Hash[in[i].uid]
  /\ PKEDecrypt(rsk.esk, row.Cval) = in[i].val

ConvRowIs(i, row) ==
  /\ row \in EncRowWithHint
  /\ PKEDecrypt(rsk.bsk, row.Cnyme) = Nym(i)
  /\ PKEDecrypt(rsk.esk, row.CVal.ct) = in[i].val
  /\ row.CVal.table = Byte(in[i].src - 1)
  /\ PKEDecrypt(rsk.bsk, row.CValKey) = Mul(ScalarExp(Nym(i), helper.padKey), row.CVal.key)
  /\ PKEDecrypt(rsk.bsk, row.CHint) = ScalarExp(Nym(i), helper.shares[in[i].src])

EncPlain  == \A i \in DOMAIN in : enc[i] # NoRow => EncRowIs(i, enc[i])
ConvPlain == \A i \in DOMAIN in : conv[i] # NoRow => ConvRowIs(i, conv[i])

IInv == KeysMatch /\ RowsInPlace /\ EncPlain /\ ConvPlain

(* The mask of the value's key, over the pseudonym.                        *)
LEMMA DecryptBlinded ==
  ASSUME NEW sk, KeyPair(sk, rpk.bpk), helper.padKey \in Scalar,
         NEW joinid \in Ciphertext, NEW rp \in Point, NEW r \in Scalar
  PROVE  /\ Blinded(joinid, rp, r) \in Ciphertext
         /\ PKEDecrypt(sk, Blinded(joinid, rp, r))
              = Mul(ScalarExp(PKEDecrypt(sk, joinid), helper.padKey), rp)
  <1> DEFINE ct == OPRFEval(helper.padKey, rpk.bpk, joinid, r)
             bl == Blinded(joinid, rp, r)
  <1>1. ct \in Ciphertext /\ PKEDecrypt(sk, ct) = ScalarExp(PKEDecrypt(sk, joinid), helper.padKey)
        BY DecryptEval
  <1>2. bl = [ct EXCEPT !.c1 = Mul(@, rp)] BY DEF Blinded
  <1> HIDE DEF ct, bl
  <1>3. ct.c0 \in Point /\ ct.c1 \in Point /\ sk \in Scalar
        BY <1>1 DEF Ciphertext, KeyPair
  <1>4. Mul(ct.c1, rp) \in Point /\ ScalarExp(ct.c0, sk) \in Point
        BY <1>3, GroupAssumption
  <1>5. bl \in Ciphertext /\ bl.c0 = ct.c0 /\ bl.c1 = Mul(ct.c1, rp)
        BY <1>1, <1>2, <1>4 DEF Ciphertext
  <1>6. PKEDecrypt(sk, bl) = Mul(Mul(ct.c1, rp), ScalarExp(ct.c0, sk))
        BY <1>5 DEF PKEDecrypt
  <1>7. Mul(Mul(ct.c1, rp), ScalarExp(ct.c0, sk)) = Mul(Mul(ct.c1, ScalarExp(ct.c0, sk)), rp)
        BY <1>3, <1>4, MulSwap
  <1>8. PKEDecrypt(sk, bl) = Mul(PKEDecrypt(sk, ct), rp)
        BY <1>6, <1>7 DEF PKEDecrypt
  <1> QED BY <1>1, <1>5, <1>8 DEF bl

(* A negated secret key belongs to the public key of the drawn one.        *)
LEMMA NegatedKey ==
  ASSUME NEW s \in Scalar PROVE KeyPair(SecretKey(s), BaseExp(s))
  <1>1. Gen \in Point BY GroupAssumption
  <1>2. ScalarExp(Gen, s) \in Point BY <1>1, GroupAssumption
  <1> QED BY <1>1, <1>2, PowerOfNegation DEF KeyPair, SecretKey, BaseExp

LEMMA Draws ==
  ASSUME NEW p \in Purpose, NEW r \in Rand[p] PROVE r \in Scalar
  BY InputAssumption

(* The rows of an execution, and the number of sources.                    *)
LEMMA RowsTyped ==
  ASSUME in \in Inputs, NEW i \in DOMAIN in
  PROVE  /\ in[i].uid \in Uid /\ Hash[in[i].uid] \in Point
         /\ in[i].val \in Point /\ in[i].src \in 1 .. N
  <1>1. in[i].uid \in Uid /\ in[i].val \in Point /\ in[i].src \in 1 .. N
        BY InputAssumption DEF Value
  <1> QED BY <1>1, HashAssumption

LEMMA SourcesTyped == N \in Nat /\ N >= 2
  <1>1. Sources \in Seq(Range(Sources)) /\ N >= 2 BY InputAssumption
  <1>2. Len(Sources) \in Nat BY <1>1
  <1> QED BY <1>1, <1>2 DEF N

LEMMA RowsAre ==
  ASSUME in \in Inputs PROVE IsFiniteSet(DOMAIN in)
  <1>1. in \in Seq(Range(in)) BY InputAssumption
  <1>2. DOMAIN in = 1 .. Len(in) /\ Len(in) \in Nat BY <1>1
  <1> QED BY <1>2, FS_Interval

LEMMA InitInv == Init => IInv
  <1> SUFFICES ASSUME Init PROVE IInv
      OBVIOUS
  <1>1. KeysMatch
    <2>1. PICK b \in Rand["bsk"], e \in Rand["esk"] :
             /\ rsk = [bsk |-> SecretKey(b), esk |-> SecretKey(e)]
             /\ rpk = [bpk |-> BaseExp(b), epk |-> BaseExp(e)]
          BY DEF Init
    <2>2. PICK k \in Rand["convK"], s \in [1 .. N -> Rand["share"]] :
             /\ Independent(s)
             /\ helper = [convK |-> k, shares |-> s, padKey |-> Sum(s)]
          BY DEF Init
    <2>3. b \in Scalar /\ e \in Scalar /\ k \in Scalar BY Draws DEF Purpose
    <2>4. k # Zero BY InputAssumption
    <2>5. KeyPair(rsk.bsk, rpk.bpk) /\ KeyPair(rsk.esk, rpk.epk)
          BY <2>1, <2>3, NegatedKey
    <2>6. rsk \in [bsk : Scalar, esk : Scalar] /\ rpk \in [bpk : Point, epk : Point]
      <3>1. /\ SecretKey(b) \in Scalar /\ BaseExp(b) \in Point
            /\ SecretKey(e) \in Scalar /\ BaseExp(e) \in Point
            BY <2>3, NegatedKey DEF KeyPair
      <3> QED BY <2>1, <3>1
    <2>7. Rand["share"] \subseteq Scalar BY InputAssumption DEF Purpose
    <2>8. s \in [1 .. N -> Scalar] BY <2>7
    <2>9. Sum(s) \in Scalar BY <2>8, SourcesTyped, SumIsTotal
    <2> QED BY <2>2, <2>3, <2>4, <2>5, <2>6, <2>8, <2>9 DEF KeysMatch
  <1>2. RowsInPlace BY DEF Init, RowsInPlace
  <1>3. EncPlain /\ ConvPlain BY DEF Init, EncPlain, ConvPlain
  <1> QED BY <1>1, <1>2, <1>3 DEF IInv

LEMMA ProcessRowInv ==
  ASSUME IInv, NEW i \in DOMAIN in, ProcessRow(i) PROVE IInv'
  <1>1. PICK r \in Rand["blind"], t \in Rand["encrypt"] :
           enc' = [enc EXCEPT ![i] = [Cuid |-> PKEEncrypt(rpk.bpk, Hash[in[i].uid], r),
                                      Cval |-> PKEEncrypt(rpk.epk, in[i].val, t)]]
        BY DEF ProcessRow
  <1>2. UNCHANGED <<in, rsk, rpk, helper, conv>> /\ conv[i] = NoRow BY DEF ProcessRow
  <1>3. r \in Scalar /\ t \in Scalar BY Draws DEF Purpose
  <1>4. Hash[in[i].uid] \in Point /\ in[i].val \in Point
        BY RowsTyped DEF IInv, RowsInPlace
  <1> DEFINE u == PKEEncrypt(rpk.bpk, Hash[in[i].uid], r)
             v == PKEEncrypt(rpk.epk, in[i].val, t)
             row == [Cuid |-> u, Cval |-> v]
  <1>5. u \in Ciphertext /\ PKEDecrypt(rsk.bsk, u) = Hash[in[i].uid]
        BY <1>3, <1>4, DecryptEncrypt DEF IInv, KeysMatch
  <1>6. v \in Ciphertext /\ PKEDecrypt(rsk.esk, v) = in[i].val
        BY <1>3, <1>4, DecryptEncrypt DEF IInv, KeysMatch
  <1>7. enc' = [enc EXCEPT ![i] = row] BY <1>1
  <1>8. EncRowIs(i, row)
    <2> HIDE DEF u, v
    <2> QED BY <1>5, <1>6 DEF EncRowIs, EncRow
  <1> HIDE DEF u, v, row
  <1>9. KeysMatch' /\ ConvPlain'
        BY <1>2 DEF IInv, KeysMatch, ConvPlain, ConvRowIs, Nym
  <1>10. RowsInPlace' BY <1>2, <1>7 DEF IInv, RowsInPlace
  <1>11. EncPlain'
    <2> SUFFICES ASSUME NEW j \in DOMAIN in, enc'[j] # NoRow
                 PROVE  EncRowIs(j, enc'[j])
        BY <1>2 DEF EncPlain, EncRowIs
    <2>1. CASE j = i
          BY <2>1, <1>7, <1>8 DEF IInv, RowsInPlace
    <2>2. CASE j # i
          BY <2>2, <1>7 DEF IInv, RowsInPlace, EncPlain
    <2> QED BY <2>1, <2>2
  <1> QED BY <1>9, <1>10, <1>11 DEF IInv

LEMMA ConvertRowInv ==
  ASSUME IInv, NEW i \in DOMAIN in, ConvertRow(i) PROVE IInv'
  <1>1. enc[i] # NoRow /\ enc' = [enc EXCEPT ![i] = NoRow]
        /\ UNCHANGED <<in, rsk, rpk, helper>>
        BY DEF ConvertRow
  <1>2. /\ enc[i].Cuid \in Ciphertext /\ enc[i].Cval \in Ciphertext
        /\ PKEDecrypt(rsk.bsk, enc[i].Cuid) = Hash[in[i].uid]
        /\ PKEDecrypt(rsk.esk, enc[i].Cval) = in[i].val
        BY <1>1 DEF IInv, EncPlain, EncRowIs, EncRow
  <1>3. PICK r1 \in Rand["joinid"], r2 \in Rand["value"], r3 \in Rand["mask"],
             r4 \in Rand["hint"], s \in Rand["rp"] :
           conv' = [conv EXCEPT ![i] =
              [Cnyme   |-> OPRFEval(helper.convK, rpk.bpk, enc[i].Cuid, r1),
               CVal    |-> Seal(BaseExp(s), in[i].src, ReRand(rpk.epk, enc[i].Cval, r2)),
               CValKey |-> Blinded(OPRFEval(helper.convK, rpk.bpk, enc[i].Cuid, r1),
                                   BaseExp(s), r3),
               CHint   |-> Hint(OPRFEval(helper.convK, rpk.bpk, enc[i].Cuid, r1),
                                in[i].src, r4)]]
        BY DEF ConvertRow
  <1>4. /\ r1 \in Scalar /\ r2 \in Scalar /\ r3 \in Scalar
        /\ r4 \in Scalar /\ s \in Scalar
        BY Draws DEF Purpose
  <1> DEFINE src    == in[i].src
             nym    == OPRFEval(helper.convK, rpk.bpk, enc[i].Cuid, r1)
             ct     == ReRand(rpk.epk, enc[i].Cval, r2)
             rp     == BaseExp(s)
             sealed == Seal(rp, src, ct)
             mask   == Blinded(nym, rp, r3)
             hint   == Hint(nym, src, r4)
             row    == [Cnyme |-> nym, CVal |-> sealed, CValKey |-> mask, CHint |-> hint]
  <1>5. /\ KeyPair(rsk.bsk, rpk.bpk) /\ KeyPair(rsk.esk, rpk.epk)
        /\ helper.convK \in Scalar /\ helper.padKey \in Scalar
        /\ helper.shares \in [1 .. N -> Scalar] /\ src \in 1 .. N
        BY RowsTyped DEF IInv, KeysMatch, RowsInPlace
  <1>6. nym \in Ciphertext /\ PKEDecrypt(rsk.bsk, nym) = Nym(i)
    <2> DEFINE key == helper.convK
               uid == enc[i].Cuid
    <2>1. nym = OPRFEval(key, rpk.bpk, uid, r1) OBVIOUS
    <2>2. uid \in Ciphertext /\ key \in Scalar BY <1>2, <1>5
    <2> HIDE DEF nym, key, uid
    <2>3. nym \in Ciphertext /\ PKEDecrypt(rsk.bsk, nym) = ScalarExp(PKEDecrypt(rsk.bsk, uid), key)
          BY <1>4, <1>5, <2>1, <2>2, DecryptEval
    <2> QED BY <1>2, <2>3 DEF Nym, key, uid
  <1>7. ct \in Ciphertext /\ PKEDecrypt(rsk.esk, ct) = in[i].val
        BY <1>2, <1>4, <1>5, DecryptReRand
  <1>8. rp \in Point BY <1>4, GroupAssumption DEF BaseExp
  <1>9. conv' = [conv EXCEPT ![i] = row] BY <1>3
  <1> HIDE DEF nym, ct, rp, src
  <1>10. sealed = [key |-> rp, table |-> Byte(src - 1), ct |-> ct] BY DEF Seal
  <1>11. Byte(src - 1) \in 0 .. 255
    <2>1. src - 1 \in Int BY <1>5
    <2> QED BY <2>1 DEF Byte
  <1>12. /\ mask \in Ciphertext
         /\ PKEDecrypt(rsk.bsk, mask) = Mul(ScalarExp(Nym(i), helper.padKey), rp)
         BY <1>4, <1>5, <1>6, <1>8, DecryptBlinded
  <1>13. helper.shares[src] \in Scalar BY <1>5
  <1>14. /\ hint \in Ciphertext
         /\ PKEDecrypt(rsk.bsk, hint) = ScalarExp(Nym(i), helper.shares[src])
    <2> DEFINE share == helper.shares[src]
    <2>1. hint = OPRFEval(share, rpk.bpk, nym, r4) BY DEF Hint
    <2> HIDE DEF hint, share
    <2>2. share \in Scalar BY <1>13 DEF share
    <2>3. hint \in Ciphertext /\ PKEDecrypt(rsk.bsk, hint) = ScalarExp(PKEDecrypt(rsk.bsk, nym), share)
          BY <1>4, <1>5, <1>6, <2>1, <2>2, DecryptEval
    <2> QED BY <1>6, <2>3 DEF share
  <1> HIDE DEF sealed, mask, hint
  <1>15. sealed \in [key : Point, table : 0 .. 255, ct : Ciphertext]
         BY <1>7, <1>8, <1>10, <1>11
  <1>16. row \in EncRowWithHint BY <1>6, <1>12, <1>14, <1>15 DEF EncRowWithHint
  <1>17. ConvRowIs(i, row)
         BY <1>6, <1>7, <1>10, <1>12, <1>14, <1>16 DEF ConvRowIs, src
  <1> HIDE DEF row
  <1>18. KeysMatch' BY <1>1 DEF IInv, KeysMatch
  <1>19. RowsInPlace' BY <1>1, <1>9 DEF IInv, RowsInPlace
  <1>20. EncPlain'
    <2> SUFFICES ASSUME NEW j \in DOMAIN in, enc'[j] # NoRow
                 PROVE  EncRowIs(j, enc'[j])
        BY <1>1 DEF EncPlain, EncRowIs
    <2>1. j # i /\ enc'[j] = enc[j] BY <1>1 DEF IInv, RowsInPlace
    <2> QED BY <2>1 DEF IInv, EncPlain
  <1>21. ConvPlain'
    <2> SUFFICES ASSUME NEW j \in DOMAIN in, conv'[j] # NoRow
                 PROVE  ConvRowIs(j, conv'[j])
        BY <1>1 DEF ConvPlain, ConvRowIs, Nym
    <2>1. CASE j = i
          BY <2>1, <1>9, <1>17 DEF IInv, RowsInPlace
    <2>2. CASE j # i
          BY <2>2, <1>9 DEF IInv, RowsInPlace, ConvPlain
    <2> QED BY <2>1, <2>2
  <1> QED BY <1>18, <1>19, <1>20, <1>21 DEF IInv

LEMMA NextInv == IInv /\ [Next]_vars => IInv'
  <1> SUFFICES ASSUME IInv, [Next]_vars PROVE IInv'
      OBVIOUS
  <1>1. CASE \E i \in DOMAIN in : ProcessRow(i) BY <1>1, ProcessRowInv
  <1>2. CASE \E i \in DOMAIN in : ConvertRow(i) BY <1>2, ConvertRowInv
  <1>3. CASE UNCHANGED <<in, rsk, rpk, helper, enc, conv>>
        BY <1>3 DEF IInv, KeysMatch, RowsInPlace, EncPlain, EncRowIs,
                    ConvPlain, ConvRowIs, Nym
  <1> QED BY <1>1, <1>2, <1>3 DEF Next, JoinTables, vars

-----------------------------------------------------------------------------
(* Two points have one x coordinate exactly if they are equal or inverse.  *)
LEMMA SameXCoord ==
  ASSUME NEW p \in Point, NEW q \in Point
  PROVE  XCoord(p) = XCoord(q) <=> p = q \/ p = Invert(q)
  <1>1. p = Invert(q) => Invert(p) = q BY InvertTwice
  <1> QED BY <1>1 DEF XCoord

(* The pseudonyms of two keys.                                             *)
LEMMA SameKey ==
  ASSUME NEW u \in Uid, NEW v \in Uid, NEW k \in Scalar \ {Zero}
  PROVE  XCoord(ScalarExp(Hash[u], k)) = XCoord(ScalarExp(Hash[v], k)) <=> u = v
  <1> DEFINE p == ScalarExp(Hash[u], k)
             q == ScalarExp(Hash[v], k)
  <1>1. Hash[u] \in Point /\ Hash[v] \in Point /\ Invert(Hash[v]) \in Point
        BY HashAssumption, GroupAssumption
  <1>2. p \in Point /\ q \in Point BY <1>1, GroupAssumption
  <1>3. ASSUME p = q PROVE u = v
    <2>1. Hash[u] = Hash[v] BY <1>1, <1>3, PowerInjective
    <2> QED BY <2>1, HashAssumption
  <1>4. ASSUME p = Invert(q) PROVE u = v
    <2>1. Invert(q) = ScalarExp(Invert(Hash[v]), k) BY <1>1, PowerOfInverse
    <2>2. Hash[u] = Invert(Hash[v]) BY <1>1, <1>4, <2>1, PowerInjective
    <2> QED BY <2>2, HashAssumption
  <1>5. XCoord(p) = XCoord(q) <=> p = q \/ p = Invert(q) BY <1>2, SameXCoord
  <1> QED BY <1>3, <1>4, <1>5

LEMMA NymsMatch == IInv => SamePseudonym
  <1> SUFFICES ASSUME IInv, NEW i \in Converted, NEW j \in Converted
               PROVE  Pseudonym(i) = Pseudonym(j) <=> in[i].uid = in[j].uid
      BY DEF SamePseudonym
  <1>1. i \in DOMAIN in /\ j \in DOMAIN in /\ conv[i] # NoRow /\ conv[j] # NoRow
        BY DEF Converted
  <1>2. in[i].uid \in Uid /\ in[j].uid \in Uid
        BY <1>1, RowsTyped DEF IInv, RowsInPlace
  <1>3. /\ Pseudonym(i) = XCoord(ScalarExp(Hash[in[i].uid], helper.convK))
        /\ Pseudonym(j) = XCoord(ScalarExp(Hash[in[j].uid], helper.convK))
        BY <1>1 DEF IInv, ConvPlain, ConvRowIs, Nym, Pseudonym
  <1> QED BY <1>2, <1>3, SameKey DEF IInv, KeysMatch

(* Whatever the helper draws, two converted rows have one pseudonym        *)
(* exactly if they have one key: the receiver groups what belongs together *)
(* (OPRFEval, ReRand and GetMessageBytes).                                 *)
THEOREM PseudonymsMatch == Spec => []SamePseudonym
  <1>1. IInv => SamePseudonym BY NymsMatch
  <1>2. Init => IInv BY InitInv
  <1>3. IInv /\ [Next]_vars => IInv' BY NextInv
  <1> QED BY <1>1, <1>2, <1>3, PTL DEF Spec

(* Whatever is drawn, the value inside a converted row is its source's,    *)
(* and with at most 256 sources it is filed under that source (ProcessRow, *)
(* ConvertRow, and the table byte of decryptGroup).                        *)
ValuesArrive ==
  \A i \in Converted : ValueOf(i) = in[i].val /\ SourceOf(i) = Sources[in[i].src]

LEMMA RowValues ==
  ASSUME N \in 1 .. 256, IInv PROVE ValuesArrive
  <1> SUFFICES ASSUME NEW i \in Converted
               PROVE  ValueOf(i) = in[i].val /\ SourceOf(i) = Sources[in[i].src]
      BY DEF ValuesArrive
  <1>1. /\ PKEDecrypt(rsk.esk, conv[i].CVal.ct) = in[i].val
        /\ conv[i].CVal.table = Byte(in[i].src - 1)
        BY DEF Converted, IInv, ConvPlain, ConvRowIs
  <1>2. in[i].src \in 1 .. N
        BY InputAssumption DEF Converted, IInv, RowsInPlace
  <1>3. Byte(in[i].src - 1) + 1 = in[i].src
    <2> DEFINE t == in[i].src - 1
    <2>1. t \in 0 .. 255 /\ in[i].src \in Int /\ t + 1 = in[i].src BY <1>2
    <2> HIDE DEF t
    <2>2. t % 256 = t BY <2>1
    <2> QED BY <2>1, <2>2 DEF Byte, t
  <1> QED BY <1>1, <1>3 DEF ValueOf, SourceOf

THEOREM ValuesSurvive ==
  ASSUME N \in 1 .. 256 PROVE Spec => []ValuesArrive
  <1>1. IInv => ValuesArrive BY RowValues
  <1>2. Init => IInv BY InitInv
  <1>3. IInv /\ [Next]_vars => IInv' BY NextInv
  <1> QED BY <1>1, <1>2, <1>3, PTL DEF Spec

(* The type invariant: rows, keys and the helper's secrets have the shapes *)
(* and relations the code gives them, and a row is in one place (KeyGen,   *)
(* ProcessRow and ConvertRow).                                             *)
THEOREM Typed == Spec => []TypeOK
  <1>1. IInv => TypeOK
    <2> SUFFICES ASSUME IInv PROVE TypeOK OBVIOUS
    <2>1. \A i \in DOMAIN in :
            /\ enc[i] \in EncRow \union {NoRow}
            /\ conv[i] \in EncRowWithHint \union {NoRow}
            /\ enc[i] = NoRow \/ conv[i] = NoRow
          BY DEF IInv, RowsInPlace, EncPlain, EncRowIs, ConvPlain, ConvRowIs
    <2>2. /\ rsk \in [bsk : Scalar, esk : Scalar] /\ rpk \in [bpk : Point, epk : Point]
          /\ helper \in [convK : Scalar \ {Zero}, shares : [1 .. N -> Scalar], padKey : Scalar]
          BY DEF IInv, KeysMatch
    <2>3. BaseExp(rsk.bsk) = Invert(rpk.bpk) /\ BaseExp(rsk.esk) = Invert(rpk.epk)
          BY DEF IInv, KeysMatch, KeyPair
    <2>4. in \in Inputs BY DEF IInv, RowsInPlace
    <2> QED BY <2>1, <2>2, <2>3, <2>4 DEF TypeOK
  <1>2. Init => IInv BY InitInv
  <1>3. IInv /\ [Next]_vars => IInv' BY NextInv
  <1> QED BY <1>1, <1>2, <1>3, PTL DEF Spec

-----------------------------------------------------------------------------
(* Which groups open.                                                      *)

(* A masked point is found exactly with the mask.                          *)
LEMMA Unmask ==
  ASSUME NEW a \in Point, NEW k \in Point, NEW m \in Point
  PROVE  Mul(Mul(a, k), Invert(m)) = k <=> a = m
  <1>1. Mul(a, k) = Mul(k, a) /\ Mul(a, k) \in Point /\ Invert(m) \in Point
        BY GroupAssumption
  <1>2. Mul(Mul(k, a), Invert(a)) = k BY Cancel
  <1>3. ASSUME Mul(Mul(a, k), Invert(m)) = k PROVE a = m
    <2>1. Mul(Mul(Mul(a, k), Invert(m)), Invert(Invert(m))) = Mul(a, k) BY <1>1, Cancel
    <2>2. Mul(k, m) = Mul(a, k) BY <1>3, <2>1, InvertTwice
    <2>3. Mul(k, m) = Mul(m, k) BY GroupAssumption
    <2>4. Mul(Mul(a, k), Invert(k)) = a /\ Mul(Mul(m, k), Invert(k)) = m BY Cancel
    <2> QED BY <2>2, <2>3, <2>4
  <1> QED BY <1>1, <1>2, <1>3

(* Pseudonyms are not the identity.                                        *)
LEMMA NymTyped ==
  ASSUME NEW u \in Uid, NEW k \in Scalar \ {Zero}
  PROVE  ScalarExp(Hash[u], k) \in Point \ {Identity}
  <1>1. Hash[u] \in Point /\ Hash[u] # Identity BY HashAssumption
  <1>2. ScalarExp(Hash[u], k) \in Point BY <1>1, GroupAssumption
  <1>3. ScalarExp(Hash[u], k) # Identity BY <1>1, GroupAssumption
  <1> QED BY <1>2, <1>3

SameKeyRows(u) == {i \in Converted : in[i].uid = u}

(* The shares of the sources of rows e[1], ..., e[m].                      *)
Exponents(e, m) ==
  [j \in 1 .. N |-> IF j <= m THEN helper.shares[in[e[j]].src] ELSE Zero]

(* The hints of a set of rows of one key multiply to the pseudonym to the  *)
(* sum of the shares of their sources.                                     *)
LEMMA MaskOfGroup ==
  ASSUME IInv, NEW u \in Uid, NEW g \in SUBSET SameKeyRows(u), NEW m \in 0 .. N,
         NEW e \in Bijection(1 .. m, g)
  PROVE  /\ Sum(Exponents(e, m)) \in Scalar /\ MaskOf(g) \in Point
         /\ MaskOf(g) = ScalarExp(ScalarExp(Hash[u], helper.convK), Sum(Exponents(e, m)))
  <1> DEFINE p == ScalarExp(Hash[u], helper.convK)
             h == [i \in g |-> PKEDecrypt(rsk.bsk, conv[i].CHint)]
             q == Exponents(e, m)
  <1>1. N \in Nat BY SourcesTyped
  <1>2. p \in Point BY NymTyped DEF IInv, KeysMatch
  <1>3. \A i \in g : i \in DOMAIN in /\ conv[i] # NoRow /\ in[i].uid = u
        BY DEF SameKeyRows, Converted
  <1>4. \A i \in g : in[i].src \in 1 .. N
        BY <1>3, RowsTyped DEF IInv, RowsInPlace
  <1>5. helper.shares \in [1 .. N -> Scalar] BY DEF IInv, KeysMatch
  <1>6. \A i \in g : helper.shares[in[i].src] \in Scalar BY <1>4, <1>5
  <1>7. \A i \in g : h[i] = ScalarExp(p, helper.shares[in[i].src])
        BY <1>3 DEF IInv, ConvPlain, ConvRowIs, Nym
  <1>8. \A j \in 1 .. m : e[j] \in g /\ j \in 1 .. N BY <1>1 DEF Bijection, Injection
  <1> HIDE DEF p
  <1>9. h \in [g -> Point]
    <2>1. \A i \in g : ScalarExp(p, helper.shares[in[i].src]) \in Point
          BY <1>2, <1>6, GroupAssumption
    <2>2. \A i \in g : h[i] \in Point BY <1>7, <2>1
    <2> QED BY <2>2
  <1>10. q \in [1 .. N -> Scalar]
    <2>1. Zero \in Scalar BY GroupAssumption
    <2>2. \A j \in 1 .. N : j <= m => j \in 1 .. m BY <1>1
    <2> QED BY <1>6, <1>8, <2>1, <2>2 DEF Exponents
  <1>11. \A j \in 1 .. m : h[e[j]] = ScalarExp(p, q[j])
    <2> SUFFICES ASSUME NEW j \in 1 .. m PROVE h[e[j]] = ScalarExp(p, q[j]) OBVIOUS
    <2>1. q[j] = helper.shares[in[e[j]].src] BY <1>8 DEF Exponents
    <2> HIDE DEF h, q
    <2> QED BY <1>7, <1>8, <2>1
  <1>12. \A j \in 1 .. N : j > m => q[j] = Zero BY <1>1 DEF Exponents
  <1>13. IsFiniteSet(g)
    <2>1. IsFiniteSet(DOMAIN in) BY RowsAre DEF IInv, RowsInPlace
    <2>2. g \in SUBSET DOMAIN in BY <1>3
    <2> QED BY <2>1, <2>2, FS_Subset
  <1>14. \A i \in g : PKEDecrypt(rsk.bsk, conv[i].CHint) = h[i] OBVIOUS
  <1> HIDE DEF h, q
  <1>15. PICK b : Products(g, h, b) /\ MaskOf(g) = b[g]
         BY <1>9, <1>13, <1>14, MaskIsProduct
  <1>16. PICK a : Totals(1 .. N, q, a) /\ Sum(q) = a[1 .. N]
         BY <1>1, <1>10, SumIsTotal
  <1>17. b[g] = ScalarExp(p, a[1 .. N])
         BY <1>1, <1>2, <1>10, <1>11, <1>12, <1>15, <1>16, ProductOfPowers
  <1>18. Sum(q) \in Scalar BY <1>1, <1>10, SumIsTotal
  <1>19. MaskOf(g) = ScalarExp(p, Sum(q)) BY <1>15, <1>16, <1>17
  <1>20. ScalarExp(p, Sum(q)) \in Point BY <1>2, <1>18, GroupAssumption
  <1> QED BY <1>18, <1>19, <1>20 DEF p, q

(* A row opens with the hints of a group exactly if these multiply to the  *)
(* pseudonym to padKey.                                                    *)
LEMMA OpensByMask ==
  ASSUME IInv, NEW u \in Uid, NEW g \in SUBSET SameKeyRows(u), MaskOf(g) \in Point,
         NEW i \in g
  PROVE  Opens(Unmasked(i, g), conv[i].CVal)
           <=> MaskOf(g) = ScalarExp(ScalarExp(Hash[u], helper.convK), helper.padKey)
  <1> DEFINE a == ScalarExp(ScalarExp(Hash[u], helper.convK), helper.padKey)
             k == conv[i].CVal.key
             m == MaskOf(g)
  <1>1. i \in DOMAIN in /\ conv[i] # NoRow /\ in[i].uid = u
        BY DEF SameKeyRows, Converted
  <1>2. a \in Point
    <2>1. ScalarExp(Hash[u], helper.convK) \in Point BY NymTyped DEF IInv, KeysMatch
    <2>2. helper.padKey \in Scalar BY DEF IInv, KeysMatch
    <2> QED BY <2>1, <2>2, GroupAssumption
  <1>3. k \in Point /\ PKEDecrypt(rsk.bsk, conv[i].CValKey) = Mul(a, k)
        BY <1>1 DEF IInv, ConvPlain, ConvRowIs, Nym, EncRowWithHint
  <1>4. Unmasked(i, g) = Mul(PKEDecrypt(rsk.bsk, conv[i].CValKey), Invert(m))
        BY DEF Unmasked
  <1>5. Opens(Unmasked(i, g), conv[i].CVal) <=> Unmasked(i, g) = k BY DEF Opens
  <1>6. m \in Point OBVIOUS
  <1> HIDE DEF a, k, m
  <1>7. Mul(Mul(a, k), Invert(m)) = k <=> a = m BY <1>2, <1>3, <1>6, Unmask
  <1> QED BY <1>3, <1>4, <1>5, <1>7 DEF a, m

(* If they do, the shares are one of each source, because no other choice  *)
(* of at most N shares adds up to padKey.                                  *)
LEMMA OneOfEachIfMask ==
  ASSUME IInv, NEW u \in Uid, NEW g \in SUBSET SameKeyRows(u), NEW m \in 0 .. N,
         NEW e \in Bijection(1 .. m, g),
         MaskOf(g) = ScalarExp(ScalarExp(Hash[u], helper.convK), helper.padKey)
  PROVE  m = N /\ {in[i].src : i \in g} = 1 .. N
  <1> DEFINE p == ScalarExp(Hash[u], helper.convK)
             f == [j \in 1 .. N |-> IF j <= m THEN in[e[j]].src ELSE 0]
  <1>1. N \in Nat BY SourcesTyped
  <1>2. p \in Point \ {Identity} BY NymTyped DEF IInv, KeysMatch
  <1>3. /\ Sum(Exponents(e, m)) \in Scalar
        /\ MaskOf(g) = ScalarExp(p, Sum(Exponents(e, m)))
        BY MaskOfGroup
  <1>4. helper.padKey \in Scalar /\ helper.padKey = Sum(helper.shares)
        /\ Independent(helper.shares)
        BY DEF IInv, KeysMatch
  <1>5. Sum(Exponents(e, m)) = Sum(helper.shares)
    <2>1. ScalarExp(p, Sum(Exponents(e, m))) = ScalarExp(p, helper.padKey) BY <1>3
    <2> HIDE DEF p
    <2> QED BY <1>2, <1>3, <1>4, <2>1, ExponentInjective
  <1>6. /\ e \in [1 .. m -> g] /\ \A x \in g : \E j \in 1 .. m : e[j] = x
        BY DEF Bijection, Injection, Surjection
  <1>7. \A i \in g : in[i].src \in 1 .. N
        BY RowsTyped DEF SameKeyRows, Converted, IInv, RowsInPlace
  <1>8. \A j \in 1 .. N : j <= m => j \in 1 .. m BY <1>1
  <1>9. \A j \in 1 .. N : j <= m => in[e[j]].src \in 1 .. N BY <1>6, <1>7, <1>8
  <1>10. f \in [1 .. N -> 0 .. N] BY <1>1, <1>9
  <1>11. Exponents(e, m) = [j \in 1 .. N |-> IF f[j] = 0 THEN Zero ELSE helper.shares[f[j]]]
    <2>1. \A j \in 1 .. N : (IF j <= m THEN helper.shares[in[e[j]].src] ELSE Zero)
                              = IF f[j] = 0 THEN Zero ELSE helper.shares[f[j]]
          BY <1>9
    <2> HIDE DEF f
    <2> QED BY <2>1 DEF Exponents
  <1>12. Range(f) = 1 .. N
    <2> HIDE DEF f
    <2> QED BY <1>4, <1>5, <1>10, <1>11 DEF Independent
  <1>13. m = N
    <2>1. CASE m < N
      <3>1. N \in 1 .. N /\ f[N] = 0 BY <1>1, <2>1, SourcesTyped
      <3>2. f[N] \in Range(f)
        <4>1. DOMAIN f = 1 .. N OBVIOUS
        <4> HIDE DEF f
        <4> QED BY <3>1, <4>1 DEF Range
      <3> QED BY <1>12, <3>1, <3>2
    <2> QED BY <1>1, <2>1
  <1>14. ASSUME NEW c \in 1 .. N PROVE \E i \in g : in[i].src = c
    <2>1. PICK j \in 1 .. N : f[j] = c BY <1>12 DEF Range
    <2>2. j \in 1 .. m /\ in[e[j]].src = c BY <1>8, <1>13, <2>1
    <2> QED BY <1>6, <2>2
  <1> QED BY <1>7, <1>13, <1>14

(* With one row of each source, every share is there once.                 *)
LEMMA MaskIfOneOfEach ==
  ASSUME IInv, NEW u \in Uid, NEW g \in SUBSET SameKeyRows(u),
         IsFiniteSet(g), OneOfEach(g)
  PROVE  MaskOf(g) = ScalarExp(ScalarExp(Hash[u], helper.convK), helper.padKey)
  <1> DEFINE d == [i \in g |-> in[i].src]
             e == [c \in 1 .. N |-> CHOOSE i \in g : in[i].src = c]
  <1>1. N \in Nat /\ Cardinality(g) = N /\ {in[i].src : i \in g} = 1 .. N
        BY SourcesTyped DEF OneOfEach
  <1>2. \A c \in 1 .. N : e[c] \in g /\ in[e[c]].src = c
    <2> SUFFICES ASSUME NEW c \in 1 .. N PROVE e[c] \in g /\ in[e[c]].src = c OBVIOUS
    <2>1. \E i \in g : in[i].src = c BY <1>1
    <2> QED BY <2>1
  <1>3. IsInjective(d)
    <2>1. Cardinality(1 .. N) = N BY <1>1, FS_Interval
    <2>2. d \in Surjection(g, 1 .. N)
      <3>1. \A i \in g : in[i].src \in 1 .. N BY <1>1
      <3>2. d \in [g -> 1 .. N] BY <3>1
      <3>3. \A c \in 1 .. N : \E i \in g : d[i] = c BY <1>1
      <3> HIDE DEF d
      <3> QED BY <3>2, <3>3 DEF Surjection
    <2> HIDE DEF d
    <2>3. d \in Injection(g, 1 .. N)
          BY <1>1, <2>1, <2>2, FS_SurjSameCardinalityImpliesInj
    <2> QED BY <2>3 DEF Injection
  <1>4. \A i, j \in g : in[i].src = in[j].src => i = j BY <1>3 DEF IsInjective
  <1>5. e \in Bijection(1 .. N, g)
    <2>1. \A i \in g : in[i].src \in 1 .. N /\ e[in[i].src] = i BY <1>1, <1>2, <1>4
    <2>2. e \in [1 .. N -> g]
      <3>1. e = [c \in 1 .. N |-> e[c]] OBVIOUS
      <3> HIDE DEF e
      <3> QED BY <1>2, <3>1
    <2>3. \A b, c \in 1 .. N : e[b] = e[c] => b = c
      <3> HIDE DEF e
      <3> QED BY <1>2
    <2> HIDE DEF e
    <2> QED BY <2>1, <2>2, <2>3 DEF Bijection, Injection, Surjection, IsInjective
  <1>6. Exponents(e, N) = helper.shares
    <2>1. helper.shares \in [1 .. N -> Scalar] BY DEF IInv, KeysMatch
    <2>2. \A c \in 1 .. N : (IF c <= N THEN helper.shares[in[e[c]].src] ELSE Zero)
                              = helper.shares[c]
      <3> HIDE DEF e
      <3> QED BY <1>1, <1>2
    <2> HIDE DEF e
    <2> QED BY <2>1, <2>2 DEF Exponents
  <1>7. helper.padKey = Sum(helper.shares) BY DEF IInv, KeysMatch
  <1>8. N \in 0 .. N BY <1>1
  <1> HIDE DEF e
  <1> QED BY <1>5, <1>6, <1>7, <1>8, MaskOfGroup

LEMMA GroupOpens ==
  ASSUME IInv, NEW u \in Uid, NEW g \in SUBSET SameKeyRows(u), Cardinality(g) <= N,
         NEW i \in g
  PROVE  Opens(Unmasked(i, g), conv[i].CVal) <=> OneOfEach(g)
  <1>1. IsFiniteSet(g)
    <2>1. IsFiniteSet(DOMAIN in) BY RowsAre DEF IInv, RowsInPlace
    <2>2. g \in SUBSET DOMAIN in BY DEF SameKeyRows, Converted
    <2> QED BY <2>1, <2>2, FS_Subset
  <1> DEFINE m == Cardinality(g)
  <1>2. m \in 0 .. N /\ ExistsBijection(1 .. m, g)
        BY <1>1, SourcesTyped, FS_CardinalityType
  <1> HIDE DEF m
  <1>3. PICK e \in Bijection(1 .. m, g) : TRUE BY <1>2 DEF ExistsBijection
  <1>4. MaskOf(g) \in Point BY <1>2, <1>3, MaskOfGroup
  <1>5. Opens(Unmasked(i, g), conv[i].CVal)
          <=> MaskOf(g) = ScalarExp(ScalarExp(Hash[u], helper.convK), helper.padKey)
        BY <1>4, OpensByMask
  <1>6. ASSUME MaskOf(g) = ScalarExp(ScalarExp(Hash[u], helper.convK), helper.padKey)
        PROVE  OneOfEach(g)
    <2>1. m = N /\ {in[j].src : j \in g} = 1 .. N
          BY <1>2, <1>3, <1>6, OneOfEachIfMask
    <2> QED BY <2>1 DEF OneOfEach, m
  <1>7. ASSUME OneOfEach(g)
        PROVE  MaskOf(g) = ScalarExp(ScalarExp(Hash[u], helper.convK), helper.padKey)
        BY <1>1, <1>7, MaskIfOneOfEach
  <1> QED BY <1>5, <1>6, <1>7

(* Whatever is drawn, a set of at most N rows of one key opens exactly if  *)
(* it has one row of each source (blindAndHint, decryptGroup): a source    *)
(* that is missing, or takes part twice, leaves the group sealed.          *)
THEOREM WholeGroupsOpen == Spec => []OnlyWholeGroupsOpen
  <1>1. IInv => OnlyWholeGroupsOpen
        BY GroupOpens DEF OnlyWholeGroupsOpen, SameKeyRows
  <1>2. Init => IInv BY InitInv
  <1>3. IInv /\ [Next]_vars => IInv' BY NextInv
  <1> QED BY <1>1, <1>2, <1>3, PTL DEF Spec

-----------------------------------------------------------------------------
(* What the receiver writes.                                               *)
AllConverted == \A i \in DOMAIN in : conv[i] # NoRow
RowsOf(u) == {i \in DOMAIN in : in[i].uid = u}
FullGroups == {g \in Groups : Joinable(g)}
WholeKeys == {g \in {RowsOf(u) : u \in Uid} : OneOfEach(g)}

(* The rows with one pseudonym are those of one key.                       *)
LEMMA GroupsAreKeys ==
  ASSUME IInv, AllConverted, NEW i \in DOMAIN in
  PROVE  /\ in[i].uid \in Uid
         /\ {j \in DOMAIN in : Pseudonym(j) = Pseudonym(i)} = RowsOf(in[i].uid)
         /\ RowsOf(in[i].uid) = SameKeyRows(in[i].uid)
  <1>1. in[i].uid \in Uid BY RowsTyped DEF IInv, RowsInPlace
  <1>2. Converted = DOMAIN in BY DEF AllConverted, Converted
  <1>3. \A j \in DOMAIN in : Pseudonym(j) = Pseudonym(i) <=> in[j].uid = in[i].uid
        BY <1>2, NymsMatch DEF SamePseudonym
  <1> QED BY <1>1, <1>2, <1>3 DEF RowsOf, SameKeyRows

(* If the receiver could open them all, the groups of the right size are   *)
(* the keys of which each source has a row.                                *)
LEMMA FullGroupsAreWhole ==
  ASSUME IInv, AllConverted, \A g \in FullGroups : Decryptable(g)
  PROVE  FullGroups = WholeKeys
  <1>1. ASSUME NEW g \in FullGroups PROVE g \in WholeKeys
    <2>1. PICK i \in DOMAIN in : g = {j \in DOMAIN in : Pseudonym(j) = Pseudonym(i)}
          BY DEF FullGroups, Groups
    <2>2. /\ in[i].uid \in Uid /\ g = RowsOf(in[i].uid) /\ g = SameKeyRows(in[i].uid)
          BY <2>1, GroupsAreKeys
    <2>3. i \in g /\ Cardinality(g) = N BY <2>1 DEF FullGroups, Joinable
    <2>4. Opens(Unmasked(i, g), conv[i].CVal) BY <2>3 DEF Decryptable
    <2>5. Cardinality(g) <= N BY <2>3, SourcesTyped
    <2>6. OneOfEach(g)
      <3> DEFINE u == in[i].uid
      <3>1. u \in Uid /\ g \in SUBSET SameKeyRows(u) BY <2>2
      <3> HIDE DEF u
      <3> QED BY <2>3, <2>4, <2>5, <3>1, GroupOpens
    <2> QED BY <2>2, <2>6 DEF WholeKeys
  <1>2. ASSUME NEW g \in WholeKeys PROVE g \in FullGroups
    <2>1. PICK u \in Uid : g = RowsOf(u) BY DEF WholeKeys
    <2>2. Cardinality(g) = N /\ {in[i].src : i \in g} = 1 .. N BY DEF WholeKeys, OneOfEach
    <2>3. 1 \in 1 .. N BY SourcesTyped
    <2>4. PICK i \in g : in[i].src = 1 BY <2>2, <2>3
    <2>5. i \in DOMAIN in /\ in[i].uid = u BY <2>1 DEF RowsOf
    <2>6. g = {j \in DOMAIN in : Pseudonym(j) = Pseudonym(i)}
          BY <2>1, <2>5, GroupsAreKeys
    <2>7. g \in Groups BY <2>5, <2>6 DEF Groups
    <2> QED BY <2>2, <2>7 DEF FullGroups, Joinable
  <1> QED BY <1>1, <1>2

(* The columns of such a group hold the values of the sources' rows.       *)
PlainColumns(g) ==
  [c \in Range(Sources) |-> in[CHOOSE i \in g : Sources[in[i].src] = c].val]

LEMMA ColumnsArePlain ==
  ASSUME N \in 1 .. 256, IInv, AllConverted, NEW g \in WholeKeys
  PROVE  Columns(g) = PlainColumns(g)
  <1>1. \A i \in g : i \in Converted
        BY DEF WholeKeys, RowsOf, AllConverted, Converted
  <1>2. \A i \in g : ValueOf(i) = in[i].val /\ SourceOf(i) = Sources[in[i].src]
        BY <1>1, RowValues DEF ValuesArrive
  <1>3. {in[i].src : i \in g} = 1 .. N BY DEF WholeKeys, OneOfEach
  <1>4. DOMAIN Sources = 1 .. N
    <2>1. Sources \in Seq(Range(Sources)) BY InputAssumption
    <2> QED BY <2>1 DEF N
  <1>5. ASSUME NEW c \in Range(Sources)
        PROVE  ValueOf(CHOOSE i \in g : SourceOf(i) = c)
                 = in[CHOOSE i \in g : Sources[in[i].src] = c].val
    <2> DEFINE a == CHOOSE i \in g : SourceOf(i) = c
               b == CHOOSE i \in g : Sources[in[i].src] = c
    <2>1. \A i \in g : SourceOf(i) = c <=> Sources[in[i].src] = c BY <1>2
    <2>2. a = b BY <2>1
    <2>3. \E i \in g : Sources[in[i].src] = c
      <3>1. PICK n \in 1 .. N : Sources[n] = c BY <1>4 DEF Range
      <3>2. PICK i \in g : in[i].src = n BY <1>3
      <3> QED BY <3>1, <3>2
    <2>4. b \in g BY <2>3
    <2> HIDE DEF a, b
    <2>5. ValueOf(a) = in[b].val BY <1>2, <2>2, <2>4
    <2> QED BY <2>5 DEF a, b
  <1> QED BY <1>5 DEF Columns, PlainColumns

LEMMA TablesPlain ==
  ASSUME N \in 1 .. 256, IInv, JoinTables PROVE JoinIsPlain'
  <1>1. AllConverted /\ in' = in BY DEF JoinTables, AllConverted
  <1>2. out' = IF \A g \in FullGroups : Decryptable(g)
               THEN {<<g, Columns(g)>> : g \in FullGroups} ELSE Noise
        BY DEF JoinTables, FullGroups
  <1>3. PlainJoin' = {<<g, PlainColumns(g)>> : g \in WholeKeys}
        BY <1>1 DEF PlainJoin, PlainColumns, WholeKeys, RowsOf, OneOfEach
  <1>4. CASE \A g \in FullGroups : Decryptable(g)
    <2>1. FullGroups = WholeKeys BY <1>1, <1>4, FullGroupsAreWhole
    <2>2. \A g \in WholeKeys : Columns(g) = PlainColumns(g) BY <1>1, ColumnsArePlain
    <2>3. out' = {<<g, PlainColumns(g)>> : g \in WholeKeys} BY <1>2, <1>4, <2>1, <2>2
    <2> QED BY <1>3, <2>3 DEF JoinIsPlain
  <1>5. CASE ~ \A g \in FullGroups : Decryptable(g)
        BY <1>2, <1>5 DEF JoinIsPlain
  <1> QED BY <1>4, <1>5

(* With at most 256 sources, what the receiver writes is the plain join of *)
(* the sources' rows, whatever is drawn and in whatever order the rows are *)
(* processed; if there is a group it cannot open it writes nothing         *)
(* (JoinTables and decryptGroup).                                          *)
THEOREM TablesArePlain ==
  ASSUME N \in 1 .. 256 PROVE Spec => []JoinIsPlain
  <1> DEFINE Inv == IInv /\ JoinIsPlain
  <1>1. Init => Inv
    <2>1. Init => JoinIsPlain BY DEF Init, JoinIsPlain
    <2> QED BY <2>1, InitInv
  <1>2. Inv /\ [Next]_vars => Inv'
    <2> SUFFICES ASSUME IInv, JoinIsPlain, [Next]_vars PROVE JoinIsPlain'
        BY NextInv
    <2>1. CASE UNCHANGED <<in, out>>
          BY <2>1 DEF JoinIsPlain, PlainJoin, OneOfEach
    <2>2. CASE JoinTables BY <2>2, TablesPlain
    <2> QED BY <2>1, <2>2 DEF Next, ProcessRow, ConvertRow, vars
  <1> QED BY <1>1, <1>2, PTL DEF Spec
=============================================================================
