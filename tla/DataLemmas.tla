----------------------------- MODULE DataLemmas -----------------------------
(***************************************************************************)
(* Lemmas about sequences, counting, finite sets and folds, for the proofs *)
(* about the modules.  They speak of no module of the project.             *)
(***************************************************************************)
EXTENDS SequenceTheorems, FiniteSetTheorems, TLAPS

-----------------------------------------------------------------------------
(* What a channel holds when a value is sent or received.                  *)
LEMMA RangeSeq ==
  ASSUME NEW S, NEW s \in Seq(S)
  PROVE  /\ \A e \in S : Range(Append(s, e)) = Range(s) \union {e}
         /\ s # <<>> => Range(s) = {Head(s)} \union Range(Tail(s))
         /\ s = <<>> => Range(s) = {}
         /\ Range(s) \subseteq S
  <1>1. /\ Len(s) \in Nat /\ DOMAIN s = 1 .. Len(s)
        /\ \A i \in 1 .. Len(s) : s[i] \in S
        OBVIOUS
  <1>2. ASSUME NEW e \in S PROVE Range(Append(s, e)) = Range(s) \union {e}
    <2>1. /\ DOMAIN Append(s, e) = 1 .. Len(s) + 1 /\ Append(s, e)[Len(s) + 1] = e
          /\ \A i \in 1 .. Len(s) : Append(s, e)[i] = s[i]
          OBVIOUS
    <2> QED BY <1>1, <2>1 DEF Range
  <1>3. ASSUME s # <<>> PROVE Range(s) = {Head(s)} \union Range(Tail(s))
    <2>1. /\ Len(s) >= 1 /\ DOMAIN Tail(s) = 1 .. Len(s) - 1 /\ Head(s) = s[1]
          /\ \A i \in 1 .. Len(s) - 1 : Tail(s)[i] = s[i + 1]
          BY <1>1, <1>3
    <2>2. \A i \in 1 .. Len(s) : i = 1 \/ (i - 1 \in 1 .. Len(s) - 1 /\ s[i] = Tail(s)[i - 1])
          BY <1>1, <2>1
    <2>3. \A i \in 1 .. Len(s) - 1 : i + 1 \in 1 .. Len(s) BY <1>1
    <2>4. ASSUME NEW i \in 1 .. Len(s) PROVE s[i] \in {Head(s)} \union Range(Tail(s))
          BY <2>1, <2>2 DEF Range
    <2>5. ASSUME NEW i \in 1 .. Len(s) - 1 PROVE Tail(s)[i] \in Range(s)
          BY <1>1, <2>1, <2>3 DEF Range
    <2>6. 1 \in 1 .. Len(s) BY <1>1, <2>1
    <2>7. Range(s) \subseteq {Head(s)} \union Range(Tail(s)) BY <1>1, <2>4 DEF Range
    <2>8. Range(Tail(s)) \subseteq Range(s) BY <2>1, <2>5 DEF Range
    <2>9. Head(s) \in Range(s) BY <1>1, <2>1, <2>6 DEF Range
    <2> QED BY <2>7, <2>8, <2>9
  <1>4. Range(s) \subseteq S BY <1>1 DEF Range
  <1>5. s = <<>> => Range(s) = {} BY <1>1 DEF Range
  <1> QED BY <1>2, <1>3, <1>4, <1>5

-----------------------------------------------------------------------------
(* Counting the places of a value in a function or a sequence.             *)
At(f, u) == {n \in DOMAIN f : f[n] = u}
Count(f, u) == Cardinality(At(f, u))
One(a, b) == IF a = b THEN 1 ELSE 0

(* One more place, or none.                                                *)
LEMMA AddOne ==
  ASSUME NEW S, IsFiniteSet(S), NEW x, x \notin S, NEW a, NEW b, NEW T,
         T = IF a = b THEN S \union {x} ELSE S
  PROVE  /\ IsFiniteSet(T) /\ Cardinality(S) \in Nat
         /\ Cardinality(T) = Cardinality(S) + One(a, b)
  <1>1. Cardinality(S) \in Nat BY FS_CardinalityType
  <1>2. CASE a = b BY <1>1, <1>2, FS_AddElement DEF One
  <1>3. CASE a # b BY <1>1, <1>3 DEF One
  <1> QED BY <1>2, <1>3

LEMMA CountIsNat ==
  ASSUME NEW f, IsFiniteSet(DOMAIN f), NEW u
  PROVE  IsFiniteSet(At(f, u)) /\ Count(f, u) \in Nat
  <1>1. At(f, u) \in SUBSET DOMAIN f BY DEF At
  <1>2. IsFiniteSet(At(f, u)) BY <1>1, FS_Subset
  <1> QED BY <1>2, FS_CardinalityType DEF Count

(* Two functions that differ at one argument.                              *)
DifferAt(f, g, d) == DOMAIN g = DOMAIN f /\ \A n \in DOMAIN f \ {d} : g[n] = f[n]

LEMMA CountExcept ==
  ASSUME NEW f, NEW g, NEW d, NEW u,
         IsFiniteSet(DOMAIN f), d \in DOMAIN f, DifferAt(f, g, d)
  PROVE  /\ Count(f, u) \in Nat
         /\ Count(g, u) = Count(f, u) - One(f[d], u) + One(g[d], u)
  <1> DEFINE R == {n \in DOMAIN f \ {d} : f[n] = u}
  <1>1. R \in SUBSET DOMAIN f OBVIOUS
  <1>2. IsFiniteSet(R) /\ d \notin R BY <1>1, FS_Subset
  <1>3. At(f, u) = IF f[d] = u THEN R \union {d} ELSE R BY DEF At, DifferAt
  <1>4. At(g, u) = IF g[d] = u THEN R \union {d} ELSE R BY DEF At, DifferAt
  <1> HIDE DEF R
  <1>5. Cardinality(R) \in Nat /\ Count(f, u) = Cardinality(R) + One(f[d], u)
        BY <1>2, <1>3, AddOne DEF Count
  <1>6. Count(g, u) = Cardinality(R) + One(g[d], u) BY <1>2, <1>4, AddOne DEF Count
  <1> QED BY <1>5, <1>6 DEF One

LEMMA ExceptDiffers ==
  ASSUME NEW f, NEW d \in DOMAIN f, NEW v, NEW g, g = [f EXCEPT ![d] = v]
  PROVE  DifferAt(f, g, d) /\ g[d] = v
  BY DEF DifferAt

LEMMA CountEmpty == \A u : Count(<<>>, u) = 0
  <1>1. \A u : At(<<>>, u) = {} BY DEF At
  <1> QED BY <1>1, FS_EmptySet DEF Count

LEMMA CountAppend ==
  ASSUME NEW S, NEW s \in Seq(S), NEW e \in S, NEW u
  PROVE  Count(s, u) \in Nat /\ Count(Append(s, e), u) = Count(s, u) + One(e, u)
  <1> DEFINE a == Append(s, e)
  <1>1. /\ Len(s) \in Nat /\ DOMAIN s = 1 .. Len(s) /\ DOMAIN a = 1 .. Len(s) + 1
        /\ a[Len(s) + 1] = e /\ \A i \in 1 .. Len(s) : a[i] = s[i]
        OBVIOUS
  <1> HIDE DEF a
  <1>2. IsFiniteSet(At(s, u))
    <2>1. At(s, u) \in SUBSET (1 .. Len(s)) BY <1>1 DEF At
    <2>2. IsFiniteSet(1 .. Len(s)) BY <1>1, FS_Interval
    <2> QED BY <2>1, <2>2, FS_Subset
  <1>3. 1 .. Len(s) + 1 = (1 .. Len(s)) \union {Len(s) + 1} BY <1>1
  <1>4. Len(s) + 1 \notin 1 .. Len(s) BY <1>1
  <1>5. At(a, u) = IF e = u THEN At(s, u) \union {Len(s) + 1} ELSE At(s, u)
        BY <1>1, <1>3, <1>4 DEF At
  <1>6. Len(s) + 1 \notin At(s, u) BY <1>1, <1>4 DEF At
  <1> DEFINE S0 == At(s, u)
             T0 == At(a, u)
  <1>7. T0 = IF e = u THEN S0 \union {Len(s) + 1} ELSE S0 BY <1>5
  <1>8. Len(s) + 1 \notin S0 /\ IsFiniteSet(S0) BY <1>2, <1>6
  <1>9. Count(s, u) = Cardinality(S0) /\ Count(a, u) = Cardinality(T0) BY DEF Count
  <1> HIDE DEF S0, T0
  <1>10. Cardinality(S0) \in Nat /\ Cardinality(T0) = Cardinality(S0) + One(e, u)
    <2> DEFINE x == Len(s) + 1
    <2>1. IsFiniteSet(S0) /\ x \notin S0 BY <1>8
    <2>2. T0 = IF e = u THEN S0 \union {x} ELSE S0 BY <1>7
    <2> HIDE DEF x
    <2> QED BY <2>1, <2>2, AddOne
  <1> QED BY <1>9, <1>10 DEF a

LEMMA CountTail ==
  ASSUME NEW S, NEW s \in Seq(S), s # <<>>, NEW u
  PROVE  Count(Tail(s), u) \in Nat /\ Count(s, u) = Count(Tail(s), u) + One(Head(s), u)
  <1> DEFINE t == Tail(s)
             J == At(t, u)
             I == {n \in 2 .. Len(s) : s[n] = u}
             up == [n \in J |-> n + 1]
  <1>1. /\ Len(s) \in Nat /\ Len(s) >= 1 /\ DOMAIN s = 1 .. Len(s)
        /\ DOMAIN t = 1 .. Len(s) - 1 /\ Head(s) = s[1]
        /\ \A i \in 1 .. Len(s) - 1 : t[i] = s[i + 1]
        OBVIOUS
  <1> HIDE DEF t
  <1>2. IsFiniteSet(J)
    <2>1. J \in SUBSET (1 .. Len(s) - 1) BY <1>1 DEF At
    <2>2. Len(s) - 1 \in Int BY <1>1
    <2>3. IsFiniteSet(1 .. Len(s) - 1) BY <2>2, FS_Interval
    <2> HIDE DEF J
    <2> QED BY <2>1, <2>3, FS_Subset
  <1>3. up \in Bijection(J, I)
    <2>1. \A n \in J : n \in 1 .. Len(s) - 1 /\ n + 1 \in I BY <1>1 DEF At
    <2>2. \A m \in I : m - 1 \in J /\ up[m - 1] = m BY <1>1 DEF At
    <2>3. \A m, n \in J : up[m] = up[n] => m = n BY <2>1
    <2> HIDE DEF I, J
    <2>4. up \in [J -> I] BY <2>1
    <2>5. up \in Surjection(J, I) BY <2>2, <2>4 DEF Surjection
    <2> QED BY <2>3, <2>4, <2>5 DEF Bijection, Injection, IsInjective
  <1>4. IsFiniteSet(I) /\ Cardinality(I) = Cardinality(J)
        BY <1>2, <1>3, FS_Bijection DEF ExistsBijection
  <1>5. At(s, u) = IF Head(s) = u THEN I \union {1} ELSE I
    <2>1. 1 .. Len(s) = (2 .. Len(s)) \union {1} BY <1>1
    <2> QED BY <1>1, <2>1 DEF At
  <1>6. 1 \notin I OBVIOUS
  <1> HIDE DEF I, J
  <1> QED BY <1>4, <1>5, <1>6, AddOne DEF Count, J, t

-----------------------------------------------------------------------------
(* Induction, with the cases that hold collected in a set.                 *)
LEMMA SetInduct ==
  ASSUME NEW S, IsFiniteSet(S), NEW T,
         \A s \in SUBSET S : (\A x \in s : s \ {x} \in T) => s \in T
  PROVE  SUBSET S \subseteq T
  <1> DEFINE B == (SUBSET S) \ T
             R == StrictSubsetOrdering(S)
  <1> SUFFICES ASSUME B # {} PROVE FALSE OBVIOUS
  <1>1. IsWellFoundedOn(R, SUBSET S)
    <2>1. FiniteSubsetsOf(S) = SUBSET S BY FS_FiniteSubsetsOfFinite
    <2>2. IsWellFoundedOn(R, FiniteSubsetsOf(S)) BY FS_StrictSubsetOrderingWellFounded
    <2> HIDE DEF R
    <2> QED BY <2>1, <2>2
  <1>2. PICK s \in B : \A r \in B : ~(<<r, s>> \in R)
    <2> HIDE DEF R, B
    <2>1. B \subseteq SUBSET S BY DEF B
    <2> QED BY <1>1, <2>1, WFMin
  <1>3. ASSUME NEW x \in s PROVE s \ {x} \in T
    <2>1. s \ {x} \in SUBSET S /\ s \ {x} \subseteq s /\ s \ {x} # s OBVIOUS
    <2>2. <<s \ {x}, s>> \in R BY <2>1 DEF StrictSubsetOrdering
    <2> HIDE DEF R
    <2> QED BY <1>2, <2>1, <2>2
  <1> QED BY <1>3

LEMMA NatInduct ==
  ASSUME NEW m \in Nat, NEW T, 0 \in T, \A n \in Nat : n < m /\ n \in T => n + 1 \in T
  PROVE  0 .. m \subseteq T
  <1> DEFINE B == (0 .. m) \ T
             R == OpToRel(<, Nat)
  <1> SUFFICES ASSUME B # {} PROVE FALSE OBVIOUS
  <1>1. PICK n \in B : \A k \in B : ~(<<k, n>> \in R)
    <2>1. IsWellFoundedOn(R, Nat) BY NatLessThanWellFounded
    <2>2. B \subseteq Nat OBVIOUS
    <2> HIDE DEF R, B
    <2> QED BY <2>1, <2>2, WFMin
  <1>2. n \in 0 .. m /\ n \notin T /\ n # 0 OBVIOUS
  <1>3. n - 1 \in Nat /\ n - 1 < m /\ n - 1 \in 0 .. m /\ n - 1 + 1 = n BY <1>2
  <1>4. <<n - 1, n>> \in R BY <1>2, <1>3 DEF OpToRel
  <1>5. n - 1 \in T BY <1>1, <1>3, <1>4
  <1> QED BY <1>2, <1>3, <1>5

(* A set of numbers up to n has a greatest.                                *)
LEMMA Greatest ==
  ASSUME NEW n \in Nat, NEW s \in SUBSET (1 .. n), s # {}
  PROVE  \E x \in s : \A y \in s : x >= y
  <1> DEFINE B == {k \in 0 .. n : n - k \in s}
  <1>1. B \subseteq Nat /\ B # {}
    <2>1. PICK x \in s : x \in 1 .. n OBVIOUS
    <2>2. n - x \in 0 .. n /\ n - (n - x) = x BY <2>1
    <2>3. n - x \in B BY <2>2
    <2>4. B \subseteq Nat BY SMT
    <2> HIDE DEF B
    <2> QED BY <2>3, <2>4
  <1> DEFINE R == OpToRel(<, Nat)
  <1>2. PICK k \in B : \A j \in B : ~(<<j, k>> \in R)
    <2>1. IsWellFoundedOn(R, Nat) BY NatLessThanWellFounded
    <2> HIDE DEF R, B
    <2> QED BY <1>1, <2>1, WFMin
  <1>3. ASSUME NEW y \in s PROVE n - k >= y
    <2>1. y \in 1 .. n OBVIOUS
    <2>2. n - y \in B /\ n - y \in Nat /\ k \in Nat BY <2>1
    <2>3. ~(n - y < k) BY <1>2, <2>2 DEF OpToRel
    <2> QED BY <2>1, <2>2, <2>3
  <1> QED BY <1>3

-----------------------------------------------------------------------------
(* A function of the numbers up to m that is defined from itself, starting *)
(* with a.                                                                 *)
IsIter(m, S, a, F, f) ==
  f \in [0 .. m -> S] /\ f[0] = a /\ \A k \in 1 .. m : f[k] = F[<<k, f[k - 1]>>]

LEMMA IterExists ==
  ASSUME NEW m \in Nat, NEW S, NEW a \in S, NEW F \in [(1 .. m) \X S -> S]
  PROVE  \E f : IsIter(m, S, a, F, f)
  <1> DEFINE Upto(f, n) == f[0] = a /\ \A k \in 1 .. m : k <= n => f[k] = F[<<k, f[k - 1]>>]
             T == {n \in Nat : n <= m => \E f \in [0 .. m -> S] : Upto(f, n)}
  <1>1. 0 \in T
    <2> DEFINE f == [k \in 0 .. m |-> a]
    <2>1. f \in [0 .. m -> S] /\ f[0] = a OBVIOUS
    <2>2. \A k \in 1 .. m : ~(k <= 0) OBVIOUS
    <2> HIDE DEF f
    <2> QED BY <2>1, <2>2
  <1>2. ASSUME NEW n \in Nat, n < m, n \in T PROVE n + 1 \in T
    <2>1. PICK f \in [0 .. m -> S] : Upto(f, n) BY <1>2
    <2> DEFINE v == F[<<n + 1, f[n]>>]
               g == [k \in 0 .. m |-> IF k = n + 1 THEN v ELSE f[k]]
    <2>2. v \in S
      <3>1. n + 1 \in 1 .. m /\ n \in 0 .. m BY <1>2
      <3> QED BY <3>1
    <2>3. g[n + 1] = v /\ \A k \in 0 .. m : k # n + 1 => g[k] = f[k]
      <3>1. n + 1 \in 0 .. m BY <1>2
      <3> QED BY <3>1
    <2>4. g \in [0 .. m -> S] BY <2>2
    <2>5. 0 \in 0 .. m /\ 0 # n + 1 /\ n \in 0 .. m /\ n # n + 1 BY <1>2
    <2> HIDE DEF g
    <2>6. g[0] = a BY <2>1, <2>3, <2>5
    <2>7. ASSUME NEW k \in 1 .. m, k <= n + 1 PROVE g[k] = F[<<k, g[k - 1]>>]
      <3>1. k - 1 \in 0 .. m /\ k - 1 # n + 1 /\ k \in 0 .. m BY <2>7
      <3>2. g[k - 1] = f[k - 1] BY <2>3, <3>1
      <3>3. CASE k = n + 1
        <4>1. k - 1 = n BY <3>3
        <4> QED BY <2>3, <3>2, <3>3, <4>1
      <3>4. CASE k # n + 1
        <4>1. k <= n BY <2>7, <3>4
        <4>2. f[k] = F[<<k, f[k - 1]>>] BY <2>1, <4>1
        <4> QED BY <2>3, <3>1, <3>2, <3>4, <4>2
      <3> QED BY <3>3, <3>4
    <2>8. Upto(g, n + 1) BY <2>6, <2>7
    <2>9. n + 1 \in Nat OBVIOUS
    <2> HIDE DEF Upto
    <2> QED BY <2>4, <2>8, <2>9
  <1>3. m \in T
    <2> HIDE DEF T
    <2>1. 0 .. m \subseteq T BY <1>1, <1>2, NatInduct
    <2> QED BY <2>1
  <1>4. PICK f \in [0 .. m -> S] : Upto(f, m) BY <1>3
  <1>5. \A k \in 1 .. m : k <= m OBVIOUS
  <1>6. IsIter(m, S, a, F, f) BY <1>4, <1>5 DEF IsIter
  <1> QED BY <1>6

-----------------------------------------------------------------------------
(* Folds.  The recursive function of a fold takes the elements in the      *)
(* order that c chooses, from base b, with F : <<element, sum>> |-> sum.   *)
FoldBody(S, b, c, F, it) ==
  [s \in SUBSET S |-> IF s = {} THEN b ELSE F[<<c[s], it[s \ {c[s]}]>>]]

IsFold(S, V, b, c, F, it) == it \in [SUBSET S -> V] /\ it = FoldBody(S, b, c, F, it)

Chooser(S, c) == \A s \in SUBSET S : s # {} => c[s] \in s

(* It exists, though it is defined from itself, ...                        *)
LEMMA FoldExists ==
  ASSUME NEW S, IsFiniteSet(S), NEW V, NEW b \in V, NEW c, Chooser(S, c),
         NEW F \in [S \X V -> V]
  PROVE  \E it : IsFold(S, V, b, c, F, it)
  <1> DEFINE Step(it, s) == IF s = {} THEN b ELSE F[<<c[s], it[s \ {c[s]}]>>]
             Upto(it, n) == \A s \in SUBSET S : Cardinality(s) <= n => it[s] = Step(it, s)
             m == Cardinality(S)
             T == {n \in Nat : \E it \in [SUBSET S -> V] : Upto(it, n)}
  <1>1. \A s \in SUBSET S : IsFiniteSet(s) /\ Cardinality(s) \in Nat /\ Cardinality(s) <= m
        BY FS_Subset, FS_CardinalityType
  <1>2. ASSUME NEW it \in [SUBSET S -> V], NEW s \in SUBSET S PROVE Step(it, s) \in V
    <2>1. CASE s = {} BY <2>1
    <2>2. CASE s # {}
      <3>1. c[s] \in S /\ s \ {c[s]} \in SUBSET S BY <2>2 DEF Chooser
      <3> QED BY <2>2, <3>1
    <2> QED BY <2>1, <2>2
  <1>3. 0 \in T
    <2> DEFINE it == [s \in SUBSET S |-> b]
    <2>1. it \in [SUBSET S -> V] OBVIOUS
    <2>2. ASSUME NEW s \in SUBSET S, Cardinality(s) <= 0 PROVE it[s] = Step(it, s)
      <3>1. s = {} BY <1>1, <2>2, FS_EmptySet
      <3> QED BY <3>1
    <2> QED BY <2>1, <2>2
  <1>4. ASSUME NEW n \in Nat, n \in T PROVE n + 1 \in T
    <2>1. PICK it \in [SUBSET S -> V] : Upto(it, n) BY <1>4
    <2> DEFINE jt == [s \in SUBSET S |-> Step(it, s)]
    <2>2. jt \in [SUBSET S -> V] BY <1>2
    <2>3. ASSUME NEW s \in SUBSET S, Cardinality(s) <= n + 1 PROVE jt[s] = Step(jt, s)
      <3>1. CASE s = {} BY <3>1
      <3>2. CASE s # {}
        <4> DEFINE r == s \ {c[s]}
        <4>1. c[s] \in s /\ r \in SUBSET S BY <3>2 DEF Chooser
        <4>2. Cardinality(r) = Cardinality(s) - 1 BY <1>1, <4>1, FS_RemoveElement
        <4>3. Cardinality(r) <= n BY <1>1, <2>3, <4>2
        <4>4. it[r] = Step(it, r) BY <2>1, <4>1, <4>3
        <4>5. jt[r] = it[r] BY <4>1, <4>4
        <4>6. jt[s] = F[<<c[s], it[r]>>] BY <3>2
        <4>7. Step(jt, s) = F[<<c[s], jt[r]>>] BY <3>2
        <4> QED BY <4>5, <4>6, <4>7
      <3> QED BY <3>1, <3>2
    <2>4. n + 1 \in Nat OBVIOUS
    <2>5. Upto(jt, n + 1) BY <2>3
    <2> HIDE DEF jt, Upto
    <2> QED BY <2>2, <2>4, <2>5
  <1>5. m \in T
    <2>1. m \in Nat BY FS_CardinalityType
    <2> HIDE DEF T, m
    <2>2. 0 .. m \subseteq T BY <1>3, <1>4, <2>1, NatInduct
    <2> QED BY <2>1, <2>2
  <1>6. PICK it \in [SUBSET S -> V] : Upto(it, m) BY <1>5
  <1>7. \A s \in SUBSET S : it[s] = Step(it, s) BY <1>1, <1>6
  <1>8. it = [s \in SUBSET S |-> it[s]] OBVIOUS
  <1>9. it = FoldBody(S, b, c, F, it) BY <1>7, <1>8 DEF FoldBody
  <1> QED BY <1>9 DEF IsFold

Swaps(S, V, F) ==
  \A x, y \in S : \A v \in V : F[<<x, F[<<y, v>>]>>] = F[<<y, F[<<x, v>>]>>]

AnyLast(S, b, F, it) ==
  it[{}] = b /\ \A s \in SUBSET S : \A y \in s : it[s] = F[<<y, it[s \ {y}]>>]

(* ... and if the order of two elements does not matter, any element may   *)
(* come last.                                                              *)
LEMMA FoldAnyOrder ==
  ASSUME NEW S, IsFiniteSet(S), NEW V, NEW b, NEW c, Chooser(S, c), NEW F,
         NEW it, IsFold(S, V, b, c, F, it),
         Swaps(S, V, F)
  PROVE  AnyLast(S, b, F, it)
  <1> DEFINE T == {s \in SUBSET S : \A y \in s : it[s] = F[<<y, it[s \ {y}]>>]}
  <1>1. \A s \in SUBSET S : it[s] = IF s = {} THEN b ELSE F[<<c[s], it[s \ {c[s]}]>>]
        BY DEF FoldBody, IsFold
  <1>2. ASSUME NEW s \in SUBSET S, \A x \in s : s \ {x} \in T PROVE s \in T
    <2> SUFFICES ASSUME NEW y \in s PROVE it[s] = F[<<y, it[s \ {y}]>>] OBVIOUS
    <2> DEFINE x == c[s]
               q == (s \ {x}) \ {y}
    <2>1. x \in s /\ it[s] = F[<<x, it[s \ {x}]>>] BY <1>1 DEF Chooser
    <2>2. CASE x = y BY <2>1, <2>2
    <2>3. CASE x # y
      <3>1. it[s \ {x}] = F[<<y, it[q]>>] BY <1>2, <2>1, <2>3
      <3>2. (s \ {y}) \ {x} = q /\ q \in SUBSET S /\ it[q] \in V BY DEF IsFold
      <3>3. it[s \ {y}] = F[<<x, it[(s \ {y}) \ {x}]>>] BY <1>2, <2>1, <2>3
      <3>4. x \in S /\ y \in S BY <2>1
      <3> HIDE DEF x, q
      <3>5. F[<<x, F[<<y, it[q]>>]>>] = F[<<y, F[<<x, it[q]>>]>>]
          BY <3>2, <3>4 DEF Swaps
      <3> QED BY <2>1, <3>1, <3>2, <3>3, <3>5
    <2> QED BY <2>2, <2>3
  <1>3. \A s \in SUBSET S : (\A x \in s : s \ {x} \in T) => s \in T BY <1>2
  <1>4. SUBSET S \subseteq T
    <2>1. IsFiniteSet(S) OBVIOUS
    <2> HIDE DEF T
    <2> QED BY <1>3, <2>1, SetInduct
  <1>5. it[{}] = b
    <2>1. {} \in SUBSET S OBVIOUS
    <2> QED BY <1>1, <2>1
  <1>6. \A s \in SUBSET S : \A y \in s : it[s] = F[<<y, it[s \ {y}]>>] BY <1>4
  <1> QED BY <1>5, <1>6 DEF AnyLast
=============================================================================
