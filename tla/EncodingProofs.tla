--------------------------- MODULE EncodingProofs ---------------------------
(***************************************************************************)
(* Proofs about ValueEncoding, for every size of a byte and of a block,    *)
(* every value and every curve: unpad undoes pad; the bytes of a           *)
(* coordinate are those of the block it was tried for, unless the count of *)
(* the tries has reached the next byte; the blocks of a padded value       *)
(* together are the padded value; and so what the receiver writes is what  *)
(* the source read, as far as the properties of ValueEncoding promise it.  *)
(***************************************************************************)
EXTENDS ValueEncoding, DataLemmas

Bytes == Seq(0 .. Base - 1)

LEMMA Remainder == ASSUME NEW a \in Nat, NEW b \in Nat \ {0} PROVE a % b \in 0 .. b - 1
  OBVIOUS

(* What pad appends: between one and Payload bytes, each of which is their *)
(* number.                                                                 *)
LEMMA PadAppends ==
  ASSUME NEW v \in Bytes
  PROVE  \E n \in 1 .. Payload :
           /\ Pad(v) \in Bytes /\ Len(Pad(v)) = Len(v) + n
           /\ \A k \in 1 .. Len(v) : Pad(v)[k] = v[k]
           /\ \A k \in Len(v) + 1 .. Len(v) + n : Pad(v)[k] = n
  <1> DEFINE n == Payload - (Len(v) % Payload)
             pad == [k \in 1 .. n |-> n]
  <1>1. Payload \in Nat \ {0} /\ Payload <= Base - 1 /\ Base \in Nat BY EncodingAssumption
  <1>2. v \in Seq(0 .. Base - 1) /\ Len(v) \in Nat BY DEF Bytes
  <1>3. n \in 1 .. Payload BY <1>1, <1>2, Remainder
  <1>4. n \in 0 .. Base - 1 BY <1>1, <1>3
  <1> HIDE DEF n
  <1>5. pad \in Seq(0 .. Base - 1) /\ Len(pad) = n /\ \A k \in 1 .. n : pad[k] = n
        BY <1>1, <1>3, <1>4
  <1>6. Pad(v) = v \o pad BY DEF Pad, n
  <1> HIDE DEF pad
  <1>7. /\ v \o pad \in Seq(0 .. Base - 1) /\ Len(v \o pad) = Len(v) + n
        /\ \A k \in 1 .. Len(v) : (v \o pad)[k] = v[k]
        /\ \A k \in Len(v) + 1 .. Len(v) + n : (v \o pad)[k] = pad[k - Len(v)]
        BY <1>2, <1>3, <1>5
  <1>8. \A k \in Len(v) + 1 .. Len(v) + n : k - Len(v) \in 1 .. n BY <1>2, <1>3
  <1> QED BY <1>3, <1>5, <1>6, <1>7, <1>8 DEF Bytes

(* The first Len(v) bytes of anything that starts with v are v.            *)
LEMMA PrefixBack ==
  ASSUME NEW S, NEW v \in Seq(S), NEW d, \A k \in 1 .. Len(v) : d[k] = v[k]
  PROVE  SubSeq(d, 1, Len(v)) = v
  <1> DEFINE s == SubSeq(d, 1, Len(v))
  <1>1. Len(v) \in Nat OBVIOUS
  <1>2. \A k \in 1 .. Len(v) : d[k] \in S BY ElementOfSeq
  <1>3. /\ s \in Seq(S)
        /\ Len(s) = IF 1 <= Len(v) THEN Len(v) - 1 + 1 ELSE 0
        /\ \A k \in 1 .. Len(v) - 1 + 1 : s[k] = d[1 + k - 1]
        BY <1>1, <1>2, SubSeqProperties
  <1> HIDE DEF s
  <1>4. Len(s) = Len(v) BY <1>1, <1>3
  <1>5. \A k \in 1 .. Len(s) : s[k] = v[k]
    <2> TAKE k \in 1 .. Len(s)
    <2>1. k \in 1 .. Len(v) /\ k \in 1 .. Len(v) - 1 + 1 /\ 1 + k - 1 = k BY <1>1, <1>4
    <2>2. s[k] = d[k] BY <1>3, <2>1
    <2> QED BY <2>1, <2>2
  <1>6. s = v BY <1>3, <1>4, <1>5, SeqEqual
  <1> QED BY <1>6 DEF s

(* A value of any length, also one that fills its last block or looks like *)
(* padding itself, comes back from unpad as it went into pad.              *)
THEOREM UnpadUndoesPad == \A v \in Bytes : Unpad(Pad(v)) = v
  <1> SUFFICES ASSUME NEW v \in Bytes PROVE Unpad(Pad(v)) = v OBVIOUS
  <1> DEFINE d == Pad(v)
  <1>1. PICK n \in 1 .. Payload :
           /\ d \in Bytes /\ Len(d) = Len(v) + n
           /\ \A k \in 1 .. Len(v) : d[k] = v[k]
           /\ \A k \in Len(v) + 1 .. Len(v) + n : d[k] = n
        BY PadAppends
  <1> HIDE DEF d
  <1>2. Payload \in Nat /\ Len(v) \in Nat /\ n \in Nat /\ n >= 1
        /\ v \in Seq(0 .. Base - 1) /\ d \in Seq(0 .. Base - 1)
        BY <1>1, EncodingAssumption DEF Bytes
  <1>3. Len(d) \in 1 .. Len(d) /\ d # <<>> BY <1>1, <1>2
  <1>4. Last(d) = n BY <1>1, <1>2 DEF Last
  <1>5. PaddedBy(d, n) BY <1>1, <1>2 DEF PaddedBy
  <1>6. Unpad(d) = SubSeq(d, 1, Len(d) - n)
        BY <1>1, <1>2, <1>3, <1>4, <1>5 DEF Unpad
  <1>7. Len(d) - n = Len(v) BY <1>1, <1>2
  <1>8. SubSeq(d, 1, Len(v)) = v BY <1>1, <1>2, PrefixBack
  <1> QED BY <1>6, <1>7, <1>8 DEF d

-----------------------------------------------------------------------------
(* Numbers and their bytes.                                                *)
LEMMA MulNat == ASSUME NEW a \in Nat, NEW b \in Nat PROVE a * b \in Nat
  OBVIOUS

LEMMA MulMono ==
  ASSUME NEW a \in Nat, NEW b \in Nat, NEW c \in Nat, a <= b PROVE a * c <= b * c
  OBVIOUS

LEMMA MulNext ==
  ASSUME NEW a \in Nat, NEW c \in Nat PROVE (a + 1) * c = a * c + c
  OBVIOUS

LEMMA LastByte ==
  ASSUME NEW q \in Nat, NEW b \in Nat, NEW d \in 0 .. b - 1
  PROVE  (q * b + d) \div b = q /\ (q * b + d) % b = d
  <1>1. (q * b + d) \div b = q OBVIOUS
  <1>2. (q * b + d) % b = d OBVIOUS
  <1> QED BY <1>1, <1>2

LEMMA Sizes ==
  /\ Base \in Nat /\ Base > 5 /\ Payload \in Nat /\ Payload >= 1 /\ Payload <= Base - 1
  /\ MaxValLen \in Nat /\ \A v \in Values : v \in Bytes
  BY EncodingAssumption DEF Bytes

(* A range of numbers ends with its greatest.                              *)
LEMMA RangeMax ==
  ASSUME NEW j \in Nat, j >= 1 PROVE Max(1 .. j) = j
  <1>1. j \in 1 .. j /\ \A y \in 1 .. j : j >= y OBVIOUS
  <1>2. \A y \in 1 .. j : (\A z \in 1 .. j : y >= z) => y = j OBVIOUS
  <1> DEFINE s == 1 .. j
  <1>3. j \in s /\ (\A y \in s : j >= y) /\ \A y \in s : (\A z \in s : y >= z) => y = j
        BY <1>1, <1>2
  <1> HIDE DEF s
  <1>4. Max(s) = j BY <1>3 DEF Max
  <1> QED BY <1>4 DEF s

(* The numbers of the first bytes, one more each time.                     *)
Sums(b, m, P) ==
  P \in [0 .. m -> Nat] /\ P[0] = 0 /\ \A j \in 1 .. m : P[j] = P[j - 1] * Base + b[j]

LEMMA NumberIsSum ==
  ASSUME NEW m \in Nat, NEW b \in [1 .. m -> Nat]
  PROVE  \E P : Sums(b, m, P) /\ Number(b) = P[m]
  <1> DEFINE S == 1 .. m
             c == [s \in SUBSET S |-> Max(s)]
             F == [p \in S \X Nat |-> p[2] * Base + b[p[1]]]
             Body(it) == [s \in SUBSET S |->
                            IF s = {} THEN 0 ELSE it[s \ {Max(s)}] * Base + b[Max(s)]]
  <1>1. IsFiniteSet(S) BY FS_Interval
  <1>2. \A s \in SUBSET S : s # {} => Max(s) \in s
    <2> SUFFICES ASSUME NEW s \in SUBSET S, s # {} PROVE Max(s) \in s OBVIOUS
    <2>1. \E x0 \in s : \A y \in s : x0 >= y BY Greatest
    <2> QED BY <2>1 DEF Max
  <1>3. Chooser(S, c) BY <1>2 DEF Chooser
  <1>4. F \in [S \X Nat -> Nat]
    <2>1. \A p \in S \X Nat : p[2] * Base + b[p[1]] \in Nat
      <3> SUFFICES ASSUME NEW p \in S \X Nat PROVE p[2] * Base + b[p[1]] \in Nat OBVIOUS
      <3>1. p[2] \in Nat /\ b[p[1]] \in Nat /\ Base \in Nat BY Sizes
      <3>2. p[2] * Base \in Nat BY <3>1, MulNat
      <3> QED BY <3>1, <3>2
    <2> QED BY <2>1
  <1>5. PICK it : IsFold(S, Nat, 0, c, F, it)
    <2>1. 0 \in Nat OBVIOUS
    <2> HIDE DEF S, c, F
    <2> QED BY <1>1, <1>3, <1>4, <2>1, FoldExists
  <1>6. it = Body(it)
    <2>1. /\ it \in [SUBSET S -> Nat]
          /\ \A s \in SUBSET S : it[s] = IF s = {} THEN 0 ELSE F[<<c[s], it[s \ {c[s]}]>>]
      <3> HIDE DEF S, c, F
      <3> QED BY <1>5 DEF IsFold, FoldBody
    <2>2. ASSUME NEW s \in SUBSET S, s # {}
          PROVE  F[<<c[s], it[s \ {c[s]}]>>] = it[s \ {Max(s)}] * Base + b[Max(s)]
      <3>1. c[s] = Max(s) /\ Max(s) \in S BY <1>2, <2>2
      <3>2. it[s \ {Max(s)}] \in Nat BY <2>1
      <3> QED BY <3>1, <3>2
    <2>3. \A s \in SUBSET S : it[s] = IF s = {} THEN 0
                                      ELSE it[s \ {Max(s)}] * Base + b[Max(s)]
          BY <2>1, <2>2
    <2>4. it = [s \in SUBSET S |-> it[s]] BY <2>1
    <2> QED BY <2>3, <2>4
  <1>7. PICK f : f = Body(f) /\ Number(b) = f[S]
    <2>1. DOMAIN b = S OBVIOUS
    <2> HIDE DEF S
    <2> QED BY <1>6, <2>1 DEF Number, FoldLeft, MapThenFoldSet
  <1>8. /\ f[{}] = 0
        /\ \A s \in SUBSET S : s # {} => f[s] = f[s \ {Max(s)}] * Base + b[Max(s)]
        BY <1>7
  <1> DEFINE P == [j \in 0 .. m |-> f[1 .. j]]
             T == {j \in Nat : j <= m => P[j] \in Nat}
  <1>9. P[0] = 0
    <2>1. 1 .. 0 = {} /\ 0 \in 0 .. m OBVIOUS
    <2>2. P[0] = f[1 .. 0] BY <2>1
    <2> QED BY <1>8, <2>1, <2>2
  <1>10. ASSUME NEW j \in 1 .. m PROVE P[j] = P[j - 1] * Base + b[j]
    <2> DEFINE s == 1 .. j
    <2>1. j \in Nat /\ j >= 1 /\ j <= m OBVIOUS
    <2>2. Max(s) = j BY <2>1, RangeMax
    <2>3. s \in SUBSET S /\ s # {}
      <3>1. j \in s /\ \A y \in s : y \in S BY <2>1
      <3> HIDE DEF s, S
      <3> QED BY <3>1
    <2>4. s \ {j} = 1 .. j - 1 OBVIOUS
    <2>5. f[s] = f[1 .. j - 1] * Base + b[j]
      <3> HIDE DEF s
      <3> QED BY <1>8, <2>2, <2>3, <2>4
    <2>6. P[j] = f[s] /\ P[j - 1] = f[1 .. j - 1] OBVIOUS
    <2> HIDE DEF P, s
    <2> QED BY <2>5, <2>6
  <1> HIDE DEF P
  <1>11. \A j \in 0 .. m : P[j] \in Nat
    <2>1. 0 \in T BY <1>9
    <2>2. ASSUME NEW j \in Nat, j < m, j \in T PROVE j + 1 \in T
      <3> DEFINE k == j + 1
      <3>1. k \in 1 .. m /\ k - 1 = j BY <2>2
      <3> HIDE DEF k
      <3>2. P[k] = P[j] * Base + b[k] BY <1>10, <3>1
      <3>3. P[j] \in Nat /\ b[k] \in Nat /\ Base \in Nat BY <2>2, <3>1, Sizes
      <3>4. P[j] * Base \in Nat BY <3>3, MulNat
      <3>5. P[k] \in Nat BY <3>2, <3>3, <3>4
      <3> QED BY <3>5 DEF k
    <2> HIDE DEF T
    <2>3. 0 .. m \subseteq T BY <2>1, <2>2, NatInduct
    <2> QED BY <2>3 DEF T
  <1>12. Number(b) = P[m]
    <2>1. m \in 0 .. m OBVIOUS
    <2> QED BY <1>7, <2>1 DEF P
  <1>13. P \in [0 .. m -> Nat] BY <1>11 DEF P
  <1>14. Sums(b, m, P) BY <1>9, <1>10, <1>13 DEF Sums
  <1> QED BY <1>12, <1>14

(* The coordinates tried for a block: a 4, the bytes of the block, and a   *)
(* last byte that counts the tries from 2.                                 *)
IsBlock(block) == block \in [1 .. Payload -> 0 .. Base - 1]

Leads(block, P) ==
  /\ P \in [0 .. Payload + 1 -> Nat] /\ P[1] = 4
  /\ \A k \in 1 .. Payload : P[k + 1] = P[k] * Base + block[k]

Tried(block) == <<4>> \o block \o <<2>>

LEMMA TryBytes ==
  ASSUME NEW block, IsBlock(block)
  PROVE  /\ Tried(block) \in [1 .. Payload + 2 -> Nat]
         /\ Tried(block)[1] = 4 /\ Tried(block)[Payload + 2] = 2
         /\ \A k \in 1 .. Payload : Tried(block)[k + 1] = block[k]
  <1> DEFINE h == <<4>> \o block
             t == <<2>>
             l == Payload + 1
             b == Tried(block)
  <1>1. Payload \in Nat /\ Base \in Nat /\ Base > 5 BY Sizes
  <1>2. block \in Seq(0 .. Base - 1) /\ Len(block) = Payload BY <1>1 DEF IsBlock
  <1>3. \A k \in 1 .. Payload : block[k] \in Nat BY <1>1 DEF IsBlock
  <1>4. /\ h \in Seq(Nat) /\ Len(h) = Payload + 1 /\ h[1] = 4
        /\ \A k \in 1 .. Payload : h[k + 1] = block[k]
    <2>1. <<4>> \in Seq(Nat) /\ Len(<<4>>) = 1 /\ <<4>>[1] = 4 OBVIOUS
    <2>2. block \in Seq(Nat)
      <3>1. block \in [1 .. Payload -> Nat] BY <1>1, <1>3 DEF IsBlock
      <3> QED BY <1>1, <3>1
    <2>3. /\ h \in Seq(Nat) /\ Len(h) = 1 + Payload
          /\ \A k \in 1 .. 1 + Payload : h[k] = IF k <= 1 THEN <<4>>[k] ELSE block[k - 1]
          BY <1>2, <2>1, <2>2, ConcatProperties
    <2> HIDE DEF h
    <2>4. 1 \in 1 .. 1 + Payload BY <1>1
    <2>5. h[1] = 4 BY <2>1, <2>3, <2>4
    <2>6. ASSUME NEW k \in 1 .. Payload PROVE h[k + 1] = block[k]
      <3>1. k + 1 \in 1 .. 1 + Payload /\ ~(k + 1 <= 1) /\ k + 1 - 1 = k BY <1>1
      <3> QED BY <2>3, <3>1
    <2> QED BY <1>1, <2>3, <2>5, <2>6
  <1>5. t \in Seq(Nat) /\ Len(t) = 1 /\ t[1] = 2 OBVIOUS
  <1>6. b = h \o t BY DEF Tried
  <1>7. l \in Nat /\ l = Payload + 1 /\ Payload + 2 = l + 1 BY <1>1
  <1> HIDE DEF h, t, l, b
  <1>8. /\ b \in Seq(Nat) /\ Len(b) = l + 1
        /\ \A k \in 1 .. l + 1 : b[k] = IF k <= l THEN h[k] ELSE t[k - l]
    <2>1. h \in Seq(Nat) /\ t \in Seq(Nat) BY <1>4, <1>5
    <2>2. /\ h \o t \in Seq(Nat) /\ Len(h \o t) = Len(h) + Len(t)
          /\ \A k \in 1 .. Len(h) + Len(t) :
                (h \o t)[k] = IF k <= Len(h) THEN h[k] ELSE t[k - Len(h)]
          BY <2>1, ConcatProperties
    <2>3. Len(h) = l /\ Len(t) = 1 BY <1>4, <1>5, <1>7
    <2> QED BY <1>6, <2>2, <2>3
  <1>9. b \in [1 .. l + 1 -> Nat] BY <1>8
  <1>10. b[1] = 4
    <2>1. 1 \in 1 .. l + 1 /\ 1 <= l BY <1>1, <1>7
    <2> QED BY <1>4, <1>8, <2>1
  <1>11. b[l + 1] = 2
    <2> DEFINE z == l + 1
    <2>1. z \in 1 .. l + 1 /\ ~(z <= l) /\ z - l = 1 BY <1>7
    <2> HIDE DEF z
    <2>2. b[z] = IF z <= l THEN h[z] ELSE t[z - l] BY <1>8, <2>1
    <2>3. b[z] = 2 BY <1>5, <2>1, <2>2
    <2> QED BY <2>3 DEF z
  <1>12. ASSUME NEW k \in 1 .. Payload PROVE b[k + 1] = block[k]
    <2>1. k + 1 \in 1 .. l + 1 /\ k + 1 <= l BY <1>1, <1>7
    <2> QED BY <1>4, <1>8, <2>1
  <1> QED BY <1>7, <1>9, <1>10, <1>11, <1>12 DEF b

LEMMA TryLeads ==
  ASSUME NEW block, IsBlock(block)
  PROVE  \E P : Leads(block, P) /\ FirstTry(block) = P[Payload + 1] * Base + 2
  <1> DEFINE b == Tried(block)
             m == Payload + 2
  <1>1. Payload \in Nat /\ Payload >= 1 /\ Base \in Nat BY Sizes
  <1>2. /\ b \in [1 .. m -> Nat] /\ b[1] = 4 /\ b[m] = 2
        /\ \A k \in 1 .. Payload : b[k + 1] = block[k]
        BY TryBytes
  <1>3. m \in Nat /\ 1 \in 1 .. m /\ m \in 1 .. m /\ m - 1 = Payload + 1
        /\ \A k \in 1 .. Payload : k + 1 \in 1 .. m /\ k + 1 - 1 = k
        BY <1>1
  <1>4. FirstTry(block) = Number(b) BY DEF FirstTry, Tried
  <1> HIDE DEF b, m
  <1>5. PICK P : Sums(b, m, P) /\ Number(b) = P[m] BY <1>2, <1>3, NumberIsSum
  <1>6. P \in [0 .. m -> Nat] /\ P[0] = 0 /\ \A j \in 1 .. m : P[j] = P[j - 1] * Base + b[j]
        BY <1>5 DEF Sums
  <1>7. P[1] = 4
    <2>1. P[1] = P[1 - 1] * Base + b[1] BY <1>3, <1>6
    <2>2. 1 - 1 = 0 /\ 0 * Base + 4 = 4 BY <1>1
    <2> QED BY <1>2, <1>6, <2>1, <2>2
  <1>8. ASSUME NEW k \in 1 .. Payload PROVE P[k + 1] = P[k] * Base + block[k]
        BY <1>2, <1>3, <1>6
  <1>9. Number(b) = P[Payload + 1] * Base + 2 BY <1>2, <1>3, <1>5, <1>6
  <1> DEFINE Q == [j \in 0 .. Payload + 1 |-> P[j]]
  <1>10. \A j \in 0 .. Payload + 1 : Q[j] = P[j] /\ P[j] \in Nat
    <2>1. \A j \in 0 .. Payload + 1 : j \in 0 .. m BY <1>1 DEF m
    <2> QED BY <1>6, <2>1
  <1>11. Q \in [0 .. Payload + 1 -> Nat] BY <1>10
  <1>12. /\ 1 \in 0 .. Payload + 1 /\ Payload + 1 \in 0 .. Payload + 1
         /\ \A k \in 1 .. Payload : k \in 0 .. Payload + 1 /\ k + 1 \in 0 .. Payload + 1
         BY <1>1
  <1> HIDE DEF Q
  <1>13. Leads(block, Q) BY <1>7, <1>8, <1>10, <1>11, <1>12 DEF Leads
  <1>14. FirstTry(block) = Q[Payload + 1] * Base + 2 BY <1>4, <1>9, <1>10, <1>12
  <1> QED BY <1>13, <1>14

(* GetMessageBytes takes off one byte after the other.                     *)
Shifts(n, f) ==
  f \in [0 .. Payload -> Nat] /\ f[0] = n /\ \A k \in 1 .. Payload : f[k] = f[k - 1] \div Base

LEMMA ShiftBytes ==
  ASSUME NEW n \in Nat
  PROVE  \E f : /\ Shifts(n, f)
               /\ MessageBytes(n) = [k \in 1 .. Payload |-> f[Payload - k + 1] % Base]
  <1>1. Payload \in Nat /\ Payload >= 1 /\ Base \in Nat /\ Base > 5 BY Sizes
  <1> DEFINE Fix(f) == f = [k \in 0 .. Payload |-> IF k = 0 THEN n ELSE f[k - 1] \div Base]
  <1>2. \E f : Fix(f)
    <2> DEFINE F == [p \in (1 .. Payload) \X Nat |-> p[2] \div Base]
    <2>1. F \in [(1 .. Payload) \X Nat -> Nat] BY <1>1
    <2>2. \A k \in 1 .. Payload : \A v \in Nat : F[<<k, v>>] = v \div Base OBVIOUS
    <2> HIDE DEF F
    <2>3. PICK f : IsIter(Payload, Nat, n, F, f) BY <1>1, <2>1, IterExists
    <2>4. f \in [0 .. Payload -> Nat] /\ f[0] = n BY <2>3 DEF IsIter
    <2>5. \A k \in 1 .. Payload : f[k] = F[<<k, f[k - 1]>>] BY <2>3 DEF IsIter
    <2>6. ASSUME NEW k \in 1 .. Payload PROVE f[k] = f[k - 1] \div Base
      <3>1. k - 1 \in 0 .. Payload BY <1>1
      <3>2. f[k - 1] \in Nat BY <2>4, <3>1
      <3> QED BY <2>2, <2>5, <3>2
    <2>7. \A k \in 0 .. Payload : f[k] = IF k = 0 THEN n ELSE f[k - 1] \div Base
          BY <1>1, <2>4, <2>6
    <2>8. f = [k \in 0 .. Payload |-> f[k]] BY <2>4
    <2>9. Fix(f) BY <2>7, <2>8
    <2> QED BY <2>9
  <1>3. PICK f : Fix(f) /\ MessageBytes(n) = [k \in 1 .. Payload |-> f[Payload - k + 1] % Base]
        BY <1>2 DEF MessageBytes
  <1>4. f[0] = n /\ \A k \in 1 .. Payload : f[k] = f[k - 1] \div Base BY <1>1, <1>3
  <1>5. DOMAIN f = 0 .. Payload /\ f = [k \in 0 .. Payload |-> f[k]] BY <1>3
  <1> HIDE DEF Fix
  <1> DEFINE T == {k \in Nat : k <= Payload => f[k] \in Nat}
  <1>6. 0 \in T BY <1>4
  <1>7. ASSUME NEW k \in Nat, k < Payload, k \in T PROVE k + 1 \in T
    <2> DEFINE j == k + 1
               v == f[k]
    <2>1. v \in Nat BY <1>1, <1>7
    <2>2. j \in 1 .. Payload /\ j - 1 = k /\ j \in Nat BY <1>1, <1>7
    <2> HIDE DEF j
    <2>3. f[j] = v \div Base BY <1>4, <2>2
    <2> HIDE DEF v
    <2>4. v \div Base \in Nat BY <1>1, <2>1
    <2>5. f[j] \in Nat BY <2>3, <2>4
    <2> QED BY <2>2, <2>5 DEF j
  <1>8. \A k \in 0 .. Payload : f[k] \in Nat
    <2> HIDE DEF T
    <2>1. 0 .. Payload \subseteq T BY <1>1, <1>6, <1>7, NatInduct
    <2>2. \A k \in 0 .. Payload : k \in T /\ k <= Payload BY <1>1, <2>1
    <2> QED BY <2>2 DEF T
  <1>9. f \in [0 .. Payload -> Nat] BY <1>5, <1>8
  <1>10. Shifts(n, f) BY <1>4, <1>9 DEF Shifts
  <1> QED BY <1>3, <1>10

(* Unless it was the last try, GetMessageBytes gives the block back: the   *)
(* count of the tries has not reached the next byte.                       *)
LEMMA BytesBack ==
  ASSUME NEW block, IsBlock(block), NEW t \in 1 .. Base - 2
  PROVE  MessageBytes(FirstTry(block) + t - 1) = block
  <1> DEFINE n == FirstTry(block) + t - 1
  <1>1. Payload \in Nat /\ Payload >= 1 /\ Base \in Nat /\ Base > 5 BY Sizes
  <1>2. PICK P : Leads(block, P) /\ FirstTry(block) = P[Payload + 1] * Base + 2 BY TryLeads
  <1>3. P \in [0 .. Payload + 1 -> Nat] BY <1>2 DEF Leads
  <1>4. ASSUME NEW k \in 1 .. Payload
        PROVE  P[k + 1] \div Base = P[k] /\ P[k + 1] % Base = block[k]
    <2> DEFINE q == P[k]
               d == block[k]
    <2>1. P[k + 1] = q * Base + d BY <1>2 DEF Leads
    <2>2. k \in 0 .. Payload + 1 BY <1>1
    <2>3. q \in Nat /\ d \in 0 .. Base - 1 BY <1>3, <2>2 DEF IsBlock
    <2> HIDE DEF q, d
    <2>4. (q * Base + d) \div Base = q /\ (q * Base + d) % Base = d BY <1>1, <2>3, LastByte
    <2>5. P[k + 1] \div Base = q /\ P[k + 1] % Base = d BY <2>1, <2>4
    <2> QED BY <2>5 DEF q, d
  <1>5. n \div Base = P[Payload + 1] /\ n \in Nat
    <2> DEFINE q == P[Payload + 1]
    <2>1. Payload + 1 \in 0 .. Payload + 1 BY <1>1
    <2>2. q \in Nat BY <1>3, <2>1
    <2>3. FirstTry(block) = q * Base + 2 BY <1>2
    <2> HIDE DEF q
    <2>4. q * Base \in Nat BY <1>1, <2>2, MulNat
    <2>5. n = q * Base + (t + 1) BY <1>1, <2>3, <2>4
    <2>6. t + 1 \in 0 .. Base - 1 BY <1>1
    <2>7. (q * Base + (t + 1)) \div Base = q BY <1>1, <2>2, <2>6, LastByte
    <2>8. n \div Base = q BY <2>5, <2>7
    <2>9. n \in Nat BY <2>4, <2>5
    <2> QED BY <2>8, <2>9 DEF q
  <1> HIDE DEF n
  <1>6. PICK f : /\ Shifts(n, f)
                 /\ MessageBytes(n) = [k \in 1 .. Payload |-> f[Payload - k + 1] % Base]
        BY <1>5, ShiftBytes
  <1>7. f[0] = n /\ \A k \in 1 .. Payload : f[k] = f[k - 1] \div Base BY <1>6 DEF Shifts
  <1> DEFINE T == {k \in Nat : k < Payload => f[k + 1] = P[Payload + 1 - k]}
  <1>11. 0 \in T
    <2>1. 1 \in 1 .. Payload /\ 1 - 1 = 0 /\ Payload + 1 - 0 = Payload + 1 /\ 0 + 1 = 1
          BY <1>1
    <2>2. f[1] = f[0] \div Base BY <1>7, <2>1
    <2>3. f[0 + 1] = P[Payload + 1 - 0] BY <1>5, <1>7, <2>1, <2>2
    <2> QED BY <2>3
  <1>12. ASSUME NEW k \in Nat, k < Payload, k \in T PROVE k + 1 \in T
    <2> SUFFICES ASSUME k + 1 < Payload
                 PROVE  f[k + 1 + 1] = P[Payload + 1 - (k + 1)]
        OBVIOUS
    <2> DEFINE j == Payload - k
    <2>1. /\ j \in 1 .. Payload /\ j + 1 = Payload + 1 - k /\ j = Payload + 1 - (k + 1)
          /\ k + 2 \in 1 .. Payload /\ k + 2 - 1 = k + 1 /\ k + 1 + 1 = k + 2
          BY <1>1
    <2> HIDE DEF j
    <2>2. f[k + 2] = f[k + 1] \div Base BY <1>7, <2>1
    <2>3. f[k + 1] = P[j + 1] BY <1>12, <2>1
    <2>4. P[j + 1] \div Base = P[j] BY <1>4, <2>1
    <2> QED BY <2>1, <2>2, <2>3, <2>4
  <1>13. \A k \in 0 .. Payload - 1 : f[k + 1] = P[Payload + 1 - k]
    <2> HIDE DEF T
    <2>1. 0 .. Payload \subseteq T BY <1>1, <1>11, <1>12, NatInduct
    <2>2. \A k \in 0 .. Payload - 1 : k \in 0 .. Payload /\ k < Payload BY <1>1
    <2> QED BY <2>1, <2>2 DEF T
  <1>14. ASSUME NEW k \in 1 .. Payload PROVE f[Payload - k + 1] % Base = block[k]
    <2> DEFINE l == Payload - k
    <2>1. l \in 0 .. Payload - 1 /\ Payload + 1 - l = k + 1 BY <1>1
    <2> HIDE DEF l
    <2>2. f[l + 1] = P[k + 1] BY <1>13, <2>1
    <2>3. P[k + 1] % Base = block[k] BY <1>4
    <2> QED BY <2>2, <2>3 DEF l
  <1>15. MessageBytes(n) = [k \in 1 .. Payload |-> block[k]] BY <1>6, <1>14
  <1>16. block = [k \in 1 .. Payload |-> block[k]] BY DEF IsBlock
  <1>17. MessageBytes(n) = block BY <1>15, <1>16
  <1> QED BY <1>17 DEF n

(* GetMessageBytes gives bytes, whatever the coordinate.                   *)
LEMMA BytesAre ==
  ASSUME NEW n \in Nat PROVE IsBlock(MessageBytes(n))
  <1>1. Payload \in Nat /\ Payload >= 1 /\ Base \in Nat \ {0} BY Sizes
  <1>2. PICK f : /\ Shifts(n, f)
                 /\ MessageBytes(n) = [k \in 1 .. Payload |-> f[Payload - k + 1] % Base]
        BY ShiftBytes
  <1>3. ASSUME NEW k \in 1 .. Payload PROVE f[Payload - k + 1] % Base \in 0 .. Base - 1
    <2> DEFINE v == f[Payload - k + 1]
    <2>1. Payload - k + 1 \in 0 .. Payload BY <1>1
    <2>2. v \in Nat BY <1>2, <2>1 DEF Shifts
    <2> HIDE DEF v
    <2>3. v % Base \in 0 .. Base - 1 BY <1>1, <2>2, Remainder
    <2> QED BY <2>3 DEF v
  <1> QED BY <1>2, <1>3 DEF IsBlock

(* Every coordinate tried has as many bytes as the first one.              *)
LEMMA TryFits ==
  ASSUME NEW block, IsBlock(block), NEW t \in 1 .. Base - 1
  PROVE  FirstTry(block) + t - 1 \in 0 .. Largest
  <1> DEFINE m == Payload + 2
             b == [k \in 1 .. m |-> Base - 1]
  <1>1. Payload \in Nat /\ Payload >= 1 /\ Base \in Nat /\ Base > 5 BY Sizes
  <1>2. PICK P : Leads(block, P) /\ FirstTry(block) = P[Payload + 1] * Base + 2 BY TryLeads
  <1>3. /\ P \in [0 .. Payload + 1 -> Nat] /\ P[1] = 4
        /\ \A k \in 1 .. Payload : P[k + 1] = P[k] * Base + block[k]
        BY <1>2 DEF Leads
  <1>4. m \in Nat /\ b \in [1 .. m -> Nat] /\ \A k \in 1 .. m : b[k] = Base - 1 BY <1>1
  <1>5. Largest = Number(b) BY DEF Largest
  <1> HIDE DEF b
  <1>6. PICK M : Sums(b, m, M) /\ Number(b) = M[m] BY <1>4, NumberIsSum
  <1>7. M \in [0 .. m -> Nat] /\ M[0] = 0 /\ \A j \in 1 .. m : M[j] = M[j - 1] * Base + (Base - 1)
        BY <1>4, <1>6 DEF Sums
  <1> DEFINE T == {k \in Nat : k <= Payload => P[k + 1] + 1 <= M[k + 1]}
  <1>8. 0 \in T
    <2>1. 1 \in 1 .. m /\ 1 - 1 = 0 /\ 0 * Base + (Base - 1) = Base - 1 /\ 0 + 1 = 1 BY <1>1
    <2>2. M[1] = Base - 1 BY <1>7, <2>1
    <2>3. P[0 + 1] + 1 <= M[0 + 1] BY <1>1, <1>3, <2>1, <2>2
    <2> QED BY <2>3
  <1>9. ASSUME NEW k \in Nat, k < Payload, k \in T PROVE k + 1 \in T
    <2> DEFINE j == k + 1
               p == P[j]
               q == M[j]
    <2>1. /\ j \in 1 .. Payload /\ j \in 0 .. Payload + 1 /\ j \in 0 .. m
          /\ j + 1 \in 1 .. m /\ j + 1 - 1 = j
          BY <1>1, <1>9
    <2>2. p + 1 <= q
      <3>1. P[k + 1] + 1 <= M[k + 1] BY <1>1, <1>9
      <3> QED BY <3>1
    <2> HIDE DEF j
    <2>3. p \in Nat /\ q \in Nat /\ block[j] \in 0 .. Base - 1
          BY <1>3, <1>7, <2>1 DEF IsBlock
    <2>4. P[j + 1] = p * Base + block[j] BY <1>3, <2>1
    <2>5. M[j + 1] = q * Base + (Base - 1)
      <3>1. M[j + 1] = M[j + 1 - 1] * Base + (Base - 1) BY <1>7, <2>1
      <3> QED BY <2>1, <3>1
    <2> HIDE DEF p, q
    <2>6. (p + 1) * Base <= q * Base /\ (p + 1) * Base = p * Base + Base
      <3>1. p + 1 \in Nat BY <2>3
      <3> QED BY <1>1, <2>2, <2>3, <3>1, MulMono, MulNext
    <2>7. p * Base \in Nat /\ q * Base \in Nat BY <1>1, <2>3, MulNat
    <2>8. P[j + 1] + 1 <= M[j + 1] BY <1>1, <2>3, <2>4, <2>5, <2>6, <2>7
    <2> QED BY <2>8 DEF j
  <1>10. P[Payload + 1] + 1 <= M[Payload + 1]
    <2> HIDE DEF T
    <2>1. 0 .. Payload \subseteq T BY <1>1, <1>8, <1>9, NatInduct
    <2>2. Payload \in T BY <1>1, <2>1
    <2> QED BY <2>2 DEF T
  <1> DEFINE p == P[Payload + 1]
             q == M[Payload + 1]
  <1>11. p \in Nat /\ q \in Nat
    <2>1. Payload + 1 \in 0 .. Payload + 1 /\ Payload + 1 \in 0 .. m BY <1>1
    <2> QED BY <1>3, <1>7, <2>1
  <1>12. Largest = q * Base + (Base - 1)
    <2>1. m \in 1 .. m /\ m - 1 = Payload + 1 BY <1>1
    <2>2. M[m] = M[m - 1] * Base + (Base - 1) BY <1>7, <2>1
    <2> QED BY <1>5, <1>6, <2>1, <2>2
  <1>13. FirstTry(block) = p * Base + 2 /\ p + 1 <= q BY <1>2, <1>10
  <1> HIDE DEF p, q
  <1>14. (p + 1) * Base <= q * Base /\ (p + 1) * Base = p * Base + Base
    <2>1. p + 1 \in Nat BY <1>11
    <2> QED BY <1>1, <1>11, <1>13, <2>1, MulMono, MulNext
  <1>15. p * Base \in Nat /\ q * Base \in Nat BY <1>1, <1>11, MulNat
  <1> QED BY <1>1, <1>12, <1>13, <1>14, <1>15

-----------------------------------------------------------------------------
(* Blocks.  A sequence of parts put together grows part by part.           *)
Grows(S, m, q, f) ==
  /\ f \in [1 .. m -> Seq(S)] /\ f[1] = q[1]
  /\ \A k \in 1 .. m : k > 1 => f[k] = f[k - 1] \o q[k]

LEMMA FlattenGrows ==
  ASSUME NEW S, NEW m \in Nat, m >= 1, NEW q \in [1 .. m -> Seq(S)]
  PROVE  \E f : Grows(S, m, q, f) /\ FlattenSeq(q) = f[m]
  <1> DEFINE Fix(n, f) == f = [k \in 1 .. n |-> IF k = 1 THEN q[k] ELSE f[k - 1] \o q[k]]
  <1>1. 1 \in 1 .. m /\ m \in 1 .. m /\ m - 1 \in Nat OBVIOUS
  <1>2. \E f : Fix(m, f)
    <2> DEFINE V == Seq(S)
               D == 1 .. m - 1
               F == [p \in D \X V |-> p[2] \o q[p[1] + 1]]
               a == q[1]
               l == m - 1
    <2>1. F \in [D \X V -> V]
      <3>1. \A p \in D \X V : p[1] + 1 \in 1 .. m BY <1>1
      <3> QED BY <3>1
    <2>2. \A k \in D : \A v \in V : F[<<k, v>>] = v \o q[k + 1] OBVIOUS
    <2>3. a \in V /\ l \in Nat /\ D = 1 .. l BY <1>1
    <2> HIDE DEF F, V, D, a, l
    <2>4. PICK g : IsIter(l, V, a, F, g) BY <2>1, <2>3, IterExists
    <2>5. g \in [0 .. l -> V] /\ g[0] = a /\ \A k \in 1 .. l : g[k] = F[<<k, g[k - 1]>>]
          BY <2>4 DEF IsIter
    <2> DEFINE f == [k \in 1 .. m |-> g[k - 1]]
    <2>6. f[1] = q[1] BY <1>1, <2>5 DEF a
    <2>7. ASSUME NEW k \in 1 .. m, k # 1 PROVE f[k] = f[k - 1] \o q[k]
      <3> DEFINE j == k - 1
      <3>1. /\ j \in D /\ j \in 1 .. l /\ j - 1 \in 0 .. l /\ j + 1 = k /\ j \in 1 .. m
            /\ f[k] = g[j] /\ f[k - 1] = g[j - 1]
            BY <2>7 DEF D, l
      <3> HIDE DEF j
      <3>2. g[j - 1] \in V BY <2>5, <3>1
      <3>3. g[j] = F[<<j, g[j - 1]>>] BY <2>5, <3>1
      <3>4. g[j] = g[j - 1] \o q[j + 1] BY <2>2, <3>1, <3>2, <3>3
      <3> QED BY <3>1, <3>4
    <2>8. f = [k \in 1 .. m |-> f[k]] OBVIOUS
    <2> HIDE DEF f
    <2>9. \A k \in 1 .. m : f[k] = IF k = 1 THEN q[k] ELSE f[k - 1] \o q[k] BY <2>6, <2>7
    <2>10. Fix(m, f) BY <2>8, <2>9
    <2> QED BY <2>10
  <1>3. Len(q) = m OBVIOUS
  <1>4. PICK f : Fix(m, f) /\ FlattenSeq(q) = f[m]
    <2>1. \E f : Fix(Len(q), f)
      <3> HIDE DEF Fix
      <3> QED BY <1>2, <1>3
    <2>2. Len(q) # 0 BY <1>3
    <2>3. \E f : Fix(Len(q), f) /\ FlattenSeq(q) = f[Len(q)]
      <3> DEFINE c == CHOOSE f : Fix(Len(q), f)
      <3>1. Fix(Len(q), c) BY <2>1, Zenon
      <3>2. FlattenSeq(q) = c[Len(q)] BY <2>2, Zenon DEF FlattenSeq
      <3> HIDE DEF c, Fix
      <3> QED BY <3>1, <3>2
    <2> HIDE DEF Fix
    <2> QED BY <1>3, <2>3
  <1>5. f[1] = q[1] /\ \A k \in 1 .. m : k > 1 => f[k] = f[k - 1] \o q[k]
    <2>1. \A k \in 1 .. m : f[k] = IF k = 1 THEN q[k] ELSE f[k - 1] \o q[k] BY <1>4
    <2>2. \A k \in 1 .. m : k > 1 => k # 1 OBVIOUS
    <2> QED BY <1>1, <2>1, <2>2
  <1>6. f = [k \in 1 .. m |-> f[k]] BY <1>4
  <1> HIDE DEF Fix
  <1> DEFINE T == {k \in Nat : k < m => f[k + 1] \in Seq(S)}
  <1>7. 0 \in T
    <2>1. f[1] \in Seq(S) BY <1>1, <1>5
    <2> QED BY <2>1
  <1>8. ASSUME NEW k \in Nat, k < m, k \in T PROVE k + 1 \in T
    <2> SUFFICES ASSUME k + 1 < m PROVE f[k + 1 + 1] \in Seq(S) OBVIOUS
    <2> DEFINE j == k + 2
    <2>1. j \in 1 .. m /\ j > 1 /\ j - 1 = k + 1 /\ k + 1 + 1 = j OBVIOUS
    <2>2. f[k + 1] \in Seq(S) BY <1>8
    <2> HIDE DEF j
    <2>3. f[j] = f[j - 1] \o q[j] BY <1>5, <2>1
    <2>4. f[j - 1] \in Seq(S) /\ q[j] \in Seq(S) BY <2>1, <2>2
    <2>5. f[j] \in Seq(S) BY <2>3, <2>4
    <2> QED BY <2>1, <2>5
  <1>9. \A k \in 1 .. m : f[k] \in Seq(S)
    <2> HIDE DEF T
    <2>1. 0 .. m \subseteq T BY <1>7, <1>8, NatInduct
    <2>2. ASSUME NEW k \in 1 .. m PROVE f[k] \in Seq(S)
      <3> DEFINE j == k - 1
      <3>1. j \in 0 .. m /\ j < m /\ j + 1 = k OBVIOUS
      <3> HIDE DEF j
      <3>2. f[j + 1] \in Seq(S) BY <2>1, <3>1 DEF T
      <3> QED BY <3>1, <3>2
    <2> QED BY <2>2
  <1>10. Grows(S, m, q, f) BY <1>5, <1>6, <1>9 DEF Grows
  <1> QED BY <1>4, <1>10

(* A sequence cut into pieces of one size comes together again.            *)
Piece(d, p, k) == SubSeq(d, (k - 1) * p + 1, k * p)

LEMMA PiecesJoin ==
  ASSUME NEW S, NEW d \in Seq(S), NEW n \in Nat, n >= 1, NEW p \in Nat, p >= 1,
         Len(d) = n * p
  PROVE  FlattenSeq([k \in 1 .. n |-> Piece(d, p, k)]) = d
  <1> DEFINE q == [k \in 1 .. n |-> Piece(d, p, k)]
  <1>1. ASSUME NEW k \in 1 .. n PROVE Piece(d, p, k) \in Seq(S)
    <2> DEFINE a == (k - 1) * p
               b == k * p
               l == n * p
    <2>1. a \in Nat /\ b \in Nat /\ b <= l /\ l = Len(d) BY MulNat, MulMono
    <2> HIDE DEF a, b, l
    <2>2. \A j \in a + 1 .. b : j \in 1 .. Len(d) BY <2>1
    <2>3. \A j \in a + 1 .. b : d[j] \in S BY <2>2, ElementOfSeq
    <2>4. a + 1 \in Int /\ b \in Int BY <2>1
    <2>5. SubSeq(d, a + 1, b) \in Seq(S) BY <2>3, <2>4, SubSeqProperties
    <2> QED BY <2>5 DEF Piece, a, b
  <1>2. q \in [1 .. n -> Seq(S)] BY <1>1
  <1>3. \A k \in 1 .. n : q[k] = Piece(d, p, k) OBVIOUS
  <1> HIDE DEF q
  <1>4. PICK f : Grows(S, n, q, f) /\ FlattenSeq(q) = f[n] BY <1>2, FlattenGrows
  <1>5. f[1] = q[1] /\ \A k \in 1 .. n : k > 1 => f[k] = f[k - 1] \o q[k] BY <1>4 DEF Grows
  <1> DEFINE T == {k \in Nat : k < n => f[k + 1] = SubSeq(d, 1, (k + 1) * p)}
  <1>6. 0 \in T
    <2>1. 1 \in 1 .. n /\ (1 - 1) * p + 1 = 1 /\ 1 * p = p /\ (0 + 1) * p = p /\ 0 + 1 = 1
          OBVIOUS
    <2>2. f[1] = SubSeq(d, 1, p) BY <1>3, <1>5, <2>1 DEF Piece
    <2>3. f[0 + 1] = SubSeq(d, 1, (0 + 1) * p) BY <2>1, <2>2
    <2> QED BY <2>3
  <1>7. ASSUME NEW k \in Nat, k < n, k \in T PROVE k + 1 \in T
    <2> SUFFICES ASSUME k + 1 < n PROVE f[k + 1 + 1] = SubSeq(d, 1, (k + 1 + 1) * p) OBVIOUS
    <2> DEFINE j == k + 1
               i1 == k + 2
               a == j * p
               b == i1 * p
    <2>1. f[k + 1] = SubSeq(d, 1, (k + 1) * p) BY <1>7
    <2>2. j \in Nat /\ j >= 1 /\ i1 \in 1 .. n /\ i1 > 1 /\ i1 - 1 = j /\ i1 = k + 1 + 1
          /\ i1 = j + 1
          OBVIOUS
    <2>3. f[j] = SubSeq(d, 1, a) BY <2>1
    <2> HIDE DEF j, i1
    <2>4. a \in Nat /\ b \in Nat /\ b = a + p /\ p <= a /\ b <= Len(d)
      <3>1. a \in Nat /\ b \in Nat BY <2>2, MulNat
      <3>2. b = a + p BY <2>2, MulNext
      <3>3. b <= n * p BY <2>2, MulMono
      <3>4. 1 * p <= a /\ 1 * p = p BY <2>2, MulMono
      <3> QED BY <3>1, <3>2, <3>3, <3>4
    <2>5. q[i1] = SubSeq(d, a + 1, b) BY <1>3, <2>2 DEF Piece
    <2>6. f[i1] = f[j] \o q[i1] BY <1>5, <2>2
    <2> HIDE DEF a, b
    <2>7. SubSeq(d, 1, a) \o SubSeq(d, a + 1, b) = SubSeq(d, 1, b)
      <3>1. 1 \in 1 .. Len(d) + 1 /\ a \in 1 - 1 .. Len(d) /\ b \in a .. Len(d) BY <2>4
      <3> QED BY <3>1, ConcatAdjacentSubSeq
    <2>8. f[i1] = SubSeq(d, 1, b) BY <2>3, <2>5, <2>6, <2>7
    <2> QED BY <2>2, <2>8 DEF b
  <1>8. f[n] = SubSeq(d, 1, n * p)
    <2> HIDE DEF T
    <2>1. 0 .. n \subseteq T BY <1>6, <1>7, NatInduct
    <2> DEFINE j == n - 1
    <2>2. j \in 0 .. n /\ j < n /\ j + 1 = n OBVIOUS
    <2> HIDE DEF j
    <2>3. f[j + 1] = SubSeq(d, 1, (j + 1) * p) BY <2>1, <2>2 DEF T
    <2> QED BY <2>2, <2>3
  <1>9. SubSeq(d, 1, n * p) = d BY SubSeqFull
  <1> QED BY <1>4, <1>8, <1>9 DEF q

(* A padded value is a number of whole blocks: one if it is short.         *)
Chunks(v) == Len(Pad(v)) \div Payload
Chunk(v, k) == Piece(Pad(v), Payload, k)

LEMMA ModDiv ==
  ASSUME NEW a \in Nat, NEW b \in Nat \ {0}
  PROVE  a \div b \in Nat /\ a = (a \div b) * b + (a % b)
  OBVIOUS

LEMMA PadIsBlocks ==
  ASSUME NEW v \in Bytes
  PROVE  /\ Pad(v) \in Bytes /\ Chunks(v) \in Nat /\ Chunks(v) >= 1
         /\ Len(Pad(v)) = Chunks(v) * Payload
         /\ Len(v) < Payload => Chunks(v) = 1
  <1> DEFINE l == Len(v)
             r == l % Payload
             q == l \div Payload
             n == Payload - r
             pad == [k \in 1 .. n |-> n]
  <1>1. Payload \in Nat \ {0} /\ Payload \in Nat /\ Payload >= 1 /\ Base \in Nat BY Sizes
  <1>2. l \in Nat /\ v \in Bytes BY DEF Bytes
  <1>3. q \in Nat /\ r \in 0 .. Payload - 1 /\ l = q * Payload + r
    <2> HIDE DEF l
    <2> QED BY <1>1, <1>2, ModDiv, Remainder
  <1>4. l < Payload => q = 0
    <2> SUFFICES ASSUME l < Payload PROVE q = 0 OBVIOUS
    <2> HIDE DEF l
    <2>1. l \in 0 .. Payload - 1 /\ 0 * Payload + l = l BY <1>1, <1>2
    <2>2. (0 * Payload + l) \div Payload = 0 BY <1>1, <2>1, LastByte
    <2> QED BY <2>1, <2>2
  <1>5. Pad(v) \in Bytes BY PadAppends
  <1>6. Len(Pad(v)) = l + n
    <2>1. Pad(v) = v \o pad BY DEF Pad
    <2> HIDE DEF r
    <2>2. n \in Nat BY <1>1, <1>3
    <2> HIDE DEF n
    <2>3. pad \in Seq(Nat) /\ Len(pad) = n BY <2>2
    <2>4. v \in Seq(Nat)
      <3>1. \A k \in 1 .. Len(v) : v[k] \in Nat BY <1>1 DEF Bytes
      <3>2. v \in [1 .. Len(v) -> Nat] BY <1>2, <3>1 DEF Bytes
      <3> QED BY <1>2, <3>2
    <2> HIDE DEF pad
    <2>5. Len(v \o pad) = Len(v) + Len(pad) BY <2>3, <2>4, ConcatProperties
    <2> QED BY <2>1, <2>3, <2>5
  <1>7. Len(Pad(v)) = (q + 1) * Payload
    <2> HIDE DEF l, q, r
    <2>1. q * Payload \in Nat /\ (q + 1) * Payload = q * Payload + Payload
          BY <1>1, <1>3, MulNat, MulNext
    <2>2. l + n = q * Payload + Payload BY <1>1, <1>3, <2>1
    <2> QED BY <1>6, <2>1, <2>2
  <1>8. Chunks(v) = q + 1
    <2> DEFINE c == q + 1
    <2> HIDE DEF q
    <2>1. c \in Nat /\ 0 \in 0 .. Payload - 1 BY <1>1, <1>3
    <2> HIDE DEF c
    <2>2. (c * Payload + 0) \div Payload = c BY <1>1, <2>1, LastByte
    <2>3. c * Payload + 0 = c * Payload BY <1>1, <2>1, MulNat
    <2>4. Len(Pad(v)) = c * Payload BY <1>7 DEF c
    <2>5. Chunks(v) = c BY <2>2, <2>3, <2>4 DEF Chunks
    <2> QED BY <2>5 DEF c
  <1> HIDE DEF q
  <1>9. Chunks(v) \in Nat /\ Chunks(v) >= 1 BY <1>3, <1>8
  <1>10. Len(v) < Payload => Chunks(v) = 1 BY <1>4, <1>8
  <1> QED BY <1>5, <1>7, <1>8, <1>9, <1>10

LEMMA ChunkIsBlock ==
  ASSUME NEW v \in Bytes, NEW k \in 1 .. Chunks(v) PROVE IsBlock(Chunk(v, k))
  <1> DEFINE d == Pad(v)
             n == Chunks(v)
             a == (k - 1) * Payload
             b == k * Payload
             l == n * Payload
             S == 0 .. Base - 1
             c == SubSeq(d, a + 1, b)
  <1>1. Payload \in Nat /\ Payload >= 1 /\ Base \in Nat BY Sizes
  <1>2. d \in Seq(S) /\ n \in Nat /\ Len(d) = l BY PadIsBlocks DEF Bytes
  <1> HIDE DEF d, n, S
  <1>3. k \in 1 .. n BY DEF n
  <1>4. a \in Nat /\ b \in Nat /\ b <= l /\ b = a + Payload
    <2> DEFINE j == k - 1
    <2>1. j \in Nat /\ k \in Nat /\ k = j + 1 /\ k <= n BY <1>2, <1>3
    <2> HIDE DEF j
    <2>2. j * Payload \in Nat /\ b \in Nat /\ b <= l BY <1>1, <1>2, <2>1, MulNat, MulMono
    <2>3. b = j * Payload + Payload BY <1>1, <2>1, MulNext
    <2> QED BY <2>2, <2>3 DEF j
  <1>5. Chunk(v, k) = c BY DEF Chunk, Piece, d
  <1> HIDE DEF a, b, l
  <1>6. a + 1 \in Int /\ b \in Int /\ a + 1 <= b /\ b - (a + 1) + 1 = Payload BY <1>1, <1>4
  <1>7. \A j \in a + 1 .. b : d[j] \in S
    <2>1. \A j \in a + 1 .. b : j \in 1 .. Len(d) BY <1>2, <1>4
    <2> QED BY <1>2, <2>1, ElementOfSeq
  <1>8. c \in Seq(S) /\ Len(c) = Payload BY <1>6, <1>7, SubSeqProperties
  <1> HIDE DEF c
  <1>9. c \in [1 .. Payload -> S] BY <1>8
  <1> QED BY <1>5, <1>9 DEF IsBlock, S

LEMMA ChunksJoin ==
  ASSUME NEW v \in Bytes
  PROVE  FlattenSeq([k \in 1 .. Chunks(v) |-> Chunk(v, k)]) = Pad(v)
  <1> DEFINE d == Pad(v)
             n == Chunks(v)
  <1>1. Payload \in Nat /\ Payload >= 1 BY Sizes
  <1>2. d \in Seq(0 .. Base - 1) /\ n \in Nat /\ n >= 1 /\ Len(d) = n * Payload
        BY PadIsBlocks DEF Bytes
  <1>3. [k \in 1 .. n |-> Chunk(v, k)] = [k \in 1 .. n |-> Piece(d, Payload, k)] BY DEF Chunk
  <1> HIDE DEF d, n
  <1>4. FlattenSeq([k \in 1 .. n |-> Piece(d, Payload, k)]) = d BY <1>1, <1>2, PiecesJoin
  <1>5. FlattenSeq([k \in 1 .. n |-> Chunk(v, k)]) = d BY <1>3, <1>4
  <1> QED BY <1>5 DEF d, n

(* What the receiver puts together are bytes, and so is what it unpads.    *)
LEMMA JoinedBytes ==
  ASSUME NEW s \in Seq(0 .. Largest), Len(s) >= 1, Largest \in Nat
  PROVE  JoinedBlocks(s) \in Bytes
  <1> DEFINE n == Len(s)
             S == 0 .. Base - 1
             q == [k \in 1 .. n |-> MessageBytes(s[k])]
  <1>1. n \in Nat /\ n >= 1 /\ Payload \in Nat /\ Base \in Nat BY Sizes
  <1>2. ASSUME NEW k \in 1 .. n PROVE MessageBytes(s[k]) \in Seq(S)
    <2>1. s[k] \in 0 .. Largest BY ElementOfSeq
    <2>2. IsBlock(MessageBytes(s[k])) BY <2>1, BytesAre
    <2>3. MessageBytes(s[k]) \in [1 .. Payload -> S] BY <2>2 DEF IsBlock
    <2> QED BY <1>1, <2>3
  <1>3. q \in [1 .. n -> Seq(S)] BY <1>2
  <1>4. JoinedBlocks(s) = FlattenSeq(q) BY DEF JoinedBlocks
  <1> HIDE DEF q, n, S
  <1>5. PICK f : Grows(S, n, q, f) /\ FlattenSeq(q) = f[n] BY <1>1, <1>3, FlattenGrows
  <1>6. f \in [1 .. n -> Seq(S)] /\ n \in 1 .. n BY <1>1, <1>5 DEF Grows
  <1>7. f[n] \in Seq(S) BY <1>6
  <1> QED BY <1>4, <1>5, <1>7 DEF Bytes, S

LEMMA UnpadType ==
  ASSUME NEW d \in Bytes PROVE Unpad(d) \in Bytes \union {None}
  <1> DEFINE n == IF d = <<>> THEN 0 ELSE Last(d)
             S == 0 .. Base - 1
             e == SubSeq(d, 1, Len(d) - n)
  <1>1. Base \in Nat /\ d \in Seq(S) /\ Len(d) \in Nat BY Sizes DEF Bytes
  <1>2. Unpad(d) = None \/ (n <= Len(d) /\ Unpad(d) = e)
    <2>1. n \in Nat
      <3>1. CASE d = <<>> BY <3>1
      <3>2. CASE d # <<>>
        <4>1. Len(d) \in 1 .. Len(d) BY <1>1, <3>2
        <4>2. Last(d) \in S BY <1>1, <4>1 DEF Last
        <4> QED BY <1>1, <3>2, <4>2
      <3> QED BY <3>1, <3>2
    <2> DEFINE bad == n = 0 \/ n > Len(d) \/ ~PaddedBy(d, n)
    <2>2. Unpad(d) = IF bad THEN None ELSE e BY DEF Unpad
    <2>3. ~bad => n <= Len(d)
      <3> HIDE DEF n
      <3> QED BY <1>1, <2>1
    <2> HIDE DEF bad, e, n
    <2> QED BY <2>2, <2>3
  <1>3. n \in Nat
    <2>1. CASE d = <<>> BY <2>1
    <2>2. CASE d # <<>>
      <3>1. Len(d) \in 1 .. Len(d) BY <1>1, <2>2
      <3>2. Last(d) \in S BY <1>1, <3>1 DEF Last
      <3> QED BY <1>1, <2>2, <3>2
    <2> QED BY <2>1, <2>2
  <1>4. e \in Seq(S)
    <2> DEFINE l == Len(d) - n
    <2> HIDE DEF n
    <2>1. l \in Int /\ 1 \in Int BY <1>1, <1>3
    <2>2. \A j \in 1 .. l : j \in 1 .. Len(d) BY <1>1, <1>3
    <2>3. \A j \in 1 .. l : d[j] \in S BY <1>1, <2>2, ElementOfSeq
    <2> HIDE DEF l
    <2>4. SubSeq(d, 1, l) \in Seq(S) BY <2>1, <2>3, SubSeqProperties
    <2> QED BY <2>4 DEF l
  <1> QED BY <1>2, <1>4 DEF Bytes

-----------------------------------------------------------------------------
(* The inductive invariant: a coordinate tried holds the block it is tried *)
(* for and the number of the try, and so does every ciphertext.            *)
Tries(block, t) == {FirstTry(block) + u - 1 : u \in 1 .. t}

Embedded(v, s, t) == \A k \in 1 .. Len(s) : s[k] \in Tries(Chunk(v, k), t)

(* The values whose way back the properties promise.                       *)
Safe == (Len(val) < Payload \/ path = "local") /\ tries < Base - 1

IInv ==
  /\ TypeOK
  /\ pc = "read" => cts = <<>>
  /\ pc = "embed" => /\ i >= 1 /\ Len(cts) < Chunks(val)
                     /\ x = FirstTry(Chunk(val, Len(cts) + 1)) + i - 1
  /\ pc = "encrypted" => Len(cts) = Chunks(val)
  /\ Embedded(val, cts, tries)
  /\ Safe => pc # "panic" /\ (pc = "written" => out = val)

LEMMA LargestIsNat == Largest \in Nat
  <1> DEFINE m == Payload + 2
             b == [k \in 1 .. m |-> Base - 1]
  <1>1. m \in Nat /\ Base - 1 \in Nat BY Sizes
  <1>2. b \in [1 .. m -> Nat] /\ Largest = Number(b) BY <1>1 DEF Largest
  <1> HIDE DEF b, m
  <1>3. PICK P : Sums(b, m, P) /\ Number(b) = P[m] BY <1>1, <1>2, NumberIsSum
  <1> QED BY <1>1, <1>2, <1>3 DEF Sums

(* A try of a block of the value fits, and gives the block back unless it  *)
(* is the last.                                                            *)
LEMMA TryIsNumber ==
  ASSUME NEW v \in Bytes, NEW k \in 1 .. Chunks(v), NEW t \in 1 .. Base - 1
  PROVE  /\ FirstTry(Chunk(v, k)) + t - 1 \in 0 .. Largest
         /\ t < Base - 1 => MessageBytes(FirstTry(Chunk(v, k)) + t - 1) = Chunk(v, k)
  <1> DEFINE block == Chunk(v, k)
  <1>1. IsBlock(block) BY ChunkIsBlock
  <1> HIDE DEF block
  <1>2. FirstTry(block) + t - 1 \in 0 .. Largest BY <1>1, TryFits
  <1>3. ASSUME t < Base - 1 PROVE MessageBytes(FirstTry(block) + t - 1) = block
    <2>1. t \in 1 .. Base - 2 BY <1>3, Sizes
    <2> QED BY <1>1, <2>1, BytesBack
  <1> QED BY <1>2, <1>3 DEF block

(* All ciphertexts of a value together give it back.                       *)
LEMMA AllBack ==
  ASSUME NEW v \in Bytes, NEW s \in Seq(0 .. Largest), Len(s) = Chunks(v),
         NEW t \in 0 .. Base - 1, t < Base - 1, Embedded(v, s, t)
  PROVE  Unpad(JoinedBlocks(s)) = v
  <1> DEFINE n == Chunks(v)
  <1>1. Base \in Nat /\ n \in Nat BY Sizes, PadIsBlocks
  <1>2. ASSUME NEW k \in 1 .. n PROVE MessageBytes(s[k]) = Chunk(v, k)
    <2>1. PICK u \in 1 .. t : s[k] = FirstTry(Chunk(v, k)) + u - 1 BY <1>2 DEF Embedded, Tries
    <2>2. u \in 1 .. Base - 1 /\ u < Base - 1 BY <1>1
    <2> QED BY <2>1, <2>2, TryIsNumber
  <1>3. [k \in 1 .. n |-> MessageBytes(s[k])] = [k \in 1 .. n |-> Chunk(v, k)] BY <1>2
  <1>4. JoinedBlocks(s) = FlattenSeq([k \in 1 .. n |-> MessageBytes(s[k])]) BY DEF JoinedBlocks
  <1>5. FlattenSeq([k \in 1 .. n |-> Chunk(v, k)]) = Pad(v) BY ChunksJoin
  <1>6. JoinedBlocks(s) = Pad(v) BY <1>3, <1>4, <1>5
  <1> QED BY <1>6, UnpadUndoesPad

(* One more ciphertext, at try u.                                          *)
LEMMA OneMoreEmbedded ==
  ASSUME NEW v \in Bytes, NEW s \in Seq(0 .. Largest), NEW t \in Nat, Embedded(v, s, t),
         NEW u \in Nat, u >= 1, NEW c \in 0 .. Largest,
         c = FirstTry(Chunk(v, Len(s) + 1)) + u - 1, NEW w \in Nat, u <= w, t <= w
  PROVE  Embedded(v, Append(s, c), w)
  <1> DEFINE a == Append(s, c)
             l == Len(s)
  <1>1. /\ l \in Nat /\ Len(a) = l + 1 /\ a[l + 1] = c
        /\ \A k \in 1 .. l : a[k] = s[k]
        OBVIOUS
  <1>2. \A k \in 1 .. l : s[k] \in Tries(Chunk(v, k), t) BY DEF Embedded
  <1>3. c \in Tries(Chunk(v, l + 1), w)
    <2>1. u \in 1 .. w OBVIOUS
    <2> QED BY <2>1 DEF Tries
  <1>4. \A block : Tries(block, t) \subseteq Tries(block, w)
    <2>1. \A z \in 1 .. t : z \in 1 .. w OBVIOUS
    <2> QED BY <2>1 DEF Tries
  <1> HIDE DEF a, l
  <1>5. ASSUME NEW k \in 1 .. Len(a) PROVE a[k] \in Tries(Chunk(v, k), w)
    <2>1. k \in 1 .. l \/ k = l + 1 BY <1>1
    <2>2. CASE k \in 1 .. l BY <1>1, <1>2, <1>4, <2>2
    <2>3. CASE k = l + 1 BY <1>1, <1>3, <2>3
    <2> QED BY <2>1, <2>2, <2>3
  <1>6. Embedded(v, a, w) BY <1>5 DEF Embedded
  <1> QED BY <1>6 DEF a

LEMMA Constants ==
  /\ Base \in Nat /\ Base > 5 /\ Largest \in Nat /\ None \notin Bytes
  /\ \A v \in Values : v \in Bytes /\ Chunks(v) \in Nat /\ Chunks(v) >= 1
                       /\ (Len(v) < Payload => Chunks(v) = 1)
  <1>1. \A v \in Values : v \in Bytes BY Sizes
  <1>2. None \notin Bytes BY EncodingAssumption DEF Bytes
  <1> QED BY <1>1, <1>2, Sizes, LargestIsNat, PadIsBlocks

LEMMA Start == Init => IInv
  <1> SUFFICES ASSUME Init PROVE IInv OBVIOUS
  <1> USE Constants DEF Init
  <1>1. TypeOK BY DEF TypeOK
  <1>2. Embedded(val, cts, tries) BY DEF Embedded
  <1> QED BY <1>1, <1>2 DEF IInv

LEMMA Step == IInv /\ [Next]_vars => IInv'
  <1> SUFFICES ASSUME IInv, [Next]_vars PROVE IInv' OBVIOUS
  <1>1. /\ val \in Values /\ path \in Paths
        /\ x \in 0 .. Largest /\ i \in 0 .. Base - 1
        /\ cts \in Seq(0 .. Largest) /\ Len(cts) \in Nat
        /\ tries \in 0 .. Base - 1 /\ out \in Bytes \union {None}
        BY DEF IInv, TypeOK, Bytes
  <1>2. /\ pc = "read" => cts = <<>>
        /\ pc = "embed" => /\ i >= 1 /\ Len(cts) < Chunks(val)
                           /\ x = FirstTry(Chunk(val, Len(cts) + 1)) + i - 1
        /\ pc = "encrypted" => Len(cts) = Chunks(val)
        /\ Embedded(val, cts, tries)
        /\ Safe => pc # "panic" /\ (pc = "written" => out = val)
        BY DEF IInv
  <1>3. \A k : Block(k) = Chunk(val, k) BY DEF Block, Chunk, Piece
  <1>4. NumBlocks = Chunks(val) BY DEF NumBlocks, Chunks
  <1>5. ASSUME NEW k \in 1 .. Chunks(val)
        PROVE  FirstTry(Chunk(val, k)) \in 0 .. Largest
    <2>1. 1 \in 1 .. Base - 1 /\ val \in Bytes BY <1>1, Constants
    <2>2. FirstTry(Chunk(val, k)) + 1 - 1 \in 0 .. Largest BY <2>1, TryIsNumber
    <2> DEFINE n == FirstTry(Chunk(val, k))
    <2>3. n \in Nat
      <3>1. IsBlock(Chunk(val, k)) BY <2>1, ChunkIsBlock
      <3>2. PICK P : Leads(Chunk(val, k), P) /\ n = P[Payload + 1] * Base + 2
            BY <3>1, TryLeads
      <3> DEFINE q == P[Payload + 1]
      <3>3. Payload + 1 \in 0 .. Payload + 1 BY Sizes
      <3>4. q \in Nat BY <3>2, <3>3 DEF Leads
      <3>5. n = q * Base + 2 BY <3>2
      <3> HIDE DEF q, n
      <3>6. q * Base \in Nat BY <3>4, Constants, MulNat
      <3> QED BY <3>5, <3>6
    <2>4. n + 1 - 1 \in 0 .. Largest BY <2>2
    <2> HIDE DEF n
    <2>5. n \in 0 .. Largest BY <2>3, <2>4
    <2> QED BY <2>5 DEF n
  <1>6. CASE Refuse
    <2> USE <1>6 DEF Refuse
    <2>1. TypeOK' BY <1>1 DEF TypeOK, Bytes
    <2>2. Embedded(val, cts, tries)' BY <1>2
    <2> QED BY <2>1, <2>2 DEF IInv, Safe
  <1>7. CASE Accept
    <2> USE <1>7 DEF Accept
    <2>1. 1 \in 1 .. Chunks(val) /\ Len(cts) = 0 /\ 0 < Chunks(val) BY <1>1, <1>2, Constants
    <2> DEFINE n == FirstTry(Chunk(val, 1))
    <2>2. n \in 0 .. Largest BY <1>5, <2>1
    <2>3. x' = n /\ i' = 1 BY <1>3
    <2>4. TypeOK'
      <3> HIDE DEF n
      <3> QED BY <1>1, <2>2, <2>3, Constants DEF TypeOK, Bytes
    <2>5. Embedded(val, cts, tries)' BY <1>2
    <2>6. x' = FirstTry(Chunk(val', Len(cts') + 1)) + i' - 1
      <3>1. Len(cts') + 1 = 1 /\ val' = val BY <2>1
      <3>2. FirstTry(Chunk(val', Len(cts') + 1)) = n BY <3>1
      <3> HIDE DEF n
      <3> QED BY <2>2, <2>3, <3>2
    <2>7. i' >= 1 /\ Len(cts') < Chunks(val') BY <2>1, <2>3
    <2> QED BY <2>4, <2>5, <2>6, <2>7 DEF IInv, Safe
  <1>8. CASE OnCurve
    <2> USE <1>8 DEF OnCurve
    <2> DEFINE l == Len(cts)
               c == Append(cts, x)
               n == FirstTry(Chunk(val, l + 2))
    <2>1. /\ pc = "embed" /\ i >= 1 /\ l < Chunks(val) /\ i \in 1 .. Base - 1
          /\ x = FirstTry(Chunk(val, l + 1)) + i - 1 /\ Chunks(val) \in Nat
          BY <1>1, <1>2, Constants
    <2>2. c \in Seq(0 .. Largest) /\ Len(c) = l + 1 /\ cts' = c BY <1>1
    <2>3. tries' \in 0 .. Base - 1 /\ i <= tries' /\ tries <= tries' BY <1>1, <2>1
    <2>4. Embedded(val, c, tries')
      <3> DEFINE w == tries'
      <3>1. tries \in Nat /\ i \in Nat /\ w \in Nat /\ i <= w /\ tries <= w /\ val \in Bytes
            BY <1>1, <2>3, Constants
      <3> HIDE <1>8 DEF OnCurve, w
      <3>2. Embedded(val, Append(cts, x), w) BY <1>1, <1>2, <2>1, <3>1, OneMoreEmbedded
      <3> QED BY <3>2 DEF w
    <2>5. Embedded(val, cts, tries)' BY <2>2, <2>4
    <2>6. CASE Len(c) = Chunks(val)
      <3>1. pc' = "encrypted" /\ UNCHANGED <<val, path, x, i, out>> BY <1>4, <2>2, <2>6
      <3>2. TypeOK' BY <1>1, <2>2, <2>3, <3>1 DEF TypeOK, Bytes
      <3>3. Len(cts') = Chunks(val') BY <2>2, <2>6, <3>1
      <3> QED BY <2>5, <3>1, <3>2, <3>3 DEF IInv, Safe
    <2>7. CASE Len(c) # Chunks(val)
      <3>1. /\ x' = FirstTry(Chunk(val, Len(c) + 1)) /\ i' = 1 /\ pc' = "embed"
            /\ UNCHANGED <<val, path, out>>
            BY <1>3, <1>4, <2>1, <2>2, <2>7
      <3>2. l + 2 \in 1 .. Chunks(val) /\ Len(c) + 1 = l + 2 /\ Len(c) < Chunks(val)
            BY <1>1, <2>1, <2>2, <2>7
      <3>3. n \in 0 .. Largest BY <1>5, <3>2
      <3>4. x' = n BY <3>1, <3>2
      <3>5. TypeOK'
        <4> HIDE DEF n, c
        <4> QED BY <1>1, <2>2, <2>3, <3>1, <3>3, <3>4, Constants DEF TypeOK, Bytes
      <3>6. x' = FirstTry(Chunk(val', Len(cts') + 1)) + i' - 1
        <4>1. FirstTry(Chunk(val', Len(cts') + 1)) = n BY <2>2, <3>1, <3>2
        <4> HIDE DEF n
        <4> QED BY <3>1, <3>3, <3>4, <4>1
      <3>7. i' >= 1 /\ Len(cts') < Chunks(val') BY <2>2, <3>1, <3>2
      <3> QED BY <2>5, <3>1, <3>5, <3>6, <3>7 DEF IInv, Safe
    <2> QED BY <2>6, <2>7
  <1>9. CASE OffCurve
    <2> USE <1>9 DEF OffCurve, LastTry
    <2> DEFINE n == FirstTry(Chunk(val, Len(cts) + 1))
    <2>1. /\ pc = "embed" /\ i >= 1 /\ Len(cts) < Chunks(val) /\ i + 1 \in 1 .. Base - 1
          /\ x = n + i - 1 /\ Len(cts) + 1 \in 1 .. Chunks(val) /\ val \in Bytes
          BY <1>1, <1>2, Constants
    <2>2. n + (i + 1) - 1 \in 0 .. Largest BY <2>1, TryIsNumber
    <2>3. n \in 0 .. Largest BY <1>5, <2>1
    <2>4. x' = n + i' - 1 /\ x' \in 0 .. Largest /\ i' \in 0 .. Base - 1 /\ i' >= 1
      <3> HIDE DEF n
      <3> QED BY <1>1, <2>1, <2>2, <2>3, Constants
    <2>5. TypeOK' BY <1>1, <2>4 DEF TypeOK, Bytes
    <2>6. Embedded(val, cts, tries)' BY <1>2
    <2>7. x' = FirstTry(Chunk(val', Len(cts') + 1)) + i' - 1 BY <2>4
    <2>8. Len(cts') < Chunks(val') BY <2>1
    <2> QED BY <2>1, <2>4, <2>5, <2>6, <2>7, <2>8 DEF IInv, Safe
  <1>10. CASE NoPoint
    <2> USE <1>10 DEF NoPoint
    <2>1. TypeOK' BY <1>1 DEF TypeOK, Bytes
    <2>2. Embedded(val, cts, tries)' BY <1>2
    <2> QED BY <2>1, <2>2 DEF IInv, Safe
  <1>11. CASE Decrypt
    <2> USE <1>11 DEF Decrypt
    <2> DEFINE s == OnWire(cts)
               r == Unpad(JoinedBlocks(s))
    <2>1. pc = "encrypted" /\ Len(cts) = Chunks(val) /\ Chunks(val) >= 1 /\ val \in Bytes
          BY <1>1, <1>2, Constants
    <2>2. s \in Seq(0 .. Largest) /\ Len(s) >= 1 /\ (path = "local" \/ Len(cts) = 1 => s = cts)
      <3>1. CASE path = "network"
        <4> DEFINE h == Head(cts)
        <4>1. cts # <<>> /\ h = cts[1] /\ 1 \in 1 .. Len(cts) BY <1>1, <2>1
        <4>2. h \in 0 .. Largest BY <1>1, <4>1, ElementOfSeq
        <4>3. s = <<h>> BY <3>1 DEF OnWire
        <4>4. path # "local" BY <3>1
        <4>5. Len(cts) = 1 => s = cts
          <5> SUFFICES ASSUME Len(cts) = 1 PROVE <<h>> = cts BY <4>3
          <5>1. <<h>> \in Seq(0 .. Largest) /\ Len(<<h>>) = 1 /\ <<h>>[1] = cts[1]
                BY <4>1, <4>2
          <5> HIDE DEF h
          <5>2. \A k \in 1 .. Len(<<h>>) : <<h>>[k] = cts[k] BY <5>1
          <5> QED BY <1>1, <5>1, <5>2, SeqEqual
        <4> HIDE DEF s, h
        <4> QED BY <4>2, <4>3, <4>4, <4>5
      <3>2. CASE path # "network"
        <4>1. s = cts BY <3>2 DEF OnWire
        <4> QED BY <1>1, <2>1, <4>1
      <3> QED BY <3>1, <3>2
    <2> HIDE DEF s
    <2>3. r \in Bytes \union {None}
      <3>1. JoinedBlocks(s) \in Bytes BY <2>2, Constants, JoinedBytes
      <3> QED BY <3>1, UnpadType
    <2>4. ASSUME Safe PROVE r = val
      <3>1. path = "local" \/ Len(cts) = 1 BY <1>1, <2>1, <2>4, Constants DEF Safe
      <3>2. s = cts BY <2>2, <3>1
      <3>3. tries < Base - 1 BY <2>4 DEF Safe
      <3>4. Unpad(JoinedBlocks(cts)) = val BY <1>1, <1>2, <2>1, <3>3, AllBack
      <3> QED BY <3>2, <3>4
    <2>5. out' = r /\ pc' = IF r = None THEN "panic" ELSE "written" BY DEF s
    <2> HIDE DEF r
    <2>6. TypeOK' BY <1>1, <2>3, <2>5 DEF TypeOK, Bytes
    <2>7. Embedded(val, cts, tries)' BY <1>2
    <2>8. Safe' => pc' # "panic" /\ (pc' = "written" => out' = val')
      <3>1. Safe' => Safe BY DEF Safe
      <3>2. val # None BY <2>1, Constants
      <3> QED BY <2>4, <2>5, <3>1, <3>2
    <2>9. pc' \notin {"read", "embed", "encrypted"} BY <2>5
    <2> QED BY <2>6, <2>7, <2>8, <2>9 DEF IInv
  <1>12. CASE UNCHANGED vars
    <2> USE <1>12 DEF vars
    <2>1. TypeOK' BY <1>1 DEF IInv, TypeOK
    <2> QED BY <2>1, <1>2 DEF IInv, Safe
  <1> QED BY <1>6, <1>7, <1>8, <1>9, <1>10, <1>11, <1>12 DEF Next

LEMMA Inductive == Spec => []IInv
  BY Start, Step, PTL DEF Spec

(* Every variable of the encoding keeps its type: every coordinate tried   *)
(* by NewMessageFromBytes fits in the bytes that hold it, and no counter   *)
(* reaches the next byte, for every value, block size and curve.           *)
THEOREM Typed == Spec => []TypeOK
  <1>1. IInv => TypeOK BY DEF IInv
  <1> QED BY <1>1, Inductive, PTL

(* A value shorter than a block arrives as it was sent, through the        *)
(* network too, unless a block took the very last try.                     *)
THEOREM ShortSurvives == Spec => []ShortValueSurvives
  <1>1. IInv => ShortValueSurvives BY DEF IInv, Safe, ShortValueSurvives
  <1> QED BY <1>1, Inductive, PTL

(* Within one process a value of any length comes back: its blocks stay    *)
(* together and in order, and the padding is taken off again.              *)
THEOREM AnySurvives == Spec => []AnyLengthSurvives
  <1>1. IInv => AnyLengthSurvives BY DEF IInv, Safe, AnyLengthSurvives
  <1> QED BY <1>1, Inductive, PTL
=============================================================================
