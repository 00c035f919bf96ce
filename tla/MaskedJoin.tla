----------------------------- MODULE MaskedJoin -----------------------------
(***************************************************************************)
(* The cryptography of the private join, from the rows of the sources      *)
(* through the helper to the receiver: encryption.go, prf.go, and what     *)
(* party_datasource.go, party_helper.go and party_receiver.go make of it.  *)
(*                                                                         *)
(* A source encrypts the hash of a key, and the value.  The helper raises  *)
(* the former to its secret convK, which gives the pseudonym; it seals the *)
(* value with a key made from a random point rp, and masks rp with the     *)
(* pseudonym to the power padKey.  Each row also gets a hint: the          *)
(* pseudonym to the power of its source's share of padKey.  The hints of   *)
(* one row of each source multiply to the mask.                            *)
(*                                                                         *)
(* The group is open: any one that satisfies GroupAssumption.  Every       *)
(* random draw is an action's choice, from a set for each purpose.  The    *)
(* pools, streams and permutation are in the modules of the processes.     *)
(***************************************************************************)
EXTENDS Integers, FiniteSets, FiniteSetsExt, Sequences, SequencesExt

CONSTANTS
  Point, Mul(_, _), Invert(_), Identity, Gen,  \* the group,
  Scalar, Add(_, _), Neg(_), Zero,             \* its exponents,
  ScalarExp(_, _)                              \* and its powers

CONSTANTS
  Sources,  \* the source ids, in the order of the helper and the receiver
  Inputs,   \* the rows the sources may send: sequences of [src, uid, val]
  Hash,     \* HashToPoint, for one session id
  Rand,     \* Rand[p] : what a random draw for purpose p may give
  NoRow,    \* a row that is not there
  Noise,    \* what decrypting with a wrong key gives: the receiver panics
  Unpublished  \* the receiver has not joined yet

N     == Len(Sources)
Uid   == DOMAIN Hash
Value == Point

(* The points and the exponents are commutative groups, powers are as      *)
(* usual, and no exponent but zero makes the identity of another point.    *)
ASSUME GroupAssumption ==
  /\ Identity \in Point /\ Gen \in Point /\ Zero \in Scalar
  /\ \A a, b \in Point : Mul(a, b) \in Point /\ Mul(a, b) = Mul(b, a)
  /\ \A a, b, c \in Point : Mul(Mul(a, b), c) = Mul(a, Mul(b, c))
  /\ \A a \in Point : /\ Mul(a, Identity) = a
                      /\ Invert(a) \in Point /\ Mul(a, Invert(a)) = Identity
  /\ \A s, t \in Scalar : Add(s, t) \in Scalar /\ Add(s, t) = Add(t, s)
  /\ \A s, t, u \in Scalar : Add(Add(s, t), u) = Add(s, Add(t, u))
  /\ \A s \in Scalar : /\ Add(s, Zero) = s
                       /\ Neg(s) \in Scalar /\ Add(s, Neg(s)) = Zero
  /\ \A a \in Point, s \in Scalar : ScalarExp(a, s) \in Point
  /\ \A a, b \in Point, s \in Scalar :
        ScalarExp(Mul(a, b), s) = Mul(ScalarExp(a, s), ScalarExp(b, s))
  /\ \A a \in Point, s, t \in Scalar :
        /\ ScalarExp(a, Add(s, t)) = Mul(ScalarExp(a, s), ScalarExp(a, t))
        /\ ScalarExp(ScalarExp(a, s), t) = ScalarExp(ScalarExp(a, t), s)
  /\ \A a \in Point, s \in Scalar \ {Zero} : ScalarExp(a, s) = Identity => a = Identity

(* No two keys hash to one point or to inverse points, and none to the     *)
(* identity; a hash function into a large group is believed to do that.    *)
ASSUME HashAssumption ==
  \A u, v \in Uid : /\ Hash[u] \in Point \ {Identity}
                    /\ u # v => Hash[u] # Hash[v] /\ Hash[u] # Invert(Hash[v])

Purpose == {"bsk", "esk", "convK", "share", "blind", "encrypt", "joinid", "value",
            "rp", "mask", "hint"}

ASSUME InputAssumption ==
  /\ Sources \in Seq(Range(Sources)) /\ N >= 2
  /\ \A p \in Purpose : Rand[p] \subseteq Scalar
  /\ Zero \notin Rand["convK"]
  /\ \A s \in Inputs :
        /\ s \in Seq(Range(s))
        /\ \A i \in DOMAIN s :
              s[i].src \in 1 .. N /\ s[i].uid \in Uid /\ s[i].val \in Value

VARIABLES
  in,        \* the rows of this execution
  rsk, rpk,  \* the receiver's keys: bsk/bpk for pseudonyms, esk/epk for values
  helper,    \* the helper's secrets: convK, the shares, and padKey, their sum
  enc,       \* rows on their way from a source to the helper
  conv,      \* rows the helper has converted
  out        \* what the receiver has made of them: the join, or Noise

vars == <<in, rsk, rpk, helper, enc, conv, out>>

-----------------------------------------------------------------------------
(* ElGamal encryption.  A secret key is kept negated.                      *)

BaseExp(s) == ScalarExp(Gen, s)

PKEEncrypt(pk, m, r) == [c0 |-> BaseExp(r), c1 |-> Mul(m, ScalarExp(pk, r))]
PKEDecrypt(sk, ct)   == Mul(ct.c1, ScalarExp(ct.c0, sk))

(* PKEKeyGen's secret key.  The mutant does not negate it.                 *)
NotNegated(s) == s
SecretKey(s) == Neg(s)

(* The mutant forgets the second half of the ciphertext.                   *)
ReRandHalf(pk, ct, r) == [c0 |-> Mul(ct.c0, BaseExp(r)), c1 |-> ct.c1]
ReRand(pk, ct, r) == [c0 |-> Mul(ct.c0, BaseExp(r)), c1 |-> Mul(ct.c1, ScalarExp(pk, r))]

OPRFEval(key, pk, ct, r) ==
  ReRand(pk, [c0 |-> ScalarExp(ct.c0, key), c1 |-> ScalarExp(ct.c1, key)], r)

(* GetMessageBytes of a point: its x coordinate, which it shares with its  *)
(* inverse; the two bytes it is cut by do not decide between points.       *)
XCoord(p) == {p, Invert(p)}

(* AES-CTR under a key derived from point p; the first byte of the         *)
(* plaintext is the position of the source's table.                        *)
Byte(t) == t % 256
Seal(p, src, ct) == [key |-> p, table |-> Byte(src - 1), ct |-> ct]
Opens(p, sealed) == p = sealed.key

-----------------------------------------------------------------------------
(* The receiver's view of a set of converted rows.                         *)

Pseudonym(i) == XCoord(PKEDecrypt(rsk.bsk, conv[i].Cnyme))

(* The product of the hints of rows g.                                     *)
MaskOf(g) ==
  FoldSet(LAMBDA i, m : Mul(m, PKEDecrypt(rsk.bsk, conv[i].CHint)), Identity, g)

(* The point that row i's key is made of, if g is its group.               *)
Unmasked(i, g) == Mul(PKEDecrypt(rsk.bsk, conv[i].CValKey), Invert(MaskOf(g)))

Decryptable(g) == \A i \in g : Opens(Unmasked(i, g), conv[i].CVal)

(* The source and the value inside a row that opens.  The mutant counts    *)
(* the sources from the end.                                               *)
SourceFromEnd(i) == Sources[N - conv[i].CVal.table]
SourceOf(i) == Sources[conv[i].CVal.table + 1]
ValueOf(i)  == PKEDecrypt(rsk.esk, conv[i].CVal.ct)

Groups == {{j \in DOMAIN in : Pseudonym(j) = Pseudonym(i)} : i \in DOMAIN in}

(* len(group) == len(r.sourceIDs).                                         *)
Joinable(g) == Cardinality(g) = N

Columns(g) == [c \in Range(Sources) |->
                 ValueOf(CHOOSE i \in g : SourceOf(i) = c)]

-----------------------------------------------------------------------------
(* genNonces: padKey is the sum of the sources' shares.                    *)
Sum(s) == FoldLeft(Add, Zero, s)

(* A choice of at most N shares, with repetitions, that is not one of each *)
(* source (0 stands for no share) has another sum: shares drawn from a     *)
(* large group are so, except with negligible probability.                 *)
Independent(s) ==
  \A f \in [1 .. N -> 0 .. N] :
     Sum([j \in 1 .. N |-> IF f[j] = 0 THEN Zero ELSE s[f[j]]]) = Sum(s)
        => Range(f) = 1 .. N

Init ==
  /\ in \in Inputs
  /\ \E b \in Rand["bsk"], e \in Rand["esk"] :
        /\ rsk = [bsk |-> SecretKey(b), esk |-> SecretKey(e)]
        /\ rpk = [bpk |-> BaseExp(b), epk |-> BaseExp(e)]
  /\ \E k \in Rand["convK"], s \in [1 .. N -> Rand["share"]] :
        /\ Independent(s)
        /\ helper = [convK |-> k, shares |-> s, padKey |-> Sum(s)]
  /\ enc = [i \in DOMAIN in |-> NoRow]
  /\ conv = [i \in DOMAIN in |-> NoRow]
  /\ out = Unpublished

(* ProcessRow of the row's source.                                         *)
ProcessRow(i) ==
  /\ enc[i] = NoRow /\ conv[i] = NoRow
  /\ \E r \in Rand["blind"], t \in Rand["encrypt"] :
        enc' = [enc EXCEPT ![i] = [Cuid |-> PKEEncrypt(rpk.bpk, Hash[in[i].uid], r),
                                   Cval |-> PKEEncrypt(rpk.epk, in[i].val, t)]]
  /\ UNCHANGED <<in, rsk, rpk, helper, conv, out>>

(* blindAndHint: the mask and the hint are powers of the pseudonym.  The   *)
(* mutant hints with the whole padKey.                                     *)
Blinded(joinid, rp, r) ==
  LET ct == OPRFEval(helper.padKey, rpk.bpk, joinid, r)
  IN  [ct EXCEPT !.c1 = Mul(@, rp)]

HintWithSum(joinid, src, r) == OPRFEval(helper.padKey, rpk.bpk, joinid, r)
Hint(joinid, src, r) == OPRFEval(helper.shares[src], rpk.bpk, joinid, r)

(* ConvertRow of the helper, which keeps nothing of the source's row.      *)
ConvertRow(i) ==
  /\ enc[i] # NoRow
  /\ \E r1 \in Rand["joinid"], r2 \in Rand["value"], r3 \in Rand["mask"],
        r4 \in Rand["hint"], s \in Rand["rp"] :
        LET joinid == OPRFEval(helper.convK, rpk.bpk, enc[i].Cuid, r1)
            rp     == BaseExp(s)
        IN  conv' = [conv EXCEPT ![i] =
              [Cnyme   |-> joinid,
               CVal    |-> Seal(rp, in[i].src, ReRand(rpk.epk, enc[i].Cval, r2)),
               CValKey |-> Blinded(joinid, rp, r3),
               CHint   |-> Hint(joinid, in[i].src, r4)]]
  /\ enc' = [enc EXCEPT ![i] = NoRow]
  /\ UNCHANGED <<in, rsk, rpk, helper, out>>

(* JoinTables of the receiver, when it has all rows: each group of the     *)
(* right size is decrypted, and one that is not decryptable is a panic.    *)
JoinTables ==
  /\ out = Unpublished
  /\ \A i \in DOMAIN in : conv[i] # NoRow
  /\ LET full == {g \in Groups : Joinable(g)}
     IN  out' = IF \A g \in full : Decryptable(g)
                THEN {<<g, Columns(g)>> : g \in full} ELSE Noise
  /\ UNCHANGED <<in, rsk, rpk, helper, enc, conv>>

Next == \/ \E i \in DOMAIN in : ProcessRow(i) \/ ConvertRow(i)
        \/ JoinTables

Spec == Init /\ [][Next]_vars

-----------------------------------------------------------------------------
Ciphertext == [c0 : Point, c1 : Point]
EncRow     == [Cuid : Ciphertext, Cval : Ciphertext]
EncRowWithHint ==
  [Cnyme : Ciphertext, CValKey : Ciphertext, CHint : Ciphertext,
   CVal : [key : Point, table : 0 .. 255, ct : Ciphertext]]

(* The type invariant; a row is in one place; the public keys belong to    *)
(* the secret ones, and padKey to the shares.                              *)
TypeOK ==
  /\ in \in Inputs
  /\ rsk \in [bsk : Scalar, esk : Scalar] /\ rpk \in [bpk : Point, epk : Point]
  /\ BaseExp(rsk.bsk) = Invert(rpk.bpk) /\ BaseExp(rsk.esk) = Invert(rpk.epk)
  /\ helper \in [convK : Scalar \ {Zero}, shares : [1 .. N -> Scalar], padKey : Scalar]
  /\ \A i \in DOMAIN in : /\ enc[i] \in EncRow \union {NoRow}
                          /\ conv[i] \in EncRowWithHint \union {NoRow}
                          /\ enc[i] = NoRow \/ conv[i] = NoRow

Converted == {i \in DOMAIN in : conv[i] # NoRow}

(* Whatever is drawn, and though every row is encrypted and re-randomized  *)
(* afresh, two rows have one pseudonym exactly if they have one key.       *)
SamePseudonym ==
  \A i, j \in Converted : Pseudonym(i) = Pseudonym(j) <=> in[i].uid = in[j].uid

(* The point that row i's key is made of is found with the hints of a set  *)
(* of rows of the same key exactly if the set has one row of every source: *)
(* rows that lack a source, or have one twice, stay sealed.                *)
OneOfEach(g) == Cardinality(g) = N /\ {in[i].src : i \in g} = 1 .. N

OnlyWholeGroupsOpen ==
  \A u \in Uid : \A g \in SUBSET {i \in Converted : in[i].uid = u} :
     Cardinality(g) <= N =>
        \A i \in g : Opens(Unmasked(i, g), conv[i].CVal) <=> OneOfEach(g)

(* What the receiver writes is the plain join of the rows: every key of    *)
(* which each source has a row gives one row, with the sources' values in  *)
(* their columns.  A source that was let in twice can only keep a key out, *)
(* or end the receiver.                                                    *)
PlainJoin ==
  {<<g, [c \in Range(Sources) |->
           in[CHOOSE i \in g : Sources[in[i].src] = c].val]>> :
     g \in {g \in {{i \in DOMAIN in : in[i].uid = u} : u \in Uid} : OneOfEach(g)}}

JoinIsPlain == out \notin {Unpublished, Noise} => out = PlainJoin
=============================================================================
