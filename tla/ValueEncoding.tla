--------------------------- MODULE ValueEncoding ---------------------------
(***************************************************************************)
(* The way of one value from a source's CSV file to the receiver's output: *)
(* the length check of the source (cmd/source), the padding to blocks, the *)
(* embedding of each block in a curve point (encryption.go), the message   *)
(* on the wire (api/messages.go), and the way back.                        *)
(*                                                                         *)
(* A block is embedded by trying x coordinates that hold the block and a   *)
(* one-byte counter until one is on the curve.  Which coordinates are on   *)
(* the curve is left open: half of them are, in no pattern a caller could  *)
(* use.  Encryption is perfect here, so a ciphertext is the x coordinate   *)
(* of its message.  Bytes are digits in a base that may be small.          *)
(***************************************************************************)
EXTENDS Integers, Sequences, SequencesExt

CONSTANTS Base,      \* the number of values of a byte (256)
          Payload,   \* PAYLOADSIZE, the bytes of a block (30)
          MaxValLen, \* MAX_VAL_LEN, the longest value a source accepts (30)
          Values,    \* the values in the source's file
          Paths,     \* "network": through cmd/source and the messages of
                     \* the api package; "local": within one process
          None       \* no value

ASSUME EncodingAssumption ==
  /\ Base \in Nat /\ Payload \in 1 .. Base - 1 /\ Base > 5
  /\ MaxValLen \in Nat /\ Paths \subseteq {"network", "local"}
  /\ \A v \in Values : v \in Seq(0 .. Base - 1)
  /\ None \notin Seq(0 .. Base - 1)

VARIABLES
  val,   \* the value
  path,  \* the path it takes
  pc,    \* "read", "embed", "encrypted", "received", or one of the ends
  x, i,  \* the coordinate NewMessageFromBytes tries, and its try counter
  cts,   \* the ciphertexts of the value
  tries, \* the largest number of tries a block has taken
  out    \* the value the receiver writes

vars == <<val, path, pc, x, i, cts, tries, out>>

-----------------------------------------------------------------------------
(* pad: a full block is added to a value that fills its last block.        *)
Pad(data) ==
  LET n == Payload - (Len(data) % Payload)
  IN  data \o [k \in 1 .. n |-> n]

(* The last n bytes of data all say that there are n bytes of padding.     *)
PaddedBy(data, n) == \A k \in Len(data) - n + 1 .. Len(data) : data[k] = n

(* unpad; None if the padding is invalid.  The mutant also refuses data    *)
(* that is all padding.                                                    *)
UnpadNonempty(data) ==
  LET n == IF data = <<>> THEN 0 ELSE Last(data)
  IN  IF n = 0 \/ n >= Len(data) \/ ~PaddedBy(data, n)
      THEN None ELSE SubSeq(data, 1, Len(data) - n)
Unpad(data) ==
  LET n == IF data = <<>> THEN 0 ELSE Last(data)
  IN  IF n = 0 \/ n > Len(data) \/ ~PaddedBy(data, n)
      THEN None ELSE SubSeq(data, 1, Len(data) - n)

Block(k) == SubSeq(Pad(val), (k - 1) * Payload + 1, k * Payload)
NumBlocks == Len(Pad(val)) \div Payload

(* The first coordinate tried: a byte 4, the block, and a byte 2.          *)
Number(bytes) == FoldLeft(LAMBDA n, b : n * Base + b, 0, bytes)
FirstTry(block) == Number(<<4>> \o block \o <<2>>)

(* GetMessageBytes: the coordinate without its first and its last byte;    *)
(* without[k] is the coordinate without its last k bytes.                  *)
MessageBytes(n) ==
  LET without[k \in 0 .. Payload] == IF k = 0 THEN n ELSE without[k - 1] \div Base
  IN  [k \in 1 .. Payload |-> without[Payload - k + 1] % Base]

(* The tries end with an error after as many as a byte has values, less    *)
(* one; the mutant goes on for as many again.                              *)
EndlessTries(n) == n = 2 * Base
LastTry(n) == n = Base - 1

(* GetEncRowMsg sends the first ciphertext of the value only.              *)
OnWire(s) == IF path = "network" THEN <<Head(s)>> ELSE s

(* The receiver's PKEDecryptVector: the blocks in order, unpadded.  The    *)
(* mutant puts them together in the order the decryptions end.             *)
JoinedReversed(s) == FlattenSeq([k \in 1 .. Len(s) |-> MessageBytes(s[Len(s) + 1 - k])])
JoinedBlocks(s) == FlattenSeq([k \in 1 .. Len(s) |-> MessageBytes(s[k])])

TooLong(v) == path = "network" /\ Len(v) > MaxValLen

-----------------------------------------------------------------------------
Init == /\ val \in Values /\ path \in Paths
        /\ pc = "read"
        /\ x = 0 /\ i = 0 /\ cts = <<>> /\ tries = 0
        /\ out = None

(* readCSV refuses the file.                                               *)
Refuse == /\ pc = "read" /\ TooLong(val)
          /\ pc' = "refused"
          /\ UNCHANGED <<val, path, x, i, cts, tries, out>>

(* PKEEncryptVector starts with the first block.                           *)
Accept == /\ pc = "read" /\ ~TooLong(val)
          /\ x' = FirstTry(Block(1)) /\ i' = 1
          /\ pc' = "embed"
          /\ UNCHANGED <<val, path, cts, tries, out>>

(* The coordinate is on the curve: the block is encrypted, and the next    *)
(* one, if there is one, is embedded.                                      *)
OnCurve == /\ pc = "embed"
           /\ cts' = Append(cts, x)
           /\ tries' = IF i > tries THEN i ELSE tries
           /\ IF Len(cts') = NumBlocks
              THEN /\ pc' = "encrypted" /\ UNCHANGED <<x, i>>
              ELSE /\ x' = FirstTry(Block(Len(cts') + 1)) /\ i' = 1
                   /\ UNCHANGED pc
           /\ UNCHANGED <<val, path, out>>

(* It is not: the next one is tried.                                       *)
OffCurve == /\ pc = "embed" /\ ~LastTry(i)
            /\ i' = i + 1 /\ x' = x + 1
            /\ UNCHANGED <<val, path, pc, cts, tries, out>>

(* It is not, and it was the last try: ProcessRow returns the error.       *)
NoPoint == /\ pc = "embed" /\ LastTry(i)
           /\ pc' = "failed"
           /\ UNCHANGED <<val, path, x, i, cts, tries, out>>

(* Through the helper to the receiver, which decrypts and unpads, or ends  *)
(* with a panic if the padding is not valid.                               *)
Decrypt == /\ pc = "encrypted"
           /\ out' = Unpad(JoinedBlocks(OnWire(cts)))
           /\ pc' = IF out' = None THEN "panic" ELSE "written"
           /\ UNCHANGED <<val, path, x, i, cts, tries>>

Next == Refuse \/ Accept \/ OnCurve \/ OffCurve \/ NoPoint \/ Decrypt

Spec == Init /\ [][Next]_vars

-----------------------------------------------------------------------------
(* The largest coordinate of as many bytes as the ones tried have.         *)
Largest == Number([k \in 1 .. Payload + 2 |-> Base - 1])

(* The type invariant; every coordinate tried fits in the bytes it has.    *)
TypeOK ==
  /\ val \in Values /\ path \in Paths
  /\ pc \in {"read", "refused", "embed", "encrypted", "failed", "written", "panic"}
  /\ x \in 0 .. Largest /\ i \in 0 .. Base - 1
  /\ cts \in Seq(0 .. Largest)
  /\ tries \in 0 .. Base - 1
  /\ out \in Seq(0 .. Base - 1) \union {None}

(* What the README assumes of the values is enough: a value shorter than a *)
(* block reaches the receiver as it is, through the network, unless its    *)
(* embedding takes the very last try.                                      *)
ShortValueSurvives ==
  Len(val) < Payload /\ tries < Base - 1 =>
     /\ pc # "panic"
     /\ pc = "written" => out = val

(* Inside one process (Prepare, Convert and JoinTables, as in the tests),  *)
(* a value of any length does: its blocks stay together and in order.      *)
AnyLengthSurvives ==
  path = "local" /\ tries < Base - 1 =>
     /\ pc # "panic"
     /\ pc = "written" => out = val

(* What the source's length check claims: a value it accepts reaches the   *)
(* receiver.  A value of just a block's length is padded to two blocks,    *)
(* and only the first one is sent.                                         *)
AcceptedSurvives ==
  tries < Base - 1 => /\ pc # "panic"
                      /\ pc = "written" => out = val
=============================================================================
