------------------------------ MODULE Encoding ------------------------------
(***************************************************************************)
(* The encodings that the protocol's messages and state depend on: the     *)
(* identifiers of keys and rounds (common/adkg_common.go), sets of nodes   *)
(* as the bits of an int (keygen/common/common.go), the padding of a       *)
(* broadcast message to whole blocks (keygen/common/acss/acss.go) and the  *)
(* fields of fixed length in the proofs and commitments.                   *)
(*                                                                         *)
(* A value is written, and what the readers make of it is compared with    *)
(* the value.                                                              *)
(*                                                                         *)
(* Abstractions.                                                           *)
(*  - A number in an identifier is the sequence of its digits.             *)
(*  - An int has W bits, the highest of which is the sign.                 *)
(*  - A field of l bytes is l times its name.                              *)
(***************************************************************************)
EXTENDS Integers, Sequences, FiniteSets, SequencesExt, Bitwise

CONSTANTS
  MaxNumber,  \* bound on key indexes and dealers
  W,          \* width of an int (64 in the code)
  Bytes,      \* the bytes of messages
  MaxLen,     \* bound on the length of messages
  Blocks,     \* block sizes
  K           \* number of commitments

Curves == {"secp256k1", "ed25519"}

Rounds == [curve : Curves, index : 0 .. MaxNumber, dealer : 1 .. MaxNumber, kind : {"acss", "keyset"}]
NodeSets == SUBSET (1 .. W - 2)
Messages == {<<b, n>> : b \in UNION {[1 .. l -> Bytes] : l \in 1 .. MaxLen}, n \in Blocks}

VARIABLES
  what,     \* what is written: "round", "nodes", "message", "fields"
  value,    \* the value
  wire      \* what was written

vars == <<what, value, wire>>

Init ==
  /\ \/ what = "round" /\ value \in Rounds
     \/ what = "nodes" /\ value \in NodeSets
     \/ what = "message" /\ value \in Messages
     \/ what = "fields" /\ value \in Curves
  /\ wire = <<>>

-----------------------------------------------------------------------------
(* Numbers as digits.                                                      *)
Digits(n, base) ==
  LET RECURSIVE Text(_)
      Text(m) == IF m < base THEN <<m>> ELSE Append(Text(m \div base), m % base)
  IN Text(n)
SetString(ds, base) == FoldLeft(LAMBDA acc, d : acc * base + d, 0, ds)

(* An ADKGID is its curve, left out for secp256k1, and its index in base   *)
(* 16.  A RoundID adds its kind and the dealer in base 10.                 *)
NewADKGID(r) == <<IF r.curve = "ed25519" THEN <<"ed25519">> ELSE <<>>, Digits(r.index, 16)>>
RoundID(r) == NewADKGID(r) \o <<r.kind, Digits(r.dealer, 10)>>

GetCurve(id) == IF Len(id[1]) = 0 THEN "secp256k1" ELSE id[1][1]
GetIndex(id) == SetString(id[2], 16)
FromID(id) == [curve |-> GetCurve(id), index |-> GetIndex(id), kind |-> id[3],
               dealer |-> SetString(id[4], 10)]

(* Leader reads the dealer in base 16.                                     *)
Leader(id) == SetString(id[4], 16)

-----------------------------------------------------------------------------
(* An int as W bits: above 0 means no sign and some bit.                   *)
Positive(n) == n > 0 /\ n < 2^(W - 1)
HasBit(n, pos) == Positive(n & 2^pos)
SetBit(n, pos) == n | 2^pos
GetSetBits(n, val) == SelectSeq([i \in 1 .. n |-> i], LAMBDA i : HasBit(val, i))
CountBit(n) ==
  LET RECURSIVE Count(_)
      Count(m) == IF Positive(m) THEN 1 + Count(m & (m - 1)) ELSE 0
  IN Count(n)

-----------------------------------------------------------------------------
(* pkcs7Pad and pkcs7Unpad; an error is <<>>.                              *)
PadUnlessWhole(b, size) ==
  LET n == (size - (Len(b) % size)) % size IN b \o [i \in 1 .. n |-> n % 256]
Pad(b, size) ==
  LET n == size - (Len(b) % size) IN b \o [i \in 1 .. n |-> n % 256]
Unpad(b, size) ==
  LET n == Last(b) IN
  IF \/ Len(b) % size # 0 \/ n = 0 \/ n > Len(b)
     \/ \E i \in 1 .. n : b[Len(b) - n + i] # n
  THEN <<>> ELSE SubSeq(b, 1, Len(b) - n)

-----------------------------------------------------------------------------
(* Compressed points, by the curve; the fields of the commitments of a     *)
(* dealer, of a proof for a public key share and of a coin share.          *)
PointLen(curve) == IF curve = "ed25519" THEN 32 ELSE 33
Field(name, l) == [i \in 1 .. l |-> name]
Names == [i \in 1 .. K |-> <<"commitment", i>>]

CompressCommitments(curve) == FlattenSeq([i \in 1 .. K |-> Field(Names[i], PointLen(curve))])
KeyProof(curve) == Field(<<"A">>, PointLen(curve)) \o Field(<<"B">>, PointLen(curve))
CoinShare(curve) == Field(<<"z">>, 32) \o Field(<<"h">>, PointLen(curve))
                    \o Field(<<"hTilde">>, PointLen(curve)) \o Field(<<"giTilde">>, PointLen(curve))

(* The fields that are read where the reader cuts, <<>> for a bad one.     *)
Read(b, curve) ==
  IF Len(b) = PointLen(curve) /\ \A i \in 1 .. Len(b) : b[i] = b[1] THEN b[1] ELSE <<>>
DecompressCommitments(b, curve) ==
  LET l == PointLen(curve) IN [i \in 1 .. K |-> Read(SubSeq(b, (i - 1) * l + 1, i * l), curve)]
ReadKeyProof(b, curve) ==
  LET l == PointLen(curve) IN <<Read(SubSeq(b, 1, l), curve), Read(SubSeq(b, l + 1, Len(b)), curve)>>
Unpack(b, curve) ==
  <<Read(SubSeq(b, 33, 65), curve), Read(SubSeq(b, 66, 98), curve), Read(SubSeq(b, 99, Len(b)), curve)>>

-----------------------------------------------------------------------------
Write ==
  /\ wire = <<>>
  /\ \/ what = "round" /\ wire' = RoundID(value)
     \/ what = "nodes" /\ wire' = <<FoldSeq(LAMBDA i, n : SetBit(n, i), 0, SetToSeq(value))>>
     \/ what = "message" /\ wire' = Pad(value[1], value[2])
     \/ what = "fields" /\ wire' = <<CompressCommitments(value), KeyProof(value), CoinShare(value)>>
  /\ UNCHANGED <<what, value>>

Spec == Init /\ [][Write]_vars

Written(w) == what = w /\ wire # <<>>

-----------------------------------------------------------------------------
(* A round identifier names its key and its dealer: what FromID reads is   *)
(* what ID wrote, for keys of both curves.  Leader, which decides whether  *)
(* a proposal is skipped, reads the dealer in another base: it is claimed  *)
(* to agree for the dealers below ten only.                                *)
RoundReadBack ==
  Written("round") =>
    /\ FromID(wire) = value
    /\ value.dealer < 10 => Leader(wire) = value.dealer

(* A set of nodes survives as bits up to the bit below the sign: the nodes *)
(* and their number are read back.                                         *)
NodesReadBack ==
  Written("nodes") =>
    /\ GetSetBits(W - 2, wire[1]) = SetToSortSeq(value, <)
    /\ CountBit(wire[1]) = Cardinality(value)

(* A padded message has whole blocks and is read back, also when it ends   *)
(* in bytes that look like padding or fills its last block.                *)
MessageReadBack ==
  Written("message") =>
    /\ Len(wire) % value[2] = 0
    /\ Unpad(wire, value[2]) = value[1]

(* The commitments and the proof for a public key share are cut where they *)
(* were put together, on both curves.  The points of a coin share are      *)
(* written compressed and read as 33 bytes each: that they are read back   *)
(* is claimed for secp256k1 only.                                          *)
FieldsReadBack ==
  Written("fields") =>
    /\ DecompressCommitments(wire[1], value) = Names
    /\ ReadKeyProof(wire[2], value) = <<<<"A">>, <<"B">>>>
    /\ value = "secp256k1" =>
         Unpack(wire[3], value) = <<<<"h">>, <<"hTilde">>, <<"giTilde">>>>

(* What is written is read back, with two exceptions that the parts name:  *)
(* dealers from ten on by Leader, and coin shares on ed25519.              *)
ReadBack == RoundReadBack /\ NodesReadBack /\ MessageReadBack /\ FieldsReadBack
=============================================================================
