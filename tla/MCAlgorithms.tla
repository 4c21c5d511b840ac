---------------------------- MODULE MCAlgorithms ----------------------------
(***************************************************************************)
(* The instance of Sharing and Encoding for TLC.  The two have nothing in  *)
(* common: a behaviour is one of either, with the other one at rest.       *)
(***************************************************************************)
EXTENDS Sharing

CONSTANTS d1, d2, MaxNumber, W, Bytes, MaxLen, Blocks

VARIABLES what, value, wire

Codes == INSTANCE Encoding

(* The first dealer has any polynomial of degree two, the second one with  *)
(* all coefficients or one with a single coefficient and the secret zero.  *)
Fixed == {[k \in 0 .. K - 1 |-> k + 1], [k \in 0 .. K - 1 |-> IF k = 1 THEN 3 ELSE 0]}

(* The second dealer writes the right index, the first one another index   *)
(* to one node at most, and only when all have the shares of the second.   *)
Misnumbered(d) == {i \in Nodes : S[i][d] \notin {NoShare, InExponent(d, i)}}
FewMisnumbered ==
  /\ Misnumbered(d2) = {} /\ Cardinality(Misnumbered(d1)) <= 1
  /\ Misnumbered(d1) # {} => \A i \in Nodes : S[i][d2] # NoShare

SharingAlone ==
  /\ Init /\ poly[d2] \in Fixed
  /\ what = "nothing" /\ value = {} /\ wire = <<>>

(* Zero polynomials have no valid shares.                                  *)
EncodingAlone ==
  /\ Codes!Init
  /\ poly = [d \in Dealers |-> [k \in 0 .. K - 1 |-> 0]]
  /\ S = [i \in Nodes |-> [d \in Dealers |-> NoShare]]

AlgorithmsNext ==
  \/ Next /\ FewMisnumbered' /\ UNCHANGED <<what, value, wire>>
  \/ Codes!Write /\ UNCHANGED vars

Algorithms ==
  (SharingAlone \/ EncodingAlone) /\ [][AlgorithmsNext]_<<vars, what, value, wire>>

(* What Encoding states: identifiers, sets of nodes, padded messages and   *)
(* the fields of a proof are read back as they were written, but for       *)
(* dealers from ten on by Leader and for coin shares on ed25519.           *)
ReadBack == Codes!ReadBack
=============================================================================
