------------------------------ MODULE Sharing ------------------------------
(***************************************************************************)
(* The arithmetic of a key: verifiable secret sharing (common/sharing,     *)
(* keygen/common/acss), the shares and public values of a key that several *)
(* dealers make together (keyderivation/init_handler.go, share_handler.go) *)
(* and of the common coin (aba/coin_init_handler.go, coin_handler.go).     *)
(* The other modules take for granted what is checked here: that accepted  *)
(* shares fit together.                                                    *)
(*                                                                         *)
(* Abstractions.                                                           *)
(*  - Scalars are the integers modulo a small prime P.  A point is the     *)
(*    scalar that the generator g is multiplied by: g is 1, H and GTilde   *)
(*    are the logarithms of the second generator and of the coin's.        *)
(*  - The challenge of a proof, a hash, is any nonzero scalar.             *)
(*  - The node that verifies has the commitments of all dealers.           *)
(***************************************************************************)
EXTENDS Integers, FiniteSets, FiniteSetsExt

CONSTANTS
  P,        \* the order of the group, a prime
  N,        \* the nodes are 1 .. N
  K,        \* threshold: the degree of the polynomials is K - 1
  Dealers,
  H, GTilde

ASSUME ConstantsAssumption ==
  /\ P \in Nat /\ \A a \in 2 .. P - 1 : P % a # 0
  /\ N \in 1 .. P - 1 /\ K \in 2 .. N
  /\ H \in 1 .. P - 1 /\ GTilde \in 1 .. P - 1

Nodes == 1 .. N
Scalars == 0 .. P - 1
NoShare == -1

VARIABLES
  poly,     \* poly[d]: the coefficients of the polynomial of d
  S         \* S[i][d]: the share that i has from d

vars == <<poly, S>>

TypeOK ==
  /\ poly \in [Dealers -> [0 .. K - 1 -> Scalars]]
  /\ S \in [Nodes -> [Dealers -> Scalars \cup {NoShare}]]

Init ==
  /\ poly \in [Dealers -> [0 .. K - 1 -> Scalars]]
  /\ S = [i \in Nodes |-> [d \in Dealers |-> NoShare]]

Product(op(_), set) == FoldSet(LAMBDA x, acc : (op(x) * acc) % P, 1, set)
Sum(op(_), set) == MapThenSumSet(op, set) % P
Reciprocal(a) == CHOOSE b \in Scalars : (a * b) % P = 1

-----------------------------------------------------------------------------
(* Polynomials and their commitments, which as points are the coefficients *)
(* themselves.                                                             *)
Commitments(d) == poly[d]
InExponent(d, x) == Sum(LAMBDA k : Commitments(d)[k] * x^k, 0 .. K - 1)

(* A share fits the commitments of its dealer at the index x that comes    *)
(* with it; zero is no valid share.                                        *)
Verify(d, x, v) == v # 0 /\ v = InExponent(d, x)

(* The predicate checks the share at the index that the dealer wrote, and  *)
(* the node keeps the value: one that is not for the node is found out     *)
(* only when the node uses it.                                             *)
Receive(i, d) ==
  /\ S[i][d] = NoShare
  /\ \E x \in Nodes, v \in Scalars :
       /\ Verify(d, x, v)
       /\ S' = [S EXCEPT ![i][d] = v]
  /\ UNCHANGED poly

Next == \E i \in Nodes, d \in Dealers : Receive(i, d)
Spec == Init /\ [][Next]_vars

-----------------------------------------------------------------------------
(* Lagrange coefficients at zero, and interpolation.                       *)
LagrangeCoeff(Q, i) ==
  Product(LAMBDA j : j, Q \ {i}) * Reciprocal(Product(LAMBDA j : (j - i) % P, Q \ {i}))
Interpolate(Q, y) == Sum(LAMBDA i : y[i] * LagrangeCoeff(Q, i), Q)

(* What node i adds up for the dealers of T: a share it does not have is   *)
(* skipped.  And what the others know of it from the commitments.          *)
OwnShare(i, T) == Sum(LAMBDA d : S[i][d], {d \in T : S[i][d] # NoShare})
DerivePublicKey(i, T) == Sum(LAMBDA d : InExponent(d, i), T)

(* The proof that h^x goes with g^x, made with the random r and the        *)
(* challenge c, and its verification against the public g^x of i.          *)
KeyProof(x, r, c) == [share |-> (H * x) % P, A |-> r, B |-> (H * r) % P, s |-> (r - c * x) % P]
VerifyShareOfSender(i, T, pf, c) ==
  pf.B = (H * pf.s + c * pf.share) % P
VerifyShare(i, T, pf, c) ==
  /\ pf.A = (pf.s + c * DerivePublicKey(i, T)) % P
  /\ pf.B = (H * pf.s + c * pf.share) % P

CoinProof(x, r, c) ==
  [share |-> (GTilde * x) % P, h |-> r, hTilde |-> (GTilde * r) % P, z |-> (x * c + r) % P]
VerifyCoinOfSender(i, T, pf, c) ==
  pf.hTilde = (GTilde * pf.z - c * pf.share) % P
VerifyCoin(i, T, pf, c) ==
  /\ pf.h = (pf.z - c * DerivePublicKey(i, T)) % P
  /\ pf.hTilde = (GTilde * pf.z - c * pf.share) % P

(* The nodes whose public key share, and whose coin share, is accepted.    *)
Randoms == {0, 1, P - 1}
Challenges == 1 .. P - 1
KeySharers(T) ==
  {i \in Nodes : \E r \in Randoms, c \in Challenges : VerifyShare(i, T, KeyProof(OwnShare(i, T), r, c), c)}
CoinSharers(T) ==
  {i \in Nodes : \E r \in Randoms, c \in Challenges : VerifyCoin(i, T, CoinProof(OwnShare(i, T), r, c), c)}

(* The public key, and the coin, that a node makes of the shares of Q.     *)
PublicKey(Q, T) == Interpolate(Q, [i \in Q |-> H * OwnShare(i, T)])
Coin(Q, T) == Interpolate(Q, [i \in Q |-> GTilde * OwnShare(i, T)])

-----------------------------------------------------------------------------
Secret(T) == Sum(LAMBDA d : poly[d][0], T)
DealerSets == SUBSET Dealers \ {{}}
Quorums(set) == {Q \in SUBSET set : Cardinality(Q) >= K}

(* Any K accepted public key shares make one public key, that of the sum   *)
(* of the dealers' secrets, whoever sent them and whatever shares the      *)
(* others lack: a node that lacks a share, or has the share of another     *)
(* index, is refused or is not affected.                                   *)
KeyOfSecrets ==
  \A T \in DealerSets : \A Q \in Quorums(KeySharers(T)) :
    PublicKey(Q, T) = (H * Secret(T)) % P

(* The coin is common: any K accepted coin shares make the same one.       *)
CoinIsCommon ==
  \A T \in DealerSets : \A Q \in Quorums(CoinSharers(T)) :
    Coin(Q, T) = (GTilde * Secret(T)) % P

=============================================================================
