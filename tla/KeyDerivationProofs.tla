------------------------ MODULE KeyDerivationProofs ------------------------
(* Proofs about KeyDerivation, for every set of nodes, every F and K with  *)
(* ParamsAssumption, and every outcome of the agreements.                  *)
EXTENDS KeyDerivation, FiniteSetTheorems, TLAPS

AgreedKey == [s \in Nodes |-> Agreed]

(* No key, the agreed key, or a mixture that shows a share that lacks a    *)
(* keyset.                                                                 *)
KeyOrMixture(key) ==
  \/ key \in {NoKey, AgreedKey}
  \/ \E u \in Nodes : key[u] # {} /\ key[u] # Agreed /\ key[u] \subseteq Agreed

(* A sum that leaves out a dealer of the keyset of j.                      *)
Lacks(dealers, j) == ~(Keyset[j] \subseteq dealers)

(* L bounds, leader by leader, the nodes that were late with its keyset.   *)
(* A node that lacks the keyset, or whose sum, count or vote bears the     *)
(* mark of having lacked it, is one of them; there are fewer than K.       *)
LateInv(L) ==
  /\ L \in [Leaders -> SUBSET Nodes]
  /\ \A j \in Leaders : Cardinality(L[j]) < K
  /\ \A p \in Nodes, j \in Leaders :
       /\ p \notin expired /\ j \notin known[p] => p \in L[j]
       /\ sent[p] # {} /\ Lacks(sent[p], j) => p \in L[j]
       /\ \A u \in Nodes :
            /\ pubKeyShares[p][u] # {} /\ Lacks(pubKeyShares[p][u], j) => p \in L[j]
            /\ votes[p][u] # {} /\ Lacks(votes[p][u], j) => p \in L[j]

(* What one node counted is what the senders sent and is covered by what   *)
(* the node sums now; what it kept and stored is the agreed share.         *)
CountInv(p) ==
  /\ p \in expired => stage[p] = "aba"
  /\ sent[p] # {} => stage[p] = "derived" \/ p \in expired
  /\ \A u \in Nodes : pubKeyShares[p][u] # {} =>
       pubKeyShares[p][u] = sent[u] /\ pubKeyShares[p][u] \subseteq T(p)
  /\ over[p] => share[p] = Agreed /\ share[p] # {}
  /\ stored[p] # {} => stored[p] = Agreed
  /\ KeyOrMixture(votes[p])

(* The handshake of one node with its BFT layer.                           *)
HandshakeInv(p) ==
  /\ ~(over[p] /\ bftDecided[p])
  /\ over[p] => share[p] # {}
  /\ p \in complete => stored[p] # {}
  /\ KeyThreshold(pubKeyShares[p]) => over[p] \/ stored[p] # {}
  /\ p \in notified \ expired => bftDecided[p] \/ p \in complete

IInv ==
  /\ TypeOK
  /\ \A p \in Nodes : CountInv(p)
  /\ \E L \in [Leaders -> SUBSET Nodes] : LateInv(L)

-----------------------------------------------------------------------------
(* The unions of keysets.                                                  *)

(* The dealers of more keysets are more dealers, and all of them agreed.   *)
LEMMA DealersFacts ==
  /\ \A J \in SUBSET Leaders : Dealers(J) \in SUBSET Nodes /\ Dealers(J) \subseteq Agreed
  /\ \A J \in SUBSET Leaders : \A j \in J : ~Lacks(Dealers(J), j)
  /\ \A J \in SUBSET Leaders, I \in SUBSET Leaders :
       J \subseteq I => Dealers(J) \subseteq Dealers(I)
  /\ Agreed \in SUBSET Nodes
BY LeadersAssumption DEF Dealers, Agreed, Lacks

(* A set of dealers that covers every keyset covers the agreed ones.       *)
LEMMA AgreedCovered ==
  ASSUME NEW d, d \subseteq Agreed, d # Agreed
  PROVE  \E j \in Leaders : Lacks(d, j)
BY LeadersAssumption DEF Dealers, Agreed, Lacks

-----------------------------------------------------------------------------
(* Type correctness.                                                       *)

(* The sessions at the end of the agreements are well typed.               *)
LEMMA TypeInitial == Init => TypeOK
<1> SUFFICES ASSUME Init PROVE TypeOK
  OBVIOUS
<1>1. over \in [Nodes -> BOOLEAN] /\ bftDecided \in [Nodes -> BOOLEAN]
  BY Zenon DEF Init
<1>2. /\ stage \in [Nodes -> {"aba", "decided", "derived"}]
      /\ sent \in [Nodes -> SUBSET Nodes]
      /\ rejected \in [Nodes -> SUBSET Nodes]
      /\ unverified \in [Nodes -> SUBSET Nodes]
      /\ share \in [Nodes -> SUBSET Nodes]
      /\ stored \in [Nodes -> SUBSET Nodes]
  BY DEF Init
<1>3. NoKey \in [Nodes -> SUBSET Nodes]
  BY DEF NoKey
<1>4. /\ pubKeyShares \in [Nodes -> [Nodes -> SUBSET Nodes]]
      /\ votes \in [Nodes -> [Nodes -> SUBSET Nodes]]
      /\ decidedKey \in [Nodes -> SUBSET Nodes]
  BY <1>3 DEF Init
<1> QED
  BY <1>1, <1>2, <1>4, Zenon DEF Init, TypeOK

(* The sums and the keys nodes compute are well typed.                     *)
LEMMA ValueTypes ==
  ASSUME TypeOK
  PROVE  /\ \A p \in Nodes : T(p) \in SUBSET Nodes /\ T(p) \subseteq Agreed
         /\ \A m \in [Nodes -> SUBSET Nodes] : PublicKey(m) \in [Nodes -> SUBSET Nodes]
         /\ NoKey \in [Nodes -> SUBSET Nodes]
<1>1. \A p \in Nodes : known[p] \in SUBSET Leaders
  BY DEF TypeOK
<1>2. \A p \in Nodes : T(p) \in SUBSET Nodes /\ T(p) \subseteq Agreed
  BY <1>1, DealersFacts DEF T
<1>3. ASSUME NEW m \in [Nodes -> SUBSET Nodes]
      PROVE PublicKey(m) \in [Nodes -> SUBSET Nodes]
  <2>1. UNION {m[t] : t \in Nodes} \in SUBSET Nodes
    OBVIOUS
  <2> QED
    BY <2>1 DEF PublicKey
<1> QED
  BY <1>2, <1>3 DEF NoKey

(* Every handler keeps the sessions and the BFT layer in their types.      *)
LEMMA TypeInductive == TypeOK /\ [Next]_vars => TypeOK'
<1> SUFFICES ASSUME TypeOK, [Next]_vars PROVE TypeOK'
  OBVIOUS
<1> USE DEF session, bft
<1>1. ASSUME NEW p \in Nodes, NEW j \in Leaders, OnKeysetVerified(p, j) PROVE TypeOK'
  BY <1>1 DEF TypeOK, OnKeysetVerified
<1>2. ASSUME NEW p \in Nodes, LastDecision(p) PROVE TypeOK'
  BY <1>2 DEF TypeOK, LastDecision
<1>3. ASSUME NEW p \in Nodes, KeyderivationInit(p) PROVE TypeOK'
  BY <1>3, ValueTypes DEF TypeOK, KeyderivationInit
<1>4. ASSUME NEW p \in Nodes, BFTDecided(p) PROVE TypeOK'
  BY <1>4 DEF TypeOK, BFTDecided
<1>5. ASSUME NEW p \in Nodes, Expire(p) PROVE TypeOK'
  BY <1>5, ValueTypes DEF TypeOK, Expire
<1>6. ASSUME NEW p \in Nodes, Crash(p) PROVE TypeOK'
  BY <1>6 DEF TypeOK, Crash
<1>7. ASSUME NEW s \in Nodes, NEW p \in Nodes, KeepShare(s, p) PROVE TypeOK'
  BY <1>7 DEF TypeOK, KeepShare
<1>8. ASSUME NEW s \in Nodes, NEW p \in Nodes, DropShare(s, p) PROVE TypeOK'
  BY <1>8 DEF TypeOK, DropShare
<1>9. ASSUME NEW s \in Nodes, NEW p \in Nodes, CountShare(s, p) PROVE TypeOK'
  <2> DEFINE shares == [u \in Nodes |-> IF u \in {s} \cup Flush(p) THEN T(p)
                                        ELSE pubKeyShares[p][u]]
  <2>1. shares \in [Nodes -> SUBSET Nodes]
    BY ValueTypes DEF TypeOK
  <2>2. PublicKey(shares) \in [Nodes -> SUBSET Nodes]
    BY <2>1, ValueTypes
  <2>3. pubKeyShares' = [pubKeyShares EXCEPT ![p] = shares]
    BY <1>9 DEF CountShare
  <2>4. votes' = votes \/ votes' = [votes EXCEPT ![p] = PublicKey(shares)]
    BY <1>9 DEF CountShare
  <2>5. UNCHANGED <<known, stage, bftDecided, rejected, sent, decidedKey, notified, crashed, expired>>
    BY <1>9 DEF CountShare
  <2>6. unverified' \in [Nodes -> SUBSET Nodes]
    BY <1>9 DEF CountShare, TypeOK
  <2>7. /\ stored' = stored \/ stored' = [stored EXCEPT ![p] = T(p)]
        /\ complete' = complete \/ complete' = complete \cup {p}
        /\ share' = share \/ share' = [share EXCEPT ![p] = T(p)]
        /\ over' = over \/ over' = [over EXCEPT ![p] = TRUE]
    BY <1>9 DEF CountShare, Store
  <2> HIDE DEF shares
  <2>8. pubKeyShares' \in [Nodes -> [Nodes -> SUBSET Nodes]]
    BY <2>1, <2>3 DEF TypeOK
  <2>9. votes' \in [Nodes -> [Nodes -> SUBSET Nodes]]
    BY Zenon, <2>2, <2>4 DEF TypeOK
  <2>10. /\ stored' \in [Nodes -> SUBSET Nodes]
         /\ share' \in [Nodes -> SUBSET Nodes]
    <3>1. /\ [stored EXCEPT ![p] = T(p)] \in [Nodes -> SUBSET Nodes]
          /\ [share EXCEPT ![p] = T(p)] \in [Nodes -> SUBSET Nodes]
      BY ValueTypes DEF TypeOK
    <3> QED
      BY <2>7, <3>1, Zenon DEF TypeOK
  <2>11. over' \in [Nodes -> BOOLEAN]
    <3>1. over \in [Nodes -> BOOLEAN] /\ [over EXCEPT ![p] = TRUE] \in [Nodes -> BOOLEAN]
      BY DEF TypeOK
    <3> QED
      BY <2>7, <3>1, Zenon
  <2>12. complete' \in SUBSET Nodes
    BY <2>7 DEF TypeOK
  <2> QED
    BY <2>5, <2>6, <2>8, <2>9, <2>10, <2>11, <2>12 DEF TypeOK
<1>10. ASSUME NEW key \in {votes[p] : p \in Nodes}, DecideKey(key) PROVE TypeOK'
  BY <1>10 DEF TypeOK, DecideKey
<1>11. CASE UNCHANGED vars
  BY <1>11 DEF TypeOK, vars
<1> QED
  BY <1>1, <1>2, <1>3, <1>4, <1>5, <1>6, <1>7, <1>8, <1>9, <1>10, <1>11 DEF Next

(* The sessions of every node and the BFT layer stay in their types.       *)
THEOREM TypeCorrect == Spec => []TypeOK
BY TypeInitial, TypeInductive, PTL DEF Spec

-----------------------------------------------------------------------------
(* Why K shares are shares of the agreed dealers.                          *)

(* A set of nodes is finite.                                               *)
LEMMA NodesFinite ==
  ASSUME NEW S \in SUBSET Nodes
  PROVE  IsFiniteSet(S) /\ Cardinality(S) \in Nat
BY LeadersAssumption, FS_Subset, FS_CardinalityType

(* Nodes that are all late with one keyset are fewer than K.               *)
LEMMA FewLate ==
  ASSUME NEW L, LateInv(L), NEW j \in Leaders, NEW S \in SUBSET L[j]
  PROVE  ~(Cardinality(S) >= K)
<1>1. L[j] \in SUBSET Nodes /\ Cardinality(L[j]) < K
  BY DEF LateInv
<1>2. Cardinality(S) <= Cardinality(L[j])
  BY <1>1, NodesFinite, FS_Subset
<1>3. Cardinality(S) \in Nat /\ Cardinality(L[j]) \in Nat /\ K \in Nat
  BY <1>1, NodesFinite, LeadersAssumption
<1> QED
  BY <1>1, <1>2, <1>3

(* K shares that verify against sums covered by d make d the agreed set:   *)
(* otherwise d lacks a keyset, and so did each of the K senders.           *)
LEMMA EnoughShares ==
  ASSUME NEW L, LateInv(L),
         NEW m \in [Nodes -> SUBSET Nodes],
         NEW d, d \subseteq Agreed,
         \A u \in Nodes : m[u] # {} => m[u] = sent[u] /\ m[u] \subseteq d,
         KeyThreshold(m)
  PROVE  d = Agreed
<1> SUFFICES ASSUME d # Agreed PROVE FALSE
  OBVIOUS
<1>1. PICK j \in Leaders : Lacks(d, j)
  BY AgreedCovered
<1>2. ASSUME NEW u \in Senders(m) PROVE u \in L[j]
  <2>1. u \in Nodes /\ sent[u] # {} /\ sent[u] \subseteq d
    BY DEF Senders
  <2>2. Lacks(sent[u], j)
    BY <1>1, <2>1 DEF Lacks
  <2> QED
    BY <2>1, <2>2 DEF LateInv
<1>3. ~(Cardinality(Senders(m)) >= K)
  BY <1>2, FewLate
<1> QED
  BY <1>3 DEF KeyThreshold

(* The key interpolated from such shares, the last of them verified        *)
(* against the agreed set, is the agreed key or shows a late share.        *)
LEMMA InterpolatedKey ==
  ASSUME NEW m \in [Nodes -> SUBSET Nodes],
         NEW s \in Nodes, m[s] = Agreed, Agreed # {},
         \A u \in Nodes : m[u] \subseteq Agreed
  PROVE  \/ PublicKey(m) = AgreedKey
         \/ /\ PublicKey(m) = m
            /\ \E u \in Nodes : m[u] # {} /\ m[u] # Agreed
<1>1. s \in Senders(m)
  BY DEF Senders
<1>2. CASE \A t, u \in Senders(m) : m[t] = m[u]
  <2>1. UNION {m[u] : u \in Nodes} = Agreed
    OBVIOUS
  <2> QED
    BY Zenon, <1>2, <2>1 DEF PublicKey, AgreedKey
<1>3. CASE ~ \A t, u \in Senders(m) : m[t] = m[u]
  <2>1. PICK t \in Senders(m), u \in Senders(m) : m[t] # m[u]
    BY <1>3
  <2> QED
    BY <1>3, <2>1 DEF PublicKey, Senders
<1> QED
  BY <1>2, <1>3

-----------------------------------------------------------------------------
(* The inductive invariant.                                                *)

(* At the end of the agreements the late nodes are the ones that lack a    *)
(* keyset: all but the 2F+1 that verified it.                              *)
LEMMA InitialInv == Init => IInv
<1> SUFFICES ASSUME Init PROVE IInv
  OBVIOUS
<1> DEFINE L == [j \in Leaders |-> Lacking(j)]
<1>1. TypeOK
  BY TypeInitial
<1>2. ASSUME NEW p \in Nodes PROVE CountInv(p)
  BY DEF Init, CountInv, NoKey, KeyOrMixture
<1>3. ASSUME NEW j \in Leaders PROVE Cardinality(L[j]) < K
  <2>1. L[j] = Lacking(j) /\ Lacking(j) \in SUBSET Nodes
    BY DEF Lacking
  <2>2. Cardinality(Nodes \ Lacking(j)) >= 2 * F + 1
    BY DEF Init, KeysetQuorum
  <2>3. Cardinality(Nodes \ Lacking(j)) = Cardinality(Nodes) - Cardinality(Nodes \cap Lacking(j))
    BY ZenonT(30), LeadersAssumption, FS_Difference
  <2>4. Nodes \cap Lacking(j) = Lacking(j)
    BY <2>1
  <2>5. Cardinality(Lacking(j)) \in Nat /\ Cardinality(Nodes) \in Nat
    BY <2>1, NodesFinite
  <2>6. F \in Nat /\ K \in Nat /\ Cardinality(Nodes) <= 2 * F + K
    BY LeadersAssumption, ParamsAssumption
  <2>7. Cardinality(Nodes) - Cardinality(Lacking(j)) >= 2 * F + 1
    BY <2>2, <2>3, <2>4
  <2>8. Cardinality(Lacking(j)) < K
    BY <2>5, <2>6, <2>7
  <2> QED
    BY <2>1, <2>8
<1>4. LateInv(L)
  <2>1. L \in [Leaders -> SUBSET Nodes]
    BY DEF Lacking
  <2>2. ASSUME NEW p \in Nodes, NEW j \in Leaders, j \notin known[p] PROVE p \in L[j]
    BY <2>2 DEF Lacking
  <2>3. \A p \in Nodes : sent[p] = {} /\ \A u \in Nodes : pubKeyShares[p][u] = {} /\ votes[p][u] = {}
    BY DEF Init, NoKey
  <2> HIDE DEF L
  <2> QED
    BY <1>3, <2>1, <2>2, <2>3 DEF LateInv
<1> QED
  BY Zenon, <1>1, <1>2, <1>4 DEF IInv, LateInv

(* A share that is counted: the shares a node counts stay covered by its   *)
(* sum, and when they are K that sum is the agreed one.                    *)
LEMMA CountStep ==
  ASSUME IInv, NEW s \in Nodes, NEW p \in Nodes, CountShare(s, p)
  PROVE  IInv'
<1> DEFINE shares == [u \in Nodes |-> IF u \in {s} \cup Flush(p) THEN T(p)
                                      ELSE pubKeyShares[p][u]]
           finish == KeyThreshold(shares) /\ ~over[p]
<1>1. TypeOK /\ TypeOK' /\ \A q \in Nodes : CountInv(q)
  BY TypeInductive DEF IInv, Next
<1>2. PICK L : LateInv(L)
  BY DEF IInv
<1>3. /\ stage[p] # "aba" /\ T(p) # {} /\ sent[s] = T(p)
      /\ pubKeyShares' = [pubKeyShares EXCEPT ![p] = shares]
      /\ votes' = IF finish /\ votes[p] = NoKey
                  THEN [votes EXCEPT ![p] = PublicKey(shares)] ELSE votes
      /\ UNCHANGED <<known, stage, sent, expired>>
  BY DEF CountShare, ShareVerified
<1>4. /\ stored' = stored \/ (finish /\ stored' = [stored EXCEPT ![p] = T(p)])
      /\ \/ share' = share /\ over' = over
         \/ finish /\ share' = [share EXCEPT ![p] = T(p)] /\ over' = [over EXCEPT ![p] = TRUE]
  BY DEF CountShare, Store
<1>5. p \notin expired
  BY <1>1, <1>3 DEF CountInv
<1>6. shares \in [Nodes -> SUBSET Nodes]
  BY <1>1, ValueTypes DEF TypeOK
<1>7. \A u \in Nodes : shares[u] # {} => shares[u] = sent[u] /\ shares[u] \subseteq T(p)
  BY <1>1, <1>3 DEF Flush, ShareVerified, CountInv
<1>8. T(p) \subseteq Agreed /\ shares[s] = T(p) /\ \A q \in Nodes : T(q)' = T(q)
  BY <1>1, <1>3, ValueTypes DEF T
<1>9. \A j \in Leaders, u \in Nodes : shares[u] # {} /\ Lacks(shares[u], j) => p \in L[j]
  <2>1. \A j \in Leaders : Lacks(T(p), j) => p \in L[j]
    BY Zenon, <1>1, <1>2, <1>5, DealersFacts DEF LateInv, T, TypeOK
  <2> QED
    BY <1>2, <2>1 DEF LateInv
<1> HIDE DEF shares
<1>10. finish => T(p) = Agreed
  BY <1>2, <1>6, <1>7, <1>8, EnoughShares
<1>11. finish => \/ PublicKey(shares) = AgreedKey
                 \/ /\ PublicKey(shares) = shares
                    /\ \E u \in Nodes : shares[u] # {} /\ shares[u] # Agreed
  <2> SUFFICES ASSUME finish PROVE \/ PublicKey(shares) = AgreedKey
                                   \/ /\ PublicKey(shares) = shares
                                      /\ \E u \in Nodes : shares[u] # {} /\ shares[u] # Agreed
    OBVIOUS
  <2>1. shares[s] = Agreed /\ Agreed # {}
    BY <1>3, <1>8, <1>10
  <2>2. \A u \in Nodes : shares[u] \subseteq Agreed
    BY <1>7, <1>8
  <2> QED
    BY <1>6, <2>1, <2>2, InterpolatedKey
<1>12. votes' = votes \/ (finish /\ votes' = [votes EXCEPT ![p] = PublicKey(shares)])
  BY <1>3
<1> HIDE DEF finish
<1>13. ASSUME NEW q \in Nodes PROVE CountInv(q)'
  <2>1. (q \in expired => stage[q] = "aba")' /\ (sent[q] # {} => stage[q] = "derived" \/ q \in expired)'
    BY <1>1, <1>3 DEF CountInv
  <2>2. \A u \in Nodes : pubKeyShares'[q][u] # {} =>
          pubKeyShares'[q][u] = sent'[u] /\ pubKeyShares'[q][u] \subseteq T(q)'
    BY <1>1, <1>3, <1>7, <1>8 DEF CountInv, TypeOK
  <2>3. over'[q] => share'[q] = Agreed /\ share'[q] # {}
    BY <1>1, <1>3, <1>4, <1>10 DEF CountInv, TypeOK
  <2>4. stored'[q] # {} => stored'[q] = Agreed
    BY <1>1, <1>4, <1>10 DEF CountInv, TypeOK
  <2>5. KeyOrMixture(votes'[q])
    <3>1. CASE votes'[q] = votes[q]
      BY <1>1, <3>1 DEF CountInv
    <3>2. CASE finish /\ votes'[q] = PublicKey(shares)
      <4>1. \A u \in Nodes : shares[u] \subseteq Agreed
        BY <1>7, <1>8
      <4> QED
        BY <1>11, <3>2, <4>1 DEF KeyOrMixture
    <3>3. votes'[q] = votes[q] \/ (finish /\ votes'[q] = PublicKey(shares))
      BY SMTT(30), <1>1, <1>12 DEF TypeOK
    <3> QED
      BY <3>1, <3>2, <3>3
  <2> QED
    BY <2>1, <2>2, <2>3, <2>4, <2>5 DEF CountInv
<1>14. LateInv(L)'
  <2>1. ASSUME NEW q \in Nodes, NEW j \in Leaders, NEW u \in Nodes,
               votes'[q][u] # {}, Lacks(votes'[q][u], j)
        PROVE  q \in L[j]
    <3>1. CASE votes'[q] = votes[q]
      BY <1>2, <2>1, <3>1 DEF LateInv
    <3>2. CASE q = p /\ finish /\ votes'[q] = PublicKey(shares)
      <4>1. AgreedKey[u] = Agreed /\ ~Lacks(Agreed, j)
        BY DealersFacts DEF AgreedKey, Agreed
      <4> QED
        BY <1>9, <1>11, <2>1, <3>2, <4>1
    <3> QED
      BY <1>1, <1>12, <3>1, <3>2 DEF TypeOK
  <2>2. ASSUME NEW q \in Nodes, NEW j \in Leaders, NEW u \in Nodes,
               pubKeyShares'[q][u] # {}, Lacks(pubKeyShares'[q][u], j)
        PROVE  q \in L[j]
    BY SMTT(30), <1>1, <1>2, <1>3, <1>9, <2>2 DEF LateInv, TypeOK
  <2> QED
    BY <1>2, <1>3, <2>1, <2>2 DEF LateInv, Lacks
<1> QED
  BY <1>1, <1>13, <1>14 DEF IInv, LateInv

(* A keyset that is verified late only widens the node's sum.              *)
LEMMA KeysetStep ==
  ASSUME IInv, NEW p \in Nodes, NEW j \in Leaders, OnKeysetVerified(p, j)
  PROVE  IInv'
<1>1. TypeOK /\ TypeOK' /\ \A q \in Nodes : CountInv(q)
  BY TypeInductive DEF IInv, Next
<1>2. PICK L : LateInv(L)
  BY DEF IInv
<1>3. /\ UNCHANGED <<stage, pubKeyShares, over, share, sent, stored, votes, expired>>
      /\ known' = [known EXCEPT ![p] = @ \cup {j}]
  BY DEF OnKeysetVerified, bft
<1>4. ASSUME NEW q \in Nodes PROVE T(q) \subseteq T(q)'
  <2>1. known[q] \in SUBSET Leaders /\ known'[q] \in SUBSET Leaders /\ known[q] \subseteq known'[q]
    BY <1>1, <1>3 DEF TypeOK
  <2> QED
    BY <2>1, DealersFacts DEF T
<1>5. ASSUME NEW q \in Nodes PROVE CountInv(q)'
  <2>1. \A u \in Nodes : pubKeyShares[q][u] # {} =>
          pubKeyShares[q][u] = sent[u] /\ pubKeyShares[q][u] \subseteq T(q)'
    BY <1>1, <1>4 DEF CountInv
  <2> QED
    BY <1>1, <1>3, <2>1 DEF CountInv
<1>6. LateInv(L)'
  <2>1. \A q \in Nodes, i \in Leaders : i \notin known'[q] => i \notin known[q]
    BY <1>1, <1>3 DEF TypeOK
  <2> QED
    BY <1>2, <1>3, <2>1 DEF LateInv, Lacks
<1> QED
  BY ZenonT(30), <1>1, <1>5, <1>6 DEF IInv, LateInv

(* A sum that is broadcast lacks a keyset only if the node does.           *)
LEMMA SumStep ==
  ASSUME IInv, NEW p \in Nodes, KeyderivationInit(p)
  PROVE  IInv'
<1>1. TypeOK /\ TypeOK' /\ \A q \in Nodes : CountInv(q)
  BY TypeInductive DEF IInv, Next
<1>2. PICK L : LateInv(L)
  BY DEF IInv
<1>3. /\ UNCHANGED <<known, pubKeyShares, over, share, stored, votes, expired>>
      /\ stage[p] = "decided" /\ stage' = [stage EXCEPT ![p] = "derived"]
      /\ sent' = [sent EXCEPT ![p] = T(p)]
  BY DEF KeyderivationInit, bft
<1>4. sent[p] = {} /\ p \notin expired
  BY <1>1, <1>3 DEF CountInv
<1>5. \A j \in Leaders : Lacks(T(p), j) => p \in L[j]
  BY Zenon, <1>1, <1>2, <1>4, DealersFacts DEF LateInv, T, TypeOK
<1>6. \A q \in Nodes : T(q)' = T(q)
  BY <1>3 DEF T
<1>7. ASSUME NEW q \in Nodes PROVE CountInv(q)'
  <2>1. \A u \in Nodes : pubKeyShares[q][u] # {} =>
          pubKeyShares[q][u] = sent'[u] /\ pubKeyShares[q][u] \subseteq T(q)'
    <3>1. \A u \in Nodes : sent[u] # {} => sent'[u] = sent[u]
      BY <1>1, <1>3, <1>4 DEF TypeOK
    <3> QED
      BY <1>1, <1>6, <3>1 DEF CountInv
  <2>2. (q \in expired => stage'[q] = "aba") /\ (sent'[q] # {} => stage'[q] = "derived" \/ q \in expired)
    BY <1>1, <1>3, <1>4 DEF CountInv, TypeOK
  <2> QED
    BY <1>1, <1>3, <2>1, <2>2 DEF CountInv
<1>8. LateInv(L)'
  <2>1. \A q \in Nodes, j \in Leaders : sent'[q] # {} /\ Lacks(sent'[q], j) => q \in L[j]
    BY SMTT(30), <1>1, <1>2, <1>3, <1>5 DEF LateInv, TypeOK
  <2> QED
    BY <1>2, <1>3, <2>1 DEF LateInv, Lacks
<1> QED
  BY SMTT(30), <1>1, <1>7, <1>8 DEF IInv, LateInv

(* The janitor forgets a session, not what it sent.                        *)
LEMMA ExpireStep ==
  ASSUME IInv, NEW p \in Nodes, Expire(p)
  PROVE  IInv'
<1>1. TypeOK /\ TypeOK' /\ \A q \in Nodes : CountInv(q)
  BY TypeInductive DEF IInv, Next
<1>2. PICK L : LateInv(L)
  BY DEF IInv
<1>3. /\ UNCHANGED <<sent, stored, votes>>
      /\ expired' = expired \cup {p}
      /\ known' = [known EXCEPT ![p] = {}]
      /\ stage' = [stage EXCEPT ![p] = "aba"]
      /\ pubKeyShares' = [pubKeyShares EXCEPT ![p] = NoKey]
      /\ over' = [over EXCEPT ![p] = FALSE]
      /\ share' = [share EXCEPT ![p] = {}]
  BY DEF Expire, bft
<1>4. /\ pubKeyShares'[p] = NoKey /\ ~over'[p] /\ stage'[p] = "aba"
      /\ \A u \in Nodes : NoKey[u] = {}
      /\ \A q \in Nodes \ {p} : /\ known'[q] = known[q]
                                /\ stage'[q] = stage[q]
                                /\ pubKeyShares'[q] = pubKeyShares[q]
                                /\ over'[q] = over[q]
                                /\ share'[q] = share[q]
  BY <1>1, <1>3 DEF TypeOK, NoKey
<1>5. \A q \in Nodes \ {p} : T(q)' = T(q)
  BY <1>4 DEF T
<1>6. ASSUME NEW q \in Nodes PROVE CountInv(q)'
  <2>1. CASE q = p
    BY <1>1, <1>3, <1>4, <2>1 DEF CountInv
  <2>2. CASE q # p
    BY SMTT(30), <1>1, <1>3, <1>4, <1>5, <2>2 DEF CountInv
  <2> QED
    BY ZenonT(30), <2>1, <2>2
<1>7. LateInv(L)'
  BY SMTT(30), <1>2, <1>3, <1>4 DEF LateInv, Lacks
<1> QED
  BY <1>1, <1>6, <1>7 DEF IInv, LateInv

(* BFTDecided stores the share that was kept.                              *)
LEMMA DecidedStep ==
  ASSUME IInv, NEW p \in Nodes, BFTDecided(p)
  PROVE  IInv'
<1>1. TypeOK /\ TypeOK' /\ \A q \in Nodes : CountInv(q)
  BY TypeInductive DEF IInv, Next
<1>2. PICK L : LateInv(L)
  BY DEF IInv
<1>3. /\ UNCHANGED <<known, stage, pubKeyShares, over, share, sent, votes, expired>>
      /\ stored' = stored \/ (over[p] /\ stored' = [stored EXCEPT ![p] = share[p]])
  BY DEF BFTDecided
<1>4. \A q \in Nodes : T(q)' = T(q)
  BY <1>3 DEF T
<1>5. ASSUME NEW q \in Nodes PROVE CountInv(q)'
  <2>1. stored'[q] # {} => stored'[q] = Agreed
    BY <1>1, <1>3 DEF CountInv, TypeOK
  <2> QED
    BY <1>1, <1>3, <1>4, <2>1 DEF CountInv
<1>6. LateInv(L)'
  BY <1>2, <1>3 DEF LateInv, Lacks
<1> QED
  BY <1>1, <1>5, <1>6 DEF IInv, LateInv

(* The steps that touch nothing the invariant speaks of, and the end of    *)
(* the agreements, which only moves a node that has sent nothing yet.      *)
LEMMA OtherStep ==
  ASSUME IInv, [Next]_vars,
         UNCHANGED <<known, pubKeyShares, over, share, sent, stored, votes, expired>>,
         stage' = stage \/ \E p \in Nodes : LastDecision(p)
  PROVE  IInv'
<1>1. TypeOK /\ TypeOK' /\ \A q \in Nodes : CountInv(q)
  BY TypeInductive DEF IInv
<1>2. PICK L : LateInv(L)
  BY DEF IInv
<1>3. \A q \in Nodes : T(q)' = T(q)
  BY DEF T
<1>4. ASSUME NEW q \in Nodes
      PROVE  (q \in expired => stage'[q] = "aba") /\ (sent[q] # {} => stage'[q] = "derived" \/ q \in expired)
  BY SMTT(30), <1>1 DEF CountInv, LastDecision, TypeOK
<1>5. ASSUME NEW q \in Nodes PROVE CountInv(q)'
  BY <1>1, <1>3, <1>4 DEF CountInv
<1>6. LateInv(L)'
  BY <1>2 DEF LateInv, Lacks
<1> QED
  BY <1>1, <1>5, <1>6 DEF IInv, LateInv

(* Every step preserves the invariant.                                     *)
LEMMA InvInductive == IInv /\ [Next]_vars => IInv'
<1> SUFFICES ASSUME IInv, [Next]_vars PROVE IInv'
  OBVIOUS
<1>1. ASSUME NEW p \in Nodes, LastDecision(p) PROVE IInv'
  BY Zenon, <1>1, OtherStep DEF LastDecision, bft
<1>2. ASSUME NEW p \in Nodes, Crash(p) PROVE IInv'
  BY <1>2, OtherStep DEF Crash, bft, session
<1>3. ASSUME NEW s \in Nodes, NEW p \in Nodes, KeepShare(s, p) PROVE IInv'
  BY <1>3, OtherStep DEF KeepShare, bft
<1>4. ASSUME NEW s \in Nodes, NEW p \in Nodes, DropShare(s, p) PROVE IInv'
  BY <1>4, OtherStep DEF DropShare, bft, session
<1>5. ASSUME NEW key, DecideKey(key) PROVE IInv'
  BY <1>5, OtherStep DEF DecideKey, session
<1>6. CASE UNCHANGED vars
  BY <1>6, OtherStep DEF vars, session, bft
<1> QED
  BY <1>1, <1>2, <1>3, <1>4, <1>5, <1>6,
     CountStep, KeysetStep, SumStep, ExpireStep, DecidedStep DEF Next

(* The invariant holds in every behaviour of the key derivation.           *)
THEOREM InductiveInvariant == Spec => []IInv
BY InitialInv, InvInductive, PTL DEF Spec

-----------------------------------------------------------------------------
(* The theorems.                                                           *)

(* Whatever keysets the nodes hold when they sum, a share that is kept or  *)
(* stored is the share of the agreed dealers.                              *)
THEOREM ShareSafe == Spec => []ShareIsAgreed
<1>1. IInv => ShareIsAgreed
  BY DEF IInv, CountInv, ShareIsAgreed
<1> QED
  BY <1>1, InductiveInvariant, PTL

(* K equal votes are votes for the agreed key: the voters of a mixture     *)
(* were all late with one keyset.                                          *)
LEMMA EnoughVotes ==
  ASSUME IInv, NEW q \in Nodes, votes[q] # NoKey, VoteThreshold(votes[q])
  PROVE  votes[q] = AgreedKey
<1> SUFFICES ASSUME votes[q] # AgreedKey PROVE FALSE
  OBVIOUS
<1>1. PICK L : LateInv(L)
  BY DEF IInv
<1>2. KeyOrMixture(votes[q])
  BY DEF IInv, CountInv
<1>3. PICK u \in Nodes : votes[q][u] # {} /\ votes[q][u] # Agreed /\ votes[q][u] \subseteq Agreed
  BY <1>2 DEF KeyOrMixture
<1>4. PICK j \in Leaders : Lacks(votes[q][u], j)
  BY <1>3, AgreedCovered
<1>5. ASSUME NEW p \in Voters(votes[q]) PROVE p \in L[j]
  BY <1>1, <1>3, <1>4 DEF LateInv, Voters
<1>6. ~(Cardinality(Voters(votes[q])) >= K)
  BY <1>1, <1>5, FewLate
<1> QED
  BY <1>6 DEF VoteThreshold

(* The public key the BFT layer decides is the agreed one.                 *)
THEOREM DecidedKeySafe == Spec => []DecidedKeyIsAgreed
<1>1. Init => DecidedKeyIsAgreed
  BY SMTT(30) DEF Init, DecidedKeyIsAgreed
<1>2. IInv /\ DecidedKeyIsAgreed /\ [Next]_vars => DecidedKeyIsAgreed'
  <2> SUFFICES ASSUME IInv, DecidedKeyIsAgreed, [Next]_vars PROVE DecidedKeyIsAgreed'
    OBVIOUS
  <2>1. ASSUME NEW q \in Nodes, DecideKey(votes[q]) PROVE DecidedKeyIsAgreed'
    <3>1. decidedKey' = votes[q] /\ votes[q] = AgreedKey
      BY <2>1, EnoughVotes DEF DecideKey
    <3> QED
      BY <3>1 DEF DecidedKeyIsAgreed, AgreedKey
  <2>2. CASE decidedKey' = decidedKey
    BY <2>2 DEF DecidedKeyIsAgreed
  <2> QED
    BY ZenonT(30), <2>1, <2>2 DEF Next, vars, bft, OnKeysetVerified, LastDecision, KeyderivationInit,
       BFTDecided, Expire, Crash, KeepShare, DropShare, CountShare
<1> QED
  BY <1>1, <1>2, InductiveInvariant, PTL DEF Spec

(* Counting the shares and learning the decision, one node.                *)
LEMMA HandshakeStep ==
  ASSUME TypeOK, \A p \in Nodes : HandshakeInv(p), [Next]_vars
  PROVE  \A q \in Nodes : HandshakeInv(q)'
<1>1. ASSUME NEW p \in Nodes, BFTDecided(p), NEW q \in Nodes PROVE HandshakeInv(q)'
  <2>1. UNCHANGED <<over, share, pubKeyShares, expired>>
    BY ZenonT(30), <1>1 DEF BFTDecided
  <2>2. CASE q # p
    BY <1>1, <2>1, <2>2 DEF BFTDecided, TypeOK, HandshakeInv
  <2>3. CASE q = p
    <3>1. CASE over[p] /\ p \notin complete
      BY <1>1, <2>1, <2>3, <3>1 DEF BFTDecided, TypeOK, HandshakeInv
    <3>2. CASE p \in complete
      BY <1>1, <2>1, <2>3, <3>2 DEF BFTDecided, TypeOK, HandshakeInv
    <3>3. CASE ~over[p] /\ p \notin complete
      BY <1>1, <2>1, <2>3, <3>3 DEF BFTDecided, TypeOK, HandshakeInv
    <3> QED
      BY <3>1, <3>2, <3>3
  <2> QED
    BY <2>2, <2>3
<1>2. ASSUME NEW p \in Nodes, Expire(p), NEW q \in Nodes PROVE HandshakeInv(q)'
  <2>1. Senders(NoKey) = {} /\ ~KeyThreshold(NoKey)
    BY LeadersAssumption, FS_EmptySet DEF Senders, NoKey, KeyThreshold
  <2>2. CASE q # p
    BY <1>2, <2>2 DEF Expire, TypeOK, HandshakeInv, bft
  <2>3. CASE q = p
    BY SMTT(30), <1>2, <2>1, <2>3 DEF Expire, TypeOK, HandshakeInv, bft
  <2> QED
    BY <2>2, <2>3
<1>3. ASSUME NEW s \in Nodes, NEW p \in Nodes, CountShare(s, p), NEW q \in Nodes
      PROVE  HandshakeInv(q)'
  <2> DEFINE shares == [u \in Nodes |-> IF u \in {s} \cup Flush(p) THEN T(p)
                                        ELSE pubKeyShares[p][u]]
             finish == KeyThreshold(shares) /\ ~over[p]
  <2>1. /\ pubKeyShares' = [pubKeyShares EXCEPT ![p] = shares]
        /\ T(p) # {}
        /\ Store(p, finish)
        /\ UNCHANGED <<bftDecided, notified, expired>>
    BY <1>3 DEF CountShare
  <2> HIDE DEF shares
  <2>2. CASE q # p
    BY <2>1, <2>2 DEF Store, TypeOK, HandshakeInv
  <2>3. CASE q = p /\ finish /\ bftDecided[p]
    BY <2>1, <2>3 DEF Store, TypeOK, HandshakeInv
  <2>4. CASE q = p /\ finish /\ ~bftDecided[p]
    BY <2>1, <2>4 DEF Store, TypeOK, HandshakeInv
  <2>5. CASE q = p /\ ~finish
    <3>1. UNCHANGED <<stored, complete, share, over>>
      BY <2>1, <2>5 DEF Store
    <3>2. pubKeyShares'[p] = shares
      BY SMTT(30), <2>1 DEF TypeOK
    <3> QED
      BY <2>1, <2>5, <3>1, <3>2 DEF HandshakeInv
  <2> QED
    BY SMTT(30), <2>2, <2>3, <2>4, <2>5
<1>4. ASSUME UNCHANGED <<over, share, bftDecided, stored, complete, pubKeyShares, notified, expired>>,
             NEW q \in Nodes
      PROVE  HandshakeInv(q)'
  BY <1>4 DEF HandshakeInv
<1> QED
  BY Zenon, <1>1, <1>2, <1>3, <1>4 DEF Next, vars, session, bft, OnKeysetVerified, LastDecision,
     KeyderivationInit, Crash, KeepShare, DropShare, DecideKey

(* A node that counted K shares and learned of the decision, in either     *)
(* order, has stored its share.                                            *)
THEOREM HandshakeSafe == Spec => []NoStrandedShare
<1> DEFINE HInv == \A p \in Nodes : HandshakeInv(p)
<1>1. Init => HInv
  <2>1. ~KeyThreshold(NoKey)
    <3>1. Senders(NoKey) = {}
      BY DEF Senders, NoKey
    <3> QED
      BY <3>1, LeadersAssumption, FS_EmptySet DEF KeyThreshold
  <2> QED
    BY <2>1 DEF Init, HandshakeInv
<1>2. TypeOK /\ HInv /\ [Next]_vars => HInv'
  BY HandshakeStep
<1>3. TypeOK /\ HInv => NoStrandedShare
  BY DEF HandshakeInv, NoStrandedShare, TypeOK
<1> QED
  BY <1>1, <1>2, <1>3, TypeCorrect, PTL DEF Spec
=============================================================================
