--------------------------- MODULE KeyDerivation ---------------------------
(***************************************************************************)
(* The end of one key generation: keygen/message_handlers/keyderivation    *)
(* and its handshake with the BFT decision on the public key (BFTDecided   *)
(* in keygen_node.go).  The model starts when the outcomes of all the      *)
(* binary agreements are fixed: Leaders are the ones that decided 1 and    *)
(* Keyset gives the dealers each of them proposed.  A node sums the shares *)
(* of the dealers in the union of the keysets it holds, broadcasts the     *)
(* result in the exponent, checks the results of its peers against the     *)
(* same union, interpolates the public key from K of them, and stores its  *)
(* share when the public key is decided.                                   *)
(*                                                                         *)
(* Nothing makes a node wait for the keysets: T[j] is set when the node    *)
(* verifies the proposal of j, which may be before or after it sums.       *)
(*                                                                         *)
(* Abstractions.                                                           *)
(*  - A share, and a point computed from it, is the set of dealers it is   *)
(*    the sum of: a proof verifies iff sender and receiver used one set.   *)
(*  - A public key interpolated from shares of one set is the same for any *)
(*    K senders; from shares of several sets it is a point of its own.     *)
(***************************************************************************)
EXTENDS Naturals, FiniteSets

CONSTANTS
  Nodes,     \* the participants, all of them dealers and leaders
  F,         \* Params() returns it third
  K,         \* Params() returns it second; also the threshold of the BFT vote
  Leaders,   \* leaders whose binary agreement decided 1
  Keyset,    \* the dealers each of these leaders proposed
  Crashers,  \* nodes that may stop
  Expirers,  \* nodes whose janitor may remove the session
  Waiting    \* senders whose message's handler may look the session up
             \* before Cleanup and lock it after

ASSUME LeadersAssumption ==
  /\ IsFiniteSet(Nodes)
  /\ F \in Nat
  /\ K \in Nat \ {0}
  /\ Leaders \subseteq Nodes
  /\ Keyset \in [Leaders -> SUBSET Nodes]
  /\ Crashers \cup Expirers \cup Waiting \subseteq Nodes

(* What the epoch's parameters have to satisfy for the nodes that lack a   *)
(* keyset to be fewer than K; n = 3f + 1 with k = f + 1 does.              *)
ASSUME ParamsAssumption == Cardinality(Nodes) <= 2 * F + K

VARIABLES
  known,         \* leaders j for which T[j] is in the node's session
  stage,         \* "aba": not all decided; "decided": key_derivation_init is
                 \* on its way; "derived": it was handled
  rejected,      \* senders whose share failed its check at the node
  sent,          \* dealers in the node's key_derivation_share, {} if not sent
  unverified,    \* senders in PubKeySharesUnverified
  pubKeyShares,  \* PubKeyShares: the dealers of each sender's share, or {}
  over,          \* Over
  share,         \* Share
  bftDecided,    \* BFTDecided
  stored,        \* the dealers of the share in the database, {} if none
  complete,      \* nodes whose session is complete (nil)
  votes,         \* the public key each node sent to the BFT layer
  decidedKey,    \* the public key the BFT layer decided
  notified,      \* nodes whose BFT layer has called BFTDecided
  crashed,       \* nodes that have stopped
  expired        \* nodes whose janitor has removed the session

session == <<known, stage, unverified, pubKeyShares, over, share, bftDecided>>
bft == <<votes, decidedKey, notified>>
vars == <<session, rejected, sent, stored, complete, bft, crashed, expired>>

(* No public key: the value of votes and decidedKey before there is one.   *)
NoKey == [s \in Nodes |-> {}]

TypeOK ==
  /\ known \in [Nodes -> SUBSET Leaders]
  /\ stage \in [Nodes -> {"aba", "decided", "derived"}]
  /\ sent \in [Nodes -> SUBSET Nodes]
  /\ rejected \in [Nodes -> SUBSET Nodes]
  /\ unverified \in [Nodes -> SUBSET Nodes]
  /\ pubKeyShares \in [Nodes -> [Nodes -> SUBSET Nodes]]
  /\ over \in [Nodes -> BOOLEAN]
  /\ share \in [Nodes -> SUBSET Nodes]
  /\ bftDecided \in [Nodes -> BOOLEAN]
  /\ stored \in [Nodes -> SUBSET Nodes]
  /\ complete \in SUBSET Nodes
  /\ votes \in [Nodes -> [Nodes -> SUBSET Nodes]]
  /\ decidedKey \in [Nodes -> SUBSET Nodes]
  /\ notified \in SUBSET Nodes
  /\ crashed \in SUBSET Nodes
  /\ expired \in SUBSET Nodes

(* The dealers of a set of keysets.                                        *)
Dealers(J) == UNION {Keyset[j] : j \in J}

(* The union of the keysets p holds of the leaders that decided 1.         *)
T(p) == Dealers(known[p])

(* The nodes that have not verified the keyset of j.                       *)
Lacking(j) == {p \in Nodes : j \notin known[p]}

(* A leader holds its own keyset, and an agreement decides 1 only after    *)
(* 2F+1 nodes verified it (proved of Keyset).                              *)
KeysetQuorum(j) ==
  /\ j \in known[j]
  /\ Cardinality(Nodes \ Lacking(j)) >= 2 * F + 1

Init ==
  /\ known \in [Nodes -> SUBSET Leaders]
  /\ \A j \in Leaders : KeysetQuorum(j)
  /\ stage = [p \in Nodes |-> "aba"]
  /\ sent = [p \in Nodes |-> {}]
  /\ rejected = [p \in Nodes |-> {}]
  /\ unverified = [p \in Nodes |-> {}]
  /\ pubKeyShares = [p \in Nodes |-> NoKey]
  /\ over = [p \in Nodes |-> FALSE]
  /\ share = [p \in Nodes |-> {}]
  /\ bftDecided = [p \in Nodes |-> FALSE]
  /\ stored = [p \in Nodes |-> {}]
  /\ complete = {}
  /\ votes = [p \in Nodes |-> NoKey]
  /\ decidedKey = NoKey
  /\ notified = {}
  /\ crashed = {}
  /\ expired = {}

-----------------------------------------------------------------------------
(* The session of one node.                                                *)

(* p runs, and its handler for a message of s has the session: it was not  *)
(* complete when the handler looked it up.                                 *)
HasSession(s, p) == p \notin crashed /\ (p \in complete => s \in Waiting)

(* OnKeysetVerified at p for the proposal of j.                            *)
OnKeysetVerified(p, j) ==
  /\ HasSession(j, p) /\ p \notin expired
  /\ j \notin known[p]
  /\ known' = [known EXCEPT ![p] = @ \cup {j}]
  /\ UNCHANGED <<stage, unverified, pubKeyShares, over, share, bftDecided,
                 rejected, sent, stored, complete, bft, crashed, expired>>

(* The last agreement decides at p: key_derivation_init is sent to self.   *)
LastDecision(p) ==
  /\ HasSession(p, p) /\ p \notin expired
  /\ stage[p] = "aba"
  /\ stage' = [stage EXCEPT ![p] = "decided"]
  /\ UNCHANGED <<known, unverified, pubKeyShares, over, share, bftDecided,
                 rejected, sent, stored, complete, bft, crashed, expired>>

(* InitMessage at p: broadcast the sum, unless there is nothing to sum.    *)
KeyderivationInit(p) ==
  /\ HasSession(p, p)
  /\ stage[p] = "decided"
  /\ stage' = [stage EXCEPT ![p] = "derived"]
  /\ sent' = [sent EXCEPT ![p] = T(p)]
  /\ UNCHANGED <<known, unverified, pubKeyShares, over, share, bftDecided,
                 rejected, stored, complete, bft, crashed, expired>>

-----------------------------------------------------------------------------
(* ShareMessage of s at p.                                                 *)

(* The proof of s verifies against the dealers p would sum now.            *)
ShareVerified(s, p) == sent[s] = T(p)

FlushNone(p) == {}

(* ProcessUnverifiedShares: the early shares that verify now.              *)
Flush(p) == {u \in unverified[p] : ShareVerified(u, p)}

Senders(shares) == {s \in Nodes : shares[s] # {}}

KeyThresholdOffByOne(shares) == Cardinality(Senders(shares)) + 1 >= K

KeyThreshold(shares) == Cardinality(Senders(shares)) >= K

(* LagrangeCoeffs and the sum: the key the shares interpolate to.          *)
PublicKey(shares) ==
  IF \A s, t \in Senders(shares) : shares[s] = shares[t]
  THEN [s \in Nodes |-> UNION {shares[t] : t \in Nodes}]
  ELSE shares

ShareArrives(s, p) == HasSession(s, p) /\ sent[s] # {}

(* Too early: not all agreements have decided at p.                        *)
KeepShare(s, p) ==
  /\ ShareArrives(s, p)
  /\ stage[p] = "aba"
  /\ unverified' = [unverified EXCEPT ![p] = @ \cup {s}]
  /\ UNCHANGED <<known, stage, pubKeyShares, over, share, bftDecided,
                 rejected, sent, stored, complete, bft, crashed, expired>>

(* The check fails, or p has nothing to check against.                     *)
DropShare(s, p) ==
  /\ ShareArrives(s, p)
  /\ stage[p] # "aba"
  /\ T(p) = {} \/ ~ShareVerified(s, p)
  /\ rejected' = [rejected EXCEPT ![p] = @ \cup {s}]
  /\ UNCHANGED <<session, sent, stored, complete, bft, crashed, expired>>

StoreForLater(p, finish) ==
  /\ share' = IF finish THEN [share EXCEPT ![p] = T(p)] ELSE share
  /\ over' = IF finish THEN [over EXCEPT ![p] = TRUE] ELSE over
  /\ UNCHANGED <<stored, complete>>

(* The share is ready: store it and clean up if the key was decided, else  *)
(* leave it to BFTDecided.                                                 *)
Store(p, finish) ==
  LET now == finish /\ bftDecided[p]
      later == finish /\ ~bftDecided[p]
  IN  /\ stored' = IF now THEN [stored EXCEPT ![p] = T(p)] ELSE stored
      /\ complete' = IF now THEN complete \cup {p} ELSE complete
      /\ share' = IF later THEN [share EXCEPT ![p] = T(p)] ELSE share
      /\ over' = IF later THEN [over EXCEPT ![p] = TRUE] ELSE over

(* The share verifies: count it with the early ones and derive the key.    *)
CountShare(s, p) ==
  LET valid == {s} \cup Flush(p)
      shares == [u \in Nodes |-> IF u \in valid THEN T(p) ELSE pubKeyShares[p][u]]
      finish == KeyThreshold(shares) /\ ~over[p]
  IN  /\ ShareArrives(s, p)
      /\ stage[p] # "aba"
      /\ T(p) # {}
      /\ ShareVerified(s, p)
      /\ pubKeyShares' = [pubKeyShares EXCEPT ![p] = shares]
      /\ unverified' = [unverified EXCEPT ![p] = @ \ Flush(p)]
      /\ Store(p, finish)
      /\ votes' = IF finish /\ votes[p] = NoKey
                  THEN [votes EXCEPT ![p] = PublicKey(shares)] ELSE votes
      /\ UNCHANGED <<known, stage, bftDecided, rejected, sent, decidedKey, notified,
                     crashed, expired>>

-----------------------------------------------------------------------------
(* The BFT layer and the node.                                             *)

Voters(key) == {p \in Nodes : votes[p] = key}

VoteThresholdOfOne(key) == Cardinality(Voters(key)) >= 1

VoteThreshold(key) == Cardinality(Voters(key)) >= K

(* K nodes sent one public key; the first such key is decided.             *)
DecideKey(key) ==
  /\ decidedKey = NoKey /\ key # NoKey
  /\ VoteThreshold(key)
  /\ decidedKey' = key
  /\ UNCHANGED <<session, rejected, sent, stored, complete, votes, notified, crashed, expired>>

(* BFTDecided at p, called by its BFT layer once the key is decided.       *)
BFTDecided(p) ==
  /\ p \notin crashed
  /\ decidedKey # NoKey
  /\ notified' = notified \cup {p}
  /\ stored' = IF over[p] /\ p \notin complete
               THEN [stored EXCEPT ![p] = share[p]] ELSE stored
  /\ complete' = IF over[p] THEN complete \cup {p} ELSE complete
  /\ bftDecided' = IF over[p] \/ p \in complete
                   THEN bftDecided ELSE [bftDecided EXCEPT ![p] = TRUE]
  /\ UNCHANGED <<known, stage, unverified, pubKeyShares, over, share,
                 rejected, sent, votes, decidedKey, crashed, expired>>

(* The janitor deletes the session; a later message makes a fresh one,     *)
(* whose agreements will not decide again.                                 *)
Expire(p) ==
  /\ p \in Expirers /\ p \notin crashed /\ p \notin expired
  /\ expired' = expired \cup {p}
  /\ complete' = complete \ {p}
  /\ known' = [known EXCEPT ![p] = {}]
  /\ stage' = [stage EXCEPT ![p] = "aba"]
  /\ unverified' = [unverified EXCEPT ![p] = {}]
  /\ pubKeyShares' = [pubKeyShares EXCEPT ![p] = NoKey]
  /\ over' = [over EXCEPT ![p] = FALSE]
  /\ share' = [share EXCEPT ![p] = {}]
  /\ bftDecided' = [bftDecided EXCEPT ![p] = FALSE]
  /\ UNCHANGED <<rejected, sent, stored, bft, crashed>>

(* The process of p stops.                                                 *)
Crash(p) ==
  /\ p \in Crashers /\ p \notin crashed
  /\ crashed' = crashed \cup {p}
  /\ UNCHANGED <<session, rejected, sent, stored, complete, bft, expired>>

Next ==
  \/ \E p \in Nodes, j \in Leaders : OnKeysetVerified(p, j)
  \/ \E p \in Nodes : \/ LastDecision(p) \/ KeyderivationInit(p)
                      \/ BFTDecided(p) \/ Expire(p) \/ Crash(p)
  \/ \E s, p \in Nodes : KeepShare(s, p) \/ DropShare(s, p) \/ CountShare(s, p)
  \/ \E key \in {votes[p] : p \in Nodes} : DecideKey(key)

Spec == Init /\ [][Next]_vars

(* A share that has not reached p: kept and rejected ones do not come      *)
(* again.                                                                  *)
Deliver(s, p) ==
  /\ s \notin crashed \cup unverified[p] \cup rejected[p]
  /\ KeepShare(s, p) \/ DropShare(s, p) \/ CountShare(s, p)

(* The agreements end, a node handles its own messages, a share of a node  *)
(* that stays up arrives once, and the BFT layer decides a key with enough *)
(* votes and tells every node.                                             *)
Fairness ==
  /\ \A p \in Nodes :
       /\ WF_vars(LastDecision(p))
       /\ WF_vars(KeyderivationInit(p))
       /\ WF_vars(BFTDecided(p))
       /\ \A s \in Nodes : WF_vars(Deliver(s, p))
       /\ \A j \in Leaders : WF_vars(OnKeysetVerified(p, j))
  /\ WF_vars(\E key \in {votes[p] : p \in Nodes} : DecideKey(key))

FairSpec == Spec /\ Fairness

-----------------------------------------------------------------------------
(* Properties.                                                             *)

(* The dealers all nodes would sum if they held every keyset.              *)
Agreed == Dealers(Leaders)

(* A share that is kept for the BFT layer or stored is the share of the    *)
(* agreed dealers, though nodes sum whatever keysets they hold and a late  *)
(* proposal changes the sum between two share messages: fewer than K nodes *)
(* can lack a keyset, so a node that lacks one never counts K shares.      *)
ShareIsAgreed ==
  \A p \in Nodes :
    /\ stored[p] # {} => stored[p] = Agreed
    /\ over[p] => share[p] = Agreed

(* The decided public key is the one of the agreed dealers: keys           *)
(* interpolated from a mixture of shares never gather K votes.             *)
DecidedKeyIsAgreed == decidedKey \in {NoKey, [s \in Nodes |-> Agreed]}

(* No share is left behind: in whichever order a node counts its K shares  *)
(* and learns the decision, it has stored its share once both happened.    *)
NoStrandedShare ==
  \A p \in notified \ expired :
    KeyThreshold(pubKeyShares[p]) => stored[p] # {}

(* When every node holds every keyset before the agreements end, every     *)
(* node that stays up and keeps its session stores its share.              *)
EveryNodeStores ==
  (\A p \in Nodes : known[p] = Leaders)
    => <>(\A p \in Nodes \ (Crashers \cup expired) : stored[p] # {})
=============================================================================
