-------------------------------- MODULE Aba --------------------------------
(***************************************************************************)
(* The binary agreement on the keyset of one leader:                       *)
(* keygen/message_handlers/aba.  A round has two halves.  In the first,    *)
(* est and aux messages filter the values some node voted for, and an      *)
(* auxset message reports whether a node saw one value or both ("2").  In  *)
(* the second, est2 and aux2 messages do the same with these reports: a    *)
(* node that sees one value decides it, one that sees a value and "2"      *)
(* takes the value to the next round, and one that sees only "2" tosses    *)
(* the common coin and decides what it shows.                              *)
(*                                                                         *)
(* ABAState.Round is never incremented, so the next round is always 1 and  *)
(* there are two rounds.                                                   *)
(*                                                                         *)
(* Abstractions.                                                           *)
(*  - The list of senders a store keeps for a message is its length: a     *)
(*    handler ignores a sender that is in the list and reads nothing but   *)
(*    the length, so a message counts iff some sender is not yet counted.  *)
(*  - Bin and bin2 are sets; their first element is what the node sent in  *)
(*    its aux or aux2 message, which is repeated when another follows.     *)
(*  - The coin is the same for all nodes.  A node without the leader's     *)
(*    keyset waits for it and drops coin messages after 20 seconds: it     *)
(*    does not take the coin actions.                                      *)
(*  - A node that cleaned the keygen up ignores all messages, as one that  *)
(*    stopped does.                                                        *)
(***************************************************************************)
EXTENDS Naturals, FiniteSets

CONSTANTS
  Nodes,     \* the participants
  F,         \* Params() returns it third
  Crashers   \* nodes that may stop

ASSUME NodesAssumption ==
  /\ IsFiniteSet(Nodes)
  /\ F \in Nat
  /\ Crashers \subseteq Nodes

(* Two quorums of n-F nodes have a node in common.                         *)
ASSUME ParamsAssumption == Cardinality(Nodes) > 2 * F

Bits == {"0", "1"}
Values == {"0", "1", "2"}
Kinds == {"est", "aux", "auxset", "est2", "aux2"}
Rounds == {0, 1}

(* GetRound(): Round is zero for good.                                     *)
GetRound == 0

VARIABLES
  vote,        \* the vote of each node's first aba_init
  toStart,     \* aba_init messages a node has sent itself: round and value
  started,     \* Started
  sent,        \* the values a node has broadcast, by round and kind
  got,         \* the number of senders in Values(kind, r, v)
  bin,         \* BinValues
  bin2,        \* BinValues2
  coin,        \* what the coin of round 0 shows
  coinInit,    \* rounds for which aba_coin_init was sent to self
  coinSent,    \* rounds for which the node's coin share was broadcast
  coinShares,  \* CoinShares: senders of verified shares
  decision,    \* Decisions[leader] of the session
  byCoin,      \* nodes that decided by the coin
  crashed      \* nodes that have stopped

coins == <<coin, coinInit, coinSent, coinShares>>
vars == <<vote, toStart, started, sent, got, bin, bin2, coins, decision, byCoin,
          crashed>>

TypeOK ==
  /\ vote \in [Nodes -> Bits]
  /\ toStart \in [Nodes -> SUBSET (Rounds \X Bits)]
  /\ started \in [Nodes -> SUBSET Rounds]
  /\ sent \in [Nodes -> [Rounds -> [Kinds -> SUBSET Values]]]
  /\ got \in [Nodes -> [Rounds -> [Kinds -> [Values -> Nat]]]]
  /\ bin \in [Nodes -> [Rounds -> SUBSET Values]]
  /\ bin2 \in [Nodes -> [Rounds -> SUBSET Values]]
  /\ coin \in Bits
  /\ coinInit \in [Nodes -> SUBSET Rounds]
  /\ coinSent \in [Nodes -> SUBSET Rounds]
  /\ coinShares \in [Nodes -> SUBSET Nodes]
  /\ decision \in [Nodes -> {"none"} \cup Bits]
  /\ byCoin \in SUBSET Nodes
  /\ crashed \in SUBSET Nodes

Init ==
  /\ vote \in [Nodes -> Bits]
  /\ toStart = [p \in Nodes |-> {<<0, vote[p]>>}]
  /\ started = [p \in Nodes |-> {}]
  /\ sent = [p \in Nodes |-> [r \in Rounds |-> [k \in Kinds |-> {}]]]
  /\ got = [p \in Nodes |-> [r \in Rounds |-> [k \in Kinds |-> [v \in Values |-> 0]]]]
  /\ bin = [p \in Nodes |-> [r \in Rounds |-> {}]]
  /\ bin2 = [p \in Nodes |-> [r \in Rounds |-> {}]]
  /\ coin \in Bits
  /\ coinInit = [p \in Nodes |-> {}]
  /\ coinSent = [p \in Nodes |-> {}]
  /\ coinShares = [p \in Nodes |-> {}]
  /\ decision = [p \in Nodes |-> "none"]
  /\ byCoin = {}
  /\ crashed = {}

-----------------------------------------------------------------------------
(* Messages.                                                               *)

Senders(k, r, v) == {s \in Nodes : v \in sent[s][r][k]}

(* A message of a sender p has not counted reaches p.                      *)
Receives(p, k, r, v) ==
  /\ p \notin crashed
  /\ got[p][r][k][v] < Cardinality(Senders(k, r, v))

(* SetValues: one more sender of v.                                        *)
Count(p, k, r, v) == got' = [got EXCEPT ![p][r][k][v] = @ + 1]

(* What p has counted of kind k once this message is counted.              *)
Counted(p, k, r, v) == [got[p][r][k] EXCEPT ![v] = @ + 1]

QuorumOfF == F + 1

Quorum == Cardinality(Nodes) - F

(* InitMessage: start round r with the estimate v.                         *)
InitMessage(p, r, v) ==
  /\ p \notin crashed
  /\ <<r, v>> \in toStart[p]
  /\ r \notin started[p]
  /\ started' = [started EXCEPT ![p] = @ \cup {r}]
  /\ sent' = [sent EXCEPT ![p][r]["est"] = @ \cup {v}]
  /\ UNCHANGED <<vote, toStart, got, bin, bin2, coins, decision, byCoin, crashed>>

AmplifiesAtF(count) == count >= F

Amplifies(count) == count >= F + 1
Accepts(count) == count = 2 * F + 1

(* What an est (est2) message makes p broadcast: the value itself with F+1 *)
(* senders, and with 2F+1, an aux (aux2) of the first value accepted.      *)
SendEst(p, r, v, est, aux, accepted, count) ==
  sent' = [sent EXCEPT
    ![p][r][est] = IF Amplifies(count) THEN @ \cup {v} ELSE @,
    ![p][r][aux] = IF Accepts(count) /\ accepted = {} THEN {v} ELSE @]

Est1Message(p, r, v) ==
  LET count == got[p][r]["est"][v] + 1
  IN  /\ Receives(p, "est", r, v)
      /\ Count(p, "est", r, v)
      /\ SendEst(p, r, v, "est", "aux", bin[p][r], count)
      /\ bin' = IF Accepts(count) THEN [bin EXCEPT ![p][r] = @ \cup {v}] ELSE bin
      /\ UNCHANGED <<vote, toStart, started, bin2, coins, decision, byCoin, crashed>>

(* The report on the aux messages: one value, both, or not yet any.        *)
AuxsetValue(values, count) ==
  IF "1" \in values /\ count["1"] >= Quorum THEN {"1"}
  ELSE IF "0" \in values /\ count["0"] >= Quorum THEN {"0"}
  ELSE IF Bits \subseteq values /\ count["0"] + count["1"] >= Quorum THEN {"2"}
  ELSE {}

(* One report per round: Sent("auxset") does not look at the value.        *)
Aux1Message(p, r, v) ==
  LET report == AuxsetValue(bin[p][r], Counted(p, "aux", r, v))
  IN  /\ Receives(p, "aux", r, v)
      /\ Count(p, "aux", r, v)
      /\ sent' = IF sent[p][r]["auxset"] = {}
                 THEN [sent EXCEPT ![p][r]["auxset"] = report] ELSE sent
      /\ UNCHANGED <<vote, toStart, started, bin, bin2, coins, decision, byCoin,
                     crashed>>

(* The estimate of the second half.                                        *)
Est2Value(values, count) ==
  IF "1" \in values /\ count["1"] >= Quorum THEN {"1"}
  ELSE IF "0" \in values /\ count["0"] >= Quorum THEN {"0"}
  ELSE IF Bits \subseteq values /\ count["0"] + count["1"] + count["2"] >= Quorum
  THEN {"2"}
  ELSE {}

AuxsetMessage(p, r, v) ==
  LET est2 == Est2Value(bin[p][r], Counted(p, "auxset", r, v))
  IN  /\ Receives(p, "auxset", r, v)
      /\ Count(p, "auxset", r, v)
      /\ sent' = [sent EXCEPT ![p][r]["est2"] = @ \cup est2]
      /\ UNCHANGED <<vote, toStart, started, bin, bin2, coins, decision, byCoin,
                     crashed>>

Est2Message(p, r, v) ==
  LET count == got[p][r]["est2"][v] + 1
  IN  /\ Receives(p, "est2", r, v)
      /\ Count(p, "est2", r, v)
      /\ SendEst(p, r, v, "est2", "aux2", bin2[p][r], count)
      /\ bin2' = IF Accepts(count) THEN [bin2 EXCEPT ![p][r] = @ \cup {v}] ELSE bin2
      /\ UNCHANGED <<vote, toStart, started, bin, coins, decision, byCoin, crashed>>

Values2Swapped(values, count) ==
  IF "1" \in values /\ count["1"] >= Quorum THEN {"1"}
  ELSE IF "0" \in values /\ count["0"] >= Quorum THEN {"0"}
  ELSE IF "2" \in values /\ count["2"] >= Quorum THEN {"2"}
  ELSE IF {"0", "2"} \subseteq values /\ count["2"] + count["0"] >= Quorum
  THEN {"1", "2"}
  ELSE {}

Values2OrToss(values, count) ==
  IF "1" \in values /\ count["1"] >= Quorum THEN {"1"}
  ELSE IF "0" \in values /\ count["0"] >= Quorum THEN {"0"}
  ELSE IF {"0", "2"} \subseteq values /\ count["2"] + count["0"] >= Quorum
  THEN {"0", "2"}
  ELSE IF {"1", "2"} \subseteq values /\ count["2"] + count["1"] >= Quorum
  THEN {"1", "2"}
  ELSE {"2"}

(* values2 of the aux2 handler.                                            *)
Values2(values, count) ==
  IF "1" \in values /\ count["1"] >= Quorum THEN {"1"}
  ELSE IF "0" \in values /\ count["0"] >= Quorum THEN {"0"}
  ELSE IF "2" \in values /\ count["2"] >= Quorum THEN {"2"}
  ELSE IF {"0", "2"} \subseteq values /\ count["2"] + count["0"] >= Quorum
  THEN {"0", "2"}
  ELSE IF {"1", "2"} \subseteq values /\ count["2"] + count["1"] >= Quorum
  THEN {"1", "2"}
  ELSE {}

(* The value to decide, if values2 holds nothing else.                     *)
Single(values2) == {w \in Bits : values2 = {w}}

(* One value decides, "2" tosses the coin, a value and "2" go on.          *)
Aux2Message(p, r, v) ==
  LET values2 == Values2(bin2[p][r], Counted(p, "aux2", r, v))
  IN  /\ Receives(p, "aux2", r, v)
      /\ Count(p, "aux2", r, v)
      /\ decision' = [decision EXCEPT ![p] =
           IF @ = "none" /\ Single(values2) # {}
           THEN CHOOSE w \in Single(values2) : TRUE ELSE @]
      /\ coinInit' = [coinInit EXCEPT ![p] = IF values2 = {"2"} THEN @ \cup {r} ELSE @]
      /\ toStart' = [toStart EXCEPT ![p] =
           @ \cup {<<GetRound + 1, w>> : w \in {w \in Bits : values2 = {w, "2"}}}]
      /\ UNCHANGED <<vote, started, sent, bin, bin2, coin, coinSent, coinShares,
                     byCoin, crashed>>

-----------------------------------------------------------------------------
(* The coin.                                                               *)

(* CoinInitMessage: broadcast the share of p.                              *)
CoinInitMessage(p, r) ==
  /\ p \notin crashed
  /\ r \in coinInit[p] \ coinSent[p]
  /\ coinSent' = [coinSent EXCEPT ![p] = @ \cup {r}]
  /\ UNCHANGED <<vote, toStart, started, sent, got, bin, bin2, coin, coinInit,
                 coinShares, decision, byCoin, crashed>>

(* CoinMessage of s at p: a share verifies for the coin of GetRound(), and *)
(* the F+1st share decides.                                                *)
CoinMessage(p, s) ==
  LET shares == coinShares[p] \cup {s}
      decides == Cardinality(shares) = F + 1 /\ decision[p] = "none"
  IN  /\ p \notin crashed
      /\ GetRound \in coinSent[s]
      /\ coinShares' = [coinShares EXCEPT ![p] = shares]
      /\ decision' = IF decides THEN [decision EXCEPT ![p] = coin] ELSE decision
      /\ byCoin' = IF decides THEN byCoin \cup {p} ELSE byCoin
      /\ UNCHANGED <<vote, toStart, started, sent, got, bin, bin2, coin, coinInit,
                     coinSent, crashed>>

(* The process of p stops.                                                 *)
Crash(p) ==
  /\ p \in Crashers /\ p \notin crashed
  /\ crashed' = crashed \cup {p}
  /\ UNCHANGED <<vote, toStart, started, sent, got, bin, bin2, coins, decision,
                 byCoin>>

Next ==
  \/ \E p \in Nodes, r \in Rounds, v \in Bits : InitMessage(p, r, v)
  \/ \E p \in Nodes, r \in Rounds, v \in Values :
       \/ Est1Message(p, r, v) \/ Aux1Message(p, r, v) \/ AuxsetMessage(p, r, v)
       \/ Est2Message(p, r, v) \/ Aux2Message(p, r, v)
  \/ \E p \in Nodes, r \in Rounds : CoinInitMessage(p, r)
  \/ \E p, s \in Nodes : CoinMessage(p, s)
  \/ \E p \in Nodes : Crash(p)

Spec == Init /\ [][Next]_vars

(* A node handles its own messages, and what a node sends arrives once.    *)
Fairness ==
  \A p \in Nodes :
    /\ \A r \in Rounds :
         /\ \A v \in Bits : WF_vars(InitMessage(p, r, v))
         /\ \A v \in Values :
              /\ WF_vars(Est1Message(p, r, v))
              /\ WF_vars(Aux1Message(p, r, v))
              /\ WF_vars(AuxsetMessage(p, r, v))
              /\ WF_vars(Est2Message(p, r, v))
              /\ WF_vars(Aux2Message(p, r, v))
         /\ WF_vars(CoinInitMessage(p, r))
    /\ \A s \in Nodes : WF_vars(CoinMessage(p, s))

FairSpec == Spec /\ Fairness

-----------------------------------------------------------------------------
(* Properties.                                                             *)

(* The nodes that have voted v.                                            *)
Voters(v) == {q \in Nodes : 0 \in started[q] /\ vote[q] = v}

(* F+1 nodes have voted for a decided value, also when the coin decides:   *)
(* the votes of F nodes that missed a dealing come to nothing.  Keyset     *)
(* builds on it: MayDecide.                                                *)
Validity ==
  \A p \in Nodes : decision[p] # "none" => Cardinality(Voters(decision[p])) >= F + 1

(* No round has both 0 and 1 in its second half: a node reports once per   *)
(* round, and two quorums of reports share a node.                         *)
SecondHalfConsistent ==
  \A p, q \in Nodes, r \in Rounds :
    ~("0" \in sent[p][r]["est2"] /\ "1" \in sent[q][r]["est2"])

(* Nodes that decide without the coin decide the same value, in whichever  *)
(* of the two rounds.                                                      *)
DirectAgreement ==
  \A p, q \in Nodes \ byCoin :
    decision[p] # "none" /\ decision[q] # "none" => decision[p] = decision[q]

(* Only round 0 is ever settled by the coin: the values that reach round 1 *)
(* are the same.  CoinMessage checks every share against the coin of round *)
(* 0 (GetRound), so that a share of round 1 would not verify and its nodes *)
(* would wait for good.                                                    *)
CoinOnlyInRoundZero == \A p \in Nodes : coinInit[p] \subseteq {GetRound}

(* Every node decides, as TestKeygen needs it to finish (keygen_test.go:98 *)
(* and :137).                                                              *)
EveryNodeDecides == <>(\A p \in Nodes : decision[p] # "none")
=============================================================================
