------------------------------- MODULE MCAba -------------------------------
(* Aba for TLC.                                                            *)
EXTENDS Aba, Sequences, TLC

CONSTANTS n1, n2, n3, n4

SplitVotes == [p \in Nodes |-> IF p \in {n1, n2} THEN "0" ELSE "1"]
OneAgainst == [p \in Nodes |-> IF p = n1 THEN "0" ELSE "1"]

Before(p) ==
  CASE p = n1 -> {} [] p = n2 -> {n1} [] p = n3 -> {n1, n2} [] p = n4 -> {n1, n2, n3}

Total(p, r, k) == got[p][r][k]["0"] + got[p][r][k]["1"] + got[p][r][k]["2"]
Begun(r, k) == \E p \in Nodes : Total(p, r, k) > 0

(* The fourth sender of an est or est2 makes no difference.                *)
ThreeEsts ==
  \A p \in Nodes, r \in Rounds, v \in Values :
    got[p][r]["est"][v] <= 3 /\ got[p][r]["est2"][v] <= 3

-----------------------------------------------------------------------------
(* The nodes that take part go in step: a kind of message is handed out    *)
(* when the one before it has been.                                        *)

Live == Nodes \ crashed

EstsOut(r, k) ==
  \A p \in Live, v \in Values :
    got[p][r][k][v] = IF Senders(k, r, v) = Nodes THEN 3 ELSE Cardinality(Senders(k, r, v))

ThreeEach(r, k) == \A p \in Live : Total(p, r, k) = 3

(* Node by node, each gets three of the four messages.                     *)
InTurn(r, k) ==
  \A p \in Live :
    /\ Total(p, r, k) <= 3
    /\ Total(p, r, k) > 0 => \A q \in Before(p) : Total(q, r, k) = 3

InStep(r) ==
  /\ Begun(r, "aux") => EstsOut(r, "est")
  /\ Begun(r, "auxset") => ThreeEach(r, "aux")
  /\ Begun(r, "est2") => ThreeEach(r, "auxset")
  /\ Begun(r, "aux2") => EstsOut(r, "est2")
  /\ InTurn(r, "aux") /\ InTurn(r, "auxset") /\ InTurn(r, "aux2")

StartInTurn ==
  /\ \A p \in Nodes \ {n4} : 0 \in started[p] => \A q \in Before(p) : 0 \in started[q]
  /\ Begun(0, "est") => \A p \in Nodes : 0 \in started[p]

(* One vote against three, and n4 sends its est and stops before the       *)
(* others start.                                                           *)
OneStops ==
  /\ vote = OneAgainst /\ coin = "0"
  /\ n4 \in crashed => 0 \in started[n4]
  /\ n4 \in crashed \/ \A p \in Nodes \ {n4} : started[p] = {}
  /\ ThreeEsts /\ StartInTurn /\ InStep(0)

(* Orders of the est messages, as steps <<p, v, m, n>> in which p goes on  *)
(* from m to n senders of v.  In the first n1, n2 and n3 accept 0 first    *)
(* and n4 accepts 1 first, in the second n3 accepts 1 first too.           *)
ThreeFirst ==
  << <<n3, "0", 0, 3>>, <<n1, "0", 0, 3>>, <<n1, "1", 0, 3>>, <<n2, "0", 0, 3>>,
     <<n2, "1", 0, 3>>, <<n4, "1", 0, 3>>, <<n4, "0", 0, 3>>, <<n3, "1", 0, 3>> >>
TwoFirst ==
  << <<n3, "0", 0, 2>>, <<n1, "1", 0, 2>>, <<n1, "0", 0, 3>>, <<n2, "0", 0, 3>>,
     <<n3, "1", 0, 3>>, <<n4, "1", 0, 3>>, <<n4, "0", 0, 3>>, <<n3, "0", 2, 3>>,
     <<n1, "1", 2, 3>>, <<n2, "1", 0, 3>> >>

EstsInOrder(order) ==
  \A i \in 2..Len(order) :
    LET step == order[i] last == order[i - 1]
    IN  got[step[1]][0]["est"][step[2]] > step[3]
          => got[last[1]][0]["est"][last[2]] >= last[4]

(* The first half of round 0 in the second order, with aux and auxset      *)
(* messages of any three nodes.                                            *)
FirstHalf ==
  /\ vote = SplitVotes /\ coin = "0" /\ crashed = {}
  /\ ~Begun(0, "est2")
  /\ ThreeEsts /\ StartInTurn /\ InStep(0) /\ EstsInOrder(TwoFirst)

(* One way through the first half: n1, n2 and n3 report 0, n4 reports both *)
(* values, n1 and n2 take 0 to the second half and n3 and n4 take both.    *)
OneFirstHalf ==
  /\ EstsInOrder(ThreeFirst)
  /\ \A p \in Nodes :
       /\ sent[p][0]["auxset"] \subseteq IF p = n4 THEN {"2"} ELSE {"0"}
       /\ p = n4 \/ got[p][0]["aux"]["1"] = 0
       /\ Total(p, 0, "est2") = 0 =>
            sent[p][0]["est2"] \subseteq IF p \in {n1, n2} THEN {"0"} ELSE {"2"}

(* Node by node, each gets some messages, and then the rest.               *)
InTwoTurns(r, k, some, all) ==
  \A p \in Nodes :
    /\ Total(p, r, k) > 0 => \A q \in Before(p) : Total(q, r, k) >= some
    /\ Total(p, r, k) > some => /\ \A q \in Nodes : Total(q, r, k) >= some
                                /\ \A q \in Before(p) : Total(q, r, k) >= all

(* The second half of round 0, with est2 messages in any order but n1      *)
(* ahead of n2 and n3 of n4, and then round 1 or, where no node goes on to *)
(* it, the coin: two nodes send their shares, which one node after the     *)
(* other gets.                                                             *)
SecondHalf ==
  /\ vote = SplitVotes /\ coin = "0" /\ crashed = {}
  /\ ThreeEsts /\ StartInTurn /\ OneFirstHalf
  /\ Total(n2, 0, "est2") <= Total(n1, 0, "est2")
  /\ Total(n4, 0, "est2") <= Total(n3, 0, "est2")
  /\ InTwoTurns(1, "est", 2, 3) /\ InTwoTurns(1, "est2", 3, 3)
  /\ \A r \in Rounds : InStep(r)
  /\ LET tossers == {p \in Nodes : coinSent[p] # {}}
     IN  /\ Cardinality(tossers) <= 2
         /\ tossers # {} => ThreeEach(0, "aux2") /\ \A p \in Nodes : 1 \notin started[p]
         /\ \A p \in Nodes : coinShares[p] # {} =>
              Cardinality(tossers) = 2 /\ \A q \in Before(p) : coinShares[q] = tossers
  /\ \A p \in Nodes : 1 \in started[p] => ThreeEach(0, "aux2")
  /\ \A p \in Nodes : 1 \in started[p] \/ Begun(1, "est") =>
       \A q \in Before(p) : 1 \in started[q] \/ toStart[q] = {<<0, vote[q]>>}

(* The three ways through the agreement.                                   *)
ThreeWays == OneStops \/ FirstHalf \/ SecondHalf

(* Every node has all aux messages before it accepts its second value.     *)
AuxFirstBound ==
  LET allAux == \A p \in Nodes : Total(p, 0, "aux") = 4
  IN  /\ vote = SplitVotes /\ coin = "0" /\ StartInTurn
      /\ Begun(0, "aux") => \A p \in Nodes : sent[p][0]["aux"] = {vote[p]}
      /\ \A p \in Nodes : Total(p, 0, "aux") > 0 =>
           \A q \in Before(p) : Total(q, 0, "aux") = 4
      /\ \A p \in Nodes, v \in Bits :
           v = vote[p] \/ allAux \/ got[p][0]["est"][v] <= 2
=============================================================================
