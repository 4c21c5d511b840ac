----------------------------- MODULE AbaProofs -----------------------------
(***************************************************************************)
(* Proofs about Aba: F+1 nodes voted for a decision, a second half         *)
(* never has both values, and nodes that decide without the coin agree.    *)
(***************************************************************************)
EXTENDS Aba, FiniteSetTheorems, TLAPS

Sent == [Nodes -> [Rounds -> [Kinds -> SUBSET Values]]]
Got == [Nodes -> [Rounds -> [Kinds -> [Values -> Nat]]]]

-----------------------------------------------------------------------------
(* Updates of the stores.                                                  *)

(* Counting a message adds one to one entry of got.                        *)
LEMMA GotUpdate ==
  ASSUME NEW g \in Got, NEW p \in Nodes, NEW r \in Rounds, NEW k \in Kinds,
         NEW v \in Values, NEW h, h = [g EXCEPT ![p][r][k][v] = @ + 1]
  PROVE  /\ h \in Got
         /\ \A q \in Nodes, u \in Rounds, l \in Kinds, w \in Values :
              h[q][u][l][w] = IF q = p /\ u = r /\ l = k /\ w = v
                              THEN g[q][u][l][w] + 1 ELSE g[q][u][l][w]
  BY DEF Got

(* A message that is received has a sender.                                *)
LEMMA HasSender ==
  ASSUME TypeOK, NEW p \in Nodes, NEW r \in Rounds, NEW k \in Kinds,
         NEW v \in Values, Receives(p, k, r, v)
  PROVE  \E s \in Nodes : v \in sent[s][r][k]
  <1>1. got[p][r][k][v] \in Nat
    BY DEF TypeOK
  <1>2. Senders(k, r, v) # {}
    BY <1>1, FS_EmptySet DEF Receives
  <1> QED
    BY <1>2 DEF Senders

(* What the reports and estimates of a handler rest on.                    *)
LEMMA AuxsetFacts ==
  ASSUME NEW b \in SUBSET Values, NEW c \in [Values -> Nat]
  PROVE  /\ AuxsetValue(b, c) \in SUBSET Values
         /\ \A v, w \in AuxsetValue(b, c) : v = w
  BY DEF AuxsetValue, Bits, Values

LEMMA Est2Facts ==
  ASSUME NEW b \in SUBSET Values, NEW c \in [Values -> Nat]
  PROVE  /\ Est2Value(b, c) \in SUBSET Values
         /\ \A v \in Est2Value(b, c) :
              IF v = "2" THEN Bits \subseteq b ELSE v \in b /\ c[v] >= Quorum
  BY DEF Est2Value, Bits, Values

LEMMA Values2Facts ==
  ASSUME NEW b \in SUBSET Values, NEW c \in [Values -> Nat]
  PROVE  Values2(b, c) \in SUBSET b
  BY DEF Values2, Values

-----------------------------------------------------------------------------
(* What each action does to the stores.                                    *)

(* An est (est2) message adds at most its value, to two kinds.             *)
LEMMA EstEffect ==
  ASSUME TypeOK, NEW p \in Nodes, NEW r \in Rounds, NEW v \in Values,
         NEW est \in Kinds, NEW aux \in Kinds, est # aux,
         NEW accepted, NEW count,
         SendEst(p, r, v, est, aux, accepted, count)
  PROVE  /\ sent' \in Sent
         /\ \A q \in Nodes, u \in Rounds, l \in Kinds :
              /\ l \notin {est, aux} => sent'[q][u][l] = sent[q][u][l]
              /\ \A w \in sent'[q][u][l] :
                   w \in sent[q][u][l] \/ (u = r /\ w = v)
              /\ \A w \in sent'[q][u][est] :
                   w \in sent[q][u][est] \/ (u = r /\ w = v /\ Amplifies(count))
  <1> DEFINE V == IF Amplifies(count) THEN sent[p][r][est] \cup {v} ELSE sent[p][r][est]
             W == IF Accepts(count) /\ accepted = {} THEN {v} ELSE sent[p][r][aux]
             s == [sent EXCEPT ![p][r][est] = V]
  <1>1. sent \in Sent /\ V \in SUBSET Values /\ W \in SUBSET Values
    BY DEF TypeOK, Sent
  <1>2. /\ s \in Sent
        /\ \A q \in Nodes, u \in Rounds, l \in Kinds :
             s[q][u][l] = IF q = p /\ u = r /\ l = est THEN V ELSE sent[q][u][l]
    BY <1>1 DEF Sent
  <1>3. s[p][r][aux] = sent[p][r][aux]
    BY <1>2
  <1>4. sent' = [s EXCEPT ![p][r][aux] = W]
    BY <1>1, <1>3 DEF SendEst, Sent
  <1> HIDE DEF V, W, s
  <1>5. /\ sent' \in Sent
        /\ \A q \in Nodes, u \in Rounds, l \in Kinds :
             sent'[q][u][l] = IF q = p /\ u = r /\ l = aux THEN W ELSE s[q][u][l]
    BY <1>1, <1>2, <1>4 DEF Sent
  <1>6. /\ \A w \in V : w \in sent[p][r][est] \/ (w = v /\ Amplifies(count))
        /\ \A w \in W : w \in sent[p][r][aux] \/ w = v
    BY DEF V, W
  <1> QED
    BY <1>2, <1>5, <1>6

(* Type correctness of the variables a message handler leaves alone is     *)
(* immediate; each action is treated once, with what it may send.          *)
LEMMA InitMessageEffect ==
  ASSUME TypeOK, NEW p \in Nodes, NEW r \in Rounds, NEW v \in Bits,
         InitMessage(p, r, v)
  PROVE  /\ TypeOK'
         /\ \A q \in Nodes, u \in Rounds, l \in Kinds :
              /\ l # "est" => sent'[q][u][l] = sent[q][u][l]
              /\ \A w \in sent'[q][u][l] :
                   w \in sent[q][u][l] \/ (q = p /\ u = r /\ w = v)
  <1>1. sent \in Sent /\ "est" \in Kinds /\ v \in Values
    BY DEF TypeOK, Sent, Kinds, Bits, Values
  <1>2. sent[p][r]["est"] \cup {v} \in SUBSET Values
    BY <1>1 DEF Sent
  <1>3. sent' = [sent EXCEPT ![p][r]["est"] = sent[p][r]["est"] \cup {v}]
    BY DEF InitMessage
  <1>4. /\ sent' \in Sent
        /\ \A q \in Nodes, u \in Rounds, l \in Kinds :
             sent'[q][u][l] = IF q = p /\ u = r /\ l = "est"
                              THEN sent[p][r]["est"] \cup {v} ELSE sent[q][u][l]
    BY <1>1, <1>2, <1>3 DEF Sent
  <1>5. started' \in [Nodes -> SUBSET Rounds]
    BY DEF InitMessage, TypeOK
  <1>6. TypeOK'
    BY <1>4, <1>5 DEF InitMessage, TypeOK, Sent, coins
  <1> QED
    BY <1>4, <1>6

LEMMA Est1MessageEffect ==
  ASSUME TypeOK, NEW p \in Nodes, NEW r \in Rounds, NEW v \in Values,
         Est1Message(p, r, v)
  PROVE  LET count == got[p][r]["est"][v] + 1 IN
         /\ TypeOK'
         /\ \A q \in Nodes, u \in Rounds, l \in Kinds :
              /\ l \notin {"est", "aux"} => sent'[q][u][l] = sent[q][u][l]
              /\ \A w \in sent'[q][u][l] :
                   w \in sent[q][u][l] \/ (u = r /\ w = v)
              /\ \A w \in sent'[q][u]["est"] :
                   w \in sent[q][u]["est"] \/ (u = r /\ w = v /\ Amplifies(count))
         /\ \A q \in Nodes, u \in Rounds : \A w \in bin'[q][u] :
              w \in bin[q][u] \/ (u = r /\ w = v /\ Accepts(count))
  <1> DEFINE count == got[p][r]["est"][v] + 1
  <1>1. "est" \in Kinds /\ "aux" \in Kinds /\ "est" # "aux"
    BY DEF Kinds
  <1>2. /\ sent' \in Sent
        /\ \A q \in Nodes, u \in Rounds, l \in Kinds :
             /\ l \notin {"est", "aux"} => sent'[q][u][l] = sent[q][u][l]
             /\ \A w \in sent'[q][u][l] :
                  w \in sent[q][u][l] \/ (u = r /\ w = v)
             /\ \A w \in sent'[q][u]["est"] :
                  w \in sent[q][u]["est"] \/ (u = r /\ w = v /\ Amplifies(count))
    <2>1. SendEst(p, r, v, "est", "aux", bin[p][r], count)
      BY ZenonT(30) DEF Est1Message
    <2> HIDE DEF count
    <2> QED
      BY <1>1, <2>1, EstEffect, SMTT(30)
  <1>3. got' \in Got
    BY <1>1, GotUpdate DEF Est1Message, Count, TypeOK, Got
  <1>4. /\ bin' \in [Nodes -> [Rounds -> SUBSET Values]]
        /\ \A q \in Nodes, u \in Rounds : \A w \in bin'[q][u] :
             w \in bin[q][u] \/ (u = r /\ w = v /\ Accepts(count))
    <2>1. CASE bin' = bin
      BY <2>1 DEF TypeOK
    <2>2. CASE Accepts(count) /\ bin' = [bin EXCEPT ![p][r] = @ \cup {v}]
      <3> HIDE DEF count
      <3> QED
        BY <2>2 DEF TypeOK
    <2> QED
      BY <2>1, <2>2 DEF Est1Message
  <1> HIDE DEF count
  <1>5. TypeOK'
    BY <1>2, <1>3, <1>4, SMTT(30) DEF Est1Message, TypeOK, Sent, Got, coins
  <1>6. QED
    BY <1>2, <1>4, <1>5 DEF count

LEMMA Est2MessageEffect ==
  ASSUME TypeOK, NEW p \in Nodes, NEW r \in Rounds, NEW v \in Values,
         Est2Message(p, r, v)
  PROVE  /\ TypeOK'
         /\ \A q \in Nodes, u \in Rounds, l \in Kinds :
              /\ l \notin {"est2", "aux2"} => sent'[q][u][l] = sent[q][u][l]
              /\ \A w \in sent'[q][u][l] :
                   w \in sent[q][u][l] \/ (u = r /\ w = v)
         /\ \A q \in Nodes, u \in Rounds : \A w \in bin2'[q][u] :
              w \in bin2[q][u] \/ (u = r /\ w = v)
  <1>1. "est2" \in Kinds /\ "aux2" \in Kinds /\ "est2" # "aux2"
    BY DEF Kinds
  <1>2. /\ sent' \in Sent
        /\ \A q \in Nodes, u \in Rounds, l \in Kinds :
             /\ l \notin {"est2", "aux2"} => sent'[q][u][l] = sent[q][u][l]
             /\ \A w \in sent'[q][u][l] :
                  w \in sent[q][u][l] \/ (u = r /\ w = v)
    BY <1>1, EstEffect, SMTT(30) DEF Est2Message
  <1>3. got' \in Got
    BY <1>1, GotUpdate DEF Est2Message, Count, TypeOK, Got
  <1>4. /\ bin2' \in [Nodes -> [Rounds -> SUBSET Values]]
        /\ \A q \in Nodes, u \in Rounds : \A w \in bin2'[q][u] :
             w \in bin2[q][u] \/ (u = r /\ w = v)
    <2>1. CASE bin2' = bin2
      BY <2>1 DEF TypeOK
    <2>2. CASE bin2' = [bin2 EXCEPT ![p][r] = @ \cup {v}]
      BY <2>2 DEF TypeOK
    <2> QED
      BY <2>1, <2>2 DEF Est2Message
  <1>5. TypeOK'
    BY <1>2, <1>3, <1>4 DEF Est2Message, TypeOK, Sent, Got, coins
  <1> QED
    BY <1>2, <1>4, <1>5

(* An aux message makes a node report once.                                *)
LEMMA Aux1MessageEffect ==
  ASSUME TypeOK, NEW p \in Nodes, NEW r \in Rounds, NEW v \in Values,
         Aux1Message(p, r, v)
  PROVE  /\ TypeOK'
         /\ \A q \in Nodes, u \in Rounds, l \in Kinds :
              \/ sent'[q][u][l] = sent[q][u][l]
              \/ /\ l = "auxset"
                 /\ sent[q][u][l] = {}
                 /\ \A w, x \in sent'[q][u][l] : w = x
  <1> DEFINE c == Counted(p, "aux", r, v)
             V == AuxsetValue(bin[p][r], c)
  <1>1. sent \in Sent /\ "aux" \in Kinds /\ "auxset" \in Kinds
    BY DEF TypeOK, Sent, Kinds
  <1>2. c \in [Values -> Nat] /\ bin[p][r] \in SUBSET Values
    BY <1>1 DEF TypeOK, Counted
  <1>3. V \in SUBSET Values /\ \A w, x \in V : w = x
    BY <1>2, AuxsetFacts
  <1>4. sent' = sent \/ (sent[p][r]["auxset"] = {}
                         /\ sent' = [sent EXCEPT ![p][r]["auxset"] = V])
    BY DEF Aux1Message
  <1> HIDE DEF V
  <1>5. /\ sent' \in Sent
        /\ \A q \in Nodes, u \in Rounds, l \in Kinds :
             \/ sent'[q][u][l] = sent[q][u][l]
             \/ l = "auxset" /\ sent[q][u][l] = {} /\ sent'[q][u][l] = V
    <2>1. CASE sent' = sent
      BY <1>1, <2>1
    <2>2. CASE sent[p][r]["auxset"] = {} /\ sent' = [sent EXCEPT ![p][r]["auxset"] = V]
      <3>1. /\ sent' \in Sent
            /\ \A q \in Nodes, u \in Rounds, l \in Kinds :
                 sent'[q][u][l] = IF q = p /\ u = r /\ l = "auxset" THEN V
                                  ELSE sent[q][u][l]
        BY <1>1, <1>3, <2>2, ZenonT(30) DEF Sent
      <3> QED
        BY <2>2, <3>1
    <2> QED
      BY <1>4, <2>1, <2>2
  <1>6. got' \in Got
    BY <1>1, GotUpdate DEF Aux1Message, Count, TypeOK, Got
  <1>7. TypeOK'
    BY <1>5, <1>6 DEF Aux1Message, TypeOK, Sent, Got, coins
  <1> QED
    BY <1>3, <1>5, <1>7

(* An auxset message makes a node send the estimate its counts justify.    *)
LEMMA AuxsetMessageEffect ==
  ASSUME TypeOK, NEW p \in Nodes, NEW r \in Rounds, NEW v \in Values,
         AuxsetMessage(p, r, v)
  PROVE  /\ TypeOK'
         /\ \A q \in Nodes, u \in Rounds, l \in Kinds :
              /\ l # "est2" => sent'[q][u][l] = sent[q][u][l]
              /\ \A w \in sent'[q][u][l] :
                   \/ w \in sent[q][u][l]
                   \/ /\ q = p /\ u = r
                      /\ IF w = "2" THEN Bits \subseteq bin[p][r]
                         ELSE w \in bin[p][r] /\ got'[p][r]["auxset"][w] >= Quorum
  <1> DEFINE c == Counted(p, "auxset", r, v)
             V == Est2Value(bin[p][r], c)
             W == sent[p][r]["est2"] \cup V
  <1>1. sent \in Sent /\ "auxset" \in Kinds /\ "est2" \in Kinds
    BY DEF TypeOK, Sent, Kinds
  <1>2. c \in [Values -> Nat] /\ bin[p][r] \in SUBSET Values
    BY <1>1 DEF TypeOK, Counted
  <1>3. /\ V \in SUBSET Values
        /\ \A w \in V : IF w = "2" THEN Bits \subseteq bin[p][r]
                        ELSE w \in bin[p][r] /\ c[w] >= Quorum
    BY <1>2, Est2Facts
  <1>4. sent' = [sent EXCEPT ![p][r]["est2"] = W]
    BY DEF AuxsetMessage
  <1>5. W \in SUBSET Values
    BY <1>1, <1>3 DEF Sent
  <1>6. /\ got' \in Got
        /\ \A w \in Values : got'[p][r]["auxset"][w] = c[w]
    <2>1. /\ got' \in Got
          /\ \A w \in Values : got'[p][r]["auxset"][w] =
               IF w = v THEN got[p][r]["auxset"][w] + 1 ELSE got[p][r]["auxset"][w]
      BY <1>1, GotUpdate DEF AuxsetMessage, Count, TypeOK, Got
    <2>2. \A w \in Values : c[w] =
               IF w = v THEN got[p][r]["auxset"][w] + 1 ELSE got[p][r]["auxset"][w]
      BY <1>1 DEF TypeOK, Counted
    <2> QED
      BY <2>1, <2>2, ZenonT(30)
  <1> HIDE DEF V, c
  <1>7. \A w \in W : w \in sent[p][r]["est2"] \/ w \in V
    OBVIOUS
  <1> HIDE DEF W
  <1>8. /\ sent' \in Sent
        /\ \A q \in Nodes, u \in Rounds, l \in Kinds :
             sent'[q][u][l] = IF q = p /\ u = r /\ l = "est2" THEN W ELSE sent[q][u][l]
    BY <1>1, <1>4, <1>5 DEF Sent
  <1>9. TypeOK'
    BY <1>6, <1>8 DEF AuxsetMessage, TypeOK, Sent, Got, coins
  <1> QED
    BY <1>3, <1>6, <1>7, <1>8, <1>9

(* An aux2 message decides, carries on or tosses the coin for a value the  *)
(* node accepted in the second half.                                       *)
LEMMA Aux2MessageEffect ==
  ASSUME TypeOK, NEW p \in Nodes, NEW r \in Rounds, NEW v \in Values,
         Aux2Message(p, r, v)
  PROVE  /\ TypeOK'
         /\ \A q \in Nodes :
              /\ decision'[q] = decision[q]
                   \/ (q = p /\ decision'[q] \in Bits /\ decision'[q] \in bin2[p][r])
              /\ \A u \in coinInit'[q] :
                   u \in coinInit[q] \/ (u = r /\ "2" \in bin2[p][r])
              /\ \A u \in Rounds, w \in Bits : <<u, w>> \in toStart'[q] =>
                   <<u, w>> \in toStart[q] \/ (u = 1 /\ w \in bin2[p][r])
  <1> DEFINE c == Counted(p, "aux2", r, v)
             V == Values2(bin2[p][r], c)
             D == IF decision[p] = "none" /\ Single(V) # {}
                  THEN CHOOSE w \in Single(V) : TRUE ELSE decision[p]
             S == {<<GetRound + 1, w>> : w \in {w \in Bits : V = {w, "2"}}}
  <1>1. "aux2" \in Kinds /\ GetRound + 1 = 1
    BY DEF Kinds, GetRound
  <1>2. c \in [Values -> Nat] /\ bin2[p][r] \in SUBSET Values
    BY <1>1 DEF TypeOK, Counted
  <1>3. V \subseteq bin2[p][r]
    BY <1>2, Values2Facts
  <1>4. decision' = [decision EXCEPT ![p] = D]
    BY DEF Aux2Message
  <1>5. coinInit' = [coinInit EXCEPT ![p] = IF V = {"2"} THEN @ \cup {r} ELSE @]
    BY DEF Aux2Message
  <1>6. toStart' = [toStart EXCEPT ![p] = @ \cup S]
    BY ZenonT(30) DEF Aux2Message
  <1>7. got' \in Got
    <2>1. got' = [got EXCEPT ![p][r]["aux2"][v] = @ + 1]
      BY ZenonT(30) DEF Aux2Message, Count
    <2>2. got \in Got
      BY DEF TypeOK, Got
    <2> QED
      BY <1>1, <2>1, <2>2, GotUpdate, ZenonT(60)
  <1> HIDE DEF V
  <1>8. D = decision[p] \/ (D \in Bits /\ D \in bin2[p][r])
    BY <1>3 DEF Single
  <1>9. \A u \in Rounds, w \in Bits : <<u, w>> \in S => u = 1 /\ w \in bin2[p][r]
    BY <1>1, <1>3
  <1>10. S \subseteq Rounds \X Bits
    BY <1>1 DEF Rounds
  <1> HIDE DEF D, S
  <1>11. /\ decision' \in [Nodes -> {"none"} \cup Bits]
         /\ \A q \in Nodes : decision'[q] = decision[q]
              \/ (q = p /\ decision'[q] \in Bits /\ decision'[q] \in bin2[p][r])
    BY <1>4, <1>8 DEF TypeOK
  <1>12. /\ coinInit' \in [Nodes -> SUBSET Rounds]
         /\ \A q \in Nodes : \A u \in coinInit'[q] :
              u \in coinInit[q] \/ (u = r /\ "2" \in bin2[p][r])
    <2>1. CASE V = {"2"}
      BY <2>1, <1>3, <1>5 DEF TypeOK
    <2>2. CASE V # {"2"}
      BY <2>2, <1>5 DEF TypeOK
    <2> QED
      BY <2>1, <2>2
  <1>13. /\ toStart' \in [Nodes -> SUBSET (Rounds \X Bits)]
         /\ \A q \in Nodes : \A u \in Rounds, w \in Bits : <<u, w>> \in toStart'[q] =>
              <<u, w>> \in toStart[q] \/ (u = 1 /\ w \in bin2[p][r])
    BY <1>6, <1>9, <1>10, SMTT(30) DEF TypeOK
  <1>14. TypeOK'
    BY <1>7, <1>11, <1>12, <1>13 DEF Aux2Message, TypeOK, Got
  <1> QED
    BY <1>11, <1>12, <1>13, <1>14

LEMMA CoinInitMessageEffect ==
  ASSUME TypeOK, NEW p \in Nodes, NEW r \in Rounds, CoinInitMessage(p, r)
  PROVE  /\ TypeOK'
         /\ \A q \in Nodes : coinSent'[q] = coinSent[q] \/ coinInit[p] # {}
  BY DEF CoinInitMessage, TypeOK

LEMMA CoinMessageEffect ==
  ASSUME TypeOK, NEW p \in Nodes, NEW s \in Nodes, CoinMessage(p, s)
  PROVE  /\ TypeOK'
         /\ byCoin \subseteq byCoin'
         /\ \A q \in Nodes : \/ decision'[q] = decision[q]
                             \/ /\ q \in byCoin'
                                /\ decision'[q] = coin
                                /\ coinSent[s] # {}
  <1> DEFINE shares == coinShares[p] \cup {s}
             decides == Cardinality(shares) = F + 1 /\ decision[p] = "none"
  <1>1. /\ decision' = IF decides THEN [decision EXCEPT ![p] = coin] ELSE decision
        /\ byCoin' = IF decides THEN byCoin \cup {p} ELSE byCoin
        /\ coinShares' = [coinShares EXCEPT ![p] = shares]
        /\ coinSent[s] # {}
    BY DEF CoinMessage
  <1>2. shares \in SUBSET Nodes
    BY DEF TypeOK
  <1> HIDE DEF decides, shares
  <1>3. coinShares' \in [Nodes -> SUBSET Nodes]
    BY <1>1, <1>2 DEF TypeOK
  <1>4. CASE decides
    BY <1>1, <1>3, <1>4 DEF CoinMessage, TypeOK
  <1>5. CASE ~decides
    BY <1>1, <1>3, <1>5 DEF CoinMessage, TypeOK
  <1> QED
    BY <1>4, <1>5

LEMMA CrashEffect ==
  ASSUME TypeOK, NEW p \in Nodes, Crash(p)
  PROVE  TypeOK'
  BY DEF Crash, TypeOK, coins

-----------------------------------------------------------------------------
(* Type correctness.                                                       *)

LEMMA TypeInit == Init => TypeOK
  <1> SUFFICES ASSUME Init PROVE TypeOK
    OBVIOUS
  <1>1. vote \in [Nodes -> Bits] /\ \A p \in Nodes : <<0, vote[p]>> \in Rounds \X Bits
    BY DEF Init, Rounds
  <1>2. toStart \in [Nodes -> SUBSET (Rounds \X Bits)]
    BY <1>1 DEF Init
  <1> QED
    BY <1>1, <1>2 DEF Init, TypeOK, Bits

LEMMA TypeStep == TypeOK /\ [Next]_vars => TypeOK'
  <1> SUFFICES ASSUME TypeOK, [Next]_vars PROVE TypeOK'
    OBVIOUS
  <1>1. ASSUME NEW p \in Nodes, NEW r \in Rounds, NEW v \in Bits, InitMessage(p, r, v)
        PROVE  TypeOK'
    BY <1>1, InitMessageEffect, SMTT(30)
  <1>2. ASSUME NEW p \in Nodes, NEW r \in Rounds, NEW v \in Values,
               \/ Est1Message(p, r, v) \/ Aux1Message(p, r, v) \/ AuxsetMessage(p, r, v)
               \/ Est2Message(p, r, v) \/ Aux2Message(p, r, v)
        PROVE  TypeOK'
    BY <1>2, Est1MessageEffect, Aux1MessageEffect, AuxsetMessageEffect,
       Est2MessageEffect, Aux2MessageEffect
  <1>3. ASSUME NEW p \in Nodes, NEW r \in Rounds, CoinInitMessage(p, r)
        PROVE  TypeOK'
    BY <1>3, CoinInitMessageEffect
  <1>4. ASSUME NEW p \in Nodes, NEW s \in Nodes, CoinMessage(p, s)
        PROVE  TypeOK'
    BY <1>4, CoinMessageEffect
  <1>5. ASSUME NEW p \in Nodes, Crash(p)
        PROVE  TypeOK'
    BY <1>5, CrashEffect
  <1>6. CASE UNCHANGED vars
    BY <1>6 DEF vars, coins, TypeOK
  <1> QED
    BY <1>1, <1>2, <1>3, <1>4, <1>5, <1>6 DEF Next

(* The stores and the messages of the handlers keep their types: no node   *)
(* ever decides the value "2" of the second half.                          *)
THEOREM TypeCorrect == Spec => []TypeOK
  BY TypeInit, TypeStep, PTL DEF Spec

-----------------------------------------------------------------------------
(* Validity.  In round 0 a node estimates its own vote, or a value F+1     *)
(* nodes have voted for: to amplify a value takes F+1 senders of it, and   *)
(* the first node that amplifies can only have heard voters.  What goes    *)
(* beyond an estimate has such support.  A "2" in the second half stands   *)
(* for both values having been accepted, so when the coin is tossed either *)
(* outcome has it.                                                         *)

Voted(v) == Cardinality(Voters(v)) >= F + 1
Backed(v) == IF v = "2" THEN Voted("0") /\ Voted("1") ELSE Voted(v)

VoteInv ==
  /\ \A p \in Nodes, r \in Rounds, v \in Bits : <<r, v>> \in toStart[p] =>
       Voted(v) \/ (r = 0 /\ v = vote[p])
  /\ \A p \in Nodes, r \in Rounds : \A v \in sent[p][r]["est"] :
       Voted(v) \/ (r = 0 /\ p \in Voters(v))
  /\ \A p \in Nodes, r \in Rounds : \A v \in bin[p][r] : Voted(v)
  /\ \A p \in Nodes, r \in Rounds : \A v \in sent[p][r]["est2"] : Backed(v)
  /\ \A p \in Nodes, r \in Rounds : \A v \in bin2[p][r] : Backed(v)
  /\ \A p \in Nodes : coinInit[p] # {} \/ coinSent[p] # {} => Backed("2")
  /\ \A p \in Nodes : decision[p] # "none" => Voted(decision[p])

LEMMA VoteInit == Init => VoteInv
  <1> SUFFICES ASSUME Init PROVE VoteInv
    OBVIOUS
  <1>1. \A p \in Nodes, r \in Rounds, v \in Bits : <<r, v>> \in toStart[p] =>
          r = 0 /\ v = vote[p]
    BY DEF Init
  <1>2. "est" \in Kinds /\ "est2" \in Kinds
    BY DEF Kinds
  <1> QED
    BY <1>1, <1>2 DEF Init, VoteInv

(* What F+1 nodes estimate, F+1 nodes have voted for.                      *)
LEMMA EstimateVoted ==
  ASSUME TypeOK, VoteInv, NEW r \in Rounds, NEW v \in Values,
         Cardinality(Senders("est", r, v)) >= F + 1
  PROVE  Voted(v)
  <1> SUFFICES ASSUME ~Voted(v) PROVE FALSE
    OBVIOUS
  <1>1. Senders("est", r, v) \subseteq Voters(v)
    BY DEF Senders, VoteInv
  <1>2. IsFiniteSet(Voters(v)) /\ Cardinality(Voters(v)) \in Nat
    BY NodesAssumption, FS_Subset, FS_CardinalityType DEF Voters
  <1>3. /\ Cardinality(Senders("est", r, v)) \in Nat
        /\ Cardinality(Senders("est", r, v)) <= Cardinality(Voters(v))
    BY <1>1, <1>2, FS_Subset, FS_CardinalityType
  <1> QED
    BY <1>2, <1>3, NodesAssumption DEF Voted

LEMMA VoteStep == TypeOK /\ VoteInv /\ [Next]_vars => VoteInv'
  <1> SUFFICES ASSUME TypeOK, VoteInv, [Next]_vars PROVE VoteInv'
    OBVIOUS
  <1>0. /\ "est" \in Kinds /\ "aux" \in Kinds /\ "est2" \in Kinds /\ "aux2" \in Kinds
        /\ Bits \subseteq Values
        /\ \A v \in Bits : v # "2" /\ v # "none" /\ (Backed("2") => Voted(v))
    BY DEF Kinds, Bits, Values, Backed
  <1>1. vote' = vote /\ \A q \in Nodes : started[q] \subseteq started'[q]
    <2>1. ASSUME NEW p \in Nodes, NEW r \in Rounds, NEW v, InitMessage(p, r, v)
          PROVE  vote' = vote /\ \A q \in Nodes : started[q] \subseteq started'[q]
      BY <2>1 DEF InitMessage, TypeOK
    <2>2. ASSUME NEW p \in Nodes, NEW r \in Rounds, NEW v,
                 \/ Est1Message(p, r, v) \/ Aux1Message(p, r, v) \/ AuxsetMessage(p, r, v)
                 \/ Est2Message(p, r, v) \/ Aux2Message(p, r, v) \/ CoinInitMessage(p, r)
          PROVE  vote' = vote /\ started' = started
      BY <2>2, SMTT(30) DEF Est1Message, Aux1Message, AuxsetMessage, Est2Message,
         Aux2Message, CoinInitMessage
    <2>3. ASSUME NEW p \in Nodes, NEW s \in Nodes, CoinMessage(p, s) \/ Crash(p)
          PROVE  vote' = vote /\ started' = started
      BY <2>3 DEF CoinMessage, Crash
    <2>4. CASE UNCHANGED vars
      BY <2>4 DEF vars
    <2> QED
      BY <2>1, <2>2, <2>3, <2>4, SMTT(30) DEF Next
  <1>2. ASSUME NEW v PROVE Voters(v) \subseteq Voters(v)' /\ (Voted(v) => Voted(v)')
    <2>1. Voters(v) \subseteq Voters(v)'
      BY <1>1 DEF Voters
    <2>2. IsFiniteSet(Voters(v)')
      BY NodesAssumption, FS_Subset DEF Voters
    <2>3. /\ Cardinality(Voters(v)) \in Nat /\ Cardinality(Voters(v)') \in Nat
          /\ Cardinality(Voters(v)) <= Cardinality(Voters(v)')
      BY <2>1, <2>2, FS_Subset, FS_CardinalityType
    <2> QED
      BY <2>1, <2>3, NodesAssumption DEF Voted
  <1>3. \A v : Backed(v) => Backed(v)'
    BY <1>2 DEF Backed
  <1>4. ASSUME NEW p \in Nodes, NEW r \in Rounds, NEW v \in Bits, InitMessage(p, r, v)
        PROVE  VoteInv'
    <2>1. Voted(v) \/ (r = 0 /\ p \in Voters(v)')
      BY <1>1, <1>4 DEF InitMessage, VoteInv, Voters, TypeOK
    <2>2. \A q \in Nodes, u \in Rounds :
            /\ sent'[q][u]["est2"] = sent[q][u]["est2"]
            /\ \A w \in sent'[q][u]["est"] :
                 w \in sent[q][u]["est"] \/ (q = p /\ u = r /\ w = v)
      BY <1>0, <1>4, InitMessageEffect
    <2>3. UNCHANGED <<toStart, bin, bin2, coins, decision>>
      BY <1>4 DEF InitMessage
    <2> QED
      BY <1>1, <1>2, <1>3, <2>1, <2>2, <2>3 DEF coins, VoteInv
  <1>5. ASSUME NEW p \in Nodes, NEW r \in Rounds, NEW v \in Values, Est1Message(p, r, v)
        PROVE  VoteInv'
    <2> DEFINE count == got[p][r]["est"][v] + 1
    <2>1. Amplifies(count) \/ Accepts(count) => Voted(v)
      <3>1. count \in Nat /\ count <= Cardinality(Senders("est", r, v))
        <4>1. got[p][r]["est"][v] \in Nat
          BY <1>0 DEF TypeOK
        <4>2. Cardinality(Senders("est", r, v)) \in Nat
          BY NodesAssumption, FS_Subset, FS_CardinalityType DEF Senders
        <4> QED
          BY <1>5, <4>1, <4>2 DEF Est1Message, Receives
      <3>2. Cardinality(Senders("est", r, v)) \in Nat
        BY NodesAssumption, FS_Subset, FS_CardinalityType DEF Senders
      <3> HIDE DEF count
      <3>3. Amplifies(count) \/ Accepts(count) => Cardinality(Senders("est", r, v)) >= F + 1
        BY <3>1, <3>2, NodesAssumption DEF Amplifies, Accepts
      <3> QED
        BY <3>3, EstimateVoted
    <2>2. \A q \in Nodes, u \in Rounds :
            /\ sent'[q][u]["est2"] = sent[q][u]["est2"]
            /\ \A w \in sent'[q][u]["est"] : w \in sent[q][u]["est"] \/ Voted(w)
            /\ \A w \in bin'[q][u] : w \in bin[q][u] \/ Voted(w)
      BY <1>0, <1>5, <2>1, Est1MessageEffect
    <2>3. UNCHANGED <<toStart, bin2, coins, decision>>
      BY <1>5, ZenonT(30) DEF Est1Message
    <2> QED
      BY <1>1, <1>2, <1>3, <2>2, <2>3 DEF coins, VoteInv
  <1>6. ASSUME NEW p \in Nodes, NEW r \in Rounds, NEW v \in Values, Aux1Message(p, r, v)
        PROVE  VoteInv'
    <2>1. \A q \in Nodes, u \in Rounds :
            /\ sent'[q][u]["est2"] = sent[q][u]["est2"]
            /\ sent'[q][u]["est"] = sent[q][u]["est"]
      BY <1>0, <1>6, Aux1MessageEffect
    <2>2. UNCHANGED <<toStart, bin, bin2, coins, decision>>
      BY <1>6 DEF Aux1Message
    <2> QED
      BY <1>1, <1>2, <1>3, <2>1, <2>2, SMTT(30) DEF coins, VoteInv
  <1>7. ASSUME NEW p \in Nodes, NEW r \in Rounds, NEW v \in Values, AuxsetMessage(p, r, v)
        PROVE  VoteInv'
    <2>1. Bits \subseteq bin[p][r] => Backed("2")
      BY DEF VoteInv, Backed, Bits
    <2>2. \A w \in bin[p][r] : w # "2" => Backed(w)
      BY DEF VoteInv, Backed
    <2>3. \A q \in Nodes, u \in Rounds :
            /\ sent'[q][u]["est"] = sent[q][u]["est"]
            /\ \A w \in sent'[q][u]["est2"] : w \in sent[q][u]["est2"] \/ Backed(w)
      BY <1>0, <1>7, <2>1, <2>2, AuxsetMessageEffect
    <2>4. UNCHANGED <<toStart, bin, bin2, coins, decision>>
      BY <1>7, ZenonT(30) DEF AuxsetMessage
    <2> QED
      BY <1>1, <1>2, <1>3, <2>3, <2>4 DEF coins, VoteInv
  <1>8. ASSUME NEW p \in Nodes, NEW r \in Rounds, NEW v \in Values, Est2Message(p, r, v)
        PROVE  VoteInv'
    <2>1. Backed(v)
      BY <1>0, <1>8, HasSender DEF Est2Message, VoteInv
    <2>2. \A q \in Nodes, u \in Rounds :
            /\ sent'[q][u]["est"] = sent[q][u]["est"]
            /\ \A w \in sent'[q][u]["est2"] : w \in sent[q][u]["est2"] \/ w = v
            /\ \A w \in bin2'[q][u] : w \in bin2[q][u] \/ w = v
      BY <1>0, <1>8, Est2MessageEffect
    <2>3. UNCHANGED <<toStart, bin, coins, decision>>
      BY <1>8 DEF Est2Message
    <2> QED
      BY <1>1, <1>2, <1>3, <2>1, <2>2, <2>3 DEF coins, VoteInv
  <1>9. ASSUME NEW p \in Nodes, NEW r \in Rounds, NEW v \in Values, Aux2Message(p, r, v)
        PROVE  VoteInv'
    <2>1. \A w \in Bits : w \in bin2[p][r] => Voted(w)
      BY <1>0, ZenonT(30) DEF VoteInv, Backed
    <2>2. \A q \in Nodes :
            /\ decision'[q] = decision[q] \/ Voted(decision'[q])
            /\ coinInit'[q] # {} => coinInit[q] # {} \/ Backed("2")
            /\ \A u \in Rounds, w \in Bits : <<u, w>> \in toStart'[q] =>
                 <<u, w>> \in toStart[q] \/ Voted(w)
      <3>1. \A q \in Nodes :
              /\ decision'[q] = decision[q]
                   \/ (decision'[q] \in Bits /\ decision'[q] \in bin2[p][r])
              /\ \A u \in coinInit'[q] : u \in coinInit[q] \/ "2" \in bin2[p][r]
              /\ \A u \in Rounds, w \in Bits : <<u, w>> \in toStart'[q] =>
                   <<u, w>> \in toStart[q] \/ w \in bin2[p][r]
        BY <1>0, <1>9, Aux2MessageEffect, ZenonT(30)
      <3>2. "2" \in bin2[p][r] => Backed("2")
        BY <1>0, ZenonT(30) DEF VoteInv
      <3> QED
        BY <2>1, <3>1, <3>2
    <2>3. UNCHANGED <<sent, bin, bin2, coinSent>>
      BY <1>9, SMTT(30) DEF Aux2Message
    <2> QED
      BY <1>1, <1>2, <1>3, <2>2, <2>3, SMTT(30) DEF VoteInv
  <1>10. ASSUME NEW p \in Nodes, NEW r \in Rounds, CoinInitMessage(p, r)
         PROVE  VoteInv'
    <2>1. \A q \in Nodes : coinSent'[q] # {} => coinSent[q] # {} \/ Backed("2")
      BY <1>10, CoinInitMessageEffect DEF VoteInv
    <2>2. UNCHANGED <<toStart, sent, bin, bin2, coinInit, decision>>
      BY <1>10, SMTT(30) DEF CoinInitMessage
    <2> QED
      BY <1>1, <1>2, <1>3, <2>1, <2>2 DEF VoteInv
  <1>11. ASSUME NEW p \in Nodes, NEW s \in Nodes, CoinMessage(p, s)
         PROVE  VoteInv'
    <2>1. coinSent[s] # {} => Voted(coin)
      BY <1>0 DEF VoteInv, TypeOK
    <2>2. \A q \in Nodes : decision'[q] = decision[q] \/ Voted(decision'[q])
      BY <1>11, <2>1, CoinMessageEffect
    <2>3. UNCHANGED <<toStart, sent, bin, bin2, coinInit, coinSent>>
      BY <1>11 DEF CoinMessage
    <2> QED
      BY <1>1, <1>2, <1>3, <2>2, <2>3 DEF VoteInv
  <1>12. ASSUME NEW p \in Nodes, Crash(p)
         PROVE  VoteInv'
    BY <1>1, <1>2, <1>3, <1>12 DEF Crash, coins, VoteInv
  <1>13. CASE UNCHANGED vars
    BY <1>1, <1>2, <1>3, <1>13 DEF vars, coins, VoteInv
  <1> QED
    BY <1>4, <1>5, <1>6, <1>7, <1>8, <1>9, <1>10, <1>11, <1>12, <1>13 DEF Next

(* A node decides a value F+1 nodes have voted for, whether the second     *)
(* half or the coin decides: F votes on the keyset of a leader, such as    *)
(* those of nodes that its dealings have not reached, are never decided.   *)
THEOREM ValiditySafe == Spec => []Validity
  <1>1. Init => TypeOK /\ VoteInv
    BY TypeInit, VoteInit
  <1>2. TypeOK /\ VoteInv /\ [Next]_vars => (TypeOK /\ VoteInv)'
    BY TypeStep, VoteStep
  <1>3. VoteInv => Validity
    BY DEF VoteInv, Voted, Validity
  <1> QED
    BY <1>1, <1>2, <1>3, PTL DEF Spec

-----------------------------------------------------------------------------
(* The second half.  A node reports once per round, so at most one value   *)
(* has a quorum of reports; and a value enters the second half only with a *)
(* quorum of reports behind it.                                            *)

Reported(r, v) == Cardinality(Senders("auxset", r, v)) >= Quorum

ReportInv ==
  /\ \A p \in Nodes, r \in Rounds : \A v, w \in sent[p][r]["auxset"] : v = w
  /\ \A p \in Nodes, r \in Rounds, v \in Values :
       got[p][r]["auxset"][v] <= Cardinality(Senders("auxset", r, v))

(* What a step may do to the reports and to the counts of them.            *)
ReportsKept ==
  \A q \in Nodes, u \in Rounds :
    \/ sent'[q][u]["auxset"] = sent[q][u]["auxset"]
    \/ sent[q][u]["auxset"] = {} /\ \A w, x \in sent'[q][u]["auxset"] : w = x

CountsKept ==
  \A q \in Nodes, u \in Rounds, w \in Values :
    \/ got'[q][u]["auxset"][w] = got[q][u]["auxset"][w]
    \/ /\ got[q][u]["auxset"][w] < Cardinality(Senders("auxset", u, w))
       /\ got'[q][u]["auxset"][w] = got[q][u]["auxset"][w] + 1

LEMMA ReportsStep ==
  ASSUME TypeOK, [Next]_vars
  PROVE  ReportsKept /\ CountsKept
  <1>0. /\ "est" \in Kinds /\ "aux" \in Kinds /\ "auxset" \in Kinds
        /\ "est2" \in Kinds /\ "aux2" \in Kinds
    BY DEF Kinds
  <1>1. ASSUME NEW p \in Nodes, NEW r \in Rounds, NEW v \in Bits, InitMessage(p, r, v)
        PROVE  ReportsKept /\ CountsKept
    <2>1. \A q \in Nodes, u \in Rounds : sent'[q][u]["auxset"] = sent[q][u]["auxset"]
      BY <1>0, <1>1, InitMessageEffect, SMTT(30)
    <2> QED
      BY <1>1, <2>1 DEF InitMessage, ReportsKept, CountsKept
  <1>2. ASSUME NEW p \in Nodes, NEW r \in Rounds, NEW v \in Values, NEW k \in Kinds,
               Receives(p, k, r, v), Count(p, k, r, v)
        PROVE  CountsKept
    <2>1. \A q \in Nodes, u \in Rounds, w \in Values :
            got'[q][u]["auxset"][w] =
              IF q = p /\ u = r /\ "auxset" = k /\ w = v
              THEN got[q][u]["auxset"][w] + 1 ELSE got[q][u]["auxset"][w]
      BY <1>0, <1>2, GotUpdate DEF Count, TypeOK, Got
    <2> QED
      BY <1>2, <2>1, SMTT(30) DEF Receives, CountsKept
  <1>3. ASSUME NEW p \in Nodes, NEW r \in Rounds, NEW v \in Values, Est1Message(p, r, v)
        PROVE  ReportsKept /\ CountsKept
    <2>1. \A q \in Nodes, u \in Rounds : sent'[q][u]["auxset"] = sent[q][u]["auxset"]
      BY <1>0, <1>3, Est1MessageEffect
    <2>2. CountsKept
      <3>1. Receives(p, "est", r, v) /\ Count(p, "est", r, v)
        BY <1>3, Zenon DEF Est1Message
      <3> QED
        BY <1>0, <1>2, <3>1, Zenon
    <2> QED
      BY <2>1, <2>2, Zenon DEF ReportsKept
  <1>4. ASSUME NEW p \in Nodes, NEW r \in Rounds, NEW v \in Values, Aux1Message(p, r, v)
        PROVE  ReportsKept /\ CountsKept
    <2>1. ReportsKept
      BY <1>0, <1>4, Aux1MessageEffect, ZenonT(30) DEF ReportsKept
    <2>2. CountsKept
      <3>1. Receives(p, "aux", r, v) /\ Count(p, "aux", r, v)
        BY <1>4, Zenon DEF Aux1Message
      <3> QED
        BY <1>0, <1>2, <3>1, Zenon
    <2> QED
      BY <2>1, <2>2, SMTT(30)
  <1>5. ASSUME NEW p \in Nodes, NEW r \in Rounds, NEW v \in Values, AuxsetMessage(p, r, v)
        PROVE  ReportsKept /\ CountsKept
    <2>1. \A q \in Nodes, u \in Rounds : sent'[q][u]["auxset"] = sent[q][u]["auxset"]
      BY <1>0, <1>5, AuxsetMessageEffect
    <2>2. CountsKept
      <3>1. Receives(p, "auxset", r, v) /\ Count(p, "auxset", r, v)
        BY <1>5, Zenon DEF AuxsetMessage
      <3> QED
        BY <1>0, <1>2, <3>1, Zenon
    <2> QED
      BY <2>1, <2>2, Zenon DEF ReportsKept
  <1>6. ASSUME NEW p \in Nodes, NEW r \in Rounds, NEW v \in Values, Est2Message(p, r, v)
        PROVE  ReportsKept /\ CountsKept
    <2>1. \A q \in Nodes, u \in Rounds : sent'[q][u]["auxset"] = sent[q][u]["auxset"]
      BY <1>0, <1>6, Est2MessageEffect
    <2>2. CountsKept
      <3>1. Receives(p, "est2", r, v) /\ Count(p, "est2", r, v)
        BY <1>6, Zenon DEF Est2Message
      <3> QED
        BY <1>0, <1>2, <3>1, Zenon
    <2> QED
      BY <2>1, <2>2, Zenon DEF ReportsKept
  <1>7. ASSUME NEW p \in Nodes, NEW r \in Rounds, NEW v \in Values, Aux2Message(p, r, v)
        PROVE  ReportsKept /\ CountsKept
    <2>1. CountsKept
      <3>1. Receives(p, "aux2", r, v) /\ Count(p, "aux2", r, v)
        BY <1>7, Zenon DEF Aux2Message
      <3> QED
        BY <1>0, <1>2, <3>1, Zenon
    <2> QED
      BY <1>7, <2>1, SMTT(30) DEF Aux2Message, ReportsKept
  <1>8. CASE UNCHANGED <<sent, got>>
    BY <1>8, SMTT(30) DEF ReportsKept, CountsKept
  <1>9. ASSUME NEW p \in Nodes, NEW r \in Rounds, NEW s \in Nodes,
               CoinInitMessage(p, r) \/ CoinMessage(p, s) \/ Crash(p)
        PROVE  UNCHANGED <<sent, got>>
    BY <1>9 DEF CoinInitMessage, CoinMessage, Crash
  <1>10. Rounds # {}
    BY DEF Rounds
  <1>11. CASE UNCHANGED vars
    BY <1>8, <1>11 DEF vars
  <1> QED
    BY <1>1, <1>3, <1>4, <1>5, <1>6, <1>7, <1>8, <1>9, <1>10, <1>11 DEF Next

(* Reports are never withdrawn.                                            *)
LEMMA SendersGrow ==
  ASSUME ReportsKept, NEW r \in Rounds, NEW v
  PROVE  /\ Cardinality(Senders("auxset", r, v)) \in Nat
         /\ Cardinality(Senders("auxset", r, v)') \in Nat
         /\ Cardinality(Senders("auxset", r, v)) <= Cardinality(Senders("auxset", r, v)')
  <1>1. Senders("auxset", r, v) \subseteq Senders("auxset", r, v)'
    BY DEF ReportsKept, Senders
  <1>2. IsFiniteSet(Senders("auxset", r, v)')
    BY NodesAssumption, FS_Subset DEF Senders
  <1> QED
    BY <1>1, <1>2, FS_Subset, FS_CardinalityType, SMTT(30)

LEMMA ReportStep == TypeOK /\ ReportInv /\ [Next]_vars => ReportInv'
  <1> SUFFICES ASSUME TypeOK, ReportInv, [Next]_vars PROVE ReportInv'
    OBVIOUS
  <1>1. ReportsKept /\ CountsKept
    BY ReportsStep, SMTT(30)
  <1>2. \A p \in Nodes, r \in Rounds : \A v, w \in sent'[p][r]["auxset"] : v = w
    BY <1>1, SMTT(30) DEF ReportsKept, ReportInv
  <1>3. ASSUME NEW p \in Nodes, NEW r \in Rounds, NEW v \in Values
        PROVE  got'[p][r]["auxset"][v] <= Cardinality(Senders("auxset", r, v)')
    <2>1. got[p][r]["auxset"][v] \in Nat
      BY DEF TypeOK, Kinds
    <2>2. /\ Cardinality(Senders("auxset", r, v)) \in Nat
          /\ Cardinality(Senders("auxset", r, v)') \in Nat
          /\ Cardinality(Senders("auxset", r, v)) <= Cardinality(Senders("auxset", r, v)')
      BY <1>1, SendersGrow
    <2>3. got[p][r]["auxset"][v] <= Cardinality(Senders("auxset", r, v))
      BY DEF ReportInv
    <2>4. \/ got'[p][r]["auxset"][v] = got[p][r]["auxset"][v]
          \/ /\ got[p][r]["auxset"][v] < Cardinality(Senders("auxset", r, v))
             /\ got'[p][r]["auxset"][v] = got[p][r]["auxset"][v] + 1
      BY <1>1 DEF CountsKept
    <2> QED
      BY <2>1, <2>2, <2>3, <2>4
  <1> QED
    BY <1>2, <1>3 DEF ReportInv

(* At most one of two values has a quorum of reports.                      *)
LEMMA OneReported ==
  ASSUME ReportInv, NEW r \in Rounds, NEW v, NEW w, Reported(r, v), Reported(r, w)
  PROVE  v = w
  <1> DEFINE A == Senders("auxset", r, v)
             B == Senders("auxset", r, w)
  <1>1. A \subseteq Nodes /\ B \subseteq Nodes
    BY DEF Senders
  <1>2. IsFiniteSet(A) /\ IsFiniteSet(B) /\ IsFiniteSet(Nodes) /\ F \in Nat
    BY <1>1, NodesAssumption, FS_Subset
  <1>3. SUFFICES ASSUME A \cap B = {} PROVE FALSE
    BY DEF ReportInv, Senders
  <1>4. Cardinality(A \cup B) = Cardinality(A) + Cardinality(B)
    <2>1. Cardinality(A \cup B) = Cardinality(A) + Cardinality(B) - Cardinality(A \cap B)
      BY <1>2, FS_Union
    <2>2. Cardinality(A \cap B) = 0
      BY <1>3, FS_EmptySet
    <2>3. Cardinality(A) \in Nat /\ Cardinality(B) \in Nat
      BY <1>2, FS_CardinalityType
    <2> HIDE DEF A, B
    <2> QED
      BY <2>1, <2>2, <2>3
  <1>5. Cardinality(A \cup B) <= Cardinality(Nodes)
    BY <1>1, <1>2, FS_Subset
  <1>6. /\ Cardinality(A) \in Nat /\ Cardinality(B) \in Nat /\ Cardinality(Nodes) \in Nat
        /\ Cardinality(A) >= Cardinality(Nodes) - F
        /\ Cardinality(B) >= Cardinality(Nodes) - F
    BY <1>2, FS_CardinalityType DEF Reported, Quorum
  <1> HIDE DEF A, B
  <1> QED
    BY <1>2, <1>4, <1>5, <1>6, ParamsAssumption

ReportedInv ==
  /\ \A p \in Nodes, r \in Rounds, v \in Bits :
       v \in sent[p][r]["est2"] \/ v \in bin2[p][r] => Reported(r, v)
  /\ \A p \in Nodes, v \in Bits : <<1, v>> \in toStart[p] => Reported(0, v)
  /\ \A p \in Nodes, v \in Bits :
       \/ v \in sent[p][1]["est"] \/ v \in bin[p][1]
       \/ v \in sent[p][1]["est2"] \/ v \in bin2[p][1]
       => Reported(0, v)
  /\ \A p \in Nodes : "2" \notin sent[p][1]["est2"] /\ "2" \notin bin2[p][1]
  /\ \A p \in Nodes : 1 \notin coinInit[p]
  /\ \A p \in Nodes \ byCoin : decision[p] # "none" => Reported(0, decision[p])

LEMMA ReportedStep ==
  TypeOK /\ ReportInv /\ ReportedInv /\ [Next]_vars => ReportedInv'
  <1> SUFFICES ASSUME TypeOK, ReportInv, ReportedInv, [Next]_vars PROVE ReportedInv'
    OBVIOUS
  <1>0. /\ "est" \in Kinds /\ "aux" \in Kinds /\ "auxset" \in Kinds
        /\ "est2" \in Kinds /\ "aux2" \in Kinds
        /\ Bits \subseteq Values /\ 0 \in Rounds /\ 1 \in Rounds
        /\ \A r \in Rounds : r = 0 \/ r = 1
        /\ \A v \in Bits : v # "2"
    BY DEF Kinds, Bits, Values, Rounds
  <1>1. \A r \in Rounds : \A v : Reported(r, v) => Reported(r, v)'
    <2> SUFFICES ASSUME NEW r \in Rounds, NEW v, Reported(r, v) PROVE Reported(r, v)'
      OBVIOUS
    <2>1. ReportsKept
      BY ReportsStep
    <2>2. /\ Cardinality(Senders("auxset", r, v)) \in Nat
          /\ Cardinality(Senders("auxset", r, v)') \in Nat
          /\ Cardinality(Senders("auxset", r, v)) <= Cardinality(Senders("auxset", r, v)')
      BY <2>1, SendersGrow
    <2>3. Quorum \in Int
      BY NodesAssumption, FS_CardinalityType DEF Quorum
    <2>4. Quorum' = Quorum
      BY DEF Quorum
    <2> QED
      BY <2>2, <2>3, <2>4 DEF Reported
  <1>2. ASSUME NEW p \in Nodes, NEW r \in Rounds, NEW v \in Bits, InitMessage(p, r, v)
        PROVE  ReportedInv'
    <2>1. r = 1 => Reported(0, v)
      BY <1>2 DEF InitMessage, ReportedInv
    <2>2. \A q \in Nodes, u \in Rounds :
            /\ sent'[q][u]["est2"] = sent[q][u]["est2"]
            /\ \A w \in sent'[q][u]["est"] : w \in sent[q][u]["est"] \/ (u = r /\ w = v)
      BY <1>0, <1>2, InitMessageEffect
    <2>3. UNCHANGED <<toStart, bin, bin2, coinInit, byCoin, decision>>
      BY <1>2, ZenonT(30) DEF InitMessage, coins
    <2> QED
      BY <1>0, <1>1, <2>1, <2>2, <2>3 DEF ReportedInv
  <1>3. ASSUME NEW p \in Nodes, NEW r \in Rounds, NEW v \in Values, Est1Message(p, r, v)
        PROVE  ReportedInv'
    <2>1. r = 1 /\ v \in Bits => Reported(0, v)
      BY <1>0, <1>3, HasSender, SMTT(30) DEF Est1Message, ReportedInv
    <2>2. \A q \in Nodes, u \in Rounds :
            /\ sent'[q][u]["est2"] = sent[q][u]["est2"]
            /\ \A w \in sent'[q][u]["est"] : w \in sent[q][u]["est"] \/ (u = r /\ w = v)
            /\ \A w \in bin'[q][u] : w \in bin[q][u] \/ (u = r /\ w = v)
      BY <1>0, <1>3, Est1MessageEffect
    <2>3. UNCHANGED <<toStart, bin2, coinInit, byCoin, decision>>
      BY <1>3, ZenonT(30) DEF Est1Message, coins
    <2> QED
      BY <1>0, <1>1, <2>1, <2>2, <2>3 DEF ReportedInv
  <1>4. ASSUME NEW p \in Nodes, NEW r \in Rounds, NEW v \in Values, Aux1Message(p, r, v)
        PROVE  ReportedInv'
    <2>1. \A q \in Nodes, u \in Rounds :
            /\ sent'[q][u]["est2"] = sent[q][u]["est2"]
            /\ sent'[q][u]["est"] = sent[q][u]["est"]
      BY <1>0, <1>4, Aux1MessageEffect
    <2>2. UNCHANGED <<toStart, bin, bin2, coinInit, byCoin, decision>>
      BY <1>4, ZenonT(30) DEF Aux1Message, coins
    <2> QED
      BY <1>0, <1>1, <2>1, <2>2, SMTT(30) DEF ReportedInv
  <1>5. ASSUME NEW p \in Nodes, NEW r \in Rounds, NEW v \in Values, AuxsetMessage(p, r, v)
        PROVE  ReportedInv'
    <2>1. \A w \in Values : got'[p][r]["auxset"][w] >= Quorum => Reported(r, w)'
      <3>1. ReportInv' /\ TypeOK'
        BY ReportStep, TypeStep
      <3>2. Quorum \in Int /\ Quorum' = Quorum
        BY NodesAssumption, FS_CardinalityType, SMTT(30) DEF Quorum
      <3>3. ASSUME NEW w \in Values
            PROVE  /\ got'[p][r]["auxset"][w] \in Nat
                   /\ got'[p][r]["auxset"][w] <= Cardinality(Senders("auxset", r, w)')
                   /\ Cardinality(Senders("auxset", r, w)') \in Nat
        <4>1. ReportsKept
          BY ReportsStep, ZenonT(30)
        <4> QED
          BY <1>0, <3>1, <4>1, SendersGrow DEF TypeOK, ReportInv
      <3> QED
        BY <3>2, <3>3 DEF Reported
    <2>2. \A q \in Nodes, u \in Rounds :
            /\ sent'[q][u]["est"] = sent[q][u]["est"]
            /\ \A w \in Bits : w \in sent'[q][u]["est2"] =>
                 \/ w \in sent[q][u]["est2"]
                 \/ u = r /\ w \in bin[p][r] /\ Reported(r, w)'
      <3>1. "est" \in Kinds /\ "est2" \in Kinds /\ \A w \in Bits : w \in Values /\ w # "2"
        BY DEF Kinds, Bits, Values
      <3>2. \A q \in Nodes, u \in Rounds :
              /\ sent'[q][u]["est"] = sent[q][u]["est"]
              /\ \A w \in sent'[q][u]["est2"] :
                   \/ w \in sent[q][u]["est2"]
                   \/ /\ u = r
                      /\ IF w = "2" THEN Bits \subseteq bin[p][r]
                         ELSE w \in bin[p][r] /\ got'[p][r]["auxset"][w] >= Quorum
        BY <1>0, <1>5, <3>1, AuxsetMessageEffect, SMTT(30)
      <3> QED
        BY <2>1, <3>1, <3>2, SMTT(30)
    <2>3. UNCHANGED <<toStart, bin, bin2, coinInit, byCoin, decision>>
      BY <1>5, ZenonT(30) DEF AuxsetMessage, coins
    <2>4. \A q \in Nodes : "2" \notin sent'[q][1]["est2"]
      <3>1. ~(Bits \subseteq bin[p][1])
        BY <1>0, OneReported, ZenonT(30) DEF ReportedInv, Bits
      <3>2. \A q \in Nodes : "2" \in sent'[q][1]["est2"] =>
              "2" \in sent[q][1]["est2"] \/ Bits \subseteq bin[p][1]
        BY <1>0, <1>5, AuxsetMessageEffect, SMTT(30)
      <3> QED
        BY <3>1, <3>2, ZenonT(30) DEF ReportedInv
    <2> QED
      BY <1>0, <1>1, <2>2, <2>3, <2>4 DEF ReportedInv
  <1>6. ASSUME NEW p \in Nodes, NEW r \in Rounds, NEW v \in Values, Est2Message(p, r, v)
        PROVE  ReportedInv'
    <2>1. /\ v \in Bits => Reported(r, v) /\ (r = 1 => Reported(0, v))
          /\ r = 1 => v # "2"
      BY <1>0, <1>6, HasSender, SMTT(30) DEF Est2Message, ReportedInv
    <2>2. \A q \in Nodes, u \in Rounds :
            /\ sent'[q][u]["est"] = sent[q][u]["est"]
            /\ \A w \in sent'[q][u]["est2"] : w \in sent[q][u]["est2"] \/ (u = r /\ w = v)
            /\ \A w \in bin2'[q][u] : w \in bin2[q][u] \/ (u = r /\ w = v)
      BY <1>0, <1>6, Est2MessageEffect
    <2>3. UNCHANGED <<toStart, bin, coinInit, byCoin, decision>>
      BY <1>6, SMTT(30) DEF Est2Message, coins
    <2> QED
      BY <1>0, <1>1, <2>1, <2>2, <2>3 DEF ReportedInv
  <1>7. ASSUME NEW p \in Nodes, NEW r \in Rounds, NEW v \in Values, Aux2Message(p, r, v)
        PROVE  ReportedInv'
    <2>1. \A w \in Bits : w \in bin2[p][r] => Reported(0, w)
      BY <1>0, SMTT(30) DEF ReportedInv
    <2>2. \A q \in Nodes :
            /\ decision'[q] = decision[q] \/ Reported(0, decision'[q])
            /\ \A w \in Bits : <<1, w>> \in toStart'[q] =>
                 <<1, w>> \in toStart[q] \/ Reported(0, w)
            /\ 1 \in coinInit'[q] => 1 \in coinInit[q] \/ "2" \in bin2[p][1]
      BY <1>0, <1>7, <2>1, Aux2MessageEffect, SMTT(30)
    <2>3. UNCHANGED <<sent, bin, bin2, byCoin>>
      BY <1>7, SMTT(30) DEF Aux2Message
    <2> QED
      BY <1>0, <1>1, <2>2, <2>3 DEF ReportedInv
  <1>8. ASSUME NEW p \in Nodes, NEW r \in Rounds, CoinInitMessage(p, r) \/ Crash(p)
        PROVE  ReportedInv'
    BY <1>0, <1>1, <1>8, ZenonT(30) DEF CoinInitMessage, Crash, coins, ReportedInv
  <1>9. ASSUME NEW p \in Nodes, NEW s \in Nodes, CoinMessage(p, s)
        PROVE  ReportedInv'
    <2>1. byCoin \subseteq byCoin' /\ \A q \in Nodes \ byCoin' : decision'[q] = decision[q]
      BY <1>9, CoinMessageEffect
    <2>2. UNCHANGED <<toStart, sent, bin, bin2, coinInit>>
      BY <1>9 DEF CoinMessage
    <2> QED
      BY <1>0, <1>1, <2>1, <2>2 DEF ReportedInv
  <1>10. CASE UNCHANGED vars
    BY <1>0, <1>1, <1>10, SMTT(30) DEF vars, coins, ReportedInv
  <1> QED
    BY <1>0, <1>2, <1>3, <1>4, <1>5, <1>6, <1>7, <1>8, <1>9, <1>10 DEF Next

LEMMA ReportInit == Init => ReportInv /\ ReportedInv
  <1> SUFFICES ASSUME Init PROVE ReportInv /\ ReportedInv
    OBVIOUS
  <1>0. /\ "est" \in Kinds /\ "auxset" \in Kinds /\ "est2" \in Kinds
        /\ 0 \in Rounds /\ 1 \in Rounds /\ 0 # 1
    BY DEF Kinds, Rounds
  <1>1. \A r \in Rounds : \A v : Cardinality(Senders("auxset", r, v)) = 0
    <2>1. \A r \in Rounds : \A v : Senders("auxset", r, v) = {}
      BY <1>0 DEF Init, Senders
    <2> QED
      BY <2>1, FS_EmptySet
  <1>2. ReportInv
    BY <1>0, <1>1 DEF Init, ReportInv
  <1>3. \A p \in Nodes, v \in Bits : <<1, v>> \notin toStart[p]
    BY DEF Init
  <1>4. ReportedInv
    BY <1>0, <1>3 DEF Init, ReportedInv
  <1> QED
    BY <1>2, <1>4

ReportIInv == TypeOK /\ ReportInv /\ ReportedInv

LEMMA ReportInvariant == Spec => []ReportIInv
  <1>1. Init => ReportIInv
    BY TypeInit, ReportInit DEF ReportIInv
  <1>2. ReportIInv /\ [Next]_vars => ReportIInv'
    BY TypeStep, ReportStep, ReportedStep DEF ReportIInv
  <1> QED
    BY <1>1, <1>2, PTL DEF Spec

(* The second half of a round never has both 0 and 1, whatever order the   *)
(* messages arrive in and whoever stops.                                   *)
THEOREM SecondHalfSafe == Spec => []SecondHalfConsistent
  <1>1. ReportIInv => SecondHalfConsistent
    BY OneReported DEF ReportIInv, ReportedInv, SecondHalfConsistent, Bits
  <1> QED
    BY <1>1, ReportInvariant, PTL

(* No node tosses the coin in round 1, where a share would not verify: no  *)
(* two values have a quorum of reports of round 0.                         *)
THEOREM CoinRoundSafe == Spec => []CoinOnlyInRoundZero
  <1>1. ReportIInv => CoinOnlyInRoundZero
    BY DEF ReportIInv, ReportedInv, CoinOnlyInRoundZero, GetRound, TypeOK, Rounds
  <1> QED
    BY <1>1, ReportInvariant, PTL

(* Nodes that decide without the coin agree: all of their values, in round *)
(* 0 or 1, have the quorum of reports of round 0.                          *)
THEOREM DirectAgreementSafe == Spec => []DirectAgreement
  <1>1. ReportIInv => DirectAgreement
    BY OneReported DEF ReportIInv, ReportedInv, DirectAgreement, Rounds
  <1> QED
    BY <1>1, ReportInvariant, PTL
=============================================================================
