---------------------------- MODULE ShareRequest ----------------------------
(***************************************************************************)
(* How a client gets the shares of its key (server/rpc, the handlers of    *)
(* CommitmentRequest and ShareRequest, and cache/cache_service.go): it     *)
(* commits to its token and a temporary key at every node, collects the    *)
(* signatures of the nodes, and sends them to every node, which answers    *)
(* with its share encrypted for the key committed there.                   *)
(*                                                                         *)
(* Requests are served concurrently, and the cache of a provider's         *)
(* commitments is made by the first call that needs it: testing for it,    *)
(* storing a new one and using the stored one are three steps.             *)
(*                                                                         *)
(* Abstractions.                                                           *)
(*  - A client has one token and one temporary key; the commitment is the  *)
(*    client.  All clients use one provider, which accepts their tokens,   *)
(*    and have a key of which every node has a share.                      *)
(*  - A signature is its signer: it is on the commitment of the client,    *)
(*    except that a node of Straying signs other data.  A share request    *)
(*    has a list of signatures, in which one may be there more than once:  *)
(*    an entry of it is a signature and the number of its copy.            *)
(*  - A cache is the set of the commitments in it; an empty commitment key *)
(*    makes the encryption fail.                                           *)
(***************************************************************************)
EXTENDS Naturals, FiniteSets

CONSTANTS
  Nodes,
  K,           \* threshold of the epoch
  Clients,
  Straying,    \* nodes that sign wrong data
  Warm,        \* nodes that have a cache for the provider already
  MaxCopies,   \* bound on the copies of a signature in a share request
  MaxExpiries, \* bound on the commitments that expire
  MaxLosses    \* bound on the signatures that do not reach their client

VARIABLES
  commit,      \* commit[p][c]: the commitment request of c at p
  request,     \* request[p][c]: the share request of c at p
  signatures,  \* signatures[c]: the nodes whose signature c has
  chosen,      \* chosen[c]: the entries of NodeSignatures in the share request of c
  tokenCache,  \* tokenCache[p]: the number of the cache at p, 0 if none
  cached,      \* cached[p]: pairs of a cache and a commitment in it
  made,        \* made[p]: caches made at p
  recorded,    \* recorded[p]: the clients whose commitment p has recorded (history)
  expiries, losses

caches == <<tokenCache, cached, made, recorded, expiries>>
vars == <<commit, request, signatures, chosen, caches, losses>>

(* Where a request is in a method of the cache: it has to test for the     *)
(* cache, to make one, or to use the one that is there.                    *)
CacheSteps(op) == {<<op, "test">>, <<op, "make">>, <<op, "use">>}
CommitStages == {<<"idle">>, <<"signed">>, <<"refused">>}
                \cup CacheSteps("exists") \cup CacheSteps("record")
RequestStages == {<<"idle">>, <<"answered">>, <<"not_enough_valid_signatures">>,
                  <<"not_enough_on_the_same_data">>, <<"incompatible_token">>,
                  <<"could_not_encrypt">>}
                 \cup CacheSteps("key")

Entries == Nodes \X (1 .. MaxCopies)

TypeOK ==
  /\ commit \in [Nodes -> [Clients -> CommitStages]]
  /\ request \in [Nodes -> [Clients -> RequestStages]]
  /\ signatures \in [Clients -> SUBSET Nodes]
  /\ chosen \in [Clients -> SUBSET Entries]
  /\ tokenCache \in [Nodes -> Nat] /\ made \in [Nodes -> Nat]
  /\ cached \in [Nodes -> SUBSET (Nat \X Clients)]
  /\ \A p \in Nodes : tokenCache[p] <= made[p]
  /\ recorded \in [Nodes -> SUBSET Clients]
  /\ expiries \in 0 .. MaxExpiries /\ losses \in 0 .. MaxLosses

Init ==
  /\ commit = [p \in Nodes |-> [c \in Clients |-> <<"idle">>]]
  /\ request = [p \in Nodes |-> [c \in Clients |-> <<"idle">>]]
  /\ signatures = [c \in Clients |-> {}]
  /\ chosen = [c \in Clients |-> {}]
  /\ tokenCache = [p \in Nodes |-> IF p \in Warm THEN 1 ELSE 0]
  /\ cached = [p \in Nodes |-> {}]
  /\ made = tokenCache
  /\ recorded = [p \in Nodes |-> {}]
  /\ expiries = 0 /\ losses = 0

Found(p, c) == <<tokenCache[p], c>> \in cached[p]

-----------------------------------------------------------------------------
(* The first two steps of every method of the token cache.                 *)

TestAlways(p, op) == <<op, "make">>
Test(p, op) == IF tokenCache[p] = 0 THEN <<op, "make">> ELSE <<op, "use">>

Make(p) ==
  /\ made' = [made EXCEPT ![p] = @ + 1]
  /\ tokenCache' = [tokenCache EXCEPT ![p] = made'[p]]

CommitCacheStep(p, c) ==
  \E op \in {"exists", "record"} :
    \/ /\ commit[p][c] = <<op, "test">>
       /\ commit' = [commit EXCEPT ![p][c] = Test(p, op)]
       /\ UNCHANGED <<request, signatures, chosen, caches, losses>>
    \/ /\ commit[p][c] = <<op, "make">>
       /\ Make(p)
       /\ commit' = [commit EXCEPT ![p][c] = <<op, "use">>]
       /\ UNCHANGED <<request, signatures, chosen, cached, recorded, expiries, losses>>

-----------------------------------------------------------------------------
(* KeyCommitmentRequest.                                                   *)
SendCommit(p, c) ==
  /\ commit[p][c] = <<"idle">> /\ chosen[c] = {}
  /\ commit' = [commit EXCEPT ![p][c] = <<"exists", "test">>]
  /\ UNCHANGED <<request, signatures, chosen, caches, losses>>

(* tokenCommitExists: a duplicate is refused.                              *)
TokenCommitExists(p, c) ==
  /\ commit[p][c] = <<"exists", "use">>
  /\ commit' = [commit EXCEPT ![p][c] = IF Found(p, c) THEN <<"refused">> ELSE <<"record", "test">>]
  /\ UNCHANGED <<request, signatures, chosen, caches, losses>>

(* recordTokenCommit, and the signature, which may get lost on its way to  *)
(* the client.                                                             *)
RecordNot(p, c) == UNCHANGED cached
Record(p, c) == cached' = [cached EXCEPT ![p] = @ \cup {<<tokenCache[p], c>>}]

RecordTokenCommit(p, c) ==
  /\ commit[p][c] = <<"record", "use">>
  /\ Record(p, c)
  /\ recorded' = [recorded EXCEPT ![p] = @ \cup {c}]
  /\ commit' = [commit EXCEPT ![p][c] = <<"signed">>]
  /\ \/ signatures' = [signatures EXCEPT ![c] = @ \cup {p}] /\ UNCHANGED losses
     \/ losses < MaxLosses /\ losses' = losses + 1 /\ UNCHANGED signatures
  /\ UNCHANGED <<request, chosen, tokenCache, made, expiries>>

(* The client asks again where it got no signature.                        *)
Retry(p, c) ==
  /\ commit[p][c] = <<"signed">> /\ p \notin signatures[c] /\ chosen[c] = {}
  /\ commit' = [commit EXCEPT ![p][c] = <<"exists", "test">>]
  /\ UNCHANGED <<request, signatures, chosen, caches, losses>>

(* The client goes on with the signatures it has, each of them listed once *)
(* or more often, when K entries are on its own data.                      *)
Choose(c) ==
  /\ chosen[c] = {}
  /\ \E copies \in 1 .. MaxCopies :
       /\ Cardinality((signatures[c] \ Straying) \X (1 .. copies)) >= K
       /\ chosen' = [chosen EXCEPT ![c] = signatures[c] \X (1 .. copies)]
  /\ UNCHANGED <<commit, request, signatures, caches, losses>>

-----------------------------------------------------------------------------
(* KeyShareRequest.                                                        *)

(* The data of a signature, and the entries on given data: the handler     *)
(* counts entries, whoever signed them.                                    *)
Data(q) == IF q \in Straying THEN <<"other", q>> ELSE <<"own">>
SignedOn(c, d) == {e \in chosen[c] : Data(e[1]) = d}

(* The loop that looks for the most frequent data never updates its count, *)
(* so it ends with the data that the iteration of the map gives last.      *)
CommonData(c) == {Data(e[1]) : e \in chosen[c]}

Checked(c, d) ==
  IF Cardinality(chosen[c]) < K THEN <<"not_enough_valid_signatures">>
  ELSE IF Cardinality(SignedOn(c, d)) < K THEN <<"not_enough_on_the_same_data">>
  ELSE IF d # <<"own">> THEN <<"incompatible_token">>
  ELSE <<"key", "test">>
SendRequest(p, c) ==
  /\ chosen[c] # {} /\ request[p][c] = <<"idle">>
  /\ \E d \in CommonData(c) : request' = [request EXCEPT ![p][c] = Checked(c, d)]
  /\ UNCHANGED <<commit, signatures, chosen, caches, losses>>

RequestCacheStep(p, c) ==
  \/ /\ request[p][c] = <<"key", "test">>
     /\ request' = [request EXCEPT ![p][c] = Test(p, "key")]
     /\ UNCHANGED <<commit, signatures, chosen, caches, losses>>
  \/ /\ request[p][c] = <<"key", "make">>
     /\ Make(p)
     /\ request' = [request EXCEPT ![p][c] = <<"key", "use">>]
     /\ UNCHANGED <<commit, signatures, chosen, cached, recorded, expiries, losses>>

(* getTokenCommitKey, and the answer encrypted for the key.                *)
Encrypt(p, c) == IF Found(p, c) THEN <<"answered">> ELSE <<"could_not_encrypt">>
GetTokenCommitKey(p, c) ==
  /\ request[p][c] = <<"key", "use">>
  /\ request' = [request EXCEPT ![p][c] = Encrypt(p, c)]
  /\ UNCHANGED <<commit, signatures, chosen, caches, losses>>

(* A commitment lives 90 minutes.                                          *)
Expire(p, c) ==
  /\ Found(p, c) /\ expiries < MaxExpiries
  /\ cached' = [cached EXCEPT ![p] = @ \ {<<tokenCache[p], c>>}]
  /\ expiries' = expiries + 1
  /\ UNCHANGED <<commit, request, signatures, chosen, tokenCache, made, recorded, losses>>

-----------------------------------------------------------------------------
CommitStep(p, c) == CommitCacheStep(p, c) \/ TokenCommitExists(p, c) \/ RecordTokenCommit(p, c)
RequestStep(p, c) == SendRequest(p, c) \/ RequestCacheStep(p, c) \/ GetTokenCommitKey(p, c)

Next ==
  \/ \E p \in Nodes, c \in Clients :
       \/ SendCommit(p, c) \/ CommitStep(p, c) \/ Retry(p, c)
       \/ RequestStep(p, c) \/ Expire(p, c)
  \/ \E c \in Clients : Choose(c)

Spec == Init /\ [][Next]_vars

(* Requests that are sent are served, and a client with enough signatures  *)
(* sends its share requests.                                               *)
Fairness ==
  /\ \A p \in Nodes, c \in Clients : WF_vars(CommitStep(p, c) \/ RequestStep(p, c))
  /\ \A c \in Clients : WF_vars(Choose(c))
FairSpec == Spec /\ Fairness

-----------------------------------------------------------------------------
(* No commitment is lost: what a node has recorded it finds again until it *)
(* expires, whatever runs next to it.  (It holds where the cache of the    *)
(* provider exists already: two requests that both find none make two.)    *)
RecordedIsFound ==
  \A p \in Warm, c \in Clients : c \in recorded[p] /\ expiries = 0 => Found(p, c)

(* A client that has K signatures before it asks for shares, all on its    *)
(* own data, gets K shares, also when a signature was lost and its node    *)
(* refuses the second attempt.                                             *)
Disturbed(c) ==
  \/ expiries > 0 \/ signatures[c] \cap Straying # {}
  \/ \E p \in Nodes \ Warm : made[p] > 1
SharesReach ==
  \A c \in Clients :
    Cardinality(signatures[c]) >= K /\ chosen[c] = {}
      ~> \/ Cardinality({p \in Nodes : request[p][c] = <<"answered">>}) >= K
         \/ Disturbed(c)
=============================================================================
