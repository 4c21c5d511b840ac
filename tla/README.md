# A TLA+ model of the ADKG node

The repository is a node of a distributed key generation network. The nodes
generate shared keys ahead of demand, agree on each public key through a
Tendermint chain, and hand keys to users. This directory holds the
specifications of that system, the TLC configurations that check them on small
instances, and the proofs TLAPS checks for every instance.

## The system

| Part | Code under `src/` | Model |
|---|---|---|
| ACSS dealing: every node deals a secret by an echo/ready broadcast | `keygen/message_handlers/acss` | `Rbc`, `Keyset` |
| Keyset: every node broadcasts the F+1 dealings it saw complete first | `keygen/message_handlers/keyset` | `Rbc`, `Keyset` |
| Binary agreement (ABA) on each keyset, with a common coin | `keygen/message_handlers/aba`, `keygen/common/aba` | `Aba`; effect of a decision in `Keyset` |
| Key derivation: sum the dealings of the agreed keysets, interpolate the key | `keygen/message_handlers/keyderivation` | `KeyDerivation` |
| Keygen node, stores, janitor | `keygen/keygen_node.go`, `keygen_tracker.go`, `common/adkg_common.go` | in each of the above; start, decision, cleanup and restart in `KeygenLifecycle` |
| Keygen service and transport | `keygen/keygen_service.go`, `transport.go` | `KeygenLifecycle`, `ServiceCalls`; network of the above |
| ABCI application: votes on public keys, assignment of keys to users | `tendermint/abci*.go` | `KeyAssignment` |
| BFT client, message queue, Tendermint service | `tendermint/bft_rpc.go`, `messageq`, `core_service.go` | `AssignRequest`, `Bootstrap` |
| Event bus | `eventbus` | `EventBus` |
| Service broker, registry, start of a node | `common/service_*.go`, `node` | `ServiceCalls`, `Bootstrap` |
| Chain: registration, node list, epoch | `chain` | `Bootstrap`, `ServiceCalls` |
| Cache and RPC server | `cache`, `server` | `ShareRequest`, `AssignRequest` |
| Database | `db` | the records, in the modules of the services that use them |
| Sharing, proofs, encodings | `common/sharing`, `keygen/common`, `common/adkg_common.go` | `Sharing`, `Encoding` |
| P2P, verifiers | `p2p`, `verifier` | their calls in `ServiceCalls`; the rest is I/O |
| Key store, secrets, configuration, telemetry | `keystore`, `secret`, `config`, `telemetry`, `cmd` | not modelled: I/O |
| Curves, hashes, erasure coding | `crypto`, `secp256k1` | abstracted to their laws |
| Contract bindings | `nodelist`, `appdata` | not modelled: generated |

How the parts interact in one key generation: `keygen_service` receives
`acss_share` and gives it to the node; n dealings run as n broadcasts; each
dealing's output adds a bit to `TPrime`, and at F+1 bits the node broadcasts its
keyset; each keyset's output starts an agreement with vote 1 or 0; the first
agreement that decides 1 makes the node vote 0 in those it has not started; when
all n agreements decided, the node sums the dealings in the union of the
keysets that decided 1, broadcasts its share in the exponent, interpolates the
public key from K shares and sends it to the chain; K equal votes decide the key
and the chain's application tells the node, which stores its share.

Around it: a node starts its services in any order, registers on a contract and
learns of its peers before the chain and the keygen start (`Bootstrap`); the end
of a block asks for as many keygens as the buffer lacks (`KeyAssignment`), which a
node starts once per key whatever crashes (`KeygenLifecycle`); a client's request
becomes a transaction that gives the user the next key (`AssignRequest`,
`KeyAssignment`); later the client collects the shares of that key from the nodes
(`ShareRequest`). All services of a node talk through the event bus (`EventBus`,
`ServiceCalls`).

## Modules

| Module | Contents |
|---|---|
| `ReliableBroadcast` | what one broadcast promises: an output only after a quorum verified the message |
| `Rbc` | the echo/ready protocol of `acss` and `keyset` on one `SharingStore` per node |
| `Keyset` | from dealings to votes and decisions, on `ADKGSession` |
| `Aba` | the agreement on the keyset of one leader, with the coin, on `ABAState` |
| `KeyDerivation` | from decisions to the stored share, with the vote on the chain |
| `KeygenLifecycle` | the keygens of a node from the block that asks for them to the stored share, with crashes, restarts and the janitor |
| `KeyAssignment` | the replicated application: votes, keys given to users, commit in two writes, crash and replay |
| `AssignRequest` | key assignment requests of clients: lookup, semaphore, queue, workers, subscription, deadline |
| `ShareRequest` | commitments and share requests of clients, with the commitment cache |
| `ClientRequests` | `AssignRequest` and `ShareRequest` side by side, with the assumptions on their constants |
| `Bootstrap` | nodes that register, find each other and start their engines, with restarts |
| `ServiceCalls` | the calls between the services of one node: stacks, locks, waits, errors |
| `EventBus` | one topic of the bus |
| `BusTopic` | `EventBus` under variable names of its own, with the assumptions on its handlers |
| `Sharing` | the arithmetic of shares, commitments, proofs and the coin over a small field |
| `Encoding` | identifiers, node sets, padding and field layouts |
| `MC*` | the instance of each of them for TLC, with bounds as named state constraints |
| `KeysetProofs`, `AbaProofs`, `KeyDerivationProofs`, `KeygenLifecycleProofs`, `KeyAssignmentProofs`, `ReplicaProofs` | inductive invariants and theorems about the module of that name; `ReplicaProofs` continues `KeyAssignmentProofs` |
| `MessagingProofs` | the same about `Rbc` and `EventBus` (as in `BusTopic`) |
| `ServiceProofs` | the same about `Bootstrap`, `AssignRequest` and `ShareRequest` (as in `ClientRequests`) |

### `Rbc`

Both packages run the same protocol; where they differ only in the payload one
action stands for both handlers. `Propose`, `Echo`, `ReceiveEcho`,
`ReceiveReady` are the handlers of the four messages; `ReceiveEcho` and
`ReceiveReady` contain every threshold test and send of their handler.
`receivedEcho`, `receivedReady`, `readySent` and `phase` are the fields of
`RBCState`; `echoCount` and `readyStore` are the counts the thresholds read.
`Cleanup` stores nil for the round (`Complete`), after which messages are
ignored; `Expire` is the janitor, which deletes the store, so that a late
message makes a fresh one. The network is a set of sent messages that are never
removed: loss, delay, repetition and reordering are all behaviours of it.

A handler that looked its store up before a clean-up or removal, and locks it
after, works on an object nobody else sees any more. It does what it would have
done just before the removal, so the interleaving is covered by one in which it
ran first.

### `Keyset`

`AcssOutput` is the whole output handler of a dealing: record the dealing if the
predicate accepts the share, record and echo the waiting proposals that it
completes, propose when exactly F+1 dealings are there. `KeysetPropose` is the
propose handler; a proposal that is not covered yet waits in `TProposals`.
`KeysetOutput` starts the agreement; `Decide` is the decision branch of
`aux2_handler.go` and `coin_handler.go`, with the votes 0 it sends. Between a
vote and a decision only the validity of the agreement is assumed (`MayDecide`:
F+1 nodes voted for the value), which is proved of `Aba`; nodes may decide
differently. What lies between the echoes of a keyset and its output is the
promise of `Rbc`, proved there: 2F+1 nodes echoed (`OutputQuorum`).

### `Aba`

One action for each of the eight messages of an agreement. Est and aux messages
filter the values the nodes voted for, and `auxset` reports what a node saw: 0,
1, or both (`"2"`). Est2 and aux2 do the same with the reports. A node that
then sees one value decides it, one that sees a value and `"2"` starts the next
round with the value, and one that sees only `"2"` tosses the coin and decides
what it shows. `sent` holds what a node broadcast and `got` the lengths of the
sender lists, which is all the handlers read of them. `ABAState.Round` is never
incremented, so there are two rounds, 0 and 1.

The code's agreement is not an agreement when the coin decides: two nodes that
see only `"2"` may decide 1 by the coin while two others take 0 to round 1 and
decide 0 there. So `DirectAgreement` is about the nodes that decide without the
coin, and `Keyset` does not assume that decisions agree. `KeyDerivation` does: it
starts with one set of leaders whose keysets were decided 1, the same at all
nodes, and says nothing of the runs in which the coin split them.

A share of the coin is made for the round of the aux2 message and checked for the
round of the store, which stays 0, so a coin of round 1 would never complete.
`CoinOnlyInRoundZero` is why that does not matter: round 1 has one value.

### `KeyDerivation`

A share is the set of dealers it is the sum of, so a proof of a share verifies
exactly when sender and receiver summed the same set. Init is the result
of `Keyset`: of each keyset that decided 1, at least 2F+1 nodes and the leader
hold it. The other nodes may get it late (`OnKeysetVerified`) or never.
`KeepShare`, `DropShare` and `CountShare` are the three ways through the share
handler, `DecideKey` the K-th equal vote at the chain, `BFTDecided` the call back
into the node. Here a handler that locks the session after `Cleanup` can be seen,
since it stores a share: `Waiting` is the set of senders whose message may be
handled so.

### `KeygenLifecycle`

Three threads of a node meet on a session: the application that executes blocks
(`AppStep`: the decision, `BFTDecided`, the cleanup, and the keygens that EndBlock
asks for), the handlers of protocol messages (`Handler`: derive, vote, store) and
the janitor (`Expire`).
`KeygenStarted` and the share are on disk, sessions are in memory. A crash loses
the memory and the engine gives the block in execution again. The protocol between
dealing and derivation is one step (`CanDerive`), possible when F+1 nodes dealt and 2F+1
nodes, and all but F, were there for the quorums (`joined`). That it then happens is not
assumed: an agreement may wait for ever (`aba_wakeup`). A session that lost messages or
state is in `torn`, and may still finish.

### `KeyAssignment`

A replica executes the log block by block: `BeginBlock`, one step for each
transaction, `EndBlock`, `SaveState`, `SaveInfo`. An assignment is two steps,
since it writes the mapping of the key and the list of the user separately, and
Commit is two, since the state and the height are two records; `Crash` may come
between any of them. The mapping and the lists are written at once, the counters
at Commit, so a replayed block finds what its first execution wrote. The partition
of the app is asked for twice, and a gateway that fails answers "partitioned".
The consensus engine is its promise: one log, every transaction accepted by the
proposer's `CheckTx`, a replica whose hash differs from the header stops (`Halt`).
A vote whose signature or key does not verify is not refused: `VerifyDataWithEpoch` of the
broker drops the error (`service_broker.go:622`), and the vote counts for index 0, as one
more voter, who may say anything at any time (`Unverified`; `Senders` are the indexes that
votes count for, `Suspects` those that may vote for a key that was not derived).

### `AssignRequest`

One goroutine per request (`Handler`: look the user up, take a slot, enqueue, wait
for the answer, subscribe, wait for the event or the deadline), the workers of the
queue with their attempts, `abciMonitor`, and the engine, which executes a
transaction once, at any time, before or after the subscription, or never.

### `ShareRequest`

`SendCommit` and `CommitStep` are the commitment handler, `RequestStep` the share
handler, each cut where another request may come between: the cache of a provider
is tested for, stored and used in three steps. `Choose` is the client, which lists the
signatures it has, each once or more often; `Checked` counts the entries of that list, as
the handler does, not their signers. `CommonData` is the loop that looks for the most
frequent data, with the map's order as a choice.

### `Bootstrap`

For each node: `Start` of each service, `WhitelistMonitor` and `RegisterNode`,
the passes of `CurrentNodesMonitor` (`Tick`, `GetNodeRef`, `FinishPass`), the start
of the engine with the genesis file, the wait for the epoch, the stream handler and
the keygen node. `Crash` keeps the database only. A server that is up and refuses sends an
error without a result, which is stored as empty details (`Answer`); only without any answer
does the pass fall back on the database.

### `ServiceCalls`

A thread is a stack of methods; the body of a method is the sequence of what it
locks, waits for, calls and sets, in the order of the code. A call goes to a
service that runs, or is tried again by the routing and the client; what the client
of a method does with an error (return it, ignore it, end the process) is in the
`...Client` tables, one for each interface of the broker. The run starts different
sets of threads (`MCScenarios`). `dead` is the thread that ended the process: by a fatal
error of a client, or by a nil pointer in a goroutine that nothing recovers
(`Dereference`, where the transport has no keygen node yet). The sender of the message that
`StreamHandler` handles is in the node list, or is a stranger (`Find`).

### `EventBus`, `Sharing`, `Encoding`

`EventBus` is `Publish` with its copy of the handler list, the removal of
once-handlers by index, the lock that it gives up for a transactional handler, and
the goroutines of asynchronous ones. `Sharing` computes with scalars modulo a small
prime, a point being its logarithm: what a dealer deals, what a node accepts (a share is
verified at the index the dealer wrote with it, which need not be the node's) and
adds up, what it proves to the others and what K of them combine. `Encoding` writes
values and reads them back with the code's readers.

### Fault model

Nodes stop, are slow, reject a dealing others accept, and their janitor removes
rounds in progress; messages are lost, repeated, delayed and reordered. In
`KeygenLifecycle`, `KeyAssignment` and `Bootstrap` nodes crash between any two writes
and come back with what is on disk. In the key generation nodes do not lie: a dealer
sends one dealing, a share in a message is the one its sender computed. On the chain
the indexes that may vote for a key that was not derived are fewer than K, index 0 for the
unverified votes included. `AssignedKeyIsDerived` therefore says nothing of K = 1, or of
K - 1 faulty voters beside unverified votes. A leader whose session
the janitor removed could propose a second, different keyset; `Keyset` has no janitor
and its theorems do not cover that case.

## What is checked

### Key generation

Four nodes with F = 1 and K = 2: the smallest instance with n = 3F+1 and
K = F+1, in which every threshold (F+1, K, 2F+1) is passed by some proper
subset of the nodes and missed by a nonempty one.

| Run | Shows | Bound |
|---|---|---|
| `rbc` | a ready rests on 2F+1 nodes that verified; refinement of `ReliableBroadcast`; one output leads to the output of all nodes that stay up; so do 2F+1 verified echoes | n4 stops, early or after its ready; n3 may reject the message, so that it depends on amplification; n1 cleans up and its janitor comes |
| `keyset` | the same keyset everywhere; a decided keyset is held by 2F+1 nodes; no agreement decides 0 before one decided 1 | the dealing of n4 never completes; n3's fails at n1; agreements of n1 and n2; n2 and n3 decide that of a leader after n1; n3 may stop |
| `aba` | F+1 nodes voted for a decision, by the coin too; the second half of a round never has both values; nodes that decide without the coin agree, across rounds; round 1 needs no coin | three ways through the agreement: n4 sends its est and stops; the first half with two votes each; one first half in which both 0 and `"2"` enter the second, with est2 in any order but n1 ahead of n2 and n3 of n4, then round 1 or the coin |
| `aba_wakeup` | violation, see below | all aux messages arrive before any node accepts its second value |
| `keyderivation` | what is stored and decided is the agreed key; no share is left behind; all nodes that stay up store their share when all held the keysets | two overlapping keysets; n3 may lack one or both; n4 stops before the others begin; n3 expires after it learned the decision |
| `lifecycle` | a node deals once for a key; decision and derivation lose no share of an intact session; a decided key leads to its record, and to the stored share of a session that is intact, at every node that derived it | four nodes, one key; n1 crashes twice and its janitor removes the keygen once, at any point, also during start-up; n3 and n4 have started already; n4 does its own work when the others have executed the block |
| `algorithms` | accepted shares combine to one key and one coin; identifiers, node sets, padded messages and fields are read back, but for the two exceptions below | all quadratic polynomials modulo 5 of one dealer with two of another, four nodes, shares that arrive or not; the first dealer may write another index to one node, when all have the shares of the second; numbers up to 17 (two digits, and past 16), ints of 8 bits, messages up to 4 bytes of values that can be paddings, blocks of 1 to 4 and of 255 bytes |

### Chain, clients and services

| Run | Shows | Bound |
|---|---|---|
| `assignment` | a key is in the lists of one user, who keeps it in the applications for which a failing gateway changes nothing; replicas compute the same hashes, unless torn between the two writes of Commit | 4 blocks of up to two transactions, two assignments, a failing gateway, one crash; one replica alone, or two with a log of three transactions |
| `assignment_votes` | assigned keys were derived; the buffer is not exceeded, and is refilled after every assignment | two voters and unverified votes as a third, K = 2, buffer 2; when unverified votes are in the log, it has up to five transactions, with votes of n1 for the first two keys |
| `requests` | every request for a key is answered, definite answers are true, no slot or worker stays held; a commitment that was recorded is found; a client that has K signatures when it asks gets K shares though a signature is lost | three requests, two of one user, one slot, one worker, two attempts, one subscription, two losses; one client at three nodes, or two clients at one node; signatures listed up to twice |
| `services` | nothing ends the process but two kinds of stray messages, every call returns and leaves no lock; once-handlers run once, transactional callbacks do not overlap, no handler is skipped, every publish returns | the goroutines of a node that starts, of one that generates a key, of one that hears from a stranger, and of two that answer requests while services still start; two events on a topic, of one publisher or two |
| `bootstrap` | equal genesis validators; who can receive keygen messages knows every sender; every node joins | two nodes, two restarts |

`requests`, `services` and `algorithms` each check two modules that share no state: a
behaviour is one of either module with the other at rest. `ClientRequests` and `BusTopic`
give their properties the names they have in the modules they instantiate; the theorems are
about the same formulas.

Bounds are constants and state constraints, named in the MC modules. The constraints leave
behaviours out: orders of arrival at one node, deliveries to n4, agreements of a third
leader, long logs with unverified votes or with two replicas, the order of n4 among the
nodes of `lifecycle`. They keep what each property is
about: a laggard, a stopped node, a failed dealing, a store that is forgotten, votes and
decisions that cross. Every safety property of the runs of `Rbc`, `Keyset`, `Aba`,
`KeyDerivation`, `KeygenLifecycle`, `KeyAssignment`, `Bootstrap`, `AssignRequest`,
`ShareRequest` and `EventBus` is also proved without any bound. The liveness properties of the key generation are checked of the behaviours in
which n4 stops, since those are the ones with the least help. `Totality` and `Validity` of
`Rbc` are about rounds that nothing disturbs (`Undisturbed`): a janitor that removes the
store of a node in the middle of a round takes what the node had received with it, and a
node that cleans the keygen up before it sent its ready answers no more. In the runs of
`KeyAssignment` with a crash a block holds two transactions, so that a replay finds the
writes of both; the proofs allow any block.
`CHECK_DEADLOCK FALSE`: a broadcast, a key generation, a request or a start ends.

### Fairness

Only the liveness properties rest on it. `Send` retries and `Broadcast` starts one
goroutine per receiver, so a message between two nodes that stay up arrives; a
message a node sends itself is handled; the chain decides a key with K votes and
calls every node. In `Aba` a message reaches each node once, which is all that
handlers that ignore a repeated sender can tell. Nothing is assumed of a node that
stopped, and a node that rejects a message is not forced to accept it. In `KeyDerivation` a share arrives
once: nobody sends it again, so one that was kept or rejected is not
delivered a second time.

Within a node, Go runs every goroutine that can run (weak fairness), and its mutexes,
channels and semaphores serve those that wait (strong fairness of taking a lock in
`ServiceCalls` and `EventBus`, of a request in `AssignRequest`). Monitors tick for ever
(`Bootstrap`). In `KeyAssignment` the engine includes the votes that nodes broadcast and
has every block executed; in `AssignRequest` it need not execute anything. In
`KeygenLifecycle` the application and the storing of a derived share go on, but no
session is obliged to derive. Nothing is assumed of crashes, expiries,
losses or new requests.

### Where code and its comments or tests disagree

`aba_wakeup`: `keygen_test.go:98` waits for n outputs. The aux handler looks at `bin`
only when it counts a new sender. If n-F aux messages were counted before `bin` holds
both values, nothing looks again: est1 repeats the aux of the first value, which is
discarded as redundant. With two votes each, no node sends auxset and no node decides,
though no node fails and no message is lost. A run shows it.

Met while modelling, and part of the models, without a run of their own:

* An output handler of a dealing that rejects the share proposes again if the node has
  exactly F+1 dealings at that moment, which `acss/output_handler_test.go:50` does not
  expect. The repeated proposal is the same set, and `KeysetAgreement` holds regardless.
* A node that has not verified a keyset that decided 1 when the shares arrive rejects
  them, and they do not come again: it never outputs, though no node fails.
  `EveryNodeStores` is therefore about the runs in which all nodes held the keysets.
* The database service drops the curve of a public key (`db/db_service.go:79`), so an
  ed25519 key is recorded as the secp256k1 key of its index, and nodes withhold their
  vote for that one. `lifecycle` has one curve.
* `abci.go:315` says that the application hash includes the previous one. It is the hash
  of the state only.
* `event_bus.go:90` says that a once-handler is removed. With two on one topic, the
  second stays: indexes of a copy are used on a list that shrank. The same happens to one
  that stands behind a transactional handler, for which Publish gives up the lock. The node
  has one per topic and no transactional handler beside it, and so has `services`;
  `FlagsHonouredSafe` has this as its condition.
* `event_bus.go:118` says that Unsubscribe removes the callback. It compares addresses
  of copies, finds none and returns no error.
* Two first requests of a provider both store a new cache, the second over the first, and
  `cache_service_test.go:72` expects a recorded commitment to be found.
  `RecordedIsFound` is about nodes that have the cache already.
* `dkg_method_handlers.go:569` says that the common data is looked for. The loop never
  updates its maximum, so the map's order decides.
* The dealer of a round is written in base 10 and read in base 16
  (`adkg_common.go:121`): from dealer 10 on, proposals of the leader are skipped. `ReadBack`
  claims nothing of this reader for dealers from ten on.
* `coin_init_handler.go:147` says that a point of a coin share has 33 bytes, and it is read so.
  ed25519 points, on which `keygen_test.go:64` runs too, have 32. `ReadBack` claims nothing
  of coin shares on ed25519.
* The error of `verify_data_with_epoch` and of `verify_data_with_nodelist` is dropped by the
  client (`service_broker.go:622`, `:574`). A vote that does not verify counts for index 0
  (`KeyAssignment`); a message of a sender that is not in the node list goes on to the
  lookup of its sender, whose failure ends the process (`service_broker.go:518`).
* `keygen_node.go:62` sets the stream handler, the next line the keygen node of the
  transport. A message in between meets a nil pointer in a goroutine of its own and ends the
  process. `OnlyStraysAreFatal` names this case and the previous one as the only two.
* `dkg_method_handlers.go:565` checks for "threshold number of signatures". It counts
  entries, so a signature listed K times passes (`ShareBacked`).

## What is proved

For any finite set of nodes and any F and K within the stated assumptions.

* `MessagingProofs`, of `Rbc`. The inductive invariant relates a node's store to the
  network: `echoCount` and `readyStore` are the numbers of distinct senders
  received, each of which really sent; a node with `ReadySent` has its ready on the
  network; a ready, and an ended round, rest on 2F+1 echoes. Without it a count
  says nothing of how many nodes verified, and amplification, which sends a
  ready on F+1 readies, is justified only by the quorum behind the first of them. From it:
  `TypeCorrect`, `ReadyQuorumSafe`, `AmplificationSafe`, `OutputOnceSafe` and
  `Refinement` (`Rbc` implements `ReliableBroadcast`, which states safety only).
* `MessagingProofs`, of `EventBus`, for any handlers, flags, publishers and number of events.
  `DueInv` is an equation for each handler: the calls made, the goroutines that have yet to
  call, and the publishers that have the handler ahead of them in their copies are together
  as many as the events published while it was in the list. A publisher that has returned
  has nothing ahead, which is `EveryHandlerCalledSafe`. `SerialInv`: the lock of a
  transactional handler is held from before its goroutine exists to its end, by one publisher
  only, though the bus lock is given up in between; from it `TransactionalSerial`. `OnceInv`:
  while a publisher in the loop has the once-handler ahead, its copy is the list itself, so
  the index removes the handler it means, and one that is still in the list was not called.
  That is false in general, so `FlagsHonouredSafe` is about behaviours in which `Topic` holds:
  at most one handler of the topic runs once, and then none is transactional. All three
  rest on `ListInv` (no handler is twice in a list, who holds the lock is in the loop) and
  suppose `BusAssumption`: finitely many publishers, and flags of handlers.
* `KeysetProofs`. Every proposal of a leader has F+1 dealers and is the keyset
  the leader recorded for itself: the accepted dealings only grow, and two sets of
  F+1 dealers of which one contains the other are equal (`SameKeyset`). Echoes
  and records are of proposals; votes and decisions for 1 rest on 2F+1 echoes; a
  vote for 0 comes from a started agreement or from the first decision. A node that
  votes before any agreement decided 1 votes 0 only where it lacks the keyset, and
  2F+1 nodes have it, so with n <= 3F+1 (`ParamsAssumption`) at most F nodes vote 0
  and the validity of the agreement, F+1 votes, excludes the decision (`NoZeroYet`).
  From it: `TypeCorrect`, `CoveredSafe`, `AgreementSafe`, `DecidedHeldSafe`,
  `OneVoteSafe`, `OneBeforeZeroSafe`.
* `AbaProofs`. `VoteInv`: every value in the first half of a round is a vote of F+1
  nodes, since a node accepts or amplifies only what F+1 nodes sent, and a
  `"2"` in the second half stands for both values having been accepted, so
  either side of the coin has F+1 votes. `ReportInv` and `ReportedInv`: a node
  reports once per round and no more reports are counted than were sent, so a value
  in the second half has n-F reporters; every value that reaches round 1, and
  every decision without the coin, has the n-F reporters of round 0. Two such
  quorums share a node (`ParamsAssumption`, n > 2F), which reported once
  (`OneReported`), so round 1 has one value, no `"2"` and no coin. From them:
  `TypeCorrect`, `ValiditySafe`, `SecondHalfSafe`, `DirectAgreementSafe`,
  `CoinRoundSafe`.
* `KeyDerivationProofs`. The invariant carries, for each leader, a set of
  fewer than K nodes that contains every node that was ever late with the
  leader's keyset, or whose sum, count or vote shows that it was (`LateInv`); Init
  has one by `ParamsAssumption` (n <= 2F+K, which n = 3F+1 with K = F+1 meets). A
  set is needed because a node may get the keyset after it summed without it. K
  shares that verify against an incomplete sum would need K late nodes. A second,
  independent invariant is the handshake of `Over` and `BFTDecided`. From them:
  `TypeCorrect`, `ShareSafe`, `DecidedKeySafe`, `HandshakeSafe`.
* `KeygenLifecycleProofs`. `DealInv`: a secret is dealt only for a key whose
  `KeygenStarted` is on disk, by the one call that wrote it. For the shares the
  invariant says what each phase of a session and of the application has left to do:
  a decision executed on a session that is not over marks it, a derivation that
  finds the mark stores, and a node that is not up has lost every session it had.
  From it: `TypeCorrect`, `DealsOnceSafe`, `IntactSharesSafe`.
* `KeyAssignmentProofs`. `HolderInv` keeps, for each replica, the states f[0], f[1],
  ... f[N] that the execution of the block above the saved height goes through, as far
  as any attempt came. DeliverTx is a function of the state, so an attempt after a
  crash goes through the same states. Every key in a list lies below the saved
  `LastUnassignedIndex` or is given by one of the N transactions, to the user that has
  it, and since the index never goes back no two of them give one key (`TakesOnce`).
  What is on disk alone says too little: after a crash the lists are ahead of the
  counters. `DerivedInv`: only suspects are counted for a key that was not derived: faulty
  voters, and index 0 with the votes that did not verify, which is one voter however many
  they are. There are fewer than K (`ConstantsAssumption`). From them: `TypeCorrect`,
  `KeyHasOneHolderSafe`, `AssignedKeyIsDerivedSafe`.
* `ReplicaProofs` goes on from `HolderInv`. `AgreementInv`: there is one chain of states
  S[0], ... S[D], each the outcome of a block on the one before; the headers of the log
  hold the hashes of these states, and every replica that is not torn is on the chain,
  in memory and on disk, in every phase of its Commit. A run of a block is determined by
  the state it begins in (`RunsAgree`), so a replica that executes a block again, or
  later than the others, comes to the state that is there. From it: `HaltsOnlyTornSafe`,
  and `ReplicasAgreeSafe`, that replicas at one height have one state and one hash.
  `KeptInv`: between its two writes an assignment holds the list it will write, which
  contains what the list on disk has, provided both lookups of the partition had one
  answer. From it the action property `KeysAreKeptSafe`.
  `BufferInv`: a key is voted for blocks after EndBlock asked for it, and was within the
  buffer of the state EndBlock saw; votes of suspects are not, but a key needs one vote of
  another node (`VoteBacked`). `LastUnassignedIndex` only grows along the chain,
  so it is within the buffer of the state the vote is counted on, also when a replica
  executes that block much later. From it `BufferNotExceededSafe`. It supposes that no replica is
  torn: one that counts the assignments of a block twice asks for more keys than the
  others would, and its votes reach all.
* `ServiceProofs`, of `Bootstrap`. The contract only appends, so every list that a node read is a
  prefix of it; an engine starts with N entries, and prefixes of one length are equal.
  No node is listed twice, so a list of N entries names N nodes, which are all
  (`EpochAssumption`: the epoch is made for the nodes that are whitelisted), and a node
  that has an index has it in its list (`SenderInv`). An engine that runs waited for the
  epoch to be in `nodeRegisterMap`, so the early return of `verifyDataWithEpoch` that
  keeps the lock is never taken (`LockInv`). From them: `GenesisAgreement`,
  `SendersFoundSafe`, `LockReturnedSafe`.
* `ServiceProofs`, of `AssignRequest`, for any number of requests, slots, workers, attempts,
  subscriptions and losses. `HolderInv`: the place of a handler says what it holds. A slot
  belongs to a request that is queued or submitted, a worker to one that waits for its answer, two
  workers have different requests, and an answered request is done. `TruthInv`: what a
  request is about to be told has happened; an event that reached it is one of its own
  executed transaction, and a transaction that succeeded left its user with a key. From
  them: `AnswerIsTrueSafe`, `NothingHeldSafe`, and `ReleasedSafe`, which says of each
  request by itself that it holds nothing once answered. `AssignAssumption` says that every
  request has a user, the bounds are positive and the value for an idle worker is no request.
* `ServiceProofs`, of `ShareRequest`. `WarmInv`: a node that has the cache of the provider
  never reaches the step that makes one, so it records in the cache it asks. From it
  `RecordedIsFoundSafe`. `BackedInv`: what is cached or signed was recorded, and the
  signatures a request was checked with do not change. From it `ShareBackedSafe`: a node
  that gave its share recorded the commitment itself, and so did the signers of K entries of
  the request, also when the commitments have expired since. By the pigeonhole principle
  these are K nodes if no signature is listed twice; otherwise they may be fewer, which the
  handler does not exclude. `ShareAssumption`: finitely many nodes, some of which have
  the cache, and finitely many copies of a signature.

The assumptions are those named in the modules (`ConstantsAssumption`,
`ParamsAssumption`, ...): finite sets of nodes, the inequalities above, fewer than K
suspects among the voters. TLC evaluates them for the instances it checks. Nothing is assumed of the
number of replicas, crashes, blocks or users.

`NoMissedAmplification`, `OutputOnce`, `KeysetsCovered`, `OneVote`, `LockReturned`,
`ReplicasAgree`, `Released`, `ShareBacked` and the statement of `TransactionalSerial` are
proved and not among the properties of the runs. The invariants
`AgreementInv` and `BufferInv` speak of chains of states and `HolderInv` of functions on
the naturals; TLC does not enumerate those, and what follows from them is what it checked.

Only model-checked:

* Liveness under fairness, which is beyond the prover: `Totality` and `Validity` of `Rbc`,
  `EveryNodeStores`, `DecisionTakesEffect`, `BufferRefilled`, `EveryoneJoins`,
  `EveryRequestAnswered`, `SharesReach`, `CallsReturn`, `PublishReturns`.
* `KeyOfSecrets`, `CoinIsCommon` and `ReadBack`: what `Sharing` and `Encoding` compute
  for every polynomial, message or number would need induction over data.
* `OnlyStraysAreFatal`: the bodies of the methods are fixed tables, so the run covers each
  scenario whole and a proof would be the same enumeration.

## Not modelled

* The composition of all n agreements with the coin. `Keyset` takes from `Aba` what is
  proved there; what the nodes do when the coin split their decisions is left open,
  since `KeyDerivation` starts from decisions that agree.
* The 20 second wait of a coin share for the keyset of the leader, except as a share
  that is lost.
* A change of the epoch: `currentEpoch` is 1 and nothing changes it.
* Verifier providers, the gateway, leveldb, libp2p and the consensus engine, except as
  what the code relies on. Files, environment, configuration, telemetry: I/O without
  state that anything reads back.
* The arithmetic of the curves, hashing, encryption and erasure coding: laws in
  `Rbc`, `Sharing` and `KeyDerivation`.
* `Retrieve` of the BFT client and `WaitAsync` of the bus, which nothing calls.
