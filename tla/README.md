# UISCoin: a verification development

TLA+ models of the UISCoin node (the Java program in `src/`), the TLC runs that
check them on small instances, and theorems about them that TLAPS checks for
every value of their constants. Paths below are relative to
`src/src/com/bradyrussell/uiscoin/` unless they start with another directory.

How to run: `tlc -config MCNode.cfg MCNode` (and so on for every `.cfg`, whose
module has the name of its prefix: `MCEventLoops*.cfg` belong to
`MCEventLoops.tla`), and `tlapm NodeProofs.tla` for a module of proofs.
`PROJECT.json` lists the components, runs, mutants, findings, hazards and
theorems, and maps every definition to the lines it models.

## 1. The system

A UISCoin node stores a chain of blocks, a mempool of pending transactions and
the set of unspent outputs (UTXO set). It exchanges blocks and transactions
with other nodes over TCP. An application on top (a miner, a wallet) constructs
the storage and the node, assembles candidate blocks, mines, and asks the peers.

| Component | State | Operations | What makes it correct |
|---|---|---|---|
| Block and transaction rules (`block/`, `transaction/`) | none | `verify`, `verifyTransactions`, `verifyTransactionsUnspent`, `verifyInputsUnspent`, reward, fees, difficulty | what is accepted extends the chain, spends unspent outputs once, conserves value, and goes on verifying |
| In-memory storage (`BlockchainStorageInMemory`) | block height, blocks by hash, blocks by height, block by transaction, UTXO set, mempool | `putBlock`, mempool put and remove, `buildUnspentTransactionOutputSet`, reads | its collections describe one chain; the UTXO set is exact |
| Single file storage (`BlockchainStorageSingleFile`) | the above, and a file | `open`, `close` | what it restores is as sound as what was received; what was saved is not lost |
| Receiving handlers (`NodeP2PReceive*Handler`) | none of their own | `channelRead0` of a block, a transaction, a request, a peer | only valid data is stored and relayed, and once |
| Event loops (netty, used in `UISCoinNode`) | the place of each loop in its handler | run handlers of many connections in parallel | the handlers, which share the storage without a lock, store nothing they should not and lose nothing they store |
| Peer protocol (`NodeP2PMessageDecoder`, `NodeP2P*Handler`) | highest seen height, connections | HEIGHT, HEIGHTQUERY, SYNC, REQUEST, BLOCK, TX, PEER, MEMPOOL | nodes catch up; the exchange dies out |
| Peer discovery (`UISCoinNode`, `NodeP2PReceivePeerHandler`) | `peersEverSeen`, the connected channels | gossip, connect, retry | the gossip of an address stops; a node does not talk to itself |
| Block assembly (`BlockBuilder`) | the block under construction | fluent setters, `addMempoolTransactions`, `createBlockFromMempool...` | a candidate verifies, nothing that could be mined is forgotten |
| Transaction builders and chain utilities (`TransactionBuilder`, `BlockchainUtil`, `ScriptMatcher`) | the transaction under construction | find unspent outputs of a key, add inputs, add change | a payment leaves exactly the fee; a balance that suffices can be paid from |
| Scripts (`script/`) | stack, instruction counter, failed flag, step count | one step per operator | an unlocking script ends, and ends well only if it should |
| Wallet files, keys, serialization, HTTP | files, bytes | | |

**How they interact.** All components share one storage object. The handlers
read it (verification) and change it (`putBlock`, `putMempoolTransaction`);
`BlockBuilder` reads the tip and the mempool and removes from the mempool;
`TransactionBuilder` and `BlockchainUtil` only read, on a thread of the
application, and from the collections themselves. A verification of a transaction runs scripts. A
stored block or transaction is sent to all connected channels. The peer
protocol uses nothing else of the node than the height and blocks of the
storage, and one integer of its own, the highest seen height.

**What is hard here.** Handlers of different connections run on different
threads, the storage is plain `HashMap`s, `HashSet`s and `ArrayList`s, and
nothing locks it: verifications are read-then-act, and `putBlock` is a sequence
of updates to six collections. Blocks come in any order, again and again, from
both sides of a fork (there is no reorganisation: a block either extends the
tip or is dropped). A double spend is looked for in three places that each see
only part of it. Pending transactions grow old. A chain is saved only by
`close`, which first empties the file; exceptions of both reading and writing
it are swallowed. Synchronisation asks once per height and relies on the answer
coming in order. A builder reads the tip three times, or the UTXO set over and over, while
handlers change both. `PROJECT.json` lists these hazards with the lines where they
bite and the properties that watch them.

## 2. The modules

```
Blocks ── Chains ── Storage ── Validation ── Node ◄── refined by EventLoops with one loop
             │                      └── EventLoops
             ├── Ledger ◄── refined by Node and by each node of Sync
             └── Sync
EventLoops ── Mining (an application that mines on a thread of its own)
Node ── SingleFile (the lives of a node), Wallet (an application that pays)
Discovery (nodes, connections and addresses; no storage)
Bytes ── ScriptExecution (with ScriptOperator); its verdict is `unlocks` of an input
Universe (data for TLC)   MCNode  MCEventLoops  MCSingleFile  MCSync  MCScript
                          MCDiscovery  MCMining  MCWallet
Folding ── ValidationProofs ── NodeProofs ── ApplicationProofs (SingleFile, Wallet)
   │                │               └┄┄ instantiated by EventLoopsProofs (with Mining)
   │                └── SyncProofs     DiscoveryProofs
   └── ScriptProofs
```

| Module | Models | Correspondence |
|---|---|---|
| `Blocks` | what a block and a transaction are (`Block`, `BlockHeader`, `Transaction`, `TransactionInput`, `TransactionOutput`, `MagicNumbers`) | A hash is the name of its data: `BlockHash` and `TxHash` are sets of names, `BlockOf` and `TxOf` give the data. Hashes are collision free. The checks on one block alone (Merkle root, proof of work, sizes of the coinbase) are its Boolean `sealed`; the outcome of an unlocking script over its locking script is `unlocks` of the input. Amounts are `long`s: sums are wrapped at `LongMax`. |
| `Chains` | no code of its own: what sequences of blocks create, spend and link | vocabulary of `Ledger`, the properties and `Sync` |
| `Ledger` | the abstract specification of a node | one variable, the chain; one action, a block that extends it |
| `Storage` | `BlockchainStorageInMemory` | one variable per field; `putBlock`, which updates all of them in the order of the code (per transaction: index, spend, create) |
| `Validation` | `Block.verify`, `verifyTransactions`, `verifyTransactionsUnspent`, `BlockHeader.verify`, `Transaction.verify`, `verifyInputsUnspent`, `BlockchainStorage.verify`, and the clock they read | an operator per method, a conjunct per early return |
| `Node` | `NodeP2PReceiveBlockHandler`, `NodeP2PReceiveTransactionHandler`, `BlockBuilder.addMempoolTransactions` as far as it changes the mempool | an action per way out of a handler; handlers are atomic. `relays` counts broadcasts, `heightsTold` collects the HEIGHT answers to peers behind |
| `EventLoops` | the same handlers on any number of threads | a `pc` and the handler's locals per loop; a step for every access to shared state, one for each of `putBlock`'s collections and each transaction. With `RacyCollections` the collections are those of `java.util`: two loops that change one of them at the same time spoil it for good (`damaged`). Whatever is in a spoilt collection, however old, is found or not each time it is looked for, what is removed may stay, and a change may throw; while one loop changes a collection, another may miss what is in it. The variables keep what was put, which is what the properties speak of |
| `SingleFile` | `BlockchainStorageSingleFile` and the constructor of `UISCoinNode`, the node running in between | phases of a life; `close` is an emptying and a writing step; the process may die between any two steps; the disk may fail |
| `Sync` | `NodeP2PMessageDecoder`, the handlers of blocks and block requests, `UISCoinNode`'s requests, between several nodes | a node is its ledger, a connection two FIFO channels; reading and setting the highest seen height are two steps; a connection is lost by the network (`Drop`) or closed by an exception of a handler (`Close`) |
| `Bytes` | `byte[]`, `BytesUtil`'s numbers, Java's integer arithmetic | the three widths (byte, int, long) are CONSTANTS; arithmetic wraps |
| `ScriptOperator` | `ScriptOperator` | the codes of the operators; `getByOpCode` |
| `ScriptExecution` | `ScriptExecution`, and `TransactionInput.verify` from its first script on | an action per operator or family of operators; between them the end of a script, the step limit, a return from a call, the second script. The stack holds references into `heap`, as Java's does, because SET and COPY write through them. An instruction has popped its operands before it fails or stops, so what is left is what the locking script, or the caller, goes on with (`Halt`). A called machine is a frame of its own; a script exception (`Throw`) unwinds all frames, as it does in the code, and one of Java's own (`Crash`) ends the verification |
| `Discovery` | `UISCoinNode`'s `connectToPeer`, `retryPeers`, `getPeers`, the greeting of `NodeP2PClientHandler` and `NodeP2PMessageDecoder`, `NodeP2PReceivePeerHandler` and its encoder | a node is the address it listens at; a connection is a *port*, the address its caller calls from, where nobody listens; `channel` holds what each end has still to read. An action per outcome of a call, per message, for `retryPeers`, and for a connection that ends |
| `Mining` | `BlockBuilder.createBlockFromMempool...` and an application that mines as the one in the repository's `README.md` does | `EventLoops` with one thread set aside for the application. A step for each read of the tip, for the copy of the mempool, for each pending transaction looked at, for the removal together with the coinbase; then the block is verified, for as long as it takes, and stored with the steps of `putBlock`. A candidate that never verifies is never given up, as in the loop of that `README.md`. The collections are taken to be thread safe: the question is what interleavings alone do to a candidate |
| `Wallet` | `TransactionBuilder`, `BlockchainUtil`, `ScriptMatcher.match` on pay-to-public-key-hash scripts | `Node` beside an application that pays. A step for the beginning and the end of each iteration over the UTXO set, for each output looked up, for the choice, for the change. An iteration over a set that was changed meanwhile fails, or yields some of what was there or is |

A definition that begins with the word *Slip* in its comment is not part of the
model. It is a definition of the model with a plausible mistake (a dropped
check, a wrong bound, a missing update) and `PROJECT.json` uses it to show that
a property would notice that mistake.

### Abstractions worth knowing

* Verification reads only what is never taken back — stored blocks, indexed
  transactions, a clock that moves forward — so `EventLoops` makes
  `Block.verify` one step. `EventLoopsProofs` proves the facts this rests on
  (`blockVerify` and `transactionVerify` are stable under every step as long as
  the collections are thread safe). `verifyTransactionsUnspent` reads the UTXO
  set, which does shrink, and is a step per transaction.
* `UISCoinNode` never forgets a block, so there is no pruning and no fork choice
  to model: forks show as blocks that are refused.
* In `Sync` a node stores exactly the blocks that extend its chain; that `Node`
  does so is what `NodeImplementsLedger` proves. For the log, the handler then adds
  up the fees of the block again, and an unknown input throws past every `catch`:
  the connection is closed. So a block that comes before its predecessor is
  dropped silently only if it spends nothing unknown (`SpendsUnknown`).
* `EventLoops` does not keep what a spoilt `HashMap` still holds, but what was put
  into it, and lets each reading of it go wrong. So `AcceptedVerifies` says that nothing
  is let in that does not verify against all that was put; it does not say that
  the node can still find it.
* In `Mining` and `Wallet` a block or payment that is made is looked up among the
  names of the instance by its contents (`IsCandidate`, `IsPayment`): hashes are
  names of data, and the instances name all that can come about. A nonce is
  found whenever the block verifies otherwise, and never if it does not.
* In `Discovery` a channel carries an address at most once. Sending it twice
  changes nothing for the receiver but the number of times it looks.
* `AssembleCandidate` leaves the order of the walk open, because the comparator
  of `BlockBuilder` is no order (it casts and reads the clock anew).

## 3. What the runs check

| Run | Instance | Shows |
|---|---|---|
| `node` | one node; 18 blocks and 14 transactions of `Universe`: two geneses, a fork, a chain of three, a block whose outputs overflow a long, and a block for each rule that breaks only that rule; clock 0, 300, 700 | Whatever arrives in whatever order and number, the node implements `Ledger`, its five views agree, the UTXO set is exact, the stored chain verifies at any later time, the unspent outputs are worth no more than rewards and overflowing totals of outputs minted, the mempool is free of conflicts and goes on verifying, nothing is relayed twice, and told heights can be served |
| `loops_one` | one event loop, five blocks | The cut handlers implement `Node`: cutting them loses nothing, and one loop never spoils a collection. The properties of `Node` that only speak of mapped variables carry over |
| `loops_two` | two loops, collections their races spoil; a chain of three, whose last block spends nothing of the second | What is stored or pending goes on verifying against all that was put, whatever a spoilt collection hides or throws; as long as no collection is spoilt, between handlers no unspent output of a stored block is missing from the UTXO set |
| `loops_spent` | two loops, a chain of three, no races inside the collections | *Violation*: a spent output is unspent again |
| `single_file` | two blocks and a fork, any number of lives | What a node restores is sound and exact, and its UTXO set what a rebuild gives; until the disk fails nothing saved is replaced by something that does not extend it |
| `sync` | two nodes, four blocks with a fork at each of two heights, one question of an application, one lost connection | The same block has the same past everywhere; the exchange dies out; a node reaches any height it noted unless a connection was lost or closed, or the chains fork |
| `sync_stuck` | two nodes, one block, two questions, a network that loses nothing | *Violation*: a noted height is never reached |
| `script` | each of the 113 operators, and a code without one, on 35 stacks of up to two elements (and in an unlocking script); some 2 500 scripts with memory operators, many operands, cut-off data, signatures, calls, jumps and recursion; extended flow control on and off | Verification ends; a script and all it calls share one step limit; without extended flow control no instruction is executed twice and the scripts of the transactions are never written to; where no signature fits two keys, VERIFYMULTISIG passes just when each has a key of the list and no keyholder gave more than there are arrays with his key |
| `script_call` | the same scripts, flow control as in transactions | *Violation*: a call does not answer |
| `discovery` | three nodes, four calls by their applications that can make a triangle and a node's call to itself, three ports, one dropped connection, one retry | A node connects to and retries only what its own application named; a connection of a node to itself ends; the gossip of an address ends once of any two connected nodes one knows it |
| `mining` | one event loop and one miner; a genesis and a block of a peer, four transactions, one of which names an output twice and one of which is too large; the blocks that can be mined from them, and one of two tips that must not be | A candidate made of one tip, with a transaction, no output twice and a size below the limit, verifies for as long as a nonce is looked for, also after the loop has stored something; undisturbed, it extends the tip and spends unspent outputs; what is stored stands on stored blocks; building a candidate forgets only transactions that have lost an input to a stored block |
| `wallet` | a wallet of two keys, payments of 16 and of 40, four kinds of block by others and the blocks that hold a payment | A payment that verifies leaves exactly the fee asked for, whatever the builder overlooked; an undisturbed builder over outputs of different amounts, unlockable and unclaimed, with no broken script in the UTXO set, makes a payment the node accepts |

### Findings

Each violation is a disagreement of the code with a line of its own text,
quoted in `PROJECT.json`.

1. `loops_spent`: the same block twice. A block can be found by its hash before
   its outputs are in the UTXO set, so its successor can be stored, and spend them,
   before the second copy adds them again.
2. `sync_stuck`: a SYNC for a height above the tip ends in an exception that
   closes the connection, including when the refusing node itself waits for
   blocks on it. It has raised its highest seen height when it asked, so hearing
   of the same height again does not make it ask again.
3. `script_call`: an exception in a called machine, and the step limit is one,
   is not caught by CALL. It unwinds to `TransactionInput.verify`, which asks the
   outermost machine whether it has failed; it has not, so the input verifies.

Smaller things met on the way, which no run is spent on. Of scripts: CALL's
comment says that the called machine "cannot access outside its scope", but its
operands are the caller's own arrays and SET writes into them; VERIFYMULTISIG
passes over keys it has used "otherwise one keyholder could submit multiple
sigs", but by reference, so a keyholder whose key is listed in two arrays of the
same bytes can submit two (`MultisigMatches` says what the code does: as many as
there are such arrays); the comment of SHA512EQUAL says that the top is the hash of the second, and the code
has it the other way round; the step limit stops the instruction after the
1001st; COPY checks the place of its source twice and that of its destination
only from above; comparing arrays of two or three bytes reads four. Elsewhere:
`README.md` of the repository says the difficulty has a minimum of 3, and
nothing holds the first block to it; between the first two steps of `putBlock` the
block of the current height cannot be read; `close` reports success when writing
failed.

Of two event loops: both can read the height, verify a block for the same height
and store it, and `blocksByHeight` then holds one side of a fork below a block of
the other, although `getBlockchain` promises an ordered list of the chain; and
both can find no conflict in the mempool and put transactions that conflict. Of
values: the totals of outputs are longs that nobody checks for overflow, so a
transaction whose outputs wrap verifies and creates value (`ValueConserved` counts
what it hides as minted). Of the file storage: `isOperational` is inherited and always true, so the
constructor of `UISCoinNode`, which opens a storage that is not operational, never
opens this one, and an application that does not call `open` itself runs on an
empty chain, which the next `close` writes over the file (`SavedOnlyGrows` holds with
`AppOpens`, for applications that do call it). So it is after a read that failed:
its exception is printed, `open` returns true, and the chain is empty.

Of gossip (`Discovery`): what is announced of a caller is the port it calls from,
where nobody listens, so gossip introduces nobody to anybody. Two connected nodes
neither of which knows that port hand it back and forth for ever, since calling it
fails and leaves no trace in `peersEverSeen`; the encoder's "don't send a peer to
itself" does not stop it, because it compares with the address of the one
connection it writes to. An address of a node's own stays in `peersEverSeen` and
is called again by every retry.

Of mining (`Mining`): the running size is never increased, so candidates can
exceed the size of a block and never verify; a transaction too large for the limit
ends the walk, with whatever order the comparator gives; a transaction that names
an output twice is accepted, relayed, and taken into every candidate, none of
which verifies; so is a pair of conflicting ones (the handler's own comment counts
on a check when a candidate is built, and there is none). A candidate without
a transaction never verifies. `Block.verify` asks neither whether the predecessor
is the tip nor whether the inputs are unspent, so a miner that goes by it stores a
stale block over the tip. A miner that, like the one of the repository's `README.md`,
looks for a nonce until the block verifies is stuck with such a candidate, so
that what is pending is ever mined is not to be had. Each of these is a condition of
`CandidateVerifies` or `UndisturbedExtends`.

Of wallets (`Wallet`): of two outputs of the same amount the map keeps one and the
total counts both; outputs spent by a pending transaction, outputs locked by time,
and outputs whose script goes on after the memo and fails, are all chosen; a
push that ends beyond its script makes the matcher throw for every wallet; where
inputs fall short a negative change is added. All of them end in a payment
that is refused (`PaysExactFee`), and each is a condition of `Payable`.

### Bounds, and why they are enough

* *Blocks and transactions.* Rules relate a block to its predecessor and to the
  outputs it spends. Chains of three blocks have a block with a predecessor that
  has one, an output created, spent and offered again, and a fork whose losing
  side has a successor. Every rule has a block or transaction that breaks it
  alone, so that dropping any one check shows (the mutants confirm it).
* *The clock* takes one value before and one after each time stamp that matters,
  and only moves forward.
* *`LongMax`* is beyond every sum of `Universe` but one: the outputs of `o1` add up to
  more than two longs can say and wrap to less than its input, and the block
  `o1b` that holds it is stored.
* *`MaxRelays`* stops the counters of `EventLoops`. It is 0 where no property
  reads them, and 2 where `ImplementsNode` does, which allows the second relay
  that must not happen.
* *Two event loops.* Every race listed is one of two handlers; the theorems hold
  for any number. `SYMMETRY` is used in the safety runs only. `loops_two` keeps to
  three blocks and one time, since what a spoilt collection shows is anybody's guess
  and every guess is a branch; the third block spends nothing of the second, so
  that only its header needs it.
* *`MaxAsks`, `MaxDrops`* bound what applications and the network do, so that the
  question whether the protocol itself goes on for ever can be asked at all.
  One question and one loss together already give every kind of message, a
  truncated answer, a reconnection and a second synchronisation; two questions
  are what the stuck node needs.
* *`SizeLimit`* of 5 lies between the sizes in `Universe`, so that an assembly
  can stop early.
* *Discovery.* A triangle is the smallest network in which an address can come
  back by another way, and a node's call to itself needs a port of its own. One unanswered call per pair
  (`MaxDials`), one dropped connection and one retry give a reconnection under a
  new port.
* *Mining.* Sizes are such that the two good transactions fit in a block together,
  the one that names an output twice passes `SizeLimit` and fits with neither, and
  the fourth, which appears once the peer's block is stored, does not pass it. The
  clock shows 0 or 700: at 0 the peer's block is still in the future, and the
  difficulty rises; at 700 it falls. Blocks of a height up to three let a mined
  block stand on a mined one. The blocks of the instance are those with at least one transaction,
  as no other candidate verifies.
* *Wallet.* The amounts make one payment need one output and the other two; two
  outputs of different keys have the same amount; one is behind a script that
  fails, one stops the matcher, one is locked by time. Payments that fall short
  by up to three are part of the instance, because they would still leave a fee.
* *Bytes and steps.* An int of two bytes and a long of three keep the three widths
  apart and within TLC's own integers; no operator looks at more than two operands
  except those with programs of their own. Two bytes make one thing impossible
  that four allow: an array longer than a byte and shorter than an int, on which
  comparing crashes. `MaximumStepsAllowed` of 6 lets the unlocking script push the seven
  operands of COPY and still stops every loop; `MaximumAllocation` of 4 lies within the ints
  tried. `Floats` and `Blobs` have one value each, since nothing looks into them.
* *Deadlock.* Checked everywhere but in `Sync` and `Discovery`, where nodes with
  nothing left to ask or tell have nothing to do; in `ScriptExecution`, which stops
  with its verdict; and in `Mining`, where a miner whose candidate
  never verifies looks for a nonce for ever and one whose tip cannot be read waits.

### Fairness

`ScriptExecution` assumes that the thread in the loop around `step` goes on
(`WF_vars(Next)`). `Sync` assumes weak fairness of each connection's receiving. netty's event
loop goes on reading a channel that is open, and TCP neither loses nor reorders
the messages of one. Nothing makes applications mine, ask or connect, and
nothing keeps connections from going down. `Discovery` assumes the same of its
channels, and that TCP answers every call, one way or the other. All other modules
check safety; a liveness property of `Mining` would need a miner that gives up
what cannot verify, and the code shows none.

## 4. What is proved

All theorems hold for any blocks, transactions, amounts and clock times that
satisfy the named assumptions of `Blocks` (types of the data, names of blocks and
transactions apart from each other), and for any number of event loops, nodes,
connections, lives, keys and scripts. Where a theorem needs more, it says so, and
the list below repeats it. Hypotheses are of three kinds: a configuration
(`~RacyCollections`, `AppOpens`, `EventLoops = {e}`, `KeysApart`); a bound of
Java's that the model does not force on every value (`SumsFit`, in one theorem of
the wallet; `Lengths`; clock readings that fit a long); and what a constant stands for (`DigestsAreBytes`,
`AnswersAreKnown`, `InPlay`, `PaymentInPlay`).

* `Folding` proves, for an operator that is its parameter, that a fold over a
  sequence ends where going through it step by step does (`FoldLeftTraced`), and
  that a fold over a set does not depend on the order in which `CHOOSE` takes the
  elements if the operator does not (`FoldOverStep`). The prover has no induction over
  operators, so it is stated of sets (`SetInduction`), and each fold of the code is an
  instance of the module. Its own induction is the well-foundedness of `<`.
* `ValidationProofs` holds the lemmas the others rest on: what appending a block
  does to what a chain created and spent; that what was verified verifies
  against every later storage and clock (`Grown`: blocks and indexed transactions
  stay, the clock moves on); and sums of amounts over functions, as the code adds
  them up: what adding, removing, splitting and renaming do to a sum, that a
  wrapped sum that fits is the sum, and from these that a block which verifies
  is worth no more to the UTXO set than its reward (`BlockWorth`).
* `NodeProofs`: the ledger is sound (`LedgerSound`), and a node implements it.
  `TypeOK`, `ViewsAgree`, `UtxoExact`, `ChainSound` and `ImplementsLedger` come from
  `IInv`. None of the last four is inductive alone: that a block
  which verifies extends the chain needs the agreement of the five views and
  the exactness of the UTXO set, both of which need that only such blocks are
  stored. The bridge is the lemma that under `IInv` the conjuncts of
  `blockVerify` and `verifyTransactionsUnspent` imply `CanExtend`.
  `ChainKeepsVerifying`, `MempoolConflictFree`, `MempoolVerifies`, `RelayedOnce` and
  `HeightsServable` come from `HInv`, which adds what was true when something was
  accepted: a relayed transaction is pending or has lost an input to the chain,
  so it is not accepted a second time. `ValueConserved` is proved without any bound:
  each of the unchecked sums may wrap. Of the outputs of a transaction the total
  that the code compares differs from the real one by what `OverflowIn` counts as
  minted; every other total may only come out lower than it is by whole
  wraps, which makes the code refuse more, not less (`BlockWorth`, `VInv`).
* `EventLoopsProofs`: for any number of event loops, over spoilt collections or sound
  ones, `TypeOK` and `AcceptedVerifies`, from `VInv`: what a loop has verified and not
  stored yet verifies, too, what it indexes is stored, and both only grow. A miss
  or an exception only ever keeps a loop from going on. `UnspentKept` follows
  from `KInv`: as long as nothing is spoilt, what a stored block creates is unspent, or
  spent by a stored block, or some loop has still to get to it (`Ahead`), even
  where two loops put the same block. `StoredBlocksGrounded` says less than `AcceptedVerifies`
  and is stated of the miner.
* Also there: `AcceptedVerifies` and `StoredBlocksGrounded` beside an application that mines
  (`Mining`, over thread safe collections): its steps are steps of
  one more loop, a submission, or removals from the mempool, so the invariants
  are kept; but it stores blocks whose inputs nobody checked to be unspent, so what
  is grounded there is that outputs exist, not that they are unspent.
  `OnlySpentForgotten` follows from `SInv`: whatever is pending, copied or on its way
  into the mempool stands on outputs that are unspent or that a stored block spends,
  so what the walk finds not minable has lost an input for good (`Doomed`).
  `UndisturbedExtends` follows from `UInv`: between the first read of the tip and
  the end no step of another loop came in, so the three reads met one tip, and
  what was taken from the mempool was unspent when it was looked at, and still is.
  `CandidateVerifies` follows from `PInv`, by which every transaction taken verifies and
  header and coinbase are those of one tip. It is proved for thread safe
  collections, clock readings and a tolerance that fit a long, and under `[]InPlay`:
  the block a candidate becomes is among those of the instance, with a coinbase that
  verifies and a reward and fees that add up to a long.
* Also there: a single event loop implements `Node` (`EventLoopsImplementNode`, for
  any bound of the relay counters but zero): it has nobody to race with, and never
  spoils a collection. The mapping
  finishes in one stroke what a loop has begun to put (`SettledBlocks` and so on), so
  the put of the height is the step at which the node stores the block, and
  the puts after it are stutters: `UnspentAfterStep` takes one
  transaction off what remains. The invariant `OInv` says that what the checks found
  still holds, as nobody else is there, and carries `HInv` of `Node` along under the
  mapping (`NP` instantiates `NodeProofs`), from which a relay is known to be the first
  of its item.
* `ApplicationProofs`: of the lives of a node `LifeTypeOK`, `RestoredWell`, `SavedSurvives`
  and, with `AppOpens`, `SavedOnlyGrows`, from `FInv`. Only part of `IInv`'s companions
  survives a restart (that what is stored was relayed does not), so what is kept of
  the node is `KInv`: `IInv`, stored blocks verify, and the chain is *built*, each block
  extending those before it. The file holds what was saved last, and that can be
  restored at any later time (`Restorable`). `open` goes through the file with four
  folds, and a rebuild with a fifth; the steps are `ExtendLinked`, `ExtendUtxo` and
  the like, on ever longer beginnings of the chain. Of the wallet `PaysExactFee`, from
  `Ordered`: a payment under construction pays the order, then the order and the
  change. All of it is arithmetic that wraps, and `WrapAdd` shows that two
  differences which agree as longs agree; the only bound is that an order fits
  a long.
* Also there: `UndisturbedPays`, that a wallet which can pay does, from `BInv`. While the
  chain stays the same and no script stops the matcher, the map of the builder holds
  one output for each amount the keys own so far, and the total counts them all
  (`MapHolds`); at the end the inputs chosen spend distinct outputs worth what is needed
  (`Covered`). For the latter the sums of amounts are compared through the order
  in which they are taken: where the smallest amounts were taken until they
  sufficed, those that are smaller than the first one left suffice (`SmallestEnough`). That
  the payment verifies is then arithmetic: none of its sums wraps, because the unspent
  outputs are worth no more than all rewards (`BalancesWorth`, from `ValueConserved`).
  Hypotheses: no key is listed twice (`KeysApart`: its outputs would count twice, and the
  total could wrap), `[]SumsFit`, and `[]PaymentInPlay`: the payment built is among the transactions
  of the instance, dated within a long and below the size limit. It cannot be a
  constant's assumption, since the payment is made of what the chain holds.
* `SyncProofs`: `TypeOK`, `SharedBlockSharedHistory`, and that each node of a network
  implements `Ledger`, whatever the others send. The invariant says that every chain
  is linked and shaped: that the same block has the same past then follows,
  because a block names its predecessor and its height.
* `DiscoveryProofs`: `TypeOK` and `GossipIntroducesNobody`. Its invariant follows an
  address through channels, `peersEverSeen` and calls: what is announced of a
  caller is a port, and a port is where nobody listens, so a call to it never
  becomes a connection.
* `ScriptProofs`: every safety property of scripts, for all scripts and for any
  widths of byte, int and long. The invariant `Sound` says that references lead into
  the heap (`Held`), that each machine's counters and scripts have their types
  (`Machines`), that steps are counted along the frames (`Counted`) and that only the last
  machine stops (`OneStops`). Every operator comes to one of four outcomes (it advances,
  calls, crashes or throws: `Outcome`), so what an instruction has to keep is proved
  once for each outcome, and of each operator only which it comes to. `StepsShared` and
  `TransactionUntouched` hold without further ado (the latter speaks of scripts without
  extended flow control: SET and COPY are the only operators that write, and only there).
  `TypeOK` and `ForwardOnly` need `[]Lengths`, that no array gets longer than an int can
  say; arrays of Java do not. `MultisigMatches`: that the greedy search finds keys for
  all signatures whenever they can be had is a pigeonhole argument, carried along
  the fold over the signatures (`KeyLeft`): where each
  key accepts the signatures of one class, as many keys are taken as signatures
  were looked at, and if none were left there would be more signatures than keys.
  That this comes to a count for each keyholder is `Holders`: the classes are the keys'
  bytes, and the signatures of one fit into the arrays that list it (`FitsInto`).
  `DigestsAreBytes` (a hash is an array of bytes) and `AnswersAreKnown` (a key says yes, no,
  or that something is malformed) are hypotheses about constants that TLC cannot evaluate
  over all arrays.

Only model-checked, and why:

* liveness (`FallsSilent`, `SyncsUnlessLost`, `Terminates`, `SelfConnectionsEnd`,
  `GossipEnds`): out of the prover's reach.

## 5. What is not modelled, and the plan

Every safety property that a passing run checks is proved. What may be added is
less of a hypothesis here and there: most of all, what remains true of a miner's
candidates when the collections race, where now thread safe ones are assumed.

Not modelled, and why:

* *`HANDSHAKE`, `PING` and the header answers* only log, or keep the idle timer
  from ending a connection; `MEMPOOL` sends pending transactions, which arrive as
  any other does (`ReceiveTransaction`).
* *`ScriptOptimizer`* is called by nothing but its test; `ScriptParser`,
  `ScriptBuilder` and `ScriptUtil` turn text and operators into bytes and back.
  `ScriptMatcher` is modelled for the one kind of script that another component
  matches.
* *Cryptography and key files* of the Java platform (`Keys`, `Encryption`,
  `address/`): a signature is valid or not.
* *Byte layouts and encoders*, which no property tells apart.
* *The update check* (`HTTP`, `Main`) and logging.
* *`docs/javadoc`*: generated pages with the search scripts and the libraries
  javadoc ships with them. They are no part of the program.
