# A TLA+ verification of the Eiyaro node

Eiyaro is a block-DAG node written in Go: blocks name several parents, GHOSTDAG
orders them, and the *virtual* block, which merges the tips, carries the one
full UTXO set the node keeps.  These modules model the parts of the node whose
mistakes are the most expensive and the hardest to test: how that UTXO set, and
the chain of diffs from which every other block's set is rebuilt, survive
reorganizations, interrupted resolution and crashes; how old blocks are pruned
and ancestry queries stay right; how the mempool and the UTXO index keep up while
virtual moves; and how blocks reach the node, by relay or by initial block
download (IBD) into a staging consensus.

Contents: [the system](#the-system) · [modules](#modules) ·
[runs](#runs) · [findings](#findings) · [bounds](#bounds) ·
[fairness](#fairness) · [proofs](#proofs) · [abstractions](#abstractions) ·
[not modelled](#not-modelled)

## The system

`PROJECT.json` lists every part with its status.  The parts, their state, what
changes it and what they owe each other:

| Part | State | Operations | Must hold |
|---|---|---|---|
| **UTXO diffs** `consensus/utils/utxo` | two collections outpoint → entry (`toAdd`, `toRemove`); an entry counts by its DAA score too | `AddTransaction`, `WithDiff`, `DiffFrom`, `Reversed` | exact and minimal diff; no error on legal use |
| **GHOSTDAG** `processes/ghostdagmanager` | selected parent, blues, reds, anticone sizes, blue score and work per block | `GHOSTDAG`, once per block | the blues are a K-cluster; sizes exact; merge sets topological |
| **Reachability** `processes/reachabilitymanager` | tree intervals, future covering sets, reindex root | `AddBlock`, reindexing, `UpdateReindexRoot` | ancestry queries agree with the DAG |
| **Headers selected chain** | selected tip of the headers, its chain by index | `AddHeaderTip` | the chain is that of the tip |
| **Consensus state manager** `processes/consensusstatemanager` | block statuses, diffs and diff children, multisets, tips, virtual | `AddBlock`, `resolveBlockStatus`, `ReverseUTXODiffs`, `ResolveVirtual`, import of a pruning point | any past UTXO set can be restored at any commit; verdicts depend on the DAG only; virtual follows the heaviest valid chain within finality |
| **Block processor, consensus object** | the lock, `virtualNotUpdated`, events channel | `ValidateAndInsertBlock(updateVirtual)`, `ResolveVirtual` in chunks, start-up recovery | every commit leaves a database from which the node can go on |
| **Validators** (block, transaction, merge depth, finality) | none (caches) | checks | a template built on virtual passes them |
| **Pruning** `processes/pruningmanager` | pruning points, candidate, pruning point UTXO set, "in progress" flag | `UpdatePruningPointByVirtual`, `UpdatePruningPointIfRequired`, deletion | the set is exact when the flag is clear; nothing needed is deleted; restart completes the move |
| **Stores and staging** | staging shards, LRU caches, the database | `Stage`, `Commit` | a failed commit leaves nothing behind |
| **Mempool** | pool, chained transactions, mempool UTXO set, orphans | insert, replace, remove, new block, expire, limit | no two pool transactions spend one output; no orphan with all parents present |
| **UTXO index** | per-script UTXOs, counts, supply, virtual's parents | `Update`, `Reset` | agrees with the virtual set it is marked with |
| **Domain, prefix manager** | active and staging consensus, database prefixes | init, commit, delete staging | one whole active consensus, also after a crash |
| **Protocol flows** | peers, orphans, shared request sets, IBD flag | relay, IBD, handshake, ping | a block one honest peer announces is fetched; one IBD at a time |
| **Network** | routes, connections, bans, addresses | enqueue, close, connection loop | no message to the wrong flow; no blocked sender |
| **RPC, wallet daemon** | listeners; UTXOs and used outpoints | notifications; refresh | order of notifications; no spent output reused |

How they interact.  A block reaches `ValidateAndInsertBlock` from relay, RPC or
IBD.  The block processor validates it, stages relations, GHOSTDAG and
reachability data, and calls the consensus state manager, which may resolve a
whole chain of statuses and moves virtual; one commit stores it, and further
commits reverse diffs and advance pruning.  Virtual's changes go through the
events channel to the mempool, the UTXO index and RPC.  During IBD blocks are
inserted with `updateVirtual = false`, and `ResolveVirtual` catches up in chunks of
`virtualResolveChunk` blocks, releasing the lock between chunks.  A node that is
too far behind downloads a headers proof and a pruning point UTXO set into a
staging consensus under the other database prefix, and exchanges the two.

What is hard here: one call makes several commits and the process may die
between any two; a diff is meaningful only over a base which moves; verdicts
are computed incrementally, in arrival order, and must not depend on it; a
chain may be resolved partly, disqualified in its middle, or reorganized while
it waits; and several flows share the orphan pool, the request set, the IBD flag
and the staging consensus without one lock around them.

## Modules

| Module | Models | Extends |
|---|---|---|
| `UTXODiff` | collections, `withDiffInPlace`, `diffFrom`, `AddTransaction`, lookup through a diff, and their error returns | |
| `MutableUTXODiff` | the life of one `mutableUTXODiff` object between a base and a target set | `UTXODiff` |
| `UTXODiffChain` | **abstract**: the diff store as the commits may change it | `UTXODiff` |
| `Ghostdag` | the GHOSTDAG manager as operators on a DAG record | |
| `HeaderDAG` | the DAG of headers, block by block with its GHOSTDAG data | `Ghostdag` |
| `Reachability` | the reachability manager: intervals, reindexing, reindex root, future covering sets | `Ghostdag` |
| `BlockDAG` | **composition**: the header part of block insertion, block by block: GHOSTDAG data, reachability tree, headers selected tip and chain | `HeaderDAG`, `Reachability` |
| `VirtualParents` | tips to virtual's parents; finality and merge depth | `Ghostdag` |
| `PastUTXO` | `CalculatePastUTXOAndAcceptanceData`, `verifyUTXO`, and the reference definitions they are compared with | `VirtualParents`, `UTXODiff` |
| `ConsensusState` | **composition**: the consensus object, block processor and consensus state manager over one database | `PastUTXO` |
| `Pruning` | **composition**: virtual, the pruning manager and store, commit by commit with crashes | `VirtualParents` |
| `PruningUTXOSet` | **abstract**: a set rewritten entry by entry under a flag | |
| `Mempool` | the mempool object, call by call, beside a virtual UTXO set that moves | |
| `UTXOIndex` | **composition**: the events channel, the handler of the RPC manager and the UTXO index with its resets | |
| `BlockRelay` | the relay flows, the orphan pool, the shared requests and the IBD flag | |
| `IBD` | `runIBD` per peer, the domain and its two prefixes, crashes and start-up | |
| `*Theorems` | lemmas and theorems: `UTXOSetTheorems` about the three UTXO diff modules and `PruningUTXOSet`, `GhostdagTheorems` and `HeaderDAGTheorems` about `HeaderDAG`, `IBDTheorems` about `IBD`, `BlockRelayTheorems` about `BlockRelay`, `UTXOIndexTheorems` about `UTXOIndex` | |
| `MC*` | instances for TLC | |

*Abstraction.*  A block is a number; its hash order is the number's order.  A
transaction is a model value that spends a set of outpoints and creates one,
named after it; a block's coinbase creates an outpoint named after the block.
An entry is its DAA score, which is what the diff algebra looks at besides the
outpoint.  A multiset (MuHash) is the set of its elements.  Amounts, scripts,
masses, times and proof of work are left out.  The start block is genesis, or an
imported pruning point with the UTXO set `InitialUTXOs`.

*State of `ConsensusState`.*  `dag` stands for the relation and GHOSTDAG stores,
`status` for `blockStatusStore`, `utxoDiff` and `utxoDiffChild` for
`utxoDiffStore`, `multiset`, `tips`, `virtual` and `virtualUTXOSet` for the
multiset and consensus state stores.  These are the database.  `op` is the local
state of the call that holds the consensus lock, and `virtualNotUpdated` the
field of the consensus object.

*Steps of `ConsensusState`.*  An action runs from one database commit to the
next.

| Action | Code |
|---|---|
| `InsertBlock` | `validateAndInsertBlockWithLock` up to `resolveBlockStatus` in `AddBlock` |
| `InsertDeferred` | the same call with `updateVirtual = false`: one commit |
| `ResolveInterior` | the commit of each block below the tip in `resolveBlockStatus`, over the temporary restore path |
| `CommitBlock` | the tip's resolution, `addTip`, `updateVirtual`, `commitAllChanges` |
| `ReverseStep` | one commit of `ReverseUTXODiffs` |
| `ResolveVirtual` | `findNextPendingTip` and the choice of the processing point, or "nothing to do" |
| `CommitProcessingPoint` | the first commit of a `ResolveVirtual` chunk |
| `UpdateVirtual` | its second commit |
| `Crash`, `Restart` | loss of `op`; `NewConsensus` |

An error return that is not a `RuleError` leaves `op = Failed` and ends the
behaviour: what a caller does with such an error is outside the model.  A panic
takes the process down; it may be restarted.

*State and steps of `BlockDAG`.*  `dag` is the relation and GHOSTDAG stores,
`tree` the reachability store (`interval`, `parent`, `children`, `fcs`, `root`),
`headersSelectedTip` and `headersSelectedChain` their stores.  One action,
`AddBlock`, stands for the insertion of a header: `GHOSTDAG` (the action `AddHeader` of
`HeaderDAG`, which is all that changes `dag`), `AddBlock` of the
reachability manager with every reindexing it leads to, `AddHeaderTip`, which
stages the chain and moves the reindex root.

*State and steps of `Pruning`.*  Beside `dag`, `status`, `tips` and `virtual`
there are the fields of the pruning store: `points`, `candidate`, `updating` and
`utxoSet`; a block's DAA score and merge depth root, which depends on the pruning point at
the time, are stored with its GHOSTDAG data.  `interrupted` is a history variable: which of
two places a crash has hit.  An action ends at a commit or at one write outside a transaction.

| Action | Code |
|---|---|
| `InsertBlock`, `InsertDeferred` | `validateAndInsertBlock` up to its commit, with the pruning point staged by `UpdatePruningPointByVirtual` |
| `ResolveVirtual`, `UpdateVirtual` | a chunk of `ResolveVirtual`: the statuses, then virtual and the pruning point |
| `RecomputePruningPoint` | `UpdatePruningPointByVirtual` at start-up |
| `StartUpdate` | `UpdatePruningPointIfRequired` up to the diff of the two pruning points |
| `WriteEntry` | one `Delete` or `Put` of `UpdatePruningPointUTXOSet` |
| `DeletePastBlocks`, `FinishUpdate` | `deletePastBlocks` with its commit; the removal of the flag |
| `Crash`, `Restart` | loss of `op`; `NewConsensus`, which finishes a pending update |

*State and steps of `UTXOIndex`.*  `history` holds the virtual UTXO sets so far;
`events` is the channel, `db` the keys of the index (virtual's parents, entries,
counts, supply), `op` who holds the index' mutex.  `InsertBlock` and `MoveVirtual`
commit a block and put its events on the channel as far as there is room;
`HandleEvent` is one turn of the handler with `Update`; the steps of `Reset`
(`DeleteAll`, `GetVirtualInfo`, `InitializeCirculatingSompiSupply`,
`GetVirtualUTXOs`, `AddAndCommitOutpoints`, `MarkAsSynced`, `ResetFails`) are single writes
or calls to consensus; `CommitStagingConsensus` and
`OnPruningPointUTXOSetOverride` are what IBD does; `New` and `Crash` the restart.

*State and steps of `BlockRelay`.*  `bodies` is the consensus, `orphans`,
`requested` and `ibdPeer` the shared fields of `FlowContext`, `route` the incoming
route of each relay flow, `asked` what its peer has still to answer; `pc`,
`current` and `invsQueue` are the local state of the flow, `ibdPc`, `ibdBlock`,
`ibdGoal` that of the IBD flow beside it.  `lost`, `stuck` and `contested` are history
variables: the blocks that were given up, the orphans that nobody will take out of the
pool, and the blocks whose request was removed while a flow waited for them.  A
call to consensus may find data missing (`database.IsNotFoundError`), which the code
expects "due to races / partial state", or return an error after its commit.

| Action | Code |
|---|---|
| `Announce`, `PeerAnswers`, `Disconnect` | the peer and the connection (external) |
| `ReadInv` | `readInv` and the checks up to `requestBlock` |
| `ReadUnexpected` | a message of another type where an inv is expected: a protocol error |
| `ReceiveBlock` | `readMsgBlock` with the invs it puts aside, or the panic of `HandleError` on a late locator |
| `ProcessBlock`, `OnNewBlock` | the merge depth heuristic, `processBlock`, `processOrphan` up to its request; `UnorphanBlocks` |
| `AddToRelayInv`, `SkipBlock`, `EndOnMissingData` | the block is put back, skipped, or ends the flow without closing the connection when data is missing |
| `OnNewBlockFails` | an error in `UnorphanBlocks` or around it: `HandleError` ends the flow silently, or panics |
| `ReceiveLocator`, `LocatorFails` | `isBlockInOrphanResolutionRange` with its timeout, and then `AddOrphan` with the orphan roots queued, or the hand-over to IBD |
| `EndFlow` | the flow's return, and the release of its request |
| `StartIBD`, `SyncBody`, `SyncBodyFails`, `FinishIBD`, `EndIBDFlow` | the IBD flow, abstracted to the bodies it delivers |
| `Restart` | the process is started again after a panic |

*State and steps of `IBD`.*  `active`, `inactive` and `data` are the database: the two
prefix keys and entries ⟨prefix, part, writer⟩.  `consensus` and `staging` are the
pointers of the domain, `lock` its staging lock, `pc` what the goroutine of each
peer and the start-up thread do.

| Action | Code |
|---|---|
| `StartIBD`, `Negotiate`, `FinishIBD`, `Timeout` | `runIBDIfNotRunning` and the frame of `runIBD` |
| `InitStagingConsensus`, `CreateStagingConsensus` | `InitStagingConsensusWithoutGenesis`, before and after the prefix key is written |
| `Request`, `ReceiveTrustedData`, `ReceiveByReference`, `CheckRelayBlock`, `Fail` | the stages of `ibdWithHeadersProof`: proof, pruning points, headers, UTXO set |
| `ImportPruningPoint`, `ImportUTXOSet`, `ClearImported` | `ValidateAndInsertImportedPruningPoint` in its two parts, and the deferred clean-up |
| `CommitStagingConsensus`, `DeletePrefix`, `SwapConsensus` | `CommitStagingConsensus`: the transaction, the deletion entry by entry, the pointer |
| `DeleteStagingConsensus`, `DropStaging` | `DeleteStagingConsensus` |
| `SyncBodies` | `syncMissingBlockBodies` |
| `Crash`, `Start`, `Open` | the end of the process; `domain.New`, with the recovery of a half-done import in `NewConsensus` |

*State and steps of `Mempool`.*  `mp` has a field for each map of the mempool:
`allTransactions`, `highPriority`, `parents` (of each `MempoolTransaction`),
`chained` (`chainedTransactionsByParentID`, slices that keep entries of removed
transactions), `byFeeRate` (`transactionsOrderedByFeeRate`, split by
transaction), `spender` (`transactionByPreviousOutpoint`), and for the orphans
`allOrphans`, `orphanBy` and the `filled` inputs.  A map's absent key is `NoTx`,
`<< >>`, `{}` or 0.  `poolUnspentOutputs` is written and never read, and is left
out.  The mempool lock is held for a whole call; a step is one turn of one of
its loops, since the call asks consensus again in each turn and consensus does
not wait for that lock.

| Action | Code |
|---|---|
| `InsertTransaction`, `InsertOrphan` | `ValidateAndInsertTransaction` up to `processOrphansAfterAcceptedTransaction`, or to the end for an orphan |
| `ReplaceTransaction` | `ValidateAndInsertTransactionReplacement` with conflicts |
| `ProcessOrphan` | one output in `processOrphansAfterAcceptedTransaction`, `unorphanTransaction` included |
| `LimitTransactionCount` | one turn of `limitTransactionCount` |
| `HandleNewBlockTransactions` | the removals of `handleNewBlockTransactions` for the transaction of a block |
| `ExpireOrphanTransactions`, `StartExpire`, `ExpireOldTransactions` | the expiry that ends it |
| `StartRevalidate`, `RevalidateTransaction` | `RevalidateHighPriorityTransactions` |
| `BlockCandidateTransactions`, `RemoveInvalidTransactions` | `BuildBlockTemplate`, between which consensus and other calls move on |
| `AddBlock`, `Reorganize` | consensus: virtual merges a block, or leaves some behind |

A submission that is rejected changes nothing and is no step.  Scripts,
standardness, frozen wallets and rate limits only decide about rejection.

## Runs

| Run | Shows |
|---|---|
| `utxo_diff` | One diff object stays exact and minimal under every sequence of operations, and none of the error returns is met. |
| `ghostdag` | On every DAG of seven blocks beside genesis with up to two parents each, in one order of arrival that is neither the order of the hashes nor its reverse: the incremental colouring is a K-cluster with exact sizes; merge sets partition the past, topologically; through every reindexing and move of the reindex root every ancestry query is exact, and no reindexing fails; the headers selected chain is that of the tip. |
| `virtual_honest` | Valid blocks, with and without updating virtual, reorganizations, chunks: the store refines `UTXODiffChain` between any two commits, no operation fails, virtual is the heaviest valid block when it is up to date, and it catches up. |
| `virtual_crash` | Crashes between any two commits of `ValidateAndInsertBlock`: diffs stay exact, the half-resolved chain can be resolved later, and no commit moves virtual's selected chain off the finality point virtual had before it. |
| `virtual_disqualified` | Double spends, missing inputs, immature coinbases, resolved one block at a time: every verdict and commitment is the one the DAG defines, and virtual's parents always make a block that header validation accepts. |
| `pruning` | Pruning points move, with side blocks, deferred blocks, windows shorter than a finality interval, merge depth enforced from some DAA score on, and a crash at any write: the rewriting of the stored set refines `PruningUTXOSet`, pruning points start their intervals on virtual's chain, the anticone of the pruning point is closed as long as no accepted block merges too deep, deletion takes what it may and nothing that is needed, the pruning point of a header follows from the DAG alone, every update completes, and no call fails, unless the crash fell in one of the two places named under Findings. |
| `mempool` | Every order of submissions, replacements, blocks, expiry, revalidation and template building: an outpoint is held only by a pool transaction that spends it, a transaction waits only for parents in the pool that know it, every orphan lacks an input and is found by each of them, no index is out of range, and the limit holds. |
| `relay` | Two peers announce blocks out of order, lose connections and answer late, and calls to consensus find data missing or fail after the commit: a request belongs to the one flow that waits for it unless `addToRelayInv` took it away, every orphan lacks a parent unless it is stuck in one of two named ways, the pool keeps to its limit, an announced block arrives unless the node panics or the block was given up in one of the named ways, and all flows settle once blocks are no longer put back. |
| `ibd` | IBDs of two peers with or without a headers proof, a wrong or missing answer, a timeout and a crash anywhere: without a timeout the active prefix always holds one whole consensus, nothing is left under a free prefix and nothing panics; with one the pointers still follow the database, and every IBD ends. |
| `utxo_index` | Virtual moves while the index is reset, the channel fills up, IBD replaces the consensus and the node crashes: a synced index is exactly the virtual set it is marked with, with exact counts and supply, unless a diff was misapplied; that needs a lost event or a replaced consensus; and the index catches up. |
| `crash_in_resolve`, `mempool_double_spend` | the findings below; TLC must find the violation |

The references that `RestoreIsExact`, `CommitmentsAreExact` and
`VerdictsFollowTheDAG` compare with (`PastUTXO`, `Header`, `RefValid` of
`PastUTXO.tla`) are recursive functions of the DAG alone: they use neither
diffs nor the order of arrival.  So are `RefPruningPoint`, and ancestry in
`ReachabilityIsExact`.  Every property has a mutant in `PROJECT.json`,
a plausible bug in one definition under which TLC finds the property violated.
Type invariants are stated where the proofs need them; the others would only repeat
the comments of the `VARIABLES`.

## Findings

With a run:

* **`crash_in_resolve`** – a crash between the two commits of a `ResolveVirtual`
  chunk leaves a selected tip that virtual does not know.  The next chunk makes
  another block the tip, and the forgotten one keeps a diff over a virtual set
  which is gone.
* **`mempool_double_spend`** – a transaction that waits as an orphan can be
  submitted again after its parents are accepted and before the mempool handles
  their block.  It is then in the pool and among the orphans, and
  `removeTransaction` takes only the orphan: its replacement joins it in the
  pool, and both spend one output.  The same double life makes the pool add the
  transaction a second time when the block is handled, and leaves an entry in
  the fee rate order; `LimitHolds` is stated for an order that has none.

Without a run; the models have the steps, and the passing runs are set up or
their properties stated so as to leave these cases out, where they say so:

* *Consensus state.*  `resolveBlockStatus` panics on the block above one it has
  just found disqualified in the same call: the UTXO set it was handed is nil
  (`resolve_block_status.go:286`).  `ResolveVirtual` moves virtual onto its
  processing point even when that was found disqualified.  After a restart, with
  the heaviest tip disqualified, it moves virtual to the next tip even if that is
  lighter than the present selected parent.  These are why the passing runs are
  split: `virtual_honest` allows deferred insertion and no disqualified blocks,
  `virtual_disqualified` the reverse, and `virtual_crash` crashes but no deferred
  insertion.
* *Pruning.*  A crash between the commit of the deletions (`pruningmanager.go:1191`)
  and the removal of the flag (`:1205`) makes the restart compute the diff of the
  two pruning points again.  The deletions keep a difficulty window, which as shipped
  (2641 blocks, `consensus_defaults.go:63`) is shorter than a finality interval (4320), so the
  acceptance data for that diff is gone and `NewConsensus` fails at every start.
  A crash between the two commits of `ResolveVirtual` leaves blocks that are resolved and above
  virtual; the next chunk begins above them, and virtual may pass more than one finality
  interval, in spite of the comment at `consensus.go:74` ("virtualResolveChunk should be smaller
  than params.FinalityDuration"): `UpdatePruningPointByVirtual` then returns an error.
  `NeverFails` names these two crashes and shows that nothing else makes a call fail.
  Bounded merge depth is enforced only from a DAA score on (`merge_depth_manager.go:112`);
  below it a block may merge one that changes the anticone of the pruning point after it
  was cached as "guaranteed not to change".
* *Relay.*  (a) The last missing parent of an orphan may arrive while its flow waits for
  the locator, or be committed by a call that returns an error (a full events channel):
  the orphan stays in the pool, and announcing it again only queues its parents, which are known.
  (b) A locator that comes after its request timed out is read by `readMsgBlock`,
  whose error is no protocol error, and `HandleError` panics (`PanicsOnlyAfterATimeout`).
  (c) An inv is dropped when another flow has the block requested, and when that peer
  disconnects nobody asks again.  (d) With `DisableIBDTimeout` the timeout is 0.
  (e) `addToRelayInv` removes the entry of the block from `sharedRequestedBlocks` although
  `requestBlock` has removed this flow's: by then it may be another flow's, and two flows ask
  for one block ("to prevent redundant requests", `shared_requested_blocks.go:9`).
  It puts the inv back without a limit or a pause, and no longer as that of an orphan
  root, so the merge depth heuristic may drop it.  (f) `HandleError` is documented to panic on
  anything but a closed route or a protocol error (`errors.go:23`; the comment at
  `handle_relay_invs.go:145` relies on that).  For missing data it returns without a word: the
  relay flow is gone, its connection stays open, and further invs of that peer are read by nobody.
* *IBD.*  After a timeout the goroutine of the IBD goes on beside the next one: it may
  commit the other's staging consensus before it is filled, delete it, or
  dereference the nil pointer; data may be left under a free prefix.  This is
  why `ActiveIsComplete` and `FreePrefixIsEmpty` say "as long as no IBD
  has timed out"; `docs/architecture.md:372` promises that failures "leave the
  original data intact".  While `CommitStagingConsensus` deletes the old prefix,
  callers of `Consensus()` still get the old instance.  A rejected header is not a
  recoverable error, so the staging consensus stays until the next IBD deletes it.
  `updateBlockVersionFromDAAScore` is given a header's version where it expects a
  DAA score.
* *UTXO index.*  `store.add` cancels an output against `toRemove` without comparing
  the entries, so after a reorganization the index keeps the old `BlockDAAScore`
  (`IndexIsExact` compares outpoints for this reason).  Events queued before a
  staging consensus was committed, or sent by the new one before `Reset` takes its
  snapshot, are applied to the wrong index: a negative count and a panic of the
  handler, or wrong totals.  A `Reset` that fails half-way leaves a partial index that
  the next `Update` marks as synced.  A full channel makes `ValidateAndInsertBlock`
  return an error for a block that is committed; the diff is lost.

## Bounds

* *Consensus state.*  Five blocks beside genesis (`MCBlocks`), one of them with double
  work, so that a shorter chain can win.  That is enough for a chain of three that
  overtakes a chain of two, resolved in two chunks (`ResolveChunk = 1`), with its
  diffs reversed over two blocks; every mutant is caught within it.
  The payload has a double spend, a transaction that spends another one's output
  and one that spends a coinbase; `CoinbaseMaturity` is 1 or 2 so that some
  merging blocks are too early and some are not.
  `FinalityDepth` is 2 in `virtual_crash`, so that the finality point leaves
  genesis and reorganizations below it are attempted, and 3 elsewhere.
  `virtual_disqualified` has `MergeDepth = 1` and `MergeSetSizeLimit = 3`, which
  five blocks can reach; elsewhere they do not interfere.  `MaxRestarts` is 1.
  `FinalityNeverReverts` is about one commit at a time.  The finality point
  itself can move back down the chain: blocks of a tip that violates finality
  may take the place of better parents of virtual, whose blue score then shrinks.
* *`ghostdag`.*  `K = 1` puts blocks on both sides of the cluster bound with three
  blocks in an anticone.  `Capacity = 32`, `ReindexSlack = 1` and `ReindexWindow = 1` stand
  for 2^64 - 1, 2^12 and 200: seven blocks then exhaust intervals, reclaim slack
  before and after the chosen child, and move the reindex root.
* *`pruning`.*  Ten blocks beside genesis, one of them heavy, `FinalityDepth = 3`,
  `PruningDepth = 4`: the pruning point moves twice.  At most two blocks lie off the heaviest chain
  (`MaxSideBlocks`); a block other than an old tip forks off at most one below the heaviest tip
  (`MaxForkDepth`); blocks from the seventh on may be deferred (`DeferFrom`), two of them at a time
  (`MaxDeferred`), with chunks of one; one crash.  `WindowSize = 1` is below the interval as in
  the shipped parameters, and `EnforceMergeDepthFrom = 7` lies between blocks that may and blocks that
  may not merge too deep.
* *`mempool`.*  Four transactions: two spend an output of a third, one of them and
  the fourth spend a second coin.  So there are conflicts in the pool, an orphan
  with one input known and one unknown, and a replacement that pays enough.  The
  pool holds two and the orphan pool one, so both limits bind, also when only high
  priority transactions are there.  `MaxDAAScore` and
  `MaxReorgs` are 1: a reorganization can put the DAA score below the score of an
  earlier scan, where the unsigned difference wraps (`Word`).  `MaxEntries` bounds
  the entries one transaction may leave in one slice.  `Submissions` fixes which
  transactions come with high priority, and a template has at most one candidate
  (`MaxCandidates`).
* *`relay`.*  Two peers, seven blocks with a fork that is merged, three of them
  announced; two announcements.  `MaxFaults` is two: two lost connections or locators that time
  out, or (`FailureCost`) one call that finds data missing or fails.  The retries of
  `addToRelayInv` are not bounded, for the blocks in `Incomplete`.  An orphan pool of two
  overflows; a locator of three decides between orphan resolution and IBD.
* *`ibd`.*  Two peers, three IBDs, one fault, one timeout, one crash: a second
  and a third IBD can run beside an abandoned one, and find what it left.
* *`utxo_index`.*  Three outpoints of two scripts, four virtual sets that differ
  in outpoints and in one DAA score, three virtuals, two crashes, one override.  A
  page of two makes `Reset` read twice, and a channel of three can be full between the two
  events of a block.  `Word = 5` lets the supply wrap.
* Deadlock checking is off where a finite supply of blocks, announcements or
  downloads ends the behaviour.

## Fairness

* `ConsensusState` and `Pruning` (`FairSpec`): a call that has begun takes its next step,
  since it holds the lock and waits for nobody; a node that stopped is
  started again; and while virtual is not updated `ResolveVirtual` is called: IBD calls
  it when it is done, and `ValidateAndInsertBlock` before each block inserted with
  `updateVirtual`.  Nothing is assumed of arriving blocks.  `Fairness` spells the
  enabling conditions out, which is much cheaper for TLC than `ENABLED`.
* `BlockRelay`: while a goroutine can run, a peer owes an answer or the node is down
  (`Busy`), some step is taken other than an announcement or a fault: Go runs what can run, a peer
  that does not answer is disconnected or times out, which is a fault, and a node that
  panicked is started again.  Which goroutine runs is left open, which is weaker than
  fairness of each.  `BlocksArrive` and `FlowsSettle` also suppose that `addToRelayInv` stops
  putting blocks back (`RetriesEnd`): the code has no bound on that.
* `IBD`: weak fairness of each IBD's steps and of the start-up; the read of a closed route
  returns.  No IBD need start, time out or fail.
* `UTXOIndex`: weak fairness of the event handler, of the steps of `Reset` and its
  call after an override, and of `New`.  Virtual need not move.

## Proofs

TLAPS checks these for every value of the constants.

* **`UTXOSetTheorems`** – first the algebra on minimal diffs: `WithDiff` composes,
  `DiffFrom` cancels a common base, `Reversed` swaps, and none of them fails.  Each
  holds outpoint by outpoint, so each proof is a pointwise case split without induction.
  + Of one mutable diff: `DiffIsAlwaysExact`, `OperationsNeverFail`, `LookupIsAlwaysExact`,
    `MutableTypeCorrect`.  The invariant is that the diff *equals* `Between(base, utxos)`,
    the minimal diff of the two sets.  Minimality is the strengthening that matters: a diff
    that merely leads from one to the other could hold one outpoint on both sides with one
    score, and the algebra's error returns could then be met.
  + Of the diff store: `TypeCorrect`, `DiffsAreAlwaysExact`, `ChildrenAreAlwaysResolved`,
    `AlwaysARestorePath`, from the inductive invariant
    `IInv == TypeOK /\ DiffsAreExact /\ ChildrenAreResolved /\ RestorePath`.
    Exactness alone is not inductive: to rebase the head's diff one must know that
    the head has no child and everybody else has one.  `RestorePath` is stated
    without recursion: a non-empty set of resolved blocks that is closed under
    diff children holds the head, which excludes cycles.
  + Of the pruning point UTXO set: `UpdateIsExact`, `FlagGuardsTheSet`.  That the set is exact
    when the flag is clear is not inductive; the strengthening `Mixture` says what an
    interrupted update leaves: everything that the old and the new set share and nothing outside
    both, and while an update writes, nothing of what it has deleted and all of
    what it has put.  From such a mixture the same diff, applied again, leads to the new set.
* **`GhostdagTheorems`**, **`HeaderDAGTheorems`** – `BluesAreAlwaysAKCluster` and
  `MergeSetsAlwaysOrderThePast`, two of the properties of the run `ghostdag`, for any set of
  hashes, any `K`, any work, any number of parents and any order of arrival.  The invariant
  `DagOK` says that ancestry is transitive and blue work grows along it (`Ordered`), that the
  selected chain follows the selected parents and is totally ordered by itself (`Chained`), that blues and reds
  are what a block adds to the past of its selected parent (`Merging`), and that the blues of each
  view are a K-cluster whose sizes `blueAnticoneSize` finds (`Blue`).  The argument: the loop over
  the merge set keeps `LoopOK`, the cluster so far.  A candidate comes after
  everything lighter, so it is no ancestor of a block coloured before; hence the walk of `checkBlueCandidate`
  down the selected chain, which stops at the first ancestor of the candidate, meets
  exactly the blues in the candidate's anticone (`WalkMeetsTheAnticone`).  Only their sizes change, and
  those are the entries that are raised (`ColourBlueOK`); every other size is still found where the
  selected parent found it (`SizeFromSelectedParent`).  A new block is in no old block's past or chain,
  so old views stay (`OldViews`).  `ConsensusState` and `Pruning` build their DAGs with the same
  operators.
* **`IBDTheorems`** – `PointersAlwaysFollow`, for any number of peers, IBDs, faults,
  timeouts and crashes.  The invariant `IInv` adds what a thread inside the lock has done
  so far: only the holder is at one of the labels `Locked` (`LockOK`), at each of
  them the prefix keys and the pointers stand in a fixed relation (`HolderOK`), and the
  start-up thread runs alone (`BootOK`).
  The module also proves `ActiveIsAlwaysComplete`, `FreePrefixIsAlwaysEmpty` and
  `NoPanicBeforeATimeout`, the three other safety properties of the run `ibd`, for any
  number of peers, IBDs, faults and crashes before the first timeout.  None of them is
  inductive: that a commit makes a whole consensus active rests on what every earlier step
  of the download has written.  `DInv` says so: only the flow of `ibdPeer` runs (`OneIBD`);
  at each of its labels the parts written so far are there, all by this flow, and the
  consensus a call was given is still the staging one (`StagingOK`); a deletion's cursor has
  still to meet all that is left of the prefix (`DeletionOK`); and the active prefix holds
  no unfinished import, so `NewConsensus` after a crash changes nothing of it (`StoreOK`).
  After a timeout two IBDs write to the same staging consensus and the argument ends,
  which is why the properties say "before a timeout".
* **`BlockRelayTheorems`** – for any number of peers, any DAG and any order of answers, lost
  connections, failed calls, panics and restarts.
  + `RequestsAreAlwaysOwned`: with the flows' labels and invs in their types the
    property is inductive (`RInv`).
  + `NoPanicBeforeATimeout`: `AInv` says that until a locator
    request times out at most one answer is under way to a flow, still with the peer
    (`AskedOK`) or on the route (`RouteOK`), and that it is the one the flow waits for; so
    the first message that is no inv is that answer, and taking it leaves none.  A flow that
    ended silently has asked for nothing more, although its connection is open.
  + `OrphansAlwaysLackAParent`: an orphan
    has all its parents only while the flow that inserted one of them is about to call
    `UnorphanBlocks`, or when it is stuck (finding (a) of the relay), and the pool keeps to
    its limit.  `OInv` adds that
    flows, routes and queues hold blocks of the DAG, that what an IBD syncs is closed under parents
    (so a body never arrives before those of its parents), and that a flow at `OnNewBlock` has
    inserted its block with all its parents.  The core is `UnorphanCloses`: after
    `UnorphanBlocks` an orphan that stays lacks a parent, although only the children of the
    blocks that were just inserted are visited; when it fails half-way, the orphans that have
    their parents are children of what it did insert (`AfterFailure`).
* **`UTXOIndexTheorems`** – `IndexIsAlwaysExact` and
  `DiffsAreAlwaysContiguous`, both safety properties of the run `utxo_index`, for any virtual sets,
  page size, channel capacity and word, and any number of moves, lost events, overrides, resets
  and crashes.  Neither is inductive.  `IInv` says what each stage of `Reset` finds
  in the database: which entries, counts and supply are there while they are deleted and while
  one page after the other is copied, relative to the virtual the reset took
  (`ResetOK`, `PageOK`); that every diff on the channel leads from one virtual set to the
  next (`EventsOK`); that, while nothing was lost, the channel holds all diffs from the virtual
  of the index to the current one in order (`Contiguous`); and that nothing runs beside the reset
  of `New` (`NewOK`).  The first part has the facts about pages, counts and
  the supply modulo `Word`, whose sum is the cardinality of the set of its sompi, and the steps of
  `Update`; the second the steps of `Reset`.

The assumptions, all named `ASSUME`s that TLC evaluates on the runs' instances, are that
`NoBlock` is not a block, `NoEntry` not a score, scores are naturals, `Boot`,
`Nobody` and `NoPeer` are not peers, `None` is no prefix; for the relay, that the blocks are a
finite DAG in which parents have smaller hashes and heights and of which one is the heaviest;
for GHOSTDAG, that hashes are naturals, `K` is one and every block has some work;
and for the index, that outpoints are ordered and there is a last one (the database iterates in
key order), that amounts are naturals and that a page, the channel and the machine word have a size.

`virtual_honest` checks that `ConsensusState` refines `UTXODiffChain`, and `pruning` that
`Pruning` refines `PruningUTXOSet`, so on those instances the proved facts carry over
to the stores: in particular `DiffsAreExact`, `ChildrenAreResolved`, `RestorePath` and
`SetIsExact`, which no run checks by themselves.  Only TLC shows the
refinements themselves, liveness, and everything about reachability, the headers chain, verdicts,
virtual's parents, pruning points and the mempool with its orphan pool: those
modules use `RECURSIVE` operators or folds over data, which the prover does not
unfold, and liveness is out of its reach.  Where the code walks a graph until
nothing is left to visit, a module that is proved about says what the walk collects, the
least set closed under it (`UnorphanBlocks`, `GetOrphanRoots`), which needs no induction;
and the loop over the merge set is a function of the index (`ColourAll`), of which
`GhostdagTheorems` shows that there is one and, by the least index that would break it, that every
value satisfies the loop invariant.

## Abstractions

* A store, its staging shard and its cache are one value; a database transaction
  is atomic.  Reads and writes of the database do not fail, but for the missing data
  and the failed calls of `BlockRelay`.
* `ConsensusState`: nothing is pruned; header-only blocks, blocks stored as invalid
  and trusted data do not occur; ancestry is computed from the DAG (`BlockDAG` shows
  that the reachability manager agrees).
* `Pruning`: every block is UTXO valid, and a chain block's acceptance data creates one
  output and spends one, so that a past UTXO set is two blocks' outputs; header
  data is kept, which is what `deleteBlock` does for the blocks it turns into headers.
* `BlockRelay`: all blocks are valid and every peer has the whole DAG.  The node
  is past its first IBD.  `AddOrphan`'s roots are taken in any order, the queue of
  `UnorphanBlocks` is the least set it can end with, and the node's own announcements are left out, as are the
  counts of offences and the block version.
* `IBD`: messages are left out; a call on a consensus instance is atomic, which
  matters only after a timeout, when two IBDs may use one instance; `NewConsensus` does
  not fail; `migrate` and the listeners of a pruning point override are left out
  (`UTXOIndex` has the latter).  A peer that was disconnected comes back after a restart only.
* `UTXOIndex`: an outpoint determines its script and amount.  A virtual's parents are its
  position in `history`.  Queries are left out.  `lost` and `misapplied` are history
  variables.
* `Mempool`: see above; fees are a constant of each transaction.

## Not modelled

`PROJECT.json` gives each part's reason.  In short:

* *Pure computations without state* (difficulty, coinbase and emission, past median time,
  mass, Merkle trees, hashing, MuHash, scripts, addresses, serialization, pruning proofs): their
  results are arithmetic or cryptography over data the models abstract from.
* *Generated code* (protobuf; most of the repository's lines) and conversions between
  wire and domain types.
* *Stores, staging shards, LRU caches and LevelDB* beyond what the abstractions
  above say.
* *Network plumbing*: the routes with their capacity and closing, the connection manager's
  loop and its locks, the address manager, bans, handshake, ping and address
  exchange.  Routes and connections occur in `BlockRelay` as the relay flows see
  them; the blocking of a sender on a full route, and the wait of the
  connection loop, are not covered.
* *Transaction relay, RPC handlers and notifications, wallet daemon, miner, command-line
  tools*: request/response code or clients; of the RPC manager the event handler is in
  `UTXOIndex`.
* *Parts of modelled components*: trusted data and headers-only blocks in the block
  processor, kosherizing parents that are removed themselves (they need eight blocks),
  the mempool's rate limiter and wallet freezing, the template cache,
  `migrate` in the domain.
