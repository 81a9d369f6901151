------------------------------- MODULE Mempool -------------------------------
(***************************************************************************)
(* The mempool (domain/miningmanager/mempool) beside a consensus whose     *)
(* virtual block moves on.                                                 *)
(*                                                                         *)
(* mp is the memory of the mempool object.  A call holds the mempool lock  *)
(* to its end; op is the call in progress, and a step of a call is one     *)
(* turn of one of its loops, between which consensus may move.  The        *)
(* blocks that arrived and the candidates of a block template wait for     *)
(* the lock in unhandled and template.                                     *)
(*                                                                         *)
(* An outpoint names the output of one transaction.  Scripts, standardness *)
(* and rate limits decide only whether a transaction is rejected: a        *)
(* rejected submission changes nothing, a rejected orphan is lost.         *)
(***************************************************************************)
EXTENDS Naturals, Integers, Sequences, FiniteSets, SequencesExt, FiniteSetsExt

CONSTANTS
    Txs,            \* transaction IDs, positive numbers; ID order is number order
    Outpoints,      \* transaction outputs
    Inputs,         \* Inputs[t]: the outpoints transaction t spends, in order
    Outputs,        \* Outputs[t]: the outpoints it creates, in order
    Coins,          \* the outpoints that are unspent at the start
    Fee,            \* Fee[t], positive
    Mass,           \* Mass[t], positive
    Submissions,    \* the calls that insert: pairs of a transaction and isHighPriority
    MaximumTransactionCount,
    MaximumOrphanTransactionCount,
    ExpireInterval, \* of transactions and of orphans, in DAA score
    ScanInterval,   \* between two scans for expired ones, in DAA score
    Word,           \* 2^64, the modulus of DAA score arithmetic
    MaxDAAScore,    \* bound on the virtual DAA score
    MaxReorgs,      \* bound on reorganizations
    MaxCandidates,  \* bound on the candidates of one block template
    MaxEntries      \* bound on entries for one transaction in one slice

NoTx == 0

ASSUME TxsAssumption == Txs \subseteq Nat \ {NoTx}
ASSUME LimitAssumption == MaximumTransactionCount \in Nat /\ MaximumOrphanTransactionCount \in Nat \ {0}
ASSUME SubmissionsAssumption == Submissions \subseteq Txs \X BOOLEAN
ASSUME WordAssumption == Word > MaxDAAScore

VARIABLES
    mp,         \* the mempool object
    op,         \* the call that holds the lock
    accepted,   \* consensus: the transactions virtual accepts
    daaScore,   \* consensus: the DAA score of virtual
    unhandled,  \* blocks to be passed to HandleNewBlockTransactions: the transaction of each
    template,   \* BuildBlockTemplate: the candidates it took from the mempool
    reorgs      \* reorganizations so far

vars == <<mp, op, accepted, daaScore, unhandled, template, reorgs>>

InputSet(t) == ToSet(Inputs[t])
OutputSet(t) == ToSet(Outputs[t])
Parents == [t \in Txs |-> {p \in Txs : OutputSet(p) \cap InputSet(t) # {}}]

\* The UTXO set of virtual.
UTXOSet == {o \in Coins \cup UNION {OutputSet(a) : a \in accepted} :
               \A a \in accepted : o \notin InputSet(a)}

Idle == [kind |-> "idle"]

Init ==
    /\ mp = [allTransactions |-> {}, highPriority |-> {},
             addedAt   |-> [t \in Txs |-> 0],
             parents   |-> [t \in Txs |-> {}],
             chained   |-> [t \in Txs |-> << >>],
             byFeeRate |-> [t \in Txs |-> << >>],
             spender   |-> [o \in Outpoints |-> NoTx],
             allOrphans |-> {}, highOrphans |-> {},
             orphanAddedAt |-> [t \in Txs |-> 0],
             filled    |-> [t \in Txs |-> {}],
             orphanBy  |-> [o \in Outpoints |-> NoTx],
             lastScan |-> 0, lastOrphanScan |-> 0, failed |-> FALSE]
    /\ op = Idle
    /\ accepted = {} /\ daaScore = 0 /\ reorgs = 0
    /\ unhandled = {} /\ template = {}

-----------------------------------------------------------------------------
(* The orphan pool.                                                        *)

\* removeOrphan and removeRedeemersOf.  An input that is missing in
\* orphansByPreviousOutpoint is an error.
RECURSIVE RemoveOrphan(_, _, _), RemoveRedeemersOf(_, _)
RemoveOrphan(m, t, removeRedeemers) ==
    IF t \notin m.allOrphans THEN m
    ELSE LET removed ==
                 [m EXCEPT !.allOrphans = @ \ {t}, !.highOrphans = @ \ {t},
                           !.orphanAddedAt[t] = 0, !.filled[t] = {},
                           !.orphanBy = [o \in Outpoints |-> IF o \in InputSet(t) THEN NoTx ELSE @[o]],
                           !.failed = @ \/ \E o \in InputSet(t) : m.orphanBy[o] = NoTx]
         IN  IF removeRedeemers THEN RemoveRedeemersOf(removed, t) ELSE removed
RemoveRedeemersOf(m, t) ==
    FoldLeft(LAMBDA x, o : RemoveOrphan(x, x.orphanBy[o], TRUE), m, Outputs[t])

CheckOrphanDoubleSpend(m, t) == \A o \in InputSet(t) : m.orphanBy[o] = NoTx

\* countUnfilledInputs that counts every input.
UnfilledInputs_All(m, t) == InputSet(t)

UnfilledInputs(m, t) == InputSet(t) \ m.filled[t]

AddOrphan(m, t, isHigh, missing) ==
    [m EXCEPT !.allOrphans = @ \cup {t},
              !.highOrphans = IF isHigh THEN @ \cup {t} ELSE @,
              !.orphanAddedAt[t] = daaScore,
              !.filled[t] = InputSet(t) \ missing,
              !.orphanBy = [o \in Outpoints |-> IF o \in InputSet(t) THEN t ELSE @[o]]]

-----------------------------------------------------------------------------
(* The transaction pool.                                                   *)

CheckDoubleSpends(m, t) == \A o \in InputSet(t) : m.spender[o] = NoTx

ParentsInPool(m, t) == Parents[t] \cap m.allTransactions

\* fillInputsAndGetMissingParents
Missing(m, t) == InputSet(t) \ (UTXOSet \cup UNION {OutputSet(p) : p \in ParentsInPool(m, t)})

\* addMempoolTransaction.  byFeeRate[t] is the part of
\* transactionsOrderedByFeeRate with the ID of t, of each entry whether it is
\* a high priority one; Push puts the new entry before the others.
AddTransaction(m, t, isHigh) ==
    [m EXCEPT !.allTransactions = @ \cup {t},
              !.highPriority = IF isHigh THEN @ \cup {t} ELSE @,
              !.addedAt[t] = daaScore,
              !.parents[t] = ParentsInPool(m, t),
              !.chained = [p \in Txs |-> IF p \in ParentsInPool(m, t) THEN Append(@[p], t) ELSE @[p]],
              !.byFeeRate[t] = <<isHigh>> \o @,
              !.spender = [o \in Outpoints |-> IF o \in InputSet(t) THEN t ELSE @[o]]]

IsHighPriority(m, t) == Head(m.byFeeRate[t])

\* getRedeemers: one that is met along several paths is there several times.
RECURSIVE GetRedeemers(_, _)
GetRedeemers(m, t) ==
    m.chained[t] \o FlattenSeq([i \in DOMAIN m.chained[t] |-> GetRedeemers(m, m.chained[t][i])])

UpdateOrphansAfterTransactionRemoved(m, t, removeRedeemers) ==
    IF removeRedeemers THEN RemoveRedeemersOf(m, t)
    ELSE [m EXCEPT !.filled = [u \in Txs |-> @[u] \ OutputSet(t)]]

\* transactionsPool.removeTransaction
RemoveFromPool(m, t) ==
    [m EXCEPT !.allTransactions = @ \ {t}, !.highPriority = @ \ {t},
              !.addedAt[t] = 0, !.parents[t] = {}, !.chained[t] = << >>,
              !.byFeeRate[t] = IF @ = << >> THEN @ ELSE Tail(@)]

\* mempoolUTXOSet.removeTransaction that frees the first input only.
RemoveFromUTXOSet_FirstInput(m, t) == [m EXCEPT !.spender[Inputs[t][1]] = NoTx]

\* mempoolUTXOSet.removeTransaction: the outpoints are free, whoever holds them.
RemoveFromUTXOSet(m, t) ==
    [m EXCEPT !.spender = [o \in Outpoints |-> IF o \in InputSet(t) THEN NoTx ELSE @[o]]]

RemoveTransactionFromSets(m, t, removeRedeemers) ==
    UpdateOrphansAfterTransactionRemoved(
        RemoveFromPool(RemoveFromUTXOSet(m, t), t), t, removeRedeemers)

\* removeTransaction that does not tell the redeemers it keeps.
RemoveTransaction_KeepsParents(m, t, removeRedeemers) ==
    LET FromSets(x, u) == RemoveTransactionFromSets(x, u, removeRedeemers)
    IN  IF t \in m.allOrphans THEN RemoveOrphan(m, t, TRUE)
        ELSE IF t \notin m.allTransactions THEN m
        ELSE IF removeRedeemers
        THEN RemoveRedeemersOf(FoldLeft(FromSets, m, <<t>> \o GetRedeemers(m, t)), t)
        ELSE FromSets(m, t)

\* removeTransaction.  The redeemers may include entries that were left in
\* chainedTransactionsByParentID by transactions no longer in the pool.
RemoveTransaction(m, t, removeRedeemers) ==
    LET FromSets(x, u) == RemoveTransactionFromSets(x, u, removeRedeemers)
        RemoveWith(redeemers) ==
            IF removeRedeemers
            THEN RemoveRedeemersOf(FoldLeft(FromSets, m, <<t>> \o redeemers), t)
            ELSE FromSets([m EXCEPT !.parents = [u \in Txs |-> IF u \in ToSet(redeemers)
                                                            THEN @[u] \ {t} ELSE @[u]]], t)
    IN  IF t \in m.allOrphans THEN RemoveOrphan(m, t, TRUE)
        ELSE IF t \notin m.allTransactions THEN m
        ELSE RemoveWith(GetRedeemers(m, t))

RemoveEach(m, ts, removeRedeemers) ==
    FoldLeft(LAMBDA x, t : RemoveTransaction(x, t, removeRedeemers), m, SetToSortSeq(ts, <))

\* removeDoubleSpends
RemoveDoubleSpends(m, t) ==
    FoldLeft(LAMBDA x, o : RemoveTransaction(x, x.spender[o], TRUE), m, Inputs[t])

\* The entries of transactionsOrderedByFeeRate: by fee rate, then by ID.
LowerFeeRate(t, u) == \/ Fee[t] * Mass[u] < Fee[u] * Mass[t]
                      \/ Fee[t] * Mass[u] = Fee[u] * Mass[t] /\ t < u

FeeRateOrder == SetToSortSeq(Txs, LowerFeeRate)

OrderedByFeeRate(m) ==
    LET Entries(t) == [i \in DOMAIN m.byFeeRate[t] |-> [tx |-> t, isHigh |-> m.byFeeRate[t][i]]]
    IN  FlattenSeq([i \in DOMAIN FeeRateOrder |-> Entries(FeeRateOrder[i])])

-----------------------------------------------------------------------------
(* Calls that insert a transaction.                                        *)

\* The bound of the model on duplicate entries.
HasRoom(m, t) == /\ Len(m.byFeeRate[t]) < MaxEntries
                 /\ \A p \in Parents[t] : Len(m.chained[p]) < MaxEntries

ProcessOrphans(t, next) == [kind |-> "orphans", tx |-> t, output |-> 1, next |-> next]
Limit(index) == [kind |-> "limit", index |-> index]
ExpireOrphans == [kind |-> "expireOrphans"]
Expire(ts, score) == [kind |-> "expire", left |-> ts, daaScore |-> score]
Revalidate(ts) == [kind |-> "revalidate", left |-> ts]

\* ValidateAndInsertTransaction: a transaction with missing parents becomes an
\* orphan (maybeAddOrphan).  The pool of orphans grows by one, so
\* limitOrphanPoolSize takes out at most one of them, any that is not a high
\* priority one.
InsertOrphan(t, isHigh) ==
    /\ op = Idle
    /\ t \notin mp.allTransactions
    /\ CheckDoubleSpends(mp, t)
    /\ Missing(mp, t) # {}
    /\ t \notin mp.allOrphans /\ CheckOrphanDoubleSpend(mp, t)
    /\ \E m \in {AddOrphan(mp, t, isHigh, Missing(mp, t))} :
          \/ /\ \/ Cardinality(m.allOrphans) <= MaximumOrphanTransactionCount
                \/ m.allOrphans \subseteq m.highOrphans
             /\ mp' = m
          \/ /\ Cardinality(m.allOrphans) > MaximumOrphanTransactionCount
             /\ \E evicted \in m.allOrphans \ m.highOrphans :
                   mp' = RemoveOrphan(m, evicted, FALSE)
    /\ UNCHANGED <<op, accepted, daaScore, unhandled, template, reorgs>>

\* ValidateAndInsertTransaction: a transaction without missing parents.
InsertTransaction(t, isHigh) ==
    /\ op = Idle
    /\ t \notin mp.allTransactions
    /\ CheckDoubleSpends(mp, t)
    /\ Missing(mp, t) = {}
    /\ HasRoom(mp, t)
    /\ mp' = AddTransaction(mp, t, isHigh)
    /\ op' = ProcessOrphans(t, Limit(0))
    /\ UNCHANGED <<accepted, daaScore, unhandled, template, reorgs>>

\* ValidateAndInsertTransactionReplacement with conflicts.  Without any it is
\* ValidateAndInsertTransaction.
ReplaceTransaction(t, isHigh) ==
    LET conflicts == {mp.spender[o] : o \in InputSet(t)} \ {NoTx}
        evicted == conflicts \cup UNION {ToSet(GetRedeemers(mp, c)) : c \in conflicts}
        fee == MapThenSumSet(LAMBDA u : Fee[u], evicted)
        mass == MapThenSumSet(LAMBDA u : Mass[u], evicted)
    IN  /\ op = Idle
        /\ t \notin mp.allTransactions
        /\ conflicts # {}
        /\ Missing(mp, t) = {}
        /\ Fee[t] > fee
        /\ Fee[t] * mass > fee * Mass[t]
        /\ \E m \in {RemoveEach(mp, conflicts, TRUE)} :
              HasRoom(m, t) /\ mp' = AddTransaction(m, t, isHigh)
        /\ op' = ProcessOrphans(t, Limit(0))
        /\ UNCHANGED <<accepted, daaScore, unhandled, template, reorgs>>

\* One output of processOrphansAfterAcceptedTransaction.  The queue holds only
\* the accepted transaction.  valid: the orphan passes unorphanTransaction's
\* validation.
ProcessOrphan(valid) ==
    LET outpoint == Outputs[op.tx][op.output]
        orphan == mp.orphanBy[outpoint]
    IN  /\ op.kind = "orphans"
        /\ IF orphan = NoTx THEN valid /\ mp' = mp
           ELSE \E m \in {[mp EXCEPT !.filled[orphan] = @ \cup {outpoint}]} :
                   IF UnfilledInputs(m, orphan) = {}
                   THEN \E removed \in {RemoveOrphan(m, orphan, FALSE)} :
                           IF valid
                           THEN /\ HasRoom(removed, orphan)
                                /\ mp' = AddTransaction(removed, orphan, FALSE)
                           ELSE mp' = removed
                   ELSE valid /\ mp' = m
        /\ op' = IF op.output < Len(Outputs[op.tx]) THEN [op EXCEPT !.output = @ + 1] ELSE op.next
        /\ UNCHANGED <<accepted, daaScore, unhandled, template, reorgs>>

\* limitTransactionCount that never looks at the end of the list.
SkipHighPriority_NoEnd(m, index) == Limit(index + 1)

SkipHighPriority(m, index) ==
    IF index + 1 >= Cardinality(m.allTransactions) THEN Idle ELSE Limit(index + 1)

\* One turn of limitTransactionCount.
LimitTransactionCount ==
    LET count == Cardinality(mp.allTransactions)
        entry == OrderedByFeeRate(mp)[op.index + 1]
    IN  /\ op.kind = "limit"
        /\ \/ /\ count <= MaximumTransactionCount
              /\ op' = Idle /\ mp' = mp
           \/ /\ count > MaximumTransactionCount
              /\ entry.isHigh
              /\ mp' = mp
              /\ op' = SkipHighPriority(mp, op.index)
           \/ /\ count > MaximumTransactionCount
              /\ ~ entry.isHigh
              /\ mp' = RemoveTransaction(mp, entry.tx, TRUE)
              /\ op' = IF op.index >= Cardinality(mp'.allTransactions) THEN Idle ELSE op
        /\ UNCHANGED <<accepted, daaScore, unhandled, template, reorgs>>

-----------------------------------------------------------------------------
(* HandleNewBlockTransactions.                                             *)

Since(score, before) == (score - before) % Word

\* A block that has no transaction but the coinbase has NoTx.
HandleNewBlockTransactions(t) ==
    /\ op = Idle
    /\ t \in unhandled
    /\ unhandled' = unhandled \ {t}
    /\ IF t = NoTx
       THEN mp' = mp /\ op' = ExpireOrphans
       ELSE /\ mp' = RemoveOrphan(RemoveDoubleSpends(RemoveTransaction(mp, t, FALSE), t), t, FALSE)
            /\ op' = ProcessOrphans(t, ExpireOrphans)
    /\ UNCHANGED <<accepted, daaScore, template, reorgs>>

\* expireOrphanTransactions
ExpireOrphanTransactions ==
    LET expired == {t \in mp.allOrphans \ mp.highOrphans :
                       Since(daaScore, mp.orphanAddedAt[t]) > ExpireInterval}
    IN  /\ op.kind = "expireOrphans"
        /\ mp' = IF Since(daaScore, mp.lastOrphanScan) < ScanInterval THEN mp
                 ELSE [FoldSet(LAMBDA t, m : RemoveOrphan(m, t, FALSE), mp, expired)
                           EXCEPT !.lastOrphanScan = daaScore]
        /\ op' = [kind |-> "startExpire"]
        /\ UNCHANGED <<accepted, daaScore, unhandled, template, reorgs>>

\* expireOldTransactions, to its loop.  inTime: the last scan was too few
\* seconds ago.
StartExpire(inTime) ==
    /\ op.kind = "startExpire"
    /\ op' = IF inTime \/ Since(daaScore, mp.lastScan) < ScanInterval THEN Idle
             ELSE Expire({t \in mp.allTransactions :
                             /\ ~ IsHighPriority(mp, t)
                             /\ Since(daaScore, mp.addedAt[t]) > ExpireInterval}, daaScore)
    /\ UNCHANGED <<mp, accepted, daaScore, unhandled, template, reorgs>>

\* One expired transaction, in the order of a Go map, or the end of the loop.
ExpireOldTransactions ==
    /\ op.kind = "expire"
    /\ \/ /\ op.left \cap mp.allTransactions = {}
          /\ mp' = [mp EXCEPT !.lastScan = op.daaScore]
          /\ op' = Idle
       \/ \E t \in op.left \cap mp.allTransactions :
             /\ mp' = RemoveTransaction(mp, t, TRUE)
             /\ op' = [op EXCEPT !.left = @ \ {t}]
    /\ UNCHANGED <<accepted, daaScore, unhandled, template, reorgs>>

-----------------------------------------------------------------------------
(* RevalidateHighPriorityTransactions and the block template.              *)

StartRevalidate ==
    /\ op = Idle
    /\ mp.highPriority # {}
    /\ op' = Revalidate(mp.highPriority)
    /\ UNCHANGED <<mp, accepted, daaScore, unhandled, template, reorgs>>

\* revalidateTransaction, of one whose high priority parents were visited.  An error that
\* is not about a missing output, like an input that a reorg made immature, ends the walk.
RevalidateTransaction ==
    /\ op.kind = "revalidate"
    /\ \E t \in op.left :
          /\ Parents[t] \cap op.left = {}
          /\ \/ /\ mp' = IF Missing(mp, t) = {} THEN mp ELSE RemoveTransaction(mp, t, FALSE)
                /\ op' = IF op.left = {t} THEN Idle ELSE [op EXCEPT !.left = @ \ {t}]
             \/ /\ Missing(mp, t) = {}
                /\ op' = Idle
                /\ UNCHANGED mp
    /\ UNCHANGED <<accepted, daaScore, unhandled, template, reorgs>>

\* BlockCandidateTransactions: ready transactions; which of them pass its
\* filters is left open.
BlockCandidateTransactions ==
    /\ op = Idle
    /\ template = {}
    /\ \E candidates \in SUBSET {t \in mp.allTransactions : mp.parents[t] = {}} :
          /\ Cardinality(candidates) \in 1 .. MaxCandidates
          /\ template' = candidates
    /\ UNCHANGED <<mp, op, accepted, daaScore, unhandled, reorgs>>

\* BuildBlockTemplate: consensus takes the candidates, or returns those it
\* finds invalid to RemoveInvalidTransactions.  An input that is missing is one
\* error; bad has the transactions with any other.
RemoveInvalidTransactions ==
    LET missing == {t \in template : ~ (InputSet(t) \subseteq UTXOSet)}
    IN  /\ op = Idle
        /\ template # {}
        /\ template' = {}
        /\ \E bad \in SUBSET (template \ missing) :
              mp' = FoldLeft(LAMBDA m, t : RemoveTransaction(m, t, t \in bad),
                             mp, SetToSortSeq(missing \cup bad, <))
        /\ UNCHANGED <<op, accepted, daaScore, unhandled, reorgs>>

-----------------------------------------------------------------------------
(* Consensus.                                                              *)

\* Virtual merges a new block with transaction t, and accepts the transaction
\* when its inputs are there.
AddBlock(t) ==
    /\ daaScore < MaxDAAScore
    /\ t \notin unhandled
    /\ accepted' = IF t \in Txs /\ InputSet(t) \subseteq UTXOSet THEN accepted \cup {t} ELSE accepted
    /\ daaScore' = daaScore + 1
    /\ unhandled' = unhandled \cup {t}
    /\ UNCHANGED <<mp, op, template, reorgs>>

\* A reorganization: t and what depends on it are no longer accepted.
Reorganize(t) ==
    LET RECURSIVE Future(_)
        Future(ts) == LET more == ts \cup {u \in accepted : Parents[u] \cap ts # {}}
                      IN  IF more = ts THEN ts ELSE Future(more)
    IN  /\ reorgs < MaxReorgs
        /\ t \in accepted
        /\ accepted' = accepted \ Future({t})
        /\ \E score \in 0 .. daaScore : daaScore' = score
        /\ reorgs' = reorgs + 1
        /\ UNCHANGED <<mp, op, unhandled, template>>

Next ==
    \/ \E s \in Submissions :
          InsertOrphan(s[1], s[2]) \/ InsertTransaction(s[1], s[2]) \/ ReplaceTransaction(s[1], s[2])
    \/ \E valid \in BOOLEAN : ProcessOrphan(valid)
    \/ LimitTransactionCount
    \/ \E t \in Txs \cup {NoTx} : HandleNewBlockTransactions(t)
    \/ ExpireOrphanTransactions
    \/ \E inTime \in BOOLEAN : StartExpire(inTime)
    \/ ExpireOldTransactions
    \/ StartRevalidate \/ RevalidateTransaction
    \/ BlockCandidateTransactions \/ RemoveInvalidTransactions
    \/ \E t \in Txs \cup {NoTx} : AddBlock(t)
    \/ \E t \in Txs : Reorganize(t)

Spec == Init /\ [][Next]_vars
-----------------------------------------------------------------------------
(* Properties.                                                             *)

\* An outpoint is held as spent (transactionByPreviousOutpoint) only by a
\* transaction that is in the pool and spends it: one left there would make the
\* mempool reject every later spend of the outpoint as a double spend.
SpendersAreInPool ==
    \A o \in Outpoints : mp.spender[o] # NoTx =>
        mp.spender[o] \in mp.allTransactions /\ o \in InputSet(mp.spender[o])

\* A transaction waits only for parents that are in the pool and that know it as
\* a redeemer: with a parent that left without telling it, a transaction would
\* never be a block candidate.
ParentsAreInPool ==
    \A t \in mp.allTransactions : \A p \in mp.parents[t] :
        p \in mp.allTransactions /\ t \in ToSet(mp.chained[p])

\* Every orphan lacks an input, and orphansByPreviousOutpoint is exactly the
\* inputs of the orphans: one with all inputs filled, or missing from the index,
\* would be looked at again by no call, and removeOrphan would return its error.
OrphansLackAnInput ==
    /\ ~ mp.failed
    /\ \A t \in mp.allOrphans : ~ (InputSet(t) \subseteq mp.filled[t])
    /\ \A o \in Outpoints, t \in Txs :
          mp.orphanBy[o] = t <=> t \in mp.allOrphans /\ o \in InputSet(t)

\* transactionsOrderedByFeeRate has one entry for each transaction of the pool.
FeeRateOrderIsExact ==
    \A t \in Txs : Len(mp.byFeeRate[t]) = IF t \in mp.allTransactions THEN 1 ELSE 0

\* GetByIndex in limitTransactionCount is in range, although that loop bounds its
\* index by the size of another collection, the pool; and when it returns, the
\* pool is within its limit or only high priority transactions are left, unless
\* transactionsOrderedByFeeRate held more than the pool.
LimitHolds ==
    /\ [](op.kind = "limit" /\ Cardinality(mp.allTransactions) > MaximumTransactionCount
              => op.index < Len(OrderedByFeeRate(mp)))
    /\ [][op.kind = "limit" /\ op' = Idle /\ FeeRateOrderIsExact =>
              \/ Cardinality(mp'.allTransactions) <= MaximumTransactionCount
              \/ mp'.allTransactions \subseteq mp'.highPriority]_vars

\* No two transactions of the pool spend one outpoint.
NoDoubleSpend ==
    \A t, u \in mp.allTransactions : t # u => InputSet(t) \cap InputSet(u) = {}
=============================================================================
