--------------------------- MODULE ConsensusState ---------------------------
(***************************************************************************)
(* The consensus state of a node: block statuses, UTXO diffs and their     *)
(* diff children, tips, and the virtual block with its UTXO set.           *)
(*                                                                         *)
(* Every variable but op, virtualNotUpdated and restarts is in the         *)
(* database.  A call of the consensus object holds its lock to the end,    *)
(* but it commits several times: an action runs from one commit to the     *)
(* next, op is what the call holds in memory in between, and a crash       *)
(* loses op and keeps the database.                                        *)
(*                                                                         *)
(* Blocks arrive with bodies, in any order their parents allow.  Header    *)
(* validation other than parents, merge set size and merge depth is taken  *)
(* as passed, and nothing is pruned.                                       *)
(***************************************************************************)
EXTENDS PastUTXO

CONSTANTS
    ResolveChunk,           \* virtualResolveChunk: blocks resolved per ResolveVirtual
    EnforceMergeDepthFrom,  \* the DAA score from which bounded merge depth is enforced
    Honest,                 \* TRUE: only blocks arrive that the reference finds valid
    Deferred,               \* TRUE: blocks also arrive with updateVirtual = false
    MaxRestarts             \* bound on restarts

ASSUME ScoresAssumption == Scores = 0 .. Cardinality(Blocks)
ASSUME ChunkAssumption == ResolveChunk \in Nat \ {0}

VARIABLES
    dag,                \* block relations and GHOSTDAG data
    status,             \* blockStatusStore
    utxoDiff,           \* utxoDiffStore
    utxoDiffChild,      \* utxoDiffStore
    multiset,           \* multisetStore
    tips,               \* consensusStateStore
    virtual,            \* parents and GHOSTDAG data of the virtual block
    virtualUTXOSet,     \* consensusStateStore
    virtualNotUpdated,  \* consensus.virtualNotUpdated
    op,                 \* the call in progress
    restarts            \* restarts so far

store == <<dag, status, utxoDiff, utxoDiffChild, multiset, tips, virtual, virtualUTXOSet>>
vars == <<store, virtualNotUpdated, op, restarts>>

Statuses == {"Unknown", "Pending", "Valid", "Disqualified"}

Idle == [kind |-> "idle"]
Crashed == [kind |-> "down", why |-> "crash"]
Panicked == [kind |-> "down", why |-> "panic"]
Failed == [kind |-> "error"]    \* the call returns an error that is not a RuleError

VirtualSelectedParent == virtual.data.selectedParent

Resolved == {b \in Blocks : status[b] \in {"Valid", "Disqualified"}}

\* Genesis after its insertion.
Init ==
    /\ dag = InitDagWithBody
    /\ status = [b \in Blocks |-> IF b = Genesis THEN "Valid" ELSE "Unknown"]
    /\ utxoDiff = [b \in Blocks |-> EmptyDiff]
    /\ utxoDiffChild = [b \in Blocks |-> NoBlock]
    /\ multiset = [b \in Blocks |-> IF b = Genesis THEN MultisetOf(InitialUTXOSet) ELSE {}]
    /\ tips = {Genesis}
    /\ virtual = [parents |-> {Genesis}, data |-> GHOSTDAG(InitDag, {Genesis})]
    /\ virtualUTXOSet = InitialUTXOSet
    /\ virtualNotUpdated = FALSE
    /\ op = Idle
    /\ restarts = 0

-----------------------------------------------------------------------------
(* Resolving the statuses of a chain.                                      *)

Restore(b) == RestorePastUTXO(utxoDiff, utxoDiffChild, b)

\* getUnverifiedChainBlocks, the lowest block first.
RECURSIVE UnverifiedChain(_, _, _)
UnverifiedChain(d, st, b) ==
    IF st[b] # "Pending" THEN << >>
    ELSE Append(UnverifiedChain(d, st, SelectedParent(d, b)), b)

\* The locals of resolveBlockStatus: the blocks left to resolve, and hash,
\* status and past UTXO of the block resolved last.
Resolution(d, chain) ==
    IF chain = << >> THEN [chain |-> << >>]
    ELSE LET sp == SelectedParent(d, Head(chain))
         IN  [chain |-> chain, prev |-> sp, prevStatus |-> status[sp],
              prevPast |-> Restore(sp), nilPast |-> FALSE]

\* One turn of its loop.  A block found disqualified by resolveSingleBlockStatus
\* leaves a nil past UTXO for the next turn, which calls a method of it.
ResolveOne(d, r) ==
    LET b == Head(r.chain)
        Turn(past, valid) ==
            [block    |-> b,
             past     |-> past,
             status   |-> IF valid THEN "Valid" ELSE "Disqualified",
             hanging  |-> DiffFrom(r.prevPast.diff, past.diff),
             failed   |-> r.prevPast.failed \/ past.failed,
             hangingFails |-> DiffFromFails(r.prevPast.diff, past.diff),
             next     |-> [chain |-> Tail(r.chain), prev |-> b,
                           prevStatus |-> IF valid THEN "Valid" ELSE "Disqualified",
                           prevPast |-> [diff |-> past.diff, failed |-> FALSE],
                           nilPast |-> r.prevStatus = "Valid" /\ ~ valid]]
        Verified(past) ==
            Turn(past, r.prevStatus = "Valid" /\ VerifyUTXO(d, b, virtualUTXOSet, past))
    IN  Verified(CalculatePastUTXO(d, d.data[b], virtualUTXOSet, r.prevPast.diff, multiset[r.prev]))

IsNewSelectedTip(d, b, old) == ChooseSelectedParent(d, {b, old}) = b

\* resolveBlockStatus that stages no diff for a disqualified tip.
ResolveTip_NoDiffForDisqualified(d, r) ==
    LET old == VirtualSelectedParent
        Staged(one, oldPast, takes) ==
            [block |-> one.block,
             status |-> one.status,
             multiset |-> one.past.multiset,
             diffs |-> IF takes
                       THEN [utxoDiff EXCEPT ![old] = DiffFrom(one.past.diff, oldPast.diff),
                                             ![one.block] = one.past.diff]
                       ELSE utxoDiff,
             children |-> IF takes THEN [utxoDiffChild EXCEPT ![old] = one.block]
                          ELSE utxoDiffChild,
             failed |-> one.failed,
             selectedParentDiff |-> DiffFrom(one.past.diff, r.prevPast.diff),
             selectedParentDiffFails |-> FALSE]
        AfterTurn(one) ==
            Staged(one, Restore(old), one.status = "Valid" /\ IsNewSelectedTip(d, one.block, old))
    IN  AfterTurn(ResolveOne(d, r))

\* The diffs after the last turn, for the tip.  Staging a diff without a child
\* leaves the child that the block had.
ResolveTip(d, r) ==
    LET old == VirtualSelectedParent
        Staged(one, oldPast, takes) ==
            LET b == one.block
                hangsOnOld == one.status = "Valid" /\ ~ takes
            IN  [block |-> b,
                 status |-> one.status,
                 multiset |-> one.past.multiset,
                 diffs |-> IF takes
                           THEN [utxoDiff EXCEPT ![old] = DiffFrom(one.past.diff, oldPast.diff),
                                                 ![b] = one.past.diff]
                           ELSE [utxoDiff EXCEPT ![b] = IF hangsOnOld
                                                        THEN DiffFrom(oldPast.diff, one.past.diff)
                                                        ELSE one.hanging],
                 children |-> IF takes THEN [utxoDiffChild EXCEPT ![old] = b]
                              ELSE [utxoDiffChild EXCEPT ![b] = IF hangsOnOld THEN old ELSE r.prev],
                 failed |->
                    \/ one.failed
                    \/ one.status = "Disqualified" /\ one.hangingFails
                    \/ takes /\ (oldPast.failed \/ DiffFromFails(one.past.diff, oldPast.diff))
                    \/ hangsOnOld /\ (oldPast.failed \/ DiffFromFails(oldPast.diff, one.past.diff)),
                 selectedParentDiff |-> DiffFrom(one.past.diff, r.prevPast.diff),
                 selectedParentDiffFails |-> DiffFromFails(one.past.diff, r.prevPast.diff)]
        AfterTurn(one) ==
            Staged(one, Restore(old), one.status = "Valid" /\ IsNewSelectedTip(d, one.block, old))
    IN  AfterTurn(ResolveOne(d, r))

\* resolveBlockStatus that stages a block below the tip over virtual, without
\* the temporary restore path.
ResolveInterior_OverVirtual ==
    /\ op.kind \in {"add", "resolve"}
    /\ Len(op.resolution.chain) > 1
    /\ \E one \in {ResolveOne(op.dag, op.resolution)} :
           /\ status' = [status EXCEPT ![one.block] = one.status]
           /\ utxoDiff' = [utxoDiff EXCEPT ![one.block] = one.past.diff]
           /\ multiset' = [multiset EXCEPT ![one.block] = one.past.multiset]
           /\ op' = [op EXCEPT !.resolution = one.next, !.interior = TRUE]
    /\ UNCHANGED <<dag, utxoDiffChild, tips, virtual, virtualUTXOSet, virtualNotUpdated, restarts>>

\* resolveBlockStatus commits each block below the tip by itself.
ResolveInterior ==
    /\ op.kind \in {"add", "resolve"}
    /\ Len(op.resolution.chain) > 1
    /\ IF op.resolution.nilPast
       THEN op' = Panicked /\ UNCHANGED store
       ELSE \E one \in {ResolveOne(op.dag, op.resolution)} :
                IF one.failed \/ one.hangingFails THEN op' = Failed /\ UNCHANGED store
                ELSE /\ status' = [status EXCEPT ![one.block] = one.status]
                     /\ utxoDiff' = [utxoDiff EXCEPT ![one.block] = one.hanging]
                     /\ utxoDiffChild' = [utxoDiffChild EXCEPT ![one.block] = op.resolution.prev]
                     /\ multiset' = [multiset EXCEPT ![one.block] = one.past.multiset]
                     /\ op' = [op EXCEPT !.resolution = one.next, !.interior = TRUE]
                     /\ UNCHANGED <<dag, tips, virtual, virtualUTXOSet>>
    /\ UNCHANGED <<virtualNotUpdated, restarts>>
-----------------------------------------------------------------------------
(* Moving virtual.                                                         *)

\* updateVirtualWithParents without updateSelectedTipUTXODiff.
UpdateVirtualWithParents_NoRebase(d, diffs, children, multisets, ps) ==
    LET g == GHOSTDAG(d, ps)
        sp == g.selectedParent
        spPast == RestorePastUTXO(diffs, children, sp)
        past == CalculatePastUTXO(d, g, virtualUTXOSet, spPast.diff, multisets[sp])
    IN  [virtual |-> [parents |-> ps, data |-> g],
         set     |-> Apply(virtualUTXOSet, past.diff),
         diffs   |-> diffs,
         failed  |-> spPast.failed \/ past.failed]

\* updateVirtualWithParents: the virtual UTXO diff is a diff over the old
\* virtual UTXO set; the selected tip's diff is rebased on the new one.
UpdateVirtualWithParents(d, diffs, children, multisets, ps) ==
    LET g == GHOSTDAG(d, ps)
        sp == g.selectedParent
        spPast == RestorePastUTXO(diffs, children, sp)
        past == CalculatePastUTXO(d, g, virtualUTXOSet, spPast.diff, multisets[sp])
    IN  [virtual |-> [parents |-> ps, data |-> g],
         set     |-> Apply(virtualUTXOSet, past.diff),
         diffs   |-> [diffs EXCEPT ![sp] = DiffFrom(past.diff, @)],
         failed  |-> spPast.failed \/ past.failed \/ DiffFromFails(past.diff, diffs[sp])]

\* ReverseUTXODiffs, to run after the commit of a tip: block hangs on child with
\* diff; after is what the call does next.
Reversal(block, diff, child, after) ==
    [kind |-> "reverse", first |-> TRUE, block |-> block, diff |-> diff, child |-> child,
     after |-> after]

\* Each block of the reversed chain is committed by itself.  It stops below the
\* first block that does not hang on its selected parent.
ReverseStep ==
    /\ op.kind = "reverse"
    /\ IF ~ op.first /\ utxoDiffChild[op.block] = NoBlock
       THEN op' = Failed /\ UNCHANGED store
       ELSE /\ utxoDiff' = [utxoDiff EXCEPT ![op.block] = op.diff]
            /\ utxoDiffChild' = [utxoDiffChild EXCEPT ![op.block] = op.child]
            /\ op' = IF op.first \/ utxoDiffChild[op.block] = SelectedParent(dag, op.block)
                     THEN [op EXCEPT !.first = FALSE, !.block = SelectedParent(dag, op.block),
                                     !.diff = Reversed(utxoDiff[op.block]), !.child = op.block]
                     ELSE op.after
            /\ UNCHANGED <<dag, status, multiset, tips, virtual, virtualUTXOSet>>
    /\ UNCHANGED <<virtualNotUpdated, restarts>>

-----------------------------------------------------------------------------
(* ValidateAndInsertBlock.                                                 *)

\* A block with parents ps passes header validation and, from honest peers, is
\* valid.
MayArrive(d, b, ps) ==
    LET g == d.data[b]
    IN  /\ Len(g.mergeSetBlues) + Len(g.mergeSetReds) <= MergeSetSizeLimit
        /\ d.header[b].daaScore >= EnforceMergeDepthFrom => BadReds(d, g) = {}
        /\ Honest => RefValid(d, b)

WithTip(b, ps) == (tips \ ps) \cup {b}

\* With updateVirtual = false, as during IBD: one commit, nothing is resolved.
InsertDeferred(b, ps) ==
    LET d == WithBody(dag, b, ps)
    IN  /\ op = Idle /\ Deferred /\ b \notin Known(dag)
        /\ MayArrive(d, b, ps)
        /\ dag' = d
        /\ status' = [status EXCEPT ![b] = "Pending"]
        /\ tips' = WithTip(b, ps)
        /\ virtualNotUpdated' = TRUE
        /\ UNCHANGED <<utxoDiff, utxoDiffChild, multiset, virtual, virtualUTXOSet, op, restarts>>

\* With updateVirtual = true: when virtual is not updated, the caller first
\* calls ResolveVirtual until it is.  The block is staged in op.
InsertBlock(b, ps) ==
    LET d == WithBody(dag, b, ps)
        isCandidate == /\ IsNewSelectedTip(d, b, VirtualSelectedParent)
                       /\ ~ IsViolatingFinality(d, virtual.data, b)
        chain == UnverifiedChain(d, [status EXCEPT ![b] = "Pending"], b)
    IN  /\ op = Idle /\ ~ virtualNotUpdated /\ b \notin Known(dag)
        /\ MayArrive(d, b, ps)
        /\ op' = [kind |-> "add", block |-> b, dag |-> d, interior |-> FALSE,
                  resolution |-> Resolution(d, IF isCandidate THEN chain ELSE << >>)]
        /\ UNCHANGED <<store, virtualNotUpdated, restarts>>

\* The tip's resolution, or none.
TipOrNothing(d, b, r) ==
    IF r.chain # << >> THEN ResolveTip(d, r)
    ELSE [block |-> b, status |-> IF status[b] = "Unknown" THEN "Pending" ELSE status[b],
          multiset |-> multiset[b], diffs |-> utxoDiff, children |-> utxoDiffChild,
          failed |-> FALSE]

\* The commit of the block with its status, the new tips and the new virtual.
CommitBlock ==
    /\ op.kind = "add" /\ Len(op.resolution.chain) <= 1
    /\ IF op.resolution.chain # << >> /\ op.resolution.nilPast
       THEN op' = Panicked /\ UNCHANGED store
       ELSE \E t \in {TipOrNothing(op.dag, op.block, op.resolution)} :
            LET b == op.block
                newStatus == [status EXCEPT ![b] = t.status]
                newTips == WithTip(b, op.dag.parents[b])
                newMultiset == [multiset EXCEPT ![b] = t.multiset]
                reverses == op.interior /\ t.status = "Valid"
            IN  \E u \in {UpdateVirtualWithParents(op.dag, t.diffs, t.children, newMultiset,
                              PickVirtualParents(op.dag, newStatus, newTips))} :
                IF t.failed \/ u.failed \/ (reverses /\ t.selectedParentDiffFails)
                THEN op' = Failed /\ UNCHANGED store
                ELSE /\ dag' = op.dag
                     /\ status' = newStatus
                     /\ utxoDiff' = u.diffs
                     /\ utxoDiffChild' = t.children
                     /\ multiset' = newMultiset
                     /\ tips' = newTips
                     /\ virtual' = u.virtual
                     /\ virtualUTXOSet' = u.set
                     /\ op' = IF reverses
                              THEN Reversal(op.resolution.prev, t.selectedParentDiff, b, Idle)
                              ELSE Idle
    /\ UNCHANGED <<virtualNotUpdated, restarts>>

-----------------------------------------------------------------------------
(* ResolveVirtual.                                                         *)

\* findNextPendingTip chooses the heaviest of these.
PendingTips == {t \in tips : /\ ~ IsViolatingFinality(dag, virtual.data, t)
                             /\ status[t] \in {"Valid", "Pending"}}

\* The chain up to the processing point: all of it, or the first blocks of it,
\* at least ResolveChunk and as many as it takes to win the selected parent.
ProcessingChains(chain) ==
    IF Len(chain) <= ResolveChunk THEN {chain}
    ELSE LET ends == {i \in ResolveChunk .. Len(chain) :
                         IsNewSelectedTip(dag, chain[i], VirtualSelectedParent)}
         IN  IF ends = {} THEN {} ELSE {SubSeq(chain, 1, Min(ends))}

\* Called by ValidateAndInsertBlock when virtual is not updated, and by IBD after
\* it has inserted blocks.
ResolveVirtual ==
    LET pendingTip == ChooseSelectedParent(dag, PendingTips)
        chains == ProcessingChains(UnverifiedChain(dag, status, pendingTip))
    IN  /\ op = Idle /\ (virtualNotUpdated \/ Deferred)
        /\ IF \/ PendingTips = {}
              \/ pendingTip = VirtualSelectedParent /\ status[pendingTip] = "Valid"
           THEN virtualNotUpdated' = FALSE /\ UNCHANGED op
           ELSE /\ op' = IF chains = {} THEN Failed
                         ELSE LET chain == CHOOSE c \in chains : TRUE
                              IN  [kind |-> "resolve", dag |-> dag, interior |-> FALSE,
                                   block |-> IF chain = << >> THEN pendingTip ELSE Last(chain),
                                   pendingTip |-> pendingTip, resolution |-> Resolution(dag, chain)]
                /\ UNCHANGED virtualNotUpdated
        /\ UNCHANGED <<store, restarts>>

Update == [kind |-> "update", block |-> op.block, pendingTip |-> op.pendingTip]

\* ResolveVirtual that returns after its first commit and leaves virtual to the
\* next call.
CommitProcessingPoint_Returns ==
    /\ op.kind = "resolve" /\ Len(op.resolution.chain) <= 1
    /\ \E t \in {TipOrNothing(dag, op.block, op.resolution)} :
           /\ status' = [status EXCEPT ![op.block] = t.status]
           /\ utxoDiff' = t.diffs
           /\ utxoDiffChild' = t.children
           /\ multiset' = [multiset EXCEPT ![op.block] = t.multiset]
    /\ op' = Idle
    /\ UNCHANGED <<dag, tips, virtual, virtualUTXOSet, virtualNotUpdated, restarts>>

\* The first commit: the status and the diffs of the processing point.
CommitProcessingPoint ==
    /\ op.kind = "resolve" /\ Len(op.resolution.chain) <= 1
    /\ IF op.resolution.chain # << >> /\ op.resolution.nilPast
       THEN op' = Panicked /\ UNCHANGED store
       ELSE \E t \in {TipOrNothing(dag, op.block, op.resolution)} :
            LET reverses == op.interior /\ t.status = "Valid"
            IN  IF t.failed \/ (reverses /\ t.selectedParentDiffFails)
                THEN op' = Failed /\ UNCHANGED store
                ELSE /\ status' = [status EXCEPT ![op.block] = t.status]
                     /\ utxoDiff' = t.diffs
                     /\ utxoDiffChild' = t.children
                     /\ multiset' = [multiset EXCEPT ![op.block] = t.multiset]
                     /\ op' = IF reverses
                              THEN Reversal(op.resolution.prev, t.selectedParentDiff, op.block, Update)
                              ELSE Update
                     /\ UNCHANGED <<dag, tips, virtual, virtualUTXOSet>>
    /\ UNCHANGED <<virtualNotUpdated, restarts>>

\* getGHOSTDAGLowerTips
LowerTips(pendingTip) == {t \in tips : t = pendingTip \/ Less(dag, t, pendingTip)}

\* One chunk of ResolveVirtual is taken for all of them.
UpdateVirtual_OneChunk ==
    /\ op.kind = "update"
    /\ \E u \in {UpdateVirtualWithParents(dag, utxoDiff, utxoDiffChild, multiset, {op.block})} :
           /\ utxoDiff' = u.diffs
           /\ virtual' = u.virtual
           /\ virtualUTXOSet' = u.set
    /\ virtualNotUpdated' = FALSE
    /\ op' = Idle
    /\ UNCHANGED <<dag, status, utxoDiffChild, multiset, tips, restarts>>

\* The second commit: virtual moves to the processing point.
UpdateVirtual ==
    /\ op.kind = "update"
    /\ LET isCompletelyResolved == op.block = op.pendingTip /\ status[op.block] = "Valid"
           ps == IF isCompletelyResolved
                 THEN PickVirtualParents(dag, status, LowerTips(op.pendingTip))
                 ELSE {op.block}
       IN  \E u \in {UpdateVirtualWithParents(dag, utxoDiff, utxoDiffChild, multiset, ps)} :
           IF u.failed THEN op' = Failed /\ UNCHANGED <<store, virtualNotUpdated>>
           ELSE /\ utxoDiff' = u.diffs
                /\ virtual' = u.virtual
                /\ virtualUTXOSet' = u.set
                /\ virtualNotUpdated' = ~ isCompletelyResolved
                /\ op' = Idle
                /\ UNCHANGED <<dag, status, utxoDiffChild, multiset, tips>>
    /\ UNCHANGED restarts

-----------------------------------------------------------------------------
Crash ==
    /\ op.kind # "down" /\ restarts < MaxRestarts
    /\ op' = Crashed
    /\ UNCHANGED <<store, virtualNotUpdated, restarts>>

\* NewConsensus sets virtualNotUpdated.
Restart ==
    /\ op.kind = "down" /\ restarts < MaxRestarts
    /\ op' = Idle
    /\ virtualNotUpdated' = TRUE
    /\ restarts' = restarts + 1
    /\ UNCHANGED store

Next ==
    \/ op = Idle /\ \E b \in Blocks \ Known(dag), ps \in LegalParents(dag) :
                       InsertBlock(b, ps) \/ InsertDeferred(b, ps)
    \/ ResolveInterior
    \/ CommitBlock
    \/ ReverseStep
    \/ ResolveVirtual
    \/ CommitProcessingPoint
    \/ UpdateVirtual
    \/ Crash
    \/ Restart

Spec == Init /\ [][Next]_vars

-----------------------------------------------------------------------------
(* Properties.                                                             *)

\* In every database state, also one left by a crash, the past UTXO set that
\* restorePastUTXO rebuilds for a resolved block, from diffs that were each
\* computed, rebased or reversed over a virtual set that has moved since, is
\* the one the DAG defines.
RestoreIsExact ==
    \A b \in Resolved :
        LET r == Restore(b)
        IN  ~ r.failed /\ Apply(virtualUTXOSet, r.diff) = PastUTXO(dag, b)

\* resolveBlockStatus gives a block the status that follows from the DAG, so
\* two nodes agree on it whatever the order in which they received the blocks,
\* resolved them and restarted.  So do the stored multisets, built from
\* acceptance data alone, and the virtual UTXO set, which verdicts rest on.
VerdictsFollowTheDAG ==
    /\ \A b \in Resolved :
          /\ status[b] = IF RefValid(dag, b) THEN "Valid" ELSE "Disqualified"
          /\ multiset[b] = MultisetOf(PastUTXO(dag, b))
    /\ virtualUTXOSet = Header(dag, virtual.data).pastUTXO
    /\ virtual.data = GHOSTDAG(dag, virtual.parents)

\* No operation of the diff algebra returns an error, no diff child is missing
\* in ReverseUTXODiffs, and ResolveVirtual never fails with "Expecting the
\* pending tip to overcome the previous selected parent".
NeverFails == op # Failed

\* When no call is in progress and virtual is up to date, virtual's selected
\* parent is the heaviest valid block that does not violate finality.
VirtualIsHeaviest ==
    (op = Idle /\ ~ virtualNotUpdated) =>
        \A b \in Known(dag) \ {VirtualSelectedParent} :
            RefValid(dag, b) /\ ~ IsViolatingFinality(dag, virtual.data, b)
                => Less(dag, b, VirtualSelectedParent)

\* A block built on virtual (the block template) passes the header validation
\* that every node applies to it: pickVirtualParents keeps to the number of
\* parents, to parents in each other's anticone, to the merge set size limit
\* and to the bounded merge depth, and the selected parent is no disqualified
\* block, which would "disqualify virtual itself" (pick_virtual_parents.go:31).
VirtualIsAValidTemplate ==
    /\ status[VirtualSelectedParent] = "Valid"
    /\ virtual.parents \in LegalParents(dag)
    /\ Len(virtual.data.mergeSetBlues) + Len(virtual.data.mergeSetReds) <= MergeSetSizeLimit
    /\ BadReds(dag, virtual.data) = {}

\* No commit moves virtual's selected chain off the finality point virtual had
\* before it: not a reorganization, a chunk of ResolveVirtual or what follows a
\* restart.  (The point itself may move back down the chain, when virtual's
\* parents change and its blue score shrinks.)
FinalityNeverReverts ==
    [][FinalityPoint(dag, virtual.data) \in SelectedChain(dag', VirtualSelectedParent')]_vars

-----------------------------------------------------------------------------
(* The store implements UTXODiffChain.                                     *)

Chain == INSTANCE UTXODiffChain WITH
             past       <- [b \in Blocks |-> IF b \in Resolved THEN PastUTXO(dag, b)
                                                               ELSE EmptyCollection],
             diff       <- utxoDiff,
             child      <- utxoDiffChild,
             resolved   <- Resolved,
             head       <- CHOOSE b \in Resolved : utxoDiffChild[b] = NoBlock,
             virtualSet <- virtualUTXOSet

\* Every commit is a step that UTXODiffChain allows, so what is proved of it holds
\* of the diff store: at every commit the diff of a resolved block leads exactly
\* from its base to its past UTXO set, although the base moves whenever virtual
\* does; every resolved block but the selected tip hangs on a resolved one (the
\* tip relies on never having had a child, since utxoDiffStore.Stage with a nil
\* child does not clear it); and "there's a restore path to all blocks at all
\* times" (resolve_block_status.go:334), also in the middle of a reversal.
ImplementsUTXODiffChain == Chain!Spec

-----------------------------------------------------------------------------
(* Progress.                                                               *)

\* A call that has begun runs on, and ResolveVirtual is called while virtual is
\* not updated: by IBD when it is done, and by the next block that arrives.
Continue == \/ ResolveInterior \/ CommitBlock \/ ReverseStep
            \/ CommitProcessingPoint \/ UpdateVirtual

\* Weak fairness of both, with ENABLED written out.
Fairness ==
    /\ []<>(op.kind \in {"idle", "error", "down"}) \/ []<><<Continue>>_vars
    /\ []<>(op # Idle \/ ~ virtualNotUpdated) \/ []<><<ResolveVirtual>>_vars

FairSpec == Spec /\ Fairness

\* The chunks of ResolveVirtual come to an end: virtual catches up with the
\* blocks that were inserted without updating it.
VirtualCatchesUp == virtualNotUpdated ~> (op = Idle /\ ~ virtualNotUpdated)
=============================================================================
