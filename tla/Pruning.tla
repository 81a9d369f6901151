------------------------------ MODULE Pruning ------------------------------
(***************************************************************************)
(* The pruning point of a node (processes/pruningmanager and the pruning   *)
(* store): how it follows virtual, how its UTXO set is brought up to date, *)
(* and which blocks lose their data.                                       *)
(*                                                                         *)
(* A block that arrives is committed together with the new virtual, the    *)
(* new candidate, the new pruning point and the flag that its UTXO set is  *)
(* out of date; blocks inserted during IBD move virtual and the pruning    *)
(* point later, in commits of their own.  The UTXO set is then rewritten   *)
(* entry by entry outside any transaction, the deletions are committed,    *)
(* and the flag is removed: a crash may fall between any two of these.     *)
(*                                                                         *)
(* Every block is UTXO valid.  The acceptance data of chain block b creates *)
(* output b and spends its selected parent's; genesis's stays unspent.     *)
(***************************************************************************)
EXTENDS VirtualParents

CONSTANTS
    PruningDepth,       \* pruningDepth, in blue score
    WindowSize,         \* difficultyAdjustmentWindowSize
    ResolveChunk,       \* virtualResolveChunk, in chain blocks
    EnforceMergeDepthFrom,  \* the DAA score from which bounded merge depth is enforced
    MayDefer,           \* TRUE: a retention time or a pruning interval is set
    MaxDeferred,        \* bound on the blocks that virtual is behind
    DeferFrom,          \* bound: earlier blocks are inserted with virtual
    MaxSideBlocks,      \* bound on the blocks outside the selected chain
    MaxForkDepth,       \* bound on how far below the heaviest tip a block forks off
    MaxCrashes          \* bound on crashes

ASSUME PruningAssumption == PruningDepth \in Nat \ {0} /\ WindowSize \in Nat /\ ResolveChunk \in Nat \ {0}
ASSUME ChainAssumption == Blocks = 0 .. Max(Blocks) /\ Genesis = 0

VARIABLES
    dag,        \* headers, relations, GHOSTDAG data and, with it, DAA scores
                \* and merge depth roots
    status,     \* blockStatusStore; HeaderOnly: every other store lost the block
    tips,       \* consensusStateStore
    virtual,    \* parents and GHOSTDAG data of the virtual block
    points,     \* pruningStore: pruning points by index, from 0
    candidate,  \* pruningStore: the pruning point candidate
    updating,   \* pruningStore: updatingPruningPointUTXOSet
    utxoSet,    \* pruningStore: the pruning point UTXO set
    virtualNotUpdated,  \* consensus.virtualNotUpdated
    op,         \* the call in progress
    interrupted,    \* history: what a crash has cut short, until an update completes
    crashes     \* crashes so far

db == <<dag, status, tips, virtual, points, candidate, updating, utxoSet>>
history == <<interrupted, crashes>>
vars == <<db, virtualNotUpdated, op, history>>

Idle == [kind |-> "idle"]
Down == [kind |-> "down"]
Failed == [kind |-> "failed"]       \* the call returned an error
Recomputing == [kind |-> "byVirtual"]
Updating(next) == [kind |-> "update", next |-> next]
\* The locals of updatePruningPoint, and what follows it.
Writing(diff, next) == [kind |-> "write", toRemove |-> diff.toRemove, toAdd |-> diff.toAdd, next |-> next]
Finishing(deferred, next) == [kind |-> "finish", deferred |-> deferred, next |-> next]
\* ResolveVirtual between its two commits.
Resolving(point, tip) == [kind |-> "resolve", point |-> point, tip |-> tip]

PruningPoint == Last(points)

Score(d, b) == d.data[b].blueScore

FinalityScore(d, b) == Score(d, b) \div FinalityDepth

HasData(st, b) == st[b] # "HeaderOnly"

\* The past UTXO of a chain block: what the acceptance data up to it leaves.
PastUTXO(d, b) == {Genesis, b}

-----------------------------------------------------------------------------
(* The next pruning point.                                                 *)

\* The blocks of the selected chain of high from low up.
ChainFrom(d, low, high) == {c \in SelectedChain(d, high) : low \in SelectedChain(d, c)}

\* nextPruningPointAndCandidateByBlockHash that moves the point whenever the
\* candidate's finality score is not smaller.
NextPruningPointAndCandidate_EveryCandidate(d, g, isLow, pp, cand, suggested) ==
    LET deep == {c \in ChainFrom(d, cand, g.selectedParent) : g.blueScore - Score(d, c) >= PruningDepth}
        last == IF deep = {} THEN cand ELSE ChooseSelectedParent(d, deep)
    IN  [failed |-> FALSE, candidate |-> last, point |-> last]

\* nextPruningPointAndCandidateByBlockHash for a block with GHOSTDAG data g:
\* from low up its chain, while the blocks are in depth.
NextPruningPointAndCandidate(d, g, isLow, pp, cand, suggested) ==
    LET low == IF suggested = NoBlock \/ suggested \in SelectedChain(d, cand) THEN cand ELSE suggested
        onChain == suggested = NoBlock \/ suggested \in SelectedChain(d, cand)
                       \/ cand \in SelectedChain(d, suggested)
        walked == IF isLow THEN {low} ELSE ChainFrom(d, low, g.selectedParent)
        deep == {c \in walked : \A e \in walked :
                    Score(d, e) <= Score(d, c) => g.blueScore - Score(d, e) >= PruningDepth}
        movers == {c \in deep : /\ FinalityScore(d, c) > FinalityScore(d, pp)
                                /\ \A e \in deep : Score(d, e) < Score(d, c)
                                                     => FinalityScore(d, e) < FinalityScore(d, c)}
    IN  [failed |-> ~ onChain \/ walked = {},
         candidate |-> IF deep = {} THEN cand ELSE ChooseSelectedParent(d, deep),
         point |-> IF movers = {} THEN pp ELSE ChooseSelectedParent(d, movers)]

\* UpdatePruningPointByVirtual: what it stages for virtual v.  The block version
\* is below 5, the only one from which the intervals are not compared: the
\* networks' POWScores allow no more than 2.
ByVirtual(d, v) ==
    LET sp == v.data.selectedParent
        next == NextPruningPointAndCandidate(d, d.data[sp], sp = candidate, PruningPoint, candidate, NoBlock)
        moved == next.point # PruningPoint
    IN  IF sp = Genesis
        THEN [failed |-> FALSE, candidate |-> candidate, points |-> points, updating |-> updating]
        ELSE [failed |-> \/ next.failed
                         \/ FinalityScore(d, next.point) > FinalityScore(d, PruningPoint) + 1,
              candidate |-> next.candidate,
              points |-> IF moved THEN Append(points, next.point) ELSE points,
              updating |-> updating \/ moved]

\* ExpectedHeaderPruningPoint that answers with the node's own pruning point.
ExpectedHeaderPruningPoint_Own(d, g, spPoint) == PruningPoint

\* ExpectedHeaderPruningPoint of a block with GHOSTDAG data g whose selected
\* parent's header names spPoint.
ExpectedHeaderPruningPoint(d, g, spPoint) ==
    LET minRequired == (FinalityScore(d, spPoint) + 1) * FinalityDepth
        suggested == IF IsAncestorOf(d, PruningPoint, spPoint) THEN spPoint ELSE NoBlock
        next == IF /\ PruningPoint \in SelectedChain(d, g.selectedParent)
                   /\ minRequired + PruningDepth <= g.blueScore
                THEN NextPruningPointAndCandidate(d, g, FALSE, PruningPoint, candidate, suggested).point
                ELSE spPoint
        InDepth(b) == g.blueScore >= Score(d, b) + PruningDepth
        stored == {i \in DOMAIN points : InDepth(points[i])}
    IN  IF g.selectedParent = Genesis THEN Genesis
        ELSE IF InDepth(next) THEN next
        ELSE IF stored = {} THEN Genesis
        ELSE points[Max(stored)]

-----------------------------------------------------------------------------
(* Virtual.                                                                *)

\* The point that the selected chain of the next virtual must contain.
FinalityPointAbove(d, g, pp) ==
    LET fp == FinalityPoint(d, g)
    IN  IF IsAncestorOf(d, fp, pp) THEN pp ELSE fp

\* resolveBlockStatus: the pending chain blocks up to b become valid.
WithValidChain(d, st, b) ==
    LET chain == SelectedChain(d, b)
    IN  [c \in DOMAIN st |-> IF c \in chain /\ st[c] = "Pending" THEN "Valid" ELSE st[c]]

\* isViolatingFinality.
ViolatesFinality(d, b) == FinalityPointAbove(d, virtual.data, PruningPoint) \notin SelectedChain(d, b)

\* consensusStateManager.AddBlock: a block heavier than virtual's selected
\* parent is resolved, unless it violates finality.
StatusAfter(d, st, b) ==
    IF ChooseSelectedParent(d, {b, virtual.data.selectedParent}) = b /\ ~ ViolatesFinality(d, b)
    THEN WithValidChain(d, st, b)
    ELSE st

VirtualOver(d, ps) == [parents |-> ps, data |-> GHOSTDAG(d, ps)]

\* calculateMergeDepthRoot of a block with GHOSTDAG data g: no block, the virtual
\* genesis, close above the pruning point and off its chain; else from the
\* stored root of the selected parent up the chain.
CalculateMergeDepthRoot(d, g) ==
    LET sp == g.selectedParent
        unbounded == \/ g.blueScore < Score(d, PruningPoint) + MergeDepth
                     \/ PruningPoint \notin SelectedChain(d, sp)
    IN  IF g.blueScore < MergeDepth THEN Genesis
        ELSE IF unbounded THEN NoBlock
        ELSE IF sp = Genesis THEN Genesis
        ELSE LET start == IF d.data[sp].root = NoBlock THEN PruningPoint ELSE d.data[sp].root
                 below == {c \in ChainFrom(d, start, sp) : Score(d, c) < g.blueScore - MergeDepth}
             IN  ChooseSelectedParent(d, below \cup {start})

\* BlockWindow: the heaviest blocks merged along the chain of a block with
\* GHOSTDAG data g.
BlockWindow(d, g) ==
    LET datas == {g} \cup {d.data[c] : c \in SelectedChain(d, g.selectedParent) \ {Genesis}}
        merged == UNION {ToSet(GetSortedMergeSet(d, e)) : e \in {e \in datas : e.selectedParent # Genesis}}
    IN  {m \in merged : Cardinality({e \in merged : Less(d, m, e)}) < WindowSize}

\* calculateDaaScoreAndAddedBlocks.
DAAScore(d, g) ==
    (IF g.selectedParent = Genesis THEN 0 ELSE d.data[g.selectedParent].daaScore)
        + Cardinality(ToSet(GetSortedMergeSet(d, g)) \cap BlockWindow(d, g))

\* The data that validation stores with a block.
BlockData(d, ps) ==
    LET g == GHOSTDAG(d, ps)
    IN  [root |-> CalculateMergeDepthRoot(d, g), daaScore |-> DAAScore(d, g)] @@ g

MergesTooDeep(d, g) == BreakingReds(d, g, g.root) # {}

\* A block in context: the pruning point is below one of its parents, they
\* have bodies, and it does not merge too much or, from some score on, too deep.
ValidBlock(d, ps, g) ==
    /\ \E p \in ps : IsAncestorOf(d, PruningPoint, p)
    /\ \A p \in ps : HasData(status, p)
    /\ Len(g.mergeSetBlues) + Len(g.mergeSetReds) <= MergeSetSizeLimit
    /\ g.daaScore >= EnforceMergeDepthFrom => ~ MergesTooDeep(d, g)

\* pickVirtualParents above the pruning point.
VirtualParentsOver(d, st, ts) ==
    LET picked == PickCandidates(d, st, ts)
        g == GHOSTDAG(d, picked)
    IN  WithoutBreaking(d, picked, BreakingReds(d, g, CalculateMergeDepthRoot(d, g)))

NextBlock == Cardinality(Known(dag))

\* The bound on blocks off the heaviest chain.
FewSideBlocks(d, ts) == Cardinality(Known(d) \ SelectedChain(d, ChooseSelectedParent(d, ts))) <= MaxSideBlocks

\* The bound on forks.  An old tip may be merged late.
ForksAbove(d, ps) ==
    \A p \in ps \ tips : Score(d, ChooseSelectedParent(d, tips)) - Score(d, p) <= MaxForkDepth

\* The staged pruning point is committed with the rest, and the flag is read.
CommitPruningPoint(s) ==
    /\ candidate' = s.candidate /\ points' = s.points /\ updating' = s.updating
    /\ op' = IF s.updating THEN Updating(Idle) ELSE Idle

\* validateAndInsertBlock up to the commit of its staging area.
InsertBlock(ps) ==
    /\ ~ virtualNotUpdated
    /\ \E g \in {BlockData(dag, ps)} :
        /\ ValidBlock(dag, ps, g)
        /\ \E d \in {WithBlock(dag, NextBlock, ps, g)}, ts \in {(tips \ ps) \cup {NextBlock}} :
            /\ FewSideBlocks(d, ts)
            /\ \E st \in {StatusAfter(d, (NextBlock :> "Pending") @@ status, NextBlock)} :
               \E v \in {VirtualOver(d, VirtualParentsOver(d, st, ts))} :
               \E s \in {ByVirtual(d, v)} :
                    IF s.failed THEN op' = Failed /\ UNCHANGED db
                    ELSE /\ dag' = d /\ status' = st /\ tips' = ts /\ virtual' = v
                         /\ CommitPruningPoint(s)
                         /\ UNCHANGED utxoSet
    /\ UNCHANGED <<virtualNotUpdated, history>>

\* With updateVirtual = false, as during IBD.
InsertDeferred(ps) ==
    /\ NextBlock >= DeferFrom
    /\ Cardinality(Known(dag) \ PastOf(dag, virtual.parents)) < MaxDeferred
    /\ \E g \in {BlockData(dag, ps)} :
        /\ ValidBlock(dag, ps, g)
        /\ dag' = WithBlock(dag, NextBlock, ps, g)
    /\ status' = (NextBlock :> "Pending") @@ status
    /\ tips' = (tips \ ps) \cup {NextBlock}
    /\ FewSideBlocks(dag', tips')
    /\ virtualNotUpdated' = TRUE
    /\ UNCHANGED <<virtual, points, candidate, updating, utxoSet, op, history>>

\* findNextPendingTip chooses the heaviest of these.
PendingTips == {t \in tips : ~ ViolatesFinality(dag, t) /\ HasData(status, t)}

\* ResolveVirtual: up to the commit of the statuses of a chunk, which ends at a
\* block that wins the selected parent.
ResolveVirtual ==
    /\ op = Idle /\ virtualNotUpdated
    /\ IF PendingTips = {} THEN virtualNotUpdated' = FALSE /\ UNCHANGED <<status, op>>
       ELSE \E tip \in {ChooseSelectedParent(dag, PendingTips)} :
            LET pending == {c \in SelectedChain(dag, tip) : status[c] = "Pending"}
                ends == {c \in pending : /\ Cardinality(pending \cap SelectedChain(dag, c)) >= ResolveChunk
                                         /\ ChooseSelectedParent(dag, {c, virtual.data.selectedParent}) = c}
            IN  IF tip = virtual.data.selectedParent /\ status[tip] = "Valid"
                THEN virtualNotUpdated' = FALSE /\ UNCHANGED <<status, op>>
                ELSE IF Cardinality(pending) > ResolveChunk /\ ends = {}
                THEN op' = Failed /\ UNCHANGED <<status, virtualNotUpdated>>
                ELSE \E point \in {IF Cardinality(pending) > ResolveChunk
                                    THEN CHOOSE c \in ends : ends \cap SelectedChain(dag, c) = {c}
                                    ELSE tip} :
                     /\ status' = WithValidChain(dag, status, point)
                     /\ op' = Resolving(point, tip)
                     /\ UNCHANGED virtualNotUpdated
    /\ UNCHANGED <<dag, tips, virtual, points, candidate, updating, utxoSet, history>>

\* The commit of virtual over the end of the chunk, or over all lighter tips.
UpdateVirtual ==
    /\ op.kind = "resolve"
    /\ LET done == op.point = op.tip
           lower == {t \in tips : t = op.tip \/ Less(dag, t, op.tip)}
       IN  /\ virtual' = VirtualOver(dag, IF done THEN VirtualParentsOver(dag, status, lower) ELSE {op.point})
           /\ virtualNotUpdated' = ~ done
    /\ op' = Recomputing
    /\ UNCHANGED <<dag, status, tips, points, candidate, updating, utxoSet, history>>

\* UpdatePruningPointByVirtual and its commit, after ResolveVirtual and at
\* start-up.
RecomputePruningPoint ==
    /\ op = Recomputing
    /\ \E s \in {ByVirtual(dag, virtual)} :
           IF s.failed THEN op' = Failed /\ UNCHANGED <<points, candidate, updating>>
           ELSE CommitPruningPoint(s)
    /\ UNCHANGED <<dag, status, tips, virtual, utxoSet, virtualNotUpdated, history>>

-----------------------------------------------------------------------------
(* updatePruningPoint.                                                     *)

\* The diff from the acceptance data of the chain blocks between the two last
\* pruning points, or else from their UTXO diffs.
DiffBetweenPruningPoints(p, q) ==
    LET between == ChainFrom(dag, p, q)
    IN  [found |-> \/ \A c \in between \ {p} : HasData(status, c)
                   \/ \A c \in between \ {q} : HasData(status, c),
         toRemove |-> PastUTXO(dag, p) \ PastUTXO(dag, q),
         toAdd |-> PastUTXO(dag, q) \ PastUTXO(dag, p)]

StartUpdate ==
    /\ op.kind = "update"
    /\ \E diff \in {DiffBetweenPruningPoints(points[Len(points) - 1], PruningPoint)} :
           op' = IF diff.found THEN Writing(diff, op.next) ELSE Failed
    /\ UNCHANGED <<db, virtualNotUpdated, history>>

\* UpdatePruningPointUTXOSet that puts before it deletes.
WriteEntry_AddsFirst ==
    /\ op.kind = "write"
    /\ IF op.toAdd # {}
       THEN \E o \in op.toAdd : /\ utxoSet' = utxoSet \cup {o}
                                /\ op' = [op EXCEPT !.toAdd = @ \ {o}]
       ELSE \E o \in op.toRemove : /\ utxoSet' = utxoSet \ {o}
                                   /\ op' = [op EXCEPT !.toRemove = @ \ {o}]
    /\ UNCHANGED <<dag, status, tips, virtual, points, candidate, updating, virtualNotUpdated, history>>

\* UpdatePruningPointUTXOSet: one Delete or one Put.
WriteEntry ==
    /\ op.kind = "write"
    /\ IF op.toRemove # {}
       THEN \E o \in op.toRemove : /\ utxoSet' = utxoSet \ {o}
                                   /\ op' = [op EXCEPT !.toRemove = @ \ {o}]
       ELSE \E o \in op.toAdd : /\ utxoSet' = utxoSet \cup {o}
                                /\ op' = [op EXCEPT !.toAdd = @ \ {o}]
    /\ UNCHANGED <<dag, status, tips, virtual, points, candidate, updating, virtualNotUpdated, history>>

Anticone(b) == {c \in PastOf(dag, virtual.parents) : InAnticone(dag, b, c)}

\* calculateBlocksToKeep.
BlocksToKeep(pp) ==
    LET bs == Anticone(pp) \cup {pp}
    IN  bs \cup UNION {BlockWindow(dag, dag.data[b]) : b \in bs \ {Genesis}}

\* pruneTips.
PrunedTips(pp) ==
    {t \in tips : ~ IsAncestorOf(dag, pp, t) /\ \A p \in virtual.parents : ~ IsAncestorOf(dag, t, p)}

\* deleteBlocksDownward that does not go below the blocks it keeps.
Visit_StopsAtKept(queue, visited, keep) ==
    LET first == {b \in queue : b \notin keep /\ HasData(status, b)}
    IN  queue \cup UNION {dag.parents[b] : b \in first}

\* deleteBlocksDownward: the blocks that its queue visits.
RECURSIVE Visit(_, _, _)
Visit(queue, visited, keep) ==
    IF queue \subseteq visited THEN visited
    ELSE LET expanded == {b \in queue \ visited : b \in keep \/ HasData(status, b)}
         IN  Visit(UNION {dag.parents[b] : b \in expanded}, visited \cup queue, keep)

DeletedBlocks(pp, keep) == Visit(PrunedTips(pp) \cup dag.parents[pp], {}, keep) \ keep

\* A deletion that is not due yet is tried again at once.
DeletePastBlocks_Retries ==
    /\ op.kind = "write" /\ op.toRemove = {} /\ op.toAdd = {}
    /\ \/ \E keep \in {BlocksToKeep(PruningPoint)} : \E deleted \in {DeletedBlocks(PruningPoint, keep)} :
              /\ status' = [b \in DOMAIN status |-> IF b \in deleted THEN "HeaderOnly" ELSE status[b]]
              /\ tips' = tips \ PrunedTips(PruningPoint)
              /\ op' = Finishing(FALSE, op.next)
       \/ /\ MayDefer
          /\ op' = Updating(op.next)
          /\ UNCHANGED <<status, tips>>
    /\ UNCHANGED <<dag, virtual, points, candidate, updating, utxoSet, virtualNotUpdated, history>>

\* The deletions are committed, or left to a later pruning point.
DeletePastBlocks ==
    /\ op.kind = "write" /\ op.toRemove = {} /\ op.toAdd = {}
    /\ \/ \E keep \in {BlocksToKeep(PruningPoint)} : \E deleted \in {DeletedBlocks(PruningPoint, keep)} :
              /\ status' = [b \in DOMAIN status |-> IF b \in deleted THEN "HeaderOnly" ELSE status[b]]
              /\ tips' = tips \ PrunedTips(PruningPoint)
              /\ op' = Finishing(FALSE, op.next)
       \/ /\ MayDefer
          /\ op' = Finishing(TRUE, op.next)
          /\ UNCHANGED <<status, tips>>
    /\ UNCHANGED <<dag, virtual, points, candidate, updating, utxoSet, virtualNotUpdated, history>>

\* The flag is left for the start-up to remove.
FinishUpdate_KeepsFlag ==
    /\ op.kind = "finish"
    /\ op' = op.next
    /\ interrupted' = "nothing"
    /\ UNCHANGED <<db, virtualNotUpdated, crashes>>

\* FinishUpdatingPruningPointUTXOSet.
FinishUpdate ==
    /\ op.kind = "finish"
    /\ updating' = FALSE
    /\ op' = op.next
    /\ interrupted' = "nothing"
    /\ UNCHANGED <<dag, status, tips, virtual, points, candidate, utxoSet, virtualNotUpdated, crashes>>

-----------------------------------------------------------------------------
(* Crash and start-up.                                                     *)

\* In a call, or when one has failed: between two calls nothing is lost.
Crash ==
    /\ op.kind \notin {"idle", "down"} /\ crashes < MaxCrashes
    /\ op' = Down
    /\ interrupted' = CASE op.kind = "resolve" -> "resolve"
                        [] op.kind = "finish" /\ ~ op.deferred -> "deletion"
                        [] OTHER -> interrupted
    /\ crashes' = crashes + 1
    /\ UNCHANGED <<db, virtualNotUpdated>>

\* NewConsensus: UpdatePruningPointIfRequired, then UpdatePruningPointByVirtual.
Restart ==
    /\ op.kind = "down"
    /\ op' = IF updating THEN Updating(Recomputing) ELSE Recomputing
    /\ virtualNotUpdated' = TRUE
    /\ UNCHANGED <<db, history>>

Continue == UpdateVirtual \/ StartUpdate \/ WriteEntry \/ DeletePastBlocks \/ FinishUpdate \/ RecomputePruningPoint

Init ==
    /\ dag = InitDag
    /\ status = Genesis :> "Valid"
    /\ tips = {Genesis}
    /\ virtual = VirtualOver(InitDag, {Genesis})
    /\ points = <<Genesis>>
    /\ candidate = Genesis
    /\ updating = FALSE
    /\ utxoSet = PastUTXO(InitDag, Genesis)
    /\ virtualNotUpdated = FALSE
    /\ op = Idle
    /\ interrupted = "nothing"
    /\ crashes = 0

Next ==
    \/ /\ op = Idle /\ NextBlock \in Blocks
       /\ \E ps \in {qs \in LegalParents(dag) : ForksAbove(dag, qs)} : InsertBlock(ps) \/ InsertDeferred(ps)
    \/ ResolveVirtual
    \/ Continue
    \/ Crash
    \/ Restart

Spec == Init /\ [][Next]_vars

\* A call runs to its end, a node that stopped is started again, and
\* ResolveVirtual is called until virtual is up to date: weak fairness of the
\* three, with ENABLED written out.
Fairness ==
    /\ []<>(op.kind \in {"idle", "failed", "down"}) \/ []<><<Continue>>_vars
    /\ []<>(op.kind # "down") \/ []<><<Restart>>_vars
    /\ []<>(op # Idle \/ ~ virtualNotUpdated) \/ []<><<ResolveVirtual>>_vars

FairSpec == Spec /\ Fairness

-----------------------------------------------------------------------------
(* Properties.                                                             *)

\* No block is refused and no start-up fails: the pruning point never advances
\* "by more than one finality interval at once", the candidate stays on virtual's
\* selected chain, and the data between the last two pruning points is there
\* whenever their diff is computed.  Two crashes break this, and no other does.
\* One falls between the commit of the deletions and the removal of the flag:
\* the window that the deletions keep is shorter than a finality interval, so
\* the start-up does not find what it needs to compute the diff again.  The
\* other falls between the two commits of ResolveVirtual: the next chunk starts
\* above the blocks that are already resolved, and virtual moves too far.
NeverFails == op.kind = "failed" => interrupted # "nothing"

\* Every pruning point is the lowest block of its finality interval on virtual's
\* selected chain, in the order of the intervals: reorganizations, restarts and
\* chunks of ResolveVirtual neither skip the first block of an interval nor
\* leave a pruning point off the chain.
PruningPointsStartIntervals ==
    LET chain == SelectedChain(dag, candidate)
    IN  /\ candidate \in SelectedChain(dag, virtual.data.selectedParent)
        /\ ToSet(points) \subseteq chain
        /\ \A i \in DOMAIN points : \A c \in chain \ {points[i]} :
                FinalityScore(dag, c) = FinalityScore(dag, points[i]) => Score(dag, c) > Score(dag, points[i])
        /\ \A i \in DOMAIN points \ {1} : FinalityScore(dag, points[i - 1]) < FinalityScore(dag, points[i])

\* The blocks that merge too deep, accepted because their DAA score is low.
TooDeep == {b \in Known(dag) \ {Genesis} : MergesTooDeep(dag, dag.data[b])}

\* "By the Prunality proof, the pruning point anticone is a closed set (i.e.,
\* guaranteed not to change), so we can safely cache it"
\* (PruningPointAndItsAnticone): no block, reorganization or deletion changes it
\* while the pruning point stays, as long as every accepted block keeps to the
\* bounded merge depth, although blocks close above the pruning point are not
\* held to it.  Below the DAA score from which it is enforced nothing is promised.
AnticoneIsClosed ==
    [][points' = points => Anticone(PruningPoint)' = Anticone(PruningPoint) \/ TooDeep' # {}]_vars

\* A block that a peer may still ask for, or that virtual may still merge (the
\* future of the pruning point and its anticone in virtual's past), keeps its
\* data, although deleteBlocksDownward starts from tips too.  And a deletion
\* leaves no data in the past of the pruning point but what
\* calculateBlocksToKeep names: what earlier deletions kept or deferred is
\* reached, although the walk stops at blocks that are already pruned.
DeletionIsExact ==
    /\ Anticone(PruningPoint) \cup {b \in Known(dag) : IsAncestorOf(dag, PruningPoint, b)}
           \subseteq {b \in Known(dag) : HasData(status, b)}
    /\ op.kind = "finish" /\ ~ op.deferred =>
           {b \in dag.past[PruningPoint] : HasData(status, b)} \subseteq BlocksToKeep(PruningPoint)

\* The pruning point from the view of a block alone: the lowest chain block of
\* the last finality interval that is in pruning depth.
RefPruningPoint(d, g) ==
    LET deep == {c \in SelectedChain(d, g.selectedParent) : g.blueScore >= Score(d, c) + PruningDepth}
        most == {c \in deep : \A e \in deep : FinalityScore(d, e) <= FinalityScore(d, c)}
    IN  IF deep = {} THEN Genesis ELSE CHOOSE c \in most : \A e \in most : Score(d, c) <= Score(d, e)

RefOfSelectedParent(d, g) ==
    IF g.selectedParent = Genesis THEN Genesis ELSE RefPruningPoint(d, d.data[g.selectedParent])

\* The pruning point that a node writes into the header of its block template
\* follows from the DAG: it does not depend on the node's own pruning point and
\* candidate, which lag behind or are ahead after a reorganization or a crash.
HeaderPruningPointIsCommon ==
    op = Idle => ExpectedHeaderPruningPoint(dag, virtual.data, RefOfSelectedParent(dag, virtual.data))
                     = RefPruningPoint(dag, virtual.data)

\* An update of the pruning point UTXO set comes to its end, also when a crash
\* cuts it short, unless the crash falls between the commit of the deletions and
\* the removal of the flag.
UpdateCompletes == updating ~> ~ updating \/ interrupted = "deletion"

-----------------------------------------------------------------------------
(* The update implements PruningUTXOSet.                                   *)

PreviousPoint == points[IF Len(points) > 1 THEN Len(points) - 1 ELSE 1]

Update == INSTANCE PruningUTXOSet WITH
              Outputs   <- Blocks,
              oldSet    <- PastUTXO(dag, PreviousPoint),
              newSet    <- PastUTXO(dag, PruningPoint),
              storedSet <- utxoSet,
              writing   <- op.kind \in {"write", "finish"},
              toRemove  <- IF op.kind = "write" THEN op.toRemove ELSE {},
              toAdd     <- IF op.kind = "write" THEN op.toAdd ELSE {}

\* Every step, the commits, the single writes, the crashes and the start-up, is
\* one that PruningUTXOSet allows, so what is proved of it holds of the store:
\* the set is the past UTXO set of the pruning point whenever the flag is clear,
\* and the UpdatePruningPointIfRequired inside savePruningPoint, which runs before
\* the new pruning point is committed, never rewrites the set for the old one.
ImplementsPruningUTXOSet == Update!UpdateSpec
=============================================================================
