----------------------------- MODULE BlockRelay -----------------------------
(***************************************************************************)
(* Block relay: one HandleRelayInvs flow per peer, the orphan pool and the *)
(* set of requested blocks that the flows share, and the IBD flow that a   *)
(* relay flow hands a block to when its ancestors are too far away.        *)
(*                                                                         *)
(* The DAG is a constant: every block is valid and every connected peer    *)
(* has all of it.  The node starts in the middle of it, past its first     *)
(* IBD, so the special cases of a node that has only genesis are left out. *)
(* A call to consensus may meet missing data (database.IsNotFoundError), or *)
(* fail after the block is committed; every other failure of the database  *)
(* is left out.                                                            *)
(* A message on a route is a kind and a block; a locator is named by the   *)
(* block it was asked for.  Consensus is the set of blocks that have a     *)
(* body (what it does with them is the subject of ConsensusState), and IBD *)
(* is the delivery of the past of a tip in topological order (how it gets  *)
(* there is the subject of IBD).                                           *)
(***************************************************************************)
EXTENDS Integers, Sequences, FiniteSets

CONSTANTS Peers,                 \* the peers, each with its flows
          Blocks,                \* block numbers, 0 is genesis
          Parents,               \* the parents of each block
          Past,                  \* the ancestors of each block
          Height,                \* blue score and blue work of each block
          Relayed,               \* the blocks that peers announce
          InitialBodies,         \* what the node has when it starts
          OrphanResolutionRange, \* length of a block locator
          MaxOrphans,            \* bound of the orphan pool
          MergeDepth,            \* distance of virtual's merge depth root
          SyncSlack,             \* distance at which a node is nearly synced
          NoPeer,                \* ibdPeer = nil
          Incomplete,            \* the blocks whose insertion may miss data
          MaxInvs,               \* bound: announcements
          MaxFaults,             \* bound: connections lost, locators timed out, calls
                                 \* that fail (but for those that queue a block again)
          FailureCost            \* what a failed call uses up of that bound

VARIABLES bodies,     \* blocks the consensus has with their bodies
          orphans,    \* FlowContext.orphans
          requested,  \* FlowContext.sharedRequestedBlocks
          ibdPeer,    \* FlowContext.ibdPeer
          up,         \* FALSE after a flow has panicked
          connected,  \* peers whose connection is open
          route,      \* incoming route of each relay flow
          asked,      \* requests that each peer has not answered yet
          pc,         \* what each relay flow is doing
          current,    \* the inv it is working on
          invsQueue,  \* the invs it has read and not handled
          ibdPc,      \* what each IBD flow is doing
          ibdBlock,   \* the block that triggered it
          ibdGoal,    \* the blocks it syncs
          lastInv,    \* the last block each peer announced
          count,      \* announcements, and faults by their kind
          lost,       \* blocks given up, in one of the ways BlocksArrive names,
                      \* since they or a descendant were last announced
          stuck,      \* orphans that have their parents and that no flow will take
          contested   \* blocks whose request was removed while a flow waited

net == <<connected, route, asked>>
flow == <<pc, current, invsQueue>>
ibd == <<ibdPc, ibdBlock, ibdGoal>>
orphanPool == <<orphans, stuck>>
requests == <<requested, contested>>
vars == <<bodies, orphanPool, requests, ibdPeer, up, net, flow, ibd, lastInv, count, lost>>

(***************************************************************************)
(* The DAG.                                                                *)
(***************************************************************************)

Heaviest(S) ==
    CHOOSE b \in S : \A a \in S \ {b} : \/ Height[b] > Height[a]
                                        \/ Height[b] = Height[a] /\ b > a

ASSUME RelayAssumption ==
    /\ 0 \in Blocks /\ Blocks \subseteq Nat
    /\ \A b \in Blocks : /\ Parents[b] \subseteq Blocks
                         /\ Past[b] = Parents[b] \union UNION {Past[a] : a \in Parents[b]}
                         /\ \A a \in Parents[b] : a < b /\ Height[a] < Height[b]
    /\ InitialBodies \subseteq Blocks /\ Relayed \subseteq Blocks
    /\ NoPeer \notin Peers
    /\ IsFiniteSet(Blocks) /\ Heaviest(Blocks) \in Blocks /\ MaxOrphans \in Nat

SelectedChain[b \in Blocks] ==
    {b} \union IF Parents[b] = {} THEN {} ELSE SelectedChain[Heaviest(Parents[b])]

LowestChainBlockAboveOrEqualToBlueScore(b, score) ==
    CHOOSE c \in SelectedChain[b] :
        /\ Height[c] >= score
        /\ \A d \in SelectedChain[b] : Height[d] >= score => Height[c] <= Height[d]

\* What a peer answers to a locator request: the block and chain ancestors at
\* doubling distances, at most OrphanResolutionRange of them.
Locator[b \in Blocks] ==
    LET entry[n \in 1 .. OrphanResolutionRange] ==
            IF n = 1 THEN b
            ELSE LowestChainBlockAboveOrEqualToBlueScore(
                     entry[n - 1], Height[entry[n - 1]] - 2 ^ (n - 2))
    IN  {entry[n] : n \in 1 .. OrphanResolutionRange}

\* The selected tip's timestamp is recent: it is near the newest block there is.
IsNearlySynced == Height[Heaviest(bodies)] + SyncSlack >= Height[Heaviest(Blocks)]

\* By its blue work, the block is not in the future of virtual's merge depth root.
IsIrrelevant(b) == Height[b] <= Height[Heaviest(bodies)] - MergeDepth

HasParents(b) == Parents[b] \subseteq bodies

\* Orphans of the pool that have their parents, one of them in S.
Ready(S, pool, known) == {o \in pool : Parents[o] \intersect S # {} /\ Parents[o] \subseteq known}

(***************************************************************************)
(* The orphan pool.                                                        *)
(***************************************************************************)

\* AddOrphan with its eviction of a random orphan: the pools it may leave.
PoolsAfterAdding(b) ==
    LET pool == orphans \union {b}
    IN  IF Cardinality(pool) > MaxOrphans THEN {pool \ {e} : e \in pool} ELSE {pool}

UnorphanBlocks_ChildrenOnly(root, pool, known) ==
    {root} \union {o \in pool : root \in Parents[o] /\ Parents[o] \subseteq known}

\* UnorphanBlocks: what its queue takes, beginning with root itself, which is the least set
\* that the queue does not grow.  An orphan is taken when one of its parents has just been
\* inserted and none is missing; one that the consensus has already is removed from the
\* pool, and its children are not queued.
UnorphanBlocks(root, pool, known) ==
    LET blocks == {root} \union pool
        next(T) == {o \in pool : /\ Parents[o] \intersect ({root} \union (T \ known)) # {}
                                 /\ Parents[o] \subseteq known \union T}
    IN  {b \in blocks : \A T \in SUBSET blocks : root \in T /\ next(T) \subseteq T => b \in T}

\* UnorphanBlocks that returns an error: it has removed these orphans from the pool and
\* inserted them, but for one at most whose insertion failed; the rest of the queue is
\* dropped.
UnorphanFailures(root, pool, known) ==
    LET taken == UnorphanBlocks(root, pool, known) \ {root}
    IN  {f \in [inserted : SUBSET taken, removed : SUBSET taken] :
            /\ f.inserted \subseteq f.removed
            /\ Cardinality(f.removed \ (f.inserted \union known)) <= 1
            /\ \A o \in f.removed : Parents[o] \subseteq known \union f.inserted}

\* GetOrphanRoots walks down from the orphan through orphans; what it meets that is no
\* orphan is a root.  It returns known blocks too (they are dropped when they are read
\* from the queue).
GetOrphanRoots(b, pool) ==
    LET met == {b} \union UNION {Parents[o] : o \in pool}
        walked == {T \in SUBSET met : b \in T /\ \A o \in T \intersect pool : Parents[o] \subseteq T}
    IN  {a \in met \ pool : b \in pool /\ \A T \in walked : a \in T}

InvBlocks(s) == {s[i].block : i \in DOMAIN s}

\* The sequences of all elements of S, each once.
Orders(S) == {s \in [1 .. Cardinality(S) -> S] : {s[i] : i \in DOMAIN s} = S}

AddOrphanRootsToQueue_None(b, pool, queue) == {queue}

\* The queues AddOrphanRootsToQueue may leave: the order of the roots is that of a walk.
AddOrphanRootsToQueue(b, pool, queue) ==
    {[i \in DOMAIN s |-> [block |-> s[i], isOrphanRoot |-> TRUE]] \o queue :
        s \in Orders(GetOrphanRoots(b, pool) \ InvBlocks(queue))}

(***************************************************************************)
(* Messages.                                                               *)
(***************************************************************************)

Msg(kind, b) == [kind |-> kind, block |-> b]

NoInv == [block |-> 0, isOrphanRoot |-> FALSE]

Init ==
    /\ bodies = InitialBodies
    /\ orphans = {} /\ requested = {} /\ ibdPeer = NoPeer /\ up = TRUE
    /\ connected = Peers
    /\ route = [p \in Peers |-> <<>>]
    /\ asked = [p \in Peers |-> {}]
    /\ pc = [p \in Peers |-> "idle"]
    /\ current = [p \in Peers |-> NoInv]
    /\ invsQueue = [p \in Peers |-> <<>>]
    /\ ibdPc = [p \in Peers |-> "idle"]
    /\ ibdBlock = [p \in Peers |-> 0]
    /\ ibdGoal = [p \in Peers |-> {}]
    /\ lastInv = [p \in Peers |-> 0]
    /\ count = [invs |-> 0, disconnects |-> 0, timeouts |-> 0, missing |-> 0, errors |-> 0]
    /\ lost = {} /\ stuck = {} /\ contested = {}

\* disconnects, locator timeouts, missing data, and errors that are not about missing data.
Fault(kind) ==
    /\ LET cost == IF kind \in {"missing", "errors"} THEN FailureCost ELSE 1
       IN  count.disconnects + count.timeouts + FailureCost * (count.missing + count.errors) + cost
               <= MaxFaults
    /\ count' = [count EXCEPT ![kind] = @ + 1]

\* A peer announces blocks in topological order, not necessarily all of them.  The
\* route of a flow that ended on missing data is open, and nobody reads it.
Announce(p) ==
    /\ up /\ p \in connected /\ count.invs < MaxInvs
    /\ \E b \in Relayed :
        /\ b >= lastInv[p]
        /\ lastInv' = [lastInv EXCEPT ![p] = b]
        /\ \/ /\ pc[p] # "ended"
              /\ route' = [route EXCEPT ![p] = Append(@, Msg("inv", b))]
              /\ lost' = lost \ (Past[b] \union {b})
           \/ /\ pc[p] = "ended"
              /\ lost' = lost \union {b}
              /\ UNCHANGED route
    /\ count' = [count EXCEPT !.invs = @ + 1]
    /\ UNCHANGED <<bodies, orphanPool, requests, ibdPeer, up, connected, asked, flow, ibd>>

\* Blocks and locators are served by two flows of the peer, so the answers come in
\* any order.
PeerAnswers(p) ==
    /\ up /\ p \in connected
    /\ \E r \in asked[p] :
        /\ asked' = [asked EXCEPT ![p] = @ \ {r}]
        /\ route' = [route EXCEPT ![p] = Append(@, r)]
    /\ UNCHANGED <<bodies, orphanPool, requests, ibdPeer, up, connected, flow, ibd, lastInv,
                   count, lost>>

\* The place of the first message that is not an inv: readMsgBlock and
\* receiveBlockLocator move the invs before it to the queue.
Answer(p) ==
    LET places == {i \in 1 .. Len(route[p]) : route[p][i].kind # "inv"}
    IN  IF places = {} THEN 0 ELSE CHOOSE i \in places : \A j \in places : i <= j

QueueWithInvsBefore(p, i) ==
    invsQueue[p] \o
    [j \in 1 .. i - 1 |-> [block |-> route[p][j].block, isOrphanRoot |-> FALSE]]

RouteAfter_KeepLocator(p, i) ==
    [route EXCEPT ![p] = SubSeq(@, IF @[i].kind = "locator" THEN i ELSE i + 1, Len(@))]

RouteAfter(p, i) == [route EXCEPT ![p] = SubSeq(@, i + 1, Len(@))]

CloseConnection(p) ==
    /\ connected' = connected \ {p}
    /\ route' = [route EXCEPT ![p] = <<>>]
    /\ asked' = [asked EXCEPT ![p] = {}]

\* The remote side closes, or does not answer a block request in time.
Disconnect(p) ==
    /\ up /\ p \in connected
    /\ Fault("disconnects")
    /\ CloseConnection(p)
    /\ lost' = lost \union InvBlocks(route[p])
    /\ UNCHANGED <<bodies, orphanPool, requests, ibdPeer, up, flow, ibd, lastInv>>

(***************************************************************************)
(* The relay flow.                                                         *)
(***************************************************************************)

GoTo(p, label) == pc' = [pc EXCEPT ![p] = label]

SetQueue(p, queue) == invsQueue' = [invsQueue EXCEPT ![p] = queue]

\* The flows that wait for block b.
Waiting(b) == {p \in Peers : pc[p] = "waitBlock" /\ current[p].block = b}

\* The deferred call of requestBlock, whoever added the entry.
RemoveRequest(p) ==
    /\ requested' = requested \ {current[p].block}
    /\ contested' = IF Waiting(current[p].block) = {p} THEN contested \ {current[p].block} ELSE contested

\* One turn of the loop of start, up to the request, with the inv it has read.
HandleInv(p, inv, queue) ==
    LET b == inv.block
        wanted == /\ b \notin bodies \union orphans
                  /\ ibdPeer = NoPeer \/ IsNearlySynced
    IN
    \/ /\ b \in bodies
       /\ SetQueue(p, queue)
       /\ UNCHANGED <<pc, current, requested, asked, lost, count>>
    \/ /\ b \in orphans \ bodies
       /\ \E q \in AddOrphanRootsToQueue(b, orphans, queue) : SetQueue(p, q)
       /\ UNCHANGED <<pc, current, requested, asked, lost, count>>
    \/ /\ b \notin bodies \union orphans /\ ibdPeer # NoPeer /\ ~IsNearlySynced
       /\ SetQueue(p, queue)
       /\ lost' = lost \union {b}
       /\ UNCHANGED <<pc, current, requested, asked, count>>
    \/ /\ wanted /\ b \in requested
       /\ SetQueue(p, queue)
       /\ UNCHANGED <<pc, current, requested, asked, lost, count>>
    \/ /\ wanted /\ b \notin requested /\ p \in connected
       /\ requested' = requested \union {b}
       /\ asked' = [asked EXCEPT ![p] = @ \union {Msg("block", b)}]
       /\ GoTo(p, "waitBlock")
       /\ current' = [current EXCEPT ![p] = inv]
       /\ SetQueue(p, queue)
       /\ UNCHANGED <<lost, count>>
    \/ /\ wanted /\ b \notin requested /\ p \notin connected
       /\ GoTo(p, "ended")
       /\ SetQueue(p, <<>>)
       /\ lost' = lost \union {b} \union InvBlocks(queue)
       /\ UNCHANGED <<current, requested, asked, count>>
    \/ /\ b \notin bodies /\ Fault("missing")       \* GetBlockInfo: the inv is skipped
       /\ SetQueue(p, queue)
       /\ lost' = lost \union {b}
       /\ UNCHANGED <<pc, current, requested, asked>>

\* readInv takes from the queue first, then from the route.
ReadInv(p) ==
    /\ up /\ pc[p] = "idle"
    /\ \E queued \in {invsQueue[p] # <<>>} :
        /\ queued \/ (route[p] # <<>> /\ Head(route[p]).kind = "inv")
        /\ route' = IF queued THEN route ELSE RouteAfter(p, 1)
        /\ HandleInv(p, IF queued THEN Head(invsQueue[p])
                        ELSE [block |-> Head(route[p]).block, isOrphanRoot |-> FALSE],
                     IF queued THEN Tail(invsQueue[p]) ELSE <<>>)
    /\ UNCHANGED <<bodies, orphanPool, contested, ibdPeer, up, connected, ibd, lastInv>>

\* A late locator is met where an inv is expected: a protocol error.
ReadUnexpected(p) ==
    /\ up /\ pc[p] = "idle"
    /\ invsQueue[p] = <<>> /\ route[p] # <<>> /\ Head(route[p]).kind # "inv"
    /\ CloseConnection(p)
    /\ GoTo(p, "ended")
    /\ lost' = lost \union InvBlocks(route[p])
    /\ UNCHANGED <<bodies, orphanPool, requests, ibdPeer, up, current, invsQueue, ibd,
                   lastInv, count>>

\* HandleError panics: what is in memory is gone with the process.
Panic ==
    /\ up' = FALSE
    /\ orphans' = {} /\ stuck' = {} /\ requested' = {} /\ contested' = {} /\ ibdPeer' = NoPeer
    /\ connected' = {}
    /\ route' = [p \in Peers |-> <<>>]
    /\ asked' = [p \in Peers |-> {}]
    /\ pc' = [p \in Peers |-> "idle"]
    /\ current' = [p \in Peers |-> NoInv]
    /\ invsQueue' = [p \in Peers |-> <<>>]
    /\ ibdPc' = [p \in Peers |-> "idle"]
    /\ ibdBlock' = [p \in Peers |-> 0]
    /\ ibdGoal' = [p \in Peers |-> {}]
    /\ lastInv' = [p \in Peers |-> 0]
    /\ lost' = {}

\* HandleError returns without a word when the error is about missing data: the flow is
\* gone and its connection stays open.
EndSilently(p, dropped) ==
    /\ Fault("missing")
    /\ GoTo(p, "ended")
    /\ SetQueue(p, <<>>)
    /\ route' = [route EXCEPT ![p] = <<>>]
    /\ asked' = [asked EXCEPT ![p] = {}]
    /\ lost' = lost \union InvBlocks(route[p]) \union InvBlocks(invsQueue[p]) \union dropped

\* readMsgBlock meets the block, and the deferred call removes the request; it meets a
\* late locator, returns an error that is no protocol error, and HandleError panics.
ReceiveBlock(p) ==
    /\ up /\ pc[p] = "waitBlock"
    /\ \E i \in {Answer(p)} :
        /\ i # 0
        /\ \/ /\ route[p][i].kind = "block"
              /\ RemoveRequest(p)
              /\ GoTo(p, "process")
              /\ SetQueue(p, QueueWithInvsBefore(p, i))
              /\ route' = RouteAfter(p, i)
              /\ UNCHANGED <<bodies, orphanPool, ibdPeer, up, connected, asked, current, ibd,
                             lastInv, count, lost>>
           \/ /\ route[p][i].kind = "locator"
              /\ Panic
              /\ UNCHANGED <<bodies, count>>

IsRelevant(inv) == inv.isOrphanRoot \/ ~IsIrrelevant(inv.block)

\* The merge depth heuristic, ValidateAndInsertBlock, and processOrphan up to the
\* locator request.
ProcessBlock(p) ==
    LET b == current[p].block
        relevant == IsRelevant(current[p])
        orphaned == relevant /\ b \notin bodies /\ ~HasParents(b)
    IN
    /\ up /\ pc[p] = "process"
    /\ \/ /\ ~relevant
          /\ GoTo(p, "idle")
          /\ lost' = lost \union {b}
          /\ UNCHANGED <<bodies, asked>>
       \/ /\ relevant /\ b \in bodies
          /\ GoTo(p, "idle")
          /\ UNCHANGED <<bodies, asked, lost>>
       \/ /\ relevant /\ b \notin bodies /\ HasParents(b)
          /\ bodies' = bodies \union {b}
          /\ GoTo(p, "onNewBlock")
          /\ UNCHANGED <<asked, lost>>
       \/ /\ orphaned /\ b \in orphans
          /\ GoTo(p, "idle")
          /\ UNCHANGED <<bodies, asked, lost>>
       \/ /\ orphaned /\ b \notin orphans /\ p \in connected
          /\ asked' = [asked EXCEPT ![p] = @ \union {Msg("locator", b)}]
          /\ GoTo(p, "waitLocator")
          /\ UNCHANGED <<bodies, lost>>
       \/ /\ orphaned /\ b \notin orphans /\ p \notin connected
          /\ GoTo(p, "idle")
          /\ lost' = lost \union {b}
          /\ UNCHANGED <<bodies, asked>>
    /\ UNCHANGED <<orphanPool, requests, ibdPeer, up, connected, route, current, invsQueue,
                   ibd, lastInv, count>>

\* What a failed ValidateAndInsertBlock leaves: nothing, or the block with an error that
\* came after the commit; OnNewBlock is not called.
FailedInsertion(b) ==
    /\ b \notin bodies
    /\ \/ UNCHANGED <<bodies, orphanPool>>
       \/ /\ HasParents(b)
          /\ bodies' = bodies \union {b}
          /\ stuck' = stuck \union Ready({b}, orphans, bodies')
          /\ UNCHANGED orphans

\* ValidateAndInsertBlock does not find data it needs, and addToRelayInv puts the inv
\* back, as that of no orphan root, and removes the request that another flow may have
\* made for the block since.  There is no bound on the retries.
AddToRelayInv(p) ==
    LET b == current[p].block IN
    /\ up /\ pc[p] = "process" /\ IsRelevant(current[p]) /\ b \in Incomplete
    /\ FailedInsertion(b)
    /\ requested' = requested \ {b}
    /\ contested' = contested \union {c \in {b} : Waiting(c) # {}}
    /\ SetQueue(p, <<[block |-> b, isOrphanRoot |-> FALSE]>> \o invsQueue[p])
    /\ GoTo(p, "idle")
    /\ UNCHANGED <<ibdPeer, up, net, current, ibd, lastInv, count, lost>>

\* GetVirtualInfo does not find virtual, before the insertion or after it, or the
\* insertion fails in another way: the block is skipped.
SkipBlock(p) ==
    LET b == current[p].block IN
    /\ up /\ pc[p] = "process" /\ IsRelevant(current[p])
    /\ Fault("missing")
    /\ FailedInsertion(b)
    /\ lost' = lost \union ({b} \ bodies')
    /\ GoTo(p, "idle")
    /\ UNCHANGED <<requests, ibdPeer, up, net, current, invsQueue, ibd, lastInv>>

\* Missing data where start returns the error: between an inv and its request, or in the
\* merge depth heuristic.
EndOnMissingData(p) ==
    /\ up
    /\ \/ /\ pc[p] = "idle" /\ InvBlocks(invsQueue[p]) \union InvBlocks(route[p]) # {}
          /\ EndSilently(p, {})
       \/ /\ pc[p] = "process" /\ ~current[p].isOrphanRoot
          /\ EndSilently(p, {current[p].block})
    /\ UNCHANGED <<bodies, orphanPool, requests, ibdPeer, up, connected, current, ibd, lastInv>>

\* OnNewBlock, with the orphan pool locked throughout.
OnNewBlock(p) ==
    /\ up /\ pc[p] = "onNewBlock"
    /\ \E taken \in {UnorphanBlocks(current[p].block, orphans, bodies)} :
        /\ bodies' = bodies \union taken
        /\ orphans' = orphans \ (taken \ {current[p].block})
    /\ stuck' = stuck \intersect orphans'
    /\ GoTo(p, "idle")
    /\ UNCHANGED <<requests, ibdPeer, up, net, current, invsQueue, ibd, lastInv, count,
                   lost>>

\* The orphan pool after an OnNewBlock of b that fails.
LeaveOrphans(b, f) ==
    /\ orphans' = orphans \ f.removed
    /\ stuck' = (stuck \intersect orphans') \union Ready({b} \union f.inserted, orphans', bodies')

\* What start does after the insertion fails, up to the end of OnNewBlock.
OnNewBlockFails(p) ==
    LET b == current[p].block IN
    /\ up /\ pc[p] = "onNewBlock"
    /\ \E f \in UnorphanFailures(b, orphans, bodies) :
        /\ bodies' = bodies \union f.inserted
        /\ \/ /\ EndSilently(p, f.removed \ bodies')
              /\ LeaveOrphans(b, f)
              /\ UNCHANGED <<requests, ibdPeer, up, connected, current, ibd, lastInv>>
           \/ Fault("errors") /\ Panic

\* The rest of processOrphan, once there is a locator: the block becomes an orphan, or
\* goes to the IBD flow if that waits for one.
ReceiveLocator(p) ==
    LET b == current[p].block IN
    /\ up /\ pc[p] = "waitLocator"
    /\ GoTo(p, "idle")
    /\ \E i \in {Answer(p)} :
        /\ i # 0
        /\ route' = RouteAfter(p, i)
        /\ \/ /\ Locator[route[p][i].block] \intersect bodies # {}
              /\ \E pool \in PoolsAfterAdding(b) :
                    /\ orphans' = pool
                    /\ \E q \in AddOrphanRootsToQueue(b, pool, QueueWithInvsBefore(p, i)) :
                        SetQueue(p, q)
                    /\ lost' = lost \union ((orphans \union {b}) \ pool)
                    /\ stuck' = (stuck \union {o \in {b} : HasParents(o)}) \intersect pool
              /\ UNCHANGED <<ibd, count>>
           \/ /\ Locator[route[p][i].block] \intersect bodies = {}
              /\ SetQueue(p, QueueWithInvsBefore(p, i))
              /\ \/ /\ ibdPc[p] = "idle"
                    /\ ibdPc' = [ibdPc EXCEPT ![p] = "requested"]
                    /\ ibdBlock' = [ibdBlock EXCEPT ![p] = b]
                    /\ UNCHANGED <<ibdGoal, lost>>
                 \/ /\ ibdPc[p] # "idle"
                    /\ lost' = lost \union {b}
                    /\ UNCHANGED ibd
              /\ UNCHANGED <<orphanPool, count>>
           \/ /\ Fault("missing")
              /\ SetQueue(p, QueueWithInvsBefore(p, i))
              /\ lost' = lost \union {b}
              /\ UNCHANGED <<orphanPool, ibd>>
    /\ UNCHANGED <<bodies, requests, ibdPeer, up, connected, asked, current, lastInv>>

\* The locator cannot come, or does not come in time: the error is logged and the flow
\* goes on; a peer that is connected still owes the answer.
LocatorFails(p) ==
    /\ up /\ pc[p] = "waitLocator"
    /\ \/ p \notin connected /\ UNCHANGED count
       \/ p \in connected /\ Fault("timeouts")
    /\ GoTo(p, "idle")
    /\ lost' = lost \union {current[p].block}
    /\ UNCHANGED <<bodies, orphanPool, requests, ibdPeer, up, net, current, invsQueue, ibd,
                   lastInv>>

EndFlow_KeepRequest(p) ==
    /\ up /\ p \notin connected
    /\ (pc[p] = "idle" /\ invsQueue[p] = <<>>) \/ pc[p] = "waitBlock"
    /\ lost' = lost \union InvBlocks(invsQueue[p])
                    \union {b \in {current[p].block} : pc[p] = "waitBlock"}
    /\ GoTo(p, "ended")
    /\ SetQueue(p, <<>>)
    /\ UNCHANGED <<bodies, orphanPool, requests, ibdPeer, up, net, current, ibd, lastInv,
                   count>>

\* The flow of a closed connection: its next read fails, and the deferred call of
\* requestBlock removes the request.
EndFlow(p) ==
    /\ up /\ p \notin connected
    /\ \/ pc[p] = "idle" /\ invsQueue[p] = <<>> /\ UNCHANGED requests
       \/ pc[p] = "waitBlock" /\ RemoveRequest(p)
    /\ lost' = lost \union InvBlocks(invsQueue[p])
                    \union {b \in {current[p].block} : pc[p] = "waitBlock"}
    /\ GoTo(p, "ended")
    /\ SetQueue(p, <<>>)
    /\ UNCHANGED <<bodies, orphanPool, ibdPeer, up, net, current, ibd, lastInv, count>>

(***************************************************************************)
(* IBD, as relay sees it.                                                  *)
(***************************************************************************)

\* runIBDIfNotRunning, and the negotiation of the tip to sync to.
StartIBD(p) ==
    /\ up /\ ibdPc[p] = "requested"
    /\ \/ /\ ibdPeer = NoPeer
          /\ ibdPeer' = p
          /\ ibdPc' = [ibdPc EXCEPT ![p] = "running"]
          /\ \E tip \in Blocks :
                /\ ibdBlock[p] \in Past[tip] \union {tip}
                /\ ibdGoal' = [ibdGoal EXCEPT ![p] = Past[tip] \union {tip}]
          /\ UNCHANGED lost
       \/ /\ ibdPeer # NoPeer
          /\ ibdPc' = [ibdPc EXCEPT ![p] = "idle"]
          /\ lost' = lost \union {ibdBlock[p]}
          /\ UNCHANGED <<ibdPeer, ibdGoal>>
    /\ UNCHANGED <<bodies, orphanPool, requests, up, net, flow, ibdBlock, lastInv, count>>

\* The body that syncMissingBlockBodies inserts next.
IsNextBody(p, b) == b \in ibdGoal[p] \ bodies /\ \A a \in ibdGoal[p] \ bodies : b <= a

\* syncMissingBlockBodies inserts the next missing body, and calls OnNewBlock.
SyncBody(p) ==
    /\ up /\ ibdPc[p] = "running" /\ p \in connected
    /\ \E b \in Blocks :
        /\ IsNextBody(p, b)
        /\ \E taken \in {UnorphanBlocks(b, orphans, bodies \union {b})} :
            /\ bodies' = bodies \union taken
            /\ orphans' = orphans \ (taken \ {b})
    /\ stuck' = stuck \intersect orphans'
    /\ UNCHANGED <<requests, ibdPeer, up, net, flow, ibd, lastInv, count, lost>>

\* The insertion fails, which is logged, and what builds on the body is refused for lack
\* of a parent; or OnNewBlock fails, which ends the flow, or the node.
SyncBodyFails(p) ==
    /\ up /\ ibdPc[p] = "running" /\ p \in connected
    /\ \E b \in Blocks :
        /\ IsNextBody(p, b)
        /\ \/ \E refused \in {{c \in ibdGoal[p] : c = b \/ b \in Past[c]}} :
              /\ Fault("missing")
              /\ FailedInsertion(b)
              /\ lost' = IF b \in bodies' THEN lost ELSE lost \union refused
              /\ ibdGoal' = IF b \in bodies' THEN ibdGoal ELSE [ibdGoal EXCEPT ![p] = @ \ refused]
              /\ UNCHANGED <<requests, ibdPeer, up, net, flow, ibdPc, ibdBlock, lastInv>>
           \/ \E f \in UnorphanFailures(b, orphans, bodies \union {b}) :
              /\ bodies' = bodies \union {b} \union f.inserted
              /\ \/ /\ Fault("missing")
                    /\ LeaveOrphans(b, f)
                    /\ ibdPeer' = NoPeer
                    /\ lost' = lost \union ((ibdGoal[p] \union f.removed) \ bodies')
                    /\ ibdGoal' = [ibdGoal EXCEPT ![p] = {}]
                    /\ ibdPc' = [ibdPc EXCEPT ![p] = "ended"]
                    /\ UNCHANGED <<requests, up, net, flow, ibdBlock, lastInv>>
                 \/ Fault("errors") /\ Panic

FinishIBD_KeepsFlag(p) ==
    /\ up /\ ibdPc[p] = "running"
    /\ ibdGoal[p] \subseteq bodies \/ p \notin connected
    /\ ibdPeer' = IF p \in connected THEN NoPeer ELSE ibdPeer
    /\ lost' = lost \union (ibdGoal[p] \ bodies)
    /\ ibdGoal' = [ibdGoal EXCEPT ![p] = {}]
    /\ ibdPc' = [ibdPc EXCEPT ![p] = IF p \in connected THEN "idle" ELSE "ended"]
    /\ UNCHANGED <<bodies, orphanPool, requests, up, net, flow, ibdBlock, lastInv, count>>

\* runIBD returns, with an error when the connection was closed, and the deferred call
\* of runIBDIfNotRunning unsets ibdPeer in both cases.
FinishIBD(p) ==
    /\ up /\ ibdPc[p] = "running"
    /\ ibdGoal[p] \subseteq bodies \/ p \notin connected
    /\ ibdPeer' = NoPeer
    /\ lost' = lost \union (ibdGoal[p] \ bodies)
    /\ ibdGoal' = [ibdGoal EXCEPT ![p] = {}]
    /\ ibdPc' = [ibdPc EXCEPT ![p] = IF p \in connected THEN "idle" ELSE "ended"]
    /\ UNCHANGED <<bodies, orphanPool, requests, up, net, flow, ibdBlock, lastInv, count>>

\* The relay flow has closed the channel that the IBD flow waits on.
EndIBDFlow(p) ==
    /\ up /\ ibdPc[p] = "idle" /\ pc[p] = "ended"
    /\ ibdPc' = [ibdPc EXCEPT ![p] = "ended"]
    /\ UNCHANGED <<bodies, orphanPool, requests, ibdPeer, up, net, flow, ibdBlock, ibdGoal,
                   lastInv, count, lost>>

\* The process is started again: the peers that connect send their selected tip first
\* (SendVirtualSelectedParentInv).
Restart ==
    /\ ~up /\ up' = TRUE
    /\ connected' = Peers
    /\ route' = [p \in Peers |-> <<Msg("inv", Heaviest(Blocks))>>]
    /\ lastInv' = [p \in Peers |-> Heaviest(Blocks)]
    /\ UNCHANGED <<bodies, orphanPool, requests, ibdPeer, asked, flow, ibd, count, lost>>

-----------------------------------------------------------------------------

Next ==
    \/ \E p \in Peers :
        \/ Announce(p) \/ PeerAnswers(p) \/ Disconnect(p)
        \/ ReadInv(p) \/ ReadUnexpected(p) \/ ReceiveBlock(p) \/ ProcessBlock(p)
        \/ AddToRelayInv(p) \/ SkipBlock(p) \/ EndOnMissingData(p)
        \/ OnNewBlock(p) \/ OnNewBlockFails(p)
        \/ ReceiveLocator(p) \/ LocatorFails(p) \/ EndFlow(p)
        \/ StartIBD(p) \/ SyncBody(p) \/ SyncBodyFails(p) \/ FinishIBD(p) \/ EndIBDFlow(p)
    \/ Restart

\* A goroutine can run, a connected peer owes an answer (one that does not answer is
\* disconnected when the request times out), or the node is down.
Busy ==
    \/ ~up
    \/ \E p \in Peers :
        \/ asked[p] # {}
        \/ pc[p] = "idle" /\ (invsQueue[p] # <<>> \/ route[p] # <<>> \/ p \notin connected)
        \/ pc[p] \in {"waitBlock", "waitLocator"} /\ (Answer(p) # 0 \/ p \notin connected)
        \/ pc[p] \in {"process", "onNewBlock"}
        \/ ibdPc[p] \in {"requested", "running"}
        \/ ibdPc[p] = "idle" /\ pc[p] = "ended"

\* As long as there is something to do, something is done: weak fairness, with ENABLED
\* written out, of all steps but announcements and faults.  Which goroutine runs is left
\* open.
Fairness == []<>~Busy \/ []<><<UNCHANGED count>>_vars

Spec == Init /\ [][Next]_vars /\ Fairness

-----------------------------------------------------------------------------

\* RequestsAreOwned: a block is in sharedRequestedBlocks only while a flow waits for it: an
\* entry that stayed behind would make every flow drop the invs of that block for ever.
\* And every flow that waits for a block has it there, and is the only one ("to prevent
\* redundant requests", shared_requested_blocks.go), unless addToRelayInv has removed the
\* request of another flow, and until no flow waits for that block.
RequestsAreOwned ==
    /\ \A b \in requested : Waiting(b) # {}
    /\ \A p \in Peers : pc[p] = "waitBlock" =>
            \/ current[p].block \in contested
            \/ current[p].block \in requested /\ Waiting(current[p].block) = {p}

\* OrphansLackAParent: a block stays in the orphan pool only while a parent is missing
\* or the flow that inserted the last parent has not called OnNewBlock yet.  The
\* exceptions are a block whose last parent came while its flow waited for the locator,
\* and one whose last parent was committed by a call that failed.  The pool keeps to
\* maxOrphans: a flow adds a block before it evicts one.
OrphansLackAParent ==
    /\ Cardinality(orphans) <= MaxOrphans
    /\ \A o \in orphans : \/ ~HasParents(o)
                          \/ o \in stuck
                          \/ \E p \in Peers : /\ pc[p] = "onNewBlock"
                                              /\ current[p].block \in Parents[o]

\* PanicsOnlyAfterATimeout: a flow meets an answer it does not expect, on which the node
\* panics, only when a locator request has timed out before; the other way to a panic is
\* an error of OnNewBlock that is not about missing data.
PanicsOnlyAfterATimeout == up \/ count.timeouts > 0 \/ count.errors > 0

Announced(b) ==
    \E p \in Peers : \/ b \in InvBlocks(invsQueue[p])
                     \/ \E i \in DOMAIN route[p] : route[p][i] = Msg("inv", b)

\* The retries of addToRelayInv come to an end: the missing data appears.
RetriesEnd ==
    <>[][\A p \in Peers : pc[p] = "process" => Len(invsQueue'[p]) <= Len(invsQueue[p])]_vars

\* BlocksArrive: an announced block is added to the DAG in the end, through requests,
\* orphan resolution, IBD and retries, unless the node panics, or the block or one of
\* its ancestors is given up after it was last announced: its connection was lost with
\* it, its locator timed out, it is below the merge depth root, its inv came during IBD,
\* its IBD request came during another, it was evicted, data was missing where the inv
\* or the flow is dropped, or it is stuck in the orphan pool.
BlocksArrive ==
    RetriesEnd => \A b \in Relayed :
        Announced(b) ~> \/ b \in bodies
                        \/ (Past[b] \union {b}) \intersect (lost \union stuck) # {}
                        \/ ~up

\* FlowsSettle: every flow comes back to waiting for an inv or ends, no request stays
\* open, and the node leaves IBD, once addToRelayInv stops putting blocks back.
FlowsSettle ==
    RetriesEnd =>
        <>[](/\ up /\ ibdPeer = NoPeer /\ requested = {}
             /\ \A p \in Peers : pc[p] \in {"idle", "ended"} /\ invsQueue[p] = <<>>)

=============================================================================
