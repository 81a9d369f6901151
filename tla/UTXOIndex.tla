------------------------------ MODULE UTXOIndex -----------------------------
(***************************************************************************)
(* The UTXO index, the channel of consensus events that feeds it, and the  *)
(* restarts and resets that rebuild it.                                    *)
(*                                                                         *)
(* Consensus commits a new virtual and then puts its diff on a bounded     *)
(* channel.  The handler of the RPC manager takes one event after another  *)
(* and applies a diff in one transaction.  Reset, at startup and when IBD  *)
(* has replaced the consensus, deletes the index and pages through the     *)
(* virtual UTXO set while virtual may move; each of its writes is a commit *)
(* of its own.  A crash loses the channel.                                 *)
(*                                                                         *)
(* An outpoint determines its script and its amount; the entry that two    *)
(* virtual sets may disagree on is the DAA score.                          *)
(***************************************************************************)
EXTENDS Integers, Sequences, FiniteSets, FiniteSetsExt, Functions

CONSTANTS
    Outpoints,      \* numbers, in the order of the cursor
    Script,         \* the script public key of each outpoint
    Amount,         \* the amount of each outpoint
    VirtualSets,    \* virtual UTXO sets: functions from some outpoints to DAA scores
    PageSize,       \* step of Reset
    Capacity,       \* capacity of consensusEventsChan
    Word,           \* amounts are unsigned numbers below Word
    MaxVirtuals, MaxOverrides, MaxCrashes   \* bounds of the model

ASSUME OutpointsAssumption == /\ Outpoints \subseteq Nat \ {0}
                              /\ \E n \in Outpoints \cup {0} : \A o \in Outpoints : o <= n
ASSUME EntriesAssumption == /\ DOMAIN Script = Outpoints
                            /\ \A o \in Outpoints : Amount[o] \in Nat
ASSUME VirtualSetsAssumption == \A set \in VirtualSets : \E os \in SUBSET Outpoints : set \in [os -> Nat]
ASSUME SizesAssumption == PageSize \in Nat \ {0} /\ Capacity \in Nat /\ Word \in Nat \ {0}

VARIABLES
    history,        \* the set of every virtual so far: the last is the current one
    events,         \* consensusEventsChan
    db,             \* the database of the index
    op,             \* the node: who holds the mutex of the index
    override,       \* a flow has committed a staging consensus and is to call Reset
    lost,           \* history: a diff was not put on the channel since the last Reset
    misapplied,     \* history: Update applied a diff to another set than it starts from
    overrides, crashes

vars == <<history, events, db, op, override, lost, misapplied, overrides, crashes>>

Scripts == Range(Script)
Absent == -1

Down == [kind |-> "down"]
Running == [kind |-> "running"]
\* The handler of the events has panicked with an error of Update.
Panicked == [kind |-> "panicked"]
\* New has returned an error.
NotStarted == [kind |-> "notStarted"]

\* The keys of an index: the parents of the virtual it is synced to stand for
\* the position of that virtual in history.
EmptyIndex == [parents |-> 0, supply |-> Absent, initialized |-> FALSE,
               counts |-> [s \in Scripts |-> 0], entries |-> [o \in Outpoints |-> Absent]]

Indexed == {o \in Outpoints : db.entries[o] # Absent}

\* The amounts of a set of outpoints, sompi by sompi.
Sompi(os) == UNION {{o} \X (1 .. Amount[o]) : o \in os}
Sum(os) == Cardinality(Sompi(os)) % Word
CountOf(s, os) == Cardinality({o \in os : Script[o] = s})

ParentHashes == Len(history)
VirtualSet == history[Len(history)]

Init ==
    /\ \E set \in VirtualSets : history = <<set>>
    /\ events = << >> /\ db = EmptyIndex /\ op = Down
    /\ override = FALSE /\ lost = FALSE /\ misapplied = FALSE
    /\ overrides = 0 /\ crashes = 0

-----------------------------------------------------------------------------
(* Consensus and its events.                                               *)

BlockAdded == [kind |-> "blockAdded"]

\* The diff from the current virtual to the next one, its parents, and
\* (history) the virtual it starts from.
VirtualChangeSet(set) ==
    LET old == VirtualSet
        Same(o) == o \in DOMAIN old /\ o \in DOMAIN set /\ old[o] = set[o]
    IN  [kind |-> "virtualChangeSet", from |-> ParentHashes, parents |-> ParentHashes + 1,
         toRemove |-> Restrict(old, {o \in DOMAIN old : ~ Same(o)}),
         toAdd    |-> Restrict(set, {o \in DOMAIN set : ~ Same(o)})]

\* Blocks are added once New has returned.
MayAddBlocks == op = Running \/ (op.kind = "reset" /\ op.by = "override")

\* The events of one insertion in the channel, as many as it has room for.
Sent(new) == events \o SubSeq(new, 1, Min({Len(new), Capacity - Len(events)}))

\* With a full channel the insertion that was committed returns an error.  A
\* flow panics with it (HandleError), SubmitBlock only reports it.
Send(new) ==
    IF Len(events) + Len(new) <= Capacity
    THEN events' = events \o new /\ UNCHANGED <<op, crashes>>
    ELSE \/ events' = Sent(new) /\ UNCHANGED <<op, crashes>>
         \/ crashes < MaxCrashes /\ crashes' = crashes + 1 /\ events' = << >> /\ op' = Down

\* A block is inserted and virtual stays.
InsertBlock ==
    /\ MayAddBlocks
    /\ Send(<<BlockAdded>>)
    /\ UNCHANGED <<history, db, override, lost, misapplied, overrides>>

\* Virtual moves: by an inserted block, or by a chunk of ResolveVirtual.
MoveVirtual(set, byBlock) ==
    LET change == VirtualChangeSet(set)
        new == IF byBlock THEN <<BlockAdded, change>> ELSE <<change>>
    IN  /\ MayAddBlocks /\ Len(history) < MaxVirtuals
        /\ history' = Append(history, set)
        /\ Send(new)
        /\ lost' = (lost \/ Len(events) + Len(new) > Capacity)
        /\ UNCHANGED <<db, override, misapplied, overrides>>

\* CommitStagingConsensus of an IBD: another consensus, with a virtual that no
\* event tells of.  The flow then calls OnPruningPointUTXOSetOverride.
CommitStagingConsensus(set) ==
    /\ op = Running /\ ~ override
    /\ overrides < MaxOverrides /\ Len(history) < MaxVirtuals
    /\ history' = Append(history, set)
    /\ override' = TRUE /\ overrides' = overrides + 1
    /\ UNCHANGED <<events, db, op, lost, misapplied, crashes>>

-----------------------------------------------------------------------------
(* Update.                                                                 *)

\* removeUTXOs, then addUTXOs: an outpoint that is staged for removal is taken
\* out of there when it is added, whatever the two entries are.
Staged(change) ==
    LET both == DOMAIN change.toRemove \cap DOMAIN change.toAdd
    IN  [toRemove |-> Restrict(change.toRemove, DOMAIN change.toRemove \ both),
         toAdd    |-> Restrict(change.toAdd, DOMAIN change.toAdd \ both)]

CountDelta(staged, s) == CountOf(s, DOMAIN staged.toAdd) - CountOf(s, DOMAIN staged.toRemove)

\* updateCirculatingSompiSupply
AddSupply(supply, added, removed) ==
    IF Sum(added) = Sum(removed) THEN supply
    ELSE (supply + Sum(added) - Sum(removed)) % Word

\* The virtual parents of the update are not stored.
Updated_KeepsParents(change, staged) ==
    [db EXCEPT !.entries = [o \in Outpoints |-> IF o \in DOMAIN staged.toAdd THEN staged.toAdd[o]
                                                ELSE IF o \in DOMAIN staged.toRemove THEN Absent ELSE @[o]],
               !.supply = AddSupply(@, DOMAIN staged.toAdd, DOMAIN staged.toRemove),
               !.counts = [s \in Scripts |-> @[s] + CountDelta(staged, s)],
               !.initialized = TRUE]

\* commit
Updated(change, staged) ==
    [db EXCEPT !.entries = [o \in Outpoints |-> IF o \in DOMAIN staged.toAdd THEN staged.toAdd[o]
                                                ELSE IF o \in DOMAIN staged.toRemove THEN Absent ELSE @[o]],
               !.parents = change.parents,
               !.supply = AddSupply(@, DOMAIN staged.toAdd, DOMAIN staged.toRemove),
               !.counts = [s \in Scripts |-> @[s] + CountDelta(staged, s)],
               !.initialized = TRUE]

CommitFails(staged) ==
    \/ Sum(DOMAIN staged.toAdd) # Sum(DOMAIN staged.toRemove) /\ db.supply = Absent
    \/ \E s \in Scripts : db.counts[s] + CountDelta(staged, s) < 0

\* The handler takes one event.  A diff is one transaction of the index; an
\* error of it is a panic of the node.
HandleEvent ==
    /\ op = Running /\ events # << >>
    /\ LET event == Head(events)
           staged == Staged(event)
       IN  IF event = BlockAdded
           THEN events' = Tail(events) /\ UNCHANGED <<db, op, misapplied>>
           ELSE /\ misapplied' = (misapplied \/ event.from # db.parents)
                /\ IF CommitFails(staged)
                   THEN op' = Panicked /\ events' = << >> /\ UNCHANGED db
                   ELSE db' = Updated(event, staged) /\ events' = Tail(events) /\ UNCHANGED op
    /\ UNCHANGED <<history, override, lost, overrides, crashes>>

-----------------------------------------------------------------------------
(* Reset.  Each step is one commit; the mutex is held all the time.        *)

Resetting(by) == [kind |-> "reset", by |-> by, stage |-> "parents", virtual |-> 0,
                  from |-> 0, page |-> << >>, left |-> {}]

AtStage(stage) == op.kind = "reset" /\ op.stage = stage
GoTo(stage) == op' = [op EXCEPT !.stage = stage]

\* The flow that committed the staging consensus calls Reset.
OnPruningPointUTXOSetOverride ==
    /\ op = Running /\ override
    /\ op' = Resetting("override")
    /\ override' = FALSE
    /\ UNCHANGED <<history, events, db, lost, misapplied, overrides, crashes>>

\* "First we delete the virtual parents, so if anything goes wrong, the UTXO
\* index will be marked as "not synced" and will be reset."
DeleteParents(index) == [index EXCEPT !.parents = 0]

DeleteAll ==
    /\ \/ AtStage("parents") /\ db' = DeleteParents(db) /\ GoTo("supply")
       \/ AtStage("supply") /\ db' = [db EXCEPT !.supply = Absent] /\ GoTo("initialized")
       \/ AtStage("initialized") /\ db' = [db EXCEPT !.initialized = FALSE] /\ GoTo("counts")
       \/ /\ AtStage("counts")
          /\ \E s \in Scripts : db.counts[s] # 0 /\ db' = [db EXCEPT !.counts[s] = 0]
          /\ UNCHANGED op
       \/ /\ AtStage("counts") /\ \A s \in Scripts : db.counts[s] = 0
          /\ GoTo("entries") /\ UNCHANGED db
       \/ /\ AtStage("entries") /\ Indexed # {}
          /\ db' = [db EXCEPT !.entries[Min(Indexed)] = Absent]
          /\ UNCHANGED op
    /\ UNCHANGED <<history, events, override, lost, misapplied, overrides, crashes>>

\* GetVirtualInfo
GetVirtualInfo ==
    /\ AtStage("entries") /\ Indexed = {}
    /\ op' = [op EXCEPT !.stage = "initialize", !.virtual = ParentHashes]
    /\ lost' = FALSE /\ misapplied' = FALSE
    /\ UNCHANGED <<history, events, db, override, overrides, crashes>>

\* initializeCirculatingSompiSupply
InitializeCirculatingSompiSupply ==
    /\ AtStage("initialize")
    /\ db' = [db EXCEPT !.supply = Sum(Indexed)]
    /\ GoTo("page")
    /\ UNCHANGED <<history, events, override, lost, misapplied, overrides, crashes>>

\* VirtualUTXOs: the outpoints after the one it is given.
PageFrom(from) == {o \in DOMAIN VirtualSet : o > from}

\* The first PageSize of a set of outpoints.
FirstPage(os) == {o \in os : Cardinality({u \in os : u < o}) < PageSize}

ResetFails == op' = IF op.by = "new" THEN NotStarted ELSE Running

\* GetVirtualUTXOs without a look at the virtual parents.
VirtualIsExpected_Always == TRUE

VirtualIsExpected == op.virtual = ParentHashes

GetVirtualUTXOs ==
    /\ AtStage("page")
    /\ IF VirtualIsExpected
       THEN LET outpoints == FirstPage(PageFrom(op.from))
            IN  op' = [op EXCEPT !.stage = "put", !.page = Restrict(VirtualSet, outpoints),
                                 !.left = outpoints]
       ELSE ResetFails
    /\ UNCHANGED <<history, events, db, override, lost, misapplied, overrides, crashes>>

\* addAndCommitOutpointsWithoutTransaction: the entries, written by goroutines,
\* then the counts in the order of a Go map, the mark and the supply.
AddAndCommitOutpoints ==
    /\ \/ /\ AtStage("put")
          /\ \E o \in op.left : /\ db' = [db EXCEPT !.entries[o] = op.page[o]]
                                /\ op' = [op EXCEPT !.left = @ \ {o}]
       \/ /\ AtStage("put") /\ op.left = {}
          /\ op' = [op EXCEPT !.stage = "count", !.left = {Script[o] : o \in DOMAIN op.page}]
          /\ UNCHANGED db
       \/ /\ AtStage("count")
          /\ \E s \in op.left : /\ db' = [db EXCEPT !.counts[s] = @ + CountOf(s, DOMAIN op.page)]
                                /\ op' = [op EXCEPT !.left = @ \ {s}]
       \/ /\ AtStage("count") /\ op.left = {}
          /\ db' = [db EXCEPT !.initialized = TRUE]
          /\ GoTo("addSupply")
       \/ /\ AtStage("addSupply")
          /\ IF Sum(DOMAIN op.page) # 0 /\ db.supply = Absent THEN ResetFails /\ UNCHANGED db
             ELSE /\ db' = [db EXCEPT !.supply = AddSupply(@, DOMAIN op.page, {})]
                  /\ op' = IF Cardinality(DOMAIN op.page) < PageSize THEN [op EXCEPT !.stage = "mark"]
                           ELSE [op EXCEPT !.stage = "page", !.from = Max(DOMAIN op.page)]
    /\ UNCHANGED <<history, events, override, lost, misapplied, overrides, crashes>>

\* updateAndCommitVirtualParentsWithoutTransaction
MarkAsSynced ==
    /\ \/ AtStage("mark") /\ db' = [db EXCEPT !.parents = op.virtual] /\ GoTo("end")
       \/ AtStage("end") /\ db' = [db EXCEPT !.initialized = TRUE] /\ op' = Running
    /\ UNCHANGED <<history, events, override, lost, misapplied, overrides, crashes>>

ResetStep == \/ DeleteAll \/ GetVirtualInfo \/ InitializeCirculatingSompiSupply
             \/ GetVirtualUTXOs \/ AddAndCommitOutpoints \/ MarkAsSynced

-----------------------------------------------------------------------------
(* Starts and crashes.                                                     *)

\* isSynced that does not look at the virtual of consensus.
IsSynced_AnyParents == db.parents # 0

IsSynced == db.parents = ParentHashes

\* New, with a new channel.
New ==
    /\ op.kind \in {"down", "panicked"}
    /\ op' = IF IsSynced /\ db.supply # Absent /\ db.initialized THEN Running
             ELSE Resetting("new")
    /\ events' = << >> /\ override' = FALSE
    /\ UNCHANGED <<history, db, lost, misapplied, overrides, crashes>>

Crash ==
    /\ op = Running \/ op.kind = "reset"
    /\ crashes < MaxCrashes
    /\ op' = Down /\ crashes' = crashes + 1
    /\ UNCHANGED <<history, events, db, override, lost, misapplied, overrides>>

Next ==
    \/ InsertBlock
    \/ \E set \in VirtualSets, byBlock \in BOOLEAN : MoveVirtual(set, byBlock)
    \/ \E set \in VirtualSets : CommitStagingConsensus(set)
    \/ HandleEvent
    \/ OnPruningPointUTXOSetOverride
    \/ ResetStep
    \/ New
    \/ Crash

\* Goroutines that can go on do, and a node that is down is started again.
Fairness == /\ WF_vars(HandleEvent) /\ WF_vars(OnPruningPointUTXOSetOverride)
            /\ WF_vars(ResetStep) /\ WF_vars(New)

Spec == Init /\ [][Next]_vars /\ Fairness

-----------------------------------------------------------------------------
(* Properties.                                                             *)

\* An index that is marked with the parents of a virtual has exactly the
\* outpoints of that virtual's UTXO set, in every state of the database, also
\* one that a crash in the middle of Reset leaves behind (deleteAll: "if
\* anything goes wrong, the UTXO index will be marked as "not synced""), unless
\* Update was given a diff that starts from another virtual.  So are the number
\* of outpoints of every script and the circulating supply, which are written
\* beside the entries and never computed again.
IndexIsExact ==
    db.parents # 0 /\ ~ misapplied =>
        /\ Indexed = DOMAIN history[db.parents]
        /\ db.supply = Sum(Indexed)
        /\ \A s \in Scripts : db.counts[s] = CountOf(s, Indexed)

\* New never fails, and Update fails (the count "became negative", no supply)
\* only when it is given a diff that starts from another virtual.  Without a full
\* channel and without an IBD that replaces the consensus it only ever gets the
\* diff that starts at the virtual the index is marked with, across crashes that
\* lose the channel at any point (New resets an index that is not at consensus'
\* virtual, isSynced).
DiffsAreContiguous ==
    /\ op # NotStarted
    /\ op = Panicked => misapplied
    /\ misapplied => lost \/ overrides > 0

\* The index catches up with virtual: events are not waited for that were lost
\* by a crash, and no Reset that virtual overtakes leaves it behind, unless a
\* diff was lost in a full channel or misapplied.
IndexCatchesUp == <>[](db.parents = ParentHashes \/ lost \/ misapplied)
=============================================================================
