-------------------------------- MODULE IBD --------------------------------
(***************************************************************************)
(* Initial block download: the goroutine of runIBD, one per peer, and what *)
(* it does to the two consensus instances of Domain, the active and the    *)
(* staging one, which share the database under two prefixes.               *)
(*                                                                         *)
(* The database is the two keys active-prefix and inactive-prefix and a    *)
(* set of entries <<prefix, part, writer>>: the parts of a consensus are   *)
(* what IBD with a headers proof downloads one after the other, and the    *)
(* writer is the peer whose IBD wrote it.  An error is what its reader     *)
(* makes of it: "error" closes the connection, "fatal" is a panic of       *)
(* HandleError.  Messages between the node and the peer are left out: a    *)
(* request and its answer are two steps, and the answer may not come.      *)
(***************************************************************************)
EXTENDS Integers, FiniteSets

CONSTANTS Peers,        \* the peers, each with its IBD flow
          Boot,         \* the thread that runs domain.New
          Nobody,       \* no peer, no writer: the first consensus, a free lock
          None,         \* a key that is absent, a nil pointer
          MaxIBDs,      \* bound: how often IBD is triggered
          MaxFaults,    \* bound: connections lost, wrong or missing answers
          MaxTimeouts,  \* bound: IBD timeouts
          MaxCrashes    \* bound: crashes of the process

\* The thread that starts the node is no peer, and a free lock is held by none.
ASSUME ThreadsAssumption == Boot \notin Peers /\ Nobody \notin Peers

VARIABLES active, inactive,   \* the keys active-prefix and inactive-prefix
          data,               \* the entries under the prefixes
          consensus, staging, \* d.consensus and d.stagingConsensus, by prefix
          lock,               \* holder of stagingConsensusLock
          node,               \* whether the process runs
          ibdPeer,            \* FlowContext.ibdPeer
          connected,          \* peers whose connection is open
          pc,                 \* what each thread is doing
          ref,                \* consensus instance that a call was given
          snapshot, ret,      \* entries still to delete, and what comes then
          result,             \* error that runIBD returns
          abandoned,          \* flows that returned while runIBD goes on
          panicked,           \* whether the process ever panicked
          count

db == <<active, inactive, data>>
domain == <<consensus, staging, lock>>
thread == <<pc, ref, snapshot, ret, result>>
vars == <<db, domain, node, ibdPeer, connected, thread, abandoned, panicked, count>>

Prefixes == {0, 1}
Flip(x) == 1 - x
Threads == Peers \union {Boot}

\* An absent key is told from a prefix.
ASSUME PrefixesAssumption == None \notin Prefixes

\* The parts of a consensus, and what IBD without a proof and the bodies add to it.
Parts == {"base", "proof", "points", "headers", "utxo"}
Entries == Prefixes \X (Parts \union {"imported", "importing", "more", "bodies"})
                    \X (Peers \union {Nobody})

Under(x) == {e \in data : e[1] = x}

Has(x, part) == \E e \in data : e[1] = x /\ e[2] = part

\* importVirtualUTXOSetAndPruningPointUTXOSet: the imported set takes the place of the
\* UTXO sets of the prefix, and the key that says so is deleted.
WithImportedSet(x) ==
    {e \in data : ~(e[1] = x /\ e[2] \in {"utxo", "importing"})}
    \union {<<x, "utxo", e[3]>> : e \in {i \in Under(x) : i[2] = "imported"}}

\* NewConsensus finishes an import that had begun, then clears what was imported.
Recovered(x) ==
    {e \in IF Has(x, "importing") THEN WithImportedSet(x) ELSE data :
        ~(e[1] = x /\ e[2] = "imported")}

Init ==
    /\ active = 0 /\ inactive = None
    /\ data = {0} \X Parts \X {Nobody}
    /\ consensus = 0 /\ staging = None /\ lock = Nobody
    /\ node = "up" /\ ibdPeer = Nobody /\ connected = Peers
    /\ pc = [t \in Threads |-> "idle"]
    /\ ref = [t \in Threads |-> None]
    /\ snapshot = [t \in Threads |-> {}]
    /\ ret = [t \in Threads |-> "idle"]
    /\ result = [t \in Threads |-> "ok"]
    /\ abandoned = {}
    /\ panicked = FALSE
    /\ count = [ibds |-> 0, faults |-> 0, timeouts |-> 0, crashes |-> 0]

Go(t, label) == pc' = [pc EXCEPT ![t] = label]

Return(t, res) == Go(t, "finish") /\ result' = [result EXCEPT ![t] = res]

\* What is in memory is gone with the process.
Down ==
    /\ node' = "down"
    /\ consensus' = None /\ staging' = None /\ lock' = Nobody
    /\ ibdPeer' = Nobody /\ connected' = {} /\ abandoned' = {}
    /\ pc' = [t \in Threads |-> "idle"]
    /\ ref' = [t \in Threads |-> None]
    /\ snapshot' = [t \in Threads |-> {}]
    /\ ret' = [t \in Threads |-> "idle"]
    /\ result' = [t \in Threads |-> "ok"]
    /\ UNCHANGED db

Crash ==
    /\ node = "up" /\ count.crashes < MaxCrashes
    /\ count' = [count EXCEPT !.crashes = @ + 1]
    /\ Down
    /\ UNCHANGED panicked

Panic == Down /\ panicked' = TRUE /\ UNCHANGED count

(***************************************************************************)
(* Prefix manager: DeleteInactivePrefix, called with the lock held.        *)
(***************************************************************************)

\* The calls that delete the inactive prefix and go on with label.
DeleteInactivePrefix(t, label) ==
    IF inactive = None
    THEN Go(t, label) /\ UNCHANGED <<snapshot, ret>>
    ELSE /\ Go(t, "deletePrefix")
         /\ snapshot' = [snapshot EXCEPT ![t] = Under(inactive)]
         /\ ret' = [ret EXCEPT ![t] = label]

DeletePrefix_KeyFirst(t) ==
    /\ pc[t] = "deletePrefix"
    /\ inactive' = None
    /\ IF snapshot[t] = {} THEN Go(t, ret[t]) /\ UNCHANGED <<data, snapshot>>
       ELSE \E e \in {CHOOSE e \in snapshot[t] : TRUE} :
                /\ data' = data \ {e}
                /\ snapshot' = [snapshot EXCEPT ![t] = @ \ {e}]
                /\ UNCHANGED pc
    /\ UNCHANGED <<active, domain, node, ibdPeer, connected, ref, ret, result, abandoned,
                   panicked, count>>

\* The cursor of deletePrefix moves over a snapshot, then the key is deleted.
DeletePrefix(t) ==
    /\ pc[t] = "deletePrefix"
    /\ IF snapshot[t] = {}
       THEN /\ inactive' = None
            /\ Go(t, ret[t])
            /\ UNCHANGED <<data, snapshot>>
       ELSE \E e \in {CHOOSE e \in snapshot[t] : TRUE} :
                /\ data' = data \ {e}
                /\ snapshot' = [snapshot EXCEPT ![t] = @ \ {e}]
                /\ UNCHANGED <<inactive, pc>>
    /\ UNCHANGED <<active, domain, node, ibdPeer, connected, ref, ret, result, abandoned,
                   panicked, count>>

(***************************************************************************)
(* Domain.                                                                 *)
(***************************************************************************)

\* domain.New: what an earlier process left behind is deleted first.
Start ==
    /\ node = "down" /\ pc[Boot] = "idle"
    /\ node' = "up"
    /\ DeleteInactivePrefix(Boot, "open")
    /\ UNCHANGED <<db, domain, ibdPeer, connected, ref, result, abandoned, panicked, count>>

\* NewConsensus, then peers connect.
Open ==
    /\ pc[Boot] = "open"
    /\ data' = Recovered(active)
    /\ consensus' = active
    /\ connected' = Peers
    /\ Go(Boot, "idle")
    /\ UNCHANGED <<active, inactive, staging, lock, node, ibdPeer, ref, snapshot, ret,
                   result, abandoned, panicked, count>>

InitStagingConsensus_NoRetry(p) ==
    /\ pc[p] \in {"init", "initAgain"} /\ lock = Nobody
    /\ IF inactive # None
       THEN Return(p, "fatal") /\ UNCHANGED <<inactive, lock>>
       ELSE /\ inactive' = Flip(active)
            /\ lock' = p
            /\ Go(p, "create")
            /\ UNCHANGED result
    /\ UNCHANGED <<active, data, consensus, staging, node, ibdPeer, connected, ref,
                   snapshot, ret, abandoned, panicked, count>>

\* InitStagingConsensusWithoutGenesis up to the key, and what ibdWithHeadersProof does
\* with its error: the first time the staging consensus is deleted, the second time the
\* error is returned, and it is no protocol error.
InitStagingConsensus(p) ==
    /\ pc[p] \in {"init", "initAgain"} /\ lock = Nobody
    /\ \/ /\ inactive # None /\ pc[p] = "init"
          /\ Go(p, "deleteStaging")
          /\ UNCHANGED <<inactive, lock, result>>
       \/ /\ inactive # None /\ pc[p] = "initAgain"
          /\ Return(p, "fatal")
          /\ UNCHANGED <<inactive, lock>>
       \/ /\ inactive = None
          /\ inactive' = Flip(active)
          /\ lock' = p
          /\ Go(p, "create")
          /\ UNCHANGED result
    /\ UNCHANGED <<active, data, consensus, staging, node, ibdPeer, connected, ref,
                   snapshot, ret, abandoned, panicked, count>>

\* NewConsensus over the inactive prefix: Init writes its base unless there is one.
CreateStagingConsensus(p) ==
    /\ pc[p] = "create"
    /\ data' = Recovered(inactive)
               \union {e \in {<<inactive, "base", p>>} : ~Has(inactive, "base")}
    /\ staging' = inactive
    /\ lock' = Nobody
    /\ Go(p, "proof")
    /\ UNCHANGED <<active, inactive, consensus, node, ibdPeer, connected, ref, snapshot,
                   ret, result, abandoned, panicked, count>>

\* DeleteStagingConsensus, before a second try or after a recoverable error.
DeleteStagingConsensus(p) ==
    /\ pc[p] = "deleteStaging" /\ lock = Nobody
    /\ lock' = p
    /\ DeleteInactivePrefix(p, "dropStaging")
    /\ UNCHANGED <<db, consensus, staging, node, ibdPeer, connected, ref, result, abandoned,
                   panicked, count>>

DropStaging_NoUnlock(p) ==
    /\ pc[p] = "dropStaging"
    /\ staging' = None
    /\ Go(p, IF result[p] = "ok" THEN "initAgain" ELSE "finish")
    /\ UNCHANGED <<db, consensus, lock, node, ibdPeer, connected, ref, snapshot, ret,
                   result, abandoned, panicked, count>>

DropStaging(p) ==
    /\ pc[p] = "dropStaging"
    /\ staging' = None
    /\ lock' = Nobody
    /\ Go(p, IF result[p] = "ok" THEN "initAgain" ELSE "finish")
    /\ UNCHANGED <<db, consensus, node, ibdPeer, connected, ref, snapshot, ret, result,
                   abandoned, panicked, count>>

CommitStagingConsensus_NoTransaction(p) ==
    /\ \/ /\ pc[p] = "commit" /\ lock = Nobody /\ inactive # None
          /\ lock' = p
          /\ inactive' = active
          /\ Go(p, "commitActive")
          /\ UNCHANGED <<active, snapshot, ret>>
       \/ /\ pc[p] = "commitActive"
          /\ active' = Flip(active)
          /\ Go(p, "deletePrefix")
          /\ snapshot' = [snapshot EXCEPT ![p] = Under(active)]
          /\ ret' = [ret EXCEPT ![p] = "swap"]
          /\ UNCHANGED <<inactive, lock>>
    /\ UNCHANGED <<data, consensus, staging, node, ibdPeer, connected, ref, result,
                   abandoned, panicked, count>>

\* CommitStagingConsensus: one transaction exchanges the keys, then the old prefix is
\* deleted.  Without an inactive prefix it returns an error that is no protocol error.
CommitStagingConsensus(p) ==
    /\ pc[p] = "commit" /\ lock = Nobody
    /\ IF inactive = None
       THEN Return(p, "fatal") /\ UNCHANGED <<active, inactive, lock, snapshot, ret>>
       ELSE /\ lock' = p
            /\ active' = inactive
            /\ inactive' = active
            /\ Go(p, "deletePrefix")
            /\ snapshot' = [snapshot EXCEPT ![p] = Under(active)]
            /\ ret' = [ret EXCEPT ![p] = "swap"]
            /\ UNCHANGED result
    /\ UNCHANGED <<data, consensus, staging, node, ibdPeer, connected, ref, abandoned,
                   panicked, count>>

SwapConsensus_KeepStaging(p) ==
    /\ pc[p] = "swap"
    /\ consensus' = staging
    /\ lock' = Nobody
    /\ Go(p, "bodies")
    /\ UNCHANGED <<db, staging, node, ibdPeer, connected, ref, snapshot, ret, result,
                   abandoned, panicked, count>>

\* The end of CommitStagingConsensus: only now do callers of Consensus get the new one.
SwapConsensus(p) ==
    /\ pc[p] = "swap"
    /\ consensus' = staging
    /\ staging' = None
    /\ lock' = Nobody
    /\ Go(p, "bodies")
    /\ UNCHANGED <<db, node, ibdPeer, connected, ref, snapshot, ret, result, abandoned,
                   panicked, count>>

(***************************************************************************)
(* runIBD.                                                                 *)
(***************************************************************************)

\* A relay flow sends a block, and TrySetIBDRunning succeeds.
StartIBD(p) ==
    /\ p \in connected /\ pc[p] = "idle" /\ ibdPeer = Nobody /\ count.ibds < MaxIBDs
    /\ count' = [count EXCEPT !.ibds = @ + 1]
    /\ ibdPeer' = p
    /\ Go(p, "negotiate")
    /\ UNCHANGED <<db, domain, node, connected, ref, snapshot, ret, result, abandoned,
                   panicked>>

\* The chain negotiation, and which of the two kinds of IBD the relay block calls for,
\* or none.
Negotiate(p) ==
    /\ pc[p] = "negotiate" /\ p \in connected
    /\ \/ Go(p, "init") \/ Go(p, "more") \/ Go(p, "finish")
    /\ UNCHANGED <<db, domain, node, ibdPeer, connected, ref, snapshot, ret, result,
                   abandoned, panicked, count>>

\* Labels of the steps that send a request and of those that wait for the answer.
Requests == {"proof", "points", "headers", "utxo", "more"}
AnswerTo == [r \in Requests |->
                CASE r = "proof" -> "proofAnswer" [] r = "points" -> "pointsAnswer"
                  [] r = "headers" -> "headersAnswer" [] r = "utxo" -> "utxoAnswer"
                  [] r = "more" -> "moreAnswer"]

\* Where an error leads: fetchMissingUTXOSet clears the imported set first, and errors of
\* the download stage delete the staging consensus.
AfterError(label) ==
    CASE label \in {"utxo", "utxoAnswer"} -> "clear"
      [] label \in {"negotiate", "bodies", "more", "moreAnswer"} -> "finish"
      [] OTHER -> "deleteStaging"

\* A request is sent, if the connection is open.  The consensus that headers and UTXO
\* chunks will be added to is evaluated here, once, and given to the call as an argument.
Request(p) ==
    /\ pc[p] \in Requests
    /\ pc[p] \in {"headers", "utxo"} => lock = Nobody
    /\ IF pc[p] \in {"headers", "utxo"} /\ staging = None
       THEN Panic
       ELSE /\ \/ /\ p \in connected
                  /\ ref' = [ref EXCEPT ![p] = CASE pc[p] \in {"headers", "utxo"} -> staging
                                                 [] pc[p] = "more" -> consensus
                                                 [] OTHER -> @]
                  /\ Go(p, AnswerTo[pc[p]])
                  /\ UNCHANGED result
               \/ /\ p \notin connected
                  /\ Go(p, AfterError(pc[p]))
                  /\ result' = [result EXCEPT ![p] = "error"]
                  /\ UNCHANGED ref
            /\ UNCHANGED <<db, domain, node, ibdPeer, connected, snapshot, ret, abandoned,
                           panicked, count>>

\* The proof and the pruning points, with the anticone, go to the consensus that
\* StagingConsensus returns when the answer has come.
ReceiveTrustedData(p) ==
    /\ pc[p] \in {"proofAnswer", "pointsAnswer"} /\ lock = Nobody
    /\ IF staging = None
       THEN Panic
       ELSE /\ data' = data \union
                       {<<staging, IF pc[p] = "proofAnswer" THEN "proof" ELSE "points", p>>}
            /\ Go(p, IF pc[p] = "proofAnswer" THEN "points" ELSE "headers")
            /\ UNCHANGED <<active, inactive, domain, node, ibdPeer, connected, ref,
                           snapshot, ret, result, abandoned, panicked, count>>

\* Headers and UTXO chunks go to the consensus of the call.
ReceiveByReference(p) ==
    /\ \E a \in {<<"headersAnswer", "headers", "check">>, <<"utxoAnswer", "imported", "import">>,
                 <<"moreAnswer", "more", "bodies">>} :
        /\ pc[p] = a[1]
        /\ data' = data \union {<<ref[p], a[2], p>>}
        /\ Go(p, a[3])
    /\ UNCHANGED <<active, inactive, domain, node, ibdPeer, connected, ref, snapshot, ret,
                   result, abandoned, panicked, count>>

\* The staging consensus must know the relay block now, and its headers must be newer than
\* those of the active one.
CheckRelayBlock(p) ==
    /\ pc[p] = "check" /\ lock = Nobody
    /\ IF staging = None
       THEN Panic
       ELSE /\ \/ /\ Has(staging, "headers")
                  /\ Go(p, "utxo")
                  /\ UNCHANGED <<result, count>>
               \/ /\ ~Has(staging, "headers") \/ count.faults < MaxFaults
                  /\ Go(p, "deleteStaging")
                  /\ result' = [result EXCEPT ![p] = "error"]
                  /\ count' = [count EXCEPT !.faults =
                                  IF Has(staging, "headers") THEN @ + 1 ELSE @]
            /\ UNCHANGED <<db, domain, node, ibdPeer, connected, ref, snapshot, ret,
                           abandoned, panicked>>

\* ValidateAndInsertImportedPruningPoint up to its first commit, which says that the import
\* has begun, unless the peer has moved to another pruning point or the set does not match
\* the header: both are recoverable errors.
ImportPruningPoint(p) ==
    /\ pc[p] = "import" /\ lock = Nobody
    /\ IF staging = None
       THEN Panic
       ELSE /\ \/ /\ Has(staging, "imported")
                  /\ data' = data \union {<<staging, "importing", p>>}
                  /\ ref' = [ref EXCEPT ![p] = staging]
                  /\ Go(p, "importing")
                  /\ UNCHANGED <<result, count>>
               \/ /\ ~Has(staging, "imported") \/ count.faults < MaxFaults
                  /\ result' = [result EXCEPT ![p] = "error"]
                  /\ count' = [count EXCEPT !.faults =
                                  IF Has(staging, "imported") THEN @ + 1 ELSE @]
                  /\ Go(p, "clear")
                  /\ UNCHANGED <<data, ref>>
            /\ UNCHANGED <<active, inactive, domain, node, ibdPeer, connected, snapshot, ret,
                           abandoned, panicked>>

\* The UTXO sets are replaced outside of that commit, in several writes of which the last
\* clears the flag.  They are one step: a crash between them leaves the flag and an inactive
\* prefix that is deleted at the next start, as a crash before the first does.  When another
\* IBD has deleted the prefix, the key is missing: an error that is neither recoverable nor
\* a protocol error.
ImportUTXOSet(p) ==
    /\ pc[p] = "importing"
    /\ IF Has(ref[p], "importing")
       THEN data' = WithImportedSet(ref[p]) /\ UNCHANGED result
       ELSE result' = [result EXCEPT ![p] = "fatal"] /\ UNCHANGED data
    /\ Go(p, "clear")
    /\ UNCHANGED <<active, inactive, domain, node, ibdPeer, connected, ref, snapshot, ret,
                   abandoned, panicked, count>>

\* The deferred ClearImportedPruningPointData of fetchMissingUTXOSet.
ClearImported(p) ==
    /\ pc[p] = "clear" /\ lock = Nobody
    /\ IF staging = None
       THEN Panic
       ELSE /\ data' = data \ {e \in Under(staging) : e[2] = "imported"}
            /\ Go(p, CASE result[p] = "ok" -> "commit"
                       [] result[p] = "error" -> "deleteStaging"
                       [] OTHER -> "finish")
            /\ UNCHANGED <<active, inactive, domain, node, ibdPeer, connected, ref,
                           snapshot, ret, result, abandoned, panicked, count>>

\* syncMissingBlockBodies inserts into the consensus that Consensus returns by then.
SyncBodies(p) ==
    /\ pc[p] = "bodies" /\ p \in connected
    /\ data' = data \union {<<consensus, "bodies", p>>}
    /\ Return(p, "ok")
    /\ UNCHANGED <<active, inactive, domain, node, ibdPeer, connected, ref, snapshot, ret,
                   abandoned, panicked, count>>

\* An answer does not come or is wrong: the connection is closed, or the peer sends nothing
\* or something else.  A rejected header is a rule error, which is not recoverable, so the
\* staging consensus stays.
Fail(p) ==
    /\ pc[p] \in {"negotiate", "bodies"} \union {AnswerTo[r] : r \in Requests}
    /\ \/ p \notin connected /\ UNCHANGED count
       \/ /\ p \in connected /\ count.faults < MaxFaults
          /\ count' = [count EXCEPT !.faults = @ + 1]
    /\ result' = [result EXCEPT ![p] = "error"]
    /\ \/ Go(p, AfterError(pc[p]))
       \/ pc[p] = "headersAnswer" /\ p \in connected /\ Go(p, "finish")
    /\ UNCHANGED <<db, domain, node, ibdPeer, connected, ref, snapshot, ret, abandoned,
                   panicked>>

\* runIBD returns.  Unless it has been abandoned, runIBDIfNotRunning unsets ibdPeer, and
\* an error ends the flow and its connection.
FinishIBD(p) ==
    /\ pc[p] = "finish"
    /\ IF result[p] = "fatal" /\ p \notin abandoned
       THEN Panic
       ELSE /\ ibdPeer' = IF p \in abandoned THEN ibdPeer ELSE Nobody
            /\ connected' = IF result[p] = "ok" THEN connected ELSE connected \ {p}
            /\ Go(p, "idle")
            /\ ref' = [ref EXCEPT ![p] = None]
            /\ result' = [result EXCEPT ![p] = "ok"]
            /\ UNCHANGED <<db, domain, node, snapshot, ret, abandoned, panicked, count>>

\* The timeout of runIBDIfNotRunning: it disconnects the peer, unsets ibdPeer and
\* returns, and runIBD goes on until it meets the closed connection.
Timeout(p) ==
    /\ ibdPeer = p /\ count.timeouts < MaxTimeouts
    /\ count' = [count EXCEPT !.timeouts = @ + 1]
    /\ ibdPeer' = Nobody
    /\ connected' = connected \ {p}
    /\ abandoned' = abandoned \union {p}
    /\ UNCHANGED <<db, domain, node, thread, panicked>>

-----------------------------------------------------------------------------

Step(p) ==
    \/ InitStagingConsensus(p) \/ CreateStagingConsensus(p)
    \/ DeleteStagingConsensus(p) \/ DeletePrefix(p) \/ DropStaging(p)
    \/ CommitStagingConsensus(p) \/ SwapConsensus(p)
    \/ Negotiate(p) \/ Request(p) \/ ReceiveTrustedData(p) \/ ReceiveByReference(p)
    \/ CheckRelayBlock(p) \/ ImportPruningPoint(p) \/ ImportUTXOSet(p) \/ ClearImported(p)
    \/ SyncBodies(p) \/ FinishIBD(p)

BootStep == Start \/ DeletePrefix(Boot) \/ Open

Next ==
    \/ \E p \in Peers : StartIBD(p) \/ Step(p) \/ Fail(p) \/ Timeout(p)
    \/ BootStep
    \/ Crash

\* Goroutines are scheduled, a connected peer answers (one that does not makes the read
\* time out, which is a fault), and the process is started again.
Fairness ==
    /\ \A p \in Peers : WF_vars(Step(p)) /\ WF_vars(p \notin connected /\ Fail(p))
    /\ WF_vars(BootStep)

Spec == Init /\ [][Next]_vars /\ Fairness

-----------------------------------------------------------------------------

\* The prefix holds one whole consensus: all parts, from one IBD, and none of another.
Complete(x) ==
    \E w \in Peers \union {Nobody} :
        /\ \A part \in Parts : <<x, part, w>> \in data
        /\ \A e \in Under(x) : e[2] \in Parts => e[3] = w

\* ActiveIsComplete: as long as no IBD has timed out, the prefix that the database names
\* as active holds a whole consensus at every moment, so that a crash anywhere in the
\* download, the commit or the clean-up never leaves a node that starts with part of one.
ActiveIsComplete == count.timeouts = 0 => Complete(active)

\* FreePrefixIsEmpty: as long as no IBD has timed out, nothing is stored under a prefix
\* that is neither active nor inactive, so a staging consensus always starts empty.
FreePrefixIsEmpty ==
    count.timeouts = 0 => \A x \in Prefixes \ {active, inactive} : Under(x) = {}

\* PointersFollowTheDatabase: while nobody holds the staging lock, the consensus in use is
\* the one under the active prefix, and there is a staging consensus exactly when there is
\* an inactive prefix.  This is so even while an abandoned IBD still runs.
PointersFollowTheDatabase ==
    node = "up" /\ lock = Nobody /\ pc[Boot] = "idle" =>
        consensus = active /\ staging = inactive

\* PanicsOnlyAfterATimeout: no staging consensus that is gone is used, and no error that
\* HandleError panics on is returned, unless an IBD has timed out before.
PanicsOnlyAfterATimeout == panicked => count.timeouts > 0

\* IBDEnds: the node leaves IBD, by success, error, timeout or the end of the process.
IBDEnds == ibdPeer # Nobody ~> ibdPeer = Nobody

=============================================================================
