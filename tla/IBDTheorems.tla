----------------------------- MODULE IBDTheorems ----------------------------
(***************************************************************************)
(* IBD and the two consensuses of Domain, for any number of peers, IBDs,   *)
(* faults, timeouts and crashes.                                           *)
(*                                                                         *)
(* The consensus pointers of Domain follow the prefixes of the database.   *)
(* The invariant IInv says who may hold stagingConsensusLock and where     *)
(* each holder has got to: the pointers and the keys differ only inside    *)
(* the lock, in ways that the step which gives the lock back undoes.       *)
(*                                                                         *)
(* Before the first timeout the active prefix holds a whole consensus, the *)
(* free one nothing, and no flow panics.  TrySetIBDRunning lets one IBD    *)
(* run at a time, so the invariant DInv follows that one flow: at each of  *)
(* its labels it says which parts it has written under the inactive        *)
(* prefix, that nobody else wrote there, and, while the prefix is being    *)
(* deleted, that the cursor has still to meet all of it.                   *)
(***************************************************************************)
EXTENDS IBD, TLAPS

-----------------------------------------------------------------------------
(* The pointers and the keys of the database.                              *)

\* The labels of a peer that does not hold the lock.
Free == {"idle", "negotiate", "init", "initAgain", "deleteStaging", "proof", "proofAnswer",
         "points", "pointsAnswer", "headers", "headersAnswer", "check", "utxo", "utxoAnswer",
         "import", "importing", "clear", "commit", "more", "moreAnswer", "bodies", "finish"}

\* The labels of a peer that holds the lock.
Locked == {"create", "deletePrefix", "dropStaging", "swap"}

Labels == Free \union Locked \union {"open"}

ThreadsOK ==
    /\ pc \in [Threads -> Labels] /\ ret \in [Threads -> Labels]
    /\ lock \in Peers \union {Nobody}
    /\ node \in {"up", "down"}

\* Exactly the holder of the lock is at a label of Locked.
LockOK ==
    /\ \A p \in Peers : pc[p] \in Locked => lock = p
    /\ lock # Nobody => pc[lock] \in Locked

\* While the node is down or starting there are no flows, and it starts without
\* an inactive prefix.
BootOK ==
    /\ pc[Boot] \in {"idle", "deletePrefix", "open"}
    /\ pc[Boot] = "deletePrefix" => ret[Boot] = "open"
    /\ pc[Boot] = "open" => inactive = None
    /\ pc[Boot] # "idle" => node = "up"
    /\ node = "down" \/ pc[Boot] # "idle" =>
           connected = {} /\ staging = None /\ \A p \in Peers : pc[p] = "idle"

\* What the holder of the lock has still to put right.
HolderOK ==
    \A p \in Peers :
        /\ pc[p] = "create" => consensus = active
        /\ pc[p] = "deletePrefix" =>
               \/ ret[p] = "dropStaging" /\ consensus = active
               \/ ret[p] = "swap" /\ staging = active
        /\ pc[p] = "dropStaging" => inactive = None /\ consensus = active
        /\ pc[p] = "swap" => inactive = None /\ staging = active

IInv == ThreadsOK /\ LockOK /\ BootOK /\ HolderOK /\ PointersFollowTheDatabase
-----------------------------------------------------------------------------
\* The node starts with one consensus, no staging one and a free lock.
LEMMA InitIInv == Init => IInv
  BY ThreadsAssumption
  DEF Init, IInv, ThreadsOK, LockOK, BootOK, HolderOK, PointersFollowTheDatabase, Threads, Locked,
      Labels, Free

\* A crash and a panic leave nothing of the threads.
LEMMA DownIInv ==
    ASSUME IInv, Down
    PROVE  IInv'
  <1>1. /\ \A t \in Threads : pc'[t] = "idle"
        /\ pc' \in [Threads -> Labels] /\ ret' \in [Threads -> Labels]
    BY DEF Down, Labels, Free
  <1>2. Boot \in Threads /\ Peers \subseteq Threads
    BY DEF Threads
  <1>3. lock' = Nobody /\ node' = "down" /\ connected' = {} /\ staging' = None
    BY DEF Down
  <1>4. ThreadsOK' /\ LockOK'
    BY <1>1, <1>2, <1>3 DEF ThreadsOK, LockOK, Locked
  <1>5. BootOK' /\ HolderOK'
    BY <1>1, <1>2, <1>3 DEF BootOK, HolderOK
  <1>6. PointersFollowTheDatabase'
    BY <1>3 DEF PointersFollowTheDatabase
  <1> QED
    BY <1>4, <1>5, <1>6 DEF IInv

\* A flow goes from one label without the lock to another and leaves keys,
\* pointers and lock as they are.
LEMMA MoveIInv ==
    ASSUME IInv, NEW p \in Peers, NEW label \in Free,
           pc[p] \notin Locked,
           pc[p] # "idle" \/ p \in connected,
           Go(p, label), connected' \subseteq connected,
           UNCHANGED <<active, inactive, consensus, staging, lock, node, ret>>
    PROVE  IInv'
  <1>1. node = "up" /\ pc[Boot] = "idle"
    BY DEF IInv, ThreadsOK, BootOK
  <1>2. p # Boot /\ p \in Threads /\ Boot \in Threads /\ Peers \subseteq Threads
    BY ThreadsAssumption DEF Threads
  <1>3. /\ pc' \in [Threads -> Labels] /\ pc'[p] = label /\ pc'[Boot] = "idle"
        /\ \A q \in Peers : q # p => pc'[q] = pc[q]
    BY <1>1, <1>2 DEF Go, IInv, ThreadsOK, Labels
  <1>4. ThreadsOK'
    BY <1>3 DEF IInv, ThreadsOK
  <1>5. LockOK'
    BY <1>3, ThreadsAssumption DEF IInv, ThreadsOK, LockOK, Free, Locked
  <1>6. BootOK'
    BY <1>1, <1>3 DEF IInv, BootOK
  <1>7. HolderOK'
    BY <1>3 DEF IInv, HolderOK, Free
  <1>8. PointersFollowTheDatabase'
    BY <1>1, <1>3 DEF IInv, PointersFollowTheDatabase
  <1> QED
    BY <1>4, <1>5, <1>6, <1>7, <1>8 DEF IInv
-----------------------------------------------------------------------------
(* The steps of a flow that change nothing of Domain but the data.         *)

\* StartIBD and Negotiate keep IInv: they only move a flow that holds no lock.
LEMMA StartIBDIInv ==
    ASSUME IInv, NEW p \in Peers, StartIBD(p) \/ Negotiate(p)
    PROVE  IInv'
  <1>1. CASE StartIBD(p)
    BY <1>1, MoveIInv DEF StartIBD, db, domain, Locked, Free
  <1>2. CASE Negotiate(p)
    <2>1. PICK label \in {"init", "more", "finish"} : Go(p, label)
      BY <1>2 DEF Negotiate
    <2> QED
      BY <1>2, <2>1, MoveIInv DEF Negotiate, db, domain, Locked, Free
  <1> QED
    BY <1>1, <1>2

\* The labels that an error or an answer leads to.
LEMMA LabelsOfErrors ==
    ASSUME NEW label
    PROVE  AfterError(label) \in {"clear", "finish", "deleteStaging"}
  BY DEF AfterError

\* Requests and their answers keep IInv: they move a flow or end the process.
LEMMA RequestIInv ==
    ASSUME IInv, NEW p \in Peers, Request(p) \/ ReceiveTrustedData(p) \/ ReceiveByReference(p)
    PROVE  IInv'
  <1>2. CASE Request(p)
    <2>1. CASE Panic
      BY <2>1, DownIInv DEF Panic
    <2>2. CASE ~ Panic
      <3>1. AnswerTo[pc[p]] \in {"proofAnswer", "pointsAnswer", "headersAnswer", "utxoAnswer",
                                 "moreAnswer"}
        BY <1>2 DEF Request, Requests, AnswerTo
      <3>2. PICK label \in {AnswerTo[pc[p]], AfterError(pc[p])} : Go(p, label)
        BY <1>2, <2>2 DEF Request
      <3>3. label \in Free
        BY <3>1, <3>2, LabelsOfErrors DEF Free
      <3>4. pc[p] \notin Locked /\ pc[p] # "idle"
        BY <1>2 DEF Request, Requests, Locked
      <3> QED
        BY <1>2, <2>2, <3>2, <3>3, <3>4, MoveIInv DEF Request, db, domain
    <2> QED
      BY <2>1, <2>2
  <1>3. CASE ReceiveTrustedData(p)
    <2>1. CASE Panic
      BY <2>1, DownIInv DEF Panic
    <2>2. CASE ~ Panic
      <3>1. PICK label \in {"points", "headers"} : Go(p, label)
        BY <1>3, <2>2 DEF ReceiveTrustedData
      <3> QED
        BY <1>3, <2>2, <3>1, MoveIInv DEF ReceiveTrustedData, domain, Locked, Free
    <2> QED
      BY <2>1, <2>2
  <1>4. CASE ReceiveByReference(p)
    <2>1. PICK label \in {"check", "import", "bodies"} : Go(p, label)
      BY <1>4 DEF ReceiveByReference
    <2>2. pc[p] \in {"headersAnswer", "utxoAnswer", "moreAnswer"}
      BY <1>4 DEF ReceiveByReference
    <2> QED
      BY <1>4, <2>1, <2>2, MoveIInv DEF ReceiveByReference, domain, Locked, Free
  <1> QED
    BY <1>2, <1>3, <1>4

\* The check of the relay block and the import of the UTXO set keep IInv.
LEMMA ImportIInv ==
    ASSUME IInv, NEW p \in Peers,
           \/ CheckRelayBlock(p) \/ ImportPruningPoint(p) \/ ImportUTXOSet(p)
           \/ ClearImported(p)
    PROVE  IInv'
  <1>1. CASE Panic
    BY <1>1, DownIInv DEF Panic
  <1>2. CASE CheckRelayBlock(p) /\ ~ Panic
    <2>1. PICK label \in {"utxo", "deleteStaging"} : Go(p, label)
      BY <1>2 DEF CheckRelayBlock
    <2> QED
      BY <1>2, <2>1, MoveIInv DEF CheckRelayBlock, db, domain, Locked, Free
  <1>3. CASE ImportPruningPoint(p) /\ ~ Panic
    <2>1. PICK label \in {"importing", "clear"} : Go(p, label)
      BY <1>3 DEF ImportPruningPoint
    <2> QED
      BY <1>3, <2>1, MoveIInv DEF ImportPruningPoint, domain, Locked, Free
  <1>4. CASE ImportUTXOSet(p)
    BY <1>4, MoveIInv DEF ImportUTXOSet, domain, Locked, Free
  <1>5. CASE ClearImported(p) /\ ~ Panic
    <2>1. PICK label \in {"commit", "deleteStaging", "finish"} : Go(p, label)
      BY <1>5 DEF ClearImported
    <2> QED
      BY <1>5, <2>1, MoveIInv DEF ClearImported, domain, Locked, Free
  <1> QED
    BY <1>1, <1>2, <1>3, <1>4, <1>5

\* The bodies, a failed answer and the end of runIBD keep IInv.
LEMMA FinishIInv ==
    ASSUME IInv, NEW p \in Peers, SyncBodies(p) \/ Fail(p) \/ FinishIBD(p)
    PROVE  IInv'
  <1>1. CASE SyncBodies(p)
    BY <1>1, MoveIInv DEF SyncBodies, Return, domain, Locked, Free
  <1>2. CASE Fail(p)
    <2>1. PICK label \in {"finish", AfterError(pc[p])} : Go(p, label)
      BY <1>2 DEF Fail
    <2>2. label \in Free
      BY <2>1, LabelsOfErrors DEF Free
    <2>3. pc[p] \notin Locked /\ pc[p] # "idle"
      BY <1>2 DEF Fail, AnswerTo, Requests, Locked
    <2> QED
      BY <1>2, <2>1, <2>2, <2>3, MoveIInv DEF Fail, db, domain
  <1>3. CASE FinishIBD(p)
    <2>1. CASE Panic
      BY <2>1, DownIInv DEF Panic
    <2>2. CASE ~ Panic
      BY <1>3, <2>2, MoveIInv DEF FinishIBD, db, domain, Locked, Free
    <2> QED
      BY <2>1, <2>2
  <1> QED
    BY <1>1, <1>2, <1>3

\* The timeout leaves the labels alone: runIBD goes on.
LEMMA TimeoutIInv ==
    ASSUME IInv, NEW p \in Peers, Timeout(p)
    PROVE  IInv'
  BY DEF Timeout, db, domain, thread, IInv, ThreadsOK, LockOK, BootOK, HolderOK,
         PointersFollowTheDatabase

-----------------------------------------------------------------------------
(* The steps that take the lock, hold it or give it back.                  *)

\* A step of a flow under the lock: no other peer is at a label of Locked.
LEMMA HolderMoves ==
    ASSUME IInv, NEW p \in Peers, NEW label \in Free \union Locked, Go(p, label),
           lock = Nobody \/ pc[p] \in Locked, pc[p] # "idle",
           lock' = IF label \in Locked THEN p ELSE Nobody,
           ret' \in [Threads -> Labels], ret'[Boot] = ret[Boot],
           UNCHANGED <<node, connected>>
    PROVE  /\ ThreadsOK' /\ LockOK' /\ BootOK'
           /\ node = "up" /\ pc[Boot] = "idle" /\ pc'[Boot] = "idle"
           /\ pc'[p] = label
           /\ \A q \in Peers : q # p => pc'[q] \notin Locked
  <1>1. node = "up" /\ pc[Boot] = "idle"
    BY DEF IInv, ThreadsOK, BootOK
  <1>2. p # Boot /\ p \in Threads /\ Boot \in Threads /\ Peers \subseteq Threads
    BY ThreadsAssumption DEF Threads
  <1>3. /\ pc' \in [Threads -> Labels] /\ pc'[p] = label /\ pc'[Boot] = "idle"
        /\ \A q \in Peers : q # p => pc'[q] = pc[q]
    BY <1>1, <1>2 DEF Go, IInv, ThreadsOK, Labels
  <1>4. \A q \in Peers : q # p => pc[q] \notin Locked
    BY ThreadsAssumption DEF IInv, LockOK
  <1>5. ThreadsOK'
    BY <1>3 DEF IInv, ThreadsOK
  <1>6. LockOK'
    BY <1>3, <1>4, ThreadsAssumption DEF LockOK
  <1>7. BootOK'
    BY <1>1, <1>3 DEF BootOK
  <1> QED
    BY <1>1, <1>3, <1>4, <1>5, <1>6, <1>7

\* initStagingConsensus sets the inactive key and keeps the lock.
LEMMA InitStagingIInv ==
    ASSUME IInv, NEW p \in Peers, InitStagingConsensus(p)
    PROVE  IInv'
  <1>1. CASE inactive # None
    <2>1. PICK label \in {"deleteStaging", "finish"} : Go(p, label)
      BY <1>1 DEF InitStagingConsensus, Return
    <2> QED
      BY <1>1, <2>1, MoveIInv DEF InitStagingConsensus, Locked, Free
  <1>2. CASE inactive = None
    <2>1. /\ ThreadsOK' /\ LockOK' /\ BootOK'
          /\ node = "up" /\ pc[Boot] = "idle" /\ pc'[Boot] = "idle"
          /\ pc'[p] = "create" /\ \A q \in Peers : q # p => pc'[q] \notin Locked
      BY <1>2, HolderMoves, ZenonT(30) DEF InitStagingConsensus, Locked, IInv, ThreadsOK
    <2>2. consensus = active
      BY <2>1 DEF InitStagingConsensus, IInv, PointersFollowTheDatabase
    <2>3. HolderOK'
      BY <1>2, <2>1, <2>2 DEF InitStagingConsensus, HolderOK, Locked
    <2>4. PointersFollowTheDatabase'
      BY <1>2, ThreadsAssumption DEF InitStagingConsensus, PointersFollowTheDatabase
    <2> QED
      BY <2>1, <2>3, <2>4 DEF IInv
  <1> QED
    BY <1>1, <1>2

\* The pointer follows the inactive key before the lock is given back.
LEMMA CreateStagingIInv ==
    ASSUME IInv, NEW p \in Peers, CreateStagingConsensus(p)
    PROVE  IInv'
  <1>1. /\ ThreadsOK' /\ LockOK' /\ BootOK'
        /\ pc'[p] = "proof" /\ \A q \in Peers : q # p => pc'[q] \notin Locked
    BY HolderMoves DEF CreateStagingConsensus, Locked, Free, IInv, ThreadsOK
  <1>2. HolderOK'
    BY <1>1 DEF HolderOK, Locked
  <1>3. PointersFollowTheDatabase'
    BY DEF CreateStagingConsensus, PointersFollowTheDatabase, IInv, HolderOK
  <1> QED
    BY <1>1, <1>2, <1>3, ZenonT(30) DEF IInv

\* DeleteStagingConsensus takes the lock; without an inactive prefix nothing is deleted.
LEMMA DeleteStagingIInv ==
    ASSUME IInv, NEW p \in Peers, DeleteStagingConsensus(p)
    PROVE  IInv'
  <1>1. PICK label \in {"deletePrefix", "dropStaging"} : Go(p, label)
    BY DEF DeleteStagingConsensus, DeleteInactivePrefix
  <1>2. p # Boot /\ p \in Threads /\ Boot \in Threads
    BY ThreadsAssumption DEF Threads
  <1>3. ret' \in [Threads -> Labels] /\ ret'[Boot] = ret[Boot]
    BY <1>2, ZenonT(30) DEF DeleteStagingConsensus, DeleteInactivePrefix, IInv, ThreadsOK, Labels, Locked
  <1>4. /\ ThreadsOK' /\ LockOK' /\ BootOK'
        /\ node = "up" /\ pc[Boot] = "idle" /\ pc'[Boot] = "idle"
        /\ pc'[p] = label /\ \A q \in Peers : q # p => pc'[q] \notin Locked
    BY <1>1, <1>3, HolderMoves DEF DeleteStagingConsensus, Locked
  <1>5. consensus' = active'
    BY <1>4 DEF DeleteStagingConsensus, IInv, PointersFollowTheDatabase, db
  <1>6. /\ pc'[p] = "deletePrefix" => ret'[p] = "dropStaging"
        /\ pc'[p] = "dropStaging" => inactive' = None
    BY <1>2, <1>4, ZenonT(30) DEF DeleteStagingConsensus, DeleteInactivePrefix, Go, IInv, ThreadsOK, db
  <1>7. HolderOK'
    BY <1>1, <1>4, <1>5, <1>6, Zenon DEF HolderOK, Locked
  <1>8. PointersFollowTheDatabase'
    BY ThreadsAssumption DEF DeleteStagingConsensus, PointersFollowTheDatabase
  <1> QED
    BY <1>4, <1>7, <1>8 DEF IInv

\* The inactive key is gone when the staging pointer is reset.
LEMMA DropStagingIInv ==
    ASSUME IInv, NEW p \in Peers, DropStaging(p)
    PROVE  IInv'
  <1>1. PICK label \in {"initAgain", "finish"} : Go(p, label)
    BY Zenon DEF DropStaging
  <1>2. /\ ThreadsOK' /\ LockOK' /\ BootOK'
        /\ pc'[p] = label /\ \A q \in Peers : q # p => pc'[q] \notin Locked
    BY <1>1, HolderMoves, ZenonT(30) DEF DropStaging, Locked, Free, IInv, ThreadsOK
  <1>3. HolderOK'
    BY <1>1, <1>2 DEF HolderOK, Locked
  <1>4. PointersFollowTheDatabase'
    BY DEF DropStaging, PointersFollowTheDatabase, IInv, HolderOK, db
  <1> QED
    BY <1>2, <1>3, <1>4 DEF IInv

\* CommitStagingConsensus exchanges the keys: the staging pointer is then the active one.
LEMMA CommitStagingIInv ==
    ASSUME IInv, NEW p \in Peers, CommitStagingConsensus(p)
    PROVE  IInv'
  <1>1. CASE inactive = None
    BY <1>1, MoveIInv, Zenon DEF CommitStagingConsensus, Return, Locked, Free
  <1>2. CASE inactive # None
    <2>1. p # Boot /\ p \in Threads /\ Boot \in Threads
      BY ThreadsAssumption DEF Threads
    <2>2. ret' \in [Threads -> Labels] /\ ret'[Boot] = ret[Boot] /\ ret'[p] = "swap"
      BY <1>2, <2>1, ZenonT(30) DEF CommitStagingConsensus, IInv, ThreadsOK, Labels, Locked
    <2>3. /\ ThreadsOK' /\ LockOK' /\ BootOK'
          /\ node = "up" /\ pc[Boot] = "idle" /\ pc'[Boot] = "idle"
          /\ pc'[p] = "deletePrefix" /\ \A q \in Peers : q # p => pc'[q] \notin Locked
      BY <1>2, <2>2, HolderMoves, Zenon DEF CommitStagingConsensus, Locked
    <2>4. staging' = active'
      BY <1>2, <2>3 DEF CommitStagingConsensus, IInv, PointersFollowTheDatabase
    <2>5. HolderOK'
      BY <2>2, <2>3, <2>4 DEF HolderOK, Locked
    <2>6. PointersFollowTheDatabase'
      BY <1>2, ThreadsAssumption DEF CommitStagingConsensus, PointersFollowTheDatabase
    <2> QED
      BY <2>3, <2>5, <2>6 DEF IInv
  <1> QED
    BY <1>1, <1>2, Zenon

\* The consensus pointer is the active one again before the lock is given back.
LEMMA SwapIInv ==
    ASSUME IInv, NEW p \in Peers, SwapConsensus(p)
    PROVE  IInv'
  <1>1. /\ ThreadsOK' /\ LockOK' /\ BootOK'
        /\ pc'[p] = "bodies" /\ \A q \in Peers : q # p => pc'[q] \notin Locked
    BY HolderMoves DEF SwapConsensus, Locked, Free, IInv, ThreadsOK
  <1>2. HolderOK'
    BY <1>1 DEF HolderOK, Locked
  <1>3. PointersFollowTheDatabase'
    BY DEF SwapConsensus, PointersFollowTheDatabase, IInv, HolderOK, db
  <1> QED
    BY <1>1, <1>2, <1>3, ZenonT(30) DEF IInv

\* The entries go one by one, and with the last the key.
LEMMA DeletePrefixIInv ==
    ASSUME IInv, NEW p \in Peers, DeletePrefix(p)
    PROVE  IInv'
  <1>1. CASE snapshot[p] # {}
    BY <1>1 DEF DeletePrefix, domain, IInv, ThreadsOK, LockOK, BootOK, HolderOK,
                PointersFollowTheDatabase
  <1>2. CASE snapshot[p] = {}
    <2>1. /\ ret[p] \in {"dropStaging", "swap"}
          /\ ret[p] = "dropStaging" => consensus = active
          /\ ret[p] = "swap" => staging = active
      BY DEF DeletePrefix, IInv, HolderOK
    <2>2. lock = p /\ pc[p] \in Locked /\ pc[p] # "idle"
      BY Zenon DEF DeletePrefix, IInv, LockOK, Locked
    <2>3. /\ ThreadsOK' /\ LockOK' /\ BootOK'
          /\ pc'[p] = ret[p] /\ \A q \in Peers : q # p => pc'[q] \notin Locked
      BY <1>2, <2>1, <2>2, HolderMoves, ZenonT(30) DEF DeletePrefix, Locked, domain, IInv, ThreadsOK
    <2>4. inactive' = None /\ consensus' = consensus /\ staging' = staging /\ active' = active
      BY <1>2, Zenon DEF DeletePrefix, domain
    <2>5. HolderOK'
      BY <2>1, <2>3, <2>4, Zenon DEF HolderOK, Locked
    <2>6. PointersFollowTheDatabase'
      BY <1>2, <2>2, ThreadsAssumption, Zenon DEF DeletePrefix, domain, PointersFollowTheDatabase
    <2> QED
      BY <2>3, <2>5, <2>6, ZenonT(30) DEF IInv
  <1> QED
    BY <1>1, <1>2, Zenon

-----------------------------------------------------------------------------
(* The start of the node.                                                  *)

\* domain.New deletes the inactive prefix before it opens the active one.
LEMMA BootIInv ==
    ASSUME IInv, BootStep
    PROVE  IInv'
  <1>1. Boot \in Threads /\ Peers \subseteq Threads /\ \A q \in Peers : q # Boot
    BY ThreadsAssumption DEF Threads
  <1>2. CASE Start
    <2>1. PICK label \in {"deletePrefix", "open"} : Go(Boot, label)
      BY <1>2 DEF Start, DeleteInactivePrefix
    <2>2. /\ pc' \in [Threads -> Labels] /\ pc'[Boot] = label
          /\ \A q \in Peers : pc'[q] = pc[q] /\ pc'[q] = "idle"
      BY <1>1, <1>2, <2>1, Zenon DEF Start, Go, IInv, ThreadsOK, BootOK, Labels, Locked
    <2>3. /\ ret' \in [Threads -> Labels]
          /\ label = "deletePrefix" => ret'[Boot] = "open"
          /\ label = "open" => inactive = None
      BY <1>1, <1>2, <2>1, <2>2, SMTT(30) DEF Start, DeleteInactivePrefix, Go, IInv, ThreadsOK, Labels
    <2>4. /\ node' = "up" /\ UNCHANGED <<active, inactive, staging, lock, connected>>
          /\ connected = {} /\ staging = None
      BY <1>2, Zenon DEF Start, db, domain, IInv, BootOK
    <2>5. ThreadsOK' /\ BootOK'
      BY <2>1, <2>2, <2>3, <2>4, Zenon DEF IInv, ThreadsOK, BootOK
    <2>6. LockOK' /\ HolderOK'
      BY <2>2, <2>4 DEF IInv, ThreadsOK, LockOK, HolderOK, Locked
    <2>7. PointersFollowTheDatabase'
      BY <2>1, <2>2, Zenon DEF PointersFollowTheDatabase
    <2> QED
      BY <2>5, <2>6, <2>7 DEF IInv
  <1>3. CASE DeletePrefix(Boot) /\ snapshot[Boot] # {}
    BY <1>3 DEF DeletePrefix, domain, IInv, ThreadsOK, LockOK, BootOK, HolderOK,
                PointersFollowTheDatabase
  <1>4. CASE DeletePrefix(Boot) /\ snapshot[Boot] = {}
    <2>1. ret[Boot] = "open" /\ pc[Boot] # "idle"
      BY <1>4 DEF DeletePrefix, IInv, BootOK
    <2>2. /\ pc' \in [Threads -> Labels] /\ pc'[Boot] = "open"
          /\ \A q \in Peers : pc'[q] = pc[q] /\ pc'[q] = "idle"
      BY <1>1, <1>4, <2>1, ZenonT(30) DEF DeletePrefix, Go, IInv, ThreadsOK, BootOK, Labels
    <2>3. inactive' = None /\ UNCHANGED <<active, staging, lock, connected, node, ret>>
      BY <1>4, Zenon DEF DeletePrefix, domain
    <2>4. ThreadsOK' /\ BootOK'
      BY <2>1, <2>2, <2>3 DEF IInv, ThreadsOK, BootOK
    <2>5. LockOK' /\ HolderOK'
      BY <2>2, <2>3 DEF IInv, ThreadsOK, LockOK, HolderOK, Locked
    <2>6. PointersFollowTheDatabase'
      BY <2>2, Zenon DEF PointersFollowTheDatabase
    <2> QED
      BY <2>4, <2>5, <2>6, Zenon DEF IInv
  <1>5. CASE Open
    <2>1. inactive = None /\ staging = None /\ node = "up"
      BY <1>5 DEF Open, IInv, BootOK
    <2>2. /\ pc' \in [Threads -> Labels] /\ pc'[Boot] = "idle"
          /\ \A q \in Peers : pc'[q] = pc[q] /\ pc'[q] = "idle"
      BY <1>1, <1>5 DEF Open, Go, IInv, ThreadsOK, BootOK, Labels, Free
    <2>3. consensus' = active /\ UNCHANGED <<active, inactive, staging, lock, node, ret>>
      BY <1>5 DEF Open
    <2>4. ThreadsOK' /\ BootOK'
      BY <2>1, <2>2, <2>3 DEF IInv, ThreadsOK, BootOK
    <2>5. LockOK' /\ HolderOK'
      BY <2>2, <2>3 DEF IInv, ThreadsOK, LockOK, HolderOK, Locked
    <2>6. PointersFollowTheDatabase'
      BY <2>1, <2>3 DEF PointersFollowTheDatabase
    <2> QED
      BY <2>4, <2>5, <2>6 DEF IInv
  <1> QED
    BY <1>2, <1>3, <1>4, <1>5 DEF BootStep

-----------------------------------------------------------------------------

\* Every step keeps IInv.
LEMMA NextIInv ==
    ASSUME IInv, [Next]_vars
    PROVE  IInv'
  <1>1. CASE UNCHANGED vars
    BY <1>1 DEF vars, db, domain, thread, IInv, ThreadsOK, LockOK, BootOK, HolderOK,
                PointersFollowTheDatabase
  <1>2. CASE \E p \in Peers : StartIBD(p) \/ Step(p) \/ Fail(p) \/ Timeout(p)
    <2>1. PICK p \in Peers : StartIBD(p) \/ Step(p) \/ Fail(p) \/ Timeout(p)
      BY <1>2
    <2>2. CASE StartIBD(p) \/ Negotiate(p)
      BY <2>2, StartIBDIInv
    <2>3. CASE Request(p) \/ ReceiveTrustedData(p) \/ ReceiveByReference(p)
      BY <2>3, RequestIInv
    <2>4. CASE \/ CheckRelayBlock(p) \/ ImportPruningPoint(p) \/ ImportUTXOSet(p)
               \/ ClearImported(p)
      BY <2>4, ImportIInv
    <2>5. CASE SyncBodies(p) \/ Fail(p) \/ FinishIBD(p)
      BY <2>5, FinishIInv
    <2>6. CASE Timeout(p)
      BY <2>6, TimeoutIInv
    <2>7. CASE InitStagingConsensus(p)
      BY <2>7, InitStagingIInv
    <2>8. CASE CreateStagingConsensus(p)
      BY <2>8, CreateStagingIInv
    <2>9. CASE DeleteStagingConsensus(p)
      BY <2>9, DeleteStagingIInv
    <2>10. CASE DeletePrefix(p)
      BY <2>10, DeletePrefixIInv
    <2>11. CASE DropStaging(p)
      BY <2>11, DropStagingIInv
    <2>12. CASE CommitStagingConsensus(p)
      BY <2>12, CommitStagingIInv
    <2>13. CASE SwapConsensus(p)
      BY <2>13, SwapIInv
    <2> QED
      BY <2>1, <2>2, <2>3, <2>4, <2>5, <2>6, <2>7, <2>8, <2>9, <2>10, <2>11, <2>12, <2>13
      DEF Step
  <1>3. CASE BootStep
    BY <1>3, BootIInv
  <1>4. CASE Crash
    BY <1>4, DownIInv DEF Crash
  <1> QED
    BY <1>1, <1>2, <1>3, <1>4, ZenonT(30) DEF Next

\* Outside stagingConsensusLock, domain.consensus is the instance over the active prefix
\* and there is a staging consensus exactly when there is an inactive prefix, however the
\* IBDs of any number of peers, their timeouts and crashes interleave (domain.go).
THEOREM PointersAlwaysFollow == Spec => []PointersFollowTheDatabase
  <1>1. Init => IInv
    BY InitIInv
  <1>2. IInv /\ [Next]_vars => IInv'
    BY NextIInv
  <1>3. IInv => PointersFollowTheDatabase
    BY DEF IInv
  <1> QED
    BY <1>1, <1>2, <1>3, PTL DEF Spec

-----------------------------------------------------------------------------
(* What the prefixes hold: the invariant and the steps of the download.    *)

\* The labels at which the flow has a staging consensus, by how much of it is there.
Staged == {"proof", "proofAnswer", "points", "pointsAnswer", "headers", "headersAnswer",
           "check", "utxo", "utxoAnswer", "import", "importing", "clear", "commit"}
WithProof == Staged \ {"proof", "proofAnswer"}
WithPoints == WithProof \ {"points", "pointsAnswer"}
WithHeaders == WithPoints \ {"headers", "headersAnswer"}

CountOK == count \in [ibds : Nat, faults : Nat, timeouts : Nat, crashes : Nat]

\* Only the flow of ibdPeer is at work, and no error is one that HandleError panics on.
OneIBD ==
    /\ ~panicked /\ abandoned = {}
    /\ \A p \in Peers : pc[p] # "idle" => ibdPeer = p
    /\ ref \in [Threads -> Prefixes \union {None}]
    /\ snapshot \in [Threads -> SUBSET Entries]
    /\ result \in [Threads -> {"ok", "error"}]

\* The database between any two steps.
StoreOK ==
    /\ active \in Prefixes /\ inactive \in {None, Flip(active)}
    /\ data \subseteq Entries
    /\ Complete(active) /\ ~Has(active, "importing")
    /\ inactive = None => Under(Flip(active)) = {}

\* The cursor of a deletion has still to meet all that is left of the prefix.
DeletionOK(t) ==
    pc[t] = "deletePrefix" => inactive # None /\ snapshot[t] = Under(inactive)

\* What the flow has put into its staging consensus, and that nobody else did.
StagingOK(p) ==
    pc[p] \in Staged =>
        /\ inactive # None
        /\ \A e \in Under(inactive) : e[3] = p
        /\ <<inactive, "base", p>> \in data
        /\ pc[p] \in WithProof => <<inactive, "proof", p>> \in data
        /\ pc[p] \in WithPoints => <<inactive, "points", p>> \in data
        /\ pc[p] \in WithHeaders => <<inactive, "headers", p>> \in data
        /\ pc[p] \in {"import", "importing"} => <<inactive, "imported", p>> \in data
        /\ Has(inactive, "importing") <=> pc[p] = "importing"
        /\ pc[p] = "commit" \/ (pc[p] = "clear" /\ result[p] = "ok") =>
               <<inactive, "utxo", p>> \in data
        /\ pc[p] \in {"headersAnswer", "utxoAnswer", "importing"} => ref[p] = inactive

\* What a flow relies on at its label.
FlowOK(p) ==
    /\ pc[p] = "create" => inactive # None /\ Under(inactive) = {}
    /\ pc[p] = "initAgain" => inactive = None
    /\ pc[p] = "moreAnswer" => ref[p] = active
    /\ StagingOK(p)

\* What holds until an IBD times out.
Calm ==
    /\ OneIBD /\ StoreOK
    /\ \A t \in Threads : DeletionOK(t)
    /\ \A p \in Peers : FlowOK(p)

\* With IInv, the inductive invariant.
DInv == CountOK /\ (count.timeouts = 0 => Calm)
-----------------------------------------------------------------------------
(* What the steps have in common.                                          *)

\* The labels at which a flow knows nothing of the staging consensus.
Plain == {"idle", "negotiate", "init", "deleteStaging", "dropStaging", "swap", "more",
          "bodies", "finish"}

\* A flow that is not idle is the only thread at work, and outside the lock it finds the
\* pointers as the database has them.
LEMMA Alone ==
    ASSUME IInv, Calm, NEW p \in Peers, pc[p] # "idle"
    PROVE  /\ ibdPeer = p /\ node = "up"
           /\ \A t \in Threads : t # p => pc[t] = "idle"
           /\ pc[p] \notin Locked => consensus = active /\ staging = inactive /\ lock = Nobody
  <1>1. node = "up" /\ pc[Boot] = "idle"
    BY DEF IInv, ThreadsOK, BootOK
  <1>2. ibdPeer = p /\ \A q \in Peers : q # p => pc[q] = "idle"
    BY DEF Calm, OneIBD
  <1>3. \A t \in Threads : t # p => pc[t] = "idle"
    BY <1>1, <1>2 DEF Threads
  <1>4. pc[p] \notin Locked => lock = Nobody
    BY <1>2 DEF IInv, ThreadsOK, LockOK, Locked
  <1> QED
    BY <1>1, <1>2, <1>3, <1>4 DEF IInv, PointersFollowTheDatabase

\* Only the thread that took the step can have broken what holds of threads.
LEMMA OneThread ==
    ASSUME NEW p \in Peers, \A t \in Threads : t # p => pc'[t] = "idle",
           OneIBD', StoreOK', DeletionOK(p)', FlowOK(p)'
    PROVE  Calm'
  <1>1. \A t \in Threads : DeletionOK(t)'
    BY ZenonT(30) DEF DeletionOK
  <1>2. \A q \in Peers : q # p => FlowOK(q)'
    BY DEF FlowOK, StagingOK, Threads, Staged
  <1> QED
    BY <1>1, <1>2 DEF Calm

\* At a plain label there is nothing to show of the flow.
LEMMA PlainLabel ==
    ASSUME NEW p \in Peers, \A t \in Threads : t # p => pc'[t] = "idle",
           OneIBD', StoreOK', pc'[p] \in Plain
    PROVE  Calm'
  <1>1. DeletionOK(p)'
    BY Zenon DEF DeletionOK, Plain
  <1>2. FlowOK(p)'
    BY DEF FlowOK, StagingOK, Staged, Plain
  <1> QED
    BY <1>1, <1>2, OneThread

\* The other prefix of a prefix.
LEMMA FlipTwice ==
    ASSUME NEW x \in Prefixes
    PROVE  Flip(x) \in Prefixes /\ Flip(Flip(x)) = x /\ x # None
  BY PrefixesAssumption DEF Prefixes, Flip

\* A step that writes neither keys nor entries keeps StoreOK.
LEMMA StoreSame ==
    ASSUME StoreOK, UNCHANGED <<active, inactive, data>>
    PROVE  StoreOK'
  BY DEF StoreOK, Complete, Has, Under

\* So does one that leaves the entries of the active prefix alone, while the other
\* prefix is in use.
LEMMA StoreElsewhere ==
    ASSUME StoreOK, UNCHANGED <<active, inactive>>, inactive # None,
           data' \subseteq Entries, Under(active)' = Under(active)
    PROVE  StoreOK'
  <1>1. \A e : e[1] = active => (e \in data' <=> e \in data)
    BY DEF Under
  <1>2. Complete(active)'
    <2>1. PICK w \in Peers \union {Nobody} :
              /\ \A part \in Parts : <<active, part, w>> \in data
              /\ \A e \in Under(active) : e[2] \in Parts => e[3] = w
      BY DEF StoreOK, Complete
    <2>2. \A part \in Parts : <<active', part, w>> \in data'
      BY <1>1, <2>1
    <2>3. \A e \in Under(active)' : e[2] \in Parts => e[3] = w
      BY <2>1
    <2> QED
      BY <2>2, <2>3 DEF Complete
  <1>3. ~Has(active, "importing")'
    BY <1>1 DEF StoreOK, Has
  <1> QED
    BY <1>2, <1>3 DEF StoreOK

\* And one that adds to the active prefix what is no part of a consensus.
LEMMA StoreMore ==
    ASSUME StoreOK, UNCHANGED <<active, inactive>>, NEW p \in Peers,
           NEW part \in {"more", "bodies"}, data' = data \union {<<active, part, p>>}
    PROVE  StoreOK'
  <1>1. data' \subseteq Entries
    BY DEF StoreOK, Entries
  <1>2. Complete(active)'
    BY DEF StoreOK, Complete, Under, Parts
  <1>3. ~Has(active, "importing")'
    BY DEF StoreOK, Has
  <1>4. inactive' = None => Under(Flip(active))' = {}
    BY DEF StoreOK, Under, Prefixes, Flip
  <1> QED
    BY <1>1, <1>2, <1>3, <1>4 DEF StoreOK
-----------------------------------------------------------------------------
(* Init, and the steps that write no entry.                                *)

\* The node starts with the first consensus under prefix 0.
LEMMA InitDInv == Init => DInv
  <1> SUFFICES ASSUME Init PROVE DInv
    OBVIOUS
  <1>1. CountOK
    BY DEF Init, CountOK
  <1>2. OneIBD
    BY DEF Init, OneIBD, Threads
  <1>3. StoreOK
    <2>1. data \subseteq Entries
      BY DEF Init, Entries, Prefixes
    <2>2. \A e \in data : e[1] = 0 /\ e[2] \in Parts /\ e[3] = Nobody
      BY DEF Init
    <2>3. Complete(active)
      BY <2>2 DEF Init, Complete, Under
    <2>4. ~Has(active, "importing")
      BY <2>2 DEF Has, Parts
    <2>5. Under(Flip(active)) = {}
      BY <2>2 DEF Init, Under, Flip
    <2> QED
      BY <2>1, <2>3, <2>4, <2>5, Zenon DEF Init, StoreOK, Prefixes
  <1>4. \A t \in Threads : DeletionOK(t)
    BY Zenon DEF Init, DeletionOK
  <1>5. \A p \in Peers : FlowOK(p)
    BY DEF Init, FlowOK, StagingOK, Staged, Threads
  <1> QED
    BY <1>1, <1>2, <1>3, <1>4, <1>5 DEF DInv, Calm

\* StartIBD, Negotiate and FinishIBD keep Calm: a flow moves between plain labels.
LEMMA RunCalm ==
    ASSUME IInv, Calm, NEW p \in Peers, StartIBD(p) \/ Negotiate(p) \/ FinishIBD(p)
    PROVE  Calm'
  <1>1. p \in Threads /\ Boot \in Threads /\ pc \in [Threads -> Labels]
    BY DEF Threads, IInv, ThreadsOK
  <1>2. \A t \in Threads : t # p => pc[t] = "idle"
    <2>1. CASE StartIBD(p)
      <3>1. \A q \in Peers : pc[q] = "idle"
        BY <2>1, ThreadsAssumption DEF StartIBD, Calm, OneIBD
      <3>2. pc[Boot] = "idle"
        BY <2>1, Zenon DEF StartIBD, IInv, BootOK
      <3> QED
        BY <3>1, <3>2 DEF Threads
    <2>2. CASE Negotiate(p) \/ FinishIBD(p)
      BY <2>2, Alone DEF Negotiate, FinishIBD
    <2> QED
      BY <2>1, <2>2
  <1>3. result[p] # "fatal"
    BY <1>1 DEF Calm, OneIBD
  <1>4. /\ \A t \in Threads : t # p => pc'[t] = "idle"
        /\ pc'[p] \in Plain
    BY <1>1, <1>2, <1>3 DEF StartIBD, Negotiate, FinishIBD, Go, Plain
  <1>5. UNCHANGED <<active, inactive, data, snapshot, abandoned, panicked>>
    BY <1>3 DEF StartIBD, Negotiate, FinishIBD, db
  <1>6. /\ ref' \in [Threads -> Prefixes \union {None}]
        /\ result' \in [Threads -> {"ok", "error"}]
    BY <1>3 DEF StartIBD, Negotiate, FinishIBD, Calm, OneIBD
  <1>7. \A q \in Peers : pc'[q] # "idle" => ibdPeer' = q
    <2>1. CASE StartIBD(p)
      BY <2>1, <1>4, ZenonT(30) DEF StartIBD, Threads
    <2>2. CASE Negotiate(p)
      BY <2>2, <1>4, Alone DEF Negotiate, Threads
    <2>3. CASE FinishIBD(p)
      <3>1. pc'[p] = "idle"
        BY <2>3, <1>1, <1>3, ZenonT(30) DEF FinishIBD, Go
      <3> QED
        BY <3>1, <1>4 DEF Threads
    <2> QED
      BY <2>1, <2>2, <2>3
  <1>8. OneIBD'
    BY <1>5, <1>6, <1>7 DEF Calm, OneIBD
  <1>9. StoreOK'
    BY <1>5, StoreSame DEF Calm
  <1> QED
    BY <1>4, <1>8, <1>9, PlainLabel

\* A crash and a panic leave the database, and nothing that could write to it.
LEMMA DownCalm ==
    ASSUME Calm, Down, UNCHANGED panicked
    PROVE  Calm'
  <1>1. \A t \in Threads : pc'[t] = "idle"
    BY Zenon DEF Down
  <1>2. OneIBD'
    BY <1>1 DEF Down, Calm, OneIBD, Threads
  <1>3. StoreOK'
    BY StoreSame, Zenon DEF Down, Calm, db
  <1>4. \A t \in Threads : DeletionOK(t)'
    BY <1>1 DEF DeletionOK
  <1>5. \A p \in Peers : FlowOK(p)'
    BY <1>1, ZenonT(30) DEF FlowOK, StagingOK, Staged, Threads
  <1> QED
    BY <1>2, <1>3, <1>4, <1>5 DEF Calm

\* A step of a flow that is at work: it stays the only one.
LEMMA FlowStep ==
    ASSUME IInv, Calm, NEW p \in Peers, pc[p] # "idle", NEW label, Go(p, label),
           UNCHANGED <<ibdPeer, abandoned, panicked>>,
           ref' \in [Threads -> Prefixes \union {None}],
           snapshot' \in [Threads -> SUBSET Entries],
           result' \in [Threads -> {"ok", "error"}]
    PROVE  /\ OneIBD' /\ pc'[p] = label
           /\ \A t \in Threads : t # p => pc'[t] = "idle"
  <1>1. p \in Threads /\ pc \in [Threads -> Labels]
    BY DEF Threads, IInv, ThreadsOK
  <1>2. pc'[p] = label /\ \A t \in Threads : t # p => pc'[t] = "idle"
    BY <1>1, Alone, ZenonT(30) DEF Go
  <1>3. \A q \in Peers : pc'[q] # "idle" => ibdPeer' = q
    BY <1>2, Alone DEF Threads
  <1> QED
    BY <1>2, <1>3 DEF Calm, OneIBD

-----------------------------------------------------------------------------
(* The download into the staging consensus.                                *)

\* Request keeps Calm: a flow at a staging label has a staging consensus to hand to the
\* call, so nothing panics.
LEMMA RequestCalm ==
    ASSUME IInv, Calm, NEW p \in Peers, Request(p)
    PROVE  Calm'
  <1>1. pc[p] \in Requests /\ pc[p] # "idle" /\ pc[p] \notin Locked /\ p \in Threads
    BY DEF Request, Requests, Locked, Threads
  <1>2. consensus = active /\ staging = inactive
    BY <1>1, Alone
  <1>3. pc[p] # "more" => pc[p] \in Staged /\ inactive # None
    BY <1>1, Zenon DEF Requests, Staged, Calm, FlowOK, StagingOK
  <1>4. ~(pc[p] \in {"headers", "utxo"} /\ staging = None)
    BY <1>2, <1>3
  <1>5. /\ UNCHANGED <<active, inactive, data, snapshot, ibdPeer, abandoned, panicked>>
        /\ \/ /\ ref' = [ref EXCEPT ![p] = CASE pc[p] \in {"headers", "utxo"} -> staging
                                             [] pc[p] = "more" -> consensus
                                             [] OTHER -> @]
              /\ Go(p, AnswerTo[pc[p]]) /\ UNCHANGED result
           \/ /\ Go(p, AfterError(pc[p])) /\ UNCHANGED ref
              /\ result' = [result EXCEPT ![p] = "error"]
    BY <1>4 DEF Request, db
  <1>6. active \in Prefixes /\ inactive \in Prefixes \union {None}
    BY DEF Calm, StoreOK, Prefixes, Flip
  <1>7. StoreOK'
    BY <1>5, StoreSame DEF Calm
  <1>8. CASE Go(p, AfterError(pc[p])) /\ UNCHANGED ref /\ result' = [result EXCEPT ![p] = "error"]
    <2>1. /\ OneIBD' /\ pc'[p] = AfterError(pc[p])
          /\ \A t \in Threads : t # p => pc'[t] = "idle"
      BY <1>1, <1>5, <1>8, FlowStep, Zenon DEF Calm, OneIBD
    <2>2. CASE pc[p] # "utxo"
      <3>1. pc'[p] \in {"finish", "deleteStaging"}
        BY <1>1, <2>1, <2>2, Zenon DEF AfterError, Requests
      <3> QED
        BY <1>7, <2>1, <3>1, PlainLabel DEF Plain
    <2>3. CASE pc[p] = "utxo"
      <3>1. pc'[p] = "clear" /\ result'[p] = "error"
        BY <1>1, <1>8, <2>1, <2>3 DEF AfterError, Calm, OneIBD
      <3>2. FlowOK(p)'
        BY <1>5, <2>3, <3>1, ZenonT(30)
        DEF Calm, FlowOK, StagingOK, Under, Has, Staged, WithProof, WithPoints, WithHeaders
      <3> QED
        BY <1>7, <2>1, <3>1, <3>2, OneThread DEF DeletionOK
    <2> QED
      BY <2>2, <2>3
  <1>9. CASE /\ ref' = [ref EXCEPT ![p] = CASE pc[p] \in {"headers", "utxo"} -> staging
                                            [] pc[p] = "more" -> consensus
                                            [] OTHER -> @]
             /\ Go(p, AnswerTo[pc[p]]) /\ UNCHANGED result
    <2>1. /\ ref' \in [Threads -> Prefixes \union {None}]
          /\ pc[p] \in {"headers", "utxo"} => ref'[p] = inactive
          /\ pc[p] = "more" => ref'[p] = active
      BY <1>1, <1>2, <1>6, <1>9 DEF Calm, OneIBD
    <2>2. /\ OneIBD' /\ pc'[p] = AnswerTo[pc[p]]
          /\ \A t \in Threads : t # p => pc'[t] = "idle"
      BY <1>1, <1>5, <1>9, <2>1, FlowStep DEF Calm, OneIBD
    <2>3. \/ pc[p] = "proof" /\ pc'[p] = "proofAnswer"
          \/ pc[p] = "points" /\ pc'[p] = "pointsAnswer"
          \/ pc[p] = "headers" /\ pc'[p] = "headersAnswer"
          \/ pc[p] = "utxo" /\ pc'[p] = "utxoAnswer"
          \/ pc[p] = "more" /\ pc'[p] = "moreAnswer"
      BY <1>1, <2>2 DEF Requests, AnswerTo
    <2>4. FlowOK(p)'
      BY <1>5, <2>1, <2>3, ZenonT(30)
      DEF Calm, FlowOK, StagingOK, Under, Has, Staged, WithProof, WithPoints, WithHeaders
    <2> QED
      BY <1>7, <2>2, <2>3, <2>4, OneThread DEF DeletionOK
  <1> QED
    BY <1>5, <1>8, <1>9

\* Fail keeps Calm: an error leads to a plain label, or to the clearing of the imported set.
LEMMA FailCalm ==
    ASSUME IInv, Calm, NEW p \in Peers, Fail(p)
    PROVE  Calm'
  <1>1. /\ pc[p] \in {"negotiate", "bodies", "proofAnswer", "pointsAnswer", "headersAnswer",
                      "utxoAnswer", "moreAnswer"}
        /\ p \in Threads
    BY DEF Fail, AnswerTo, Requests, Threads
  <1>2. UNCHANGED <<active, inactive, data, ref, snapshot, ibdPeer, abandoned, panicked>>
    BY DEF Fail, db
  <1>3. result' \in [Threads -> {"ok", "error"}] /\ result'[p] = "error"
    BY <1>1 DEF Fail, Calm, OneIBD
  <1>4. PICK label \in {"finish", AfterError(pc[p])} : Go(p, label)
    BY ZenonT(30) DEF Fail
  <1>5. /\ OneIBD' /\ pc'[p] = label
        /\ \A t \in Threads : t # p => pc'[t] = "idle"
    BY <1>1, <1>2, <1>3, <1>4, FlowStep, Zenon DEF Calm, OneIBD
  <1>6. StoreOK'
    BY <1>2, StoreSame DEF Calm
  <1>7. \/ pc'[p] \in Plain
        \/ pc[p] = "utxoAnswer" /\ pc'[p] = "clear"
    BY <1>1, <1>4, <1>5, ZenonT(30) DEF AfterError, Plain
  <1>8. CASE pc[p] = "utxoAnswer" /\ pc'[p] = "clear"
    <2>1. FlowOK(p)'
      BY <1>2, <1>3, <1>8, ZenonT(30)
      DEF Calm, FlowOK, StagingOK, Under, Has, Staged, WithProof, WithPoints, WithHeaders
    <2> QED
      BY <1>5, <1>6, <1>8, <2>1, OneThread DEF DeletionOK
  <1> QED
    BY <1>5, <1>6, <1>7, <1>8, PlainLabel

\* An inactive prefix that exists is the other one.
LEMMA InactivePrefix ==
    ASSUME StoreOK, inactive # None
    PROVE  /\ active \in Prefixes /\ inactive \in Prefixes
           /\ inactive = Flip(active) /\ inactive # active
  <1>1. active \in Prefixes /\ inactive = Flip(active)
    BY Zenon DEF StoreOK
  <1>2. ASSUME NEW a \in {0, 1} PROVE 1 - a \in {0, 1} /\ 1 - a # a
    OBVIOUS
  <1> QED
    BY <1>1, <1>2, Zenon DEF Prefixes, Flip

\* An entry under the inactive prefix leaves the active one as it is.
LEMMA StoreStaged ==
    ASSUME StoreOK, UNCHANGED <<active, inactive>>, inactive # None, NEW p \in Peers,
           NEW part \in Parts \union {"imported", "importing"},
           data' = data \union {<<inactive, part, p>>}
    PROVE  StoreOK'
  <1>1. active \in Prefixes /\ inactive = Flip(active) /\ inactive # active
        /\ inactive \in Prefixes
    BY InactivePrefix, Zenon
  <1>2. data' \subseteq Entries
    BY <1>1 DEF StoreOK, Entries
  <1>3. Under(active)' = Under(active)
    BY <1>1 DEF Under
  <1> QED
    BY <1>2, <1>3, StoreElsewhere

\* Such an entry by the IBD that owns the staging consensus leaves it its own.
LEMMA StagedGrows ==
    ASSUME NEW p \in Peers, pc[p] \in Staged, FlowOK(p), UNCHANGED inactive,
           NEW part \in Parts \union {"imported", "importing"},
           data' = data \union {<<inactive, part, p>>}
    PROVE  /\ <<inactive, part, p>> \in data' /\ data \subseteq data'
           /\ \A e \in Under(inactive)' : e[3] = p
           /\ Has(inactive, "importing")' <=> part = "importing" \/ pc[p] = "importing"
  <1>1. \A e \in Under(inactive) : e[3] = p
    BY Zenon DEF FlowOK, StagingOK
  <1>2. Has(inactive, "importing") <=> pc[p] = "importing"
    BY DEF FlowOK, StagingOK
  <1>3. \A e \in Under(inactive)' : e[3] = p
    BY <1>1 DEF Under
  <1>4. Has(inactive, "importing")' <=> part = "importing" \/ Has(inactive, "importing")
    <2>1. \A e : e \in data' <=> e \in data \/ e = <<inactive, part, p>>
      OBVIOUS
    <2>2. ASSUME part = "importing" \/ Has(inactive, "importing")
          PROVE  Has(inactive, "importing")'
      <3>1. CASE Has(inactive, "importing")
        BY <2>1, <3>1 DEF Has
      <3>2. CASE part = "importing"
        <4>1. <<inactive, "importing", p>> \in data'
          BY <3>2
        <4> QED
          BY <4>1 DEF Has
      <3> QED
        BY <2>2, <3>1, <3>2
    <2>3. ASSUME Has(inactive, "importing")'
          PROVE  part = "importing" \/ Has(inactive, "importing")
      BY <2>1, <2>3 DEF Has
    <2> QED
      BY <2>2, <2>3
  <1> QED
    BY <1>2, <1>3, <1>4, Zenon

\* ReceiveTrustedData keeps Calm: the answer goes to the staging consensus of this IBD.
LEMMA ReceiveTrustedDataCalm ==
    ASSUME IInv, Calm, NEW p \in Peers, ReceiveTrustedData(p)
    PROVE  Calm'
  <1>1. /\ pc[p] \in {"proofAnswer", "pointsAnswer"} /\ pc[p] # "idle" /\ pc[p] \notin Locked
        /\ pc[p] \in Staged
    BY DEF ReceiveTrustedData, Locked, Staged
  <1>2. staging = inactive /\ inactive # None /\ FlowOK(p)
    BY <1>1, Alone, Zenon DEF Calm, FlowOK, StagingOK
  <1>3. /\ UNCHANGED <<active, inactive, ref, snapshot, result, ibdPeer, abandoned, panicked>>
        /\ data' = data \union
                   {<<inactive, IF pc[p] = "proofAnswer" THEN "proof" ELSE "points", p>>}
        /\ Go(p, IF pc[p] = "proofAnswer" THEN "points" ELSE "headers")
    BY <1>2, ZenonT(30) DEF ReceiveTrustedData
  <1>4. /\ OneIBD' /\ pc'[p] = IF pc[p] = "proofAnswer" THEN "points" ELSE "headers"
        /\ \A t \in Threads : t # p => pc'[t] = "idle"
    BY <1>1, <1>3, FlowStep, ZenonT(30) DEF Calm, OneIBD
  <1>5. StoreOK'
    BY <1>2, <1>3, StoreStaged DEF Calm, Parts
  <1>6. /\ data \subseteq data' /\ \A e \in Under(inactive)' : e[3] = p
        /\ ~Has(inactive, "importing")'
    <2>1. PICK part \in {"proof", "points"} : data' = data \union {<<inactive, part, p>>}
      BY <1>3, ZenonT(30)
    <2> QED
      BY <1>1, <1>2, <1>3, <2>1, StagedGrows, Zenon DEF Parts
  <1>7. FlowOK(p)'
    BY <1>1, <1>2, <1>3, <1>4, <1>6, ZenonT(30)
    DEF FlowOK, StagingOK, Staged, WithProof, WithPoints, WithHeaders
  <1> QED
    BY <1>4, <1>5, <1>7, OneThread, Zenon DEF DeletionOK

\* ReceiveByReference keeps Calm: the consensus that the call was given is still the
\* staging one, or the active one of an IBD without a proof.
LEMMA ReceiveByReferenceCalm ==
    ASSUME IInv, Calm, NEW p \in Peers, ReceiveByReference(p)
    PROVE  Calm'
  <1>1. \/ /\ pc[p] = "headersAnswer" /\ Go(p, "check")
           /\ data' = data \union {<<ref[p], "headers", p>>}
        \/ /\ pc[p] = "utxoAnswer" /\ Go(p, "import")
           /\ data' = data \union {<<ref[p], "imported", p>>}
        \/ /\ pc[p] = "moreAnswer" /\ Go(p, "bodies")
           /\ data' = data \union {<<ref[p], "more", p>>}
    BY DEF ReceiveByReference
  <1>2. UNCHANGED <<active, inactive, ref, snapshot, result, ibdPeer, abandoned, panicked>>
    BY ZenonT(30) DEF ReceiveByReference
  <1>3. PICK label \in {"check", "import", "bodies"} : Go(p, label)
    BY <1>1, ZenonT(30)
  <1>4. /\ OneIBD' /\ pc'[p] = label
        /\ \A t \in Threads : t # p => pc'[t] = "idle"
    BY <1>1, <1>2, <1>3, FlowStep DEF Calm, OneIBD
  <1>5. CASE pc[p] = "moreAnswer"
    <2>1. ref[p] = active
      BY <1>5, ZenonT(30) DEF Calm, FlowOK
    <2>2. pc'[p] = "bodies"
      BY <1>1, <1>2, <1>5, FlowStep, ZenonT(30) DEF Calm, OneIBD
    <2>3. data' = data \union {<<active, "more", p>>}
      BY <1>1, <1>5, <2>1
    <2>4. StoreOK'
      BY <1>2, <2>3, StoreMore, ZenonT(30) DEF Calm
    <2> QED
      BY <1>4, <2>2, <2>4, PlainLabel, Zenon DEF Plain
  <1>6. CASE pc[p] \in {"headersAnswer", "utxoAnswer"}
    <2>1. inactive # None /\ ref[p] = inactive
      BY <1>6, ZenonT(30) DEF Calm, FlowOK, StagingOK, Staged
    <2>2. \/ /\ pc[p] = "headersAnswer" /\ pc'[p] = "check"
             /\ data' = data \union {<<inactive, "headers", p>>}
          \/ /\ pc[p] = "utxoAnswer" /\ pc'[p] = "import"
             /\ data' = data \union {<<inactive, "imported", p>>}
      BY <1>1, <1>2, <1>6, <2>1, FlowStep, ZenonT(30) DEF Calm, OneIBD
    <2>3. StoreOK'
      BY <1>2, <2>1, <2>2, StoreStaged, Zenon DEF Calm, Parts
    <2>4. PICK part \in {"headers", "imported"} : data' = data \union {<<inactive, part, p>>}
      BY <2>2
    <2>5. FlowOK(p) /\ pc[p] \in Staged
      BY <1>6, Zenon DEF Calm, Staged
    <2>6. /\ data \subseteq data' /\ \A e \in Under(inactive)' : e[3] = p
          /\ ~Has(inactive, "importing")'
      BY <1>2, <1>6, <2>4, <2>5, StagedGrows, ZenonT(30) DEF Parts
    <2>7. FlowOK(p)'
      BY <1>2, <2>1, <2>2, <2>5, <2>6, ZenonT(30)
      DEF FlowOK, StagingOK, Staged, WithProof, WithPoints, WithHeaders
    <2> QED
      BY <1>4, <2>2, <2>3, <2>7, OneThread, Zenon DEF DeletionOK
  <1> QED
    BY <1>1, <1>5, <1>6, ZenonT(30)

\* CheckRelayBlock keeps Calm: it moves the flow on, or gives the staging consensus up.
LEMMA CheckRelayBlockCalm ==
    ASSUME IInv, Calm, NEW p \in Peers, CheckRelayBlock(p)
    PROVE  Calm'
  <1>1. pc[p] = "check" /\ pc[p] # "idle" /\ pc[p] \notin Locked /\ pc[p] \in Staged
    BY Zenon DEF CheckRelayBlock, Locked, Staged
  <1>2. staging = inactive /\ inactive # None
    BY <1>1, Alone, Zenon DEF Calm, FlowOK, StagingOK
  <1>3. /\ UNCHANGED <<active, inactive, data, ref, snapshot, ibdPeer, abandoned, panicked>>
        /\ \/ Go(p, "utxo") /\ UNCHANGED result
           \/ Go(p, "deleteStaging") /\ result' = [result EXCEPT ![p] = "error"]
    BY <1>2 DEF CheckRelayBlock, db
  <1>4. PICK label \in {"utxo", "deleteStaging"} : Go(p, label)
    BY <1>3
  <1>5. /\ OneIBD' /\ pc'[p] = label
        /\ \A t \in Threads : t # p => pc'[t] = "idle"
    BY <1>1, <1>3, <1>4, FlowStep, Zenon DEF Calm, OneIBD
  <1>6. StoreOK'
    BY <1>3, StoreSame DEF Calm
  <1>7. CASE label = "utxo"
    <2>1. FlowOK(p)'
      BY <1>1, <1>3, <1>5, <1>7, ZenonT(30)
      DEF Calm, FlowOK, StagingOK, Under, Has, Staged, WithProof, WithPoints, WithHeaders
    <2> QED
      BY <1>5, <1>6, <1>7, <2>1, OneThread, Zenon DEF DeletionOK
  <1>8. CASE label = "deleteStaging"
    BY <1>5, <1>6, <1>8, PlainLabel DEF Plain
  <1> QED
    BY <1>7, <1>8

\* ImportPruningPoint keeps Calm: the key that says an import has begun is written to the
\* staging consensus, never to the active one.
LEMMA ImportPruningPointCalm ==
    ASSUME IInv, Calm, NEW p \in Peers, ImportPruningPoint(p)
    PROVE  Calm'
  <1>1. /\ pc[p] = "import" /\ pc[p] # "idle" /\ pc[p] \notin Locked /\ pc[p] \in Staged
        /\ p \in Threads
    BY DEF ImportPruningPoint, Locked, Staged, Threads
  <1>2. staging = inactive /\ inactive # None /\ inactive \in Prefixes /\ FlowOK(p)
    <2>1. staging = inactive /\ inactive # None /\ FlowOK(p)
      BY <1>1, Alone, Zenon DEF Calm, FlowOK, StagingOK
    <2>2. inactive \in Prefixes
      BY <2>1 DEF Calm, StoreOK, Prefixes, Flip
    <2> QED
      BY <2>1, <2>2
  <1>3. /\ UNCHANGED <<active, inactive, snapshot, ibdPeer, abandoned, panicked>>
        /\ \/ /\ data' = data \union {<<inactive, "importing", p>>}
              /\ ref' = [ref EXCEPT ![p] = inactive]
              /\ Go(p, "importing") /\ UNCHANGED result
           \/ /\ result' = [result EXCEPT ![p] = "error"]
              /\ Go(p, "clear") /\ UNCHANGED <<data, ref>>
    BY <1>2, ZenonT(30) DEF ImportPruningPoint
  <1>4. CASE /\ data' = data \union {<<inactive, "importing", p>>}
             /\ ref' = [ref EXCEPT ![p] = inactive]
             /\ Go(p, "importing") /\ UNCHANGED result
    <2>1. ref' \in [Threads -> Prefixes \union {None}] /\ ref'[p] = inactive
      BY <1>1, <1>2, <1>4, ZenonT(30) DEF Calm, OneIBD
    <2>2. /\ OneIBD' /\ pc'[p] = "importing"
          /\ \A t \in Threads : t # p => pc'[t] = "idle"
      BY <1>1, <1>3, <1>4, <2>1, FlowStep, ZenonT(30) DEF Calm, OneIBD
    <2>3. StoreOK'
      BY <1>2, <1>3, <1>4, StoreStaged DEF Calm
    <2>4. /\ data \subseteq data' /\ \A e \in Under(inactive)' : e[3] = p
          /\ Has(inactive, "importing")'
      BY <1>1, <1>2, <1>3, <1>4, StagedGrows, ZenonT(30)
    <2>5. FlowOK(p)'
      BY <1>1, <1>2, <1>3, <2>1, <2>2, <2>4, ZenonT(30)
      DEF FlowOK, StagingOK, Staged, WithProof, WithPoints, WithHeaders
    <2> QED
      BY <2>2, <2>3, <2>5, OneThread DEF DeletionOK
  <1>5. CASE /\ result' = [result EXCEPT ![p] = "error"]
             /\ Go(p, "clear") /\ UNCHANGED <<data, ref>>
    <2>1. result' \in [Threads -> {"ok", "error"}] /\ result'[p] = "error"
      BY <1>1, <1>5, ZenonT(30) DEF Calm, OneIBD
    <2>2. /\ OneIBD' /\ pc'[p] = "clear"
          /\ \A t \in Threads : t # p => pc'[t] = "idle"
      BY <1>1, <1>3, <1>5, <2>1, FlowStep, ZenonT(30) DEF Calm, OneIBD
    <2>3. StoreOK'
      BY <1>3, <1>5, StoreSame, Zenon DEF Calm
    <2>4. FlowOK(p)'
      BY <1>1, <1>3, <1>5, <2>1, <2>2, ZenonT(30)
      DEF Calm, FlowOK, StagingOK, Under, Has, Staged, WithProof, WithPoints, WithHeaders
    <2> QED
      BY <2>2, <2>3, <2>4, OneThread DEF DeletionOK
  <1> QED
    BY <1>3, <1>4, <1>5

\* ImportUTXOSet keeps Calm: the key is there, and the set of the staging consensus becomes
\* the one that this IBD imported.
LEMMA ImportUTXOSetCalm ==
    ASSUME IInv, Calm, NEW p \in Peers, ImportUTXOSet(p)
    PROVE  Calm'
  <1>1. pc[p] = "importing" /\ pc[p] \in Staged /\ FlowOK(p) /\ StoreOK
    BY Zenon DEF ImportUTXOSet, Staged, Calm
  <1>2. /\ inactive # None /\ ref[p] = inactive /\ Has(inactive, "importing")
        /\ \A e \in Under(inactive) : e[3] = p
        /\ <<inactive, "imported", p>> \in data
    BY <1>1, Zenon DEF FlowOK, StagingOK
  <1>3. inactive \in Prefixes /\ inactive # active
    BY <1>1, <1>2, InactivePrefix, Zenon
  <1>4. /\ data' = WithImportedSet(inactive) /\ Go(p, "clear")
        /\ UNCHANGED <<active, inactive, ref, snapshot, result, ibdPeer, abandoned, panicked>>
    BY <1>2, ZenonT(30) DEF ImportUTXOSet
  <1>5. /\ OneIBD' /\ pc'[p] = "clear"
        /\ \A t \in Threads : t # p => pc'[t] = "idle"
    BY <1>1, <1>4, FlowStep, Zenon DEF Calm, OneIBD
  <1>6. \A i \in Under(inactive) : i[2] = "imported" => <<inactive, "utxo", i[3]>> =
                                                        <<inactive, "utxo", p>>
    BY <1>2
  <1>7. data' = {e \in data : ~(e[1] = inactive /\ e[2] \in {"utxo", "importing"})}
                \union {<<inactive, "utxo", p>>}
    <2>1. <<inactive, "imported", p>> \in {i \in Under(inactive) : i[2] = "imported"}
      BY <1>2 DEF Under
    <2>2. {<<inactive, "utxo", e[3]>> : e \in {i \in Under(inactive) : i[2] = "imported"}}
              = {<<inactive, "utxo", p>>}
      BY <1>6, <2>1, Zenon
    <2> QED
      BY <1>4, <2>2 DEF WithImportedSet
  <1>8. StoreOK'
    <2>1. data' \subseteq Entries
      BY <1>1, <1>3, <1>7 DEF StoreOK, Entries, Parts
    <2>2. Under(active)' = Under(active)
      BY <1>3, <1>4, <1>7 DEF Under
    <2> QED
      BY <1>1, <1>2, <1>4, <2>1, <2>2, StoreElsewhere, Zenon
  <1>9. /\ \A e \in Under(inactive)' : e[3] = p
        /\ ~Has(inactive, "importing")'
        /\ <<inactive, "utxo", p>> \in data'
    <2>1. \A e \in data' : e[1] = inactive => e = <<inactive, "utxo", p>>
                                              \/ (e \in Under(inactive) /\ e[2] # "importing")
      BY <1>7, Zenon DEF Under
    <2>2. \A e \in Under(inactive)' : e[3] = p
      BY <1>2, <1>4, <2>1 DEF Under
    <2>3. ~Has(inactive, "importing")'
      BY <1>4, <2>1 DEF Has
    <2> QED
      BY <1>7, <2>2, <2>3
  <1>10. \A part \in {"base", "proof", "points", "headers"} :
             <<inactive, part, p>> \in data => <<inactive, part, p>> \in data'
    BY <1>7, ZenonT(30)
  <1>11. FlowOK(p)'
    BY <1>1, <1>2, <1>4, <1>5, <1>9, <1>10, Zenon
    DEF FlowOK, StagingOK, Staged, WithProof, WithPoints, WithHeaders
  <1> QED
    BY <1>5, <1>8, <1>11, OneThread DEF DeletionOK

\* ClearImported keeps Calm: what is cleared is no part of the consensus to be committed.
LEMMA ClearImportedCalm ==
    ASSUME IInv, Calm, NEW p \in Peers, ClearImported(p)
    PROVE  Calm'
  <1>1. /\ pc[p] = "clear" /\ pc[p] # "idle" /\ pc[p] \notin Locked /\ pc[p] \in Staged
        /\ p \in Threads /\ FlowOK(p) /\ StoreOK
    BY ZenonT(30) DEF ClearImported, Locked, Staged, Calm, Threads
  <1>2. staging = inactive /\ inactive # None
    BY <1>1, Alone DEF FlowOK, StagingOK
  <1>3. inactive # active
    BY <1>1, <1>2, InactivePrefix, ZenonT(30)
  <1>4. result[p] \in {"ok", "error"}
    BY <1>1 DEF Calm, OneIBD
  <1>5. /\ data' = data \ {e \in Under(inactive) : e[2] = "imported"}
        /\ Go(p, IF result[p] = "ok" THEN "commit" ELSE "deleteStaging")
        /\ UNCHANGED <<active, inactive, ref, snapshot, result, ibdPeer, abandoned, panicked>>
    BY <1>2, <1>4, Zenon DEF ClearImported
  <1>6. /\ OneIBD' /\ pc'[p] = IF result[p] = "ok" THEN "commit" ELSE "deleteStaging"
        /\ \A t \in Threads : t # p => pc'[t] = "idle"
    BY <1>1, <1>5, FlowStep, Zenon DEF Calm, OneIBD
  <1>7. StoreOK'
    <2>1. Under(active)' = Under(active)
      BY <1>3, <1>5, Zenon DEF Under
    <2> QED
      BY <1>1, <1>2, <1>5, <2>1, StoreElsewhere, ZenonT(30) DEF StoreOK
  <1>8. CASE result[p] = "ok"
    <2>1. /\ \A e \in Under(inactive)' : e[3] = p
          /\ ~Has(inactive, "importing")'
      <3>1. data' \subseteq data
        BY <1>5
      <3> QED
        BY <1>1, <1>5, <3>1, Zenon DEF FlowOK, StagingOK, Under, Has
    <2>2. \A part \in Parts : <<inactive, part, p>> \in data => <<inactive, part, p>> \in data'
      BY <1>5, ZenonT(30) DEF Parts
    <2>3. FlowOK(p)'
      BY <1>1, <1>2, <1>5, <1>6, <1>8, <2>1, <2>2, Zenon
      DEF FlowOK, StagingOK, Staged, WithProof, WithPoints, WithHeaders, Parts
    <2> QED
      BY <1>6, <1>7, <1>8, <2>3, OneThread, Zenon DEF DeletionOK
  <1>9. CASE result[p] # "ok"
    BY <1>6, <1>7, <1>9, PlainLabel, Zenon DEF Plain
  <1> QED
    BY <1>8, <1>9

\* SyncBodies keeps Calm: the bodies go to the active consensus.
LEMMA SyncBodiesCalm ==
    ASSUME IInv, Calm, NEW p \in Peers, SyncBodies(p)
    PROVE  Calm'
  <1>1. pc[p] # "idle" /\ pc[p] \notin Locked /\ p \in Threads
    BY Zenon DEF SyncBodies, Locked, Threads
  <1>2. consensus = active
    BY <1>1, Alone
  <1>3. /\ data' = data \union {<<active, "bodies", p>>} /\ Go(p, "finish")
        /\ result' = [result EXCEPT ![p] = "ok"]
        /\ UNCHANGED <<active, inactive, ref, snapshot, ibdPeer, abandoned, panicked>>
    BY <1>2, ZenonT(30) DEF SyncBodies, Return
  <1>4. /\ OneIBD' /\ pc'[p] = "finish"
        /\ \A t \in Threads : t # p => pc'[t] = "idle"
    BY <1>1, <1>3, FlowStep, ZenonT(30) DEF Calm, OneIBD
  <1>5. StoreOK'
    BY <1>3, StoreMore DEF Calm
  <1> QED
    BY <1>4, <1>5, PlainLabel, Zenon DEF Plain

-----------------------------------------------------------------------------
(* The steps of Domain.                                                    *)

\* initStagingConsensus keeps Calm: the prefix it names is empty, and the second try never
\* finds a staging consensus, so its error is never returned.
LEMMA InitStagingCalm ==
    ASSUME IInv, Calm, NEW p \in Peers, InitStagingConsensus(p)
    PROVE  Calm'
  <1>1. /\ pc[p] \in {"init", "initAgain"} /\ pc[p] # "idle"
        /\ pc[p] = "initAgain" => inactive = None
    BY Zenon DEF InitStagingConsensus, Calm, FlowOK
  <1>2. UNCHANGED <<active, data, ref, snapshot, ibdPeer, abandoned, panicked>>
    BY DEF InitStagingConsensus
  <1>3. CASE inactive # None
    <2>1. Go(p, "deleteStaging") /\ UNCHANGED <<inactive, result>>
      BY <1>1, <1>3, ZenonT(30) DEF InitStagingConsensus
    <2>2. /\ OneIBD' /\ pc'[p] = "deleteStaging"
          /\ \A t \in Threads : t # p => pc'[t] = "idle"
      BY <1>1, <1>2, <2>1, FlowStep, Zenon DEF Calm, OneIBD
    <2>3. StoreOK'
      BY <1>2, <2>1, StoreSame DEF Calm
    <2> QED
      BY <2>2, <2>3, PlainLabel DEF Plain
  <1>4. CASE inactive = None
    <2>1. Go(p, "create") /\ inactive' = Flip(active) /\ UNCHANGED result
      BY <1>1, <1>4, ZenonT(30) DEF InitStagingConsensus
    <2>2. /\ OneIBD' /\ pc'[p] = "create"
          /\ \A t \in Threads : t # p => pc'[t] = "idle"
      BY <1>1, <1>2, <2>1, FlowStep, ZenonT(30) DEF Calm, OneIBD
    <2>3. inactive' \in Prefixes /\ Under(inactive)' = {} /\ inactive' # None
      BY <1>2, <1>4, <2>1, PrefixesAssumption DEF Calm, StoreOK, Under, Prefixes, Flip
    <2>4. StoreOK'
      BY <1>2, <2>1, <2>3, ZenonT(30) DEF Calm, StoreOK, Complete, Has, Under
    <2>5. FlowOK(p)'
      BY <2>2, <2>3, ZenonT(30) DEF FlowOK, StagingOK, Staged
    <2> QED
      BY <2>2, <2>4, <2>5, OneThread, Zenon DEF DeletionOK
  <1> QED
    BY <1>3, <1>4, ZenonT(30)

\* The creation of the staging consensus keeps Calm: there is nothing to recover under its
\* prefix, and its base is the only entry.
LEMMA CreateStagingCalm ==
    ASSUME IInv, Calm, NEW p \in Peers, CreateStagingConsensus(p)
    PROVE  Calm'
  <1>1. pc[p] = "create" /\ inactive # None /\ Under(inactive) = {} /\ StoreOK
    BY Zenon DEF CreateStagingConsensus, Calm, FlowOK
  <1>2. \A part : ~Has(inactive, part)
    BY <1>1 DEF Has, Under
  <1>3. Recovered(inactive) = data
    BY <1>1, <1>2 DEF Recovered, Under
  <1>4. /\ data' = data \union {<<inactive, "base", p>>} /\ Go(p, "proof")
        /\ UNCHANGED <<active, inactive, ref, snapshot, result, ibdPeer, abandoned, panicked>>
    BY <1>2, <1>3, ZenonT(30) DEF CreateStagingConsensus
  <1>5. /\ OneIBD' /\ pc'[p] = "proof"
        /\ \A t \in Threads : t # p => pc'[t] = "idle"
    BY <1>1, <1>4, FlowStep, ZenonT(30) DEF Calm, OneIBD
  <1>6. StoreOK'
    BY <1>1, <1>4, StoreStaged, Zenon DEF Parts
  <1>7. \A e \in data' : e[1] = inactive => e = <<inactive, "base", p>>
    BY <1>1, <1>4 DEF Under
  <1>8. \A e \in Under(inactive)' : e[3] = p
    BY <1>4, <1>7 DEF Under
  <1>9. ~Has(inactive, "importing")'
    <2> SUFFICES ASSUME NEW e \in data', e[1] = inactive, e[2] = "importing" PROVE FALSE
      BY <1>4, Zenon DEF Has
    <2>1. e = <<inactive, "base", p>>
      BY <1>7, Zenon
    <2> QED
      BY <2>1
  <1>10. FlowOK(p)'
    BY <1>1, <1>4, <1>5, <1>8, <1>9
    DEF FlowOK, StagingOK, Staged, WithProof, WithPoints, WithHeaders
  <1> QED
    BY <1>5, <1>6, <1>10, OneThread, ZenonT(30) DEF DeletionOK

\* DeleteStagingConsensus keeps Calm: the snapshot of its cursor is the whole prefix.
LEMMA DeleteStagingCalm ==
    ASSUME IInv, Calm, NEW p \in Peers, DeleteStagingConsensus(p)
    PROVE  Calm'
  <1>1. pc[p] # "idle" /\ p \in Threads
    BY DEF DeleteStagingConsensus, Threads
  <1>2. /\ DeleteInactivePrefix(p, "dropStaging")
        /\ UNCHANGED <<active, inactive, data, ref, result, ibdPeer, abandoned, panicked>>
    BY DEF DeleteStagingConsensus, db
  <1>3. StoreOK'
    BY <1>2, StoreSame DEF Calm
  <1>4. CASE inactive = None
    <2>1. Go(p, "dropStaging") /\ UNCHANGED snapshot
      BY <1>2, <1>4, Zenon DEF DeleteInactivePrefix
    <2>2. /\ OneIBD' /\ pc'[p] = "dropStaging"
          /\ \A t \in Threads : t # p => pc'[t] = "idle"
      BY <1>1, <1>2, <2>1, FlowStep, Zenon DEF Calm, OneIBD
    <2> QED
      BY <1>3, <2>2, PlainLabel DEF Plain
  <1>5. CASE inactive # None
    <2>1. Go(p, "deletePrefix") /\ snapshot' = [snapshot EXCEPT ![p] = Under(inactive)]
      BY <1>2, <1>5, Zenon DEF DeleteInactivePrefix
    <2>2. Under(inactive) \in SUBSET Entries
      BY DEF Calm, StoreOK, Under
    <2>3. snapshot' \in [Threads -> SUBSET Entries] /\ snapshot'[p] = Under(inactive)
      BY <1>1, <2>1, <2>2, Zenon DEF Calm, OneIBD
    <2>4. /\ OneIBD' /\ pc'[p] = "deletePrefix"
          /\ \A t \in Threads : t # p => pc'[t] = "idle"
      BY <1>1, <1>2, <2>1, <2>3, FlowStep, Zenon DEF Calm, OneIBD
    <2>5. DeletionOK(p)'
      BY <1>2, <1>5, <2>3, ZenonT(30) DEF DeletionOK, Under
    <2>6. FlowOK(p)'
      BY <2>4 DEF FlowOK, StagingOK, Staged
    <2> QED
      BY <1>3, <2>4, <2>5, <2>6, OneThread, Zenon
  <1> QED
    BY <1>4, <1>5

\* The end of DeleteStagingConsensus keeps Calm: a second try finds no inactive prefix.
LEMMA DropStagingCalm ==
    ASSUME IInv, Calm, NEW p \in Peers, DropStaging(p)
    PROVE  Calm'
  <1>1. pc[p] = "dropStaging" /\ inactive = None
    BY Zenon DEF DropStaging, IInv, HolderOK
  <1>2. /\ Go(p, IF result[p] = "ok" THEN "initAgain" ELSE "finish")
        /\ UNCHANGED <<active, inactive, data, ref, snapshot, result, ibdPeer, abandoned,
                       panicked>>
    BY Zenon DEF DropStaging, db
  <1>3. /\ OneIBD' /\ pc'[p] = IF result[p] = "ok" THEN "initAgain" ELSE "finish"
        /\ \A t \in Threads : t # p => pc'[t] = "idle"
    BY <1>1, <1>2, FlowStep, ZenonT(30) DEF Calm, OneIBD
  <1>4. StoreOK'
    BY <1>2, StoreSame, Zenon DEF Calm
  <1>5. FlowOK(p)' /\ DeletionOK(p)'
    BY <1>1, <1>2, <1>3, Zenon DEF FlowOK, StagingOK, Staged, DeletionOK
  <1> QED
    BY <1>3, <1>4, <1>5, OneThread, Zenon

\* CommitStagingConsensus keeps Calm: the prefix that becomes active holds all parts, and
\* all of them by this IBD; the other is what the deletion begins with.
LEMMA CommitStagingCalm ==
    ASSUME IInv, Calm, NEW p \in Peers, CommitStagingConsensus(p)
    PROVE  Calm'
  <1>1. pc[p] = "commit" /\ pc[p] \in Staged /\ FlowOK(p) /\ StoreOK /\ p \in Threads
    BY DEF CommitStagingConsensus, Staged, Calm, Threads
  <1>2. /\ inactive # None /\ \A e \in Under(inactive) : e[3] = p
        /\ \A part \in Parts : <<inactive, part, p>> \in data
        /\ ~Has(inactive, "importing")
    BY <1>1, ZenonT(30) DEF FlowOK, StagingOK, WithProof, WithPoints, WithHeaders, Staged, Parts
  <1>3. /\ active' = inactive /\ inactive' = active /\ Go(p, "deletePrefix")
        /\ snapshot' = [snapshot EXCEPT ![p] = Under(active)]
        /\ UNCHANGED <<data, ref, result, ibdPeer, abandoned, panicked>>
    BY <1>2, ZenonT(30) DEF CommitStagingConsensus
  <1>4. snapshot' \in [Threads -> SUBSET Entries] /\ snapshot'[p] = Under(active)
    <2>1. Under(active) \in SUBSET Entries
      BY <1>1, Zenon DEF StoreOK, Under
    <2> QED
      BY <1>1, <1>3, <2>1 DEF Calm, OneIBD
  <1>5. /\ OneIBD' /\ pc'[p] = "deletePrefix"
        /\ \A t \in Threads : t # p => pc'[t] = "idle"
    BY <1>1, <1>3, <1>4, FlowStep, ZenonT(30) DEF Calm, OneIBD
  <1>6. /\ active' \in Prefixes /\ inactive' = Flip(active') /\ inactive' # None
    BY <1>1, <1>2, <1>3, FlipTwice, Zenon DEF StoreOK
  <1>7. StoreOK'
    <2>1. Complete(active)'
      BY <1>2, <1>3, Zenon DEF Complete, Under
    <2>2. ~Has(active, "importing")'
      BY <1>2, <1>3, Zenon DEF Has
    <2> QED
      BY <1>1, <1>3, <1>6, <2>1, <2>2, Zenon DEF StoreOK
  <1>8. DeletionOK(p)'
    BY <1>3, <1>4, <1>6, Zenon DEF DeletionOK, Under
  <1>9. FlowOK(p)'
    BY <1>5 DEF FlowOK, StagingOK, Staged
  <1> QED
    BY <1>5, <1>7, <1>8, <1>9, OneThread, ZenonT(30)

\* The exchange of the pointers keeps Calm.
LEMMA SwapCalm ==
    ASSUME IInv, Calm, NEW p \in Peers, SwapConsensus(p)
    PROVE  Calm'
  <1>1. /\ pc[p] # "idle" /\ Go(p, "bodies")
        /\ UNCHANGED <<active, inactive, data, ref, snapshot, result, ibdPeer, abandoned,
                       panicked>>
    BY ZenonT(30) DEF SwapConsensus, db
  <1>2. /\ OneIBD' /\ pc'[p] = "bodies"
        /\ \A t \in Threads : t # p => pc'[t] = "idle"
    BY <1>1, FlowStep, Zenon DEF Calm, OneIBD
  <1>3. StoreOK'
    BY <1>1, StoreSame, Zenon DEF Calm
  <1> QED
    BY <1>2, <1>3, PlainLabel DEF Plain

\* One step of deletePrefix: an entry of the inactive prefix goes, or its key once there
\* is none left.
LEMMA DeletePrefixStore ==
    ASSUME Calm, NEW t \in Threads, DeletePrefix(t)
    PROVE  /\ StoreOK' /\ snapshot' \in [Threads -> SUBSET Entries]
           /\ UNCHANGED <<active, ref, result, ibdPeer, abandoned, panicked>>
           /\ \/ Go(t, ret[t]) /\ snapshot[t] = {}
              \/ /\ UNCHANGED pc /\ inactive' # None
                 /\ snapshot'[t] = Under(inactive)'
  <1>1. pc[t] = "deletePrefix" /\ inactive # None /\ snapshot[t] = Under(inactive) /\ StoreOK
    BY ZenonT(30) DEF DeletePrefix, Calm, DeletionOK
  <1>2. inactive = Flip(active) /\ inactive # active
    BY <1>1, InactivePrefix, Zenon
  <1>3. UNCHANGED <<active, ref, result, ibdPeer, abandoned, panicked>>
    BY Zenon DEF DeletePrefix
  <1>4. CASE snapshot[t] = {}
    <2>1. inactive' = None /\ Go(t, ret[t]) /\ UNCHANGED <<data, snapshot>>
      BY <1>4 DEF DeletePrefix
    <2>2. Under(Flip(active))' = {}
      BY <1>1, <1>2, <1>3, <1>4, <2>1, Zenon DEF Under
    <2>3. StoreOK'
      BY <1>1, <1>3, <2>1, <2>2, Zenon DEF StoreOK, Complete, Has, Under
    <2> QED
      BY <1>3, <1>4, <2>1, <2>3, ZenonT(30) DEF Calm, OneIBD
  <1>5. CASE snapshot[t] # {}
    <2>1. PICK e \in {CHOOSE e \in snapshot[t] : TRUE} :
              /\ data' = data \ {e}
              /\ snapshot' = [snapshot EXCEPT ![t] = @ \ {e}]
              /\ UNCHANGED <<inactive, pc>>
      BY <1>5, Zenon DEF DeletePrefix
    <2>2. e \in Under(inactive)
      BY <1>1, <1>5, <2>1, Zenon
    <2>3. snapshot' \in [Threads -> SUBSET Entries] /\ snapshot'[t] = Under(inactive) \ {e}
      BY <1>1, <2>1, Zenon DEF Calm, OneIBD
    <2>4. Under(inactive)' = Under(inactive) \ {e}
      BY <2>1, <2>2, Zenon DEF Under
    <2>5. Under(active)' = Under(active)
      BY <1>2, <1>3, <2>1, <2>2, ZenonT(30) DEF Under
    <2>6. StoreOK'
      BY <1>1, <1>3, <2>1, <2>5, StoreElsewhere DEF StoreOK
    <2> QED
      BY <1>1, <1>3, <2>1, <2>3, <2>4, <2>6, Zenon
  <1> QED
    BY <1>4, <1>5, ZenonT(30)

\* deletePrefix in a flow keeps Calm.
LEMMA DeletePrefixCalm ==
    ASSUME IInv, Calm, NEW p \in Peers, DeletePrefix(p)
    PROVE  Calm'
  <1>1. pc[p] = "deletePrefix" /\ p \in Threads /\ ret[p] \in {"dropStaging", "swap"}
    BY ZenonT(30) DEF DeletePrefix, Threads, IInv, HolderOK
  <1>2. /\ StoreOK' /\ snapshot' \in [Threads -> SUBSET Entries]
        /\ UNCHANGED <<active, ref, result, ibdPeer, abandoned, panicked>>
        /\ \/ Go(p, ret[p])
           \/ /\ UNCHANGED pc /\ inactive' # None
              /\ snapshot'[p] = Under(inactive)'
    BY <1>1, DeletePrefixStore, ZenonT(30)
  <1>3. CASE Go(p, ret[p])
    <2>1. /\ OneIBD' /\ pc'[p] = ret[p]
          /\ \A t \in Threads : t # p => pc'[t] = "idle"
      BY <1>1, <1>2, <1>3, FlowStep, Zenon DEF Calm, OneIBD
    <2> QED
      BY <1>1, <1>2, <2>1, PlainLabel, Zenon DEF Plain
  <1>4. CASE UNCHANGED pc /\ inactive' # None /\ snapshot'[p] = Under(inactive)'
    <2>1. \A t \in Threads : t # p => pc'[t] = "idle"
      BY <1>1, <1>4, Alone, ZenonT(30)
    <2>2. OneIBD'
      BY <1>2, <1>4, Zenon DEF Calm, OneIBD
    <2>3. DeletionOK(p)'
      BY <1>4, ZenonT(30) DEF DeletionOK
    <2>4. FlowOK(p)'
      BY <1>1, <1>4, Zenon DEF FlowOK, StagingOK, Staged
    <2> QED
      BY <1>2, <2>1, <2>2, <2>3, <2>4, OneThread, Zenon
  <1> QED
    BY <1>2, <1>3, <1>4, Zenon

\* domain.New keeps Calm: what is left of a staging consensus is deleted, and the active
\* one has no import to finish.
LEMMA BootCalm ==
    ASSUME IInv, Calm, BootStep
    PROVE  Calm'
  <1>1. /\ Boot \in Threads /\ Boot \notin Peers /\ Peers \subseteq Threads
        /\ pc \in [Threads -> Labels]
    BY ThreadsAssumption, ZenonT(30) DEF Threads, IInv, ThreadsOK
  <1>2. \A p \in Peers : pc[p] = "idle"
    BY ZenonT(30) DEF BootStep, Start, DeletePrefix, Open, IInv, BootOK
  <1>3. ASSUME \A p \in Peers : pc'[p] = "idle", StoreOK', DeletionOK(Boot)',
               UNCHANGED <<ref, result, abandoned, panicked>>,
               snapshot' \in [Threads -> SUBSET Entries]
        PROVE  Calm'
    <2>1. OneIBD'
      BY <1>3, Zenon DEF Calm, OneIBD
    <2>2. \A t \in Threads : DeletionOK(t)'
      BY <1>3 DEF DeletionOK, Threads
    <2>3. \A p \in Peers : FlowOK(p)'
      BY <1>3, Zenon DEF FlowOK, StagingOK, Staged
    <2> QED
      BY <1>3, <2>1, <2>2, <2>3, ZenonT(30) DEF Calm
  <1>4. CASE Start
    <2>1. /\ DeleteInactivePrefix(Boot, "open")
          /\ UNCHANGED <<active, inactive, data, ref, result, abandoned, panicked>>
      BY <1>4 DEF Start, db
    <2>2. StoreOK'
      BY <2>1, StoreSame DEF Calm
    <2>3. \A p \in Peers : pc'[p] = "idle"
      BY <1>1, <1>2, <2>1, ZenonT(30) DEF DeleteInactivePrefix, Go
    <2>4. Under(inactive) \in SUBSET Entries
      BY Zenon DEF Calm, StoreOK, Under
    <2>5. snapshot' \in [Threads -> SUBSET Entries]
      BY <1>1, <2>1, <2>4 DEF DeleteInactivePrefix, Calm, OneIBD
    <2>6. DeletionOK(Boot)'
      <3>1. CASE inactive = None
        BY <1>1, <2>1, <3>1, Zenon DEF DeleteInactivePrefix, Go, DeletionOK
      <3>2. CASE inactive # None
        <4>1. snapshot'[Boot] = Under(inactive)
          BY <1>1, <2>1, <3>2, Zenon DEF DeleteInactivePrefix, Calm, OneIBD
        <4> QED
          BY <2>1, <3>2, <4>1, Zenon DEF DeletionOK, Under
      <3> QED
        BY <3>1, <3>2, Zenon
    <2> QED
      BY <1>3, <2>1, <2>2, <2>3, <2>5, <2>6, Zenon
  <1>5. CASE DeletePrefix(Boot)
    <2>1. ret[Boot] = "open"
      BY <1>5, ZenonT(30) DEF DeletePrefix, IInv, BootOK
    <2>2. /\ StoreOK' /\ snapshot' \in [Threads -> SUBSET Entries]
          /\ UNCHANGED <<active, ref, result, ibdPeer, abandoned, panicked>>
          /\ \/ Go(Boot, ret[Boot])
             \/ /\ UNCHANGED pc /\ inactive' # None
                /\ snapshot'[Boot] = Under(inactive)'
      BY <1>1, <1>5, DeletePrefixStore, Zenon
    <2>3. \A p \in Peers : pc'[p] = "idle"
      BY <1>1, <1>2, <2>2 DEF Go
    <2>4. DeletionOK(Boot)'
      BY <1>1, <2>1, <2>2, Zenon DEF DeletionOK, Go
    <2> QED
      BY <1>3, <2>2, <2>3, <2>4
  <1>6. CASE Open
    <2>1. inactive = None /\ StoreOK /\ ~Has(active, "importing")
      BY <1>6, ZenonT(30) DEF Open, IInv, BootOK, Calm, StoreOK
    <2>2. /\ data' = {e \in data : ~(e[1] = active /\ e[2] = "imported")}
          /\ Go(Boot, "idle")
          /\ UNCHANGED <<active, inactive, ref, snapshot, result, abandoned, panicked>>
      BY <1>6, <2>1, Zenon DEF Open, Recovered
    <2>3. /\ pc'[Boot] = "idle" /\ \A p \in Peers : pc'[p] = "idle"
      BY <1>1, <1>2, <2>2, Zenon DEF Go
    <2>4. Complete(active)'
      <3>1. PICK w \in Peers \union {Nobody} :
                /\ \A part \in Parts : <<active, part, w>> \in data
                /\ \A e \in Under(active) : e[2] \in Parts => e[3] = w
        BY <2>1 DEF StoreOK, Complete
      <3>2. \A part \in Parts : <<active, part, w>> \in data'
        BY <2>2, <3>1, Zenon DEF Parts
      <3>3. \A e \in Under(active)' : e[2] \in Parts => e[3] = w
        BY <2>2, <3>1, Zenon DEF Under
      <3> QED
        BY <2>2, <3>2, <3>3, Zenon DEF Complete
    <2>5. StoreOK'
      BY <2>1, <2>2, <2>4, Zenon DEF StoreOK, Has, Under
    <2> QED
      BY <1>3, <2>2, <2>3, <2>5, Zenon DEF DeletionOK, Calm, OneIBD
  <1> QED
    BY <1>4, <1>5, <1>6 DEF BootStep

-----------------------------------------------------------------------------

\* Only Timeout counts timeouts.
LEMMA CountNext ==
    ASSUME CountOK, [Next]_vars, \A p \in Peers : ~Timeout(p)
    PROVE  CountOK' /\ count'.timeouts = count.timeouts
  <1>1. CASE UNCHANGED count
    BY <1>1 DEF CountOK
  <1>2. CASE Crash
    BY <1>2 DEF Crash, CountOK
  <1>3. ASSUME NEW p \in Peers, StartIBD(p)
        PROVE  CountOK' /\ count'.timeouts = count.timeouts
    BY <1>3 DEF StartIBD, CountOK
  <1>4. ASSUME NEW p \in Peers, CheckRelayBlock(p)
        PROVE  CountOK' /\ count'.timeouts = count.timeouts
    <2>1. \/ UNCHANGED count
          \/ count' = [count EXCEPT !.faults = count.faults + 1]
          \/ count' = [count EXCEPT !.faults = count.faults]
      BY <1>4 DEF CheckRelayBlock, Panic
    <2> QED
      BY <2>1 DEF CountOK
  <1>5. ASSUME NEW p \in Peers, ImportPruningPoint(p)
        PROVE  CountOK' /\ count'.timeouts = count.timeouts
    <2>1. \/ UNCHANGED count
          \/ count' = [count EXCEPT !.faults = count.faults + 1]
          \/ count' = [count EXCEPT !.faults = count.faults]
      BY <1>5 DEF ImportPruningPoint, Panic
    <2> QED
      BY <2>1 DEF CountOK
  <1>6. ASSUME NEW p \in Peers, Fail(p)
        PROVE  CountOK' /\ count'.timeouts = count.timeouts
    <2>1. UNCHANGED count \/ count' = [count EXCEPT !.faults = count.faults + 1]
      BY <1>6, Zenon DEF Fail
    <2> QED
      BY <2>1 DEF CountOK
  <1>7. ASSUME NEW p \in Peers, Step(p), ~CheckRelayBlock(p), ~ImportPruningPoint(p)
        PROVE  UNCHANGED count
    BY <1>7, ZenonT(30)
    DEF Step, InitStagingConsensus, CreateStagingConsensus, DeleteStagingConsensus,
        DeletePrefix, DropStaging, CommitStagingConsensus, SwapConsensus, Negotiate, Request,
        ReceiveTrustedData, ReceiveByReference, ImportUTXOSet, ClearImported, SyncBodies,
        FinishIBD, Panic
  <1>8. CASE BootStep \/ UNCHANGED vars
    BY <1>1, <1>8, Zenon DEF BootStep, Start, DeletePrefix, Open, vars
  <1> QED
    BY <1>1, <1>2, <1>3, <1>4, <1>5, <1>6, <1>7, <1>8 DEF Next

\* Every step keeps DInv.
LEMMA NextDInv ==
    ASSUME IInv, DInv, [Next]_vars
    PROVE  DInv'
  <1>1. CASE \E p \in Peers : Timeout(p)
    <2>1. count' = [count EXCEPT !.timeouts = count.timeouts + 1]
      BY <1>1 DEF Timeout
    <2>2. CountOK' /\ count'.timeouts # 0
      BY <2>1 DEF DInv, CountOK
    <2> QED
      BY <2>2 DEF DInv
  <1>2. CASE (\A p \in Peers : ~Timeout(p)) /\ count.timeouts # 0
    BY <1>2, CountNext, Zenon DEF DInv
  <1>3. CASE (\A p \in Peers : ~Timeout(p)) /\ count.timeouts = 0
    <2>1. Calm /\ CountOK
      BY <1>3 DEF DInv
    <2>2. CountOK'
      BY <1>3, <2>1, CountNext
    <2>3. CASE UNCHANGED vars
      <3>1. StoreOK'
        BY <2>1, <2>3, StoreSame, ZenonT(30) DEF Calm, vars, db
      <3>2. OneIBD'
        BY <2>1, <2>3 DEF Calm, OneIBD, vars, thread
      <3>3. \A t \in Threads : DeletionOK(t)'
        BY <2>1, <2>3, Zenon DEF Calm, DeletionOK, Under, vars, db, thread
      <3>4. ASSUME NEW p \in Peers
            PROVE  FlowOK(p)'
        BY <2>1, <2>3, ZenonT(30) DEF Calm, FlowOK, StagingOK, Under, Has, vars, db, thread
      <3> QED
        BY <2>2, <3>1, <3>2, <3>3, <3>4, Zenon DEF DInv, Calm
    <2>4. ASSUME NEW p \in Peers, StartIBD(p) \/ Step(p) \/ Fail(p)
          PROVE  Calm'
      <3>1. CASE StartIBD(p) \/ Negotiate(p) \/ FinishIBD(p)
        BY <2>1, <3>1, RunCalm
      <3>2. CASE Request(p)
        BY <2>1, <3>2, RequestCalm
      <3>3. CASE Fail(p)
        BY <2>1, <3>3, FailCalm, ZenonT(30)
      <3>4. CASE ReceiveTrustedData(p)
        BY <2>1, <3>4, ReceiveTrustedDataCalm
      <3>5. CASE ReceiveByReference(p)
        BY <2>1, <3>5, ReceiveByReferenceCalm
      <3>6. CASE CheckRelayBlock(p)
        BY <2>1, <3>6, CheckRelayBlockCalm
      <3>7. CASE ImportPruningPoint(p)
        BY <2>1, <3>7, ImportPruningPointCalm
      <3>8. CASE ImportUTXOSet(p)
        BY <2>1, <3>8, ImportUTXOSetCalm
      <3>9. CASE ClearImported(p)
        BY <2>1, <3>9, ClearImportedCalm
      <3>10. CASE SyncBodies(p)
        BY <2>1, <3>10, SyncBodiesCalm
      <3>11. CASE InitStagingConsensus(p)
        BY <2>1, <3>11, InitStagingCalm
      <3>12. CASE CreateStagingConsensus(p)
        BY <2>1, <3>12, CreateStagingCalm
      <3>13. CASE DeleteStagingConsensus(p)
        BY <2>1, <3>13, DeleteStagingCalm
      <3>14. CASE DeletePrefix(p)
        BY <2>1, <3>14, DeletePrefixCalm
      <3>15. CASE DropStaging(p)
        BY <2>1, <3>15, DropStagingCalm
      <3>16. CASE CommitStagingConsensus(p)
        BY <2>1, <3>16, CommitStagingCalm
      <3>17. CASE SwapConsensus(p)
        BY <2>1, <3>17, SwapCalm
      <3> QED
        BY <2>4, <3>1, <3>2, <3>3, <3>4, <3>5, <3>6, <3>7, <3>8, <3>9, <3>10, <3>11, <3>12,
           <3>13, <3>14, <3>15, <3>16, <3>17, Zenon
        DEF Step
    <2>5. CASE BootStep
      BY <2>1, <2>2, <2>5, BootCalm DEF DInv
    <2>6. CASE Crash
      BY <2>1, <2>2, <2>6, DownCalm DEF Crash, DInv
    <2> QED
      BY <1>3, <2>2, <2>3, <2>4, <2>5, <2>6 DEF Next, DInv
  <1> QED
    BY <1>1, <1>2, <1>3

\* The two invariants hold in every state of the specification.
LEMMA DInvAlways == Spec => []DInv
  <1>1. Init => IInv /\ DInv
    BY InitIInv, InitDInv
  <1>2. IInv /\ DInv /\ [Next]_vars => (IInv /\ DInv)'
    BY NextIInv, NextDInv
  <1> QED
    BY <1>1, <1>2, PTL DEF Spec

\* As long as no IBD has timed out, the active prefix holds one whole consensus at every
\* moment, for any number of peers, IBDs, faults and crashes: a node that starts after a
\* crash never opens part of one (domain.go, prefixmanager, ibd_with_headers_proof.go).
THEOREM ActiveIsAlwaysComplete == Spec => []ActiveIsComplete
  <1>1. DInv => ActiveIsComplete
    BY Zenon DEF DInv, Calm, StoreOK, ActiveIsComplete
  <1> QED
    BY <1>1, DInvAlways, PTL

\* As long as no IBD has timed out, the prefix that the next staging consensus will use is
\* empty: DeleteInactivePrefix removes the key only after the last entry, in every path and
\* across crashes.
THEOREM FreePrefixIsAlwaysEmpty == Spec => []FreePrefixIsEmpty
  <1>1. DInv => FreePrefixIsEmpty
    <2> SUFFICES ASSUME DInv, count.timeouts = 0, NEW x \in Prefixes \ {active, inactive}
                 PROVE  Under(x) = {}
      BY DEF FreePrefixIsEmpty
    <2>1. StoreOK
      BY DEF DInv, Calm
    <2>2. x = Flip(active) /\ inactive = None
      BY <2>1 DEF StoreOK, Prefixes, Flip
    <2> QED
      BY <2>1, <2>2 DEF StoreOK
  <1> QED
    BY <1>1, DInvAlways, PTL

\* No run of IBD ends in a panic of HandleError or in the use of a staging consensus that
\* is gone, unless an IBD has timed out before (handle_ibd.go, flowcontext/errors.go).
THEOREM NoPanicBeforeATimeout == Spec => []PanicsOnlyAfterATimeout
  <1>1. DInv => PanicsOnlyAfterATimeout
    BY DEF DInv, CountOK, Calm, OneIBD, PanicsOnlyAfterATimeout
  <1> QED
    BY <1>1, DInvAlways, PTL
=============================================================================
