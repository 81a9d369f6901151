------------------------- MODULE BlockRelayTheorems -------------------------
(***************************************************************************)
(* The relay flows, for any number of peers and any DAG: every request has *)
(* a flow that waits for it, and only one unless addToRelayInv interferes; *)
(* before the first timeout a flow never meets an answer that it does not  *)
(* expect; and a block whose parents are all there leaves the orphan pool, *)
(* is about to, or a call that failed or came too early has left it there. *)
(***************************************************************************)
EXTENDS BlockRelay, SequenceTheorems, FiniteSetTheorems, NaturalsInduction, WellFoundedInduction, TLAPS

\* The labels of a relay flow.
Labels == {"idle", "waitBlock", "process", "onNewBlock", "waitLocator", "ended"}

\* Every flow is at a label, and has a block it is about.
FlowsOK ==
    /\ pc \in [Peers -> Labels]
    /\ current = [p \in Peers |-> current[p]]

\* The inductive invariant of the requests.
RInv == FlowsOK /\ RequestsAreOwned

\* The block that a flow waits for is its own, or contested.
Owned(q) ==
    \/ current[q].block \in contested
    \/ current[q].block \in requested /\ Waiting(current[q].block) = {q}

\* The answers that a flow waits for.
Expected(label) ==
    IF label = "waitBlock" THEN {"block"} ELSE IF label = "waitLocator" THEN {"locator"} ELSE {}

\* s is a sequence.
IsSeq(s) == s \in Seq(Range(s))

\* At most one answer is under way to a flow, in asked or on its route, and it is the one
\* that the flow waits for.
RouteOK(p) ==
    /\ IsSeq(route[p])
    /\ \A i \in 1 .. Len(route[p]) : route[p][i].kind \in {"inv"} \union Expected(pc[p])
    /\ \A i, j \in 1 .. Len(route[p]) :
        route[p][i].kind # "inv" /\ route[p][j].kind # "inv" => i = j

AskedOK(p) ==
    /\ \A r \in asked[p] : r.kind \in Expected(pc[p])
    /\ \A r, s \in asked[p] : r = s
    /\ asked[p] # {} => \A i \in 1 .. Len(route[p]) : route[p][i].kind = "inv"

\* Nothing is under way to a peer that is gone.
ClosedOK(p) == p \notin connected => route[p] = << >> /\ asked[p] = {}

\* What holds until a locator request times out.
Prompt ==
    /\ route = [p \in Peers |-> route[p]] /\ asked = [p \in Peers |-> asked[p]]
    /\ \A p \in Peers : RouteOK(p) /\ AskedOK(p) /\ ClosedOK(p)

CountOK ==
    count \in [invs : Nat, disconnects : Nat, timeouts : Nat, missing : Nat, errors : Nat]

\* With RInv, the inductive invariant of the answers.
AInv == CountOK /\ (count.timeouts = 0 => Prompt /\ (up \/ count.errors # 0))
-----------------------------------------------------------------------------
\* No flow waits for a block at first.
LEMMA InitRInv == Init => RInv
  BY DEF Init, RInv, FlowsOK, RequestsAreOwned, Labels

\* The flows that wait for a block are the same after a step that lets none begin, stop
\* or turn to another block.
LEMMA SameWaiting ==
    ASSUME \A q \in Peers : (pc'[q] = "waitBlock") <=> (pc[q] = "waitBlock"),
           \A q \in Peers : pc[q] = "waitBlock" => current'[q] = current[q]
    PROVE  \A b : Waiting(b)' = Waiting(b)
  BY Zenon DEF Waiting

\* A flow that neither waits for a block nor begins to leaves the requests alone.
LEMMA MoveRInv ==
    ASSUME RInv, NEW p \in Peers, NEW label \in Labels, GoTo(p, label),
           pc[p] # "waitBlock", label # "waitBlock", UNCHANGED <<current, requested, contested>>
    PROVE  RInv'
  <1>1. /\ pc' \in [Peers -> Labels] /\ pc'[p] = label
        /\ \A q \in Peers : q # p => pc'[q] = pc[q]
    BY DEF RInv, FlowsOK, GoTo
  <1>2. FlowsOK'
    BY <1>1 DEF RInv, FlowsOK
  <1>3. \A q \in Peers : (pc'[q] = "waitBlock") <=> (pc[q] = "waitBlock")
    BY <1>1
  <1>4. \A b : Waiting(b)' = Waiting(b)
    BY <1>3, SameWaiting, Zenon
  <1>5. RequestsAreOwned'
    BY <1>3, <1>4, Zenon DEF RInv, RequestsAreOwned
  <1> QED
    BY <1>2, <1>5 DEF RInv

\* Nor does a step of another actor.
LEMMA SameRInv ==
    ASSUME RInv, UNCHANGED <<pc, current, requested, contested>>
    PROVE  RInv'
  <1>1. pc' = pc /\ current' = current /\ requested' = requested /\ contested' = contested
    OBVIOUS
  <1>2. FlowsOK'
    BY <1>1, Zenon DEF RInv, FlowsOK
  <1>3. RequestsAreOwned'
    BY <1>1 DEF RInv, RequestsAreOwned, Waiting
  <1> QED
    BY <1>2, <1>3, Zenon DEF RInv

\* A panic leaves neither requests nor flows.
LEMMA PanicRInv ==
    ASSUME Panic
    PROVE  RInv'
  BY DEF Panic, RInv, FlowsOK, RequestsAreOwned, Labels

\* A flow asks for a block that is not in sharedRequestedBlocks, and waits for it.
LEMMA AddRInv ==
    ASSUME RInv, NEW p \in Peers, NEW inv, pc[p] # "waitBlock", inv.block \notin requested,
           GoTo(p, "waitBlock"), current' = [current EXCEPT ![p] = inv],
           requested' = requested \union {inv.block}, UNCHANGED contested
    PROVE  RInv'
  <1>1. /\ pc' \in [Peers -> Labels] /\ pc'[p] = "waitBlock"
        /\ \A q \in Peers : q # p => pc'[q] = pc[q]
    BY DEF RInv, FlowsOK, GoTo, Labels
  <1>2. /\ current' = [q \in Peers |-> current'[q]] /\ current'[p] = inv
        /\ \A q \in Peers : q # p => current'[q] = current[q]
    BY DEF RInv, FlowsOK
  <1>3. /\ Waiting(inv.block)' = Waiting(inv.block) \union {p}
        /\ \A b : b # inv.block => Waiting(b)' = Waiting(b)
    BY <1>1, <1>2 DEF Waiting
  <1>4. Waiting(inv.block) # {} => inv.block \in contested
    BY Zenon DEF RInv, RequestsAreOwned, Waiting
  <1>5. \A b \in requested' : Waiting(b)' # {}
    BY <1>3 DEF RInv, RequestsAreOwned
  <1>6. ASSUME NEW q \in Peers, pc'[q] = "waitBlock"
        PROVE  Owned(q)'
    <2>1. CASE q = p
      BY <1>2, <1>3, <1>4, <2>1 DEF Owned
    <2>2. CASE q # p /\ current[q].block = inv.block
      BY <1>1, <1>2, <1>6, <2>2, Zenon DEF RInv, RequestsAreOwned, Owned
    <2>3. CASE q # p /\ current[q].block # inv.block
      BY <1>1, <1>2, <1>3, <1>6, <2>3 DEF RInv, RequestsAreOwned, Owned
    <2> QED
      BY <2>1, <2>2, <2>3
  <1>7. RequestsAreOwned'
    BY <1>5, <1>6, Zenon DEF RequestsAreOwned, Owned
  <1> QED
    BY <1>1, <1>2, <1>7, Zenon DEF RInv, FlowsOK

\* The flow that waits for a block stops waiting and takes the request with it.
LEMMA RemoveRInv ==
    ASSUME RInv, NEW p \in Peers, NEW label \in Labels, GoTo(p, label),
           pc[p] = "waitBlock", label # "waitBlock", RemoveRequest(p), UNCHANGED current
    PROVE  RInv'
  <1> DEFINE c == current[p].block
  <1>1. /\ pc' \in [Peers -> Labels] /\ pc'[p] = label
        /\ \A q \in Peers : q # p => pc'[q] = pc[q]
    BY DEF RInv, FlowsOK, GoTo
  <1>2. /\ p \in Waiting(c) /\ Waiting(c)' = Waiting(c) \ {p}
        /\ \A b : b # c => Waiting(b)' = Waiting(b)
    BY <1>1 DEF Waiting
  <1>3. /\ requested' = requested \ {c} /\ contested \ {c} \subseteq contested'
        /\ Waiting(c) # {p} => contested' = contested
    BY DEF RemoveRequest
  <1>4. \A b \in requested' : Waiting(b)' # {}
    BY <1>2, <1>3 DEF RInv, RequestsAreOwned
  <1>5. ASSUME NEW q \in Peers, pc'[q] = "waitBlock"
        PROVE  Owned(q)'
    <2>1. q # p /\ pc[q] = "waitBlock" /\ current'[q] = current[q]
      BY <1>1, <1>5
    <2>2. Owned(q)
      BY <2>1, Zenon DEF RInv, RequestsAreOwned, Owned
    <2>3. CASE current[q].block = c
      <3>1. q \in Waiting(c)
        BY <2>1, <2>3, Zenon DEF Waiting
      <3>2. Waiting(c) # {p} /\ Waiting(c) # {q}
        BY <1>2, <2>1, <3>1
      <3> QED
        BY <1>3, <2>1, <2>2, <2>3, <3>2, Zenon DEF Owned
    <2>4. CASE current[q].block # c
      BY <1>2, <1>3, <2>1, <2>2, <2>4 DEF Owned
    <2> QED
      BY <2>3, <2>4
  <1>6. RequestsAreOwned'
    BY <1>4, <1>5, Zenon DEF RequestsAreOwned, Owned
  <1> QED
    BY <1>1, <1>6 DEF RInv, FlowsOK

\* addToRelayInv removes the request of a block that another flow may wait for.
LEMMA AddToRelayInvRInv ==
    ASSUME RInv, NEW p \in Peers, AddToRelayInv(p)
    PROVE  RInv'
  <1> DEFINE c == current[p].block
  <1>1. /\ pc[p] # "waitBlock" /\ GoTo(p, "idle") /\ UNCHANGED current
        /\ requested' = requested \ {c} /\ contested' = contested \union {b \in {c} : Waiting(b) # {}}
    BY DEF AddToRelayInv
  <1>2. /\ pc' \in [Peers -> Labels] /\ pc'[p] = "idle"
        /\ \A q \in Peers : q # p => pc'[q] = pc[q]
    BY <1>1 DEF RInv, FlowsOK, GoTo, Labels
  <1>3. \A q \in Peers : (pc'[q] = "waitBlock") <=> (pc[q] = "waitBlock")
    BY <1>1, <1>2
  <1>4. \A b : Waiting(b)' = Waiting(b)
    BY <1>1, <1>3, SameWaiting, Zenon
  <1>5. \A b \in requested' : Waiting(b)' # {}
    BY <1>1, <1>4 DEF RInv, RequestsAreOwned
  <1>6. ASSUME NEW q \in Peers, pc'[q] = "waitBlock"
        PROVE  Owned(q)'
    <2>1. pc[q] = "waitBlock" /\ current'[q] = current[q] /\ q \in Waiting(current[q].block)
      BY <1>1, <1>3, <1>6 DEF Waiting
    <2>2. Owned(q)
      BY <2>1, Zenon DEF RInv, RequestsAreOwned, Owned
    <2>3. CASE current[q].block = c
      BY <1>1, <2>1, <2>3 DEF Owned
    <2>4. CASE current[q].block # c
      BY <1>1, <1>4, <2>1, <2>2, <2>4 DEF Owned
    <2> QED
      BY <2>3, <2>4
  <1>7. RequestsAreOwned'
    BY <1>5, <1>6, Zenon DEF RequestsAreOwned, Owned
  <1> QED
    BY <1>1, <1>2, <1>7 DEF RInv, FlowsOK

\* Every step keeps RInv.
LEMMA NextRInv ==
    ASSUME RInv, [Next]_vars
    PROVE  RInv'
  <1>1. CASE UNCHANGED vars
    BY <1>1, SameRInv DEF vars, flow, requests
  <1>2. CASE Restart
    BY <1>2, SameRInv DEF Restart, flow, requests
  <1>3. ASSUME NEW p \in Peers,
               \/ Announce(p) \/ PeerAnswers(p) \/ Disconnect(p)
               \/ StartIBD(p) \/ SyncBody(p) \/ FinishIBD(p) \/ EndIBDFlow(p)
        PROVE  RInv'
    <2>1. UNCHANGED <<pc, current, requested, contested>>
      BY <1>3 DEF Announce, PeerAnswers, Disconnect, StartIBD, SyncBody, FinishIBD,
                  EndIBDFlow, flow, requests
    <2> QED
      BY <2>1, SameRInv, Zenon
  <1>4. ASSUME NEW p \in Peers, ReadInv(p)
        PROVE  RInv'
    <2>1. PICK inv, queue : HandleInv(p, inv, queue)
      BY <1>4, Zenon DEF ReadInv
    <2>2. pc[p] = "idle" /\ UNCHANGED contested
      BY <1>4, Zenon DEF ReadInv
    <2>3. \/ UNCHANGED <<pc, current, requested>>
          \/ /\ GoTo(p, "waitBlock") /\ current' = [current EXCEPT ![p] = inv]
             /\ inv.block \notin requested /\ requested' = requested \union {inv.block}
          \/ GoTo(p, "ended") /\ UNCHANGED <<current, requested>>
      BY <2>1, Zenon DEF HandleInv
    <2> QED
      BY <2>2, <2>3, SameRInv, AddRInv, MoveRInv, Zenon DEF Labels
  <1>5. ASSUME NEW p \in Peers, ReceiveBlock(p)
        PROVE  RInv'
    <2>1. \/ Panic
          \/ GoTo(p, "process") /\ RemoveRequest(p) /\ UNCHANGED current
      BY <1>5, Zenon DEF ReceiveBlock
    <2>2. pc[p] = "waitBlock"
      BY <1>5 DEF ReceiveBlock
    <2> QED
      BY <2>1, <2>2, PanicRInv, RemoveRInv, Zenon DEF Labels
  <1>6. ASSUME NEW p \in Peers,
               \/ ReadUnexpected(p) \/ ProcessBlock(p) \/ SkipBlock(p) \/ EndOnMissingData(p)
               \/ OnNewBlock(p) \/ ReceiveLocator(p) \/ LocatorFails(p)
        PROVE  RInv'
    <2>1. /\ pc[p] # "waitBlock" /\ UNCHANGED <<current, requested, contested>>
          /\ \E label \in Labels \ {"waitBlock"} : GoTo(p, label)
      <3>1. CASE ReadUnexpected(p) \/ OnNewBlock(p)
        BY <3>1 DEF ReadUnexpected, OnNewBlock, Labels, requests
      <3>2. CASE ReceiveLocator(p)
        BY <3>2 DEF ReceiveLocator, Labels, requests
      <3>4. CASE LocatorFails(p)
        BY <3>4 DEF LocatorFails, Labels, requests
      <3>5. CASE ProcessBlock(p)
        <4>1. /\ pc[p] = "process" /\ UNCHANGED <<requests, current>>
              /\ GoTo(p, "idle") \/ GoTo(p, "onNewBlock") \/ GoTo(p, "waitLocator")
          BY <3>5, Zenon DEF ProcessBlock
        <4> QED
          BY <4>1 DEF Labels, requests
      <3>3. CASE SkipBlock(p) \/ EndOnMissingData(p)
        BY <3>3 DEF SkipBlock, EndOnMissingData, EndSilently, Labels, requests
      <3> QED
        BY <1>6, <3>1, <3>2, <3>3, <3>4, <3>5, Zenon
    <2> QED
      BY <2>1, MoveRInv, Zenon
  <1>7. ASSUME NEW p \in Peers, EndFlow(p)
        PROVE  RInv'
    <2>1. CASE pc[p] = "waitBlock"
      <3>1. RemoveRequest(p) /\ GoTo(p, "ended") /\ UNCHANGED current
        BY <1>7, <2>1 DEF EndFlow
      <3> QED
        BY <2>1, <3>1, RemoveRInv, Zenon DEF Labels
    <2>2. CASE pc[p] # "waitBlock"
      <3>1. UNCHANGED <<requested, contested>> /\ GoTo(p, "ended") /\ UNCHANGED current
        BY <1>7, <2>2 DEF EndFlow, requests
      <3> QED
        BY <2>2, <3>1, MoveRInv, Zenon DEF Labels
    <2> QED
      BY <2>1, <2>2
  <1>8. ASSUME NEW p \in Peers, OnNewBlockFails(p)
        PROVE  RInv'
    <2>1. \/ Panic
          \/ GoTo(p, "ended") /\ UNCHANGED <<current, requested, contested>>
      BY <1>8, Zenon DEF OnNewBlockFails, EndSilently, requests
    <2>2. pc[p] # "waitBlock"
      BY <1>8 DEF OnNewBlockFails
    <2> QED
      BY <2>1, <2>2, PanicRInv, MoveRInv, Zenon DEF Labels
  <1>9. ASSUME NEW p \in Peers, SyncBodyFails(p)
        PROVE  RInv'
    <2>1. Panic \/ UNCHANGED <<pc, current, requested, contested>>
      BY <1>9, Zenon DEF SyncBodyFails, flow, requests
    <2> QED
      BY <2>1, PanicRInv, SameRInv, Zenon
  <1> QED
    BY <1>1, <1>2, <1>3, <1>4, <1>5, <1>6, <1>7, <1>8, <1>9, AddToRelayInvRInv, Zenon DEF Next

\* Every entry of sharedRequestedBlocks has a flow that waits for its block, and a flow
\* that waits for a block has the one entry for it and nobody else waits, unless
\* addToRelayInv took an entry away, for any number of peers, any DAG, and any order of
\* announcements, answers, lost connections, failed calls, panics and restarts
\* (handle_relay_invs.go, shared_requested_blocks.go).
THEOREM RequestsAreAlwaysOwned == Spec => []RequestsAreOwned
  <1>1. Init => RInv
    BY InitRInv
  <1>2. RInv /\ [Next]_vars => RInv'
    BY NextRInv
  <1>3. RInv => RequestsAreOwned
    BY DEF RInv
  <1> QED
    BY <1>1, <1>2, <1>3, PTL DEF Spec

-----------------------------------------------------------------------------
(* Routes as sequences.                                                    *)

\* The indices of a sequence one longer: the old ones and the last.
LEMMA IndexSplit ==
    ASSUME NEW n \in Nat
    PROVE  \A i \in 1 .. n + 1 : i \in 1 .. n \/ i = n + 1
  OBVIOUS

\* Dropping the first n of m indices shifts the rest past n.
LEMMA IndexShift ==
    ASSUME NEW m \in Nat, NEW n \in 1 .. m
    PROVE  \A i \in 1 .. m - n : n + i \in 1 .. m /\ n + i # n
  OBVIOUS

\* A sequence that is not empty has a first index.
LEMMA FirstIndex ==
    ASSUME NEW S, NEW s \in Seq(S), s # << >>
    PROVE  1 \in 1 .. Len(s)
  OBVIOUS

\* A size that is not above a limit, or is at most one that is not, stays within it.
LEMMA AtMost ==
    ASSUME NEW a \in Nat, NEW m \in Nat
    PROVE  /\ ~ (a > m) => a <= m
           /\ \A b \in Nat : (a <= b /\ b <= m => a <= m) /\ (a <= b + 1 /\ b <= m => a - 1 <= m)
  OBVIOUS

\* What Append does to any sequence.
LEMMA AppendSeq ==
    ASSUME NEW s, IsSeq(s), NEW m
    PROVE  /\ IsSeq(Append(s, m)) /\ Len(Append(s, m)) = Len(s) + 1 /\ Len(s) \in Nat
           /\ \A i \in 1 .. Len(s) : Append(s, m)[i] = s[i]
           /\ Append(s, m)[Len(s) + 1] = m
  <1> DEFINE S == Range(s) \union {m}
             u == Append(s, m)
  <1>1. s \in Seq(S)
    <2>1. Range(s) \subseteq S
      OBVIOUS
    <2> QED
      BY <2>1, SeqMonotonic DEF IsSeq
  <1>2. /\ u \in Seq(S) /\ Len(u) = Len(s) + 1 /\ Len(s) \in Nat
        /\ \A i \in 1 .. Len(s) : u[i] = s[i]
        /\ u[Len(s) + 1] = m
    BY <1>1, AppendProperties, LenProperties
  <1>3. u \in Seq(Range(u))
    BY <1>2, SeqOfRange, Zenon
  <1> QED
    BY <1>2, <1>3 DEF IsSeq

\* What is left of a sequence after its first n elements.
LEMMA RestOfSeq ==
    ASSUME NEW s, IsSeq(s), NEW n \in 1 .. Len(s)
    PROVE  /\ IsSeq(SubSeq(s, n + 1, Len(s))) /\ Len(SubSeq(s, n + 1, Len(s))) = Len(s) - n
           /\ Len(s) \in Nat
           /\ \A i \in 1 .. Len(s) - n : SubSeq(s, n + 1, Len(s))[i] = s[n + i]
  <1> DEFINE u == SubSeq(s, n + 1, Len(s))
  <1>1. Len(s) \in Nat /\ \A i \in 1 .. Len(s) : s[i] \in Range(s)
    BY LenProperties, ElementOfSeq DEF IsSeq
  <1>2. /\ u \in Seq(Range(s))
        /\ Len(u) = IF n + 1 <= Len(s) THEN Len(s) - (n + 1) + 1 ELSE 0
        /\ \A i \in 1 .. Len(s) - (n + 1) + 1 : u[i] = s[n + 1 + i - 1]
    BY <1>1, SubSeqProperties
  <1>3. u \in Seq(Range(u))
    BY <1>2, SeqOfRange, Zenon
  <1> QED
    BY <1>1, <1>2, <1>3 DEF IsSeq

\* The answer a flow takes is no inv, and it is the only one.
LEMMA AnswerIsFirst ==
    ASSUME NEW p \in Peers, RouteOK(p), Answer(p) # 0
    PROVE  /\ Answer(p) \in 1 .. Len(route[p])
           /\ route[p][Answer(p)].kind # "inv"
           /\ \A i \in 1 .. Len(route[p]) : i # Answer(p) => route[p][i].kind = "inv"
  <1> DEFINE I == {i \in 1 .. Len(route[p]) : route[p][i].kind # "inv"}
  <1>1. I # {} /\ Answer(p) = CHOOSE i \in I : \A j \in I : i <= j
    BY Zenon DEF Answer
  <1>2. PICK n \in I : TRUE
    BY <1>1
  <1>3. \A i \in I : i = n
    BY <1>2 DEF RouteOK
  <1>4. n \in Int /\ I = {n}
    <2>1. n \in 1 .. Len(route[p]) /\ Len(route[p]) \in Nat
      BY <1>2, LenProperties, Zenon DEF RouteOK, IsSeq
    <2> QED
      BY <1>2, <1>3, <2>1
  <1>5. (CHOOSE i \in {n} : \A j \in {n} : i <= j) = n
    BY <1>4
  <1>6. Answer(p) = n
    <2> HIDE DEF I
    <2> QED
      BY <1>1, <1>4, <1>5, Zenon
  <1> QED
    BY <1>2, <1>3, <1>6, Zenon

-----------------------------------------------------------------------------
(* The answers under way.                                                  *)

\* At first nothing is under way.
LEMMA InitAInv == Init => AInv
  <1> SUFFICES ASSUME Init PROVE AInv
    OBVIOUS
  <1>1. CountOK
    BY DEF Init, CountOK
  <1>2. \A p \in Peers : route[p] = << >> /\ asked[p] = {}
    BY DEF Init
  <1>3. IsSeq(<< >>) /\ Len(<< >>) = 0
    BY EmptySeq, Zenon DEF IsSeq
  <1>4. \A p \in Peers : RouteOK(p) /\ AskedOK(p) /\ ClosedOK(p)
    BY <1>2, <1>3 DEF RouteOK, AskedOK, ClosedOK
  <1> QED
    BY <1>1, <1>4, Zenon DEF AInv, Prompt, Init

\* A step of one peer or its flow leaves the others as they are.
LEMMA OnePeer ==
    ASSUME Prompt, FlowsOK, NEW p \in Peers,
           route' = [q \in Peers |-> route'[q]], asked' = [q \in Peers |-> asked'[q]],
           \A q \in Peers : q # p => /\ route'[q] = route[q] /\ asked'[q] = asked[q]
                                     /\ pc'[q] = pc[q]
                                     /\ q \notin connected' => q \notin connected,
           RouteOK(p)', AskedOK(p)', ClosedOK(p)'
    PROVE  Prompt'
  <1>1. ASSUME NEW q \in Peers, q # p
        PROVE  RouteOK(q)' /\ AskedOK(q)' /\ ClosedOK(q)'
    <2>1. /\ route'[q] = route[q] /\ asked'[q] = asked[q] /\ pc'[q] = pc[q]
          /\ q \notin connected' => q \notin connected
      BY <1>1
    <2>2. RouteOK(q) /\ AskedOK(q) /\ ClosedOK(q)
      BY DEF Prompt
    <2> QED
      BY <2>1, <2>2 DEF RouteOK, AskedOK, ClosedOK
  <1> QED
    BY <1>1, Zenon DEF Prompt

\* The labels of flows that change: p's only.
LEMMA LabelOf ==
    ASSUME FlowsOK, NEW p \in Peers, NEW label, GoTo(p, label)
    PROVE  pc'[p] = label /\ \A q \in Peers : q # p => pc'[q] = pc[q]
  BY DEF FlowsOK, GoTo

\* Nothing is under way to a flow whose connection is closed.
LEMMA ClosedPeer ==
    ASSUME NEW p \in Peers, route'[p] = << >>, asked'[p] = {}
    PROVE  RouteOK(p)' /\ AskedOK(p)' /\ ClosedOK(p)'
  <1>1. IsSeq(<< >>) /\ Len(<< >>) = 0
    BY EmptySeq, Zenon DEF IsSeq
  <1> QED
    BY <1>1 DEF RouteOK, AskedOK, ClosedOK

\* Announce keeps Prompt: an inv is no answer.
LEMMA AnnouncePrompt ==
    ASSUME Prompt, FlowsOK, NEW p \in Peers, Announce(p), NEW b,
           route' = [route EXCEPT ![p] = Append(@, Msg("inv", b))]
    PROVE  Prompt'
  <1>1. UNCHANGED <<connected, asked, pc>> /\ p \in connected
    BY DEF Announce, flow
  <1>2. /\ route' = [q \in Peers |-> route'[q]]
        /\ route'[p] = Append(route[p], Msg("inv", b))
        /\ \A q \in Peers : q # p => route'[q] = route[q]
    BY Zenon DEF Prompt
  <1>3. RouteOK(p) /\ AskedOK(p)
    BY DEF Prompt
  <1>4. /\ IsSeq(route'[p]) /\ Len(route'[p]) = Len(route[p]) + 1 /\ Len(route[p]) \in Nat
        /\ \A i \in 1 .. Len(route[p]) : route'[p][i] = route[p][i]
        /\ route'[p][Len(route[p]) + 1] = Msg("inv", b)
    BY <1>2, <1>3, AppendSeq DEF RouteOK
  <1>5. Msg("inv", b).kind = "inv"
    BY DEF Msg
  <1>6. \A i \in 1 .. Len(route'[p]) : \/ i \in 1 .. Len(route[p]) /\ route'[p][i] = route[p][i]
                                       \/ route'[p][i].kind = "inv"
    <2>1. \A i \in 1 .. Len(route[p]) + 1 : i \in 1 .. Len(route[p]) \/ i = Len(route[p]) + 1
      BY <1>4, IndexSplit, Zenon
    <2> QED
      BY <1>4, <1>5, <2>1, Zenon
  <1>7. RouteOK(p)'
    <2>1. \A i \in 1 .. Len(route'[p]) : route'[p][i].kind \in {"inv"} \union Expected(pc'[p])
      BY <1>1, <1>3, <1>6 DEF RouteOK
    <2>2. \A i, j \in 1 .. Len(route'[p]) :
            route'[p][i].kind # "inv" /\ route'[p][j].kind # "inv" => i = j
      BY <1>3, <1>6 DEF RouteOK
    <2> QED
      BY <1>4, <2>1, <2>2, Zenon DEF RouteOK
  <1>8. AskedOK(p)'
    BY <1>1, <1>3, <1>6, ZenonT(30) DEF AskedOK
  <1>9. ClosedOK(p)'
    BY <1>1 DEF ClosedOK
  <1> QED
    BY <1>1, <1>2, <1>7, <1>8, <1>9, OnePeer, Zenon DEF Prompt

\* PeerAnswers keeps Prompt: the one answer goes from the peer to the route.
LEMMA PeerAnswersPrompt ==
    ASSUME Prompt, FlowsOK, NEW p \in Peers, PeerAnswers(p)
    PROVE  Prompt'
  <1>1. PICK r \in asked[p] : /\ asked' = [asked EXCEPT ![p] = @ \ {r}]
                              /\ route' = [route EXCEPT ![p] = Append(@, r)]
    BY Zenon DEF PeerAnswers
  <1>2. UNCHANGED <<connected, pc>> /\ p \in connected
    BY DEF PeerAnswers, flow
  <1>3. /\ route' = [q \in Peers |-> route'[q]] /\ asked' = [q \in Peers |-> asked'[q]]
        /\ route'[p] = Append(route[p], r) /\ asked'[p] = asked[p] \ {r}
        /\ \A q \in Peers : q # p => route'[q] = route[q] /\ asked'[q] = asked[q]
    BY <1>1, Zenon DEF Prompt
  <1>4. RouteOK(p) /\ AskedOK(p)
    BY Zenon DEF Prompt
  <1>5. /\ IsSeq(route'[p]) /\ Len(route'[p]) = Len(route[p]) + 1 /\ Len(route[p]) \in Nat
        /\ \A i \in 1 .. Len(route[p]) : route'[p][i] = route[p][i]
        /\ route'[p][Len(route[p]) + 1] = r
    BY <1>3, <1>4, AppendSeq DEF RouteOK
  <1>6. /\ r.kind \in Expected(pc[p]) /\ asked'[p] = {}
        /\ \A i \in 1 .. Len(route[p]) : route[p][i].kind = "inv"
    BY <1>1, <1>3, <1>4, Zenon DEF AskedOK
  <1>7. RouteOK(p)'
    <2>1. \A i \in 1 .. Len(route'[p]) : \/ route'[p][i].kind = "inv"
                                         \/ i = Len(route[p]) + 1 /\ route'[p][i] = r
      <3>1. \A i \in 1 .. Len(route[p]) + 1 : i \in 1 .. Len(route[p]) \/ i = Len(route[p]) + 1
        BY <1>5, IndexSplit, Zenon
      <3> QED
        BY <1>5, <1>6, <3>1, Zenon
    <2>2. \A i \in 1 .. Len(route'[p]) : route'[p][i].kind \in {"inv"} \union Expected(pc'[p])
      BY <1>2, <1>6, <2>1
    <2>3. \A i, j \in 1 .. Len(route'[p]) :
            route'[p][i].kind # "inv" /\ route'[p][j].kind # "inv" => i = j
      BY <2>1
    <2> QED
      BY <1>5, <2>2, <2>3, Zenon DEF RouteOK
  <1>8. AskedOK(p)'
    BY <1>6, Zenon DEF AskedOK
  <1>9. ClosedOK(p)'
    BY <1>2, Zenon DEF ClosedOK
  <1> QED
    BY <1>2, <1>3, <1>7, <1>8, <1>9, OnePeer, ZenonT(30) DEF Prompt

\* Disconnect and ReadUnexpected keep Prompt: what was under way is gone.
LEMMA ClosePrompt ==
    ASSUME Prompt, FlowsOK, NEW p \in Peers, Disconnect(p) \/ ReadUnexpected(p)
    PROVE  Prompt'
  <1>1. CloseConnection(p)
    BY DEF Disconnect, ReadUnexpected
  <1>2. /\ route' = [q \in Peers |-> route'[q]] /\ asked' = [q \in Peers |-> asked'[q]]
        /\ route'[p] = << >> /\ asked'[p] = {}
        /\ \A q \in Peers : q # p => route'[q] = route[q] /\ asked'[q] = asked[q]
        /\ \A q \in Peers : q # p /\ q \notin connected' => q \notin connected
    BY <1>1, Zenon DEF CloseConnection, Prompt
  <1>3. \A q \in Peers : q # p => pc'[q] = pc[q]
    BY LabelOf, Zenon DEF Disconnect, ReadUnexpected, flow
  <1> QED
    BY <1>1, <1>2, <1>3, ClosedPeer, OnePeer, Zenon

\* With the route as it is, a flow may move to a label that expects as much.
LEMMA SameRoute ==
    ASSUME NEW p \in Peers, RouteOK(p), AskedOK(p), ClosedOK(p),
           route'[p] = route[p], asked'[p] = asked[p], p \notin connected' => p \notin connected,
           Expected(pc[p]) \subseteq Expected(pc[p])'
    PROVE  RouteOK(p)' /\ AskedOK(p)' /\ ClosedOK(p)'
  BY ZenonT(30) DEF RouteOK, AskedOK, ClosedOK

\* A flow that expects nothing asks for one thing and waits for it.
LEMMA AskOnce ==
    ASSUME NEW p \in Peers, RouteOK(p), AskedOK(p), Expected(pc[p]) = {},
           IsSeq(route'[p]),
           \A i \in 1 .. Len(route'[p]) :
               \E j \in 1 .. Len(route[p]) : route'[p][i] = route[p][j],
           NEW m, asked'[p] = asked[p] \union {m}, m.kind \in Expected(pc[p])',
           p \in connected'
    PROVE  RouteOK(p)' /\ AskedOK(p)' /\ ClosedOK(p)'
  <1>1. asked[p] = {} /\ \A j \in 1 .. Len(route[p]) : route[p][j].kind = "inv"
    BY DEF RouteOK, AskedOK
  <1>2. asked'[p] = {m} /\ \A i \in 1 .. Len(route'[p]) : route'[p][i].kind = "inv"
    BY <1>1, ZenonT(30)
  <1>3. RouteOK(p)'
    BY <1>2, Zenon DEF RouteOK
  <1>4. AskedOK(p)'
    BY <1>2 DEF AskedOK
  <1> QED
    BY <1>3, <1>4, Zenon DEF ClosedOK

\* ReadInv keeps Prompt: it takes an inv, and asks for a block only when nothing is
\* under way.
LEMMA ReadInvPrompt ==
    ASSUME Prompt, FlowsOK, NEW p \in Peers, ReadInv(p)
    PROVE  Prompt'
  <1>1. RouteOK(p) /\ AskedOK(p) /\ ClosedOK(p) /\ pc[p] = "idle" /\ Expected(pc[p]) = {}
    BY DEF Prompt, ReadInv, Expected
  <1>2. UNCHANGED connected
    BY ZenonT(30) DEF ReadInv
  <1>3. \/ route' = route
        \/ route[p] # << >> /\ route' = [route EXCEPT ![p] = SubSeq(@, 1 + 1, Len(@))]
    BY DEF ReadInv, RouteAfter
  <1>4. /\ route' = [q \in Peers |-> route'[q]]
        /\ \A q \in Peers : q # p => route'[q] = route[q]
        /\ \/ route'[p] = route[p]
           \/ route[p] # << >> /\ route'[p] = SubSeq(route[p], 1 + 1, Len(route[p]))
    BY <1>3, ZenonT(30) DEF Prompt
  <1>5. Len(route[p]) \in Nat /\ (route[p] # << >> => 1 \in 1 .. Len(route[p]))
    BY <1>1, LenProperties, EmptySeq DEF RouteOK, IsSeq
  <1>6. /\ IsSeq(route'[p])
        /\ \A i \in 1 .. Len(route'[p]) :
               \E j \in 1 .. Len(route[p]) : route'[p][i] = route[p][j]
    <2>1. CASE route'[p] = route[p]
      BY <1>1, <2>1, Zenon DEF RouteOK
    <2>2. CASE route[p] # << >> /\ route'[p] = SubSeq(route[p], 1 + 1, Len(route[p]))
      <3>1. /\ IsSeq(route'[p]) /\ Len(route'[p]) = Len(route[p]) - 1
            /\ \A i \in 1 .. Len(route[p]) - 1 : route'[p][i] = route[p][1 + i]
        BY <1>1, <1>5, <2>2, RestOfSeq, SMTT(30) DEF RouteOK
      <3> QED
        BY <1>5, <3>1
    <2> QED
      BY <1>4, <2>1, <2>2, Zenon
  <1>7. PICK inv, queue : HandleInv(p, inv, queue)
    BY Zenon DEF ReadInv
  <1>8. \/ UNCHANGED <<pc, asked>>
        \/ /\ asked' = [asked EXCEPT ![p] = @ \union {Msg("block", inv.block)}]
           /\ GoTo(p, "waitBlock") /\ p \in connected
        \/ UNCHANGED asked /\ GoTo(p, "ended") /\ p \notin connected
    BY <1>7, Zenon DEF HandleInv
  <1>9. CASE \/ UNCHANGED <<pc, asked>>
             \/ UNCHANGED asked /\ GoTo(p, "ended") /\ p \notin connected
    <2>1. Expected(pc[p])' = {} /\ \A q \in Peers : q # p => pc'[q] = pc[q]
      BY <1>1, <1>9, LabelOf, SMTT(30) DEF Expected
    <2>2. asked[p] = {} /\ \A j \in 1 .. Len(route[p]) : route[p][j].kind = "inv"
      BY <1>1 DEF RouteOK, AskedOK
    <2>3. RouteOK(p)'
      BY <1>6, <2>2, ZenonT(30) DEF RouteOK
    <2>4. AskedOK(p)'
      BY <1>9, <2>2, Zenon DEF AskedOK
    <2>5. ClosedOK(p)'
      <3>1. CASE route'[p] = route[p]
        BY <1>1, <1>2, <1>9, <3>1, ZenonT(30) DEF ClosedOK
      <3>2. CASE route[p] # << >>
        BY <1>1, <1>2, <3>2, ZenonT(30) DEF ClosedOK
      <3> QED
        BY <1>4, <3>1, <3>2, Zenon
    <2> QED
      BY <1>2, <1>4, <1>9, <2>1, <2>3, <2>4, <2>5, OnePeer, Zenon DEF Prompt
  <1>10. CASE /\ asked' = [asked EXCEPT ![p] = @ \union {Msg("block", inv.block)}]
              /\ GoTo(p, "waitBlock") /\ p \in connected
    <2>1. pc'[p] = "waitBlock" /\ \A q \in Peers : q # p => pc'[q] = pc[q]
      BY <1>10, LabelOf, ZenonT(30)
    <2>2. /\ asked' = [q \in Peers |-> asked'[q]]
          /\ asked'[p] = asked[p] \union {Msg("block", inv.block)}
          /\ \A q \in Peers : q # p => asked'[q] = asked[q]
      BY <1>10, ZenonT(30) DEF Prompt
    <2>3. Msg("block", inv.block).kind \in Expected(pc[p])'
      BY <2>1, ZenonT(30) DEF Msg, Expected
    <2>4. RouteOK(p)' /\ AskedOK(p)' /\ ClosedOK(p)'
      BY <1>1, <1>2, <1>6, <1>10, <2>2, <2>3, AskOnce, ZenonT(30)
    <2> QED
      BY <1>2, <1>4, <2>1, <2>2, <2>4, OnePeer, ZenonT(30) DEF Prompt
  <1> QED
    BY <1>8, <1>9, <1>10, ZenonT(30)

\* A flow takes the answer it waits for: nothing is under way afterwards.
LEMMA TakeAnswer ==
    ASSUME Prompt, FlowsOK, NEW p \in Peers, Answer(p) # 0, NEW label, GoTo(p, label),
           route' = RouteAfter(p, Answer(p)), UNCHANGED <<connected, asked>>
    PROVE  Prompt'
  <1> DEFINE n == Answer(p)
  <1>1. RouteOK(p) /\ AskedOK(p) /\ ClosedOK(p)
    BY ZenonT(30) DEF Prompt
  <1>2. /\ n \in 1 .. Len(route[p]) /\ route[p][n].kind # "inv"
        /\ \A i \in 1 .. Len(route[p]) : i # n => route[p][i].kind = "inv"
    BY <1>1, AnswerIsFirst, ZenonT(30)
  <1>3. asked[p] = {}
    BY <1>1, <1>2 DEF AskedOK
  <1>4. /\ route' = [q \in Peers |-> route'[q]]
        /\ \A q \in Peers : q # p => route'[q] = route[q]
        /\ route'[p] = SubSeq(route[p], n + 1, Len(route[p]))
    BY Zenon DEF Prompt, RouteAfter
  <1>5. /\ IsSeq(route'[p]) /\ Len(route'[p]) = Len(route[p]) - n /\ Len(route[p]) \in Nat
        /\ \A i \in 1 .. Len(route[p]) - n : route'[p][i] = route[p][n + i]
    <2> HIDE DEF n
    <2>1. IsSeq(route[p])
      BY <1>1 DEF RouteOK
    <2> DEFINE rest == SubSeq(route[p], n + 1, Len(route[p]))
    <2>2. /\ IsSeq(rest) /\ Len(rest) = Len(route[p]) - n /\ Len(route[p]) \in Nat
          /\ \A i \in 1 .. Len(route[p]) - n : rest[i] = route[p][n + i]
      BY <1>2, <2>1, RestOfSeq, ZenonT(30)
    <2>3. route'[p] = rest
      BY <1>4, ZenonT(30)
    <2> HIDE DEF rest
    <2> QED
      BY <2>2, <2>3, ZenonT(30)
  <1>6. \A i \in 1 .. Len(route'[p]) : route'[p][i].kind = "inv"
    <2> SUFFICES ASSUME NEW i \in 1 .. Len(route'[p]) PROVE route'[p][i].kind = "inv"
      BY ZenonT(30)
    <2>1. n + i \in 1 .. Len(route[p]) /\ n + i # n /\ route'[p][i] = route[p][n + i]
      <3> HIDE DEF n
      <3>1. \A k \in 1 .. Len(route[p]) - n : n + k \in 1 .. Len(route[p]) /\ n + k # n
        BY <1>2, <1>5, IndexShift, Zenon
      <3> QED
        BY <1>5, <3>1, Zenon
    <2> QED
      BY <1>2, <2>1, ZenonT(30)
  <1>7. RouteOK(p)'
    BY <1>5, <1>6, Zenon DEF RouteOK
  <1>8. AskedOK(p)'
    BY <1>3, Zenon DEF AskedOK
  <1>9. ClosedOK(p)'
    <2>1. p \in connected
      BY <1>1, <1>2, EmptySeq DEF ClosedOK
    <2> QED
      BY <2>1, Zenon DEF ClosedOK
  <1>10. \A q \in Peers : q # p => pc'[q] = pc[q]
    BY LabelOf
  <1> QED
    BY <1>4, <1>7, <1>8, <1>9, <1>10, OnePeer, ZenonT(30) DEF Prompt

\* ReceiveBlock and ReceiveLocator keep Prompt: a flow that waits for a block finds no
\* locator, so it does not panic.
LEMMA ReceivePrompt ==
    ASSUME Prompt, FlowsOK, NEW p \in Peers, ReceiveBlock(p) \/ ReceiveLocator(p)
    PROVE  Prompt'
  <1>1. Answer(p) # 0
    BY DEF ReceiveBlock, ReceiveLocator
  <1>2. CASE ReceiveBlock(p)
    <2>1. RouteOK(p) /\ pc[p] = "waitBlock"
      BY <1>2, ZenonT(30) DEF Prompt, ReceiveBlock
    <2>2. route[p][Answer(p)].kind # "locator"
      BY <1>1, <2>1, AnswerIsFirst, ZenonT(30) DEF RouteOK, Expected
    <2>3. /\ route' = RouteAfter(p, Answer(p)) /\ GoTo(p, "process")
          /\ UNCHANGED <<connected, asked>>
      BY <1>2, <2>2, ZenonT(30) DEF ReceiveBlock
    <2> QED
      BY <1>1, <2>3, TakeAnswer, ZenonT(30)
  <1>3. CASE ReceiveLocator(p)
    <2>1. /\ route' = RouteAfter(p, Answer(p)) /\ GoTo(p, "idle")
          /\ UNCHANGED <<connected, asked>>
      BY <1>3, Zenon DEF ReceiveLocator
    <2> QED
      BY <1>1, <2>1, TakeAnswer, ZenonT(30)
  <1> QED
    BY <1>2, <1>3, Zenon

\* ProcessBlock keeps Prompt: it asks for a locator when nothing else is under way.
LEMMA ProcessBlockPrompt ==
    ASSUME Prompt, FlowsOK, NEW p \in Peers, ProcessBlock(p)
    PROVE  Prompt'
  <1>1. RouteOK(p) /\ AskedOK(p) /\ ClosedOK(p) /\ Expected(pc[p]) = {}
    BY ZenonT(30) DEF Prompt, ProcessBlock, Expected
  <1>2. UNCHANGED <<connected, route>>
    BY ZenonT(30) DEF ProcessBlock
  <1>3. \/ UNCHANGED asked /\ \E label \in Labels : GoTo(p, label)
        \/ /\ asked' = [asked EXCEPT ![p] = @ \union {Msg("locator", current[p].block)}]
           /\ GoTo(p, "waitLocator") /\ p \in connected
    BY ZenonT(30) DEF ProcessBlock, Labels
  <1>4. CASE UNCHANGED asked /\ \E label \in Labels : GoTo(p, label)
    <2>1. \A q \in Peers : q # p => pc'[q] = pc[q]
      BY <1>4, LabelOf, ZenonT(30)
    <2>2. RouteOK(p)' /\ AskedOK(p)' /\ ClosedOK(p)'
      BY <1>1, <1>2, <1>4, SameRoute, ZenonT(30)
    <2> QED
      BY <1>2, <1>4, <2>1, <2>2, OnePeer, ZenonT(30) DEF Prompt
  <1>5. CASE /\ asked' = [asked EXCEPT ![p] = @ \union {Msg("locator", current[p].block)}]
             /\ GoTo(p, "waitLocator") /\ p \in connected
    <2>1. pc'[p] = "waitLocator" /\ \A q \in Peers : q # p => pc'[q] = pc[q]
      BY <1>5, LabelOf, ZenonT(30)
    <2>2. /\ asked' = [q \in Peers |-> asked'[q]]
          /\ asked'[p] = asked[p] \union {Msg("locator", current[p].block)}
          /\ \A q \in Peers : q # p => asked'[q] = asked[q]
      BY <1>5, ZenonT(30) DEF Prompt
    <2>3. Msg("locator", current[p].block).kind \in Expected(pc[p])'
      BY <2>1 DEF Msg, Expected
    <2>4. RouteOK(p)' /\ AskedOK(p)' /\ ClosedOK(p)'
      BY <1>1, <1>2, <1>5, <2>2, <2>3, AskOnce, ZenonT(30) DEF RouteOK
    <2> QED
      BY <1>2, <2>1, <2>2, <2>4, OnePeer, ZenonT(30) DEF Prompt
  <1> QED
    BY <1>3, <1>4, <1>5, ZenonT(30)

\* The steps of a flow that neither ask nor read keep Prompt.
LEMMA QuietPrompt ==
    ASSUME Prompt, FlowsOK, NEW p \in Peers,
           \/ OnNewBlock(p) \/ AddToRelayInv(p) \/ SkipBlock(p) \/ EndFlow(p)
           \/ (LocatorFails(p) /\ p \notin connected)
    PROVE  Prompt'
  <1>1. UNCHANGED <<connected, route, asked>>
    <2>1. UNCHANGED net
      BY Zenon DEF OnNewBlock, AddToRelayInv, SkipBlock, EndFlow, LocatorFails
    <2> QED
      BY <2>1 DEF net
  <1>2. \A q \in Peers : q # p => pc'[q] = pc[q]
    BY LabelOf, ZenonT(30) DEF OnNewBlock, AddToRelayInv, SkipBlock, EndFlow, LocatorFails
  <1>3. RouteOK(p)' /\ AskedOK(p)' /\ ClosedOK(p)'
    <2>1. CASE OnNewBlock(p) \/ AddToRelayInv(p) \/ SkipBlock(p)
      <3>1. Expected(pc[p]) = {}
        BY <2>1, ZenonT(30) DEF OnNewBlock, AddToRelayInv, SkipBlock, Expected
      <3> QED
        BY <1>1, <3>1, SameRoute, ZenonT(30) DEF Prompt
    <2>2. CASE p \notin connected
      BY <1>1, <2>2, ClosedPeer, ZenonT(30) DEF Prompt, ClosedOK
    <2> QED
      BY <2>1, <2>2, ZenonT(30) DEF EndFlow
  <1> QED
    BY <1>1, <1>2, <1>3, OnePeer, ZenonT(30) DEF Prompt

\* A flow that ends on missing data leaves nothing under way.
LEMMA SilentPrompt ==
    ASSUME Prompt, FlowsOK, NEW p \in Peers, NEW dropped, EndSilently(p, dropped),
           UNCHANGED connected
    PROVE  Prompt'
  <1>1. /\ GoTo(p, "ended") /\ route' = [route EXCEPT ![p] = << >>]
        /\ asked' = [asked EXCEPT ![p] = {}]
    BY Zenon DEF EndSilently
  <1>2. /\ route' = [q \in Peers |-> route'[q]] /\ asked' = [q \in Peers |-> asked'[q]]
        /\ route'[p] = << >> /\ asked'[p] = {}
        /\ \A q \in Peers : q # p => route'[q] = route[q] /\ asked'[q] = asked[q]
    BY <1>1, Zenon DEF Prompt
  <1>3. \A q \in Peers : q # p => pc'[q] = pc[q]
    BY <1>1, LabelOf, Zenon
  <1> QED
    BY <1>2, <1>3, ClosedPeer, OnePeer, Zenon

\* Nothing is under way when the node has panicked.
LEMMA PanicPrompt ==
    ASSUME Panic
    PROVE  Prompt'
  <1>1. \A p \in Peers : route'[p] = << >> /\ asked'[p] = {}
    BY DEF Panic
  <1>2. \A p \in Peers : RouteOK(p)' /\ AskedOK(p)' /\ ClosedOK(p)'
    BY <1>1, ClosedPeer, Zenon
  <1>3. route' = [p \in Peers |-> route'[p]] /\ asked' = [p \in Peers |-> asked'[p]]
    BY DEF Panic
  <1> QED
    BY <1>2, <1>3, Zenon DEF Prompt

\* When it starts again, one inv comes from each peer.
LEMMA RestartPrompt ==
    ASSUME Prompt, Restart
    PROVE  Prompt'
  <1> DEFINE m == Msg("inv", Heaviest(Blocks))
  <1>1. /\ route' = [p \in Peers |-> <<m>>] /\ connected' = Peers /\ UNCHANGED <<asked, pc>>
    BY DEF Restart, flow
  <1>2. m.kind = "inv"
    BY DEF Msg
  <1> HIDE DEF m
  <1>3. IsSeq(<<m>>) /\ Len(<<m>>) = 1 /\ <<m>>[1] = m
    <2>1. <<m>> \in Seq({m}) /\ Len(<<m>>) = 1 /\ <<m>>[1] = m
      OBVIOUS
    <2> QED
      BY <2>1, SeqOfRange, Zenon DEF IsSeq
  <1>4. \A i \in 1 .. 1 : i = 1
    OBVIOUS
  <1>5. ASSUME NEW p \in Peers
        PROVE  RouteOK(p)' /\ AskedOK(p)' /\ ClosedOK(p)'
    <2>1. route'[p] = <<m>> /\ asked'[p] = asked[p] /\ pc'[p] = pc[p] /\ p \in connected'
      BY <1>1, Zenon
    <2>2. \A i \in 1 .. Len(route'[p]) : i = 1 /\ route'[p][i].kind = "inv"
      BY <1>2, <1>3, <1>4, <2>1, Zenon
    <2>3. RouteOK(p)'
      BY <1>3, <2>1, <2>2, Zenon DEF RouteOK
    <2>4. AskedOK(p)'
      BY <2>1, <2>2, Zenon DEF AskedOK, Prompt
    <2> QED
      BY <2>1, <2>3, <2>4, Zenon DEF ClosedOK
  <1>6. route' = [p \in Peers |-> route'[p]] /\ asked' = [p \in Peers |-> asked'[p]]
    BY <1>1, Zenon DEF Prompt
  <1> QED
    BY <1>5, <1>6, Zenon DEF Prompt

\* The steps of the IBD flows that do not panic keep Prompt, and so does stuttering.
LEMMA IdlePrompt ==
    ASSUME Prompt, UNCHANGED <<connected, route, asked, pc>>
    PROVE  Prompt'
  <1>1. ASSUME NEW p \in Peers
        PROVE  RouteOK(p)' /\ AskedOK(p)' /\ ClosedOK(p)'
    <2>1. RouteOK(p) /\ AskedOK(p) /\ ClosedOK(p)
      BY DEF Prompt
    <2>2. RouteOK(p)'
      BY <2>1, Zenon DEF RouteOK
    <2>3. AskedOK(p)' /\ ClosedOK(p)'
      BY <2>1, Zenon DEF AskedOK, ClosedOK
    <2> QED
      BY <2>2, <2>3, ZenonT(30)
  <1> QED
    BY <1>1 DEF Prompt

\* Every step but the timeout of a locator keeps Prompt.
LEMMA NextPrompt ==
    ASSUME Prompt, FlowsOK, [Next]_vars,
           \A p \in Peers : LocatorFails(p) => p \notin connected
    PROVE  Prompt'
  <1>1. ASSUME NEW p \in Peers, Announce(p)
        PROVE  Prompt'
    <2>1. CASE route' = route
      <3>1. UNCHANGED <<connected, route, asked, pc>>
        BY <1>1, <2>1, Zenon DEF Announce, flow
      <3> QED
        BY <3>1, IdlePrompt, Zenon
    <2>2. ASSUME NEW b, route' = [route EXCEPT ![p] = Append(@, Msg("inv", b))]
          PROVE  Prompt'
      BY <1>1, <2>2, AnnouncePrompt, Zenon
    <2> QED
      BY <1>1, <2>1, <2>2, Zenon DEF Announce
  <1>2. ASSUME NEW p \in Peers, EndOnMissingData(p)
        PROVE  Prompt'
    <2>1. UNCHANGED connected /\ \E dropped : EndSilently(p, dropped)
      BY <1>2, Zenon DEF EndOnMissingData
    <2> QED
      BY <2>1, SilentPrompt, Zenon
  <1>3. ASSUME NEW p \in Peers, OnNewBlockFails(p)
        PROVE  Prompt'
    <2>1. Panic \/ (UNCHANGED connected /\ \E dropped : EndSilently(p, dropped))
      BY <1>3, Zenon DEF OnNewBlockFails
    <2> QED
      BY <2>1, PanicPrompt, SilentPrompt, Zenon
  <1>4. ASSUME NEW p \in Peers,
               \/ StartIBD(p) \/ SyncBody(p) \/ SyncBodyFails(p) \/ FinishIBD(p) \/ EndIBDFlow(p)
        PROVE  Prompt'
    <2>1. Panic \/ UNCHANGED <<connected, route, asked, pc>>
      BY <1>4, ZenonT(30) DEF StartIBD, SyncBody, SyncBodyFails, FinishIBD, EndIBDFlow, net, flow
    <2> QED
      BY <2>1, PanicPrompt, IdlePrompt, Zenon
  <1>5. CASE UNCHANGED vars
    <2>1. UNCHANGED <<connected, route, asked, pc>>
      BY <1>5 DEF vars, net, flow
    <2> QED
      BY <2>1, IdlePrompt, Zenon
  <1>6. ASSUME NEW p \in Peers,
               \/ PeerAnswers(p) \/ Disconnect(p)
               \/ ReadInv(p) \/ ReadUnexpected(p) \/ ReceiveBlock(p) \/ ProcessBlock(p)
               \/ AddToRelayInv(p) \/ SkipBlock(p) \/ OnNewBlock(p) \/ ReceiveLocator(p)
               \/ LocatorFails(p) \/ EndFlow(p)
        PROVE  Prompt'
    BY <1>6, PeerAnswersPrompt, ClosePrompt, ReadInvPrompt, ReceivePrompt, ProcessBlockPrompt,
       QuietPrompt, ZenonT(30)
  <1> QED
    BY <1>1, <1>2, <1>3, <1>4, <1>5, <1>6, RestartPrompt, ZenonT(30) DEF Next

\* What a fault counts.
LEMMA FaultCount ==
    ASSUME CountOK, NEW kind \in {"disconnects", "timeouts", "missing", "errors"}, Fault(kind)
    PROVE  /\ CountOK' /\ count.timeouts <= count'.timeouts /\ count.errors <= count'.errors
           /\ kind = "timeouts" => count'.timeouts # 0
           /\ kind = "errors" => count'.errors # 0
  <1>1. count' = [count EXCEPT ![kind] = count[kind] + 1]
    BY Zenon DEF Fault
  <1>2. CASE kind = "disconnects"
    BY <1>1, <1>2 DEF CountOK
  <1>3. CASE kind = "timeouts"
    BY <1>1, <1>3 DEF CountOK
  <1>4. CASE kind = "missing"
    BY <1>1, <1>4 DEF CountOK
  <1>5. CASE kind = "errors"
    BY <1>1, <1>5 DEF CountOK
  <1> QED
    BY <1>2, <1>3, <1>4, <1>5, Zenon

\* No fault is taken back.
Counted == CountOK' /\ count.timeouts <= count'.timeouts /\ count.errors <= count'.errors

\* What a step may count: only an error of OnNewBlock, or a late locator that a flow meets
\* where it expects a block, brings the node down.
LEMMA CountNext ==
    ASSUME CountOK, [Next]_vars
    PROVE  /\ Counted
           /\ \A p \in Peers : LocatorFails(p) /\ p \in connected => count'.timeouts # 0
           /\ \/ up' \/ up' = up \/ count'.errors # 0
              \/ \E p \in Peers : ReceiveBlock(p) /\ route[p][Answer(p)].kind = "locator"
  <1> DEFINE Kinds == {"disconnects", "timeouts", "missing", "errors"}
  <1>1. UNCHANGED count => Counted
    BY DEF Counted, CountOK
  <1>2. ASSUME NEW kind \in Kinds, Fault(kind) PROVE Counted
    BY <1>2, FaultCount, Zenon DEF Counted
  <1>3. ASSUME NEW p \in Peers, Announce(p) PROVE Counted /\ up'
    <2>1. count' = [count EXCEPT !.invs = count.invs + 1] /\ up'
      BY <1>3, Zenon DEF Announce
    <2> QED
      BY <2>1 DEF Counted, CountOK
  <1>4. ASSUME NEW p \in Peers, Disconnect(p) PROVE Counted /\ up'
    BY <1>2, <1>4, Zenon DEF Disconnect
  <1>5. ASSUME NEW p \in Peers, LocatorFails(p)
        PROVE  Counted /\ up' /\ (p \in connected => count'.timeouts # 0)
    <2>1. up' /\ (UNCHANGED count \/ Fault("timeouts")) /\ (p \in connected => Fault("timeouts"))
      BY <1>5, Zenon DEF LocatorFails
    <2> QED
      BY <1>1, <1>2, <2>1, FaultCount, Zenon
  <1>6. ASSUME NEW p \in Peers, PeerAnswers(p) PROVE Counted /\ up'
    BY <1>1, <1>6, Zenon DEF PeerAnswers
  <1>7. ASSUME NEW p \in Peers, ReadInv(p) PROVE Counted /\ up'
    <2>1. PICK inv, queue : HandleInv(p, inv, queue)
      BY <1>7, Zenon DEF ReadInv
    <2>2. UNCHANGED count \/ Fault("missing")
      BY <2>1, Zenon DEF HandleInv
    <2> QED
      BY <1>1, <1>2, <1>7, <2>2, Zenon DEF ReadInv
  <1>8. ASSUME NEW p \in Peers, ReadUnexpected(p) PROVE Counted /\ up'
    BY <1>1, <1>8, Zenon DEF ReadUnexpected
  <1>9. ASSUME NEW p \in Peers, ReceiveBlock(p)
        PROVE  Counted /\ (up' \/ route[p][Answer(p)].kind = "locator")
    BY <1>1, <1>9, Zenon DEF ReceiveBlock
  <1>10. ASSUME NEW p \in Peers, ProcessBlock(p) PROVE Counted /\ up'
    BY <1>1, <1>10, Zenon DEF ProcessBlock
  <1>11. ASSUME NEW p \in Peers, AddToRelayInv(p) PROVE Counted /\ up'
    BY <1>1, <1>11, Zenon DEF AddToRelayInv
  <1>12. ASSUME NEW p \in Peers, SkipBlock(p) PROVE Counted /\ up'
    BY <1>2, <1>12, Zenon DEF SkipBlock
  <1>13. ASSUME NEW p \in Peers, EndOnMissingData(p) PROVE Counted /\ up'
    BY <1>2, <1>13, Zenon DEF EndOnMissingData, EndSilently
  <1>14. ASSUME NEW p \in Peers, OnNewBlock(p) PROVE Counted /\ up'
    BY <1>1, <1>14, Zenon DEF OnNewBlock
  <1>15. ASSUME NEW p \in Peers, OnNewBlockFails(p) PROVE Counted /\ (up' \/ count'.errors # 0)
    <2>1. Fault("errors") \/ (Fault("missing") /\ up')
      BY <1>15, Zenon DEF OnNewBlockFails, EndSilently
    <2> QED
      BY <1>2, <2>1, FaultCount, Zenon
  <1>16. ASSUME NEW p \in Peers, ReceiveLocator(p) PROVE Counted /\ up'
    <2>1. up' /\ (UNCHANGED count \/ Fault("missing"))
      BY <1>16, Zenon DEF ReceiveLocator
    <2> QED
      BY <1>1, <1>2, <2>1, Zenon
  <1>17. ASSUME NEW p \in Peers, EndFlow(p) PROVE Counted /\ up'
    BY <1>1, <1>17, Zenon DEF EndFlow
  <1>18. ASSUME NEW p \in Peers, StartIBD(p) \/ SyncBody(p) \/ FinishIBD(p) \/ EndIBDFlow(p)
         PROVE  Counted /\ up'
    <2>1. CASE StartIBD(p)
      BY <1>1, <2>1, Zenon DEF StartIBD
    <2>2. CASE SyncBody(p)
      BY <1>1, <2>2, Zenon DEF SyncBody
    <2>3. CASE FinishIBD(p)
      BY <1>1, <2>3, Zenon DEF FinishIBD
    <2>4. CASE EndIBDFlow(p)
      BY <1>1, <2>4, Zenon DEF EndIBDFlow
    <2> QED
      BY <1>18, <2>1, <2>2, <2>3, <2>4, Zenon
  <1>19. ASSUME NEW p \in Peers, SyncBodyFails(p) PROVE Counted /\ (up' \/ count'.errors # 0)
    <2>1. Fault("errors") \/ (Fault("missing") /\ up')
      BY <1>19, Zenon DEF SyncBodyFails
    <2> QED
      BY <1>2, <2>1, FaultCount, Zenon
  <1>20. Restart => Counted /\ up'
    BY <1>1, Zenon DEF Restart
  <1>21. UNCHANGED vars => Counted /\ up' = up
    BY <1>1, Zenon DEF vars
  <1> HIDE DEF Kinds
  <1>22. \/ Counted /\ (up' \/ up' = up \/ count'.errors # 0)
         \/ Counted /\ \E p \in Peers : ReceiveBlock(p) /\ route[p][Answer(p)].kind = "locator"
    BY <1>3, <1>4, <1>5, <1>6, <1>7, <1>8, <1>9, <1>10, <1>11, <1>12, <1>13, <1>14, <1>15,
       <1>16, <1>17, <1>18, <1>19, <1>20, <1>21, ZenonT(30) DEF Next
  <1> QED
    BY <1>5, <1>22, Zenon

\* Every step keeps AInv.
LEMMA NextAInv ==
    ASSUME RInv, AInv, [Next]_vars
    PROVE  AInv'
  <1>1. FlowsOK /\ CountOK
    BY DEF RInv, AInv
  <1>2. /\ CountOK' /\ (count.timeouts # 0 => count'.timeouts # 0)
        /\ count.errors # 0 => count'.errors # 0
    <2>1. CountOK' /\ count.timeouts <= count'.timeouts /\ count.errors <= count'.errors
      BY <1>1, CountNext, Zenon DEF Counted
    <2> QED
      BY <1>1, <2>1 DEF CountOK
  <1>3. CASE count'.timeouts # 0
    BY <1>2, <1>3, Zenon DEF AInv
  <1>4. CASE count'.timeouts = 0
    <2>1. Prompt /\ (up \/ count.errors # 0)
      BY <1>2, <1>4, Zenon DEF AInv
    <2>2. \A p \in Peers : LocatorFails(p) => p \notin connected
      BY <1>1, <1>4, CountNext, Zenon
    <2>3. Prompt'
      BY <1>1, <2>1, <2>2, NextPrompt, Zenon
    <2>4. ASSUME NEW p \in Peers, ReceiveBlock(p), route[p][Answer(p)].kind = "locator"
          PROVE  FALSE
      <3>1. RouteOK(p) /\ pc[p] = "waitBlock" /\ Answer(p) # 0
        BY <2>1, <2>4, Zenon DEF Prompt, ReceiveBlock
      <3> QED
        BY <2>4, <3>1, AnswerIsFirst, ZenonT(30) DEF RouteOK, Expected
    <2>5. up' \/ count'.errors # 0
      BY <1>1, <1>2, <2>1, <2>4, CountNext, Zenon
    <2> QED
      BY <1>2, <2>3, <2>5, Zenon DEF AInv
  <1> QED
    BY <1>3, <1>4, Zenon

\* Before the first timeout of a locator request no flow meets an answer it does not
\* expect, so that only a failed OnNewBlock makes the node panic, for any number of peers,
\* any DAG and any number of lost connections, flows that ended on missing data, panics
\* and restarts (readMsgBlock and receiveBlockLocator of handle_relay_invs.go).
THEOREM NoPanicBeforeATimeout == Spec => []PanicsOnlyAfterATimeout
  <1>1. Init => RInv /\ AInv
    BY InitRInv, InitAInv, ZenonT(30)
  <1>2. RInv /\ AInv /\ [Next]_vars => (RInv /\ AInv)'
    BY NextRInv, NextAInv, ZenonT(30)
  <1>3. AInv => PanicsOnlyAfterATimeout
    BY DEF AInv, CountOK, Prompt, PanicsOnlyAfterATimeout
  <1> QED
    BY <1>1, <1>2, <1>3, PTL DEF Spec

-----------------------------------------------------------------------------
\* The invs of a queue, the messages of a route, and what an IBD may sync.
Invs == [block : Blocks, isOrphanRoot : BOOLEAN]
Messages == [kind : {"inv", "block", "locator"}, block : Blocks]
Goals == {G \in SUBSET Blocks : \A b \in G : Parents[b] \subseteq G}

\* Everything the flows hold and wait for are blocks of the DAG.
BlocksOK ==
    /\ pc \in [Peers -> Labels] /\ current \in [Peers -> Invs]
    /\ invsQueue \in [Peers -> Seq(Invs)]
    /\ route \in [Peers -> Seq(Messages)] /\ asked \in [Peers -> SUBSET Messages]
    /\ ibdGoal \in [Peers -> Goals]
    /\ orphans \in SUBSET Blocks

\* A flow that is to call OnNewBlock has inserted a block.
InsertedOK == \A p \in Peers : pc[p] = "onNewBlock" => HasParents(current[p].block)

\* The inductive invariant of the orphan pool.
OInv == BlocksOK /\ InsertedOK /\ OrphansLackAParent

-----------------------------------------------------------------------------
(* Blocks.                                                                 *)

\* A non-empty set of naturals has a smallest element.
LEMMA SmallestNat ==
    ASSUME NEW S \in SUBSET Nat, S # {}
    PROVE  \E n \in S : \A m \in S : n <= m
  <1> DEFINE R == {ss \in Nat \X Nat : ss[1] < ss[2]}
  <1>1. IsWellFoundedOn(R, Nat)
    BY NatLessThanWellFounded, ZenonT(30) DEF OpToRel
  <1>2. \A x, y \in Nat : <<y, x>> \notin R => x <= y
    OBVIOUS
  <1> HIDE DEF R
  <1>3. PICK n \in S : \A m \in S : <<m, n>> \notin R
    BY <1>1, WFMin, ZenonT(30)
  <1> QED
    BY <1>2, <1>3, ZenonT(30)

\* The past of a block is closed under parents.
LEMMA PastIsClosed == \A b \in Blocks : Past[b] \union {b} \in Goals
  <1> DEFINE P(b) == Past[b] \in Goals
             Bad == {b \in Blocks : ~ P(b)}
  <1>1. ASSUME NEW b \in Blocks, \A a \in Parents[b] : P(a) PROVE P(b)
    <2>1. Parents[b] \subseteq Blocks /\ Past[b] = Parents[b] \union UNION {Past[a] : a \in Parents[b]}
      BY RelayAssumption, ZenonT(30)
    <2>2. ASSUME NEW c \in Past[b] PROVE c \in Blocks /\ Parents[c] \subseteq Past[b]
      <3>1. CASE c \in Parents[b]
        <4>1. c \in Blocks
          BY <2>1, <3>1, ZenonT(30)
        <4>2. Past[c] = Parents[c] \union UNION {Past[a] : a \in Parents[c]}
          BY <4>1, RelayAssumption, ZenonT(30)
        <4>3. Past[c] \subseteq Past[b]
          BY <2>1, <3>1, ZenonT(30)
        <4> QED
          BY <4>1, <4>2, <4>3, ZenonT(30)
      <3>2. ASSUME NEW a \in Parents[b], c \in Past[a] PROVE c \in Blocks /\ Parents[c] \subseteq Past[b]
        <4>1. Past[a] \in Goals /\ Past[a] \subseteq Past[b]
          BY <1>1, <2>1, ZenonT(30)
        <4> QED
          BY <3>2, <4>1, ZenonT(30) DEF Goals
      <3> QED
        BY <2>1, <2>2, <3>1, <3>2, ZenonT(30)
    <2> QED
      BY <2>2, ZenonT(30) DEF Goals
  <1>2. ASSUME Bad # {} PROVE FALSE
    <2>1. Bad \in SUBSET Nat
      BY RelayAssumption, Zenon
    <2> HIDE DEF Bad
    <2>2. PICK b \in Bad : \A a \in Bad : b <= a
      BY <1>2, <2>1, SmallestNat, ZenonT(30)
    <2>3. b \in Blocks /\ b \in Nat
      BY <2>1, ZenonT(30) DEF Bad
    <2>4. ASSUME NEW a \in Parents[b] PROVE P(a)
      <3>1. a \in Blocks /\ a \in Nat /\ a < b
        BY <2>3, RelayAssumption, ZenonT(30)
      <3>2. ~ (b <= a)
        BY <2>3, <3>1
      <3>3. a \notin Bad
        BY <2>2, <3>2, ZenonT(30)
      <3> QED
        BY <3>1, <3>3, ZenonT(30) DEF Bad
    <2>5. P(b)
      BY <1>1, <2>3, <2>4, ZenonT(30)
    <2> QED
      BY <2>5 DEF Bad
  <1>3. ASSUME NEW b \in Blocks PROVE Past[b] \union {b} \in Goals
    <2>1. P(b)
      BY <1>2
    <2>2. Past[b] = Parents[b] \union UNION {Past[a] : a \in Parents[b]}
      BY RelayAssumption, ZenonT(30)
    <2> QED
      BY <2>1, <2>2, ZenonT(30) DEF Goals
  <1> QED
    BY <1>3, ZenonT(30)

\* UnorphanBlocks takes every orphan that one of its insertions completes.
LEMMA UnorphanCloses ==
    ASSUME NEW root, NEW pool, NEW known, NEW U, U = UnorphanBlocks(root, pool, known)
    PROVE  /\ root \in U /\ U \subseteq {root} \union pool
           /\ \A o \in pool : /\ Parents[o] \intersect ({root} \union (U \ known)) # {}
                              /\ Parents[o] \subseteq known \union U
                              => o \in U
  <1> DEFINE blocks == {root} \union pool
             next(T) == {o \in pool : /\ Parents[o] \intersect ({root} \union (T \ known)) # {}
                                      /\ Parents[o] \subseteq known \union T}
             closed(T) == root \in T /\ next(T) \subseteq T
  <1>1. U = {b \in blocks : \A T \in SUBSET blocks : closed(T) => b \in T}
    BY ZenonT(30) DEF UnorphanBlocks
  <1>2. root \in U /\ U \subseteq blocks
    BY <1>1
  <1>3. ASSUME NEW o \in pool, Parents[o] \intersect ({root} \union (U \ known)) # {},
               Parents[o] \subseteq known \union U
        PROVE  o \in U
    <2>1. ASSUME NEW T \in SUBSET blocks, closed(T) PROVE o \in T
      <3>1. U \subseteq T
        BY <1>1, <2>1, ZenonT(30)
      <3>2. o \in next(T)
        BY <1>3, <3>1, ZenonT(30)
      <3> QED
        BY <2>1, <3>2, ZenonT(30)
    <2> QED
      BY <1>1, <2>1, ZenonT(30)
  <1> QED
    BY <1>2, <1>3, ZenonT(30)

\* The pool stays below its limit when a block is added.
LEMMA PoolsType ==
    ASSUME orphans \in SUBSET Blocks, Cardinality(orphans) <= MaxOrphans, NEW b \in Blocks,
           NEW pool \in PoolsAfterAdding(b)
    PROVE  /\ pool \in SUBSET Blocks /\ pool \subseteq orphans \union {b}
           /\ Cardinality(pool) <= MaxOrphans
  <1> DEFINE all == orphans \union {b}
  <1>1. IsFiniteSet(orphans) /\ MaxOrphans \in Nat /\ all \in SUBSET Blocks
    BY FS_Subset, RelayAssumption, ZenonT(30)
  <1>2. IsFiniteSet(all) /\ Cardinality(orphans) \in Nat /\ Cardinality(all) \in Nat
        /\ Cardinality(all) <= Cardinality(orphans) + 1
    <2>1. /\ IsFiniteSet(all)
          /\ Cardinality(all) = IF b \in orphans THEN Cardinality(orphans) ELSE Cardinality(orphans) + 1
      BY <1>1, FS_AddElement, Zenon
    <2>2. Cardinality(orphans) \in Nat
      BY <1>1, FS_CardinalityType, ZenonT(30)
    <2> QED
      BY <2>1, <2>2
  <1>3. CASE Cardinality(all) > MaxOrphans
    <2>1. PICK e \in all : pool = all \ {e}
      BY <1>3 DEF PoolsAfterAdding
    <2>2. Cardinality(all \ {e}) = Cardinality(all) - 1
      BY <1>2, FS_RemoveElement, ZenonT(30)
    <2> HIDE DEF all
    <2>3. Cardinality(pool) <= MaxOrphans
      BY <1>1, <1>2, <2>1, <2>2, AtMost, Zenon
    <2> QED
      BY <1>1, <2>1, <2>3, ZenonT(30) DEF all
  <1>4. CASE ~ (Cardinality(all) > MaxOrphans)
    <2>1. pool = all
      BY <1>4, ZenonT(30) DEF PoolsAfterAdding
    <2> QED
      BY <1>1, <1>2, <1>4, <2>1, AtMost, Zenon
  <1> QED
    BY <1>3, <1>4, ZenonT(30)

\* The roots of orphans are blocks.
LEMMA RootsType ==
    ASSUME NEW b \in Blocks, NEW pool \in SUBSET Blocks, NEW queue \in Seq(Invs),
           NEW q \in AddOrphanRootsToQueue(b, pool, queue)
    PROVE  q \in Seq(Invs)
  <1> DEFINE S == GetOrphanRoots(b, pool) \ InvBlocks(queue)
             n == Cardinality(S)
  <1>1. GetOrphanRoots(b, pool) \subseteq {b} \union UNION {Parents[o] : o \in pool}
    BY Zenon DEF GetOrphanRoots
  <1>2. \A o \in Blocks : Parents[o] \subseteq Blocks
    BY RelayAssumption, ZenonT(30)
  <1>3. S \subseteq Blocks
    BY <1>1, <1>2
  <1> HIDE DEF S
  <1>4. n \in Nat
    BY <1>3, FS_Subset, FS_CardinalityType, RelayAssumption, ZenonT(30)
  <1>5. PICK s \in Orders(S) : q = [i \in DOMAIN s |-> [block |-> s[i], isOrphanRoot |-> TRUE]] \o queue
    BY Zenon DEF AddOrphanRootsToQueue, S
  <1>6. s \in [1 .. n -> S]
    BY <1>5, ZenonT(30) DEF Orders
  <1> HIDE DEF n
  <1> DEFINE f == [i \in DOMAIN s |-> [block |-> s[i], isOrphanRoot |-> TRUE]]
  <1>7. f \in [1 .. n -> Invs]
    BY <1>3, <1>6, ZenonT(30) DEF Invs
  <1>8. f \in Seq(Invs)
    BY <1>4, <1>7
  <1> QED
    BY <1>5, <1>8, ConcatProperties, ZenonT(30)

-----------------------------------------------------------------------------
(* Messages and flows.                                                     *)

\* The answer of a flow is on its route.
LEMMA AnswerType ==
    ASSUME BlocksOK, NEW p \in Peers, Answer(p) # 0
    PROVE  Answer(p) \in 1 .. Len(route[p])
  <1> DEFINE I == {i \in 1 .. Len(route[p]) : route[p][i].kind # "inv"}
  <1>1. I # {} /\ Answer(p) = CHOOSE i \in I : \A j \in I : i <= j
    BY Zenon DEF Answer
  <1>2. Len(route[p]) \in Nat
    BY LenProperties, ZenonT(30) DEF BlocksOK
  <1>3. I \in SUBSET Nat /\ I \subseteq 1 .. Len(route[p])
    BY <1>2
  <1> HIDE DEF I
  <1>4. \E i \in I : \A j \in I : i <= j
    BY <1>1, <1>3, SmallestNat, Zenon
  <1>5. Answer(p) \in I
    BY <1>1, <1>4, ZenonT(30)
  <1> QED
    BY <1>3, <1>5, Zenon

\* What is left on a route are messages.
LEMMA RouteAfterType ==
    ASSUME BlocksOK, NEW p \in Peers, NEW n \in 1 .. Len(route[p])
    PROVE  RouteAfter(p, n) \in [Peers -> Seq(Messages)]
  <1> DEFINE s == route[p]
             u == SubSeq(s, n + 1, Len(s))
  <1>1. s \in Seq(Messages) /\ Len(s) \in Nat
    BY LenProperties, ZenonT(30) DEF BlocksOK
  <1>2. \A i \in 1 .. Len(s) : s[i] \in Messages
    BY <1>1, ElementOfSeq, ZenonT(30)
  <1>3. \A i \in n + 1 .. Len(s) : s[i] \in Messages
    BY <1>1, <1>2
  <1>4. u \in Seq(Messages)
    BY <1>1, <1>3, SubSeqProperties
  <1>5. RouteAfter(p, n) = [route EXCEPT ![p] = u]
    BY DEF RouteAfter
  <1> HIDE DEF u
  <1> QED
    BY <1>4, <1>5, ZenonT(30) DEF BlocksOK

\* The messages before an answer become invs.
LEMMA QueueType ==
    ASSUME BlocksOK, NEW p \in Peers, NEW n \in 1 .. Len(route[p])
    PROVE  QueueWithInvsBefore(p, n) \in Seq(Invs)
  <1> DEFINE s == route[p]
             f == [j \in 1 .. n - 1 |-> [block |-> route[p][j].block, isOrphanRoot |-> FALSE]]
  <1>1. s \in Seq(Messages) /\ Len(s) \in Nat /\ invsQueue[p] \in Seq(Invs)
    BY LenProperties, Zenon DEF BlocksOK
  <1>2. \A i \in 1 .. Len(s) : s[i] \in Messages
    BY <1>1, ElementOfSeq, Zenon
  <1>3. n - 1 \in Nat /\ \A j \in 1 .. n - 1 : j \in 1 .. Len(s)
    BY <1>1, SMTT(30)
  <1>4. \A j \in 1 .. n - 1 : [block |-> route[p][j].block, isOrphanRoot |-> FALSE] \in Invs
    BY <1>2, <1>3, Zenon DEF Messages, Invs
  <1>5. f \in Seq(Invs)
    BY <1>3, <1>4
  <1> HIDE DEF f
  <1>6. invsQueue[p] \o f \in Seq(Invs)
    BY <1>1, <1>5, ConcatProperties, Zenon
  <1> QED
    BY <1>6, Zenon DEF QueueWithInvsBefore, f

\* A flow that neither has inserted a block nor inserts one leaves the orphans as they are.
LEMMA MoveOInv ==
    ASSUME OInv, NEW p \in Peers, NEW label \in Labels, GoTo(p, label),
           pc[p] # "onNewBlock", label # "onNewBlock",
           UNCHANGED <<bodies, orphans, stuck>>,
           \A q \in Peers : q # p => current'[q] = current[q],
           current' \in [Peers -> Invs], invsQueue' \in [Peers -> Seq(Invs)],
           route' \in [Peers -> Seq(Messages)], asked' \in [Peers -> SUBSET Messages], UNCHANGED ibdGoal
    PROVE  OInv'
  <1>1. BlocksOK /\ pc' \in [Peers -> Labels] /\ pc'[p] = label /\ \A q \in Peers : q # p => pc'[q] = pc[q]
    BY ZenonT(30) DEF OInv, BlocksOK, GoTo
  <1>2. BlocksOK'
    BY <1>1, ZenonT(30) DEF BlocksOK
  <1>3. \A q \in Peers : (pc'[q] = "onNewBlock") <=> (pc[q] = "onNewBlock")
    BY <1>1, ZenonT(30)
  <1>4. \A q \in Peers : pc[q] = "onNewBlock" => current'[q] = current[q]
    BY <1>1
  <1>5. InsertedOK'
    BY <1>3, <1>4, Zenon DEF OInv, InsertedOK, HasParents
  <1>6. OrphansLackAParent'
    BY <1>3, <1>4, ZenonT(30) DEF OInv, OrphansLackAParent, HasParents
  <1> QED
    BY <1>2, <1>5, <1>6, ZenonT(30) DEF OInv

\* Steps outside the relay flows.
LEMMA OutsideOInv ==
    ASSUME OInv, UNCHANGED <<bodies, orphans, stuck, pc, current, invsQueue>>,
           route' \in [Peers -> Seq(Messages)], asked' \in [Peers -> SUBSET Messages],
           ibdGoal' \in [Peers -> Goals]
    PROVE  OInv'
  <1>1. BlocksOK'
    BY ZenonT(30) DEF OInv, BlocksOK
  <1>2. InsertedOK'
    BY ZenonT(30) DEF OInv, InsertedOK, HasParents
  <1>3. OrphansLackAParent'
    BY DEF OInv, OrphansLackAParent, HasParents
  <1> QED
    BY <1>1, <1>2, <1>3, Zenon DEF OInv

\* A connection is closed with nothing under way.
LEMMA CloseType ==
    ASSUME BlocksOK, NEW p \in Peers, CloseConnection(p)
    PROVE  route' \in [Peers -> Seq(Messages)] /\ asked' \in [Peers -> SUBSET Messages]
  <1>1. << >> \in Seq(Messages)
    OBVIOUS
  <1> QED
    BY <1>1 DEF BlocksOK, CloseConnection

\* Nothing is left in memory after a panic.
LEMMA PanicOInv ==
    ASSUME OInv, Panic
    PROVE  OInv'
  <1>1. << >> \in Seq(Messages) /\ << >> \in Seq(Invs) /\ {} \in Goals
    BY DEF Goals
  <1>2. NoInv \in Invs
    BY RelayAssumption, ZenonT(30) DEF NoInv, Invs
  <1>3. pc' \in [Peers -> Labels] /\ \A p \in Peers : pc'[p] # "onNewBlock"
    BY ZenonT(30) DEF Panic, Labels
  <1>4. BlocksOK'
    BY <1>1, <1>2, <1>3, ZenonT(30) DEF Panic, BlocksOK
  <1>5. orphans' = {} /\ Cardinality({}) = 0 /\ MaxOrphans \in Nat
    BY FS_EmptySet, RelayAssumption, ZenonT(30) DEF Panic
  <1>6. OrphansLackAParent'
    BY <1>5 DEF OrphansLackAParent
  <1> QED
    BY <1>3, <1>4, <1>6, ZenonT(30) DEF OInv, InsertedOK

\* At first there are no orphans.
LEMMA InitOInv ==
    ASSUME Init
    PROVE  OInv
  <1>1. << >> \in Seq(Messages) /\ << >> \in Seq(Invs) /\ {} \in Goals
    BY DEF Goals
  <1>2. NoInv \in Invs
    BY RelayAssumption, ZenonT(30) DEF NoInv, Invs
  <1>3. pc \in [Peers -> Labels] /\ \A p \in Peers : pc[p] # "onNewBlock"
    BY ZenonT(30) DEF Init, Labels
  <1>4. BlocksOK
    BY <1>1, <1>2, <1>3, ZenonT(30) DEF Init, BlocksOK
  <1>5. orphans = {} /\ Cardinality({}) = 0 /\ MaxOrphans \in Nat
    BY FS_EmptySet, RelayAssumption, ZenonT(30) DEF Init
  <1>6. OrphansLackAParent
    BY <1>5 DEF OrphansLackAParent
  <1> QED
    BY <1>3, <1>4, <1>6, ZenonT(30) DEF OInv, InsertedOK

-----------------------------------------------------------------------------
(* The steps.                                                              *)

\* Messages and requests on their way.
LEMMA NetOInv ==
    ASSUME OInv, NEW p \in Peers, Announce(p) \/ PeerAnswers(p) \/ Disconnect(p)
    PROVE  OInv'
  <1>1. BlocksOK
    BY ZenonT(30) DEF OInv
  <1>2. CASE Announce(p)
    <2>1. PICK b \in Relayed : \/ route' = [route EXCEPT ![p] = Append(@, Msg("inv", b))]
                               \/ route' = route
      BY <1>2, Zenon DEF Announce
    <2>2. Msg("inv", b) \in Messages
      BY RelayAssumption, ZenonT(30) DEF Msg, Messages
    <2>3. Append(route[p], Msg("inv", b)) \in Seq(Messages)
      BY <1>1, <2>2, AppendProperties, ZenonT(30) DEF BlocksOK
    <2>4. route' \in [Peers -> Seq(Messages)]
      BY <1>1, <2>1, <2>3, ZenonT(30) DEF BlocksOK
    <2>5. UNCHANGED <<bodies, orphans, stuck, pc, current, invsQueue, asked, ibdGoal>>
      BY <1>2, ZenonT(30) DEF Announce, flow, ibd, orphanPool
    <2> QED
      BY <1>1, <2>4, <2>5, OutsideOInv, ZenonT(30) DEF BlocksOK
  <1>3. CASE PeerAnswers(p)
    <2>1. PICK r \in asked[p] : /\ asked' = [asked EXCEPT ![p] = @ \ {r}]
                                /\ route' = [route EXCEPT ![p] = Append(@, r)]
      BY <1>3, ZenonT(30) DEF PeerAnswers
    <2>2. Append(route[p], r) \in Seq(Messages)
      BY <1>1, AppendProperties, ZenonT(30) DEF BlocksOK
    <2>3. route' \in [Peers -> Seq(Messages)] /\ asked' \in [Peers -> SUBSET Messages]
      BY <1>1, <2>1, <2>2, Zenon DEF BlocksOK
    <2>4. UNCHANGED <<bodies, orphans, stuck, pc, current, invsQueue, ibdGoal>>
      BY <1>3, ZenonT(30) DEF PeerAnswers, flow, ibd, orphanPool
    <2> QED
      BY <1>1, <2>3, <2>4, OutsideOInv, ZenonT(30) DEF BlocksOK
  <1>4. CASE Disconnect(p)
    <2>1. CloseConnection(p) /\ UNCHANGED <<bodies, orphans, stuck, pc, current, invsQueue, ibdGoal>>
      BY <1>4, ZenonT(30) DEF Disconnect, flow, ibd, orphanPool
    <2> QED
      BY <1>1, <2>1, CloseType, OutsideOInv, ZenonT(30) DEF BlocksOK
  <1> QED
    BY <1>2, <1>3, <1>4, ZenonT(30)

\* A turn of the loop up to the request.
LEMMA HandleInvOInv ==
    ASSUME OInv, NEW p \in Peers, pc[p] = "idle", NEW inv \in Invs, NEW queue \in Seq(Invs),
           HandleInv(p, inv, queue), route' \in [Peers -> Seq(Messages)],
           UNCHANGED <<bodies, orphans, stuck, ibdGoal>>
    PROVE  OInv'
  <1>1. BlocksOK /\ inv.block \in Blocks /\ << >> \in Seq(Invs)
    BY DEF OInv, Invs
  <1>2. ASSUME NEW q \in Seq(Invs), SetQueue(p, q)
        PROVE  invsQueue' \in [Peers -> Seq(Invs)]
    BY <1>1, <1>2, Zenon DEF SetQueue, BlocksOK
  <1>3. CASE UNCHANGED <<pc, current, asked>> /\ (\E q \in Seq(Invs) : SetQueue(p, q))
    <2>1. invsQueue' \in [Peers -> Seq(Invs)]
      BY <1>2, <1>3, Zenon
    <2>2. GoTo(p, "idle") /\ "idle" \in Labels
      BY <1>1, <1>3, Zenon DEF GoTo, BlocksOK, Labels
    <2> QED
      BY <1>1, <1>3, <2>1, <2>2, MoveOInv, ZenonT(30) DEF BlocksOK
  <1>4. ASSUME NEW q \in AddOrphanRootsToQueue(inv.block, orphans, queue)
        PROVE  q \in Seq(Invs)
    BY <1>1, RootsType, Zenon DEF BlocksOK
  <1>5. CASE /\ asked' = [asked EXCEPT ![p] = @ \union {Msg("block", inv.block)}]
             /\ GoTo(p, "waitBlock") /\ current' = [current EXCEPT ![p] = inv]
             /\ SetQueue(p, queue)
    <2>1. Msg("block", inv.block) \in Messages
      BY <1>1, Zenon DEF Msg, Messages
    <2>2. asked' \in [Peers -> SUBSET Messages] /\ current' \in [Peers -> Invs]
      BY <1>1, <1>5, <2>1, ZenonT(30) DEF BlocksOK
    <2>3. \A q \in Peers : q # p => current'[q] = current[q]
      BY <1>1, <1>5, ZenonT(30) DEF BlocksOK
    <2>4. "waitBlock" \in Labels /\ invsQueue' \in [Peers -> Seq(Invs)]
      BY <1>2, <1>5, ZenonT(30) DEF Labels
    <2> QED
      BY <1>5, <2>2, <2>3, <2>4, MoveOInv, ZenonT(30)
  <1>6. CASE GoTo(p, "ended") /\ SetQueue(p, << >>) /\ UNCHANGED <<current, asked>>
    <2>1. "ended" \in Labels /\ invsQueue' \in [Peers -> Seq(Invs)]
      BY <1>1, <1>2, <1>6, ZenonT(30) DEF Labels
    <2> QED
      BY <1>1, <1>6, <2>1, MoveOInv, ZenonT(30) DEF BlocksOK
  <1> QED
    BY <1>3, <1>4, <1>5, <1>6, ZenonT(30) DEF HandleInv

\* The flow reads an inv, or what it does not expect.
LEMMA ReadOInv ==
    ASSUME OInv, NEW p \in Peers, ReadInv(p) \/ ReadUnexpected(p)
    PROVE  OInv'
  <1>1. BlocksOK /\ pc[p] = "idle" /\ route[p] \in Seq(Messages) /\ invsQueue[p] \in Seq(Invs) /\ << >> \in Seq(Invs)
    <2>1. BlocksOK /\ pc[p] = "idle"
      BY Zenon DEF OInv, ReadInv, ReadUnexpected
    <2>2. << >> \in Seq(Invs)
      OBVIOUS
    <2> QED
      BY <2>1, <2>2, ZenonT(30) DEF BlocksOK
  <1>2. CASE ReadInv(p)
    <2> DEFINE queued == invsQueue[p] # << >>
               inv == IF queued THEN Head(invsQueue[p])
                      ELSE [block |-> Head(route[p]).block, isOrphanRoot |-> FALSE]
               queue == IF queued THEN Tail(invsQueue[p]) ELSE << >>
    <2>1. /\ queued \/ route[p] # << >>
          /\ route' = IF queued THEN route ELSE RouteAfter(p, 1)
          /\ HandleInv(p, inv, queue) /\ UNCHANGED <<bodies, orphans, stuck, ibdGoal>>
      BY <1>2, ZenonT(30) DEF ReadInv, ibd, orphanPool
    <2>2. CASE queued
      <3>1. Head(invsQueue[p]) \in Invs /\ Tail(invsQueue[p]) \in Seq(Invs)
        BY <1>1, <2>2, HeadTailProperties, ZenonT(30)
      <3>2. HandleInv(p, Head(invsQueue[p]), Tail(invsQueue[p])) /\ route' = route
        BY <2>1, <2>2, ZenonT(30)
      <3> QED
        BY <1>1, <2>1, <3>1, <3>2, HandleInvOInv, ZenonT(30) DEF BlocksOK
    <2>3. CASE ~ queued
      <3>1. Head(route[p]) \in Messages
        BY <1>1, <2>1, <2>3, HeadTailProperties, ZenonT(30)
      <3>2. [block |-> Head(route[p]).block, isOrphanRoot |-> FALSE] \in Invs
        BY <3>1, ZenonT(30) DEF Messages, Invs
      <3>3. 1 \in 1 .. Len(route[p])
        BY <1>1, <2>1, <2>3, FirstIndex, Zenon
      <3>4. route' \in [Peers -> Seq(Messages)]
        BY <1>1, <2>1, <2>3, <3>3, RouteAfterType, Zenon
      <3>5. HandleInv(p, [block |-> Head(route[p]).block, isOrphanRoot |-> FALSE], << >>)
        BY <2>1, <2>3, Zenon
      <3> QED
        BY <1>1, <2>1, <3>2, <3>4, <3>5, HandleInvOInv, ZenonT(30)
    <2> QED
      BY <2>2, <2>3, ZenonT(30)
  <1>3. CASE ReadUnexpected(p)
    <2>1. /\ CloseConnection(p) /\ GoTo(p, "ended") /\ "ended" \in Labels
          /\ UNCHANGED <<bodies, orphans, stuck, current, invsQueue, ibdGoal>>
      BY <1>3, Zenon DEF ReadUnexpected, ibd, orphanPool, Labels
    <2>2. route' \in [Peers -> Seq(Messages)] /\ asked' \in [Peers -> SUBSET Messages]
      BY <1>1, <2>1, CloseType, Zenon
    <2> QED
      BY <1>1, <2>1, <2>2, MoveOInv, ZenonT(30) DEF BlocksOK
  <1> QED
    BY <1>2, <1>3, ZenonT(30)

\* The block arrives, or a late locator in its place.
LEMMA ReceiveBlockOInv ==
    ASSUME OInv, NEW p \in Peers, ReceiveBlock(p)
    PROVE  OInv'
  <1>1. BlocksOK /\ pc[p] = "waitBlock" /\ Answer(p) # 0
    BY DEF OInv, ReceiveBlock
  <1>2. CASE /\ GoTo(p, "process") /\ SetQueue(p, QueueWithInvsBefore(p, Answer(p)))
             /\ route' = RouteAfter(p, Answer(p))
             /\ UNCHANGED <<bodies, orphanPool, asked, current, ibd>>
    <2>1. Answer(p) \in 1 .. Len(route[p])
      BY <1>1, AnswerType, ZenonT(30)
    <2>2. route' \in [Peers -> Seq(Messages)]
      BY <1>1, <1>2, <2>1, RouteAfterType, ZenonT(30)
    <2>3. QueueWithInvsBefore(p, Answer(p)) \in Seq(Invs)
      BY <1>1, <2>1, QueueType, ZenonT(30)
    <2>4. invsQueue' \in [Peers -> Seq(Invs)] /\ "process" \in Labels
      BY <1>1, <1>2, <2>3, ZenonT(30) DEF SetQueue, BlocksOK, Labels
    <2>5. UNCHANGED <<bodies, orphans, stuck, asked, current, ibdGoal>>
      BY <1>2, ZenonT(30) DEF ibd, orphanPool
    <2> QED
      BY <1>1, <1>2, <2>2, <2>4, <2>5, MoveOInv, ZenonT(30) DEF BlocksOK
  <1>3. CASE Panic
    BY <1>3, PanicOInv, ZenonT(30)
  <1> QED
    BY <1>2, <1>3, ZenonT(30) DEF ReceiveBlock

\* A block that is inserted completes only orphans that OnNewBlock is about to take.
LEMMA ProcessBlockOInv ==
    ASSUME OInv, NEW p \in Peers, ProcessBlock(p)
    PROVE  OInv'
  <1> DEFINE b == current[p].block
  <1>1. /\ BlocksOK /\ pc[p] = "process" /\ b \in Blocks
        /\ UNCHANGED <<orphans, stuck, route, current, invsQueue, ibdGoal>>
    <2>1. BlocksOK
      BY DEF OInv
    <2> QED
      BY <2>1, Zenon DEF ProcessBlock, ibd, orphanPool, BlocksOK, Invs
  <1>2. CASE GoTo(p, "idle") /\ UNCHANGED <<bodies, asked>>
    BY <1>1, <1>2, MoveOInv, ZenonT(30) DEF BlocksOK, Labels
  <1>3. CASE /\ asked' = [asked EXCEPT ![p] = @ \union {Msg("locator", b)}]
             /\ GoTo(p, "waitLocator") /\ UNCHANGED bodies
    <2>1. Msg("locator", b) \in Messages /\ "waitLocator" \in Labels
      BY <1>1, ZenonT(30) DEF Msg, Messages, Labels
    <2>2. asked' \in [Peers -> SUBSET Messages]
      BY <1>1, <1>3, <2>1, ZenonT(30) DEF BlocksOK
    <2> QED
      BY <1>1, <1>3, <2>1, <2>2, MoveOInv, ZenonT(30) DEF BlocksOK
  <1>4. CASE HasParents(b) /\ bodies' = bodies \union {b} /\ GoTo(p, "onNewBlock") /\ UNCHANGED asked
    <2>1. /\ pc' \in [Peers -> Labels] /\ pc'[p] = "onNewBlock"
          /\ \A q \in Peers : q # p => pc'[q] = pc[q]
      BY <1>1, <1>4, ZenonT(30) DEF BlocksOK, GoTo, Labels
    <2>2. BlocksOK'
      BY <1>1, <1>4, <2>1, ZenonT(30) DEF BlocksOK
    <2>3. InsertedOK'
      BY <1>1, <1>4, <2>1, ZenonT(30) DEF OInv, InsertedOK, HasParents
    <2>4. ASSUME NEW o \in orphans, HasParents(o)', o \notin stuck
          PROVE  \E q \in Peers : pc'[q] = "onNewBlock" /\ current[q].block \in Parents[o]
      <3>1. CASE b \in Parents[o]
        BY <2>1, <3>1, ZenonT(30)
      <3>2. CASE b \notin Parents[o]
        <4>1. HasParents(o)
          BY <1>4, <2>4, <3>2, ZenonT(30) DEF HasParents
        <4>2. PICK q \in Peers : pc[q] = "onNewBlock" /\ current[q].block \in Parents[o]
          BY <2>4, <4>1, ZenonT(30) DEF OInv, OrphansLackAParent
        <4>3. pc'[q] = "onNewBlock"
          BY <1>1, <2>1, <4>2, ZenonT(30)
        <4> QED
          BY <4>2, <4>3, ZenonT(30)
      <3> QED
        BY <3>1, <3>2, ZenonT(30)
    <2>5. OrphansLackAParent'
      BY <1>1, <1>4, <2>4, ZenonT(30) DEF OInv, OrphansLackAParent
    <2> QED
      BY <2>2, <2>3, <2>5, ZenonT(30) DEF OInv
  <1> QED
    BY <1>2, <1>3, <1>4, ZenonT(30) DEF ProcessBlock

\* An orphan that OnNewBlock leaves in the pool lacks a parent, or waits for another flow.
LEMMA UnorphanOInv ==
    ASSUME OInv, NEW root \in Blocks, HasParents(root),
           NEW known \in {bodies, bodies \union {root}}, NEW U, U = UnorphanBlocks(root, orphans, known),
           bodies' = bodies \union U,
           NEW o \in orphans \ (U \ {root}), HasParents(o)', o \notin stuck
    PROVE  \E q \in Peers : /\ pc[q] = "onNewBlock" /\ current[q].block \in Parents[o]
                            /\ current[q].block # root
  <1>1. /\ root \in U /\ \A u \in orphans : /\ Parents[u] \intersect ({root} \union (U \ known)) # {}
                                            /\ Parents[u] \subseteq known \union U
                                            => u \in U
    BY UnorphanCloses
  <1>2. root \notin Parents[root]
    <2>1. root \in Nat /\ \A a \in Parents[root] : a < root
      BY RelayAssumption, Zenon
    <2> QED
      BY <2>1
  <1>3. Parents[o] \subseteq bodies \union U
    BY ZenonT(30) DEF HasParents
  <1>4. HasParents(o) /\ root \notin Parents[o]
    <2>1. CASE o = root
      BY <1>2, <2>1, ZenonT(30)
    <2>2. CASE o # root
      <3>1. o \notin U
        BY <2>2, ZenonT(30)
      <3>2. Parents[o] \subseteq known \union U
        BY <1>3, ZenonT(30)
      <3>3. Parents[o] \intersect ({root} \union (U \ known)) = {}
        BY <1>1, <3>1, <3>2, ZenonT(30)
      <3>4. \A a \in Parents[o] : a # root /\ a \in known
        BY <3>2, <3>3, ZenonT(30)
      <3>5. \A a \in known : a # root => a \in bodies
        OBVIOUS
      <3> QED
        BY <3>4, <3>5, ZenonT(30) DEF HasParents
    <2> QED
      BY <2>1, <2>2, ZenonT(30)
  <1>5. PICK q \in Peers : pc[q] = "onNewBlock" /\ current[q].block \in Parents[o]
    BY <1>4, Zenon DEF OInv, OrphansLackAParent
  <1> QED
    BY <1>4, <1>5, ZenonT(30)

\* The pool shrinks.
LEMMA SmallerPool ==
    ASSUME OInv, NEW pool \in SUBSET orphans
    PROVE  pool \in SUBSET Blocks /\ Cardinality(pool) <= MaxOrphans
  <1>1. orphans \in SUBSET Blocks /\ Cardinality(orphans) <= MaxOrphans /\ MaxOrphans \in Nat
    BY RelayAssumption DEF OInv, BlocksOK, OrphansLackAParent
  <1>2. IsFiniteSet(orphans)
    BY <1>1, FS_Subset, RelayAssumption, ZenonT(30)
  <1>3. IsFiniteSet(pool) /\ Cardinality(pool) <= Cardinality(orphans)
    BY <1>2, FS_Subset, Zenon
  <1>4. Cardinality(pool) \in Nat /\ Cardinality(orphans) \in Nat
    BY <1>2, <1>3, FS_CardinalityType, Zenon
  <1> QED
    BY <1>1, <1>3, <1>4, AtMost, Zenon

\* OnNewBlock takes every orphan that the flow's block has completed.
LEMMA OnNewBlockOInv ==
    ASSUME OInv, NEW p \in Peers, OnNewBlock(p)
    PROVE  OInv'
  <1> DEFINE root == current[p].block
             U == UnorphanBlocks(root, orphans, bodies)
  <1>1. /\ pc[p] = "onNewBlock" /\ bodies' = bodies \union U /\ orphans' = orphans \ (U \ {root})
        /\ stuck' = stuck \intersect orphans'
        /\ GoTo(p, "idle") /\ UNCHANGED <<route, asked, current, invsQueue, ibdGoal>>
    BY DEF OnNewBlock, net, ibd
  <1>2. BlocksOK /\ root \in Blocks /\ HasParents(root)
    BY <1>1, ZenonT(30) DEF OInv, BlocksOK, InsertedOK, Invs
  <1> HIDE DEF U
  <1>3. pc' \in [Peers -> Labels] /\ pc'[p] = "idle" /\ \A q \in Peers : q # p => pc'[q] = pc[q]
    BY <1>1, <1>2, ZenonT(30) DEF BlocksOK, GoTo, Labels
  <1>4. orphans' \in SUBSET Blocks /\ Cardinality(orphans') <= MaxOrphans
    BY <1>1, SmallerPool, ZenonT(30)
  <1>5. BlocksOK'
    BY <1>1, <1>2, <1>3, <1>4, ZenonT(30) DEF BlocksOK
  <1>6. InsertedOK'
    BY <1>1, <1>3, ZenonT(30) DEF OInv, InsertedOK, HasParents
  <1>7. ASSUME NEW o \in orphans', HasParents(o)', o \notin stuck'
        PROVE  \E q \in Peers : pc'[q] = "onNewBlock" /\ current'[q].block \in Parents[o]
    <2>1. U = UnorphanBlocks(root, orphans, bodies) /\ o \in orphans \ (U \ {root}) /\ o \notin stuck
      BY <1>1, <1>7, ZenonT(30) DEF U
    <2>2. PICK q \in Peers : /\ pc[q] = "onNewBlock" /\ current[q].block \in Parents[o]
                             /\ current[q].block # root
      BY <1>1, <1>2, <1>7, <2>1, UnorphanOInv, ZenonT(30)
    <2>3. q # p
      BY <2>2, ZenonT(30)
    <2> QED
      BY <1>1, <1>3, <2>2, <2>3, ZenonT(30)
  <1>8. OrphansLackAParent'
    BY <1>1, <1>4, <1>7, ZenonT(30) DEF OrphansLackAParent
  <1> QED
    BY <1>5, <1>6, <1>8, Zenon DEF OInv

\* The body that IBD inserts next has its parents: they are smaller and part of the goal.
LEMMA NextBodyHasParents ==
    ASSUME BlocksOK, NEW p \in Peers, NEW b \in Blocks, IsNextBody(p, b)
    PROVE  HasParents(b)
  <1>1. b \in ibdGoal[p] /\ \A a \in ibdGoal[p] : a \in bodies \/ b <= a
    BY Zenon DEF IsNextBody
  <1>2. ibdGoal[p] \in Goals
    BY Zenon DEF BlocksOK
  <1>3. Parents[b] \subseteq ibdGoal[p] /\ \A a \in Parents[b] : a \in Nat /\ b \in Nat /\ a < b
    BY <1>1, <1>2, RelayAssumption, ZenonT(30) DEF Goals
  <1>4. \A a \in Parents[b] : ~ (b <= a)
    BY <1>3, SMTT(30)
  <1> QED
    BY <1>1, <1>3, <1>4, ZenonT(30) DEF HasParents

\* IBD inserts a block that has its parents, and calls OnNewBlock at once.
LEMMA SyncBodyOInv ==
    ASSUME OInv, NEW p \in Peers, SyncBody(p)
    PROVE  OInv'
  <1>1. PICK b \in Blocks :
          /\ IsNextBody(p, b)
          /\ bodies' = bodies \union UnorphanBlocks(b, orphans, bodies \union {b})
          /\ orphans' = orphans \ (UnorphanBlocks(b, orphans, bodies \union {b}) \ {b})
    BY ZenonT(30) DEF SyncBody
  <1>2. stuck' = stuck \intersect orphans' /\ UNCHANGED <<route, asked, pc, current, invsQueue, ibdGoal>>
    BY ZenonT(30) DEF SyncBody, net, flow, ibd
  <1> DEFINE U == UnorphanBlocks(b, orphans, bodies \union {b})
  <1>3. BlocksOK /\ ibdGoal[p] \in Goals
    BY DEF OInv, BlocksOK
  <1>5. HasParents(b)
    BY <1>1, <1>3, NextBodyHasParents, Zenon
  <1>6. U = UnorphanBlocks(b, orphans, bodies \union {b}) /\ bodies' = bodies \union U
        /\ orphans' = orphans \ (U \ {b})
    BY <1>1, ZenonT(30)
  <1> HIDE DEF U
  <1>7. orphans' \in SUBSET Blocks /\ Cardinality(orphans') <= MaxOrphans
    BY <1>6, SmallerPool, ZenonT(30)
  <1>8. BlocksOK'
    BY <1>2, <1>3, <1>7, ZenonT(30) DEF BlocksOK
  <1>9. InsertedOK'
    BY <1>2, <1>6, ZenonT(30) DEF OInv, InsertedOK, HasParents
  <1>10. ASSUME NEW o \in orphans', HasParents(o)', o \notin stuck'
         PROVE  \E q \in Peers : pc'[q] = "onNewBlock" /\ current'[q].block \in Parents[o]
    <2>1. o \in orphans \ (U \ {b}) /\ o \notin stuck
      BY <1>2, <1>6, <1>10, ZenonT(30)
    <2>2. PICK q \in Peers : pc[q] = "onNewBlock" /\ current[q].block \in Parents[o]
      BY <1>5, <1>6, <1>10, <2>1, UnorphanOInv, ZenonT(30)
    <2> QED
      BY <1>2, <2>2, ZenonT(30)
  <1>11. OrphansLackAParent'
    BY <1>2, <1>7, <1>10, ZenonT(30) DEF OrphansLackAParent
  <1> QED
    BY <1>8, <1>9, <1>11, ZenonT(30) DEF OInv

\* What a failed insertion leaves: the orphans that it has completed are stuck.
LEMMA FailedInsertionOrphans ==
    ASSUME OInv, NEW b \in Blocks, FailedInsertion(b)
    PROVE  /\ bodies \subseteq bodies' /\ stuck \subseteq stuck' /\ orphans' = orphans
           /\ \A o \in orphans : HasParents(o)' /\ o \notin stuck' => HasParents(o)
  <1>1. CASE UNCHANGED <<bodies, orphanPool>>
    BY <1>1 DEF orphanPool, HasParents
  <1>2. CASE /\ bodies' = bodies \union {b} /\ stuck' = stuck \union Ready({b}, orphans, bodies')
             /\ UNCHANGED orphans
    <2>1. ASSUME NEW o \in orphans, HasParents(o)', o \notin stuck' PROVE HasParents(o)
      <3>1. Parents[o] \subseteq bodies' /\ o \notin Ready({b}, orphans, bodies')
        BY <1>2, <2>1, Zenon DEF HasParents
      <3>2. b \notin Parents[o]
        BY <3>1, Zenon DEF Ready
      <3> QED
        BY <1>2, <3>1, <3>2 DEF HasParents
    <2> QED
      BY <1>2, <2>1, Zenon
  <1> QED
    BY <1>1, <1>2, Zenon DEF FailedInsertion

\* The invariant when bodies and stuck orphans are added, and a flow that inserts nothing
\* moves on, or none does.
LEMMA AfterFailure ==
    ASSUME OInv, BlocksOK', bodies \subseteq bodies', orphans' \subseteq orphans,
           \A o \in orphans' : HasParents(o)' /\ o \notin stuck' =>
               \E q \in Peers : pc'[q] = "onNewBlock" /\ current[q].block \in Parents[o],
           UNCHANGED current,
           \A q \in Peers : pc'[q] = "onNewBlock" => pc[q] = "onNewBlock"
    PROVE  OInv'
  <1>1. Cardinality(orphans') <= MaxOrphans
    BY SmallerPool, Zenon
  <1>2. InsertedOK'
    BY ZenonT(30) DEF OInv, InsertedOK, HasParents
  <1>3. OrphansLackAParent'
    BY <1>1, Zenon DEF OrphansLackAParent
  <1> QED
    BY <1>2, <1>3, Zenon DEF OInv

\* The block is put back to the queue, or skipped.
LEMMA PutBackOInv ==
    ASSUME OInv, NEW p \in Peers, AddToRelayInv(p) \/ SkipBlock(p)
    PROVE  OInv'
  <1> DEFINE b == current[p].block
             back == <<[block |-> b, isOrphanRoot |-> FALSE]>>
  <1>1. BlocksOK /\ b \in Blocks /\ invsQueue[p] \in Seq(Invs)
    BY ZenonT(30) DEF OInv, BlocksOK, Invs
  <1>2. /\ pc[p] = "process" /\ FailedInsertion(b) /\ GoTo(p, "idle")
        /\ UNCHANGED <<route, asked, current, ibdGoal>>
    BY ZenonT(30) DEF AddToRelayInv, SkipBlock, net, ibd
  <1>3. SetQueue(p, back \o invsQueue[p]) \/ UNCHANGED invsQueue
    BY Zenon DEF AddToRelayInv, SkipBlock
  <1>4. back \o invsQueue[p] \in Seq(Invs)
    <2>1. [block |-> b, isOrphanRoot |-> FALSE] \in Invs
      BY <1>1, Zenon DEF Invs
    <2>2. back \in Seq(Invs)
      BY <2>1
    <2> HIDE DEF back
    <2> QED
      BY <1>1, <2>2, ConcatProperties, Zenon
  <1> HIDE DEF back
  <1>5. invsQueue' \in [Peers -> Seq(Invs)]
    BY <1>1, <1>3, <1>4, Zenon DEF SetQueue, BlocksOK
  <1>6. /\ pc' \in [Peers -> Labels] /\ pc'[p] = "idle"
        /\ \A q \in Peers : q # p => pc'[q] = pc[q]
    BY <1>1, <1>2, ZenonT(30) DEF BlocksOK, GoTo, Labels
  <1>7. /\ bodies \subseteq bodies' /\ stuck \subseteq stuck' /\ orphans' = orphans
        /\ \A o \in orphans : HasParents(o)' /\ o \notin stuck' => HasParents(o)
    BY <1>1, <1>2, FailedInsertionOrphans, Zenon
  <1>8. BlocksOK'
    BY <1>1, <1>2, <1>5, <1>6, <1>7, Zenon DEF BlocksOK
  <1>9. ASSUME NEW o \in orphans', HasParents(o)', o \notin stuck'
        PROVE  \E q \in Peers : pc'[q] = "onNewBlock" /\ current[q].block \in Parents[o]
    <2>1. o \in orphans /\ HasParents(o) /\ o \notin stuck
      BY <1>7, <1>9, Zenon
    <2>2. PICK q \in Peers : pc[q] = "onNewBlock" /\ current[q].block \in Parents[o]
      BY <2>1, Zenon DEF OInv, OrphansLackAParent
    <2>3. pc'[q] = "onNewBlock"
      BY <1>2, <1>6, <2>2, Zenon
    <2> QED
      BY <2>2, <2>3, Zenon
  <1>10. \A q \in Peers : pc'[q] = "onNewBlock" => pc[q] = "onNewBlock"
    BY <1>6, ZenonT(30)
  <1> QED
    BY <1>2, <1>7, <1>8, <1>9, <1>10, AfterFailure, Zenon

\* A flow that ends on missing data drops its messages.
LEMMA SilentType ==
    ASSUME BlocksOK, NEW p \in Peers, NEW dropped, EndSilently(p, dropped)
    PROVE  /\ pc' \in [Peers -> Labels] /\ pc'[p] = "ended"
           /\ \A q \in Peers : q # p => pc'[q] = pc[q]
           /\ invsQueue' \in [Peers -> Seq(Invs)]
           /\ route' \in [Peers -> Seq(Messages)] /\ asked' \in [Peers -> SUBSET Messages]
  <1>1. << >> \in Seq(Messages) /\ << >> \in Seq(Invs)
    OBVIOUS
  <1>2. /\ GoTo(p, "ended") /\ SetQueue(p, << >>) /\ route' = [route EXCEPT ![p] = << >>]
        /\ asked' = [asked EXCEPT ![p] = {}]
    BY Zenon DEF EndSilently
  <1>3. /\ pc' \in [Peers -> Labels] /\ pc'[p] = "ended"
        /\ \A q \in Peers : q # p => pc'[q] = pc[q]
    BY <1>2, ZenonT(30) DEF BlocksOK, GoTo, Labels
  <1>4. /\ invsQueue' \in [Peers -> Seq(Invs)] /\ route' \in [Peers -> Seq(Messages)]
        /\ asked' \in [Peers -> SUBSET Messages]
    BY <1>1, <1>2 DEF BlocksOK, SetQueue
  <1> QED
    BY <1>3, <1>4, Zenon

\* It leaves the orphans alone before its block is inserted.
LEMMA SilentOInv ==
    ASSUME OInv, NEW p \in Peers, EndOnMissingData(p)
    PROVE  OInv'
  <1>1. /\ BlocksOK /\ pc[p] # "onNewBlock" /\ "ended" \in Labels
        /\ UNCHANGED <<bodies, orphans, stuck, current, ibdGoal>>
    BY DEF OInv, EndOnMissingData, orphanPool, ibd, Labels
  <1>2. PICK dropped : EndSilently(p, dropped)
    BY Zenon DEF EndOnMissingData
  <1>3. GoTo(p, "ended")
    BY <1>2, Zenon DEF EndSilently
  <1>4. /\ invsQueue' \in [Peers -> Seq(Invs)]
        /\ route' \in [Peers -> Seq(Messages)] /\ asked' \in [Peers -> SUBSET Messages]
    BY <1>1, <1>2, SilentType, Zenon
  <1> QED
    BY <1>1, <1>3, <1>4, MoveOInv, ZenonT(30) DEF BlocksOK

\* An orphan that a failed OnNewBlock of b leaves in the pool lacks a parent, is stuck, or
\* waits for the flow of another block.
LEMMA LeaveOInv ==
    ASSUME OInv, NEW b, NEW f, LeaveOrphans(b, f),
           bodies' \in {bodies \union f.inserted, bodies \union {b} \union f.inserted},
           NEW o \in orphans', HasParents(o)', o \notin stuck'
    PROVE  \E q \in Peers : /\ pc[q] = "onNewBlock" /\ current[q].block \in Parents[o]
                            /\ current[q].block # b
  <1>1. /\ o \in orphans /\ o \notin stuck /\ Parents[o] \subseteq bodies'
        /\ o \notin Ready({b} \union f.inserted, orphans', bodies')
    BY DEF LeaveOrphans, HasParents
  <1>2. Parents[o] \intersect ({b} \union f.inserted) = {}
    BY <1>1, Zenon DEF Ready
  <1>3. HasParents(o) /\ b \notin Parents[o]
    BY <1>1, <1>2 DEF HasParents
  <1>4. PICK q \in Peers : pc[q] = "onNewBlock" /\ current[q].block \in Parents[o]
    BY <1>1, <1>3, Zenon DEF OInv, OrphansLackAParent
  <1> QED
    BY <1>3, <1>4, Zenon

\* OnNewBlock fails: the orphans that it did not get to are stuck.
LEMMA OnNewBlockFailsOInv ==
    ASSUME OInv, NEW p \in Peers, OnNewBlockFails(p)
    PROVE  OInv'
  <1> DEFINE b == current[p].block
  <1>1. CASE Panic
    BY <1>1, PanicOInv, Zenon
  <1>2. ASSUME NEW f, NEW dropped, bodies' = bodies \union f.inserted, EndSilently(p, dropped),
               LeaveOrphans(b, f), UNCHANGED <<current, ibdGoal>>
        PROVE  OInv'
    <2>1. BlocksOK
      BY Zenon DEF OInv
    <2>2. /\ pc' \in [Peers -> Labels] /\ pc'[p] = "ended"
          /\ \A q \in Peers : q # p => pc'[q] = pc[q]
          /\ invsQueue' \in [Peers -> Seq(Invs)]
          /\ route' \in [Peers -> Seq(Messages)] /\ asked' \in [Peers -> SUBSET Messages]
      BY <1>2, <2>1, SilentType, Zenon
    <2>3. bodies \subseteq bodies' /\ orphans' \subseteq orphans
      BY <1>2 DEF LeaveOrphans
    <2>4. BlocksOK'
      BY <1>2, <2>1, <2>2, <2>3, ZenonT(30) DEF BlocksOK
    <2>5. ASSUME NEW o \in orphans', HasParents(o)', o \notin stuck'
          PROVE  \E q \in Peers : pc'[q] = "onNewBlock" /\ current[q].block \in Parents[o]
      <3>1. PICK q \in Peers : /\ pc[q] = "onNewBlock" /\ current[q].block \in Parents[o]
                               /\ current[q].block # b
        BY <1>2, <2>5, LeaveOInv, Zenon
      <3>2. q # p
        BY <3>1, Zenon
      <3> QED
        BY <2>2, <3>1, <3>2, Zenon
    <2>6. \A q \in Peers : pc'[q] = "onNewBlock" => pc[q] = "onNewBlock"
      BY <2>2, ZenonT(30)
    <2> QED
      BY <1>2, <2>3, <2>4, <2>5, <2>6, AfterFailure, Zenon
  <1>3. \/ Panic
        \/ \E f, dropped : /\ bodies' = bodies \union f.inserted /\ EndSilently(p, dropped)
                           /\ LeaveOrphans(b, f) /\ UNCHANGED <<current, ibdGoal>>
    BY Zenon DEF OnNewBlockFails, ibd
  <1> QED
    BY <1>1, <1>2, <1>3, Zenon

\* What IBD still syncs after a body is refused is closed under parents.
LEMMA RefusedGoal ==
    ASSUME NEW G \in Goals, NEW b
    PROVE  G \ {c \in G : c = b \/ b \in Past[c]} \in Goals
  <1> DEFINE rest == G \ {c \in G : c = b \/ b \in Past[c]}
  <1>1. ASSUME NEW d \in rest, NEW a \in Parents[d] PROVE a \in rest
    <2>1. d \in G /\ d \in Blocks /\ b \notin Past[d] /\ a \in G
      BY <1>1, Zenon DEF Goals
    <2>2. Past[d] = Parents[d] \union UNION {Past[c] : c \in Parents[d]}
      BY <2>1, RelayAssumption, Zenon
    <2>3. a \in Past[d] /\ Past[a] \subseteq Past[d]
      BY <1>1, <2>2, ZenonT(30)
    <2> QED
      BY <2>1, <2>3
  <1>2. rest \subseteq Blocks
    BY Zenon DEF Goals
  <1> QED
    BY <1>1, <1>2, Zenon DEF Goals

\* A body that IBD cannot insert, or whose OnNewBlock fails.
LEMMA SyncBodyFailsOInv ==
    ASSUME OInv, NEW p \in Peers, SyncBodyFails(p)
    PROVE  OInv'
  <1>1. BlocksOK /\ ibdGoal[p] \in Goals /\ {} \in Goals
    BY DEF OInv, BlocksOK, Goals
  <1>2. CASE Panic
    BY <1>2, PanicOInv, Zenon
  <1>3. ASSUME NEW b \in Blocks, FailedInsertion(b), UNCHANGED <<net, flow>>,
               \/ UNCHANGED ibdGoal
               \/ ibdGoal' = [ibdGoal EXCEPT ![p] = @ \ {c \in ibdGoal[p] : c = b \/ b \in Past[c]}]
        PROVE  OInv'
    <2>1. UNCHANGED <<route, asked, pc, current, invsQueue>>
      BY <1>3, Zenon DEF net, flow
    <2>2. /\ bodies \subseteq bodies' /\ stuck \subseteq stuck' /\ orphans' = orphans
          /\ \A o \in orphans : HasParents(o)' /\ o \notin stuck' => HasParents(o)
      BY <1>3, FailedInsertionOrphans, Zenon
    <2>3. ibdGoal' \in [Peers -> Goals]
      <3> DEFINE rest == ibdGoal[p] \ {c \in ibdGoal[p] : c = b \/ b \in Past[c]}
      <3>1. rest \in Goals
        BY <1>1, RefusedGoal, Zenon
      <3>2. UNCHANGED ibdGoal \/ ibdGoal' = [ibdGoal EXCEPT ![p] = rest]
        BY <1>3, Zenon
      <3> HIDE DEF rest
      <3> QED
        BY <1>1, <3>1, <3>2, Zenon DEF BlocksOK
    <2>4. BlocksOK'
      BY <1>1, <2>1, <2>2, <2>3, Zenon DEF BlocksOK
    <2>5. ASSUME NEW o \in orphans', HasParents(o)', o \notin stuck'
          PROVE  \E q \in Peers : pc'[q] = "onNewBlock" /\ current[q].block \in Parents[o]
      <3>1. o \in orphans /\ HasParents(o) /\ o \notin stuck
        BY <2>2, <2>5, Zenon
      <3> QED
        BY <2>1, <3>1, Zenon DEF OInv, OrphansLackAParent
    <2> QED
      BY <2>1, <2>2, <2>4, <2>5, AfterFailure, Zenon
  <1>4. ASSUME NEW b, NEW f, bodies' = bodies \union {b} \union f.inserted, LeaveOrphans(b, f),
               ibdGoal' = [ibdGoal EXCEPT ![p] = {}], UNCHANGED <<net, flow>>
        PROVE  OInv'
    <2>1. UNCHANGED <<route, asked, pc, current, invsQueue>>
      BY <1>4, Zenon DEF net, flow
    <2>2. bodies \subseteq bodies' /\ orphans' \subseteq orphans
      BY <1>4 DEF LeaveOrphans
    <2>3. ibdGoal' \in [Peers -> Goals]
      BY <1>1, <1>4, ZenonT(30) DEF BlocksOK
    <2>4. BlocksOK'
      BY <1>1, <2>1, <2>2, <2>3, Zenon DEF BlocksOK
    <2>5. ASSUME NEW o \in orphans', HasParents(o)', o \notin stuck'
          PROVE  \E q \in Peers : pc'[q] = "onNewBlock" /\ current[q].block \in Parents[o]
      BY <1>4, <2>1, <2>5, LeaveOInv, Zenon
    <2> QED
      BY <2>1, <2>2, <2>4, <2>5, AfterFailure, Zenon
  <1>5. \/ Panic
        \/ \E b \in Blocks :
             /\ FailedInsertion(b) /\ UNCHANGED <<net, flow>>
             /\ \/ UNCHANGED ibdGoal
                \/ ibdGoal' = [ibdGoal EXCEPT ![p] = @ \ {c \in ibdGoal[p] : c = b \/ b \in Past[c]}]
        \/ \E b, f : /\ bodies' = bodies \union {b} \union f.inserted /\ LeaveOrphans(b, f)
                     /\ ibdGoal' = [ibdGoal EXCEPT ![p] = {}] /\ UNCHANGED <<net, flow>>
    BY ZenonT(30) DEF SyncBodyFails
  <1> QED
    BY <1>2, <1>3, <1>4, <1>5, Zenon

\* The block of a flow becomes an orphan, or goes to IBD.
LEMMA ReceiveLocatorOInv ==
    ASSUME OInv, NEW p \in Peers, ReceiveLocator(p)
    PROVE  OInv'
  <1> DEFINE b == current[p].block
  <1>1. /\ pc[p] = "waitLocator" /\ GoTo(p, "idle") /\ Answer(p) # 0 /\ route' = RouteAfter(p, Answer(p))
        /\ UNCHANGED <<bodies, asked, current>>
    BY ZenonT(30) DEF ReceiveLocator
  <1>2. BlocksOK /\ b \in Blocks /\ orphans \in SUBSET Blocks /\ Cardinality(orphans) <= MaxOrphans
    BY ZenonT(30) DEF OInv, BlocksOK, Invs, OrphansLackAParent
  <1>3. Answer(p) \in 1 .. Len(route[p])
    BY <1>1, <1>2, AnswerType, ZenonT(30)
  <1>4. route' \in [Peers -> Seq(Messages)] /\ QueueWithInvsBefore(p, Answer(p)) \in Seq(Invs)
    BY <1>1, <1>2, <1>3, RouteAfterType, QueueType, ZenonT(30)
  <1>5. ASSUME NEW q \in Seq(Invs), SetQueue(p, q)
        PROVE  invsQueue' \in [Peers -> Seq(Invs)]
    BY <1>2, <1>5, ZenonT(30) DEF SetQueue, BlocksOK
  <1>6. ASSUME NEW pool \in PoolsAfterAdding(b), orphans' = pool,
               NEW q \in AddOrphanRootsToQueue(b, pool, QueueWithInvsBefore(p, Answer(p))), SetQueue(p, q),
               stuck' = (stuck \union {o \in {b} : HasParents(o)}) \intersect pool,
               UNCHANGED ibd
        PROVE  OInv'
    <2>1. pool \in SUBSET Blocks /\ pool \subseteq orphans \union {b} /\ Cardinality(pool) <= MaxOrphans
      BY <1>2, PoolsType, ZenonT(30)
    <2>2. invsQueue' \in [Peers -> Seq(Invs)]
      BY <1>2, <1>4, <1>5, <1>6, <2>1, RootsType, ZenonT(30)
    <2>3. /\ pc' \in [Peers -> Labels] /\ pc'[p] = "idle" /\ \A q1 \in Peers : q1 # p => pc'[q1] = pc[q1]
      BY <1>1, <1>2, ZenonT(30) DEF BlocksOK, GoTo, Labels
    <2>4. BlocksOK'
      BY <1>1, <1>2, <1>4, <1>6, <2>1, <2>2, <2>3, ZenonT(30) DEF BlocksOK, ibd
    <2>5. \A q1 \in Peers : (pc'[q1] = "onNewBlock") <=> (pc[q1] = "onNewBlock")
      BY <1>1, <2>3, ZenonT(30)
    <2>6. InsertedOK'
      BY <1>1, <2>5, ZenonT(30) DEF OInv, InsertedOK, HasParents
    <2>7. ASSUME NEW o \in pool, HasParents(o), o \notin stuck'
          PROVE  \E q1 \in Peers : pc'[q1] = "onNewBlock" /\ current'[q1].block \in Parents[o]
      <3>1. o # b /\ o \notin stuck
        BY <1>6, <2>7, ZenonT(30)
      <3>2. o \in orphans
        BY <2>1, <3>1, ZenonT(30)
      <3>3. PICK q1 \in Peers : pc[q1] = "onNewBlock" /\ current[q1].block \in Parents[o]
        BY <2>7, <3>1, <3>2, ZenonT(30) DEF OInv, OrphansLackAParent
      <3>4. pc'[q1] = "onNewBlock"
        BY <2>5, <3>3, ZenonT(30)
      <3>5. current' = current
        BY <1>1, ZenonT(30)
      <3> QED
        BY <3>3, <3>4, <3>5, ZenonT(30)
    <2>8. OrphansLackAParent'
      BY <1>1, <1>6, <2>1, <2>7, ZenonT(30) DEF OrphansLackAParent, HasParents
    <2> QED
      BY <2>4, <2>6, <2>8, ZenonT(30) DEF OInv
  <1>7. CASE /\ SetQueue(p, QueueWithInvsBefore(p, Answer(p)))
             /\ UNCHANGED <<orphans, stuck, ibdGoal>>
    <2>1. invsQueue' \in [Peers -> Seq(Invs)] /\ "idle" \in Labels
      BY <1>4, <1>5, <1>7, ZenonT(30) DEF Labels
    <2> QED
      BY <1>1, <1>2, <1>4, <1>7, <2>1, MoveOInv, ZenonT(30) DEF BlocksOK
  <1>8. \/ \E pool \in PoolsAfterAdding(b) :
             /\ orphans' = pool
             /\ \E q \in AddOrphanRootsToQueue(b, pool, QueueWithInvsBefore(p, Answer(p))) : SetQueue(p, q)
             /\ stuck' = (stuck \union {o \in {b} : HasParents(o)}) \intersect pool
             /\ UNCHANGED ibd
        \/ /\ SetQueue(p, QueueWithInvsBefore(p, Answer(p)))
           /\ UNCHANGED <<orphans, stuck, ibdGoal>>
    BY ZenonT(30) DEF ReceiveLocator, ibd, orphanPool
  <1> QED
    BY <1>6, <1>7, <1>8, ZenonT(30)

\* The flow goes on without a locator, or ends.
LEMMA GiveUpOInv ==
    ASSUME OInv, NEW p \in Peers, LocatorFails(p) \/ EndFlow(p)
    PROVE  OInv'
  <1>1. BlocksOK /\ << >> \in Seq(Invs) /\ "idle" \in Labels /\ "ended" \in Labels
    BY DEF OInv, Labels
  <1>2. CASE LocatorFails(p)
    <2>1. /\ pc[p] = "waitLocator" /\ GoTo(p, "idle")
          /\ UNCHANGED <<bodies, orphans, stuck, route, asked, current, invsQueue, ibdGoal>>
      BY <1>2, ZenonT(30) DEF LocatorFails, net, ibd, orphanPool
    <2> QED
      BY <1>1, <2>1, MoveOInv, ZenonT(30) DEF BlocksOK
  <1>3. CASE EndFlow(p)
    <2>1. /\ pc[p] # "onNewBlock" /\ GoTo(p, "ended") /\ SetQueue(p, << >>)
          /\ UNCHANGED <<bodies, orphans, stuck, route, asked, current, ibdGoal>>
      BY <1>3, ZenonT(30) DEF EndFlow, net, ibd, orphanPool
    <2>2. invsQueue' \in [Peers -> Seq(Invs)]
      BY <1>1, <2>1, ZenonT(30) DEF SetQueue, BlocksOK
    <2> QED
      BY <1>1, <2>1, <2>2, MoveOInv, ZenonT(30) DEF BlocksOK
  <1> QED
    BY <1>2, <1>3

\* IBD syncs the past of a tip.
LEMMA IBDOInv ==
    ASSUME OInv, NEW p \in Peers, StartIBD(p) \/ FinishIBD(p) \/ EndIBDFlow(p)
    PROVE  OInv'
  <1>1. BlocksOK /\ {} \in Goals
    BY ZenonT(30) DEF OInv, Goals
  <1>2. /\ UNCHANGED <<bodies, orphans, stuck, route, asked, pc, current, invsQueue>>
        /\ \/ UNCHANGED ibdGoal
           \/ \E G \in Goals : ibdGoal' = [ibdGoal EXCEPT ![p] = G]
    <2>1. CASE StartIBD(p)
      <3>1. /\ UNCHANGED <<bodies, orphans, stuck, route, asked, pc, current, invsQueue>>
            /\ \/ UNCHANGED ibdGoal
               \/ \E tip \in Blocks : ibdGoal' = [ibdGoal EXCEPT ![p] = Past[tip] \union {tip}]
        BY <2>1, Zenon DEF StartIBD, net, flow, orphanPool
      <3> QED
        BY <3>1, PastIsClosed, ZenonT(30)
    <2>2. CASE FinishIBD(p)
      BY <1>1, <2>2, ZenonT(30) DEF FinishIBD, net, flow, orphanPool
    <2>3. CASE EndIBDFlow(p)
      BY <2>3 DEF EndIBDFlow, net, flow, orphanPool
    <2> QED
      BY <2>1, <2>2, <2>3, ZenonT(30)
  <1>3. ibdGoal' \in [Peers -> Goals]
    BY <1>1, <1>2, ZenonT(30) DEF BlocksOK
  <1> QED
    BY <1>1, <1>2, <1>3, OutsideOInv, ZenonT(30) DEF BlocksOK

\* The node starts again with the tip of its peers.
LEMMA RestartOInv ==
    ASSUME OInv, Restart
    PROVE  OInv'
  <1>1. BlocksOK
    BY ZenonT(30) DEF OInv
  <1>2. Msg("inv", Heaviest(Blocks)) \in Messages
    BY RelayAssumption, ZenonT(30) DEF Msg, Messages
  <1>3. <<Msg("inv", Heaviest(Blocks))>> \in Seq(Messages)
    BY <1>2
  <1>4. route' \in [Peers -> Seq(Messages)]
    BY <1>3, ZenonT(30) DEF Restart
  <1>5. UNCHANGED <<bodies, orphans, stuck, asked, pc, current, invsQueue, ibdGoal>>
    BY DEF Restart, flow, ibd, orphanPool
  <1> QED
    BY <1>1, <1>4, <1>5, OutsideOInv, ZenonT(30) DEF BlocksOK

\* Every step keeps the invariant of the orphan pool.
LEMMA NextOInv ==
    ASSUME OInv, [Next]_vars
    PROVE  OInv'
  <1>1. ASSUME NEW p \in Peers,
               \/ Announce(p) \/ PeerAnswers(p) \/ Disconnect(p)
               \/ ReadInv(p) \/ ReadUnexpected(p) \/ ReceiveBlock(p) \/ ProcessBlock(p)
               \/ AddToRelayInv(p) \/ SkipBlock(p) \/ EndOnMissingData(p)
               \/ OnNewBlock(p) \/ OnNewBlockFails(p)
               \/ ReceiveLocator(p) \/ LocatorFails(p) \/ EndFlow(p)
               \/ StartIBD(p) \/ SyncBody(p) \/ SyncBodyFails(p) \/ FinishIBD(p) \/ EndIBDFlow(p)
        PROVE  OInv'
    BY <1>1, NetOInv, ReadOInv, ReceiveBlockOInv, ProcessBlockOInv, PutBackOInv, SilentOInv,
       OnNewBlockOInv, OnNewBlockFailsOInv, ReceiveLocatorOInv, GiveUpOInv, IBDOInv,
       SyncBodyOInv, SyncBodyFailsOInv, ZenonT(30)
  <1>2. CASE UNCHANGED vars
    <2>1. UNCHANGED <<bodies, orphans, stuck, route, asked, pc, current, invsQueue, ibdGoal>>
      BY <1>2 DEF vars, net, flow, ibd, orphanPool
    <2> QED
      BY <2>1, OutsideOInv, ZenonT(30) DEF OInv, BlocksOK
  <1> QED
    BY <1>1, <1>2, RestartOInv, ZenonT(30) DEF Next

\* For any number of peers and any DAG, a block stays in the orphan pool only while it
\* lacks a parent, OnNewBlock is about to take it, its last parent came while its flow
\* waited for the locator, or a call that failed committed its last parent; and the pool
\* keeps to its limit.
THEOREM OrphansAlwaysLackAParent == Spec => []OrphansLackAParent
  <1>1. OInv => OrphansLackAParent
    BY DEF OInv
  <1> QED
    BY InitOInv, NextOInv, <1>1, PTL DEF Spec
=============================================================================
