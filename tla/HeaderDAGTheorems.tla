------------------------- MODULE HeaderDAGTheorems --------------------------
(***************************************************************************)
(* The DAG of headers, however it grows: the blue blocks seen from any     *)
(* block are a K-cluster, and the merge sets along a selected chain hold   *)
(* the past once and in topological order.  The invariant DagOK and what   *)
(* GHOSTDAG computes under it are in GhostdagTheorems.                     *)
(***************************************************************************)
EXTENDS GhostdagTheorems

-----------------------------------------------------------------------------
(* A new block keeps the invariant.                                        *)

\* h is f with the entry v for b.
Adds(h, f, S, b, v) ==
    /\ h = [a \in S \cup {b} |-> h[a]] /\ DOMAIN h = S \cup {b}
    /\ h[b] = v /\ \A a \in S : h[a] = f[a]

\* WithEntry sets one entry and keeps the others.
LEMMA WithEntryAdds ==
    ASSUME NEW f, NEW S, DOMAIN f = S, NEW b, b \notin S, NEW v
    PROVE  Adds(WithEntry(f, b, v), f, S, b, v)
  BY DEF WithEntry, Adds

\* What WithBlock makes of each part of the DAG.
Extends(e, d, b, ps, g) ==
    /\ Known(e) = Known(d) \cup {b}
    /\ e.past = [x \in Known(d) \cup {b} |-> e.past[x]]
    /\ e.chain = [x \in Known(d) \cup {b} |-> e.chain[x]]
    /\ e.data = [x \in Known(d) \cup {b} |-> e.data[x]]
    /\ e.past[b] = PastOf(d, ps) /\ e.chain[b] = {b} \cup d.chain[g.selectedParent] /\ e.data[b] = g
    /\ \A x \in Known(d) : e.past[x] = d.past[x] /\ e.chain[x] = d.chain[x] /\ e.data[x] = d.data[x]

\* The maps of the DAG get one entry each.
LEMMA WithBlockExtends ==
    ASSUME NEW d, Shape(d), NEW b, b \notin Known(d), NEW ps, NEW g
    PROVE  Extends(WithBlock(d, b, ps, g), d, b, ps, g)
  <1> DEFINE e == WithBlock(d, b, ps, g)
             P == PastOf(d, ps)
             C == {b} \cup d.chain[g.selectedParent]
             N == Known(d)
  <1>1. /\ e.parents = WithEntry(d.parents, b, ps) /\ e.past = WithEntry(d.past, b, P)
        /\ e.chain = WithEntry(d.chain, b, C) /\ e.data = WithEntry(d.data, b, g)
    BY DEF WithBlock
  <1>2. DOMAIN d.past = N /\ DOMAIN d.chain = N /\ DOMAIN d.data = N /\ b \notin N
    BY DEF Shape
  <1> HIDE DEF e, P, C
  <1>3. DOMAIN d.parents = N /\ Known(e) = DOMAIN e.parents
    BY Zenon DEF Known
  <1> HIDE DEF N
  <1>4. Adds(e.parents, d.parents, N, b, ps) /\ Adds(e.past, d.past, N, b, P)
    BY <1>1, <1>2, <1>3, WithEntryAdds, ZenonT(30)
  <1>5. Adds(e.chain, d.chain, N, b, C) /\ Adds(e.data, d.data, N, b, g)
    BY <1>1, <1>2, WithEntryAdds, ZenonT(30)
  <1>6. Known(e) = N \cup {b}
    BY <1>3, <1>4, ZenonT(30) DEF Adds
  <1> QED
    BY <1>4, <1>5, <1>6, Zenon DEF Adds, Extends, P, C, N, e

\* Types, and ancestry with its blue work, in the new DAG.
LEMMA ExtendsShapeAndOrder ==
    ASSUME NEW d, DagOK(d), NEW b \in Blocks \ Known(d), NEW ps \in SUBSET Known(d), ps # {},
           NEW g, LoopOK(d, ChooseSelectedParent(d, ps), MergedBeside(d, ps), g),
           NEW e, Extends(e, d, b, ps, g)
    PROVE  Shape(e) /\ Ordered(e)
  <1> DEFINE sp == ChooseSelectedParent(d, ps)
             P == PastOf(d, ps)
             N == Known(d)
  <1>1. Shape(d) /\ Ordered(d) /\ Chained(d)
    BY Zenon DEF DagOK
  <1>2. /\ sp \in ps /\ \A q \in ps \ {sp} : Less(d, q, sp)
        /\ P \subseteq N
    BY <1>1, HeaviestParent, PastOfKnown
  <1>3. g \in Data /\ g.selectedParent = sp /\ d.data[sp].blueWork < g.blueWork
    BY Zenon DEF LoopOK
  <1> HIDE DEF sp, P
  <1>4. /\ Known(e) = N \cup {b} /\ e.past[b] = P /\ e.chain[b] = {b} \cup d.chain[sp] /\ e.data[b] = g
        /\ \A x \in N : e.past[x] = d.past[x] /\ e.chain[x] = d.chain[x] /\ e.data[x] = d.data[x]
    BY <1>3, Zenon DEF Extends, P
  <1>5. /\ N \subseteq Blocks /\ IsFiniteSet(N) /\ Genesis \in N
        /\ \A x \in N : d.past[x] \subseteq N /\ d.chain[x] \subseteq N /\ d.data[x] \in Data
    BY <1>1 DEF Shape
  <1> HIDE DEF N
  <1>6. /\ e.past = [x \in N \cup {b} |-> e.past[x]] /\ e.chain = [x \in N \cup {b} |-> e.chain[x]]
        /\ e.data = [x \in N \cup {b} |-> e.data[x]]
    BY Zenon DEF N, Extends
  <1>7. \A x \in N \cup {b} : e.past[x] \subseteq N \cup {b} /\ e.chain[x] \subseteq N \cup {b} /\ e.data[x] \in Data
    <2>1. P \subseteq N /\ d.chain[sp] \subseteq N
      BY <1>2, <1>5 DEF N
    <2> QED
      BY <1>3, <1>4, <1>5, <2>1, ZenonT(30)
  <1>8. Shape(e)
    <2>1. IsFiniteSet(N \cup {b}) /\ N \cup {b} \subseteq Blocks
      BY <1>5, FS_AddElement, SMTT(30)
    <2>2. /\ e.past \in [N \cup {b} -> SUBSET (N \cup {b})]
          /\ e.chain \in [N \cup {b} -> SUBSET (N \cup {b})] /\ e.data \in [N \cup {b} -> Data]
      BY <1>6, <1>7, ZenonT(30)
    <2> QED
      BY <1>4, <1>5, <2>1, <2>2, ZenonT(30) DEF Shape
  <1>9. ASSUME NEW x \in N \cup {b}, NEW a \in e.past[x]
        PROVE  e.past[a] \subseteq e.past[x] /\ e.data[a].blueWork < e.data[x].blueWork
    <2>1. CASE x \in N
      <3>1. a \in d.past[x] /\ a \in N
        BY <1>4, <1>5, <2>1, SMTT(30)
      <3>2. d.past[a] \subseteq d.past[x] /\ d.data[a].blueWork < d.data[x].blueWork
        BY <1>1, <2>1, <3>1, ZenonT(30) DEF Ordered, N
      <3> QED
        BY <1>4, <2>1, <3>1, <3>2, Zenon
    <2>2. CASE x = b
      <3>1. a \in P /\ a \in N
        BY <1>2, <1>4, <2>2, SMTT(30) DEF N
      <3>2. PICK q \in ps : a = q \/ a \in d.past[q]
        BY <3>1 DEF P, PastOf
      <3>3. q \in N /\ d.past[q] \subseteq P
        BY Zenon DEF P, PastOf, N
      <3>4. a = q \/ (d.past[a] \subseteq d.past[q] /\ d.data[a].blueWork < d.data[q].blueWork)
        BY <1>1, <3>2, <3>3, ZenonT(30) DEF Ordered, N
      <3>5. q = sp \/ Less(d, q, sp)
        BY <1>2, <3>2, ZenonT(30)
      <3>6. sp \in N /\ d.data[sp].blueWork \in Nat /\ d.data[q].blueWork \in Nat /\ d.data[a].blueWork \in Nat
            /\ g.blueWork \in Nat
        BY <1>2, <1>3, <1>5, <3>1, <3>3, ZenonT(30) DEF Data, N
      <3>7. d.data[q].blueWork <= d.data[sp].blueWork
        BY <3>5, <3>6 DEF Less
      <3>8. d.data[a].blueWork < g.blueWork
        BY <1>3, <3>4, <3>6, <3>7, SMTT(30)
      <3>9. d.past[a] \subseteq P
        BY <3>3, <3>4, ZenonT(30)
      <3> QED
        BY <1>4, <2>2, <3>1, <3>8, <3>9, ZenonT(30)
    <2> QED
      BY <2>1, <2>2
  <1>10. e.past[Genesis] = {}
    BY <1>1, <1>4, <1>5, ZenonT(30) DEF Ordered
  <1> QED
    BY <1>4, <1>8, <1>9, <1>10, ZenonT(30) DEF Ordered

\* Block b with parents ps and data g turns d into e.
NewBlock(e, d, b, ps, g) ==
    /\ DagOK(d) /\ b \in Blocks \ Known(d) /\ ps \in SUBSET Known(d) /\ ps # {}
    /\ LoopOK(d, ChooseSelectedParent(d, ps), MergedBeside(d, ps), g)
    /\ Extends(e, d, b, ps, g)

\* Where the new block stands.
Placed(e, d, b, g, sp, N, P) ==
    /\ sp \in N /\ sp \in P /\ sp \notin d.past[sp] /\ d.past[sp] \subseteq P /\ P \subseteq N
    /\ b \notin N /\ b # Genesis /\ Genesis \in N /\ Known(e) = N \cup {b}
    /\ e.past[b] = P /\ e.chain[b] = {b} \cup d.chain[sp] /\ e.data[b] = g
    /\ \A x \in N : /\ e.past[x] = d.past[x] /\ e.chain[x] = d.chain[x] /\ e.data[x] = d.data[x]
                    /\ d.past[x] \subseteq N /\ d.chain[x] \subseteq N
                    /\ d.chain[x] \subseteq d.past[x] \cup {x}
    /\ \A x \in N \ {Genesis} : SelectedParent(d, x) \in d.past[x]
    /\ ToSet(g.mergeSetBlues) \cup ToSet(g.mergeSetReds) = P \ d.past[sp]

\* Its selected parent is the heaviest parent, and it merges the rest of its past.
LEMMA NewBlockPlaced ==
    ASSUME NEW d, NEW e, NEW b, NEW ps, NEW g, NewBlock(e, d, b, ps, g)
    PROVE  Placed(e, d, b, g, g.selectedParent, Known(d), PastOf(d, ps))
  <1> DEFINE sp == g.selectedParent
  <1>1. DagOK(d) /\ Shape(d) /\ Chained(d) /\ ps \in SUBSET Known(d) /\ ps # {} /\ b \in Blocks \ Known(d)
        /\ Extends(e, d, b, ps, g) /\ LoopOK(d, ChooseSelectedParent(d, ps), MergedBeside(d, ps), g)
    BY Zenon DEF NewBlock, DagOK
  <1>2. sp = ChooseSelectedParent(d, ps)
    BY <1>1, ZenonT(30) DEF LoopOK
  <1>3. sp \in ps /\ sp \in Known(d)
    BY <1>1, <1>2, HeaviestParent, SMTT(30)
  <1>4. sp \in PastOf(d, ps) /\ d.past[sp] \subseteq PastOf(d, ps)
    BY <1>3, ZenonT(30) DEF PastOf
  <1>5. PastOf(d, ps) \subseteq Known(d) /\ sp \notin d.past[sp]
    BY <1>1, <1>3, PastOfKnown, NotOwnAncestor, ZenonT(30)
  <1>6. Genesis \in Known(d) /\ \A x \in Known(d) : d.past[x] \subseteq Known(d) /\ d.chain[x] \subseteq Known(d)
    BY <1>1 DEF Shape
  <1>7. b # Genesis /\ b \notin Known(d)
    BY <1>1, <1>6
  <1>8. /\ Known(e) = Known(d) \cup {b}
        /\ e.past[b] = PastOf(d, ps) /\ e.chain[b] = {b} \cup d.chain[sp] /\ e.data[b] = g
        /\ \A x \in Known(d) : e.past[x] = d.past[x] /\ e.chain[x] = d.chain[x] /\ e.data[x] = d.data[x]
    BY <1>1, Zenon DEF Extends
  <1>9. /\ \A x \in Known(d) \ {Genesis} : SelectedParent(d, x) \in d.past[x]
        /\ \A x \in Known(d) : d.chain[x] \subseteq d.past[x] \cup {x}
    BY <1>1, Zenon DEF Chained
  <1>10. {sp} \cup MergedBeside(d, ps) = PastOf(d, ps) \ d.past[sp]
    BY <1>2, <1>4, <1>5, ZenonT(30) DEF MergedBeside, IsAncestorOf
  <1>11. ToSet(g.mergeSetBlues) \cup ToSet(g.mergeSetReds) = PastOf(d, ps) \ d.past[sp]
    BY <1>1, <1>2, <1>10, ZenonT(30) DEF LoopOK
  <1> QED
    BY <1>3, <1>4, <1>5, <1>6, <1>7, <1>8, <1>9, <1>11, ZenonT(30) DEF Placed

\* The chain of the new block continues the one of its selected parent.
LEMMA NewBlockChained ==
    ASSUME NEW d, NEW e, NEW b, NEW ps, NEW g, NewBlock(e, d, b, ps, g)
    PROVE  Chained(e)
  <1> DEFINE sp == g.selectedParent
             N == Known(d)
             P == PastOf(d, ps)
  <1>0. Placed(e, d, b, g, sp, N, P)
    BY NewBlockPlaced, ZenonT(30)
  <1> HIDE DEF N, P, sp
  <1>1. /\ sp \in N /\ sp \in P /\ d.past[sp] \subseteq P
        /\ b \notin N /\ b # Genesis /\ Genesis \in N /\ Known(e) = N \cup {b}
        /\ e.past[b] = P /\ e.chain[b] = {b} \cup d.chain[sp] /\ e.data[b] = g
        /\ d.chain[sp] \subseteq d.past[sp] \cup {sp}
    BY <1>0, ZenonT(30) DEF Placed
  <1>2. \A x \in N : e.past[x] = d.past[x] /\ e.chain[x] = d.chain[x] /\ e.data[x] = d.data[x]
                       /\ d.past[x] \subseteq N /\ d.chain[x] \subseteq N
    BY <1>0, ZenonT(30) DEF Placed
  <1>3. /\ d.chain[Genesis] = {Genesis}
        /\ \A x \in N : x \in d.chain[x] /\ d.chain[x] \subseteq d.past[x] \cup {x}
        /\ \A x \in N \ {Genesis} : /\ SelectedParent(d, x) \in d.past[x]
                                    /\ d.chain[x] = {x} \cup d.chain[SelectedParent(d, x)]
    BY Zenon DEF NewBlock, DagOK, Chained, N
  <1>4. /\ SelectedParent(e, b) = sp
        /\ \A x \in N : SelectedParent(e, x) = SelectedParent(d, x)
    BY <1>1, <1>2, ZenonT(30) DEF SelectedParent, sp
  <1>5. ASSUME NEW x \in N \ {Genesis}
        PROVE  SelectedParent(e, x) \in e.past[x] /\ e.chain[x] = {x} \cup e.chain[SelectedParent(e, x)]
    <2> DEFINE y == SelectedParent(d, x)
    <2>1. y \in d.past[x] /\ d.chain[x] = {x} \cup d.chain[y]
      BY <1>3, ZenonT(30)
    <2>2. y \in N /\ SelectedParent(e, x) = y
      BY <1>2, <1>4, <2>1, ZenonT(30)
    <2> HIDE DEF y
    <2> QED
      BY <1>2, <2>1, <2>2, ZenonT(30)
  <1>6. SelectedParent(e, b) \in e.past[b] /\ e.chain[b] = {b} \cup e.chain[SelectedParent(e, b)]
    BY <1>1, <1>2, <1>4, ZenonT(30)
  <1>7. \A x \in N \cup {b} : x \in e.chain[x] /\ e.chain[x] \subseteq e.past[x] \cup {x}
    <2>1. \A x \in N : x \in e.chain[x] /\ e.chain[x] \subseteq e.past[x] \cup {x}
      BY <1>2, <1>3, ZenonT(30)
    <2>2. b \in e.chain[b] /\ e.chain[b] \subseteq e.past[b] \cup {b}
      BY <1>1, ZenonT(30)
    <2> QED
      BY <2>1, <2>2, ZenonT(30)
  <1>8. e.chain[Genesis] = {Genesis}
    BY <1>1, <1>2, <1>3, ZenonT(30)
  <1>9. ASSUME NEW x \in N \cup {b}, NEW a \in e.chain[x], NEW c \in e.chain[x]
        PROVE  a \in e.chain[c] \/ c \in e.chain[a]
    <2> DEFINE InOld(y) == y \in N /\ a \in d.chain[y] /\ c \in d.chain[y]
    <2>1. ASSUME NEW y, InOld(y) PROVE a \in e.chain[c] \/ c \in e.chain[a]
      <3>1. a \in N /\ c \in N
        BY <1>2, <2>1, ZenonT(30)
      <3>2. a \in d.chain[c] \/ c \in d.chain[a]
        BY <2>1, ZenonT(30) DEF NewBlock, DagOK, Chained, N
      <3> QED
        BY <1>2, <3>1, <3>2, ZenonT(30)
    <2>2. CASE x \in N
      BY <1>2, <2>1, <2>2, ZenonT(30)
    <2>3. CASE x = b
      BY <1>1, <2>1, <2>3, ZenonT(30)
    <2> QED
      BY <2>2, <2>3, SMTT(30)
  <1> QED
    BY <1>1, <1>5, <1>6, <1>7, <1>8, <1>9, ZenonT(30) DEF Chained

\* The new block merges what its selected parent has not in its past.
LEMMA NewBlockMerging ==
    ASSUME NEW d, NEW e, NEW b, NEW ps, NEW g, NewBlock(e, d, b, ps, g)
    PROVE  Merging(e)
  <1> DEFINE sp == g.selectedParent
             N == Known(d)
             P == PastOf(d, ps)
  <1>0. Placed(e, d, b, g, sp, N, P)
    BY NewBlockPlaced, Zenon
  <1> HIDE DEF N, P, sp
  <1>1. /\ sp \in N /\ sp \in P /\ d.past[sp] \subseteq P
        /\ b \notin N /\ b # Genesis /\ Genesis \in N /\ Known(e) = N \cup {b}
        /\ e.past[b] = P /\ e.chain[b] = {b} \cup d.chain[sp] /\ e.data[b] = g
        /\ ToSet(g.mergeSetBlues) \cup ToSet(g.mergeSetReds) = P \ d.past[sp]
    BY <1>0, ZenonT(30) DEF Placed
  <1>2. \A x \in N : e.past[x] = d.past[x] /\ e.chain[x] = d.chain[x] /\ e.data[x] = d.data[x]
                       /\ d.past[x] \subseteq N /\ d.chain[x] \subseteq N
    BY <1>0, Zenon DEF Placed
  <1>3. \A x \in N \ {Genesis} : SelectedParent(d, x) \in d.past[x]
    BY <1>0, ZenonT(30) DEF Placed
  <1>4. /\ d.data[Genesis] = GenesisData
        /\ \A x \in N :
              /\ ToSet(d.data[x].mergeSetBlues) \cup ToSet(d.data[x].mergeSetReds) = Merged(d, x)
              /\ UNION {Merged(d, c) : c \in d.chain[x]} = d.past[x]
              /\ \A c, f \in d.chain[x] : c # f => Merged(d, c) \cap Merged(d, f) = {}
    BY ZenonT(30) DEF NewBlock, DagOK, Merging, N
  <1>5. Merged(e, b) = P \ d.past[sp]
    BY <1>1, <1>2, ZenonT(30) DEF Merged, SelectedParent, sp
  <1>6. \A x \in N : Merged(e, x) = Merged(d, x)
    BY <1>2, <1>3, ZenonT(30) DEF Merged, SelectedParent
  <1>7. ASSUME NEW x \in N
        PROVE  /\ ToSet(e.data[x].mergeSetBlues) \cup ToSet(e.data[x].mergeSetReds) = Merged(e, x)
               /\ UNION {Merged(e, c) : c \in e.chain[x]} = e.past[x]
               /\ \A c, f \in e.chain[x] : c # f => Merged(e, c) \cap Merged(e, f) = {}
    <2>1. \A c \in d.chain[x] : Merged(e, c) = Merged(d, c)
      BY <1>2, <1>6, ZenonT(30)
    <2>2. UNION {Merged(e, c) : c \in d.chain[x]} = UNION {Merged(d, c) : c \in d.chain[x]}
      BY <2>1, ZenonT(30)
    <2> QED
      BY <1>2, <1>4, <1>6, <2>1, <2>2, ZenonT(30)
  <1>8. ASSUME NEW c \in d.chain[sp] PROVE Merged(e, c) \subseteq d.past[sp]
    <2>1. UNION {Merged(d, f) : f \in d.chain[sp]} = d.past[sp] /\ c \in N
      BY <1>1, <1>2, <1>4, ZenonT(30)
    <2> QED
      BY <1>6, <2>1, ZenonT(30)
  <1>9. UNION {Merged(e, c) : c \in e.chain[b]} = P
    <2>1. UNION {Merged(e, c) : c \in d.chain[sp]} = d.past[sp]
      BY <1>1, <1>2, <1>7, ZenonT(30)
    <2>2. UNION {Merged(e, c) : c \in {b} \cup d.chain[sp]} =
            Merged(e, b) \cup UNION {Merged(e, c) : c \in d.chain[sp]}
      BY ZenonT(30)
    <2> QED
      BY <1>1, <1>5, <2>1, <2>2, SMTT(30)
  <1>10. ASSUME NEW c \in e.chain[b], NEW f \in e.chain[b], c # f
         PROVE  Merged(e, c) \cap Merged(e, f) = {}
    <2>1. c \in d.chain[sp] /\ f \in d.chain[sp] => Merged(e, c) \cap Merged(e, f) = {}
      BY <1>1, <1>2, <1>7, <1>10, ZenonT(30)
    <2>2. (c = b /\ f \in d.chain[sp]) \/ (f = b /\ c \in d.chain[sp]) \/ (c \in d.chain[sp] /\ f \in d.chain[sp])
      BY <1>1, <1>10, ZenonT(30)
    <2> QED
      BY <1>5, <1>8, <2>1, <2>2, SMTT(30)
  <1>11. e.data[Genesis] = GenesisData
    BY <1>1, <1>2, <1>4, ZenonT(30)
  <1> QED
    BY <1>1, <1>5, <1>7, <1>9, <1>10, <1>11, ZenonT(30) DEF Merging

\* Among blocks of one chain there is one that has the others on its chain.
LEMMA NearestExists ==
    ASSUME NEW d, DagOK(d), NEW s \in Known(d), NEW H \in SUBSET d.chain[s], H # {}
    PROVE  \E c \in H : H \subseteq d.chain[c]
  <1> DEFINE m == ChooseSelectedParent(d, H)
  <1>1. Shape(d) /\ H \in SUBSET Known(d)
    BY SMTT(30) DEF DagOK, Shape
  <1>2. m \in H /\ \A q \in H \ {m} : Less(d, q, m)
    BY <1>1, HeaviestParent, SMTT(30)
  <1> HIDE DEF m
  <1>3. ASSUME NEW q \in H \ {m} PROVE q \in d.chain[m]
    <2>1. q \in Known(d) /\ m \in Known(d) /\ Less(d, q, m)
      BY <1>1, <1>2, SMTT(30)
    <2>2. q \in d.chain[m] \/ m \in d.chain[q]
      BY <1>2, ZenonT(30) DEF DagOK, Chained
    <2>3. m \in d.chain[q] => m \in d.past[q]
      <3>1. d.chain[q] \subseteq d.past[q] \cup {q}
        BY <2>1, ZenonT(30) DEF DagOK, Chained
      <3> QED
        BY <3>1, SMTT(30)
    <2>4. m \in d.past[q] => Less(d, m, q)
      BY <2>1, ZenonT(30) DEF DagOK, Ordered, Less
    <2> QED
      BY <1>1, <2>1, <2>2, <2>3, <2>4, LessOrders, ZenonT(30)
  <1>4. m \in d.chain[m]
    BY <1>1, <1>2, ZenonT(30) DEF DagOK, Chained
  <1> QED
    BY <1>2, <1>3, <1>4, ZenonT(30)

\* The new block changes nothing in the view of an old one.
LEMMA OldViews ==
    ASSUME NEW d, DagOK(d), NEW e, NEW N, N = Known(d), NEW h, h.selectedParent \in N, NEW B \in SUBSET N,
           \A x \in N : /\ e.past[x] = d.past[x] /\ e.chain[x] = d.chain[x] /\ e.data[x] = d.data[x]
                        /\ d.chain[x] \subseteq N,
           Clustered(d, h, B)
    PROVE  Clustered(e, h, B)
  <1> DEFINE s == h.selectedParent
             Holders(f, x) == {c \in SelectedChain(f, s) : x \in DOMAIN f.data[c].bluesAnticoneSizes}
             nearest(f, H) == CHOOSE c \in H : H \subseteq SelectedChain(f, c)
  <1>1. \A x \in N : SelectedChain(e, x) = SelectedChain(d, x) /\ SelectedChain(d, x) \subseteq N
    BY ZenonT(30) DEF SelectedChain
  <1>2. ASSUME NEW x PROVE BlueAnticoneSize(e, h, x) = BlueAnticoneSize(d, h, x)
    <2> DEFINE H == Holders(d, x)
               Found(f) == IF Holders(f, x) = {} THEN NoSize
                           ELSE f.data[nearest(f, Holders(f, x))].bluesAnticoneSizes[x]
    <2>1. Holders(e, x) = H /\ H \subseteq N
      BY <1>1, ZenonT(30)
    <2>2. nearest(e, H) = nearest(d, H)
      <3> HIDE DEF H
      <3>1. \A c : c \in H /\ H \subseteq SelectedChain(e, c) <=> c \in H /\ H \subseteq SelectedChain(d, c)
        BY <1>1, <2>1, ZenonT(30)
      <3> QED
        BY <3>1, ZenonT(30)
    <2>3. ASSUME H # {} PROVE nearest(d, H) \in N
      <3>1. H \in SUBSET d.chain[s]
        BY ZenonT(30) DEF SelectedChain
      <3> HIDE DEF H, s
      <3>2. \E c \in H : H \subseteq SelectedChain(d, c)
        BY <2>3, <3>1, NearestExists, ZenonT(30) DEF SelectedChain, s
      <3>3. nearest(d, H) \in H
        BY <3>2, ZenonT(30)
      <3> QED
        BY <2>1, <3>3, ZenonT(30)
    <2>4. Found(e) = Found(d)
      <3> HIDE DEF Holders, H, nearest
      <3>1. CASE Holders(d, x) = {}
        BY <2>1, <3>1, ZenonT(30) DEF H
      <3>2. CASE Holders(d, x) # {}
        <4>1. nearest(e, Holders(e, x)) = nearest(d, Holders(d, x)) /\ nearest(d, Holders(d, x)) \in N
          BY <2>1, <2>2, <2>3, <3>2, ZenonT(30) DEF H
        <4>2. Holders(e, x) # {}
          BY <2>1, <3>2, ZenonT(30) DEF H
        <4> QED
          BY <3>2, <4>1, <4>2, ZenonT(30)
      <3> QED
        BY <3>1, <3>2, SMTT(30)
    <2>5. BlueAnticoneSize(e, h, x) = IF x \in DOMAIN h.bluesAnticoneSizes THEN h.bluesAnticoneSizes[x] ELSE Found(e)
      BY ZenonT(30) DEF BlueAnticoneSize
    <2>6. BlueAnticoneSize(d, h, x) = IF x \in DOMAIN h.bluesAnticoneSizes THEN h.bluesAnticoneSizes[x] ELSE Found(d)
      BY ZenonT(30) DEF BlueAnticoneSize
    <2>7. CASE x \in DOMAIN h.bluesAnticoneSizes
      BY <2>5, <2>6, <2>7, ZenonT(30)
    <2>8. CASE x \notin DOMAIN h.bluesAnticoneSizes
      <3> HIDE DEF Found
      <3> QED
        BY <2>4, <2>5, <2>6, <2>8, SMTT(30)
    <2> QED
      BY <2>7, <2>8, SMTT(30)
  <1>3. \A x \in B : AnticoneIn(e, B, x) = AnticoneIn(d, B, x)
    BY Zenon DEF AnticoneIn, InAnticone, IsAncestorOf
  <1> QED
    BY <1>2, <1>3, ZenonT(30) DEF Clustered

\* The blues of the new block are a K-cluster, and its selected parent's are too.
LEMMA NewBlockBlue ==
    ASSUME NEW d, NEW e, NEW b, NEW ps, NEW g, NewBlock(e, d, b, ps, g)
    PROVE  Blue(e)
  <1> DEFINE sp == g.selectedParent
             N == Known(d)
             P == PastOf(d, ps)
             blues == ToSet(g.mergeSetBlues)
  <1>0. Placed(e, d, b, g, sp, N, P)
    BY NewBlockPlaced, Zenon
  <1>1. /\ DagOK(d) /\ Clustered(d, g, blues \cup BlueSet(d, sp))
    BY Zenon DEF NewBlock, LoopOK
  <1>2. \A x \in N : BlueSet(d, x) \subseteq d.past[x] /\ (x # Genesis => Clustered(d, d.data[x], BlueSet(d, x)))
    BY <1>1, ZenonT(30) DEF DagOK, Blue
  <1> HIDE DEF N, P, sp
  <1>3. /\ sp \in N /\ sp \in P /\ d.past[sp] \subseteq P /\ P \subseteq N
        /\ b \notin N /\ b # Genesis /\ Known(e) = N \cup {b}
        /\ e.past[b] = P /\ e.chain[b] = {b} \cup d.chain[sp] /\ e.data[b] = g
        /\ blues \cup ToSet(g.mergeSetReds) = P \ d.past[sp]
    BY <1>0, ZenonT(30) DEF Placed
  <1>4. \A x \in N : /\ e.past[x] = d.past[x] /\ e.chain[x] = d.chain[x] /\ e.data[x] = d.data[x]
                     /\ d.chain[x] \subseteq N /\ d.past[x] \subseteq N
    BY <1>0, Zenon DEF Placed
  <1>5. \A x \in N \ {Genesis} : d.data[x].selectedParent \in N
    <2>1. \A x \in N \ {Genesis} : SelectedParent(d, x) \in d.past[x]
      BY <1>0, Zenon DEF Placed
    <2> QED
      BY <1>4, <2>1, ZenonT(30) DEF SelectedParent
  <1>6. ASSUME NEW x \in N PROVE BlueSet(e, x) = BlueSet(d, x)
    <2>1. \A c \in d.chain[x] : e.data[c] = d.data[c]
      BY <1>4, ZenonT(30)
    <2>2. e.chain[x] = d.chain[x]
      BY <1>4, Zenon
    <2> QED
      BY <2>1, <2>2, ZenonT(30) DEF BlueSet, SelectedChain
  <1>7. BlueSet(e, b) = blues \cup BlueSet(d, sp)
    <2> DEFINE In(f, c) == ToSet(f.data[c].mergeSetBlues)
    <2>1. BlueSet(e, b) = UNION {In(e, c) : c \in {b} \cup d.chain[sp]}
      BY <1>3, ZenonT(30) DEF BlueSet, SelectedChain
    <2>2. BlueSet(d, sp) = UNION {In(d, c) : c \in d.chain[sp]}
      BY Zenon DEF BlueSet, SelectedChain
    <2>3. In(e, b) = blues /\ \A c \in d.chain[sp] : In(e, c) = In(d, c)
      BY <1>3, <1>4, ZenonT(30)
    <2> HIDE DEF In
    <2> QED
      BY <2>1, <2>2, <2>3, ZenonT(30)
  <1>8. ASSUME NEW x \in N
        PROVE  BlueSet(e, x) \subseteq e.past[x] /\ (x # Genesis => Clustered(e, e.data[x], BlueSet(e, x)))
    <2>1. BlueSet(d, x) \subseteq d.past[x] /\ d.past[x] \subseteq N /\ e.data[x] = d.data[x]
      BY <1>2, <1>4, ZenonT(30)
    <2>2. ASSUME x # Genesis PROVE Clustered(e, d.data[x], BlueSet(d, x))
      <3>1. Clustered(d, d.data[x], BlueSet(d, x)) /\ d.data[x].selectedParent \in N
        BY <1>2, <1>5, <2>2, Zenon
      <3>2. BlueSet(d, x) \in SUBSET N
        BY <2>1, Zenon
      <3> QED
        BY <1>1, <1>4, <3>1, <3>2, OldViews, ZenonT(30) DEF N
    <2> QED
      BY <1>4, <1>6, <2>1, <2>2, ZenonT(30)
  <1>9. BlueSet(e, b) \subseteq P
    BY <1>2, <1>3, <1>7, Zenon
  <1>10. Clustered(e, g, BlueSet(e, b))
    <2>1. BlueSet(e, b) \in SUBSET N /\ g.selectedParent \in N
      BY <1>3, <1>9, ZenonT(30) DEF sp
    <2>2. Clustered(d, g, BlueSet(e, b))
      BY <1>1, <1>7, Zenon DEF sp
    <2> QED
      BY <1>1, <1>4, <2>1, <2>2, OldViews, SMTT(30) DEF N
  <1> QED
    BY <1>3, <1>8, <1>9, <1>10, ZenonT(30) DEF Blue

\* Adding a header keeps the invariant of the DAG.
LEMMA AddHeaderKeepsDagOK ==
    ASSUME NEW d, DagOK(d), NEW b \in Blocks \ Known(d), NEW ps \in LegalParents(d)
    PROVE  DagOK(WithBlock(d, b, ps, GHOSTDAG(d, ps)))
  <1> DEFINE g == GHOSTDAG(d, ps)
             e == WithBlock(d, b, ps, g)
  <1>1. Shape(d) /\ ps \in SUBSET Known(d) /\ ps # {}
    BY LegalParentsType, ZenonT(30) DEF DagOK
  <1>2. LoopOK(d, ChooseSelectedParent(d, ps), MergedBeside(d, ps), g)
    BY <1>1, GHOSTDAGOK, Zenon
  <1> HIDE DEF g
  <1>3. Extends(e, d, b, ps, g)
    BY <1>1, WithBlockExtends, ZenonT(30)
  <1> HIDE DEF e
  <1>4. NewBlock(e, d, b, ps, g)
    BY <1>1, <1>2, <1>3, ZenonT(30) DEF NewBlock
  <1>5. Shape(e) /\ Ordered(e)
    BY <1>1, <1>2, <1>3, ExtendsShapeAndOrder, ZenonT(30)
  <1>6. Chained(e) /\ Merging(e) /\ Blue(e)
    BY <1>4, NewBlockChained, NewBlockMerging, NewBlockBlue, ZenonT(30)
  <1> QED
    BY <1>5, <1>6, ZenonT(30) DEF DagOK, e, g

\* Genesis alone is such a DAG.
LEMMA InitDagOK == DagOK(InitDag)
  <1> DEFINE d == InitDag
             G == Genesis
  <1>1. /\ d.parents = [b \in {G} |-> {}] /\ d.past = [b \in {G} |-> {}]
        /\ d.chain = [b \in {G} |-> {G}] /\ d.data = [b \in {G} |-> GenesisData]
    BY DEF InitDag
  <1> HIDE DEF d
  <1>2. Known(d) = {G} /\ d.past[G] = {} /\ d.chain[G] = {G} /\ d.data[G] = GenesisData
    BY <1>1 DEF Known
  <1>3. GenesisData \in Data /\ GenesisData.mergeSetBlues = << >> /\ GenesisData.mergeSetReds = << >>
    <2>1. [b \in {} |-> 0] \in Sizes
      <3>1. [b \in {} |-> 0] \in [{} -> Int] /\ {} \in SUBSET Blocks
        OBVIOUS
      <3> QED
        BY <3>1, ZenonT(30) DEF Sizes
    <2> QED
      BY <2>1 DEF GenesisData, Data
  <1>4. Shape(d)
    <2>1. IsFiniteSet({G}) /\ {G} \subseteq Blocks
      BY FS_Singleton, BlocksAssumption, SMTT(30)
    <2>2. /\ d.past \in [{G} -> SUBSET {G}] /\ d.chain \in [{G} -> SUBSET {G}] /\ d.data \in [{G} -> Data]
      BY <1>1, <1>3
    <2> QED
      BY <1>2, <2>1, <2>2, SMTT(30) DEF Shape
  <1>5. ToSet(<< >>) = {}
    BY DEF ToSet
  <1>6. Ordered(d) /\ Chained(d)
    BY <1>2 DEF Ordered, Chained
  <1>7. Merged(d, G) = {}
    BY DEF Merged
  <1>8. Merging(d)
    <2>1. ToSet(d.data[G].mergeSetBlues) \cup ToSet(d.data[G].mergeSetReds) = Merged(d, G)
      BY <1>2, <1>3, <1>5, <1>7, SMTT(30)
    <2>2. UNION {Merged(d, c) : c \in d.chain[G]} = d.past[G]
      BY <1>2, <1>7, SMTT(30)
    <2> QED
      BY <1>2, <2>1, <2>2, SMTT(30) DEF Merging
  <1>9. BlueSet(d, G) = {}
    BY <1>2, <1>3, <1>5, SMTT(30) DEF BlueSet, SelectedChain
  <1>10. Blue(d)
    BY <1>2, <1>9, ZenonT(30) DEF Blue
  <1> QED
    BY <1>4, <1>6, <1>8, <1>10, ZenonT(30) DEF DagOK, d

-----------------------------------------------------------------------------
(* What the invariant says of the merge sets.                              *)

\* GetSortedMergeSet lists exactly the blocks that a block merges, each after its
\* ancestors.
LEMMA SortedMergeSet ==
    ASSUME NEW d, DagOK(d), NEW b \in Known(d), NEW s, s = GetSortedMergeSet(d, d.data[b])
    PROVE  /\ ToSet(s) = Merged(d, b)
           /\ \A i, j \in DOMAIN s : i < j => s[j] \notin d.past[s[i]]
  <1> DEFINE sp == SelectedParent(d, b)
             others == Merged(d, b) \ {sp}
             r == Increasing(d, others)
             n == Cardinality(others)
  <1>1. Shape(d) /\ d.data[b].selectedParent = sp
        /\ ToSet(d.data[b].mergeSetBlues) \cup ToSet(d.data[b].mergeSetReds) = Merged(d, b)
    BY ZenonT(30) DEF DagOK, Merging, SelectedParent
  <1>2. CASE b = Genesis
    <2>1. d.data[b].selectedParent = NoBlock
      BY <1>2 DEF DagOK, Merging, GenesisData
    <2>2. s = << >>
      BY <2>1, Zenon DEF GetSortedMergeSet
    <2>3. DOMAIN s = {} /\ ToSet(s) = {}
      BY <2>2 DEF ToSet
    <2> QED
      BY <1>2, <2>3, SMTT(30) DEF Merged
  <1>3. CASE b # Genesis
    <2>1. sp \in d.past[b] /\ d.past[b] \subseteq Known(d) /\ Known(d) \subseteq Blocks
      BY <1>3, SMTT(30) DEF DagOK, Chained, Shape
    <2>2. sp # NoBlock /\ sp \in Known(d)
      BY <2>1, BlocksAssumption, SMTT(30) DEF NoBlock
    <2>3. sp \notin d.past[sp]
      BY <2>2, NotOwnAncestor, SMTT(30)
    <2>4. /\ Merged(d, b) \subseteq Known(d) /\ sp \in Merged(d, b)
          /\ \A x \in Merged(d, b) : x \notin d.past[sp]
      BY <1>3, <2>1, <2>3, ZenonT(30) DEF Merged
    <2>5. s = <<sp>> \o r
      BY <1>1, <2>2, ZenonT(30) DEF GetSortedMergeSet
    <2>6. others \in SUBSET Known(d)
      BY <2>4, SMTT(30)
    <2> HIDE DEF others, sp
    <2>7. /\ n \in Nat /\ r \in Seq(others) /\ Len(r) = n /\ ToSet(r) = others
          /\ \A i, j \in 1 .. n : i < j => Less(d, r[i], r[j])
      BY <1>1, <2>6, IncreasingSorts, ZenonT(30)
    <2> HIDE DEF r, n
    <2>8. /\ DOMAIN s = 1 .. n + 1 /\ s[1] = sp /\ DOMAIN r = 1 .. n
          /\ \A i \in 2 .. n + 1 : s[i] = r[i - 1]
      BY <2>5, <2>7, SMTT(30)
    <2>9. ToSet(s) = {sp} \cup others
      <3>1. \A i \in 1 .. n + 1 : i = 1 \/ i \in 2 .. n + 1
        BY <2>7, SMTT(30)
      <3>2. \A i \in 2 .. n + 1 : i - 1 \in 1 .. n
        BY <2>7, SMTT(30)
      <3>3. \A i \in 1 .. n : s[i + 1] = r[i] /\ i + 1 \in 1 .. n + 1
        BY <2>7, <2>8, SMTT(30)
      <3>4. ToSet(s) \subseteq {sp} \cup others
        BY <2>7, <2>8, <3>1, <3>2, ZenonT(30) DEF ToSet
      <3>5. ASSUME NEW x \in others PROVE x \in ToSet(s)
        <4>1. PICK i \in 1 .. n : x = r[i]
          BY <2>7, <2>8, ZenonT(30) DEF ToSet
        <4>2. i + 1 \in DOMAIN s /\ s[i + 1] = x
          BY <2>8, <3>3, <4>1, ZenonT(30)
        <4> QED
          BY <4>2, ZenonT(30) DEF ToSet
      <3>6. sp \in ToSet(s)
        <4>1. 1 \in DOMAIN s
          BY <2>7, <2>8, SMTT(30)
        <4> QED
          BY <2>8, <4>1, ZenonT(30) DEF ToSet
      <3> QED
        BY <3>4, <3>5, <3>6, ZenonT(30)
    <2>10. ToSet(s) = Merged(d, b)
      BY <2>4, <2>9, SMTT(30) DEF others
    <2>11. ASSUME NEW i \in DOMAIN s, NEW j \in DOMAIN s, i < j PROVE s[j] \notin d.past[s[i]]
      <3>1. CASE i = 1
        <4>1. s[j] \in Merged(d, b)
          BY <2>10, ZenonT(30) DEF ToSet
        <4> QED
          BY <2>4, <2>8, <3>1, <4>1, ZenonT(30)
      <3>2. CASE i # 1
        <4> DEFINE x == r[i - 1]
                   y == r[j - 1]
        <4>1. i - 1 \in 1 .. n /\ j - 1 \in 1 .. n /\ i - 1 < j - 1 /\ i \in 2 .. n + 1 /\ j \in 2 .. n + 1
          BY <2>7, <2>8, <2>11, <3>2, SMTT(30)
        <4>2. s[i] = x /\ s[j] = y /\ Less(d, x, y)
          BY <2>7, <2>8, <4>1, SMTT(30)
        <4>3. x \in Known(d) /\ y \in Known(d)
          BY <2>6, <2>7, <2>8, <4>1, ZenonT(30) DEF ToSet
        <4> HIDE DEF x, y
        <4>4. y \in d.past[x] => Less(d, y, x)
          BY <4>3, ZenonT(30) DEF DagOK, Ordered, Less
        <4> QED
          BY <1>1, <4>2, <4>3, <4>4, LessOrders, ZenonT(30)
      <3> QED
        BY <3>1, <3>2, SMTT(30)
    <2> QED
      BY <2>10, <2>11, ZenonT(30)
  <1> QED
    BY <1>2, <1>3, SMTT(30)

-----------------------------------------------------------------------------
(* The theorems.                                                           *)

HeaderInv == DagOK(dag)

\* The invariant holds however the DAG of headers grows.
THEOREM HeaderInvHolds == HeaderSpec => []HeaderInv
  <1>1. HeaderInit => HeaderInv
    BY InitDagOK, ZenonT(30) DEF HeaderInit, HeaderInv
  <1>2. HeaderInv /\ [HeaderNext]_dag => HeaderInv'
    <2> SUFFICES ASSUME DagOK(dag), [HeaderNext]_dag PROVE DagOK(dag')
      BY ZenonT(30) DEF HeaderInv
    <2>1. CASE HeaderNext
      <3>1. PICK b \in Blocks \ Known(dag), ps \in LegalParents(dag) : AddHeader(b, ps)
        BY <2>1, ZenonT(30) DEF HeaderNext
      <3> QED
        BY <3>1, AddHeaderKeepsDagOK, ZenonT(30) DEF AddHeader
    <2>2. CASE UNCHANGED dag
      BY <2>2, ZenonT(30)
    <2> QED
      BY <2>1, <2>2, ZenonT(30)
  <1> QED
    BY <1>1, <1>2, PTL DEF HeaderSpec

\* GHOSTDAG keeps its promise on every DAG: whatever the parents, the blocks that
\* checkBlueCandidate colours blue are a K-cluster from the view of every block,
\* and blueAnticoneSize finds the true size of the blue anticone of each.
THEOREM BluesAreAlwaysAKCluster == HeaderSpec => []KCluster
  <1>1. HeaderInv => KCluster
    <2> SUFFICES ASSUME DagOK(dag), NEW b \in Known(dag), NEW x \in BlueSet(dag, b)
                 PROVE  /\ Cardinality({y \in BlueSet(dag, b) : InAnticone(dag, y, x)}) <= K
                        /\ b # Genesis => BlueAnticoneSize(dag, dag.data[b], x) =
                                            Cardinality({y \in BlueSet(dag, b) : InAnticone(dag, y, x)})
      BY ZenonT(30) DEF KCluster, HeaderInv
    <2>1. b # Genesis
      <3>1. BlueSet(dag, Genesis) \subseteq dag.past[Genesis] /\ dag.past[Genesis] = {}
        BY SMTT(30) DEF DagOK, Shape, Ordered, Blue
      <3> QED
        BY <3>1, SMTT(30)
    <2> QED
      BY <2>1, ZenonT(30) DEF DagOK, Blue, Clustered, AnticoneIn
  <1> QED
    BY <1>1, HeaderInvHolds, PTL

\* On every DAG the sorted merge sets along a selected chain hold every block of
\* the past exactly once, each after its ancestors.
THEOREM MergeSetsAlwaysOrderThePast == HeaderSpec => []MergeSetsOrderThePast
  <1>1. HeaderInv => MergeSetsOrderThePast
    <2> SUFFICES ASSUME DagOK(dag), NEW b \in Known(dag)
                 PROVE  LET chain == SelectedChain(dag, b)
                            sorted == [c \in chain |-> GetSortedMergeSet(dag, dag.data[c])]
                        IN  /\ UNION {ToSet(sorted[c]) : c \in chain} = dag.past[b]
                            /\ \A c, e \in chain : c # e => ToSet(sorted[c]) \cap ToSet(sorted[e]) = {}
                            /\ \A i, j \in DOMAIN sorted[b] : i < j => sorted[b][j] \notin dag.past[sorted[b][i]]
      BY ZenonT(30) DEF MergeSetsOrderThePast, HeaderInv
    <2> DEFINE chain == SelectedChain(dag, b)
               sorted == [c \in chain |-> GetSortedMergeSet(dag, dag.data[c])]
    <2>1. chain = dag.chain[b] /\ chain \subseteq Known(dag) /\ b \in chain
      BY DEF SelectedChain, DagOK, Shape, Chained
    <2>2. \A c \in chain : sorted[c] = GetSortedMergeSet(dag, dag.data[c])
      BY Zenon
    <2> HIDE DEF chain, sorted
    <2>3. \A c \in chain : ToSet(sorted[c]) = Merged(dag, c)
      BY <2>1, <2>2, SortedMergeSet, SMTT(30)
    <2>4. /\ UNION {Merged(dag, c) : c \in chain} = dag.past[b]
          /\ \A c, e \in chain : c # e => Merged(dag, c) \cap Merged(dag, e) = {}
      BY <2>1, Zenon DEF DagOK, Merging
    <2>5. UNION {ToSet(sorted[c]) : c \in chain} = dag.past[b]
      BY <2>3, <2>4, ZenonT(30)
    <2>6. \A c, e \in chain : c # e => ToSet(sorted[c]) \cap ToSet(sorted[e]) = {}
      BY <2>3, <2>4, ZenonT(30)
    <2>7. \A i, j \in DOMAIN sorted[b] : i < j => sorted[b][j] \notin dag.past[sorted[b][i]]
      BY <2>1, <2>2, SortedMergeSet, SMTT(30)
    <2> QED
      BY <2>5, <2>6, <2>7, ZenonT(30) DEF chain, sorted
  <1> QED
    BY <1>1, HeaderInvHolds, PTL
=============================================================================
