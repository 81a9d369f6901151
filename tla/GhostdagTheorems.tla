-------------------------- MODULE GhostdagTheorems --------------------------
(***************************************************************************)
(* What GHOSTDAG computes for a new block, on a DAG of any size and shape  *)
(* that satisfies the invariant DagOK: every block it merges has a colour, *)
(* the blues are a K-cluster, and the sizes found down the selected chain  *)
(* are the true ones.  HeaderDAGTheorems shows that the invariant is kept. *)
(***************************************************************************)
EXTENDS HeaderDAG, FiniteSetTheorems, NaturalsInduction, WellFoundedInduction, TLAPS

-----------------------------------------------------------------------------
(* The invariant of a DAG.                                                 *)

Sizes == UNION {[S -> Int] : S \in SUBSET Blocks}
Data == [selectedParent     : Blocks \cup {NoBlock},
         mergeSetBlues      : Seq(Blocks),
         mergeSetReds       : Seq(Blocks),
         bluesAnticoneSizes : Sizes,
         blueScore          : Nat,
         blueWork           : Nat]

Shape(d) ==
    /\ Known(d) \subseteq Blocks /\ IsFiniteSet(Known(d)) /\ Genesis \in Known(d)
    /\ d.past \in [Known(d) -> SUBSET Known(d)]
    /\ d.chain \in [Known(d) -> SUBSET Known(d)]
    /\ d.data \in [Known(d) -> Data]

\* Ancestry is transitive, and a block has more blue work than its ancestors.
Ordered(d) ==
    /\ d.past[Genesis] = {}
    /\ \A b \in Known(d) : \A a \in d.past[b] :
          d.past[a] \subseteq d.past[b] /\ d.data[a].blueWork < d.data[b].blueWork

\* The selected chain follows the selected parents, and is a chain.
Chained(d) ==
    /\ d.chain[Genesis] = {Genesis}
    /\ \A b \in Known(d) : \A a, c \in d.chain[b] : a \in d.chain[c] \/ c \in d.chain[a]
    /\ \A b \in Known(d) : b \in d.chain[b] /\ d.chain[b] \subseteq d.past[b] \cup {b}
    /\ \A b \in Known(d) \ {Genesis} :
          /\ SelectedParent(d, b) \in d.past[b]
          /\ d.chain[b] = {b} \cup d.chain[SelectedParent(d, b)]

\* The blocks that b merges.
Merged(d, b) == IF b = Genesis THEN {} ELSE d.past[b] \ d.past[SelectedParent(d, b)]

\* Blues and reds are what a block merges; along a chain that is the past, once.
Merging(d) ==
    /\ d.data[Genesis] = GenesisData
    /\ \A b \in Known(d) :
          /\ ToSet(d.data[b].mergeSetBlues) \cup ToSet(d.data[b].mergeSetReds) = Merged(d, b)
          /\ UNION {Merged(d, c) : c \in d.chain[b]} = d.past[b]
          /\ \A c, e \in d.chain[b] : c # e => Merged(d, c) \cap Merged(d, e) = {}

\* The blues among B that are in the anticone of x.
AnticoneIn(d, B, x) == {y \in B : InAnticone(d, y, x)}

\* B is a K-cluster, and GHOSTDAG data g knows the anticone sizes of its blocks.
Clustered(d, g, B) ==
    \A x \in B : /\ Cardinality(AnticoneIn(d, B, x)) <= K
                 /\ BlueAnticoneSize(d, g, x) = Cardinality(AnticoneIn(d, B, x))

Blue(d) ==
    \A b \in Known(d) : /\ BlueSet(d, b) \subseteq d.past[b]
                        /\ b # Genesis => Clustered(d, d.data[b], BlueSet(d, b))

\* The invariant of the growing DAG.
DagOK(d) == Shape(d) /\ Ordered(d) /\ Chained(d) /\ Merging(d) /\ Blue(d)

-----------------------------------------------------------------------------
(* Orders.                                                                 *)

\* A non-empty set of naturals has a smallest element.
LEMMA LeastNat ==
    ASSUME NEW S \in SUBSET Nat, S # {}
    PROVE  \E n \in S : \A m \in S : n <= m
  <1> DEFINE R == {ss \in Nat \X Nat : ss[1] < ss[2]}
  <1>1. IsWellFoundedOn(R, Nat)
    BY NatLessThanWellFounded, Zenon DEF OpToRel
  <1>2. \A x, y \in Nat : <<y, x>> \notin R => x <= y
    OBVIOUS
  <1> HIDE DEF R
  <1>3. PICK n \in S : \A m \in S : <<m, n>> \notin R
    BY <1>1, WFMin, Zenon
  <1> QED
    BY <1>2, <1>3, Zenon

\* What holds at 0 and is kept by every step up to n holds up to n.
LEMMA UpTo ==
    ASSUME NEW n \in Nat, NEW Good \in SUBSET (0 .. n), 0 \in Good,
           \A i \in 1 .. n : i - 1 \in Good => i \in Good
    PROVE  Good = 0 .. n
  <1> DEFINE Bad == (0 .. n) \ Good
  <1>1. ASSUME Bad # {} PROVE FALSE
    <2>1. Bad \in SUBSET Nat
      OBVIOUS
    <2>2. PICK i \in Bad : \A j \in Bad : i <= j
      BY <1>1, <2>1, LeastNat, Zenon
    <2>3. i \in 1 .. n /\ i - 1 \in 0 .. n /\ i - 1 < i
      BY <2>2
    <2> QED
      BY <2>2, <2>3
  <1> QED
    BY <1>1, Zenon

\* Less orders the known blocks.
LEMMA LessOrders ==
    ASSUME NEW d, Shape(d), NEW a \in Known(d), NEW b \in Known(d), NEW c \in Known(d)
    PROVE  /\ Less(d, a, b) \in BOOLEAN /\ ~ Less(d, a, a)
           /\ a = b \/ Less(d, a, b) \/ Less(d, b, a)
           /\ Less(d, a, b) => ~ Less(d, b, a)
           /\ Less(d, a, b) /\ Less(d, b, c) => Less(d, a, c)
  <1>1. \A x \in Known(d) : x \in Nat /\ d.data[x].blueWork \in Nat
    BY BlocksAssumption DEF Shape, Data
  <1> QED
    BY <1>1 DEF Less

\* sortMergeSet: Increasing lists a set of known blocks from the lightest to the
\* heaviest.
LEMMA IncreasingSorts ==
    ASSUME NEW d, Shape(d), NEW S \in SUBSET Known(d)
    PROVE  /\ Cardinality(S) \in Nat
           /\ Increasing(d, S) \in Seq(S) /\ Len(Increasing(d, S)) = Cardinality(S)
           /\ ToSet(Increasing(d, S)) = S
           /\ \A i, j \in 1 .. Cardinality(S) :
                 i < j => Less(d, Increasing(d, S)[i], Increasing(d, S)[j])
  <1> DEFINE n == Cardinality(S)
             Below(b) == {a \in S : Less(d, a, b)}
             rank == [b \in S |-> Cardinality(Below(b))]
             s == Increasing(d, S)
  <1>1. IsFiniteSet(S) /\ n \in Nat
    BY FS_Subset, FS_CardinalityType, Zenon DEF Shape
  <1>2. ASSUME NEW b \in S
        PROVE  IsFiniteSet(Below(b)) /\ Cardinality(Below(b)) \in Nat /\ Cardinality(Below(b)) < n
    <2>1. Below(b) \in SUBSET S /\ Below(b) # S
      BY LessOrders
    <2>2. IsFiniteSet(Below(b)) /\ Cardinality(Below(b)) <= n /\ Cardinality(Below(b)) # n
      BY <1>1, <2>1, FS_Subset, ZenonT(30)
    <2>3. Cardinality(Below(b)) \in Nat
      BY <2>2, FS_CardinalityType, Zenon
    <2> QED
      BY <1>1, <2>2, <2>3
  <1>3. ASSUME NEW a \in S, NEW b \in S, Less(d, a, b)
        PROVE  rank[a] < rank[b]
    <2>1. Below(a) \in SUBSET Below(b) /\ a \in Below(b) /\ a \notin Below(a)
      BY <1>3, LessOrders
    <2> HIDE DEF Below
    <2>2. Cardinality(Below(a)) <= Cardinality(Below(b)) /\ Cardinality(Below(b)) # Cardinality(Below(a))
      BY <1>2, <2>1, FS_Subset, ZenonT(30)
    <2> QED
      BY <1>2, <2>2
  <1>4. rank \in [S -> 0 .. n - 1]
    BY <1>1, <1>2
  <1> HIDE DEF rank
  <1>5. rank \in Injection(S, 0 .. n - 1)
    <2>1. ASSUME NEW a \in S, NEW b \in S, rank[a] = rank[b] PROVE a = b
      <3>1. rank[a] \in Int /\ rank[b] \in Int
        BY <1>4
      <3>2. ~ Less(d, a, b) /\ ~ Less(d, b, a)
        BY <1>3, <2>1, <3>1, SMTT(30)
      <3> QED
        BY <3>2, LessOrders
    <2> QED
      BY <1>4, <2>1, ZenonT(30) DEF Injection, IsInjective
  <1>6. rank \in Surjection(S, 0 .. n - 1)
    <2>1. IsFiniteSet(0 .. n - 1) /\ Cardinality(0 .. n - 1) = n
      BY <1>1, FS_Interval, SMTT(30)
    <2> QED
      BY <1>5, <2>1, FS_Injection, ZenonT(30)
  <1>7. \A i \in 1 .. n : i - 1 \in 0 .. n - 1
    BY <1>1
  <1>8. \A i \in 1 .. n : s[i] \in S /\ rank[s[i]] = i - 1
    <2> SUFFICES ASSUME NEW i \in 1 .. n PROVE s[i] \in S /\ rank[s[i]] = i - 1
      OBVIOUS
    <2>1. PICK b \in S : rank[b] = i - 1
      BY <1>6, <1>7, ZenonT(30) DEF Surjection
    <2>2. Cardinality(Below(b)) = i - 1
      BY <2>1 DEF rank
    <2>3. s[i] = CHOOSE x \in S : Cardinality(Below(x)) = i - 1
      BY Zenon DEF Increasing
    <2>4. s[i] \in S /\ Cardinality(Below(s[i])) = i - 1
      BY <2>2, <2>3, ZenonT(30)
    <2> QED
      BY <2>4 DEF rank
  <1>9. s = [i \in 1 .. n |-> s[i]]
    <2> DEFINE e(i) == CHOOSE b \in S : Cardinality({a \in S : Less(d, a, b)}) = i - 1
    <2>1. s = [i \in 1 .. n |-> e(i)]
      BY Zenon DEF Increasing
    <2> HIDE DEF e, s
    <2> QED
      BY <2>1
  <1>10. s \in Seq(S) /\ Len(s) = n /\ DOMAIN s = 1 .. n
    BY <1>1, <1>8, <1>9, SMTT(30)
  <1>11. ToSet(s) = S
    <2>1. ASSUME NEW b \in S PROVE b \in ToSet(s)
      <3>1. rank[b] \in 0 .. n - 1
        BY <1>4
      <3>2. rank[b] + 1 \in 1 .. n
        BY <1>1, <3>1, SMTT(30)
      <3>3. rank[s[rank[b] + 1]] = rank[b] /\ s[rank[b] + 1] \in S
        BY <1>8, <3>1, <3>2, SMTT(30)
      <3>4. s[rank[b] + 1] = b
        BY <1>5, <3>3, ZenonT(30) DEF Injection, IsInjective
      <3> QED
        BY <1>10, <3>2, <3>4, SMTT(30) DEF ToSet
    <2> QED
      BY <1>8, <1>10, <2>1, SMTT(30) DEF ToSet
  <1>12. ASSUME NEW i \in 1 .. n, NEW j \in 1 .. n, i < j PROVE Less(d, s[i], s[j])
    <2>1. s[i] \in S /\ s[j] \in S /\ rank[s[i]] = i - 1 /\ rank[s[j]] = j - 1
      BY <1>8
    <2>2. s[i] # s[j] /\ ~ Less(d, s[j], s[i])
      BY <1>3, <1>12, <2>1, SMTT(30)
    <2> QED
      BY <2>1, <2>2, LessOrders, SMTT(30)
  <1> QED
    BY <1>1, <1>10, <1>11, <1>12, SMTT(30)

\* The parents of a header are known blocks.
LEMMA LegalParentsType ==
    ASSUME NEW d, Shape(d), NEW ps \in LegalParents(d)
    PROVE  ps \in SUBSET Known(d) /\ ps # {}
  <1>1. PICK n \in 1 .. MaxBlockParents : ps \in SUBSET Known(d) /\ Cardinality(ps) = n
    BY Zenon DEF LegalParents, kSubset
  <1>2. n \in Int /\ n >= 1
    OBVIOUS
  <1>3. n # 0
    BY <1>2
  <1> QED
    BY <1>1, <1>3, FS_EmptySet, ZenonT(30)

\* findSelectedParent: the parent with the most blue work.
LEMMA HeaviestParent ==
    ASSUME NEW d, Shape(d), NEW ps \in SUBSET Known(d), ps # {}
    PROVE  /\ ChooseSelectedParent(d, ps) \in ps
           /\ \A q \in ps \ {ChooseSelectedParent(d, ps)} : Less(d, q, ChooseSelectedParent(d, ps))
  <1> DEFINE s == Increasing(d, ps)
             n == Cardinality(ps)
  <1>1. /\ n \in Nat /\ s \in Seq(ps) /\ Len(s) = n /\ ToSet(s) = ps
        /\ \A i, j \in 1 .. n : i < j => Less(d, s[i], s[j])
    BY IncreasingSorts, ZenonT(30)
  <1> HIDE DEF s, n
  <1>2. PICK q \in ps : TRUE
    OBVIOUS
  <1>3. n >= 1 /\ DOMAIN s = 1 .. n
    BY <1>1, <1>2, SMTT(30) DEF ToSet
  <1>4. s[n] \in ps /\ \A p \in ps \ {s[n]} : Less(d, p, s[n])
    <2>1. n \in 1 .. n
      BY <1>1, <1>3, SMTT(30)
    <2>2. ASSUME NEW p \in ps \ {s[n]} PROVE Less(d, p, s[n])
      <3>1. PICK i \in 1 .. n : p = s[i]
        BY <1>1, <1>3, <2>2, ZenonT(30) DEF ToSet
      <3>2. i < n
        BY <1>1, <2>2, <3>1, SMTT(30)
      <3> QED
        BY <1>1, <2>1, <3>1, <3>2, SMTT(30)
    <2> QED
      BY <1>1, <2>1, <2>2, SMTT(30)
  <1> QED
    BY <1>4, ZenonT(30) DEF ChooseSelectedParent

\* The loop of GHOSTDAG over the merge set: each block is coloured from the data
\* that the ones before it left.
LEMMA ColourAllSteps ==
    ASSUME NEW d, NEW sp, NEW ms, Len(ms) \in Nat
    PROVE  \E f : /\ f[0] = Uncoloured(d, sp)
                  /\ \A i \in 1 .. Len(ms) : f[i] = Colour(d, f[i - 1], ms[i])
                  /\ ColourAll(d, sp, ms) = f[Len(ms)]
  <1> DEFINE n == Len(ms)
             U == Uncoloured(d, sp)
             C(g, i) == Colour(d, g, ms[i])
             IsLoop(f, k) == f = [i \in 0 .. k |-> IF i = 0 THEN U ELSE C(f[i - 1], i)]
             Good == {k \in 0 .. n : \E f : IsLoop(f, k)}
             coloured == CHOOSE f : IsLoop(f, n)
  <1>1. ColourAll(d, sp, ms) = coloured[n]
    BY Zenon DEF ColourAll
  <1> HIDE DEF U, C, n
  <1>2. 0 \in Good
    <2> DEFINE f == [i \in 0 .. 0 |-> U]
    <2>1. f = [i \in 0 .. 0 |-> U] /\ \A i \in 0 .. 0 : i = 0
      OBVIOUS
    <2> HIDE DEF f
    <2>2. \A i \in 0 .. 0 : (IF i = 0 THEN U ELSE C(f[i - 1], i)) = U
      BY <2>1, ZenonT(30)
    <2>3. IsLoop(f, 0)
      BY <2>1, <2>2, ZenonT(30)
    <2> QED
      BY <2>3, SMTT(30) DEF n
  <1>3. ASSUME NEW k \in 1 .. n, k - 1 \in Good PROVE k \in Good
    <2>1. PICK f : IsLoop(f, k - 1)
      BY <1>3
    <2> DEFINE g == [i \in 0 .. k |-> IF i = k THEN C(f[k - 1], k) ELSE f[i]]
    <2>2. k \in Nat /\ k # 0
      BY DEF n
    <2>3. ASSUME NEW i \in 0 .. k PROVE g[i] = IF i = 0 THEN U ELSE C(g[i - 1], i)
      <3>1. CASE i = k
        <4>1. g[k - 1] = f[k - 1]
          BY <2>2
        <4> QED
          BY <2>2, <3>1, <4>1
      <3>2. CASE i # k
        <4>1. i \in 0 .. k - 1 /\ g[i] = f[i]
          BY <2>2, <3>2
        <4>2. i # 0 => i - 1 \in 0 .. k - 1 /\ g[i - 1] = f[i - 1]
          BY <2>2, <3>2
        <4> QED
          BY <2>1, <4>1, <4>2, SMTT(30)
      <3> QED
        BY <3>1, <3>2, SMTT(30)
    <2>4. g = [i \in 0 .. k |-> g[i]]
      OBVIOUS
    <2> HIDE DEF g
    <2>5. IsLoop(g, k)
      BY <2>3, <2>4, ZenonT(30)
    <2> QED
      BY <2>5
  <1>4. n \in Good
    <2>1. n \in Nat
      BY DEF n
    <2>2. Good \in SUBSET (0 .. n)
      OBVIOUS
    <2> HIDE DEF Good
    <2>3. Good = 0 .. n
      BY <1>2, <1>3, <2>1, <2>2, UpTo, ZenonT(30)
    <2> QED
      BY <2>1, <2>3, SMTT(30)
  <1>5. IsLoop(coloured, n)
    BY <1>4, ZenonT(30)
  <1> HIDE DEF coloured
  <1>6. /\ coloured[0] = U
        /\ \A i \in 1 .. n : coloured[i] = C(coloured[i - 1], i)
    BY <1>5 DEF n
  <1> QED
    BY <1>1, <1>6, ZenonT(30) DEF U, C, n

-----------------------------------------------------------------------------
(* Colouring one block.                                                    *)

\* checkBlueCandidate: although the walk ends at the first chain block in the past of the
\* candidate, it meets all the blues in the candidate's anticone.
LEMMA WalkMeetsTheAnticone ==
    ASSUME NEW d, DagOK(d), NEW g, NEW sp \in Known(d), NEW c \in Known(d), g.selectedParent = sp,
           ToSet(g.mergeSetBlues) \subseteq Known(d), ~ IsAncestorOf(d, c, sp),
           \A y \in ToSet(g.mergeSetBlues) : ~ IsAncestorOf(d, c, y)
    PROVE  BluesInAnticone(d, g, c) = AnticoneIn(d, ToSet(g.mergeSetBlues) \cup BlueSet(d, sp), c)
  <1> DEFINE B == ToSet(g.mergeSetBlues) \cup BlueSet(d, sp)
             chain == {h \in SelectedChain(d, sp) : ~ IsAncestorOf(d, h, c)}
             blues == ToSet(g.mergeSetBlues) \cup UNION {ToSet(d.data[h].mergeSetBlues) : h \in chain}
  <1>1. BluesInAnticone(d, g, c) = {b \in blues : ~ IsAncestorOf(d, b, c)}
    BY ZenonT(30) DEF BluesInAnticone
  <1>2. d.chain[sp] \subseteq Known(d) /\ BlueSet(d, sp) \subseteq d.past[sp] /\ d.past[sp] \subseteq Known(d)
    BY DEF DagOK, Shape, Blue
  <1>3. ASSUME NEW y \in B PROVE ~ IsAncestorOf(d, c, y)
    <2>1. CASE y \in ToSet(g.mergeSetBlues)
      BY <2>1, SMTT(30)
    <2>2. CASE y \in BlueSet(d, sp)
      <3>1. y \in d.past[sp] /\ d.past[y] \subseteq d.past[sp]
        BY <1>2, <2>2, SMTT(30) DEF DagOK, Ordered
      <3> QED
        BY <3>1, SMTT(30) DEF IsAncestorOf
    <2> QED
      BY <2>1, <2>2, SMTT(30)
  <1>4. ASSUME NEW h \in d.chain[sp], NEW y \in ToSet(d.data[h].mergeSetBlues), ~ IsAncestorOf(d, y, c)
        PROVE  h \in chain
    <2>1. h \in Known(d) /\ y \in d.past[h]
      <3>1. h \in Known(d)
        BY <1>2, SMTT(30)
      <3>2. y \in Merged(d, h)
        BY <3>1, SMTT(30) DEF DagOK, Merging
      <3> QED
        BY <3>1, <3>2, SMTT(30) DEF Merged
    <2>2. ASSUME IsAncestorOf(d, h, c) PROVE FALSE
      <3>1. h = c \/ d.past[h] \subseteq d.past[c]
        BY <2>2, SMTT(30) DEF IsAncestorOf, DagOK, Ordered
      <3> QED
        BY <1>4, <2>1, <3>1, SMTT(30) DEF IsAncestorOf
    <2> QED
      BY <2>2 DEF SelectedChain
  <1>5. ASSUME NEW y \in B, ~ IsAncestorOf(d, y, c) PROVE y \in blues
    <2>1. CASE y \in ToSet(g.mergeSetBlues)
      BY <2>1, SMTT(30)
    <2>2. CASE y \in BlueSet(d, sp)
      <3>1. PICK h \in d.chain[sp] : y \in ToSet(d.data[h].mergeSetBlues)
        BY <2>2, SMTT(30) DEF BlueSet, SelectedChain
      <3>2. h \in chain
        BY <1>4, <1>5, <3>1, SMTT(30)
      <3> QED
        BY <3>1, <3>2, SMTT(30)
    <2> QED
      BY <2>1, <2>2, SMTT(30)
  <1>6. blues \subseteq B
    BY DEF BlueSet
  <1> HIDE DEF B, blues
  <1>7. BluesInAnticone(d, g, c) = AnticoneIn(d, B, c)
    BY <1>1, <1>3, <1>5, <1>6, SMTT(30) DEF AnticoneIn, InAnticone
  <1> QED
    BY <1>7 DEF B

\* blueAnticoneSize goes down the chain: what new data has no entry for is what its
\* selected parent knows.
LEMMA SizeFromSelectedParent ==
    ASSUME NEW d, DagOK(d), NEW g, NEW sp \in Known(d) \ {Genesis}, g.selectedParent = sp,
           NEW x, x \notin DOMAIN g.bluesAnticoneSizes
    PROVE  BlueAnticoneSize(d, g, x) = BlueAnticoneSize(d, d.data[sp], x)
  <1> DEFINE sizes(c) == d.data[c].bluesAnticoneSizes
             spp == SelectedParent(d, sp)
             Holders(s) == {c \in d.chain[s] : x \in DOMAIN sizes(c)}
             nearest(S) == CHOOSE c \in S : S \subseteq d.chain[c]
             Lookup(h) == IF x \in DOMAIN h.bluesAnticoneSizes THEN h.bluesAnticoneSizes[x]
                          ELSE IF Holders(h.selectedParent) = {} THEN NoSize
                          ELSE sizes(nearest(Holders(h.selectedParent)))[x]
             H == Holders(sp)
             HH == Holders(spp)
  <1>0. \A h : BlueAnticoneSize(d, h, x) = Lookup(h)
    BY ZenonT(30) DEF BlueAnticoneSize, SelectedChain
  <1>1. BlueAnticoneSize(d, g, x) = IF H = {} THEN NoSize ELSE sizes(nearest(H))[x]
    <2> HIDE DEF nearest, Holders
    <2> QED
      BY <1>0, ZenonT(30)
  <1>2. BlueAnticoneSize(d, d.data[sp], x) = IF x \in DOMAIN sizes(sp) THEN sizes(sp)[x]
                                            ELSE IF HH = {} THEN NoSize ELSE sizes(nearest(HH))[x]
    <2> HIDE DEF nearest, Holders
    <2> QED
      BY <1>0, ZenonT(30) DEF SelectedParent
  <1>3. d.chain[sp] = {sp} \cup d.chain[spp]
    BY DEF DagOK, Chained
  <1>4. CASE x \in DOMAIN sizes(sp)
    <2>1. sp \in H /\ H \subseteq d.chain[sp]
      BY <1>3, <1>4, SMTT(30)
    <2>2. ASSUME NEW c \in H, H \subseteq d.chain[c] PROVE c = sp
      <3>1. c \in Known(d) /\ c \in d.chain[sp] /\ sp \in d.chain[c]
        BY <2>1, <2>2, SMTT(30) DEF DagOK, Shape
      <3>2. c = sp \/ (c \in d.past[sp] /\ sp \in d.past[c])
        BY <3>1, SMTT(30) DEF DagOK, Chained
      <3>3. d.data[c].blueWork \in Nat /\ d.data[sp].blueWork \in Nat
        BY <3>1, ZenonT(30) DEF DagOK, Shape, Data
      <3>4. c \in d.past[sp] => d.data[c].blueWork < d.data[sp].blueWork
        BY DEF DagOK, Ordered
      <3>5. sp \in d.past[c] => d.data[sp].blueWork < d.data[c].blueWork
        BY <3>1 DEF DagOK, Ordered
      <3> QED
        BY <3>2, <3>3, <3>4, <3>5, SMTT(30)
    <2>3. nearest(H) = sp
      <3> HIDE DEF H
      <3> QED
        BY <2>1, <2>2, ZenonT(30)
    <2> QED
      BY <1>1, <1>2, <1>4, <2>1, <2>3, ZenonT(30)
  <1>5. CASE x \notin DOMAIN sizes(sp)
    <2>1. H = HH
      BY <1>3, <1>5, SMTT(30)
    <2> QED
      BY <1>1, <1>2, <1>5, <2>1, ZenonT(30)
  <1> QED
    BY <1>4, <1>5, SMTT(30)

\* The data of a new block after the blocks of done have been coloured.
LoopOK(d, sp, done, g) ==
    /\ g \in Data /\ g.selectedParent = sp
    /\ d.data[sp].blueWork < g.blueWork
    /\ sp \in ToSet(g.mergeSetBlues)
    /\ ToSet(g.mergeSetBlues) \cup ToSet(g.mergeSetReds) = {sp} \cup done
    /\ Clustered(d, g, ToSet(g.mergeSetBlues) \cup BlueSet(d, sp))

\* Appending adds one element to the set of a sequence.
LEMMA AppendToSet ==
    ASSUME NEW s \in Seq(Blocks), NEW b \in Blocks
    PROVE  Append(s, b) \in Seq(Blocks) /\ ToSet(Append(s, b)) = ToSet(s) \cup {b}
  <1>1. /\ Append(s, b) \in Seq(Blocks) /\ DOMAIN Append(s, b) = 1 .. Len(s) + 1
        /\ DOMAIN s = 1 .. Len(s) /\ Len(s) \in Nat
        /\ Append(s, b)[Len(s) + 1] = b /\ \A i \in 1 .. Len(s) : Append(s, b)[i] = s[i]
    OBVIOUS
  <1>2. \A i \in 1 .. Len(s) + 1 : i \in 1 .. Len(s) \/ i = Len(s) + 1
    BY <1>1, SMTT(30)
  <1>3. Len(s) + 1 \in 1 .. Len(s) + 1 /\ \A i \in 1 .. Len(s) : i \in 1 .. Len(s) + 1
    BY <1>1, SMTT(30)
  <1> QED
    BY <1>1, <1>2, <1>3, ZenonT(30) DEF ToSet

\* A block is not its own ancestor.
LEMMA NotOwnAncestor ==
    ASSUME NEW d, DagOK(d), NEW b \in Known(d)
    PROVE  b \notin d.past[b]
  BY SMTT(30) DEF DagOK, Shape, Ordered, Data

\* Before the loop the selected parent is the only blue beside those it knows.
LEMMA UncolouredOK ==
    ASSUME NEW d, DagOK(d), NEW sp \in Known(d)
    PROVE  LoopOK(d, sp, {}, Uncoloured(d, sp))
  <1> DEFINE g == Uncoloured(d, sp)
             B == {sp} \cup BlueSet(d, sp)
  <1>1. /\ sp \in Blocks /\ d.data[sp].blueScore \in Nat /\ d.data[sp].blueWork \in Nat
        /\ Work[sp] \in Nat /\ Work[sp] > 0
    BY WorkAssumption, SMTT(30) DEF DagOK, Shape, Data
  <1>2. g = [selectedParent |-> sp, mergeSetBlues |-> <<sp>>, mergeSetReds |-> << >>,
             bluesAnticoneSizes |-> [b \in {sp} |-> 0],
             blueScore |-> d.data[sp].blueScore + 1, blueWork |-> d.data[sp].blueWork + Work[sp]]
    <2> DEFINE score == d.data[sp].blueScore
               work == d.data[sp].blueWork
               sizes == [b \in {sp} |-> 0]
               w == Work[sp]
    <2>1. Append(<< >>, sp) = <<sp>>
      OBVIOUS
    <2>2. g = WithBlue([selectedParent |-> sp, mergeSetBlues |-> << >>, mergeSetReds |-> << >>,
                        bluesAnticoneSizes |-> sizes, blueScore |-> score, blueWork |-> work], sp)
      BY ZenonT(30) DEF Uncoloured
    <2> HIDE DEF score, work, sizes
    <2>3. g = [selectedParent |-> sp, mergeSetBlues |-> Append(<< >>, sp), mergeSetReds |-> << >>,
               bluesAnticoneSizes |-> sizes, blueScore |-> score + 1, blueWork |-> work + Work[sp]]
      BY <2>2, ZenonT(30) DEF WithBlue
    <2> QED
      BY <2>1, <2>3, Zenon DEF score, work, sizes
  <1> HIDE DEF g
  <1>3. [b \in {sp} |-> 0] \in Sizes
    <2>1. [b \in {sp} |-> 0] \in [{sp} -> Int] /\ {sp} \in SUBSET Blocks
      BY <1>1, SMTT(30)
    <2> QED
      BY <2>1, Zenon DEF Sizes
  <1>4. g \in Data
    BY <1>1, <1>2, <1>3, SMTT(30) DEF Data
  <1>5. ToSet(g.mergeSetBlues) = {sp} /\ ToSet(g.mergeSetReds) = {}
    BY <1>2, SMTT(30) DEF ToSet
  <1>6. BlueSet(d, sp) \subseteq d.past[sp] /\ sp \notin d.past[sp]
    BY NotOwnAncestor, SMTT(30) DEF DagOK, Blue
  <1>7. Clustered(d, g, B)
    <2>1. ASSUME NEW y \in B PROVE ~ InAnticone(d, y, sp) /\ ~ InAnticone(d, sp, y)
      BY <1>6, SMTT(30) DEF InAnticone, IsAncestorOf
    <2>2. AnticoneIn(d, B, sp) = {}
      BY <2>1, ZenonT(30) DEF AnticoneIn
    <2>3. BlueAnticoneSize(d, g, sp) = 0
      BY <1>2, SMTT(30) DEF BlueAnticoneSize
    <2>4. ASSUME NEW x \in BlueSet(d, sp)
          PROVE  /\ Cardinality(AnticoneIn(d, B, x)) <= K
                 /\ BlueAnticoneSize(d, g, x) = Cardinality(AnticoneIn(d, B, x))
      <3>1. AnticoneIn(d, B, x) = AnticoneIn(d, BlueSet(d, sp), x)
        BY <2>1, ZenonT(30) DEF AnticoneIn
      <3>2. sp # Genesis
        <4>1. d.data[Genesis].mergeSetBlues = << >>
          BY SMTT(30) DEF DagOK, Merging, GenesisData
        <4>2. BlueSet(d, Genesis) = {}
          BY <4>1, SMTT(30) DEF BlueSet, DagOK, Chained, SelectedChain, ToSet
        <4> QED
          BY <4>2, SMTT(30)
      <3>3. x \notin DOMAIN g.bluesAnticoneSizes
        BY <1>2, <1>6, SMTT(30)
      <3>4. BlueAnticoneSize(d, g, x) = BlueAnticoneSize(d, d.data[sp], x)
        BY <1>2, <3>2, <3>3, SizeFromSelectedParent, SMTT(30)
      <3>5. /\ Cardinality(AnticoneIn(d, BlueSet(d, sp), x)) <= K
            /\ BlueAnticoneSize(d, d.data[sp], x) = Cardinality(AnticoneIn(d, BlueSet(d, sp), x))
        BY <3>2, ZenonT(30) DEF DagOK, Blue, Clustered
      <3> QED
        BY <3>1, <3>4, <3>5, SMTT(30)
    <2>5. Cardinality(AnticoneIn(d, B, sp)) = 0 /\ 0 <= K
      BY <2>2, FS_EmptySet, KAssumption, SMTT(30)
    <2> QED
      BY <2>3, <2>4, <2>5, ZenonT(30) DEF Clustered
  <1>8. d.data[sp].blueWork < g.blueWork
    BY <1>1, <1>2, SMTT(30)
  <1> QED
    <2>1. g.selectedParent = sp
      BY <1>2, SMTT(30)
    <2> QED
      BY <2>1, <1>4, <1>5, <1>7, <1>8, Zenon DEF LoopOK, g

\* Two views with the same chain that agree on the entry of x find the same size.
LEMMA SameSize ==
    ASSUME NEW d, NEW g, NEW h, NEW x, g.selectedParent = h.selectedParent,
           x \in DOMAIN g.bluesAnticoneSizes <=> x \in DOMAIN h.bluesAnticoneSizes,
           x \in DOMAIN g.bluesAnticoneSizes => g.bluesAnticoneSizes[x] = h.bluesAnticoneSizes[x]
    PROVE  BlueAnticoneSize(d, g, x) = BlueAnticoneSize(d, h, x)
  <1> DEFINE Holders(s) == {c \in SelectedChain(d, s) : x \in DOMAIN d.data[c].bluesAnticoneSizes}
             nearest(S) == CHOOSE c \in S : S \subseteq SelectedChain(d, c)
             Found(s) == IF Holders(s) = {} THEN NoSize ELSE d.data[nearest(Holders(s))].bluesAnticoneSizes[x]
  <1>1. \A f : BlueAnticoneSize(d, f, x) = IF x \in DOMAIN f.bluesAnticoneSizes THEN f.bluesAnticoneSizes[x]
                                          ELSE Found(f.selectedParent)
    BY ZenonT(30) DEF BlueAnticoneSize
  <1> HIDE DEF Found
  <1> QED
    BY <1>1, ZenonT(30)

\* A block that is red stays out of the blues and of their sizes.
LEMMA ColourRedOK ==
    ASSUME NEW d, DagOK(d), NEW sp \in Known(d), NEW done \in SUBSET Known(d), NEW g, NEW c \in Known(d),
           LoopOK(d, sp, done, g), ~ CheckBlueCandidate(d, g, c)
    PROVE  LoopOK(d, sp, done \cup {c}, Colour(d, g, c))
  <1> DEFINE h == Colour(d, g, c)
             B == ToSet(g.mergeSetBlues) \cup BlueSet(d, sp)
  <1>1. g \in Data /\ g.selectedParent = sp /\ c \in Blocks
    BY ZenonT(30) DEF LoopOK, DagOK, Shape
  <1>2. h = [g EXCEPT !.mergeSetReds = Append(@, c)]
    BY ZenonT(30) DEF Colour
  <1>3. g.mergeSetReds \in Seq(Blocks)
    BY <1>1 DEF Data
  <1>4. /\ Append(g.mergeSetReds, c) \in Seq(Blocks)
        /\ ToSet(Append(g.mergeSetReds, c)) = ToSet(g.mergeSetReds) \cup {c}
    BY <1>1, <1>3, AppendToSet, ZenonT(30)
  <1> HIDE DEF h
  <1>5. /\ h.selectedParent = sp /\ h.mergeSetBlues = g.mergeSetBlues
        /\ h.mergeSetReds = Append(g.mergeSetReds, c)
        /\ h.bluesAnticoneSizes = g.bluesAnticoneSizes /\ h.blueWork = g.blueWork
    BY <1>1, <1>2, SMTT(30) DEF Data
  <1>6. h \in Data
    BY <1>1, <1>2, <1>4, Zenon DEF Data
  <1>7. \A x : BlueAnticoneSize(d, h, x) = BlueAnticoneSize(d, g, x)
    <2>1. h.selectedParent = g.selectedParent /\ h.bluesAnticoneSizes = g.bluesAnticoneSizes
      BY <1>1, <1>5
    <2> QED
      BY <2>1, SameSize
  <1>8. Clustered(d, h, B)
    BY <1>7, ZenonT(30) DEF Clustered, LoopOK
  <1>9. ToSet(h.mergeSetBlues) \cup ToSet(h.mergeSetReds) = {sp} \cup (done \cup {c})
    BY <1>4, <1>5, ZenonT(30) DEF LoopOK
  <1> QED
    BY <1>5, <1>6, <1>8, <1>9, ZenonT(30) DEF LoopOK, h

\* The fields of the data with a new blue block.
LEMMA ColourBlueFields ==
    ASSUME NEW d, NEW g \in Data, NEW c, CheckBlueCandidate(d, g, c)
    PROVE  /\ Colour(d, g, c).selectedParent = g.selectedParent
           /\ Colour(d, g, c).mergeSetBlues = Append(g.mergeSetBlues, c)
           /\ Colour(d, g, c).mergeSetReds = g.mergeSetReds
           /\ Colour(d, g, c).bluesAnticoneSizes = RaisedSizes(d, g, c)
           /\ Colour(d, g, c).blueWork = g.blueWork + Work[c]
           /\ RaisedSizes(d, g, c) \in Sizes /\ Append(g.mergeSetBlues, c) \in Seq(Blocks)
                /\ Work[c] \in Nat => Colour(d, g, c) \in Data
  <1> DEFINE sizes == RaisedSizes(d, g, c)
             blues == Append(g.mergeSetBlues, c)
             h == WithBlue(g, c)
  <1>1. Colour(d, g, c) = [h EXCEPT !.bluesAnticoneSizes = sizes]
    BY ZenonT(30) DEF Colour
  <1>2. h = [g EXCEPT !.mergeSetBlues = blues, !.blueScore = g.blueScore + 1, !.blueWork = g.blueWork + Work[c]]
    BY DEF WithBlue, Data
  <1> HIDE DEF sizes, blues, h
  <1>3. [h EXCEPT !.bluesAnticoneSizes = sizes] =
          [g EXCEPT !.mergeSetBlues = blues, !.blueScore = g.blueScore + 1,
                    !.blueWork = g.blueWork + Work[c], !.bluesAnticoneSizes = sizes]
    BY <1>2, SMTT(30) DEF Data
  <1> DEFINE f == [g EXCEPT !.mergeSetBlues = blues, !.blueScore = g.blueScore + 1,
                            !.blueWork = g.blueWork + Work[c], !.bluesAnticoneSizes = sizes]
  <1>4. /\ f.selectedParent = g.selectedParent /\ f.mergeSetBlues = blues /\ f.mergeSetReds = g.mergeSetReds
        /\ f.bluesAnticoneSizes = sizes /\ f.blueWork = g.blueWork + Work[c]
    BY SMTT(30) DEF Data
  <1>5. sizes \in Sizes /\ blues \in Seq(Blocks) /\ Work[c] \in Nat => f \in Data
    <2> SUFFICES ASSUME sizes \in Sizes, blues \in Seq(Blocks), Work[c] \in Nat PROVE f \in Data
      OBVIOUS
    <2> DEFINE score == g.blueScore + 1
               work == g.blueWork + Work[c]
    <2>1. score \in Nat /\ work \in Nat
      BY SMTT(30) DEF Data
    <2> HIDE DEF score, work
    <2>2. f = [g EXCEPT !.mergeSetBlues = blues, !.blueScore = score,
                        !.blueWork = work, !.bluesAnticoneSizes = sizes]
      BY Zenon DEF score, work
    <2> HIDE DEF f
    <2>3. f = [selectedParent |-> g.selectedParent, mergeSetBlues |-> blues, mergeSetReds |-> g.mergeSetReds,
               bluesAnticoneSizes |-> sizes, blueScore |-> score, blueWork |-> work]
      BY <2>2, Zenon DEF Data
    <2>4. g.selectedParent \in Blocks \cup {NoBlock} /\ g.mergeSetReds \in Seq(Blocks)
      BY DEF Data
    <2> QED
      BY <2>1, <2>3, <2>4, SMTT(30) DEF Data
  <1> HIDE DEF f
  <1>6. Colour(d, g, c) = f
    BY <1>1, <1>3, Zenon DEF f
  <1> QED
    BY <1>4, <1>5, <1>6, ZenonT(30) DEF sizes, blues

\* A blue block joins the cluster: checkBlueCandidate has seen the whole anticone,
\* and the sizes that change are the ones that are raised.
LEMMA ColourBlueOK ==
    ASSUME NEW d, DagOK(d), NEW sp \in Known(d), NEW done \in SUBSET Known(d), NEW g,
           NEW c \in Known(d), c \notin done \cup {sp}, ~ IsAncestorOf(d, c, sp),
           \A y \in done : ~ IsAncestorOf(d, c, y),
           LoopOK(d, sp, done, g), CheckBlueCandidate(d, g, c)
    PROVE  LoopOK(d, sp, done \cup {c}, Colour(d, g, c))
  <1> DEFINE h == Colour(d, g, c)
             B == ToSet(g.mergeSetBlues) \cup BlueSet(d, sp)
             B2 == B \cup {c}
             A == BluesInAnticone(d, g, c)
             sizes == RaisedSizes(d, g, c)
             In(S, x) == AnticoneIn(d, S, x)
             n(x) == Cardinality(In(B, x))
             size(f, x) == BlueAnticoneSize(d, f, x)
  <1>1. g \in Data /\ g.selectedParent = sp /\ c \in Blocks /\ Known(d) \subseteq Blocks
    BY ZenonT(30) DEF LoopOK, DagOK, Shape
  <1>2. /\ ToSet(g.mergeSetBlues) \subseteq {sp} \cup done
        /\ BlueSet(d, sp) \subseteq d.past[sp] /\ d.past[sp] \subseteq Known(d)
    BY DEF LoopOK, DagOK, Shape, Blue
  <1>3. B \subseteq Known(d) /\ c \notin B /\ IsFiniteSet(B)
    <2>1. B \subseteq Known(d) /\ c \notin B
      BY <1>2, ZenonT(30) DEF IsAncestorOf
    <2> QED
      BY <2>1, FS_Subset, ZenonT(30) DEF DagOK, Shape
  <1>4. A = In(B, c)
    <2>1. /\ ToSet(g.mergeSetBlues) \subseteq Known(d)
          /\ \A y \in ToSet(g.mergeSetBlues) : ~ IsAncestorOf(d, c, y)
      BY <1>2, ZenonT(30)
    <2> QED
      BY <1>1, <2>1, WalkMeetsTheAnticone, SMTT(30)
  <1>5. \A x \in B : n(x) <= K /\ size(g, x) = n(x)
    BY Zenon DEF LoopOK, Clustered
  <1>6. \A x : IsFiniteSet(In(B, x)) /\ n(x) \in Nat
    <2>1. \A x : In(B, x) \subseteq B
      BY Zenon DEF AnticoneIn
    <2> QED
      BY <2>1, <1>3, FS_Subset, FS_CardinalityType, ZenonT(30)
  <1>7. /\ Cardinality(A) <= K /\ \A x \in A : size(g, x) # K
        /\ A \subseteq B
    BY <1>4, Zenon DEF CheckBlueCandidate, AnticoneIn
  <1>8. sizes = [x \in DOMAIN g.bluesAnticoneSizes \cup A \cup {c} |->
                    IF x \in A THEN size(g, x) + 1
                    ELSE IF x = c THEN Cardinality(A) ELSE g.bluesAnticoneSizes[x]]
    BY ZenonT(30) DEF RaisedSizes
  <1>9. Cardinality(A) \in Nat /\ \A x \in A : size(g, x) + 1 \in Int
    BY <1>4, <1>5, <1>6, <1>7, SMTT(30)
  <1>10. PICK D \in SUBSET Blocks : g.bluesAnticoneSizes \in [D -> Int]
    BY <1>1 DEF Data, Sizes
  <1> HIDE DEF A, sizes, size, B, n, h
  <1>11. sizes \in Sizes
    <2> DEFINE E == D \cup A \cup {c}
    <2>1. DOMAIN g.bluesAnticoneSizes = D /\ \A x \in D : g.bluesAnticoneSizes[x] \in Int
      BY <1>10, SMTT(30)
    <2>2. E \in SUBSET Blocks
      BY <1>1, <1>3, <1>7, SMTT(30)
    <2>3. sizes \in [E -> Int]
      BY <1>8, <1>9, <2>1, SMTT(30)
    <2> QED
      BY <2>2, <2>3, ZenonT(30) DEF Sizes
  <1>12. g.mergeSetBlues \in Seq(Blocks) /\ g.blueWork \in Nat /\ d.data[sp].blueWork \in Nat
    BY <1>1 DEF Data, DagOK, Shape
  <1>13. /\ Append(g.mergeSetBlues, c) \in Seq(Blocks)
         /\ ToSet(Append(g.mergeSetBlues, c)) = ToSet(g.mergeSetBlues) \cup {c}
    BY <1>1, <1>12, AppendToSet, ZenonT(30)
  <1>14. Work[c] \in Nat
    BY <1>1, WorkAssumption
  <1>15. /\ h \in Data /\ h.selectedParent = sp /\ h.mergeSetBlues = Append(g.mergeSetBlues, c)
         /\ h.mergeSetReds = g.mergeSetReds /\ h.bluesAnticoneSizes = sizes
         /\ h.blueWork = g.blueWork + Work[c]
    <2>1. h \in Data
      BY <1>1, <1>11, <1>13, <1>14, ColourBlueFields, ZenonT(30) DEF h, sizes
    <2>2. /\ Colour(d, g, c).selectedParent = g.selectedParent
          /\ Colour(d, g, c).mergeSetBlues = Append(g.mergeSetBlues, c)
          /\ Colour(d, g, c).mergeSetReds = g.mergeSetReds
          /\ Colour(d, g, c).bluesAnticoneSizes = RaisedSizes(d, g, c)
          /\ Colour(d, g, c).blueWork = g.blueWork + Work[c]
      BY <1>1, ColourBlueFields, SMTT(30)
    <2> QED
      BY <1>1, <2>1, <2>2, ZenonT(30) DEF h, sizes
  <1>16. d.data[sp].blueWork < h.blueWork
    <2>1. d.data[sp].blueWork < g.blueWork
      BY ZenonT(30) DEF LoopOK
    <2> QED
      BY <2>1, <1>12, <1>14, <1>15, SMTT(30)
  <1>17. ToSet(h.mergeSetBlues) \cup BlueSet(d, sp) = B2
    BY <1>13, <1>15, ZenonT(30) DEF B
  <1>18. ASSUME NEW x \in B2
         PROVE  Cardinality(In(B2, x)) <= K /\ size(h, x) = Cardinality(In(B2, x))
    <2>1. CASE x = c
      <3>1. In(B2, c) = A
        BY <1>4, ZenonT(30) DEF AnticoneIn, InAnticone, IsAncestorOf
      <3>2. c \notin A
        BY <1>3, <1>7, SMTT(30)
      <3>3. c \in DOMAIN h.bluesAnticoneSizes /\ h.bluesAnticoneSizes[c] = Cardinality(A)
        BY <1>8, <1>15, <3>2, SMTT(30)
      <3>4. size(h, c) = Cardinality(A)
        BY <3>3, Zenon DEF BlueAnticoneSize, size
      <3> QED
        BY <1>7, <2>1, <3>1, <3>4, ZenonT(30)
    <2>2. CASE x \in A
      <3>1. x \in B /\ In(B2, x) = In(B, x) \cup {c} /\ c \notin In(B, x)
        BY <1>3, <1>4, <1>7, <2>2, ZenonT(30) DEF AnticoneIn, InAnticone
      <3>2. Cardinality(In(B2, x)) = n(x) + 1
        BY <1>6, <3>1, FS_AddElement, ZenonT(30) DEF n
      <3>3. n(x) + 1 <= K
        BY <1>5, <1>6, <1>7, <2>2, <3>1, KAssumption
      <3>4. x \in DOMAIN h.bluesAnticoneSizes /\ h.bluesAnticoneSizes[x] = size(g, x) + 1
        BY <1>8, <1>15, <2>2, SMTT(30)
      <3>5. size(h, x) = size(g, x) + 1
        BY <3>4, ZenonT(30) DEF BlueAnticoneSize, size
      <3>6. size(g, x) = n(x)
        BY <1>5, <3>1, SMTT(30)
      <3> QED
        BY <3>2, <3>3, <3>5, <3>6, SMTT(30)
    <2>3. CASE x \in B \ A
      <3>1. x # c
        BY <1>3, <2>3, SMTT(30)
      <3>2. In(B2, x) = In(B, x)
        BY <1>4, <2>3, ZenonT(30) DEF AnticoneIn, InAnticone
      <3>3. /\ x \in DOMAIN h.bluesAnticoneSizes <=> x \in DOMAIN g.bluesAnticoneSizes
            /\ x \in DOMAIN h.bluesAnticoneSizes => h.bluesAnticoneSizes[x] = g.bluesAnticoneSizes[x]
        BY <1>8, <1>15, <2>3, <3>1, SMTT(30)
      <3>4. size(h, x) = size(g, x)
        <4>1. h.selectedParent = g.selectedParent
          BY <1>1, <1>15, SMTT(30)
        <4> QED
          BY <3>3, <4>1, SameSize, SMTT(30) DEF size
      <3> QED
        BY <1>5, <2>3, <3>2, <3>4, ZenonT(30) DEF n
    <2> QED
      BY <2>1, <2>2, <2>3, SMTT(30)
  <1>19. Clustered(d, h, B2)
    BY <1>18, ZenonT(30) DEF Clustered, size
  <1>20. ToSet(h.mergeSetBlues) \cup ToSet(h.mergeSetReds) = {sp} \cup (done \cup {c})
    <2>1. ToSet(g.mergeSetBlues) \cup ToSet(g.mergeSetReds) = {sp} \cup done
      BY Zenon DEF LoopOK
    <2> QED
      BY <1>13, <1>15, <2>1, ZenonT(30)
  <1>21. sp \in ToSet(h.mergeSetBlues)
    BY <1>13, <1>15, ZenonT(30) DEF LoopOK
  <1> QED
    BY <1>15, <1>16, <1>17, <1>19, <1>20, <1>21, ZenonT(30) DEF LoopOK, h

-----------------------------------------------------------------------------
(* GHOSTDAG of a new block.                                                *)

\* The blocks that a block with parents ps merges beside its selected parent.
MergedBeside(d, ps) == {b \in PastOf(d, ps) : ~ IsAncestorOf(d, b, ChooseSelectedParent(d, ps))}

\* The past of a set of known blocks is known.
LEMMA PastOfKnown ==
    ASSUME NEW d, Shape(d), NEW ps \in SUBSET Known(d)
    PROVE  PastOf(d, ps) \subseteq Known(d)
  BY DEF Shape, PastOf

\* The data computed for a block with parents ps: every block it merges has a
\* colour, the blues are a K-cluster and their sizes are known.
LEMMA GHOSTDAGOK ==
    ASSUME NEW d, DagOK(d), NEW ps \in SUBSET Known(d), ps # {}
    PROVE  /\ ChooseSelectedParent(d, ps) \in ps
           /\ LoopOK(d, ChooseSelectedParent(d, ps), MergedBeside(d, ps), GHOSTDAG(d, ps))
  <1> DEFINE sp == ChooseSelectedParent(d, ps)
             M == MergedBeside(d, ps)
             ms == Increasing(d, M)
             n == Cardinality(M)
             Done(i) == {ms[j] : j \in 1 .. i}
  <1>1. Shape(d) /\ Ordered(d)
    BY Zenon DEF DagOK
  <1>2. sp \in ps /\ sp \in Known(d)
    BY <1>1, HeaviestParent
  <1>3. M \in SUBSET Known(d) /\ \A c \in M : ~ IsAncestorOf(d, c, sp)
    BY <1>1, PastOfKnown, ZenonT(30) DEF MergedBeside
  <1> HIDE DEF sp, M
  <1>4. /\ n \in Nat /\ ms \in Seq(M) /\ Len(ms) = n /\ ToSet(ms) = M
        /\ \A i, j \in 1 .. n : i < j => Less(d, ms[i], ms[j])
    BY <1>1, <1>3, IncreasingSorts, ZenonT(30)
  <1>5. DOMAIN ms = 1 .. n /\ \A i \in 1 .. n : ms[i] \in M
    BY <1>4, SMTT(30)
  <1>6. GHOSTDAG(d, ps) = ColourAll(d, sp, ms)
    BY ZenonT(30) DEF GHOSTDAG, MergeSetWithoutSelectedParent, MergedBeside, sp, M
  <1> HIDE DEF ms, n
  <1>7. PICK f : /\ f[0] = Uncoloured(d, sp)
                 /\ \A i \in 1 .. n : f[i] = Colour(d, f[i - 1], ms[i])
                 /\ ColourAll(d, sp, ms) = f[n]
    BY <1>4, ColourAllSteps, SMTT(30)
  <1> DEFINE Good == {i \in 0 .. n : LoopOK(d, sp, Done(i), f[i])}
  <1>8. 0 \in Good
    <2>1. Done(0) = {} /\ 0 \in 0 .. n
      BY <1>4
    <2> QED
      BY <1>2, <1>7, <2>1, UncolouredOK, ZenonT(30)
  <1>9. ASSUME NEW i \in 1 .. n, i - 1 \in Good PROVE i \in Good
    <2> DEFINE c == ms[i]
               old == Done(i - 1)
    <2>1. c \in M /\ c \in Known(d) /\ i \in 0 .. n /\ i - 1 \in 0 .. n
      BY <1>3, <1>4, <1>5, SMTT(30)
    <2>2. \A j \in 1 .. i - 1 : j \in 1 .. n /\ j < i
      BY <1>4, SMTT(30)
    <2>3. \A y \in old : y \in Known(d) /\ Less(d, y, c)
      BY <1>3, <1>4, <1>5, <2>2, ZenonT(30)
    <2>4. Done(i) = old \cup {c}
      <3>1. \A j \in 1 .. i : j \in 1 .. i - 1 \/ j = i
        OBVIOUS
      <3>2. i \in 1 .. i /\ \A j \in 1 .. i - 1 : j \in 1 .. i
        OBVIOUS
      <3> QED
        BY <3>1, <3>2, ZenonT(30)
    <2>5. LoopOK(d, sp, old, f[i - 1]) /\ f[i] = Colour(d, f[i - 1], c)
      BY <1>7, <1>9, ZenonT(30)
    <2> HIDE DEF c, old
    <2>6. c \notin old \cup {sp} /\ ~ IsAncestorOf(d, c, sp)
      <3>1. c \notin old
        BY <1>1, <2>1, <2>3, LessOrders, ZenonT(30)
      <3> QED
        BY <1>3, <2>1, <3>1, ZenonT(30) DEF IsAncestorOf
    <2>7. ASSUME NEW y \in old, IsAncestorOf(d, c, y) PROVE FALSE
      <3>1. y \in Known(d) /\ Less(d, y, c) /\ c # y
        BY <2>3, <2>6, SMTT(30)
      <3>2. c \in d.past[y]
        BY <2>7, <3>1, ZenonT(30) DEF IsAncestorOf
      <3>3. Less(d, c, y)
        BY <1>1, <3>1, <3>2, ZenonT(30) DEF Ordered, Less
      <3> QED
        BY <1>1, <2>1, <3>1, <3>3, LessOrders, ZenonT(30)
    <2>8. old \in SUBSET Known(d)
      BY <2>3, ZenonT(30)
    <2>9. LoopOK(d, sp, old \cup {c}, Colour(d, f[i - 1], c))
      <3>1. CASE CheckBlueCandidate(d, f[i - 1], c)
        BY <1>2, <2>1, <2>5, <2>6, <2>7, <2>8, <3>1, ColourBlueOK, SMTT(30)
      <3>2. CASE ~ CheckBlueCandidate(d, f[i - 1], c)
        BY <1>2, <2>1, <2>5, <2>8, <3>2, ColourRedOK, SMTT(30)
      <3> QED
        BY <3>1, <3>2, SMTT(30)
    <2> QED
      BY <2>1, <2>4, <2>5, <2>9, ZenonT(30)
  <1>10. Good \in SUBSET (0 .. n)
    BY ZenonT(30)
  <1> HIDE DEF Good
  <1>11. Good = 0 .. n
    BY <1>4, <1>8, <1>9, <1>10, UpTo, SMTT(30)
  <1>12. LoopOK(d, sp, Done(n), f[n])
    <2>1. n \in 0 .. n
      BY <1>4, SMTT(30)
    <2> QED
      BY <1>11, <2>1, ZenonT(30) DEF Good
  <1>13. Done(n) = M
    BY <1>4, <1>5, ZenonT(30) DEF ToSet
  <1> QED
    BY <1>2, <1>6, <1>7, <1>12, <1>13, ZenonT(30) DEF sp, M
=============================================================================
