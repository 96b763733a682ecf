----------------------------- MODULE MergeProofs -----------------------------
(***************************************************************************)
(* Proofs about Merge, for every pair of packages, every limit and every   *)
(* list of rules.                                                          *)
(***************************************************************************)
EXTENDS Merge, FiniteSetTheorems, Places

(***************************************************************************)
(* The offsets of a package.                                               *)
(***************************************************************************)

\* The length of a header is a number.
LEMMA HeaderHasLength ==
  ASSUME NEW h, IsHeader(h)
  PROVE  HeaderSize(h) \in Nat
<1>1. /\ Cardinality(h.incompatibilities) \in Nat
      /\ Cardinality(h.offsets) \in Nat
  BY FS_CardinalityType DEF IsHeader
<1>2. Cardinality(Worlds(h)) \in Nat
  <2> DEFINE f == [o \in h.offsets |-> o.world]
  <2>1. f \in Surjection(h.offsets, Worlds(h))
    BY DEF Surjection, Worlds
  <2> QED
    BY <2>1, FS_Surjection, FS_CardinalityType DEF IsHeader
<1>3. Len(h.dependencies) \in Nat /\ Len(h.streaming) \in Nat /\ h.text \in Nat
  BY DEF IsSequence, IsHeader
<1> DEFINE dependencies == Len(h.dependencies)
           incompatibilities == Cardinality(h.incompatibilities)
           streaming == Len(h.streaming)
           worlds == Cardinality(Worlds(h))
           scenes == Cardinality(h.offsets)
<1>4. HeaderSize(h) = 1 + h.text + dependencies + incompatibilities + streaming + worlds + scenes
  BY DEF HeaderSize, RecordHeaderSize
<1>5. /\ dependencies \in Nat /\ incompatibilities \in Nat /\ streaming \in Nat
      /\ worlds \in Nat /\ scenes \in Nat
  BY <1>1, <1>2, <1>3
<1> HIDE DEF dependencies, incompatibilities, streaming, worlds, scenes
<1> QED
  BY <1>3, <1>4, <1>5

\* The chunks of a package that can be read.
IsChunked(p) ==
  /\ IsHeader(p.header)
  /\ Len(p.chunks) \in Nat /\ DOMAIN p.chunks = 1 .. Len(p.chunks)
  /\ \A i \in 1 .. Len(p.chunks) : IsRecord(p.chunks[i]) \/ IsGroup(p.chunks[i])

LEMMA WellFormedIsChunked ==
  ASSUME NEW p, WellFormed(p)
  PROVE  IsChunked(p)
BY DEF WellFormed, IsSequence, IsChunked

\* Where the chunks start.
StartsInOrder(p) ==
  /\ Start(p, 1) = HeaderSize(p.header)
  /\ \A i \in 1 .. Len(p.chunks) + 1 : Start(p, i) \in Nat
  /\ \A i \in 1 .. Len(p.chunks) : Start(p, i + 1) = Start(p, i) + OwnSize(p.chunks[i])
  /\ \A i, j \in 1 .. Len(p.chunks) + 1 : i < j <=> Start(p, i) < Start(p, j)

\* Chunks start one behind the other, at offsets that ascend with their places.
LEMMA ChunksStartInOrder ==
  ASSUME NEW p, IsChunked(p)
  PROVE  StartsInOrder(p)
<1> DEFINE n == Len(p.chunks)
           base == HeaderSize(p.header)
           own == [i \in 1 .. n |-> OwnSize(p.chunks[i])]
           Solves(f) == f = [i \in 1 .. n + 1 |->
                               IF i = 1 THEN HeaderSize(p.header)
                               ELSE f[i - 1] + OwnSize(p.chunks[i - 1])]
<1>1. n \in Nat /\ base \in Nat
  BY HeaderHasLength DEF IsChunked
<1>2. \A i \in 1 .. n : own[i] \in Nat \ {0} /\ own[i] = OwnSize(p.chunks[i])
  BY DEF IsChunked, IsRecord, IsGroup, OwnSize, RecordSize, RecordHeaderSize, GroupHeaderSize
<1>3. Starts(p) = CHOOSE f : Solves(f)
  BY DEF Starts
<1>4. ASSUME NEW f PROVE Solves(f) <=> AddsUp(f, n, base, own)
  <2>1. ASSUME NEW i \in 1 .. n + 1, i # 1
        PROVE  f[i - 1] + OwnSize(p.chunks[i - 1]) = f[i - 1] + own[i - 1]
    BY <1>1, <1>2, <2>1
  <2>2. [j \in 1 .. n + 1 |-> IF j = 1 THEN base ELSE f[j - 1] + OwnSize(p.chunks[j - 1])]
          = [j \in 1 .. n + 1 |-> IF j = 1 THEN base ELSE f[j - 1] + own[j - 1]]
    BY <2>1
  <2>3. Solves(f) <=> f = [j \in 1 .. n + 1 |->
                             IF j = 1 THEN base ELSE f[j - 1] + OwnSize(p.chunks[j - 1])]
    OBVIOUS
  <2>4. AddsUp(f, n, base, own) <=> f = [j \in 1 .. n + 1 |->
                                           IF j = 1 THEN base ELSE f[j - 1] + own[j - 1]]
    BY DEF AddsUp
  <2> HIDE DEF Solves, own, n, base
  <2> QED
    BY <2>2, <2>3, <2>4
<1> HIDE DEF n, base, own, Solves
<1>5. \E f : Solves(f)
  BY <1>1, <1>4, OffsetsExist
<1>6. AddsUp(Starts(p), n, base, own)
  BY <1>3, <1>4, <1>5
<1>8. \A i \in 1 .. n : own[i] \in Nat \ {0}
  BY <1>2
<1>7. /\ Starts(p)[1] = base
      /\ \A i \in 1 .. n + 1 : Starts(p)[i] \in Nat
      /\ \A i \in 1 .. n : Starts(p)[i + 1] = Starts(p)[i] + own[i]
      /\ \A i, j \in 1 .. n + 1 : i < j <=> Starts(p)[i] < Starts(p)[j]
  BY <1>1, <1>6, <1>8, OffsetsAscend
<1> QED
  BY <1>2, <1>7 DEF n, base, StartsInOrder, Start


\* The groups around what is around an entry are around it, and so is a group around all
\* that is between them.
LEMMA GroupsNest ==
  ASSUME NEW p, IsChunked(p), Scans(p), NEW i \in 1 .. Len(p.chunks)
  PROVE  /\ Ancestors(p, i) \subseteq 1 .. i - 1
         /\ \A g \in Ancestors(p, i) : Ancestors(p, g) \subseteq Ancestors(p, i)
         /\ \A g \in Ancestors(p, i) : \A k \in g + 1 .. i : g \in Ancestors(p, k)
<1>0. StartsInOrder(p)
  BY ChunksStartInOrder
<1>1. Len(p.chunks) \in Nat /\ DOMAIN p.chunks = 1 .. Len(p.chunks)
  BY DEF IsChunked
<1>2. \A k \in 1 .. Len(p.chunks) : \A g :
        g \in Ancestors(p, k) <=> /\ g \in 1 .. k - 1 /\ p.chunks[g].kind = "group"
                                  /\ Start(p, k) < Start(p, g) + p.chunks[g].size
  BY DEF Ancestors, Start
<1>3. Ancestors(p, i) \subseteq 1 .. i - 1
  BY <1>2
<1>4. ASSUME NEW g \in Ancestors(p, i), NEW h \in Ancestors(p, g)
      PROVE  h \in Ancestors(p, i)
  <2>1. g \in 1 .. i - 1 /\ g \in 1 .. Len(p.chunks)
    BY <1>1, <1>2
  <2>2. h \in 1 .. g - 1 /\ h \in 1 .. Len(p.chunks) /\ h \in 1 .. i - 1
    BY <1>1, <1>2, <2>1
  <2>3. p.chunks[g].kind = "group" /\ p.chunks[h].kind = "group"
    BY <1>2, <2>1
  <2>4. /\ p.chunks[g].size \in Nat /\ p.chunks[h].size \in Nat
        /\ Span(p.chunks[g]) = p.chunks[g].size /\ Span(p.chunks[h]) = p.chunks[h].size
    BY <2>1, <2>2, <2>3 DEF IsChunked, IsRecord, IsGroup, Span
  <2>5. Start(p, h) < Start(p, g) /\ Start(p, h) \in Nat /\ Start(p, g) \in Nat /\ Start(p, i) \in Nat
    BY <1>0, <1>1, <2>1, <2>2 DEF StartsInOrder
  <2>6. Start(p, g) < Start(p, h) + p.chunks[h].size /\ Start(p, i) < Start(p, g) + p.chunks[g].size
    BY <1>2, <2>1
  <2>7. h \in Groups(p)
    BY <1>1, <2>2, <2>3 DEF Groups
  <2>8. Start(p, g) + p.chunks[g].size <= Start(p, h) + p.chunks[h].size
    <3>0. /\ h \in Groups(p) /\ g \in DOMAIN p.chunks
          /\ p.chunks[h].kind = "group" /\ p.chunks[g].kind = "group"
      BY <1>1, <2>1, <2>3, <2>7
    <3>1. Start(p, h) < Start(p, g) /\ Start(p, g) < Start(p, h) + Span(p.chunks[h])
            => Start(p, g) + Span(p.chunks[g]) <= Start(p, h) + Span(p.chunks[h])
      BY <3>0 DEF Scans, Start
    <3> QED
      BY <2>4, <2>5, <2>6, <3>1
  <2>9. Start(p, i) < Start(p, h) + p.chunks[h].size
    BY <2>4, <2>5, <2>6, <2>8, SMTT(30)
  <2> QED
    BY <1>2, <2>2, <2>3, <2>9
<1>5. ASSUME NEW g \in Ancestors(p, i), NEW k \in g + 1 .. i
      PROVE  g \in Ancestors(p, k)
  <2>1. /\ g \in 1 .. i - 1 /\ p.chunks[g].kind = "group"
        /\ Start(p, i) < Start(p, g) + p.chunks[g].size
    BY <1>2
  <2>2. k \in 1 .. Len(p.chunks) /\ g \in 1 .. k - 1
    BY <1>1, <2>1
  <2>3. g \in 1 .. Len(p.chunks)
    BY <1>1, <2>1
  <2>4. p.chunks[g].size \in Nat
    BY <2>1, <2>3 DEF IsChunked, IsRecord, IsGroup
  <2>5. {Start(p, k), Start(p, g), Start(p, i)} \subseteq Nat /\ (k < i => Start(p, k) < Start(p, i))
    BY <1>0, <1>1, <2>2, <2>3 DEF StartsInOrder
  <2>6. k = i \/ k < i
    BY <1>1, <2>1
  <2>7. Start(p, k) < Start(p, g) + p.chunks[g].size
    BY <2>1, <2>4, <2>5, <2>6
  <2> QED
    BY <1>2, <2>1, <2>2, <2>7
<1> QED
  BY <1>3, <1>4, <1>5

(***************************************************************************)
(* Trees.                                                                  *)
(***************************************************************************)

\* Entries with depths.
HasDepths(t) ==
  /\ Len(t) \in Nat /\ DOMAIN t = 1 .. Len(t) /\ t = [i \in 1 .. Len(t) |-> t[i]]
  /\ \A i \in 1 .. Len(t) : t[i].depth \in Nat /\ t[i].kind \in {"record", "group"}

\* The places of what entry i is within.
Around(t, i) == {g \in 1 .. i - 1 : \A k \in g + 1 .. i : t[g].depth < t[k].depth}

\* An entry is within groups, one of each smaller depth.
IsTree(t) ==
  /\ HasDepths(t)
  /\ \A i \in 1 .. Len(t) :
       /\ \A d \in Nat : d < t[i].depth => \E g \in Around(t, i) : t[g].depth = d
       /\ \A g \in Around(t, i) : t[g].kind = "group"
       /\ t[i].kind = "record" => t[i] = RecordEntry(t[i].depth, t[i].id)
       /\ t[i].kind = "group" => t[i] = GroupEntry(t[i].depth, t[i].type, t[i].label)

\* Where the entries within entry i end.
Ends(t, i, j) ==
  /\ j \in i + 1 .. Len(t) + 1
  /\ \A k \in i + 1 .. j - 1 : t[k].depth > t[i].depth
  /\ j <= Len(t) => t[j].depth <= t[i].depth

LEMMA BehindEnds ==
  ASSUME NEW t, HasDepths(t), NEW i \in 1 .. Len(t)
  PROVE  Ends(t, i, Behind(t, i))
<1> DEFINE T == {j \in i + 1 .. Len(t) + 1 : j <= Len(t) => t[j].depth <= t[i].depth}
<1>1. Len(t) \in Nat /\ \A k \in 1 .. Len(t) : t[k].depth \in Nat
  BY DEF HasDepths
<1>2. T \in SUBSET Nat /\ T # {}
  <2>1. Len(t) + 1 \in T
    BY <1>1
  <2> QED
    BY <1>1, <2>1
<1>3. PICK j \in T : \A l \in T : j <= l
  <2> HIDE DEF T
  <2> QED
    BY <1>2, FirstPlace
<1>4. ASSUME NEW k \in i + 1 .. j - 1
      PROVE  t[k].depth > t[i].depth
  <2>1. k \notin T /\ k \in i + 1 .. Len(t) + 1 /\ k \in 1 .. Len(t)
    BY <1>1, <1>3
  <2> QED
    BY <1>1, <2>1
<1>5. Ends(t, i, j)
  BY <1>3, <1>4 DEF Ends
<1>6. Behind(t, i) = CHOOSE l \in i + 1 .. Len(t) + 1 :
                       /\ \A k \in i + 1 .. l - 1 : t[k].depth > t[i].depth
                       /\ l <= Len(t) => t[l].depth <= t[i].depth
  BY DEF Behind
<1> QED
  BY <1>5, <1>6 DEF Ends

\* What is within entry g is in front of where g ends.
LEMMA AroundEnds ==
  ASSUME NEW t, HasDepths(t), NEW i \in 1 .. Len(t), NEW g \in 1 .. Len(t)
  PROVE  g \in Around(t, i) <=> g < i /\ i < Behind(t, g)
<1> DEFINE j == Behind(t, g)
<1>1. Ends(t, g, j)
  BY BehindEnds
<1> HIDE DEF j
<1>2. Len(t) \in Nat /\ \A k \in 1 .. Len(t) : t[k].depth \in Nat
  BY DEF HasDepths
<1>3. j \in i + 1 .. Len(t) + 1 \/ j \in 1 .. i
  BY <1>1, <1>2 DEF Ends
<1>4. ASSUME g \in Around(t, i)
      PROVE  g < i /\ i < j
  <2>1. g \in 1 .. i - 1 /\ \A k \in g + 1 .. i : t[g].depth < t[k].depth
    BY <1>4 DEF Around
  <2>2. ASSUME j \in 1 .. i PROVE FALSE
    <3>1. j \in g + 1 .. i /\ j \in 1 .. Len(t) /\ j <= Len(t)
      BY <1>1, <1>2, <2>2 DEF Ends
    <3>2. t[g].depth < t[j].depth /\ t[j].depth <= t[g].depth
      BY <1>1, <2>1, <3>1 DEF Ends
    <3> QED
      BY <1>2, <3>1, <3>2
  <2> QED
    BY <1>2, <1>3, <2>1, <2>2
<1>5. ASSUME g < i, i < j
      PROVE  g \in Around(t, i)
  <2>1. g \in 1 .. i - 1
    BY <1>5
  <2>2. \A k \in g + 1 .. i : k \in g + 1 .. j - 1 /\ k \in 1 .. Len(t)
    BY <1>1, <1>2, <1>5 DEF Ends
  <2> QED
    BY <1>1, <1>2, <2>1, <2>2 DEF Ends, Around
<1> QED
  BY <1>4, <1>5 DEF j

\* What entry i is within is nested.
LEMMA AroundNests ==
  ASSUME NEW t, HasDepths(t), NEW i \in 1 .. Len(t), NEW g \in Around(t, i)
  PROVE  /\ g \in 1 .. Len(t) /\ g < i /\ t[g].depth < t[i].depth
         /\ Around(t, g) \subseteq Around(t, i)
         /\ \A h \in Around(t, i) : h < g <=> h \in Around(t, g)
         /\ \A h \in Around(t, i) : t[h].depth = t[g].depth => h = g
<1>1. Len(t) \in Nat /\ \A k \in 1 .. Len(t) : t[k].depth \in Nat
  BY DEF HasDepths
<1>2. \A h, k : h \in Around(t, k) <=>
                  h \in 1 .. k - 1 /\ \A l \in h + 1 .. k : t[h].depth < t[l].depth
  BY DEF Around
<1>3. g \in 1 .. Len(t) /\ g < i /\ g \in 1 .. i - 1
  BY <1>1, <1>2
<1>4. t[g].depth < t[i].depth
  <2>1. i \in g + 1 .. i
    BY <1>3
  <2> QED
    BY <1>2, <2>1
<1>5. ASSUME NEW h \in Around(t, g)
      PROVE  h \in Around(t, i)
  <2>1. h \in 1 .. g - 1 /\ h \in 1 .. i - 1 /\ h \in 1 .. Len(t)
    BY <1>1, <1>2, <1>3
  <2>2. t[h].depth < t[g].depth
    <3>1. g \in h + 1 .. g
      BY <2>1, <1>3
    <3> QED
      BY <1>2, <3>1
  <2>3. ASSUME NEW l \in h + 1 .. i
        PROVE  t[h].depth < t[l].depth
    <3>1. l \in 1 .. Len(t) /\ (l \in h + 1 .. g \/ l \in g + 1 .. i)
      BY <1>1, <1>3, <2>1
    <3>2. l \in g + 1 .. i => t[g].depth < t[l].depth
      BY <1>2
    <3>3. l \in h + 1 .. g => t[h].depth < t[l].depth
      BY <1>2
    <3> QED
      BY <1>1, <1>3, <2>1, <2>2, <3>1, <3>2, <3>3
  <2> QED
    BY <1>2, <2>1, <2>3
<1>6. ASSUME NEW h \in Around(t, i), NEW f \in Around(t, i), h < f
      PROVE  h \in Around(t, f) /\ t[h].depth < t[f].depth
  <2>1. h \in 1 .. i - 1 /\ f \in 1 .. i - 1 /\ \A l \in h + 1 .. i : t[h].depth < t[l].depth
    BY <1>2
  <2>2. h \in 1 .. f - 1 /\ f \in h + 1 .. i /\ \A l \in h + 1 .. f : l \in h + 1 .. i
    BY <1>1, <1>6, <2>1
  <2> QED
    BY <1>2, <2>1, <2>2
<1>7. ASSUME NEW h \in Around(t, i)
      PROVE  h < g <=> h \in Around(t, g)
  BY <1>2, <1>3, <1>6
<1>8. ASSUME NEW h \in Around(t, i), t[h].depth = t[g].depth
      PROVE  h = g
  <2>1. h \in 1 .. Len(t) /\ (h < g \/ h = g \/ g < h)
    BY <1>1, <1>2, <1>3
  <2>2. h < g => t[h].depth < t[g].depth
    BY <1>6
  <2>3. g < h => t[g].depth < t[h].depth
    BY <1>6
  <2> QED
    BY <1>1, <1>3, <1>8, <2>1, <2>2, <2>3
<1> QED
  BY <1>3, <1>4, <1>5, <1>7, <1>8

\* The entries of t are the chunks of p, within the same groups.
HasTree(p, t) ==
  /\ IsTree(t) /\ Len(t) = Len(p.chunks)
  /\ \A i \in 1 .. Len(t) :
       /\ Around(t, i) = Ancestors(p, i)
       /\ t[i].kind = p.chunks[i].kind
       /\ t[i].kind = "record" => t[i] = RecordEntry(t[i].depth, p.chunks[i].id)
       /\ t[i].kind = "group" =>
            t[i] = GroupEntry(t[i].depth, p.chunks[i].type, p.chunks[i].label)

\* What read_tree reads is the tree of the package.
LEMMA ReadsTheTree ==
  ASSUME NEW p, IsChunked(p), Scans(p)
  PROVE  HasTree(p, ReadTree(p))
<1> DEFINE t == ReadTree(p)
           n == Len(p.chunks)
<1>1. n \in Nat /\ DOMAIN p.chunks = 1 .. n
  BY DEF IsChunked
<1>2. ASSUME NEW i \in 1 .. n
      PROVE  /\ p.chunks[i].kind \in {"record", "group"}
             /\ t[i] = IF p.chunks[i].kind = "record"
                       THEN RecordEntry(Cardinality(Ancestors(p, i)), p.chunks[i].id)
                       ELSE GroupEntry(Cardinality(Ancestors(p, i)), p.chunks[i].type,
                                       p.chunks[i].label)
  BY <1>1 DEF ReadTree, IsChunked, IsRecord, IsGroup
<1>3. DOMAIN t = 1 .. n /\ Len(t) = n /\ t = [i \in 1 .. n |-> t[i]]
  BY <1>1 DEF ReadTree
<1>4. ASSUME NEW i \in 1 .. n
      PROVE  /\ t[i].depth = Cardinality(Ancestors(p, i))
             /\ t[i].kind = p.chunks[i].kind
             /\ t[i].kind = "record" => t[i] = RecordEntry(t[i].depth, p.chunks[i].id)
             /\ t[i].kind = "group" =>
                  t[i] = GroupEntry(t[i].depth, p.chunks[i].type, p.chunks[i].label)
  <2> DEFINE d == Cardinality(Ancestors(p, i))
             c == p.chunks[i]
  <2>1. c.kind = "record" => t[i] = RecordEntry(d, c.id) /\ t[i].depth = d /\ t[i].kind = "record"
    BY <1>2 DEF RecordEntry
  <2>2. c.kind = "group" =>
          t[i] = GroupEntry(d, c.type, c.label) /\ t[i].depth = d /\ t[i].kind = "group"
    BY <1>2 DEF GroupEntry
  <2>3. c.kind \in {"record", "group"}
    BY <1>2
  <2> HIDE DEF d, c, t
  <2>4. /\ t[i].depth = d /\ t[i].kind = c.kind
        /\ t[i].kind = "record" => t[i] = RecordEntry(t[i].depth, c.id)
        /\ t[i].kind = "group" => t[i] = GroupEntry(t[i].depth, c.type, c.label)
    BY <2>1, <2>2, <2>3
  <2> QED
    BY <2>4 DEF d, c
<1> HIDE DEF t, n
<1>5. ASSUME NEW i \in 1 .. n
      PROVE  /\ Ancestors(p, i) \in SUBSET (1 .. i - 1) /\ IsFiniteSet(Ancestors(p, i))
             /\ Cardinality(Ancestors(p, i)) \in Nat
  <2>1. Ancestors(p, i) \in SUBSET (1 .. i - 1) /\ i - 1 \in Nat
    BY <1>1, GroupsNest DEF n
  <2> QED
    BY <2>1, PlacesAreFinite, FS_Subset, FS_CardinalityType
<1>6. ASSUME NEW i \in 1 .. n, NEW g \in Ancestors(p, i)
      PROVE  /\ g \in 1 .. n /\ g < i /\ p.chunks[g].kind = "group"
             /\ Below(Ancestors(p, i), g) = Ancestors(p, g)
  <2>1. g \in 1 .. n /\ g < i /\ p.chunks[g].kind = "group"
    BY <1>1, <1>5 DEF Ancestors
  <2>2. Ancestors(p, g) \subseteq Ancestors(p, i) /\ Ancestors(p, g) \subseteq 1 .. g - 1
    BY <1>5, <2>1, GroupsNest DEF n
  <2>3. \A h \in Ancestors(p, i) : \A k \in h + 1 .. i : h \in Ancestors(p, k)
    BY GroupsNest DEF n
  <2>4. ASSUME NEW h \in Ancestors(p, i), h < g
        PROVE  h \in Ancestors(p, g)
    <3>1. g \in h + 1 .. i
      BY <1>5, <2>1, <2>4
    <3> QED
      BY <2>3, <3>1
  <2>5. \A h \in Ancestors(p, g) : h < g
    BY <2>1, <2>2
  <2>6. Below(Ancestors(p, i), g) = Ancestors(p, g)
    BY <2>2, <2>4, <2>5 DEF Below
  <2> QED
    BY <2>1, <2>6
<1>7. ASSUME NEW i \in 1 .. n, NEW g \in Ancestors(p, i)
      PROVE  /\ t[g].depth < t[i].depth
             /\ \A k \in g + 1 .. i : t[g].depth < t[k].depth
  <2>1. ASSUME NEW k \in 1 .. n, g \in Ancestors(p, k)
        PROVE  t[g].depth < t[k].depth
    <3>1. Below(Ancestors(p, k), g) = Ancestors(p, g) /\ g \in 1 .. n
      BY <1>6, <2>1
    <3>2. Ancestors(p, k) \in SUBSET Int /\ IsFiniteSet(Ancestors(p, k))
      BY <1>5
    <3>3. Cardinality(Below(Ancestors(p, k), g)) \in 0 .. Cardinality(Ancestors(p, k)) - 1
      BY <2>1, <3>2, EveryRank
    <3> QED
      BY <1>4, <1>5, <3>1, <3>3
  <2>2. \A k \in g + 1 .. i : g \in Ancestors(p, k) /\ k \in 1 .. n
    BY <1>1, <1>6, GroupsNest DEF n
  <2> QED
    BY <2>1, <2>2
<1>8. ASSUME NEW i \in 1 .. n, NEW g \in Around(t, i)
      PROVE  g \in Ancestors(p, i)
  <2> DEFINE T == {k \in g + 1 .. i : g \notin Ancestors(p, k)}
  <2>1. g \in 1 .. i - 1 /\ g \in 1 .. n /\ \A k \in g + 1 .. i : t[g].depth < t[k].depth
    BY <1>1 DEF Around
  <2>2. CASE T = {}
    <3>1. i \in g + 1 .. i
      BY <2>1
    <3> QED
      BY <2>2, <3>1
  <2>3. CASE T # {}
    <3>1. PICK k \in T : \A l \in T : k <= l
      <4>1. T \in SUBSET Nat
        BY <2>1
      <4> HIDE DEF T
      <4> QED
        BY <2>3, <4>1, FirstPlace
    <3>2. k \in 1 .. n /\ g < k /\ g \notin Ancestors(p, k) /\ k \in g + 1 .. i
      BY <1>1, <2>1
    <3>3. ASSUME NEW h \in Ancestors(p, k)
          PROVE  h \in Ancestors(p, g)
      <4>1. h \in 1 .. n /\ h < k /\ h # g
        BY <1>6, <3>2
      <4>2. ASSUME g < h PROVE FALSE
        <5>1. h \in g + 1 .. i /\ h \notin T
          BY <2>1, <3>1, <3>2, <4>1, <4>2
        <5>2. g \in Ancestors(p, h)
          BY <5>1
        <5> QED
          BY <3>2, <5>2, GroupsNest DEF n
      <4>3. h < g /\ g \in h + 1 .. k
        BY <2>1, <3>2, <4>1, <4>2
      <4> QED
        BY <3>2, <4>3, GroupsNest DEF n
    <3>4. Cardinality(Ancestors(p, k)) <= Cardinality(Ancestors(p, g))
      BY <1>5, <2>1, <3>3, FS_Subset
    <3>5. t[g].depth < t[k].depth
      BY <2>1, <3>2
    <3> QED
      BY <1>4, <1>5, <2>1, <3>2, <3>4, <3>5
  <2> QED
    BY <2>2, <2>3
<1>9. ASSUME NEW i \in 1 .. n
      PROVE  Around(t, i) = Ancestors(p, i)
  <2>1. ASSUME NEW g \in Ancestors(p, i) PROVE g \in Around(t, i)
    BY <1>5, <1>7 DEF Around
  <2> QED
    BY <1>8, <2>1
<1>10. HasDepths(t)
  BY <1>1, <1>2, <1>3, <1>4, <1>5 DEF HasDepths
<1>11. ASSUME NEW i \in 1 .. n, NEW d \in Nat, d < t[i].depth
       PROVE  \E g \in Around(t, i) : t[g].depth = d
  <2>1. Ancestors(p, i) \in SUBSET Int /\ IsFiniteSet(Ancestors(p, i))
    BY <1>5
  <2>2. d \in 0 .. Cardinality(Ancestors(p, i)) - 1
    BY <1>4, <1>5, <1>11
  <2>3. PICK g \in Ancestors(p, i) : Cardinality(Below(Ancestors(p, i), g)) = d
    BY <2>1, <2>2, EveryRank
  <2> QED
    BY <1>4, <1>6, <1>9, <2>3
<1>14. ASSUME NEW i \in 1 .. n
       PROVE  /\ t[i].kind = "record" => t[i] = RecordEntry(t[i].depth, t[i].id)
              /\ t[i].kind = "group" => t[i] = GroupEntry(t[i].depth, t[i].type, t[i].label)
  <2>1. ASSUME NEW d, NEW a, NEW b
        PROVE  RecordEntry(d, a).id = a /\ GroupEntry(d, a, b).type = a /\ GroupEntry(d, a, b).label = b
    BY DEF RecordEntry, GroupEntry
  <2>2. t[i].kind = "record" => t[i] = RecordEntry(t[i].depth, t[i].id)
    BY <1>4, <2>1
  <2>3. t[i].kind = "group" => t[i] = GroupEntry(t[i].depth, t[i].type, t[i].label)
    BY <1>4, <2>1
  <2> QED
    BY <2>2, <2>3
<1>12. IsTree(t)
  BY <1>3, <1>4, <1>6, <1>9, <1>10, <1>11, <1>14 DEF IsTree
<1>13. HasTree(p, t)
  BY <1>3, <1>4, <1>9, <1>12 DEF HasTree, n
<1> QED
  BY <1>13 DEF t

\* The records that a tree is encoded with.
HasRecords(t, byId) ==
  \A i \in 1 .. Len(t) :
    t[i].kind = "record" => IsRecord(byId[t[i].id]) /\ byId[t[i].id].id = t[i].id

\* What a group is said to span ends where the group does.
LEMMA EncodedChunks ==
  ASSUME NEW t, IsTree(t), NEW byId, HasRecords(t, byId),
         NEW h, IsHeader(h), NEW q, q = [header |-> h, chunks |-> EncodeTree(t, byId)]
  PROVE  /\ IsChunked(q) /\ Len(q.chunks) = Len(t)
         /\ \A i \in 1 .. Len(t) :
              /\ t[i].kind = "record" => q.chunks[i] = byId[t[i].id]
              /\ t[i].kind = "group" =>
                   /\ q.chunks[i] = Group(t[i].type, t[i].label, q.chunks[i].size)
                   /\ Start(q, i) + q.chunks[i].size = Start(q, Behind(t, i))
<1> DEFINE n == Len(t)
           size(i) == IF t[i].kind = "record" THEN RecordSize(byId[t[i].id]) ELSE GroupHeaderSize
           own == [i \in 1 .. n |-> size(i)]
           Solves(f) == f = [i \in 1 .. n + 1 |-> IF i = 1 THEN 0 ELSE f[i - 1] + size(i - 1)]
           start == CHOOSE f : Solves(f)
<1>1. n \in Nat /\ DOMAIN t = 1 .. n /\ \A i \in 1 .. n : t[i].kind \in {"record", "group"}
  BY DEF IsTree, HasDepths
<1>2. \A i \in 1 .. n : size(i) \in Nat \ {0}
  BY <1>1 DEF HasRecords, IsRecord, RecordSize, RecordHeaderSize, GroupHeaderSize
<1>3. \A i \in 1 .. n :
        q.chunks[i] = IF t[i].kind = "record" THEN byId[t[i].id]
                      ELSE Group(t[i].type, t[i].label, start[Behind(t, i)] - start[i])
  BY <1>1 DEF EncodeTree
<1>4. DOMAIN q.chunks = 1 .. n /\ Len(q.chunks) = n /\ q.header = h
  BY <1>1 DEF EncodeTree
<1> HIDE DEF size
<1>5. ASSUME NEW f PROVE Solves(f) <=> AddsUp(f, n, 0, own)
  <2>1. ASSUME NEW i \in 1 .. n + 1, i # 1
        PROVE  f[i - 1] + size(i - 1) = f[i - 1] + own[i - 1]
    BY <1>1, <2>1
  <2>2. [j \in 1 .. n + 1 |-> IF j = 1 THEN 0 ELSE f[j - 1] + size(j - 1)]
          = [j \in 1 .. n + 1 |-> IF j = 1 THEN 0 ELSE f[j - 1] + own[j - 1]]
    BY <2>1
  <2>3. Solves(f) <=> f = [j \in 1 .. n + 1 |-> IF j = 1 THEN 0 ELSE f[j - 1] + size(j - 1)]
    OBVIOUS
  <2>4. AddsUp(f, n, 0, own) <=> f = [j \in 1 .. n + 1 |->
                                        IF j = 1 THEN 0 ELSE f[j - 1] + own[j - 1]]
    BY DEF AddsUp
  <2> HIDE DEF Solves, own, n
  <2> QED
    BY <2>2, <2>3, <2>4
<1>6. \A i \in 1 .. n : own[i] = size(i)
  OBVIOUS
<1>7. \A i \in 1 .. n : own[i] \in Nat \ {0}
  BY <1>2, <1>6
<1> HIDE DEF n, own, Solves
<1>8. \E f : Solves(f)
  BY <1>1, <1>5, OffsetsExist
<1>9. AddsUp(start, n, 0, own)
  BY <1>5, <1>8
<1> HIDE DEF start
<1>10. /\ DOMAIN start = 1 .. n + 1 /\ start[1] = 0
       /\ \A i \in 1 .. n + 1 : start[i] \in Nat
       /\ \A i \in 1 .. n : start[i + 1] = start[i] + own[i]
       /\ \A i, j \in 1 .. n + 1 : i < j <=> start[i] < start[j]
  <2>1. 0 \in Nat
    OBVIOUS
  <2> QED
    BY <1>1, <1>7, <1>9, <2>1, OffsetsAscend
<1>11. ASSUME NEW i \in 1 .. n
       PROVE  /\ Behind(t, i) \in 1 .. n + 1 /\ i < Behind(t, i)
              /\ start[Behind(t, i)] - start[i] \in Nat
  <2>1. Behind(t, i) \in i + 1 .. n + 1
    BY BehindEnds DEF IsTree, Ends, n
  <2>2. i \in 1 .. n + 1 /\ Behind(t, i) \in 1 .. n + 1 /\ i < Behind(t, i)
    BY <1>1, <2>1
  <2>3. start[i] \in Nat /\ start[Behind(t, i)] \in Nat /\ start[i] < start[Behind(t, i)]
    BY <1>10, <2>2
  <2> QED
    BY <2>2, <2>3
<1>12. ASSUME NEW i \in 1 .. n, t[i].kind = "record"
       PROVE  /\ q.chunks[i] = byId[t[i].id] /\ IsRecord(q.chunks[i])
              /\ OwnSize(q.chunks[i]) = own[i]
  <2>1. q.chunks[i] = byId[t[i].id] /\ IsRecord(q.chunks[i])
    BY <1>3, <1>12 DEF HasRecords, n
  <2>2. OwnSize(q.chunks[i]) = RecordSize(byId[t[i].id])
    BY <2>1 DEF OwnSize, IsRecord
  <2> QED
    BY <1>6, <1>12, <2>1, <2>2 DEF size
<1>13. ASSUME NEW i \in 1 .. n, t[i].kind = "group"
       PROVE  /\ q.chunks[i] = Group(t[i].type, t[i].label, q.chunks[i].size)
              /\ q.chunks[i].size = start[Behind(t, i)] - start[i]
              /\ IsGroup(q.chunks[i]) /\ OwnSize(q.chunks[i]) = own[i]
  <2> DEFINE length == start[Behind(t, i)] - start[i]
             c == q.chunks[i]
  <2>1. c = Group(t[i].type, t[i].label, length)
    BY <1>3, <1>13
  <2>2. length \in Nat
    BY <1>11
  <2> HIDE DEF length, c
  <2>3. c.size = length /\ IsGroup(c) /\ c.kind = "group"
    BY <2>1, <2>2 DEF Group, IsGroup
  <2>4. OwnSize(c) = GroupHeaderSize /\ own[i] = GroupHeaderSize
    BY <1>6, <1>13, <2>3 DEF OwnSize, size
  <2>5. c = Group(t[i].type, t[i].label, c.size) /\ c.size = length
    BY <2>1, <2>3
  <2> QED
    BY <2>3, <2>4, <2>5 DEF c, length
<1>14. IsChunked(q)
  BY <1>1, <1>4, <1>12, <1>13 DEF IsChunked
<1>15. StartsInOrder(q)
  BY <1>14, ChunksStartInOrder
<1>16. /\ Start(q, 1) = HeaderSize(h) /\ HeaderSize(h) \in Nat
       /\ \A i \in 1 .. n : Start(q, i + 1) = Start(q, i) + own[i]
  BY <1>1, <1>4, <1>12, <1>13, <1>15, HeaderHasLength DEF StartsInOrder
<1> DEFINE S == {i \in 1 .. n + 1 : Start(q, i) = HeaderSize(h) + start[i]}
<1>17. \A i \in 1 .. n + 1 : i \in S
  <2>1. 1 \in S
    BY <1>1, <1>10, <1>16
  <2>2. ASSUME NEW i \in 1 .. n, i \in S PROVE i + 1 \in S
    <3>1. i \in 1 .. n + 1 /\ i + 1 \in 1 .. n + 1
      BY <1>1
    <3>2. start[i] \in Nat /\ own[i] \in Nat /\ start[i + 1] = start[i] + own[i]
      BY <1>7, <1>10, <3>1
    <3>3. Start(q, i + 1) = HeaderSize(h) + start[i] + own[i]
      BY <1>16, <2>2
    <3> QED
      BY <1>16, <3>1, <3>2, <3>3
  <2> HIDE DEF S
  <2> QED
    BY <1>1, <2>1, <2>2, EveryPlace
<1>18. ASSUME NEW i \in 1 .. n, t[i].kind = "group"
       PROVE  Start(q, i) + q.chunks[i].size = Start(q, Behind(t, i))
  <2> DEFINE j == Behind(t, i)
  <2>1. i \in 1 .. n + 1 /\ j \in 1 .. n + 1
    BY <1>1, <1>11
  <2>2. q.chunks[i].size = start[j] - start[i]
    BY <1>13, <1>18
  <2> HIDE DEF j
  <2>3. Start(q, i) = HeaderSize(h) + start[i] /\ Start(q, j) = HeaderSize(h) + start[j]
    BY <1>17, <2>1
  <2>4. start[i] \in Nat /\ start[j] \in Nat
    BY <1>10, <2>1
  <2>5. Start(q, i) + q.chunks[i].size = Start(q, j)
    BY <1>16, <2>2, <2>3, <2>4
  <2> QED
    BY <2>5 DEF j
<1> QED
  BY <1>4, <1>12, <1>13, <1>14, <1>18 DEF n

\* The chunks of a tree have this tree.
LEMMA EncodesTheTree ==
  ASSUME NEW t, IsTree(t), NEW byId, HasRecords(t, byId),
         NEW h, IsHeader(h), NEW q, q = [header |-> h, chunks |-> EncodeTree(t, byId)]
  PROVE  /\ IsChunked(q) /\ Scans(q) /\ HasTree(q, t)
         /\ \A i \in 1 .. Len(t) : t[i].kind = "record" => q.chunks[i] = byId[t[i].id]
<1> DEFINE n == Len(t)
<1>1. /\ IsChunked(q) /\ Len(q.chunks) = n
      /\ \A i \in 1 .. n :
           /\ t[i].kind = "record" => q.chunks[i] = byId[t[i].id]
           /\ t[i].kind = "group" =>
                /\ q.chunks[i] = Group(t[i].type, t[i].label, q.chunks[i].size)
                /\ Start(q, i) + q.chunks[i].size = Start(q, Behind(t, i))
  BY EncodedChunks
<1>2. /\ n \in Nat /\ HasDepths(t)
      /\ \A i \in 1 .. n : t[i].kind \in {"record", "group"} /\ t[i].depth \in Nat
  BY DEF IsTree, HasDepths
<1> HIDE DEF n
<1>3. /\ \A i \in 1 .. n + 1 : Start(q, i) \in Nat
      /\ \A i \in 1 .. n : Start(q, i + 1) = Start(q, i) + OwnSize(q.chunks[i])
      /\ \A i, j \in 1 .. n + 1 : i < j <=> Start(q, i) < Start(q, j)
  <2>1. StartsInOrder(q)
    BY <1>1, ChunksStartInOrder
  <2> QED
    BY <1>1, <2>1 DEF StartsInOrder
<1>4. DOMAIN q.chunks = 1 .. n
  BY <1>1 DEF IsChunked
<1>5. ASSUME NEW i \in 1 .. n
      PROVE  q.chunks[i].kind = t[i].kind
  <2>1. CASE t[i].kind = "record"
    BY <1>1, <2>1 DEF HasRecords, IsRecord, n
  <2>2. CASE t[i].kind = "group"
    <3>1. \A a, b, c : Group(a, b, c).kind = "group"
      BY DEF Group
    <3> QED
      BY <1>1, <2>2, <3>1
  <2> QED
    BY <1>2, <2>1, <2>2
<1>6. ASSUME NEW i \in 1 .. n
      PROVE  /\ Behind(t, i) \in 1 .. n + 1 /\ i < Behind(t, i)
             /\ \A k \in i + 1 .. Behind(t, i) - 1 : t[k].depth > t[i].depth
             /\ Behind(t, i) <= n => t[Behind(t, i)].depth <= t[i].depth
  <2>1. Ends(t, i, Behind(t, i))
    BY <1>2, BehindEnds DEF n
  <2>2. Behind(t, i) \in i + 1 .. n + 1 => Behind(t, i) \in 1 .. n + 1 /\ i < Behind(t, i)
    BY <1>2
  <2> QED
    BY <2>1, <2>2 DEF Ends, n
<1>7. ASSUME NEW i \in 1 .. n
      PROVE  \E j \in i + 1 .. n + 1 :
               /\ Start(q, i) + Span(q.chunks[i]) = Start(q, j)
               /\ t[i].kind = "record" => j = i + 1
               /\ t[i].kind = "group" => j = Behind(t, i)
  <2>1. CASE t[i].kind = "record"
    <3>1. Span(q.chunks[i]) = OwnSize(q.chunks[i])
      BY <1>5, <2>1 DEF Span, OwnSize
    <3>2. i + 1 \in i + 1 .. n + 1
      BY <1>2
    <3> QED
      BY <1>3, <2>1, <3>1, <3>2
  <2>2. CASE t[i].kind = "group"
    <3>1. Span(q.chunks[i]) = q.chunks[i].size
      BY <1>5, <2>2 DEF Span
    <3>2. Behind(t, i) \in i + 1 .. n + 1
      BY <1>2, <1>6
    <3> QED
      BY <1>1, <2>2, <3>1, <3>2
  <2> QED
    BY <1>2, <2>1, <2>2
<1>8. ASSUME NEW g \in 1 .. n, t[g].kind = "group", NEW i \in 1 .. n
      PROVE  g < i /\ Start(q, i) < Start(q, g) + q.chunks[g].size <=> g \in Around(t, i)
  <2>1. Start(q, g) + q.chunks[g].size = Start(q, Behind(t, g))
    BY <1>1, <1>8
  <2>2. i \in 1 .. n + 1 /\ Behind(t, g) \in 1 .. n + 1
    BY <1>2, <1>6
  <2>3. Start(q, i) < Start(q, Behind(t, g)) <=> i < Behind(t, g)
    BY <1>3, <2>2
  <2>4. g \in Around(t, i) <=> g < i /\ i < Behind(t, g)
    BY <1>2, AroundEnds DEF n
  <2> QED
    BY <2>1, <2>3, <2>4
<1>9. ASSUME NEW i \in 1 .. n
      PROVE  Around(t, i) = Ancestors(q, i)
  <2>1. \A g : g \in Ancestors(q, i) <=> /\ g \in 1 .. i - 1 /\ q.chunks[g].kind = "group"
                                         /\ Start(q, i) < Start(q, g) + q.chunks[g].size
    BY DEF Ancestors, Start
  <2>2. \A g \in Around(t, i) : g \in 1 .. n /\ g \in 1 .. i - 1 /\ t[g].kind = "group"
    BY <1>2 DEF IsTree, Around, n
  <2>3. \A g \in Around(t, i) : g \in Ancestors(q, i)
    BY <1>5, <1>8, <2>1, <2>2
  <2>4. \A g \in Ancestors(q, i) : g \in 1 .. n /\ g < i /\ t[g].kind = "group"
    BY <1>2, <1>5, <2>1
  <2>5. \A g \in Ancestors(q, i) : g \in Around(t, i)
    BY <1>8, <2>1, <2>4
  <2> QED
    BY <2>3, <2>5
<1>10. Scans(q)
  <2>1. ASSUME NEW g \in Groups(q) PROVE q.chunks[g].size >= GroupHeaderSize
    <3>1. g \in 1 .. n /\ t[g].kind = "group"
      BY <1>4, <1>5 DEF Groups
    <3>2. /\ Start(q, g) + q.chunks[g].size = Start(q, Behind(t, g))
          /\ q.chunks[g].size \in Nat
      BY <1>1, <1>5, <3>1 DEF IsChunked, IsGroup, IsRecord
    <3>3. Start(q, g) < Start(q, Behind(t, g)) /\ Start(q, g) \in Nat
      <4>1. g \in 1 .. n + 1 /\ Behind(t, g) \in 1 .. n + 1 /\ g < Behind(t, g)
        BY <1>2, <1>6, <3>1
      <4> QED
        BY <1>3, <4>1
    <3> QED
      BY <3>2, <3>3 DEF GroupHeaderSize
  <2>2. ASSUME NEW i \in DOMAIN q.chunks
        PROVE  Start(q, i) + Span(q.chunks[i]) <= Start(q, n + 1)
    <3>1. PICK j \in i + 1 .. n + 1 : Start(q, i) + Span(q.chunks[i]) = Start(q, j)
      BY <1>4, <1>7
    <3>2. j \in 1 .. n + 1 /\ n + 1 \in 1 .. n + 1 /\ (j = n + 1 \/ j < n + 1)
      BY <1>2, <1>4
    <3>3. Start(q, j) <= Start(q, n + 1)
      BY <1>3, <3>2
    <3> QED
      BY <3>1, <3>3
  <2>3. ASSUME NEW g \in Groups(q), NEW i \in DOMAIN q.chunks,
               Start(q, g) < Start(q, i), Start(q, i) < Start(q, g) + Span(q.chunks[g])
        PROVE  Start(q, i) + Span(q.chunks[i]) <= Start(q, g) + Span(q.chunks[g])
    <3>1. g \in 1 .. n /\ t[g].kind = "group" /\ i \in 1 .. n
      BY <1>4, <1>5 DEF Groups
    <3>2. /\ Start(q, g) + Span(q.chunks[g]) = Start(q, Behind(t, g))
          /\ Span(q.chunks[g]) = q.chunks[g].size
      BY <1>5, <1>7, <3>1 DEF Span
    <3>3. g < i
      <4>1. g \in 1 .. n + 1 /\ i \in 1 .. n + 1
        BY <1>2, <3>1
      <4> QED
        BY <1>3, <2>3, <4>1
    <3>4. g \in Around(t, i)
      BY <1>8, <2>3, <3>1, <3>2, <3>3
    <3>5. i < Behind(t, g) /\ t[g].depth < t[i].depth
      BY <1>2, <3>1, <3>4, AroundEnds, AroundNests DEF n
    <3>6. PICK j \in i + 1 .. n + 1 : /\ Start(q, i) + Span(q.chunks[i]) = Start(q, j)
                                      /\ t[i].kind = "record" => j = i + 1
                                      /\ t[i].kind = "group" => j = Behind(t, i)
      BY <1>7, <3>1
    <3>7. ASSUME Behind(t, g) < j PROVE FALSE
      <4>1. t[i].kind = "group" /\ j = Behind(t, i)
        BY <1>2, <1>6, <3>1, <3>5, <3>6, <3>7
      <4>2. Behind(t, g) \in i + 1 .. Behind(t, i) - 1 /\ Behind(t, g) \in 1 .. n /\ Behind(t, g) <= n
        BY <1>2, <1>6, <3>1, <3>5, <3>6, <3>7, <4>1
      <4>3. t[Behind(t, g)].depth > t[i].depth /\ t[Behind(t, g)].depth <= t[g].depth
        BY <1>6, <3>1, <4>2
      <4> QED
        BY <1>2, <3>1, <3>5, <4>2, <4>3
    <3>8. j \in 1 .. n + 1 /\ Behind(t, g) \in 1 .. n + 1 /\ (j = Behind(t, g) \/ j < Behind(t, g))
      <4>1. j \in 1 .. n + 1
        BY <1>2, <3>1
      <4>2. Behind(t, g) \in 1 .. n + 1
        BY <1>6, <3>1
      <4> QED
        BY <1>2, <3>7, <4>1, <4>2
    <3>9. Start(q, j) <= Start(q, Behind(t, g))
      BY <1>3, <3>8
    <3> QED
      BY <3>2, <3>6, <3>9
  <2> QED
    BY <1>1, <1>4, <2>1, <2>2, <2>3 DEF Scans, Start
<1>11. ASSUME NEW i \in 1 .. n
       PROVE  /\ t[i].kind = "record" => t[i] = RecordEntry(t[i].depth, q.chunks[i].id)
              /\ t[i].kind = "group" =>
                   t[i] = GroupEntry(t[i].depth, q.chunks[i].type, q.chunks[i].label)
  <2>1. t[i].kind = "record" => q.chunks[i].id = t[i].id
    BY <1>1 DEF HasRecords, n
  <2>2. t[i].kind = "group" => q.chunks[i].type = t[i].type /\ q.chunks[i].label = t[i].label
    BY <1>1 DEF Group
  <2> QED
    BY <2>1, <2>2 DEF IsTree, n
<1>12. HasTree(q, t)
  BY <1>1, <1>5, <1>9, <1>11 DEF HasTree, n
<1> QED
  BY <1>1, <1>10, <1>12 DEF n

(***************************************************************************)
(* The groups around an entry, from the outside in.                        *)
(***************************************************************************)

\* The one of depth d.
AncestorAt(t, i, d) == CHOOSE g \in Around(t, i) : t[g].depth = d

PathOf(t, i) ==
  [k \in 1 .. t[i].depth |-> <<t[AncestorAt(t, i, k - 1)].type, t[AncestorAt(t, i, k - 1)].label>>]

LEMMA AncestorAtDepth ==
  ASSUME NEW t, IsTree(t), NEW i \in 1 .. Len(t), NEW k \in 1 .. t[i].depth
  PROVE  /\ AncestorAt(t, i, k - 1) \in Around(t, i)
         /\ t[AncestorAt(t, i, k - 1)].depth = k - 1
         /\ \A g \in Around(t, i) : t[g].depth = k - 1 => g = AncestorAt(t, i, k - 1)
<1>1. HasDepths(t) /\ t[i].depth \in Nat
  BY DEF IsTree, HasDepths
<1>2. k - 1 \in Nat /\ k - 1 < t[i].depth
  BY <1>1
<1>3. \E g \in Around(t, i) : t[g].depth = k - 1
  BY <1>2 DEF IsTree
<1>4. AncestorAt(t, i, k - 1) \in Around(t, i) /\ t[AncestorAt(t, i, k - 1)].depth = k - 1
  BY <1>3 DEF AncestorAt
<1>5. ASSUME NEW g \in Around(t, i), t[g].depth = k - 1
      PROVE  g = AncestorAt(t, i, k - 1)
  BY <1>1, <1>4, <1>5, AroundNests
<1> QED
  BY <1>4, <1>5

\* An entry of t is within the same as one of u if each of what it is within there is
\* found at f around the other.
LEMMA SameAncestors ==
  ASSUME NEW t, IsTree(t), NEW u, IsTree(u), NEW i \in 1 .. Len(t), NEW j \in 1 .. Len(u),
         t[i].depth = u[j].depth,
         NEW f, \A g \in Around(t, i) : f[g] \in Around(u, j) /\ u[f[g]].depth = t[g].depth
  PROVE  \A k \in 1 .. t[i].depth : AncestorAt(u, j, k - 1) = f[AncestorAt(t, i, k - 1)]
<1> SUFFICES ASSUME NEW k \in 1 .. t[i].depth
             PROVE  AncestorAt(u, j, k - 1) = f[AncestorAt(t, i, k - 1)]
  OBVIOUS
<1>1. /\ AncestorAt(t, i, k - 1) \in Around(t, i)
      /\ t[AncestorAt(t, i, k - 1)].depth = k - 1
  BY AncestorAtDepth
<1>2. k \in 1 .. u[j].depth
  OBVIOUS
<1>3. \A g \in Around(u, j) : u[g].depth = k - 1 => g = AncestorAt(u, j, k - 1)
  BY <1>2, AncestorAtDepth
<1> QED
  BY <1>1, <1>3

LEMMA SamePath ==
  ASSUME NEW t, IsTree(t), NEW u, IsTree(u), NEW i \in 1 .. Len(t), NEW j \in 1 .. Len(u),
         t[i].depth = u[j].depth,
         NEW f, \A g \in Around(t, i) : f[g] \in Around(u, j) /\ u[f[g]] = t[g]
  PROVE  PathOf(t, i) = PathOf(u, j)
<1>1. \A k \in 1 .. t[i].depth : AncestorAt(u, j, k - 1) = f[AncestorAt(t, i, k - 1)]
  BY SameAncestors
<1>2. ASSUME NEW k \in 1 .. t[i].depth
      PROVE  u[AncestorAt(u, j, k - 1)] = t[AncestorAt(t, i, k - 1)]
  <2>1. AncestorAt(t, i, k - 1) \in Around(t, i)
    BY AncestorAtDepth
  <2> QED
    BY <1>1, <2>1
<1> QED
  BY <1>2 DEF PathOf

\* The groups around a chunk are those around its entry.
LEMMA PathIsRead ==
  ASSUME NEW p, NEW t, HasTree(p, t), NEW i \in 1 .. Len(t)
  PROVE  GroupsAround(p, i) = PathOf(t, i)
<1> DEFINE m == t[i].depth
           S == Around(t, i)
           list == [k \in 1 .. m |-> AncestorAt(t, i, k - 1)]
<1>1. IsTree(t) /\ HasDepths(t) /\ Ancestors(p, i) = S
  BY DEF HasTree, IsTree
<1>2. /\ m \in Nat /\ Len(t) \in Nat /\ S \in SUBSET (1 .. Len(t)) /\ S \in SUBSET Int
      /\ \A g \in S : t[g].depth \in Nat
  BY <1>1 DEF HasDepths, Around
<1>3. IsFiniteSet(S)
  BY <1>2, PlacesAreFinite, FS_Subset
<1>4. \A k \in 1 .. m : list[k] \in S /\ t[list[k]].depth = k - 1
  BY <1>1, AncestorAtDepth
<1>5. \A x \in S : \E k \in 1 .. m : list[k] = x
  <2> SUFFICES ASSUME NEW x \in S
               PROVE  \E k \in 1 .. m : list[k] = x
    OBVIOUS
  <2>1. t[x].depth \in Nat /\ t[x].depth < m
    BY <1>1, <1>2, AroundNests
  <2>2. t[x].depth + 1 \in 1 .. m /\ (t[x].depth + 1) - 1 = t[x].depth
    BY <1>2, <2>1
  <2>3. x = AncestorAt(t, i, (t[x].depth + 1) - 1)
    BY <1>1, <2>2, AncestorAtDepth
  <2>4. list[t[x].depth + 1] = x
    BY <2>2, <2>3
  <2> QED
    BY <2>2, <2>4
<1>6. \A g \in S, h \in S : t[h].depth < t[g].depth => h < g
  <2> SUFFICES ASSUME NEW g \in S, NEW h \in S, t[h].depth < t[g].depth
               PROVE  h < g
    OBVIOUS
  <2>1. g \in Int /\ h \in Int /\ t[g].depth \in Nat /\ t[h].depth \in Nat
    BY <1>2
  <2>2. g < h => t[g].depth < t[h].depth
    <3>1. g < h => g \in Around(t, h)
      BY <1>1, AroundNests
    <3>2. h \in 1 .. Len(t)
      BY <1>2
    <3> QED
      BY <1>1, <3>1, <3>2, AroundNests
  <2> QED
    BY <2>1, <2>2
<1>7. DOMAIN list = 1 .. m
  OBVIOUS
<1> HIDE DEF list, S, m
<1>8. \A k, l \in 1 .. m : k < l => list[k] < list[l]
  <2> SUFFICES ASSUME NEW k \in 1 .. m, NEW l \in 1 .. m, k < l
               PROVE  list[k] < list[l]
    OBVIOUS
  <2>1. t[list[k]].depth = k - 1 /\ t[list[l]].depth = l - 1 /\ k - 1 < l - 1
    BY <1>2, <1>4
  <2>2. t[list[k]].depth < t[list[l]].depth
    BY <2>1
  <2> QED
    BY <1>4, <1>6, <2>2
<1>9. list \in [1 .. m -> S]
  BY <1>4, <1>7 DEF list
<1>10. m <= Cardinality(S) /\ \A k \in 1 .. m : Ascending(S)[k] = list[k]
  BY <1>2, <1>3, <1>5, <1>8, <1>9, AscendingBegins
<1>11. Cardinality(S) <= m
  <2>1. list \in Surjection(1 .. m, S)
    BY <1>5, <1>9 DEF Surjection
  <2>2. IsFiniteSet(1 .. m) /\ Cardinality(1 .. m) = m
    BY <1>2, PlacesAreFinite
  <2> QED
    BY <2>1, <2>2, FS_Surjection
<1>12. Cardinality(S) = m
  BY <1>2, <1>3, <1>10, <1>11, FS_CardinalityType
<1>13. DOMAIN Ascending(S) = 1 .. m
  BY <1>12 DEF Ascending
<1>14. ASSUME NEW k \in 1 .. m
       PROVE  /\ p.chunks[Ascending(S)[k]].type = t[AncestorAt(t, i, k - 1)].type
              /\ p.chunks[Ascending(S)[k]].label = t[AncestorAt(t, i, k - 1)].label
  <2>1. Ascending(S)[k] = list[k] /\ list[k] = AncestorAt(t, i, k - 1) /\ list[k] \in S
    BY <1>4, <1>10 DEF list
  <2>2. list[k] \in 1 .. Len(t) /\ t[list[k]].kind = "group"
    BY <1>1, <1>2, <2>1 DEF IsTree, S
  <2>3. t[list[k]] = GroupEntry(t[list[k]].depth, p.chunks[list[k]].type, p.chunks[list[k]].label)
    BY <2>2 DEF HasTree
  <2>4. \A a, b, c : GroupEntry(a, b, c).type = b /\ GroupEntry(a, b, c).label = c
    BY DEF GroupEntry
  <2>5. /\ t[list[k]].type = p.chunks[list[k]].type
        /\ t[list[k]].label = p.chunks[list[k]].label
    BY <2>3, <2>4
  <2> QED
    BY <2>1, <2>5
<1>15. GroupsAround(p, i)
         = [k \in 1 .. m |-> <<p.chunks[Ascending(S)[k]].type, p.chunks[Ascending(S)[k]].label>>]
  BY <1>1, <1>13 DEF GroupsAround
<1>16. PathOf(t, i)
         = [k \in 1 .. m |-> <<t[AncestorAt(t, i, k - 1)].type, t[AncestorAt(t, i, k - 1)].label>>]
  BY DEF PathOf, m
<1> QED
  BY <1>14, <1>15, <1>16

(***************************************************************************)
(* Entries taken out of a tree.                                            *)
(***************************************************************************)

\* u are the entries of t at the places in P, within the same entries.
IsPart(t, P, u) ==
  /\ IsTree(u) /\ Len(u) = Cardinality(P)
  /\ \A k \in 1 .. Len(u) :
       /\ u[k] = t[Ascending(P)[k]]
       /\ \A g \in 1 .. Len(u) : g \in Around(u, k) <=> Ascending(P)[g] \in Around(t, Ascending(P)[k])

\* Entries are kept with what they are within.
LEMMA PartOfATree ==
  ASSUME NEW t, IsTree(t), NEW P \in SUBSET (1 .. Len(t)), \A i \in P : Around(t, i) \subseteq P
  PROVE  IsPart(t, P, Restricted(t, P))
<1> DEFINE u == Restricted(t, P)
           e == Ascending(P)
           m == Cardinality(P)
           n == Len(t)
<1>1. /\ n \in Nat /\ HasDepths(t)
      /\ \A i \in 1 .. n : t[i].kind \in {"record", "group"} /\ t[i].depth \in Nat
  BY DEF IsTree, HasDepths
<1>2. P \in SUBSET (1 .. n)
  OBVIOUS
<1> HIDE DEF u, e, m, n
<1>3. /\ m \in Nat
      /\ e \in [1 .. m -> P]
      /\ \A x \in P : \E k \in 1 .. m : e[k] = x
      /\ \A k, l \in 1 .. m : k < l <=> e[k] < e[l]
  <2>1. e \in [1 .. m -> P] /\ m \in Nat
    BY <1>1, <1>2, RestrictedTo DEF m, e
  <2>2. \A k, l \in 1 .. m : k < l <=> e[k] < e[l]
    BY <1>1, <1>2, RestrictedTo DEF m, e
  <2>3. \A x \in P : \E k \in 1 .. m : e[k] = x
    BY <1>1, <1>2, RestrictedTo DEF m, e
  <2> QED
    BY <2>1, <2>2, <2>3
<1>4. /\ DOMAIN u = 1 .. m /\ Len(u) = m /\ u = [k \in 1 .. m |-> u[k]]
      /\ \A k \in 1 .. m : u[k] = t[e[k]]
  <2>1. u = [k \in 1 .. m |-> t[e[k]]]
    BY DEF Restricted, u, m, e
  <2> QED
    BY <1>3, <2>1
<1>5. \A k \in 1 .. m : e[k] \in 1 .. n /\ e[k] \in P /\ u[k] = t[e[k]]
  BY <1>2, <1>3, <1>4
<1>6. HasDepths(u)
  BY <1>1, <1>3, <1>4, <1>5 DEF HasDepths
<1>7. ASSUME NEW k \in 1 .. m, NEW g \in 1 .. m, e[g] \in Around(t, e[k])
      PROVE  g \in Around(u, k)
  <2>1. e[g] < e[k] /\ \A x \in e[g] + 1 .. e[k] : t[e[g]].depth < t[x].depth
    BY <1>1, <1>5, <1>7 DEF Around
  <2>2. g \in 1 .. k - 1
    BY <1>3, <2>1
  <2>3. ASSUME NEW l \in g + 1 .. k
        PROVE  u[g].depth < u[l].depth
    <3>1. l \in 1 .. m /\ g < l /\ (l = k \/ l < k)
      BY <1>3, <2>2
    <3>2. e[l] \in 1 .. n /\ e[g] \in 1 .. n /\ e[k] \in 1 .. n /\ e[g] < e[l] /\ (l < k => e[l] < e[k])
      BY <1>3, <1>5, <3>1
    <3>3. e[l] \in e[g] + 1 .. e[k]
      BY <1>1, <3>1, <3>2
    <3> QED
      BY <1>5, <2>1, <3>1, <3>3
  <2> QED
    BY <2>2, <2>3 DEF Around
<1>8. ASSUME NEW k \in 1 .. m, NEW g \in 1 .. m, g \in Around(u, k)
      PROVE  e[g] \in Around(t, e[k])
  <2>1. g < k /\ \A l \in g + 1 .. k : u[g].depth < u[l].depth
    BY <1>3, <1>8 DEF Around
  <2>2. e[g] < e[k] /\ e[g] \in 1 .. n /\ e[k] \in 1 .. n
    BY <1>3, <1>5, <2>1
  <2>3. u[g].depth < u[k].depth
    <3>1. k \in g + 1 .. k
      BY <1>3, <2>1
    <3> QED
      BY <2>1, <3>1
  <2>4. PICK a \in Around(t, e[k]) : t[a].depth = t[e[g]].depth
    <3>1. t[e[g]].depth \in Nat /\ t[e[g]].depth < t[e[k]].depth
      BY <1>1, <1>5, <2>2, <2>3
    <3> QED
      BY <2>2, <3>1 DEF IsTree, n
  <2>5. PICK b \in 1 .. m : e[b] = a
    BY <1>3, <1>5, <2>2, <2>4
  <2>6. b \in Around(u, k)
    BY <1>7, <2>4, <2>5
  <2>7. u[b].depth = u[g].depth
    BY <1>5, <2>4, <2>5
  <2>8. b = g
    BY <1>4, <1>6, <1>8, <2>6, <2>7, AroundNests
  <2> QED
    BY <2>4, <2>5, <2>8
<1>9. ASSUME NEW k \in 1 .. m, NEW a \in Around(t, e[k])
      PROVE  \E g \in Around(u, k) : e[g] = a /\ g \in 1 .. m /\ u[g] = t[a]
  <2>1. a \in P
    BY <1>5
  <2>2. PICK g \in 1 .. m : e[g] = a
    BY <1>3, <2>1
  <2> QED
    BY <1>5, <1>7, <2>2
<1>10. ASSUME NEW k \in 1 .. m
       PROVE  /\ \A d \in Nat : d < u[k].depth => \E g \in Around(u, k) : u[g].depth = d
              /\ \A g \in Around(u, k) : u[g].kind = "group"
              /\ u[k].kind = "record" => u[k] = RecordEntry(u[k].depth, u[k].id)
              /\ u[k].kind = "group" => u[k] = GroupEntry(u[k].depth, u[k].type, u[k].label)
  <2>1. e[k] \in 1 .. n /\ u[k] = t[e[k]]
    BY <1>5
  <2>2. ASSUME NEW d \in Nat, d < u[k].depth PROVE \E g \in Around(u, k) : u[g].depth = d
    <3>1. PICK a \in Around(t, e[k]) : t[a].depth = d
      BY <2>1, <2>2 DEF IsTree, n
    <3> QED
      BY <1>9, <3>1
  <2>3. ASSUME NEW g \in Around(u, k) PROVE u[g].kind = "group"
    <3>1. g \in 1 .. m
      BY <1>3 DEF Around
    <3> QED
      BY <1>5, <1>8, <2>1, <3>1 DEF IsTree, n
  <2>4. /\ u[k].kind = "record" => u[k] = RecordEntry(u[k].depth, u[k].id)
        /\ u[k].kind = "group" => u[k] = GroupEntry(u[k].depth, u[k].type, u[k].label)
    BY <2>1 DEF IsTree, n
  <2> QED
    BY <2>2, <2>3, <2>4
<1>11. IsTree(u)
  BY <1>4, <1>6, <1>10 DEF IsTree
<1>12. IsPart(t, P, u)
  BY <1>4, <1>7, <1>8, <1>11 DEF IsPart, e, m
<1> QED
  BY <1>12 DEF u

\* So the groups around them are the same.
LEMMA PartKeepsPaths ==
  ASSUME NEW t, IsTree(t), NEW P \in SUBSET (1 .. Len(t)), NEW u, IsPart(t, P, u),
         NEW k \in 1 .. Len(u)
  PROVE  Ascending(P)[k] \in P /\ PathOf(u, k) = PathOf(t, Ascending(P)[k])
<1> DEFINE e == Ascending(P)
<1>1. Len(t) \in Nat /\ Len(u) \in Nat /\ IsTree(u)
  BY DEF IsTree, HasDepths, IsPart
<1>2. Ascending(P) \in [1 .. Cardinality(P) -> P]
  BY <1>1, RestrictedTo
<1>3. e[k] \in P /\ e[k] \in 1 .. Len(t)
  BY <1>2 DEF IsPart
<1>4. \A g \in Around(u, k) : g \in 1 .. Len(u)
  BY <1>1 DEF Around
<1>5. \A g \in Around(u, k) : e[g] \in Around(t, e[k]) /\ t[e[g]] = u[g]
  BY <1>4 DEF IsPart
<1>6. u[k].depth = t[e[k]].depth
  BY DEF IsPart
<1> HIDE DEF e
<1>7. PathOf(u, k) = PathOf(t, e[k])
  BY <1>1, <1>3, <1>5, <1>6, SamePath
<1> QED
  BY <1>3, <1>7 DEF e

\* The places that remove_record leaves.
LeftBy(t, ids) == {i \in DOMAIN t : t[i].kind = "record" => t[i].id \notin ids}

\* It takes records out, and no group.
LEMMA RemovedRecords ==
  ASSUME NEW t, IsTree(t), NEW ids
  PROVE  /\ LeftBy(t, ids) \in SUBSET (1 .. Len(t))
         /\ IsPart(t, LeftBy(t, ids), RemoveRecords(t, ids))
<1>1. HasDepths(t) /\ DOMAIN t = 1 .. Len(t) /\ Len(t) \in Nat
  BY DEF IsTree, HasDepths
<1>2. \A i \in 1 .. Len(t) : \A g \in Around(t, i) : g \in 1 .. Len(t) /\ t[g].kind = "group"
  BY <1>1 DEF IsTree, Around
<1>3. LeftBy(t, ids) \in SUBSET (1 .. Len(t))
  BY <1>1 DEF LeftBy
<1>4. \A i \in LeftBy(t, ids) : Around(t, i) \subseteq LeftBy(t, ids)
  BY <1>1, <1>2 DEF LeftBy
<1>5. RemoveRecords(t, ids) = Restricted(t, LeftBy(t, ids))
  BY DEF RemoveRecords, LeftBy
<1> QED
  BY <1>3, <1>4, <1>5, PartOfATree

\* Records removed one after the other are removed all.
LEMMA RemovedTwice ==
  ASSUME NEW t, IsTree(t), NEW some, NEW more
  PROVE  RemoveRecords(RemoveRecords(t, some), more) = RemoveRecords(t, some \cup more)
<1> DEFINE P == LeftBy(t, some)
           R == LeftBy(t, some \cup more)
           u == RemoveRecords(t, some)
           Q == LeftBy(u, more)
<1>1. HasDepths(t) /\ DOMAIN t = 1 .. Len(t) /\ Len(t) \in Nat
  BY DEF IsTree, HasDepths
<1>2. P \in SUBSET (1 .. Len(t)) /\ IsPart(t, P, u)
  BY RemovedRecords
<1>3. R \in SUBSET P
  BY DEF LeftBy
<1>4. DOMAIN u = 1 .. Cardinality(P) /\ Len(u) = Cardinality(P)
  BY <1>2 DEF IsPart, IsTree, HasDepths
<1>5. Q \in SUBSET (1 .. Cardinality(P))
  BY <1>4 DEF LeftBy
<1>6. Ascending(P) \in [1 .. Cardinality(P) -> P]
  BY <1>1, <1>2, RestrictedTo
<1>7. ASSUME NEW k \in 1 .. Cardinality(P)
      PROVE  k \in Q <=> Ascending(P)[k] \in R
  <2> DEFINE x == Ascending(P)[k]
  <2>1. x \in P /\ u[k] = t[x] /\ k \in DOMAIN u
    BY <1>2, <1>4, <1>6 DEF IsPart
  <2> HIDE DEF x, u
  <2>2. x \in DOMAIN t /\ (t[x].kind = "record" => t[x].id \notin some)
    BY <2>1 DEF LeftBy
  <2>3. k \in Q <=> (t[x].kind = "record" => t[x].id \notin more)
    BY <2>1 DEF LeftBy
  <2>4. x \in R <=> (t[x].kind = "record" => t[x].id \notin some \cup more)
    BY <2>2 DEF LeftBy
  <2>5. k \in Q <=> x \in R
    BY <2>2, <2>3, <2>4
  <2> QED
    BY <2>5 DEF x
<1>8. u = Restricted(t, P)
  BY DEF RemoveRecords, LeftBy
<1>9. /\ RemoveRecords(u, more) = Restricted(u, Q)
      /\ RemoveRecords(t, some \cup more) = Restricted(t, R)
  BY DEF RemoveRecords, LeftBy
<1> HIDE DEF P, Q, R, u
<1> DEFINE n == Len(t)
<1>10. n \in Nat /\ P \in SUBSET (1 .. n)
  BY <1>1, <1>2
<1> HIDE DEF n
<1>11. Restricted(Restricted(t, P), Q) = Restricted(t, R)
  <2>1. \A k \in 1 .. Cardinality(P) : k \in Q <=> Ascending(P)[k] \in R
    BY <1>7
  <2> QED
    BY <1>3, <1>5, <1>10, <2>1, RestrictedTwice
<1> QED
  BY <1>8, <1>9, <1>11 DEF u

(***************************************************************************)
(* An entry put into a tree.                                               *)
(***************************************************************************)

\* What an entry of depth d at place end would be within.
Opening(t, end, d) ==
  {g \in 1 .. end - 1 : t[g].depth < d /\ \A k \in g + 1 .. end - 1 : t[g].depth < t[k].depth}

\* It would be in a tree there.
Fits(t, end, d) ==
  /\ d \in Nat /\ end \in 1 .. Len(t) + 1
  /\ end <= Len(t) => t[end].depth < d
  /\ \A g \in Opening(t, end, d) : t[g].kind = "group"
  /\ \A c \in Nat : c < d => \E g \in Opening(t, end, d) : t[g].depth = c

\* It fits at the end of the tree, outside of every group,
LEMMA FitsAtTheEnd ==
  ASSUME NEW t, IsTree(t)
  PROVE  Fits(t, Len(t) + 1, 0)
<1>1. Len(t) \in Nat /\ \A g \in 1 .. Len(t) : t[g].depth \in Nat
  BY DEF IsTree, HasDepths
<1>2. Opening(t, Len(t) + 1, 0) = {}
  <2>1. \A g \in 1 .. (Len(t) + 1) - 1 : g \in 1 .. Len(t)
    BY <1>1
  <2> QED
    BY <1>1, <2>1 DEF Opening
<1> QED
  BY <1>1, <1>2 DEF Fits

\* and at the end of a group.
LEMMA FitsInAGroup ==
  ASSUME NEW t, IsTree(t), NEW p \in 1 .. Len(t), t[p].kind = "group"
  PROVE  /\ Fits(t, Behind(t, p), t[p].depth + 1) /\ p < Behind(t, p)
         /\ Opening(t, Behind(t, p), t[p].depth + 1) = Around(t, p) \cup {p}
<1> DEFINE end == Behind(t, p)
           d == t[p].depth + 1
<1>1. HasDepths(t) /\ Len(t) \in Nat /\ \A g \in 1 .. Len(t) : t[g].depth \in Nat
  BY DEF IsTree, HasDepths
<1>2. /\ end \in p + 1 .. Len(t) + 1
      /\ \A k \in p + 1 .. end - 1 : t[k].depth > t[p].depth
      /\ end <= Len(t) => t[end].depth <= t[p].depth
  BY <1>1, BehindEnds DEF Ends
<1> HIDE DEF end
<1>3. ASSUME NEW g \in Around(t, p)
      PROVE  g \in Opening(t, end, d)
  <2>1. g \in 1 .. p - 1 /\ t[g].depth < t[p].depth /\ g \in 1 .. Len(t)
    BY <1>1, AroundNests DEF Around
  <2>2. ASSUME NEW k \in g + 1 .. end - 1 PROVE t[g].depth < t[k].depth
    <3>1. k \in 1 .. Len(t) /\ (k \in g + 1 .. p \/ k \in p + 1 .. end - 1)
      BY <1>1, <1>2, <2>1
    <3>2. k \in g + 1 .. p => t[g].depth < t[k].depth
      BY DEF Around
    <3>3. k \in p + 1 .. end - 1 => t[k].depth > t[p].depth
      BY <1>2
    <3>4. t[k].depth \in Nat /\ t[g].depth \in Nat /\ t[p].depth \in Nat
      BY <1>1, <2>1, <3>1
    <3> QED
      BY <2>1, <3>1, <3>2, <3>3, <3>4
  <2>3. g \in 1 .. end - 1 /\ t[g].depth < d
    BY <1>1, <1>2, <2>1
  <2> QED
    BY <2>2, <2>3 DEF Opening
<1>4. p \in Opening(t, end, d)
  BY <1>1, <1>2 DEF Opening
<1>5. ASSUME NEW g \in Opening(t, end, d), g # p
      PROVE  g \in Around(t, p)
  <2>1. g \in 1 .. end - 1 /\ t[g].depth < d /\ \A k \in g + 1 .. end - 1 : t[g].depth < t[k].depth
    BY DEF Opening
  <2>2. g \in 1 .. Len(t) /\ (g < p \/ g \in p + 1 .. end - 1)
    BY <1>1, <1>2, <1>5, <2>1
  <2>3. ~ g \in p + 1 .. end - 1
    BY <1>1, <1>2, <2>1, <2>2
  <2>4. g \in 1 .. p - 1 /\ \A k \in g + 1 .. p : k \in g + 1 .. end - 1
    BY <1>1, <1>2, <2>2, <2>3
  <2> QED
    BY <2>1, <2>4 DEF Around
<1>6. Opening(t, end, d) = Around(t, p) \cup {p}
  BY <1>3, <1>4, <1>5
<1>7. ASSUME NEW c \in Nat, c < d
      PROVE  \E g \in Opening(t, end, d) : t[g].depth = c
  <2>1. c = t[p].depth \/ c < t[p].depth
    BY <1>1, <1>7
  <2>2. c < t[p].depth => \E g \in Around(t, p) : t[g].depth = c
    BY DEF IsTree
  <2> QED
    BY <1>3, <1>4, <2>1, <2>2
<1>8. \A g \in Around(t, p) \cup {p} : t[g].kind = "group"
  BY DEF IsTree
<1>9. d \in Nat /\ end \in 1 .. Len(t) + 1 /\ (end <= Len(t) => t[end].depth < d) /\ p < end
  <2>1. end \in 1 .. Len(t) + 1 /\ p < end /\ d \in Nat
    BY <1>1, <1>2
  <2>2. end <= Len(t) => end \in 1 .. Len(t)
    BY <2>1
  <2> QED
    BY <1>1, <1>2, <2>1, <2>2
<1>10. Fits(t, end, d)
  BY <1>6, <1>7, <1>8, <1>9 DEF Fits
<1> QED
  BY <1>6, <1>9, <1>10 DEF end

\* Where an entry is once one has been put in at end.
Moved(end, x) == IF x < end THEN x ELSE x + 1

\* u is t with the entry e put in at end.
IsEntered(t, end, e, u) ==
  /\ IsTree(u) /\ Len(u) = Len(t) + 1
  /\ u[end] = e /\ Around(u, end) = Opening(t, end, e.depth)
  /\ \A x \in 1 .. Len(t) :
       /\ u[Moved(end, x)] = t[x]
       /\ \A g \in Around(t, x) : Moved(end, g) \in Around(u, Moved(end, x))

\* An entry of a kind, a depth and what else it has.
IsEntry(e) ==
  /\ e.depth \in Nat /\ e.kind \in {"record", "group"}
  /\ e.kind = "record" => e = RecordEntry(e.depth, e.id)
  /\ e.kind = "group" => e = GroupEntry(e.depth, e.type, e.label)

LEMMA MovedPlaces ==
  ASSUME NEW n \in Nat, NEW end \in 1 .. n + 1
  PROVE  /\ \A x \in 1 .. n : Moved(end, x) \in 1 .. n + 1 /\ Moved(end, x) # end
         /\ \A x, y \in 1 .. n : x < y <=> Moved(end, x) < Moved(end, y)
         /\ \A y \in 1 .. n + 1 : y # end => \E x \in 1 .. n : Moved(end, x) = y
<1>1. \A x \in 1 .. n : Moved(end, x) \in 1 .. n + 1 /\ Moved(end, x) # end
  BY DEF Moved
<1>2. \A x, y \in 1 .. n : x < y <=> Moved(end, x) < Moved(end, y)
  BY DEF Moved
<1>3. ASSUME NEW y \in 1 .. n + 1, y # end
      PROVE  \E x \in 1 .. n : Moved(end, x) = y
  <2>1. CASE y < end
    BY <2>1 DEF Moved
  <2>2. CASE y > end
    <3>1. y - 1 \in 1 .. n /\ Moved(end, y - 1) = y
      BY <2>2 DEF Moved
    <3> QED
      BY <3>1
  <2> QED
    BY <1>3, <2>1, <2>2
<1> QED
  BY <1>1, <1>2, <1>3

LEMMA EnteredTree ==
  ASSUME NEW t, IsTree(t), NEW end, NEW e, IsEntry(e), Fits(t, end, e.depth)
  PROVE  IsEntered(t, end, e, InsertAt(t, end, e))
<1> DEFINE n == Len(t)
           u == InsertAt(t, end, e)
           d == e.depth
<1>1. /\ n \in Nat /\ HasDepths(t) /\ t = [i \in 1 .. n |-> t[i]]
      /\ \A i \in 1 .. n : IsEntry(t[i]) /\ t[i].depth \in Nat
  BY DEF IsTree, HasDepths, IsEntry
<1>2. end \in 1 .. n + 1 /\ (end <= n => t[end].depth < d) /\ d \in Nat
  BY DEF Fits
<1>3. /\ u = [k \in 1 .. n + 1 |-> u[k]] /\ Len(u) = n + 1 /\ DOMAIN u = 1 .. n + 1
      /\ \A k \in 1 .. n + 1 : u[k] = IF k < end THEN t[k] ELSE IF k = end THEN e ELSE t[k - 1]
  <2> DEFINE S == {t[i] : i \in 1 .. n} \cup {e}
  <2>1. t \in [1 .. n -> S] /\ e \in S
    BY <1>1
  <2>2. t \in Seq(S)
    BY <1>1, <2>1
  <2> HIDE DEF S
  <2>5. end \in 1 .. Len(t) + 1 /\ e \in S
    BY <1>2, <2>1
  <2> HIDE DEF n
  <2>6. /\ InsertAt(t, end, e) \in Seq(S)
        /\ Len(InsertAt(t, end, e)) = Len(t) + 1
        /\ \A k \in 1 .. Len(t) + 1 :
             InsertAt(t, end, e)[k] = IF k < end THEN t[k] ELSE IF k = end THEN e ELSE t[k - 1]
    BY <2>2, <2>5, InsertedAt
  <2>3. /\ u \in Seq(S) /\ Len(u) = n + 1
        /\ \A k \in 1 .. n + 1 : u[k] = IF k < end THEN t[k] ELSE IF k = end THEN e ELSE t[k - 1]
    BY <2>6 DEF n
  <2>4. DOMAIN u = 1 .. n + 1 /\ u = [k \in 1 .. n + 1 |-> u[k]]
    BY <2>3
  <2> QED
    BY <2>3, <2>4
<1> HIDE DEF u, n, d
<1>4. /\ \A x \in 1 .. n : Moved(end, x) \in 1 .. n + 1 /\ Moved(end, x) # end
      /\ \A x, y \in 1 .. n : x < y <=> Moved(end, x) < Moved(end, y)
      /\ \A y \in 1 .. n + 1 : y # end => \E x \in 1 .. n : Moved(end, x) = y
  BY <1>1, <1>2, MovedPlaces
<1>5. u[end] = e
  BY <1>2, <1>3
<1>6. \A x \in 1 .. n : u[Moved(end, x)] = t[x]
  <2> SUFFICES ASSUME NEW x \in 1 .. n PROVE u[Moved(end, x)] = t[x]
    OBVIOUS
  <2>1. CASE x < end
    <3>1. Moved(end, x) = x /\ x \in 1 .. n + 1
      BY <1>1, <2>1 DEF Moved
    <3> QED
      BY <1>3, <2>1, <3>1
  <2>2. CASE ~ x < end
    <3>1. Moved(end, x) = x + 1 /\ x + 1 \in 1 .. n + 1 /\ ~ x + 1 < end /\ x + 1 # end /\ (x + 1) - 1 = x
      BY <1>1, <1>2, <2>2 DEF Moved
    <3> QED
      BY <1>3, <3>1
  <2> QED
    BY <2>1, <2>2
<1>7. \A k \in 1 .. n + 1 : IsEntry(u[k]) /\ u[k].depth \in Nat
  <2> SUFFICES ASSUME NEW k \in 1 .. n + 1 PROVE IsEntry(u[k]) /\ u[k].depth \in Nat
    OBVIOUS
  <2>1. k = end \/ \E x \in 1 .. n : Moved(end, x) = k
    BY <1>4
  <2>2. u[k] = e \/ \E x \in 1 .. n : u[k] = t[x]
    BY <1>5, <1>6, <2>1
  <2> QED
    BY <1>1, <1>2, <2>2 DEF d
<1>8. HasDepths(u)
  BY <1>1, <1>3, <1>7 DEF HasDepths, IsEntry
<1>9. Around(u, end) = Opening(t, end, d)
  <2>1. ASSUME NEW g \in 1 .. end - 1
        PROVE  (\A k \in g + 1 .. end : u[g].depth < u[k].depth)
                 <=> t[g].depth < d /\ \A k \in g + 1 .. end - 1 : t[g].depth < t[k].depth
    <3>3. \A k \in 1 .. end - 1 : k \in 1 .. n + 1 /\ k < end
      BY <1>1, <1>2
    <3>4. \A k \in 1 .. end - 1 : u[k] = t[k]
      BY <1>3, <3>3
    <3>5. \A k \in g + 1 .. end - 1 : k \in 1 .. end - 1
      BY <1>1, <1>2
    <3>1. u[g] = t[g] /\ \A k \in g + 1 .. end - 1 : u[k] = t[k]
      BY <3>4, <3>5
    <3>2. \A k : k \in g + 1 .. end <=> k \in g + 1 .. end - 1 \/ k = end
      BY <1>1, <1>2
    <3> QED
      BY <1>5, <3>1, <3>2 DEF d
  <2> QED
    BY <2>1 DEF Around, Opening
<1>10. ASSUME NEW x \in 1 .. n, NEW g \in Around(t, x)
       PROVE  Moved(end, g) \in Around(u, Moved(end, x))
  <2>1. g \in 1 .. n /\ g < x /\ t[g].depth < t[x].depth /\ \A k \in g + 1 .. x : t[g].depth < t[k].depth
    BY <1>1, AroundNests DEF Around, n
  <2>2. /\ Moved(end, g) < Moved(end, x)
        /\ Moved(end, g) \in 1 .. n + 1 /\ Moved(end, x) \in 1 .. n + 1
    BY <1>4, <2>1
  <2>3. ASSUME NEW k \in Moved(end, g) + 1 .. Moved(end, x)
        PROVE  u[Moved(end, g)].depth < u[k].depth
    <3>1. k \in 1 .. n + 1 /\ Moved(end, g) < k /\ k <= Moved(end, x)
      BY <1>1, <2>2
    <3>2. CASE k = end
      <4>1. g < end /\ end <= x
        BY <1>1, <1>2, <2>1, <2>2, <3>1, <3>2 DEF Moved
      <4>2. end \in g + 1 .. x /\ end <= n /\ end \in 1 .. n
        BY <1>1, <1>2, <2>1, <4>1
      <4>3. t[g].depth < t[end].depth /\ t[end].depth < d /\ t[end].depth \in Nat
        BY <1>1, <1>2, <2>1, <4>2
      <4>4. t[g].depth < d
        BY <1>1, <1>2, <2>1, <4>3
      <4> QED
        BY <1>5, <1>6, <2>1, <3>2, <4>4 DEF d
    <3>3. CASE k # end
      <4>1. PICK y \in 1 .. n : Moved(end, y) = k
        BY <1>4, <3>1, <3>3
      <4>2. g < y /\ y <= x
        <5>1. g < y
          BY <1>4, <2>1, <3>1, <4>1
        <5>2. ~ x < y
          BY <1>4, <2>1, <2>2, <3>1, <4>1
        <5> QED
          BY <1>1, <5>1, <5>2
      <4>3. y \in g + 1 .. x
        BY <1>1, <2>1, <4>2
      <4> QED
        BY <1>6, <2>1, <4>1, <4>3
    <3> QED
      BY <3>2, <3>3
  <2>4. Moved(end, g) \in 1 .. Moved(end, x) - 1
    BY <1>1, <2>2
  <2> QED
    BY <2>3, <2>4 DEF Around
<1>11. ASSUME NEW x \in 1 .. n, NEW h \in Around(u, Moved(end, x))
       PROVE  \E g \in Around(t, x) : h = Moved(end, g)
  <2> DEFINE y == Moved(end, x)
  <2>1. /\ y \in 1 .. n + 1 /\ h \in 1 .. y - 1
        /\ \A k \in h + 1 .. y : u[h].depth < u[k].depth
    BY <1>4 DEF Around
  <2>2. h # end
    <3> SUFFICES ASSUME h = end PROVE FALSE
      OBVIOUS
    <3>1. end < y /\ end + 1 \in h + 1 .. y
      BY <1>2, <2>1
    <3>2. end <= n /\ end \in 1 .. n /\ Moved(end, end) = end + 1
      BY <1>1, <1>2, <2>1, <3>1 DEF Moved
    <3>3. u[end].depth < u[end + 1].depth /\ u[end + 1] = t[end] /\ u[end].depth = d
      BY <1>5, <1>6, <2>1, <3>1, <3>2 DEF d
    <3> QED
      BY <1>1, <1>2, <3>2, <3>3
  <2>3. PICK g \in 1 .. n : h = Moved(end, g)
    <3>1. h \in 1 .. n + 1
      BY <1>1, <2>1
    <3> QED
      BY <1>4, <2>2, <3>1
  <2>4. g < x
    <3>1. Moved(end, g) < Moved(end, x)
      BY <1>1, <2>1, <2>3
    <3> QED
      BY <1>4, <3>1
  <2>5. ASSUME NEW k \in g + 1 .. x PROVE t[g].depth < t[k].depth
    <3>1. k \in 1 .. n /\ g < k /\ (k = x \/ k < x)
      BY <1>1, <2>4
    <3>2. Moved(end, g) < Moved(end, k) /\ (k < x => Moved(end, k) < Moved(end, x))
      BY <1>4, <3>1
    <3>3. Moved(end, k) \in h + 1 .. y
      <4>1. Moved(end, k) \in 1 .. n + 1 /\ Moved(end, g) \in 1 .. n + 1
        BY <1>4, <3>1
      <4> QED
        BY <1>1, <2>1, <2>3, <3>1, <3>2, <4>1
    <3> QED
      BY <1>6, <2>1, <2>3, <3>1, <3>3
  <2>6. g \in 1 .. x - 1
    BY <1>1, <2>4
  <2> QED
    BY <2>3, <2>5, <2>6 DEF Around
<1>12. ASSUME NEW k \in 1 .. n + 1
       PROVE  /\ \A c \in Nat : c < u[k].depth => \E g \in Around(u, k) : u[g].depth = c
              /\ \A g \in Around(u, k) : u[g].kind = "group"
  <2>1. CASE k = end
    <3>1. Around(u, k) = Opening(t, end, d) /\ u[k].depth = d
      BY <1>5, <1>9, <2>1 DEF d
    <3>2. \A g \in Opening(t, end, d) : u[g] = t[g]
      <4>1. \A g \in Opening(t, end, d) : g \in 1 .. n + 1 /\ g < end
        BY <1>1, <1>2 DEF Opening
      <4> QED
        BY <1>3, <4>1
    <3> QED
      BY <3>1, <3>2 DEF Fits, d
  <2>2. CASE k # end
    <3>1. PICK x \in 1 .. n : Moved(end, x) = k
      BY <1>4, <2>2
    <3>2. \A g \in Around(t, x) : g \in 1 .. n /\ t[g].kind = "group"
      BY <1>1 DEF IsTree, Around, n
    <3>3. ASSUME NEW c \in Nat, c < u[k].depth PROVE \E g \in Around(u, k) : u[g].depth = c
      <4>1. u[k] = t[x]
        BY <1>6, <3>1
      <4>2. PICK g \in Around(t, x) : t[g].depth = c
        BY <3>3, <4>1 DEF IsTree, n
      <4> QED
        BY <1>6, <1>10, <3>1, <3>2, <4>2
    <3>4. ASSUME NEW h \in Around(u, k) PROVE u[h].kind = "group"
      <4>1. PICK g \in Around(t, x) : h = Moved(end, g)
        BY <1>11, <3>1
      <4> QED
        BY <1>6, <3>2, <4>1
    <3> QED
      BY <3>3, <3>4
  <2> QED
    BY <2>1, <2>2
<1>13. IsTree(u)
  <2>1. \A k \in 1 .. n + 1 : /\ u[k].kind = "record" => u[k] = RecordEntry(u[k].depth, u[k].id)
                              /\ u[k].kind = "group" => u[k] = GroupEntry(u[k].depth, u[k].type, u[k].label)
    BY <1>7 DEF IsEntry
  <2> QED
    BY <1>3, <1>8, <1>12, <2>1 DEF IsTree
<1>14. IsEntered(t, end, e, u)
  BY <1>3, <1>5, <1>6, <1>9, <1>10, <1>13 DEF IsEntered, n, d
<1> QED
  BY <1>14 DEF u

(***************************************************************************)
(* Two trees in one.                                                       *)
(***************************************************************************)

\* m has all the entries of t, each at the place that f says and within the same ones as
\* in t.
Embeds(t, n, f, m) ==
  /\ f \in [1 .. n -> 1 .. Len(m)]
  /\ \A x \in 1 .. n : m[f[x]] = t[x] /\ \A g \in Around(t, x) : f[g] \in Around(m, f[x])

\* The tree m is made of t and the first n of the entries in added: those of t are in it in
\* their order, and of the records each has a place of its own.
Unites(m, t, added, n, b, a) ==
  /\ IsTree(m)
  /\ Embeds(t, Len(t), b, m) /\ Embeds(added, n, a, m)
  /\ \A x, y \in 1 .. Len(t) : x < y => b[x] < b[y]
  /\ \A i \in 1 .. Len(m) : (\E x \in 1 .. Len(t) : b[x] = i) \/ \E k \in 1 .. n : a[k] = i
  /\ \A k \in 1 .. n : added[k].kind = "record" =>
       /\ \A x \in 1 .. Len(t) : b[x] # a[k]
       /\ \A l \in 1 .. n : a[l] = a[k] => l = k

\* path leads to the n-th entry added.
Leads(path, added, n, a) ==
  /\ path \in Seq(Nat)
  /\ n # 0 => /\ Len(path) = added[n].depth + 1 /\ path[Len(path)] = a[n]
              /\ \A g \in Around(added, n) : path[added[g].depth + 1] = a[g]

\* What the next entry is within is what the last one is within, or the last one.
LEMMA AroundNext ==
  ASSUME NEW t, IsTree(t), NEW j \in Nat, j + 1 <= Len(t)
  PROVE  /\ \A g \in Around(t, j + 1) : g \in 1 .. j /\ (g = j \/ g \in Around(t, j))
         /\ j # 0 => t[j + 1].depth <= t[j].depth + 1
         /\ j = 0 => t[j + 1].depth = 0
<1>1. HasDepths(t) /\ Len(t) \in Nat /\ \A i \in 1 .. Len(t) : t[i].depth \in Nat
  BY DEF IsTree, HasDepths
<1>2. ASSUME NEW g \in Around(t, j + 1)
      PROVE  g \in 1 .. j /\ (g = j \/ g \in Around(t, j))
  <2>1. g \in 1 .. (j + 1) - 1 /\ \A k \in g + 1 .. j + 1 : t[g].depth < t[k].depth
    BY DEF Around
  <2>2. g \in 1 .. j /\ (g = j \/ g \in 1 .. j - 1) /\ \A k \in g + 1 .. j : k \in g + 1 .. j + 1
    BY <2>1
  <2> QED
    BY <2>1, <2>2 DEF Around
<1>3. j + 1 \in 1 .. Len(t)
  BY <1>1
<1>4. t[j + 1].depth # 0 =>
        \E g \in Around(t, j + 1) : t[g].depth = t[j + 1].depth - 1
  <2>1. t[j + 1].depth \in Nat
    BY <1>1, <1>3
  <2>2. t[j + 1].depth # 0 => t[j + 1].depth - 1 \in Nat /\ t[j + 1].depth - 1 < t[j + 1].depth
    BY <2>1
  <2> QED
    BY <1>3, <2>2 DEF IsTree
<1>5. ASSUME j # 0
      PROVE  t[j + 1].depth <= t[j].depth + 1
  <2>1. j \in 1 .. Len(t) /\ t[j].depth \in Nat /\ t[j + 1].depth \in Nat
    BY <1>1, <1>3, <1>5
  <2>2. CASE t[j + 1].depth = 0
    BY <2>1, <2>2
  <2>3. CASE t[j + 1].depth # 0
    <3>1. PICK g \in Around(t, j + 1) : t[g].depth = t[j + 1].depth - 1
      BY <1>4, <2>3
    <3>2. t[g].depth <= t[j].depth /\ t[g].depth \in Nat
      <4>1. g \in 1 .. Len(t)
        BY <1>1, <1>2, <2>1
      <4>2. g \in Around(t, j) => t[g].depth < t[j].depth
        BY <1>1, <2>1, AroundNests
      <4>3. g = j \/ g \in Around(t, j)
        BY <1>2
      <4> QED
        BY <1>1, <2>1, <4>1, <4>2, <4>3
    <3> QED
      BY <2>1, <3>1, <3>2
  <2> QED
    BY <2>2, <2>3
<1>6. ASSUME j = 0
      PROVE  t[j + 1].depth = 0
  <2>1. \A g \in Around(t, j + 1) : FALSE
    BY <1>2, <1>6
  <2> QED
    BY <1>4, <2>1
<1> QED
  BY <1>2, <1>5, <1>6

\* parents are what entry i is within.
AreParents(parents, t, i, a) ==
  /\ parents \in Seq(Nat) /\ Len(parents) = t[i].depth
  /\ \A g \in Around(t, i) : parents[t[g].depth + 1] = a[g]

\* The part of the path that is around the next entry.
LEMMA ParentsOfNext ==
  ASSUME NEW t, IsTree(t), NEW j \in Nat, j + 1 <= Len(t), NEW path, NEW a, Leads(path, t, j, a),
         NEW parents, parents = SubSeq(path, 1, t[j + 1].depth)
  PROVE  AreParents(parents, t, j + 1, a)
<1> DEFINE d == t[j + 1].depth
<1>1. HasDepths(t) /\ Len(t) \in Nat /\ \A i \in 1 .. Len(t) : t[i].depth \in Nat
  BY DEF IsTree, HasDepths
<1>2. j + 1 \in 1 .. Len(t) /\ d \in Nat
  BY <1>1
<1>3. path \in Seq(Nat) /\ Len(path) \in Nat /\ \A k \in 1 .. Len(path) : path[k] \in Nat
  BY DEF Leads
<1>4. d <= Len(path)
  <2>1. CASE j = 0
    <3>1. d = 0
      BY <2>1, AroundNext
    <3> QED
      BY <1>3, <3>1
  <2>2. CASE j # 0
    <3>1. Len(path) = t[j].depth + 1
      BY <2>2 DEF Leads
    <3>2. d <= t[j].depth + 1
      BY <2>2, AroundNext
    <3> QED
      BY <3>1, <3>2
  <2> QED
    BY <2>1, <2>2
<1> HIDE DEF d
<1>5. /\ SubSeq(path, 1, d) \in Seq(Nat) /\ Len(SubSeq(path, 1, d)) = d
      /\ \A k \in 1 .. d : SubSeq(path, 1, d)[k] = path[k]
  BY <1>2, <1>3, <1>4
<1>6. parents = SubSeq(path, 1, d)
  BY DEF d
<1>7. ASSUME NEW g \in Around(t, j + 1)
      PROVE  parents[t[g].depth + 1] = a[g]
  <2>1. g \in 1 .. j /\ (g = j \/ g \in Around(t, j)) /\ j # 0
    BY AroundNext
  <2>2. t[g].depth < d /\ t[g].depth \in Nat
    BY <1>1, <1>2, <2>1, AroundNests DEF d
  <2>3. t[g].depth + 1 \in 1 .. d
    BY <1>2, <2>2
  <2>4. parents[t[g].depth + 1] = path[t[g].depth + 1]
    BY <1>5, <1>6, <2>3
  <2>5. path[t[g].depth + 1] = a[g]
    BY <2>1 DEF Leads
  <2> QED
    BY <2>4, <2>5
<1> QED
  BY <1>5, <1>6, <1>7 DEF d, AreParents

\* Then the path goes on to it.
LEMMA PathGoesOn ==
  ASSUME NEW t, IsTree(t), NEW j \in Nat, j + 1 <= Len(t), NEW path, NEW a, Leads(path, t, j, a),
         NEW parents, parents = SubSeq(path, 1, t[j + 1].depth), NEW x \in Nat,
         NEW c, c[j + 1] = x, \A g \in Around(t, j + 1) : c[g] = a[g]
  PROVE  Leads(Append(parents, x), t, j + 1, c)
<1>0. AreParents(parents, t, j + 1, a)
  BY ParentsOfNext
<1> DEFINE longer == Append(parents, x)
           d == t[j + 1].depth
<1>1. HasDepths(t) /\ j + 1 \in 1 .. Len(t) /\ \A i \in 1 .. Len(t) : t[i].depth \in Nat
  BY DEF IsTree, HasDepths
<1>2. /\ parents \in Seq(Nat) /\ Len(parents) = t[j + 1].depth
      /\ \A g \in Around(t, j + 1) : parents[t[g].depth + 1] = a[g]
  BY <1>0 DEF AreParents
<1>3. d \in Nat
  BY <1>1
<1> HIDE DEF d
<1>4. /\ longer \in Seq(Nat) /\ Len(longer) = d + 1 /\ longer[d + 1] = x
      /\ \A k \in 1 .. d : longer[k] = parents[k]
  BY <1>2, <1>3 DEF d
<1>5. ASSUME NEW g \in Around(t, j + 1)
      PROVE  longer[t[g].depth + 1] = c[g]
  <2>1. t[g].depth < d /\ t[g].depth \in Nat
    BY <1>1, AroundNests DEF d
  <2>2. t[g].depth + 1 \in 1 .. d
    BY <1>3, <2>1
  <2> QED
    BY <1>2, <1>4, <2>2
<1> HIDE DEF longer
<1>6. Leads(longer, t, j + 1, c)
  BY <1>4, <1>5 DEF Leads, d
<1> QED
  BY <1>6 DEF longer

\* A group that is there already is joined.
LEMMA GroupJoins ==
  ASSUME NEW m, NEW t, NEW added, NEW n \in Nat, NEW b, NEW a, Unites(m, t, added, n, b, a),
         IsTree(added), n + 1 <= Len(added),
         NEW i \in 1 .. Len(m), m[i] = added[n + 1], m[i].kind = "group",
         \A g \in Around(added, n + 1) : a[g] \in Around(m, i),
         NEW c, c = [k \in 1 .. n + 1 |-> IF k <= n THEN a[k] ELSE i]
  PROVE  Unites(m, t, added, n + 1, b, c)
<1>1. /\ c[n + 1] = i /\ \A k \in 1 .. n : c[k] = a[k] /\ k \in 1 .. n + 1
  OBVIOUS
<1>2. a \in [1 .. n -> 1 .. Len(m)] /\ c \in [1 .. n + 1 -> 1 .. Len(m)]
  BY DEF Unites, Embeds
<1>3. \A k \in 1 .. n + 1 : \A g \in Around(added, k) : g \in 1 .. n
  BY DEF Around
<1>4. \A k \in 1 .. n + 1 : k = n + 1 \/ k \in 1 .. n
  OBVIOUS
<1>5. Embeds(added, n + 1, c, m)
  <2>1. ASSUME NEW k \in 1 .. n + 1
        PROVE  m[c[k]] = added[k] /\ \A g \in Around(added, k) : c[g] \in Around(m, c[k])
    <3>1. CASE k = n + 1
      BY <1>1, <1>3, <3>1
    <3>2. CASE k \in 1 .. n
      BY <1>1, <1>3, <3>2 DEF Unites, Embeds
    <3> QED
      BY <1>4, <3>1, <3>2
  <2> QED
    BY <1>2, <2>1 DEF Embeds
<1>6. ASSUME NEW k \in 1 .. n + 1, added[k].kind = "record"
      PROVE  /\ \A x \in 1 .. Len(t) : b[x] # c[k]
             /\ \A l \in 1 .. n + 1 : c[l] = c[k] => l = k
  <2>1. k \in 1 .. n /\ c[k] = a[k]
    BY <1>1, <1>4, <1>6
  <2>2. c[n + 1] # c[k]
    <3>1. m[a[k]] = added[k]
      BY <2>1 DEF Unites, Embeds
    <3> QED
      BY <1>1, <1>6, <2>1, <3>1
  <2>3. /\ \A x \in 1 .. Len(t) : b[x] # a[k]
        /\ \A l \in 1 .. n : a[l] = a[k] => l = k
    BY <1>6, <2>1 DEF Unites
  <2>4. \A l \in 1 .. n + 1 : c[l] = c[k] => l = k
    BY <1>1, <1>4, <2>1, <2>2, <2>3
  <2> QED
    BY <2>1, <2>3, <2>4
<1>7. \A y \in 1 .. Len(m) : (\E x \in 1 .. Len(t) : b[x] = y) \/ \E k \in 1 .. n + 1 : c[k] = y
  <2>1. ASSUME NEW y \in 1 .. Len(m), \A x \in 1 .. Len(t) : b[x] # y
        PROVE  \E k \in 1 .. n + 1 : c[k] = y
    <3>1. PICK k \in 1 .. n : a[k] = y
      BY <2>1 DEF Unites
    <3> QED
      BY <1>1, <3>1
  <2> QED
    BY <2>1
<1> QED
  BY <1>5, <1>6, <1>7 DEF Unites

\* Where the entries are once one has been put in at end, and this one with them.
AllMoved(n, f, end) == [x \in 1 .. n |-> Moved(end, f[x])]
MovedAndPutIn(n, f, end) == [k \in 1 .. n + 1 |-> IF k <= n THEN Moved(end, f[k]) ELSE end]

\* Any other entry is put in.
LEMMA EntryIsPutIn ==
  ASSUME NEW m, NEW t, NEW added, NEW n \in Nat, NEW b, NEW a, Unites(m, t, added, n, b, a),
         HasDepths(t), IsTree(added), n + 1 <= Len(added),
         NEW end \in 1 .. Len(m) + 1, NEW w, IsEntered(m, end, added[n + 1], w),
         \A g \in Around(added, n + 1) : a[g] \in Opening(m, end, added[n + 1].depth),
         NEW d, d = AllMoved(Len(t), b, end), NEW c, c = MovedAndPutIn(n, a, end)
  PROVE  Unites(w, t, added, n + 1, d, c)
<1> USE DEF AllMoved, MovedAndPutIn
<1>1. /\ c[n + 1] = end /\ \A k \in 1 .. n : c[k] = Moved(end, a[k]) /\ k \in 1 .. n + 1
  OBVIOUS
<1>2. \A k \in 1 .. n + 1 : k = n + 1 \/ k \in 1 .. n
  OBVIOUS
<1>3. /\ a \in [1 .. n -> 1 .. Len(m)] /\ b \in [1 .. Len(t) -> 1 .. Len(m)]
      /\ Len(m) \in Nat /\ Len(t) \in Nat /\ Len(w) = Len(m) + 1
  BY DEF Unites, Embeds, IsTree, HasDepths, IsEntered
<1>4. /\ \A x \in 1 .. Len(m) : Moved(end, x) \in 1 .. Len(w) /\ Moved(end, x) # end
      /\ \A x, y \in 1 .. Len(m) : x < y <=> Moved(end, x) < Moved(end, y)
      /\ \A y \in 1 .. Len(w) : y # end => \E x \in 1 .. Len(m) : Moved(end, x) = y
  <2> DEFINE l == Len(m)
  <2>1. l \in Nat /\ end \in 1 .. l + 1 /\ Len(w) = l + 1
    BY <1>3
  <2> HIDE DEF l
  <2>2. /\ \A x \in 1 .. l : Moved(end, x) \in 1 .. l + 1 /\ Moved(end, x) # end
        /\ \A x, y \in 1 .. l : x < y <=> Moved(end, x) < Moved(end, y)
        /\ \A y \in 1 .. l + 1 : y # end => \E x \in 1 .. l : Moved(end, x) = y
    BY <2>1, MovedPlaces
  <2> QED
    BY <2>1, <2>2 DEF l
<1>5. \A x, y \in 1 .. Len(m) : Moved(end, x) = Moved(end, y) => x = y
  BY <1>3 DEF Moved
<1>6. \A k \in 1 .. n + 1 : \A g \in Around(added, k) : g \in 1 .. n
  BY DEF Around
<1>7. ASSUME NEW g \in Around(added, n + 1)
      PROVE  c[g] = a[g] /\ c[g] \in Around(w, end)
  <2>1. g \in 1 .. n /\ a[g] \in 1 .. Len(m) /\ a[g] \in Opening(m, end, added[n + 1].depth)
    BY <1>3, <1>6
  <2>2. a[g] \in 1 .. end - 1
    BY <2>1 DEF Opening
  <2>3. c[g] = a[g]
    BY <1>1, <2>1, <2>2 DEF Moved
  <2> QED
    BY <2>1, <2>3 DEF IsEntered
<1>8. c \in [1 .. n + 1 -> 1 .. Len(w)] /\ d \in [1 .. Len(t) -> 1 .. Len(w)]
  <2>1. end \in 1 .. Len(w)
    BY <1>3
  <2>2. ASSUME NEW k \in 1 .. n + 1 PROVE c[k] \in 1 .. Len(w)
    BY <1>1, <1>2, <1>3, <1>4, <2>1
  <2>3. ASSUME NEW x \in 1 .. Len(t) PROVE d[x] \in 1 .. Len(w)
    BY <1>3, <1>4
  <2> QED
    BY <2>2, <2>3
<1>9. ASSUME NEW x \in 1 .. Len(m)
      PROVE  /\ w[Moved(end, x)] = m[x]
             /\ \A g \in Around(m, x) : Moved(end, g) \in Around(w, Moved(end, x))
  BY DEF IsEntered
<1>10. Embeds(added, n + 1, c, w)
  <2>1. ASSUME NEW k \in 1 .. n + 1
        PROVE  w[c[k]] = added[k] /\ \A g \in Around(added, k) : c[g] \in Around(w, c[k])
    <3>1. CASE k = n + 1
      BY <1>1, <1>7, <3>1 DEF IsEntered
    <3>2. CASE k \in 1 .. n
      <4>1. /\ m[a[k]] = added[k] /\ a[k] \in 1 .. Len(m)
            /\ \A g \in Around(added, k) : a[g] \in Around(m, a[k])
        BY <3>2 DEF Unites, Embeds
      <4>2. \A g \in Around(added, k) : c[g] = Moved(end, a[g])
        BY <1>1, <1>6
      <4>3. c[k] = Moved(end, a[k]) /\ w[c[k]] = added[k]
        BY <1>1, <1>9, <3>2, <4>1
      <4>4. \A g \in Around(added, k) : c[g] \in Around(w, c[k])
        BY <1>9, <4>1, <4>2, <4>3
      <4> QED
        BY <4>3, <4>4
    <3> QED
      BY <1>2, <3>1, <3>2
  <2> QED
    BY <1>8, <2>1 DEF Embeds
<1>11. Embeds(t, Len(t), d, w)
  <2>1. ASSUME NEW x \in 1 .. Len(t)
        PROVE  w[d[x]] = t[x] /\ \A g \in Around(t, x) : d[g] \in Around(w, d[x])
    <3>1. /\ m[b[x]] = t[x] /\ b[x] \in 1 .. Len(m)
          /\ \A g \in Around(t, x) : b[g] \in Around(m, b[x])
      BY DEF Unites, Embeds
    <3>2. \A g \in Around(t, x) : g \in 1 .. Len(t) /\ d[g] = Moved(end, b[g])
      BY <1>3 DEF Around
    <3> QED
      BY <1>9, <3>1, <3>2
  <2> QED
    BY <1>8, <2>1 DEF Embeds
<1>12. \A x, y \in 1 .. Len(t) : x < y => d[x] < d[y]
  BY <1>3, <1>4 DEF Unites
<1>13. ASSUME NEW y \in 1 .. Len(w)
       PROVE  (\E x \in 1 .. Len(t) : d[x] = y) \/ \E k \in 1 .. n + 1 : c[k] = y
  <2>1. CASE y = end
    <3>1. n + 1 \in 1 .. n + 1
      OBVIOUS
    <3> QED
      BY <1>1, <2>1, <3>1
  <2>2. CASE y # end
    <3>1. PICK x \in 1 .. Len(m) : Moved(end, x) = y
      BY <1>4, <2>2
    <3>2. (\E z \in 1 .. Len(t) : b[z] = x) \/ \E k \in 1 .. n : a[k] = x
      BY DEF Unites
    <3> QED
      BY <1>1, <3>1, <3>2
  <2> QED
    BY <2>1, <2>2
<1>14. ASSUME NEW k \in 1 .. n + 1, added[k].kind = "record"
       PROVE  /\ \A x \in 1 .. Len(t) : d[x] # c[k]
              /\ \A l \in 1 .. n + 1 : c[l] = c[k] => l = k
  <2>1. \A l \in 1 .. n : c[l] # end
    BY <1>1, <1>3, <1>4
  <2>2. \A x \in 1 .. Len(t) : d[x] # end
    BY <1>3, <1>4
  <2>3. CASE k = n + 1
    BY <1>1, <1>2, <2>1, <2>2, <2>3
  <2>4. CASE k \in 1 .. n
    <3>1. /\ \A x \in 1 .. Len(t) : b[x] # a[k]
          /\ \A l \in 1 .. n : a[l] = a[k] => l = k
      BY <1>14, <2>4 DEF Unites
    <3>4. c[k] = Moved(end, a[k]) /\ a[k] \in 1 .. Len(m)
      BY <1>1, <1>3, <2>4
    <3>2. ASSUME NEW x \in 1 .. Len(t) PROVE d[x] # c[k]
      <4>1. d[x] = Moved(end, b[x]) /\ b[x] \in 1 .. Len(m) /\ b[x] # a[k]
        BY <1>3, <3>1
      <4> QED
        BY <1>5, <3>4, <4>1
    <3>3. ASSUME NEW l \in 1 .. n + 1, c[l] = c[k] PROVE l = k
      <4>1. l \in 1 .. n
        BY <1>1, <1>2, <2>1, <2>4, <3>3
      <4> QED
        BY <1>1, <1>3, <1>5, <2>4, <3>1, <3>3, <4>1
    <3> QED
      BY <3>2, <3>3
  <2> QED
    BY <1>2, <2>3, <2>4
<1>15. IsTree(w)
  BY DEF IsEntered
<1>16. Unites(w, t, added, n + 1, d, c)
  BY <1>10, <1>11, <1>12, <1>13, <1>14, <1>15 DEF Unites
<1> QED
  BY <1>7, <1>16


\* The level of the tree that the next entry goes to: at its end the entry is within what it
\* is to be within, and so is each entry of its depth there.
IsLevel(m, added, i, a, parents, end) ==
  /\ Fits(m, end, added[i].depth)
  /\ \A g \in Around(added, i) : a[g] \in Opening(m, end, added[i].depth)
  /\ \A x \in 1 .. end - 1 : (\A k \in DOMAIN parents : parents[k] < x) =>
       \A g \in Around(added, i) : a[g] \in Around(m, x)

LEMMA NextLevel ==
  ASSUME NEW m, NEW t, NEW added, NEW n \in Nat, NEW b, NEW a, Unites(m, t, added, n, b, a),
         IsTree(added), n + 1 <= Len(added),
         NEW path, Leads(path, added, n, a),
         NEW parents, parents = SubSeq(path, 1, added[n + 1].depth),
         NEW end, end = IF added[n + 1].depth = 0 THEN Len(m) + 1
                        ELSE Behind(m, parents[added[n + 1].depth])
  PROVE  IsLevel(m, added, n + 1, a, parents, end)
<1> DEFINE d == added[n + 1].depth
<1>1. AreParents(parents, added, n + 1, a)
  BY ParentsOfNext
<1>2. /\ IsTree(m) /\ HasDepths(m) /\ HasDepths(added) /\ d \in Nat /\ n + 1 \in 1 .. Len(added)
      /\ Len(added) \in Nat /\ Len(m) \in Nat /\ Embeds(added, n, a, m)
      /\ \A x \in 1 .. Len(added) : added[x].depth \in Nat
  BY DEF Unites, IsTree, HasDepths
<1>3. \A g \in Around(added, n + 1) :
        g \in 1 .. Len(added) /\ g < n + 1 /\ g \in 1 .. n /\ added[g].depth < d
  BY <1>2, AroundNests DEF Around
<1>4. CASE d = 0
  <2>1. Around(added, n + 1) = {}
    BY <1>2, <1>3, <1>4
  <2>2. Fits(m, Len(m) + 1, 0) /\ end = Len(m) + 1
    BY <1>2, <1>4, FitsAtTheEnd
  <2> QED
    BY <1>4, <2>1, <2>2 DEF IsLevel
<1>5. CASE d # 0
  <2> DEFINE g == AncestorAt(added, n + 1, d - 1)
             p == a[g]
  <2>1. d \in 1 .. d
    BY <1>2, <1>5
  <2>2. g \in Around(added, n + 1) /\ added[g].depth = d - 1
    BY <1>2, <2>1, AncestorAtDepth
  <2>3. parents[d] = p
    <3>1. parents[added[g].depth + 1] = p
      BY <1>1, <2>2 DEF AreParents
    <3>2. added[g].depth + 1 = d
      <4> HIDE DEF g, d
      <4> QED
        BY <1>2, <2>2
    <3> HIDE DEF g, p, d
    <3> QED
      BY <3>1, <3>2
  <2>4. g \in 1 .. n /\ p \in 1 .. Len(m) /\ m[p] = added[g]
    BY <1>2, <1>3, <2>2 DEF Embeds
  <2>5. m[p].kind = "group" /\ m[p].depth + 1 = d
    BY <1>2, <2>2, <2>4, SMTT(30) DEF IsTree
  <2>6. \A h \in Around(added, n + 1) : h = g \/ h \in Around(added, g)
    <3>1. ASSUME NEW h \in Around(added, n + 1), h # g
          PROVE  h \in Around(added, g)
      <4>1. added[h].depth # added[g].depth
        BY <1>2, <2>2, <3>1, AroundNests
      <4>2. h \in 1 .. Len(added) /\ g \in 1 .. Len(added) /\ added[h].depth < d
        BY <1>3, <2>2
      <4>3. CASE h < g
        BY <1>2, <2>2, <4>3, AroundNests
      <4>4. CASE g < h
        <5>1. g \in Around(added, h)
          BY <1>2, <2>2, <3>1, <4>2, <4>4, AroundNests
        <5>2. added[g].depth < added[h].depth
          BY <1>2, <4>2, <5>1, AroundNests
        <5> QED
          BY <1>2, <2>2, <4>1, <4>2, <5>2
      <4> QED
        BY <3>1, <4>2, <4>3, <4>4
    <3> QED
      BY <3>1
  <2>7. \A h \in Around(added, n + 1) : a[h] = p \/ a[h] \in Around(m, p)
    BY <1>2, <2>4, <2>6 DEF Embeds
  <2>8. end = Behind(m, p)
    BY <1>5, <2>3
  <2>9. /\ Fits(m, Behind(m, p), m[p].depth + 1) /\ p < Behind(m, p)
        /\ Opening(m, Behind(m, p), m[p].depth + 1) = Around(m, p) \cup {p}
    BY <1>2, <2>4, <2>5, FitsInAGroup
  <2> HIDE DEF d, g, p
  <2>10. /\ Fits(m, end, d) /\ p < end
         /\ Opening(m, end, d) = Around(m, p) \cup {p}
    BY <2>5, <2>8, <2>9
  <2>11. \A h \in Around(added, n + 1) : a[h] \in Opening(m, end, d)
    BY <2>7, <2>10
  <2>12. ASSUME NEW x \in 1 .. end - 1, \A k \in DOMAIN parents : parents[k] < x,
                NEW h \in Around(added, n + 1)
         PROVE  a[h] \in Around(m, x)
    <3>1. parents \in Seq(Nat) /\ Len(parents) = d
      BY <1>1 DEF AreParents, d
    <3>2. d \in DOMAIN parents
      BY <2>1, <3>1
    <3>3. p < x
      BY <2>3, <2>12, <3>2
    <3>4. x \in 1 .. Len(m) /\ x < Behind(m, p)
      BY <1>2, <2>8, <2>10, <2>12 DEF Fits
    <3>5. p \in Around(m, x)
      BY <1>2, <2>4, <3>3, <3>4, AroundEnds
    <3>6. Around(m, p) \subseteq Around(m, x)
      BY <1>2, <3>4, <3>5, AroundNests
    <3> QED
      BY <2>7, <3>5, <3>6
  <2> QED
    BY <2>10, <2>11, <2>12 DEF IsLevel, d
<1> QED
  BY <1>4, <1>5

\* The state of union_tree once n of the entries have been entered.
United(state, t, added, n) ==
  /\ DOMAIN state = {"tree", "path", "joined"}
  /\ \E b, a : Unites(state.tree, t, added, n, b, a) /\ Leads(state.path, added, n, a)

\* One entry more.
LEMMA EntersNext ==
  ASSUME NEW state, NEW t, NEW added, NEW n \in Nat, United(state, t, added, n),
         HasDepths(t), IsTree(added), n + 1 <= Len(added)
  PROVE  United(Enter(state, added[n + 1]), t, added, n + 1)
<1> DEFINE m == state.tree
           path == state.path
           e == added[n + 1]
           d == e.depth
           parents == SubSeq(path, 1, d)
           end == IF d = 0 THEN Len(m) + 1 ELSE Behind(m, parents[d])
           twins == {i \in 1 .. end - 1 : (\A k \in DOMAIN parents : parents[k] < i) /\ m[i] = e}
<1>1. PICK b, a : Unites(m, t, added, n, b, a) /\ Leads(path, added, n, a)
  BY DEF United
<1>2. IsLevel(m, added, n + 1, a, parents, end)
  BY <1>1, NextLevel
<1>3. /\ IsTree(m) /\ Len(m) \in Nat /\ n + 1 \in 1 .. Len(added)
      /\ n + 1 \in 1 .. n + 1 /\ d \in Nat /\ IsEntry(e)
  BY <1>1 DEF Unites, IsTree, HasDepths, IsEntry
<1>4. Fits(m, end, d) /\ end \in 1 .. Len(m) + 1
  BY <1>2 DEF IsLevel, Fits
<1>5. \A g \in Around(added, n + 1) : g \in 1 .. n
  BY DEF Around
<1>6. Enter(state, e) =
        IF e.kind = "group" /\ d <= state.joined /\ twins # {}
        THEN [state EXCEPT !.path = Append(parents, Min(twins)), !.joined = d + 1]
        ELSE [tree |-> InsertAt(m, end, e), path |-> Append(parents, end),
              joined |-> Min({d, state.joined})]
  BY DEF Enter
<1>7. CASE e.kind = "group" /\ d <= state.joined /\ twins # {}
  <2> DEFINE i == Min(twins)
             c == [k \in 1 .. n + 1 |-> IF k <= n THEN a[k] ELSE i]
  <2>1. i \in twins
    <3>1. twins \in SUBSET Nat
      BY <1>3, <1>4
    <3>2. \E k \in twins : \A l \in twins : k <= l
      <4> HIDE DEF twins
      <4> QED
        BY <1>7, <3>1, FirstPlace
    <3> HIDE DEF twins
    <3> QED
      BY <3>2 DEF Min
  <2>2. i \in 1 .. end - 1 /\ (\A k \in DOMAIN parents : parents[k] < i) /\ m[i] = e
    BY <2>1
  <2> DEFINE s == Enter(state, e)
  <2>3. /\ s.tree = m /\ s.path = Append(parents, i)
        /\ DOMAIN s = {"tree", "path", "joined"}
    <3>1. s = [state EXCEPT !.path = Append(parents, i), !.joined = d + 1]
      BY <1>6, <1>7
    <3>2. DOMAIN state = {"tree", "path", "joined"} /\ m = state.tree
      BY DEF United
    <3> HIDE DEF parents, i, d, path, m, end, twins, c, s
    <3> QED
      BY <3>1, <3>2
  <2> HIDE DEF i
  <2>4. i \in 1 .. Len(m) /\ i \in Nat
    BY <1>3, <1>4, <2>2
  <2>5. \A g \in Around(added, n + 1) : a[g] \in Around(m, i)
    BY <1>2, <2>2 DEF IsLevel
  <2> DEFINE after == Append(parents, i)
  <2>6. c = [k \in 1 .. n + 1 |-> IF k <= n THEN a[k] ELSE i] /\ parents = SubSeq(path, 1, d)
    OBVIOUS
  <2>7. c[n + 1] = i /\ \A g \in Around(added, n + 1) : c[g] = a[g]
    BY <1>3, <1>5
  <2> HIDE DEF c, parents, m, path, end, twins, after
  <2>8. Unites(m, t, added, n + 1, b, c)
    BY <1>1, <1>7, <2>2, <2>4, <2>5, <2>6, GroupJoins
  <2>9. Leads(after, added, n + 1, c)
    BY <1>1, <2>4, <2>6, <2>7, PathGoesOn DEF after
  <2>10. s.tree = m /\ s.path = after /\ DOMAIN s = {"tree", "path", "joined"}
    BY <2>3 DEF after
  <2> HIDE DEF s
  <2>11. United(s, t, added, n + 1)
    BY <2>8, <2>9, <2>10 DEF United
  <2> QED
    BY <2>11 DEF s
<1>8. CASE ~ (e.kind = "group" /\ d <= state.joined /\ twins # {})
  <2> DEFINE w == InsertAt(m, end, e)
             f == AllMoved(Len(t), b, end)
             c == MovedAndPutIn(n, a, end)
             after == Append(parents, end)
             joined == Min({d, state.joined})
  <2>1. Enter(state, e) = [tree |-> w, path |-> after, joined |-> joined]
    BY <1>6, <1>8
  <2>2. end \in Nat /\ parents = SubSeq(path, 1, d)
    BY <1>3, <1>4
  <2>3. c[n + 1] = end
    BY <1>3 DEF MovedAndPutIn
  <2> HIDE DEF end, parents, twins, m, path
  <2>4. IsEntered(m, end, e, w)
    BY <1>3, <1>4, EnteredTree
  <2>5. \A g \in Around(added, n + 1) : a[g] \in Opening(m, end, added[n + 1].depth)
    BY <1>2 DEF IsLevel
  <2>6. f = AllMoved(Len(t), b, end) /\ c = MovedAndPutIn(n, a, end)
    OBVIOUS
  <2> HIDE DEF w, f, c, joined
  <2>7. Unites(w, t, added, n + 1, f, c) /\ \A g \in Around(added, n + 1) : c[g] = a[g]
    <3>1. IsEntered(m, end, added[n + 1], w) /\ end \in 1 .. Len(m) + 1
      BY <1>4, <2>4
    <3> HIDE DEF e, d
    <3>2. Unites(w, t, added, n + 1, f, c)
      BY <1>1, <2>5, <2>6, <3>1, EntryIsPutIn
    <3>3. ASSUME NEW g \in Around(added, n + 1)
          PROVE  c[g] = a[g]
      <4>1. g \in 1 .. n /\ g \in 1 .. n + 1 /\ a[g] \in 1 .. end - 1
        BY <1>5, <2>5 DEF Opening
      <4> QED
        BY <2>2, <2>6, <4>1 DEF MovedAndPutIn, Moved
    <3> QED
      BY <3>2, <3>3
  <2>8. Leads(after, added, n + 1, c)
    BY <1>1, <2>2, <2>3, <2>7, PathGoesOn
  <2> HIDE DEF after, e, d
  <2>9. United(Enter(state, e), t, added, n + 1)
    BY <2>1, <2>7, <2>8 DEF United
  <2> QED
    BY <2>9 DEF e
<1> QED
  BY <1>7, <1>8

\* f are the states of union_tree up to the n-th entry.
EntersFirst(f, t, added, n) ==
  f = [i \in 0 .. n |-> IF i = 0 THEN [tree |-> t, path |-> <<>>, joined |-> 0]
                        ELSE Enter(f[i - 1], added[i])]

LEMMA AllAreEntered ==
  ASSUME NEW t, NEW added, NEW n \in Nat
  PROVE  \E f : EntersFirst(f, t, added, n)
<1> DEFINE base == [tree |-> t, path |-> <<>>, joined |-> 0]
           S == {m \in Nat : \E f : EntersFirst(f, t, added, m)}
<1>1. 0 \in S
  <2>1. EntersFirst([i \in 0 .. 0 |-> base], t, added, 0)
    BY DEF EntersFirst
  <2> QED
    BY <2>1
<1>2. ASSUME NEW m \in Nat, m \in S
      PROVE  m + 1 \in S
  <2>1. PICK f : EntersFirst(f, t, added, m)
    BY <1>2
  <2> DEFINE last == Enter(f[m], added[m + 1])
             g == [i \in 0 .. m + 1 |-> IF i <= m THEN f[i] ELSE last]
  <2>2. ASSUME NEW i \in 0 .. m + 1
        PROVE  g[i] = IF i = 0 THEN base ELSE Enter(g[i - 1], added[i])
    <3>1. CASE i \in 0 .. m
      <4>1. f[i] = IF i = 0 THEN base ELSE Enter(f[i - 1], added[i])
        BY <2>1, <3>1 DEF EntersFirst
      <4>2. g[i] = f[i] /\ (i # 0 => g[i - 1] = f[i - 1])
        BY <3>1
      <4> HIDE DEF g, base
      <4> QED
        BY <4>1, <4>2
    <3>2. CASE i = m + 1
      <4>1. g[i - 1] = f[m] /\ g[i] = last /\ i # 0
        BY <3>2
      <4> HIDE DEF g
      <4> QED
        BY <3>2, <4>1
    <3> QED
      BY <3>1, <3>2
  <2>3. g = [i \in 0 .. m + 1 |-> IF i = 0 THEN base ELSE Enter(g[i - 1], added[i])]
    <3>1. g = [i \in 0 .. m + 1 |-> g[i]]
      OBVIOUS
    <3> HIDE DEF g, base
    <3> QED
      BY <2>2, <3>1
  <2>4. EntersFirst(g, t, added, m + 1)
    BY <2>3 DEF EntersFirst
  <2> HIDE DEF g
  <2> QED
    BY <2>4
<1> HIDE DEF S
<1>3. \A m \in Nat : m \in S
  BY <1>1, <1>2, EveryNumber
<1> QED
  BY <1>3 DEF S

\* What union_tree makes of two trees has the entries of both.
LEMMA UnitesBoth ==
  ASSUME NEW t, IsTree(t), NEW added, IsTree(added)
  PROVE  \E b, a : Unites(UnionTree(t, added), t, added, Len(added), b, a)
<1> DEFINE n == Len(added)
           f == CHOOSE f : EntersFirst(f, t, added, n)
           base == [tree |-> t, path |-> <<>>, joined |-> 0]
<1>1. n \in Nat /\ HasDepths(t) /\ Len(t) \in Nat
  BY DEF IsTree, HasDepths
<1>2. UnionTree(t, added) = f[n].tree
  BY DEF UnionTree, EntersFirst
<1>3. EntersFirst(f, t, added, n)
  BY <1>1, AllAreEntered
<1> HIDE DEF f
<1>4. f[0] = base /\ \A i \in 1 .. n : f[i] = Enter(f[i - 1], added[i])
  BY <1>1, <1>3 DEF EntersFirst
<1> DEFINE S == {i \in Nat : i <= n => United(f[i], t, added, i)}
<1>5. 0 \in S
  <2> DEFINE b == [x \in 1 .. Len(t) |-> x]
             a == [x \in 1 .. 0 |-> x]
  <2>1. Unites(t, t, added, 0, b, a)
    <3>1. Embeds(t, Len(t), b, t)
      <4>1. \A x \in 1 .. Len(t) : \A g \in Around(t, x) : b[x] = x /\ b[g] = g
        BY <1>1 DEF Around
      <4>2. b \in [1 .. Len(t) -> 1 .. Len(t)]
        OBVIOUS
      <4>3. \A x \in 1 .. Len(t) : b[x] = x
        OBVIOUS
      <4> HIDE DEF b
      <4> QED
        BY <4>1, <4>2, <4>3 DEF Embeds
    <3>2. Embeds(added, 0, a, t)
      <4>1. a \in [1 .. 0 -> 1 .. Len(t)] /\ \A x : x \notin 1 .. 0
        OBVIOUS
      <4> HIDE DEF a
      <4> QED
        BY <4>1 DEF Embeds
    <3>3. \A x \in 1 .. Len(t) : b[x] = x
      OBVIOUS
    <3>4. \A x : x \notin 1 .. 0
      OBVIOUS
    <3> HIDE DEF a, b
    <3> QED
      BY <1>1, <3>1, <3>2, <3>3, <3>4 DEF Unites
  <2>2. Leads(<<>>, added, 0, a)
    BY DEF Leads
  <2>3. /\ DOMAIN base = {"tree", "path", "joined"}
        /\ base.tree = t /\ base.path = <<>>
    OBVIOUS
  <2> HIDE DEF a, b, base
  <2> QED
    BY <1>4, <2>1, <2>2, <2>3 DEF United
<1>6. ASSUME NEW i \in Nat, i \in S
      PROVE  i + 1 \in S
  <2>1. CASE i + 1 <= n
    <3>1. i + 1 \in 1 .. n /\ (i + 1) - 1 = i /\ i <= n
      BY <1>1, <2>1
    <3>2. United(f[i], t, added, i) /\ f[i + 1] = Enter(f[i], added[i + 1])
      BY <1>4, <1>6, <3>1
    <3>3. United(Enter(f[i], added[i + 1]), t, added, i + 1)
      BY <1>1, <2>1, <3>2, EntersNext
    <3> QED
      BY <3>2, <3>3
  <2> QED
    BY <2>1
<1> HIDE DEF S
<1>7. n \in S
  BY <1>1, <1>5, <1>6, EveryNumber
<1>8. United(f[n], t, added, n)
  BY <1>1, <1>7 DEF S
<1> QED
  BY <1>2, <1>8 DEF United

(***************************************************************************)
(* The tree that is entered: the part of the source that is taken over.    *)
(***************************************************************************)

\* The places of the records taken over, and of the groups around them.
Taken(t) == {i \in DOMAIN t : t[i].kind = "record" /\ t[i].id \in DOMAIN actions}
Filled(t) ==
  {i \in DOMAIN t : t[i].kind = "group" /\ Taken(t) \cap i .. Behind(t, i) - 1 # {}}
Translated(e) ==
  IF e.kind = "record" THEN RecordEntry(e.depth, actions[e.id])
  ELSE GroupEntry(e.depth, e.type, IF LabelIsRecordId(e.type) THEN Mapped(e.label) ELSE e.label)

\* u are the entries of t at these places, translated.
IsTranslated(t, u) ==
  LET P == Taken(t) \cup Filled(t) IN
  /\ P \in SUBSET (1 .. Len(t))
  /\ IsTree(u) /\ Len(u) = Cardinality(P)
  /\ \A k \in 1 .. Len(u) :
       /\ Ascending(P)[k] \in P
       /\ u[k] = Translated(t[Ascending(P)[k]])
       /\ \A g \in 1 .. Len(u) : g \in Around(u, k) <=> Ascending(P)[g] \in Around(t, Ascending(P)[k])

\* A group is filled if it is around a record taken over.
LEMMA FilledAround ==
  ASSUME NEW t, IsTree(t), NEW g \in 1 .. Len(t)
  PROVE  g \in Filled(t) <=> \E i \in Taken(t) : g \in Around(t, i)
<1>1. HasDepths(t) /\ DOMAIN t = 1 .. Len(t) /\ Len(t) \in Nat
  BY DEF IsTree, HasDepths
<1>2. Taken(t) \subseteq 1 .. Len(t) /\ \A i \in Taken(t) : t[i].kind = "record"
  BY <1>1 DEF Taken
<1>3. ASSUME NEW i \in Taken(t), g \in Around(t, i)
      PROVE  g \in Filled(t)
  <2>1. t[g].kind = "group"
    BY <1>2, <1>3 DEF IsTree
  <2>2. g < i /\ i < Behind(t, g) /\ i \in 1 .. Len(t)
    BY <1>1, <1>2, <1>3, AroundEnds
  <2>3. Behind(t, g) \in Nat
    BY <1>1, BehindEnds DEF Ends
  <2>4. i \in g .. Behind(t, g) - 1
    BY <2>2, <2>3
  <2> QED
    BY <1>1, <2>1, <2>4 DEF Filled
<1>4. ASSUME g \in Filled(t)
      PROVE  \E i \in Taken(t) : g \in Around(t, i)
  <2>1. PICK i \in Taken(t) : i \in g .. Behind(t, g) - 1
    BY <1>4 DEF Filled
  <2>2. i # g /\ i \in 1 .. Len(t)
    BY <1>2, <1>4 DEF Filled
  <2>3. Behind(t, g) \in Nat
    BY <1>1, BehindEnds DEF Ends
  <2>4. g < i /\ i < Behind(t, g)
    BY <2>1, <2>2, <2>3
  <2> QED
    BY <1>1, <2>2, <2>4, AroundEnds
<1> QED
  BY <1>3, <1>4

LEMMA TranslatesPart ==
  ASSUME NEW t, IsTree(t)
  PROVE  LET kept == Restricted(t, Taken(t) \cup Filled(t))
         IN IsTranslated(t, [k \in DOMAIN kept |-> Translated(kept[k])])
<1> DEFINE P == Taken(t) \cup Filled(t)
           kept == Restricted(t, P)
           u == [k \in DOMAIN kept |-> Translated(kept[k])]
<1>1. HasDepths(t) /\ DOMAIN t = 1 .. Len(t) /\ Len(t) \in Nat
  BY DEF IsTree, HasDepths
<1>2. P \in SUBSET (1 .. Len(t))
  BY <1>1 DEF Taken, Filled
<1>3. ASSUME NEW i \in P, NEW g \in Around(t, i)
      PROVE  g \in P
  <2>1. i \in 1 .. Len(t) /\ g \in 1 .. Len(t)
    BY <1>1, <1>2, AroundNests
  <2>2. PICK r \in Taken(t) : r = i \/ i \in Around(t, r)
    BY <2>1, FilledAround
  <2>3. r \in 1 .. Len(t)
    BY <1>2
  <2>4. g \in Around(t, r)
    BY <1>1, <2>2, <2>3, AroundNests
  <2> QED
    BY <2>1, <2>4, FilledAround
<1> HIDE DEF P
<1>4. IsPart(t, P, kept)
  BY <1>2, <1>3, PartOfATree
<1>5. /\ DOMAIN kept = 1 .. Cardinality(P) /\ Cardinality(P) \in Nat
      /\ Ascending(P) \in [1 .. Cardinality(P) -> P]
  BY <1>1, <1>2, RestrictedTo
<1>6. /\ IsTree(kept) /\ Len(kept) = Cardinality(P)
      /\ \A k \in 1 .. Len(kept) :
           /\ kept[k] = t[Ascending(P)[k]]
           /\ \A g \in 1 .. Len(kept) :
                g \in Around(kept, k) <=> Ascending(P)[g] \in Around(t, Ascending(P)[k])
  BY <1>4 DEF IsPart
<1> HIDE DEF kept
<1>7. /\ DOMAIN u = 1 .. Len(kept) /\ u \in Seq({Translated(kept[k]) : k \in DOMAIN kept})
      /\ Len(u) = Len(kept) /\ u = [k \in 1 .. Len(u) |-> u[k]]
      /\ \A k \in 1 .. Len(u) : u[k] = Translated(kept[k])
  BY <1>5, <1>6
<1> HIDE DEF u
<1>8. ASSUME NEW k \in 1 .. Len(u)
      PROVE  /\ u[k].depth = kept[k].depth /\ u[k].kind = kept[k].kind
             /\ u[k].kind = "record" => u[k] = RecordEntry(u[k].depth, u[k].id)
             /\ u[k].kind = "group" => u[k] = GroupEntry(u[k].depth, u[k].type, u[k].label)
  <2>1. kept[k].kind \in {"record", "group"}
    BY <1>6, <1>7 DEF IsTree, HasDepths
  <2>2. CASE kept[k].kind = "record"
    <3>1. u[k] = RecordEntry(kept[k].depth, actions[kept[k].id])
      BY <1>7, <2>2 DEF Translated
    <3> QED
      BY <2>2, <3>1 DEF RecordEntry
  <2>3. CASE kept[k].kind = "group"
    <3> DEFINE label == IF LabelIsRecordId(kept[k].type) THEN Mapped(kept[k].label)
                        ELSE kept[k].label
    <3>1. u[k] = GroupEntry(kept[k].depth, kept[k].type, label)
      BY <1>7, <2>3 DEF Translated
    <3> HIDE DEF label
    <3> QED
      BY <2>3, <3>1 DEF GroupEntry
  <2> QED
    BY <2>1, <2>2, <2>3
<1>9. ASSUME NEW k \in 1 .. Len(u)
      PROVE  Around(u, k) = Around(kept, k)
  <2>1. \A g \in 1 .. k - 1 : g \in 1 .. Len(u) /\ \A l \in g + 1 .. k : l \in 1 .. Len(u)
    BY <1>5, <1>6, <1>7
  <2> QED
    BY <1>8, <2>1 DEF Around
<1>10. IsTree(u)
  <2>1. HasDepths(u)
    <3>1. \A k \in 1 .. Len(u) : u[k].depth \in Nat /\ u[k].kind \in {"record", "group"}
      BY <1>6, <1>7, <1>8 DEF IsTree, HasDepths
    <3> QED
      BY <1>5, <1>6, <1>7, <3>1 DEF HasDepths
  <2>2. ASSUME NEW k \in 1 .. Len(u)
        PROVE  /\ \A d \in Nat : d < u[k].depth => \E g \in Around(u, k) : u[g].depth = d
               /\ \A g \in Around(u, k) : u[g].kind = "group"
    <3>1. \A g \in Around(u, k) : g \in 1 .. Len(u)
      BY <2>1, AroundNests
    <3>2. /\ \A d \in Nat : d < kept[k].depth => \E g \in Around(kept, k) : kept[g].depth = d
          /\ \A g \in Around(kept, k) : kept[g].kind = "group"
      BY <1>6, <1>7 DEF IsTree
    <3> QED
      BY <1>8, <1>9, <3>1, <3>2
  <2> QED
    BY <1>8, <2>1, <2>2 DEF IsTree
<1>11. IsTranslated(t, u)
  <2>1. ASSUME NEW k \in 1 .. Len(u)
        PROVE  /\ Ascending(P)[k] \in P
               /\ u[k] = Translated(t[Ascending(P)[k]])
               /\ \A g \in 1 .. Len(u) :
                    g \in Around(u, k) <=> Ascending(P)[g] \in Around(t, Ascending(P)[k])
    BY <1>5, <1>6, <1>7, <1>9
  <2>2. Len(u) = Cardinality(P)
    BY <1>6, <1>7
  <2> QED
    BY <1>2, <1>10, <2>1, <2>2 DEF IsTranslated, P
<1> QED
  BY <1>11 DEF u, kept, P

(***************************************************************************)
(* The packages of a request.                                              *)
(***************************************************************************)

\* A package that can be read and whose records have ids of their own.
IsPackage(p) ==
  /\ WellFormed(p) /\ Scans(p)
  /\ Cardinality(Ids(p)) = Cardinality(Records(p))
  /\ \A i \in Records(p) : IsLogical(p.chunks[i])

LEMMA DestinationIsPackage ==
  ASSUME NEW p \in Destinations
  PROVE  IsPackage(p) /\ Opens(p)
BY MergeAssumption DEF Opens, Indexes, IsPackage

\* Whose package it is does not change what can be read.
LEMMA SourceIsPackage ==
  ASSUME NEW p \in Sources
  PROVE  IsPackage(p)
<1>1. FromSource!Opens(p) /\ \A i \in Records(p) : IsLogical(p.chunks[i])
  BY MergeAssumption
<1>2. FromSource!WellFormed(p) /\ FromSource!Indexes(p)
  BY <1>1 DEF FromSource!Opens
<1>3. WellFormed(p)
  BY <1>2
  DEF FromSource!WellFormed, FromSource!IsHeader, FromSource!NewHeader, FromSource!IsSequence,
      FromSource!IsRecord, FromSource!IsGroup, FromSource!ToSet, FromSource!IsFiniteSet,
      WellFormed, IsHeader, NewHeader, IsSequence, IsRecord, IsGroup, ToSet, IsFiniteSet
<1>4. FromSource!Scans(p) /\ Cardinality(FromSource!Ids(p)) = Cardinality(FromSource!Records(p))
  BY <1>2 DEF FromSource!Indexes, FromSource!Cardinality, Cardinality
<1>5. FromSource!Records(p) = Records(p) /\ FromSource!Groups(p) = Groups(p)
  BY DEF FromSource!Records, Records, FromSource!Groups, Groups
<1>6. FromSource!Ids(p) = Ids(p)
  BY <1>5 DEF FromSource!Ids, Ids
<1>7. FromSource!Starts(p) = Starts(p)
  BY DEF FromSource!Starts, FromSource!HeaderSize, FromSource!RecordHeaderSize,
         FromSource!Worlds, FromSource!OwnSize, FromSource!RecordSize, FromSource!GroupHeaderSize,
         FromSource!Cardinality,
         Starts, HeaderSize, RecordHeaderSize, Worlds, OwnSize, RecordSize, GroupHeaderSize,
         Cardinality
<1>8. Scans(p)
  BY <1>4, <1>5, <1>7
  DEF FromSource!Scans, FromSource!Span, FromSource!GroupHeaderSize, FromSource!RecordSize,
      FromSource!RecordHeaderSize,
      Scans, Span, GroupHeaderSize, RecordSize, RecordHeaderSize
<1> QED
  BY <1>1, <1>3, <1>4, <1>5, <1>6, <1>8 DEF IsPackage

\* What IndexOf finds.
IsIndexed(p) ==
  /\ IsFiniteSet(Records(p)) /\ IsFiniteSet(Ids(p))
  /\ \A i : i \in Records(p) <=> i \in 1 .. Len(p.chunks) /\ p.chunks[i].kind = "record"
  /\ \A i \in Records(p) : p.chunks[i].id \in Ids(p) /\ IndexOf(p, p.chunks[i].id) = i
  /\ \A id \in Ids(p) : /\ IndexOf(p, id) \in Records(p) /\ p.chunks[IndexOf(p, id)].id = id
                        /\ id.index \in Nat /\ id.local \in Nat

LEMMA PackageIsIndexed ==
  ASSUME NEW p, IsPackage(p)
  PROVE  IsIndexed(p)
<1>1. Len(p.chunks) \in Nat /\ DOMAIN p.chunks = 1 .. Len(p.chunks)
  BY DEF IsPackage, WellFormed, IsSequence
<1>2. \A i : i \in Records(p) <=> i \in 1 .. Len(p.chunks) /\ p.chunks[i].kind = "record"
  BY <1>1 DEF Records
<1>3. IsFiniteSet(Records(p))
  <2>1. IsFiniteSet(1 .. Len(p.chunks)) /\ Records(p) \in SUBSET (1 .. Len(p.chunks))
    BY <1>1, <1>2, PlacesAreFinite
  <2> QED
    BY <2>1, FS_Subset
<1> DEFINE f == [i \in Records(p) |-> p.chunks[i].id]
<1>4. f \in Surjection(Records(p), Ids(p))
  BY DEF Ids, Surjection
<1>5. IsFiniteSet(Ids(p))
  BY <1>3, <1>4, FS_Surjection
<1>6. f \in Injection(Records(p), Ids(p))
  BY <1>3, <1>4, FS_Surjection DEF IsPackage
<1>7. \A i, j \in Records(p) : p.chunks[i].id = p.chunks[j].id => i = j
  BY <1>6 DEF Injection, IsInjective
<1>8. \A i \in Records(p) : p.chunks[i].id \in Ids(p)
  BY DEF Ids
<1>9. ASSUME NEW id \in Ids(p)
      PROVE  /\ IndexOf(p, id) \in Records(p) /\ p.chunks[IndexOf(p, id)].id = id
             /\ id.index \in Nat /\ id.local \in Nat
  <2>1. \E i \in Records(p) : p.chunks[i].id = id
    BY DEF Ids
  <2>2. IndexOf(p, id) \in Records(p) /\ p.chunks[IndexOf(p, id)].id = id
    BY <2>1 DEF IndexOf
  <2>3. IsRecord(p.chunks[IndexOf(p, id)])
    BY <1>1, <1>2, <2>2 DEF IsPackage, WellFormed, IsGroup
  <2> QED
    BY <2>2, <2>3 DEF IsRecord
<1>10. ASSUME NEW i \in Records(p)
       PROVE  IndexOf(p, p.chunks[i].id) = i
  <2>1. p.chunks[i].id \in Ids(p)
    BY <1>8
  <2>2. /\ IndexOf(p, p.chunks[i].id) \in Records(p)
        /\ p.chunks[IndexOf(p, p.chunks[i].id)].id = p.chunks[i].id
    BY <1>9, <2>1
  <2> QED
    BY <1>7, <2>2
<1> HIDE DEF f
<1> QED
  BY <1>2, <1>3, <1>5, <1>8, <1>9, <1>10 DEF IsIndexed

\* The package and its tree.
LEMMA PackageHasTree ==
  ASSUME NEW p, IsPackage(p)
  PROVE  HasTree(p, ReadTree(p))
BY WellFormedIsChunked, ReadsTheTree DEF IsPackage

\* The records of p, one after the other.
IsListed(p, list) ==
  /\ Len(list) \in Nat
  /\ \A k \in 1 .. Len(list) :
       LET r == list[k]
       IN /\ r.id \in Ids(p) /\ r = p.chunks[IndexOf(p, r.id)]
          /\ IsLogical(r) /\ IsRecord(r)
  /\ \A id \in Ids(p) : \E k \in 1 .. Len(list) : list[k].id = id
  /\ \A k, l \in 1 .. Len(list) : list[k].id = list[l].id => k = l

LEMMA RecordsAreListed ==
  ASSUME NEW p, IsPackage(p), NEW list, list = Restricted(p.chunks, Records(p))
  PROVE  IsListed(p, list)
<1> DEFINE P == Records(p)
           n == Len(p.chunks)
           c == Cardinality(P)
<1>1. IsIndexed(p)
  BY PackageIsIndexed
<1>2. n \in Nat /\ DOMAIN p.chunks = 1 .. n
  BY DEF IsPackage, WellFormed, IsSequence
<1>3. P \in SUBSET (1 .. n)
  BY <1>2 DEF Records
<1>4. list = Restricted(p.chunks, P)
  OBVIOUS
<1> HIDE DEF P, n
<1>5. /\ c \in Nat /\ IsFiniteSet(P)
      /\ Ascending(P) \in [1 .. c -> P]
      /\ \A x \in P : \E k \in 1 .. c : Ascending(P)[k] = x
      /\ \A k, l \in 1 .. c : k < l <=> Ascending(P)[k] < Ascending(P)[l]
      /\ DOMAIN list = 1 .. c /\ Len(list) = c
      /\ \A k \in 1 .. c : list[k] = p.chunks[Ascending(P)[k]]
  BY <1>2, <1>3, <1>4, RestrictedTo
<1> HIDE DEF c
<1>6. ASSUME NEW k \in 1 .. Len(list)
      PROVE  /\ Ascending(P)[k] \in P /\ list[k] = p.chunks[Ascending(P)[k]]
             /\ list[k].id \in Ids(p)
             /\ IndexOf(p, list[k].id) = Ascending(P)[k]
             /\ IsLogical(list[k]) /\ IsRecord(list[k])
  <2>1. Ascending(P)[k] \in P /\ list[k] = p.chunks[Ascending(P)[k]]
    BY <1>5
  <2>2. /\ Ascending(P)[k] \in Records(p) /\ Ascending(P)[k] \in 1 .. Len(p.chunks)
        /\ p.chunks[Ascending(P)[k]].kind = "record"
    BY <1>1, <2>1 DEF P, IsIndexed
  <2>3. IsRecord(list[k])
    BY <1>2, <2>1, <2>2 DEF IsPackage, WellFormed, IsGroup, n
  <2>4. IsLogical(list[k])
    BY <2>1, <2>2 DEF IsPackage
  <2>5. list[k].id \in Ids(p) /\ IndexOf(p, list[k].id) = Ascending(P)[k]
    BY <1>1, <2>1, <2>2 DEF IsIndexed
  <2> QED
    BY <2>1, <2>3, <2>4, <2>5
<1>7. ASSUME NEW id \in Ids(p)
      PROVE  \E k \in 1 .. Len(list) : list[k].id = id
  <2>1. PICK i : i \in Records(p) /\ p.chunks[i].id = id
    BY <1>1, <1>7 DEF IsIndexed
  <2>2. i \in P
    BY <2>1 DEF P
  <2>3. PICK k \in 1 .. c : Ascending(P)[k] = i
    BY <1>5, <2>2
  <2>4. k \in 1 .. Len(list) /\ list[k] = p.chunks[i]
    BY <1>5, <2>3
  <2> QED
    BY <2>1, <2>4
<1>8. ASSUME NEW k \in 1 .. Len(list), NEW l \in 1 .. Len(list), list[k].id = list[l].id
      PROVE  k = l
  <2>1. Ascending(P)[k] = Ascending(P)[l]
    BY <1>6, <1>8
  <2>2. Ascending(P)[k] \in P
    BY <1>6
  <2>3. \A x \in P : x \in Nat
    BY <1>2, <1>3
  <2> QED
    BY <1>5, <2>1, <2>2, <2>3
<1> QED
  BY <1>5, <1>6, <1>7, <1>8 DEF IsListed

LEMMA SourceIsListed ==
  ASSUME source \in Sources
  PROVE  IsListed(source, SourceRecords)
BY SourceIsPackage, RecordsAreListed DEF SourceRecords

\* The ids that are injected are the next ones of the destination.
InjectsNextIds ==
  /\ IsFiniteSet(ToInject) /\ Cardinality(ToInject) \in Nat
  /\ DOMAIN InjectedIds = ToInject
  /\ \A id \in ToInject :
       LET to == InjectedIds[id]
       IN /\ to = RecordId(OwnedIndex(destination.header), to.local)
          /\ to.local \in Nat /\ destination.header.next <= to.local
          /\ to.local < destination.header.next + Cardinality(ToInject)

LEMMA InjectedAreNext ==
  ASSUME destination \in Destinations, source \in Sources, RequestError = "None"
  PROVE  InjectsNextIds
<1> DEFINE next0 == destination.header.next
<1>1. IsFiniteSet(Ids(source)) /\ next0 \in Nat
  BY DestinationIsPackage, SourceIsPackage, PackageIsIndexed
  DEF IsIndexed, IsPackage, WellFormed, IsHeader
<1>2. SelectedRecords \subseteq Ids(source)
  BY DEF RequestError
<1>3. IsFiniteSet(ToInject) /\ Cardinality(ToInject) \in Nat
  <2>1. ToInject \subseteq Ids(source)
    BY <1>2 DEF ToInject
  <2> QED
    BY <1>1, <2>1, FS_Subset, FS_CardinalityType
<1>4. ASSUME NEW id \in ToInject
      PROVE  /\ InFront(ToInject, id) \in Nat
             /\ InFront(ToInject, id) < Cardinality(ToInject)
  <2> DEFINE front == {other \in ToInject : IndexOf(source, other) < IndexOf(source, id)}
  <2>1. IndexOf(source, id) \in Int
    <3>1. id \in Ids(source)
      BY <1>2 DEF ToInject
    <3>2. Len(source.chunks) \in Nat
      BY SourceIsPackage DEF IsPackage, WellFormed, IsSequence
    <3> QED
      BY <3>1, <3>2, SourceIsPackage, PackageIsIndexed DEF IsIndexed
  <2>2. front \subseteq ToInject /\ id \notin front
    BY <2>1
  <2>3. InFront(ToInject, id) = Cardinality(front)
    BY DEF InFront
  <2> HIDE DEF front
  <2>4. /\ IsFiniteSet(front) /\ Cardinality(front) \in Nat
        /\ Cardinality(front) <= Cardinality(ToInject)
        /\ Cardinality(front) # Cardinality(ToInject)
    BY <1>3, <2>2, FS_Subset, FS_CardinalityType
  <2> QED
    BY <1>3, <2>3, <2>4
<1>5. DOMAIN InjectedIds = ToInject
  BY DEF InjectedIds
<1>6. ASSUME NEW id \in ToInject
      PROVE  LET to == InjectedIds[id]
             IN /\ to = RecordId(OwnedIndex(destination.header), to.local)
                /\ to.local \in Nat /\ next0 <= to.local
                /\ to.local < next0 + Cardinality(ToInject)
  <2> DEFINE front == InFront(ToInject, id)
             last == Cardinality(ToInject)
             to == InjectedIds[id]
  <2>1. to = RecordId(OwnedIndex(destination.header), next0 + front)
    BY DEF InjectedIds
  <2>2. front \in Nat /\ front < last /\ last \in Nat
    BY <1>3, <1>4
  <2> HIDE DEF front, last, to
  <2>3. to.local = next0 + front /\ to = RecordId(OwnedIndex(destination.header), to.local)
    BY <2>1 DEF RecordId
  <2> HIDE DEF next0
  <2> QED
    BY <1>1, <2>2, <2>3 DEF to, last
<1> QED
  BY <1>3, <1>5, <1>6 DEF InjectsNextIds

(***************************************************************************)
(* The inductive invariant.                                                *)
(***************************************************************************)

\* Operation k is of the record that w says, which is one of those done, and every record
\* done that takes part has an operation.
IsOperation(op, r) ==
  /\ TakesPart(r) /\ InDestination(r)
  /\ op.id = Target(r)
  /\ op.kind = IF r.deleted THEN "Delete" ELSE IF IsNew(r) THEN "Add" ELSE "Override"
  /\ ~ r.deleted => Rewritable(r) /\ r.id \in DOMAIN actions /\ actions[r.id] = op.id

Operates(w) ==
  /\ w \in [1 .. Len(pending) -> 1 .. position]
  /\ \A k \in 1 .. Len(pending) : IsOperation(pending[k], SourceRecords[w[k]])
  /\ \A i \in 1 .. position :
       TakesPart(SourceRecords[i]) => \E k \in 1 .. Len(pending) : w[k] = i
  /\ \A id \in DOMAIN actions : \E k \in 1 .. Len(pending) :
       SourceRecords[w[k]].id = id /\ ~ SourceRecords[w[k]].deleted

\* No record has two operations, as ChangeSet::create demands.
AllDistinct == \A k, l \in 1 .. Len(pending) : pending[k].id = pending[l].id => k = l

DeletedIds == {pending[k].id : k \in {l \in 1 .. Len(pending) : pending[l].kind = "Delete"}}
PutIds == {pending[k].id : k \in {l \in 1 .. Len(pending) : pending[l].kind # "Delete"}}

\* The record of the destination as it came.
Former(id) == destination.chunks[IndexOf(destination, id)]

\* The subrecords of a record put, said from the destination as it came.
FirstContent(r) ==
  IF IsNew(r) \/ options.rules = ReplaceRecord THEN Rewritten(r)
  ELSE Compose(Former(Target(r)).subrecords, Rewritten(r), options.rules)

\* What an operation says and has done to the record it puts.
IsDone(op, r) ==
  /\ op.kind # "Add" => op.id \in Ids(destination) /\ op.previous = Former(op.id).stamp
  /\ op.kind # "Delete" =>
       /\ op.digest = FirstContent(r)
       /\ records[op.id] = LogicalRecord(op.id, FALSE, op.digest, r.stamp)

\* What the operations have done to the records.
IsRecorded(w) ==
  /\ DOMAIN records = (Ids(destination) \ DeletedIds) \cup PutIds
  /\ \A id \in DOMAIN records : id \notin PutIds => records[id] = Former(id)
  /\ \A k \in 1 .. Len(pending) : IsDone(pending[k], SourceRecords[w[k]])

IsPrepared ==
  /\ RequestError = "None"
  /\ selected = SelectedRecords /\ injected = InjectedIds
  /\ next = destination.header.next + Cardinality(ToInject)

IsUnderWay ==
  /\ IsPrepared
  /\ position \in 0 .. Len(SourceRecords)
  /\ IsSequence(pending)
  /\ tree = RemoveRecords(ReadTree(destination), DeletedIds)
  /\ \E w : Operates(w) /\ (AllDistinct => IsRecorded(w))

IInv ==
  /\ destination \in Destinations /\ source \in Sources /\ options \in Options
  /\ outcome = "Preparing" =>
       /\ next = destination.header.next
       /\ position = 0 /\ pending = <<>> /\ actions = <<>>
  /\ outcome \in {"Merging", "Merged"} => IsUnderWay
  /\ outcome = "Merged" =>
       position = Len(SourceRecords) /\ MergeError = "None" /\ result = MergedPackage

\* An element more at the end.
LEMMA Appended ==
  ASSUME NEW s, IsSequence(s), NEW e, NEW t, t = Append(s, e)
  PROVE  /\ IsSequence(t) /\ Len(s) \in Nat /\ Len(t) = Len(s) + 1
         /\ \A k \in 1 .. Len(s) : k \in 1 .. Len(t) /\ t[k] = s[k]
         /\ Len(t) \in 1 .. Len(t) /\ t[Len(t)] = e
         /\ \A k \in 1 .. Len(t) : k \in 1 .. Len(s) \/ k = Len(t)
<1>1. s \in Seq(ToSet(s) \cup {e}) /\ Len(s) \in Nat /\ s \in Seq(ToSet(s))
  <2>1. s \in Seq(ToSet(s))
    BY DEF IsSequence
  <2> DEFINE S == ToSet(s)
  <2> HIDE DEF S
  <2>2. s \in Seq(S) /\ S \subseteq S \cup {e}
    BY <2>1 DEF S
  <2>3. s \in Seq(S \cup {e}) /\ Len(s) \in Nat
    BY <2>2
  <2> QED
    BY <2>1, <2>3 DEF S
<1> DEFINE S == ToSet(s) \cup {e}
           n == Len(s)
<1> HIDE DEF S
<1>2. s \in Seq(S) /\ e \in S
  BY <1>1 DEF S
<1>3. /\ t \in Seq(S) /\ Len(t) = n + 1 /\ t[n + 1] = e
      /\ \A k \in 1 .. n : t[k] = s[k]
  BY <1>2
<1>4. n \in Nat /\ DOMAIN s = 1 .. n /\ DOMAIN t = 1 .. n + 1
  BY <1>2, <1>3
<1>5. ToSet(t) = S
  <2>1. \A k \in 1 .. n + 1 : t[k] \in S
    BY <1>3, <1>4
  <2>2. \A x \in S : x = e \/ \E k \in 1 .. n : s[k] = x
    BY <1>4 DEF S, ToSet
  <2>3. n + 1 \in 1 .. n + 1 /\ \A k \in 1 .. n : k \in 1 .. n + 1
    BY <1>4
  <2>4. \A x \in S : \E k \in 1 .. n + 1 : t[k] = x
    BY <1>3, <2>2, <2>3
  <2> QED
    BY <1>4, <2>1, <2>4 DEF ToSet
<1> QED
  BY <1>3, <1>4, <1>5 DEF IsSequence, n

\* Nothing removed is the tree as it is.
LEMMA NothingRemoved ==
  ASSUME NEW t, IsTree(t)
  PROVE  RemoveRecords(t, {}) = t
<1> DEFINE n == Len(t)
           P == 1 .. n
           list == [k \in P |-> k]
<1>1. n \in Nat /\ DOMAIN t = P /\ t = [i \in P |-> t[i]]
  BY DEF IsTree, HasDepths
<1>2. LeftBy(t, {}) = P
  BY <1>1 DEF LeftBy
<1> HIDE DEF n
<1>3. IsFiniteSet(P) /\ Cardinality(P) = n /\ P \in SUBSET Int
  BY <1>1, PlacesAreFinite
<1>4. \A k \in 1 .. n : Ascending(P)[k] = k
  <2>1. /\ list \in [1 .. n -> P] /\ \A k, l \in 1 .. n : k < l => list[k] < list[l]
        /\ \A x \in P : \A k \in 1 .. n : x < list[k] => \E l \in 1 .. n : list[l] = x
        /\ \A k \in 1 .. n : list[k] = k
    BY <1>1
  <2> HIDE DEF list, P
  <2>2. \A k \in 1 .. n : Ascending(P)[k] = list[k]
    BY <1>1, <1>3, <2>1, AscendingBegins
  <2> QED
    BY <2>1, <2>2
<1>5. Restricted(t, P) = [k \in 1 .. n |-> t[k]]
  BY <1>3, <1>4 DEF Restricted
<1> QED
  BY <1>1, <1>2, <1>5 DEF RemoveRecords, LeftBy

(***************************************************************************)
(* The steps.                                                              *)
(***************************************************************************)

\* What the steps behind the preparation read of the request.
LEMMA RequestStays ==
  ASSUME UNCHANGED <<request, selected, injected>>
  PROVE  /\ SourceRecords' = SourceRecords
         /\ \A r : /\ TakesPart(r)' <=> TakesPart(r)
                   /\ InDestination(r)' <=> InDestination(r)
                   /\ IsNew(r)' <=> IsNew(r)
                   /\ Target(r)' = Target(r)
                   /\ Rewritable(r)' <=> Rewritable(r)
                   /\ FirstContent(r)' = FirstContent(r)
         /\ \A id : Former(id)' = Former(id)
<1>1. SourceRecords' = SourceRecords /\ \A id : Former(id)' = Former(id)
  BY DEF SourceRecords, Former, request
<1>2. \A r : (TakesPart(r)' <=> TakesPart(r)) /\ (IsNew(r)' <=> IsNew(r))
  BY DEF TakesPart, IsNew, Owns, request
<1>3. \A r : InDestination(r)' <=> InDestination(r)
  BY DEF InDestination, IsNew, Owns, request
<1>4. \A r : Target(r)' = Target(r)
  BY DEF Target, IsNew, Owns, Mapped, DependencyMap, request
<1>5. \A r : Rewritable(r)' <=> Rewritable(r)
  BY DEF Rewritable, Mappable, Owns, request
<1>6. \A r : FirstContent(r)' = FirstContent(r)
  BY DEF FirstContent, Former, Target, IsNew, Owns, Rewritten, Mapped, DependencyMap, request
<1> QED
  BY <1>1, <1>2, <1>3, <1>4, <1>5, <1>6

LEMMA PreparedStays ==
  ASSUME UNCHANGED <<request, selected, injected, next>>, IsPrepared
  PROVE  IsPrepared'
<1>1. RequestError' = RequestError
  BY DEF request, Parents, SelectedRecords, WithAncestors, Chosen, Descendants, RequestError,
         ToInject, Owns
<1>2. SelectedRecords' = SelectedRecords
  BY DEF request, Parents, SelectedRecords, WithAncestors, Chosen, Descendants
<1>3. ToInject' = ToInject
  BY <1>2 DEF request, ToInject, Owns
<1>4. InjectedIds' = InjectedIds
  BY <1>3 DEF request, InjectedIds, InFront
<1> QED
  BY <1>1, <1>2, <1>3, <1>4 DEF IsPrepared, request

LEMMA PrepareStarts ==
  ASSUME IInv, Prepare
  PROVE  IsUnderWay'
<1>1. /\ next = destination.header.next /\ position = 0 /\ pending = <<>> /\ actions = <<>>
      /\ destination \in Destinations /\ source \in Sources
      /\ UNCHANGED <<request, position, pending, actions>>
      /\ RequestError = "None" /\ selected' = SelectedRecords /\ injected' = InjectedIds
      /\ next' = next + Cardinality(ToInject)
      /\ records' = [id \in Ids(destination) |-> destination.chunks[IndexOf(destination, id)]]
      /\ tree' = ReadTree(destination)
  BY DEF IInv, Prepare
<1>2. destination' = destination /\ source' = source /\ options' = options
  BY <1>1 DEF request
<1>3. IsPrepared'
  <2>1. RequestError' = RequestError
    BY <1>2 DEF Parents, SelectedRecords, WithAncestors, Chosen, Descendants, RequestError,
                ToInject, Owns
  <2>2. SelectedRecords' = SelectedRecords
    BY <1>2 DEF Parents, SelectedRecords, WithAncestors, Chosen, Descendants
  <2>3. ToInject' = ToInject
    BY <1>2, <2>2 DEF ToInject, Owns
  <2>4. InjectedIds' = InjectedIds
    BY <1>2, <2>3 DEF InjectedIds, InFront
  <2> QED
    BY <1>1, <1>2, <2>1, <2>2, <2>3, <2>4 DEF IsPrepared
<1>4. SourceRecords' = SourceRecords /\ \A id : Former(id)' = Former(id)
  BY <1>2 DEF SourceRecords, Former
<1>5. /\ position' = 0 /\ pending' = <<>> /\ actions' = <<>>
      /\ Len(pending') = 0 /\ IsSequence(pending')
  BY <1>1 DEF IsSequence
<1>6. position' \in 0 .. Len(SourceRecords')
  BY <1>1, <1>4, <1>5, SourceIsListed DEF IsListed
<1>7. DeletedIds' = {} /\ PutIds' = {}
  BY <1>5 DEF DeletedIds, PutIds
<1>8. tree' = RemoveRecords(ReadTree(destination'), DeletedIds')
  BY <1>1, <1>2, <1>7, DestinationIsPackage, PackageHasTree, NothingRemoved DEF HasTree
<1> DEFINE w == [k \in 1 .. 0 |-> 0]
<1>9. Operates(w)'
  <2>1. \A x : x \notin 1 .. 0
    OBVIOUS
  <2>2. w \in [1 .. 0 -> 1 .. 0] /\ DOMAIN actions' = {}
    BY <1>5, <2>1
  <2> HIDE DEF w
  <2>3. w \in [1 .. Len(pending') -> 1 .. position']
    BY <1>5, <2>2
  <2> QED
    BY <1>5, <2>1, <2>2, <2>3 DEF Operates
<1>10. IsRecorded(w)'
  <2>1. \A x : x \notin 1 .. 0
    OBVIOUS
  <2>2. DOMAIN records' = (Ids(destination') \ DeletedIds') \cup PutIds'
    BY <1>1, <1>2, <1>7
  <2>3. \A id \in DOMAIN records' : records'[id] = Former(id)'
    BY <1>1, <1>2 DEF Former
  <2> HIDE DEF w
  <2> QED
    BY <1>5, <2>1, <2>2, <2>3 DEF IsRecorded
<1> HIDE DEF w
<1> QED
  BY <1>3, <1>5, <1>6, <1>8, <1>9, <1>10 DEF IsUnderWay

\* The map of the operations once there is one more.
WithNext(w, n, i) == [k \in 1 .. n + 1 |-> IF k <= n THEN w[k] ELSE i]

\* A record is done without an operation.
LEMMA OperatesWithout ==
  ASSUME NEW w, Operates(w), position \in Nat, ~ TakesPart(SourceRecords[position + 1]),
         position' = position + 1,
         UNCHANGED <<request, selected, injected, pending, actions>>
  PROVE  Operates(w)'
<1>1. /\ SourceRecords' = SourceRecords
      /\ \A r : /\ TakesPart(r)' <=> TakesPart(r)
                /\ InDestination(r)' <=> InDestination(r)
                /\ IsNew(r)' <=> IsNew(r)
                /\ Target(r)' = Target(r)
                /\ Rewritable(r)' <=> Rewritable(r)
  BY RequestStays
<1>2. pending' = pending /\ actions' = actions
  OBVIOUS
<1>3. \A op, r : IsOperation(op, r)' <=> IsOperation(op, r)
  BY <1>1, <1>2 DEF IsOperation
<1>4. w \in [1 .. Len(pending) -> 1 .. position + 1]
  BY DEF Operates
<1>5. \A i \in 1 .. position + 1 : i \in 1 .. position \/ i = position + 1
  OBVIOUS
<1>6. \A k \in 1 .. Len(pending) : IsOperation(pending[k], SourceRecords[w[k]])'
  BY <1>1, <1>2, <1>3 DEF Operates
<1>7. \A i \in 1 .. position + 1 :
        TakesPart(SourceRecords[i]) => \E k \in 1 .. Len(pending) : w[k] = i
  BY <1>5 DEF Operates
<1>8. \A id \in DOMAIN actions : \E k \in 1 .. Len(pending) :
        SourceRecords[w[k]].id = id /\ ~ SourceRecords[w[k]].deleted
  BY DEF Operates
<1> QED
  BY <1>1, <1>2, <1>4, <1>6, <1>7, <1>8 DEF Operates

\* One more value of a function.
LEMMA PutAlso ==
  ASSUME NEW f, NEW x, NEW y, NEW g, g = Inserted(f, x, y)
  PROVE  /\ DOMAIN g = DOMAIN f \cup {x} /\ g[x] = y
         /\ \A z \in DOMAIN f : z # x => g[z] = f[z]
BY DEF Inserted

\* A record is done with an operation.
LEMMA OperatesWith ==
  ASSUME NEW w, Operates(w), IsSequence(pending), position \in Nat, source \in Sources,
         position + 1 <= Len(SourceRecords), NEW r, r = SourceRecords[position + 1],
         TakesPart(r), InDestination(r), NEW op, op.id = Target(r),
         op.kind = (IF r.deleted THEN "Delete" ELSE IF IsNew(r) THEN "Add" ELSE "Override"),
         r.deleted => actions' = actions,
         ~ r.deleted => Rewritable(r) /\ actions' = Inserted(actions, r.id, op.id),
         pending' = Append(pending, op), position' = position + 1,
         UNCHANGED <<request, selected, injected>>,
         NEW v, v = WithNext(w, Len(pending), position + 1)
  PROVE  Operates(v)'
<1>0. PICK n, i : n = Len(pending) /\ i = position + 1
  OBVIOUS
<1>1. /\ SourceRecords' = SourceRecords
      /\ \A s : /\ TakesPart(s)' <=> TakesPart(s)
                /\ InDestination(s)' <=> InDestination(s)
                /\ IsNew(s)' <=> IsNew(s)
                /\ Target(s)' = Target(s)
                /\ Rewritable(s)' <=> Rewritable(s)
  BY RequestStays
<1>2. /\ n \in Nat /\ Len(pending') = n + 1
      /\ \A k \in 1 .. n : k \in 1 .. n + 1 /\ pending'[k] = pending[k]
      /\ n + 1 \in 1 .. n + 1 /\ pending'[n + 1] = op
      /\ \A k \in 1 .. n + 1 : k \in 1 .. n \/ k = n + 1
  <2> DEFINE t == pending'
  <2>1. t = Append(pending, op)
    OBVIOUS
  <2> HIDE DEF t
  <2>2. /\ Len(pending) \in Nat /\ Len(t) = Len(pending) + 1
        /\ \A k \in 1 .. Len(pending) : k \in 1 .. Len(t) /\ t[k] = pending[k]
        /\ Len(t) \in 1 .. Len(t) /\ t[Len(t)] = op
        /\ \A k \in 1 .. Len(t) : k \in 1 .. Len(pending) \/ k = Len(t)
    BY <2>1, Appended
  <2> QED
    BY <1>0, <2>2 DEF t
<1>3. /\ v[n + 1] = i /\ DOMAIN v = 1 .. n + 1 /\ v = [k \in 1 .. n + 1 |-> v[k]]
      /\ \A k \in 1 .. n : v[k] = w[k]
  BY <1>0, <1>2 DEF WithNext
<1>4. /\ i \in Nat /\ i \in 1 .. i /\ position < i /\ i \in 1 .. Len(SourceRecords)
      /\ \A k \in 1 .. position : k \in 1 .. i /\ k \in 1 .. Len(SourceRecords)
      /\ \A k \in 1 .. i : k \in 1 .. position \/ k = i
  BY <1>0, SourceIsListed DEF IsListed
<1>5. /\ w \in [1 .. n -> 1 .. position]
      /\ \A k \in 1 .. n : IsOperation(pending[k], SourceRecords[w[k]])
      /\ \A k \in 1 .. position :
           TakesPart(SourceRecords[k]) => \E l \in 1 .. n : w[l] = k
      /\ \A id \in DOMAIN actions : \E k \in 1 .. n :
           SourceRecords[w[k]].id = id /\ ~ SourceRecords[w[k]].deleted
  BY <1>0 DEF Operates
<1>6. position' = i
  BY <1>0
<1>7. \A k, l \in 1 .. Len(SourceRecords) : SourceRecords[k].id = SourceRecords[l].id => k = l
  BY SourceIsListed DEF IsListed
<1>8. \A k \in 1 .. n : w[k] \in 1 .. position /\ w[k] # i
  BY <1>4, <1>5
<1>9. v \in [1 .. n + 1 -> 1 .. i]
  <2>1. \A k \in 1 .. n + 1 : v[k] \in 1 .. i
    BY <1>2, <1>3, <1>4, <1>8
  <2> QED
    BY <1>3, <2>1
<1>10. /\ r.deleted => actions' = actions
       /\ ~ r.deleted => /\ DOMAIN actions' = DOMAIN actions \cup {r.id}
                         /\ actions'[r.id] = op.id
                         /\ \A id \in DOMAIN actions : id # r.id => actions'[id] = actions[id]
  BY DEF Inserted
<1>11. ASSUME NEW k \in 1 .. n
       PROVE  IsOperation(pending[k], SourceRecords[v[k]])'
  <2>0. PICK o, s : o = pending[k] /\ s = SourceRecords[w[k]]
    OBVIOUS
  <2>1. IsOperation(o, s)
    BY <1>5, <2>0
  <2>2. s.id # r.id
    BY <1>4, <1>7, <1>8, <2>0, <1>0
  <2>3. pending'[k] = o /\ SourceRecords'[v[k]] = s
    BY <1>1, <1>2, <1>3, <2>0
  <2>4. /\ TakesPart(s)' /\ InDestination(s)'
        /\ o.id = Target(s)'
        /\ o.kind = IF s.deleted THEN "Delete" ELSE IF IsNew(s)' THEN "Add" ELSE "Override"
    BY <1>1, <2>1 DEF IsOperation
  <2>5. ~ s.deleted => Rewritable(s)' /\ s.id \in DOMAIN actions' /\ actions'[s.id] = o.id
    BY <1>1, <1>10, <2>1, <2>2 DEF IsOperation
  <2> QED
    BY <2>3, <2>4, <2>5 DEF IsOperation
<1>12. IsOperation(pending[n + 1], SourceRecords[v[n + 1]])'
  <2>1. pending'[n + 1] = op /\ SourceRecords'[v[n + 1]] = r
    BY <1>1, <1>2, <1>3, <1>0
  <2>2. /\ TakesPart(r)' /\ InDestination(r)'
        /\ op.id = Target(r)'
        /\ op.kind = IF r.deleted THEN "Delete" ELSE IF IsNew(r)' THEN "Add" ELSE "Override"
    BY <1>1
  <2>3. ~ r.deleted => Rewritable(r)' /\ r.id \in DOMAIN actions' /\ actions'[r.id] = op.id
    BY <1>1, <1>10
  <2> QED
    BY <2>1, <2>2, <2>3 DEF IsOperation
<1>13. ASSUME NEW k \in 1 .. i, TakesPart(SourceRecords[k])
       PROVE  \E l \in 1 .. n + 1 : v[l] = k
  <2>1. CASE k = i
    BY <1>2, <1>3, <2>1
  <2>2. CASE k # i
    <3>1. PICK l \in 1 .. n : w[l] = k
      BY <1>4, <1>5, <1>13, <2>2
    <3> QED
      BY <1>2, <1>3, <3>1
  <2> QED
    BY <2>1, <2>2
<1>14. ASSUME NEW id \in DOMAIN actions'
       PROVE  \E k \in 1 .. n + 1 : SourceRecords[v[k]].id = id /\ ~ SourceRecords[v[k]].deleted
  <2>1. CASE id \in DOMAIN actions
    <3>1. PICK k \in 1 .. n : SourceRecords[w[k]].id = id /\ ~ SourceRecords[w[k]].deleted
      BY <1>5, <2>1
    <3> QED
      BY <1>2, <1>3, <3>1
  <2>2. CASE id \notin DOMAIN actions
    <3>1. ~ r.deleted /\ id = r.id
      BY <1>10, <1>14, <2>2
    <3>2. SourceRecords[v[n + 1]] = r
      BY <1>3, <1>0
    <3> QED
      BY <1>2, <3>1, <3>2
  <2> QED
    BY <2>1, <2>2
<1>15. \A k \in 1 .. n + 1 : IsOperation(pending[k], SourceRecords[v[k]])'
  BY <1>2, <1>11, <1>12
<1>16. Len(pending') = n + 1
  BY <1>2
<1> QED
  BY <1>1, <1>6, <1>9, <1>13, <1>14, <1>15, <1>16 DEF Operates

LEMMA RecordedWithout ==
  ASSUME NEW w, IsRecorded(w), UNCHANGED <<request, selected, injected, pending, records>>
  PROVE  IsRecorded(w)'
<1>1. /\ SourceRecords' = SourceRecords /\ \A r : FirstContent(r)' = FirstContent(r)
      /\ \A id : Former(id)' = Former(id)
  BY RequestStays
<1>2. DeletedIds' = DeletedIds /\ PutIds' = PutIds /\ Ids(destination') = Ids(destination)
  BY DEF DeletedIds, PutIds, request
<1>3. pending' = pending /\ records' = records
  OBVIOUS
<1>4. /\ DOMAIN records' = (Ids(destination') \ DeletedIds') \cup PutIds'
      /\ \A id \in DOMAIN records' : id \notin PutIds' => records'[id] = Former(id)'
  BY <1>1, <1>2, <1>3 DEF IsRecorded
<1>5. ASSUME NEW k \in 1 .. Len(pending)
      PROVE  IsDone(pending[k], SourceRecords[w[k]])'
  <2>0. PICK o, s : o = pending[k] /\ s = SourceRecords[w[k]]
    OBVIOUS
  <2>1. IsDone(o, s)
    BY <2>0 DEF IsRecorded
  <2>2. IsDone(o, s)'
    BY <1>1, <1>2, <1>3, <2>1 DEF IsDone
  <2> QED
    BY <1>1, <1>3, <2>0, <2>2
<1> QED
  BY <1>1, <1>3, <1>4, <1>5 DEF IsRecorded

\* What an operation more does to the sets of ids.
LEMMA OneMoreOperation ==
  ASSUME IsSequence(pending), NEW op, pending' = Append(pending, op)
  PROVE  /\ DeletedIds' = DeletedIds \cup (IF op.kind = "Delete" THEN {op.id} ELSE {})
         /\ PutIds' = PutIds \cup (IF op.kind = "Delete" THEN {} ELSE {op.id})
         /\ IsSequence(pending')
         /\ AllDistinct' => /\ AllDistinct
                            /\ \A k \in 1 .. Len(pending) : pending[k].id # op.id
<1> DEFINE t == pending'
<1>1. t = Append(pending, op) /\ IsSequence(pending)
  OBVIOUS
<1> HIDE DEF t
<1>2. /\ IsSequence(t) /\ Len(pending) \in Nat /\ Len(t) = Len(pending) + 1
      /\ \A k \in 1 .. Len(pending) : k \in 1 .. Len(t) /\ t[k] = pending[k]
      /\ Len(t) \in 1 .. Len(t) /\ t[Len(t)] = op
      /\ \A k \in 1 .. Len(t) : k \in 1 .. Len(pending) \/ k = Len(t)
  <2>1. PICK s : s = pending
    OBVIOUS
  <2>2. IsSequence(s) /\ t = Append(s, op)
    BY <1>1, <2>1
  <2>3. IsSequence(t)
    BY <2>2, Appended
  <2>4. /\ Len(s) \in Nat /\ Len(t) = Len(s) + 1
        /\ \A k \in 1 .. Len(s) : k \in 1 .. Len(t) /\ t[k] = s[k]
        /\ Len(t) \in 1 .. Len(t) /\ t[Len(t)] = op
        /\ \A k \in 1 .. Len(t) : k \in 1 .. Len(s) \/ k = Len(t)
    BY <2>2, Appended
  <2> QED
    BY <2>1, <2>3, <2>4
<1>3. DeletedIds' = {t[k].id : k \in {l \in 1 .. Len(t) : t[l].kind = "Delete"}}
  BY DEF DeletedIds, t
<1>4. PutIds' = {t[k].id : k \in {l \in 1 .. Len(t) : t[l].kind # "Delete"}}
  BY DEF PutIds, t
<1>5. \A id : id \in DeletedIds' <=> id \in DeletedIds \/ (op.kind = "Delete" /\ id = op.id)
  BY <1>2, <1>3 DEF DeletedIds
<1>6. \A id : id \in PutIds' <=> id \in PutIds \/ (op.kind # "Delete" /\ id = op.id)
  BY <1>2, <1>4 DEF PutIds
<1>7. ASSUME AllDistinct'
      PROVE  AllDistinct /\ \A k \in 1 .. Len(pending) : pending[k].id # op.id
  <2>1. \A k, l \in 1 .. Len(t) : t[k].id = t[l].id => k = l
    BY <1>7 DEF AllDistinct, t
  <2>2. AllDistinct
    BY <1>2, <2>1 DEF AllDistinct
  <2>3. \A k \in 1 .. Len(pending) : k # Len(t)
    BY <1>2
  <2> QED
    BY <1>2, <2>1, <2>2, <2>3
<1> QED
  BY <1>2, <1>5, <1>6, <1>7 DEF t

LEMMA RecordedWith ==
  ASSUME NEW w, IsRecorded(w), IsSequence(pending), AllDistinct',
         NEW i, NEW r, r = SourceRecords[i], NEW op, op.id = Target(r),
         op.kind = (IF r.deleted THEN "Delete" ELSE IF IsNew(r) THEN "Add" ELSE "Override"),
         r.deleted \/ ~ IsNew(r) => op.id \in DOMAIN records /\ op.previous = records[op.id].stamp,
         r.deleted => records' = [id \in DOMAIN records \ {op.id} |-> records[id]],
         ~ r.deleted => /\ op.digest = Content(r)
                        /\ records' = Inserted(records, op.id,
                                               LogicalRecord(op.id, FALSE, op.digest, r.stamp)),
         pending' = Append(pending, op), UNCHANGED <<request, selected, injected>>,
         NEW v, v = WithNext(w, Len(pending), i)
  PROVE  IsRecorded(v)'
<1>0. PICK n : n = Len(pending)
  OBVIOUS
<1>1. /\ SourceRecords' = SourceRecords
      /\ \A s : FirstContent(s)' = FirstContent(s)
      /\ \A id : Former(id)' = Former(id)
  BY RequestStays
<1>2. /\ n \in Nat /\ Len(pending') = n + 1
      /\ \A k \in 1 .. n : k \in 1 .. n + 1 /\ pending'[k] = pending[k]
      /\ n + 1 \in 1 .. n + 1 /\ pending'[n + 1] = op
      /\ \A k \in 1 .. n + 1 : k \in 1 .. n \/ k = n + 1
  <2> DEFINE t == pending'
  <2>1. t = Append(pending, op)
    OBVIOUS
  <2> HIDE DEF t
  <2>2. /\ Len(pending) \in Nat /\ Len(t) = Len(pending) + 1
        /\ \A k \in 1 .. Len(pending) : k \in 1 .. Len(t) /\ t[k] = pending[k]
        /\ Len(t) \in 1 .. Len(t) /\ t[Len(t)] = op
        /\ \A k \in 1 .. Len(t) : k \in 1 .. Len(pending) \/ k = Len(t)
    BY <2>1, Appended
  <2> QED
    BY <1>0, <2>2 DEF t
<1>3. v[n + 1] = i /\ \A k \in 1 .. n : v[k] = w[k]
  BY <1>0, <1>2 DEF WithNext
<1>4. /\ DeletedIds' = DeletedIds \cup (IF op.kind = "Delete" THEN {op.id} ELSE {})
      /\ PutIds' = PutIds \cup (IF op.kind = "Delete" THEN {} ELSE {op.id})
      /\ AllDistinct /\ \A k \in 1 .. n : pending[k].id # op.id
  BY <1>0, OneMoreOperation
<1>5. op.id \notin PutIds /\ op.id \notin DeletedIds
  BY <1>0, <1>4 DEF PutIds, DeletedIds
<1>6. /\ DOMAIN records = (Ids(destination) \ DeletedIds) \cup PutIds
      /\ \A id \in DOMAIN records : id \notin PutIds => records[id] = Former(id)
      /\ \A k \in 1 .. n : IsDone(pending[k], SourceRecords[w[k]])
  BY <1>0 DEF IsRecorded
<1>7. r.deleted \/ ~ IsNew(r) =>
        /\ op.id \in Ids(destination) /\ records[op.id] = Former(op.id)
        /\ op.previous = Former(op.id).stamp
  BY <1>5, <1>6
<1>8. ~ r.deleted => op.digest = FirstContent(r)
  BY <1>7 DEF Content, FirstContent
<1>9. /\ r.deleted => /\ DOMAIN records' = DOMAIN records \ {op.id}
                      /\ \A id \in DOMAIN records' : records'[id] = records[id]
      /\ ~ r.deleted => /\ DOMAIN records' = DOMAIN records \cup {op.id}
                        /\ records'[op.id] = LogicalRecord(op.id, FALSE, op.digest, r.stamp)
                        /\ \A id \in DOMAIN records : id # op.id => records'[id] = records[id]
  BY DEF Inserted
<1>10. Ids(destination') = Ids(destination)
  BY DEF request
<1>11. op.kind = "Delete" <=> r.deleted
  OBVIOUS
<1>12. DOMAIN records' = (Ids(destination') \ DeletedIds') \cup PutIds'
  <2>1. CASE r.deleted
    BY <1>4, <1>5, <1>6, <1>9, <1>10, <1>11, <2>1
  <2>2. CASE ~ r.deleted
    BY <1>4, <1>5, <1>6, <1>7, <1>9, <1>10, <1>11, <2>2
  <2> QED
    BY <2>1, <2>2
<1>13. \A id \in DOMAIN records' : id \notin PutIds' => records'[id] = Former(id)'
  <2>1. CASE r.deleted
    BY <1>1, <1>4, <1>6, <1>9, <1>11, <2>1
  <2>2. CASE ~ r.deleted
    BY <1>1, <1>4, <1>6, <1>9, <1>11, <2>2
  <2> QED
    BY <2>1, <2>2
<1>14. ASSUME NEW k \in 1 .. n
       PROVE  IsDone(pending[k], SourceRecords[v[k]])'
  <2>0. PICK o, s : o = pending[k] /\ s = SourceRecords[w[k]]
    OBVIOUS
  <2>1. pending'[k] = o /\ SourceRecords'[v[k]] = s
    BY <1>1, <1>2, <1>3, <2>0
  <2>2. IsDone(o, s)
    BY <1>6, <2>0
  <2>3. o.id # op.id
    BY <1>4, <2>0
  <2>4. o.kind # "Delete" => o.id \in DOMAIN records
    <3>1. o.kind # "Delete" => o.id \in PutIds
      BY <1>0, <2>0 DEF PutIds
    <3> QED
      BY <1>6, <3>1
  <2>5. o.kind # "Delete" => records'[o.id] = records[o.id]
    BY <1>9, <2>3, <2>4
  <2>6. IsDone(o, s)'
    BY <1>1, <1>10, <2>2, <2>5 DEF IsDone
  <2> QED
    BY <2>1, <2>6
<1>15. IsDone(pending[n + 1], SourceRecords[v[n + 1]])'
  <2>1. pending'[n + 1] = op /\ SourceRecords'[v[n + 1]] = r
    BY <1>1, <1>2, <1>3
  <2>2. op.kind # "Add" => op.id \in Ids(destination') /\ op.previous = Former(op.id)'.stamp
    BY <1>1, <1>7, <1>10
  <2>3. op.kind # "Delete" => /\ op.digest = FirstContent(r)'
                              /\ records'[op.id] = LogicalRecord(op.id, FALSE, op.digest, r.stamp)
    BY <1>1, <1>8, <1>9, <1>11
  <2>4. IsDone(op, r)'
    BY <2>2, <2>3 DEF IsDone
  <2> QED
    BY <2>1, <2>4
<1>16. ASSUME NEW k \in 1 .. n + 1
       PROVE  IsDone(pending[k], SourceRecords[v[k]])'
  BY <1>2, <1>14, <1>15
<1>17. Len(pending') = n + 1
  BY <1>2
<1> QED
  BY <1>12, <1>13, <1>16, <1>17 DEF IsRecorded

LEMMA SkipStays ==
  ASSUME IInv, SkipRecord
  PROVE  IsUnderWay'
<1>1. /\ IsUnderWay /\ source \in Sources
      /\ position < Len(SourceRecords) /\ ~ TakesPart(SourceRecords[position + 1])
      /\ position' = position + 1
      /\ UNCHANGED <<request, next, selected, injected, records, tree, pending, actions>>
  BY DEF IInv, SkipRecord, More, Current
<1>2. position \in 0 .. Len(SourceRecords) /\ Len(SourceRecords) \in Nat
  BY <1>1, SourceIsListed DEF IsUnderWay, IsListed
<1>3. UNCHANGED <<request, selected, injected>>
  BY <1>1
<1>4. SourceRecords' = SourceRecords /\ DeletedIds' = DeletedIds /\ destination' = destination
  BY <1>1 DEF SourceRecords, DeletedIds, request
<1>5. IsPrepared'
  BY <1>1, PreparedStays DEF IsUnderWay
<1>6. PICK w : Operates(w) /\ (AllDistinct => IsRecorded(w))
  BY <1>1 DEF IsUnderWay
<1>7. Operates(w)'
  <2>1. position \in Nat
    BY <1>2
  <2> QED
    BY <1>1, <1>3, <1>6, <2>1, OperatesWithout
<1>8. AllDistinct' => IsRecorded(w)'
  <2>1. AllDistinct' <=> AllDistinct
    BY <1>1 DEF AllDistinct
  <2> QED
    BY <1>1, <1>3, <1>6, <2>1, RecordedWithout
<1>9. position' \in 0 .. Len(SourceRecords')
  BY <1>1, <1>2, <1>4
<1>10. IsSequence(pending')
  BY <1>1 DEF IsUnderWay
<1>11. tree' = RemoveRecords(ReadTree(destination'), DeletedIds')
  BY <1>1, <1>4 DEF IsUnderWay
<1> QED
  BY <1>5, <1>7, <1>8, <1>9, <1>10, <1>11 DEF IsUnderWay

\* A record is done with an operation.
LEMMA OperationStays ==
  ASSUME IsUnderWay, source \in Sources, destination \in Destinations,
         position < Len(SourceRecords), NEW r, r = SourceRecords[position + 1],
         TakesPart(r), InDestination(r), NEW op, op.id = Target(r),
         op.kind = (IF r.deleted THEN "Delete" ELSE IF IsNew(r) THEN "Add" ELSE "Override"),
         r.deleted \/ ~ IsNew(r) => op.id \in DOMAIN records /\ op.previous = records[op.id].stamp,
         r.deleted => /\ actions' = actions
                      /\ tree' = RemoveRecords(tree, {op.id})
                      /\ records' = [id \in DOMAIN records \ {op.id} |-> records[id]],
         ~ r.deleted => /\ Rewritable(r) /\ actions' = Inserted(actions, r.id, op.id)
                        /\ tree' = tree /\ op.digest = Content(r)
                        /\ records' = Inserted(records, op.id,
                                               LogicalRecord(op.id, FALSE, op.digest, r.stamp)),
         pending' = Append(pending, op), position' = position + 1,
         UNCHANGED <<request, next, selected, injected>>
  PROVE  IsUnderWay'
<1>1. /\ position \in 0 .. Len(SourceRecords) /\ Len(SourceRecords) \in Nat
      /\ IsSequence(pending)
  BY SourceIsListed DEF IsUnderWay, IsListed
<1>2. UNCHANGED <<request, selected, injected>>
  OBVIOUS
<1>3. SourceRecords' = SourceRecords /\ destination' = destination
  BY DEF SourceRecords, request
<1>4. IsPrepared'
  BY PreparedStays DEF IsUnderWay
<1>5. /\ DeletedIds' = DeletedIds \cup (IF op.kind = "Delete" THEN {op.id} ELSE {})
      /\ IsSequence(pending')
      /\ AllDistinct' => AllDistinct
  BY <1>1, OneMoreOperation
<1>6. PICK w : Operates(w) /\ (AllDistinct => IsRecorded(w))
  BY DEF IsUnderWay
<1>7. PICK v : v = WithNext(w, Len(pending), position + 1)
  OBVIOUS
<1>8. position \in Nat /\ position + 1 <= Len(SourceRecords)
  BY <1>1
<1>9. Operates(v)'
  <2>1. /\ r.deleted => actions' = actions
        /\ ~ r.deleted => Rewritable(r) /\ actions' = Inserted(actions, r.id, op.id)
    OBVIOUS
  <2> QED
    BY <1>1, <1>2, <1>6, <1>7, <1>8, <2>1, OperatesWith
<1>10. ASSUME AllDistinct'
       PROVE  IsRecorded(v)'
  <2>1. IsRecorded(w)
    BY <1>5, <1>6, <1>10
  <2>2. /\ r.deleted => records' = [id \in DOMAIN records \ {op.id} |-> records[id]]
        /\ ~ r.deleted => /\ op.digest = Content(r)
                          /\ records' = Inserted(records, op.id,
                                                 LogicalRecord(op.id, FALSE, op.digest, r.stamp))
    OBVIOUS
  <2>3. PICK i : i = position + 1
    OBVIOUS
  <2> QED
    BY <1>1, <1>2, <1>7, <1>10, <2>1, <2>2, <2>3, RecordedWith
<1>11. position' \in 0 .. Len(SourceRecords')
  BY <1>1, <1>3
<1>12. tree' = RemoveRecords(ReadTree(destination'), DeletedIds')
  <2>1. tree = RemoveRecords(ReadTree(destination), DeletedIds)
    BY DEF IsUnderWay
  <2>2. CASE r.deleted
    <3>1. DeletedIds' = DeletedIds \cup {op.id} /\ tree' = RemoveRecords(tree, {op.id})
      BY <1>5, <2>2
    <3>2. IsTree(ReadTree(destination))
      BY DestinationIsPackage, PackageHasTree DEF HasTree
    <3> QED
      BY <1>3, <2>1, <3>1, <3>2, RemovedTwice
  <2>3. CASE ~ r.deleted
    <3>1. DeletedIds' = DeletedIds /\ tree' = tree
      BY <1>5, <2>3
    <3> QED
      BY <1>3, <2>1, <3>1
  <2> QED
    BY <2>2, <2>3
<1> QED
  BY <1>4, <1>5, <1>9, <1>10, <1>11, <1>12 DEF IsUnderWay

\* A record that a merge takes over is one the destination has, or can have.
LEMMA NoRecordError ==
  ASSUME NEW r, RecordError(r) = "None"
  PROVE  /\ InDestination(r)
         /\ r.deleted => Target(r) \in DOMAIN records
         /\ ~ r.deleted => Rewritable(r)
         /\ ~ r.deleted /\ ~ IsNew(r) => Target(r) \in DOMAIN records
BY DEF RecordError

LEMMA DeleteStays ==
  ASSUME IInv, DeleteRecord
  PROVE  IsUnderWay'
<1>1. PICK r : r = Current
  OBVIOUS
<1>2. PICK op : op = [kind |-> "Delete", id |-> Target(r), previous |-> records[Target(r)].stamp]
  OBVIOUS
<1>3. op.kind = "Delete" /\ op.id = Target(r) /\ op.previous = records[op.id].stamp
  BY <1>2
<1>4. /\ IsUnderWay /\ source \in Sources /\ destination \in Destinations
      /\ position < Len(SourceRecords) /\ r = SourceRecords[position + 1]
      /\ TakesPart(r) /\ r.deleted /\ RecordError(r) = "None"
      /\ UNCHANGED <<request, next, selected, injected>> /\ actions' = actions
      /\ position' = position + 1
  BY <1>1 DEF IInv, DeleteRecord, More, Current
<1>5. InDestination(r) /\ op.id \in DOMAIN records
  BY <1>3, <1>4, NoRecordError
<1>6. /\ tree' = RemoveRecords(tree, {op.id})
      /\ records' = [id \in DOMAIN records \ {op.id} |-> records[id]]
      /\ pending' = Append(pending, op)
  BY <1>1, <1>2, <1>3 DEF DeleteRecord
<1> QED
  BY <1>3, <1>4, <1>5, <1>6, OperationStays

LEMMA PutStays ==
  ASSUME IInv, PutRecord
  PROVE  IsUnderWay'
<1>1. PICK r : r = Current
  OBVIOUS
<1>2. PICK op : op = IF IsNew(r) THEN [kind |-> "Add", id |-> Target(r), digest |-> Content(r)]
                     ELSE [kind |-> "Override", id |-> Target(r),
                           previous |-> records[Target(r)].stamp, digest |-> Content(r)]
  OBVIOUS
<1>3. /\ op.kind = IF IsNew(r) THEN "Add" ELSE "Override"
      /\ op.id = Target(r) /\ op.digest = Content(r)
      /\ ~ IsNew(r) => op.previous = records[op.id].stamp
  BY <1>2
<1>4. /\ IsUnderWay /\ source \in Sources /\ destination \in Destinations
      /\ position < Len(SourceRecords) /\ r = SourceRecords[position + 1]
      /\ TakesPart(r) /\ ~ r.deleted /\ RecordError(r) = "None"
      /\ UNCHANGED <<request, next, selected, injected>> /\ tree' = tree
      /\ position' = position + 1
  BY <1>1 DEF IInv, PutRecord, More, Current
<1>5. InDestination(r) /\ Rewritable(r) /\ (~ IsNew(r) => op.id \in DOMAIN records)
  BY <1>3, <1>4, NoRecordError
<1>6. /\ actions' = Inserted(actions, r.id, op.id)
      /\ records' = Inserted(records, op.id, LogicalRecord(op.id, FALSE, op.digest, r.stamp))
  BY <1>1, <1>3 DEF PutRecord
<1>7. pending' = Append(pending, op)
  BY <1>1, <1>2 DEF PutRecord
<1> QED
  BY <1>3, <1>4, <1>5, <1>6, <1>7, OperationStays

LEMMA UnderWayStays ==
  ASSUME IsUnderWay, UNCHANGED <<request, next, selected, injected, position, records, tree,
                                 pending, actions>>
  PROVE  IsUnderWay' /\ MergeError' = MergeError /\ MergedPackage' = MergedPackage
<1>1. /\ destination' = destination /\ source' = source /\ options' = options
      /\ next' = next /\ selected' = selected /\ injected' = injected /\ position' = position
      /\ records' = records /\ tree' = tree /\ pending' = pending /\ actions' = actions
  BY DEF request
<1>2. IsPrepared'
  BY PreparedStays DEF IsUnderWay
<1>3. /\ SourceRecords' = SourceRecords /\ DeletedIds' = DeletedIds
      /\ AllDistinct' <=> AllDistinct
  BY <1>1 DEF SourceRecords, DeletedIds, AllDistinct
<1>4. /\ \A id : Mapped(id)' = Mapped(id)
      /\ \A id : Mappable(id)' <=> Mappable(id)
      /\ \A id : Parents(id)' = Parents(id)
  BY <1>1 DEF Mapped, Mappable, Owns, DependencyMap, Parents
<1>5. Operated' = Operated /\ MergedHeader' = MergedHeader
  BY <1>1 DEF Operated, MergedHeader, Owns
<1>6. MergeError' = MergeError
  BY <1>1, <1>4, <1>5 DEF MergeError
<1>7. MergedTree' = MergedTree
  <2>1. TranslatedTree' = TranslatedTree
    BY <1>1 DEF TranslatedTree, Mapped, Owns, DependencyMap
  <2> QED
    BY <1>1, <2>1 DEF MergedTree
<1>8. MergedPackage' = MergedPackage
  BY <1>1, <1>5, <1>7 DEF MergedPackage
<1>9. PICK w : Operates(w) /\ (AllDistinct => IsRecorded(w))
  BY DEF IsUnderWay
<1>10. Operates(w)'
  <2>1. \A op, r : IsOperation(op, r)' <=> IsOperation(op, r)
    BY <1>1, RequestStays DEF IsOperation
  <2>2. \A r : TakesPart(r)' <=> TakesPart(r)
    BY RequestStays
  <2> QED
    BY <1>1, <1>3, <1>9, <2>1, <2>2 DEF Operates
<1>11. AllDistinct' => IsRecorded(w)'
  BY <1>3, <1>9, RecordedWithout
<1> QED
  BY <1>1, <1>2, <1>3, <1>6, <1>8, <1>10, <1>11 DEF IsUnderWay

\* The errors of a merge are none of its stages.
LEMMA ErrorsAreFinal ==
  /\ RequestError \notin {"Preparing", "Merging", "Merged"}
  /\ MergeError \notin {"Preparing", "Merging", "Merged"}
  /\ \A r : RecordError(r) \notin {"Preparing", "Merging", "Merged"}
<1>1. ASSUME NEW into, NEW from, NEW rules
      PROVE  ComposeError(into, from, rules) \notin {"Preparing", "Merging", "Merged"}
  <2> DEFINE composed == Composed(into, from, rules)
             error(k) ==
               LET rule == rules[k]
                   values == Occurrences(from, rule.signature)
                   present == Occurrences(composed[k - 1], rule.signature)
               IN IF rule.strategy # "AppendEncodedList" THEN "None"
                  ELSE IF Len(values) > 1 \/ Len(present) > 1 THEN "ListSubrecordMultiplicity"
                  ELSE IF /\ values # <<>> /\ present # <<>>
                          /\ \E items \in {present[1], values[1],
                                           AppendList(present[1], values[1], rule.mode)} :
                               ListLimit(rule, items)
                    THEN "Collection"
                  ELSE "None"
             wrong == {k \in DOMAIN rules : error(k) # "None"}
  <2>1. \A k : error(k) \notin {"Preparing", "Merging", "Merged"}
    OBVIOUS
  <2>2. ComposeError(into, from, rules) = IF wrong = {} THEN "None" ELSE error(Min(wrong))
    BY DEF ComposeError
  <2> HIDE DEF error, wrong
  <2> QED
    BY <2>1, <2>2
<1> QED
  BY <1>1 DEF RequestError, MergeError, RecordError

LEMMA InitIInv ==
  ASSUME Init
  PROVE  IInv
BY DEF Init, IInv

LEMMA NextIInv ==
  ASSUME IInv, [Next]_vars
  PROVE  IInv'
<1>1. UNCHANGED request
  BY DEF Next, Prepare, RefuseRequest, SkipRecord, RefuseRecord, DeleteRecord, PutRecord, Finish,
         RefuseMerge, vars, request
<1>2. destination' \in Destinations /\ source' \in Sources /\ options' \in Options
  BY <1>1 DEF IInv, request
<1>3. ASSUME outcome' \notin {"Preparing", "Merging", "Merged"}
      PROVE  IInv'
  BY <1>2, <1>3 DEF IInv
<1>4. ASSUME IsUnderWay', outcome' = "Merging"
      PROVE  IInv'
  BY <1>2, <1>4 DEF IInv
<1>5. CASE Prepare
  BY <1>4, <1>5, PrepareStarts DEF Prepare
<1>6. CASE RefuseRequest
  BY <1>3, <1>6, ErrorsAreFinal DEF RefuseRequest
<1>7. CASE SkipRecord
  BY <1>4, <1>7, SkipStays DEF SkipRecord, More
<1>8. CASE RefuseRecord
  BY <1>3, <1>8, ErrorsAreFinal DEF RefuseRecord
<1>9. CASE DeleteRecord
  BY <1>4, <1>9, DeleteStays DEF DeleteRecord, More
<1>10. CASE PutRecord
  BY <1>4, <1>10, PutStays DEF PutRecord, More
<1>11. CASE Finish
  <2>1. /\ outcome = "Merging" /\ position = Len(SourceRecords) /\ MergeError = "None"
        /\ outcome' = "Merged" /\ result' = MergedPackage
        /\ UNCHANGED <<request, next, selected, injected, position, records, tree, pending,
                       actions>>
    BY <1>11 DEF Finish, Done
  <2>2. IsUnderWay' /\ MergeError' = MergeError /\ MergedPackage' = MergedPackage
    BY <2>1, UnderWayStays DEF IInv
  <2>3. position' = Len(SourceRecords')
    BY <2>1 DEF SourceRecords, request
  <2> QED
    BY <1>2, <2>1, <2>2, <2>3 DEF IInv
<1>12. CASE RefuseMerge
  BY <1>3, <1>12, ErrorsAreFinal DEF RefuseMerge
<1>13. CASE UNCHANGED vars
  <2>1. UNCHANGED <<request, next, selected, injected, position, records, tree, pending,
                    actions>> /\ outcome' = outcome /\ result' = result
    BY <1>13 DEF vars, request
  <2>2. CASE outcome \in {"Merging", "Merged"}
    <3>1. IsUnderWay' /\ MergeError' = MergeError /\ MergedPackage' = MergedPackage
      BY <2>1, <2>2, UnderWayStays DEF IInv
    <3>2. SourceRecords' = SourceRecords /\ position' = position
      BY <2>1 DEF SourceRecords, request
    <3> QED
      BY <1>2, <2>1, <2>2, <3>1, <3>2 DEF IInv
  <2>3. CASE outcome \notin {"Merging", "Merged"}
    BY <1>2, <2>1, <2>3 DEF IInv, request
  <2> QED
    BY <2>2, <2>3
<1> QED
  BY <1>5, <1>6, <1>7, <1>8, <1>9, <1>10, <1>11, <1>12, <1>13 DEF Next

\* A merge has, at every step, the operations of the records done, what they make of the
\* records and of the tree, and the ids injected.
THEOREM Invariant == Spec => []IInv
<1>1. Init => IInv
  BY InitIInv
<1>2. IInv /\ [Next]_vars => IInv'
  BY NextIInv
<1> QED
  BY <1>1, <1>2, PTL DEF Spec

(***************************************************************************)
(* What is there at the end of a merge.                                    *)
(***************************************************************************)

AtEnd(w) ==
  /\ destination \in Destinations /\ source \in Sources /\ options \in Options
  /\ IsPrepared /\ position = Len(SourceRecords) /\ IsSequence(pending)
  /\ tree = RemoveRecords(ReadTree(destination), DeletedIds)
  /\ Operates(w) /\ IsRecorded(w) /\ AllDistinct
  /\ MergeError = "None" /\ result = MergedPackage

\* A merge that ends has no record twice.
LEMMA NoRecordTwice ==
  ASSUME IsSequence(pending), MergeError = "None"
  PROVE  AllDistinct /\ IsFiniteSet(Operated)
<1> DEFINE n == Len(pending)
           f == [k \in 1 .. n |-> pending[k].id]
<1>1. n \in Nat /\ DOMAIN pending = 1 .. n
  BY DEF IsSequence
<1>2. ~ Cardinality(Operated) < n
  BY DEF MergeError
<1>3. Operated = {pending[k].id : k \in 1 .. n}
  BY <1>1 DEF Operated
<1> HIDE DEF n
<1>4. f \in Surjection(1 .. n, Operated)
  <2>1. f \in [1 .. n -> Operated]
    BY <1>3
  <2>2. \A id \in Operated : \E k \in 1 .. n : f[k] = id
    BY <1>3
  <2> QED
    BY <2>1, <2>2 DEF Surjection
<1>5. IsFiniteSet(1 .. n) /\ Cardinality(1 .. n) = n
  BY <1>1, PlacesAreFinite
<1> HIDE DEF f
<1>6. /\ IsFiniteSet(Operated) /\ Cardinality(Operated) <= n
      /\ Cardinality(Operated) = n <=> f \in Injection(1 .. n, Operated)
  <2>1. /\ IsFiniteSet(Operated) /\ Cardinality(Operated) <= Cardinality(1 .. n)
        /\ Cardinality(Operated) = Cardinality(1 .. n) <=> f \in Injection(1 .. n, Operated)
    BY <1>4, <1>5, FS_Surjection
  <2> QED
    BY <1>5, <2>1
<1>7. Cardinality(Operated) \in Nat
  BY <1>6, FS_CardinalityType
<1>8. f \in Injection(1 .. n, Operated)
  BY <1>1, <1>2, <1>6, <1>7
<1>9. \A k, l \in 1 .. n : f[k] = f[l] => k = l
  BY <1>8 DEF Injection, IsInjective
<1> QED
  BY <1>6, <1>9 DEF AllDistinct, f, n

LEMMA MergedAtEnd ==
  ASSUME IInv, outcome = "Merged"
  PROVE  \E w : AtEnd(w)
<1>1. IsUnderWay /\ MergeError = "None" /\ position = Len(SourceRecords)
  BY DEF IInv
<1>2. AllDistinct
  BY <1>1, NoRecordTwice DEF IsUnderWay
<1>3. PICK w : Operates(w) /\ IsRecorded(w)
  BY <1>1, <1>2 DEF IsUnderWay
<1>4. AtEnd(w)
  BY <1>1, <1>2, <1>3 DEF AtEnd, IInv, IsUnderWay
<1> QED
  BY <1>4

\* The ids of the records taken over, in the destination.
Targets == {actions[id] : id \in DOMAIN actions}

\* The operation of a record taken over, and the record of an operation.
TakesOver(w) ==
  /\ Operated = DeletedIds \cup PutIds /\ DeletedIds \cap PutIds = {}
  /\ PutIds = Targets
  /\ \A k \in 1 .. Len(pending) :
       LET r == SourceRecords[w[k]] IN
       /\ w[k] \in 1 .. Len(SourceRecords) /\ IsOperation(pending[k], r) /\ IsDone(pending[k], r)
       /\ r.id \in Ids(source) /\ r = source.chunks[IndexOf(source, r.id)]
       /\ IsLogical(r) /\ IsRecord(r)
       /\ pending[k].kind = "Delete" => pending[k].id \in DeletedIds
       /\ pending[k].kind # "Delete" => pending[k].id \in PutIds
  /\ \A id \in DOMAIN actions : \E k \in 1 .. Len(pending) :
       /\ SourceRecords[w[k]].id = id /\ ~ SourceRecords[w[k]].deleted
       /\ pending[k].id = actions[id] /\ pending[k].kind # "Delete"
  /\ DOMAIN actions \subseteq Ids(source)
  /\ \A id, other \in DOMAIN actions : actions[id] = actions[other] => id = other

LEMMA AllTakenOver ==
  ASSUME NEW w, AtEnd(w)
  PROVE  TakesOver(w)
<1> DEFINE n == Len(pending)
<1>1. n \in Nat /\ DOMAIN pending = 1 .. n
  BY DEF AtEnd, IsSequence
<1>2. IsListed(source, SourceRecords)
  BY SourceIsListed DEF AtEnd
<1>3. w \in [1 .. n -> 1 .. Len(SourceRecords)]
  BY DEF AtEnd, Operates
<1>4. \A k \in 1 .. n : IsOperation(pending[k], SourceRecords[w[k]])
  BY DEF AtEnd, Operates
<1>5. \A id \in DOMAIN actions : \E k \in 1 .. n :
        SourceRecords[w[k]].id = id /\ ~ SourceRecords[w[k]].deleted
  BY DEF AtEnd, Operates
<1>6. \A k \in 1 .. n : IsDone(pending[k], SourceRecords[w[k]])
  BY DEF AtEnd, IsRecorded
<1>7. \A k, l \in 1 .. n : pending[k].id = pending[l].id => k = l
  BY DEF AtEnd, AllDistinct
<1>8. /\ DeletedIds = {pending[k].id : k \in {l \in 1 .. n : pending[l].kind = "Delete"}}
      /\ PutIds = {pending[k].id : k \in {l \in 1 .. n : pending[l].kind # "Delete"}}
      /\ Operated = {pending[k].id : k \in 1 .. n}
  BY <1>1 DEF DeletedIds, PutIds, Operated
<1> HIDE DEF n
<1>9. Operated = DeletedIds \cup PutIds /\ DeletedIds \cap PutIds = {}
  BY <1>7, <1>8
<1>10. ASSUME NEW id \in DOMAIN actions
       PROVE  \E k \in 1 .. n :
                /\ SourceRecords[w[k]].id = id /\ ~ SourceRecords[w[k]].deleted
                /\ pending[k].id = actions[id] /\ pending[k].kind # "Delete"
  <2>1. PICK k \in 1 .. n : SourceRecords[w[k]].id = id /\ ~ SourceRecords[w[k]].deleted
    BY <1>5
  <2>2. IsOperation(pending[k], SourceRecords[w[k]])
    BY <1>4
  <2>3. pending[k].id = actions[id] /\ pending[k].kind # "Delete"
    BY <2>1, <2>2 DEF IsOperation
  <2> QED
    BY <2>1, <2>3
<1>11. ASSUME NEW k \in 1 .. n, pending[k].kind # "Delete"
       PROVE  pending[k].id \in Targets
  <2>1. PICK r : r = SourceRecords[w[k]]
    OBVIOUS
  <2>2. IsOperation(pending[k], r)
    BY <1>4, <2>1
  <2>3. r.id \in DOMAIN actions /\ actions[r.id] = pending[k].id
    BY <1>11, <2>2 DEF IsOperation
  <2> QED
    BY <2>3 DEF Targets
<1>12. PutIds = Targets
  <2>1. PutIds \subseteq Targets
    BY <1>8, <1>11
  <2>2. Targets \subseteq PutIds
    BY <1>8, <1>10 DEF Targets
  <2> QED
    BY <2>1, <2>2
<1>13. ASSUME NEW k \in 1 .. n
       PROVE  LET r == SourceRecords[w[k]] IN
              /\ w[k] \in 1 .. Len(SourceRecords)
              /\ IsOperation(pending[k], r) /\ IsDone(pending[k], r)
              /\ r.id \in Ids(source) /\ r = source.chunks[IndexOf(source, r.id)]
              /\ IsLogical(r) /\ IsRecord(r)
              /\ pending[k].kind = "Delete" => pending[k].id \in DeletedIds
              /\ pending[k].kind # "Delete" => pending[k].id \in PutIds
  <2>1. w[k] \in 1 .. Len(SourceRecords)
    BY <1>3
  <2>2. LET r == SourceRecords[w[k]] IN
        /\ r.id \in Ids(source) /\ r = source.chunks[IndexOf(source, r.id)]
        /\ IsLogical(r) /\ IsRecord(r)
    BY <1>2, <2>1 DEF IsListed
  <2>3. /\ pending[k].kind = "Delete" => pending[k].id \in DeletedIds
        /\ pending[k].kind # "Delete" => pending[k].id \in PutIds
    BY <1>8
  <2> QED
    BY <1>4, <1>6, <2>1, <2>2, <2>3
<1>14. DOMAIN actions \subseteq Ids(source)
  BY <1>10, <1>13
<1>15. ASSUME NEW id \in DOMAIN actions, NEW other \in DOMAIN actions, actions[id] = actions[other]
       PROVE  id = other
  <2>1. PICK k \in 1 .. n : SourceRecords[w[k]].id = id /\ pending[k].id = actions[id]
    BY <1>10
  <2>2. PICK l \in 1 .. n : SourceRecords[w[l]].id = other /\ pending[l].id = actions[other]
    BY <1>10
  <2>3. k = l
    BY <1>7, <1>15, <2>1, <2>2
  <2> QED
    BY <2>1, <2>2, <2>3
<1> QED
  BY <1>9, <1>10, <1>12, <1>13, <1>14, <1>15 DEF TakesOver, n

(***************************************************************************)
(* What a merge makes of subrecords.                                       *)
(***************************************************************************)

LEMMA SequencesOf ==
  ASSUME NEW X, NEW s \in Seq(X)
  PROVE  /\ IsSequence(s) /\ Len(s) \in Nat /\ DOMAIN s = 1 .. Len(s)
         /\ \A i \in 1 .. Len(s) : s[i] \in X
<1>1. s \in [1 .. Len(s) -> X] /\ Len(s) \in Nat
  OBVIOUS
<1>2. s \in [1 .. Len(s) -> ToSet(s)]
  BY <1>1 DEF ToSet
<1> QED
  BY <1>1, <1>2 DEF IsSequence

\* A sequence of what has its place in X.
LEMMA SequenceBack ==
  ASSUME NEW s, IsSequence(s), NEW X, \A i \in DOMAIN s : s[i] \in X
  PROVE  s \in Seq(X)
<1>1. s \in Seq(ToSet(s))
  BY DEF IsSequence
<1> DEFINE T == ToSet(s)
<1>2. Len(s) \in Nat /\ s \in [1 .. Len(s) -> T]
  <2> HIDE DEF T
  <2>1. s \in Seq(T)
    BY <1>1 DEF T
  <2> QED
    BY <2>1
<1>3. s \in [1 .. Len(s) -> X]
  BY <1>2
<1> QED
  BY <1>2, <1>3

\* The items of a payload under a signature that the rewriter rewrites are of X.
Holds(payload, signature, X) ==
  /\ IsSequence(payload)
  /\ signature \in ReferenceSignatures => payload \in Seq(X)

AllHold(subrecords, X) ==
  /\ IsSequence(subrecords)
  /\ \A i \in DOMAIN subrecords : Holds(subrecords[i].payload, subrecords[i].signature, X)

LEMMA JoinedSequences ==
  ASSUME NEW s, IsSequence(s), NEW t, IsSequence(t)
  PROVE  /\ IsSequence(s \o t)
         /\ \A i \in DOMAIN (s \o t) :
              \/ i \in DOMAIN s /\ (s \o t)[i] = s[i]
              \/ i - Len(s) \in DOMAIN t /\ (s \o t)[i] = t[i - Len(s)]
<1>1. s \in Seq(ToSet(s)) /\ t \in Seq(ToSet(t))
  BY DEF IsSequence
<1> DEFINE A == ToSet(s)
           B == ToSet(t)
           X == A \cup B
<1> HIDE DEF A, B
<1>2. s \in Seq(A) /\ t \in Seq(B)
  BY <1>1 DEF A, B
<1>3. s \in Seq(X) /\ t \in Seq(X)
  BY <1>2
<1> HIDE DEF X
<1>4. s \o t \in Seq(X)
  BY <1>3
<1>5. IsSequence(s \o t)
  BY <1>4, SequencesOf
<1>6. ASSUME NEW i \in DOMAIN (s \o t)
      PROVE  \/ i \in DOMAIN s /\ (s \o t)[i] = s[i]
             \/ i - Len(s) \in DOMAIN t /\ (s \o t)[i] = t[i - Len(s)]
  BY <1>3, <1>6
<1> QED
  BY <1>5, <1>6

LEMMA JoinedHold ==
  ASSUME NEW X, NEW s, AllHold(s, X), NEW t, AllHold(t, X)
  PROVE  AllHold(s \o t, X)
<1>1. /\ IsSequence(s \o t)
      /\ \A i \in DOMAIN (s \o t) :
           \/ i \in DOMAIN s /\ (s \o t)[i] = s[i]
           \/ i - Len(s) \in DOMAIN t /\ (s \o t)[i] = t[i - Len(s)]
  BY JoinedSequences DEF AllHold
<1> QED
  BY <1>1 DEF AllHold

LEMMA RestrictedSequence ==
  ASSUME NEW s, IsSequence(s), NEW P, P \subseteq DOMAIN s
  PROVE  /\ IsSequence(Restricted(s, P))
         /\ \A k \in DOMAIN Restricted(s, P) : \E i \in P : Restricted(s, P)[k] = s[i]
<1>1. s \in Seq(ToSet(s))
  BY DEF IsSequence
<1> DEFINE X == ToSet(s)
<1> HIDE DEF X
<1>2. s \in Seq(X)
  BY <1>1 DEF X
<1>3. Len(s) \in Nat /\ DOMAIN s = 1 .. Len(s) /\ \A i \in P : s[i] \in X
  BY <1>2
<1>4. PICK n : n = Len(s)
  OBVIOUS
<1>5. n \in Nat /\ P \in SUBSET (1 .. n)
  BY <1>3, <1>4
<1>6. IsSequence(Restricted(s, P))
  <2>1. Restricted(s, P) \in Seq(X)
    BY <1>3, <1>5, RestrictedType
  <2> QED
    BY <2>1, SequencesOf
<1>7. /\ Ascending(P) \in [1 .. Cardinality(P) -> P]
      /\ DOMAIN Restricted(s, P) = 1 .. Cardinality(P)
      /\ \A k \in 1 .. Cardinality(P) : Restricted(s, P)[k] = s[Ascending(P)[k]]
  <2>1. n \in Nat
    BY <1>5
  <2>2. P \in SUBSET (1 .. n)
    BY <1>5
  <2>3. Ascending(P) \in [1 .. Cardinality(P) -> P]
    BY <2>1, <2>2, RestrictedTo
  <2> QED
    BY <2>3 DEF Restricted
<1> QED
  BY <1>6, <1>7

LEMMA RestrictedHold ==
  ASSUME NEW X, NEW s, AllHold(s, X), NEW P \in SUBSET DOMAIN s
  PROVE  AllHold(Restricted(s, P), X)
<1>1. /\ IsSequence(Restricted(s, P))
      /\ \A k \in DOMAIN Restricted(s, P) : \E i \in P : Restricted(s, P)[k] = s[i]
  BY RestrictedSequence DEF AllHold
<1> QED
  BY <1>1 DEF AllHold

\* These are payloads under a signature.
AllPayloads(payloads, signature, X) ==
  /\ IsSequence(payloads)
  /\ \A i \in DOMAIN payloads : Holds(payloads[i], signature, X)

LEMMA OccurrencesHold ==
  ASSUME NEW X, NEW s, AllHold(s, X), NEW signature
  PROVE  AllPayloads(Occurrences(s, signature), signature, X)
<1> DEFINE P == {i \in DOMAIN s : s[i].signature = signature}
           these == Restricted(s, P)
           payloads == [i \in DOMAIN these |-> these[i].payload]
<1>1. /\ IsSequence(these)
      /\ \A k \in DOMAIN these : \E i \in P : these[k] = s[i]
  <2>1. P \in SUBSET DOMAIN s /\ IsSequence(s)
    BY DEF AllHold
  <2> HIDE DEF P
  <2> QED
    BY <2>1, RestrictedSequence
<1>2. \A k \in DOMAIN these : Holds(these[k].payload, signature, X)
  BY <1>1 DEF AllHold
<1> HIDE DEF these
<1>3. Len(these) \in Nat /\ DOMAIN these = 1 .. Len(these)
  BY <1>1, SequencesOf DEF IsSequence
<1>4. IsSequence(payloads)
  <2> DEFINE Y == {these[i].payload : i \in DOMAIN these}
  <2>1. payloads \in [1 .. Len(these) -> Y]
    BY <1>3
  <2> HIDE DEF payloads, Y
  <2>2. payloads \in Seq(Y)
    BY <1>3, <2>1
  <2> QED
    BY <2>2, SequencesOf
<1>5. AllPayloads(payloads, signature, X)
  BY <1>2, <1>4 DEF AllPayloads
<1> QED
  BY <1>5 DEF Occurrences, these

\* Subrecords of these payloads.
Carrying(payloads, signature) ==
  [i \in DOMAIN payloads |-> [signature |-> signature, payload |-> payloads[i]]]

LEMMA CarryingHold ==
  ASSUME NEW X, NEW signature, NEW payloads, AllPayloads(payloads, signature, X)
  PROVE  AllHold(Carrying(payloads, signature), X)
<1> DEFINE c == Carrying(payloads, signature)
           Y == {[signature |-> signature, payload |-> payloads[i]] : i \in DOMAIN payloads}
<1>1. Len(payloads) \in Nat /\ DOMAIN payloads = 1 .. Len(payloads)
  BY SequencesOf DEF AllPayloads, IsSequence
<1>2. c \in [1 .. Len(payloads) -> Y]
  BY <1>1 DEF Carrying
<1>3. \A i \in DOMAIN c : c[i].signature = signature /\ c[i].payload = payloads[i] /\ i \in DOMAIN payloads
  BY DEF Carrying
<1> HIDE DEF c, Y
<1>4. c \in Seq(Y)
  BY <1>1, <1>2
<1>5. IsSequence(c)
  BY <1>4, SequencesOf
<1>6. AllHold(c, X)
  BY <1>3, <1>5 DEF AllHold, AllPayloads
<1> QED
  BY <1>6 DEF c

LEMMA ReplacedHold ==
  ASSUME NEW X, NEW s, AllHold(s, X), NEW signature, NEW payloads,
         AllPayloads(payloads, signature, X)
  PROVE  AllHold(ReplaceOccurrences(s, signature, payloads), X)
<1> DEFINE these == {i \in DOMAIN s : s[i].signature = signature}
           front == {i \in DOMAIN s : \A k \in these : i < k}
           first == Restricted(s, front)
           middle == Carrying(payloads, signature)
           last == Restricted(s, DOMAIN s \ (front \cup these))
<1>1. AllHold(first, X)
  <2>1. front \in SUBSET DOMAIN s
    OBVIOUS
  <2> HIDE DEF front
  <2> QED
    BY <2>1, RestrictedHold
<1>2. AllHold(last, X)
  <2> DEFINE P == DOMAIN s \ (front \cup these)
  <2>1. P \in SUBSET DOMAIN s
    OBVIOUS
  <2> HIDE DEF P
  <2>2. AllHold(Restricted(s, P), X)
    BY <2>1, RestrictedHold
  <2> QED
    BY <2>2 DEF P
<1>3. AllHold(middle, X)
  BY CarryingHold
<1>4. ReplaceOccurrences(s, signature, payloads) = first \o middle \o last
  BY DEF ReplaceOccurrences, Carrying
<1> HIDE DEF first, middle, last
<1>5. AllHold(first \o middle, X)
  BY <1>1, <1>3, JoinedHold
<1>6. AllHold((first \o middle) \o last, X)
  BY <1>2, <1>5, JoinedHold
<1> QED
  BY <1>4, <1>6

LEMMA ItemsJoin ==
  ASSUME NEW X, NEW signature, NEW p, Holds(p, signature, X), NEW q, Holds(q, signature, X)
  PROVE  Holds(p \o q, signature, X)
<1>1. IsSequence(p \o q)
  BY JoinedSequences DEF Holds
<1>2. ASSUME signature \in ReferenceSignatures
      PROVE  p \o q \in Seq(X)
  <2>1. p \in Seq(X) /\ q \in Seq(X)
    BY <1>2 DEF Holds
  <2> QED
    BY <2>1
<1> QED
  BY <1>1, <1>2 DEF Holds

LEMMA SomeItems ==
  ASSUME NEW X, NEW signature, NEW p, Holds(p, signature, X), NEW P, P \subseteq DOMAIN p
  PROVE  Holds(Restricted(p, P), signature, X)
<1>1. IsSequence(p)
  BY DEF Holds
<1>2. /\ IsSequence(Restricted(p, P))
      /\ \A k \in DOMAIN Restricted(p, P) : \E i \in P : Restricted(p, P)[k] = p[i]
  BY <1>1, RestrictedSequence
<1>3. ASSUME signature \in ReferenceSignatures
      PROVE  Restricted(p, P) \in Seq(X)
  <2>1. \A i \in DOMAIN p : p[i] \in X
    BY <1>3, SequencesOf DEF Holds
  <2> DEFINE r == Restricted(p, P)
  <2>2. \A k \in DOMAIN r : r[k] \in X
    BY <1>2, <2>1
  <2>3. IsSequence(r)
    BY <1>2
  <2> HIDE DEF r
  <2>4. r \in Seq(X)
    BY <2>2, <2>3, SequenceBack
  <2> QED
    BY <2>4 DEF r
<1> QED
  BY <1>2, <1>3 DEF Holds

\* What is behind the first few items.
LEMMA LastItems ==
  ASSUME NEW X, NEW signature, NEW p, Holds(p, signature, X), NEW n \in Nat
  PROVE  Holds(SubSeq(p, n + 1, Len(p)), signature, X)
<1>1. ASSUME NEW Y, p \in Seq(Y)
      PROVE  SubSeq(p, n + 1, Len(p)) \in Seq(Y)
  <2>1. /\ n + 1 \in Int /\ Len(p) \in Int
        /\ \A i \in n + 1 .. Len(p) : p[i] \in Y
    BY <1>1
  <2> QED
    BY <2>1, SubSeqProperties
<1>2. IsSequence(SubSeq(p, n + 1, Len(p)))
  <2>1. p \in Seq(ToSet(p))
    BY DEF Holds, IsSequence
  <2>2. SubSeq(p, n + 1, Len(p)) \in Seq(ToSet(p))
    BY <1>1, <2>1
  <2> QED
    BY <2>2, SequencesOf
<1>3. signature \in ReferenceSignatures => SubSeq(p, n + 1, Len(p)) \in Seq(X)
  BY <1>1 DEF Holds
<1> QED
  BY <1>2, <1>3 DEF Holds

LEMMA AppendedItems ==
  ASSUME NEW X, NEW signature, NEW p, Holds(p, signature, X), NEW q, Holds(q, signature, X),
         NEW mode \in {"All", "NewIndices", "Unique"}
  PROVE  Holds(AppendList(p, q, mode), signature, X)
<1>1. CASE mode = "All"
  <2>1. AppendList(p, q, mode) = p \o q
    BY <1>1 DEF AppendList
  <2> QED
    BY <2>1, ItemsJoin
<1>2. CASE mode = "NewIndices"
  <2>1. AppendList(p, q, mode) = p \o SubSeq(q, Len(p) + 1, Len(q))
    BY <1>2 DEF AppendList
  <2>2. Len(p) \in Nat
    BY SequencesOf DEF Holds, IsSequence
  <2>3. Holds(SubSeq(q, Len(p) + 1, Len(q)), signature, X)
    BY <2>2, LastItems
  <2> QED
    BY <2>1, <2>3, ItemsJoin
<1>3. CASE mode = "Unique"
  <2> DEFINE P == {i \in DOMAIN q : /\ q[i] \notin ToSet(p)
                                    /\ \A k \in 1 .. i - 1 : q[k] # q[i]}
  <2>1. AppendList(p, q, mode) = p \o Restricted(q, P)
    BY <1>3 DEF AppendList, AppendNew
  <2>2. P \subseteq DOMAIN q
    OBVIOUS
  <2> HIDE DEF P
  <2>3. Holds(Restricted(q, P), signature, X)
    BY <2>2, SomeItems
  <2> QED
    BY <2>1, <2>3, ItemsJoin
<1> QED
  BY <1>1, <1>2, <1>3

\* A rule brings nothing that neither record has.
LEMMA RuleHolds ==
  ASSUME NEW X, NEW s, AllHold(s, X), NEW from, AllHold(from, X), NEW rule, IsRule(rule)
  PROVE  AllHold(ApplyRule(s, from, rule), X)
<1> DEFINE signature == rule.signature
           values == Occurrences(from, signature)
           present == Occurrences(s, signature)
           added == Carrying(values, signature)
<1>1. AllPayloads(values, signature, X) /\ AllPayloads(present, signature, X)
  BY OccurrencesHold
<1>2. AllHold(added, X)
  <2> HIDE DEF values
  <2> QED
    BY <1>1, CarryingHold
<1>3. CASE rule.strategy = "KeepDestination"
  <2>1. ApplyRule(s, from, rule) = s
    BY <1>3 DEF ApplyRule
  <2> QED
    BY <2>1
<1>4. CASE rule.strategy = "Replace"
  <2>1. ApplyRule(s, from, rule) = ReplaceOccurrences(s, signature, values)
    BY <1>4 DEF ApplyRule
  <2> HIDE DEF values, signature
  <2> QED
    BY <1>1, <2>1, ReplacedHold
<1>5. CASE rule.strategy = "AppendOccurrences"
  <2>1. ApplyRule(s, from, rule) = s \o added
    BY <1>5 DEF ApplyRule, Carrying
  <2> HIDE DEF added
  <2> QED
    BY <1>2, <2>1, JoinedHold
<1>6. CASE rule.strategy = "AppendNewOccurrences"
  <2> DEFINE P == {i \in DOMAIN added : /\ added[i] \notin ToSet(s)
                                        /\ \A k \in 1 .. i - 1 : added[k] # added[i]}
  <2>1. ApplyRule(s, from, rule) = s \o Restricted(added, P)
    BY <1>6 DEF ApplyRule, AppendNew, Carrying
  <2>2. P \in SUBSET DOMAIN added
    OBVIOUS
  <2> HIDE DEF P, added
  <2>3. AllHold(Restricted(added, P), X)
    BY <1>2, <2>2, RestrictedHold
  <2> QED
    BY <2>1, <2>3, JoinedHold
<1>7. CASE rule.strategy = "AppendEncodedList"
  <2> DEFINE one == IF present = <<>> THEN values[1]
                    ELSE AppendList(present[1], values[1], rule.mode)
  <2>1. ApplyRule(s, from, rule) =
          IF values = <<>> THEN s ELSE ReplaceOccurrences(s, signature, <<one>>)
    BY <1>7 DEF ApplyRule
  <2>2. rule.mode \in {"All", "NewIndices", "Unique"}
    BY <1>7 DEF IsRule
  <2>3. values # <<>> => Holds(values[1], signature, X)
    <3> HIDE DEF values
    <3>1. values # <<>> => 1 \in DOMAIN values
      BY <1>1, SequencesOf DEF AllPayloads, IsSequence
    <3> QED
      BY <1>1, <3>1 DEF AllPayloads
  <2>4. present # <<>> => Holds(present[1], signature, X)
    <3> HIDE DEF present
    <3>1. present # <<>> => 1 \in DOMAIN present
      BY <1>1, SequencesOf DEF AllPayloads, IsSequence
    <3> QED
      BY <1>1, <3>1 DEF AllPayloads
  <2> HIDE DEF values, present, signature
  <2>5. values # <<>> => Holds(one, signature, X)
    BY <2>2, <2>3, <2>4, AppendedItems
  <2> HIDE DEF one
  <2>6. values # <<>> => AllPayloads(<<one>>, signature, X)
    <3>1. <<one>> \in Seq({one}) /\ DOMAIN <<one>> = {1} /\ <<one>>[1] = one
      OBVIOUS
    <3>2. IsSequence(<<one>>)
      BY <3>1, SequencesOf
    <3> QED
      BY <2>5, <3>1, <3>2 DEF AllPayloads
  <2> QED
    BY <2>1, <2>6, ReplacedHold
<1> QED
  BY <1>3, <1>4, <1>5, <1>6, <1>7 DEF IsRule

\* f is what becomes of the subrecords after each of the first n rules.
ComposesFirst(f, into, from, rules, n) ==
  f = [k \in 0 .. n |-> IF k = 0 THEN into ELSE ApplyRule(f[k - 1], from, rules[k])]

LEMMA AllAreApplied ==
  ASSUME NEW into, NEW from, NEW rules, NEW n \in Nat
  PROVE  \E f : ComposesFirst(f, into, from, rules, n)
<1> DEFINE S == {m \in Nat : \E f : ComposesFirst(f, into, from, rules, m)}
<1>1. 0 \in S
  <2>1. ComposesFirst([k \in 0 .. 0 |-> into], into, from, rules, 0)
    BY DEF ComposesFirst
  <2> QED
    BY <2>1
<1>2. ASSUME NEW m \in Nat, m \in S
      PROVE  m + 1 \in S
  <2>1. PICK f : ComposesFirst(f, into, from, rules, m)
    BY <1>2
  <2> DEFINE last == ApplyRule(f[m], from, rules[m + 1])
             g == [k \in 0 .. m + 1 |-> IF k <= m THEN f[k] ELSE last]
  <2>2. ASSUME NEW k \in 0 .. m + 1
        PROVE  g[k] = IF k = 0 THEN into ELSE ApplyRule(g[k - 1], from, rules[k])
    <3>1. CASE k \in 0 .. m
      <4>1. f[k] = IF k = 0 THEN into ELSE ApplyRule(f[k - 1], from, rules[k])
        BY <2>1, <3>1 DEF ComposesFirst
      <4>2. g[k] = f[k] /\ (k # 0 => g[k - 1] = f[k - 1])
        BY <3>1
      <4> HIDE DEF g
      <4> QED
        BY <4>1, <4>2
    <3>2. CASE k = m + 1
      <4>1. g[k - 1] = f[m] /\ g[k] = last /\ k # 0
        BY <3>2
      <4> HIDE DEF g
      <4> QED
        BY <3>2, <4>1
    <3> QED
      BY <3>1, <3>2
  <2>3. g = [k \in 0 .. m + 1 |-> IF k = 0 THEN into ELSE ApplyRule(g[k - 1], from, rules[k])]
    <3>1. g = [k \in 0 .. m + 1 |-> g[k]]
      OBVIOUS
    <3> HIDE DEF g
    <3> QED
      BY <2>2, <3>1
  <2>4. ComposesFirst(g, into, from, rules, m + 1)
    BY <2>3 DEF ComposesFirst
  <2> HIDE DEF g
  <2> QED
    BY <2>4
<1> HIDE DEF S
<1>3. \A m \in Nat : m \in S
  BY <1>1, <1>2, EveryNumber
<1> QED
  BY <1>3 DEF S

\* Nor does an override with rules.
LEMMA ComposedHolds ==
  ASSUME NEW X, NEW into, AllHold(into, X), NEW from, AllHold(from, X),
         NEW rules, IsSequence(rules), \A rule \in ToSet(rules) : IsRule(rule)
  PROVE  AllHold(Compose(into, from, rules), X)
<1> DEFINE n == Len(rules)
           f == CHOOSE f : ComposesFirst(f, into, from, rules, n)
<1>1. n \in Nat /\ \A k \in 1 .. n : IsRule(rules[k])
  <2>1. n \in Nat /\ DOMAIN rules = 1 .. n
    BY SequencesOf DEF IsSequence
  <2> QED
    BY <2>1 DEF ToSet
<1>2. Compose(into, from, rules) = f[n]
  BY DEF Compose, Composed, ComposesFirst
<1>3. ComposesFirst(f, into, from, rules, n)
  BY <1>1, AllAreApplied
<1> HIDE DEF f
<1>4. f[0] = into /\ \A k \in 1 .. n : f[k] = ApplyRule(f[k - 1], from, rules[k])
  BY <1>1, <1>3 DEF ComposesFirst
<1> DEFINE S == {k \in Nat : k <= n => AllHold(f[k], X)}
<1>5. 0 \in S
  BY <1>4
<1>6. ASSUME NEW k \in Nat, k \in S
      PROVE  k + 1 \in S
  <2>1. CASE k + 1 <= n
    <3>1. k + 1 \in 1 .. n /\ (k + 1) - 1 = k /\ k <= n
      BY <1>1, <2>1
    <3>2. AllHold(f[k], X) /\ f[k + 1] = ApplyRule(f[k], from, rules[k + 1])
      BY <1>4, <1>6, <3>1
    <3>3. IsRule(rules[k + 1])
      BY <1>1, <3>1
    <3>4. AllHold(ApplyRule(f[k], from, rules[k + 1]), X)
      BY <3>2, <3>3, RuleHolds
    <3> QED
      BY <3>2, <3>4
  <2> QED
    BY <2>1
<1> HIDE DEF S
<1>7. n \in S
  BY <1>1, <1>5, <1>6, EveryNumber
<1> QED
  BY <1>1, <1>2, <1>7 DEF S

LEMMA HoldMore ==
  ASSUME NEW X, NEW Y, X \subseteq Y, NEW s, AllHold(s, X)
  PROVE  AllHold(s, Y)
<1>1. \A p, signature : Holds(p, signature, X) => Holds(p, signature, Y)
  BY DEF Holds
<1> QED
  BY <1>1 DEF AllHold

\* The references of a record are what its payloads hold.
LEMMA LogicalHolds ==
  ASSUME NEW r, IsLogical(r)
  PROVE  AllHold(r.subrecords, References(r))
<1> DEFINE s == r.subrecords
           X == References(r)
<1>1. IsSequence(s) /\ \A i \in DOMAIN s : s[i] \in ToSet(s) /\ IsSequence(s[i].payload)
  BY DEF IsLogical, ToSet
<1>2. ASSUME NEW i \in DOMAIN s
      PROVE  Holds(s[i].payload, s[i].signature, X)
  <2>1. ASSUME s[i].signature \in ReferenceSignatures
        PROVE  s[i].payload \in Seq(X)
    <3>1. s[i] \in {e \in ToSet(s) : e.signature \in ReferenceSignatures}
      BY <1>1, <2>1
    <3>2. \A j \in DOMAIN s[i].payload : s[i].payload[j] \in ToSet(s[i].payload)
      BY DEF ToSet
    <3>3. \A j \in DOMAIN s[i].payload : s[i].payload[j] \in X
      BY <3>1, <3>2 DEF References
    <3> HIDE DEF X
    <3> QED
      BY <1>1, <3>3, SequenceBack
  <2> QED
    BY <1>1, <2>1 DEF Holds
<1> QED
  BY <1>1, <1>2 DEF AllHold

\* And what they hold are its references.
LEMMA HeldReferences ==
  ASSUME NEW r, NEW X, AllHold(r.subrecords, X)
  PROVE  References(r) \subseteq X
<1> SUFFICES ASSUME NEW x \in References(r)
             PROVE  x \in X
  OBVIOUS
<1>1. PICK e \in ToSet(r.subrecords) : e.signature \in ReferenceSignatures /\ x \in ToSet(e.payload)
  BY DEF References
<1>2. PICK i \in DOMAIN r.subrecords : r.subrecords[i] = e
  BY <1>1 DEF ToSet
<1>3. e.payload \in Seq(X)
  BY <1>1, <1>2 DEF AllHold, Holds
<1>4. PICK j \in DOMAIN e.payload : e.payload[j] = x
  BY <1>1 DEF ToSet
<1> QED
  BY <1>3, <1>4, SequencesOf

\* The references of a record of the source, in the destination.
MappedReferences(r) == {Mapped(id) : id \in References(r)}

LEMMA RewrittenHolds ==
  ASSUME NEW r, IsLogical(r)
  PROVE  AllHold(Rewritten(r), MappedReferences(r))
<1> DEFINE s == r.subrecords
           X == References(r)
           Y == MappedReferences(r)
           u == Rewritten(r)
<1>1. AllHold(s, X)
  BY LogicalHolds
<1>2. Len(s) \in Nat /\ DOMAIN s = 1 .. Len(s)
  BY <1>1, SequencesOf DEF AllHold, IsSequence
<1>3. DOMAIN u = 1 .. Len(s) /\ u = [i \in 1 .. Len(s) |-> u[i]]
  BY <1>2 DEF Rewritten
<1>4. IsSequence(u)
  <2> DEFINE Z == {u[i] : i \in 1 .. Len(s)}
  <2>1. u \in [1 .. Len(s) -> Z]
    BY <1>3
  <2> HIDE DEF u, Z
  <2>2. u \in Seq(Z)
    BY <1>2, <2>1
  <2> QED
    BY <2>2, SequencesOf
<1>5. ASSUME NEW i \in DOMAIN u
      PROVE  Holds(u[i].payload, u[i].signature, Y)
  <2> DEFINE e == s[i]
             p == e.payload
             q == [j \in DOMAIN p |-> Mapped(p[j])]
  <2>1. i \in DOMAIN s /\ Holds(p, e.signature, X)
    BY <1>1, <1>2, <1>3 DEF AllHold
  <2>2. DOMAIN e = {"signature", "payload"}
    BY <2>1 DEF IsLogical, ToSet
  <2>3. CASE e.signature \notin ReferenceSignatures
    <3>1. u[i] = e
      BY <2>1, <2>3 DEF Rewritten
    <3> QED
      BY <2>1, <2>3, <3>1 DEF Holds
  <2>4. CASE e.signature \in ReferenceSignatures
    <3>1. u[i] = [e EXCEPT !.payload = q]
      BY <2>1, <2>4 DEF Rewritten
    <3>2. u[i].payload = q /\ u[i].signature = e.signature
      <4> HIDE DEF q, u, e
      <4> QED
        BY <2>2, <3>1
    <3>3. p \in Seq(X)
      BY <2>1, <2>4 DEF Holds
    <3>4. q \in Seq(Y)
      <4>1. Len(p) \in Nat /\ DOMAIN p = 1 .. Len(p) /\ \A j \in 1 .. Len(p) : p[j] \in X
        <5> HIDE DEF X, p
        <5> QED
          BY <3>3
      <4>2. q \in [1 .. Len(p) -> Y]
        BY <4>1 DEF MappedReferences
      <4> HIDE DEF q, Y, p
      <4> QED
        BY <4>1, <4>2
    <3>5. IsSequence(q)
      BY <3>4, SequencesOf
    <3> QED
      BY <3>2, <3>4, <3>5 DEF Holds
  <2> QED
    BY <2>3, <2>4
<1> QED
  BY <1>4, <1>5 DEF AllHold

\* The references that a record taken over can have.
BroughtReferences(r) ==
  MappedReferences(r)
    \cup (IF IsNew(r) \/ options.rules = ReplaceRecord THEN {}
          ELSE References(Former(Target(r))))

LEMMA ContentHolds ==
  ASSUME options \in Options, NEW r, IsLogical(r), ~ IsNew(r) => IsLogical(Former(Target(r)))
  PROVE  AllHold(FirstContent(r), BroughtReferences(r))
<1> DEFINE X == BroughtReferences(r)
<1>1. AllHold(Rewritten(r), X)
  <2>1. MappedReferences(r) \subseteq X
    BY DEF BroughtReferences
  <2> HIDE DEF X
  <2> QED
    BY <2>1, HoldMore, RewrittenHolds
<1>2. CASE IsNew(r) \/ options.rules = ReplaceRecord
  <2>1. FirstContent(r) = Rewritten(r)
    BY <1>2 DEF FirstContent
  <2> QED
    BY <1>1, <2>1
<1>3. CASE ~ (IsNew(r) \/ options.rules = ReplaceRecord)
  <2>1. FirstContent(r) = Compose(Former(Target(r)).subrecords, Rewritten(r), options.rules)
    BY <1>3 DEF FirstContent
  <2>2. IsSequence(options.rules) /\ \A rule \in ToSet(options.rules) : IsRule(rule)
    BY <1>3, MergeAssumption
  <2>3. AllHold(Former(Target(r)).subrecords, X)
    <3>1. References(Former(Target(r))) \subseteq X
      BY <1>3 DEF BroughtReferences
    <3>2. AllHold(Former(Target(r)).subrecords, References(Former(Target(r))))
      BY <1>3, LogicalHolds
    <3> HIDE DEF X
    <3> QED
      BY <3>1, <3>2, HoldMore
  <2> HIDE DEF X
  <2>4. PICK into, from, rules :
          /\ into = Former(Target(r)).subrecords /\ from = Rewritten(r) /\ rules = options.rules
    OBVIOUS
  <2>5. AllHold(Compose(into, from, rules), X)
    <3>1. AllHold(into, X) /\ AllHold(from, X)
      BY <1>1, <2>3, <2>4
    <3>2. IsSequence(rules)
      BY <2>2, <2>4
    <3>3. \A rule \in ToSet(rules) : IsRule(rule)
      BY <2>2, <2>4
    <3> QED
      BY <3>1, <3>2, <3>3, ComposedHolds
  <2>6. FirstContent(r) = Compose(into, from, rules)
    BY <2>1, <2>4
  <2> QED
    BY <2>5, <2>6 DEF X
<1> QED
  BY <1>2, <1>3

(***************************************************************************)
(* The records of the result.                                              *)
(***************************************************************************)

\* A record taken over is an own one of the destination, new ones behind all it had.
IsTarget(r) ==
  LET to == Target(r) IN
  /\ to = Mapped(r.id) /\ Mappable(r.id)
  /\ to = RecordId(OwnedIndex(destination.header), to.local) /\ to.local \in Nat
  /\ IsNew(r) => /\ r.id \in ToInject /\ to = injected[r.id]
                 /\ destination.header.next <= to.local /\ to.local < next
  /\ ~ IsNew(r) => to.local = r.id.local

LEMMA TargetsAreOwn ==
  ASSUME destination \in Destinations, source \in Sources, IsPrepared,
         NEW r, IsRecord(r), TakesPart(r), InDestination(r)
  PROVE  IsTarget(r)
<1>1. RequestError = "None" /\ selected = SelectedRecords /\ injected = InjectedIds
  BY DEF IsPrepared
<1>2. InjectsNextIds
  BY <1>1, InjectedAreNext
<1>3. CASE IsNew(r)
  <2>1. r.id \in ToInject
    BY <1>1, <1>3 DEF TakesPart, IsNew, ToInject
  <2>2. Target(r) = injected[r.id] /\ Mapped(r.id) = injected[r.id]
    BY <1>3 DEF Target, IsNew, Mapped
  <2>3. Mappable(r.id)
    BY <1>1, <1>2, <1>3, <2>1 DEF Mappable, IsNew, InjectsNextIds
  <2>4. LET to == injected[r.id]
        IN /\ to = RecordId(OwnedIndex(destination.header), to.local)
           /\ to.local \in Nat /\ destination.header.next <= to.local
           /\ to.local < next
    BY <1>1, <1>2, <2>1 DEF InjectsNextIds, IsPrepared
  <2> QED
    BY <1>3, <2>1, <2>2, <2>3, <2>4 DEF IsTarget
<1>4. CASE ~ IsNew(r)
  <2> DEFINE deps == source.header.dependencies
             i == CHOOSE i \in DOMAIN deps : deps[i] = PackageId
  <2>1. i \in DOMAIN deps /\ deps[i] = PackageId
    BY <1>1 DEF RequestError, ToSet
  <2>2. r.id.index = i - 1
    BY <1>4 DEF InDestination, PlaceOf
  <2>3. Len(deps) \in Nat /\ DOMAIN deps = 1 .. Len(deps)
    BY SourceIsPackage, SequencesOf DEF IsPackage, WellFormed, IsHeader, IsSequence
  <2> HIDE DEF i
  <2>4. r.id.index + 1 = i /\ r.id.index < Len(deps)
    BY <2>1, <2>2, <2>3
  <2>5. DependencyMap[i] = OwnedIndex(destination.header)
    BY <2>1 DEF DependencyMap
  <2>6. Mapped(r.id) = RecordId(OwnedIndex(destination.header), r.id.local) /\ Mappable(r.id)
    BY <1>4, <2>4, <2>5 DEF Mapped, Mappable, IsNew
  <2>7. Target(r) = RecordId(OwnedIndex(destination.header), r.id.local)
    BY <1>4 DEF Target
  <2>8. r.id.local \in Nat
    BY DEF IsRecord
  <2>9. Target(r).local = r.id.local
    BY <2>7 DEF RecordId
  <2> QED
    BY <1>4, <2>6, <2>7, <2>8, <2>9 DEF IsTarget
<1> QED
  BY <1>3, <1>4

\* The records that the result is encoded from.
Stamped ==
  [id \in DOMAIN records |-> IF id \in Operated THEN [records[id] EXCEPT !.stamp = MergeId]
                             ELSE records[id]]

\* The record put by an operation.
IsPut(op, r) ==
  /\ op.digest = FirstContent(r) /\ AllHold(op.digest, BroughtReferences(r))
  /\ Stamped[op.id] = LogicalRecord(op.id, FALSE, op.digest, MergeId)

AreStamped(w) ==
  /\ DOMAIN records = (Ids(destination) \ Operated) \cup Targets
  /\ Targets \subseteq Operated
  /\ \A id \in Ids(destination) \ Operated : Stamped[id] = Former(id)
  /\ \A k \in 1 .. Len(pending) :
       pending[k].kind # "Delete" => IsPut(pending[k], SourceRecords[w[k]])
  /\ \A id \in DOMAIN records : IsRecord(Stamped[id]) /\ Stamped[id].id = id

LEMMA Restamped ==
  ASSUME NEW id, NEW deleted, NEW subrecords, NEW before, NEW after,
         NEW a, a = LogicalRecord(id, deleted, subrecords, before),
         NEW b, b = [a EXCEPT !.stamp = after]
  PROVE  b = LogicalRecord(id, deleted, subrecords, after)
<1> DEFINE n == Len(subrecords)
<1> HIDE DEF n
<1>1. [[kind |-> "record", id |-> id, payload |-> n, deleted |-> deleted,
        subrecords |-> subrecords, stamp |-> before] EXCEPT !.stamp = after]
        = [kind |-> "record", id |-> id, payload |-> n, deleted |-> deleted,
           subrecords |-> subrecords, stamp |-> after]
  OBVIOUS
<1> QED
  BY <1>1 DEF LogicalRecord, n

LEMMA RecordsAreStamped ==
  ASSUME NEW w, AtEnd(w), TakesOver(w)
  PROVE  AreStamped(w)
<1>1. /\ destination \in Destinations /\ source \in Sources /\ options \in Options
      /\ IsPrepared
  BY DEF AtEnd
<1>2. /\ DOMAIN records = (Ids(destination) \ DeletedIds) \cup PutIds
      /\ \A id \in DOMAIN records : id \notin PutIds => records[id] = Former(id)
  BY DEF AtEnd, IsRecorded
<1>3. /\ Operated = DeletedIds \cup PutIds /\ DeletedIds \cap PutIds = {}
      /\ PutIds = Targets
  BY DEF TakesOver
<1>4. /\ DOMAIN records = (Ids(destination) \ Operated) \cup Targets
      /\ Targets \subseteq Operated
  BY <1>2, <1>3
<1>5. ASSUME NEW id \in Ids(destination)
      PROVE  IsRecord(Former(id)) /\ IsLogical(Former(id)) /\ Former(id).id = id
  <2>1. IsIndexed(destination) /\ IsPackage(destination)
    BY <1>1, DestinationIsPackage, PackageIsIndexed
  <2>2. LET i == IndexOf(destination, id)
        IN /\ i \in Records(destination) /\ destination.chunks[i].id = id
           /\ i \in 1 .. Len(destination.chunks) /\ destination.chunks[i].kind = "record"
    BY <2>1 DEF IsIndexed
  <2>3. DOMAIN destination.chunks = 1 .. Len(destination.chunks)
    BY <2>1, SequencesOf DEF IsPackage, WellFormed, IsSequence
  <2> QED
    BY <2>1, <2>2, <2>3 DEF Former, IsPackage, WellFormed, IsGroup
<1>6. ASSUME NEW id \in Ids(destination) \ Operated
      PROVE  Stamped[id] = Former(id)
  BY <1>2, <1>3, <1>4 DEF Stamped
<1>7. ASSUME NEW k \in 1 .. Len(pending), pending[k].kind # "Delete"
      PROVE  /\ IsPut(pending[k], SourceRecords[w[k]])
             /\ IsRecord(Stamped[pending[k].id]) /\ Stamped[pending[k].id].id = pending[k].id
  <2>0. PICK op, r : op = pending[k] /\ r = SourceRecords[w[k]]
    OBVIOUS
  <2>1. /\ IsOperation(op, r) /\ IsDone(op, r) /\ IsLogical(r) /\ IsRecord(r) /\ op.id \in PutIds
        /\ op.kind # "Delete"
    BY <1>7, <2>0 DEF TakesOver
  <2>2. IsTarget(r) /\ op.id = Target(r)
    BY <1>1, <2>1, TargetsAreOwn DEF IsOperation
  <2>3. /\ op.digest = FirstContent(r)
        /\ records[op.id] = LogicalRecord(op.id, FALSE, op.digest, r.stamp)
    BY <2>1 DEF IsDone
  <2>4. AllHold(op.digest, BroughtReferences(r))
    <3>1. ~ IsNew(r) => op.id \in Ids(destination)
      BY <2>1 DEF IsDone, IsOperation
    <3>2. ~ IsNew(r) => IsLogical(Former(Target(r)))
      BY <1>5, <2>2, <3>1
    <3> QED
      BY <1>1, <2>1, <2>3, <3>2, ContentHolds
  <2>5. Stamped[op.id] = LogicalRecord(op.id, FALSE, op.digest, MergeId)
    <3>1. op.id \in DOMAIN records /\ op.id \in Operated
      BY <1>2, <1>3, <2>1
    <3>2. Stamped[op.id] = [records[op.id] EXCEPT !.stamp = MergeId]
      BY <3>1 DEF Stamped
    <3>3. PICK id, digest, before :
            id = op.id /\ digest = op.digest /\ before = r.stamp
      OBVIOUS
    <3>4. PICK a, b : a = records[op.id] /\ b = Stamped[op.id]
      OBVIOUS
    <3>5. a = LogicalRecord(id, FALSE, digest, before) /\ b = [a EXCEPT !.stamp = MergeId]
      BY <2>3, <3>2, <3>3, <3>4
    <3>6. b = LogicalRecord(id, FALSE, digest, MergeId)
      <4>1. PICK deleted, after : deleted = FALSE /\ after = MergeId
        OBVIOUS
      <4>2. a = LogicalRecord(id, deleted, digest, before) /\ b = [a EXCEPT !.stamp = after]
        BY <3>5, <4>1
      <4>3. b = LogicalRecord(id, deleted, digest, after)
        BY <4>2, Restamped
      <4> QED
        BY <4>1, <4>3
    <3> QED
      BY <3>3, <3>4, <3>6
  <2>6. Len(op.digest) \in Nat
    BY <2>4, SequencesOf DEF AllHold, IsSequence
  <2>7. op.id.index \in Nat /\ op.id.local \in Nat
    <3>1. OwnedIndex(destination.header) \in Nat
      BY <1>1, DestinationIsPackage, SequencesOf
      DEF IsPackage, WellFormed, IsHeader, IsSequence, OwnedIndex
    <3> QED
      BY <2>2, <3>1 DEF IsTarget, RecordId
  <2>8. IsRecord(Stamped[op.id]) /\ Stamped[op.id].id = op.id
    BY <2>5, <2>6, <2>7 DEF IsRecord, LogicalRecord
  <2> QED
    BY <2>0, <2>3, <2>4, <2>5, <2>8 DEF IsPut
<1>8. ASSUME NEW id \in DOMAIN records
      PROVE  IsRecord(Stamped[id]) /\ Stamped[id].id = id
  <2>1. CASE id \in Targets
    <3>1. PICK source_id \in DOMAIN actions : id = actions[source_id]
      BY <2>1 DEF Targets
    <3>2. PICK k \in 1 .. Len(pending) : pending[k].id = id /\ pending[k].kind # "Delete"
      BY <3>1 DEF TakesOver
    <3> QED
      BY <1>7, <3>2
  <2>2. CASE id \notin Targets
    BY <1>4, <1>5, <1>6, <2>2
  <2> QED
    BY <2>1, <2>2
<1> QED
  BY <1>4, <1>6, <1>7, <1>8 DEF AreStamped

(***************************************************************************)
(* The tree of the result.                                                 *)
(***************************************************************************)

\* Where a place is among those of P.
IsRank(P, K) ==
  /\ K \in [P -> 1 .. Cardinality(P)]
  /\ \A x \in P : Ascending(P)[K[x]] = x
  /\ \A k \in 1 .. Cardinality(P) : Ascending(P)[k] \in P /\ K[Ascending(P)[k]] = k
  /\ \A x, y \in P : x < y <=> K[x] < K[y]

LEMMA Ranked ==
  ASSUME NEW n \in Nat, NEW P \in SUBSET (1 .. n)
  PROVE  \E K : IsRank(P, K)
<1> DEFINE m == Cardinality(P)
           e == Ascending(P)
           K == [x \in P |-> CHOOSE k \in 1 .. m : e[k] = x]
<1>1. /\ e \in [1 .. m -> P] /\ m \in Nat
      /\ \A x \in P : \E k \in 1 .. m : e[k] = x
      /\ \A k, l \in 1 .. m : k < l <=> e[k] < e[l]
  BY RestrictedTo
<1>2. \A x \in P : x \in Nat
  OBVIOUS
<1> HIDE DEF m, e
<1>3. \A x \in P : K[x] \in 1 .. m /\ e[K[x]] = x
  BY <1>1
<1>4. K = [x \in P |-> K[x]]
  OBVIOUS
<1> HIDE DEF K
<1>5. ASSUME NEW k \in 1 .. m
      PROVE  e[k] \in P /\ K[e[k]] = k
  <2>1. e[k] \in P
    BY <1>1
  <2>2. K[e[k]] \in 1 .. m /\ e[K[e[k]]] = e[k]
    BY <1>3, <2>1
  <2>3. e[k] \in Nat /\ ~ e[k] < e[k]
    <3>1. PICK x \in P : x = e[k]
      BY <2>1
    <3>2. x \in Nat
      BY <1>2
    <3>3. ~ x < x
      BY <3>2
    <3> QED
      BY <3>1, <3>2, <3>3
  <2>4. ~ k < K[e[k]] /\ ~ K[e[k]] < k
    BY <1>1, <2>2, <2>3
  <2> QED
    BY <1>1, <2>1, <2>2, <2>4
<1>6. \A x, y \in P : x < y <=> K[x] < K[y]
  BY <1>1, <1>3
<1>7. K \in [P -> 1 .. m]
  BY <1>3, <1>4
<1>8. IsRank(P, K)
  BY <1>3, <1>5, <1>6, <1>7 DEF IsRank, m, e
<1> QED
  BY <1>8

DestinationTree == ReadTree(destination)
SourceTree == ReadTree(source)

\* The places of the destination that stay, and those of the source that are taken over.
Rest == LeftBy(DestinationTree, Operated)
Added == Taken(SourceTree) \cup Filled(SourceTree)

\* The entries that stay are in the result in their order, those taken over are there
\* translated, each of them within the ones it was within, and there are no others.
Composes(c, s) ==
  LET D == DestinationTree
      S == SourceTree
      M == MergedTree
  IN /\ HasTree(destination, D) /\ HasTree(source, S) /\ IsTree(M)
     /\ Rest \in SUBSET (1 .. Len(D)) /\ Added \in SUBSET (1 .. Len(S))
     /\ c \in [Rest -> 1 .. Len(M)] /\ s \in [Added -> 1 .. Len(M)]
     /\ \A x \in Rest :
          /\ M[c[x]] = D[x]
          /\ \A g \in Around(D, x) : g \in Rest /\ c[g] \in Around(M, c[x])
     /\ \A x, y \in Rest : x < y => c[x] < c[y]
     /\ \A x \in Added :
          /\ M[s[x]] = Translated(S[x])
          /\ \A g \in Around(S, x) : g \in Added /\ s[g] \in Around(M, s[x])
     /\ \A i \in 1 .. Len(M) : (\E x \in Rest : c[x] = i) \/ \E x \in Added : s[x] = i

LEMMA MergedTreeComposes ==
  ASSUME NEW w, AtEnd(w), TakesOver(w)
  PROVE  \E c, s : Composes(c, s)
<1> DEFINE D == DestinationTree
           S == SourceTree
           M == MergedTree
           B == RemoveRecords(tree, Targets)
           A == TranslatedTree
<1>1. HasTree(destination, D) /\ HasTree(source, S)
  BY DestinationIsPackage, SourceIsPackage, PackageHasTree DEF AtEnd, DestinationTree, SourceTree
<1>2. IsTree(D) /\ IsTree(S) /\ Len(D) \in Nat /\ Len(S) \in Nat
  BY <1>1 DEF HasTree, IsTree, HasDepths
<1>3. B = RemoveRecords(D, Operated)
  <2>1. tree = RemoveRecords(D, DeletedIds)
    BY DEF AtEnd, DestinationTree
  <2>2. Operated = DeletedIds \cup Targets
    BY DEF TakesOver
  <2> HIDE DEF D
  <2> QED
    BY <1>2, <2>1, <2>2, RemovedTwice
<1>4. Rest \in SUBSET (1 .. Len(D)) /\ IsPart(D, Rest, B)
  <2> HIDE DEF B
  <2> QED
    BY <1>2, <1>3, RemovedRecords DEF Rest
<1>5. IsTranslated(S, A)
  <2>1. LET kept == Restricted(S, Taken(S) \cup Filled(S))
        IN A = [k \in DOMAIN kept |-> Translated(kept[k])]
    BY DEF TranslatedTree, Taken, Filled, Translated, SourceTree
  <2> HIDE DEF A, S
  <2>2. LET kept == Restricted(S, Taken(S) \cup Filled(S))
        IN IsTranslated(S, [k \in DOMAIN kept |-> Translated(kept[k])])
    BY <1>2, TranslatesPart
  <2> QED
    BY <2>1, <2>2
<1>6. PICK b, a : Unites(M, B, A, Len(A), b, a)
  <2>1. M = UnionTree(B, A)
    BY DEF MergedTree, Targets
  <2>2. IsTree(B) /\ IsTree(A)
    BY <1>4, <1>5 DEF IsPart, IsTranslated
  <2> HIDE DEF M, B, A
  <2> QED
    BY <2>1, <2>2, UnitesBoth
<1> HIDE DEF M, B, A, D, S
<1>7. Added \in SUBSET (1 .. Len(S)) /\ Len(A) = Cardinality(Added) /\ IsTree(A)
  BY <1>5 DEF IsTranslated, Added, S
<1>8. Len(B) = Cardinality(Rest) /\ IsTree(B)
  BY <1>4 DEF IsPart
<1>9. PICK K : IsRank(Rest, K)
  BY <1>2, <1>4, Ranked
<1>10. PICK L : IsRank(Added, L)
  BY <1>2, <1>7, Ranked
<1> DEFINE c == [x \in Rest |-> b[K[x]]]
           s == [x \in Added |-> a[L[x]]]
<1>11. /\ \A x \in Rest : K[x] \in 1 .. Len(B) /\ c[x] = b[K[x]]
       /\ \A x \in Added : L[x] \in 1 .. Len(A) /\ s[x] = a[L[x]]
  BY <1>7, <1>8, <1>9, <1>10 DEF IsRank
<1>12. c = [x \in Rest |-> c[x]] /\ s = [x \in Added |-> s[x]]
  OBVIOUS
<1> HIDE DEF c, s
<1>13. Embeds(B, Len(B), b, M) /\ Embeds(A, Len(A), a, M) /\ IsTree(M)
  BY <1>6 DEF Unites
<1>14. c \in [Rest -> 1 .. Len(M)] /\ s \in [Added -> 1 .. Len(M)]
  BY <1>11, <1>12, <1>13 DEF Embeds
<1>15. ASSUME NEW x \in Rest
       PROVE  /\ M[c[x]] = D[x]
              /\ \A g \in Around(D, x) : g \in Rest /\ c[g] \in Around(M, c[x])
  <2>1. K[x] \in 1 .. Len(B) /\ Ascending(Rest)[K[x]] = x /\ c[x] = b[K[x]]
    BY <1>9, <1>11 DEF IsRank
  <2>2. M[b[K[x]]] = B[K[x]] /\ B[K[x]] = D[x]
    BY <1>4, <1>13, <2>1 DEF Embeds, IsPart
  <2>3. ASSUME NEW g \in Around(D, x)
        PROVE  g \in Rest /\ c[g] \in Around(M, c[x])
    <3>1. g \in 1 .. Len(D) /\ D[g].kind = "group"
      <4>1. x \in 1 .. Len(D)
        BY <1>4
      <4>2. D[g].kind = "group"
        BY <1>2, <4>1 DEF IsTree
      <4>3. g \in 1 .. Len(D)
        BY <1>2, <4>1 DEF Around
      <4> QED
        BY <4>2, <4>3
    <3>2. g \in Rest
      BY <1>2, <3>1 DEF Rest, LeftBy, IsTree, HasDepths, D
    <3>3. K[g] \in 1 .. Len(B) /\ Ascending(Rest)[K[g]] = g /\ c[g] = b[K[g]]
      BY <1>9, <1>11, <3>2 DEF IsRank
    <3>4. K[g] \in Around(B, K[x])
      BY <1>4, <2>1, <3>3 DEF IsPart
    <3>5. b[K[g]] \in Around(M, b[K[x]])
      BY <1>13, <2>1, <3>4 DEF Embeds
    <3> QED
      BY <2>1, <3>2, <3>3, <3>5
  <2> QED
    BY <2>1, <2>2, <2>3
<1>16. \A x, y \in Rest : x < y => c[x] < c[y]
  <2>1. \A k, l \in 1 .. Len(B) : k < l => b[k] < b[l]
    BY <1>6 DEF Unites
  <2> QED
    BY <1>9, <1>11, <2>1 DEF IsRank
<1>17. ASSUME NEW x \in Added
       PROVE  /\ M[s[x]] = Translated(S[x])
              /\ \A g \in Around(S, x) : g \in Added /\ s[g] \in Around(M, s[x])
  <2>1. L[x] \in 1 .. Len(A) /\ Ascending(Added)[L[x]] = x /\ s[x] = a[L[x]]
    BY <1>10, <1>11 DEF IsRank
  <2>2. M[a[L[x]]] = A[L[x]] /\ A[L[x]] = Translated(S[x])
    <3>1. A[L[x]] = Translated(S[Ascending(Added)[L[x]]])
      BY <1>5, <2>1 DEF IsTranslated, Added, S
    <3> QED
      BY <1>13, <2>1, <3>1 DEF Embeds
  <2>3. ASSUME NEW g \in Around(S, x)
        PROVE  g \in Added /\ s[g] \in Around(M, s[x])
    <3>1. g \in 1 .. Len(S) /\ x \in 1 .. Len(S)
      BY <1>2, <1>7 DEF Around
    <3>2. g \in Filled(S)
      <4>1. CASE x \in Taken(S)
        BY <1>2, <3>1, <4>1, FilledAround
      <4>2. CASE x \in Filled(S)
        <5>1. PICK i \in Taken(S) : x \in Around(S, i)
          BY <1>2, <3>1, <4>2, FilledAround
        <5>2. i \in 1 .. Len(S)
          BY <1>2 DEF Taken, IsTree, HasDepths
        <5>3. g \in Around(S, i)
          BY <1>2, <5>1, <5>2, AroundNests DEF IsTree
        <5> QED
          BY <1>2, <3>1, <5>3, FilledAround
      <4> QED
        BY <4>1, <4>2 DEF Added, S
    <3>3. g \in Added
      BY <3>2 DEF Added, S
    <3>4. L[g] \in 1 .. Len(A) /\ Ascending(Added)[L[g]] = g /\ s[g] = a[L[g]]
      BY <1>10, <1>11, <3>3 DEF IsRank
    <3>5. L[g] \in Around(A, L[x])
      <4>1. \A h \in 1 .. Len(A) : h \in Around(A, L[x]) <=>
              Ascending(Added)[h] \in Around(S, Ascending(Added)[L[x]])
        BY <1>5, <2>1 DEF IsTranslated, Added, S
      <4> QED
        BY <2>1, <3>4, <4>1
    <3>6. a[L[g]] \in Around(M, a[L[x]])
      BY <1>13, <2>1, <3>5 DEF Embeds
    <3> QED
      BY <2>1, <3>3, <3>4, <3>6
  <2> QED
    BY <2>1, <2>2, <2>3
<1>18. ASSUME NEW i \in 1 .. Len(M)
       PROVE  (\E x \in Rest : c[x] = i) \/ \E x \in Added : s[x] = i
  <2>1. (\E k \in 1 .. Len(B) : b[k] = i) \/ \E k \in 1 .. Len(A) : a[k] = i
    BY <1>6 DEF Unites
  <2>2. ASSUME NEW k \in 1 .. Len(B), b[k] = i
        PROVE  \E x \in Rest : c[x] = i
    <3>1. Ascending(Rest)[k] \in Rest /\ K[Ascending(Rest)[k]] = k
      BY <1>8, <1>9 DEF IsRank
    <3> QED
      BY <1>11, <2>2, <3>1
  <2>3. ASSUME NEW k \in 1 .. Len(A), a[k] = i
        PROVE  \E x \in Added : s[x] = i
    <3>1. Ascending(Added)[k] \in Added /\ L[Ascending(Added)[k]] = k
      BY <1>7, <1>10 DEF IsRank
    <3> QED
      BY <1>11, <2>3, <3>1
  <2> QED
    BY <2>1, <2>2, <2>3
<1>19. Composes(c, s)
  BY <1>1, <1>4, <1>7, <1>13, <1>14, <1>15, <1>16, <1>17, <1>18 DEF Composes, D, S, M
<1> QED
  BY <1>19

\* Where the records are in the trees.
KnowsRecords ==
  LET D == DestinationTree
      S == SourceTree
  IN /\ \A x \in Rest : D[x].kind = "record" =>
          /\ D[x].id \in Ids(destination) \ Operated /\ IndexOf(destination, D[x].id) = x
     /\ \A id \in Ids(destination) \ Operated :
          LET x == IndexOf(destination, id)
          IN x \in Rest /\ D[x].kind = "record" /\ D[x].id = id
     /\ \A x \in Added : S[x].kind = "record" =>
          /\ S[x].id \in DOMAIN actions /\ IndexOf(source, S[x].id) = x
     /\ \A id \in DOMAIN actions :
          LET x == IndexOf(source, id)
          IN x \in Added /\ S[x].kind = "record" /\ S[x].id = id

\* The records of a package in its tree.
LEMMA RecordsInTree ==
  ASSUME NEW p, IsIndexed(p), NEW t, HasTree(p, t)
  PROVE  /\ DOMAIN t = 1 .. Len(t)
         /\ \A i \in 1 .. Len(t) : t[i].kind = "record" =>
              t[i].id \in Ids(p) /\ IndexOf(p, t[i].id) = i
         /\ \A id \in Ids(p) :
              LET i == IndexOf(p, id)
              IN i \in 1 .. Len(t) /\ t[i].kind = "record" /\ t[i].id = id
<1>1. DOMAIN t = 1 .. Len(t) /\ Len(t) = Len(p.chunks)
  BY DEF HasTree, IsTree, HasDepths
<1>2. ASSUME NEW i \in 1 .. Len(t), t[i].kind = "record"
      PROVE  i \in Records(p) /\ t[i].id = p.chunks[i].id
  <2>1. t[i] = RecordEntry(t[i].depth, p.chunks[i].id) /\ p.chunks[i].kind = "record"
    BY <1>2 DEF HasTree
  <2>2. t[i].id = p.chunks[i].id
    BY <2>1 DEF RecordEntry
  <2> QED
    BY <1>1, <2>1, <2>2 DEF IsIndexed
<1>3. ASSUME NEW i \in Records(p)
      PROVE  i \in 1 .. Len(t) /\ t[i].kind = "record" /\ t[i].id = p.chunks[i].id
  <2>1. i \in 1 .. Len(t) /\ p.chunks[i].kind = "record"
    BY <1>1 DEF IsIndexed
  <2>2. t[i].kind = "record"
    BY <2>1 DEF HasTree
  <2> QED
    BY <1>2, <2>1, <2>2
<1> QED
  BY <1>1, <1>2, <1>3 DEF IsIndexed

LEMMA RecordsAreKnown ==
  ASSUME NEW w, AtEnd(w), TakesOver(w)
  PROVE  KnowsRecords
<1> DEFINE D == DestinationTree
           S == SourceTree
<1>1. /\ IsIndexed(destination) /\ IsIndexed(source)
      /\ HasTree(destination, D) /\ HasTree(source, S)
  BY DestinationIsPackage, SourceIsPackage, PackageIsIndexed, PackageHasTree
  DEF AtEnd, DestinationTree, SourceTree
<1> HIDE DEF D, S
<1>2. /\ DOMAIN D = 1 .. Len(D)
      /\ \A i \in 1 .. Len(D) : D[i].kind = "record" =>
           D[i].id \in Ids(destination) /\ IndexOf(destination, D[i].id) = i
      /\ \A id \in Ids(destination) :
           LET i == IndexOf(destination, id)
           IN i \in 1 .. Len(D) /\ D[i].kind = "record" /\ D[i].id = id
  BY <1>1, RecordsInTree
<1>3. /\ DOMAIN S = 1 .. Len(S)
      /\ \A i \in 1 .. Len(S) : S[i].kind = "record" =>
           S[i].id \in Ids(source) /\ IndexOf(source, S[i].id) = i
      /\ \A id \in Ids(source) :
           LET i == IndexOf(source, id)
           IN i \in 1 .. Len(S) /\ S[i].kind = "record" /\ S[i].id = id
  BY <1>1, RecordsInTree
<1>4. /\ Rest = {i \in DOMAIN D : D[i].kind = "record" => D[i].id \notin Operated}
      /\ Added = {i \in DOMAIN S : S[i].kind = "record" /\ S[i].id \in DOMAIN actions}
                   \cup Filled(S)
      /\ \A i \in Filled(S) : S[i].kind = "group"
  BY DEF Rest, LeftBy, Added, Taken, Filled, D, S
<1>5. DOMAIN actions \subseteq Ids(source)
  BY DEF TakesOver
<1>6. \A x \in Rest : D[x].kind = "record" =>
        /\ D[x].id \in Ids(destination) \ Operated /\ IndexOf(destination, D[x].id) = x
  BY <1>2, <1>4
<1>7. \A id \in Ids(destination) \ Operated :
        LET x == IndexOf(destination, id)
        IN x \in Rest /\ D[x].kind = "record" /\ D[x].id = id
  BY <1>2, <1>4
<1>8. \A x \in Added : S[x].kind = "record" =>
        /\ S[x].id \in DOMAIN actions /\ IndexOf(source, S[x].id) = x
  BY <1>3, <1>4, <1>5
<1>9. \A id \in DOMAIN actions :
        LET x == IndexOf(source, id)
        IN x \in Added /\ S[x].kind = "record" /\ S[x].id = id
  BY <1>3, <1>4, <1>5
<1> QED
  BY <1>6, <1>7, <1>8, <1>9 DEF KnowsRecords, D, S

\* The records of the result, each at one place.
HoldsRecords(c, s) ==
  LET M == MergedTree IN
  /\ \A id \in Ids(destination) \ Operated :
       LET i == c[IndexOf(destination, id)]
       IN i \in 1 .. Len(M) /\ M[i].kind = "record" /\ M[i].id = id
  /\ \A id \in DOMAIN actions :
       LET i == s[IndexOf(source, id)]
       IN i \in 1 .. Len(M) /\ M[i].kind = "record" /\ M[i].id = actions[id]
  /\ \A i \in 1 .. Len(M) : M[i].kind = "record" =>
       \/ /\ M[i].id \in Ids(destination) \ Operated
          /\ i = c[IndexOf(destination, M[i].id)]
       \/ \E id \in DOMAIN actions : M[i].id = actions[id] /\ i = s[IndexOf(source, id)]
  /\ \A i, j \in 1 .. Len(M) :
       M[i].kind = "record" /\ M[j].kind = "record" /\ M[i].id = M[j].id => i = j

LEMMA RecordsAreHeld ==
  ASSUME NEW w, AtEnd(w), TakesOver(w), NEW c, NEW s, Composes(c, s)
  PROVE  HoldsRecords(c, s)
<1> DEFINE D == DestinationTree
           S == SourceTree
           M == MergedTree
<1>1. KnowsRecords
  BY RecordsAreKnown
<1>2. \A x \in Rest : c[x] \in 1 .. Len(M) /\ M[c[x]] = D[x]
  BY DEF Composes
<1>3. \A x \in Added : s[x] \in 1 .. Len(M) /\ M[s[x]] = Translated(S[x])
  BY DEF Composes
<1>4. \A x \in Added :
        /\ M[s[x]].kind = "record" => S[x].kind = "record"
        /\ S[x].kind = "record" => M[s[x]].kind = "record" /\ M[s[x]].id = actions[S[x].id]
  <2>1. \A e : /\ Translated(e).kind = "record" => e.kind = "record"
               /\ e.kind = "record" =>
                    Translated(e).kind = "record" /\ Translated(e).id = actions[e.id]
    BY DEF Translated, RecordEntry, GroupEntry
  <2> QED
    BY <1>3, <2>1
<1>5. /\ Targets \subseteq Operated
      /\ \A id, other \in DOMAIN actions : actions[id] = actions[other] => id = other
  BY DEF TakesOver
<1>6. \A i \in 1 .. Len(M) : (\E x \in Rest : c[x] = i) \/ \E x \in Added : s[x] = i
  BY DEF Composes
<1>7. \A id \in Ids(destination) \ Operated :
        LET i == c[IndexOf(destination, id)]
        IN i \in 1 .. Len(M) /\ M[i].kind = "record" /\ M[i].id = id
  BY <1>1, <1>2 DEF KnowsRecords
<1>8. \A id \in DOMAIN actions :
        LET i == s[IndexOf(source, id)]
        IN i \in 1 .. Len(M) /\ M[i].kind = "record" /\ M[i].id = actions[id]
  BY <1>1, <1>3, <1>4 DEF KnowsRecords
<1>9. ASSUME NEW i \in 1 .. Len(M), M[i].kind = "record"
      PROVE  \/ /\ M[i].id \in Ids(destination) \ Operated
                /\ i = c[IndexOf(destination, M[i].id)]
             \/ \E id \in DOMAIN actions : M[i].id = actions[id] /\ i = s[IndexOf(source, id)]
  <2>1. CASE \E x \in Rest : c[x] = i
    <3>1. PICK x \in Rest : c[x] = i
      BY <2>1
    <3>2. M[i] = D[x]
      BY <1>2, <3>1
    <3> QED
      BY <1>1, <1>9, <3>1, <3>2 DEF KnowsRecords
  <2>2. CASE \E x \in Added : s[x] = i
    <3>1. PICK x \in Added : s[x] = i
      BY <2>2
    <3>2. S[x].kind = "record" /\ M[i].id = actions[S[x].id]
      BY <1>4, <1>9, <3>1
    <3>3. S[x].id \in DOMAIN actions /\ IndexOf(source, S[x].id) = x
      BY <1>1, <3>2 DEF KnowsRecords
    <3> QED
      BY <3>1, <3>2, <3>3
  <2> QED
    BY <1>6, <2>1, <2>2
<1>10. ASSUME NEW i \in 1 .. Len(M), NEW j \in 1 .. Len(M),
              M[i].kind = "record", M[j].kind = "record", M[i].id = M[j].id
       PROVE  i = j
  <2>1. CASE M[i].id \in Ids(destination) \ Operated
    <3>1. \A id \in DOMAIN actions : M[i].id # actions[id]
      BY <1>5, <2>1 DEF Targets
    <3> HIDE DEF M
    <3> QED
      BY <1>9, <1>10, <2>1, <3>1
  <2>2. CASE M[i].id \notin Ids(destination) \ Operated
    <3>1. PICK id \in DOMAIN actions : M[i].id = actions[id] /\ i = s[IndexOf(source, id)]
      BY <1>9, <1>10, <2>2
    <3>2. PICK other \in DOMAIN actions : M[j].id = actions[other] /\ j = s[IndexOf(source, other)]
      BY <1>9, <1>10, <2>2
    <3>3. id = other
      BY <1>5, <1>10, <3>1, <3>2
    <3> QED
      BY <3>1, <3>2, <3>3
  <2> QED
    BY <2>1, <2>2
<1> QED
  BY <1>7, <1>8, <1>9, <1>10 DEF HoldsRecords

(***************************************************************************)
(* The package that a merge returns.                                       *)
(***************************************************************************)

\* Its header: the numbers are new, the rest is as it was.
HasMergedHeader(h) ==
  LET d == destination.header IN
  /\ DOMAIN h = DOMAIN d
  /\ h.next = next /\ h.count = Cardinality(DOMAIN records)
  /\ h.owned = Cardinality({id \in DOMAIN records : Owns(destination, id)})
  /\ h.class = d.class /\ h.text = d.text /\ h.dependencies = d.dependencies
  /\ h.incompatibilities = d.incompatibilities /\ h.streaming = d.streaming
  /\ h.offsets = d.offsets

LEMMA MergedHeaderIs ==
  ASSUME NEW w, AtEnd(w), TakesOver(w)
  PROVE  HasMergedHeader(MergedHeader) /\ IsHeader(MergedHeader) /\ IsFiniteSet(DOMAIN records)
<1> DEFINE d == destination.header
           h == MergedHeader
<1>1. IsHeader(d) /\ IsIndexed(destination)
  BY DestinationIsPackage, PackageIsIndexed DEF AtEnd, IsPackage, WellFormed
<1>2. DOMAIN d = {"class", "next", "count", "owned", "text", "dependencies",
                  "incompatibilities", "streaming", "offsets"}
  BY <1>1 DEF IsHeader, NewHeader
<1>3. HasMergedHeader(h)
  BY <1>2 DEF HasMergedHeader, MergedHeader
<1>4. DOMAIN records = (Ids(destination) \ Operated) \cup Targets /\ Targets \subseteq Operated
  BY RecordsAreStamped DEF AreStamped
<1>5. IsFiniteSet(DOMAIN records)
  <2>1. IsFiniteSet(Operated) /\ IsFiniteSet(Ids(destination))
    BY <1>1, NoRecordTwice DEF AtEnd, IsIndexed
  <2>2. IsFiniteSet(Ids(destination) \cup Operated)
    BY <2>1, FS_Union
  <2>3. DOMAIN records \subseteq Ids(destination) \cup Operated
    BY <1>4
  <2> QED
    BY <2>2, <2>3, FS_Subset
<1>6. h.count \in Nat /\ h.owned \in Nat
  <2> DEFINE own == {id \in DOMAIN records : Owns(destination, id)}
  <2>1. own \subseteq DOMAIN records
    OBVIOUS
  <2> HIDE DEF own
  <2>2. Cardinality(DOMAIN records) \in Nat /\ Cardinality(own) \in Nat
    BY <1>5, <2>1, FS_Subset, FS_CardinalityType
  <2>3. h.count = Cardinality(DOMAIN records) /\ h.owned = Cardinality(own)
    BY <1>3 DEF HasMergedHeader, own
  <2> QED
    BY <2>2, <2>3
<1>7. h.next \in Nat
  <2>1. next = d.next + Cardinality(ToInject) /\ InjectsNextIds
    BY InjectedAreNext DEF AtEnd, IsPrepared
  <2>2. Cardinality(ToInject) \in Nat /\ d.next \in Nat
    BY <1>1, <2>1 DEF InjectsNextIds, IsHeader
  <2>3. h.next = next
    BY <1>3 DEF HasMergedHeader
  <2> HIDE DEF d, h
  <2> QED
    BY <2>1, <2>2, <2>3
<1>8. IsHeader(h)
  <2>1. h = [field \in DOMAIN NewHeader |-> h[field]]
    BY <1>2 DEF MergedHeader, NewHeader
  <2> HIDE DEF h
  <2> QED
    BY <1>1, <1>3, <1>6, <1>7, <2>1 DEF IsHeader, HasMergedHeader
<1> HIDE DEF h
<1> QED
  BY <1>3, <1>5, <1>8 DEF h

\* The result has the tree and the records.
IsResult(c, s) ==
  /\ result.header = MergedHeader /\ HasMergedHeader(result.header)
  /\ WellFormed(result) /\ Scans(result) /\ HasTree(result, MergedTree)
  /\ IsFiniteSet(DOMAIN records) /\ Ids(result) = DOMAIN records
  /\ IsIndexed(result) /\ Cardinality(Ids(result)) = Cardinality(Records(result))
  /\ \A id \in DOMAIN records : result.chunks[IndexOf(result, id)] = Stamped[id]
  /\ \A id \in Ids(destination) \ Operated :
       IndexOf(result, id) = c[IndexOf(destination, id)]
  /\ \A id \in DOMAIN actions : IndexOf(result, actions[id]) = s[IndexOf(source, id)]

LEMMA ResultIsMade ==
  ASSUME NEW w, AtEnd(w), TakesOver(w), NEW c, NEW s, Composes(c, s)
  PROVE  IsResult(c, s)
<1> DEFINE M == MergedTree
           h == MergedHeader
<1>1. HoldsRecords(c, s) /\ AreStamped(w)
  BY RecordsAreHeld, RecordsAreStamped
<1>2. IsTree(M) /\ HasMergedHeader(h) /\ IsHeader(h) /\ IsFiniteSet(DOMAIN records)
  BY MergedHeaderIs DEF Composes
<1>3. result = [header |-> h, chunks |-> EncodeTree(M, Stamped)]
  BY DEF AtEnd, MergedPackage, Stamped
<1>4. /\ \A i \in 1 .. Len(M) : M[i].kind = "record" => M[i].id \in DOMAIN records
      /\ \A id \in DOMAIN records : \E i \in 1 .. Len(M) : M[i].kind = "record" /\ M[i].id = id
  <2>1. DOMAIN records = (Ids(destination) \ Operated) \cup {actions[id] : id \in DOMAIN actions}
    BY <1>1 DEF AreStamped, Targets
  <2> HIDE DEF M
  <2> QED
    BY <1>1, <2>1 DEF HoldsRecords, M
<1>5. HasRecords(M, Stamped)
  BY <1>1, <1>4 DEF HasRecords, AreStamped
<1>6. EncodeTree(M, Stamped) = [i \in DOMAIN M |-> EncodeTree(M, Stamped)[i]]
  BY DEF EncodeTree
<1> HIDE DEF M, h
<1>7. /\ IsChunked(result) /\ Scans(result) /\ HasTree(result, M)
      /\ \A i \in 1 .. Len(M) : M[i].kind = "record" => result.chunks[i] = Stamped[M[i].id]
  BY <1>2, <1>3, <1>5, EncodesTheTree
<1>8. Len(M) = Len(result.chunks) /\ DOMAIN M = 1 .. Len(M) /\ Len(M) \in Nat
  BY <1>2, <1>7 DEF HasTree, IsTree, HasDepths
<1>9. WellFormed(result)
  <2> DEFINE chunks == result.chunks
             X == {chunks[i] : i \in 1 .. Len(M)}
  <2>1. chunks = [i \in 1 .. Len(M) |-> chunks[i]]
    BY <1>3, <1>6, <1>8
  <2>2. chunks \in [1 .. Len(M) -> X]
    BY <2>1
  <2> HIDE DEF chunks, X
  <2>3. chunks \in Seq(X)
    BY <1>8, <2>2
  <2>4. IsSequence(chunks)
    BY <2>3, SequencesOf
  <2>5. DOMAIN result = {"header", "chunks"}
    BY <1>3
  <2> QED
    BY <1>7, <2>4, <2>5 DEF WellFormed, IsChunked, chunks
<1>10. \A i : i \in Records(result) <=> i \in 1 .. Len(M) /\ M[i].kind = "record"
  <2>1. \A i : i \in Records(result) <=> i \in 1 .. Len(M) /\ result.chunks[i].kind = "record"
    BY <1>7, <1>8 DEF Records, IsChunked
  <2>2. \A i \in 1 .. Len(M) : M[i].kind = result.chunks[i].kind
    BY <1>7 DEF HasTree
  <2> QED
    BY <2>1, <2>2
<1>11. \A i \in Records(result) :
         /\ result.chunks[i].id = M[i].id /\ M[i].id \in DOMAIN records
         /\ result.chunks[i] = Stamped[M[i].id]
  BY <1>1, <1>4, <1>7, <1>10 DEF AreStamped
<1>12. Ids(result) = DOMAIN records
  <2>1. Ids(result) \subseteq DOMAIN records
    BY <1>11 DEF Ids
  <2>2. DOMAIN records \subseteq Ids(result)
    BY <1>4, <1>10, <1>11 DEF Ids
  <2> QED
    BY <2>1, <2>2
<1>13. \A i, j \in Records(result) : result.chunks[i].id = result.chunks[j].id => i = j
  BY <1>1, <1>10, <1>11 DEF HoldsRecords, M
<1>14. Cardinality(Ids(result)) = Cardinality(Records(result))
  <2> DEFINE f == [i \in Records(result) |-> result.chunks[i].id]
  <2>1. f \in [Records(result) -> Ids(result)]
    BY DEF Ids
  <2>2. \A id \in Ids(result) : \E i \in Records(result) : f[i] = id
    BY DEF Ids
  <2>3. \A i, j \in Records(result) : f[i] = f[j] => i = j
    BY <1>13
  <2> HIDE DEF f
  <2>4. f \in Surjection(Records(result), Ids(result))
    BY <2>1, <2>2 DEF Surjection
  <2>5. f \in Injection(Records(result), Ids(result))
    BY <2>1, <2>3 DEF Injection, IsInjective
  <2>6. f \in Bijection(Records(result), Ids(result))
    BY <2>4, <2>5 DEF Bijection
  <2>7. ExistsBijection(Records(result), Ids(result))
    BY <2>6 DEF ExistsBijection
  <2>8. IsFiniteSet(Records(result))
    <3>1. Records(result) \subseteq 1 .. Len(M)
      BY <1>10
    <3> QED
      BY <1>8, <3>1, PlacesAreFinite, FS_Subset
  <2> QED
    BY <2>7, <2>8, FS_Bijection
<1>15. ASSUME NEW id \in DOMAIN records, NEW i \in 1 .. Len(M), M[i].kind = "record", M[i].id = id
       PROVE  IndexOf(result, id) = i
  <2>1. i \in Records(result) /\ result.chunks[i].id = id
    BY <1>10, <1>11, <1>15
  <2> QED
    BY <1>13, <2>1 DEF IndexOf
<1>16. \A id \in DOMAIN records : result.chunks[IndexOf(result, id)] = Stamped[id]
  BY <1>4, <1>7, <1>15
<1>17. \A id \in Ids(destination) \ Operated :
         IndexOf(result, id) = c[IndexOf(destination, id)]
  <2>1. \A id \in Ids(destination) \ Operated : id \in DOMAIN records
    BY <1>1 DEF AreStamped
  <2> QED
    BY <1>1, <1>15, <2>1 DEF HoldsRecords, M
<1>18. \A id \in DOMAIN actions : IndexOf(result, actions[id]) = s[IndexOf(source, id)]
  <2>1. \A id \in DOMAIN actions : actions[id] \in DOMAIN records
    BY <1>1 DEF AreStamped, Targets
  <2> QED
    BY <1>1, <1>15, <2>1 DEF HoldsRecords, M
<1>19. IsIndexed(result)
  <2>1. IsFiniteSet(Records(result)) /\ IsFiniteSet(Ids(result))
    <3>1. Records(result) \subseteq 1 .. Len(M)
      BY <1>10
    <3> QED
      BY <1>2, <1>8, <1>12, <3>1, PlacesAreFinite, FS_Subset
  <2>2. \A i : i \in Records(result) <=> i \in 1 .. Len(result.chunks) /\ result.chunks[i].kind = "record"
    BY <1>7, <1>8 DEF Records, IsChunked
  <2>3. \A i \in Records(result) : result.chunks[i].id \in Ids(result) /\ IndexOf(result, result.chunks[i].id) = i
    BY <1>10, <1>11, <1>12, <1>15
  <2>4. ASSUME NEW id \in Ids(result)
        PROVE  /\ IndexOf(result, id) \in Records(result)
               /\ result.chunks[IndexOf(result, id)].id = id
               /\ id.index \in Nat /\ id.local \in Nat
    <3>1. PICK i \in 1 .. Len(M) : M[i].kind = "record" /\ M[i].id = id
      BY <1>4, <1>12
    <3>2. IndexOf(result, id) = i /\ i \in Records(result)
      BY <1>10, <1>12, <1>15, <3>1
    <3>3. result.chunks[i].id = id /\ IsRecord(result.chunks[i])
      BY <1>1, <1>11, <1>12, <3>1, <3>2 DEF AreStamped
    <3> QED
      BY <3>2, <3>3 DEF IsRecord
  <2> QED
    BY <2>1, <2>2, <2>3, <2>4 DEF IsIndexed
<1>20. result.header = h
  BY <1>3
<1> QED
  BY <1>2, <1>7, <1>9, <1>12, <1>14, <1>16, <1>17, <1>18, <1>19, <1>20 DEF IsResult, M, h

---------------------------------------------------------------------------
(***************************************************************************)
(* The invariants that the runs check.                                     *)
(***************************************************************************)

\* What is there when a merge has ended.
HasEnded(w, c, s) ==
  /\ AtEnd(w) /\ TakesOver(w) /\ AreStamped(w)
  /\ Composes(c, s) /\ KnowsRecords /\ HoldsRecords(c, s) /\ IsResult(c, s)

LEMMA MergeHasEnded ==
  ASSUME IInv, outcome = "Merged"
  PROVE  \E w, c, s : HasEnded(w, c, s)
<1>1. PICK w : AtEnd(w)
  BY MergedAtEnd
<1>2. TakesOver(w)
  BY <1>1, AllTakenOver
<1>3. PICK c, s : Composes(c, s)
  BY <1>1, <1>2, MergedTreeComposes
<1>4. AreStamped(w) /\ KnowsRecords /\ HoldsRecords(c, s) /\ IsResult(c, s)
  BY <1>1, <1>2, <1>3, RecordsAreStamped, RecordsAreKnown, RecordsAreHeld, ResultIsMade
<1> QED
  BY <1>1, <1>2, <1>3, <1>4 DEF HasEnded

LEMMA ResultOpens ==
  ASSUME IInv
  PROVE  MergedPackageOpens
<1>1. SUFFICES ASSUME outcome = "Merged", destination.header.offsets = {}
               PROVE  Opens(result)
  BY DEF MergedPackageOpens, Merged
<1>2. PICK w, c, s : HasEnded(w, c, s)
  BY <1>1, MergeHasEnded
<1> DEFINE d == destination.header
           h == result.header
<1>3. Decodes(d) /\ IsHeader(d) /\ IsIndexed(destination)
  BY <1>2, DestinationIsPackage, PackageIsIndexed DEF HasEnded, AtEnd, IsPackage, WellFormed, Opens
<1>4. HasMergedHeader(h) /\ h = MergedHeader /\ WellFormed(result)
  BY <1>2 DEF HasEnded, IsResult
<1>5. Decodes(h)
  <2>1. h.next <= MaxLocalId
    <3>1. /\ h.next = d.next + Cardinality(ToInject)
          /\ ToInject = {} \/ d.next + Cardinality(ToInject) <= MaxLocalId
      <4>1. h.next = next /\ next = d.next + Cardinality(ToInject) /\ RequestError = "None"
        BY <1>2, <1>4 DEF HasMergedHeader, HasEnded, AtEnd, IsPrepared
      <4>2. InjectsNextIds
        BY <1>2, <4>1, InjectedAreNext DEF HasEnded, AtEnd
      <4>3. ~ (ToInject # {} /\ d.next + Cardinality(ToInject) > MaxLocalId)
        BY <4>1 DEF RequestError
      <4>4. Cardinality(ToInject) \in Nat /\ d.next \in Nat /\ MaxLocalId \in Nat
        BY <1>3, <4>2, LimitsAssumption DEF InjectsNextIds, IsHeader
      <4> HIDE DEF d, h
      <4> QED
        BY <4>1, <4>3, <4>4
    <3>2. d.next <= MaxLocalId /\ d.next \in Nat
      BY <1>3 DEF Decodes, IsHeader
    <3>3. ToInject = {} => Cardinality(ToInject) = 0
      BY FS_EmptySet
    <3> HIDE DEF d, h
    <3> QED
      BY <3>1, <3>2, <3>3
  <2>2. LoadClassValid(h)
    <3>1. MergeError = "None"
      BY <1>2 DEF HasEnded, AtEnd
    <3>2. LoadClassValid(MergedHeader)
      BY <3>1 DEF MergeError
    <3> QED
      BY <1>4, <3>2
  <2> QED
    BY <1>3, <1>4, <2>1, <2>2 DEF Decodes, HasMergedHeader
<1>6. OffsetsInBounds(result)
  BY <1>1, <1>4 DEF OffsetsInBounds, HasMergedHeader
<1>7. Indexes(result)
  <2>1. /\ Scans(result) /\ Ids(result) = DOMAIN records
        /\ Cardinality(Ids(result)) = Cardinality(Records(result))
    BY <1>2 DEF HasEnded, IsResult
  <2>2. \A id : Owns(destination, id) <=> id.index = OwnedIndex(h)
    BY <1>4 DEF Owns, OwnedIndex, HasMergedHeader
  <2>3. {id \in DOMAIN records : Owns(destination, id)}
          = {id \in DOMAIN records : id.index = OwnedIndex(h)}
    BY <2>2
  <2> QED
    BY <1>4, <2>1, <2>3 DEF Indexes, HasMergedHeader
<1> QED
  BY <1>4, <1>5, <1>6, <1>7 DEF Opens

\* What a merge returns is a package that opens, if the destination has no scene offsets.
THEOREM PackageOpens == Spec => []MergedPackageOpens
<1>1. IInv => MergedPackageOpens
  BY ResultOpens
<1> QED
  BY <1>1, Invariant, PTL

\* What an operation says is what the result has.
LEMMA OperationTells ==
  ASSUME NEW w, NEW c, NEW s, HasEnded(w, c, s), FreshNextId(destination),
         NEW k \in 1 .. Len(pending), NEW op, op = pending[k]
  PROVE  /\ (op.kind = "Add") = (op.id \notin Ids(destination))
         /\ (op.kind = "Delete") = (op.id \notin Ids(result))
         /\ op.kind # "Add" => op.previous = Former(op.id).stamp
         /\ op.kind # "Delete" =>
              /\ op.digest = result.chunks[IndexOf(result, op.id)].subrecords
              /\ result.chunks[IndexOf(result, op.id)].stamp = MergeId
<1>1. PICK r : /\ r = SourceRecords[w[k]] /\ IsOperation(op, r) /\ IsDone(op, r) /\ IsRecord(r)
               /\ op.kind = "Delete" => op.id \in DeletedIds
               /\ op.kind # "Delete" => op.id \in PutIds
  BY DEF HasEnded, TakesOver
<1>2. /\ DOMAIN records = (Ids(destination) \ Operated) \cup Targets
      /\ op.kind # "Delete" => IsPut(op, r)
  BY <1>1 DEF HasEnded, AreStamped
<1>3. /\ Ids(result) = DOMAIN records
      /\ \A id \in DOMAIN records : result.chunks[IndexOf(result, id)] = Stamped[id]
  BY DEF HasEnded, IsResult
<1>4. Operated = DeletedIds \cup PutIds /\ DeletedIds \cap PutIds = {} /\ PutIds = Targets
  BY DEF HasEnded, TakesOver
<1>5. op.kind # "Add" => op.id \in Ids(destination) /\ op.previous = Former(op.id).stamp
  BY <1>1 DEF IsDone
<1>6. ASSUME op.kind = "Add"
      PROVE  op.id \notin Ids(destination)
  <2>1. /\ destination \in Destinations /\ source \in Sources /\ IsPrepared
        /\ TakesPart(r) /\ InDestination(r) /\ op.id = Target(r) /\ IsNew(r)
    BY <1>1, <1>6 DEF HasEnded, AtEnd, IsOperation
  <2>2. IsTarget(r)
    BY <1>1, <2>1, TargetsAreOwn
  <2>3. /\ op.id = RecordId(OwnedIndex(destination.header), op.id.local) /\ op.id.local \in Nat
        /\ destination.header.next <= op.id.local
    BY <2>1, <2>2 DEF IsTarget
  <2>4. Owns(destination, op.id)
    BY <2>3 DEF Owns, RecordId
  <2>5. destination.header.next \in Nat
    BY <2>1, DestinationIsPackage DEF IsPackage, WellFormed, IsHeader
  <2>6. ~ op.id.local < destination.header.next
    BY <2>3, <2>5
  <2> QED
    BY <2>4, <2>6 DEF FreshNextId
<1>7. (op.kind = "Add") <=> (op.id \notin Ids(destination))
  BY <1>5, <1>6
<1>8. (op.kind = "Delete") <=> (op.id \notin Ids(result))
  BY <1>1, <1>2, <1>3, <1>4
<1>9. ASSUME op.kind # "Delete"
      PROVE  /\ op.digest = result.chunks[IndexOf(result, op.id)].subrecords
             /\ result.chunks[IndexOf(result, op.id)].stamp = MergeId
  <2>1. result.chunks[IndexOf(result, op.id)] = LogicalRecord(op.id, FALSE, op.digest, MergeId)
    BY <1>2, <1>3, <1>8, <1>9 DEF IsPut
  <2> QED
    BY <2>1 DEF LogicalRecord
<1> QED
  BY <1>5, <1>7, <1>8, <1>9

LEMMA ChangeSetTells ==
  ASSUME IInv
  PROVE  ChangeSetTellsTheDifference
<1>1. SUFFICES ASSUME outcome = "Merged", FreshNextId(destination)
               PROVE  ChangeSetTellsTheDifference
  BY DEF ChangeSetTellsTheDifference, Merged
<1>2. PICK w, c, s : HasEnded(w, c, s)
  BY <1>1, MergeHasEnded
<1>3. DOMAIN pending = 1 .. Len(pending)
  <2>1. IsSequence(pending)
    BY <1>2 DEF HasEnded, AtEnd
  <2> QED
    BY <2>1, SequencesOf DEF IsSequence
<1>4. ASSUME NEW id \in Ids(destination) \cup Ids(result), id \notin Operated
      PROVE  /\ id \in Ids(destination) \cap Ids(result)
             /\ result.chunks[IndexOf(result, id)] = destination.chunks[IndexOf(destination, id)]
  <2>1. /\ DOMAIN records = (Ids(destination) \ Operated) \cup Targets
        /\ Targets \subseteq Operated
        /\ \A x \in Ids(destination) \ Operated : Stamped[x] = Former(x)
    BY <1>2 DEF HasEnded, AreStamped
  <2>2. /\ Ids(result) = DOMAIN records
        /\ \A x \in DOMAIN records : result.chunks[IndexOf(result, x)] = Stamped[x]
    BY <1>2 DEF HasEnded, IsResult
  <2> QED
    BY <1>4, <2>1, <2>2 DEF Former
<1>5. ASSUME NEW k \in DOMAIN pending
      PROVE  LET op == pending[k] IN
             /\ (op.kind = "Add") = (op.id \notin Ids(destination))
             /\ (op.kind = "Delete") = (op.id \notin Ids(result))
             /\ op.kind # "Add" => op.previous = Former(op.id).stamp
             /\ op.kind # "Delete" =>
                  /\ op.digest = result.chunks[IndexOf(result, op.id)].subrecords
                  /\ result.chunks[IndexOf(result, op.id)].stamp = MergeId
  <2>1. PICK op : op = pending[k]
    OBVIOUS
  <2>2. k \in 1 .. Len(pending)
    BY <1>3
  <2> QED
    BY <1>1, <1>2, <2>1, <2>2, OperationTells
<1> QED
  BY <1>4, <1>5 DEF ChangeSetTellsTheDifference, Former

\* The change set of a merge is the difference between the destination and the result.
THEOREM ChangeSetIsTheDifference == Spec => []ChangeSetTellsTheDifference
<1>1. IInv => ChangeSetTellsTheDifference
  BY ChangeSetTells
<1> QED
  BY <1>1, Invariant, PTL

\* A new record is none that the destination had.
LEMMA NewIsFresh ==
  ASSUME NEW w, AtEnd(w), TakesOver(w), FreshNextId(destination),
         NEW k \in 1 .. Len(pending), IsNew(SourceRecords[w[k]])
  PROVE  /\ pending[k].id \notin Ids(destination)
         /\ ~ SourceRecords[w[k]].deleted /\ pending[k].id \in Targets
<1>1. PICK r, op : /\ r = SourceRecords[w[k]] /\ op = pending[k]
                   /\ IsOperation(op, r) /\ IsDone(op, r) /\ IsRecord(r) /\ IsLogical(r)
                   /\ op.kind # "Delete" => op.id \in PutIds
  BY DEF TakesOver
<1>2. /\ destination \in Destinations /\ source \in Sources /\ IsPrepared
      /\ TakesPart(r) /\ InDestination(r) /\ op.id = Target(r) /\ IsNew(r)
  BY <1>1 DEF AtEnd, IsOperation
<1>3. IsTarget(r)
  BY <1>1, <1>2, TargetsAreOwn
<1>4. /\ op.id = RecordId(OwnedIndex(destination.header), op.id.local) /\ op.id.local \in Nat
      /\ destination.header.next <= op.id.local
  BY <1>2, <1>3 DEF IsTarget
<1>5. Owns(destination, op.id)
  BY <1>4 DEF Owns, RecordId
<1>6. destination.header.next \in Nat
  BY <1>2, DestinationIsPackage DEF IsPackage, WellFormed, IsHeader
<1>7. ~ op.id.local < destination.header.next
  BY <1>4, <1>6
<1>8. op.id \notin Ids(destination)
  BY <1>5, <1>7 DEF FreshNextId
<1>9. op.kind = "Add"
  BY <1>1, <1>8 DEF IsDone
<1>10. ~ r.deleted
  BY <1>1, <1>9 DEF IsOperation
<1>11. op.id \in Targets
  BY <1>1, <1>9 DEF TakesOver
<1> QED
  BY <1>1, <1>8, <1>10, <1>11

\* A translated reference names the same record.
LEMMA MappedNamesTheSame ==
  ASSUME destination \in Destinations, source \in Sources, RequestError = "None",
         NEW from, ~ Owns(source, from), Mappable(from), from.index \in Nat,
         NEW to, to = Mapped(from)
  PROVE  /\ to.local = from.local
         /\ OwnerOf(destination, to, PackageId) = OwnerOf(source, from, SourceId)
<1> DEFINE theirs == source.header.dependencies
           ours == destination.header.dependencies
<1>1. IsSequence(theirs) /\ IsSequence(ours)
  BY DestinationIsPackage, SourceIsPackage DEF IsPackage, WellFormed, IsHeader
<1>2. /\ Len(theirs) \in Nat /\ DOMAIN theirs = 1 .. Len(theirs)
      /\ Len(ours) \in Nat /\ DOMAIN ours = 1 .. Len(ours)
  BY <1>1, SequencesOf DEF IsSequence
<1>3. from.index < Len(theirs)
  BY DEF Mappable
<1>4. PICK i \in 1 .. Len(theirs) : i = from.index + 1
  <2> HIDE DEF theirs
  <2> QED
    BY <1>2, <1>3
<1>5. to = RecordId(DependencyMap[i], from.local)
  BY <1>4 DEF Mapped
<1>6. to.index = DependencyMap[i] /\ to.local = from.local
  BY <1>5 DEF RecordId
<1>7. OwnerOf(source, from, SourceId) = theirs[i]
  BY <1>3, <1>4 DEF OwnerOf
<1>8. CASE theirs[i] = PackageId
  <2>1. to.index = Len(ours)
    BY <1>2, <1>4, <1>6, <1>8 DEF DependencyMap, OwnedIndex
  <2> QED
    BY <1>2, <1>6, <1>7, <1>8, <2>1 DEF OwnerOf
<1>9. CASE theirs[i] # PackageId
  <2>1. to.index = PlaceOf(theirs[i], ours)
    BY <1>2, <1>4, <1>6, <1>9 DEF DependencyMap
  <2>2. ToSet(theirs) \subseteq {PackageId} \cup ToSet(ours)
    BY DEF RequestError
  <2>3. theirs[i] \in ToSet(theirs)
    BY <1>2, <1>4 DEF ToSet
  <2>4. theirs[i] \in ToSet(ours)
    BY <1>9, <2>2, <2>3
  <2>5. \E j \in DOMAIN ours : ours[j] = theirs[i]
    BY <2>4 DEF ToSet
  <2>6. PICK j \in DOMAIN ours : ours[j] = theirs[i] /\ PlaceOf(theirs[i], ours) = j - 1
    BY <2>5 DEF PlaceOf
  <2> HIDE DEF ours, theirs
  <2>7. to.index < Len(ours) /\ to.index + 1 = j
    BY <1>2, <2>1, <2>6
  <2> QED
    BY <1>6, <1>7, <2>6, <2>7 DEF OwnerOf, ours
<1> QED
  BY <1>6, <1>8, <1>9

\* An own record of the source that is named is taken over.
LEMMA OwnIsTakenOver ==
  ASSUME NEW w, AtEnd(w), TakesOver(w), FreshNextId(destination),
         NEW from, Owns(source, from), Mappable(from)
  PROVE  injected[from] \in Targets
<1>1. /\ source \in Sources /\ destination \in Destinations
      /\ RequestError = "None" /\ selected = SelectedRecords /\ injected = InjectedIds
  BY DEF AtEnd, IsPrepared
<1>2. from \in ToInject
  <2>1. from \in DOMAIN injected
    BY DEF Mappable
  <2> QED
    BY <1>1, <2>1, InjectedAreNext DEF InjectsNextIds
<1>3. from \in selected /\ from \in Ids(source)
  <2>1. SelectedRecords \subseteq Ids(source)
    BY <1>1 DEF RequestError
  <2> QED
    BY <1>1, <1>2, <2>1 DEF ToInject
<1>4. PICK l \in 1 .. Len(SourceRecords) : SourceRecords[l].id = from
  BY <1>1, <1>3, SourceIsListed DEF IsListed
<1>5. TakesPart(SourceRecords[l]) /\ IsNew(SourceRecords[l])
  BY <1>3, <1>4 DEF TakesPart, IsNew
<1>6. l \in 1 .. position
  BY <1>4 DEF AtEnd
<1>7. PICK k \in 1 .. Len(pending) : w[k] = l
  BY <1>5, <1>6 DEF AtEnd, Operates
<1>8. pending[k].id = Target(SourceRecords[l])
  BY <1>7 DEF TakesOver, IsOperation
<1>9. Target(SourceRecords[l]) = injected[from]
  BY <1>4, <1>5 DEF Target, Mapped
<1>10. pending[k].id \in Targets
  BY <1>5, <1>7, NewIsFresh
<1> QED
  BY <1>8, <1>9, <1>10

\* A record taken over, and what it brings.
LEMMA ReferencesBrought ==
  ASSUME NEW w, NEW c, NEW s, HasEnded(w, c, s), NEW id \in DOMAIN actions,
         NEW r, r = source.chunks[IndexOf(source, id)],
         NEW now, now = result.chunks[IndexOf(result, actions[id])]
  PROVE  /\ References(now) \subseteq BroughtReferences(r)
         /\ IsLogical(r) /\ Rewritable(r)
         /\ IsNew(r) \/ /\ actions[id] \in Ids(destination) /\ actions[id] = Target(r)
<1>1. PICK k \in 1 .. Len(pending) :
        /\ SourceRecords[w[k]].id = id /\ ~ SourceRecords[w[k]].deleted
        /\ pending[k].id = actions[id] /\ pending[k].kind # "Delete"
  BY DEF HasEnded, TakesOver
<1>2. PICK op, r0 : op = pending[k] /\ r0 = SourceRecords[w[k]]
  OBVIOUS
<1>3. /\ IsOperation(op, r0) /\ IsDone(op, r0) /\ IsLogical(r0)
      /\ r0 = source.chunks[IndexOf(source, r0.id)]
  BY <1>2 DEF HasEnded, TakesOver
<1>4. r0 = r
  BY <1>1, <1>2, <1>3
<1>5. IsPut(op, r)
  BY <1>1, <1>2, <1>4 DEF HasEnded, AreStamped
<1>6. now = Stamped[op.id]
  <2>1. actions[id] \in DOMAIN records
    BY DEF HasEnded, AreStamped, Targets
  <2> QED
    BY <1>1, <1>2, <2>1 DEF HasEnded, IsResult
<1>7. now.subrecords = op.digest /\ AllHold(op.digest, BroughtReferences(r))
  BY <1>5, <1>6 DEF IsPut, LogicalRecord
<1>8. References(now) \subseteq BroughtReferences(r)
  BY <1>7, HeldReferences
<1>9. IsLogical(r) /\ Rewritable(r)
  BY <1>1, <1>2, <1>3, <1>4 DEF IsOperation
<1>10. ASSUME ~ IsNew(r)
       PROVE  actions[id] \in Ids(destination) /\ actions[id] = Target(r)
  <2>1. op.kind # "Add" /\ op.id = Target(r)
    BY <1>1, <1>2, <1>3, <1>4, <1>10 DEF IsOperation
  <2> QED
    BY <1>1, <1>2, <1>3, <2>1 DEF IsDone
<1> QED
  BY <1>8, <1>9, <1>10

\* What a record refers to can be mapped.
LEMMA ReferencesAreMappable ==
  ASSUME NEW r, IsLogical(r), Rewritable(r), NEW from \in References(r)
  PROVE  Mappable(from) /\ from.index \in Nat
<1>1. PICK e \in ToSet(r.subrecords) : e.signature \in ReferenceSignatures /\ from \in ToSet(e.payload)
  BY DEF References
<1>2. {from.index, from.local} \subseteq Nat
  BY <1>1 DEF IsLogical
<1>3. PICK i \in DOMAIN r.subrecords : r.subrecords[i] = e
  BY <1>1 DEF ToSet
<1>4. PICK j \in DOMAIN e.payload : e.payload[j] = from
  BY <1>1 DEF ToSet
<1> QED
  BY <1>1, <1>2, <1>3, <1>4 DEF Rewritable

LEMMA ReferencesNameTheSame ==
  ASSUME IInv
  PROVE  ReferencesNameTheSameRecord
<1> DEFINE same(from, to) ==
             IF Owns(source, from) THEN to = injected[from] /\ to \in Ids(result)
             ELSE /\ to.local = from.local
                  /\ OwnerOf(destination, to, PackageId) = OwnerOf(source, from, SourceId)
           before(id) == IF actions[id] \in Ids(destination) /\ options.rules # ReplaceRecord
                           THEN References(destination.chunks[IndexOf(destination, actions[id])])
                         ELSE {}
           taken(id) == source.chunks[IndexOf(source, id)]
           now(id) == result.chunks[IndexOf(result, actions[id])]
<1>1. SUFFICES ASSUME outcome = "Merged", FreshNextId(destination), NEW id \in DOMAIN actions,
                      NEW to \in References(now(id)) \ before(id)
               PROVE  \E from \in References(taken(id)) : same(from, to)
  BY DEF ReferencesNameTheSameRecord, Merged
<1>2. PICK w, c, s : HasEnded(w, c, s)
  BY <1>1, MergeHasEnded
<1>3. PICK r, n : r = taken(id) /\ n = now(id)
  OBVIOUS
<1>4. /\ References(n) \subseteq BroughtReferences(r)
      /\ IsLogical(r) /\ Rewritable(r)
      /\ IsNew(r) \/ /\ actions[id] \in Ids(destination) /\ actions[id] = Target(r)
  BY <1>1, <1>2, <1>3, ReferencesBrought
<1>5. to \in MappedReferences(r)
  <2>1. to \in BroughtReferences(r) /\ to \notin before(id)
    BY <1>1, <1>3, <1>4
  <2>2. CASE IsNew(r) \/ options.rules = ReplaceRecord
    BY <2>1, <2>2 DEF BroughtReferences
  <2>3. CASE ~ (IsNew(r) \/ options.rules = ReplaceRecord)
    <3>1. before(id) = References(Former(Target(r)))
      BY <1>4, <2>3 DEF Former
    <3> QED
      BY <2>1, <2>3, <3>1 DEF BroughtReferences
  <2> QED
    BY <2>2, <2>3
<1>6. PICK from \in References(r) : to = Mapped(from)
  BY <1>5 DEF MappedReferences
<1>7. Mappable(from) /\ from.index \in Nat
  BY <1>4, ReferencesAreMappable
<1>8. AtEnd(w) /\ TakesOver(w)
  BY <1>2 DEF HasEnded
<1>9. CASE Owns(source, from)
  <2>1. injected[from] \in Targets
    BY <1>1, <1>7, <1>8, <1>9, OwnIsTakenOver
  <2>2. Targets \subseteq Ids(result)
    BY <1>2 DEF HasEnded, AreStamped, IsResult
  <2>3. to = injected[from]
    BY <1>6, <1>9 DEF Mapped
  <2> QED
    BY <1>3, <1>9, <2>1, <2>2, <2>3
<1>10. CASE ~ Owns(source, from)
  <2>1. destination \in Destinations /\ source \in Sources /\ RequestError = "None"
    BY <1>8 DEF AtEnd, IsPrepared
  <2>2. /\ to.local = from.local
        /\ OwnerOf(destination, to, PackageId) = OwnerOf(source, from, SourceId)
    BY <1>6, <1>7, <1>10, <2>1, MappedNamesTheSame
  <2> QED
    BY <1>3, <1>10, <2>2
<1> QED
  BY <1>9, <1>10

\* The references that a merge brings name the records they named.
THEOREM ReferencesAreKept == Spec => []ReferencesNameTheSameRecord
<1>1. IInv => ReferencesNameTheSameRecord
  BY ReferencesNameTheSame
<1> QED
  BY <1>1, Invariant, PTL

\* The parents of a record selected are selected.
LEMMA ParentsAreSelected ==
  ASSUME NEW id \in SelectedRecords, id \in Ids(source), NEW parent \in Parents(id)
  PROVE  parent \in SelectedRecords
<1> DEFINE parents == [x \in Ids(source) |-> Parents(x)]
           known == Chosen \cup Ids(source) \cup UNION {parents[x] : x \in Ids(source)}
           closed(S) == \A x \in S \cap Ids(source) : parents[x] \subseteq S
<1>1. SelectedRecords = {x \in known : \A S \in SUBSET known : Chosen \subseteq S /\ closed(S) => x \in S}
  BY DEF SelectedRecords, WithAncestors
<1>2. parent \in parents[id]
  OBVIOUS
<1>3. parent \in known
  BY <1>2
<1>4. ASSUME NEW S \in SUBSET known, Chosen \subseteq S, closed(S)
      PROVE  parent \in S
  <2>1. id \in S
    BY <1>1, <1>4
  <2> QED
    BY <1>2, <1>4, <2>1
<1> HIDE DEF known, closed
<1> QED
  BY <1>1, <1>3, <1>4

\* A merge that takes overrides takes the records of the groups around a record, too.
LEMMA ParentsAreTakenOver ==
  ASSUME NEW w, AtEnd(w), TakesOver(w), options.includeOverrides,
         NEW id \in DOMAIN actions, NEW parent \in Parents(id)
  PROVE  Mapped(parent) \in Operated
<1>1. /\ source \in Sources /\ destination \in Destinations
      /\ IsPrepared /\ RequestError = "None" /\ selected = SelectedRecords
  BY DEF AtEnd, IsPrepared
<1>2. SelectedRecords \subseteq Ids(source)
  BY <1>1 DEF RequestError
<1>3. PICK j \in 1 .. Len(pending) : SourceRecords[w[j]].id = id
  BY DEF TakesOver
<1>4. id \in SelectedRecords
  BY <1>1, <1>3 DEF TakesOver, IsOperation, TakesPart
<1>5. parent \in selected /\ parent \in Ids(source)
  BY <1>1, <1>2, <1>4, ParentsAreSelected
<1>6. PICK l \in 1 .. Len(SourceRecords) : SourceRecords[l].id = parent
  BY <1>1, <1>5, SourceIsListed DEF IsListed
<1>7. l \in 1 .. position /\ TakesPart(SourceRecords[l])
  BY <1>5, <1>6 DEF AtEnd, TakesPart
<1>8. PICK k \in 1 .. Len(pending) : w[k] = l
  BY <1>7 DEF AtEnd, Operates
<1>9. PICK r : r = SourceRecords[w[k]] /\ IsOperation(pending[k], r) /\ IsRecord(r) /\ r.id = parent
  BY <1>6, <1>8 DEF TakesOver
<1>10. IsTarget(r)
  BY <1>1, <1>9, TargetsAreOwn DEF IsOperation
<1>11. pending[k].id = Mapped(parent)
  BY <1>9, <1>10 DEF IsTarget, IsOperation
<1>12. DOMAIN pending = 1 .. Len(pending)
  BY SequencesOf DEF AtEnd, IsSequence
<1>13. pending[k].id \in Operated
  BY <1>12 DEF Operated
<1> QED
  BY <1>11, <1>13

\* A finite set of numbers that is not empty has a largest.
LEMMA LargestOf ==
  ASSUME NEW S \in SUBSET Nat, IsFiniteSet(S), NEW x \in S
  PROVE  \E y \in S : x <= y /\ \A z \in S : z <= y
<1>1. S \in SUBSET Int
  OBVIOUS
<1> DEFINE n == Cardinality(S)
           a == Ascending(S)
<1>2. /\ n \in Nat /\ a \in [1 .. n -> S]
      /\ \A z \in S : \E i \in 1 .. n : a[i] = z
      /\ \A i, j \in 1 .. n : i < j => a[i] < a[j]
  BY <1>1, AscendingLists
<1> HIDE DEF n, a
<1>3. n \in 1 .. n
  BY <1>2
<1>4. a[n] \in S
  BY <1>2, <1>3
<1>5. \A i \in 1 .. n : a[i] <= a[n]
  <2>1. ASSUME NEW i \in 1 .. n
        PROVE  a[i] <= a[n]
    <3>1. a[i] \in S /\ a[i] \in Nat /\ a[n] \in Nat
      BY <1>2, <1>4
    <3>2. CASE i = n
      BY <3>1, <3>2
    <3>3. CASE i # n
      <4>1. i < n
        BY <1>2, <3>3
      <4>2. a[i] < a[n]
        BY <1>2, <1>3, <4>1
      <4> QED
        BY <3>1, <4>2
    <3> QED
      BY <3>2, <3>3
  <2> QED
    BY <2>1
<1>6. \A z \in S : z <= a[n]
  BY <1>2, <1>5
<1> QED
  BY <1>4, <1>6

\* A package without errors has its own ids below the next one.
LEMMA NoErrorsAreFresh ==
  ASSUME NEW p, IsIndexed(p), p.header.next \in Nat, ~ HasErrors(p)
  PROVE  FreshNextId(p)
<1>1. SUFFICES ASSUME NEW id \in Ids(p), Owns(p, id), ~ id.local < p.header.next
               PROVE  FALSE
  BY DEF FreshNextId
<1> DEFINE S == {x.local : x \in OwnedIds(p)}
<1>2. id \in OwnedIds(p)
  BY <1>1 DEF OwnedIds, Owns
<1>3. S \in SUBSET Nat
  BY DEF IsIndexed, OwnedIds
<1>4. IsFiniteSet(S)
  <2>1. IsFiniteSet(OwnedIds(p))
    <3>1. OwnedIds(p) \subseteq Ids(p) /\ IsFiniteSet(Ids(p))
      BY DEF OwnedIds, IsIndexed
    <3> QED
      BY <3>1, FS_Subset
  <2> DEFINE f == [x \in OwnedIds(p) |-> x.local]
  <2>2. f \in Surjection(OwnedIds(p), S)
    BY DEF Surjection
  <2> HIDE DEF f, S
  <2> QED
    BY <2>1, <2>2, FS_Surjection
<1>5. id.local \in S
  BY <1>2
<1>6. PICK y \in S : id.local <= y /\ \A z \in S : z <= y
  <2> HIDE DEF S
  <2> QED
    BY <1>3, <1>4, <1>5, LargestOf
<1>7. PICK largest \in OwnedIds(p) : largest.local = y
  OBVIOUS
<1>8. \A other \in OwnedIds(p) : other.local <= largest.local
  BY <1>6, <1>7
<1>9. p.header.next <= largest.local
  <2>1. id.local \in Nat /\ largest.local \in Nat
    BY <1>3, <1>5, <1>7
  <2> QED
    BY <1>1, <1>6, <1>7, <2>1
<1>10. Issue("Error", "PCP-NEXT-ID-COLLISION", largest) \in Issues(p)
  BY <1>7, <1>8, <1>9 DEF Issues, NextIdCollisions
<1> QED
  BY <1>10 DEF HasErrors, Issue

\* The ids that the result owns are below its next one.
LEMMA ResultIsFresh ==
  ASSUME NEW w, NEW c, NEW s, HasEnded(w, c, s), FreshNextId(destination)
  PROVE  \A id \in Ids(result) : Owns(destination, id) => id.local < result.header.next
<1> DEFINE d == destination.header
<1>1. /\ destination \in Destinations /\ source \in Sources /\ IsPrepared
      /\ AtEnd(w) /\ TakesOver(w)
  BY DEF HasEnded, AtEnd
<1>2. /\ result.header.next = d.next + Cardinality(ToInject)
      /\ d.next \in Nat /\ Cardinality(ToInject) \in Nat /\ next = result.header.next
  <2>1. InjectsNextIds
    BY <1>1, InjectedAreNext DEF IsPrepared
  <2>2. IsHeader(d)
    BY <1>1, DestinationIsPackage DEF IsPackage, WellFormed
  <2> QED
    BY <1>1, <2>1, <2>2 DEF InjectsNextIds, IsHeader, HasEnded, IsResult, HasMergedHeader, IsPrepared
<1>3. ASSUME NEW id \in Ids(destination), Owns(destination, id)
      PROVE  id.local < result.header.next
  <2>1. id.local \in Nat
    BY <1>1, DestinationIsPackage, PackageIsIndexed DEF IsIndexed
  <2>2. id.local < d.next
    BY <1>3 DEF FreshNextId
  <2> HIDE DEF d
  <2> QED
    BY <1>2, <2>1, <2>2
<1>4. ASSUME NEW id \in Targets, Owns(destination, id), id \notin Ids(destination)
      PROVE  id.local < result.header.next
  <2>1. PICK from \in DOMAIN actions : id = actions[from]
    BY <1>4 DEF Targets
  <2>2. PICK k \in 1 .. Len(pending) : pending[k].id = id /\ pending[k].kind # "Delete"
    BY <1>1, <2>1 DEF TakesOver
  <2>3. PICK r, op : /\ r = SourceRecords[w[k]] /\ op = pending[k]
                     /\ IsOperation(op, r) /\ IsDone(op, r) /\ IsRecord(r)
    BY <1>1 DEF TakesOver
  <2>4. op.kind = "Add" /\ IsNew(r)
    BY <1>4, <2>2, <2>3 DEF IsDone, IsOperation
  <2>5. IsTarget(r) /\ id = Target(r)
    BY <1>1, <2>2, <2>3, TargetsAreOwn DEF IsOperation
  <2> QED
    BY <1>2, <2>4, <2>5 DEF IsTarget
<1>5. Ids(result) = (Ids(destination) \ Operated) \cup Targets
  BY DEF HasEnded, AreStamped, IsResult
<1> QED
  BY <1>3, <1>4, <1>5

\* What is gone from the destination is deleted.
LEMMA GoneIsDeleted ==
  ASSUME NEW w, NEW c, NEW s, HasEnded(w, c, s),
         NEW id \in Ids(destination) \cup Operated, id \notin Ids(result)
  PROVE  \E k \in DOMAIN pending : pending[k].kind = "Delete" /\ pending[k].id = id
<1>1. id \in DeletedIds
  BY DEF HasEnded, AreStamped, IsResult, TakesOver
<1>2. DOMAIN pending = 1 .. Len(pending)
  BY SequencesOf DEF HasEnded, AtEnd, IsSequence
<1> QED
  BY <1>1, <1>2 DEF DeletedIds

\* The groups of a package in its tree.
LEMMA GroupsInTree ==
  ASSUME NEW p, WellFormed(p), NEW t, HasTree(p, t)
  PROVE  \A g : g \in Groups(p) <=> /\ g \in 1 .. Len(t) /\ t[g].kind = "group"
                                    /\ t[g] = GroupEntry(t[g].depth, p.chunks[g].type, p.chunks[g].label)
<1>1. DOMAIN p.chunks = 1 .. Len(p.chunks)
  BY SequencesOf DEF WellFormed, IsSequence
<1>2. Len(t) = Len(p.chunks)
  BY DEF HasTree
<1> QED
  BY <1>1, <1>2 DEF Groups, HasTree

\* The label of a group of the result names a record of the destination, or one taken over.
LEMMA LabelsAreKnown ==
  ASSUME NEW w, NEW c, NEW s, HasEnded(w, c, s), ~ HasErrors(destination),
         options.includeOverrides,
         NEW g \in Groups(result), result.chunks[g].type \in RecordLabelled
  PROVE  result.chunks[g].label \in Ids(destination) \cup Operated
<1> DEFINE D == DestinationTree
           S == SourceTree
           M == MergedTree
<1>1. /\ destination \in Destinations /\ source \in Sources /\ AtEnd(w) /\ TakesOver(w)
      /\ HasTree(destination, D) /\ HasTree(source, S) /\ HasTree(result, M)
      /\ WellFormed(result) /\ Composes(c, s) /\ KnowsRecords
  BY DEF HasEnded, AtEnd, Composes, IsResult
<1>2. WellFormed(destination) /\ WellFormed(source)
  BY <1>1, DestinationIsPackage, SourceIsPackage DEF IsPackage
<1> HIDE DEF D, S, M
<1>3. PICK type, label : type = result.chunks[g].type /\ label = result.chunks[g].label
  OBVIOUS
<1>4. /\ g \in 1 .. Len(M) /\ M[g].kind = "group" /\ M[g] = GroupEntry(M[g].depth, type, label)
  BY <1>1, <1>3, GroupsInTree
<1>5. M[g].type = type /\ M[g].label = label
  BY <1>4 DEF GroupEntry
<1>6. ASSUME NEW x \in Rest, c[x] = g
      PROVE  label \in Ids(destination)
  <2>1. x \in 1 .. Len(D) /\ D[x] = M[g]
    BY <1>1, <1>6 DEF Composes, D, M
  <2>2. D[x] = GroupEntry(D[x].depth, destination.chunks[x].type, destination.chunks[x].label)
    BY <1>1, <1>4, <2>1 DEF HasTree
  <2>3. destination.chunks[x].type = type /\ destination.chunks[x].label = label
    BY <1>5, <2>1, <2>2 DEF GroupEntry
  <2>4. x \in Groups(destination)
    BY <1>1, <1>2, <1>4, <2>1, <2>2, GroupsInTree
  <2>5. label \notin Ids(destination)
          => Issue("Error", "PCP-ORPHANED-RECORD-PATH", label) \in Issues(destination)
    BY <1>3, <2>3, <2>4 DEF Issues, OrphanedPaths
  <2> QED
    BY <2>5 DEF HasErrors, Issue
<1>7. ASSUME NEW x \in Added, s[x] = g
      PROVE  label \in Operated
  <2>1. x \in 1 .. Len(S) /\ M[g] = Translated(S[x]) /\ IsTree(S)
    BY <1>1, <1>7 DEF Composes, S, M, HasTree
  <2>2. S[x].kind = "group"
    BY <1>4, <2>1 DEF Translated, RecordEntry, IsTree, HasDepths
  <2>3. M[g] = GroupEntry(S[x].depth, S[x].type, IF LabelIsRecordId(S[x].type) THEN Mapped(S[x].label) ELSE S[x].label)
    BY <2>1, <2>2 DEF Translated
  <2>4. type = S[x].type /\ LabelIsRecordId(type)
    BY <1>3, <1>5, <2>3 DEF GroupEntry, LabelIsRecordId
  <2>5. label = Mapped(S[x].label)
    BY <1>5, <2>3, <2>4 DEF GroupEntry
  <2>6. S[x] = GroupEntry(S[x].depth, source.chunks[x].type, source.chunks[x].label)
    BY <1>1, <2>1, <2>2 DEF HasTree
  <2>7. S[x].type = source.chunks[x].type /\ S[x].label = source.chunks[x].label
    BY <2>6 DEF GroupEntry
  <2>8. x \in Filled(S)
    BY <1>7, <2>2 DEF Added, Taken, S
  <2>9. PICK i \in Taken(S) : x \in Around(S, i)
    BY <2>1, <2>8, FilledAround
  <2>10. DOMAIN S = 1 .. Len(S)
    BY <2>1 DEF IsTree, HasDepths
  <2>11. /\ i \in Added /\ i \in 1 .. Len(S) /\ S[i].kind = "record" /\ S[i].id \in DOMAIN actions
    BY <2>9, <2>10 DEF Taken, Added, S
  <2>12. IndexOf(source, S[i].id) = i
    BY <1>1, <2>11 DEF KnowsRecords, S
  <2>13. x \in Ancestors(source, IndexOf(source, S[i].id))
    BY <1>1, <2>9, <2>11, <2>12 DEF HasTree
  <2>14. S[x].label \in Parents(S[i].id)
    BY <2>4, <2>7, <2>13 DEF Parents
  <2> QED
    BY <1>1, <2>5, <2>11, <2>14, ParentsAreTakenOver
<1>8. (\E x \in Rest : c[x] = g) \/ \E x \in Added : s[x] = g
  BY <1>1, <1>4 DEF Composes, M
<1> QED
  BY <1>3, <1>6, <1>7, <1>8

LEMMA NoIssuesBrought ==
  ASSUME IInv
  PROVE  MergeBringsNoIssues
<1>1. SUFFICES ASSUME outcome = "Merged", ~ HasErrors(destination), options.includeOverrides,
                      NEW issue \in Issues(result) \ Issues(destination)
               PROVE  \E i \in DOMAIN pending :
                        pending[i].kind = "Delete" /\ pending[i].id = issue.id
  BY DEF MergeBringsNoIssues, Merged
<1>2. PICK w, c, s : HasEnded(w, c, s)
  BY <1>1, MergeHasEnded
<1>3. FreshNextId(destination)
  <2>1. destination \in Destinations
    BY <1>2 DEF HasEnded, AtEnd
  <2>2. IsIndexed(destination) /\ destination.header.next \in Nat
    BY <2>1, DestinationIsPackage, PackageIsIndexed DEF IsPackage, WellFormed, IsHeader
  <2> QED
    BY <1>1, <2>2, NoErrorsAreFresh
<1>4. HasMergedHeader(result.header) /\ IsIndexed(result)
  BY <1>2 DEF HasEnded, IsResult
<1>5. issue \notin NextIdCollisions(result)
  <2>1. SUFFICES ASSUME NEW id \in OwnedIds(result), result.header.next <= id.local
                 PROVE  FALSE
    BY DEF NextIdCollisions
  <2>2. id \in Ids(result) /\ Owns(destination, id)
    BY <1>4, <2>1 DEF OwnedIds, Owns, OwnedIndex, HasMergedHeader
  <2>3. id.local < result.header.next
    BY <1>2, <1>3, <2>2, ResultIsFresh
  <2>4. id.local \in Nat /\ result.header.next \in Nat
    BY <1>2, <1>4, <2>2 DEF IsIndexed, HasEnded, IsResult, WellFormed, IsHeader
  <2> QED
    BY <2>1, <2>3, <2>4
<1>6. CASE issue \in MissingStreamingOverrides(result)
  <2>1. PICK id : /\ issue = Issue("Warning", "PCP-STREAMING-OVERRIDE-MISSING", id)
                  /\ \E i \in DOMAIN result.header.streaming : result.header.streaming[i] = id
                  /\ id \notin Ids(result)
    BY <1>6 DEF MissingStreamingOverrides
  <2>2. id \in Ids(destination)
    <3>1. result.header.streaming = destination.header.streaming
      BY <1>4 DEF HasMergedHeader
    <3>2. issue \notin MissingStreamingOverrides(destination)
      BY <1>1 DEF Issues
    <3> QED
      BY <2>1, <3>1, <3>2 DEF MissingStreamingOverrides
  <2>3. issue.id = id
    BY <2>1 DEF Issue
  <2> QED
    BY <1>2, <2>1, <2>2, <2>3, GoneIsDeleted
<1>7. CASE issue \in OrphanedPaths(result)
  <2>1. PICK g \in Groups(result) :
          /\ result.chunks[g].type \in RecordLabelled
          /\ issue = Issue("Error", "PCP-ORPHANED-RECORD-PATH", result.chunks[g].label)
          /\ result.chunks[g].label \notin Ids(result)
    BY <1>7 DEF OrphanedPaths
  <2>2. result.chunks[g].label \in Ids(destination) \cup Operated
    BY <1>1, <1>2, <2>1, LabelsAreKnown
  <2>3. issue.id = result.chunks[g].label
    BY <2>1 DEF Issue
  <2> QED
    BY <1>2, <2>1, <2>2, <2>3, GoneIsDeleted
<1> QED
  BY <1>1, <1>5, <1>6, <1>7 DEF Issues

\* A merge that takes overrides brings no error and no warning but those of a deletion.
THEOREM BringsNoIssues == Spec => []MergeBringsNoIssues
<1>1. IInv => MergeBringsNoIssues
  BY NoIssuesBrought
<1> QED
  BY <1>1, Invariant, PTL

\* The groups around a place of a package are those around its entry.
LEMMA PathsAreRead ==
  ASSUME NEW p, NEW t, HasTree(p, t), NEW id, NEW i \in 1 .. Len(t), IndexOf(p, id) = i
  PROVE  PathIn(p, id) = PathOf(t, i)
BY PathIsRead DEF PathIn

\* A record taken over is within the groups it was in, translated.
LEMMA TakenOverPath ==
  ASSUME NEW w, NEW c, NEW s, HasEnded(w, c, s), NEW id \in DOMAIN actions
  PROVE  PathIn(result, actions[id]) = TranslatedPath(id)
<1> DEFINE S == SourceTree
           M == MergedTree
<1>1. /\ HasTree(source, S) /\ HasTree(result, M) /\ IsTree(S) /\ IsTree(M)
      /\ Composes(c, s) /\ KnowsRecords
  BY DEF HasEnded, Composes, IsResult, HasTree
<1>2. PICK x : x = IndexOf(source, id)
  OBVIOUS
<1>3. x \in Added /\ x \in 1 .. Len(S)
  BY <1>1, <1>2 DEF KnowsRecords, Composes
<1>4. PICK j : j = s[x]
  OBVIOUS
<1>5. /\ j \in 1 .. Len(M) /\ M[j] = Translated(S[x])
      /\ \A g \in Around(S, x) : g \in Added /\ s[g] \in Around(M, j)
  BY <1>1, <1>3, <1>4 DEF Composes
<1>6. IndexOf(result, actions[id]) = j
  BY <1>2, <1>4 DEF HasEnded, IsResult
<1>7. \A g \in Added : M[s[g]] = Translated(S[g])
  BY <1>1 DEF Composes
<1> HIDE DEF S, M
<1>8. \A e : Translated(e).depth = e.depth
  BY DEF Translated, RecordEntry, GroupEntry
<1>9. S[x].depth = M[j].depth
  BY <1>5, <1>8
<1>10. \A g \in Around(S, x) : s[g] \in Around(M, j) /\ M[s[g]].depth = S[g].depth
  BY <1>5, <1>7, <1>8
<1>11. \A k \in 1 .. S[x].depth : AncestorAt(M, j, k - 1) = s[AncestorAt(S, x, k - 1)]
  <2>1. IsTree(S) /\ IsTree(M)
    BY <1>1
  <2>2. x \in 1 .. Len(S) /\ j \in 1 .. Len(M)
    BY <1>3, <1>5
  <2> QED
    BY <1>9, <1>10, <2>1, <2>2, SameAncestors
<1>12. PathIn(result, actions[id]) = PathOf(M, j) /\ PathIn(source, id) = PathOf(S, x)
  BY <1>1, <1>2, <1>3, <1>5, <1>6, PathsAreRead
<1>13. ASSUME NEW k \in 1 .. S[x].depth
       PROVE  PathOf(M, j)[k] = IF LabelIsRecordId(PathOf(S, x)[k][1])
                                  THEN <<PathOf(S, x)[k][1], Mapped(PathOf(S, x)[k][2])>>
                                ELSE PathOf(S, x)[k]
  <2>1. PICK a : a = AncestorAt(S, x, k - 1)
    OBVIOUS
  <2>2. a \in Around(S, x)
    BY <1>1, <1>3, <2>1, AncestorAtDepth
  <2>3. S[a].kind = "group" /\ a \in Added
    BY <1>1, <1>3, <1>5, <2>2 DEF IsTree
  <2>4. M[s[a]] = GroupEntry(S[a].depth, S[a].type,
                             IF LabelIsRecordId(S[a].type) THEN Mapped(S[a].label) ELSE S[a].label)
    BY <1>7, <2>3 DEF Translated
  <2>5. /\ M[s[a]].type = S[a].type
        /\ M[s[a]].label = IF LabelIsRecordId(S[a].type) THEN Mapped(S[a].label) ELSE S[a].label
    BY <2>4 DEF GroupEntry
  <2>6. PathOf(M, j)[k] = <<M[s[a]].type, M[s[a]].label>>
    BY <1>9, <1>11, <2>1 DEF PathOf
  <2>7. PathOf(S, x)[k] = <<S[a].type, S[a].label>>
    BY <2>1 DEF PathOf
  <2>8. CASE LabelIsRecordId(S[a].type)
    BY <2>5, <2>6, <2>7, <2>8
  <2>9. CASE ~ LabelIsRecordId(S[a].type)
    BY <2>5, <2>6, <2>7, <2>9
  <2> QED
    BY <2>8, <2>9
<1>14. DOMAIN PathOf(S, x) = 1 .. S[x].depth
  BY DEF PathOf
<1>15. PathOf(M, j) = [k \in 1 .. S[x].depth |-> PathOf(M, j)[k]]
  BY <1>9 DEF PathOf
<1>16. TranslatedPath(id) =
         [k \in 1 .. S[x].depth |->
            IF LabelIsRecordId(PathOf(S, x)[k][1])
              THEN <<PathOf(S, x)[k][1], Mapped(PathOf(S, x)[k][2])>>
            ELSE PathOf(S, x)[k]]
  BY <1>12, <1>14 DEF TranslatedPath
<1> QED
  BY <1>12, <1>13, <1>15, <1>16

LEMMA TakenOverInPlace ==
  ASSUME IInv
  PROVE  TakenOverWithItsPlace
<1>1. SUFFICES ASSUME outcome = "Merged", NEW id \in DOMAIN actions
               PROVE  /\ PathIn(result, actions[id]) = TranslatedPath(id)
                      /\ options.includeOverrides =>
                           \A parent \in Parents(id) : Mapped(parent) \in Ids(result) \cup Operated
  BY DEF TakenOverWithItsPlace, Merged
<1>2. PICK w, c, s : HasEnded(w, c, s)
  BY <1>1, MergeHasEnded
<1>3. PathIn(result, actions[id]) = TranslatedPath(id)
  BY <1>1, <1>2, TakenOverPath
<1>4. AtEnd(w) /\ TakesOver(w)
  BY <1>2 DEF HasEnded
<1> QED
  BY <1>1, <1>3, <1>4, ParentsAreTakenOver

\* The records of p that a merge leaves, with the groups around them, and all groups.
KeptPlaces(p) == {i \in Records(p) : p.chunks[i].id \in Ids(destination) \ Touched}
RestOf(p) ==
  LET these == Restricted(p.chunks, KeptPlaces(p))
  IN [i \in DOMAIN these |-> <<these[i], PathIn(p, these[i].id)>>]
GroupsOf(p) ==
  {Append(GroupsAround(p, g), <<p.chunks[g].type, p.chunks[g].label>>) : g \in Groups(p)}

\* What no operation names of the records the destination had is what stays.
LEMMA TouchedAreOperated ==
  ASSUME NEW w, NEW c, NEW s, HasEnded(w, c, s), FreshNextId(destination)
  PROVE  Ids(destination) \ Touched = Ids(destination) \ Operated
<1>1. DOMAIN pending = 1 .. Len(pending)
  BY SequencesOf DEF HasEnded, AtEnd, IsSequence
<1>2. Touched \subseteq Operated
  BY DEF Touched, Operated
<1>3. ASSUME NEW id \in Operated, id \notin Touched
      PROVE  id \notin Ids(destination)
  <2>1. PICK k \in 1 .. Len(pending) : pending[k].id = id
    BY <1>1 DEF Operated
  <2>2. pending[k].kind = "Add"
    BY <1>1, <1>3, <2>1 DEF Touched
  <2>3. PICK op : op = pending[k]
    OBVIOUS
  <2>4. (op.kind = "Add") = (op.id \notin Ids(destination))
    BY <2>3, OperationTells
  <2> QED
    BY <2>1, <2>2, <2>3, <2>4
<1> QED
  BY <1>2, <1>3

\* Where an entry that stays is in the result.
LEMMA StaysInPlace ==
  ASSUME NEW w, NEW c, NEW s, HasEnded(w, c, s), NEW x \in Rest
  PROVE  /\ x \in 1 .. Len(DestinationTree) /\ c[x] \in 1 .. Len(MergedTree)
         /\ MergedTree[c[x]] = DestinationTree[x]
         /\ GroupsAround(result, c[x]) = GroupsAround(destination, x)
<1> DEFINE D == DestinationTree
           M == MergedTree
<1>1. /\ HasTree(destination, D) /\ HasTree(result, M) /\ IsTree(D) /\ IsTree(M)
  BY DEF HasEnded, Composes, IsResult, HasTree
<1>2. PICK j : j = c[x]
  OBVIOUS
<1>3. /\ x \in 1 .. Len(D) /\ j \in 1 .. Len(M) /\ M[j] = D[x]
      /\ \A g \in Around(D, x) : g \in Rest /\ c[g] \in Around(M, j)
      /\ \A g \in Rest : M[c[g]] = D[g]
  BY <1>2 DEF HasEnded, Composes
<1> HIDE DEF D, M
<1>4. D[x].depth = M[j].depth /\ \A g \in Around(D, x) : c[g] \in Around(M, j) /\ M[c[g]] = D[g]
  BY <1>3
<1>5. PathOf(D, x) = PathOf(M, j)
  BY <1>1, <1>3, <1>4, SamePath
<1>6. GroupsAround(destination, x) = PathOf(D, x) /\ GroupsAround(result, j) = PathOf(M, j)
  BY <1>1, <1>3, PathIsRead
<1> QED
  BY <1>2, <1>3, <1>5, <1>6 DEF D, M

\* The groups stay.
LEMMA GroupsStay ==
  ASSUME NEW w, NEW c, NEW s, HasEnded(w, c, s)
  PROVE  GroupsOf(destination) \subseteq GroupsOf(result)
<1> DEFINE D == DestinationTree
           M == MergedTree
<1>1. /\ HasTree(destination, D) /\ HasTree(result, M) /\ IsTree(D)
      /\ destination \in Destinations /\ WellFormed(result)
  BY DEF HasEnded, AtEnd, Composes, IsResult, HasTree
<1>2. WellFormed(destination)
  BY <1>1, DestinationIsPackage DEF IsPackage
<1>3. DOMAIN D = 1 .. Len(D)
  BY <1>1 DEF IsTree, HasDepths
<1> HIDE DEF D, M
<1>4. SUFFICES ASSUME NEW g \in Groups(destination)
               PROVE  \E h \in Groups(result) :
                        /\ GroupsAround(result, h) = GroupsAround(destination, g)
                        /\ result.chunks[h].type = destination.chunks[g].type
                        /\ result.chunks[h].label = destination.chunks[g].label
  BY DEF GroupsOf
<1>5. /\ g \in 1 .. Len(D) /\ D[g].kind = "group"
      /\ D[g] = GroupEntry(D[g].depth, destination.chunks[g].type, destination.chunks[g].label)
  BY <1>1, <1>2, <1>4, GroupsInTree
<1>6. g \in Rest
  BY <1>3, <1>5 DEF Rest, LeftBy, D
<1>7. PICK h : h = c[g]
  OBVIOUS
<1>8. h \in 1 .. Len(M) /\ M[h] = D[g] /\ GroupsAround(result, h) = GroupsAround(destination, g)
  BY <1>6, <1>7, StaysInPlace DEF D, M
<1>9. M[h] = GroupEntry(M[h].depth, result.chunks[h].type, result.chunks[h].label)
  BY <1>1, <1>5, <1>8 DEF HasTree
<1>10. h \in Groups(result)
  BY <1>1, <1>5, <1>8, <1>9, GroupsInTree
<1>11. /\ result.chunks[h].type = destination.chunks[g].type
       /\ result.chunks[h].label = destination.chunks[g].label
  BY <1>5, <1>8, <1>9 DEF GroupEntry
<1> QED
  BY <1>8, <1>10, <1>11

\* The records that stay are in the result as they were, in their order.
LEMMA RecordsStay ==
  ASSUME NEW w, NEW c, NEW s, HasEnded(w, c, s), FreshNextId(destination)
  PROVE  RestOf(result) = RestOf(destination)
<1> DEFINE D == DestinationTree
           M == MergedTree
<1>1. /\ destination \in Destinations /\ KnowsRecords /\ HasTree(destination, D)
      /\ HasTree(result, M) /\ IsIndexed(result)
      /\ c \in [Rest -> 1 .. Len(M)] /\ Rest \in SUBSET (1 .. Len(D))
      /\ \A x, y \in Rest : x < y => c[x] < c[y]
  BY DEF HasEnded, AtEnd, Composes, IsResult
<1>2. IsIndexed(destination)
  BY <1>1, DestinationIsPackage, PackageIsIndexed
<1>3. PICK kept : kept = Ids(destination) \ Operated /\ kept = Ids(destination) \ Touched
  BY TouchedAreOperated
<1>4. PICK a, b : a = destination.chunks /\ b = result.chunks
  OBVIOUS
<1>5. PICK P, Q : P = KeptPlaces(destination) /\ Q = KeptPlaces(result)
  OBVIOUS
<1>6. Len(D) \in Nat /\ Len(M) \in Nat
  BY <1>1 DEF HasTree, IsTree, HasDepths
<1> HIDE DEF D, M
<1>7. ASSUME NEW x \in P
      PROVE  /\ x \in Rest /\ c[x] \in Q /\ b[c[x]] = a[x]
             /\ PathIn(result, a[x].id) = PathIn(destination, a[x].id)
  <2>1. PICK id : id = a[x].id
    OBVIOUS
  <2>2. id \in kept /\ IndexOf(destination, id) = x
    BY <1>2, <1>3, <1>4, <1>5, <2>1 DEF KeptPlaces, IsIndexed
  <2>3. x \in Rest
    BY <1>1, <1>3, <2>2 DEF KnowsRecords
  <2>4. IndexOf(result, id) = c[x]
    BY <1>3, <2>2 DEF HasEnded, IsResult
  <2>5. id \in DOMAIN records /\ Stamped[id] = Former(id)
    BY <1>3, <2>2 DEF HasEnded, AreStamped
  <2>6. b[c[x]] = Stamped[id] /\ Former(id) = a[x] /\ id \in Ids(result)
    BY <1>4, <2>2, <2>4, <2>5 DEF HasEnded, IsResult, Former
  <2>7. c[x] \in Records(result)
    BY <1>1, <2>4, <2>6 DEF IsIndexed
  <2>8. c[x] \in Q
    BY <1>3, <1>4, <1>5, <2>1, <2>2, <2>5, <2>6, <2>7 DEF KeptPlaces
  <2>9. GroupsAround(result, c[x]) = GroupsAround(destination, x)
    BY <2>3, StaysInPlace
  <2>10. PathIn(result, id) = PathIn(destination, id)
    BY <2>2, <2>4, <2>9 DEF PathIn
  <2> QED
    BY <2>1, <2>3, <2>5, <2>6, <2>8, <2>10
<1>8. ASSUME NEW y \in Q
      PROVE  \E x \in P : c[x] = y
  <2>1. PICK id : id = b[y].id
    OBVIOUS
  <2>2. id \in kept /\ IndexOf(result, id) = y
    BY <1>1, <1>3, <1>4, <1>5, <2>1 DEF KeptPlaces, IsIndexed
  <2>3. c[IndexOf(destination, id)] = y
    BY <1>3, <2>2 DEF HasEnded, IsResult
  <2>4. IndexOf(destination, id) \in P
    BY <1>2, <1>3, <1>5, <2>2 DEF KeptPlaces, IsIndexed
  <2> QED
    BY <2>3, <2>4
<1>9. P \in SUBSET (1 .. Len(D)) /\ Q \in SUBSET (1 .. Len(M))
  <2>1. P \subseteq Rest
    BY <1>7
  <2>2. Q \subseteq 1 .. Len(M)
    BY <1>1, <1>7, <1>8
  <2> QED
    BY <1>1, <2>1, <2>2
<1>10. /\ Ascending(P) \in [1 .. Cardinality(P) -> P] /\ IsFiniteSet(P)
       /\ DOMAIN Restricted(a, P) = 1 .. Cardinality(P)
       /\ \A k \in 1 .. Cardinality(P) : Restricted(a, P)[k] = a[Ascending(P)[k]]
  <2>1. PICK n : n = Len(D)
    OBVIOUS
  <2>2. n \in Nat
    BY <1>6, <2>1
  <2>3. P \in SUBSET (1 .. n)
    BY <1>9, <2>1
  <2>4. Ascending(P) \in [1 .. Cardinality(P) -> P] /\ IsFiniteSet(P)
    BY <2>2, <2>3, RestrictedTo
  <2> QED
    BY <2>4 DEF Restricted
<1>11. /\ DOMAIN Restricted(b, Q) = 1 .. Cardinality(Q)
       /\ \A k \in 1 .. Cardinality(Q) : Restricted(b, Q)[k] = b[Ascending(Q)[k]]
  BY DEF Restricted
<1>12. /\ Cardinality(Q) = Cardinality(P)
       /\ \A k \in 1 .. Cardinality(P) : Ascending(Q)[k] = c[Ascending(P)[k]]
  <2>1. PICK f : f = [x \in P |-> c[x]]
    OBVIOUS
  <2>2. f \in [P -> Q]
    BY <1>7, <2>1
  <2>3. \A x, y \in P : x < y => f[x] < f[y]
    BY <1>1, <1>7, <2>1
  <2>4. \A y \in Q : \E x \in P : f[x] = y
    BY <1>8, <2>1
  <2>5. P \in SUBSET Int
    BY <1>9
  <2>6. Q \in SUBSET Int
    BY <1>9
  <2>7. IsFiniteSet(P)
    BY <1>10
  <2>8. /\ Cardinality(Q) = Cardinality(P)
        /\ \A k \in 1 .. Cardinality(P) : Ascending(Q)[k] = f[Ascending(P)[k]]
    BY <2>2, <2>3, <2>4, <2>5, <2>6, <2>7, AscendingMoves
  <2> QED
    BY <1>10, <2>1, <2>8
<1>13. ASSUME NEW k \in 1 .. Cardinality(P)
       PROVE  /\ Restricted(b, Q)[k] = Restricted(a, P)[k]
              /\ PathIn(result, Restricted(b, Q)[k].id) = PathIn(destination, Restricted(a, P)[k].id)
  <2>1. PICK x \in P : x = Ascending(P)[k]
    BY <1>10
  <2>2. Restricted(b, Q)[k] = b[c[x]] /\ Restricted(a, P)[k] = a[x]
    BY <1>10, <1>11, <1>12, <2>1
  <2> QED
    BY <1>7, <2>2
<1>14. RestOf(destination) =
         [k \in 1 .. Cardinality(P) |-> <<Restricted(a, P)[k], PathIn(destination, Restricted(a, P)[k].id)>>]
  BY <1>4, <1>5, <1>10 DEF RestOf
<1>15. RestOf(result) =
         [k \in 1 .. Cardinality(P) |-> <<Restricted(b, Q)[k], PathIn(result, Restricted(b, Q)[k].id)>>]
  BY <1>4, <1>5, <1>11, <1>12 DEF RestOf
<1> QED
  BY <1>13, <1>14, <1>15

LEMMA RestStays ==
  ASSUME IInv
  PROVE  RestIsKept
<1>1. SUFFICES ASSUME outcome = "Merged", FreshNextId(destination)
               PROVE  /\ RestOf(result) = RestOf(destination)
                      /\ GroupsOf(destination) \subseteq GroupsOf(result)
  BY DEF RestIsKept, Merged, RestOf, GroupsOf, KeptPlaces
<1>2. PICK w, c, s : HasEnded(w, c, s)
  BY <1>1, MergeHasEnded
<1> QED
  BY <1>1, <1>2, RecordsStay, GroupsStay

\* What a merge takes over is where the source has it.
THEOREM TakenOverKeepsItsPlace == Spec => []TakenOverWithItsPlace
<1>1. IInv => TakenOverWithItsPlace
  BY TakenOverInPlace
<1> QED
  BY <1>1, Invariant, PTL

\* What a merge does not take over stays as it was and where it was.
THEOREM RestStaysAsItIs == Spec => []RestIsKept
<1>1. IInv => RestIsKept
  BY RestStays
<1> QED
  BY <1>1, Invariant, PTL
=============================================================================
