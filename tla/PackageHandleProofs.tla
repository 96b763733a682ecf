------------------------- MODULE PackageHandleProofs -------------------------
(***************************************************************************)
(* Proofs about what is done with a package handle: first which edits it   *)
(* accepts (EditSession), then what a cursor over its package gives        *)
(* (Cursor), for every package and any number of calls.                    *)
(***************************************************************************)
EXTENDS Cursor, EditSessionProofs

(***************************************************************************)
(* Which edits are accepted: what an edit makes of a package that opens    *)
(* opens again.                                                            *)
(***************************************************************************)

\* No edits of an allowed batch in order overlap: what one takes away is a record, and what
\* starts within a record starts where it does, is no insertion behind it, and names it.
LEMMA AllowedIsValid ==
  ASSUME NEW p, Opens(p), NEW mutations, NEW m, IsBatch(mutations, m),
         Allowed(p, mutations), Ordered(p, mutations)
  PROVE  BatchValid(p, mutations)
<1> DEFINE edits == ByteEdits(p, mutations)
           place == BatchPlace(p, mutations)
           loss == BatchLoss(p, mutations)
           n == Len(p.chunks)
<1>1. /\ DOMAIN mutations = 1 .. m
      /\ \A j, k \in 1 .. m : mutations[j].id = mutations[k].id => j = k
      /\ \A j \in 1 .. m : MutationValid(p, mutations[j])
  BY DEF IsBatch, Allowed
<1>2. DOMAIN edits = 1 .. m
  BY <1>1 DEF ByteEdits
<1>3. ASSUME NEW j \in 1 .. m
      PROVE  /\ place[j] \in 1 .. n + 1 /\ loss[j] \in Nat
             /\ edits[j].start = Start(p, place[j])
             /\ edits[j].end = Start(p, place[j]) + loss[j]
             /\ mutations[j].kind = "insert" => loss[j] = 0
             /\ mutations[j].kind # "insert" =>
                  /\ place[j] \in 1 .. n /\ edits[j].end = End(p, place[j])
                  /\ p.chunks[place[j]].kind = "record"
                  /\ p.chunks[place[j]].id = mutations[j].id
  <2>1. MutationValid(p, mutations[j])
    BY <1>1
  <2> QED
    BY <2>1, MutationEdit
<1>4. /\ n \in Nat /\ \A i \in 1 .. n + 1 : Start(p, i) \in Nat
      /\ \A i, j \in 1 .. n + 1 : i < j <=> Start(p, i) < Start(p, j)
  BY ChunksStartInOrder DEF Opens
<1>5. \A i \in 1 .. n : p.chunks[i].kind = "record" => End(p, i) = Start(p, i + 1)
  BY ChunksEnd DEF Opens
<1> HIDE DEF edits, place, loss, n
<1>6. ASSUME NEW j \in 1 .. m, NEW k \in 1 .. m,
             edits[j].start < edits[k].start \/ (edits[j].start = edits[k].start /\ j < k),
             edits[k].start < edits[j].end
      PROVE  FALSE
  <2>1. mutations[j].kind # "insert"
    BY <1>3, <1>4, <1>6
  <2>2. /\ place[j] \in 1 .. n /\ place[j] + 1 \in 1 .. n + 1 /\ place[j] \in 1 .. n + 1
        /\ edits[j].start = Start(p, place[j]) /\ edits[j].end = Start(p, place[j] + 1)
        /\ p.chunks[place[j]].id = mutations[j].id
    BY <1>3, <1>4, <1>5, <2>1
  <2>3. place[k] \in 1 .. n + 1 /\ edits[k].start = Start(p, place[k])
    BY <1>3
  <2>4. place[k] < place[j] + 1
    BY <1>4, <1>6, <2>2, <2>3
  <2>5. Start(p, place[j]) <= Start(p, place[k])
    BY <1>4, <1>6, <2>2, <2>3
  <2>6. place[k] = place[j]
    BY <1>4, <2>2, <2>3, <2>4, <2>5
  <2>7. j < k
    BY <1>4, <1>6, <2>2, <2>3, <2>6
  <2>8. mutations[k].kind # "insert"
    BY <1>1, <2>1, <2>7 DEF Ordered
  <2>9. mutations[k].id = mutations[j].id
    BY <1>3, <2>2, <2>6, <2>8
  <2> QED
    BY <1>1, <2>7, <2>9
<1>7. ~ Overlap(edits)
  BY <1>2, <1>6 DEF Overlap
<1> QED
  BY <1>1, <1>7 DEF BatchValid, edits

(***************************************************************************)
(* The chunks of the new package: records and groups of sizes that are not *)
(* negative.                                                               *)
(***************************************************************************)

\* What is taken away between two places is no more than what there is.
LEMMA TakenFits ==
  ASSUME NEW p, WellFormed(p), NEW edits, NEW ids, NEW m, NEW place, NEW gain, NEW loss,
         EditsAt(p, edits, ids, m, place, gain, loss),
         NEW a \in 1 .. Len(p.chunks) + 1, NEW b \in 1 .. Len(p.chunks) + 1, a <= b
  PROVE  SumOver(m, loss, Between(m, place, a, b)) <= Start(p, b) - Start(p, a)
<1> DEFINE n == Len(p.chunks)
           Taking(x) == SumOver(m, loss, Between(m, place, a, x))
           S == {i \in Int : Taking(a + i - 1) <= Start(p, a + i - 1) - Start(p, a)}
<1>1. /\ n \in Nat /\ \A i \in 1 .. n + 1 : Start(p, i) \in Nat
      /\ \A i \in 1 .. n : /\ Start(p, i + 1) = Start(p, i) + OwnSize(p.chunks[i])
                           /\ OwnSize(p.chunks[i]) \in Nat \ {0}
  BY ChunksStartInOrder
<1>2. /\ m \in Nat /\ place \in [1 .. m -> 1 .. n + 1] /\ loss \in [1 .. m -> Nat]
  BY DEF EditsAt
<1>3. place \in [1 .. m -> Int] /\ loss \in [1 .. m -> Int] /\ a \in Int /\ b \in Int
  BY <1>1, <1>2
<1>4. /\ Taking(a) = 0
      /\ \A x \in Int :
           /\ Taking(x) \in Int
           /\ SumOver(m, loss, At(m, place, x)) \in Int
           /\ a <= x => Taking(x + 1) = Taking(x) + SumOver(m, loss, At(m, place, x))
  BY <1>2, <1>3, SumsBetween
<1>5. \A i \in 1 .. n : SumOver(m, loss, At(m, place, i)) <= OwnSize(p.chunks[i])
  <2> SUFFICES ASSUME NEW i \in 1 .. n
               PROVE  SumOver(m, loss, At(m, place, i)) <= OwnSize(p.chunks[i])
    OBVIOUS
  <2>1. SumOver(m, loss, At(m, place, i))
          = IF Taken(m, place, loss, i) THEN OwnSize(p.chunks[i]) ELSE 0
    BY TakenMeasures
  <2> QED
    BY <1>1, <2>1
<1> HIDE DEF n, Taking
<1>6. 1 \in S
  <2>1. a + 1 - 1 = a /\ Start(p, a) - Start(p, a) = 0
    BY <1>1, <1>3 DEF n
  <2> QED
    BY <1>4, <2>1
<1>7. ASSUME NEW i \in 1 .. b - a, i \in S PROVE i + 1 \in S
  <2> DEFINE x == a + i - 1
  <2>1. /\ x \in 1 .. n /\ x \in 1 .. n + 1 /\ x + 1 \in 1 .. n + 1 /\ a <= x
        /\ a + (i + 1) - 1 = x + 1 /\ x \in Int
    BY <1>1 DEF n
  <2>2. Taking(x) <= Start(p, x) - Start(p, a)
    BY <1>7
  <2> HIDE DEF x
  <2>3. Taking(x + 1) = Taking(x) + SumOver(m, loss, At(m, place, x))
    BY <1>4, <2>1
  <2>4. SumOver(m, loss, At(m, place, x)) <= OwnSize(p.chunks[x])
    BY <1>5, <2>1
  <2>5. Start(p, x + 1) = Start(p, x) + OwnSize(p.chunks[x]) /\ OwnSize(p.chunks[x]) \in Nat
    BY <1>1, <2>1
  <2>6. Start(p, x) \in Nat /\ Start(p, a) \in Nat
    BY <1>1, <2>1 DEF n
  <2>7. Taking(x) \in Int /\ SumOver(m, loss, At(m, place, x)) \in Int
    BY <1>4, <2>1
  <2>8. Taking(x + 1) <= Start(p, x + 1) - Start(p, a)
    BY <2>2, <2>3, <2>4, <2>5, <2>6, <2>7
  <2>9. Taking(a + (i + 1) - 1) <= Start(p, a + (i + 1) - 1) - Start(p, a)
    BY <2>1, <2>8
  <2> QED
    BY <2>9
<1>8. b - a \in Nat /\ b - a + 1 \in 1 .. b - a + 1 /\ a + (b - a + 1) - 1 = b
  BY <1>3
<1> HIDE DEF S
<1>9. b - a + 1 \in S
  BY <1>6, <1>7, <1>8, EveryPlace
<1> QED
  BY <1>8, <1>9 DEF S, Taking

\* So no group becomes smaller than its header.
LEMMA SizesStayPositive ==
  ASSUME NEW p, WellFormed(p), Scans(p), NEW edits, NEW ids, NEW m, NEW place, NEW gain, NEW loss,
         EditsAt(p, edits, ids, m, place, gain, loss), GrowsAround(p, edits, m, place, loss),
         NEW g \in Groups(p)
  PROVE  p.chunks[g].size + GroupDelta(p, edits, g) \in Nat
<1> DEFINE n == Len(p.chunks)
           S == {j \in 1 .. m : g \in Grows(p, edits[j])}
<1>1. /\ n \in Nat /\ DOMAIN p.chunks = 1 .. n
      /\ \A i \in 1 .. n + 1 : Start(p, i) \in Nat
      /\ \A i, j \in 1 .. n + 1 : i < j <=> Start(p, i) < Start(p, j)
  BY ChunksStartInOrder
<1>2. g \in 1 .. n /\ p.chunks[g].kind = "group"
  BY <1>1 DEF Groups
<1>3. /\ p.chunks[g].size \in Nat
      /\ End(p, g) = Start(p, g) + p.chunks[g].size
      /\ Start(p, g + 1) = Start(p, g) + GroupHeaderSize
  BY <1>2, ChunksEnd
<1>4. PICK b \in 1 .. n + 1 : g < b /\ End(p, g) = Start(p, b)
  BY GroupsEndAtStarts
<1>5. m \in Nat /\ gain \in [1 .. m -> Nat] /\ loss \in [1 .. m -> Nat]
      /\ place \in [1 .. m -> 1 .. n + 1]
  BY DEF EditsAt
<1> DEFINE T == Between(m, place, g + 1, b)
<1>6. \A j \in 1 .. m : j \in S /\ loss[j] # 0 => j \in T
  <2> SUFFICES ASSUME NEW j \in 1 .. m, j \in S, loss[j] # 0
               PROVE  j \in T
    OBVIOUS
  <2>1. /\ g < place[j] /\ Start(p, place[j]) <= End(p, g)
        /\ Start(p, place[j]) # End(p, g)
    BY DEF GrowsAround
  <2>2. place[j] \in 1 .. n + 1 /\ Start(p, place[j]) \in Nat /\ Start(p, b) \in Nat
    BY <1>1, <1>4, <1>5
  <2>3. Start(p, place[j]) < Start(p, b)
    BY <1>4, <2>1, <2>2
  <2>4. place[j] < b
    BY <1>1, <1>4, <2>2, <2>3
  <2> QED
    BY <1>2, <2>1, <2>2, <2>4 DEF Between
<1> DEFINE few == [j \in 1 .. m |-> IF j \in S THEN loss[j] ELSE 0]
           all == [j \in 1 .. m |-> IF j \in T THEN loss[j] ELSE 0]
<1>7. SumOver(m, loss, S) <= SumOver(m, loss, T)
  <2>1. few \in [1 .. m -> Int] /\ all \in [1 .. m -> Int] /\ \A j \in 1 .. m : few[j] <= all[j]
    <3> HIDE DEF S, T
    <3> QED
      BY <1>5, <1>6
  <2> HIDE DEF few, all
  <2>2. Total(few) <= Total(all)
    BY <1>5, <2>1, TotalGrows
  <2> QED
    BY <2>2 DEF few, all, SumOver
<1>8. g + 1 \in 1 .. n + 1 /\ g + 1 <= b
  BY <1>1, <1>2, <1>4
<1>9. SumOver(m, loss, T) <= Start(p, b) - Start(p, g + 1)
  BY <1>4, <1>8, TakenFits
<1>10. /\ SumOver(m, gain, S) \in Int /\ SumOver(m, loss, S) \in Int
       /\ SumOver(m, Difference(m, gain, loss), S) = SumOver(m, gain, S) - SumOver(m, loss, S)
  BY <1>5, SumOfTheDifference
<1>11. SumOver(m, gain, S) \in Nat
  BY <1>5, SomeAreFewer
<1>12. SumOver(m, loss, T) \in Nat
  BY <1>5, SomeAreFewer
<1>13. GroupDelta(p, edits, g) = SumOver(m, Difference(m, gain, loss), S)
  BY GroupsGrowBySums
<1> HIDE DEF S, T, n
<1>14. Start(p, g) \in Nat /\ Start(p, b) \in Nat
  BY <1>1, <1>2, <1>4 DEF n
<1> QED
  BY <1>3, <1>4, <1>7, <1>9, <1>10, <1>11, <1>12, <1>13, <1>14 DEF GroupHeaderSize

\* The chunks of a package that is well formed.
Entries(s) == IsSequence(s) /\ \A i \in DOMAIN s : IsRecord(s[i]) \/ IsGroup(s[i])

\* A chunk of another size is the record or the group that it was.
LEMMA EntryResized ==
  ASSUME NEW c, IsGroup(c), NEW delta, c.size + delta \in Nat
  PROVE  IsGroup([c EXCEPT !.size = @ + delta])
BY DEF IsGroup

\* A batch leaves records and groups.
LEMMA RewrittenEntries ==
  ASSUME NEW p, WellFormed(p), Scans(p), NEW edits, NEW ids, NEW m, NEW place, NEW gain, NEW loss,
         EditsAt(p, edits, ids, m, place, gain, loss), GrowsAround(p, edits, m, place, loss),
         \A x \in NewRecords(edits, m) : IsRecord(x)
  PROVE  Entries(Rewritten(p, edits))
<1> DEFINE n == Len(p.chunks)
           ss == SlotChunks(p, edits, m, place, loss)
           Y == ChunksLeft(p, edits, m, place, loss)
           list == Rewritten(p, edits)
           q == [chunks |-> list]
<1>1. n \in Nat /\ DOMAIN p.chunks = 1 .. n
  BY ChunksStartInOrder
<1>2. ss \in [1 .. n + 1 -> Seq(Y)]
  BY SlotLists
<1>3. list = FlattenSeq(ss)
  BY RewrittenInSlots
<1>4. n + 1 \in Nat /\ n + 1 # 0
  BY <1>1
<1>5. list \in Seq(Y)
  <2> HIDE DEF ss, Y, n, list
  <2> QED
    BY <1>2, <1>3, <1>4, Flattened
<1>6. IsSequence(list)
  <2> HIDE DEF Y, list
  <2> QED
    BY <1>5, SequenceOf
<1>7. \A k \in DOMAIN list : list[k] \in Y
  <2> HIDE DEF Y, list
  <2> QED
    BY <1>5
<1>8. ASSUME NEW i \in 1 .. n
      PROVE  IsRecord(Patched(p, edits)[i]) \/ IsGroup(Patched(p, edits)[i])
  <2> DEFINE c == p.chunks[i]
             delta == GroupDelta(p, edits, i)
  <2>1. Patched(p, edits)[i] = IF i \in Groups(p) THEN [c EXCEPT !.size = @ + delta] ELSE c
    BY <1>1 DEF Patched
  <2>2. i \in Groups(p) <=> c.kind = "group"
    BY <1>1 DEF Groups
  <2>3. IsRecord(c) \/ IsGroup(c)
    BY <1>1 DEF WellFormed
  <2>4. i \in Groups(p) => c.size + delta \in Nat
    BY SizesStayPositive
  <2> HIDE DEF c, delta
  <2>5. CASE IsRecord(c)
    <3>1. c.kind # "group"
      BY <2>5 DEF IsRecord
    <3> QED
      BY <2>1, <2>2, <2>5, <3>1
  <2>6. CASE IsGroup(c)
    <3>1. c.kind = "group"
      BY <2>6 DEF IsGroup
    <3>2. IsGroup([c EXCEPT !.size = @ + delta])
      BY <2>2, <2>4, <2>6, <3>1, EntryResized
    <3> QED
      BY <2>1, <2>2, <3>1, <3>2
  <2> QED
    BY <2>3, <2>5, <2>6
<1>9. \A y \in Y : IsRecord(y) \/ IsGroup(y)
  <2>1. \A i \in Untouched(p, m, place, loss) : i \in 1 .. n
    BY DEF Untouched
  <2> QED
    BY <1>8, <2>1 DEF ChunksLeft
<1> QED
  BY <1>6, <1>7, <1>9 DEF Entries

\* So does an edit of one record: resizing the groups around it,
LEMMA ResizedEntries ==
  ASSUME NEW p, WellFormed(p), NEW groups, groups \subseteq Groups(p), NEW delta \in Int,
         \A g \in groups : p.chunks[g].size + delta \in Nat
  PROVE  /\ Len(Resize(p, groups, delta)) = Len(p.chunks)
         /\ DOMAIN Resize(p, groups, delta) = 1 .. Len(p.chunks)
         /\ \A i \in 1 .. Len(p.chunks) :
              IsRecord(Resize(p, groups, delta)[i]) \/ IsGroup(Resize(p, groups, delta)[i])
<1> DEFINE n == Len(p.chunks)
           list == Resize(p, groups, delta)
<1>1. n \in Nat /\ DOMAIN p.chunks = 1 .. n
  BY ChunksStartInOrder
<1>2. DOMAIN list = 1 .. n
  BY <1>1 DEF Resize
<1>3. Len(list) = n
  BY ResizedIsASequence
<1>4. ASSUME NEW i \in 1 .. n
      PROVE  IsRecord(list[i]) \/ IsGroup(list[i])
  <2> DEFINE c == p.chunks[i]
  <2>1. list[i] = IF i \in groups THEN [c EXCEPT !.size = @ + delta] ELSE c
    BY <1>1 DEF Resize
  <2>2. IsRecord(c) \/ IsGroup(c)
    BY <1>1 DEF WellFormed
  <2>3. i \in groups => c.kind = "group" /\ c.size + delta \in Nat
    BY DEF Groups
  <2> HIDE DEF c, list
  <2>4. CASE i \notin groups
    BY <2>1, <2>2, <2>4
  <2>5. CASE i \in groups
    <3>1. IsGroup(c)
      BY <2>2, <2>3, <2>5 DEF IsRecord
    <3>2. IsGroup([c EXCEPT !.size = @ + delta])
      BY <2>3, <2>5, <3>1, EntryResized
    <3> QED
      BY <2>1, <2>5, <3>2
  <2> QED
    BY <2>4, <2>5
<1> QED
  BY <1>2, <1>3, <1>4

\* ... taking out a record ...
LEMMA EntriesWithout ==
  ASSUME NEW S, NEW s \in Seq(S), \A k \in 1 .. Len(s) : IsRecord(s[k]) \/ IsGroup(s[k]),
         NEW i \in 1 .. Len(s)
  PROVE  Entries(RemoveAt(s, i))
<1> DEFINE list == RemoveAt(s, i)
<1>1. /\ list \in Seq(S) /\ Len(list) = Len(s) - 1 /\ Len(s) \in Nat
      /\ \A k \in 1 .. Len(s) - 1 : list[k] = IF k < i THEN s[k] ELSE s[k + 1]
  BY RemovedAt
<1> HIDE DEF list
<1>2. IsSequence(list) /\ DOMAIN list = 1 .. Len(s) - 1
  BY <1>1, SequenceOf
<1>3. ASSUME NEW k \in 1 .. Len(s) - 1 PROVE IsRecord(list[k]) \/ IsGroup(list[k])
  <2>1. k \in 1 .. Len(s) /\ k + 1 \in 1 .. Len(s)
    BY <1>1
  <2> QED
    BY <1>1, <2>1
<1> QED
  BY <1>2, <1>3 DEF Entries, list

\* ... putting one in ...
LEMMA EntriesWith ==
  ASSUME NEW S, NEW s \in Seq(S), \A k \in 1 .. Len(s) : IsRecord(s[k]) \/ IsGroup(s[k]),
         NEW i \in 1 .. Len(s) + 1, NEW e \in S, IsRecord(e)
  PROVE  Entries(InsertAt(s, i, e))
<1> DEFINE list == InsertAt(s, i, e)
<1>1. /\ list \in Seq(S) /\ Len(list) = Len(s) + 1 /\ Len(s) \in Nat
      /\ \A k \in 1 .. Len(s) + 1 :
           list[k] = IF k < i THEN s[k] ELSE IF k = i THEN e ELSE s[k - 1]
  <2>1. Len(s) \in Nat
    OBVIOUS
  <2> HIDE DEF list
  <2>2. /\ InsertAt(s, i, e) \in Seq(S)
        /\ Len(InsertAt(s, i, e)) = Len(s) + 1
        /\ \A k \in 1 .. Len(s) + 1 :
             InsertAt(s, i, e)[k] = IF k < i THEN s[k] ELSE IF k = i THEN e ELSE s[k - 1]
    <3>1. s \in Seq(S) /\ i \in 1 .. Len(s) + 1 /\ e \in S
      OBVIOUS
    <3>2. InsertAt(s, i, e) \in Seq(S)
      BY <3>1, InsertedAt
    <3>3. Len(InsertAt(s, i, e)) = Len(s) + 1
      BY <3>1, InsertedAt
    <3>4. \A k \in 1 .. Len(s) + 1 :
            InsertAt(s, i, e)[k] = IF k < i THEN s[k] ELSE IF k = i THEN e ELSE s[k - 1]
      BY <3>1, InsertedAt
    <3> QED
      BY <3>2, <3>3, <3>4
  <2> QED
    BY <2>1, <2>2 DEF list
<1> HIDE DEF list
<1>2. IsSequence(list) /\ DOMAIN list = 1 .. Len(s) + 1
  BY <1>1, SequenceOf
<1>3. ASSUME NEW k \in 1 .. Len(s) + 1 PROVE IsRecord(list[k]) \/ IsGroup(list[k])
  <2>1. /\ k < i => k \in 1 .. Len(s)
        /\ ~ (k < i) /\ k # i => k - 1 \in 1 .. Len(s)
    BY <1>1
  <2> QED
    BY <1>1, <2>1
<1> QED
  BY <1>2, <1>3 DEF Entries, list

\* ... or exchanging one.
LEMMA EntriesExcept ==
  ASSUME NEW S, NEW s \in Seq(S), \A k \in 1 .. Len(s) : IsRecord(s[k]) \/ IsGroup(s[k]),
         NEW i \in 1 .. Len(s), NEW e \in S, IsRecord(e)
  PROVE  Entries([s EXCEPT ![i] = e])
<1> DEFINE list == [s EXCEPT ![i] = e]
<1>1. /\ list \in Seq(S) /\ DOMAIN list = 1 .. Len(s)
      /\ \A k \in 1 .. Len(s) : list[k] = IF k = i THEN e ELSE s[k]
  OBVIOUS
<1> HIDE DEF list
<1>2. IsSequence(list)
  BY <1>1, SequenceOf
<1> QED
  BY <1>1, <1>2 DEF Entries, list

\* A group that contains a record is longer than it.
LEMMA ContainingGroupsAreLonger ==
  ASSUME NEW p, WellFormed(p), NEW i \in 1 .. Len(p.chunks), p.chunks[i].kind = "record",
         NEW g \in ContainingGroups(p, Start(p, i), End(p, i))
  PROVE  /\ p.chunks[i].payload \in Nat
         /\ p.chunks[g].size \in Nat /\ p.chunks[g].size > RecordSize(p.chunks[i])
<1> DEFINE n == Len(p.chunks)
<1>1. /\ n \in Nat /\ DOMAIN p.chunks = 1 .. n
      /\ \A k \in 1 .. n + 1 : Start(p, k) \in Nat
  BY ChunksStartInOrder
<1>2. /\ g \in Groups(p) /\ Start(p, g) + GroupHeaderSize <= Start(p, i)
      /\ End(p, g) >= End(p, i)
  BY DEF ContainingGroups
<1>3. g \in 1 .. n /\ p.chunks[g].kind = "group"
  BY <1>1, <1>2 DEF Groups
<1>4. p.chunks[g].size \in Nat /\ End(p, g) = Start(p, g) + p.chunks[g].size
  BY <1>3, ChunksEnd
<1>5. p.chunks[i].payload \in Nat
  BY <1>1 DEF WellFormed, IsRecord, IsGroup
<1>6. End(p, i) = Start(p, i) + RecordSize(p.chunks[i]) /\ RecordSize(p.chunks[i]) \in Nat
  BY <1>5 DEF End, Span, RecordSize, RecordHeaderSize
<1>7. Start(p, g) \in Nat /\ Start(p, i) \in Nat
  BY <1>1, <1>3
<1> HIDE DEF n
<1> QED
  BY <1>2, <1>4, <1>5, <1>6, <1>7 DEF GroupHeaderSize

\* The chunks of the calls that edit one record.
LEMMA ReplacedEntries ==
  ASSUME NEW p, Opens(p), NEW id \in Ids(p), NEW payload \in Nat
  PROVE  Entries(Replaced(p, id, payload).chunks)
<1> DEFINE i == IndexOf(p, id)
           grown == ContainingGroups(p, Start(p, i), End(p, i))
           delta == payload - p.chunks[i].payload
           s == Resize(p, grown, delta)
           e == Record(id, payload)
<1>1. WellFormed(p)
  BY DEF Opens
<1>2. i \in 1 .. Len(p.chunks) /\ p.chunks[i].kind = "record" /\ p.chunks[i].id = id
  BY IndexOfARecord
<1>3. p.chunks[i].payload \in Nat /\ {id.index, id.local} \subseteq Nat
  BY <1>1, <1>2, ChunksStartInOrder DEF WellFormed, IsRecord, IsGroup
<1>4. delta \in Int /\ \A g \in grown : p.chunks[g].size + delta \in Nat
  <2>1. delta \in Int
    BY <1>3
  <2>2. ASSUME NEW g \in grown PROVE p.chunks[g].size + delta \in Nat
    <3>1. p.chunks[g].size \in Nat /\ p.chunks[g].size > RecordSize(p.chunks[i])
      BY <1>1, <1>2, ContainingGroupsAreLonger
    <3> QED
      BY <1>3, <3>1 DEF RecordSize, RecordHeaderSize
  <2> QED
    BY <2>1, <2>2
<1>5. grown \subseteq Groups(p)
  BY DEF ContainingGroups
<1>6. IsRecord(e)
  BY <1>3 DEF IsRecord, Record
<1>7. Replaced(p, id, payload).chunks = [s EXCEPT ![i] = e]
  BY <1>1 DEF Replaced, WellFormed
<1> HIDE DEF i, grown, delta, e, s
<1>8. /\ Len(s) = Len(p.chunks)
      /\ \A k \in 1 .. Len(p.chunks) : IsRecord(s[k]) \/ IsGroup(s[k])
  BY <1>1, <1>4, <1>5, ResizedEntries DEF s
<1>9. PICK S : e \in S /\ s \in Seq(S)
  BY <1>1, ResizedIsASequence DEF s
<1> QED
  BY <1>2, <1>6, <1>7, <1>8, <1>9, EntriesExcept

LEMMA RemovedEntries ==
  ASSUME NEW p, Opens(p), NEW id \in Ids(p)
  PROVE  Entries(Removed(p, id).chunks)
<1> DEFINE i == IndexOf(p, id)
           shrunk == ContainingGroups(p, Start(p, i), End(p, i))
           delta == - RecordSize(p.chunks[i])
           s == Resize(p, shrunk, delta)
<1>1. WellFormed(p)
  BY DEF Opens
<1>2. i \in 1 .. Len(p.chunks) /\ p.chunks[i].kind = "record"
  BY IndexOfARecord
<1>3. p.chunks[i].payload \in Nat
  BY <1>1, <1>2, ChunksStartInOrder DEF WellFormed, IsRecord, IsGroup
<1>4. delta \in Int /\ \A g \in shrunk : p.chunks[g].size + delta \in Nat
  <2>1. RecordSize(p.chunks[i]) \in Nat
    BY <1>3 DEF RecordSize, RecordHeaderSize
  <2>2. ASSUME NEW g \in shrunk PROVE p.chunks[g].size + delta \in Nat
    <3>1. p.chunks[g].size \in Nat /\ p.chunks[g].size > RecordSize(p.chunks[i])
      BY <1>1, <1>2, ContainingGroupsAreLonger
    <3> QED
      BY <2>1, <3>1
  <2> QED
    BY <2>1, <2>2
<1>5. shrunk \subseteq Groups(p)
  BY DEF ContainingGroups
<1>6. Removed(p, id).chunks = RemoveAt(s, i)
  BY DEF Removed, Rewrite
<1> HIDE DEF i, shrunk, delta, s
<1>7. /\ Len(s) = Len(p.chunks)
      /\ \A k \in 1 .. Len(p.chunks) : IsRecord(s[k]) \/ IsGroup(s[k])
  BY <1>1, <1>4, <1>5, ResizedEntries DEF s
<1>8. PICK S : s \in Seq(S)
  BY <1>1, ResizedIsASequence DEF s
<1> QED
  BY <1>2, <1>6, <1>7, <1>8, EntriesWithout

LEMMA InsertedEntries ==
  ASSUME NEW p, Opens(p), NEW target, IsTarget(p, target), NEW id,
         {id.index, id.local} \subseteq Nat, NEW payload \in Nat
  PROVE  Entries(Inserted(p, target, id, payload).chunks)
<1> DEFINE to == InsertionPoint(p, target)
           i == CHOOSE k \in 1 .. Len(p.chunks) + 1 : Start(p, k) = to
           grown == ContainingGroups(p, to, to)
           e == Record(id, payload)
           delta == RecordSize(e)
           s == Resize(p, grown, delta)
<1>1. WellFormed(p) /\ Len(p.chunks) \in Nat
  BY ChunksStartInOrder DEF Opens
<1>2. i \in 1 .. Len(p.chunks) + 1
  <2>1. \E k \in 1 .. Len(p.chunks) + 1 : Start(p, k) = to
    BY InsertionPlace
  <2> HIDE DEF to
  <2> QED
    BY <2>1
<1>3. IsRecord(e) /\ e.payload \in Nat
  BY DEF IsRecord, Record
<1>4. grown \subseteq Groups(p)
  BY DEF ContainingGroups
<1>5. delta \in Int /\ \A g \in grown : p.chunks[g].size + delta \in Nat
  <2>1. delta \in Nat
    BY <1>3 DEF RecordSize, RecordHeaderSize
  <2>2. ASSUME NEW g \in grown PROVE p.chunks[g].size \in Nat
    <3>1. g \in Groups(p) /\ g \in 1 .. Len(p.chunks) /\ p.chunks[g].kind = "group"
      BY <1>1, <1>4, ChunksStartInOrder DEF Groups
    <3> QED
      BY <1>1, <3>1, ChunksEnd
  <2> HIDE DEF delta, grown
  <2> QED
    BY <2>1, <2>2
<1>6. Inserted(p, target, id, payload).chunks = InsertAt(s, i, e)
  BY DEF Inserted, Rewrite
<1> HIDE DEF i, grown, delta, e, s
<1>7. /\ Len(s) = Len(p.chunks)
      /\ \A k \in 1 .. Len(p.chunks) : IsRecord(s[k]) \/ IsGroup(s[k])
  BY <1>1, <1>4, <1>5, ResizedEntries DEF s
<1>8. PICK S : e \in S /\ s \in Seq(S)
  BY <1>1, ResizedIsASequence DEF s
<1> QED
  BY <1>2, <1>3, <1>6, <1>7, <1>8, EntriesWith

(***************************************************************************)
(* The readers find every entry of the new package.                        *)
(***************************************************************************)

\* Of groups that end together, the outer ones grow by all that the inner ones grow by.
GrownNest(p, m, place, grown) ==
  \A g, h \in Groups(p) : \A j \in 1 .. m :
    /\ g < h /\ End(p, g) = End(p, h) /\ Start(p, place[j]) = End(p, h)
    /\ h \in grown[j]
    => g \in grown[j]

\* Every group ends where a chunk begins, or with the file, once it has grown by the
\* records in front of which it ended.
EndsAtChunks(p, q, at, m, place, gain, grown) ==
  \A g \in Groups(p) : \A b \in 1 .. Len(p.chunks) + 1 :
    g < b /\ Start(p, b) = End(p, g) =>
      \E y \in 1 .. Len(q.chunks) + 1 :
        Start(q, y) = Start(q, at[b]) + SumOver(m, gain, Ending(m, place, grown, g, b))

\* A group that ends in front of chunk b, in the slot of b of q, where chunk y begins.
GroupKept(p, q, at, kept, m, place, gain, grown, g, b, y) ==
  /\ g \in Groups(p) /\ g \in kept /\ g < b /\ Start(p, b) = End(p, g)
  /\ y \in 1 .. Len(q.chunks) + 1 /\ End(q, at[g + 1] - 1) = Start(q, y)
  /\ End(q, at[g + 1] - 1) = Start(q, at[b]) + SumOver(m, gain, Ending(m, place, grown, g, b))
  /\ Start(q, at[b]) <= End(q, at[g + 1] - 1)
  /\ End(q, at[g + 1] - 1) <= Start(q, InsertedEnd(at, kept, b))

\* Every group of q is such a group.
LEMMA GroupsAreKept ==
  ASSUME NEW p, NEW q, NEW ids, NEW at, NEW kept, NEW m, NEW place, NEW gain, NEW loss, NEW grown,
         IsEdited(p, q, ids, at, kept, m, place, gain, loss, grown),
         EndsAtChunks(p, q, at, m, place, gain, grown),
         NEW k \in Groups(q)
  PROVE  \E g \in 1 .. Len(p.chunks), b \in 1 .. Len(p.chunks) + 1, y \in 1 .. Len(q.chunks) + 1 :
           k = at[g + 1] - 1 /\ GroupKept(p, q, at, kept, m, place, gain, grown, g, b, y)
<1> DEFINE n == Len(p.chunks)
           N == Len(q.chunks)
<1>1. /\ WellFormed(p) /\ Scans(p) /\ WellFormed(q) /\ Settled(p, q, ids, at, kept)
      /\ m \in Nat /\ place \in [1 .. m -> 1 .. n + 1]
      /\ gain \in [1 .. m -> Nat] /\ loss \in [1 .. m -> Nat]
      /\ Measured(p, q, at, kept, m, place, gain, loss)
      /\ Resized(p, q, at, m, place, gain, loss, grown)
  BY DEF IsEdited
<1>2. /\ n \in Nat /\ DOMAIN p.chunks = 1 .. n
      /\ N \in Nat /\ DOMAIN q.chunks = 1 .. N
      /\ \A j \in 1 .. N + 1 : Start(q, j) \in Nat
  BY <1>1, ChunksStartInOrder
<1>3. /\ \A i \in 1 .. n + 2 : at[i] \in 1 .. N + 1
      /\ \A i \in kept : i \in 1 .. n /\ at[i + 1] - 1 \in 1 .. N
      /\ \A x \in 1 .. N : \/ \E i \in kept : x = at[i + 1] - 1
                           \/ q.chunks[x].kind = "record" /\ q.chunks[x].id \in ids
  BY <1>1, SettledPlaces
<1>4. k \in 1 .. N /\ q.chunks[k].kind = "group"
  BY <1>2 DEF Groups
<1>5. PICK g \in kept : k = at[g + 1] - 1
  BY <1>3, <1>4
<1>6. g \in 1 .. n /\ p.chunks[g].kind = "group"
  <2>1. g \in 1 .. n
    BY <1>3
  <2>2. SameEntry(p.chunks[g], q.chunks[at[g + 1] - 1])
    BY <1>1 DEF Settled
  <2> QED
    BY <1>4, <1>5, <2>1, <2>2 DEF SameEntry
<1>7. g \in Groups(p)
  BY <1>2, <1>6 DEF Groups
<1>8. PICK b \in 1 .. n + 1 : EndsIn(p, q, at, m, place, gain, grown, g, b)
  BY <1>1, <1>7, GroupsEnd
<1> DEFINE some == SumOver(m, gain, Ending(m, place, grown, g, b))
           all == SumOver(m, gain, At(m, place, b))
<1>9. some \in Nat /\ all \in Nat /\ some <= all
  <2>1. \A j \in 1 .. m : j \in Ending(m, place, grown, g, b) => j \in At(m, place, b)
    BY DEF Ending, At
  <2> QED
    BY <1>1, <2>1, SomeAreFewer
<1>10. g < b /\ Start(p, b) = End(p, g) /\ End(q, k) = Start(q, at[b]) + some
  BY <1>5, <1>8 DEF EndsIn
<1>11. PICK y \in 1 .. N + 1 : Start(q, y) = Start(q, at[b]) + some
  BY <1>7, <1>10 DEF EndsAtChunks
<1>12. Start(q, InsertedEnd(at, kept, b)) - Start(q, at[b]) = all
  BY <1>1 DEF Measured
<1>13. Start(q, at[b]) \in Nat /\ Start(q, InsertedEnd(at, kept, b)) \in Nat
  <2>1. b \in 1 .. n + 2 /\ b + 1 \in 1 .. n + 2
    BY <1>2
  <2>2. at[b] \in 1 .. N + 1 /\ at[b + 1] \in 1 .. N + 1
    BY <1>3, <2>1
  <2>3. b \in kept => at[b + 1] - 1 \in 1 .. N + 1
    <3>1. b \in kept => at[b + 1] - 1 \in 1 .. N
      BY <1>3
    <3> QED
      BY <1>2, <3>1
  <2>4. InsertedEnd(at, kept, b) \in 1 .. N + 1
    BY <2>2, <2>3 DEF InsertedEnd
  <2> QED
    BY <1>2, <2>2, <2>4
<1>14. Start(q, at[b]) <= End(q, k) /\ End(q, k) <= Start(q, InsertedEnd(at, kept, b))
  <2> HIDE DEF some, all
  <2> QED
    BY <1>9, <1>10, <1>12, <1>13
<1>15. GroupKept(p, q, at, kept, m, place, gain, grown, g, b, y)
  <2>1. End(q, k) = Start(q, y)
    BY <1>10, <1>11
  <2> QED
    BY <1>5, <1>7, <1>10, <1>14, <2>1 DEF GroupKept
<1> QED
  BY <1>5, <1>6, <1>15

\* Where slots begin and end among the chunks of q.
LEMMA SlotsInOrder ==
  ASSUME NEW p, NEW q, NEW ids, NEW at, NEW kept, Settled(p, q, ids, at, kept),
         WellFormed(p), WellFormed(q)
  PROVE  /\ \A i \in 1 .. Len(p.chunks) + 1 :
              /\ at[i] \in 1 .. Len(q.chunks) + 1
              /\ InsertedEnd(at, kept, i) \in 1 .. Len(q.chunks) + 1
              /\ at[i] <= InsertedEnd(at, kept, i)
         /\ \A i, j \in 1 .. Len(p.chunks) + 1 : i < j => InsertedEnd(at, kept, i) <= at[j]
         /\ \A i \in kept : \A j \in 1 .. Len(p.chunks) + 1 :
              /\ i \in 1 .. Len(p.chunks) /\ at[i + 1] - 1 \in 1 .. Len(q.chunks)
              /\ j <= i => InsertedEnd(at, kept, j) <= at[i + 1] - 1
              /\ i < j => at[i + 1] <= at[j]
<1> DEFINE n == Len(p.chunks)
           N == Len(q.chunks)
<1>1. n \in Nat /\ N \in Nat
  BY ChunksStartInOrder
<1>2. /\ \A i, j \in 1 .. n + 2 : i <= j => at[i] <= at[j]
      /\ \A i \in 1 .. n + 2 : at[i] \in 1 .. N + 1
      /\ \A i \in kept : i \in 1 .. n /\ at[i + 1] - 1 \in 1 .. N
  BY SettledPlaces
<1>3. \A i \in kept : at[i] < at[i + 1]
  BY DEF Settled
<1> HIDE DEF n, N
<1>4. ASSUME NEW i \in 1 .. n + 1
      PROVE  /\ i \in 1 .. n + 2 /\ i + 1 \in 1 .. n + 2
             /\ at[i] \in 1 .. N + 1 /\ at[i + 1] \in 1 .. N + 1
             /\ InsertedEnd(at, kept, i) \in 1 .. N + 1
             /\ at[i] <= InsertedEnd(at, kept, i)
             /\ InsertedEnd(at, kept, i) <= at[i + 1]
  <2>1. i \in 1 .. n + 2 /\ i + 1 \in 1 .. n + 2 /\ i <= i + 1
    BY <1>1
  <2>2. at[i] \in 1 .. N + 1 /\ at[i + 1] \in 1 .. N + 1 /\ at[i] <= at[i + 1]
    BY <1>2, <2>1
  <2>3. CASE i \in kept
    <3>1. at[i + 1] - 1 \in 1 .. N /\ at[i] < at[i + 1]
      BY <1>2, <1>3, <2>3
    <3>2. InsertedEnd(at, kept, i) = at[i + 1] - 1
      BY <2>3 DEF InsertedEnd
    <3> QED
      BY <1>1, <2>1, <2>2, <3>1, <3>2
  <2>4. CASE i \notin kept
    BY <2>1, <2>2, <2>4 DEF InsertedEnd
  <2> QED
    BY <2>3, <2>4
<1>5. ASSUME NEW i \in 1 .. n + 1, NEW j \in 1 .. n + 1, i < j
      PROVE  InsertedEnd(at, kept, i) <= at[j] /\ at[i + 1] <= at[j]
  <2>1. i + 1 <= j /\ i + 1 \in 1 .. n + 2 /\ j \in 1 .. n + 2
    BY <1>1, <1>5
  <2>2. at[i + 1] <= at[j] /\ at[j] \in 1 .. N + 1
    BY <1>2, <2>1
  <2>3. at[i + 1] \in 1 .. N + 1 /\ InsertedEnd(at, kept, i) \in 1 .. N + 1
        /\ InsertedEnd(at, kept, i) <= at[i + 1]
    BY <1>4
  <2> QED
    BY <1>1, <2>2, <2>3
<1>6. ASSUME NEW i \in kept, NEW j \in 1 .. n + 1
      PROVE  /\ i \in 1 .. n /\ at[i + 1] - 1 \in 1 .. N
             /\ j <= i => InsertedEnd(at, kept, j) <= at[i + 1] - 1
             /\ i < j => at[i + 1] <= at[j]
  <2>1. i \in 1 .. n /\ at[i + 1] - 1 \in 1 .. N /\ i \in 1 .. n + 1
    BY <1>1, <1>2
  <2>2. i < j => at[i + 1] <= at[j]
    BY <1>5, <2>1
  <2>3. ASSUME j < i PROVE InsertedEnd(at, kept, j) <= at[i + 1] - 1
    <3>1. InsertedEnd(at, kept, j) <= at[i] /\ at[i] < at[i + 1]
      BY <1>3, <1>5, <2>1, <2>3
    <3>2. at[i] \in 1 .. N + 1 /\ at[i + 1] \in 1 .. N + 1 /\ InsertedEnd(at, kept, j) \in 1 .. N + 1
      BY <1>4, <2>1
    <3> QED
      BY <1>1, <3>1, <3>2
  <2>4. j = i => InsertedEnd(at, kept, j) <= at[i + 1] - 1
    BY <1>1, <2>1 DEF InsertedEnd
  <2> QED
    BY <1>1, <2>1, <2>2, <2>3, <2>4
<1> QED
  BY <1>4, <1>5, <1>6 DEF n, N

\* An entry that starts in a group ends in it.
LEMMA EntriesNest ==
  ASSUME NEW p, NEW q, NEW ids, NEW at, NEW kept, NEW m, NEW place, NEW gain, NEW loss, NEW grown,
         IsEdited(p, q, ids, at, kept, m, place, gain, loss, grown),
         GrownNest(p, m, place, grown),
         EndsAtChunks(p, q, at, m, place, gain, grown),
         NEW k \in Groups(q), NEW l \in 1 .. Len(q.chunks),
         Start(q, k) < Start(q, l), Start(q, l) < End(q, k)
  PROVE  End(q, l) <= End(q, k)
<1> DEFINE n == Len(p.chunks)
           N == Len(q.chunks)
<1>1. /\ WellFormed(p) /\ Scans(p) /\ WellFormed(q) /\ Settled(p, q, ids, at, kept)
      /\ m \in Nat /\ gain \in [1 .. m -> Nat]
  BY DEF IsEdited
<1>2. /\ n \in Nat /\ DOMAIN p.chunks = 1 .. n
      /\ \A i \in 1 .. n + 1 : Start(p, i) \in Nat
      /\ \A i, j \in 1 .. n + 1 : i < j <=> Start(p, i) < Start(p, j)
  BY <1>1, ChunksStartInOrder
<1>3. /\ N \in Nat /\ DOMAIN q.chunks = 1 .. N
      /\ \A i \in 1 .. N + 1 : Start(q, i) \in Nat
      /\ \A i, j \in 1 .. N + 1 : i < j <=> Start(q, i) < Start(q, j)
  BY <1>1, ChunksStartInOrder
<1>4. \A i, j \in 1 .. N + 1 : i <= j => Start(q, i) <= Start(q, j)
  <2> HIDE DEF N
  <2> QED
    BY <1>3
<1>5. PICK g \in 1 .. n, b \in 1 .. n + 1, y \in 1 .. N + 1 :
        k = at[g + 1] - 1 /\ GroupKept(p, q, at, kept, m, place, gain, grown, g, b, y)
  BY GroupsAreKept
<1>6. /\ g \in Groups(p) /\ g \in kept /\ g < b /\ Start(p, b) = End(p, g)
      /\ End(q, k) = Start(q, y)
      /\ End(q, k) = Start(q, at[b]) + SumOver(m, gain, Ending(m, place, grown, g, b))
      /\ Start(q, at[b]) <= End(q, k)
      /\ End(q, k) <= Start(q, InsertedEnd(at, kept, b))
  BY <1>5 DEF GroupKept
<1>7. l \in 1 .. N + 1 /\ l + 1 \in 1 .. N + 1
  BY <1>3
<1>8. CASE q.chunks[l].kind = "record"
  <2>1. End(q, l) = Start(q, l + 1)
    BY <1>1, <1>8, ChunksEnd
  <2>2. l < y
    BY <1>3, <1>6, <1>7
  <2>3. Start(q, l + 1) <= Start(q, y)
    BY <1>4, <1>7, <2>2
  <2> QED
    BY <1>6, <2>1, <2>3
<1>9. CASE q.chunks[l].kind # "record"
  <2>1. l \in Groups(q)
    BY <1>1, <1>3, <1>9, ChunksEnd DEF Groups
  <2>2. PICK h \in 1 .. n, c \in 1 .. n + 1, z \in 1 .. N + 1 :
          l = at[h + 1] - 1 /\ GroupKept(p, q, at, kept, m, place, gain, grown, h, c, z)
    BY <2>1, GroupsAreKept
  <2>3. /\ h \in Groups(p) /\ h \in kept /\ h < c /\ Start(p, c) = End(p, h)
        /\ End(q, l) = Start(q, z)
        /\ End(q, l) = Start(q, at[c]) + SumOver(m, gain, Ending(m, place, grown, h, c))
        /\ End(q, l) <= Start(q, InsertedEnd(at, kept, c))
    BY <2>2 DEF GroupKept
  <2>4. k < l
    <3>1. k \in 1 .. N + 1
      BY <1>3 DEF Groups
    <3> QED
      BY <1>3, <1>7, <3>1
  <2>5. g < h
    BY <1>1, <1>5, <1>6, <2>2, <2>3, <2>4, SettledPlaces
  <2>6. h < b
    <3>1. b <= h => InsertedEnd(at, kept, b) <= l
      BY <1>1, <2>2, <2>3, SlotsInOrder
    <3>2. InsertedEnd(at, kept, b) \in 1 .. N + 1
      BY <1>1, SlotsInOrder
    <3>3. b <= h => Start(q, InsertedEnd(at, kept, b)) <= Start(q, l)
      BY <1>4, <1>7, <3>1, <3>2
    <3>4. /\ Start(q, l) \in Nat /\ Start(q, y) \in Nat
          /\ Start(q, InsertedEnd(at, kept, b)) \in Nat
      BY <1>3, <1>7, <3>2
    <3>5. ~ (b <= h)
      BY <1>6, <3>3, <3>4
    <3> QED
      BY <1>2, <3>5
  <2>7. g \in 1 .. n + 1 /\ h \in 1 .. n + 1 /\ h \in DOMAIN p.chunks
    BY <1>2
  <2>8. End(p, h) <= End(p, g)
    <3>1. Start(p, g) < Start(p, h) /\ Start(p, h) < End(p, g)
      BY <1>2, <1>6, <2>5, <2>6, <2>7
    <3> QED
      BY <1>1, <1>6, <2>7, <3>1 DEF Scans, Start, End
  <2>9. c <= b
    BY <1>2, <1>6, <2>3, <2>8
  <2>10. CASE c < b
    <3>1. InsertedEnd(at, kept, c) <= at[b]
      BY <1>1, <2>10, SlotsInOrder
    <3>2. InsertedEnd(at, kept, c) \in 1 .. N + 1 /\ at[b] \in 1 .. N + 1
      BY <1>1, SlotsInOrder
    <3>3. Start(q, InsertedEnd(at, kept, c)) <= Start(q, at[b])
      BY <1>4, <3>1, <3>2
    <3>4. /\ Start(q, InsertedEnd(at, kept, c)) \in Nat /\ Start(q, at[b]) \in Nat
          /\ Start(q, y) \in Nat /\ Start(q, z) \in Nat
      BY <1>3, <3>2
    <3> QED
      BY <1>6, <2>3, <3>3, <3>4
  <2>11. CASE c = b
    <3>1. \A j \in 1 .. m : j \in Ending(m, place, grown, h, c) => j \in Ending(m, place, grown, g, b)
      BY <1>6, <2>3, <2>5, <2>11 DEF Ending, GrownNest
    <3>2. /\ SumOver(m, gain, Ending(m, place, grown, h, c)) \in Nat
          /\ SumOver(m, gain, Ending(m, place, grown, g, b)) \in Nat
          /\ SumOver(m, gain, Ending(m, place, grown, h, c))
               <= SumOver(m, gain, Ending(m, place, grown, g, b))
      BY <1>1, <3>1, SomeAreFewer
    <3>3. Start(q, at[b]) \in Nat
      BY <1>1, <1>3, SlotsInOrder
    <3> DEFINE x1 == SumOver(m, gain, Ending(m, place, grown, h, c))
               x2 == SumOver(m, gain, Ending(m, place, grown, g, b))
    <3>4. End(q, l) = Start(q, at[b]) + x1 /\ End(q, k) = Start(q, at[b]) + x2
      BY <1>6, <2>3, <2>11
    <3> HIDE DEF x1, x2
    <3> QED
      BY <3>2, <3>3, <3>4 DEF x1, x2
  <2> QED
    BY <1>2, <2>9, <2>10, <2>11
<1> QED
  BY <1>8, <1>9

\* So the readers find every entry, and every entry in its groups.
LEMMA EditedScans ==
  ASSUME NEW p, NEW q, NEW ids, NEW at, NEW kept, NEW m, NEW place, NEW gain, NEW loss, NEW grown,
         IsEdited(p, q, ids, at, kept, m, place, gain, loss, grown),
         GrownNest(p, m, place, grown),
         EndsAtChunks(p, q, at, m, place, gain, grown)
  PROVE  Scans(q)
<1> DEFINE n == Len(p.chunks)
           N == Len(q.chunks)
<1>1. WellFormed(p) /\ WellFormed(q) /\ Settled(p, q, ids, at, kept)
  BY DEF IsEdited
<1>2. /\ N \in Nat /\ DOMAIN q.chunks = 1 .. N
      /\ \A i \in 1 .. N + 1 : Start(q, i) \in Nat
      /\ \A i, j \in 1 .. N + 1 : i < j <=> Start(q, i) < Start(q, j)
  BY <1>1, ChunksStartInOrder
<1>3. \A i, j \in 1 .. N + 1 : i <= j => Start(q, i) <= Start(q, j)
  <2> HIDE DEF N
  <2> QED
    BY <1>2
<1>4. ASSUME NEW k \in Groups(q)
      PROVE  q.chunks[k].size >= GroupHeaderSize /\ End(q, k) <= Start(q, N + 1)
  <2>1. PICK g \in 1 .. n, b \in 1 .. n + 1, y \in 1 .. N + 1 :
          k = at[g + 1] - 1 /\ GroupKept(p, q, at, kept, m, place, gain, grown, g, b, y)
    BY GroupsAreKept
  <2>2. /\ g \in kept /\ g < b /\ End(q, k) = Start(q, y) /\ Start(q, at[b]) <= End(q, k)
    BY <2>1 DEF GroupKept
  <2>3. k \in 1 .. N /\ q.chunks[k].kind = "group"
    BY <1>2 DEF Groups
  <2>4. /\ q.chunks[k].size \in Nat /\ End(q, k) = Start(q, k) + q.chunks[k].size
        /\ Start(q, k + 1) = Start(q, k) + GroupHeaderSize
    BY <1>1, <2>3, ChunksEnd
  <2>5. at[b] \in 1 .. N + 1 /\ at[g + 1] <= at[b] /\ k \in 1 .. N /\ k = at[g + 1] - 1
    BY <1>1, <2>1, <2>2, SlotsInOrder
  <2>6. k + 1 <= at[b] /\ k \in 1 .. N + 1 /\ k + 1 \in 1 .. N + 1 /\ N + 1 \in 1 .. N + 1
    <3>1. g + 1 \in 1 .. n + 2
      BY <1>1, ChunksStartInOrder
    <3>2. at[g + 1] \in Nat
      BY <1>1, <3>1 DEF Settled
    <3>3. N \in Nat /\ at[b] \in Int
      BY <1>2, <2>5
    <3>4. k + 1 <= at[b]
      BY <2>5, <3>2, <3>3
    <3>5. k \in 1 .. N
      BY <2>3
    <3> HIDE DEF N
    <3> QED
      BY <3>3, <3>4, <3>5
  <2>7. Start(q, k + 1) <= Start(q, at[b]) /\ Start(q, y) <= Start(q, N + 1)
    <3>1. y <= N + 1
      BY <1>2
    <3> DEFINE a == at[b]
    <3>2. a \in 1 .. N + 1 /\ k + 1 <= a
      BY <2>5, <2>6
    <3> HIDE DEF N, a
    <3> QED
      BY <1>3, <2>6, <3>1, <3>2 DEF a
  <2>8. Start(q, k) \in Nat /\ Start(q, at[b]) \in Nat /\ Start(q, y) \in Nat
    BY <1>2, <2>5, <2>6
  <2> QED
    BY <2>2, <2>4, <2>7, <2>8 DEF GroupHeaderSize
<1>5. ASSUME NEW k \in 1 .. N PROVE End(q, k) <= Start(q, N + 1)
  <2>1. CASE q.chunks[k].kind = "record"
    <3>1. End(q, k) = Start(q, k + 1)
      BY <1>1, <2>1, ChunksEnd
    <3>2. k + 1 \in 1 .. N + 1 /\ N + 1 \in 1 .. N + 1 /\ k + 1 <= N + 1
      BY <1>2
    <3> QED
      BY <1>3, <3>1, <3>2
  <2>2. CASE q.chunks[k].kind # "record"
    <3>1. k \in Groups(q)
      BY <1>1, <1>2, <2>2, ChunksEnd DEF Groups
    <3> QED
      BY <1>4, <3>1
  <2> QED
    BY <2>1, <2>2
<1>6. ASSUME NEW k \in Groups(q), NEW l \in 1 .. N,
             Start(q, k) < Start(q, l), Start(q, l) < End(q, k)
      PROVE  End(q, l) <= End(q, k)
  BY <1>6, EntriesNest
<1> QED
  BY <1>2, <1>4, <1>5, <1>6 DEF Scans, Start, End

\* After an edit of one record ...
LEMMA OneEditScans ==
  ASSUME NEW p, NEW q, NEW ids, NEW i, NEW r, NEW l, OneEdit(p, q, ids, i, r, l),
         NEW to, NEW grown, grown = ContainingGroups(p, Start(p, i), to),
         GroupsGrow(p, q, i, r, l, grown),
         WellFormed(p), Scans(p), WellFormed(q)
  PROVE  Scans(q)
<1> DEFINE n == Len(p.chunks)
           N == Len(q.chunks)
           at == Slots(n, i, r, l)
           kept == Left(n, i, l)
           place == Lone(i)
           gain == Lone(Gained(q, i, r))
           loss == Lone(Lost(p, i, l))
           grows == Lone(grown)
<1>1. IsEdited(p, q, ids, at, kept, 1, place, gain, loss, grows)
  BY OneEditIsEdited
<1>2. place[1] = i /\ gain[1] = Gained(q, i, r) /\ grows[1] = grown
  BY DEF Lone
<1>3. /\ Settled(p, q, ids, at, kept) /\ gain \in [1 .. 1 -> Nat]
      /\ Measured(p, q, at, kept, 1, place, gain, loss)
  BY <1>1 DEF IsEdited
<1> HIDE DEF at, kept, place, gain, loss, grows
<1>4. /\ n \in Nat /\ DOMAIN p.chunks = 1 .. n
      /\ \A x \in 1 .. n + 1 : Start(p, x) \in Nat
      /\ \A x, y \in 1 .. n + 1 : x < y <=> Start(p, x) < Start(p, y)
      /\ N \in Nat /\ \A x \in 1 .. N + 1 : Start(q, x) \in Nat
  BY ChunksStartInOrder
<1>5. ASSUME NEW g \in Groups(p), NEW h \in Groups(p), g < h, End(p, g) = End(p, h),
             h \in grown
      PROVE  g \in grown
  <2>1. g \in 1 .. n + 1 /\ h \in 1 .. n + 1
    BY <1>4 DEF Groups
  <2>2. Start(p, g) \in Nat /\ Start(p, h) \in Nat /\ Start(p, g) < Start(p, h)
    BY <1>4, <1>5, <2>1
  <2>3. Start(p, h) + GroupHeaderSize <= Start(p, i) /\ End(p, h) >= to
    BY <1>5 DEF ContainingGroups
  <2>4. Start(p, i) \in Nat
    BY <1>4 DEF OneEdit
  <2>5. Start(p, g) + GroupHeaderSize <= Start(p, i) /\ End(p, g) >= to
    BY <1>5, <2>2, <2>3, <2>4 DEF GroupHeaderSize
  <2> QED
    BY <2>5 DEF ContainingGroups
<1>6. GrownNest(p, 1, place, grows)
  BY <1>2, <1>5 DEF GrownNest
<1>7. ASSUME NEW g \in Groups(p), NEW b \in 1 .. n + 1
      PROVE  \E y \in 1 .. N + 1 :
               Start(q, y) = Start(q, at[b]) + SumOver(1, gain, Ending(1, place, grows, g, b))
  <2> DEFINE S == Ending(1, place, grows, g, b)
             T == At(1, place, b)
  <2>1. gain[1] \in Int
    BY <1>3
  <2>2. /\ SumOver(1, gain, S) = IF 1 \in S THEN gain[1] ELSE 0
        /\ SumOver(1, gain, T) = IF 1 \in T THEN gain[1] ELSE 0
    <3> HIDE DEF S, T
    <3> QED
      BY <2>1, SumOfOne
  <2>3. 1 \in S => 1 \in T
    BY DEF Ending, At
  <2>4. Start(q, InsertedEnd(at, kept, b)) - Start(q, at[b]) = SumOver(1, gain, T)
    BY <1>3 DEF Measured
  <2>5. at[b] \in 1 .. N + 1 /\ InsertedEnd(at, kept, b) \in 1 .. N + 1
    BY <1>3, SlotsInOrder
  <2>6. Start(q, at[b]) \in Nat /\ Start(q, InsertedEnd(at, kept, b)) \in Nat
    BY <1>4, <2>5
  <2> HIDE DEF S, T, N
  <2>7. CASE 1 \in S
    <3>1. Start(q, InsertedEnd(at, kept, b)) = Start(q, at[b]) + SumOver(1, gain, S)
      BY <2>1, <2>2, <2>3, <2>4, <2>6, <2>7
    <3> QED
      BY <2>5, <3>1 DEF S
  <2>8. CASE 1 \notin S
    <3>1. Start(q, at[b]) = Start(q, at[b]) + SumOver(1, gain, S)
      BY <2>2, <2>6, <2>8
    <3> QED
      BY <2>5, <3>1 DEF S
  <2> QED
    BY <2>7, <2>8
<1>8. EndsAtChunks(p, q, at, 1, place, gain, grows)
  BY <1>7 DEF EndsAtChunks
<1> QED
  BY <1>1, <1>6, <1>8, EditedScans

\* ... and after a batch in order: of the edits at one place, those that make a group grow
\* come before the others.
LEMMA GrowsFirst ==
  ASSUME NEW p, NEW mutations, NEW m, NEW edits, NEW place, NEW gain, NEW loss,
         IsBatchOf(p, mutations, m, edits, place, gain, loss), Ordered(p, mutations),
         NEW g \in Groups(p), NEW j \in 1 .. m, NEW l \in 1 .. m, j < l, place[j] = place[l],
         Start(p, place[l]) = End(p, g), g \in Grows(p, edits[l])
  PROVE  g \in Grows(p, edits[j])
<1>1. /\ WellFormed(p) /\ Scans(p) /\ DOMAIN mutations = 1 .. m
      /\ GrowsAround(p, edits, m, place, loss)
  BY BatchIsEdits
<1>2. g < place[l] /\ loss[l] = 0
  BY <1>1 DEF GrowsAround
<1>3. mutations[l].kind = "insert"
  BY <1>2, EditOfARecord
<1>4. /\ mutations[j].kind = "insert"
      /\ \/ InsertionPoint(p, mutations[l].target) # InsertionPoint(p, mutations[j].target)
         \/ Around(p, mutations[l].target) \subseteq Around(p, mutations[j].target)
  BY <1>1, <1>3 DEF Ordered
<1>5. /\ edits[l].group = mutations[l].target
      /\ Start(p, place[l]) = InsertionPoint(p, mutations[l].target)
  BY <1>3, EditAtATarget
<1>6. /\ place[j] \in 1 .. Len(p.chunks) + 1
      /\ edits[j].group = mutations[j].target
      /\ edits[j].start = Start(p, place[j]) /\ edits[j].end = Start(p, place[j])
      /\ Start(p, place[j]) = InsertionPoint(p, mutations[j].target)
  BY <1>4, EditAtATarget
<1>7. Around(p, mutations[l].target) \subseteq Around(p, mutations[j].target)
  BY <1>4, <1>5, <1>6
<1>8. g \in Around(p, mutations[l].target)
  BY <1>5 DEF Around, Grows
<1>9. g \in Around(p, mutations[j].target)
  BY <1>7, <1>8
<1>10. CASE mutations[j].target # Root
  BY <1>6, <1>9, <1>10 DEF Around, Grows
<1>11. CASE mutations[j].target = Root
  <2>1. g \in 1 .. Len(p.chunks) + 1
    BY <1>1, ChunksStartInOrder DEF Groups
  <2>2. Start(p, g) < Start(p, place[j]) /\ Start(p, place[j]) \in Nat
    BY <1>1, <1>2, <1>6, <2>1, ChunksStartInOrder
  <2>3. End(p, g) >= Start(p, place[j])
    BY <2>2
  <2> QED
    BY <1>6, <1>11, <2>2, <2>3 DEF Grows
<1> QED
  BY <1>10, <1>11

\* The outer groups grow with the inner ones that end where they do.
LEMMA BatchGrowsNested ==
  ASSUME NEW p, NEW mutations, NEW m, NEW edits, NEW place, NEW gain, NEW loss,
         IsBatchOf(p, mutations, m, edits, place, gain, loss),
         NEW g \in Groups(p), NEW h \in Groups(p), NEW j \in 1 .. m,
         g < h, End(p, g) = End(p, h), Start(p, place[j]) = End(p, h),
         h \in Grows(p, edits[j])
  PROVE  g \in Grows(p, edits[j])
<1> DEFINE n == Len(p.chunks)
<1>1. WellFormed(p) /\ Scans(p) /\ GrowsAround(p, edits, m, place, loss)
  BY BatchIsEdits
<1>2. /\ n \in Nat /\ DOMAIN p.chunks = 1 .. n
      /\ \A x \in 1 .. n + 1 : Start(p, x) \in Nat
      /\ \A x, y \in 1 .. n + 1 : x < y <=> Start(p, x) < Start(p, y)
  BY <1>1, ChunksStartInOrder
<1>3. mutations[j].kind = "insert"
  <2>1. loss[j] = 0
    BY <1>1 DEF GrowsAround
  <2> QED
    BY <2>1, EditOfARecord
<1> DEFINE target == mutations[j].target
<1>4. /\ place[j] \in 1 .. n + 1
      /\ IsTarget(p, target) /\ edits[j].group = target
      /\ edits[j].start = Start(p, place[j]) /\ edits[j].end = Start(p, place[j])
      /\ Start(p, place[j]) = InsertionPoint(p, target)
  BY <1>3, EditAtATarget
<1>5. g \in 1 .. n + 1 /\ h \in 1 .. n + 1 /\ g \in Int /\ h \in Int
  BY <1>2 DEF Groups
<1>6. Start(p, g) < Start(p, h) /\ Start(p, g) \in Nat /\ Start(p, h) \in Nat
      /\ Start(p, place[j]) \in Nat
  BY <1>2, <1>4, <1>5
<1>7. CASE target = Root
  <2>1. Start(p, h) < Start(p, place[j]) /\ End(p, h) >= Start(p, place[j])
    BY <1>4, <1>7 DEF Grows
  <2> QED
    BY <1>4, <1>6, <1>7, <2>1 DEF Grows
<1>8. CASE target # Root
  <2>1. target \in Groups(p) /\ Start(p, place[j]) = End(p, target)
    BY <1>4, <1>8 DEF IsTarget, InsertionPoint
  <2>2. Grows(p, edits[j]) = {target} \cup Ancestors(p, target)
    BY <1>4, <1>8 DEF Grows
  <2>3. target \in 1 .. n /\ target \in 1 .. n + 1 /\ target \in Int
        /\ p.chunks[target].kind = "group"
    BY <1>2, <2>1 DEF Groups
  <2>4. Ancestors(p, target)
          = {x \in Groups(p) : x < target /\ Start(p, target) < End(p, x)}
    BY <1>1, <2>3, AncestorsAre
  <2>5. h = target \/ h < target
    BY <2>2, <2>4
  <2>6. g < target
    BY <1>5, <2>3, <2>5
  <2>7. Start(p, target) < End(p, target)
    <3>1. p.chunks[target].size \in Nat /\ p.chunks[target].size >= GroupHeaderSize
          /\ End(p, target) = Start(p, target) + p.chunks[target].size
      BY <1>1, <2>1, <2>3, ChunksEnd DEF Scans
    <3>2. Start(p, target) \in Nat
      BY <1>2, <2>3
    <3> QED
      BY <3>1, <3>2 DEF GroupHeaderSize
  <2> QED
    BY <2>1, <2>2, <2>4, <2>6, <2>7
<1> QED
  BY <1>7, <1>8

\* The edits at chunk b that make group g grow are the first ones there.
LEMMA EndingAreFirst ==
  ASSUME NEW p, NEW mutations, NEW m, NEW edits, NEW place, NEW gain, NEW loss,
         IsBatchOf(p, mutations, m, edits, place, gain, loss), Ordered(p, mutations),
         NEW g \in Groups(p), NEW b, Start(p, b) = End(p, g),
         NEW grown, grown = [l \in 1 .. m |-> Grows(p, edits[l])]
  PROVE  \E j \in 1 .. m + 1 :
           IsBefore(Ending(m, place, grown, g, b), At(m, place, b), j, m)
<1> DEFINE S == At(m, place, b)
           T == Ending(m, place, grown, g, b)
           others == {l \in 1 .. m : l \in S /\ l \notin T} \cup {m + 1}
<1>1. m \in Nat
  BY BatchIsEdits
<1>2. \A l \in 1 .. m : l \in T => l \in S
  BY DEF Ending, At
<1>3. ASSUME NEW j \in 1 .. m, NEW l \in 1 .. m, j < l, j \in S, l \in T
      PROVE  j \in T
  <2>1. place[j] = b /\ place[l] = b /\ g \in Grows(p, edits[l])
    BY <1>3 DEF Ending, At
  <2>2. g \in Grows(p, edits[j])
    BY <1>3, <2>1, GrowsFirst
  <2> QED
    BY <2>1, <2>2 DEF Ending
<1> HIDE DEF S, T
<1>4. PICK j \in others : \A l \in others : j <= l
  <2>1. others \in SUBSET Nat /\ others # {}
    BY <1>1
  <2> HIDE DEF others
  <2> QED
    BY <2>1, FirstPlace
<1>5. j \in 1 .. m + 1
  BY <1>1, <1>4
<1>6. ASSUME NEW l \in 1 .. m PROVE l \in T <=> l \in S /\ l < j
  <2>1. ASSUME l \in S, l < j PROVE l \in T
    <3>1. l \notin others
      <4> HIDE DEF others
      <4> QED
        BY <1>4, <1>5, <2>1
    <3> QED
      BY <2>1, <3>1
  <2>2. ASSUME l \in T PROVE l < j
    <3>1. CASE j = m + 1
      BY <1>1, <3>1
    <3>2. CASE j # m + 1
      <4>1. j \in 1 .. m /\ j \in S /\ j \notin T
        BY <1>4, <3>2
      <4>2. ~ (j < l)
        BY <1>3, <2>2, <4>1
      <4>3. j # l
        BY <2>2, <4>1
      <4> QED
        BY <1>1, <4>1, <4>2, <4>3
    <3> QED
      BY <3>1, <3>2
  <2> QED
    BY <1>2, <2>1, <2>2
<1>7. IsBefore(T, S, j, m)
  BY <1>6 DEF IsBefore
<1> QED
  BY <1>5, <1>7 DEF S, T

\* So groups end where the records do that they were to hold.
LEMMA BatchScans ==
  ASSUME NEW p, NEW mutations, NEW m, NEW edits, NEW place, NEW gain, NEW loss,
         IsBatchOf(p, mutations, m, edits, place, gain, loss), Ordered(p, mutations),
         NEW q, WellFormed(q), q.chunks = Rewritten(p, edits)
  PROVE  Scans(q)
<1> DEFINE n == Len(p.chunks)
           N == Len(q.chunks)
           ids == Named(mutations)
           kept == Untouched(p, m, place, loss)
           grown == [l \in 1 .. m |-> Grows(p, edits[l])]
<1>1. /\ WellFormed(p) /\ Scans(p) /\ m \in Nat
      /\ EditsAt(p, edits, ids, m, place, gain, loss)
      /\ GrowsAround(p, edits, m, place, loss)
  BY BatchIsEdits
<1>2. PICK at : Filled(p, q, edits, m, place, loss, at)
  BY <1>1, SlotsFill
<1>3. /\ Settled(p, q, ids, at, kept)
      /\ Measured(p, q, at, kept, m, place, gain, loss)
      /\ Resized(p, q, at, m, place, gain, loss, grown)
  BY <1>1, <1>2, BatchSettles, BatchMeasures, BatchResizes
<1>4. /\ place \in [1 .. m -> 1 .. n + 1] /\ gain \in [1 .. m -> Nat] /\ loss \in [1 .. m -> Nat]
  BY <1>1 DEF EditsAt
<1>5. IsEdited(p, q, ids, at, kept, m, place, gain, loss, grown)
  BY <1>1, <1>3, <1>4 DEF IsEdited
<1>6. GrownNest(p, m, place, grown)
  BY BatchGrowsNested DEF GrownNest
<1>7. \A b \in 1 .. n + 1 : SlotFilled(p, q, edits, m, place, kept, at, b)
  BY <1>2 DEF Filled
<1>8. \A l \in 1 .. m : grown[l] = Grows(p, edits[l])
  OBVIOUS
<1>9. grown = [l \in 1 .. m |-> Grows(p, edits[l])]
  OBVIOUS
<1> HIDE DEF ids, kept, grown
<1>10. ASSUME NEW g \in Groups(p), NEW b \in 1 .. n + 1, Start(p, b) = End(p, g)
       PROVE  \E y \in 1 .. N + 1 :
                Start(q, y) = Start(q, at[b]) + SumOver(m, gain, Ending(m, place, grown, g, b))
  <2> DEFINE S == At(m, place, b)
             T == Ending(m, place, grown, g, b)
             list == Pieces(edits, m, place, b)
             a == at[b]
  <2>1. a \in Nat \ {0} /\ Holds(q, a, list)
    BY <1>7 DEF SlotFilled
  <2>2. PICK bt : Follow(q, a, bt, edits, m, place, gain, b)
    <3> HIDE DEF a
    <3> QED
      BY <1>1, <2>1, PiecesFollow
  <2>3. PICK j \in 1 .. m + 1 : IsBefore(T, S, j, m)
    BY <1>9, <1>10, EndingAreFirst
  <2> DEFINE F == PieceStarts(q, a, bt, m)
  <2>4. /\ F \in [1 .. m + 1 -> Int] /\ Steps(F, m, gain, S) /\ F[1] = Start(q, a)
        /\ bt[j] \in 1 .. Len(list) + 1
    BY <2>2 DEF Follow
  <2>5. F[j] = Start(q, a + bt[j] - 1)
    BY DEF PieceStarts
  <2> HIDE DEF S, T, F, list, a
  <2>6. SumOver(m, gain, T) = F[j] - F[1]
    <3>1. gain \in [1 .. m -> Int]
      BY <1>4
    <3>2. GrowsBy(F, j, m, gain, T)
      BY <1>1, <2>3, <2>4, <3>1, SumOfFirstSteps
    <3> QED
      BY <3>2 DEF GrowsBy
  <2>7. a + bt[j] - 1 \in 1 .. N + 1
    <3>1. Len(list) \in Nat
      BY <1>1, PiecesAreNew DEF list
    <3>2. N \in Nat /\ a + Len(list) <= N + 1
      BY <2>1, ChunksStartInOrder DEF Holds
    <3> HIDE DEF N
    <3> QED
      BY <2>1, <2>4, <3>1, <3>2
  <2>8. F[j] \in Int /\ F[1] \in Int
    BY <1>1, <2>4
  <2>9. Start(q, a + bt[j] - 1) = Start(q, a) + SumOver(m, gain, T)
    BY <2>4, <2>5, <2>6, <2>8
  <2> QED
    BY <2>7, <2>9 DEF a, T
<1>11. EndsAtChunks(p, q, at, m, place, gain, grown)
  BY <1>10 DEF EndsAtChunks
<1> QED
  BY <1>5, <1>6, <1>11, EditedScans

(***************************************************************************)
(* The counts of the new header, and its other fields.                     *)
(***************************************************************************)

\* A set has as many elements as another that lists it without repetition.
LEMMA ListedOnce ==
  ASSUME NEW J, IsFiniteSet(J), NEW T, NEW f \in [J -> T],
         \A j, k \in J : f[j] = f[k] => j = k,
         \A t \in T : \E j \in J : f[j] = t
  PROVE  IsFiniteSet(T) /\ Cardinality(T) = Cardinality(J)
<1>1. f \in Surjection(J, T)
  BY DEF Surjection
<1>2. f \in Injection(J, T)
  BY DEF Injection, IsInjective
<1>3. ExistsBijection(J, T)
  BY <1>1, <1>2 DEF ExistsBijection, Bijection
<1> QED
  BY <1>3, FS_Bijection

\* Elements taken out of a set, and others put in.
LEMMA ExchangedCount ==
  ASSUME NEW S, IsFiniteSet(S), NEW D \in SUBSET S, NEW I, IsFiniteSet(I), I \cap S = {}
  PROVE  /\ IsFiniteSet((S \ D) \cup I)
         /\ Cardinality((S \ D) \cup I) \in Nat
         /\ Cardinality((S \ D) \cup I) = Cardinality(S) + (Cardinality(I) - Cardinality(D))
<1>1. IsFiniteSet(D) /\ IsFiniteSet(S \ D)
  BY FS_Subset
<1>2. (S \ D) \cup D = S /\ (S \ D) \cap D = {} /\ (S \ D) \cap I = {}
  OBVIOUS
<1>3. Cardinality({}) = 0
  BY FS_EmptySet
<1>4. Cardinality(S) = Cardinality(S \ D) + Cardinality(D) - 0
  BY <1>1, <1>2, <1>3, FS_Union
<1>5. /\ IsFiniteSet((S \ D) \cup I)
      /\ Cardinality((S \ D) \cup I) = Cardinality(S \ D) + Cardinality(I) - 0
  BY <1>1, <1>2, <1>3, FS_Union
<1>6. /\ Cardinality(S \ D) \in Nat /\ Cardinality(D) \in Nat /\ Cardinality(I) \in Nat
      /\ Cardinality(S) \in Nat /\ Cardinality((S \ D) \cup I) \in Nat
  BY <1>1, <1>5, FS_CardinalityType
<1> DEFINE new == Cardinality((S \ D) \cup I)
<1> HIDE DEF new
<1>7. new = Cardinality(S) + (Cardinality(I) - Cardinality(D))
  BY <1>4, <1>5, <1>6 DEF new
<1> QED
  BY <1>5, <1>6, <1>7 DEF new

\* The mutations of a kind, and those of them whose record is the package's own.
Those(mutations, kind) == {j \in DOMAIN mutations : mutations[j].kind = kind}
OwnedOf(h, mutations, places) == {j \in places : mutations[j].id.index = OwnedIndex(h)}

\* The ids that some mutations name, and those that are left when all are made.
IdsOf(mutations, places) == {mutations[j].id : j \in places}
NewIds(p, mutations) ==
  (Ids(p) \ IdsOf(mutations, Those(mutations, "delete")))
    \cup IdsOf(mutations, Those(mutations, "insert"))

OwnedAmong(h, ids) == {id \in ids : id.index = OwnedIndex(h)}

\* Mutations that name each record once and are valid by themselves.
EachValid(p, mutations) ==
  /\ \A j, k \in DOMAIN mutations : mutations[j].id = mutations[k].id => j = k
  /\ \A j \in DOMAIN mutations : MutationValid(p, mutations[j])

\* The fields of the header that a batch makes.
LEMMA BatchHeaderFields ==
  ASSUME NEW p, Opens(p), NEW mutations
  PROVE  LET h == BatchHeader(p, mutations)
             inserts == Those(mutations, "insert")
             deletes == Those(mutations, "delete")
         IN /\ h = [field \in DOMAIN NewHeader |-> h[field]]
            /\ h.count = p.header.count + (Cardinality(inserts) - Cardinality(deletes))
            /\ h.owned = p.header.owned
                 + (Cardinality(OwnedOf(p.header, mutations, inserts))
                      - Cardinality(OwnedOf(p.header, mutations, deletes)))
            /\ h.next = Max({p.header.next}
                 \cup {mutations[j].id.local + 1 : j \in OwnedOf(p.header, mutations, inserts)})
            /\ h.text = p.header.text /\ h.class = p.header.class
            /\ h.dependencies = p.header.dependencies /\ h.streaming = p.header.streaming
            /\ h.incompatibilities = p.header.incompatibilities
            /\ h.offsets = p.header.offsets
<1> DEFINE inserts == Those(mutations, "insert")
           deletes == Those(mutations, "delete")
           count == p.header.count + (Cardinality(inserts) - Cardinality(deletes))
           owned == p.header.owned
                 + (Cardinality(OwnedOf(p.header, mutations, inserts))
                      - Cardinality(OwnedOf(p.header, mutations, deletes)))
           next == Max({p.header.next}
                 \cup {mutations[j].id.local + 1 : j \in OwnedOf(p.header, mutations, inserts)})
<1>1. BatchHeader(p, mutations)
        = [p.header EXCEPT !.count = count, !.owned = owned, !.next = next]
  BY DEF BatchHeader, Those, OwnedOf
<1>2. DOMAIN p.header = DOMAIN NewHeader
  BY HeaderTypes
<1>3. DOMAIN NewHeader = {"class", "next", "count", "owned", "text", "dependencies",
                          "incompatibilities", "streaming", "offsets"}
  BY DEF NewHeader
<1> HIDE DEF count, owned, next
<1>4. /\ BatchHeader(p, mutations).count = count /\ BatchHeader(p, mutations).owned = owned
      /\ BatchHeader(p, mutations).next = next
  BY <1>1, <1>2, <1>3
<1> QED
  BY <1>1, <1>2, <1>3, <1>4 DEF count, owned, next

\* As many ids as mutations name.
LEMMA NamedOnce ==
  ASSUME NEW mutations, NEW m \in Nat, DOMAIN mutations = 1 .. m,
         \A j, k \in DOMAIN mutations : mutations[j].id = mutations[k].id => j = k,
         NEW J \in SUBSET (1 .. m)
  PROVE  /\ IsFiniteSet(IdsOf(mutations, J))
         /\ Cardinality(IdsOf(mutations, J)) = Cardinality(J)
<1> DEFINE f == [j \in J |-> mutations[j].id]
<1>1. IsFiniteSet(J)
  BY PlacesAreFinite, FS_Subset
<1>2. /\ f \in [J -> IdsOf(mutations, J)]
      /\ \A j, k \in J : f[j] = f[k] => j = k
      /\ \A id \in IdsOf(mutations, J) : \E j \in J : f[j] = id
  BY DEF IdsOf
<1> HIDE DEF f
<1> QED
  BY <1>1, <1>2, ListedOnce

\* The counts of the header are those of the ids that are left.
LEMMA BatchHeaderCounts ==
  ASSUME NEW p, Opens(p), NEW mutations, NEW m, IsBatch(mutations, m), EachValid(p, mutations)
  PROVE  /\ IsFiniteSet(NewIds(p, mutations))
         /\ BatchHeader(p, mutations).count \in Nat /\ BatchHeader(p, mutations).owned \in Nat
         /\ BatchHeader(p, mutations).count = Cardinality(NewIds(p, mutations))
         /\ BatchHeader(p, mutations).owned
              = Cardinality(OwnedAmong(p.header, NewIds(p, mutations)))
<1> DEFINE inserts == Those(mutations, "insert")
           deletes == Those(mutations, "delete")
           I == IdsOf(mutations, inserts)
           D == IdsOf(mutations, deletes)
           inserts1 == OwnedOf(p.header, mutations, inserts)
           deletes1 == OwnedOf(p.header, mutations, deletes)
           I1 == IdsOf(mutations, inserts1)
           D1 == IdsOf(mutations, deletes1)
           S1 == OwnedAmong(p.header, Ids(p))
<1>1. /\ m \in Nat /\ DOMAIN mutations = 1 .. m
      /\ \A j, k \in DOMAIN mutations : mutations[j].id = mutations[k].id => j = k
      /\ \A j \in DOMAIN mutations : MutationValid(p, mutations[j])
  BY DEF IsBatch, EachValid
<1>2. /\ inserts \in SUBSET (1 .. m) /\ deletes \in SUBSET (1 .. m)
      /\ inserts1 \in SUBSET (1 .. m) /\ deletes1 \in SUBSET (1 .. m)
  BY <1>1 DEF Those, OwnedOf
<1>3. /\ IsFiniteSet(I) /\ Cardinality(I) = Cardinality(inserts)
      /\ IsFiniteSet(D) /\ Cardinality(D) = Cardinality(deletes)
      /\ IsFiniteSet(I1) /\ Cardinality(I1) = Cardinality(inserts1)
      /\ IsFiniteSet(D1) /\ Cardinality(D1) = Cardinality(deletes1)
  <2> HIDE DEF inserts, deletes, inserts1, deletes1
  <2> QED
    BY <1>1, <1>2, NamedOnce
<1>4. IsFiniteSet(Ids(p))
  BY RecordsAreFinite
<1>5. IsFiniteSet(S1)
  <2>1. S1 \in SUBSET Ids(p)
    BY DEF OwnedAmong
  <2> QED
    BY <1>4, <2>1, FS_Subset
<1>6. D \in SUBSET Ids(p) /\ I \cap Ids(p) = {}
  BY <1>1 DEF IdsOf, Those, MutationValid, CanInsert
<1>7. D1 \in SUBSET S1 /\ I1 \cap S1 = {}
  BY <1>6 DEF IdsOf, OwnedOf, OwnedAmong
<1>8. NewIds(p, mutations) = (Ids(p) \ D) \cup I
  BY DEF NewIds
<1>9. OwnedAmong(p.header, NewIds(p, mutations)) = (S1 \ D1) \cup I1
  BY <1>8 DEF IdsOf, OwnedOf, OwnedAmong
<1>10. /\ p.header.count = Cardinality(Ids(p))
       /\ p.header.owned = Cardinality(S1)
  BY DEF Opens, Indexes, OwnedAmong
<1>11. /\ BatchHeader(p, mutations).count
            = p.header.count + (Cardinality(inserts) - Cardinality(deletes))
       /\ BatchHeader(p, mutations).owned
            = p.header.owned + (Cardinality(inserts1) - Cardinality(deletes1))
  BY BatchHeaderFields
<1> HIDE DEF I, D, I1, D1, S1, inserts, deletes, inserts1, deletes1
<1>12. /\ IsFiniteSet((Ids(p) \ D) \cup I)
       /\ Cardinality((Ids(p) \ D) \cup I) \in Nat
       /\ Cardinality((Ids(p) \ D) \cup I)
            = Cardinality(Ids(p)) + (Cardinality(I) - Cardinality(D))
  <2> DEFINE S == Ids(p)
  <2>1. IsFiniteSet(S) /\ D \in SUBSET S /\ IsFiniteSet(I) /\ I \cap S = {}
    BY <1>3, <1>4, <1>6
  <2> HIDE DEF S
  <2>2. /\ IsFiniteSet((S \ D) \cup I)
        /\ Cardinality((S \ D) \cup I) \in Nat
        /\ Cardinality((S \ D) \cup I) = Cardinality(S) + (Cardinality(I) - Cardinality(D))
    BY <2>1, ExchangedCount
  <2> QED
    BY <2>2 DEF S
<1>13. /\ Cardinality((S1 \ D1) \cup I1) \in Nat
       /\ Cardinality((S1 \ D1) \cup I1)
            = Cardinality(S1) + (Cardinality(I1) - Cardinality(D1))
  BY <1>3, <1>5, <1>7, ExchangedCount
<1> QED
  BY <1>3, <1>8, <1>9, <1>10, <1>11, <1>12, <1>13

\* So it is a header.
LEMMA BatchHeaderIsHeader ==
  ASSUME NEW p, Opens(p), NEW mutations, NEW m, IsBatch(mutations, m), EachValid(p, mutations),
         \A j \in DOMAIN mutations : mutations[j].id.local \in Nat
  PROVE  IsHeader(BatchHeader(p, mutations))
<1> DEFINE h == BatchHeader(p, mutations)
           owned == OwnedOf(p.header, mutations, Those(mutations, "insert"))
           behind == {mutations[j].id.local + 1 : j \in owned}
           n == p.header.next + MaxLocalId + 1
<1>1. p.header.next \in Nat /\ MaxLocalId \in Nat /\ n \in Nat
  BY HeaderTypes, LimitsAssumption
<1>2. ASSUME NEW j \in owned PROVE mutations[j].id.local + 1 \in 0 .. n
  <2>1. mutations[j].id.local \in Nat /\ mutations[j].id.local <= MaxLocalId
    BY DEF EachValid, MutationValid, CanInsert, OwnedOf, Those
  <2> QED
    BY <1>1, <2>1
<1>3. {p.header.next} \cup behind \in SUBSET (0 .. n)
  <2>1. p.header.next \in 0 .. n
    BY <1>1
  <2> HIDE DEF n, owned
  <2> QED
    BY <1>2, <2>1
<1>4. Max({p.header.next} \cup behind) \in Nat
  <2> DEFINE T == {p.header.next} \cup behind
  <2>1. T \in SUBSET (0 .. n) /\ p.header.next \in T
    BY <1>3
  <2> HIDE DEF n, T
  <2>2. Max(T) \in 0 .. n
    BY <1>1, <2>1, Greatest
  <2>3. Max(T) \in Nat
    BY <1>1, <2>2
  <2> QED
    BY <2>3 DEF T
<1>5. /\ h = [field \in DOMAIN NewHeader |-> h[field]]
      /\ h.next = Max({p.header.next} \cup behind)
      /\ h.text = p.header.text
      /\ h.dependencies = p.header.dependencies /\ h.streaming = p.header.streaming
      /\ h.incompatibilities = p.header.incompatibilities
      /\ h.offsets = p.header.offsets
  BY BatchHeaderFields
<1>6. h.count \in Nat /\ h.owned \in Nat
  BY BatchHeaderCounts
<1>7. IsHeader(p.header)
  BY DEF Opens, WellFormed
<1> HIDE DEF h, behind
<1>8. IsHeader(h)
  BY <1>4, <1>5, <1>6, <1>7 DEF IsHeader
<1> QED
  BY <1>8 DEF h

\* Without scene offsets nothing is to be shifted.
LEMMA RewriteWithoutOffsets ==
  ASSUME NEW p, NEW chunks, NEW h, h = [field \in DOMAIN NewHeader |-> h[field]],
         h.offsets = {}
  PROVE  Rewrite(p, chunks, h) = [header |-> h, chunks |-> chunks]
<1> DEFINE d == HeaderSize(h) - HeaderSize(p.header)
<1>1. Shift(h.offsets, d) = {}
  BY DEF Shift
<1>2. [h EXCEPT !.offsets = Shift(@, d)] = h
  BY <1>1
<1> QED
  BY <1>2 DEF Rewrite

(***************************************************************************)
(* The records of the new package: the old ones but for those that the     *)
(* mutations name, and those that the mutations make, one each.            *)
(***************************************************************************)

\* The mutations that leave a record.
Makers(mutations) == {j \in DOMAIN mutations : mutations[j].kind # "delete"}

\* Every chunk of q is the record that mutation j makes, at made[j], or chunk x of p, at
\* stays[x].
RecordsExchanged(p, q, mutations, made, stays) ==
  /\ \A j \in Makers(mutations) : /\ made[j] \in 1 .. Len(q.chunks)
                                  /\ q.chunks[made[j]].kind = "record"
                                  /\ q.chunks[made[j]].id = mutations[j].id
  /\ \A x \in Records(p) : p.chunks[x].id \notin Named(mutations) =>
       stays[x] \in 1 .. Len(q.chunks) /\ SameEntry(p.chunks[x], q.chunks[stays[x]])
  /\ \A k \in 1 .. Len(q.chunks) :
       \/ \E j \in Makers(mutations) : k = made[j]
       \/ \E x \in 1 .. Len(p.chunks) :
            /\ k = stays[x] /\ SameEntry(p.chunks[x], q.chunks[k])
            /\ p.chunks[x].kind = "record" => p.chunks[x].id \notin Named(mutations)

\* So no two have the same id, and there are as many ids as the header counts.
LEMMA ExchangedRecords ==
  ASSUME NEW p, Opens(p), NEW q, WellFormed(q), NEW mutations, NEW m, IsBatch(mutations, m),
         EachValid(p, mutations), NEW made, NEW stays, RecordsExchanged(p, q, mutations, made, stays)
  PROVE  /\ \A k, l \in Records(q) : q.chunks[k].id = q.chunks[l].id => k = l
         /\ Ids(q) = NewIds(p, mutations)
<1>1. /\ \A x : x \in Records(q) <=> x \in 1 .. Len(q.chunks) /\ q.chunks[x].kind = "record"
      /\ \A x : x \in Records(p) <=> x \in 1 .. Len(p.chunks) /\ p.chunks[x].kind = "record"
      /\ \A x \in 1 .. Len(p.chunks) : p.chunks[x].kind \in {"record", "group"}
  <2>1. WellFormed(p)
    BY DEF Opens
  <2> QED
    BY <2>1, ChunksStartInOrder, ChunksEnd DEF Records
<1>2. /\ DOMAIN mutations = 1 .. m
      /\ \A j \in DOMAIN mutations : mutations[j].kind \in {"insert", "replace", "delete"}
      /\ \A j, k \in DOMAIN mutations : mutations[j].id = mutations[k].id => j = k
      /\ \A j \in DOMAIN mutations : MutationValid(p, mutations[j])
  BY DEF IsBatch, EachValid
<1>3. ASSUME NEW k \in Records(q)
      PROVE  \/ \E j \in Makers(mutations) : k = made[j] /\ q.chunks[k].id = mutations[j].id
             \/ \E x \in Records(p) : /\ k = stays[x] /\ q.chunks[k].id = p.chunks[x].id
                                      /\ p.chunks[x].id \notin Named(mutations)
  <2>1. k \in 1 .. Len(q.chunks) /\ q.chunks[k].kind = "record"
    BY <1>1
  <2>2. CASE \E j \in Makers(mutations) : k = made[j]
    BY <2>2 DEF RecordsExchanged
  <2>3. ASSUME NEW x \in 1 .. Len(p.chunks),
               k = stays[x], SameEntry(p.chunks[x], q.chunks[k]),
               p.chunks[x].kind = "record" => p.chunks[x].id \notin Named(mutations)
        PROVE  /\ x \in Records(p) /\ q.chunks[k].id = p.chunks[x].id
               /\ p.chunks[x].id \notin Named(mutations)
    BY <1>1, <2>1, <2>3 DEF SameEntry
  <2> QED
    BY <2>1, <2>2, <2>3 DEF RecordsExchanged
<1>4. \A j \in Makers(mutations) : j \in DOMAIN mutations /\ mutations[j].id \in Named(mutations)
  BY DEF Makers, Named
<1>5. ASSUME NEW k \in Records(q), NEW l \in Records(q), q.chunks[k].id = q.chunks[l].id
      PROVE  k = l
  <2>1. CASE q.chunks[k].id \in Named(mutations)
    <3>1. PICK i \in Makers(mutations) : k = made[i] /\ q.chunks[k].id = mutations[i].id
      BY <1>3, <2>1
    <3>2. PICK j \in Makers(mutations) : l = made[j] /\ q.chunks[l].id = mutations[j].id
      BY <1>3, <1>5, <2>1
    <3> QED
      BY <1>2, <1>4, <1>5, <3>1, <3>2
  <2>2. CASE q.chunks[k].id \notin Named(mutations)
    <3>1. PICK x \in Records(p) : k = stays[x] /\ q.chunks[k].id = p.chunks[x].id
      BY <1>3, <1>4, <2>2
    <3>2. PICK y \in Records(p) : l = stays[y] /\ q.chunks[l].id = p.chunks[y].id
      BY <1>3, <1>4, <1>5, <2>2
    <3>3. x = y
      BY <1>5, <3>1, <3>2, IdsAreUnique
    <3> QED
      BY <3>1, <3>2, <3>3
  <2> QED
    BY <2>1, <2>2
<1>6. ASSUME NEW id \in Ids(q)
      PROVE  id \in NewIds(p, mutations)
  <2>1. PICK k \in Records(q) : q.chunks[k].id = id
    BY DEF Ids
  <2>2. ASSUME NEW j \in Makers(mutations), id = mutations[j].id
        PROVE  id \in NewIds(p, mutations)
    <3>1. j \in DOMAIN mutations /\ mutations[j].kind # "delete"
      BY DEF Makers
    <3>2. CASE mutations[j].kind = "insert"
      BY <2>2, <3>1, <3>2 DEF NewIds, IdsOf, Those
    <3>3. CASE mutations[j].kind # "insert"
      <4>1. id \in Ids(p)
        BY <1>2, <2>2, <3>1, <3>3 DEF MutationValid
      <4>2. id \notin IdsOf(mutations, Those(mutations, "delete"))
        BY <1>2, <2>2, <3>1 DEF IdsOf, Those
      <4> QED
        BY <4>1, <4>2 DEF NewIds
    <3> QED
      BY <3>2, <3>3
  <2>3. ASSUME NEW x \in Records(p), id = p.chunks[x].id, id \notin Named(mutations)
        PROVE  id \in NewIds(p, mutations)
    BY <2>3 DEF NewIds, IdsOf, Those, Named, Ids
  <2> QED
    BY <1>3, <2>1, <2>2, <2>3
<1>7. ASSUME NEW j \in Makers(mutations)
      PROVE  mutations[j].id \in Ids(q)
  <2>1. made[j] \in Records(q) /\ q.chunks[made[j]].id = mutations[j].id
    BY <1>1 DEF RecordsExchanged
  <2> QED
    BY <2>1 DEF Ids
<1>8. ASSUME NEW id \in NewIds(p, mutations)
      PROVE  id \in Ids(q)
  <2>1. CASE id \in Named(mutations)
    <3>1. PICK j \in DOMAIN mutations : id = mutations[j].id
      BY <2>1 DEF Named
    <3>2. ASSUME mutations[j].kind = "delete" PROVE FALSE
      <4>1. id \in IdsOf(mutations, Those(mutations, "delete"))
        BY <3>1, <3>2 DEF IdsOf, Those
      <4>2. PICK k \in DOMAIN mutations : mutations[k].kind = "insert" /\ id = mutations[k].id
        BY <4>1 DEF NewIds, IdsOf, Those
      <4> QED
        BY <1>2, <3>1, <3>2, <4>2
    <3> QED
      BY <1>7, <3>1, <3>2 DEF Makers
  <2>2. CASE id \notin Named(mutations)
    <3>1. id \in Ids(p)
      BY <2>2 DEF NewIds, IdsOf, Those, Named
    <3>2. PICK x \in Records(p) : p.chunks[x].id = id
      BY <3>1 DEF Ids
    <3>3. stays[x] \in 1 .. Len(q.chunks) /\ SameEntry(p.chunks[x], q.chunks[stays[x]])
      BY <2>2, <3>2 DEF RecordsExchanged
    <3>4. stays[x] \in Records(q) /\ q.chunks[stays[x]].id = id
      BY <1>1, <3>2, <3>3 DEF SameEntry
    <3> QED
      BY <3>4 DEF Ids
  <2> QED
    BY <2>1, <2>2
<1> QED
  BY <1>5, <1>6, <1>8

\* So the new package opens, if the readers find its entries.
LEMMA ExchangedOpens ==
  ASSUME NEW p, Opens(p), p.header.offsets = {},
         NEW mutations, NEW m, IsBatch(mutations, m), EachValid(p, mutations),
         Decodes(BatchHeader(p, mutations)),
         NEW q, WellFormed(q), Scans(q), q.header = BatchHeader(p, mutations),
         NEW made, NEW stays, RecordsExchanged(p, q, mutations, made, stays)
  PROVE  Opens(q)
<1>1. /\ \A k, l \in Records(q) : q.chunks[k].id = q.chunks[l].id => k = l
      /\ Ids(q) = NewIds(p, mutations)
  BY ExchangedRecords
<1>2. /\ q.header.count = Cardinality(Ids(q))
      /\ q.header.owned = Cardinality(OwnedAmong(p.header, Ids(q)))
  BY <1>1, BatchHeaderCounts
<1>3. q.header.offsets = {} /\ q.header.dependencies = p.header.dependencies
  <2> DEFINE h == BatchHeader(p, mutations)
  <2>1. h.offsets = p.header.offsets /\ h.dependencies = p.header.dependencies
    BY BatchHeaderFields
  <2> HIDE DEF h
  <2>2. q.header = h
    BY DEF h
  <2> QED
    BY <2>1, <2>2
<1>4. Cardinality(Ids(q)) = Cardinality(Records(q))
  <2> DEFINE f == [i \in Records(q) |-> q.chunks[i].id]
             S == Records(q)
             T == Ids(q)
  <2>1. IsFiniteSet(S)
    <3>1. Len(q.chunks) \in Nat /\ DOMAIN q.chunks = 1 .. Len(q.chunks)
      BY ChunksStartInOrder
    <3>2. S \in SUBSET (1 .. Len(q.chunks))
      BY <3>1 DEF Records
    <3> QED
      BY <3>1, <3>2, PlacesAreFinite, FS_Subset
  <2>2. /\ f \in [S -> T]
        /\ \A i, j \in S : f[i] = f[j] => i = j
        /\ \A id \in T : \E i \in S : f[i] = id
    BY <1>1 DEF Ids
  <2> HIDE DEF f, S, T
  <2>3. Cardinality(T) = Cardinality(S)
    BY <2>1, <2>2, ListedOnce
  <2> QED
    BY <2>3 DEF S, T
<1>5. OwnedAmong(p.header, Ids(q)) = {id \in Ids(q) : id.index = OwnedIndex(q.header)}
  BY <1>3 DEF OwnedAmong, OwnedIndex
<1>6. Indexes(q)
  BY <1>2, <1>4, <1>5 DEF Indexes
<1>7. OffsetsInBounds(q)
  BY <1>3 DEF OffsetsInBounds
<1> QED
  BY <1>6, <1>7 DEF Opens

\* A place between the first and the last of a list of places is between two that follow
\* each other.
LEMMA Bracketed ==
  ASSUME NEW n \in Nat, NEW f \in [1 .. n + 1 -> Nat], NEW h \in Nat, f[1] <= h, h < f[n + 1]
  PROVE  \E j \in 1 .. n : f[j] <= h /\ h < f[j + 1]
<1> DEFINE T == {j \in 1 .. n + 1 : f[j] <= h}
<1>1. n + 1 \in Nat /\ T \in SUBSET (0 .. n + 1) /\ 1 \in T
  OBVIOUS
<1>2. PICK j \in T : \A l \in T : l <= j
  <2> DEFINE w == n + 1
  <2>1. w \in Nat /\ T \in SUBSET (0 .. w) /\ T # {}
    BY <1>1
  <2> HIDE DEF T, w
  <2> QED
    BY <2>1, LastPlace
<1>3. j \in 1 .. n + 1 /\ f[j] <= h
  OBVIOUS
<1>4. j # n + 1
  BY <1>3
<1>5. j \in 1 .. n /\ j + 1 \in 1 .. n + 1 /\ ~ (j + 1 <= j)
  BY <1>3, <1>4
<1>6. j + 1 \notin T
  BY <1>2, <1>5
<1>7. h < f[j + 1]
  <2>1. ~ (f[j + 1] <= h) /\ f[j + 1] \in Nat
    BY <1>5, <1>6
  <2> QED
    BY <2>1
<1> QED
  BY <1>3, <1>5, <1>7

\* What stands in front of a chunk are the pieces of the edits there, each at its place.
LEMMA EveryPiece ==
  ASSUME NEW p, NEW edits, NEW ids, NEW m, NEW place, NEW gain, NEW loss,
         EditsAt(p, edits, ids, m, place, gain, loss), NEW i,
         NEW bt, Joins(Pieces(edits, m, place, i), PieceLists(edits, m, place, i), m, bt)
  PROVE  /\ \A h \in 1 .. Len(Pieces(edits, m, place, i)) :
              \E j \in 1 .. m : place[j] = i /\ edits[j].pieces # <<>> /\ h = bt[j]
         /\ \A j \in 1 .. m : place[j] = i /\ edits[j].pieces # <<>> =>
              /\ bt[j] \in 1 .. Len(Pieces(edits, m, place, i))
              /\ Pieces(edits, m, place, i)[bt[j]] = edits[j].pieces[1]
<1> DEFINE list == Pieces(edits, m, place, i)
           ss == PieceLists(edits, m, place, i)
<1>1. /\ m \in Nat
      /\ \A j \in 1 .. m : edits[j].pieces = <<>> \/ \E x : edits[j].pieces = <<x>>
  BY DEF EditsAt
<1>2. Len(list) \in Nat
  BY PiecesAreNew
<1>3. \A j \in 1 .. m : ss[j] = IF place[j] = i THEN edits[j].pieces ELSE <<>>
  BY DEF PieceLists
<1>4. \A j \in 1 .. m :
        Len(ss[j]) = IF place[j] = i /\ edits[j].pieces # <<>> THEN 1 ELSE 0
  <2> HIDE DEF ss
  <2> SUFFICES ASSUME NEW j \in 1 .. m
               PROVE  Len(ss[j]) = IF place[j] = i /\ edits[j].pieces # <<>> THEN 1 ELSE 0
    OBVIOUS
  <2>1. ss[j] = IF place[j] = i THEN edits[j].pieces ELSE <<>>
    BY <1>3
  <2>2. edits[j].pieces # <<>> => Len(edits[j].pieces) = 1
    <3> SUFFICES ASSUME edits[j].pieces # <<>> PROVE Len(edits[j].pieces) = 1
      OBVIOUS
    <3>1. PICK x : edits[j].pieces = <<x>>
      BY <1>1
    <3> QED
      BY <3>1
  <2>3. Len(<<>>) = 0
    OBVIOUS
  <2> QED
    BY <2>1, <2>2, <2>3
<1>5. /\ bt \in [1 .. m + 1 -> Nat] /\ bt[1] = 1 /\ Len(list) + 1 = bt[m + 1]
      /\ \A j \in 1 .. m : bt[j + 1] = bt[j] + Len(ss[j])
      /\ \A j \in 1 .. m : \A k \in 1 .. Len(ss[j]) : list[bt[j] + k - 1] = ss[j][k]
  BY DEF Joins
<1>6. \A j \in 1 .. m + 1 : bt[j] \in 1 .. Len(list) + 1
  <2> DEFINE X == NewRecords(edits, m)
  <2>1. ss \in [1 .. m -> Seq(X)] /\ list \in Seq(X)
    BY PiecesAreNew
  <2>2. \A j \in 1 .. m : Len(ss[j]) \in Nat
    BY <1>4
  <2> HIDE DEF X, ss, list
  <2>3. Spreads(list, ss, m, bt)
    BY <1>1, <1>2, <2>1, <2>2, JoinedPlaces DEF ss, list
  <2> QED
    BY <2>3 DEF Spreads
<1> DEFINE l == Len(list)
<1>7. ASSUME NEW j \in 1 .. m, place[j] = i, edits[j].pieces # <<>>
      PROVE  bt[j] \in 1 .. l /\ bt[j + 1] = bt[j] + 1 /\ list[bt[j]] = edits[j].pieces[1]
  <2>1. Len(ss[j]) = 1 /\ ss[j] = edits[j].pieces
    BY <1>3, <1>4, <1>7
  <2>2. j \in 1 .. m + 1 /\ j + 1 \in 1 .. m + 1 /\ 1 \in 1 .. 1
    BY <1>1
  <2>3. bt[j] \in 1 .. l + 1 /\ bt[j + 1] \in 1 .. l + 1
    BY <1>6, <2>2
  <2>4. bt[j + 1] = bt[j] + Len(ss[j]) /\ list[bt[j] + 1 - 1] = ss[j][1]
    BY <1>5, <2>1, <2>2
  <2> DEFINE u == bt[j]
             v == bt[j + 1]
  <2> HIDE DEF ss, list, l
  <2>5. u \in 1 .. l + 1 /\ v \in 1 .. l + 1 /\ v = u + 1 /\ l \in Nat
    BY <1>2, <2>1, <2>3, <2>4 DEF l
  <2> HIDE DEF u, v
  <2>6. u \in 1 .. l /\ u + 1 - 1 = u
    BY <2>5
  <2> QED
    BY <2>1, <2>4, <2>5, <2>6 DEF u, v
<1>8. ASSUME NEW h \in 1 .. l
      PROVE  \E j \in 1 .. m : place[j] = i /\ edits[j].pieces # <<>> /\ h = bt[j]
  <2>1. h \in Nat /\ bt[1] <= h /\ h < bt[m + 1]
    BY <1>2, <1>5
  <2>2. PICK j \in 1 .. m : bt[j] <= h /\ h < bt[j + 1]
    BY <1>1, <1>5, <2>1, Bracketed
  <2>3. bt[j] \in Nat /\ bt[j + 1] = bt[j] + Len(ss[j])
    <3>1. j \in 1 .. m + 1
      BY <1>1
    <3> QED
      BY <1>5, <3>1
  <2> DEFINE u == bt[j]
             w == Len(ss[j])
  <2>4. w = 1 \/ w = 0
    BY <1>4
  <2>5. u \in Nat /\ u <= h /\ h < u + w
    BY <2>2, <2>3
  <2> HIDE DEF u, w
  <2>6. w = 1 /\ h = u
    BY <2>1, <2>4, <2>5
  <2> HIDE DEF ss
  <2>7. place[j] = i /\ edits[j].pieces # <<>>
    <3>1. w = IF place[j] = i /\ edits[j].pieces # <<>> THEN 1 ELSE 0
      BY <1>4 DEF w
    <3> QED
      BY <2>6, <3>1
  <2> QED
    BY <2>6, <2>7 DEF u
<1> QED
  BY <1>7, <1>8

\* So a batch exchanges records ...
LEMMA BatchExchanges ==
  ASSUME NEW p, NEW mutations, NEW m, NEW edits, NEW place, NEW gain, NEW loss,
         IsBatchOf(p, mutations, m, edits, place, gain, loss),
         NEW q, WellFormed(q), q.chunks = Rewritten(p, edits)
  PROVE  \E made, stays : RecordsExchanged(p, q, mutations, made, stays)
<1> DEFINE n == Len(p.chunks)
           ids == Named(mutations)
           kept == Untouched(p, m, place, loss)
           pieces(i) == Pieces(edits, m, place, i)
           bt(i) == CHOOSE b : Joins(pieces(i), PieceLists(edits, m, place, i), m, b)
<1>1. /\ WellFormed(p) /\ m \in Nat /\ DOMAIN mutations = 1 .. m
      /\ EditsAt(p, edits, ids, m, place, gain, loss)
  BY BatchIsEdits
<1>2. PICK at : Filled(p, q, edits, m, place, loss, at)
  BY <1>1, SlotsFill
<1>3. Settled(p, q, ids, at, kept)
  BY <1>1, <1>2, BatchSettles
<1> DEFINE made == [j \in 1 .. m |-> at[place[j]] + bt(place[j])[j] - 1]
           stays == [x \in 1 .. n |-> at[x + 1] - 1]
<1>4. /\ n \in Nat /\ Len(q.chunks) \in Nat
      /\ \A x : x \in Records(p) => x \in 1 .. n /\ p.chunks[x].kind = "record"
  BY <1>1, ChunksStartInOrder DEF Records
<1>5. ASSUME NEW i \in 1 .. n + 1
      PROVE  /\ at[i] \in Nat \ {0}
             /\ at[i + 1] = at[i] + Len(pieces(i)) + (IF i \in kept THEN 1 ELSE 0)
             /\ at[i] + Len(pieces(i)) <= Len(q.chunks) + 1
             /\ \A h \in 1 .. Len(pieces(i)) : q.chunks[at[i] + h - 1] = pieces(i)[h]
             /\ Len(pieces(i)) \in Nat
  <2>1. Len(pieces(i)) \in Nat
    BY <1>1, PiecesAreNew
  <2> QED
    BY <1>2, <2>1 DEF Filled, SlotFilled, Holds
<1>6. ASSUME NEW i
      PROVE  /\ \A h \in 1 .. Len(pieces(i)) :
                  \E j \in 1 .. m : place[j] = i /\ edits[j].pieces # <<>> /\ h = bt(i)[j]
             /\ \A j \in 1 .. m : place[j] = i /\ edits[j].pieces # <<>> =>
                  /\ bt(i)[j] \in 1 .. Len(pieces(i))
                  /\ pieces(i)[bt(i)[j]] = edits[j].pieces[1]
  <2>1. Joins(pieces(i), PieceLists(edits, m, place, i), m, bt(i))
    BY <1>1, PiecesAreNew
  <2>2. PICK b : b = bt(i)
    OBVIOUS
  <2>3. Joins(Pieces(edits, m, place, i), PieceLists(edits, m, place, i), m, b)
    BY <2>1, <2>2
  <2> HIDE DEF bt
  <2>4. /\ \A h \in 1 .. Len(Pieces(edits, m, place, i)) :
             \E j \in 1 .. m : place[j] = i /\ edits[j].pieces # <<>> /\ h = b[j]
        /\ \A j \in 1 .. m : place[j] = i /\ edits[j].pieces # <<>> =>
             /\ b[j] \in 1 .. Len(Pieces(edits, m, place, i))
             /\ Pieces(edits, m, place, i)[b[j]] = edits[j].pieces[1]
    BY <1>1, <2>3, EveryPiece
  <2> QED
    BY <2>2, <2>4
<1>7. /\ at \in [1 .. n + 2 -> Nat] /\ at[1] = 1 /\ at[n + 2] = Len(q.chunks) + 1
      /\ \A x \in 1 .. n : x \notin kept => p.chunks[x].kind = "record" /\ p.chunks[x].id \in ids
      /\ \A x \in kept : /\ x \in 1 .. n /\ SameEntry(p.chunks[x], q.chunks[at[x + 1] - 1])
                         /\ p.chunks[x].kind = "record" => p.chunks[x].id \notin ids
  BY <1>3 DEF Settled
<1>8. \A x \in kept : at[x + 1] - 1 \in 1 .. Len(q.chunks)
  BY <1>1, <1>3, SettledPlaces
<1>9. \A j \in 1 .. m : place[j] \in 1 .. n + 1
  BY <1>1 DEF EditsAt
<1>10. ASSUME NEW j \in 1 .. m
       PROVE  /\ j \in Makers(mutations) <=> edits[j].pieces # <<>>
              /\ j \in Makers(mutations) =>
                   edits[j].pieces[1] = Record(mutations[j].id, mutations[j].payload)
  <2>1. /\ mutations[j].kind = "delete" => edits[j].pieces = <<>>
        /\ mutations[j].kind # "delete" =>
             edits[j].pieces = <<Record(mutations[j].id, mutations[j].payload)>>
    BY BatchPieces
  <2>2. j \in Makers(mutations) <=> mutations[j].kind # "delete"
    BY <1>1 DEF Makers
  <2> DEFINE record == Record(mutations[j].id, mutations[j].payload)
  <2>3. <<record>> # <<>> /\ <<record>>[1] = record
    OBVIOUS
  <2> HIDE DEF record
  <2> QED
    BY <2>1, <2>2, <2>3 DEF record
<1>11. \A j \in Makers(mutations) : j \in 1 .. m
  BY <1>1 DEF Makers
<1> HIDE DEF n, kept, pieces, bt, ids
<1>12. ASSUME NEW j \in Makers(mutations)
       PROVE  /\ made[j] \in 1 .. Len(q.chunks) /\ q.chunks[made[j]].kind = "record"
              /\ q.chunks[made[j]].id = mutations[j].id
  <2>1. PICK i \in 1 .. n + 1 : i = place[j]
    BY <1>9, <1>11
  <2> DEFINE h == bt(i)[j]
             a == at[i]
             w == Len(pieces(i))
             l == Len(q.chunks)
  <2>2. h \in 1 .. w /\ pieces(i)[h] = Record(mutations[j].id, mutations[j].payload)
    BY <1>6, <1>10, <1>11, <2>1
  <2>3. a \in Nat \ {0} /\ w \in Nat /\ a + w <= l + 1 /\ q.chunks[a + h - 1] = pieces(i)[h]
    BY <1>5, <2>2
  <2>4. made[j] = a + h - 1
    BY <1>11, <2>1
  <2>5. l \in Nat
    BY <1>4
  <2> HIDE DEF h, a, w, l, made
  <2>6. a + h - 1 \in 1 .. l
    BY <2>2, <2>3, <2>5
  <2>7. q.chunks[made[j]] = Record(mutations[j].id, mutations[j].payload)
    BY <2>2, <2>3, <2>4
  <2> QED
    BY <2>4, <2>6, <2>7 DEF Record, l
<1>13. ASSUME NEW x \in Records(p), p.chunks[x].id \notin ids
       PROVE  stays[x] \in 1 .. Len(q.chunks) /\ SameEntry(p.chunks[x], q.chunks[stays[x]])
  <2>1. x \in 1 .. n /\ x \in kept
    BY <1>4, <1>7, <1>13
  <2>2. stays[x] = at[x + 1] - 1
    BY <2>1
  <2> QED
    BY <1>7, <1>8, <2>1, <2>2
<1>14. ASSUME NEW k \in 1 .. Len(q.chunks)
       PROVE  \/ \E j \in Makers(mutations) : k = made[j]
              \/ \E x \in 1 .. n :
                   /\ k = stays[x] /\ SameEntry(p.chunks[x], q.chunks[k])
                   /\ p.chunks[x].kind = "record" => p.chunks[x].id \notin ids
  <2> DEFINE l == n + 1
  <2>1. l \in Nat /\ at \in [1 .. l + 1 -> Nat] /\ k \in Nat /\ at[1] <= k /\ k < at[l + 1]
    BY <1>4, <1>7
  <2>2. PICK i \in 1 .. l : at[i] <= k /\ k < at[i + 1]
    <3> HIDE DEF l
    <3> QED
      BY <2>1, Bracketed
  <2> DEFINE a == at[i]
             w == Len(pieces(i))
             one == IF i \in kept THEN 1 ELSE 0
  <2>3. a \in Nat \ {0} /\ w \in Nat /\ at[i + 1] = a + w + one /\ a <= k /\ k < at[i + 1]
    BY <1>5, <2>2
  <2>4. (i \in kept /\ one = 1) \/ (i \notin kept /\ one = 0)
    OBVIOUS
  <2>5. CASE i \in kept /\ k = at[i + 1] - 1
    <3>1. i \in 1 .. n /\ k = stays[i]
      BY <1>7, <2>5
    <3>2. SameEntry(p.chunks[i], q.chunks[k])
          /\ (p.chunks[i].kind = "record" => p.chunks[i].id \notin ids)
      BY <1>7, <2>5
    <3> HIDE DEF stays
    <3> QED
      BY <3>1, <3>2
  <2>6. CASE ~ (i \in kept /\ k = at[i + 1] - 1)
    <3> DEFINE h == k - a + 1
               z == at[i + 1]
    <3>1. h \in 1 .. w /\ k = a + h - 1
      <4>1. z = a + w + one /\ k < z /\ ~ (one = 1 /\ k = z - 1) /\ (one = 1 \/ one = 0)
        BY <2>3, <2>4, <2>6
      <4>2. a \in Nat /\ w \in Nat /\ a <= k /\ k \in Nat
        BY <2>1, <2>3
      <4> HIDE DEF a, w, one, z
      <4> QED
        BY <4>1, <4>2
    <3> HIDE DEF h
    <3>2. PICK j \in 1 .. m : place[j] = i /\ edits[j].pieces # <<>> /\ h = bt(i)[j]
      BY <1>6, <3>1
    <3>3. j \in Makers(mutations)
      BY <1>10, <3>2
    <3>4. made[j] = at[i] + bt(i)[j] - 1
      BY <3>2
    <3>5. made[j] = k
      BY <3>1, <3>2, <3>4
    <3> HIDE DEF made
    <3> QED
      BY <3>3, <3>5
  <2> QED
    BY <2>5, <2>6
<1> HIDE DEF made, stays
<1>15. RecordsExchanged(p, q, mutations, made, stays)
  BY <1>12, <1>13, <1>14 DEF RecordsExchanged, n, ids
<1> QED
  BY <1>15

\* ... and so does a call that edits one record.
LEMMA OneEditExchanges ==
  ASSUME NEW p, WellFormed(p), NEW mut, NEW q, WellFormed(q), NEW i, NEW r, NEW l,
         OneEdit(p, q, {mut.id}, i, r, l),
         r = IF mut.kind = "delete" THEN 0 ELSE 1
  PROVE  \E made, stays : RecordsExchanged(p, q, <<mut>>, made, stays)
<1> DEFINE n == Len(p.chunks)
           w == Len(q.chunks)
           made == [j \in {1} |-> i]
           stays == [x \in 1 .. n |-> NewPlace(i, r, l, x)]
<1>1. /\ n \in Nat /\ w \in Nat
      /\ \A x : x \in Records(p) => x \in 1 .. n /\ p.chunks[x].kind = "record"
      /\ \A x \in 1 .. n : p.chunks[x].kind \in {"record", "group"}
  BY ChunksStartInOrder, ChunksEnd DEF Records
<1>2. /\ i \in 1 .. n + 1 /\ r \in {0, 1} /\ l \in {0, 1} /\ w = n + r - l
      /\ r = 1 => q.chunks[i].kind = "record" /\ q.chunks[i].id = mut.id
      /\ l = 1 => /\ i \in 1 .. n
                  /\ p.chunks[i].kind = "record" /\ p.chunks[i].id = mut.id
      /\ \A x \in 1 .. n : x # i \/ l = 0 =>
           /\ SameEntry(p.chunks[x], q.chunks[NewPlace(i, r, l, x)])
           /\ p.chunks[x].kind = "record" => p.chunks[x].id # mut.id
  BY DEF OneEdit
<1>3. /\ Named(<<mut>>) = {mut.id}
      /\ \A j \in Makers(<<mut>>) : j = 1
      /\ 1 \in Makers(<<mut>>) <=> r = 1
      /\ <<mut>>[1] = mut
  BY <1>2 DEF Named, Makers
<1> HIDE DEF n, w
<1>4. ASSUME r = 1 PROVE i \in 1 .. w
  BY <1>1, <1>2, <1>4
<1>5. ASSUME NEW x \in 1 .. n, x # i \/ l = 0
      PROVE  NewPlace(i, r, l, x) \in 1 .. w
  BY <1>1, <1>2, <1>5 DEF NewPlace
<1>6. ASSUME NEW k \in 1 .. w, ~ (r = 1 /\ k = i)
      PROVE  \E x \in 1 .. n : (x # i \/ l = 0) /\ k = NewPlace(i, r, l, x)
  <2> DEFINE x == IF k < i THEN k ELSE k - r + l
  <2>1. x \in 1 .. n /\ (x # i \/ l = 0) /\ k = NewPlace(i, r, l, x)
    BY <1>1, <1>2, <1>6 DEF NewPlace
  <2> QED
    BY <2>1
<1>7. ASSUME NEW j \in Makers(<<mut>>)
      PROVE  /\ made[j] \in 1 .. w /\ q.chunks[made[j]].kind = "record"
             /\ q.chunks[made[j]].id = <<mut>>[j].id
  <2>1. j = 1 /\ r = 1 /\ made[j] = i /\ <<mut>>[j] = mut
    BY <1>3
  <2> QED
    BY <1>2, <1>4, <2>1
<1>8. ASSUME NEW x \in Records(p), p.chunks[x].id \notin Named(<<mut>>)
      PROVE  stays[x] \in 1 .. w /\ SameEntry(p.chunks[x], q.chunks[stays[x]])
  <2>1. x \in 1 .. n /\ p.chunks[x].id # mut.id
    BY <1>1, <1>3, <1>8
  <2>2. x # i \/ l = 0
    BY <1>2, <2>1
  <2>3. stays[x] = NewPlace(i, r, l, x)
    BY <2>1
  <2> QED
    BY <1>2, <1>5, <2>1, <2>2, <2>3
<1>9. ASSUME NEW k \in 1 .. w
      PROVE  \/ \E j \in Makers(<<mut>>) : k = made[j]
             \/ \E x \in 1 .. n :
                  /\ k = stays[x] /\ SameEntry(p.chunks[x], q.chunks[k])
                  /\ p.chunks[x].kind = "record" => p.chunks[x].id \notin Named(<<mut>>)
  <2>1. CASE r = 1 /\ k = i
    <3>1. 1 \in Makers(<<mut>>) /\ k = made[1]
      BY <1>3, <2>1
    <3> HIDE DEF made
    <3> QED
      BY <3>1
  <2>2. CASE ~ (r = 1 /\ k = i)
    <3>1. PICK x \in 1 .. n : (x # i \/ l = 0) /\ k = NewPlace(i, r, l, x)
      BY <1>6, <2>2
    <3>2. k = stays[x]
      BY <3>1
    <3>3. /\ SameEntry(p.chunks[x], q.chunks[k])
          /\ p.chunks[x].kind = "record" => p.chunks[x].id # mut.id
      BY <1>2, <3>1
    <3> HIDE DEF stays
    <3> QED
      BY <1>3, <3>2, <3>3
  <2> QED
    BY <2>1, <2>2
<1> HIDE DEF made, stays
<1>10. RecordsExchanged(p, q, <<mut>>, made, stays)
  BY <1>7, <1>8, <1>9 DEF RecordsExchanged, n, w
<1> QED
  BY <1>10

(***************************************************************************)
(* The packages that allowed edits make.                                   *)
(***************************************************************************)

\* The ids that mutations name are pairs of numbers.
NaturalIds(mutations) ==
  \A j \in DOMAIN mutations : mutations[j].id.index \in Nat /\ mutations[j].id.local \in Nat

\* A header and a list of chunks.
LEMMA MadeOf ==
  ASSUME NEW q, NEW h, NEW chunks, q = [header |-> h, chunks |-> chunks],
         IsHeader(h), Entries(chunks)
  PROVE  q.header = h /\ q.chunks = chunks /\ WellFormed(q)
<1>1. /\ DOMAIN q = {"header", "chunks"} /\ q.header = h /\ q.chunks = chunks
  OBVIOUS
<1> QED
  BY <1>1 DEF WellFormed, Entries

\* A batch of allowed mutations in order is valid and leaves a package that opens.
LEMMA BatchOpens ==
  ASSUME NEW p, Opens(p), p.header.offsets = {},
         NEW mutations, NEW m, IsBatch(mutations, m), NaturalIds(mutations),
         Allowed(p, mutations), Ordered(p, mutations)
  PROVE  BatchValid(p, mutations) /\ Opens(Batched(p, mutations))
<1> DEFINE q == Batched(p, mutations)
           h == BatchHeader(p, mutations)
           edits == ByteEdits(p, mutations)
           place == BatchPlace(p, mutations)
           gain == BatchGain(mutations)
           loss == BatchLoss(p, mutations)
           chunks == Rewritten(p, edits)
<1>1. BatchValid(p, mutations)
  BY AllowedIsValid
<1>2. IsBatchOf(p, mutations, m, edits, place, gain, loss)
  BY <1>1 DEF IsBatchOf
<1>3. EachValid(p, mutations) /\ Decodes(h)
  BY DEF Allowed, EachValid
<1>4. IsHeader(h)
  BY <1>3, BatchHeaderIsHeader DEF NaturalIds
<1>5. h = [field \in DOMAIN NewHeader |-> h[field]] /\ h.offsets = {}
  BY BatchHeaderFields
<1>6. q = Rewrite(p, chunks, h)
  BY DEF Batched
<1> HIDE DEF q, h, edits, place, gain, loss
<1>7. /\ WellFormed(p) /\ Scans(p) /\ m \in Nat /\ DOMAIN mutations = 1 .. m
      /\ EditsAt(p, edits, Named(mutations), m, place, gain, loss)
      /\ GrowsAround(p, edits, m, place, loss)
  BY <1>2, BatchIsEdits
<1>8. \A x \in NewRecords(edits, m) : IsRecord(x)
  <2> SUFFICES ASSUME NEW j \in 1 .. m, edits[j].pieces # <<>>
               PROVE  IsRecord(edits[j].pieces[1])
    BY DEF NewRecords
  <2>1. edits[j].pieces = <<Record(mutations[j].id, mutations[j].payload)>>
    BY <1>2, BatchPieces
  <2>2. edits[j].pieces[1] = Record(mutations[j].id, mutations[j].payload)
    BY <2>1
  <2>3. /\ mutations[j].payload \in Nat
        /\ mutations[j].id.index \in Nat /\ mutations[j].id.local \in Nat
    BY <1>7 DEF IsBatch, NaturalIds
  <2> QED
    BY <2>2, <2>3 DEF IsRecord, Record
<1>9. Entries(chunks)
  BY <1>7, <1>8, RewrittenEntries
<1> HIDE DEF chunks
<1>10. q = [header |-> h, chunks |-> chunks]
  BY <1>5, <1>6, RewriteWithoutOffsets
<1>11. q.header = h /\ q.chunks = chunks /\ WellFormed(q)
  BY <1>4, <1>9, <1>10, MadeOf
<1>12. q.chunks = Rewritten(p, edits)
  BY <1>11 DEF chunks
<1>13. Scans(q)
  BY <1>2, <1>11, <1>12, BatchScans
<1>14. PICK made, stays : RecordsExchanged(p, q, mutations, made, stays)
  BY <1>2, <1>11, <1>12, BatchExchanges
<1>15. Opens(q)
  BY <1>3, <1>11, <1>13, <1>14, ExchangedOpens DEF h
<1> QED
  BY <1>1, <1>15 DEF q

\* Headers with the same fields.
LEMMA SameHeader ==
  ASSUME NEW g, NEW h, g = [field \in DOMAIN NewHeader |-> g[field]],
         h = [field \in DOMAIN NewHeader |-> h[field]],
         g.class = h.class, g.next = h.next, g.count = h.count, g.owned = h.owned,
         g.text = h.text, g.dependencies = h.dependencies,
         g.incompatibilities = h.incompatibilities, g.streaming = h.streaming,
         g.offsets = h.offsets
  PROVE  g = h
<1>1. DOMAIN NewHeader = {"class", "next", "count", "owned", "text", "dependencies",
                          "incompatibilities", "streaming", "offsets"}
  BY DEF NewHeader
<1>2. \A field \in DOMAIN NewHeader : g[field] = h[field]
  BY <1>1
<1>3. [field \in DOMAIN NewHeader |-> g[field]] = [field \in DOMAIN NewHeader |-> h[field]]
  BY <1>2
<1> QED
  BY <1>3

\* The header that one mutation makes, as a batch of it makes it.
LEMMA OneMutationHeader ==
  ASSUME NEW p, Opens(p), NEW mut, mut.id.local \in Nat
  PROVE  LET h == BatchHeader(p, <<mut>>)
             mine == mut.id.index = OwnedIndex(p.header)
             change == IF mut.kind = "insert" THEN 1 ELSE IF mut.kind = "delete" THEN -1 ELSE 0
         IN /\ h.count = p.header.count + change
            /\ h.owned = p.header.owned + (IF mine THEN change ELSE 0)
            /\ h.next = IF mut.kind = "insert" /\ mine THEN NextAfter(p.header, mut.id)
                                                       ELSE p.header.next
<1> DEFINE h == BatchHeader(p, <<mut>>)
           mine == mut.id.index = OwnedIndex(p.header)
           inserts == Those(<<mut>>, "insert")
           deletes == Those(<<mut>>, "delete")
           owned1 == OwnedOf(p.header, <<mut>>, inserts)
           owned2 == OwnedOf(p.header, <<mut>>, deletes)
           behind == {<<mut>>[j].id.local + 1 : j \in owned1}
           next == p.header.next
           local == mut.id.local
<1>1. DOMAIN <<mut>> = {1} /\ <<mut>>[1] = mut
  OBVIOUS
<1>2. /\ inserts = IF mut.kind = "insert" THEN {1} ELSE {}
      /\ deletes = IF mut.kind = "delete" THEN {1} ELSE {}
      /\ owned1 = IF mut.kind = "insert" /\ mine THEN {1} ELSE {}
      /\ owned2 = IF mut.kind = "delete" /\ mine THEN {1} ELSE {}
  BY <1>1 DEF Those, OwnedOf
<1>3. behind = IF mut.kind = "insert" /\ mine THEN {local + 1} ELSE {}
  BY <1>1, <1>2
<1>4. Cardinality({}) = 0 /\ Cardinality({1}) = 1
  BY FS_EmptySet, FS_Singleton
<1>5. /\ h.count = p.header.count + (Cardinality(inserts) - Cardinality(deletes))
      /\ h.owned = p.header.owned
                     + (Cardinality(owned1) - Cardinality(owned2))
      /\ h.next = Max({next} \cup behind)
  BY BatchHeaderFields
<1>6. next \in Nat /\ local \in Nat /\ p.header.count \in Nat /\ p.header.owned \in Nat
  BY HeaderTypes DEF Opens, WellFormed, IsHeader
<1>7. Max({next}) = next
  <2>1. next \in {next} /\ {next} \in SUBSET (0 .. next)
    BY <1>6
  <2>2. Max({next}) \in {next}
    <3> HIDE DEF next
    <3> QED
      BY <1>6, <2>1, Greatest
  <2> QED
    BY <2>2
<1>8. Max({next, local + 1}) = NextAfter(p.header, mut.id)
  <2> DEFINE T == {next, local + 1}
             n == next + local + 1
             x == Max(T)
  <2>1. n \in Nat /\ T \in SUBSET (0 .. n) /\ next \in T /\ local + 1 \in T
    BY <1>6
  <2>2. x \in T /\ next <= x /\ local + 1 <= x
    <3> HIDE DEF T, n, next, local
    <3> QED
      BY <2>1, Greatest
  <2>3. x = IF local + 1 > next THEN local + 1 ELSE next
    <3>1. x = next \/ x = local + 1
      BY <2>2
    <3> HIDE DEF x, next, local
    <3> QED
      BY <1>6, <2>2, <3>1
  <2> QED
    BY <2>3 DEF NextAfter
<1>9. {next} \cup {} = {next} /\ {next} \cup {local + 1} = {next, local + 1}
  OBVIOUS
<1>10. h.next = IF mut.kind = "insert" /\ mine THEN NextAfter(p.header, mut.id) ELSE next
  <2> HIDE DEF h, mine, next, local, behind
  <2> QED
    BY <1>3, <1>5, <1>7, <1>8, <1>9
<1> HIDE DEF h, inserts, deletes, owned1, owned2, mine
<1> DEFINE change == IF mut.kind = "insert" THEN 1 ELSE IF mut.kind = "delete" THEN -1 ELSE 0
<1>11. /\ Cardinality(inserts) - Cardinality(deletes) = change
       /\ Cardinality(owned1) - Cardinality(owned2) = IF mine THEN change ELSE 0
  <2>1. /\ Cardinality(inserts) = IF mut.kind = "insert" THEN 1 ELSE 0
        /\ Cardinality(deletes) = IF mut.kind = "delete" THEN 1 ELSE 0
        /\ Cardinality(owned1) = IF mut.kind = "insert" /\ mine THEN 1 ELSE 0
        /\ Cardinality(owned2) = IF mut.kind = "delete" /\ mine THEN 1 ELSE 0
    BY <1>2, <1>4
  <2> QED
    BY <2>1
<1> QED
  BY <1>5, <1>10, <1>11 DEF h, mine

\* The calls that edit one record make the same headers.
LEMMA CallHeaders ==
  ASSUME NEW p, Opens(p), NEW mut, mut.id.local \in Nat
  PROVE  /\ mut.kind = "replace" => BatchHeader(p, <<mut>>) = p.header
         /\ mut.kind = "delete" => BatchHeader(p, <<mut>>) = HeaderWithout(p, mut.id)
         /\ mut.kind = "insert" => BatchHeader(p, <<mut>>) = HeaderWith(p, mut.id)
<1> DEFINE h == BatchHeader(p, <<mut>>)
           mine == mut.id.index = OwnedIndex(p.header)
<1>1. /\ h = [field \in DOMAIN NewHeader |-> h[field]]
      /\ h.text = p.header.text /\ h.class = p.header.class
      /\ h.dependencies = p.header.dependencies /\ h.streaming = p.header.streaming
      /\ h.incompatibilities = p.header.incompatibilities /\ h.offsets = p.header.offsets
  BY BatchHeaderFields
<1>2. p.header = [field \in DOMAIN NewHeader |-> p.header[field]]
  BY DEF Opens, WellFormed, IsHeader
<1>3. DOMAIN NewHeader = {"class", "next", "count", "owned", "text", "dependencies",
                          "incompatibilities", "streaming", "offsets"}
  BY DEF NewHeader
<1>4. p.header.count \in Nat /\ p.header.owned \in Nat
  BY DEF Opens, WellFormed, IsHeader
<1>5. ASSUME mut.kind = "replace" PROVE h = p.header
  <2>1. /\ h.count = p.header.count + 0
        /\ h.owned = p.header.owned + (IF mine THEN 0 ELSE 0)
        /\ h.next = p.header.next
    BY <1>5, OneMutationHeader
  <2> HIDE DEF h, mine
  <2>2. h.count = p.header.count /\ h.owned = p.header.owned
    BY <1>4, <2>1
  <2> QED
    BY <1>1, <1>2, <2>1, <2>2, SameHeader
<1>6. ASSUME mut.kind = "delete" PROVE h = HeaderWithout(p, mut.id)
  <2> DEFINE g == HeaderWithout(p, mut.id)
  <2>1. /\ h.count = p.header.count + (-1)
        /\ h.owned = p.header.owned + (IF mine THEN -1 ELSE 0)
        /\ h.next = p.header.next
    BY <1>6, OneMutationHeader
  <2>2. /\ g = [field \in DOMAIN NewHeader |-> g[field]]
        /\ g.count = p.header.count - 1
        /\ g.owned = p.header.owned - (IF mine THEN 1 ELSE 0)
        /\ g.next = p.header.next /\ g.text = p.header.text /\ g.class = p.header.class
        /\ g.dependencies = p.header.dependencies /\ g.streaming = p.header.streaming
        /\ g.incompatibilities = p.header.incompatibilities /\ g.offsets = p.header.offsets
    BY <1>2, <1>3 DEF HeaderWithout
  <2> HIDE DEF g, h, mine
  <2>3. h.count = g.count /\ h.owned = g.owned
    BY <1>4, <2>1, <2>2
  <2>4. h = g
    BY <1>1, <2>1, <2>2, <2>3, SameHeader
  <2> QED
    BY <2>4 DEF g
<1>7. ASSUME mut.kind = "insert" PROVE h = HeaderWith(p, mut.id)
  <2> DEFINE g == HeaderWith(p, mut.id)
  <2>1. /\ h.count = p.header.count + 1
        /\ h.owned = p.header.owned + (IF mine THEN 1 ELSE 0)
        /\ h.next = IF mine THEN NextAfter(p.header, mut.id) ELSE p.header.next
    BY <1>7, OneMutationHeader
  <2>2. /\ g = [field \in DOMAIN NewHeader |-> g[field]]
        /\ g.count = p.header.count + 1
        /\ g.owned = IF mine THEN p.header.owned + 1 ELSE p.header.owned
        /\ g.next = IF mine THEN NextAfter(p.header, mut.id) ELSE p.header.next
        /\ g.text = p.header.text /\ g.class = p.header.class
        /\ g.dependencies = p.header.dependencies /\ g.streaming = p.header.streaming
        /\ g.incompatibilities = p.header.incompatibilities /\ g.offsets = p.header.offsets
    <3>1. CASE mine
      BY <1>2, <1>3, <3>1 DEF HeaderWith
    <3>2. CASE ~ mine
      BY <1>2, <1>3, <3>2 DEF HeaderWith
    <3> QED
      BY <3>1, <3>2
  <2> HIDE DEF g, h, mine
  <2>3. h.count = g.count /\ h.owned = g.owned
    BY <1>4, <2>1, <2>2
  <2>4. h = g
    BY <1>1, <2>1, <2>2, <2>3, SameHeader
  <2> QED
    BY <2>4 DEF g
<1> QED
  BY <1>5, <1>6, <1>7 DEF h

\* One mutation with a natural payload and id.
IsCall(mut) ==
  /\ mut.kind \in {"insert", "replace", "delete"} /\ mut.payload \in Nat
  /\ mut.id.index \in Nat /\ mut.id.local \in Nat

\* An edit of one record leaves a package that opens.
LEMMA OneEditOpens ==
  ASSUME NEW p, Opens(p), p.header.offsets = {},
         NEW mut, IsCall(mut), Allowed(p, <<mut>>),
         NEW q, WellFormed(q), q.header = BatchHeader(p, <<mut>>),
         NEW i, NEW r, NEW l, OneEdit(p, q, {mut.id}, i, r, l),
         r = (IF mut.kind = "delete" THEN 0 ELSE 1),
         NEW to, NEW grown, grown = ContainingGroups(p, Start(p, i), to),
         GroupsGrow(p, q, i, r, l, grown)
  PROVE  Opens(q)
<1>1. WellFormed(p) /\ Scans(p)
  BY DEF Opens, Indexes
<1>2. Scans(q)
  BY <1>1, OneEditScans
<1>3. PICK made, stays : RecordsExchanged(p, q, <<mut>>, made, stays)
  BY <1>1, OneEditExchanges
<1>4. IsBatch(<<mut>>, 1)
  BY DEF IsBatch, IsCall
<1>5. EachValid(p, <<mut>>) /\ Decodes(BatchHeader(p, <<mut>>))
  BY DEF Allowed, EachValid
<1> QED
  BY <1>2, <1>3, <1>4, <1>5, ExchangedOpens

\* The header that it makes is a header.
LEMMA CallHeaderIsHeader ==
  ASSUME NEW p, Opens(p), NEW mut, IsCall(mut), Allowed(p, <<mut>>)
  PROVE  /\ IsHeader(BatchHeader(p, <<mut>>))
         /\ BatchHeader(p, <<mut>>).offsets = p.header.offsets
<1>1. IsBatch(<<mut>>, 1)
  BY DEF IsBatch, IsCall
<1>2. EachValid(p, <<mut>>)
  BY DEF Allowed, EachValid
<1>3. \A j \in DOMAIN <<mut>> : <<mut>>[j].id.local \in Nat
  BY DEF IsCall
<1>4. IsHeader(BatchHeader(p, <<mut>>))
  BY <1>1, <1>2, <1>3, BatchHeaderIsHeader
<1>5. BatchHeader(p, <<mut>>).offsets = p.header.offsets
  BY BatchHeaderFields
<1> QED
  BY <1>4, <1>5

\* replace_record_payload and replace_subrecord ...
LEMMA ReplacedOpens ==
  ASSUME NEW p, Opens(p), p.header.offsets = {},
         NEW id, NEW payload, NEW mut, mut = Mutation("replace", id, payload, Root),
         IsCall(mut), Allowed(p, <<mut>>)
  PROVE  id \in Ids(p) /\ Opens(Replaced(p, id, payload))
<1> DEFINE q == Replaced(p, id, payload)
           i == IndexOf(p, id)
           grown == ContainingGroups(p, Start(p, i), End(p, i))
<1>1. /\ mut.kind = "replace" /\ mut.id = id /\ mut.payload = payload
      /\ payload \in Nat /\ id.local \in Nat
  BY DEF Mutation, IsCall
<1>2. id \in Ids(p)
  <2>1. MutationValid(p, mut)
    BY DEF Allowed
  <2> QED
    BY <1>1, <2>1 DEF MutationValid
<1>3. p.header = BatchHeader(p, <<mut>>)
  BY <1>1, CallHeaders
<1>4. /\ DOMAIN q = {"header", "chunks"} /\ q.header = p.header /\ Entries(q.chunks)
  <2>1. DOMAIN p = {"header", "chunks"}
    BY DEF Opens, WellFormed
  <2>2. DOMAIN q = {"header", "chunks"} /\ q.header = p.header
    BY <2>1 DEF Replaced
  <2>3. Entries(q.chunks)
    BY <1>1, <1>2, ReplacedEntries
  <2> QED
    BY <2>2, <2>3
<1>5. WellFormed(q)
  BY <1>4 DEF WellFormed, Entries, Opens
<1>6. OneEdit(p, q, {id}, i, 1, 1) /\ GroupsGrow(p, q, i, 1, 1, grown)
  BY <1>1, <1>2, <1>5, ReplacedIsOneEdit
<1> HIDE DEF q, i, grown
<1>7. q.header = BatchHeader(p, <<mut>>)
  BY <1>3, <1>4
<1>8. Opens(q)
  BY <1>1, <1>5, <1>6, <1>7, OneEditOpens DEF grown
<1> QED
  BY <1>2, <1>8 DEF q

\* ... remove_record ...
LEMMA RemovedOpens ==
  ASSUME NEW p, Opens(p), p.header.offsets = {},
         NEW id, NEW mut, mut = Mutation("delete", id, 0, Root),
         IsCall(mut), Allowed(p, <<mut>>)
  PROVE  id \in Ids(p) /\ Opens(Removed(p, id))
<1> DEFINE q == Removed(p, id)
           i == IndexOf(p, id)
           grown == ContainingGroups(p, Start(p, i), End(p, i))
           chunks == RemoveAt(Resize(p, grown, - RecordSize(p.chunks[i])), i)
           h == HeaderWithout(p, id)
<1>1. mut.kind = "delete" /\ mut.id = id /\ id.local \in Nat
  BY DEF Mutation, IsCall
<1>2. id \in Ids(p)
  <2>1. MutationValid(p, mut)
    BY DEF Allowed
  <2> QED
    BY <1>1, <2>1 DEF MutationValid
<1>3. h = BatchHeader(p, <<mut>>)
  BY <1>1, CallHeaders
<1>4. IsHeader(h) /\ h.offsets = {}
  BY <1>3, CallHeaderIsHeader
<1>5. q = Rewrite(p, chunks, h)
  BY DEF Removed
<1>6. Entries(q.chunks)
  BY <1>2, RemovedEntries
<1> HIDE DEF q, i, grown, chunks, h
<1>7. q = [header |-> h, chunks |-> chunks]
  BY <1>4, <1>5, RewriteWithoutOffsets DEF IsHeader
<1>8. q.header = h /\ WellFormed(q)
  <2>1. Entries(chunks)
    BY <1>6, <1>7
  <2> QED
    BY <1>4, <1>7, <2>1, MadeOf
<1>9. OneEdit(p, q, {id}, i, 0, 1) /\ GroupsGrow(p, q, i, 0, 1, grown)
  BY <1>2, <1>8, RemovedIsOneEdit DEF q, i, grown
<1>10. q.header = BatchHeader(p, <<mut>>)
  BY <1>3, <1>8
<1>11. Opens(q)
  BY <1>1, <1>8, <1>9, <1>10, OneEditOpens DEF grown
<1> QED
  BY <1>2, <1>11 DEF q

\* ... insert_record and insert_record_with_id.
LEMMA InsertedOpens ==
  ASSUME NEW p, Opens(p), p.header.offsets = {},
         NEW target, NEW id, NEW payload, NEW mut, mut = Mutation("insert", id, payload, target),
         IsCall(mut), Allowed(p, <<mut>>)
  PROVE  CanInsert(p, id) /\ IsTarget(p, target) /\ Opens(Inserted(p, target, id, payload))
<1> DEFINE q == Inserted(p, target, id, payload)
           h == HeaderWith(p, id)
<1>1. /\ mut.kind = "insert" /\ mut.id = id /\ mut.payload = payload /\ mut.target = target
      /\ payload \in Nat /\ {id.index, id.local} \subseteq Nat
  BY DEF Mutation, IsCall
<1>2. CanInsert(p, id) /\ IsTarget(p, target) /\ id \notin Ids(p)
  <2>1. MutationValid(p, mut)
    BY DEF Allowed
  <2> QED
    BY <1>1, <2>1 DEF MutationValid, CanInsert
<1>3. h = BatchHeader(p, <<mut>>)
  BY <1>1, CallHeaders
<1>4. IsHeader(h) /\ h.offsets = {}
  BY <1>3, CallHeaderIsHeader
<1>5. PICK chunks : q = Rewrite(p, chunks, h)
  BY DEF Inserted
<1>6. Entries(q.chunks)
  BY <1>1, <1>2, InsertedEntries
<1> HIDE DEF q, h
<1>7. q = [header |-> h, chunks |-> chunks]
  BY <1>4, <1>5, RewriteWithoutOffsets DEF IsHeader
<1>8. q.header = h /\ WellFormed(q)
  <2>1. Entries(chunks)
    BY <1>6, <1>7
  <2> QED
    BY <1>4, <1>7, <2>1, MadeOf
<1>9. PICK i : IsPutAt(p, q, target, id, payload, i)
  BY <1>1, <1>2, <1>8, InsertedIsOneEdit DEF q
<1> DEFINE grown == ContainingGroups(p, Start(p, i), Start(p, i))
<1>10. OneEdit(p, q, {id}, i, 1, 0) /\ GroupsGrow(p, q, i, 1, 0, grown)
  BY <1>9 DEF IsPutAt
<1>11. q.header = BatchHeader(p, <<mut>>)
  BY <1>3, <1>8
<1> HIDE DEF grown
<1>12. Opens(q)
  BY <1>1, <1>8, <1>10, <1>11, OneEditOpens DEF grown
<1> QED
  BY <1>2, <1>12 DEF q

(***************************************************************************)
(* Every call.                                                             *)
(***************************************************************************)

\* The mutations of the last call were not refused, if they were allowed and in order.
Accepted ==
  /\ last'.mutations # <<>>
  /\ package.header.offsets = {}
  /\ Allowed(package, last'.mutations)
  /\ Ordered(package, last'.mutations)
  => last'.ok

\* reopen does not refuse an edit that is valid and leaves a package that opens.
LEMMA ReopenAccepts ==
  ASSUME NEW op, NEW mutations, NEW valid, NEW p, Reopen(op, mutations, valid, p),
         /\ package.header.offsets = {}
         /\ Allowed(package, mutations)
         /\ Ordered(package, mutations)
         => valid /\ Opens(p)
  PROVE  Accepted
<1>1. CASE valid /\ Opens(p) /\ Called(op, mutations, TRUE)
  BY <1>1 DEF Accepted, Called
<1>2. CASE ~ (valid /\ Opens(p)) /\ Called(op, mutations, FALSE)
  <2>1. last'.mutations = mutations
    BY <1>2 DEF Called
  <2> QED
    BY <1>2, <2>1 DEF Accepted
<1> QED
  BY <1>1, <1>2 DEF Reopen

\* A call without mutations is another matter.
LEMMA NothingToAccept ==
  ASSUME last'.mutations = <<>>
  PROVE  Accepted
  BY DEF Accepted

\* No call refuses what is allowed.
LEMMA CallIsAccepted ==
  ASSUME FilesInv, Next
  PROVE  Accepted
<1>0. /\ Opens(package) /\ Payloads \subseteq Nat
      /\ \A id \in KnownIds : id.index \in Nat /\ id.local \in Nat
  BY SessionAssumption DEF FilesInv
<1>1. ASSUME NEW id \in KnownIds, NEW payload \in Payloads, ReplaceRecord(id, payload)
      PROVE  Accepted
  <2> DEFINE p == Replaced(package, id, payload)
             mut == Mutation("replace", id, payload, Root)
  <2>1. IsCall(mut)
    BY <1>0 DEF IsCall, Mutation
  <2>2. ASSUME package.header.offsets = {}, Allowed(package, <<mut>>)
        PROVE  id \in Ids(package) /\ Opens(p)
    BY <1>0, <2>1, <2>2, ReplacedOpens
  <2>3. Reopen("replace", <<mut>>, id \in Ids(package), p)
    BY <1>1 DEF ReplaceRecord
  <2> HIDE DEF p, mut
  <2> QED
    BY <2>2, <2>3, ReopenAccepts
<1>2. ASSUME NEW id \in KnownIds, RemoveRecord(id)
      PROVE  Accepted
  <2> DEFINE p == Removed(package, id)
             mut == Mutation("delete", id, 0, Root)
  <2>1. IsCall(mut)
    BY <1>0 DEF IsCall, Mutation
  <2>2. ASSUME package.header.offsets = {}, Allowed(package, <<mut>>)
        PROVE  id \in Ids(package) /\ Opens(p)
    BY <1>0, <2>1, <2>2, RemovedOpens
  <2>3. Reopen("remove", <<mut>>, id \in Ids(package), p)
    BY <1>2 DEF RemoveRecord
  <2> HIDE DEF p, mut
  <2> QED
    BY <2>2, <2>3, ReopenAccepts
<1>3. ASSUME NEW op, NEW target, NEW id, id.index \in Nat, id.local \in Nat,
             NEW payload \in Payloads,
             Reopen(op, <<Mutation("insert", id, payload, target)>>,
                    CanInsert(package, id) /\ IsTarget(package, target),
                    Inserted(package, target, id, payload))
      PROVE  Accepted
  <2> DEFINE p == Inserted(package, target, id, payload)
             mut == Mutation("insert", id, payload, target)
             valid == CanInsert(package, id) /\ IsTarget(package, target)
  <2>1. IsCall(mut)
    BY <1>0, <1>3 DEF IsCall, Mutation
  <2>2. ASSUME package.header.offsets = {}, Allowed(package, <<mut>>)
        PROVE  valid /\ Opens(p)
    BY <1>0, <2>1, <2>2, InsertedOpens
  <2>3. Reopen(op, <<mut>>, valid, p)
    BY <1>3
  <2> HIDE DEF p, mut, valid
  <2> QED
    BY <2>2, <2>3, ReopenAccepts
<1>4. ASSUME NEW mutations \in Batches, ApplyBatch(mutations)
      PROVE  Accepted
  <2>1. PICK m \in 0 .. MaxBatch : mutations \in [1 .. m -> Mutations]
    BY DEF Batches
  <2>2. CASE m = 0
    <3>1. mutations = <<>>
      BY <2>1, <2>2
    <3>2. last'.mutations = <<>>
      BY <1>4, <3>1, ReopenAnswers DEF ApplyBatch, Called
    <3> QED
      BY <3>2, NothingToAccept
  <2>3. CASE m # 0
    <3>1. mutations # <<>>
      BY <2>1, <2>3
    <3>2. Reopen("batch", mutations, BatchValid(package, mutations), Batched(package, mutations))
      BY <1>4, <3>1 DEF ApplyBatch
    <3>3. ASSUME NEW x \in Mutations
          PROVE  /\ x.kind \in {"insert", "replace", "delete"} /\ x.payload \in Nat
                 /\ x.id.index \in Nat /\ x.id.local \in Nat
      BY <1>0 DEF Mutations, Mutation
    <3>4. DOMAIN mutations = 1 .. m /\ \A j \in 1 .. m : mutations[j] \in Mutations
      BY <2>1
    <3>5. IsBatch(mutations, m)
      <4>1. m \in Nat
        BY <2>1, SessionAssumption
      <4> QED
        BY <2>3, <3>3, <3>4, <4>1 DEF IsBatch
    <3>6. NaturalIds(mutations)
      BY <3>3, <3>4 DEF NaturalIds
    <3>7. ASSUME package.header.offsets = {},
                 Allowed(package, mutations), Ordered(package, mutations)
          PROVE  BatchValid(package, mutations) /\ Opens(Batched(package, mutations))
      BY <1>0, <3>5, <3>6, <3>7, BatchOpens
    <3> QED
      BY <3>2, <3>7, ReopenAccepts
  <2> QED
    BY <2>2, <2>3
<1>5. ASSUME NEW op, NEW valid, NEW h, EditHeader(op, valid, h)
      PROVE  Accepted
  BY <1>5, ReopenAnswers, NothingToAccept DEF EditHeader
<1>6. ASSUME NEW class \in Classes, NEW text \in Texts, SetMetadata(class, text)
      PROVE  Accepted
  BY <1>5, <1>6 DEF SetMetadata
<1>7. ASSUME NEW d \in OtherPackages, AddDependency(d) \/ RemoveDependency(d)
      PROVE  Accepted
  BY <1>5, <1>7 DEF AddDependency, RemoveDependency
<1>8. ASSUME NEW d \in Rivals, AddIncompatibility(d) \/ RemoveIncompatibility(d)
      PROVE  Accepted
  BY <1>5, <1>8 DEF AddIncompatibility, RemoveIncompatibility
<1>9. ASSUME NEW list \in StreamingLists, ReplaceStreamingOverrides(list)
      PROVE  Accepted
  BY <1>5, <1>9 DEF ReplaceStreamingOverrides
<1>10. ASSUME RebuildSceneOffsets
       PROVE  Accepted
  BY <1>10, ReopenAnswers, NothingToAccept DEF RebuildSceneOffsets
<1>11. ASSUME RefuseSave \/ WriteFails \/ \E q \in Paths : Save(q)
       PROVE  Accepted
  BY <1>11, NothingToAccept DEF RefuseSave, WriteFails, Save, Called
<1>12. ASSUME NEW q \in Paths, OpenForEditing(q) \/ CreatePackage(q)
       PROVE  Accepted
  BY <1>12, NothingToAccept DEF OpenForEditing, CreatePackage, Called
<1>13. ASSUME NEW target \in Targets, NEW payload \in Payloads, InsertRecord(target, payload)
       PROVE  Accepted
  <2> DEFINE id == RecordId(OwnedIndex(package.header), package.header.next)
  <2>1. id.index \in Nat /\ id.local \in Nat
    <3>1. OwnedIndex(package.header) \in Nat /\ package.header.next \in Nat
      BY <1>0, HeaderTypes
    <3> QED
      BY <3>1 DEF RecordId
  <2>2. Reopen("assign", <<Mutation("insert", id, payload, target)>>,
               CanInsert(package, id) /\ IsTarget(package, target),
               Inserted(package, target, id, payload))
    BY <1>13 DEF InsertRecord
  <2> HIDE DEF id
  <2> QED
    BY <1>3, <2>1, <2>2
<1>14. ASSUME NEW target \in Targets, NEW id \in KnownIds, NEW payload \in Payloads,
              InsertRecordWithId(target, id, payload)
       PROVE  Accepted
  BY <1>0, <1>3, <1>14 DEF InsertRecordWithId
<1> QED
  BY <1>1, <1>2, <1>4, <1>6, <1>7, <1>8, <1>9, <1>10, <1>11, <1>12, <1>13, <1>14 DEF Next

\* No allowed edit is refused, one record at a time or a batch in order (Ordered): the sizes,
\* counts and ids that the edit writes, however many edits start at one place and however many
\* groups end there, pass every check that reopening makes, from the overlap of the edits of
\* apply_record_batch to the groups that must hold what starts in them.  That is so for a
\* header without scene offsets and within its limits (Allowed).
THEOREM AllowedEditsAlwaysAccepted == Spec => AllowedEditsAreAccepted
<1>1. ASSUME FilesInv, [Next]_vars
      PROVE  [Accepted]_vars
  <2>1. CASE Next
    BY <1>1, <2>1, CallIsAccepted
  <2>2. CASE UNCHANGED vars
    BY <2>2
  <2> QED
    BY <1>1, <2>1, <2>2
<1>2. [Accepted]_vars
        => [/\ last'.mutations # <<>>
            /\ package.header.offsets = {}
            /\ Allowed(package, last'.mutations)
            /\ Ordered(package, last'.mutations)
            => last'.ok]_vars
  BY DEF Accepted
<1> QED
  BY <1>1, <1>2, FilesInvariant, PTL DEF Spec, AllowedEditsAreAccepted

(***************************************************************************)
(* Walks along the chunks.                                                 *)
(***************************************************************************)

\* The first part of a sequence.
LEMMA SubSeqOf ==
  ASSUME NEW X, NEW s \in Seq(X), NEW m \in 0 .. Len(s)
  PROVE  /\ SubSeq(s, 1, m) \in Seq(X)
         /\ Len(SubSeq(s, 1, m)) = m
         /\ \A k \in 1 .. m : SubSeq(s, 1, m)[k] = s[k]
OBVIOUS

\* A walk along S in its order that leaves out nothing is the beginning of the ascending
\* list of S, and all of it when it came by every element.
LEMMA WalkBegins ==
  ASSUME NEW n \in Nat, NEW S \in SUBSET (1 .. n), NEW list \in Seq(S),
         \A k, l \in 1 .. Len(list) : k < l => list[k] < list[l],
         \A x \in S : \A k \in 1 .. Len(list) : x < list[k] => x \in ToSet(list)
  PROVE  /\ IsPrefix(list, Ascending(S))
         /\ S \subseteq ToSet(list) => list = Ascending(S)
<1> DEFINE m == Len(list)
           a == Ascending(S)
           c == Cardinality(S)
<1>1. S \in SUBSET Int /\ IsFiniteSet(S)
  <2>1. IsFiniteSet(1 .. n)
    BY PlacesAreFinite
  <2>2. IsFiniteSet(S)
    BY <2>1, FS_Subset
  <2> QED
    BY <2>2
<1>2. m \in Nat /\ list \in [1 .. m -> S]
  OBVIOUS
<1>3. \A x \in S : \A k \in 1 .. m : x < list[k] => \E l \in 1 .. m : list[l] = x
  <2>1. ToSet(list) = {list[l] : l \in 1 .. m}
    BY <1>2 DEF ToSet
  <2>2. \A x \in ToSet(list) : \E l \in 1 .. m : list[l] = x
    BY <2>1
  <2> QED
    BY <2>2
<1>4. m <= c /\ \A k \in 1 .. m : a[k] = list[k]
  BY <1>1, <1>2, <1>3, AscendingBegins
<1>5. c \in Nat /\ a \in [1 .. c -> S]
  BY <1>1, AscendingLists
<1> HIDE DEF a, c
<1>6. a \in Seq(S) /\ Len(a) = c
  BY <1>5
<1>7. IsPrefix(list, a)
  <2>1. m \in 0 .. Len(a) /\ m \in 0 .. Len(list)
    BY <1>2, <1>4, <1>6
  <2>2. /\ SubSeq(a, 1, m) \in Seq(S) /\ Len(SubSeq(a, 1, m)) = m
        /\ \A k \in 1 .. m : SubSeq(a, 1, m)[k] = a[k]
    BY <1>6, <2>1, SubSeqOf
  <2>3. /\ SubSeq(list, 1, m) \in Seq(S) /\ Len(SubSeq(list, 1, m)) = m
        /\ \A k \in 1 .. m : SubSeq(list, 1, m)[k] = list[k]
    BY <2>1, SubSeqOf
  <2>4. SubSeq(a, 1, m) = SubSeq(list, 1, m)
    BY <1>4, <2>2, <2>3
  <2> QED
    BY <1>4, <1>6, <2>4 DEF IsPrefix
<1>8. ASSUME S \subseteq ToSet(list) PROVE list = a
  <2>1. list \in Surjection(1 .. m, S)
    BY <1>2, <1>8 DEF Surjection, ToSet
  <2>2. IsFiniteSet(1 .. m) /\ Cardinality(1 .. m) = m
    BY <1>2, PlacesAreFinite
  <2>3. c <= m
    BY <2>1, <2>2, FS_Surjection DEF c
  <2> HIDE DEF m
  <2>4. m \in Nat /\ m <= c /\ c \in Nat
    BY <1>2, <1>4, <1>5
  <2>5. c = m
    BY <2>3, <2>4
  <2>6. list \in [1 .. m -> S] /\ a \in [1 .. m -> S] /\ \A k \in 1 .. m : a[k] = list[k]
    BY <1>2, <1>4, <1>5, <2>5
  <2>7. list = [k \in 1 .. m |-> list[k]] /\ a = [k \in 1 .. m |-> a[k]]
    BY <2>6
  <2> QED
    BY <2>6, <2>7, Zenon
<1> QED
  BY <1>7, <1>8 DEF a

\* Where the groups nest, they end where a chunk starts, or the content ends.
LEMMA ScannedIsAligned ==
  ASSUME NEW p, WellFormed(p), Scans(p)
  PROVE  Aligned(p)
<1>1. DOMAIN Starts(p) = 1 .. Len(p.chunks) + 1
  BY ChunksStartInOrder, StartsAdd
<1>2. ASSUME NEW g \in Groups(p) PROVE End(p, g) \in ToSet(Starts(p))
  <2>1. PICK j \in 1 .. Len(p.chunks) + 1 : End(p, g) = Start(p, j)
    BY GroupsEndAtStarts
  <2> QED
    BY <1>1, <2>1 DEF ToSet, Start
<1> QED
  BY <1>2 DEF Aligned

(***************************************************************************)
(* The stack of readers.  A reader ends where the one around it goes on,   *)
(* and the outermost where the content ends.                               *)
(***************************************************************************)

\* The position of the k-th reader, and of what is around them all.
Position(total, stack, k) == IF k = 0 THEN total ELSE stack[k].position

\* A reader of a group.
ReaderRecords == [position : Int, end : Int]

\* Each reader ends where the one below it reads on, and none reads beyond its end.
Nested(total, stack) ==
  /\ stack \in Seq(ReaderRecords)
  /\ \A k \in 1 .. Len(stack) : /\ stack[k].end = Position(total, stack, k - 1)
                                /\ stack[k].position <= stack[k].end

\* The positions of readers are numbers.
LEMMA ReaderTypes ==
  ASSUME NEW total, NEW stack, Nested(total, stack)
  PROVE  /\ Len(stack) \in Nat /\ DOMAIN stack = 1 .. Len(stack)
         /\ \A k \in 1 .. Len(stack) : stack[k].position \in Int /\ stack[k].end \in Int
<1>1. stack \in Seq(ReaderRecords)
  BY DEF Nested
<1>2. \A k \in 1 .. Len(stack) : stack[k] \in ReaderRecords
  BY <1>1
<1>3. ASSUME NEW k \in 1 .. Len(stack) PROVE stack[k].position \in Int /\ stack[k].end \in Int
  <2>1. stack[k] \in ReaderRecords
    BY <1>2
  <2> QED
    BY <2>1 DEF ReaderRecords
<1>4. Len(stack) \in Nat /\ DOMAIN stack = 1 .. Len(stack)
  BY <1>1
<1> QED
  BY <1>3, <1>4

\* What is nested stays so without its innermost reader.
LEMMA OuterReaders ==
  ASSUME NEW total \in Int, NEW stack, Nested(total, stack)
  PROVE  /\ \A k \in 0 .. Len(stack) : Position(total, stack, k) \in Int
         /\ \A j, k \in 0 .. Len(stack) :
              j <= k => Position(total, stack, k) <= Position(total, stack, j)
<1> DEFINE n == Len(stack)
           at(k) == Position(total, stack, k)
<1>1. n \in Nat /\ \A k \in 1 .. n : stack[k].position \in Int
  BY ReaderTypes
<1>2. \A k \in 0 .. n : at(k) \in Int
  BY <1>1 DEF Position
<1>3. \A k \in 1 .. n : at(k) <= at(k - 1)
  BY <1>1 DEF Nested, Position
<1> HIDE DEF n, at
<1>4. ASSUME NEW j \in 0 .. n, NEW k \in 0 .. n, j <= k PROVE at(k) <= at(j)
  <2> DEFINE S == {d \in Nat : j + d <= n => at(j + d) <= at(j)}
  <2>1. 0 \in S
    <3>1. j + 0 = j
      BY <1>1
    <3> QED
      BY <1>2, <3>1
  <2>2. ASSUME NEW d \in Nat, d \in S PROVE d + 1 \in S
    <3> SUFFICES ASSUME j + (d + 1) <= n PROVE at(j + (d + 1)) <= at(j)
      OBVIOUS
    <3> DEFINE l == j + (d + 1)
    <3>1. l \in 1 .. n /\ l - 1 = j + d /\ j + d \in 0 .. n /\ l \in 0 .. n /\ j + d <= n
      BY <1>1
    <3>2. at(l - 1) <= at(j)
      BY <2>2, <3>1
    <3> HIDE DEF l
    <3>3. at(l) <= at(l - 1) /\ at(l) \in Int /\ at(l - 1) \in Int /\ at(j) \in Int
      BY <1>2, <1>3, <3>1
    <3> QED
      BY <3>2, <3>3 DEF l
  <2> HIDE DEF S
  <2>3. k - j \in S
    <3>1. k - j \in Nat
      BY <1>1, <1>4
    <3> QED
      BY <2>1, <2>2, <3>1, EveryNumber
  <2>4. j + (k - j) = k /\ k <= n
    BY <1>1
  <2> QED
    BY <2>3, <2>4 DEF S
<1> QED
  BY <1>2, <1>4 DEF n, at

\* Dropping the readers at their end leaves the position where the walk goes on.
LEMMA UnfinishedReaders ==
  ASSUME NEW total \in Int, NEW stack, Nested(total, stack)
  PROVE  /\ Nested(total, Unfinished(stack))
         /\ Len(Unfinished(stack)) \in 0 .. Len(stack)
         /\ \A k \in 1 .. Len(Unfinished(stack)) : Unfinished(stack)[k] = stack[k]
         /\ Unfinished(stack) # <<>> =>
              Last(Unfinished(stack)).position < Last(Unfinished(stack)).end
         /\ \A k \in Len(Unfinished(stack)) .. Len(stack) :
              Position(total, stack, k) = Position(total, stack, Len(stack))
<1> DEFINE n == Len(stack)
           at(k) == Position(total, stack, k)
           rest == Unfinished(stack)
           open == {k \in DOMAIN stack : stack[k].position # stack[k].end}
           Reaches(m) == /\ rest = SubSeq(stack, 1, m)
                         /\ m # 0 => stack[m].position # stack[m].end
                         /\ \A k \in m + 1 .. n : stack[k].position = stack[k].end
<1>1. n \in Nat /\ DOMAIN stack = 1 .. n /\ stack \in Seq(ReaderRecords)
  BY DEF Nested
<1>2. PICK m \in 0 .. n : Reaches(m)
  <2>1. CASE open = {}
    <3>1. rest = <<>>
      BY <2>1 DEF Unfinished
    <3>2. SubSeq(stack, 1, 0) = <<>>
      BY <1>1
    <3>3. Reaches(0)
      BY <1>1, <2>1, <3>1, <3>2
    <3>4. 0 \in 0 .. n
      BY <1>1
    <3> HIDE DEF Reaches
    <3> QED
      BY <3>3, <3>4
  <2>2. CASE open # {}
    <3> DEFINE m == CHOOSE k \in open : \A j \in open : j <= k
    <3>1. \E k \in open : \A j \in open : j <= k
      <4>1. open \in SUBSET (0 .. n)
        BY <1>1
      <4> HIDE DEF open
      <4> QED
        BY <1>1, <2>2, <4>1, LastPlace
    <3>2. m \in open /\ \A j \in open : j <= m
      <4> HIDE DEF open
      <4> QED
        BY <3>1
    <3>3. rest = SubSeq(stack, 1, m)
      BY <2>2 DEF Unfinished
    <3> HIDE DEF m
    <3>4. m \in 0 .. n /\ stack[m].position # stack[m].end
      BY <1>1, <3>2
    <3>5. ASSUME NEW k \in m + 1 .. n PROVE stack[k].position = stack[k].end
      <4>1. k \in DOMAIN stack /\ ~ (k <= m)
        BY <1>1, <3>4
      <4> QED
        BY <3>2, <4>1
    <3>6. Reaches(m)
      BY <3>3, <3>4, <3>5
    <3> HIDE DEF Reaches
    <3> QED
      BY <3>4, <3>6
  <2> QED
    BY <2>1, <2>2
<1>3. /\ rest \in Seq(ReaderRecords) /\ Len(rest) = m
      /\ \A k \in 1 .. m : rest[k] = stack[k]
  BY <1>1, <1>2, SubSeqOf
<1>4. Nested(total, rest)
  <2>1. ASSUME NEW k \in 1 .. m
        PROVE  /\ rest[k].end = Position(total, rest, k - 1)
               /\ rest[k].position <= rest[k].end
    <3>1. rest[k] = stack[k] /\ k \in 1 .. n /\ (k - 1 # 0 => rest[k - 1] = stack[k - 1])
      BY <1>1, <1>3
    <3>2. /\ stack[k].end = Position(total, stack, k - 1)
          /\ stack[k].position <= stack[k].end
      BY <3>1 DEF Nested
    <3> QED
      BY <3>1, <3>2 DEF Position
  <2> HIDE DEF rest
  <2> QED
    BY <1>3, <2>1 DEF Nested
<1>5. ASSUME rest # <<>> PROVE Last(rest).position < Last(rest).end
  <2>1. m # 0
    BY <1>3, <1>5
  <2>2. rest[m] = stack[m] /\ m \in 1 .. n /\ stack[m].position # stack[m].end
    BY <1>2, <1>3, <2>1
  <2>3. /\ stack[m].position <= stack[m].end
        /\ stack[m].position \in Int /\ stack[m].end \in Int
    BY <2>2, ReaderTypes DEF Nested
  <2> QED
    BY <1>3, <2>2, <2>3 DEF Last
<1>6. ASSUME NEW k \in m .. n PROVE at(k) = at(n)
  <2> DEFINE S == {d \in Nat : m <= n - d => at(n - d) = at(n)}
  <2>1. 0 \in S
    BY <1>1
  <2>2. ASSUME NEW d \in Nat, d \in S PROVE d + 1 \in S
    <3> SUFFICES ASSUME m <= n - (d + 1) PROVE at(n - (d + 1)) = at(n)
      OBVIOUS
    <3> DEFINE l == n - d
    <3>1. l \in m + 1 .. n /\ l \in 1 .. n /\ n - (d + 1) = l - 1 /\ m <= l /\ l # 0
      <4>1. n \in Nat /\ m \in Nat /\ m <= n
        BY <1>1
      <4> HIDE DEF n
      <4> QED
        BY <4>1
    <3>2. at(l) = at(n)
      BY <2>2, <3>1
    <3>3. stack[l].position = stack[l].end
      BY <1>2, <3>1
    <3> HIDE DEF l
    <3>4. stack[l].end = at(l - 1) /\ at(l) = stack[l].position
      BY <3>1 DEF Nested, Position
    <3> QED
      BY <3>1, <3>2, <3>3, <3>4
  <2> HIDE DEF S
  <2>3. n - k \in S
    <3>1. n - k \in Nat
      BY <1>1
    <3> QED
      BY <2>1, <2>2, <3>1, EveryNumber
  <2>4. n - (n - k) = k /\ m <= k
    BY <1>1
  <2> QED
    BY <2>3, <2>4 DEF S
<1> QED
  BY <1>3, <1>4, <1>5, <1>6

(***************************************************************************)
(* The invariant.                                                          *)
(***************************************************************************)

\* The places of the chunks.
ChunkPlaces == 1 .. Len(source.chunks)

\* Where the innermost reader goes on, and where the first chunk is that was not given yet
\* although nothing was skipped: in the group given last, as long as it may be entered.
Current == Position(ByteCount(source), readers, Len(readers))
\* Where the first chunk starts that can still be given: that of the group it may enter, if any.
Mark == IF pending = 0 THEN Current ELSE Start(source, pending + 1)

\* A chunk starts there, or the content ends.
IsStart(x) == \E i \in 1 .. Len(source.chunks) + 1 : x = Start(source, i)

\* A reader ends with the content or with a group it is in.
Bounded(reader) ==
  \/ reader.end = ByteCount(source)
  \/ \E g \in Groups(source) : End(source, g) = reader.end /\ Start(source, g) < reader.position

\* The readers are nested, and each reads on where a chunk starts.
StackInv ==
  /\ Nested(ByteCount(source), readers)
  /\ \A k \in 1 .. Len(readers) : IsStart(readers[k].position) /\ Bounded(readers[k])

\* The group that may be entered was given and not entered, and the innermost reader
\* stands behind it.
PendingInv ==
  pending # 0 => /\ pending \in Groups(source) \cap ToSet(given)
                 /\ pending \notin entered
                 /\ readers # <<>>
                 /\ Current = End(source, pending)

\* The chunks are given in their order, up to the mark.
GivenInv ==
  /\ given \in Seq(ChunkPlaces)
  /\ \A k, l \in 1 .. Len(given) : k < l => given[k] < given[l]
  /\ \A i \in ToSet(given) : Start(source, i) < Mark
  /\ entered \subseteq Groups(source) \cap ToSet(given)

\* The groups that were given end at the mark or with a reader, but for the last.
EndsInv ==
  \A g \in Groups(source) \cap ToSet(given) :
    \/ End(source, g) <= Mark
    \/ g = pending
    \/ \E k \in 1 .. Len(readers) : readers[k].end = End(source, g)

\* What was given nests.
NestingInv ==
  /\ \A i \in ToSet(given) : End(source, i) <= ByteCount(source)
  /\ \A g \in Groups(source) \cap ToSet(given) : source.chunks[g].size >= GroupHeaderSize
  /\ \A g \in Groups(source) \cap ToSet(given) : \A i \in ToSet(given) :
       Start(source, g) < Start(source, i) /\ Start(source, i) < End(source, g)
         => End(source, i) <= End(source, g)

\* Who enters every group sees every chunk.
FullWalkInv ==
  Groups(source) \cap ToSet(given) \subseteq entered \cup {pending}
    => \A i \in ChunkPlaces : Start(source, i) < Mark => i \in ToSet(given)

\* A cursor that says it is through has nothing left to read or to enter.
ReplyInv == reply = "EndOfRecords" => readers = <<>> /\ pending = 0

\* Of every package, whether it nests or not.
WalkInv == StackInv /\ PendingInv /\ GivenInv /\ EndsInv /\ NestingInv /\ FullWalkInv

\* Every group around chunk i was entered.
IsVisible(i) == Ancestors(source, i) \subseteq entered

\* Of a package that nests: the groups around the innermost reader were entered, and what
\* was given is what is visible up to the mark.
AroundInv ==
  \A g \in Groups(source) :
    Start(source, g) < Current /\ Current < End(source, g) => g \in entered

\* Given is what is visible and starts before the mark.
SeenInv ==
  \A i \in ChunkPlaces : i \in ToSet(given) <=> IsVisible(i) /\ Start(source, i) < Mark

\* The inductive invariant of the cursor.
CursorInv ==
  IF source = NoSource THEN given = <<>> /\ entered = {} /\ pending = 0
  ELSE /\ WellFormed(source) /\ Aligned(source)
       /\ WalkInv
       /\ Scans(source) => AroundInv /\ SeenInv /\ reply # "InvalidPackage"
       /\ ReplyInv

(***************************************************************************)
(* Steps of a walk.                                                        *)
(***************************************************************************)

\* The chunk after i starts at least one unit behind it.
LEMMA SourceFacts ==
  ASSUME WellFormed(source)
  PROVE  /\ Len(source.chunks) \in Nat /\ DOMAIN source.chunks = ChunkPlaces
         /\ ByteCount(source) \in Nat
         /\ \A i \in ChunkPlaces : Start(source, i) \in Nat /\ Start(source, i + 1) \in Nat
         /\ \A i, j \in ChunkPlaces :
              /\ i < j <=> Start(source, i) < Start(source, j)
              /\ j <= i <=> Start(source, j) < Start(source, i + 1)
         /\ \A i \in ChunkPlaces : /\ Start(source, i) < ByteCount(source)
                                   /\ Start(source, i) < Start(source, i + 1)
         /\ Groups(source) \in SUBSET ChunkPlaces
<1> DEFINE n == Len(source.chunks)
<1>1. /\ n \in Nat /\ DOMAIN source.chunks = 1 .. n
      /\ \A i \in 1 .. n + 1 : Start(source, i) \in Nat
      /\ \A i, j \in 1 .. n + 1 : i < j <=> Start(source, i) < Start(source, j)
  BY ChunksStartInOrder
<1>2. \A i \in 1 .. n : i \in 1 .. n + 1 /\ i + 1 \in 1 .. n + 1 /\ i < n + 1 /\ i < i + 1
  BY <1>1
<1>3. n + 1 \in 1 .. n + 1
  BY <1>1
<1>4. \A i, j \in 1 .. n : j <= i <=> j < i + 1
  BY <1>1
<1> HIDE DEF n
<1>5. \A i, j \in 1 .. n : j <= i <=> Start(source, j) < Start(source, i + 1)
  BY <1>1, <1>2, <1>4
<1>6. \A i \in 1 .. n : Start(source, i) < Start(source, n + 1)
  BY <1>1, <1>2, <1>3
<1>7. \A i \in 1 .. n : Start(source, i) < Start(source, i + 1)
  BY <1>1, <1>2
<1>8. Groups(source) \in SUBSET (1 .. n)
  BY <1>1 DEF Groups
<1> QED
  BY <1>1, <1>2, <1>3, <1>5, <1>6, <1>7, <1>8 DEF n, ChunkPlaces, ByteCount

\* Nothing behind the mark was passed, but in the group that was given last.
LEMMA MarkFacts ==
  ASSUME WellFormed(source), WalkInv
  PROVE  /\ Current \in Int /\ Mark \in Int /\ Mark <= Current /\ Current <= ByteCount(source)
         /\ pending \in Int
         /\ pending # 0 => pending \in ChunkPlaces
         /\ \A i \in ChunkPlaces :
              Mark <= Start(source, i) /\ Start(source, i) < Current => ~ IsVisible(i)
<1>1. Current \in Int /\ Current <= ByteCount(source) /\ ByteCount(source) \in Int
  <2>1. ByteCount(source) \in Int
    BY SourceFacts
  <2>2. Nested(ByteCount(source), readers)
    BY DEF WalkInv, StackInv
  <2>3. Len(readers) \in Nat
    BY <2>2, ReaderTypes
  <2>4. /\ 0 \in 0 .. Len(readers) /\ Len(readers) \in 0 .. Len(readers) /\ 0 <= Len(readers)
    BY <2>3
  <2>5. Position(ByteCount(source), readers, 0) = ByteCount(source)
    BY DEF Position
  <2> QED
    BY <2>1, <2>2, <2>4, <2>5, OuterReaders DEF Current
<1>2. CASE pending = 0
  <2>1. \A i \in ChunkPlaces : Start(source, i) \in Int
    BY SourceFacts
  <2> QED
    BY <1>1, <1>2, <2>1 DEF Mark
<1>3. CASE pending # 0
  <2>1. /\ pending \in Groups(source) /\ pending \in ToSet(given) /\ pending \notin entered
        /\ Current = End(source, pending)
    BY <1>3 DEF WalkInv, PendingInv
  <2>2. pending \in ChunkPlaces /\ source.chunks[pending].kind = "group"
    BY <2>1, SourceFacts DEF Groups
  <2>3. source.chunks[pending].size >= GroupHeaderSize
    BY <2>1 DEF WalkInv, NestingInv
  <2>4. /\ source.chunks[pending].size \in Nat
        /\ End(source, pending) = Start(source, pending) + source.chunks[pending].size
        /\ Start(source, pending + 1) = Start(source, pending) + GroupHeaderSize
    BY <2>2, ChunksEnd DEF ChunkPlaces
  <2>5. Start(source, pending) \in Nat /\ pending \in Int
    BY <2>2, SourceFacts DEF ChunkPlaces
  <2>6. Mark = Start(source, pending + 1)
    BY <1>3 DEF Mark
  <2>7. Mark \in Int /\ Mark <= Current
    BY <2>1, <2>3, <2>4, <2>5, <2>6 DEF GroupHeaderSize
  <2>8. ASSUME NEW i \in ChunkPlaces, Mark <= Start(source, i), Start(source, i) < Current
        PROVE  ~ IsVisible(i)
    <3>1. pending < i
      <4>1. i <= pending <=> Start(source, i) < Start(source, pending + 1)
        BY <2>2, SourceFacts
      <4>2. Start(source, i) \in Int /\ i \in Int
        BY SourceFacts DEF ChunkPlaces
      <4> QED
        BY <2>5, <2>6, <2>7, <2>8, <4>1, <4>2
    <3>2. pending \in 1 .. i - 1
      <4>1. i \in Int /\ pending \in Int /\ 1 <= pending
        BY <2>2, SourceFacts DEF ChunkPlaces
      <4> QED
        BY <3>1, <4>1
    <3>3. Start(source, i) < Start(source, pending) + source.chunks[pending].size
      BY <2>1, <2>4, <2>8
    <3>4. pending \in Ancestors(source, i)
      BY <2>2, <3>2, <3>3 DEF Ancestors, Start
    <3> QED
      BY <2>1, <3>4 DEF IsVisible
  <2> QED
    BY <1>1, <1>3, <2>2, <2>5, <2>7, <2>8
<1> QED
  BY <1>2, <1>3

\* The readers that are left go on where the walk stands, and a reader that is dropped ended
\* there.
LEMMA ReadersLeft ==
  ASSUME WellFormed(source), WalkInv
  PROVE  /\ Nested(ByteCount(source), Unfinished(readers))
         /\ Position(ByteCount(source), Unfinished(readers), Len(Unfinished(readers))) = Current
         /\ \A k \in 1 .. Len(Unfinished(readers)) :
              IsStart(Unfinished(readers)[k].position) /\ Bounded(Unfinished(readers)[k])
         /\ \A k \in 1 .. Len(readers) :
              \/ readers[k].end = Current
              \/ /\ k \in 1 .. Len(Unfinished(readers))
                 /\ Unfinished(readers)[k].end = readers[k].end
         /\ Unfinished(readers) = <<>> => Current = ByteCount(source)
<1> DEFINE total == ByteCount(source)
           stack == Unfinished(readers)
           n == Len(readers)
           m == Len(stack)
<1>1. total \in Int /\ Nested(total, readers) /\ n \in Nat
  <2>1. total \in Int /\ Nested(total, readers)
    BY SourceFacts DEF WalkInv, StackInv
  <2> QED
    BY <2>1, ReaderTypes
<1>2. /\ Nested(total, stack)
      /\ m \in 0 .. n
      /\ \A k \in 1 .. m : stack[k] = readers[k]
      /\ \A k \in m .. n : Position(total, readers, k) = Position(total, readers, n)
  BY <1>1, UnfinishedReaders
<1>3. Current = Position(total, readers, n)
  BY DEF Current
<1> HIDE DEF total, stack
<1>4. Position(total, stack, m) = Current
  <2>1. Position(total, readers, m) = Current
    BY <1>1, <1>2, <1>3
  <2>2. m # 0 => stack[m] = readers[m]
    BY <1>1, <1>2
  <2> QED
    BY <2>1, <2>2 DEF Position
<1>5. ASSUME NEW k \in 1 .. m PROVE IsStart(stack[k].position) /\ Bounded(stack[k])
  <2>1. k \in 1 .. n /\ stack[k] = readers[k]
    BY <1>1, <1>2
  <2> QED
    BY <2>1 DEF WalkInv, StackInv
<1>6. ASSUME NEW k \in 1 .. n
      PROVE  readers[k].end = Current \/ (k \in 1 .. m /\ stack[k].end = readers[k].end)
  <2>1. CASE k <= m
    BY <1>1, <1>2, <2>1
  <2>2. CASE ~ (k <= m)
    <3>1. k - 1 \in m .. n
      BY <1>1, <1>2, <2>2
    <3>2. readers[k].end = Position(total, readers, k - 1)
      BY <1>1 DEF Nested
    <3> QED
      BY <1>2, <1>3, <3>1, <3>2
  <2> QED
    BY <2>1, <2>2
<1>7. stack = <<>> => Current = total
  BY <1>4 DEF Position
<1> QED
  BY <1>2, <1>4, <1>5, <1>6, <1>7 DEF total, stack

\* The innermost reader that is not at its end stands before a chunk.
LEMMA InnermostReader ==
  ASSUME WellFormed(source), WalkInv, Unfinished(readers) # <<>>
  PROVE  /\ Len(Unfinished(readers)) \in Nat \ {0}
         /\ Last(Unfinished(readers)).position = Current
         /\ Last(Unfinished(readers)).end \in Int
         /\ Current < Last(Unfinished(readers)).end
         /\ Last(Unfinished(readers)).end <= ByteCount(source)
         /\ ChunkAt(Current) \in ChunkPlaces
         /\ Start(source, ChunkAt(Current)) = Current
<1> DEFINE total == ByteCount(source)
           stack == Unfinished(readers)
           m == Len(stack)
<1>1. /\ total \in Int /\ Nested(total, stack) /\ Position(total, stack, m) = Current
      /\ \A k \in 1 .. m : IsStart(stack[k].position)
  BY SourceFacts, ReadersLeft
<1>2. Last(stack).position < Last(stack).end
  <2>1. Nested(total, readers)
    BY DEF WalkInv, StackInv
  <2> QED
    BY <1>1, <2>1, UnfinishedReaders
<1> HIDE DEF stack, total
<1>3. m \in Nat \ {0}
  <2>1. m \in Nat
    BY <1>1, ReaderTypes
  <2>2. stack # <<>> /\ stack \in Seq(ReaderRecords)
    BY <1>1 DEF Nested, stack
  <2>3. m # 0
    BY <2>2
  <2> QED
    BY <2>1, <2>3
<1>4. Last(stack) = stack[m] /\ m \in 1 .. m
  BY <1>3 DEF Last
<1>5. Last(stack).position = Current
  BY <1>1, <1>3, <1>4 DEF Position
<1>6. Last(stack).end \in Int /\ Last(stack).end <= total
  <2>1. stack[m].end = Position(total, stack, m - 1)
    BY <1>1, <1>4 DEF Nested
  <2>2. m - 1 \in 0 .. m /\ 0 \in 0 .. m /\ 0 <= m - 1
    BY <1>3
  <2>3. /\ Position(total, stack, m - 1) \in Int
        /\ Position(total, stack, m - 1) <= Position(total, stack, 0)
    BY <1>1, <2>2, OuterReaders
  <2> QED
    BY <1>4, <2>1, <2>3 DEF Position
<1>7. \E i \in ChunkPlaces : Start(source, i) = Current
  <2>1. IsStart(Current)
    BY <1>1, <1>4, <1>5
  <2>2. PICK i \in 1 .. Len(source.chunks) + 1 : Current = Start(source, i)
    BY <2>1 DEF IsStart
  <2>3. i # Len(source.chunks) + 1
    <3>1. Current # total
      <4>1. Current \in Int
        BY MarkFacts
      <4> QED
        BY <1>1, <1>2, <1>5, <1>6, <4>1
    <3> QED
      BY <2>2, <3>1 DEF total, ByteCount
  <2>4. i \in ChunkPlaces
    BY <2>3, SourceFacts DEF ChunkPlaces
  <2> QED
    BY <2>2, <2>4
<1>8. ChunkAt(Current) \in ChunkPlaces /\ Start(source, ChunkAt(Current)) = Current
  <2>1. DOMAIN source.chunks = ChunkPlaces
    BY SourceFacts
  <2> QED
    BY <1>7, <2>1 DEF ChunkAt
<1> QED
  BY <1>2, <1>3, <1>5, <1>6, <1>8 DEF stack, total

\* Nothing is given, and the group given last may no longer be entered.
Rests ==
  /\ source' = source
  /\ readers' = Unfinished(readers)
  /\ pending' = 0
  /\ UNCHANGED <<given, entered>>

\* A step that gives nothing only drops readers that are exhausted.
LEMMA RestStep ==
  ASSUME WellFormed(source), WalkInv, Rests
  PROVE  /\ WalkInv' /\ Current' = Current
         /\ AroundInv /\ SeenInv => AroundInv' /\ SeenInv'
<1>1. /\ source' = source /\ readers' = Unfinished(readers) /\ pending' = 0
      /\ given' = given /\ entered' = entered
  BY DEF Rests
<1>2. /\ Nested(ByteCount(source), readers')
      /\ Position(ByteCount(source), readers', Len(readers')) = Current
      /\ \A k \in 1 .. Len(readers') : IsStart(readers'[k].position) /\ Bounded(readers'[k])
      /\ \A k \in 1 .. Len(readers) :
           \/ readers[k].end = Current
           \/ k \in 1 .. Len(readers') /\ readers'[k].end = readers[k].end
  BY <1>1, ReadersLeft
<1>3. Current' = Current /\ Mark' = Current
  BY <1>1, <1>2 DEF Current, Mark
<1>4. /\ Current \in Int /\ Mark \in Int /\ Mark <= Current
      /\ \A i \in ChunkPlaces :
           Mark <= Start(source, i) /\ Start(source, i) < Current => ~ IsVisible(i)
  BY MarkFacts
<1>5. \A i \in ChunkPlaces : Start(source, i) \in Int /\ End(source, i) \in Int
  BY SourceFacts, ChunksEnd DEF ChunkPlaces
<1>6. Groups(source) \in SUBSET ChunkPlaces
  BY SourceFacts
<1>7. ToSet(given) \in SUBSET ChunkPlaces
  BY DEF WalkInv, GivenInv, ToSet
<1>8. StackInv'
  BY <1>1, <1>2 DEF StackInv, IsStart, Bounded
<1>9. PendingInv'
  BY <1>1 DEF PendingInv
<1>10. GivenInv'
  <2>1. \A i \in ToSet(given) : Start(source, i) < Current
    BY <1>4, <1>5, <1>7 DEF WalkInv, GivenInv
  <2> QED
    BY <1>1, <1>3, <2>1 DEF WalkInv, GivenInv, ChunkPlaces
<1>11. EndsInv'
  <2> SUFFICES ASSUME NEW g \in Groups(source) \cap ToSet(given)
               PROVE  \/ End(source, g) <= Current
                      \/ \E k \in 1 .. Len(readers') : readers'[k].end = End(source, g)
    BY <1>1, <1>3 DEF EndsInv
  <2>1. End(source, g) \in Int
    BY <1>5, <1>6
  <2>2. CASE End(source, g) <= Mark
    BY <1>4, <2>1, <2>2
  <2>3. CASE g = pending
    <3>1. pending # 0
      BY <1>6, <2>3 DEF ChunkPlaces
    <3> QED
      BY <1>4, <2>3, <3>1 DEF WalkInv, PendingInv
  <2>4. ASSUME NEW k \in 1 .. Len(readers), readers[k].end = End(source, g)
        PROVE  \/ End(source, g) <= Current
               \/ \E l \in 1 .. Len(readers') : readers'[l].end = End(source, g)
    BY <1>2, <1>4, <2>4
  <2> QED
    BY <2>2, <2>3, <2>4 DEF WalkInv, EndsInv
<1>12. NestingInv'
  BY <1>1 DEF WalkInv, NestingInv
<1>13. FullWalkInv'
  <2> SUFFICES ASSUME Groups(source) \cap ToSet(given) \subseteq entered \cup {0},
                      NEW i \in ChunkPlaces, Start(source, i) < Current
               PROVE  i \in ToSet(given)
    BY <1>1, <1>3 DEF FullWalkInv, ChunkPlaces
  <2>1. pending = 0
    BY DEF WalkInv, PendingInv
  <2> QED
    BY <2>1 DEF WalkInv, FullWalkInv, Mark
<1>14. ASSUME AroundInv PROVE AroundInv'
  BY <1>1, <1>3, <1>14 DEF AroundInv
<1>15. ASSUME SeenInv PROVE SeenInv'
  <2>1. ASSUME NEW i \in ChunkPlaces
        PROVE  i \in ToSet(given) <=> IsVisible(i) /\ Start(source, i) < Current
    BY <1>4, <1>5, <1>15 DEF SeenInv
  <2> QED
    BY <1>1, <1>3, <2>1 DEF SeenInv, ChunkPlaces, IsVisible
<1> QED
  BY <1>3, <1>8, <1>9, <1>10, <1>11, <1>12, <1>13, <1>14, <1>15 DEF WalkInv

\* The group given last is entered.
Enters ==
  /\ source' = source
  /\ pending # 0
  /\ readers' = Append(readers, Children(pending))
  /\ entered' = entered \cup {pending}
  /\ pending' = 0
  /\ given' = given

\* A group is entered: its chunks become visible and the mark stays.
LEMMA EnterStep ==
  ASSUME WellFormed(source), WalkInv, Enters
  PROVE  WalkInv' /\ (AroundInv /\ SeenInv => AroundInv' /\ SeenInv')
<1> DEFINE g == pending
           child == Children(g)
           n == Len(readers)
           total == ByteCount(source)
<1>1. /\ source' = source /\ readers' = Append(readers, child) /\ pending' = 0
      /\ given' = given /\ entered' = entered \cup {g} /\ g # 0
  BY DEF Enters
<1>2. /\ g \in Groups(source) /\ g \in ToSet(given) /\ g \notin entered
      /\ Current = End(source, g)
  BY <1>1 DEF WalkInv, PendingInv
<1>3. g \in ChunkPlaces /\ source.chunks[g].kind = "group"
  BY <1>2, SourceFacts DEF Groups
<1>4. /\ Start(source, g) \in Nat /\ Start(source, g + 1) \in Nat /\ End(source, g) \in Nat
      /\ Start(source, g + 1) = Start(source, g) + GroupHeaderSize
      /\ Start(source, g) < Start(source, g + 1)
      /\ Start(source, g + 1) <= End(source, g)
      /\ End(source, g) = Start(source, g) + source.chunks[g].size
  <2>1. source.chunks[g].size >= GroupHeaderSize
    BY <1>2 DEF WalkInv, NestingInv
  <2>2. /\ source.chunks[g].size \in Nat
        /\ End(source, g) = Start(source, g) + source.chunks[g].size
        /\ Start(source, g + 1) = Start(source, g) + GroupHeaderSize
    BY <1>3, ChunksEnd DEF ChunkPlaces
  <2>3. Start(source, g) \in Nat
    BY <1>3, SourceFacts
  <2> QED
    BY <2>1, <2>2, <2>3 DEF GroupHeaderSize
<1>5. child.position = Start(source, g + 1) /\ child.end = End(source, g) /\ child \in ReaderRecords
  <2>1. child = [position |-> Start(source, g) + GroupHeaderSize, end |-> End(source, g)]
    BY DEF Children, Reader
  <2> HIDE DEF child
  <2> QED
    BY <1>4, <2>1 DEF ReaderRecords
<1>6. /\ Nested(total, readers) /\ n \in Nat /\ readers \in Seq(ReaderRecords)
      /\ Current = Position(total, readers, n)
  <2>1. Nested(total, readers)
    BY DEF WalkInv, StackInv
  <2> QED
    BY <2>1, ReaderTypes DEF Nested, Current
<1> HIDE DEF g, child, total
<1>7. /\ readers' \in Seq(ReaderRecords) /\ Len(readers') = n + 1
      /\ \A k \in 1 .. n : readers'[k] = readers[k]
      /\ readers'[n + 1] = child
  BY <1>1, <1>5, <1>6
<1>8. ASSUME NEW k \in 1 .. n + 1
      PROVE  /\ readers'[k].end = Position(total, readers', k - 1)
             /\ readers'[k].position <= readers'[k].end
             /\ IsStart(readers'[k].position)
             /\ Bounded(readers'[k])
  <2>1. Position(total, readers', k - 1) = Position(total, readers, k - 1)
    <3>1. k - 1 = 0 \/ k - 1 \in 1 .. n
      BY <1>6
    <3> QED
      BY <1>7, <3>1 DEF Position
  <2>2. CASE k \in 1 .. n
    BY <1>6, <1>7, <2>1, <2>2 DEF Nested, WalkInv, StackInv
  <2>3. CASE k = n + 1
    <3>1. readers'[k] = child /\ k - 1 = n
      BY <1>6, <1>7, <2>3
    <3>2. IsStart(child.position)
      <4>1. g + 1 \in 1 .. Len(source.chunks) + 1
        BY <1>3, SourceFacts DEF ChunkPlaces
      <4> QED
        BY <1>5, <4>1 DEF IsStart
    <3>3. Bounded(child)
      BY <1>2, <1>4, <1>5 DEF Bounded
    <3> QED
      BY <1>2, <1>4, <1>5, <1>6, <2>1, <3>1, <3>2, <3>3
  <2> QED
    BY <1>6, <2>2, <2>3
<1>9. StackInv'
  <2>1. Nested(total, readers')
    BY <1>7, <1>8 DEF Nested
  <2> QED
    BY <1>1, <1>7, <1>8, <2>1 DEF StackInv, IsStart, Bounded, total
<1>10. Current' = Start(source, g + 1) /\ Mark = Start(source, g + 1) /\ Mark' = Mark
  <2>1. Current' = Position(total, readers', n + 1)
    BY <1>1, <1>7 DEF Current, total
  <2>2. n + 1 # 0
    BY <1>6
  <2> QED
    BY <1>1, <1>5, <1>7, <2>1, <2>2 DEF Mark, Position, g
<1>11. PendingInv'
  BY <1>1 DEF PendingInv
<1>12. GivenInv'
  BY <1>1, <1>2, <1>10 DEF WalkInv, GivenInv, ChunkPlaces
<1>13. EndsInv'
  <2> SUFFICES ASSUME NEW f \in Groups(source) \cap ToSet(given)
               PROVE  \/ End(source, f) <= Mark
                      \/ \E k \in 1 .. n + 1 : readers'[k].end = End(source, f)
    BY <1>1, <1>7, <1>10 DEF EndsInv
  <2>1. CASE f = g
    <3>1. n + 1 \in 1 .. n + 1
      BY <1>6
    <3> QED
      BY <1>5, <1>7, <2>1, <3>1
  <2>2. ASSUME NEW k \in 1 .. n, readers[k].end = End(source, f)
        PROVE  \E l \in 1 .. n + 1 : readers'[l].end = End(source, f)
    <3>1. k \in 1 .. n + 1
      BY <1>6
    <3> QED
      BY <1>7, <2>2, <3>1
  <2> QED
    BY <2>1, <2>2 DEF WalkInv, EndsInv, g
<1>14. NestingInv'
  BY <1>1 DEF WalkInv, NestingInv
<1>15. FullWalkInv'
  <2> SUFFICES ASSUME Groups(source) \cap ToSet(given) \subseteq (entered \cup {g}) \cup {0},
                      NEW i \in ChunkPlaces, Start(source, i) < Mark
               PROVE  i \in ToSet(given)
    BY <1>1, <1>10 DEF FullWalkInv, ChunkPlaces
  <2>1. 0 \notin Groups(source)
    BY SourceFacts DEF ChunkPlaces
  <2>2. Groups(source) \cap ToSet(given) \subseteq entered \cup {g}
    BY <2>1
  <2> QED
    BY <2>2 DEF WalkInv, FullWalkInv, g
<1>16. ASSUME AroundInv, SeenInv PROVE AroundInv'
  <2> SUFFICES ASSUME NEW f \in Groups(source), f # g,
                      Start(source, f) < Start(source, g + 1),
                      Start(source, g + 1) < End(source, f)
               PROVE  f \in entered
    BY <1>1, <1>10 DEF AroundInv
  <2>1. f \in ChunkPlaces /\ source.chunks[f].kind = "group"
    BY SourceFacts DEF Groups
  <2>2. f <= g
    BY <1>3, <2>1, SourceFacts
  <2>3. f \in 1 .. g - 1
    <3>1. f \in Int /\ g \in Int /\ 1 <= f
      BY <1>3, <2>1, SourceFacts DEF ChunkPlaces
    <3> QED
      BY <2>2, <3>1
  <2>4. End(source, f) \in Nat /\ End(source, f) = Start(source, f) + source.chunks[f].size
    BY <2>1, ChunksEnd DEF ChunkPlaces
  <2>5. Start(source, g) < End(source, f)
    BY <1>4, <2>4
  <2>6. f \in Ancestors(source, g)
    BY <2>1, <2>3, <2>4, <2>5 DEF Ancestors, Start
  <2>7. Ancestors(source, g) \subseteq entered
    BY <1>2, <1>3, <1>16 DEF SeenInv, IsVisible
  <2> QED
    BY <2>6, <2>7
<1>17. ASSUME SeenInv PROVE SeenInv'
  <2> SUFFICES ASSUME NEW i \in ChunkPlaces, Start(source, i) < Mark
               PROVE  Ancestors(source, i) \subseteq entered
                        <=> Ancestors(source, i) \subseteq entered \cup {g}
    BY <1>1, <1>10, <1>17 DEF SeenInv, ChunkPlaces, IsVisible
  <2>1. i <= g
    BY <1>3, <1>10, SourceFacts
  <2>2. g \notin Ancestors(source, i)
    <3>1. i \in Int /\ g \in Int
      BY <1>3, SourceFacts DEF ChunkPlaces
    <3>2. g \notin 1 .. i - 1
      BY <2>1, <3>1
    <3> QED
      BY <3>2 DEF Ancestors
  <2> QED
    BY <2>2
<1> QED
  BY <1>9, <1>11, <1>12, <1>13, <1>14, <1>15, <1>16, <1>17 DEF WalkInv

\* The chunk i is given.
Gives(i) ==
  /\ source' = source
  /\ Unfinished(readers) # <<>>
  /\ i = ChunkAt(Last(Unfinished(readers)).position)
  /\ Fits(Last(Unfinished(readers)), i)
  /\ readers' = [Unfinished(readers) EXCEPT ![Len(Unfinished(readers))].position = End(source, i)]
  /\ pending' = IF source.chunks[i].kind = "group" THEN i ELSE 0
  /\ given' = Append(given, i)
  /\ entered' = entered

\* A chunk is given: the mark moves behind it, over the group before it if that was not entered.
LEMMA GiveStep ==
  ASSUME WellFormed(source), Aligned(source), WalkInv, NEW i, Gives(i)
  PROVE  /\ WalkInv' /\ i \in ChunkPlaces
         /\ Scans(source) /\ AroundInv /\ SeenInv => AroundInv' /\ SeenInv'
<1> DEFINE stack == Unfinished(readers)
           m == Len(stack)
           total == ByteCount(source)
           s(j) == Start(source, j)
           e(j) == End(source, j)
<1>1. /\ source' = source /\ entered' = entered /\ given' = Append(given, i)
      /\ readers' = [stack EXCEPT ![m].position = e(i)]
      /\ pending' = IF source.chunks[i].kind = "group" THEN i ELSE 0
  BY DEF Gives
<1>2. /\ m \in Nat \ {0}
      /\ Last(stack).position = Current /\ Last(stack).end \in Int
      /\ Last(stack).end <= total
      /\ i \in ChunkPlaces /\ s(i) = Current
  BY InnermostReader DEF Gives
<1>3. /\ Nested(total, stack)
      /\ \A k \in 1 .. m : IsStart(stack[k].position) /\ Bounded(stack[k])
      /\ \A k \in 1 .. Len(readers) :
           readers[k].end = Current \/ (k \in 1 .. m /\ stack[k].end = readers[k].end)
  BY ReadersLeft
<1>4. /\ source.chunks[i].kind = "group" => source.chunks[i].size >= GroupHeaderSize
      /\ e(i) <= stack[m].end
  BY DEF Gives, Fits, Last
<1>5. /\ total \in Nat
      /\ \A j \in ChunkPlaces : /\ s(j) \in Nat /\ s(j + 1) \in Nat /\ e(j) \in Nat
                                /\ s(j) < s(j + 1)
      /\ \A j, k \in ChunkPlaces : (j < k <=> s(j) < s(k)) /\ (k <= j <=> s(k) < s(j + 1))
      /\ Groups(source) \in SUBSET ChunkPlaces
      /\ ChunkPlaces \in SUBSET Nat /\ 0 \notin ChunkPlaces
  BY SourceFacts, ChunksEnd DEF ChunkPlaces
<1>6. /\ source.chunks[i].kind \in {"record", "group"}
      /\ source.chunks[i].kind = "record" => e(i) = s(i + 1)
      /\ source.chunks[i].kind = "group" <=> i \in Groups(source)
      /\ s(i + 1) <= e(i) /\ s(i) <= e(i)
      /\ e(i) <= total
  <2>1. /\ source.chunks[i].kind \in {"record", "group"}
        /\ source.chunks[i].kind = "record" => e(i) = s(i + 1)
        /\ source.chunks[i].kind = "group" =>
             /\ source.chunks[i].size \in Nat
             /\ e(i) = s(i) + source.chunks[i].size
             /\ s(i + 1) = s(i) + GroupHeaderSize
    BY <1>2, ChunksEnd DEF ChunkPlaces
  <2>2. s(i) \in Nat /\ s(i + 1) \in Nat /\ e(i) \in Nat /\ s(i) < s(i + 1)
    BY <1>2, <1>5
  <2>3. source.chunks[i].kind = "group" <=> i \in Groups(source)
    BY <1>2, SourceFacts DEF Groups
  <2>4. e(i) <= total
    BY <1>2, <1>4, <1>5, <2>2 DEF Last
  <2> HIDE DEF s, e, total
  <2>5. s(i + 1) <= e(i)
    BY <1>4, <2>1, <2>2 DEF GroupHeaderSize
  <2> QED
    BY <2>1, <2>2, <2>3, <2>4, <2>5
<1>7. stack[m].position = Current
  BY <1>2 DEF Last
<1>8. /\ Current \in Int /\ Mark \in Int /\ Mark <= Current
      /\ \A j \in ChunkPlaces : Mark <= s(j) /\ s(j) < Current => ~ IsVisible(j)
  BY MarkFacts
<1>9. /\ given \in Seq(ChunkPlaces) /\ Len(given) \in Nat
      /\ ToSet(given) \in SUBSET ChunkPlaces
      /\ \A j \in ToSet(given) : s(j) < Mark
      /\ entered \subseteq Groups(source) \cap ToSet(given)
  BY DEF WalkInv, GivenInv, ToSet
<1>10. ToSet(given') = ToSet(given) \cup {i}
  <2>1. /\ Len(given') = Len(given) + 1 /\ given'[Len(given) + 1] = i
        /\ \A k \in 1 .. Len(given) : given'[k] = given[k]
        /\ DOMAIN given' = 1 .. Len(given) + 1 /\ DOMAIN given = 1 .. Len(given)
    BY <1>1, <1>2, <1>9
  <2>2. \A k \in 1 .. Len(given) + 1 : k \in 1 .. Len(given) \/ k = Len(given) + 1
    BY <1>9
  <2>3. \A k \in 1 .. Len(given) : k \in 1 .. Len(given) + 1
    BY <1>9
  <2>4. Len(given) + 1 \in 1 .. Len(given) + 1
    BY <1>9
  <2> QED
    BY <2>1, <2>2, <2>3, <2>4 DEF ToSet
<1> HIDE DEF stack, total, s, e
<1>11. ASSUME NEW j \in ToSet(given) PROVE s(j) < s(i) /\ j # i
  <2>1. s(j) \in Nat /\ s(j) < Mark
    BY <1>5, <1>9
  <2>2. s(j) < s(i)
    BY <1>2, <1>8, <2>1
  <2> QED
    BY <2>1, <2>2
<1>12. /\ readers' \in Seq(ReaderRecords) /\ Len(readers') = m
       /\ \A k \in 1 .. m : /\ readers'[k].end = stack[k].end
                            /\ readers'[k].position = IF k = m THEN e(i) ELSE stack[k].position
  <2>1. stack \in Seq(ReaderRecords) /\ m \in 1 .. m
    BY <1>2, <1>3 DEF Nested
  <2>2. stack[m] \in ReaderRecords /\ e(i) \in Int
    BY <1>2, <1>5, <2>1
  <2> DEFINE r == [stack[m] EXCEPT !.position = e(i)]
  <2>3. r \in ReaderRecords /\ r.position = e(i) /\ r.end = stack[m].end
    BY <2>2 DEF ReaderRecords
  <2>4. readers' = [stack EXCEPT ![m] = r]
    BY <1>1
  <2> HIDE DEF r
  <2>5. readers' \in Seq(ReaderRecords) /\ Len(readers') = m
    BY <2>1, <2>3, <2>4
  <2>6. \A k \in 1 .. m : readers'[k] = IF k = m THEN r ELSE stack[k]
    BY <2>1, <2>4
  <2> QED
    BY <2>3, <2>5, <2>6
<1>13. StackInv'
  <2>1. ASSUME NEW k \in 1 .. m
        PROVE  /\ readers'[k].end = Position(total, readers', k - 1)
               /\ readers'[k].position <= readers'[k].end
               /\ IsStart(readers'[k].position)
               /\ Bounded(readers'[k])
    <3>1. /\ stack[k].end = Position(total, stack, k - 1)
          /\ stack[k].position <= stack[k].end
          /\ IsStart(stack[k].position) /\ Bounded(stack[k])
      BY <1>3 DEF Nested
    <3>2. Position(total, readers', k - 1) = Position(total, stack, k - 1)
      <4>1. k - 1 = 0 \/ (k - 1 \in 1 .. m /\ k - 1 # m)
        BY <1>2
      <4> QED
        BY <1>12, <4>1 DEF Position
    <3>3. CASE k # m
      <4>1. readers'[k].end = stack[k].end /\ readers'[k].position = stack[k].position
        BY <1>12, <3>3
      <4> QED
        BY <3>1, <3>2, <4>1 DEF Bounded
    <3>4. CASE k = m
      <4>1. readers'[k].end = stack[m].end /\ readers'[k].position = e(i)
        BY <1>12, <3>4
      <4>2. IsStart(e(i))
        <5>1. CASE source.chunks[i].kind = "record"
          <6>1. i + 1 \in 1 .. Len(source.chunks) + 1
            BY <1>2, SourceFacts DEF ChunkPlaces
          <6> QED
            BY <1>6, <5>1, <6>1 DEF IsStart, s
        <5>2. CASE source.chunks[i].kind = "group"
          <6>1. ~ (e(i) > total)
            BY <1>2, <1>5, <1>6
          <6>2. e(i) \in ToSet(Starts(source))
            BY <1>6, <5>2, <6>1 DEF Aligned, e, total
          <6>3. DOMAIN Starts(source) = 1 .. Len(source.chunks) + 1
            <7>1. Len(source.chunks) \in Nat
              BY SourceFacts
            <7> QED
              BY <7>1, StartsAdd
          <6> QED
            BY <6>2, <6>3 DEF ToSet, IsStart, Start
        <5> QED
          BY <1>6, <5>1, <5>2
      <4>3. ASSUME NEW g \in Groups(source), s(g) < stack[m].position PROVE s(g) < e(i)
        <5>1. s(g) \in Nat /\ e(i) \in Nat /\ Current \in Int /\ Current <= e(i)
          BY <1>2, <1>5, <1>6, <1>8
        <5> QED
          BY <1>7, <4>3, <5>1
      <4>4. Bounded(readers'[k])
        BY <3>1, <3>4, <4>1, <4>3 DEF Bounded, s
      <4> QED
        BY <1>4, <3>1, <3>2, <3>4, <4>1, <4>2, <4>4
    <3> QED
      BY <3>3, <3>4
  <2>2. Nested(total, readers')
    BY <1>12, <2>1 DEF Nested
  <2> QED
    BY <1>1, <1>12, <2>1, <2>2 DEF StackInv, IsStart, Bounded, total
<1>14. Current' = e(i) /\ Mark' = s(i + 1)
  <2>1. Current' = e(i)
    BY <1>1, <1>2, <1>12 DEF Current, Position
  <2> QED
    BY <1>1, <1>2, <1>5, <1>6, <2>1 DEF Mark, s

<1>15. PendingInv'
  <2> SUFFICES ASSUME source.chunks[i].kind = "group"
               PROVE  PendingInv'
    BY <1>1 DEF PendingInv
  <2>1. i \in Groups(source) \cap ToSet(given') /\ i \notin entered
    BY <1>6, <1>9, <1>10, <1>11
  <2>2. readers' # <<>>
    BY <1>2, <1>12
  <2> QED
    BY <1>1, <1>14, <2>1, <2>2 DEF PendingInv, e
<1>16. GivenInv'
  <2>1. given' \in Seq(ChunkPlaces)
    BY <1>1, <1>2, <1>9
  <2>2. ASSUME NEW k \in 1 .. Len(given'), NEW l \in 1 .. Len(given'), k < l
        PROVE  given'[k] < given'[l]
    <3>1. Len(given') = Len(given) + 1 /\ k \in 1 .. Len(given)
      BY <1>1, <1>2, <1>9, <2>2
    <3>2. given'[k] = given[k] /\ given[k] \in ToSet(given)
      BY <1>1, <1>2, <1>9, <3>1 DEF ToSet
    <3>3. CASE l \in 1 .. Len(given)
      BY <1>1, <1>2, <1>9, <2>2, <3>1, <3>2, <3>3 DEF WalkInv, GivenInv
    <3>4. CASE l = Len(given) + 1
      <4>1. given'[l] = i
        BY <1>1, <1>2, <1>9, <3>4
      <4>2. given[k] \in ChunkPlaces /\ s(given[k]) < s(i)
        BY <1>9, <1>11, <3>2
      <4> QED
        BY <1>2, <1>5, <3>2, <4>1, <4>2
    <3> QED
      BY <1>9, <3>1, <3>3, <3>4
  <2>3. ASSUME NEW j \in ToSet(given') PROVE s(j) < s(i + 1)
    <3>1. s(i) < s(i + 1) /\ s(i) \in Nat /\ s(i + 1) \in Nat
      BY <1>2, <1>5
    <3>2. j \in ChunkPlaces /\ (j = i \/ s(j) < s(i))
      BY <1>2, <1>9, <1>10, <1>11
    <3>3. s(j) \in Nat
      BY <1>5, <3>2
    <3> QED
      BY <3>1, <3>2, <3>3
  <2>4. entered \subseteq Groups(source) \cap ToSet(given')
    BY <1>9, <1>10
  <2> QED
    BY <1>1, <1>14, <2>1, <2>2, <2>3, <2>4 DEF GivenInv, ChunkPlaces, s
<1>17. ASSUME NEW g \in Groups(source) \cap ToSet(given)
       PROVE  e(g) <= Current \/ \E k \in 1 .. m : stack[k].end = e(g)
  <2>1. e(g) \in Nat /\ g # 0
    BY <1>5
  <2>2. CASE e(g) <= Mark
    BY <1>8, <2>1, <2>2
  <2>3. CASE g = pending
    BY <1>8, <2>1, <2>3 DEF WalkInv, PendingInv, e
  <2>4. ASSUME NEW k \in 1 .. Len(readers), readers[k].end = e(g)
        PROVE  e(g) <= Current \/ \E l \in 1 .. m : stack[l].end = e(g)
    BY <1>3, <1>8, <2>4
  <2> QED
    BY <2>2, <2>3, <2>4 DEF WalkInv, EndsInv, e
<1>18. EndsInv'
  <2> SUFFICES ASSUME NEW g \in Groups(source), g \in ToSet(given) \cup {i}
               PROVE  \/ e(g) <= s(i + 1)
                      \/ g = pending'
                      \/ \E k \in 1 .. m : readers'[k].end = e(g)
    BY <1>1, <1>10, <1>12, <1>14 DEF EndsInv, e
  <2>1. CASE g = i
    BY <1>1, <1>6, <2>1
  <2>2. CASE g \in ToSet(given)
    <3>1. e(g) \in Nat /\ s(i) < s(i + 1) /\ s(i) \in Nat /\ s(i + 1) \in Nat
      BY <1>2, <1>5
    <3>2. CASE e(g) <= Current
      BY <1>2, <3>1, <3>2
    <3>3. ASSUME NEW k \in 1 .. m, stack[k].end = e(g)
          PROVE  \E l \in 1 .. m : readers'[l].end = e(g)
      BY <1>12, <3>3
    <3> QED
      BY <1>17, <2>2, <3>2, <3>3
  <2> QED
    BY <2>1, <2>2
<1>19. NestingInv'
  <2> SUFFICES /\ \A j \in ToSet(given) \cup {i} : e(j) <= total
               /\ \A g \in Groups(source) \cap (ToSet(given) \cup {i}) :
                    source.chunks[g].size >= GroupHeaderSize
               /\ \A g \in Groups(source) \cap (ToSet(given) \cup {i}) :
                    \A j \in ToSet(given) \cup {i} :
                      s(g) < s(j) /\ s(j) < e(g) => e(j) <= e(g)
    BY <1>1, <1>10 DEF NestingInv, s, e, total
  <2>1. \A j \in ToSet(given) \cup {i} : e(j) <= total
    BY <1>6 DEF WalkInv, NestingInv, e, total
  <2>2. \A g \in Groups(source) \cap (ToSet(given) \cup {i}) :
          source.chunks[g].size >= GroupHeaderSize
    BY <1>4, <1>6 DEF WalkInv, NestingInv
  <2>3. ASSUME NEW g \in Groups(source) \cap (ToSet(given) \cup {i}),
               NEW j \in ToSet(given) \cup {i}, s(g) < s(j), s(j) < e(g)
        PROVE  e(j) <= e(g)
    <3>1. g \in ToSet(given)
      <4> SUFFICES ASSUME g = i PROVE FALSE
        OBVIOUS
      <4>1. s(i) \in Nat /\ s(j) \in Nat
        BY <1>2, <1>5, <1>9
      <4> QED
        BY <1>11, <2>3, <4>1
    <3>2. CASE j \in ToSet(given)
      BY <2>3, <3>1, <3>2 DEF WalkInv, NestingInv, s, e
    <3>3. CASE j = i
      <4>1. ~ (e(g) <= Current)
        <5>1. e(g) \in Nat
          BY <1>5
        <5>2. Current < e(g)
          BY <1>2, <2>3, <3>3
        <5> QED
          BY <1>8, <5>1, <5>2
      <4>2. PICK k \in 1 .. m : stack[k].end = e(g)
        BY <1>17, <3>1, <4>1
      <4>3. /\ stack[k].end = Position(total, stack, k - 1)
            /\ stack[m].end = Position(total, stack, m - 1)
        BY <1>2, <1>3 DEF Nested
      <4>4. k - 1 \in 0 .. m /\ m - 1 \in 0 .. m /\ k - 1 <= m - 1
        BY <1>2
      <4>5. /\ Position(total, stack, k - 1) \in Int /\ Position(total, stack, m - 1) \in Int
            /\ Position(total, stack, m - 1) <= Position(total, stack, k - 1)
        BY <1>3, <1>5, <4>4, OuterReaders
      <4>6. e(i) \in Nat
        BY <1>2, <1>5
      <4> QED
        BY <1>4, <3>3, <4>2, <4>3, <4>5, <4>6
    <3> QED
      BY <3>2, <3>3
  <2> QED
    BY <2>1, <2>2, <2>3
<1>20. FullWalkInv'
  <2> SUFFICES ASSUME Groups(source) \cap (ToSet(given) \cup {i}) \subseteq entered \cup {pending'},
                      NEW j \in ChunkPlaces, s(j) < s(i + 1)
               PROVE  j \in ToSet(given) \cup {i}
    BY <1>1, <1>10, <1>14 DEF FullWalkInv, ChunkPlaces, s
  <2>1. pending' \in {0, i}
    BY <1>1
  <2>2. pending = 0
    <3> SUFFICES ASSUME pending # 0 PROVE FALSE
      OBVIOUS
    <3>1. pending \in Groups(source) \cap ToSet(given) /\ pending \notin entered
      BY DEF WalkInv, PendingInv
    <3> QED
      BY <1>11, <2>1, <3>1
  <2>3. Groups(source) \cap ToSet(given) \subseteq entered \cup {pending}
    BY <1>5, <1>11, <2>1
  <2>4. j = i \/ s(j) < Current
    <3>1. j <= i
      BY <1>2, <1>5
    <3>2. j = i \/ j < i
      BY <1>2, <1>5, <3>1
    <3> QED
      BY <1>2, <1>5, <3>2
  <2>5. Mark = Current
    BY <2>2 DEF Mark
  <2> QED
    BY <2>3, <2>4, <2>5 DEF WalkInv, FullWalkInv, s
<1>21. ASSUME Scans(source), AroundInv PROVE AroundInv'
  <2> SUFFICES ASSUME NEW g \in Groups(source), s(g) < e(i), e(i) < e(g) PROVE g \in entered
    BY <1>1, <1>14 DEF AroundInv, s, e
  <2>1. /\ g \in ChunkPlaces /\ s(g) \in Nat /\ e(g) \in Nat
        /\ s(i) \in Nat /\ e(i) \in Nat /\ s(i + 1) \in Nat
    BY <1>2, <1>5
  <2>2. CASE s(g) < s(i)
    <3>1. s(g) < Current /\ Current < e(g)
      BY <1>2, <1>6, <2>1, <2>2
    <3> QED
      BY <1>21, <3>1 DEF AroundInv, s, e
  <2>3. g # i
    BY <2>1
  <2>4. CASE s(i) < s(g)
    <3>1. i \in Groups(source)
      <4> SUFFICES ASSUME source.chunks[i].kind = "record" PROVE FALSE
        BY <1>6
      <4>1. s(g) < s(i + 1)
        BY <1>6
      <4>2. g <= i /\ i < g
        BY <1>2, <1>5, <2>1, <2>4, <4>1
      <4>3. g \in Int /\ i \in Int
        BY <1>2, <1>5, <2>1
      <4> QED
        BY <4>2, <4>3
    <3>2. e(g) <= e(i)
      <4>1. DOMAIN source.chunks = ChunkPlaces
        BY SourceFacts
      <4> QED
        BY <1>21, <2>1, <2>4, <3>1, <4>1 DEF Scans, s, e, Start, End
    <3> QED
      BY <2>1, <3>2
  <2>5. s(g) # s(i)
    <3>1. g < i \/ i < g
      BY <1>2, <1>5, <2>1, <2>3
    <3> QED
      BY <1>2, <1>5, <2>1, <3>1
  <2> QED
    BY <2>1, <2>2, <2>4, <2>5
<1>22. ASSUME AroundInv, SeenInv PROVE SeenInv'
  <2> SUFFICES ASSUME NEW j \in ChunkPlaces
               PROVE  j \in ToSet(given) \cup {i} <=> IsVisible(j) /\ s(j) < s(i + 1)
    BY <1>1, <1>10, <1>14 DEF SeenInv, ChunkPlaces, IsVisible, s
  <2>1. j \in ToSet(given) <=> IsVisible(j) /\ s(j) < Mark
    BY <1>22 DEF SeenInv, s
  <2>2. IsVisible(i)
    <3> SUFFICES ASSUME NEW g \in Ancestors(source, i) PROVE g \in entered
      BY DEF IsVisible
    <3>1. /\ g \in 1 .. i - 1 /\ source.chunks[g].kind = "group"
          /\ s(i) < s(g) + source.chunks[g].size
      BY DEF Ancestors, s, Start
    <3>2. g \in ChunkPlaces
      BY <1>2, <3>1, SourceFacts DEF ChunkPlaces
    <3>3. g \in Groups(source) /\ e(g) = s(g) + source.chunks[g].size
      BY <3>1, <3>2, SourceFacts, ChunksEnd DEF ChunkPlaces, Groups, s, e
    <3>4. g < i
      BY <1>2, <1>5, <3>1
    <3>5. s(g) < s(i)
      BY <1>2, <1>5, <3>2, <3>4
    <3> QED
      BY <1>2, <1>22, <3>1, <3>3, <3>5 DEF AroundInv, s, e
  <2>3. s(i) < s(i + 1) /\ s(i) \in Nat /\ s(i + 1) \in Nat /\ s(j) \in Nat
    BY <1>2, <1>5
  <2>4. s(j) < s(i + 1) => j = i \/ s(j) < Current
    <3> SUFFICES ASSUME s(j) < s(i + 1) PROVE j = i \/ j < i
      BY <1>2, <1>5
    <3>1. j <= i
      BY <1>2, <1>5
    <3> QED
      BY <1>2, <1>5, <3>1
  <2>5. s(j) < Mark => s(j) < s(i + 1)
    BY <1>2, <1>8, <2>3
  <2>6. IsVisible(j) /\ s(j) < Current => s(j) < Mark
    BY <1>8, <2>3
  <2> QED
    BY <2>1, <2>2, <2>3, <2>4, <2>5, <2>6
<1> QED
  BY <1>2, <1>13, <1>15, <1>16, <1>18, <1>19, <1>20, <1>21, <1>22 DEF WalkInv

(***************************************************************************)
(* The invariant holds.                                                    *)
(***************************************************************************)

\* A walk begins behind the header.
LEMMA CreateStep ==
  ASSUME CursorInv, Opens(package), Create
  PROVE  CursorInv'
<1>1. /\ source' \in {package} \cup Unchecked
      /\ readers' = <<Reader(HeaderSize(source'.header), ByteCount(source'))>>
      /\ reply' = "created"
      /\ pending' = 0 /\ given' = <<>> /\ entered' = {}
  BY DEF Create, CursorInv
<1> SUFFICES ASSUME source' # NoSource PROVE CursorInv'
  BY <1>1 DEF CursorInv
<1>2. WellFormed(source') /\ Aligned(source')
  BY <1>1, ScannedIsAligned, CursorAssumption DEF Opens, Indexes
<1> DEFINE p == source'
           n == Len(p.chunks)
           first == HeaderSize(p.header)
           total == ByteCount(p)
           reader == Reader(first, total)
<1>3. /\ n \in Nat /\ DOMAIN p.chunks = 1 .. n
      /\ \A i \in 1 .. n + 1 : Start(p, i) \in Nat
      /\ \A i, j \in 1 .. n + 1 : i < j <=> Start(p, i) < Start(p, j)
  BY <1>2, ChunksStartInOrder
<1>4. first = Start(p, 1) /\ total = Start(p, n + 1) /\ first <= total
      /\ first \in Int /\ total \in Int /\ 1 \in 1 .. n + 1
  <2>1. 1 \in 1 .. n + 1 /\ n + 1 \in 1 .. n + 1
    BY <1>3
  <2>2. first = Start(p, 1)
    BY <1>3, <2>1, StartsAdd DEF Start
  <2>3. total = Start(p, n + 1)
    BY DEF ByteCount
  <2>4. Start(p, 1) <= Start(p, n + 1)
    <3>1. n + 1 = 1 \/ 1 < n + 1
      BY <1>3
    <3> QED
      BY <1>3, <2>1, <3>1
  <2> QED
    BY <1>3, <2>1, <2>2, <2>3, <2>4
<1> HIDE DEF p, first, total
<1>5. reader.position = first /\ reader.end = total /\ reader \in ReaderRecords
  BY <1>4 DEF Reader, ReaderRecords
<1> HIDE DEF reader
<1>6. readers' = <<reader>> /\ readers' \in Seq(ReaderRecords) /\ Len(readers') = 1
      /\ readers'[1] = reader
  <2>1. readers' = <<reader>>
    BY <1>1 DEF reader, first, total, p
  <2> QED
    BY <1>5, <2>1
<1>7. Nested(total, readers')
  <2>1. Position(total, readers', 1 - 1) = total
    BY DEF Position
  <2> QED
    BY <1>4, <1>5, <1>6, <2>1 DEF Nested
<1>8. StackInv'
  BY <1>4, <1>5, <1>6, <1>7 DEF StackInv, IsStart, Bounded, total, p
<1>9. Current' = first /\ Mark' = first
  BY <1>1, <1>5, <1>6 DEF Current, Mark, Position
<1>10. ASSUME NEW i \in 1 .. n PROVE ~ (Start(p, i) < first)
  BY <1>3, <1>4
<1>11. ToSet(given') = {} /\ given' \in Seq(ChunkPlaces') /\ Len(given') = 0
  BY <1>1 DEF ToSet
<1>12. WalkInv'
  BY <1>1, <1>8, <1>9, <1>10, <1>11
     DEF WalkInv, PendingInv, GivenInv, EndsInv, NestingInv, FullWalkInv, ChunkPlaces, p
<1>13. AroundInv'
  BY <1>3, <1>9, <1>10 DEF AroundInv, Groups, p
<1>14. SeenInv'
  BY <1>9, <1>10, <1>11 DEF SeenInv, ChunkPlaces, p
<1> QED
  BY <1>1, <1>2, <1>12, <1>13, <1>14 DEF CursorInv, ReplyInv

\* next_entry.
LEMMA NextEntryStep ==
  ASSUME CursorInv, NextEntry
  PROVE  CursorInv'
<1>1. source # NoSource /\ source' = source /\ entered' = entered
  BY DEF NextEntry
<1>2. /\ WellFormed(source) /\ Aligned(source) /\ WalkInv
      /\ Scans(source) => AroundInv /\ SeenInv
  BY <1>1 DEF CursorInv
<1> DEFINE stack == Unfinished(readers)
           i == ChunkAt(Last(stack).position)
<1>3. CASE stack = <<>> /\ readers' = stack /\ pending' = 0 /\ reply' = "EndOfRecords" /\ given' = given
  <2>1. Rests
    BY <1>1, <1>3 DEF Rests
  <2>2. readers' = <<>>
    BY <1>3
  <2> QED
    BY <1>1, <1>2, <1>3, <2>1, <2>2, RestStep DEF CursorInv, ReplyInv
<1>4. CASE /\ stack # <<>> /\ ~ Fits(Last(stack), i)
           /\ readers' = stack /\ pending' = 0 /\ reply' = "InvalidPackage" /\ given' = given
  <2>1. Rests
    BY <1>1, <1>4 DEF Rests
  <2>2. ASSUME Scans(source), AroundInv PROVE FALSE
    <3>1. /\ Len(stack) \in Nat \ {0}
          /\ Last(stack).position = Current /\ Current < Last(stack).end
          /\ i \in ChunkPlaces /\ Start(source, i) = Current
      BY <1>2, <1>4, InnermostReader
    <3>2. Bounded(Last(stack))
      <4>1. Len(stack) \in 1 .. Len(stack)
        BY <3>1
      <4> QED
        BY <1>2, <4>1, ReadersLeft DEF Last
    <3> HIDE DEF stack, i
    <3>3. DOMAIN source.chunks = ChunkPlaces
      BY <1>2, SourceFacts
    <3>4. source.chunks[i].kind = "group" => source.chunks[i].size >= GroupHeaderSize
      BY <2>2, <3>1, <3>3 DEF Scans, Groups
    <3>5. End(source, i) <= ByteCount(source)
      BY <2>2, <3>1, <3>3 DEF Scans, End, Start, ByteCount
    <3>6. ASSUME NEW g \in Groups(source), End(source, g) = Last(stack).end,
                 Start(source, g) < Last(stack).position
          PROVE  End(source, i) <= Last(stack).end
      BY <2>2, <3>1, <3>3, <3>6 DEF Scans, End, Start
    <3> QED
      BY <1>4, <3>2, <3>4, <3>5, <3>6 DEF Fits, Bounded, stack, i
  <2> QED
    BY <1>1, <1>2, <1>4, <2>1, <2>2, RestStep DEF CursorInv, ReplyInv
<1>5. CASE /\ stack # <<>> /\ Fits(Last(stack), i)
           /\ readers' = [stack EXCEPT ![Len(stack)].position = End(source, i)]
           /\ pending' = IF source.chunks[i].kind = "group" THEN i ELSE 0
           /\ reply' = source.chunks[i].kind
           /\ given' = Append(given, i)
  <2>1. Gives(i)
    BY <1>1, <1>5 DEF Gives
  <2> HIDE DEF i
  <2>2. WalkInv' /\ i \in ChunkPlaces /\ (Scans(source) => AroundInv' /\ SeenInv')
    BY <1>2, <2>1, GiveStep
  <2>3. reply' \in {"record", "group"}
    BY <1>2, <1>5, <2>2, ChunksEnd DEF ChunkPlaces
  <2> QED
    BY <1>1, <1>2, <2>2, <2>3 DEF CursorInv, ReplyInv
<1> QED
  BY <1>3, <1>4, <1>5 DEF NextEntry

\* enter_group.
LEMMA EnterGroupStep ==
  ASSUME CursorInv, EnterGroup
  PROVE  CursorInv'
<1>1. source # NoSource /\ source' = source /\ given' = given
  BY DEF EnterGroup
<1>2. /\ WellFormed(source) /\ Aligned(source) /\ WalkInv
      /\ Scans(source) => AroundInv /\ SeenInv
  BY <1>1 DEF CursorInv
<1>3. CASE pending = 0 /\ reply' = "InvalidArgument" /\ UNCHANGED <<readers, pending, entered>>
  <2>1. WalkInv' /\ (AroundInv => AroundInv') /\ (SeenInv => SeenInv')
    BY <1>1, <1>2, <1>3
       DEF WalkInv, StackInv, PendingInv, GivenInv, EndsInv, NestingInv, FullWalkInv, AroundInv,
           SeenInv, IsVisible, IsStart, Bounded, Current, Mark, ChunkPlaces
  <2> QED
    BY <1>1, <1>2, <1>3, <2>1 DEF CursorInv, ReplyInv
<1>4. CASE /\ pending # 0 /\ reply' = "entered"
           /\ readers' = Append(readers, Children(pending))
           /\ entered' = entered \cup {pending} /\ pending' = 0
  <2>1. Enters
    BY <1>1, <1>4 DEF Enters
  <2> QED
    BY <1>1, <1>2, <1>4, <2>1, EnterStep DEF CursorInv, ReplyInv
<1> QED
  BY <1>3, <1>4 DEF EnterGroup

\* Every step.
LEMMA CursorStep ==
  ASSUME CursorInv, FilesInv, [CursorNext]_<<vars, cursorVars>>
  PROVE  CursorInv'
<1>1. CASE Create
  BY <1>1, CreateStep DEF FilesInv
<1>2. CASE NextEntry
  BY <1>2, NextEntryStep
<1>3. CASE EnterGroup
  BY <1>3, EnterGroupStep
<1>4. CASE UNCHANGED cursorVars
  <2>1. /\ source' = source /\ readers' = readers /\ pending' = pending /\ reply' = reply
        /\ given' = given /\ entered' = entered
    BY <1>4 DEF cursorVars
  <2>2. /\ WalkInv => WalkInv'
        /\ AroundInv => AroundInv'
        /\ SeenInv => SeenInv'
        /\ ReplyInv => ReplyInv'
    BY <2>1
       DEF WalkInv, StackInv, PendingInv, GivenInv, EndsInv, NestingInv, FullWalkInv, AroundInv,
           SeenInv, ReplyInv, IsVisible, IsStart, Bounded, Current, Mark, ChunkPlaces
  <2> QED
    BY <2>1, <2>2 DEF CursorInv
<1> QED
  BY <1>1, <1>2, <1>3, <1>4 DEF CursorNext, SessionStep

\* Every step is one of the editing session or leaves it alone, by their definitions: the
\* invariants of EditSession hold under a cursor.
LEMMA SessionUnderCursor == CursorSpec => Spec
<1>1. CursorInit => Init
  BY DEF CursorInit
<1>2. [CursorNext]_<<vars, cursorVars>> => [Next]_vars
  BY DEF CursorNext, SessionStep, Create, NextEntry, EnterGroup
<1> QED
  BY <1>1, <1>2, PTL DEF CursorSpec, Spec

\* It holds for every cursor.
LEMMA CursorInvariant == CursorSpec => []CursorInv
<1>1. CursorInit => CursorInv
  BY DEF CursorInit, CursorInv
<1>2. CursorSpec => []FilesInv
  BY SessionUnderCursor, FilesInvariant, PTL
<1> QED
  BY <1>1, <1>2, CursorStep, PTL DEF CursorSpec

\* Whichever groups a caller enters, and wherever groups end together, a cursor on a package
\* that nests well gives exactly the entries of the groups that were entered, each once and
\* in the order of the bytes, and never fails; and a walk that entered every group it met
\* and came to the end proves that the groups nest.
THEOREM CursorAlwaysAgreesWithIndex == CursorSpec => []CursorAgreesWithIndex
<1>1. ASSUME CursorInv, source # NoSource, Scans(source)
      PROVE  /\ IsPrefix(given, Visible)
             /\ reply = "EndOfRecords" => given = Visible
             /\ reply # "InvalidPackage"
  <2> DEFINE n == Len(source.chunks)
             S == {i \in DOMAIN source.chunks : Ancestors(source, i) \subseteq entered}
  <2>1. /\ WellFormed(source) /\ WalkInv /\ SeenInv /\ reply # "InvalidPackage" /\ ReplyInv
    BY <1>1 DEF CursorInv
  <2>2. n \in Nat /\ DOMAIN source.chunks = 1 .. n /\ S \in SUBSET (1 .. n)
    BY <2>1, SourceFacts DEF ChunkPlaces
  <2>3. \A i \in 1 .. n : i \in ToSet(given) <=> i \in S /\ Start(source, i) < Mark
    BY <2>1, <2>2 DEF SeenInv, IsVisible, ChunkPlaces
  <2>4. given \in Seq(1 .. n)
    BY <2>1 DEF WalkInv, GivenInv, ChunkPlaces
  <2> HIDE DEF S
  <2>5. \A k \in 1 .. Len(given) : given[k] \in 1 .. n /\ given[k] \in ToSet(given)
    BY <2>4 DEF ToSet
  <2>6. given \in Seq(S)
    <3>1. \A k \in 1 .. Len(given) : given[k] \in S
      BY <2>3, <2>5
    <3> QED
      BY <2>4, <3>1
  <2>7. \A k, l \in 1 .. Len(given) : k < l => given[k] < given[l]
    BY <2>1 DEF WalkInv, GivenInv
  <2>8. ASSUME NEW x \in S, NEW k \in 1 .. Len(given), x < given[k]
        PROVE  x \in ToSet(given)
    <3>1. x \in 1 .. n /\ given[k] \in 1 .. n
      BY <2>2, <2>5
    <3>2. Start(source, given[k]) < Mark
      BY <2>3, <2>5
    <3>3. Start(source, x) < Start(source, given[k])
      BY <2>1, <2>8, <3>1, SourceFacts DEF ChunkPlaces
    <3>4. Start(source, x) \in Int /\ Start(source, given[k]) \in Int /\ Mark \in Int
      BY <2>1, <3>1, SourceFacts, MarkFacts DEF ChunkPlaces
    <3>5. Start(source, x) < Mark
      BY <3>2, <3>3, <3>4
    <3> QED
      BY <2>3, <3>1, <3>5
  <2>9. /\ IsPrefix(given, Ascending(S))
        /\ S \subseteq ToSet(given) => given = Ascending(S)
    BY <2>2, <2>6, <2>7, <2>8, WalkBegins
  <2>10. ASSUME reply = "EndOfRecords" PROVE S \subseteq ToSet(given)
    <3>1. Mark = ByteCount(source)
      BY <2>1, <2>10 DEF ReplyInv, Mark, Current, Position
    <3>2. \A i \in 1 .. n : Start(source, i) < Mark
      BY <2>1, <3>1, SourceFacts DEF ChunkPlaces
    <3> QED
      BY <2>2, <2>3, <3>2
  <2>11. Visible = Ascending(S)
    BY DEF Visible, S
  <2> QED
    BY <2>1, <2>9, <2>10, <2>11
<1>2. ASSUME CursorInv, source # NoSource, reply = "EndOfRecords",
             \A i \in ToSet(given) : source.chunks[i].kind = "group" => i \in entered
      PROVE  Scans(source)
  <2>1. WellFormed(source) /\ WalkInv /\ readers = <<>> /\ pending = 0
    BY <1>2 DEF CursorInv, ReplyInv
  <2>2. DOMAIN source.chunks = ChunkPlaces /\ Groups(source) \in SUBSET ChunkPlaces
    BY <2>1, SourceFacts
  <2>3. Mark = ByteCount(source)
    BY <2>1 DEF Mark, Current, Position
  <2>4. Groups(source) \cap ToSet(given) \subseteq entered \cup {pending}
    BY <1>2 DEF Groups
  <2>5. \A i \in ChunkPlaces : i \in ToSet(given)
    BY <2>1, <2>3, <2>4, SourceFacts DEF WalkInv, FullWalkInv
  <2> QED
    BY <2>1, <2>2, <2>5 DEF WalkInv, NestingInv, Scans, End, Start, ByteCount
<1>3. CursorInv => CursorAgreesWithIndex
  BY <1>1, <1>2 DEF CursorAgreesWithIndex
<1> QED
  BY <1>3, CursorInvariant, PTL
=============================================================================
