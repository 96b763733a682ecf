-------------------------- MODULE EditSessionProofs --------------------------
(***************************************************************************)
(* Proofs about EditSession, for every package, every limit and any number *)
(* of calls.                                                               *)
(***************************************************************************)
EXTENDS EditSession, FiniteSetTheorems, Places

(***************************************************************************)
(* The package of the handle opens, and so do the files.                   *)
(***************************************************************************)

\* What CreatePackage writes opens.
LEMMA EmptyPackageOpens == Opens([header |-> NewHeader, chunks |-> <<>>])
<1> DEFINE p == [header |-> NewHeader, chunks |-> <<>>]
<1>1. Groups(p) = {} /\ Records(p) = {} /\ Ids(p) = {}
  BY DEF Groups, Records, Ids
<1>2. IsSequence(<<>>) /\ ToSet(<<>>) = {}
  BY DEF IsSequence, ToSet
<1>3. /\ NewHeader.dependencies = <<>> /\ NewHeader.streaming = <<>>
      /\ NewHeader.incompatibilities = {} /\ NewHeader.offsets = {}
      /\ NewHeader.count = 0 /\ NewHeader.owned = 0 /\ NewHeader.text = 0
      /\ NewHeader.next = FirstUserId /\ NewHeader.class = "Full"
  BY DEF NewHeader
<1>4. WellFormed(p)
  <2>1. IsFiniteSet({})
    BY FS_EmptySet
  <2>2. IsHeader(NewHeader)
    <3>1. NewHeader = [field \in DOMAIN NewHeader |-> NewHeader[field]]
      BY DEF NewHeader
    <3> QED
      BY <1>2, <1>3, <2>1, <3>1, LimitsAssumption DEF IsHeader
  <2>3. DOMAIN p = {"header", "chunks"}
    OBVIOUS
  <2> QED
    BY <1>2, <2>2, <2>3 DEF WellFormed
<1>5. Decodes(NewHeader)
  BY <1>2, <1>3, LimitsAssumption DEF Decodes, LoadClassValid, IsInjective
<1>6. Scans(p)
  BY <1>1 DEF Scans
<1>7. {id \in Ids(p) : id.index = OwnedIndex(p.header)} = {}
  BY <1>1
<1>8. Indexes(p)
  BY <1>1, <1>3, <1>6, <1>7, FS_EmptySet DEF Indexes
<1>9. OffsetsInBounds(p)
  BY <1>3 DEF OffsetsInBounds
<1> QED
  BY <1>4, <1>5, <1>8, <1>9 DEF Opens

(***************************************************************************)
(* What a call does to the variables, whichever call it is.                *)
(***************************************************************************)

\* The package is replaced by one that opens.
Edits ==
  /\ Opens(package')
  /\ dirty' = TRUE
  /\ UNCHANGED <<path, disk>>

\* Nothing but the answer changes.
Answers == UNCHANGED <<package, dirty, path, disk, assigned>>

\* The file q takes over what the handle holds.
Writes(q) ==
  /\ Opens(package')
  /\ disk' = [disk EXCEPT ![q] = package']
  /\ path' = q

\* The handle takes over what the file q holds.
Loads(q) ==
  /\ disk[q] # NoFile
  /\ package' = disk[q]
  /\ path' = q
  /\ UNCHANGED disk

\* reopen takes the new package or leaves everything but the answer.
LEMMA ReopenEffect ==
  ASSUME NEW op, NEW mutations, NEW valid, NEW p, Reopen(op, mutations, valid, p)
  PROVE  Edits \/ Answers
BY DEF Reopen, Edits, Answers

\* Every call is one of these.
LEMMA StepEffect ==
  ASSUME Next
  PROVE  Edits \/ Answers \/ \E q \in Paths : Writes(q) \/ Loads(q)
<1>1. ASSUME NEW id \in KnownIds, NEW payload \in Payloads, ReplaceRecord(id, payload)
      PROVE  Edits \/ Answers
  BY <1>1, ReopenEffect DEF ReplaceRecord
<1>2. ASSUME NEW id \in KnownIds, RemoveRecord(id)
      PROVE  Edits \/ Answers
  BY <1>2, ReopenEffect DEF RemoveRecord
<1>3. ASSUME NEW target \in Targets, NEW payload \in Payloads, InsertRecord(target, payload)
      PROVE  Edits \/ Answers
  BY <1>3, ReopenEffect DEF InsertRecord
<1>4. ASSUME NEW target \in Targets, NEW id \in KnownIds, NEW payload \in Payloads,
             InsertRecordWithId(target, id, payload)
      PROVE  Edits \/ Answers
  BY <1>4, ReopenEffect DEF InsertRecordWithId
<1>5. ASSUME NEW mutations \in Batches, ApplyBatch(mutations)
      PROVE  Edits \/ Answers
  BY <1>5, ReopenEffect DEF ApplyBatch, Answers
<1>6. ASSUME NEW class \in Classes, NEW text \in Texts, SetMetadata(class, text)
      PROVE  Edits \/ Answers
  BY <1>6, ReopenEffect DEF SetMetadata, EditHeader
<1>7. ASSUME NEW d \in OtherPackages, AddDependency(d) \/ RemoveDependency(d)
      PROVE  Edits \/ Answers
  BY <1>7, ReopenEffect DEF AddDependency, RemoveDependency, EditHeader
<1>8. ASSUME NEW d \in Rivals, AddIncompatibility(d) \/ RemoveIncompatibility(d)
      PROVE  Edits \/ Answers
  BY <1>8, ReopenEffect DEF AddIncompatibility, RemoveIncompatibility, EditHeader
<1>9. ASSUME NEW list \in StreamingLists, ReplaceStreamingOverrides(list)
      PROVE  Edits \/ Answers
  BY <1>9, ReopenEffect DEF ReplaceStreamingOverrides, EditHeader
<1>10. ASSUME RebuildSceneOffsets
       PROVE  Edits \/ Answers
  BY <1>10, ReopenEffect DEF RebuildSceneOffsets
<1>11. ASSUME RefuseSave \/ WriteFails
       PROVE  Edits \/ Answers
  BY <1>11 DEF RefuseSave, WriteFails, Edits, Answers
<1>12. ASSUME NEW q \in Paths, Save(q) \/ CreatePackage(q)
       PROVE  Writes(q)
  BY <1>12, EmptyPackageOpens DEF Save, CreatePackage, Writes
<1>13. ASSUME NEW q \in Paths, OpenForEditing(q)
       PROVE  Loads(q)
  BY <1>13 DEF OpenForEditing, Loads
<1> QED
  BY <1>1, <1>2, <1>3, <1>4, <1>5, <1>6, <1>7, <1>8, <1>9, <1>10, <1>11, <1>12, <1>13 DEF Next

(***************************************************************************)
(* The handle and its file.                                                *)
(***************************************************************************)

\* Every package there is was opened before it was kept.
FilesInv ==
  /\ path \in Paths
  /\ DOMAIN disk = Paths
  /\ Opens(package)
  /\ \A q \in Paths : disk[q] # NoFile => Opens(disk[q])
  /\ CleanHandleMatchesFile

\* The files hold packages that open at first ...
LEMMA FilesInit == Init => FilesInv
BY SessionAssumption DEF Init, FilesInv, CleanHandleMatchesFile

\* ... after every call ...
LEMMA FilesStep ==
  ASSUME FilesInv, [Next]_vars
  PROVE  FilesInv'
<1> USE DEF FilesInv, CleanHandleMatchesFile
<1>1. CASE Edits
  BY <1>1 DEF Edits
<1>2. CASE Answers
  BY <1>2 DEF Answers
<1>3. ASSUME NEW q \in Paths, Writes(q)
      PROVE  FilesInv'
  BY <1>3 DEF Writes
<1>4. ASSUME NEW q \in Paths, Loads(q)
      PROVE  FilesInv'
  BY <1>4 DEF Loads
<1>5. CASE UNCHANGED vars
  BY <1>5 DEF vars
<1> QED
  BY <1>1, <1>2, <1>3, <1>4, <1>5, StepEffect

\* ... and hence in every session.
LEMMA FilesInvariant == Spec => []FilesInv
BY FilesInit, FilesStep, PTL DEF Spec

\* Whatever is called, and whatever fails, the handle and every file keep a package that
\* opens and indexes: an edit that would break it is refused and leaves the one before
\* (reopen), and what is written is what the handle holds.
THEOREM HandleAlwaysOpens ==
  Spec => [](Opens(package) /\ \A q \in Paths : disk[q] # NoFile => Opens(disk[q]))
<1>1. FilesInv => Opens(package) /\ \A q \in Paths : disk[q] # NoFile => Opens(disk[q])
  BY DEF FilesInv
<1> QED
  BY <1>1, FilesInvariant, PTL

\* A handle that is not dirty holds what its file holds, however edits, saves under
\* other names, failed saves and reopening follow each other.
THEOREM CleanHandlesAlwaysMatch == Spec => []CleanHandleMatchesFile
BY FilesInvariant, PTL DEF FilesInv

(***************************************************************************)
(* Which action gave an answer.                                            *)
(***************************************************************************)

\* reopen answers under the name it is called by.
LEMMA ReopenAnswers ==
  ASSUME NEW op, NEW mutations, NEW valid, NEW p, Reopen(op, mutations, valid, p)
  PROVE  last'.op = op /\ last'.mutations = mutations
BY DEF Reopen, Called

\* The name of a call tells its action.
LEMMA AnswersTell ==
  ASSUME Next
  PROVE  /\ last'.op = "addDependency" => \E d \in OtherPackages : AddDependency(d)
         /\ last'.op = "assign" =>
              \E target \in Targets, payload \in Payloads : InsertRecord(target, payload)
         /\ last'.op = "save" => RefuseSave \/ WriteFails \/ \E q \in Paths : Save(q)
<1>1. ASSUME NEW id \in KnownIds, NEW payload \in Payloads, ReplaceRecord(id, payload)
      PROVE  last'.op = "replace"
  BY <1>1, ReopenAnswers DEF ReplaceRecord
<1>2. ASSUME NEW id \in KnownIds, RemoveRecord(id)
      PROVE  last'.op = "remove"
  BY <1>2, ReopenAnswers DEF RemoveRecord
<1>3. ASSUME NEW target \in Targets, NEW payload \in Payloads, InsertRecord(target, payload)
      PROVE  last'.op = "assign"
  BY <1>3, ReopenAnswers DEF InsertRecord
<1>4. ASSUME NEW target \in Targets, NEW id \in KnownIds, NEW payload \in Payloads,
             InsertRecordWithId(target, id, payload)
      PROVE  last'.op = "insert"
  BY <1>4, ReopenAnswers DEF InsertRecordWithId
<1>5. ASSUME NEW mutations \in Batches, ApplyBatch(mutations)
      PROVE  last'.op = "batch"
  BY <1>5, ReopenAnswers DEF ApplyBatch, Called
<1>6. ASSUME NEW class \in Classes, NEW text \in Texts, SetMetadata(class, text)
      PROVE  last'.op = "metadata"
  BY <1>6, ReopenAnswers DEF SetMetadata, EditHeader
<1>7. ASSUME NEW d \in OtherPackages, AddDependency(d)
      PROVE  last'.op = "addDependency"
  BY <1>7, ReopenAnswers DEF AddDependency, EditHeader
<1>8. ASSUME NEW d \in OtherPackages, RemoveDependency(d)
      PROVE  last'.op = "removeDependency"
  BY <1>8, ReopenAnswers DEF RemoveDependency, EditHeader
<1>9. ASSUME NEW d \in Rivals, AddIncompatibility(d) \/ RemoveIncompatibility(d)
      PROVE  last'.op = "incompatibilities"
  BY <1>9, ReopenAnswers DEF AddIncompatibility, RemoveIncompatibility, EditHeader
<1>10. ASSUME NEW list \in StreamingLists, ReplaceStreamingOverrides(list)
       PROVE  last'.op = "streaming"
  BY <1>10, ReopenAnswers DEF ReplaceStreamingOverrides, EditHeader
<1>11. ASSUME RebuildSceneOffsets
       PROVE  last'.op = "rebuild"
  BY <1>11, ReopenAnswers DEF RebuildSceneOffsets
<1>12. ASSUME NEW q \in Paths, OpenForEditing(q) \/ CreatePackage(q)
       PROVE  last'.op = "open"
  BY <1>12 DEF OpenForEditing, CreatePackage, Called
<1>13. ASSUME RefuseSave \/ WriteFails \/ \E q \in Paths : Save(q)
       PROVE  last'.op = "save"
  BY <1>13 DEF RefuseSave, WriteFails, Save, Called
<1> QED
  BY <1>1, <1>2, <1>3, <1>4, <1>5, <1>6, <1>7, <1>8, <1>9, <1>10, <1>11, <1>12, <1>13 DEF Next

(***************************************************************************)
(* The records of a package that opens.                                    *)
(***************************************************************************)

\* Records and ids are finitely many, and the parts of ids numbers.
LEMMA RecordsAreFinite ==
  ASSUME NEW p, Opens(p)
  PROVE  /\ Len(p.chunks) \in Nat /\ DOMAIN p.chunks = 1 .. Len(p.chunks)
         /\ IsFiniteSet(Records(p)) /\ IsFiniteSet(Ids(p))
         /\ \A id \in Ids(p) : id.index \in Nat /\ id.local \in Nat
<1>1. Len(p.chunks) \in Nat /\ DOMAIN p.chunks = 1 .. Len(p.chunks)
  BY DEF Opens, WellFormed, IsSequence
<1>2. IsFiniteSet(Records(p))
  <2>1. IsFiniteSet(1 .. Len(p.chunks))
    <3>1. Len(p.chunks) \in Int
      BY <1>1
    <3> QED
      BY <3>1, FS_Interval
  <2>2. Records(p) \in SUBSET (1 .. Len(p.chunks))
    BY <1>1 DEF Records
  <2> QED
    BY <2>1, <2>2, FS_Subset
<1>3. IsFiniteSet(Ids(p))
  <2> DEFINE f == [i \in Records(p) |-> p.chunks[i].id]
  <2>1. f \in Surjection(Records(p), Ids(p))
    BY DEF Ids, Surjection
  <2> QED
    BY <1>2, <2>1, FS_Surjection
<1>4. ASSUME NEW id \in Ids(p)
      PROVE  id.index \in Nat /\ id.local \in Nat
  <2>1. PICK i \in Records(p) : id = p.chunks[i].id
    BY DEF Ids
  <2>2. IsRecord(p.chunks[i])
    BY <2>1 DEF Records, Opens, WellFormed, IsGroup
  <2> QED
    BY <2>1, <2>2 DEF IsRecord
<1> QED
  BY <1>1, <1>2, <1>3, <1>4

\* Without records there are no ids, and conversely.
LEMMA CountedRecords ==
  ASSUME NEW p, Opens(p), p.header.count = 0
  PROVE  Ids(p) = {}
<1>1. Records(p) = {}
  BY RecordsAreFinite, FS_EmptySet DEF Opens, Indexes
<1> QED
  BY <1>1 DEF Ids

\* The numbers of a header that decodes.
LEMMA HeaderTypes ==
  ASSUME NEW p, Opens(p)
  PROVE  /\ DOMAIN p.header = DOMAIN NewHeader
         /\ p.header.next \in Nat /\ p.header.count \in Nat
         /\ OwnedIndex(p.header) \in Nat
BY DEF Opens, WellFormed, IsHeader, IsSequence, OwnedIndex

(***************************************************************************)
(* Adding a dependency.                                                    *)
(***************************************************************************)

\* Reopening counts the records with the new index of the package itself: had any
\* record the old one, the counts would disagree.
LEMMA NothingWasOwned ==
  ASSUME NEW p, NEW q, Opens(p), Opens(q), q.chunks = p.chunks,
         q.header.owned = p.header.owned,
         OwnedIndex(q.header) = OwnedIndex(p.header) + 1,
         \A id \in Ids(p) : id.index <= OwnedIndex(p.header)
  PROVE  \A id \in Ids(p) : id.index < OwnedIndex(p.header)
<1> DEFINE Owned(r) == {id \in Ids(r) : id.index = OwnedIndex(r.header)}
<1>1. Ids(q) = Ids(p)
  BY DEF Ids, Records
<1>2. OwnedIndex(p.header) \in Nat /\ \A id \in Ids(p) : id.index \in Nat
  BY HeaderTypes, RecordsAreFinite
<1>3. Owned(q) = {}
  BY <1>1, <1>2
<1>4. Cardinality(Owned(p)) = 0
  BY <1>3, FS_EmptySet DEF Opens, Indexes
<1>5. IsFiniteSet(Owned(p))
  BY RecordsAreFinite, FS_Subset
<1>6. Owned(p) = {}
  BY <1>4, <1>5, FS_EmptySet
<1> QED
  BY <1>2, <1>6

\* A dependency that is added takes the index that no record has.
LEMMA AddDependencyKeepsOwners ==
  ASSUME Opens(package), NEW d \in OtherPackages, AddDependency(d),
         \A id \in Ids(package) : id.index <= OwnedIndex(package.header)
  PROVE  \A id \in Ids(package) : OwnerOf(package'.header, id) = OwnerOf(package.header, id)
<1>1. CASE UNCHANGED package
  BY <1>1
<1>2. CASE /\ Opens(package')
           /\ package' = Rewrite(package, package.chunks, WithDependency(package.header, d))
  <2>1. IsSequence(package.header.dependencies) /\ DOMAIN package.header = DOMAIN NewHeader
    BY DEF Opens, WellFormed, IsHeader
  <2>2. /\ package'.chunks = package.chunks
        /\ package'.header.owned = package.header.owned
        /\ package'.header.dependencies = Append(package.header.dependencies, d)
    BY <1>2, <2>1 DEF Rewrite, WithDependency, NewHeader
  <2>3. OwnedIndex(package'.header) = OwnedIndex(package.header) + 1
    BY <2>1, <2>2 DEF OwnedIndex, IsSequence
  <2>4. \A id \in Ids(package) : id.index < OwnedIndex(package.header)
    <3> DEFINE q == package'
    <3>1. Opens(q) /\ q.chunks = package.chunks /\ q.header.owned = package.header.owned
          /\ OwnedIndex(q.header) = OwnedIndex(package.header) + 1
      BY <1>2, <2>2, <2>3
    <3> HIDE DEF q
    <3> QED
      BY <3>1, NothingWasOwned
  <2>5. ASSUME NEW id \in Ids(package)
        PROVE  OwnerOf(package'.header, id) = OwnerOf(package.header, id)
    <3>1. id.index \in Nat /\ id.index < Len(package.header.dependencies)
      BY <2>4, RecordsAreFinite DEF OwnedIndex
    <3>2. /\ id.index < Len(package'.header.dependencies)
          /\ package'.header.dependencies[id.index + 1]
               = package.header.dependencies[id.index + 1]
      BY <2>1, <2>2, <3>1 DEF IsSequence
    <3> QED
      BY <3>1, <3>2 DEF OwnerOf
  <2> QED
    BY <2>5
<1> QED
  BY <1>1, <1>2 DEF AddDependency, EditHeader, Reopen

\* Adding a dependency moves no record to another owner, for every package that no
\* removed dependency left with records of nobody: the count of owned records that
\* reopening checks refuses to add one to a package with records of its own.
THEOREM OwnersAlwaysKept == Spec => OwnersAreKept
<1>1. ASSUME FilesInv, [Next]_vars
      PROVE  [last'.op = "addDependency"
              /\ OwnersKnown(package)
              => \A id \in Ids(package) :
                   OwnerOf(package'.header, id) = OwnerOf(package.header, id)]_vars
  <2>1. CASE Next
    BY <1>1, <2>1, AnswersTell, AddDependencyKeepsOwners DEF FilesInv, OwnersKnown
  <2> QED
    BY <1>1, <2>1
<1> QED
  BY <1>1, FilesInvariant, PTL DEF Spec, OwnersAreKept

(***************************************************************************)
(* The next local id.                                                      *)
(***************************************************************************)

\* Max takes the greatest element of a set that is bounded.
LEMMA Greatest ==
  ASSUME NEW n \in Nat, NEW T \in SUBSET (0 .. n), NEW x \in T
  PROVE  Max(T) \in T /\ x <= Max(T)
<1>1. PICK k \in T : \A l \in T : l <= k
  BY LastPlace
<1>2. k \in T /\ \A l \in T : k >= l
  BY <1>1
<1>3. Max(T) \in T /\ \A l \in T : Max(T) >= l
  BY <1>2, Zenon DEF Max
<1> QED
  BY <1>3

\* Rewriting the header leaves the next id as it is given.
LEMMA RewrittenNext ==
  ASSUME NEW p, NEW chunks, NEW h, DOMAIN h = DOMAIN NewHeader
  PROVE  /\ Rewrite(p, chunks, h).header.next = h.next
         /\ Rewrite(p, chunks, h).header.count = h.count
         /\ Rewrite(p, chunks, h).chunks = chunks
BY DEF Rewrite, NewHeader

\* It leaves the dependencies, too, and with them the index of the package itself.
LEMMA RewrittenDependencies ==
  ASSUME NEW p, NEW chunks, NEW h, DOMAIN h = DOMAIN NewHeader
  PROVE  OwnedIndex(Rewrite(p, chunks, h).header) = OwnedIndex(h)
BY DEF Rewrite, NewHeader, OwnedIndex

\* An insertion leaves the next id behind the inserted one and the one before.
LEMMA InsertedNext ==
  ASSUME NEW p, Opens(p), NEW target, NEW id, NEW payload, id.local \in Nat
  PROVE  /\ Inserted(p, target, id, payload).header.next >= p.header.next
         /\ id.index = OwnedIndex(p.header)
              => Inserted(p, target, id, payload).header.next > id.local
<1>1. DOMAIN p.header = DOMAIN NewHeader /\ p.header.next \in Nat
  BY HeaderTypes
<1>2. DOMAIN HeaderWith(p, id) = DOMAIN NewHeader
  BY <1>1 DEF HeaderWith
<1>3. /\ HeaderWith(p, id).next >= p.header.next
      /\ id.index = OwnedIndex(p.header) => HeaderWith(p, id).next > id.local
  BY <1>1 DEF HeaderWith, NextAfter, NewHeader
<1>4. Inserted(p, target, id, payload).header.next = HeaderWith(p, id).next
  BY <1>2, RewrittenNext DEF Inserted
<1> QED
  BY <1>3, <1>4

\* A batch leaves the next id where it was or moves it on, behind all that it inserts.
LEMMA BatchedNext ==
  ASSUME NEW p, Opens(p), NEW mutations,
         \A j \in DOMAIN mutations : mutations[j].id.local \in Nat,
         BatchValid(p, mutations)
  PROVE  /\ Batched(p, mutations).header.next >= p.header.next
         /\ \A j \in DOMAIN mutations :
              mutations[j].kind = "insert" /\ mutations[j].id.index = OwnedIndex(p.header)
                => mutations[j].id.local < Batched(p, mutations).header.next
<1> DEFINE inserts == {j \in DOMAIN mutations : mutations[j].kind = "insert"}
           owned == {j \in inserts : mutations[j].id.index = OwnedIndex(p.header)}
           behind == {mutations[j].id.local + 1 : j \in owned}
           n == p.header.next + MaxLocalId + 1
<1>1. DOMAIN p.header = DOMAIN NewHeader /\ p.header.next \in Nat
  BY HeaderTypes
<1>2. MaxLocalId \in Nat
  BY LimitsAssumption
<1>3. n \in Nat
  BY <1>1, <1>2
<1>4. ASSUME NEW j \in owned
      PROVE  mutations[j].id.local + 1 \in 0 .. n
  <2>1. mutations[j].id.local \in Nat /\ mutations[j].id.local <= MaxLocalId
    BY DEF BatchValid, MutationValid, CanInsert
  <2> QED
    BY <1>1, <1>2, <2>1
<1>5. {p.header.next} \cup behind \in SUBSET (0 .. n)
  BY <1>1, <1>2, <1>4
<1>6. Max({p.header.next} \cup behind) >= p.header.next
  <2> HIDE DEF n, behind
  <2>1. p.header.next <= Max({p.header.next} \cup behind)
    BY <1>3, <1>5, Greatest
  <2>2. Max({p.header.next} \cup behind) \in 0 .. n
    BY <1>3, <1>5, Greatest
  <2> QED
    BY <1>1, <1>3, <2>1, <2>2
<1>7. DOMAIN BatchHeader(p, mutations) = DOMAIN NewHeader
  BY <1>1 DEF BatchHeader
<1>8. BatchHeader(p, mutations).next = Max({p.header.next} \cup behind)
  BY <1>1 DEF BatchHeader, NewHeader
<1>9. Batched(p, mutations).header.next = BatchHeader(p, mutations).next
  BY <1>7, RewrittenNext DEF Batched
<1>10. ASSUME NEW j \in owned
       PROVE  mutations[j].id.local < Max({p.header.next} \cup behind)
  <2> DEFINE x == mutations[j].id.local + 1
             S == {p.header.next} \cup behind
  <2>1. x \in S /\ x \in 0 .. n
    BY <1>4
  <2>2. S \in SUBSET (0 .. n)
    BY <1>5
  <2>3. mutations[j].id.local \in Nat
    OBVIOUS
  <2> HIDE DEF n, S, behind, owned
  <2>4. Max(S) \in 0 .. n /\ x <= Max(S)
    BY <1>3, <2>1, <2>2, Greatest
  <2> QED
    BY <1>3, <2>3, <2>4 DEF S
<1> QED
  BY <1>6, <1>8, <1>9, <1>10

\* Every id assigned is behind the next one.
FreshInv ==
  /\ Ids(package) = {} => assigned = {}
  /\ \A x \in assigned : x \in Nat /\ x < package.header.next

\* p keeps the next id of the package or advances it, unless it has no record.
Advances(p) == Ids(p) = {} \/ p.header.next >= package.header.next

\* reopen keeps the assigned ids below the next one if the edit does.
LEMMA ReopenStaysFresh ==
  ASSUME FilesInv, FreshInv,
         NEW op, NEW mutations, NEW valid, NEW p, Reopen(op, mutations, valid, p),
         valid /\ Opens(p) => Advances(p),
         op = "assign" => /\ mutations[1].id.local \in Nat
                          /\ mutations[1].id.local < p.header.next
  PROVE  FreshInv'
<1>1. CASE UNCHANGED <<package, assigned>>
  BY <1>1 DEF FreshInv
<1>2. CASE /\ valid /\ Opens(p)
           /\ package' = p
           /\ assigned' = IF Ids(p) = {} THEN {}
                          ELSE IF op = "assign" THEN assigned \cup {mutations[1].id.local}
                          ELSE assigned
  <2>1. Ids(p) = {} => assigned' = {}
    BY <1>2
  <2>2. p.header.next \in Nat /\ package.header.next \in Nat
    BY <1>2, HeaderTypes DEF FilesInv
  <2>3. ASSUME NEW x \in assigned'
        PROVE  x \in Nat /\ x < p.header.next
    <3>1. Ids(p) # {} /\ p.header.next >= package.header.next
      BY <1>2, <2>3 DEF Advances
    <3>2. CASE x \in assigned
      BY <2>2, <3>1, <3>2 DEF FreshInv
    <3>3. CASE x \notin assigned
      BY <1>2, <2>3, <3>1, <3>3
    <3> QED
      BY <3>2, <3>3
  <2> QED
    BY <1>2, <2>1, <2>3 DEF FreshInv
<1> QED
  BY <1>1, <1>2 DEF Reopen

\* A header that keeps the next id or belongs to a package without records.
LEMMA HeaderAdvances ==
  ASSUME FilesInv, NEW h, DOMAIN h = DOMAIN NewHeader,
         h.next = package.header.next \/ h.count = 0
  PROVE  Opens(Rewrite(package, package.chunks, h)) =>
           Advances(Rewrite(package, package.chunks, h))
<1> DEFINE p == Rewrite(package, package.chunks, h)
<1>1. package.header.next \in Nat
  BY HeaderTypes DEF FilesInv
<1>2. p.header.next = h.next /\ p.header.count = h.count
  BY RewrittenNext
<1> HIDE DEF p
<1>3. ASSUME Opens(p)
      PROVE  Advances(p)
  BY <1>1, <1>2, <1>3, CountedRecords DEF Advances
<1> QED
  BY <1>3 DEF p

\* Every call does.
LEMMA FreshStep ==
  ASSUME FilesInv, FreshInv, [Next]_vars
  PROVE  FreshInv'
<1>0. /\ DOMAIN package.header = DOMAIN NewHeader
      /\ package.header.next \in Nat
  BY HeaderTypes DEF FilesInv
<1>1. ASSUME NEW id \in KnownIds, NEW payload \in Payloads, ReplaceRecord(id, payload)
      PROVE  FreshInv'
  <2>1. Replaced(package, id, payload).header = package.header
    BY <1>0 DEF Replaced, FilesInv, Opens, WellFormed
  <2> QED
    BY <1>0, <1>1, <2>1, ReopenStaysFresh DEF ReplaceRecord, Advances
<1>2. ASSUME NEW id \in KnownIds, RemoveRecord(id)
      PROVE  FreshInv'
  <2>1. DOMAIN HeaderWithout(package, id) = DOMAIN NewHeader
    BY <1>0 DEF HeaderWithout
  <2>2. HeaderWithout(package, id).next = package.header.next
    BY <1>0 DEF HeaderWithout, NewHeader
  <2>3. Removed(package, id).header.next = package.header.next
    BY <2>1, <2>2, RewrittenNext DEF Removed
  <2> QED
    BY <1>0, <1>2, <2>3, ReopenStaysFresh DEF RemoveRecord, Advances
<1>3. ASSUME NEW target \in Targets, NEW payload \in Payloads, InsertRecord(target, payload)
      PROVE  FreshInv'
  <2> DEFINE id == RecordId(OwnedIndex(package.header), package.header.next)
             p == Inserted(package, target, id, payload)
             mutations == <<Mutation("insert", id, payload, target)>>
  <2>1. id.local = package.header.next /\ id.index = OwnedIndex(package.header)
    BY DEF RecordId
  <2>2. p.header.next >= package.header.next /\ p.header.next > id.local
    BY <1>0, <2>1, InsertedNext DEF FilesInv
  <2>3. mutations[1].id.local = package.header.next
    BY <2>1 DEF Mutation
  <2>4. mutations[1].id.local \in Nat /\ mutations[1].id.local < p.header.next
    BY <1>0, <2>1, <2>2, <2>3
  <2>5. Reopen("assign", mutations,
               CanInsert(package, id) /\ IsTarget(package, target), p)
    BY <1>3 DEF InsertRecord
  <2> HIDE DEF id, p, mutations
  <2> QED
    BY <2>2, <2>4, <2>5, ReopenStaysFresh DEF Advances
<1>4. ASSUME NEW target \in Targets, NEW id \in KnownIds, NEW payload \in Payloads,
             InsertRecordWithId(target, id, payload)
      PROVE  FreshInv'
  <2>1. Inserted(package, target, id, payload).header.next >= package.header.next
    BY InsertedNext, SessionAssumption DEF FilesInv
  <2> QED
    BY <1>4, <2>1, ReopenStaysFresh DEF InsertRecordWithId, Advances
<1>5. ASSUME NEW mutations \in Batches, ApplyBatch(mutations)
      PROVE  FreshInv'
  <2>1. CASE UNCHANGED <<package, assigned>>
    BY <2>1 DEF FreshInv
  <2>2. CASE Reopen("batch", mutations, BatchValid(package, mutations),
                    Batched(package, mutations))
    <3>1. PICK n \in 0 .. MaxBatch : mutations \in [1 .. n -> Mutations]
      BY DEF Batches
    <3>2. \A j \in DOMAIN mutations : mutations[j].id.local \in Nat
      BY <3>1, SessionAssumption DEF Mutations, Mutation
    <3>3. BatchValid(package, mutations)
            => Batched(package, mutations).header.next >= package.header.next
      BY <3>2, BatchedNext DEF FilesInv
    <3> QED
      BY <2>2, <3>3, ReopenStaysFresh DEF Advances
  <2> QED
    BY <1>5, <2>1, <2>2 DEF ApplyBatch
<1>6. ASSUME NEW op, op # "assign", NEW valid, NEW h, EditHeader(op, valid, h),
             DOMAIN h = DOMAIN NewHeader,
             h.next = package.header.next \/ h.count = 0
      PROVE  FreshInv'
  BY <1>6, HeaderAdvances, ReopenStaysFresh DEF EditHeader
<1>7. ASSUME NEW class \in Classes, NEW text \in Texts, SetMetadata(class, text)
      PROVE  FreshInv'
  <2> DEFINE h == [SetLoadClass(package.header, class) EXCEPT !.text = text]
  <2>1. DOMAIN h = DOMAIN NewHeader
    BY <1>0 DEF SetLoadClass
  <2>2. h.next = package.header.next \/ h.count = 0
    BY <1>0 DEF SetLoadClass, NewHeader
  <2> QED
    BY <1>6, <1>7, <2>1, <2>2 DEF SetMetadata
<1>8. ASSUME NEW d \in OtherPackages, AddDependency(d) \/ RemoveDependency(d)
      PROVE  FreshInv'
  <2>1. /\ DOMAIN WithDependency(package.header, d) = DOMAIN NewHeader
        /\ WithDependency(package.header, d).next = package.header.next
    BY <1>0 DEF WithDependency, NewHeader
  <2>2. /\ DOMAIN WithoutDependency(package.header, d) = DOMAIN NewHeader
        /\ WithoutDependency(package.header, d).next = package.header.next
    BY <1>0 DEF WithoutDependency, NewHeader
  <2> QED
    BY <1>6, <1>8, <2>1, <2>2 DEF AddDependency, RemoveDependency
<1>9. ASSUME NEW d \in Rivals, AddIncompatibility(d) \/ RemoveIncompatibility(d)
      PROVE  FreshInv'
  <2>1. /\ DOMAIN WithIncompatibility(package.header, d) = DOMAIN NewHeader
        /\ WithIncompatibility(package.header, d).next = package.header.next
    BY <1>0 DEF WithIncompatibility, NewHeader
  <2>2. /\ DOMAIN WithoutIncompatibility(package.header, d) = DOMAIN NewHeader
        /\ WithoutIncompatibility(package.header, d).next = package.header.next
    BY <1>0 DEF WithoutIncompatibility, NewHeader
  <2> QED
    BY <1>6, <1>9, <2>1, <2>2 DEF AddIncompatibility, RemoveIncompatibility
<1>10. ASSUME NEW list \in StreamingLists, ReplaceStreamingOverrides(list)
       PROVE  FreshInv'
  <2>1. /\ DOMAIN WithStreaming(package.header, list) = DOMAIN NewHeader
        /\ WithStreaming(package.header, list).next = package.header.next
    BY <1>0 DEF WithStreaming, NewHeader
  <2> QED
    BY <1>6, <1>10, <2>1 DEF ReplaceStreamingOverrides
<1>11. /\ Rebuilt(package).header.next = package.header.next
       /\ Ids(Rebuilt(package)) = Ids(package)
  BY <1>0 DEF Rebuilt, Rewrite, NewHeader, Ids, Records
<1>12. ASSUME RebuildSceneOffsets
       PROVE  FreshInv'
  BY <1>0, <1>11, <1>12, ReopenStaysFresh DEF RebuildSceneOffsets, Advances
<1>13. ASSUME UNCHANGED assigned, package' = package \/ package' = Rebuilt(package)
       PROVE  FreshInv'
  BY <1>11, <1>13 DEF FreshInv
<1>14. ASSUME RefuseSave \/ WriteFails \/ \E q \in Paths : Save(q)
       PROVE  FreshInv'
  BY <1>13, <1>14 DEF RefuseSave, WriteFails, Save
<1>15. ASSUME NEW q \in Paths, OpenForEditing(q) \/ CreatePackage(q)
       PROVE  FreshInv'
  BY <1>15 DEF OpenForEditing, CreatePackage, FreshInv
<1>16. CASE UNCHANGED vars
  BY <1>13, <1>16 DEF vars
<1> QED
  BY <1>1, <1>2, <1>3, <1>4, <1>5, <1>7, <1>8, <1>9, <1>10, <1>12, <1>14, <1>15, <1>16 DEF Next

\* Assigned ids stay below the next one in every session.
LEMMA FreshInvariant == Spec => [](FilesInv /\ FreshInv)
<1>1. Init => FilesInv /\ FreshInv
  BY FilesInit DEF Init, FreshInv
<1>2. FilesInv /\ FreshInv /\ [Next]_vars => (FilesInv /\ FreshInv)'
  BY FilesStep, FreshStep
<1> QED
  BY <1>1, <1>2, PTL DEF Spec

\* No id is assigned twice while the package has records, whichever calls insert,
\* remove, change the load class or save in between: the next id never goes back before
\* the package is empty.
THEOREM AssignedIdsAlwaysFresh == Spec => AssignedIdsAreFresh
<1>1. ASSUME FreshInv, [Next]_vars
      PROVE  [last'.op = "assign" /\ last'.ok
              => last'.mutations[1].id.local \notin assigned]_vars
  <2>1. ASSUME NEW target \in Targets, NEW payload \in Payloads, InsertRecord(target, payload)
        PROVE  last'.mutations[1].id.local = package.header.next
    BY <2>1, ReopenAnswers DEF InsertRecord, Mutation, RecordId
  <2>2. package.header.next \notin assigned
    BY <1>1 DEF FreshInv
  <2>3. CASE Next
    BY <2>1, <2>2, <2>3, AnswersTell
  <2> QED
    BY <1>1, <2>3
<1> QED
  BY <1>1, FreshInvariant, PTL DEF Spec, AssignedIdsAreFresh

(***************************************************************************)
(* Offsets: a header of another length moves every chunk by the difference.*)
(***************************************************************************)

\* The recursive definition of Starts has a solution, for every number of chunks.
LEMMA StartsAdd ==
  ASSUME NEW p, Len(p.chunks) \in Nat
  PROVE  Starts(p) = [i \in 1 .. Len(p.chunks) + 1 |->
                        IF i = 1 THEN HeaderSize(p.header)
                        ELSE Starts(p)[i - 1] + OwnSize(p.chunks[i - 1])]
<1> DEFINE n == Len(p.chunks)
           h == HeaderSize(p.header)
           own(i) == OwnSize(p.chunks[i])
           Solves(f, m) == f = [i \in 1 .. m |-> IF i = 1 THEN h ELSE f[i - 1] + own(i - 1)]
           S == {m \in 1 .. n + 1 : \E f : Solves(f, m)}
<1>1. 1 \in S
  <2>1. Solves([i \in 1 .. 1 |-> h], 1)
    OBVIOUS
  <2>2. 1 \in 1 .. n + 1
    OBVIOUS
  <2> HIDE DEF Solves, n
  <2> QED
    BY <2>1, <2>2
<1>2. ASSUME NEW m \in 1 .. n, m \in S
      PROVE  m + 1 \in S
  <2>1. PICK f : Solves(f, m)
    BY <1>2
  <2> DEFINE g == [i \in 1 .. m + 1 |-> IF i <= m THEN f[i] ELSE f[m] + own(m)]
  <2> HIDE DEF own, h
  <2>2. ASSUME NEW i \in 1 .. m + 1
        PROVE  g[i] = IF i = 1 THEN h ELSE g[i - 1] + own(i - 1)
    <3>1. CASE i <= m
      <4>1. f[i] = IF i = 1 THEN h ELSE f[i - 1] + own(i - 1)
        BY <2>1, <3>1
      <4> QED
        BY <3>1, <4>1
    <3>2. CASE i = m + 1
      BY <3>2
    <3> QED
      BY <3>1, <3>2
  <2>3. Solves(g, m + 1)
    BY <2>2
  <2>4. m + 1 \in 1 .. n + 1
    OBVIOUS
  <2> HIDE DEF Solves, n, g
  <2> QED
    BY <2>3, <2>4
<1>3. n + 1 \in S
  <2>1. n \in Nat /\ n + 1 \in 1 .. n + 1
    OBVIOUS
  <2> HIDE DEF S, n
  <2> QED
    BY <1>1, <1>2, <2>1, EveryPlace
<1>4. PICK f : Solves(f, n + 1)
  BY <1>3
<1>5. Starts(p) = CHOOSE start : Solves(start, n + 1)
  BY DEF Starts
<1>6. Solves(Starts(p), n + 1)
  <2> HIDE DEF Solves
  <2> QED
    BY <1>4, <1>5
<1> QED
  BY <1>6

\* The length of a header is a number, and no header is empty.
LEMMA HeaderSizeType ==
  ASSUME NEW h, h.text \in Nat, IsSequence(h.dependencies), IsSequence(h.streaming),
         IsFiniteSet(h.incompatibilities), IsFiniteSet(h.offsets)
  PROVE  HeaderSize(h) \in Nat
<1>1. /\ Cardinality(h.incompatibilities) \in Nat
      /\ Cardinality(h.offsets) \in Nat
  BY FS_CardinalityType
<1>2. Cardinality(Worlds(h)) \in Nat
  <2> DEFINE f == [o \in h.offsets |-> o.world]
  <2>1. f \in Surjection(h.offsets, Worlds(h))
    BY DEF Surjection, Worlds
  <2> QED
    BY <2>1, FS_Surjection, FS_CardinalityType
<1>3. Len(h.dependencies) \in Nat /\ Len(h.streaming) \in Nat /\ h.text \in Nat
  BY DEF IsSequence
<1> DEFINE dependencies == Len(h.dependencies)
           incompatibilities == Cardinality(h.incompatibilities)
           streaming == Len(h.streaming)
           worlds == Cardinality(Worlds(h))
           scenes == Cardinality(h.offsets)
<1>4. HeaderSize(h) = 1 + h.text + dependencies + incompatibilities + streaming + worlds + scenes
  BY DEF HeaderSize, RecordHeaderSize
<1> HIDE DEF dependencies, incompatibilities, streaming, worlds, scenes
<1>5. /\ dependencies \in Nat /\ incompatibilities \in Nat /\ streaming \in Nat
      /\ worlds \in Nat /\ scenes \in Nat
  BY <1>1, <1>2, <1>3 DEF dependencies, incompatibilities, streaming, worlds, scenes
<1> QED
  BY <1>3, <1>4, <1>5

\* So are the lengths of chunks.
LEMMA ChunkTypes ==
  ASSUME NEW p, WellFormed(p), NEW i \in 1 .. Len(p.chunks)
  PROVE  OwnSize(p.chunks[i]) \in Nat /\ Span(p.chunks[i]) \in Nat
<1>1. IsRecord(p.chunks[i]) \/ IsGroup(p.chunks[i])
  BY DEF WellFormed, IsSequence
<1> QED
  BY <1>1 DEF IsRecord, IsGroup, OwnSize, Span, RecordSize, RecordHeaderSize, GroupHeaderSize

\* So are the offsets.
LEMMA StartTypes ==
  ASSUME NEW p, WellFormed(p)
  PROVE  \A i \in 1 .. Len(p.chunks) + 1 : Start(p, i) \in Nat
<1> DEFINE n == Len(p.chunks)
           S == {i \in 1 .. n + 1 : Start(p, i) \in Nat}
<1>1. n \in Nat
  BY DEF WellFormed, IsSequence
<1>2. \A i \in 1 .. n + 1 :
        Start(p, i) = IF i = 1 THEN HeaderSize(p.header)
                      ELSE Start(p, i - 1) + OwnSize(p.chunks[i - 1])
  BY <1>1, StartsAdd DEF Start
<1>3. HeaderSize(p.header) \in Nat
  BY HeaderSizeType DEF WellFormed, IsHeader
<1>4. \A i \in 1 .. n : OwnSize(p.chunks[i]) \in Nat
  BY ChunkTypes
<1> HIDE DEF n
<1>5. 1 \in S
  BY <1>1, <1>2, <1>3
<1>6. ASSUME NEW i \in 1 .. n, i \in S
      PROVE  i + 1 \in S
  BY <1>1, <1>2, <1>4, <1>6
<1>7. \A i \in 1 .. n + 1 : i \in S
  <2> HIDE DEF S
  <2> QED
    BY <1>1, <1>5, <1>6, EveryPlace
<1> QED
  BY <1>7 DEF n

\* Chunks start one behind the other, at offsets that ascend with their places.
LEMMA ChunksStartInOrder ==
  ASSUME NEW p, WellFormed(p)
  PROVE  /\ Len(p.chunks) \in Nat /\ DOMAIN p.chunks = 1 .. Len(p.chunks)
         /\ \A i \in 1 .. Len(p.chunks) + 1 : Start(p, i) \in Nat
         /\ \A i \in 1 .. Len(p.chunks) :
              /\ Start(p, i + 1) = Start(p, i) + OwnSize(p.chunks[i])
              /\ OwnSize(p.chunks[i]) \in Nat \ {0}
         /\ \A i, j \in 1 .. Len(p.chunks) + 1 : i < j <=> Start(p, i) < Start(p, j)
<1> DEFINE n == Len(p.chunks)
           c == [i \in 1 .. n + 1 |-> Start(p, i)]
           own(i) == OwnSize(p.chunks[i])
<1>1. n \in Nat /\ DOMAIN p.chunks = 1 .. n
  BY DEF WellFormed, IsSequence
<1>2. \A i \in 1 .. n + 1 : Start(p, i) \in Nat
  BY StartTypes
<1>3. \A i \in 1 .. n + 1 : Start(p, i) = IF i = 1 THEN HeaderSize(p.header)
                                          ELSE Start(p, i - 1) + own(i - 1)
  BY <1>1, StartsAdd DEF Start
<1>4. ASSUME NEW i \in 1 .. n PROVE own(i) \in Nat \ {0}
  <2>1. IsRecord(p.chunks[i]) \/ IsGroup(p.chunks[i])
    BY <1>1 DEF WellFormed
  <2> QED
    BY <2>1 DEF IsRecord, IsGroup, OwnSize, RecordSize, RecordHeaderSize, GroupHeaderSize
<1> HIDE DEF n, own
<1>5. ASSUME NEW i \in 1 .. n PROVE Start(p, i + 1) = Start(p, i) + own(i)
  <2>1. i + 1 \in 1 .. n + 1 /\ i + 1 # 1 /\ (i + 1) - 1 = i
    BY <1>1
  <2> QED
    BY <1>3, <2>1
<1>6. \A i, j \in 1 .. n + 1 : i < j => Start(p, i) < Start(p, j)
  <2>1. ASSUME NEW i \in 2 .. n + 1 PROVE c[i - 1] < c[i]
    <3>1. i - 1 \in 1 .. n /\ (i - 1) + 1 = i /\ i - 1 \in 1 .. n + 1 /\ i \in 1 .. n + 1
      BY <1>1
    <3>2. Start(p, i) = Start(p, i - 1) + own(i - 1) /\ own(i - 1) \in Nat \ {0}
      BY <1>4, <1>5, <3>1
    <3>3. Start(p, i - 1) \in Nat
      BY <1>2, <3>1
    <3> QED
      BY <3>1, <3>2, <3>3
  <2>2. \A i \in 1 .. n + 1 : c[i] \in Int
    BY <1>2
  <2>3. n + 1 \in Nat
    BY <1>1
  <2> HIDE DEF c
  <2>4. \A i, j \in 1 .. n + 1 : i < j => c[i] < c[j]
    BY <2>1, <2>2, <2>3, NeighboursAscend
  <2> QED
    BY <2>4 DEF c
<1>7. ASSUME NEW i \in 1 .. n + 1, NEW j \in 1 .. n + 1, Start(p, i) < Start(p, j) PROVE i < j
  <2>1. j < i => Start(p, j) < Start(p, i)
    BY <1>6
  <2>2. Start(p, i) \in Int /\ Start(p, j) \in Int
    BY <1>2
  <2>3. i \in Int /\ j \in Int
    BY <1>1
  <2> QED
    BY <1>7, <2>1, <2>2, <2>3
<1> QED
  BY <1>1, <1>2, <1>4, <1>5, <1>6, <1>7 DEF n, own

\* A record ends where the next chunk starts, and so does an empty group.
LEMMA ChunksEnd ==
  ASSUME NEW p, WellFormed(p), NEW i \in 1 .. Len(p.chunks)
  PROVE  /\ End(p, i) \in Nat
         /\ p.chunks[i].kind \in {"record", "group"}
         /\ p.chunks[i].kind = "record" => End(p, i) = Start(p, i + 1)
         /\ p.chunks[i].kind = "group" =>
              /\ p.chunks[i].size \in Nat
              /\ End(p, i) = Start(p, i) + p.chunks[i].size
              /\ Start(p, i + 1) = Start(p, i) + GroupHeaderSize
<1>1. IsRecord(p.chunks[i]) \/ IsGroup(p.chunks[i])
  BY ChunksStartInOrder DEF WellFormed
<1>2. Start(p, i) \in Nat /\ Start(p, i + 1) = Start(p, i) + OwnSize(p.chunks[i])
  <2>1. i \in 1 .. Len(p.chunks) + 1
    BY ChunksStartInOrder
  <2> QED
    BY <2>1, ChunksStartInOrder
<1>3. Span(p.chunks[i]) \in Nat
  BY ChunkTypes
<1>4. CASE IsRecord(p.chunks[i])
  <2>1. p.chunks[i].kind = "record" /\ OwnSize(p.chunks[i]) = Span(p.chunks[i])
    BY <1>4 DEF IsRecord, OwnSize, Span
  <2>2. End(p, i) = Start(p, i + 1)
    BY <1>2, <2>1 DEF End
  <2> QED
    BY <1>2, <1>3, <2>1, <2>2 DEF End
<1>5. CASE IsGroup(p.chunks[i])
  <2>1. /\ p.chunks[i].kind = "group" /\ p.chunks[i].size \in Nat
        /\ OwnSize(p.chunks[i]) = GroupHeaderSize /\ Span(p.chunks[i]) = p.chunks[i].size
    BY <1>5 DEF IsGroup, OwnSize, Span
  <2> QED
    BY <1>2, <2>1 DEF End
<1> QED
  BY <1>1, <1>4, <1>5

\* Where the groups nest, they end where a chunk starts, or the content ends.
LEMMA GroupsEndAtStarts ==
  ASSUME NEW p, WellFormed(p), Scans(p), NEW g \in Groups(p)
  PROVE  \E j \in 1 .. Len(p.chunks) + 1 : g < j /\ End(p, g) = Start(p, j)
<1> DEFINE n == Len(p.chunks)
<1>2. /\ n \in Nat /\ DOMAIN p.chunks = 1 .. n
      /\ \A i \in 1 .. n + 1 : Start(p, i) \in Nat
      /\ \A i, j \in 1 .. n + 1 : i < j <=> Start(p, i) < Start(p, j)
  BY ChunksStartInOrder
<1>3. g \in 1 .. n /\ p.chunks[g].kind = "group"
  BY <1>2 DEF Groups
<1>4. /\ p.chunks[g].size >= GroupHeaderSize
      /\ End(p, g) <= Start(p, n + 1)
      /\ \A i \in 1 .. n : Start(p, g) < Start(p, i) /\ Start(p, i) < End(p, g)
                             => End(p, i) <= End(p, g)
      /\ \A i \in Groups(p) : p.chunks[i].size >= GroupHeaderSize
  BY <1>2, <1>3 DEF Scans, Start, End, Groups
<1>5. /\ End(p, g) \in Nat /\ p.chunks[g].size \in Nat
      /\ End(p, g) = Start(p, g) + p.chunks[g].size
      /\ Start(p, g + 1) = Start(p, g) + GroupHeaderSize
  BY <1>3, ChunksEnd
<1> DEFINE T == {j \in 1 .. n + 1 : End(p, g) <= Start(p, j)}
<1>6. PICK j \in T : \A l \in T : j <= l
  <2>1. n + 1 \in T
    BY <1>2, <1>4
  <2>2. T \in SUBSET Nat
    BY <1>2
  <2> HIDE DEF T
  <2> QED
    BY <2>1, <2>2, FirstPlace
<1>7. j \in 1 .. n + 1 /\ End(p, g) <= Start(p, j)
  OBVIOUS
<1>8. End(p, g) = Start(p, j)
  <2> SUFFICES ASSUME End(p, g) < Start(p, j) PROVE FALSE
    BY <1>2, <1>5, <1>7
  <2> DEFINE i == j - 1
  <2>1. g \in 1 .. n + 1 /\ g + 1 \in 1 .. n + 1 /\ Start(p, g) \in Nat
    BY <1>2, <1>3
  <2>2. Start(p, g) < Start(p, j)
    BY <1>2, <1>4, <1>5, <1>7, <2>1 DEF GroupHeaderSize
  <2>3. g < j
    BY <1>2, <1>7, <2>1, <2>2
  <2>4. i \in 1 .. n /\ i + 1 = j /\ i \in 1 .. n + 1 /\ i < j
    BY <1>2, <1>3, <1>7, <2>3
  <2>5. Start(p, i) < End(p, g)
    <3>1. i \in Int /\ j \in Int /\ ~ (j <= i)
      BY <1>2, <1>7, <2>4
    <3> HIDE DEF i
    <3>2. ~ (End(p, g) <= Start(p, i))
      BY <1>6, <2>4, <3>1
    <3>3. Start(p, i) \in Nat
      BY <1>2, <2>4
    <3> QED
      BY <1>5, <3>2, <3>3
  <2>6. g # i
    <3> SUFFICES ASSUME g = i PROVE FALSE
      OBVIOUS
    <3>1. Start(p, j) = Start(p, g) + GroupHeaderSize
      BY <1>5, <2>4
    <3> QED
      BY <1>4, <1>5, <2>1, <3>1 DEF GroupHeaderSize
  <2>7. Start(p, g) < Start(p, i)
    <3>1. g < i
      <4>1. g \in Int /\ j \in Int
        BY <1>2, <1>3
      <4> QED
        BY <2>3, <2>6, <4>1
    <3> HIDE DEF i
    <3>2. i \in 1 .. n + 1 /\ g \in 1 .. n + 1
      BY <2>1, <2>4
    <3>3. \A l \in 1 .. n + 1 : g < l => Start(p, g) < Start(p, l)
      BY <1>2, <3>2
    <3> QED
      BY <3>1, <3>2, <3>3
  <2>8. End(p, i) <= End(p, g)
    BY <1>4, <2>4, <2>5, <2>7
  <2>9. Start(p, j) <= End(p, i)
    <3>1. /\ p.chunks[i].kind \in {"record", "group"}
          /\ p.chunks[i].kind = "record" => End(p, i) = Start(p, i + 1)
          /\ p.chunks[i].kind = "group" =>
               /\ p.chunks[i].size \in Nat
               /\ End(p, i) = Start(p, i) + p.chunks[i].size
               /\ Start(p, i + 1) = Start(p, i) + GroupHeaderSize
      BY <2>4, ChunksEnd
    <3>2. p.chunks[i].kind = "group" => p.chunks[i].size >= GroupHeaderSize
      BY <1>2, <1>4, <2>4 DEF Groups
    <3>3. Start(p, i) \in Nat /\ Start(p, j) \in Nat
      BY <1>2, <1>7, <2>4
    <3> HIDE DEF i
    <3> QED
      BY <2>4, <3>1, <3>2, <3>3 DEF GroupHeaderSize
  <2>10. End(p, i) \in Nat /\ Start(p, j) \in Nat
    BY <1>2, <1>7, <2>4, ChunksEnd
  <2> HIDE DEF i
  <2> QED
    BY <1>5, <2>8, <2>9, <2>10
<1>9. g < j
  <2>1. g \in 1 .. n + 1 /\ Start(p, g) \in Nat
    BY <1>2, <1>3
  <2>2. Start(p, g) < Start(p, j)
    BY <1>4, <1>5, <1>8, <2>1 DEF GroupHeaderSize
  <2> QED
    BY <1>2, <1>7, <2>1, <2>2
<1> QED
  BY <1>7, <1>8, <1>9

\* q is p with a header that is longer by d.
Moved(p, q, d) ==
  /\ Opens(p)
  /\ q.chunks = p.chunks
  /\ HeaderSize(q.header) = HeaderSize(p.header) + d
  /\ d \in Int

\* Every chunk moves by what the header grows.
LEMMA StartsMove ==
  ASSUME NEW p, NEW q, NEW d, Moved(p, q, d)
  PROVE  \A i \in 1 .. Len(p.chunks) + 1 : Start(q, i) = Start(p, i) + d
<1> USE DEF Moved
<1> DEFINE n == Len(p.chunks)
           S == {i \in 1 .. n + 1 : Start(q, i) = Start(p, i) + d}
<1>1. n \in Nat
  BY RecordsAreFinite
<1>2. \A i \in 1 .. n + 1 :
        Start(p, i) = IF i = 1 THEN HeaderSize(p.header)
                      ELSE Start(p, i - 1) + OwnSize(p.chunks[i - 1])
  BY <1>1, StartsAdd DEF Start
<1>3. \A i \in 1 .. n + 1 :
        Start(q, i) = IF i = 1 THEN HeaderSize(p.header) + d
                      ELSE Start(q, i - 1) + OwnSize(p.chunks[i - 1])
  BY <1>1, StartsAdd DEF Start
<1>4. \A i \in 1 .. n : OwnSize(p.chunks[i]) \in Nat
  BY ChunkTypes DEF Opens
<1>5. \A i \in 1 .. n + 1 : Start(p, i) \in Nat
  BY StartTypes DEF Opens
<1>6. d \in Int
  OBVIOUS
<1> HIDE DEF n, Moved
<1>7. 1 \in S
  BY <1>1, <1>2, <1>3
<1>8. ASSUME NEW i \in 1 .. n, i \in S
      PROVE  i + 1 \in S
  BY <1>1, <1>2, <1>3, <1>4, <1>5, <1>6, <1>8
<1>9. \A i \in 1 .. n + 1 : i \in S
  <2> HIDE DEF S
  <2> QED
    BY <1>1, <1>7, <1>8, EveryPlace
<1> QED
  BY <1>9 DEF n

\* What is a record, what is a group and what is in which stays as it is.
LEMMA GroupsStay ==
  ASSUME NEW p, NEW q, NEW d, Moved(p, q, d)
  PROVE  /\ Groups(q) = Groups(p) /\ Records(q) = Records(p) /\ Ids(q) = Ids(p)
         /\ \A id : IndexOf(q, id) = IndexOf(p, id)
         /\ Temporaries(q) = Temporaries(p)
         /\ \A i \in 1 .. Len(p.chunks) : Ancestors(q, i) = Ancestors(p, i)
<1>1. /\ Groups(q) = Groups(p) /\ Records(q) = Records(p) /\ Ids(q) = Ids(p)
      /\ \A id : IndexOf(q, id) = IndexOf(p, id)
      /\ Temporaries(q) = Temporaries(p)
  BY DEF Moved, Groups, Records, Ids, IndexOf, Temporaries
<1>2. Len(p.chunks) \in Nat /\ d \in Int /\ q.chunks = p.chunks
  BY RecordsAreFinite DEF Moved
<1>3. \A i \in 1 .. Len(p.chunks) + 1 : Start(p, i) \in Nat /\ Start(q, i) = Start(p, i) + d
  BY StartTypes, StartsMove DEF Moved, Opens
<1>4. \A g \in 1 .. Len(p.chunks) : p.chunks[g].kind = "group" => p.chunks[g].size \in Nat
  BY RecordsAreFinite DEF Moved, Opens, WellFormed, IsRecord, IsGroup
<1>5. ASSUME NEW i \in 1 .. Len(p.chunks)
      PROVE  Ancestors(q, i) = Ancestors(p, i)
  <2>1. ASSUME NEW g \in 1 .. i - 1, p.chunks[g].kind = "group"
        PROVE  Start(q, i) < Start(q, g) + p.chunks[g].size
                 <=> Start(p, i) < Start(p, g) + p.chunks[g].size
    BY <1>2, <1>3, <1>4, <2>1, SMTT(30)
  <2> QED
    BY <1>2, <2>1, SMTT(30) DEF Ancestors, Start
<1> QED
  BY <1>1, <1>5

\* Ends move with the starts.
LEMMA EndsMove ==
  ASSUME NEW p, NEW q, NEW d, Moved(p, q, d), NEW i \in 1 .. Len(p.chunks)
  PROVE  /\ Start(p, i) \in Nat /\ End(p, i) \in Nat
         /\ End(p, i) = Start(p, i) + Span(p.chunks[i]) /\ Span(p.chunks[i]) \in Nat
         /\ Start(q, i) = Start(p, i) + d
         /\ End(q, i) = End(p, i) + d
<1>1. Opens(p) /\ Len(p.chunks) \in Nat /\ d \in Int /\ q.chunks = p.chunks
  BY RecordsAreFinite DEF Moved
<1>2. Start(p, i) \in Nat /\ Start(q, i) = Start(p, i) + d
  <2>1. i \in 1 .. Len(p.chunks) + 1
    BY <1>1
  <2> QED
    BY <1>1, <2>1, StartTypes, StartsMove DEF Opens
<1>3. Span(p.chunks[i]) \in Nat
  BY ChunkTypes DEF Moved, Opens
<1> QED
  BY <1>1, <1>2, <1>3 DEF End

\* So do the regions of scenes.
LEMMA RegionsMove ==
  ASSUME NEW p, NEW q, NEW d, Moved(p, q, d), NEW g \in Groups(p)
  PROVE  RegionEnd(p, g) \in Nat /\ RegionEnd(q, g) = RegionEnd(p, g) + d
<1> DEFINE around == {c \in Groups(p) : /\ p.chunks[c].type = "SceneChildren"
                                        /\ p.chunks[c].label = p.chunks[g].label
                                        /\ c <= g /\ End(p, c) >= End(p, g)}
           Inner(r, c) == \A e \in around : End(r, c) - Start(r, c) <= End(r, e) - Start(r, e)
<1>1. q.chunks = p.chunks /\ Groups(q) = Groups(p) /\ d \in Int
  BY GroupsStay DEF Moved
<1>2. Groups(p) \subseteq 1 .. Len(p.chunks)
  BY RecordsAreFinite DEF Groups, Moved
<1>3. \A c \in Groups(p) :
        /\ Start(p, c) \in Nat /\ End(p, c) \in Nat
        /\ End(p, c) = Start(p, c) + Span(p.chunks[c]) /\ Span(p.chunks[c]) \in Nat
        /\ Start(q, c) = Start(p, c) + d /\ End(q, c) = End(p, c) + d
  BY <1>2, EndsMove
<1>4. around = {c \in Groups(q) : /\ q.chunks[c].type = "SceneChildren"
                                  /\ q.chunks[c].label = q.chunks[g].label
                                  /\ c <= g /\ End(q, c) >= End(q, g)}
  BY <1>1, <1>3
<1>5. \A c \in around : Inner(q, c) <=> Inner(p, c)
  BY <1>1, <1>3
<1>6. CASE around = {}
  <2>1. RegionEnd(p, g) = End(p, g) /\ RegionEnd(q, g) = End(q, g)
    BY <1>4, <1>6 DEF RegionEnd
  <2> QED
    BY <1>3, <2>1
<1>7. CASE around # {}
  <2> DEFINE inner(r) == CHOOSE c \in around : Inner(r, c)
  <2>1. RegionEnd(p, g) = End(p, inner(p)) /\ RegionEnd(q, g) = End(q, inner(q))
    BY <1>4, <1>7 DEF RegionEnd
  <2>2. inner(q) = inner(p)
    BY <1>5
  <2>3. inner(p) \in around
    <3> DEFINE spans == {Span(p.chunks[c]) : c \in around}
    <3>1. spans \in SUBSET Nat /\ spans # {}
      BY <1>3, <1>7
    <3>2. PICK k \in spans : \A l \in spans : k <= l
      BY <3>1, FirstPlace
    <3>3. PICK c \in around : k = Span(p.chunks[c])
      BY <3>2
    <3>4. Inner(p, c)
      BY <1>3, <3>2, <3>3
    <3> QED
      BY <3>3, <3>4
  <2> HIDE DEF inner
  <2> QED
    BY <1>3, <2>1, <2>2, <2>3
<1> QED
  BY <1>6, <1>7

(***************************************************************************)
(* The scene offsets of a package with rebuilt ones.                       *)
(***************************************************************************)

\* The scene offsets of the new bytes are the old ones, shifted.
LEMMA SceneOffsetsMove ==
  ASSUME NEW p, NEW q, NEW d, Moved(p, q, d), HasSceneOffsets(p)
  PROVE  SceneOffsets(q) = Shift(SceneOffsets(p), d)
<1> DEFINE move(o) == [world |-> o.world, scene |-> o.scene,
                       start |-> o.start + d, end |-> o.end + d]
<1>1. Temporaries(q) = Temporaries(p) /\ q.chunks = p.chunks
  BY GroupsStay DEF Moved
<1>2. ASSUME NEW g \in Temporaries(p)
      PROVE  SceneOffset(q, g) = move(SceneOffset(p, g))
  <2> DEFINE scene == IndexOf(p, p.chunks[g].label)
  <2>1. scene \in Records(p)
    BY DEF HasSceneOffsets, IndexOf, Ids
  <2>2. scene \in 1 .. Len(p.chunks)
    BY <2>1, RecordsAreFinite DEF Records, Moved
  <2>3. Start(q, scene) = Start(p, scene) + d
    BY <2>2, EndsMove
  <2>4. WorldOf(q, scene) = WorldOf(p, scene)
    <3>1. Ancestors(q, scene) = Ancestors(p, scene)
      BY <2>2, GroupsStay
    <3> QED
      BY <1>1, <3>1 DEF WorldOf
  <2>5. RegionEnd(q, g) = RegionEnd(p, g) + d
    BY RegionsMove DEF Temporaries
  <2>6. IndexOf(q, q.chunks[g].label) = scene
    BY <1>1, GroupsStay
  <2>7. SceneOffset(p, g) = [world |-> WorldOf(p, scene), scene |-> p.chunks[g].label,
                             start |-> Start(p, scene), end |-> RegionEnd(p, g)]
    BY DEF SceneOffset
  <2>8. SceneOffset(q, g) = [world |-> WorldOf(p, scene), scene |-> p.chunks[g].label,
                             start |-> Start(p, scene) + d, end |-> RegionEnd(p, g) + d]
    BY <1>1, <2>3, <2>4, <2>5, <2>6 DEF SceneOffset
  <2> HIDE DEF scene
  <2> QED
    BY <2>7, <2>8
<1>3. /\ SceneOffsets(p) = {SceneOffset(p, g) : g \in Temporaries(p)}
      /\ SceneOffsets(q) = {SceneOffset(q, g) : g \in Temporaries(p)}
      /\ Shift(SceneOffsets(p), d) = {move(o) : o \in SceneOffsets(p)}
  BY <1>1 DEF SceneOffsets, Shift
<1>4. \A g \in Temporaries(p) : SceneOffset(q, g) = move(SceneOffset(p, g))
  BY <1>2
<1> HIDE DEF move
<1> QED
  BY <1>3, <1>4

\* Scene offsets are finitely many, and moving them changes neither their number nor
\* their worlds.
LEMMA ShiftKeepsSize ==
  ASSUME NEW p, Opens(p), HasSceneOffsets(p), NEW d \in Int
  PROVE  /\ IsFiniteSet(SceneOffsets(p))
         /\ Cardinality(Shift(SceneOffsets(p), d)) = Cardinality(SceneOffsets(p))
         /\ {o.world : o \in Shift(SceneOffsets(p), d)} = {o.world : o \in SceneOffsets(p)}
<1> DEFINE S == SceneOffsets(p)
           move(o) == [world |-> o.world, scene |-> o.scene,
                       start |-> o.start + d, end |-> o.end + d]
<1>1. IsFiniteSet(S)
  <2>1. Temporaries(p) \in SUBSET (1 .. Len(p.chunks))
    BY RecordsAreFinite DEF Temporaries, Groups
  <2>2. IsFiniteSet(1 .. Len(p.chunks))
    <3>1. Len(p.chunks) \in Int
      BY RecordsAreFinite
    <3> QED
      BY <3>1, FS_Interval
  <2> DEFINE f == [g \in Temporaries(p) |-> SceneOffset(p, g)]
  <2>3. f \in Surjection(Temporaries(p), S)
    BY DEF Surjection, SceneOffsets
  <2> QED
    BY <2>1, <2>2, <2>3, FS_Subset, FS_Surjection
<1>2. ASSUME NEW o \in S
      PROVE  /\ o = [world |-> o.world, scene |-> o.scene, start |-> o.start, end |-> o.end]
             /\ o.start \in Int /\ o.end \in Int
  <2>1. PICK g \in Temporaries(p) : o = SceneOffset(p, g)
    BY DEF SceneOffsets
  <2> DEFINE scene == IndexOf(p, p.chunks[g].label)
  <2>2. scene \in Records(p)
    BY DEF HasSceneOffsets, IndexOf, Ids
  <2>3. scene \in 1 .. Len(p.chunks)
    BY <2>2, RecordsAreFinite DEF Records
  <2>4. Moved(p, p, 0)
    BY HeaderSizeType DEF Moved, Opens, WellFormed, IsHeader
  <2>5. Start(p, scene) \in Nat
    BY <2>3, <2>4, EndsMove
  <2>6. RegionEnd(p, g) \in Nat
    BY <2>4, RegionsMove DEF Temporaries
  <2> QED
    BY <2>1, <2>5, <2>6 DEF SceneOffset
<1>3. Shift(S, d) = {move(o) : o \in S}
  BY DEF Shift
<1> HIDE DEF S
<1>4. ASSUME NEW o \in S
      PROVE  /\ o.start \in Int /\ o.end \in Int
             /\ move(o).world = o.world /\ move(o).scene = o.scene
             /\ move(o).start = o.start + d /\ move(o).end = o.end + d
  BY <1>2
<1>5. Cardinality(Shift(S, d)) = Cardinality(S)
  <2> DEFINE f == [o \in S |-> move(o)]
  <2>1. f \in Surjection(S, Shift(S, d))
    BY <1>3 DEF Surjection
  <2>2. ASSUME NEW o \in S, NEW e \in S, move(o) = move(e)
        PROVE  o = e
    <3>1. /\ o.world = e.world /\ o.scene = e.scene
          /\ o.start + d = e.start + d /\ o.end + d = e.end + d
      BY <1>4, <2>2
    <3>2. \A a, b \in Int : a + d = b + d => a = b
      OBVIOUS
    <3>3. o.start = e.start /\ o.end = e.end
      BY <1>4, <3>1, <3>2
    <3> QED
      BY <1>2, <3>1, <3>3
  <2>3. f \in Injection(S, Shift(S, d))
    <3>1. f \in [S -> Shift(S, d)]
      BY <1>3
    <3>2. \A o, e \in S : f[o] = f[e] => o = e
      BY <2>2
    <3> HIDE DEF f
    <3> QED
      BY <3>1, <3>2 DEF Injection, IsInjective
  <2> QED
    BY <1>1, <2>1, <2>3, FS_Surjection
<1>6. {o.world : o \in Shift(S, d)} = {o.world : o \in S}
  <2>1. {o.world : o \in Shift(S, d)} = {move(o).world : o \in S}
    BY <1>3
  <2> QED
    BY <1>4, <2>1
<1> QED
  BY <1>1, <1>5, <1>6 DEF S

\* Rebuilt offsets are the offsets of the package they are in.
LEMMA RebuiltIsExact ==
  ASSUME NEW p, Opens(p), HasSceneOffsets(p)
  PROVE  Rebuilt(p).header.offsets = SceneOffsets(Rebuilt(p))
<1> DEFINE h == [p.header EXCEPT !.offsets = SceneOffsets(p)]
           d == HeaderSize(h) - HeaderSize(p.header)
           q == Rebuilt(p)
<1>1. /\ DOMAIN p.header = DOMAIN NewHeader
      /\ p.header.text \in Nat
      /\ IsSequence(p.header.dependencies) /\ IsSequence(p.header.streaming)
      /\ IsFiniteSet(p.header.incompatibilities) /\ IsFiniteSet(p.header.offsets)
  BY DEF Opens, WellFormed, IsHeader
<1>2. /\ q.chunks = p.chunks
      /\ q.header = [h EXCEPT !.offsets = Shift(SceneOffsets(p), d)]
  BY <1>1 DEF Rebuilt, Rewrite, NewHeader
<1>3. /\ h.text = p.header.text
      /\ h.dependencies = p.header.dependencies /\ h.streaming = p.header.streaming
      /\ h.incompatibilities = p.header.incompatibilities
      /\ h.offsets = SceneOffsets(p)
      /\ DOMAIN h = DOMAIN NewHeader
  BY <1>1 DEF NewHeader
<1>4. HeaderSize(p.header) \in Nat
  BY <1>1, HeaderSizeType
<1>5. HeaderSize(h) \in Nat
  <2>1. IsFiniteSet(SceneOffsets(p))
    BY ShiftKeepsSize
  <2> HIDE DEF h
  <2> QED
    BY <1>1, <1>3, <2>1, HeaderSizeType
<1> HIDE DEF h
<1>6. d \in Int /\ HeaderSize(h) = HeaderSize(p.header) + d
  BY <1>4, <1>5
<1> HIDE DEF d, q
<1>7. /\ q.header.text = h.text
      /\ q.header.dependencies = h.dependencies /\ q.header.streaming = h.streaming
      /\ q.header.incompatibilities = h.incompatibilities
      /\ q.header.offsets = Shift(SceneOffsets(p), d)
  BY <1>2, <1>3 DEF NewHeader
<1>8. HeaderSize(q.header) = HeaderSize(h)
  <2>1. Cardinality(q.header.offsets) = Cardinality(h.offsets)
    BY <1>3, <1>6, <1>7, ShiftKeepsSize
  <2>2. Worlds(q.header) = Worlds(h)
    BY <1>3, <1>6, <1>7, ShiftKeepsSize DEF Worlds
  <2> QED
    BY <1>7, <2>1, <2>2 DEF HeaderSize
<1>9. Moved(p, q, d)
  BY <1>2, <1>6, <1>8 DEF Moved
<1>10. q.header.offsets = SceneOffsets(q)
  BY <1>7, <1>9, SceneOffsetsMove
<1> QED
  BY <1>10 DEF q

\* The scene offsets of a saved file are those of its content, for packages of every
\* size and nesting: the tables that the save writes into the header move all that they
\* point at, and the offsets follow by the same distance, without a second pass.
THEOREM SavedSceneOffsetsAlwaysExact == Spec => SavedSceneOffsetsAreExact
<1>1. ASSUME FilesInv, [Next]_vars
      PROVE  [last'.op = "save" /\ last'.ok
              => disk'[path'].header.offsets = SceneOffsets(disk'[path'])]_vars
  <2>1. ASSUME NEW q \in Paths, Save(q)
        PROVE  disk'[path'].header.offsets = SceneOffsets(disk'[path'])
    <3>1. disk'[path'] = Rebuilt(package)
      BY <1>1, <2>1 DEF Save, FilesInv
    <3>2. Opens(package) /\ HasSceneOffsets(package)
      BY <1>1, <2>1 DEF Save, FilesInv
    <3> QED
      BY <3>1, <3>2, RebuiltIsExact
  <2>2. ASSUME RefuseSave \/ WriteFails
        PROVE  ~ last'.ok
    BY <2>2 DEF RefuseSave, WriteFails, Called
  <2>3. CASE Next
    BY <2>1, <2>2, <2>3, AnswersTell
  <2> QED
    BY <1>1, <2>3
<1> QED
  BY <1>1, FilesInvariant, PTL DEF Spec, SavedSceneOffsetsAreExact

(***************************************************************************)
(* Sums of lists of numbers.                                               *)
(***************************************************************************)

\* f[k] is the sum of the first k numbers.
Sums(f, list) ==
  /\ f \in [0 .. Len(list) -> Int]
  /\ f[0] = 0
  /\ \A k \in 1 .. Len(list) : f[k] = f[k - 1] + list[k]

\* The recursive definition of Total has a solution, for every list.
LEMMA TotalSums ==
  ASSUME NEW list \in Seq(Int)
  PROVE  \E f : Sums(f, list) /\ Total(list) = f[Len(list)]
<1> DEFINE m == Len(list)
           Solves(f, n) == f = [k \in 0 .. n |-> IF k = 0 THEN 0 ELSE f[k - 1] + list[k]]
           S == {n \in Nat : n <= m => \E f : Solves(f, n)}
<1>1. m \in Nat /\ \A k \in 1 .. m : list[k] \in Int
  OBVIOUS
<1>2. 0 \in S
  <2>1. Solves([k \in 0 .. 0 |-> 0], 0)
    OBVIOUS
  <2> HIDE DEF Solves, m
  <2> QED
    BY <2>1
<1>3. ASSUME NEW n \in Nat, n \in S PROVE n + 1 \in S
  <2> SUFFICES ASSUME n + 1 <= m PROVE \E f : Solves(f, n + 1)
    OBVIOUS
  <2>1. PICK f : Solves(f, n)
    BY <1>1, <1>3
  <2> DEFINE g == [k \in 0 .. n + 1 |-> IF k <= n THEN f[k] ELSE f[n] + list[n + 1]]
  <2>2. ASSUME NEW k \in 0 .. n + 1
        PROVE  g[k] = IF k = 0 THEN 0 ELSE g[k - 1] + list[k]
    <3>1. CASE k <= n
      <4>1. k \in 0 .. n
        BY <3>1
      <4>2. f[k] = IF k = 0 THEN 0 ELSE f[k - 1] + list[k]
        BY <2>1, <4>1
      <4>3. k # 0 => k - 1 \in 0 .. n + 1 /\ k - 1 <= n
        BY <4>1
      <4> QED
        BY <3>1, <4>2, <4>3
    <3>2. CASE k = n + 1
      <4>1. n \in 0 .. n + 1 /\ n <= n /\ ~ (n + 1 <= n) /\ (n + 1) - 1 = n /\ n + 1 # 0
        OBVIOUS
      <4> QED
        BY <3>2, <4>1
    <3> QED
      BY <3>1, <3>2
  <2>3. g = [k \in 0 .. n + 1 |-> g[k]]
    OBVIOUS
  <2> HIDE DEF g
  <2>4. Solves(g, n + 1)
    BY <2>2, <2>3
  <2> HIDE DEF Solves
  <2> QED
    BY <2>4
<1>4. m \in S
  <2> HIDE DEF S, m
  <2> QED
    BY <1>1, <1>2, <1>3, EveryNumber
<1>5. PICK g : Solves(g, m)
  BY <1>1, <1>4
<1> DEFINE sum == CHOOSE f : Solves(f, m)
<1>6. Solves(sum, m)
  <2> HIDE DEF Solves
  <2> QED
    BY <1>5
<1>7. Total(list) = sum[m]
  BY DEF Total
<1> HIDE DEF sum
<1>8. sum[0] = 0 /\ \A k \in 1 .. m : sum[k] = sum[k - 1] + list[k]
  <2>1. 0 \in 0 .. m
    BY <1>1
  <2>2. \A k \in 1 .. m : k \in 0 .. m /\ k # 0
    BY <1>1
  <2> QED
    BY <1>6, <2>1, <2>2
<1> DEFINE T == {n \in Nat : n <= m => sum[n] \in Int}
<1>9. \A n \in 0 .. m : sum[n] \in Int
  <2>1. ASSUME NEW n \in Nat, n \in T PROVE n + 1 \in T
    <3> SUFFICES ASSUME n + 1 <= m PROVE sum[n + 1] \in Int
      OBVIOUS
    <3>1. n + 1 \in 1 .. m /\ (n + 1) - 1 = n /\ n <= m
      BY <1>1
    <3>2. sum[n + 1] = sum[n] + list[n + 1]
      BY <1>8, <3>1
    <3>3. sum[n] \in Int /\ list[n + 1] \in Int
      BY <1>1, <2>1, <3>1
    <3> QED
      BY <3>2, <3>3
  <2>2. 0 \in T
    BY <1>8
  <2>3. \A n \in Nat : n \in T
    <3> HIDE DEF T
    <3> QED
      BY <2>1, <2>2, EveryNumber
  <2> QED
    BY <1>1, <2>3
<1>10. sum \in [0 .. m -> Int]
  <2>1. sum = [k \in 0 .. m |-> sum[k]]
    <3>1. DOMAIN sum = 0 .. m
      BY <1>6
    <3>2. sum = [k \in DOMAIN sum |-> sum[k]]
      BY <1>6
    <3> QED
      BY <3>1, <3>2
  <2> QED
    BY <1>9, <2>1
<1> QED
  BY <1>7, <1>8, <1>10 DEF Sums

\* The sum is the only one.
LEMMA TotalIs ==
  ASSUME NEW list \in Seq(Int), NEW f, Sums(f, list)
  PROVE  Total(list) = f[Len(list)]
<1>1. PICK g : Sums(g, list) /\ Total(list) = g[Len(list)]
  BY TotalSums
<1> DEFINE m == Len(list)
           S == {n \in Nat : n <= m => g[n] = f[n]}
<1>2. 0 \in S
  BY <1>1 DEF Sums
<1>3. ASSUME NEW n \in Nat, n \in S PROVE n + 1 \in S
  <2>1. n + 1 <= m => n + 1 \in 1 .. m /\ (n + 1) - 1 = n /\ n <= m
    OBVIOUS
  <2> QED
    BY <1>1, <1>3, <2>1 DEF Sums
<1>4. m \in S
  <2>1. m \in Nat
    OBVIOUS
  <2> HIDE DEF S, m
  <2> QED
    BY <1>2, <1>3, <2>1, EveryNumber
<1> QED
  BY <1>1, <1>4

\* A list that is the difference of two has the difference of their sums.
LEMMA TotalOfDifference ==
  ASSUME NEW m \in Nat, NEW a \in [1 .. m -> Int], NEW b \in [1 .. m -> Int]
  PROVE  /\ Total(a) \in Int /\ Total(b) \in Int
         /\ Total([k \in 1 .. m |-> a[k] - b[k]]) = Total(a) - Total(b)
<1> DEFINE c == [k \in 1 .. m |-> a[k] - b[k]]
<1>1. a \in Seq(Int) /\ b \in Seq(Int) /\ c \in Seq(Int) /\ Len(a) = m /\ Len(b) = m /\ Len(c) = m
  OBVIOUS
<1>2. PICK f : Sums(f, a) /\ Total(a) = f[m]
  BY <1>1, TotalSums
<1>3. PICK g : Sums(g, b) /\ Total(b) = g[m]
  BY <1>1, TotalSums
<1>4. \A k \in 1 .. m : c[k] = a[k] - b[k] /\ a[k] \in Int /\ b[k] \in Int
  OBVIOUS
<1> HIDE DEF c
<1> DEFINE h == [k \in 0 .. m |-> f[k] - g[k]]
<1>5. /\ f \in [0 .. m -> Int] /\ f[0] = 0 /\ \A k \in 1 .. m : f[k] = f[k - 1] + a[k]
      /\ g \in [0 .. m -> Int] /\ g[0] = 0 /\ \A k \in 1 .. m : g[k] = g[k - 1] + b[k]
  BY <1>1, <1>2, <1>3 DEF Sums
<1>6. h \in [0 .. m -> Int] /\ h[0] = 0
  BY <1>5
<1>7. ASSUME NEW k \in 1 .. m PROVE h[k] = h[k - 1] + c[k]
  <2>1. k \in 0 .. m /\ k - 1 \in 0 .. m
    OBVIOUS
  <2>2. f[k] = f[k - 1] + a[k] /\ g[k] = g[k - 1] + b[k] /\ c[k] = a[k] - b[k]
    BY <1>4, <1>5
  <2>3. f[k - 1] \in Int /\ g[k - 1] \in Int /\ a[k] \in Int /\ b[k] \in Int
    BY <1>4, <1>5, <2>1
  <2>4. h[k] = f[k] - g[k] /\ h[k - 1] = f[k - 1] - g[k - 1]
    BY <2>1
  <2> HIDE DEF h
  <2> QED
    BY <2>2, <2>3, <2>4
<1>8. Sums(h, c)
  <2> HIDE DEF h
  <2> QED
    BY <1>1, <1>6, <1>7 DEF Sums
<1>9. Total(c) = h[m]
  <2> HIDE DEF h
  <2> QED
    BY <1>1, <1>8, TotalIs
<1>10. m \in 0 .. m
  OBVIOUS
<1>11. Total(a) \in Int /\ Total(b) \in Int /\ Total(c) = Total(a) - Total(b)
  BY <1>2, <1>3, <1>5, <1>9, <1>10
<1> QED
  BY <1>11 DEF c

\* Greater numbers have a greater sum, and zeros none.
LEMMA TotalGrows ==
  ASSUME NEW m \in Nat, NEW a \in [1 .. m -> Int], NEW b \in [1 .. m -> Int],
         \A k \in 1 .. m : a[k] <= b[k]
  PROVE  Total(a) <= Total(b)
<1>1. a \in Seq(Int) /\ b \in Seq(Int) /\ Len(a) = m /\ Len(b) = m
  OBVIOUS
<1>2. PICK f : Sums(f, a) /\ Total(a) = f[m]
  BY <1>1, TotalSums
<1>3. PICK g : Sums(g, b) /\ Total(b) = g[m]
  BY <1>1, TotalSums
<1>4. /\ f \in [0 .. m -> Int] /\ f[0] = 0 /\ \A k \in 1 .. m : f[k] = f[k - 1] + a[k]
      /\ g \in [0 .. m -> Int] /\ g[0] = 0 /\ \A k \in 1 .. m : g[k] = g[k - 1] + b[k]
  BY <1>1, <1>2, <1>3 DEF Sums
<1> DEFINE S == {n \in Nat : n <= m => f[n] <= g[n]}
<1>5. 0 \in S
  BY <1>4
<1>6. ASSUME NEW n \in Nat, n \in S PROVE n + 1 \in S
  <2> SUFFICES ASSUME n + 1 <= m PROVE f[n + 1] <= g[n + 1]
    OBVIOUS
  <2>1. n + 1 \in 1 .. m /\ (n + 1) - 1 = n /\ n \in 0 .. m /\ n <= m
    OBVIOUS
  <2>2. f[n + 1] = f[n] + a[n + 1] /\ g[n + 1] = g[n] + b[n + 1]
    BY <1>4, <2>1
  <2>3. f[n] \in Int /\ g[n] \in Int /\ a[n + 1] \in Int /\ b[n + 1] \in Int
    BY <1>4, <2>1
  <2>4. f[n] <= g[n] /\ a[n + 1] <= b[n + 1]
    BY <1>6, <2>1
  <2> QED
    BY <2>2, <2>3, <2>4
<1>7. m \in S
  <2> HIDE DEF S
  <2> QED
    BY <1>5, <1>6, EveryNumber
<1> QED
  BY <1>2, <1>3, <1>7

\* Nothing but zeros adds up to zero.
LEMMA TotalOfZeros ==
  ASSUME NEW m \in Nat, NEW a, a = [k \in 1 .. m |-> 0]
  PROVE  Total(a) = 0
<1>1. a \in Seq(Int) /\ Len(a) = m
  OBVIOUS
<1> DEFINE f == [k \in 0 .. m |-> 0]
<1>2. Sums(f, a)
  <2>1. \A k \in 1 .. m : k \in 0 .. m /\ k - 1 \in 0 .. m /\ a[k] = 0
    OBVIOUS
  <2> QED
    BY <1>1, <2>1 DEF Sums
<1> QED
  BY <1>1, <1>2, TotalIs

\* A list with one number that is not zero.
LEMMA TotalOfOne ==
  ASSUME NEW m \in Nat, NEW j \in 1 .. m, NEW x \in Int
  PROVE  Total([k \in 1 .. m |-> IF k = j THEN x ELSE 0]) = x
<1> DEFINE a == [k \in 1 .. m |-> IF k = j THEN x ELSE 0]
<1>1. a \in Seq(Int) /\ Len(a) = m
  OBVIOUS
<1> DEFINE f == [k \in 0 .. m |-> IF k < j THEN 0 ELSE x]
<1>2. Sums(f, a)
  <2>1. ASSUME NEW k \in 1 .. m PROVE f[k] = f[k - 1] + a[k]
    <3>1. k \in 0 .. m /\ k - 1 \in 0 .. m
      OBVIOUS
    <3> QED
      BY <3>1
  <2>2. f \in [0 .. m -> Int] /\ f[0] = 0
    OBVIOUS
  <2> HIDE DEF f
  <2> QED
    BY <1>1, <2>1, <2>2 DEF Sums
<1> QED
  BY <1>1, <1>2, TotalIs

(***************************************************************************)
(* What an edit keeps.  It takes the chunks of p one after the other: the  *)
(* slot of the i-th chunk are the chunks of q that stand for it, inserted  *)
(* records and behind them the chunk itself, unless it is gone.  The slot  *)
(* behind the last chunk are records inserted at the end.                  *)
(***************************************************************************)

\* c as it is read, but for the size of a group.
SameEntry(c, d) ==
  /\ d.kind = c.kind
  /\ c.kind = "record" => d.id = c.id /\ d.payload = c.payload
  /\ c.kind = "group" => d.type = c.type /\ d.label = c.label

\* The slot of the i-th chunk begins at at[i]; the chunks in kept are its end.
Settled(p, q, ids, at, kept) ==
  /\ at \in [1 .. Len(p.chunks) + 2 -> Nat]
  /\ at[1] = 1
  /\ at[Len(p.chunks) + 2] = Len(q.chunks) + 1
  /\ \A i \in 1 .. Len(p.chunks) + 1 : at[i] <= at[i + 1]
  /\ kept \subseteq 1 .. Len(p.chunks)
  /\ \A i \in 1 .. Len(p.chunks) : i \notin kept =>
       p.chunks[i].kind = "record" /\ p.chunks[i].id \in ids
  /\ \A i \in kept :
       /\ at[i] < at[i + 1]
       /\ SameEntry(p.chunks[i], q.chunks[at[i + 1] - 1])
       /\ p.chunks[i].kind = "record" => p.chunks[i].id \notin ids
  /\ \A i \in 1 .. Len(p.chunks) + 1 : \A k \in Nat :
       /\ at[i] <= k /\ k < at[i + 1]
       /\ i \in kept => k # at[i + 1] - 1
       => q.chunks[k].kind = "record" /\ q.chunks[k].id \in ids

\* Where the inserted records of a slot end.
InsertedEnd(at, kept, i) == IF i \in kept THEN at[i + 1] - 1 ELSE at[i + 1]

\* Every group still ends in front of the chunk it ended in front of, with or without
\* records that were inserted there.
GroupsFit(p, q, at, kept) ==
  \A g \in Groups(p) : \E b \in 1 .. Len(p.chunks) + 1 :
    /\ g < b /\ Start(p, b) = End(p, g)
    /\ Start(q, at[b]) <= End(q, at[g + 1] - 1)
    /\ End(q, at[g + 1] - 1) <= Start(q, InsertedEnd(at, kept, b))

\* The slots follow each other, kept chunks keep their order, and what is no kept chunk is
\* a new record.
LEMMA SettledPlaces ==
  ASSUME NEW p, NEW q, NEW ids, NEW at, NEW kept, Settled(p, q, ids, at, kept),
         WellFormed(p), WellFormed(q)
  PROVE  /\ \A i, j \in 1 .. Len(p.chunks) + 2 : i <= j => at[i] <= at[j]
         /\ \A i \in 1 .. Len(p.chunks) + 2 : at[i] \in 1 .. Len(q.chunks) + 1
         /\ \A i \in kept : /\ i \in 1 .. Len(p.chunks)
                            /\ at[i + 1] - 1 \in 1 .. Len(q.chunks)
         /\ \A i, j \in kept : i < j <=> at[i + 1] - 1 < at[j + 1] - 1
         /\ \A k \in 1 .. Len(q.chunks) :
              \/ \E i \in kept : k = at[i + 1] - 1
              \/ q.chunks[k].kind = "record" /\ q.chunks[k].id \in ids
<1> DEFINE n == Len(p.chunks)
           m == Len(q.chunks)
<1>1. n \in Nat /\ m \in Nat
  BY ChunksStartInOrder
<1>2. \A i \in 1 .. n + 2 : at[i] \in Nat
  BY DEF Settled
<1>3. \A i, j \in 1 .. n + 2 : i <= j => at[i] <= at[j]
  <2>1. \A i \in 1 .. (n + 2) - 1 : at[i] <= at[i + 1]
    BY <1>1 DEF Settled
  <2>2. n + 2 \in Nat /\ \A i \in 1 .. n + 2 : at[i] \in Int
    BY <1>1, <1>2
  <2> HIDE DEF n
  <2> QED
    BY <2>1, <2>2, NeighboursClimb
<1>4. at[1] = 1 /\ at[n + 2] = m + 1 /\ kept \subseteq 1 .. n
  BY DEF Settled
<1>5. \A i \in kept : at[i] < at[i + 1]
  BY DEF Settled
<1>6. ASSUME NEW k \in 1 .. m
      PROVE  \/ \E i \in kept : k = at[i + 1] - 1
             \/ q.chunks[k].kind = "record" /\ q.chunks[k].id \in ids
  <2> DEFINE T == {i \in 1 .. n + 2 : at[i] <= k}
  <2>1. 1 \in T /\ T \in SUBSET (0 .. n + 2) /\ n + 2 \in Nat
    BY <1>1, <1>4
  <2> HIDE DEF T
  <2>2. PICK i \in T : \A j \in T : j <= i
    BY <2>1, LastPlace
  <2> USE DEF T
  <2>3. i \in 1 .. n + 2 /\ at[i] <= k
    OBVIOUS
  <2>4. i # n + 2
    BY <1>1, <1>4, <2>3
  <2>5. i \in 1 .. n + 1 /\ i + 1 \in 1 .. n + 2 /\ ~ (i + 1 <= i)
    BY <1>1, <2>3, <2>4
  <2>6. ~ (at[i + 1] <= k)
    BY <2>2, <2>5
  <2>7. at[i + 1] \in Nat
    BY <1>2, <2>5
  <2>8. k < at[i + 1] /\ k \in Nat
    BY <2>6, <2>7
  <2> HIDE DEF T
  <2>9. CASE i \in kept /\ k = at[i + 1] - 1
    BY <2>9
  <2>10. CASE ~ (i \in kept /\ k = at[i + 1] - 1)
    BY <2>3, <2>5, <2>8, <2>10 DEF Settled
  <2> QED
    BY <2>9, <2>10
<1> HIDE DEF n, m
<1>7. ASSUME NEW i \in kept PROVE i \in 1 .. n /\ i \in 1 .. n + 2 /\ i + 1 \in 1 .. n + 2
  BY <1>1, <1>4
<1>8. ASSUME NEW i \in 1 .. n + 2 PROVE at[i] \in 1 .. m + 1
  <2>1. 1 \in 1 .. n + 2 /\ n + 2 \in 1 .. n + 2 /\ 1 <= i /\ i <= n + 2
    BY <1>1
  <2>2. at[1] <= at[i] /\ at[i] <= at[n + 2]
    BY <1>3, <2>1
  <2> QED
    BY <1>2, <1>4, <2>2
<1>9. ASSUME NEW i \in kept, NEW j \in kept, i < j PROVE at[i + 1] - 1 < at[j + 1] - 1
  <2>1. i + 1 <= j /\ at[j] < at[j + 1]
    BY <1>5, <1>7, <1>9
  <2>2. at[i + 1] <= at[j]
    BY <1>3, <1>7, <2>1
  <2>3. at[i + 1] \in Nat /\ at[j] \in Nat /\ at[j + 1] \in Nat
    BY <1>2, <1>7
  <2> QED
    BY <2>1, <2>2, <2>3
<1>10. ASSUME NEW i \in kept, NEW j \in kept, at[i + 1] - 1 < at[j + 1] - 1 PROVE i < j
  <2>1. at[i + 1] \in Nat /\ at[j + 1] \in Nat /\ i \in Int /\ j \in Int
    BY <1>2, <1>7
  <2>2. j < i => at[j + 1] - 1 < at[i + 1] - 1
    BY <1>9
  <2> QED
    BY <1>10, <2>1, <2>2
<1>11. ASSUME NEW i \in kept PROVE at[i + 1] - 1 \in 1 .. m
  <2>1. at[i] < at[i + 1] /\ at[i] \in 1 .. m + 1 /\ at[i + 1] \in 1 .. m + 1
    BY <1>5, <1>7, <1>8
  <2> QED
    BY <1>1, <2>1
<1> QED
  BY <1>3, <1>6, <1>7, <1>8, <1>9, <1>10, <1>11 DEF n, m

\* A chunk that is kept has the groups around it that it had.
LEMMA AncestorsSettle ==
  ASSUME NEW p, NEW q, NEW ids, NEW at, NEW kept, Settled(p, q, ids, at, kept),
         GroupsFit(p, q, at, kept), WellFormed(p), WellFormed(q), NEW i \in kept
  PROVE  /\ Ancestors(p, i) \subseteq kept
         /\ Ancestors(q, at[i + 1] - 1) = {at[g + 1] - 1 : g \in Ancestors(p, i)}
<1> DEFINE n == Len(p.chunks)
           m == Len(q.chunks)
           new(j) == at[j + 1] - 1
<1>1. /\ n \in Nat /\ DOMAIN p.chunks = 1 .. n
      /\ \A j \in 1 .. n + 1 : Start(p, j) \in Nat
      /\ \A j, k \in 1 .. n + 1 : j < k <=> Start(p, j) < Start(p, k)
  BY ChunksStartInOrder
<1>2. /\ m \in Nat /\ DOMAIN q.chunks = 1 .. m
      /\ \A j \in 1 .. m + 1 : Start(q, j) \in Nat
      /\ \A j, k \in 1 .. m + 1 : j < k <=> Start(q, j) < Start(q, k)
  BY ChunksStartInOrder
<1>3. /\ \A j, k \in 1 .. n + 2 : j <= k => at[j] <= at[k]
      /\ \A j \in 1 .. n + 2 : at[j] \in 1 .. m + 1
      /\ \A j \in kept : j \in 1 .. n /\ new(j) \in 1 .. m
      /\ \A j, k \in kept : j < k <=> new(j) < new(k)
      /\ \A k \in 1 .. m : \/ \E j \in kept : k = new(j)
                           \/ q.chunks[k].kind = "record" /\ q.chunks[k].id \in ids
  BY SettledPlaces
<1>4. \A g \in 1 .. n : p.chunks[g].kind = "group" => g \in kept
  BY DEF Settled
<1>5. \A j \in kept : at[j] < at[j + 1] /\ q.chunks[new(j)].kind = p.chunks[j].kind
  BY DEF Settled, SameEntry
<1>6. ASSUME NEW g \in kept, p.chunks[g].kind = "group"
      PROVE  /\ Start(p, i) < Start(p, g) + p.chunks[g].size <=>
                  Start(q, new(i)) < Start(q, new(g)) + q.chunks[new(g)].size
  <2>1. g \in 1 .. n /\ g \in Groups(p) /\ new(g) \in 1 .. m /\ q.chunks[new(g)].kind = "group"
    BY <1>1, <1>3, <1>5, <1>6 DEF Groups
  <2>2. /\ End(p, g) = Start(p, g) + p.chunks[g].size
        /\ End(p, g) \in Nat
    BY <1>6, <2>1, ChunksEnd
  <2>3. /\ End(q, new(g)) = Start(q, new(g)) + q.chunks[new(g)].size
        /\ End(q, new(g)) \in Nat
    <3> DEFINE k == new(g)
    <3>1. k \in 1 .. Len(q.chunks) /\ q.chunks[k].kind = "group"
      BY <2>1
    <3> HIDE DEF k
    <3>2. End(q, k) = Start(q, k) + q.chunks[k].size /\ End(q, k) \in Nat
      BY <3>1, ChunksEnd
    <3> QED
      BY <3>2 DEF k
  <2>4. PICK b \in 1 .. n + 1 :
          /\ g < b /\ Start(p, b) = End(p, g)
          /\ Start(q, at[b]) <= End(q, new(g))
          /\ End(q, new(g)) <= Start(q, InsertedEnd(at, kept, b))
    BY <2>1 DEF GroupsFit
  <2>5. i \in 1 .. n /\ i \in 1 .. n + 1 /\ i + 1 \in 1 .. n + 2 /\ new(i) \in 1 .. m + 1
    BY <1>1, <1>2, <1>3, SMTT(30)
  <2>6. b \in 1 .. n + 2 /\ b + 1 \in 1 .. n + 2 /\ at[b] \in 1 .. m + 1 /\ at[b + 1] \in 1 .. m + 1
    BY <1>1, <1>3
  <2>7. ASSUME i < b PROVE Start(q, new(i)) < End(q, new(g))
    <3>1. i + 1 <= b
      BY <1>1, <2>5, <2>7
    <3>2. at[i + 1] <= at[b] /\ at[i + 1] \in 1 .. m + 1
      BY <1>3, <2>5, <2>6, <3>1
    <3>3. new(i) < at[b]
      BY <1>2, <2>6, <3>2
    <3>4. Start(q, new(i)) < Start(q, at[b])
      BY <1>2, <2>5, <2>6, <3>3
    <3>5. Start(q, new(i)) \in Nat /\ Start(q, at[b]) \in Nat
      BY <1>2, <2>5, <2>6
    <3> HIDE DEF new
    <3> QED
      BY <2>3, <2>4, <3>4, <3>5
  <2>8. ASSUME b <= i PROVE ~ (Start(q, new(i)) < End(q, new(g)))
    <3> DEFINE e == InsertedEnd(at, kept, b)
    <3>1. e \in 1 .. m + 1
      <4>1. CASE b \in kept
        BY <1>2, <1>3, <4>1 DEF InsertedEnd
      <4>2. CASE b \notin kept
        BY <2>6, <4>2 DEF InsertedEnd
      <4> QED
        BY <4>1, <4>2
    <3>2. e <= new(i)
      <4>1. CASE b = i
        BY <1>2, <2>5, <4>1 DEF InsertedEnd
      <4>2. CASE b # i
        <5>1. b + 1 <= i
          BY <1>1, <2>5, <2>8, <4>2
        <5>2. at[b + 1] <= at[i] /\ at[i] < at[i + 1] /\ at[i] \in 1 .. m + 1 /\ at[i + 1] \in 1 .. m + 1
          BY <1>1, <1>3, <1>5, <2>5, <2>6, <5>1, SMTT(30)
        <5> QED
          BY <1>2, <2>6, <5>2, SMTT(30) DEF InsertedEnd
      <4> QED
        BY <4>1, <4>2
    <3>3. ~ (new(i) < e)
      BY <1>2, <2>5, <3>1, <3>2
    <3>4. ~ (Start(q, new(i)) < Start(q, e)) /\ Start(q, new(i)) \in Nat /\ Start(q, e) \in Nat
      BY <1>2, <2>5, <3>1, <3>3
    <3>5. End(q, new(g)) <= Start(q, e)
      BY <2>4
    <3> HIDE DEF new, e
    <3> QED
      BY <2>3, <3>4, <3>5
  <2>9. Start(p, i) < End(p, g) <=> i < b
    <3>1. i < b <=> Start(p, i) < Start(p, b)
      BY <1>1, <2>5
    <3> QED
      BY <2>4, <3>1
  <2>10. i < b \/ b <= i
    BY <1>1, <2>5
  <2> HIDE DEF new
  <2> QED
    BY <2>2, <2>3, <2>7, <2>8, <2>9, <2>10
<1>7. Ancestors(p, i) = {g \in kept : /\ g < i /\ p.chunks[g].kind = "group"
                                      /\ Start(p, i) < Start(p, g) + p.chunks[g].size}
  <2>1. i \in 1 .. n
    BY <1>3
  <2>2. \A g \in kept : g \in 1 .. n
    BY <1>3
  <2>3. \A g : g \in 1 .. i - 1 /\ p.chunks[g].kind = "group" <=>
               g \in kept /\ g < i /\ p.chunks[g].kind = "group"
    <3>1. ASSUME NEW g \in 1 .. i - 1, p.chunks[g].kind = "group" PROVE g \in kept /\ g < i
      <4>1. g \in 1 .. n /\ g < i
        BY <1>1, <2>1
      <4> QED
        BY <1>4, <3>1, <4>1
    <3>2. ASSUME NEW g \in kept, g < i PROVE g \in 1 .. i - 1
      BY <1>1, <2>1, <2>2, <3>2
    <3> QED
      BY <3>1, <3>2
  <2>4. Ancestors(p, i) = {g \in 1 .. i - 1 : /\ p.chunks[g].kind = "group"
                                              /\ Start(p, i) < Start(p, g) + p.chunks[g].size}
    BY DEF Ancestors, Start
  <2>5. \A g : g \in Ancestors(p, i) <=>
               /\ g \in kept /\ g < i /\ p.chunks[g].kind = "group"
               /\ Start(p, i) < Start(p, g) + p.chunks[g].size
    BY <2>3, <2>4
  <2> QED
    BY <2>5
<1>8. ASSUME NEW k \in 1 .. new(i) - 1, q.chunks[k].kind = "group"
      PROVE  \E g \in kept : k = new(g) /\ g < i /\ p.chunks[g].kind = "group"
  <2>1. new(i) \in 1 .. m
    BY <1>3
  <2>2. k \in 1 .. m /\ k < new(i)
    BY <1>2, <2>1
  <2>3. PICK g \in kept : k = new(g)
    BY <1>3, <1>8, <2>2
  <2> QED
    BY <1>3, <1>5, <1>8, <2>2, <2>3
<1>9. ASSUME NEW g \in kept, g < i
      PROVE  new(g) \in 1 .. new(i) - 1
  <2>1. new(g) < new(i) /\ new(g) \in 1 .. m /\ new(i) \in 1 .. m
    BY <1>3, <1>9
  <2> QED
    BY <1>2, <2>1
<1>10. Ancestors(q, new(i)) = {new(g) : g \in Ancestors(p, i)}
  <2>1. Ancestors(q, new(i)) =
          {k \in 1 .. new(i) - 1 : /\ q.chunks[k].kind = "group"
                                   /\ Start(q, new(i)) < Start(q, k) + q.chunks[k].size}
    BY DEF Ancestors, Start
  <2> HIDE DEF new
  <2>2. ASSUME NEW k \in Ancestors(q, new(i)) PROVE k \in {new(g) : g \in Ancestors(p, i)}
    <3>1. /\ k \in 1 .. new(i) - 1 /\ q.chunks[k].kind = "group"
          /\ Start(q, new(i)) < Start(q, k) + q.chunks[k].size
      BY <2>1
    <3>2. PICK g \in kept : k = new(g) /\ g < i /\ p.chunks[g].kind = "group"
      BY <1>8, <3>1
    <3>3. g \in Ancestors(p, i)
      BY <1>6, <1>7, <3>1, <3>2
    <3> QED
      BY <3>2, <3>3
  <2>3. ASSUME NEW g \in Ancestors(p, i) PROVE new(g) \in Ancestors(q, new(i))
    <3>1. /\ g \in kept /\ g < i /\ p.chunks[g].kind = "group"
          /\ Start(p, i) < Start(p, g) + p.chunks[g].size
      BY <1>7
    <3>2. new(g) \in 1 .. new(i) - 1 /\ q.chunks[new(g)].kind = "group"
      BY <1>5, <1>9, <3>1
    <3>3. Start(q, new(i)) < Start(q, new(g)) + q.chunks[new(g)].size
      BY <1>6, <3>1
    <3> QED
      BY <2>1, <3>2, <3>3
  <2> QED
    BY <2>2, <2>3
<1> QED
  BY <1>7, <1>10

\* Every chunk but the records with these ids is kept, and no other record is new.
KeepsTheRest(p, q, ids) == Rest(p, ids) = Rest(q, ids) /\ Ids(q) \subseteq Ids(p) \cup ids

\* So the rest is kept.
LEMMA SettledKeepsTheRest ==
  ASSUME NEW p, NEW q, NEW ids, NEW at, NEW kept, Settled(p, q, ids, at, kept),
         GroupsFit(p, q, at, kept), WellFormed(p), WellFormed(q)
  PROVE  KeepsTheRest(p, q, ids)
<1> DEFINE n == Len(p.chunks)
           m == Len(q.chunks)
           new(j) == at[j + 1] - 1
           T == {new(j) : j \in kept}
           f == [j \in kept |-> new(j)]
           others(r) == {j \in DOMAIN r.chunks : j \in Records(r) => r.chunks[j].id \notin ids}
<1>1. /\ n \in Nat /\ DOMAIN p.chunks = 1 .. n
      /\ m \in Nat /\ DOMAIN q.chunks = 1 .. m
      /\ \A j \in 1 .. n : p.chunks[j].kind \in {"record", "group"}
      /\ \A j \in 1 .. m : q.chunks[j].kind \in {"record", "group"}
  BY ChunksStartInOrder, ChunksEnd
<1>2. /\ \A j \in kept : j \in 1 .. n /\ new(j) \in 1 .. m
      /\ \A j, k \in kept : j < k <=> new(j) < new(k)
      /\ \A k \in 1 .. m : \/ \E j \in kept : k = new(j)
                           \/ q.chunks[k].kind = "record" /\ q.chunks[k].id \in ids
  BY SettledPlaces
<1>3. /\ \A j \in 1 .. n : j \notin kept => p.chunks[j].kind = "record" /\ p.chunks[j].id \in ids
      /\ \A j \in kept : /\ SameEntry(p.chunks[j], q.chunks[new(j)])
                         /\ p.chunks[j].kind = "record" => p.chunks[j].id \notin ids
  BY DEF Settled
<1> HIDE DEF new
<1>4. others(p) = kept
  BY <1>1, <1>2, <1>3 DEF Records
<1>5. others(q) = T
  <2>1. ASSUME NEW k \in others(q) PROVE k \in T
    BY <1>1, <1>2, <2>1 DEF Records
  <2>2. ASSUME NEW j \in kept PROVE new(j) \in others(q)
    BY <1>1, <1>2, <1>3 DEF Records, SameEntry
  <2> QED
    BY <2>1, <2>2
<1>6. /\ kept \in SUBSET Int /\ IsFiniteSet(kept) /\ T \in SUBSET Int /\ f \in [kept -> T]
      /\ \A x, y \in kept : x < y => f[x] < f[y]
      /\ \A y \in T : \E x \in kept : f[x] = y
  <2>1. IsFiniteSet(1 .. n) /\ kept \in SUBSET (1 .. n)
    BY <1>1, <1>2, PlacesAreFinite
  <2>2. IsFiniteSet(kept)
    BY <2>1, FS_Subset
  <2> QED
    BY <1>2, <2>1, <2>2
<1> DEFINE c == Cardinality(kept)
           a == Ascending(kept)
           b == Ascending(T)
<1>7. Cardinality(T) = c /\ \A k \in 1 .. c : b[k] = f[a[k]]
  <2> HIDE DEF T, f
  <2> QED
    BY <1>6, AscendingMoves
<1>8. c \in Nat /\ a \in [1 .. c -> kept]
  BY <1>6, AscendingLists
<1>9. DOMAIN a = 1 .. c /\ DOMAIN b = 1 .. c
  BY <1>7 DEF Ascending
<1> HIDE DEF c, a, b
<1>10. \A k \in 1 .. c : a[k] \in kept /\ b[k] = new(a[k])
  BY <1>7, <1>8
<1>11. ASSUME NEW j \in kept
       PROVE  /\ Key(q, new(j)) = Key(p, j)
              /\ Place(q, new(j)) = Place(p, j)
              /\ new(j) \in Records(q) <=> j \in Records(p)
              /\ j \in Records(p) => q.chunks[new(j)].payload = p.chunks[j].payload
  <2>1. \A i \in kept : Key(q, new(i)) = Key(p, i)
    BY <1>1, <1>2, <1>3 DEF Key, SameEntry
  <2>2. Ancestors(p, j) \subseteq kept /\ Ancestors(q, new(j)) = {new(g) : g \in Ancestors(p, j)}
    BY AncestorsSettle DEF new
  <2>3. Place(q, new(j)) = Place(p, j)
    BY <2>1, <2>2 DEF Place
  <2> QED
    BY <1>1, <1>2, <1>3, <2>1, <2>3 DEF Records, SameEntry
<1> DEFINE row(r, j) == [key |-> Key(r, j), place |-> Place(r, j),
                         payload |-> IF j \in Records(r) THEN r.chunks[j].payload ELSE 0]
<1>12. ASSUME NEW j \in kept PROVE row(q, new(j)) = row(p, j)
  BY <1>11
<1>13. Rest(p, ids) = [k \in 1 .. c |-> row(p, a[k])]
  BY <1>4, <1>9 DEF Rest, a
<1>14. Rest(q, ids) = [k \in 1 .. c |-> row(q, b[k])]
  BY <1>5, <1>9 DEF Rest, b
<1> HIDE DEF row
<1>15. \A k \in 1 .. c : row(p, a[k]) = row(q, b[k])
  BY <1>10, <1>12
<1>16. Ids(q) \subseteq Ids(p) \cup ids
  <2> SUFFICES ASSUME NEW k \in Records(q), q.chunks[k].id \notin ids
               PROVE  q.chunks[k].id \in Ids(p)
    BY DEF Ids
  <2>1. PICK j \in kept : k = new(j)
    BY <1>1, <1>2 DEF Records
  <2>2. j \in Records(p) /\ q.chunks[k].id = p.chunks[j].id
    BY <1>1, <1>2, <1>3, <2>1 DEF Records, SameEntry
  <2> QED
    BY <2>2 DEF Ids
<1> QED
  BY <1>13, <1>14, <1>15, <1>16 DEF KeepsTheRest

(***************************************************************************)
(* Edits and sizes.  The j-th of m edits is made at the place[j]-th chunk, *)
(* in front of which it puts gain[j] bytes, for loss[j] bytes of the chunk *)
(* that it takes away; the groups in grown[j] grow by the difference.      *)
(***************************************************************************)

\* The sum of the numbers at the places in S.
SumOver(m, f, S) == Total([j \in 1 .. m |-> IF j \in S THEN f[j] ELSE 0])

\* The edits at chunk i.
At(m, place, i) == {j \in 1 .. m : place[j] = i}

\* By how much each edit makes the bytes longer.
Difference(m, gain, loss) == [j \in 1 .. m |-> gain[j] - loss[j]]

\* The slots are as long as the chunks and the edits at them make them.
Measured(p, q, at, kept, m, place, gain, loss) ==
  /\ \A i \in 1 .. Len(p.chunks) :
       Start(q, at[i + 1]) - Start(q, at[i])
         = OwnSize(p.chunks[i]) + SumOver(m, Difference(m, gain, loss), At(m, place, i))
  /\ \A i \in 1 .. Len(p.chunks) + 1 :
       Start(q, InsertedEnd(at, kept, i)) - Start(q, at[i]) = SumOver(m, gain, At(m, place, i))

\* An edit in a group makes it grow, one at its end may if it takes nothing away, and no
\* other does.
Resized(p, q, at, m, place, gain, loss, grown) ==
  \A g \in Groups(p) :
    /\ \A j \in 1 .. m :
         /\ g < place[j] /\ Start(p, place[j]) < End(p, g) => g \in grown[j]
         /\ g \in grown[j] =>
              /\ g < place[j] /\ Start(p, place[j]) <= End(p, g)
              /\ Start(p, place[j]) = End(p, g) => loss[j] = 0
    /\ q.chunks[at[g + 1] - 1].size
         = p.chunks[g].size + SumOver(m, Difference(m, gain, loss), {j \in 1 .. m : g \in grown[j]})

\* q is made from p by these edits.
IsEdited(p, q, ids, at, kept, m, place, gain, loss, grown) ==
  /\ WellFormed(p) /\ Scans(p) /\ WellFormed(q)
  /\ m \in Nat /\ place \in [1 .. m -> 1 .. Len(p.chunks) + 1]
  /\ gain \in [1 .. m -> Nat] /\ loss \in [1 .. m -> Nat]
  /\ Settled(p, q, ids, at, kept)
  /\ Measured(p, q, at, kept, m, place, gain, loss)
  /\ Resized(p, q, at, m, place, gain, loss, grown)

\* Sums over a part and over the others.
LEMMA SumOfDifference ==
  ASSUME NEW m \in Nat, NEW f \in [1 .. m -> Int], NEW S \in SUBSET (1 .. m), NEW T \in SUBSET S
  PROVE  /\ SumOver(m, f, S) \in Int /\ SumOver(m, f, T) \in Int
         /\ SumOver(m, f, S \ T) = SumOver(m, f, S) - SumOver(m, f, T)
<1> DEFINE U == S \ T
<1> DEFINE list(V) == [j \in 1 .. m |-> IF j \in V THEN f[j] ELSE 0]
<1>1. list(S) \in [1 .. m -> Int] /\ list(T) \in [1 .. m -> Int]
  OBVIOUS
<1>2. \A j \in 1 .. m : list(U)[j] = list(S)[j] - list(T)[j]
  OBVIOUS
<1>3. list(U) = [j \in 1 .. m |-> list(S)[j] - list(T)[j]]
  BY <1>2
<1> HIDE DEF list
<1>4. /\ Total(list(S)) \in Int /\ Total(list(T)) \in Int
      /\ Total(list(U)) = Total(list(S)) - Total(list(T))
  <2>1. \A a, b \in [1 .. m -> Int] :
          /\ Total(a) \in Int /\ Total(b) \in Int
          /\ Total([k \in 1 .. m |-> a[k] - b[k]]) = Total(a) - Total(b)
    BY TotalOfDifference
  <2> QED
    BY <1>1, <1>3, <2>1
<1> QED
  BY <1>4 DEF list, SumOver

\* The edits from chunk a on, in front of chunk b.
Between(m, place, a, b) == {j \in 1 .. m : a <= place[j] /\ place[j] < b}

\* f grows by what the edits at each place add.
Adds(n, m, place, d, f) == \A x \in 1 .. n : f[x + 1] = f[x] + SumOver(m, d, At(m, place, x))

\* Numbers add up to a number.
LEMMA SumIsANumber ==
  ASSUME NEW m \in Nat, NEW f \in [1 .. m -> Int], NEW S \in SUBSET (1 .. m)
  PROVE  SumOver(m, f, S) \in Int
<1>1. {} \in SUBSET S
  OBVIOUS
<1> QED
  BY <1>1, SumOfDifference

\* What edits add chunk by chunk.
LEMMA SumsBetween ==
  ASSUME NEW m \in Nat, NEW place \in [1 .. m -> Int], NEW d \in [1 .. m -> Int], NEW a \in Int
  PROVE  /\ SumOver(m, d, Between(m, place, a, a)) = 0
         /\ \A x \in Int :
              /\ SumOver(m, d, Between(m, place, a, x)) \in Int
              /\ SumOver(m, d, At(m, place, x)) \in Int
              /\ a <= x => SumOver(m, d, Between(m, place, a, x + 1))
                             = SumOver(m, d, Between(m, place, a, x)) + SumOver(m, d, At(m, place, x))
<1>1. ASSUME NEW S \in SUBSET (1 .. m) PROVE SumOver(m, d, S) \in Int
  BY SumIsANumber
<1>2. SumOver(m, d, Between(m, place, a, a)) = 0
  <2>1. Between(m, place, a, a) = {}
    BY DEF Between
  <2>2. [j \in 1 .. m |-> IF j \in {} THEN d[j] ELSE 0] = [j \in 1 .. m |-> 0]
    OBVIOUS
  <2>3. SumOver(m, d, {}) = Total([j \in 1 .. m |-> 0])
    BY <2>2 DEF SumOver
  <2> QED
    BY <2>1, <2>3, TotalOfZeros
<1>3. ASSUME NEW x \in Int
      PROVE  /\ Between(m, place, a, x) \subseteq 1 .. m
             /\ At(m, place, x) \subseteq 1 .. m
             /\ a <= x => /\ Between(m, place, a, x) \subseteq Between(m, place, a, x + 1)
                          /\ At(m, place, x) = Between(m, place, a, x + 1) \ Between(m, place, a, x)
  <2>1. \A j \in 1 .. m : place[j] \in Int
    OBVIOUS
  <2> QED
    BY <2>1 DEF Between, At
<1>4. ASSUME NEW x \in Int, a <= x
      PROVE  SumOver(m, d, Between(m, place, a, x + 1))
               = SumOver(m, d, Between(m, place, a, x)) + SumOver(m, d, At(m, place, x))
  <2> DEFINE S == Between(m, place, a, x + 1)
             T == Between(m, place, a, x)
             U == At(m, place, x)
  <2>1. S \in SUBSET (1 .. m) /\ T \in SUBSET S /\ U = S \ T
    <3>1. x + 1 \in Int
      OBVIOUS
    <3>2. S \subseteq 1 .. m
      BY <1>3, <3>1
    <3> QED
      BY <1>3, <1>4, <3>2
  <2> HIDE DEF S, T, U
  <2>2. SumOver(m, d, U) = SumOver(m, d, S) - SumOver(m, d, T)
    BY <2>1, SumOfDifference
  <2>3. SumOver(m, d, S) \in Int /\ SumOver(m, d, T) \in Int
    BY <2>1, SumOfDifference
  <2>4. SumOver(m, d, S) = SumOver(m, d, T) + SumOver(m, d, U)
    BY <2>2, <2>3
  <2> QED
    BY <2>4 DEF S, T, U
<1> QED
  BY <1>1, <1>2, <1>3, <1>4

\* From one chunk to a later one, it grows by what the edits between them add.
LEMMA Stretch ==
  ASSUME NEW n \in Nat, NEW m \in Nat, NEW place \in [1 .. m -> 1 .. n + 1],
         NEW d \in [1 .. m -> Int], NEW f \in [1 .. n + 1 -> Int],
         Adds(n, m, place, d, f),
         NEW a \in 1 .. n + 1, NEW b \in 1 .. n + 1, a <= b
  PROVE  f[b] = f[a] + SumOver(m, d, Between(m, place, a, b))
<1> DEFINE sum(x) == SumOver(m, d, Between(m, place, a, x))
           here(x) == SumOver(m, d, At(m, place, x))
           S == {x \in 1 .. n + 1 : a <= x => f[x] = f[a] + sum(x)}
<1>1. /\ sum(a) = 0
      /\ \A x \in Int : /\ sum(x) \in Int /\ here(x) \in Int
                        /\ a <= x => sum(x + 1) = sum(x) + here(x)
  <2>1. place \in [1 .. m -> Int] /\ a \in Int
    OBVIOUS
  <2> QED
    BY <2>1, SumsBetween
<1>2. \A x \in 1 .. n : f[x + 1] = f[x] + here(x)
  BY DEF Adds
<1>3. \A x \in 1 .. n + 1 : f[x] \in Int
  OBVIOUS
<1> HIDE DEF sum, here
<1>4. 1 \in S
  <2>1. (a <= 1 => a = 1) /\ f[a] \in Int /\ 1 \in 1 .. n + 1
    BY <1>3
  <2> QED
    BY <1>1, <2>1
<1>5. ASSUME NEW x \in 1 .. n, x \in S PROVE x + 1 \in S
  <2> SUFFICES ASSUME a <= x + 1 PROVE f[x + 1] = f[a] + sum(x + 1)
    OBVIOUS
  <2>1. f[x + 1] \in Int /\ f[x] \in Int /\ f[a] \in Int
    <3>1. x + 1 \in 1 .. n + 1 /\ x \in 1 .. n + 1
      OBVIOUS
    <3> QED
      BY <1>3, <3>1
  <2>2. CASE a = x + 1
    BY <1>1, <2>1, <2>2
  <2>3. CASE a <= x
    <3>1. f[x] = f[a] + sum(x) /\ f[x + 1] = f[x] + here(x)
      BY <1>2, <1>5, <2>3
    <3>2. sum(x) \in Int /\ here(x) \in Int /\ sum(x + 1) = sum(x) + here(x)
      <4>1. x \in Int
        OBVIOUS
      <4> QED
        BY <1>1, <2>3, <4>1
    <3> QED
      BY <2>1, <3>1, <3>2
  <2> QED
    BY <2>2, <2>3
<1>6. \A x \in 1 .. n + 1 : x \in S
  <2> HIDE DEF S
  <2> QED
    BY <1>4, <1>5, EveryPlace
<1>7. f[b] = f[a] + sum(b)
  BY <1>6
<1> QED
  BY <1>7 DEF sum

\* The edits at chunk b that make group g grow.
Ending(m, place, grown, g, b) == {j \in 1 .. m : place[j] = b /\ g \in grown[j]}

\* Group g ends in front of chunk b, and then as far behind the beginning of its slot as the
\* edits put in that make it grow.
EndsIn(p, q, at, m, place, gain, grown, g, b) ==
  /\ g < b /\ Start(p, b) = End(p, g)
  /\ End(q, at[g + 1] - 1) = Start(q, at[b]) + SumOver(m, gain, Ending(m, place, grown, g, b))

\* A group grows by what is put into it and so still ends where it did: in front of the
\* same chunk, or of records inserted in front of it.
LEMMA GroupsEnd ==
  ASSUME NEW p, NEW q, NEW ids, NEW at, NEW kept, Settled(p, q, ids, at, kept),
         WellFormed(p), Scans(p), WellFormed(q),
         NEW m \in Nat, NEW place \in [1 .. m -> 1 .. Len(p.chunks) + 1],
         NEW gain \in [1 .. m -> Nat], NEW loss \in [1 .. m -> Nat], NEW grown,
         Measured(p, q, at, kept, m, place, gain, loss),
         Resized(p, q, at, m, place, gain, loss, grown),
         NEW g \in Groups(p)
  PROVE  \E b \in 1 .. Len(p.chunks) + 1 : EndsIn(p, q, at, m, place, gain, grown, g, b)
<1> DEFINE n == Len(p.chunks)
           d == Difference(m, gain, loss)
<1>1. /\ n \in Nat /\ DOMAIN p.chunks = 1 .. n
      /\ \A j \in 1 .. n + 1 : Start(p, j) \in Nat
      /\ \A j \in 1 .. n : /\ Start(p, j + 1) = Start(p, j) + OwnSize(p.chunks[j])
                           /\ OwnSize(p.chunks[j]) \in Nat
      /\ \A j, k \in 1 .. n + 1 : j < k <=> Start(p, j) < Start(p, k)
  BY ChunksStartInOrder
<1>2. /\ Len(q.chunks) \in Nat /\ \A j \in 1 .. Len(q.chunks) + 1 : Start(q, j) \in Nat
  BY ChunksStartInOrder
<1>3. /\ \A i \in 1 .. n + 2 : at[i] \in 1 .. Len(q.chunks) + 1
      /\ \A i \in kept : i \in 1 .. n /\ at[i + 1] - 1 \in 1 .. Len(q.chunks)
  BY SettledPlaces
<1>4. g \in 1 .. n /\ p.chunks[g].kind = "group"
  BY <1>1 DEF Groups
<1>5. g \in kept
  BY <1>4 DEF Settled
<1>6. PICK b \in 1 .. n + 1 : g < b /\ End(p, g) = Start(p, b)
  BY GroupsEndAtStarts
<1>7. ASSUME NEW x \in 1 .. n
      PROVE  Start(q, at[x + 1]) - Start(q, at[x])
               = OwnSize(p.chunks[x]) + SumOver(m, d, At(m, place, x))
  BY DEF Measured
<1>8. /\ d \in [1 .. m -> Int]
      /\ \A j \in 1 .. m : /\ d[j] = gain[j] - loss[j]
                           /\ place[j] \in 1 .. n + 1 /\ gain[j] \in Nat /\ loss[j] \in Nat
  BY DEF Difference
<1>9. place \in [1 .. m -> 1 .. n + 1]
  OBVIOUS
<1>11. q.chunks[at[g + 1] - 1].size = p.chunks[g].size + SumOver(m, d, {j \in 1 .. m : g \in grown[j]})
  BY DEF Resized
<1>12. \A j \in 1 .. m :
         /\ g < place[j] /\ Start(p, place[j]) < End(p, g) => g \in grown[j]
         /\ g \in grown[j] =>
              /\ g < place[j] /\ Start(p, place[j]) <= End(p, g)
              /\ Start(p, place[j]) = End(p, g) => loss[j] = 0
  BY DEF Resized
<1>13. /\ End(p, g) = Start(p, g) + p.chunks[g].size
       /\ Start(p, g + 1) = Start(p, g) + GroupHeaderSize
       /\ p.chunks[g].size \in Nat
  BY <1>4, ChunksEnd
<1> HIDE DEF n, d
<1>14. ASSUME NEW i \in 1 .. n + 1 PROVE Start(q, at[i]) \in Nat
  <2>1. i \in 1 .. n + 2
    BY <1>1
  <2>2. at[i] \in 1 .. Len(q.chunks) + 1
    BY <1>3, <2>1
  <2> QED
    BY <1>2, <2>2
<1> DEFINE a == g + 1
           k == at[a] - 1
           between == Between(m, place, a, b)
           growing == {j \in 1 .. m : g \in grown[j]}
           ending == Ending(m, place, grown, g, b)
<1>15. a \in 1 .. n + 1 /\ a <= b
  BY <1>1, <1>4, <1>6
<1>16. Start(q, at[b]) - Start(q, at[a]) = Start(p, b) - Start(p, a) + SumOver(m, d, between)
  <2> DEFINE f == [i \in 1 .. n + 1 |-> Start(q, at[i]) - Start(p, i)]
  <2>1. ASSUME NEW i \in 1 .. n + 1
        PROVE  Start(q, at[i]) \in Nat /\ Start(p, i) \in Nat
    BY <1>1, <1>14
  <2>2. f \in [1 .. n + 1 -> Int]
    BY <2>1
  <2>3. ASSUME NEW x \in 1 .. n PROVE f[x + 1] = f[x] + SumOver(m, d, At(m, place, x))
    <3>1. x \in 1 .. n + 1 /\ x + 1 \in 1 .. n + 1
      BY <1>1
    <3>2. f[x] = Start(q, at[x]) - Start(p, x) /\ f[x + 1] = Start(q, at[x + 1]) - Start(p, x + 1)
      BY <3>1
    <3>3. Start(q, at[x + 1]) - Start(q, at[x]) = OwnSize(p.chunks[x]) + SumOver(m, d, At(m, place, x))
      BY <1>7
    <3>4. Start(p, x + 1) = Start(p, x) + OwnSize(p.chunks[x]) /\ OwnSize(p.chunks[x]) \in Nat
      BY <1>1
    <3>5. SumOver(m, d, At(m, place, x)) \in Int
      <4>1. At(m, place, x) \in SUBSET (1 .. m)
        BY DEF At
      <4> QED
        BY <1>8, <4>1, SumIsANumber
    <3>6. /\ Start(q, at[x + 1]) \in Nat /\ Start(q, at[x]) \in Nat
          /\ Start(p, x) \in Nat /\ Start(p, x + 1) \in Nat
      BY <2>1, <3>1
    <3> HIDE DEF f
    <3> DEFINE u == Start(q, at[x])
               v == Start(q, at[x + 1])
               s == SumOver(m, d, At(m, place, x))
               o == OwnSize(p.chunks[x])
    <3>7. u \in Int /\ v \in Int /\ s \in Int /\ o \in Int /\ v - u = o + s
      BY <3>3, <3>4, <3>5, <3>6
    <3>8. /\ f[x] = u - Start(p, x) /\ f[x + 1] = v - (Start(p, x) + o)
          /\ Start(p, x) \in Int
      BY <3>2, <3>4, <3>6
    <3> HIDE DEF u, v, s, o
    <3>9. f[x + 1] = f[x] + s
      BY <3>7, <3>8
    <3> QED
      BY <3>9 DEF s
  <2>4. f[b] = f[a] + SumOver(m, d, between)
    <3>1. n \in Nat /\ d \in [1 .. m -> Int]
      BY <1>1, <1>8
    <3> HIDE DEF f, a
    <3>2. Adds(n, m, place, d, f)
      BY <2>3 DEF Adds
    <3> QED
      BY <1>9, <1>15, <2>2, <3>1, <3>2, Stretch
  <2>5. f[b] = Start(q, at[b]) - Start(p, b) /\ f[a] = Start(q, at[a]) - Start(p, a)
    BY <1>15
  <2>6. SumOver(m, d, between) \in Int
    <3>1. between \in SUBSET (1 .. m)
      BY DEF Between
    <3> HIDE DEF between
    <3> QED
      BY <1>8, <3>1, SumIsANumber
  <2>7. /\ Start(q, at[a]) \in Nat /\ Start(p, a) \in Nat
        /\ Start(q, at[b]) \in Nat /\ Start(p, b) \in Nat
    BY <1>15, <2>1
  <2> HIDE DEF f, a
  <2> DEFINE s == SumOver(m, d, between)
  <2>8. f[b] = f[a] + s /\ s \in Int
    BY <2>4, <2>6
  <2> HIDE DEF s
  <2>9. Start(q, at[b]) - Start(q, at[a]) = Start(p, b) - Start(p, a) + s
    BY <2>5, <2>7, <2>8
  <2> QED
    BY <2>9 DEF s
<1>17. ASSUME NEW j \in 1 .. m
       PROVE  /\ j \in between => j \in growing
              /\ j \in growing /\ j \notin between <=> j \in ending
              /\ j \in ending => loss[j] = 0
  <2>1. place[j] \in 1 .. n + 1
    BY <1>8
  <2>2. /\ place[j] < b <=> Start(p, place[j]) < Start(p, b)
        /\ b < place[j] <=> Start(p, b) < Start(p, place[j])
    BY <1>1, <2>1
  <2>3. Start(p, place[j]) \in Nat /\ Start(p, b) \in Nat /\ place[j] \in Int /\ b \in Int /\ g \in Int
    <3>1. Start(p, place[j]) \in Nat /\ Start(p, b) \in Nat
      BY <1>1, <2>1
    <3>2. place[j] \in Int /\ b \in Int /\ g \in Int
      BY <1>1, <1>4, <2>1
    <3> QED
      BY <3>1, <3>2
  <2>4. place[j] = b <=> Start(p, place[j]) = Start(p, b)
    BY <2>2, <2>3
  <2>5. g < place[j] <=> a <= place[j]
    BY <2>3
  <2>6. /\ j \in between <=> a <= place[j] /\ place[j] < b
        /\ j \in growing <=> g \in grown[j]
        /\ j \in ending <=> place[j] = b /\ g \in grown[j]
    BY DEF Ending, Between
  <2>7. /\ g < place[j] /\ Start(p, place[j]) < End(p, g) => g \in grown[j]
        /\ g \in grown[j] =>
              /\ g < place[j] /\ Start(p, place[j]) <= End(p, g)
              /\ Start(p, place[j]) = End(p, g) => loss[j] = 0
    BY <1>12
  <2> HIDE DEF between, growing, ending, a
  <2> QED
    BY <1>6, <2>2, <2>3, <2>4, <2>5, <2>6, <2>7
<1>18. /\ SumOver(m, d, growing) \in Int /\ SumOver(m, d, between) \in Int
       /\ SumOver(m, d, ending) = SumOver(m, d, growing) - SumOver(m, d, between)
  <2>1. growing \subseteq 1 .. m /\ between \subseteq 1 .. m /\ ending \subseteq 1 .. m
    BY DEF Ending, Between
  <2> HIDE DEF growing, between, ending
  <2>2. growing \in SUBSET (1 .. m) /\ between \in SUBSET growing /\ ending = growing \ between
    BY <1>17, <2>1
  <2> QED
    BY <1>8, <2>2, SumOfDifference
<1>20. k \in 1 .. Len(q.chunks) /\ at[a] = k + 1 /\ q.chunks[k].kind = "group"
  <2>1. k \in 1 .. Len(q.chunks) /\ q.chunks[k].kind = "group"
    BY <1>3, <1>4, <1>5 DEF Settled, SameEntry
  <2>2. a \in 1 .. n + 2
    BY <1>1, <1>15
  <2>3. at[a] \in 1 .. Len(q.chunks) + 1
    <3> HIDE DEF a
    <3> QED
      BY <1>3, <2>2
  <2> HIDE DEF a
  <2> QED
    BY <1>2, <2>1, <2>3
<1>21. /\ q.chunks[k].size = p.chunks[g].size + SumOver(m, d, growing)
       /\ Start(p, a) = Start(p, g) + GroupHeaderSize
  BY <1>11, <1>13
<1> HIDE DEF k, a
<1>22. /\ End(q, k) = Start(q, k) + q.chunks[k].size
       /\ Start(q, k + 1) = Start(q, k) + GroupHeaderSize
       /\ q.chunks[k].size \in Nat
  BY <1>20, ChunksEnd
<1>23. /\ Start(q, k) \in Nat /\ Start(p, g) \in Nat /\ Start(p, b) \in Nat
       /\ Start(q, at[b]) \in Nat /\ Start(q, at[a]) \in Nat /\ Start(p, a) \in Nat
  <2>1. k \in 1 .. Len(q.chunks) + 1 /\ g \in 1 .. n + 1
    BY <1>1, <1>2, <1>4, <1>20
  <2> QED
    BY <1>1, <1>2, <1>14, <1>15, <2>1
<1>24. End(q, k) = Start(q, at[b]) + SumOver(m, d, ending)
  <2>1. Start(q, at[a]) = Start(q, k) + 1 /\ Start(p, a) = Start(p, g) + 1
    BY <1>20, <1>21, <1>22 DEF GroupHeaderSize
  <2> DEFINE s == SumOver(m, d, growing)
             r == SumOver(m, d, between)
             e == SumOver(m, d, ending)
  <2>2. s \in Int /\ r \in Int /\ e = s - r
    BY <1>18
  <2>3. /\ Start(q, at[b]) - Start(q, at[a]) = Start(p, b) - Start(p, a) + r
        /\ q.chunks[k].size = p.chunks[g].size + s
    BY <1>16, <1>21
  <2> HIDE DEF s, r, e
  <2> DEFINE u == p.chunks[g].size
             v == q.chunks[k].size
  <2>4. /\ u \in Int /\ v \in Int /\ v = u + s
        /\ Start(p, b) = Start(p, g) + u /\ End(q, k) = Start(q, k) + v
    BY <1>6, <1>13, <1>22, <2>3
  <2> HIDE DEF u, v
  <2>5. Start(q, at[b]) = Start(q, k) + u + r
    <3>1. Start(p, b) - Start(p, a) = u - 1
      BY <1>23, <2>1, <2>4
    <3>2. Start(q, at[b]) - Start(q, at[a]) = (u - 1) + r
      BY <2>3, <3>1
    <3> DEFINE x == Start(q, at[b])
               y == Start(q, at[a])
               z == Start(q, k)
    <3>3. x \in Int /\ y \in Int /\ z \in Int /\ x - y = (u - 1) + r /\ y = z + 1
      BY <1>23, <2>1, <3>2
    <3> HIDE DEF x, y, z
    <3>4. x = z + u + r
      BY <2>2, <2>4, <3>3
    <3> QED
      BY <3>4 DEF x, z
  <2>6. End(q, k) = Start(q, at[b]) + e
    BY <1>23, <2>2, <2>4, <2>5
  <2> QED
    BY <2>6 DEF e
<1>25. SumOver(m, d, ending) = SumOver(m, gain, ending)
  <2>1. ASSUME NEW j \in 1 .. m
        PROVE  (IF j \in ending THEN d[j] ELSE 0) = (IF j \in ending THEN gain[j] ELSE 0)
    <3>1. j \in ending => loss[j] = 0
      BY <1>17
    <3> HIDE DEF ending
    <3> QED
      BY <1>8, <3>1
  <2> HIDE DEF ending
  <2>2. [j \in 1 .. m |-> IF j \in ending THEN d[j] ELSE 0]
          = [j \in 1 .. m |-> IF j \in ending THEN gain[j] ELSE 0]
    BY <2>1
  <2> QED
    BY <2>2 DEF SumOver
<1>26. k = at[g + 1] - 1
  BY DEF k, a
<1> QED
  BY <1>6, <1>24, <1>25, <1>26 DEF n, EndsIn

\* What the edits put in that make a group grow is no more than what is put in there.
LEMMA SomeAreFewer ==
  ASSUME NEW m \in Nat, NEW f \in [1 .. m -> Nat], NEW S, NEW T,
         \A j \in 1 .. m : j \in S => j \in T
  PROVE  /\ SumOver(m, f, S) \in Nat /\ SumOver(m, f, T) \in Nat
         /\ SumOver(m, f, S) <= SumOver(m, f, T)
<1> DEFINE x == [j \in 1 .. m |-> IF j \in S THEN f[j] ELSE 0]
           y == [j \in 1 .. m |-> IF j \in T THEN f[j] ELSE 0]
           zero == [j \in 1 .. m |-> 0]
<1>1. \A j \in 1 .. m : f[j] \in Nat
  OBVIOUS
<1>2. zero \in [1 .. m -> Int] /\ x \in [1 .. m -> Int] /\ y \in [1 .. m -> Int]
  BY <1>1
<1>3. \A j \in 1 .. m : zero[j] <= x[j] /\ zero[j] <= y[j] /\ x[j] <= y[j]
  BY <1>1
<1>4. Total(zero) = 0
  BY TotalOfZeros
<1>5. SumOver(m, f, S) = Total(x) /\ SumOver(m, f, T) = Total(y)
  BY DEF SumOver
<1> HIDE DEF x, y, zero
<1>6. Total(zero) <= Total(x) /\ Total(zero) <= Total(y) /\ Total(x) <= Total(y)
  BY <1>2, <1>3, TotalGrows
<1>7. Total(x) \in Int /\ Total(y) \in Int
  BY <1>2, TotalOfDifference
<1> QED
  BY <1>4, <1>5, <1>6, <1>7

\* So every group ends within the slot in front of which it ended.
LEMMA EditsFit ==
  ASSUME NEW p, NEW q, NEW ids, NEW at, NEW kept, Settled(p, q, ids, at, kept),
         WellFormed(p), Scans(p), WellFormed(q),
         NEW m \in Nat, NEW place \in [1 .. m -> 1 .. Len(p.chunks) + 1],
         NEW gain \in [1 .. m -> Nat], NEW loss \in [1 .. m -> Nat], NEW grown,
         Measured(p, q, at, kept, m, place, gain, loss),
         Resized(p, q, at, m, place, gain, loss, grown)
  PROVE  GroupsFit(p, q, at, kept)
<1> DEFINE n == Len(p.chunks)
<1> SUFFICES ASSUME NEW g \in Groups(p)
             PROVE  \E b \in 1 .. n + 1 :
                      /\ g < b /\ Start(p, b) = End(p, g)
                      /\ Start(q, at[b]) <= End(q, at[g + 1] - 1)
                      /\ End(q, at[g + 1] - 1) <= Start(q, InsertedEnd(at, kept, b))
  BY DEF GroupsFit
<1>1. n \in Nat
  BY ChunksStartInOrder
<1>2. /\ Len(q.chunks) \in Nat /\ \A j \in 1 .. Len(q.chunks) + 1 : Start(q, j) \in Nat
  BY ChunksStartInOrder
<1>3. /\ \A i \in 1 .. n + 2 : at[i] \in 1 .. Len(q.chunks) + 1
      /\ \A i \in kept : i \in 1 .. n /\ at[i + 1] - 1 \in 1 .. Len(q.chunks)
  BY SettledPlaces
<1>4. PICK b \in 1 .. n + 1 : EndsIn(p, q, at, m, place, gain, grown, g, b)
  BY GroupsEnd
<1> DEFINE k == at[g + 1] - 1
           some == SumOver(m, gain, Ending(m, place, grown, g, b))
           all == SumOver(m, gain, At(m, place, b))
<1>5. some \in Nat /\ all \in Nat /\ some <= all
  <2>1. \A j \in 1 .. m : j \in Ending(m, place, grown, g, b) => j \in At(m, place, b)
    BY DEF Ending, At
  <2> QED
    BY <2>1, SomeAreFewer
<1>6. g < b /\ Start(p, b) = End(p, g) /\ End(q, k) = Start(q, at[b]) + some
  BY <1>4 DEF EndsIn
<1>7. Start(q, InsertedEnd(at, kept, b)) - Start(q, at[b]) = all
  BY DEF Measured
<1> HIDE DEF n
<1>8. Start(q, at[b]) \in Nat
  <2>1. b \in 1 .. n + 2
    BY <1>1
  <2> QED
    BY <1>2, <1>3, <2>1
<1>9. Start(q, InsertedEnd(at, kept, b)) \in Nat
  <2>1. CASE b \in kept
    <3>1. at[b + 1] - 1 \in 1 .. Len(q.chunks)
      BY <1>3, <2>1
    <3>2. InsertedEnd(at, kept, b) \in 1 .. Len(q.chunks) + 1
      BY <1>2, <2>1, <3>1 DEF InsertedEnd
    <3> QED
      BY <1>2, <3>2
  <2>2. CASE b \notin kept
    <3>1. b + 1 \in 1 .. n + 2
      BY <1>1
    <3>2. at[b + 1] \in 1 .. Len(q.chunks) + 1
      BY <1>3, <3>1
    <3> QED
      BY <1>2, <2>2, <3>2 DEF InsertedEnd
  <2> QED
    BY <2>1, <2>2
<1>10. Start(q, at[b]) <= End(q, k) /\ End(q, k) <= Start(q, InsertedEnd(at, kept, b))
  <2> HIDE DEF k, some, all
  <2> QED
    BY <1>5, <1>6, <1>7, <1>8, <1>9
<1> QED
  BY <1>6, <1>10 DEF n

(***************************************************************************)
(* A call that edits one record: in front of the i-th chunk r records are  *)
(* put in, and l chunks are taken away, each none or one.                  *)
(***************************************************************************)

\* Where the x-th chunk is then.
NewPlace(i, r, l, x) == IF x < i THEN x ELSE x + r - l

\* q are the chunks of p with that edit, of a record with one of the ids.
OneEdit(p, q, ids, i, r, l) ==
  /\ i \in 1 .. Len(p.chunks) + 1 /\ r \in {0, 1} /\ l \in {0, 1}
  /\ Len(q.chunks) = Len(p.chunks) + r - l
  /\ r = 1 => q.chunks[i].kind = "record" /\ q.chunks[i].id \in ids
  /\ l = 1 => /\ i \in 1 .. Len(p.chunks)
              /\ p.chunks[i].kind = "record" /\ p.chunks[i].id \in ids
  /\ \A x \in 1 .. Len(p.chunks) : x # i \/ l = 0 =>
       /\ SameEntry(p.chunks[x], q.chunks[NewPlace(i, r, l, x)])
       /\ p.chunks[x].kind = "record" => p.chunks[x].id \notin ids

\* The bytes it puts in, and those it takes away.
Gained(q, i, r) == IF r = 1 THEN RecordSize(q.chunks[i]) ELSE 0
Lost(p, i, l) == IF l = 1 THEN RecordSize(p.chunks[i]) ELSE 0

\* The groups in grown grow by what the edit puts in.
GroupsGrow(p, q, i, r, l, grown) ==
  \A g \in Groups(p) :
    /\ g < i /\ Start(p, i) < End(p, g) => g \in grown
    /\ g \in grown => /\ g < i /\ Start(p, i) <= End(p, g)
                      /\ Start(p, i) = End(p, g) => l = 0
    /\ q.chunks[NewPlace(i, r, l, g)].size
         = p.chunks[g].size + (IF g \in grown THEN Gained(q, i, r) - Lost(p, i, l) ELSE 0)

\* Where the slots begin.
Slots(n, i, r, l) ==
  [x \in 1 .. n + 2 |-> (IF x = n + 2 THEN n + 1 ELSE x) + (IF i < x THEN r - l ELSE 0)]

\* The chunks that are left.
Left(n, i, l) == {x \in 1 .. n : x # i \/ l = 0}

\* How long the slots are: one chunk each, but at i.
Stepwise(at, n, i, r, l) ==
  /\ at \in [1 .. n + 2 -> Nat]
  /\ at[1] = 1 /\ at[n + 2] = n + r - l + 1
  /\ \A x \in 1 .. n : x # i => at[x + 1] = at[x] + 1
  /\ at[i] = i
  /\ i \in 1 .. n => at[i + 1] = i + r + (1 - l)
  /\ i = n + 1 => at[i + 1] = i + r
  /\ i # n + 1 => at[n + 2] = at[n + 1]
  /\ \A x \in 1 .. n : at[x + 1] - 1 = NewPlace(i, r, l, x)

\* Every other slot is as long as its chunk.
LEMMA SlotPlaces ==
  ASSUME NEW n \in Nat, NEW i \in 1 .. n + 1, NEW r \in {0, 1}, NEW l \in {0, 1},
         l = 1 => i \in 1 .. n
  PROVE  Stepwise(Slots(n, i, r, l), n, i, r, l)
<1> DEFINE at == Slots(n, i, r, l)
<1>1. r \in Int /\ l \in Int /\ i \in Int
  OBVIOUS
<1>2. DOMAIN at = 1 .. n + 2 /\ at = [x \in 1 .. n + 2 |-> at[x]]
  BY DEF Slots
<1>3. ASSUME NEW x \in 1 .. n + 2
      PROVE  at[x] = (IF x = n + 2 THEN n + 1 ELSE x) + (IF i < x THEN r - l ELSE 0)
  BY DEF Slots
<1>4. ASSUME NEW x \in 1 .. n + 1
      PROVE  at[x] = IF i < x THEN x + r - l ELSE x
  <2>1. x \in 1 .. n + 2 /\ x # n + 2 /\ x \in Int
    OBVIOUS
  <2>2. at[x] = x + (IF i < x THEN r - l ELSE 0)
    BY <1>3, <2>1
  <2> QED
    BY <1>1, <2>1, <2>2
<1>5. at[n + 2] = n + 1 + (r - l)
  <2>1. n + 2 \in 1 .. n + 2 /\ i < n + 2
    OBVIOUS
  <2> QED
    BY <1>3, <2>1
<1>6. ASSUME NEW x \in 1 .. n + 2 PROVE at[x] \in Nat
  <2>1. CASE x = n + 2
    BY <1>5, <2>1
  <2>2. CASE x \in 1 .. n + 1
    BY <1>4, <2>2
  <2> QED
    BY <2>1, <2>2
<1>7. at \in [1 .. n + 2 -> Nat]
  BY <1>2, <1>6
<1>8. at[1] = 1 /\ at[i] = i
  BY <1>4
<1>9. \A x \in 1 .. n : x # i => at[x + 1] = at[x] + 1
  <2> SUFFICES ASSUME NEW x \in 1 .. n, x # i PROVE at[x + 1] = at[x] + 1
    OBVIOUS
  <2>1. x \in 1 .. n + 1 /\ x + 1 \in 1 .. n + 1 /\ x \in Int
    OBVIOUS
  <2>2. i < x + 1 <=> i < x
    BY <1>1
  <2> QED
    BY <1>1, <1>4, <2>1, <2>2
<1>10. \A x \in 1 .. n : at[x + 1] - 1 = NewPlace(i, r, l, x)
  <2> SUFFICES ASSUME NEW x \in 1 .. n PROVE at[x + 1] - 1 = NewPlace(i, r, l, x)
    OBVIOUS
  <2>1. x + 1 \in 1 .. n + 1 /\ x \in Int
    OBVIOUS
  <2>2. i < x + 1 <=> ~ (x < i)
    BY <1>1, <2>1
  <2>3. at[x + 1] = IF i < x + 1 THEN x + 1 + r - l ELSE x + 1
    BY <1>4, <2>1
  <2> QED
    BY <1>1, <2>1, <2>2, <2>3 DEF NewPlace
<1>11. i \in 1 .. n => at[i + 1] = i + r + (1 - l)
  BY <1>1, <1>4
<1>12. i = n + 1 => at[i + 1] = i + r
  <2>1. i = n + 1 => l = 0 /\ i + 1 = n + 2
    OBVIOUS
  <2> QED
    BY <1>1, <1>5, <2>1
<1>13. i # n + 1 => at[n + 2] = at[n + 1]
  <2>1. n + 1 \in 1 .. n + 1 /\ (i # n + 1 => i < n + 1)
    OBVIOUS
  <2> QED
    BY <1>1, <1>4, <1>5, <2>1
<1> QED
  <2>1. Stepwise(at, n, i, r, l)
    <3> HIDE DEF at
    <3>1. at[n + 2] = n + r - l + 1
      BY <1>1, <1>5
    <3> QED
      BY <1>7, <1>8, <1>9, <1>10, <1>11, <1>12, <1>13, <3>1 DEF Stepwise
  <2> QED
    BY <2>1

\* The slots of one edit.
LEMMA OneEditSettles ==
  ASSUME NEW p, NEW q, NEW ids, NEW i, NEW r, NEW l, OneEdit(p, q, ids, i, r, l),
         WellFormed(p), WellFormed(q)
  PROVE  Settled(p, q, ids, Slots(Len(p.chunks), i, r, l), Left(Len(p.chunks), i, l))
<1> DEFINE n == Len(p.chunks)
           at == Slots(n, i, r, l)
           kept == Left(n, i, l)
<1>1. /\ n \in Nat /\ i \in 1 .. n + 1 /\ r \in {0, 1} /\ l \in {0, 1}
      /\ l = 1 => i \in 1 .. n
      /\ Len(q.chunks) = n + r - l
      /\ r = 1 => q.chunks[i].kind = "record" /\ q.chunks[i].id \in ids
      /\ l = 1 => p.chunks[i].kind = "record" /\ p.chunks[i].id \in ids
      /\ \A x \in 1 .. n : x # i \/ l = 0 =>
           /\ SameEntry(p.chunks[x], q.chunks[NewPlace(i, r, l, x)])
           /\ p.chunks[x].kind = "record" => p.chunks[x].id \notin ids
  BY ChunksStartInOrder DEF OneEdit
<1> HIDE DEF n
<1>2. /\ at \in [1 .. n + 2 -> Nat]
      /\ at[1] = 1 /\ at[n + 2] = n + r - l + 1
      /\ \A x \in 1 .. n : x # i => at[x + 1] = at[x] + 1
      /\ at[i] = i
      /\ i \in 1 .. n => at[i + 1] = i + r + (1 - l)
      /\ i = n + 1 => at[i + 1] = i + r
      /\ i # n + 1 => at[n + 2] = at[n + 1]
      /\ \A x \in 1 .. n : at[x + 1] - 1 = NewPlace(i, r, l, x)
  <2>1. Stepwise(Slots(n, i, r, l), n, i, r, l)
    BY <1>1, SlotPlaces
  <2>2. Stepwise(at, n, i, r, l)
    BY <2>1
  <2> HIDE DEF at
  <2> QED
    BY <2>2 DEF Stepwise
<1>3. \A x : x \in kept <=> x \in 1 .. n /\ (x # i \/ l = 0)
  BY DEF Left
<1> HIDE DEF at, kept
<1>4. ASSUME NEW x \in 1 .. n + 1
      PROVE  /\ at[x] \in Nat /\ at[x + 1] \in Nat /\ at[x] <= at[x + 1]
             /\ x \in kept => at[x] < at[x + 1]
  <2>1. x \in 1 .. n + 2 /\ x + 1 \in 1 .. n + 2
    BY <1>1
  <2>2. at[x] \in Nat /\ at[x + 1] \in Nat
    BY <1>2, <2>1
  <2>3. CASE x # i /\ x \in 1 .. n
    BY <1>2, <2>2, <2>3
  <2>4. CASE x = i /\ x \in 1 .. n
    <3>1. at[x] = i /\ at[x + 1] = i + r + (1 - l)
      BY <1>2, <2>4
    <3>2. r \in Int /\ l \in {0, 1} /\ i \in Int /\ 0 <= r /\ (x \in kept => l = 0)
      BY <1>1, <1>3, <2>4
    <3> QED
      BY <2>2, <3>1, <3>2
  <2>5. CASE x = n + 1
    <3>1. x \notin kept
      BY <1>1, <1>3, <2>5
    <3>2. x + 1 = n + 2
      BY <1>1, <2>5
    <3>3. CASE i = n + 1
      BY <1>1, <1>2, <2>2, <2>5, <3>1, <3>3
    <3>4. CASE i # n + 1
      <4>1. at[x + 1] = at[x]
        BY <1>2, <2>5, <3>2, <3>4
      <4> QED
        BY <2>2, <3>1, <4>1
    <3> QED
      BY <3>3, <3>4
  <2>6. x = n + 1 \/ x \in 1 .. n
    BY <1>1
  <2> QED
    BY <2>3, <2>4, <2>5, <2>6
<1>5. ASSUME NEW x \in kept
      PROVE  /\ SameEntry(p.chunks[x], q.chunks[at[x + 1] - 1])
             /\ p.chunks[x].kind = "record" => p.chunks[x].id \notin ids
  BY <1>1, <1>2, <1>3
<1>6. ASSUME NEW x \in 1 .. n + 1, NEW k \in Nat, at[x] <= k, k < at[x + 1],
             x \in kept => k # at[x + 1] - 1
      PROVE  q.chunks[k].kind = "record" /\ q.chunks[k].id \in ids
  <2>1. at[x] \in Nat /\ at[x + 1] \in Nat
    BY <1>4
  <2>2. x = i
    <3> SUFFICES ASSUME x # i PROVE FALSE
      OBVIOUS
    <3>1. CASE x \in 1 .. n
      BY <1>2, <1>3, <1>6, <2>1, <3>1
    <3>2. CASE x = n + 1
      <4>1. x + 1 = n + 2
        BY <1>1, <3>2
      <4>2. at[x + 1] = at[x]
        BY <1>2, <3>2, <4>1
      <4> QED
        BY <1>6, <2>1, <4>2
    <3> QED
      BY <1>1, <3>1, <3>2
  <2>3. k = i /\ r = 1
    <3>1. i \in Int
      BY <1>1
    <3>2. CASE i \in 1 .. n
      <4>1. at[x] = i /\ at[x + 1] = i + r + (1 - l)
        BY <1>2, <2>2, <3>2
      <4>2. r \in {0, 1} /\ l \in {0, 1} /\ (x \in kept <=> l = 0)
        BY <1>1, <1>3, <2>2, <3>2
      <4> QED
        BY <1>6, <3>1, <4>1, <4>2
    <3>3. CASE i = n + 1
      BY <1>1, <1>2, <1>6, <2>2, <3>1, <3>3
    <3> QED
      BY <1>1, <3>2, <3>3
  <2> QED
    BY <1>1, <2>3
<1>7. kept \subseteq 1 .. n
  BY <1>3
<1>8. \A x \in 1 .. n : x \notin kept => p.chunks[x].kind = "record" /\ p.chunks[x].id \in ids
  BY <1>1, <1>3
<1>9. at[n + 2] = Len(q.chunks) + 1
  BY <1>1, <1>2
<1>10. Settled(p, q, ids, at, kept)
  <2>1. at \in [1 .. Len(p.chunks) + 2 -> Nat] /\ at[1] = 1 /\ at[Len(p.chunks) + 2] = Len(q.chunks) + 1
    BY <1>2, <1>9 DEF n
  <2>2. \A x \in 1 .. Len(p.chunks) + 1 : at[x] <= at[x + 1]
    BY <1>4 DEF n
  <2>3. /\ kept \subseteq 1 .. Len(p.chunks)
        /\ \A x \in 1 .. Len(p.chunks) :
             x \notin kept => p.chunks[x].kind = "record" /\ p.chunks[x].id \in ids
    BY <1>7, <1>8 DEF n
  <2>4. \A x \in kept : at[x] < at[x + 1]
    <3>1. \A x \in kept : x \in 1 .. n + 1
      BY <1>1, <1>3
    <3> QED
      BY <1>4, <3>1
  <2>5. \A x \in 1 .. Len(p.chunks) + 1 : \A k \in Nat :
          /\ at[x] <= k /\ k < at[x + 1]
          /\ x \in kept => k # at[x + 1] - 1
          => q.chunks[k].kind = "record" /\ q.chunks[k].id \in ids
    BY <1>6 DEF n
  <2> QED
    BY <1>5, <2>1, <2>2, <2>3, <2>4, <2>5 DEF Settled
<1> QED
  BY <1>10 DEF at, kept, n

\* The sum of one number.
LEMMA SumOfOne ==
  ASSUME NEW f, NEW S, f[1] \in Int
  PROVE  SumOver(1, f, S) = IF 1 \in S THEN f[1] ELSE 0
<1> DEFINE x == IF 1 \in S THEN f[1] ELSE 0
           a == [j \in 1 .. 1 |-> IF j \in S THEN f[j] ELSE 0]
           b == [j \in 1 .. 1 |-> IF j = 1 THEN x ELSE 0]
<1>1. x \in Int
  OBVIOUS
<1>2. a = b
  <2>1. \A j \in 1 .. 1 : j = 1
    OBVIOUS
  <2> QED
    BY <2>1
<1>3. Total(b) = x
  <2>1. 1 \in Nat /\ 1 \in 1 .. 1
    OBVIOUS
  <2>2. \A m \in Nat : \A j \in 1 .. m : \A y \in Int :
          Total([k \in 1 .. m |-> IF k = j THEN y ELSE 0]) = y
    BY TotalOfOne
  <2> HIDE DEF x
  <2> QED
    BY <1>1, <2>1, <2>2
<1>4. SumOver(1, f, S) = Total(a)
  BY DEF SumOver
<1> QED
  BY <1>2, <1>3, <1>4

\* The one edit, as a list of edits.
Lone(x) == [j \in 1 .. 1 |-> x]

\* Its slots are as long as the chunks and the edit make them.
LEMMA OneEditMeasures ==
  ASSUME NEW p, NEW q, NEW ids, NEW i, NEW r, NEW l, OneEdit(p, q, ids, i, r, l),
         WellFormed(p), WellFormed(q)
  PROVE  /\ Gained(q, i, r) \in Nat /\ Lost(p, i, l) \in Nat
         /\ Measured(p, q, Slots(Len(p.chunks), i, r, l), Left(Len(p.chunks), i, l),
                     1, Lone(i), Lone(Gained(q, i, r)), Lone(Lost(p, i, l)))
<1> DEFINE n == Len(p.chunks)
           at == Slots(n, i, r, l)
           kept == Left(n, i, l)
           gain == Gained(q, i, r)
           loss == Lost(p, i, l)
<1>1. /\ n \in Nat /\ i \in 1 .. n + 1 /\ r \in {0, 1} /\ l \in {0, 1}
      /\ l = 1 => i \in 1 .. n
      /\ Len(q.chunks) = n + r - l
      /\ r = 1 => q.chunks[i].kind = "record" /\ q.chunks[i].id \in ids
      /\ l = 1 => p.chunks[i].kind = "record" /\ p.chunks[i].id \in ids
      /\ \A x \in 1 .. n : x # i \/ l = 0 =>
           SameEntry(p.chunks[x], q.chunks[NewPlace(i, r, l, x)])
  BY ChunksStartInOrder DEF OneEdit
<1>2. /\ \A k \in 1 .. Len(q.chunks) + 1 : Start(q, k) \in Nat
      /\ \A k \in 1 .. Len(q.chunks) : Start(q, k + 1) = Start(q, k) + OwnSize(q.chunks[k])
  BY ChunksStartInOrder
<1>3. /\ \A k \in 1 .. Len(q.chunks) : OwnSize(q.chunks[k]) \in Nat
      /\ \A k \in 1 .. n : OwnSize(p.chunks[k]) \in Nat
  BY ChunkTypes
<1> HIDE DEF n
<1>4. Stepwise(at, n, i, r, l)
  BY <1>1, SlotPlaces
<1>5. \A x : x \in kept <=> x \in 1 .. n /\ (x # i \/ l = 0)
  BY DEF Left
<1> HIDE DEF at, kept
<1>6. /\ \A x \in 1 .. n : x # i => at[x + 1] = at[x] + 1
      /\ at[i] = i
      /\ i \in 1 .. n => at[i + 1] = i + r + (1 - l)
      /\ i = n + 1 => at[i + 1] = i + r
      /\ i # n + 1 => at[n + 2] = at[n + 1]
      /\ \A x \in 1 .. n : at[x + 1] - 1 = NewPlace(i, r, l, x)
      /\ \A x \in 1 .. n + 2 : at[x] \in Nat
  BY <1>4 DEF Stepwise
<1>7. \A c, d : SameEntry(c, d) => OwnSize(d) = OwnSize(c)
  BY DEF SameEntry, OwnSize, RecordSize
<1>8. /\ gain \in Nat /\ loss \in Nat
      /\ r = 1 => i \in 1 .. Len(q.chunks) /\ gain = OwnSize(q.chunks[i])
      /\ l = 1 => loss = OwnSize(p.chunks[i])
      /\ (r = 0 => gain = 0) /\ (l = 0 => loss = 0)
  <2>1. r = 1 => i \in 1 .. Len(q.chunks) /\ gain = OwnSize(q.chunks[i])
    BY <1>1 DEF Gained, OwnSize
  <2>2. l = 1 => loss = OwnSize(p.chunks[i])
    BY <1>1 DEF Lost, OwnSize
  <2>3. (r = 0 => gain = 0) /\ (l = 0 => loss = 0)
    BY DEF Gained, Lost
  <2> HIDE DEF gain, loss
  <2> QED
    BY <1>1, <1>3, <2>1, <2>2, <2>3
<1>9. Start(q, i + r) - Start(q, i) = gain
  <2>1. i \in 1 .. Len(q.chunks) + 1 /\ i \in Int
    BY <1>1
  <2>2. Start(q, i) \in Nat
    BY <1>2, <2>1
  <2>3. CASE r = 0
    <3>1. i + r = i
      BY <2>1, <2>3
    <3> QED
      BY <1>8, <2>2, <2>3, <3>1
  <2>4. CASE r = 1
    <3>1. Start(q, i + 1) = Start(q, i) + OwnSize(q.chunks[i]) /\ OwnSize(q.chunks[i]) \in Nat
      BY <1>2, <1>3, <1>8, <2>4
    <3>2. gain = OwnSize(q.chunks[i])
      BY <1>8, <2>4
    <3> HIDE DEF gain
    <3> QED
      BY <2>2, <2>4, <3>1, <3>2
  <2> QED
    BY <1>1, <2>3, <2>4
<1>10. ASSUME NEW f, f[1] \in Int, NEW x
       PROVE  SumOver(1, f, At(1, Lone(i), x)) = IF x = i THEN f[1] ELSE 0
  <2>1. 1 \in At(1, Lone(i), x) <=> x = i
    BY DEF At, Lone
  <2> QED
    BY <1>10, <2>1, SumOfOne
<1>11. /\ Lone(gain)[1] = gain
       /\ Difference(1, Lone(gain), Lone(loss))[1] = gain - loss
  BY DEF Lone, Difference
<1>12. ASSUME NEW x
       PROVE  /\ SumOver(1, Lone(gain), At(1, Lone(i), x)) = IF x = i THEN gain ELSE 0
              /\ SumOver(1, Difference(1, Lone(gain), Lone(loss)), At(1, Lone(i), x))
                   = IF x = i THEN gain - loss ELSE 0
  <2>1. gain \in Int /\ gain - loss \in Int
    BY <1>8
  <2> HIDE DEF gain, loss
  <2> QED
    BY <1>10, <1>11, <2>1
<1> HIDE DEF gain, loss
<1>13. ASSUME NEW x \in 1 .. n, x # i
       PROVE  Start(q, at[x + 1]) - Start(q, at[x]) = OwnSize(p.chunks[x])
  <2>1. at[x] = NewPlace(i, r, l, x) /\ at[x + 1] = at[x] + 1
    <3>1. at[x + 1] - 1 = NewPlace(i, r, l, x) /\ at[x + 1] = at[x] + 1
      BY <1>6, <1>13
    <3>2. at[x] \in Nat
      BY <1>1, <1>6
    <3> QED
      BY <3>1, <3>2
  <2>2. at[x] \in 1 .. Len(q.chunks)
    BY <1>1, <1>13, <2>1 DEF NewPlace
  <2>3. OwnSize(q.chunks[at[x]]) = OwnSize(p.chunks[x])
    BY <1>1, <1>7, <1>13, <2>1
  <2>4. /\ Start(q, at[x] + 1) = Start(q, at[x]) + OwnSize(q.chunks[at[x]])
        /\ OwnSize(q.chunks[at[x]]) \in Nat /\ Start(q, at[x]) \in Nat
    <3> DEFINE k == at[x]
    <3>1. k \in 1 .. Len(q.chunks) + 1 /\ k \in 1 .. Len(q.chunks)
      BY <1>1, <2>2
    <3> HIDE DEF k
    <3>2. Start(q, k + 1) = Start(q, k) + OwnSize(q.chunks[k]) /\ OwnSize(q.chunks[k]) \in Nat
      BY <1>2, <1>3, <3>1
    <3>3. Start(q, k) \in Nat
      BY <1>2, <3>1
    <3> QED
      BY <3>2, <3>3 DEF k
  <2> QED
    BY <2>1, <2>3, <2>4
<1>14. ASSUME NEW x \in 1 .. n
       PROVE  Start(q, at[x + 1]) - Start(q, at[x])
                = OwnSize(p.chunks[x]) + (IF x = i THEN gain - loss ELSE 0)
  <2>1. CASE x # i
    <3>1. OwnSize(p.chunks[x]) \in Nat
      BY <1>3
    <3> QED
      BY <1>13, <2>1, <3>1
  <2>2. CASE x = i
    <3>1. at[x] = i /\ at[x + 1] = i + r + (1 - l)
      BY <1>6, <2>2
    <3>2. CASE l = 1
      <4>1. at[x + 1] = i + r
        BY <1>1, <3>1, <3>2
      <4>2. loss = OwnSize(p.chunks[x])
        BY <1>8, <2>2, <3>2
      <4> QED
        BY <1>8, <1>9, <2>2, <3>1, <4>1, <4>2
    <3>3. CASE l = 0
      <4>1. at[x + 1] = i + r + 1 /\ i + r \in 1 .. Len(q.chunks) /\ NewPlace(i, r, l, x) = i + r
        BY <1>1, <2>2, <3>1, <3>3 DEF NewPlace
      <4>2. /\ Start(q, (i + r) + 1) = Start(q, i + r) + OwnSize(q.chunks[i + r])
            /\ OwnSize(q.chunks[i + r]) \in Nat /\ Start(q, i + r) \in Nat
        BY <1>1, <1>2, <1>3, <4>1
      <4>3. OwnSize(q.chunks[i + r]) = OwnSize(p.chunks[x])
        BY <1>1, <1>7, <3>3, <4>1
      <4>4. Start(q, i) \in Nat /\ gain \in Nat /\ loss = 0
        BY <1>1, <1>2, <1>8, <3>3
      <4> HIDE DEF n
      <4>5. Start(q, at[x + 1]) = Start(q, i + r) + OwnSize(p.chunks[x]) /\ Start(q, at[x]) = Start(q, i)
        BY <3>1, <4>1, <4>2, <4>3
      <4> DEFINE u == Start(q, at[x + 1])
                 v == Start(q, i + r)
                 w == Start(q, i)
                 o == OwnSize(p.chunks[x])
      <4>6. v \in Nat /\ w \in Nat /\ o \in Nat /\ u = v + o /\ v - w = gain /\ Start(q, at[x]) = w
        BY <1>9, <4>2, <4>3, <4>4, <4>5
      <4> HIDE DEF u, v, w, o
      <4>7. u - w = o + (gain - loss)
        BY <4>4, <4>6
      <4> QED
        BY <2>2, <4>6, <4>7 DEF u, o
    <3> QED
      BY <1>1, <3>2, <3>3
  <2> QED
    BY <2>1, <2>2
<1>15. ASSUME NEW x \in 1 .. n + 1
       PROVE  Start(q, InsertedEnd(at, kept, x)) - Start(q, at[x]) = IF x = i THEN gain ELSE 0
  <2>1. CASE x = i
    <3>1. at[x] = i
      BY <1>6, <2>1
    <3>2. InsertedEnd(at, kept, x) = i + r
      <4>1. CASE x \in kept
        BY <1>1, <1>5, <1>6, <2>1, <4>1 DEF InsertedEnd
      <4>2. CASE x \notin kept /\ x \in 1 .. n
        <5>1. l = 1 /\ at[i + 1] = i + r + (1 - l) /\ InsertedEnd(at, kept, x) = at[i + 1]
          BY <1>1, <1>5, <1>6, <2>1, <4>2 DEF InsertedEnd
        <5>2. r \in Int /\ i \in Int
          BY <1>1
        <5> QED
          BY <5>1, <5>2
      <4>3. CASE x = n + 1
        BY <1>1, <1>5, <1>6, <2>1, <4>3 DEF InsertedEnd
      <4> QED
        BY <1>1, <4>1, <4>2, <4>3
    <3> QED
      BY <1>9, <2>1, <3>1, <3>2
  <2>2. CASE x # i
    <3>1. InsertedEnd(at, kept, x) = at[x]
      <4>1. CASE x \in 1 .. n
        <5>1. at[x] \in Nat /\ at[x + 1] = at[x] + 1 /\ x \in kept
          <6>1. x \in 1 .. n + 2
            BY <1>1
          <6> QED
            BY <1>5, <1>6, <2>2, <4>1, <6>1
        <5> QED
          BY <5>1 DEF InsertedEnd
      <4>2. CASE x = n + 1
        <5>1. x \notin kept /\ x + 1 = n + 2 /\ i # n + 1
          BY <1>1, <1>5, <2>2, <4>2
        <5> QED
          BY <1>6, <4>2, <5>1 DEF InsertedEnd
      <4> QED
        BY <1>1, <4>1, <4>2
    <3>2. at[x] \in 1 .. Len(q.chunks) + 1
      <4>1. CASE x \in 1 .. n
        <5>1. at[x + 1] - 1 = NewPlace(i, r, l, x) /\ at[x + 1] = at[x] + 1 /\ at[x] \in Nat
          BY <1>1, <1>6, <2>2, <4>1
        <5> QED
          BY <1>1, <2>2, <4>1, <5>1 DEF NewPlace
      <4>2. CASE x = n + 1
        <5>1. at[x] = n + r - l + 1
          BY <1>4, <1>6, <2>2, <4>2 DEF Stepwise
        <5> QED
          BY <1>1, <2>2, <4>2, <5>1
      <4> QED
        BY <1>1, <4>1, <4>2
    <3>3. Start(q, at[x]) \in Nat
      BY <1>2, <3>2
    <3> QED
      BY <2>2, <3>1, <3>3
  <2> QED
    BY <2>1, <2>2
<1>16. Measured(p, q, at, kept, 1, Lone(i), Lone(gain), Lone(loss))
  BY <1>12, <1>14, <1>15 DEF Measured, n
<1> QED
  BY <1>8, <1>16 DEF at, kept, gain, loss, n

\* With the groups around it, it is an edit like others.
LEMMA OneEditIsEdited ==
  ASSUME NEW p, NEW q, NEW ids, NEW i, NEW r, NEW l, OneEdit(p, q, ids, i, r, l),
         NEW grown, GroupsGrow(p, q, i, r, l, grown),
         WellFormed(p), Scans(p), WellFormed(q)
  PROVE  IsEdited(p, q, ids, Slots(Len(p.chunks), i, r, l), Left(Len(p.chunks), i, l),
                  1, Lone(i), Lone(Gained(q, i, r)), Lone(Lost(p, i, l)), Lone(grown))
<1> DEFINE n == Len(p.chunks)
           at == Slots(n, i, r, l)
           kept == Left(n, i, l)
           gain == Gained(q, i, r)
           loss == Lost(p, i, l)
<1>1. /\ Settled(p, q, ids, at, kept)
      /\ Measured(p, q, at, kept, 1, Lone(i), Lone(gain), Lone(loss))
      /\ gain \in Nat /\ loss \in Nat
  BY OneEditSettles, OneEditMeasures
<1>2. n \in Nat /\ i \in 1 .. n + 1 /\ (l = 0 => loss = 0)
  BY ChunksStartInOrder DEF OneEdit, Lost
<1>3. \A g \in Groups(p) : g \in 1 .. n
  BY ChunksStartInOrder DEF Groups
<1>4. \A x \in 1 .. n : at[x + 1] - 1 = NewPlace(i, r, l, x)
  <2>1. /\ i \in 1 .. n + 1 /\ r \in {0, 1} /\ l \in {0, 1} /\ (l = 1 => i \in 1 .. n)
    BY DEF OneEdit
  <2>2. Stepwise(at, n, i, r, l)
    BY <1>2, <2>1, SlotPlaces
  <2> HIDE DEF at
  <2> QED
    BY <2>2 DEF Stepwise
<1> HIDE DEF at, kept, gain, loss
<1>5. Resized(p, q, at, 1, Lone(i), Lone(gain), Lone(loss), Lone(grown))
  <2>1. ASSUME NEW g \in Groups(p)
        PROVE  /\ g < i /\ Start(p, i) < End(p, g) => g \in grown
               /\ g \in grown => /\ g < i /\ Start(p, i) <= End(p, g)
                                 /\ Start(p, i) = End(p, g) => loss = 0
               /\ q.chunks[at[g + 1] - 1].size
                    = p.chunks[g].size + (IF g \in grown THEN gain - loss ELSE 0)
    BY <1>2, <1>3, <1>4 DEF GroupsGrow, gain, loss
  <2>2. ASSUME NEW g
        PROVE  SumOver(1, Difference(1, Lone(gain), Lone(loss)), {j \in 1 .. 1 : g \in Lone(grown)[j]})
                 = IF g \in grown THEN gain - loss ELSE 0
    <3> DEFINE d == Difference(1, Lone(gain), Lone(loss))
               S == {j \in 1 .. 1 : g \in Lone(grown)[j]}
    <3>1. d[1] = gain - loss
      BY DEF Lone, Difference
    <3>2. 1 \in S <=> g \in grown
      BY DEF Lone
    <3> HIDE DEF d, S
    <3>3. SumOver(1, d, S) = IF 1 \in S THEN d[1] ELSE 0
      BY <1>1, <3>1, SumOfOne
    <3> QED
      BY <3>1, <3>2, <3>3 DEF d, S
  <2>3. \A j \in 1 .. 1 : Lone(i)[j] = i /\ Lone(grown)[j] = grown /\ Lone(loss)[j] = loss
    BY DEF Lone
  <2> QED
    BY <2>1, <2>2, <2>3 DEF Resized
<1>6. /\ 1 \in Nat /\ Lone(i) \in [1 .. 1 -> 1 .. Len(p.chunks) + 1]
      /\ Lone(gain) \in [1 .. 1 -> Nat] /\ Lone(loss) \in [1 .. 1 -> Nat]
  BY <1>1, <1>2 DEF Lone
<1>7. IsEdited(p, q, ids, at, kept, 1, Lone(i), Lone(gain), Lone(loss), Lone(grown))
  BY <1>1, <1>5, <1>6 DEF IsEdited
<1> QED
  BY <1>7 DEF at, kept, gain, loss

\* An edit of one record that makes the groups around it grow keeps the rest.
LEMMA OneEditKeepsTheRest ==
  ASSUME NEW p, NEW q, NEW ids, NEW i, NEW r, NEW l, OneEdit(p, q, ids, i, r, l),
         NEW grown, GroupsGrow(p, q, i, r, l, grown),
         WellFormed(p), Scans(p), WellFormed(q)
  PROVE  KeepsTheRest(p, q, ids)
<1> DEFINE at == Slots(Len(p.chunks), i, r, l)
           kept == Left(Len(p.chunks), i, l)
           gain == Gained(q, i, r)
           loss == Lost(p, i, l)
<1>1. IsEdited(p, q, ids, at, kept, 1, Lone(i), Lone(gain), Lone(loss), Lone(grown))
  BY OneEditIsEdited
<1> HIDE DEF at, kept, gain, loss
<1>2. Settled(p, q, ids, at, kept)
  BY <1>1 DEF IsEdited
<1>3. GroupsFit(p, q, at, kept)
  BY <1>1, EditsFit DEF IsEdited
<1> QED
  BY <1>2, <1>3, SettledKeepsTheRest

(***************************************************************************)
(* The calls that edit one record.                                         *)
(***************************************************************************)

\* Where every record has an id of its own, an id has one record.
LEMMA IdsAreUnique ==
  ASSUME NEW p, Opens(p)
  PROVE  \A i, j \in Records(p) : p.chunks[i].id = p.chunks[j].id => i = j
<1> DEFINE f == [i \in Records(p) |-> p.chunks[i].id]
<1>1. f \in Surjection(Records(p), Ids(p))
  BY DEF Ids, Surjection
<1>2. IsFiniteSet(Records(p)) /\ Cardinality(Ids(p)) = Cardinality(Records(p))
  BY RecordsAreFinite DEF Opens, Indexes
<1>3. f \in Injection(Records(p), Ids(p))
  BY <1>1, <1>2, FS_Surjection
<1> QED
  BY <1>3 DEF Injection, IsInjective

\* IndexOf finds the one record that has the id.
LEMMA IndexOfARecord ==
  ASSUME NEW p, Opens(p), NEW id \in Ids(p)
  PROVE  /\ IndexOf(p, id) \in 1 .. Len(p.chunks)
         /\ p.chunks[IndexOf(p, id)].kind = "record"
         /\ p.chunks[IndexOf(p, id)].id = id
         /\ \A x \in 1 .. Len(p.chunks) :
              p.chunks[x].kind = "record" /\ p.chunks[x].id = id => x = IndexOf(p, id)
<1>1. \E i \in Records(p) : p.chunks[i].id = id
  BY DEF Ids
<1>2. IndexOf(p, id) \in Records(p) /\ p.chunks[IndexOf(p, id)].id = id
  BY <1>1 DEF IndexOf
<1>3. \A x : x \in Records(p) <=> x \in 1 .. Len(p.chunks) /\ p.chunks[x].kind = "record"
  BY RecordsAreFinite DEF Records
<1> QED
  BY <1>2, <1>3, IdsAreUnique

\* A chunk with the new size.
LEMMA ResizedChunks ==
  ASSUME NEW p, WellFormed(p), NEW groups, groups \subseteq Groups(p), NEW delta \in Int
  PROVE  /\ DOMAIN Resize(p, groups, delta) = 1 .. Len(p.chunks)
         /\ \A x \in 1 .. Len(p.chunks) :
              /\ SameEntry(p.chunks[x], Resize(p, groups, delta)[x])
              /\ p.chunks[x].kind = "record" => Resize(p, groups, delta)[x] = p.chunks[x]
              /\ p.chunks[x].kind = "group" =>
                   Resize(p, groups, delta)[x].size
                     = p.chunks[x].size + (IF x \in groups THEN delta ELSE 0)
<1>1. DOMAIN p.chunks = 1 .. Len(p.chunks)
  BY ChunksStartInOrder
<1>2. ASSUME NEW x \in 1 .. Len(p.chunks)
      PROVE  LET c == p.chunks[x] IN
             Resize(p, groups, delta)[x] = IF x \in groups THEN [c EXCEPT !.size = @ + delta] ELSE c
  BY <1>1 DEF Resize
<1>3. ASSUME NEW c, IsGroup(c)
      PROVE  LET d == [c EXCEPT !.size = @ + delta] IN
             /\ d.kind = "group" /\ d.type = c.type /\ d.label = c.label
             /\ d.size = c.size + delta /\ c.size + 0 = c.size
  BY <1>3 DEF IsGroup
<1>4. ASSUME NEW x \in 1 .. Len(p.chunks)
      PROVE  IsRecord(p.chunks[x]) \/ IsGroup(p.chunks[x])
  BY <1>1 DEF WellFormed
<1>5. ASSUME NEW x \in 1 .. Len(p.chunks), IsGroup(p.chunks[x])
      PROVE  LET d == Resize(p, groups, delta)[x] IN
             /\ p.chunks[x].kind = "group" /\ SameEntry(p.chunks[x], d)
             /\ d.size = p.chunks[x].size + (IF x \in groups THEN delta ELSE 0)
  <2> DEFINE c == p.chunks[x]
             e == [c EXCEPT !.size = @ + delta]
  <2>1. /\ e.kind = "group" /\ e.type = c.type /\ e.label = c.label
        /\ e.size = c.size + delta /\ c.size + 0 = c.size /\ c.kind = "group"
    BY <1>3, <1>5 DEF IsGroup
  <2>2. Resize(p, groups, delta)[x] = IF x \in groups THEN e ELSE c
    BY <1>2
  <2> HIDE DEF c, e
  <2>3. /\ c.kind = "group" /\ SameEntry(c, Resize(p, groups, delta)[x])
        /\ Resize(p, groups, delta)[x].size = c.size + (IF x \in groups THEN delta ELSE 0)
    BY <2>1, <2>2 DEF SameEntry
  <2> QED
    BY <2>3 DEF c
<1>6. ASSUME NEW x \in 1 .. Len(p.chunks), IsRecord(p.chunks[x])
      PROVE  /\ p.chunks[x].kind = "record" /\ Resize(p, groups, delta)[x] = p.chunks[x]
             /\ SameEntry(p.chunks[x], p.chunks[x])
  <2>1. p.chunks[x].kind = "record"
    BY <1>6 DEF IsRecord
  <2>2. x \notin groups
    BY <2>1 DEF Groups
  <2> QED
    BY <1>2, <2>1, <2>2 DEF SameEntry
<1>7. DOMAIN Resize(p, groups, delta) = 1 .. Len(p.chunks)
  BY <1>1 DEF Resize
<1> QED
  BY <1>4, <1>5, <1>6, <1>7

\* The groups around an entry are those that its edit resizes.
LEMMA ContainingGroupsGrow ==
  ASSUME NEW p, WellFormed(p), Scans(p), NEW i \in 1 .. Len(p.chunks) + 1,
         NEW to \in {Start(p, i), IF i \in 1 .. Len(p.chunks) THEN End(p, i) ELSE Start(p, i)},
         NEW grown, grown = ContainingGroups(p, Start(p, i), to), NEW g \in Groups(p)
  PROVE  /\ g < i /\ Start(p, i) < End(p, g) => g \in grown
         /\ g \in grown => /\ g < i /\ Start(p, i) <= End(p, g)
                           /\ to # Start(p, i) => Start(p, i) < End(p, g)
<1>1. /\ Len(p.chunks) \in Nat
      /\ \A j \in 1 .. Len(p.chunks) + 1 : Start(p, j) \in Nat
      /\ \A j, k \in 1 .. Len(p.chunks) + 1 : j < k <=> Start(p, j) < Start(p, k)
      /\ DOMAIN p.chunks = 1 .. Len(p.chunks)
  BY ChunksStartInOrder
<1>2. g \in 1 .. Len(p.chunks) /\ g \in 1 .. Len(p.chunks) + 1
  BY <1>1 DEF Groups
<1>3. Start(p, g) \in Nat /\ Start(p, i) \in Nat /\ End(p, g) \in Nat
  BY <1>1, <1>2, ChunksEnd
<1>4. g < i <=> Start(p, g) + GroupHeaderSize <= Start(p, i)
  <2>1. g < i <=> Start(p, g) < Start(p, i)
    BY <1>1, <1>2
  <2> QED
    BY <1>3, <2>1 DEF GroupHeaderSize
<1>5. /\ to \in Nat /\ Start(p, i) <= to
      /\ g < i /\ Start(p, i) < End(p, g) => to <= End(p, g)
  <2>1. CASE to = Start(p, i)
    BY <1>3, <2>1
  <2>2. CASE to # Start(p, i)
    <3>1. i \in 1 .. Len(p.chunks) /\ to = End(p, i)
      BY <2>2
    <3>2. End(p, i) = Start(p, i) + Span(p.chunks[i]) /\ Span(p.chunks[i]) \in Nat
      BY <3>1, ChunkTypes DEF End
    <3>3. Start(p, g) < Start(p, i) /\ Start(p, i) < End(p, g) => End(p, i) <= End(p, g)
      BY <1>1, <3>1 DEF Scans, Start, End
    <3>4. g < i => Start(p, g) < Start(p, i)
      BY <1>1, <1>2
    <3> QED
      BY <1>3, <3>1, <3>2, <3>3, <3>4
  <2> QED
    BY <2>1, <2>2
<1>6. g \in grown <=> Start(p, g) + GroupHeaderSize <= Start(p, i) /\ End(p, g) >= to
  BY DEF ContainingGroups
<1> QED
  BY <1>3, <1>4, <1>5, <1>6

\* replace_record_payload is such an edit ...
LEMMA ReplacedIsOneEdit ==
  ASSUME NEW p, Opens(p), NEW id \in Ids(p), NEW payload \in Nat,
         WellFormed(Replaced(p, id, payload))
  PROVE  LET q == Replaced(p, id, payload)
             i == IndexOf(p, id)
         IN /\ OneEdit(p, q, {id}, i, 1, 1)
            /\ GroupsGrow(p, q, i, 1, 1, ContainingGroups(p, Start(p, i), End(p, i)))
            /\ i \in 1 .. Len(q.chunks) /\ q.chunks[i] = Record(id, payload)
<1> DEFINE q == Replaced(p, id, payload)
           n == Len(p.chunks)
           i == IndexOf(p, id)
           grown == ContainingGroups(p, Start(p, i), End(p, i))
           delta == payload - p.chunks[i].payload
           chunks == Resize(p, grown, delta)
<1>1. WellFormed(p) /\ Scans(p)
  BY DEF Opens, Indexes
<1>2. /\ i \in 1 .. n /\ p.chunks[i].kind = "record" /\ p.chunks[i].id = id
      /\ \A x \in 1 .. n : p.chunks[x].kind = "record" /\ p.chunks[x].id = id => x = i
  BY IndexOfARecord
<1>3. /\ n \in Nat /\ DOMAIN p.chunks = 1 .. n
      /\ \A j \in 1 .. n + 1 : Start(p, j) \in Nat
  BY <1>1, ChunksStartInOrder
<1>4. p.chunks[i].payload \in Nat /\ delta \in Int
  BY <1>1, <1>2, <1>3 DEF WellFormed, IsRecord, IsGroup
<1>5. grown \subseteq Groups(p)
  BY DEF ContainingGroups
<1> HIDE DEF i, grown, delta
<1>6. /\ DOMAIN chunks = 1 .. n
      /\ \A x \in 1 .. n :
           /\ SameEntry(p.chunks[x], chunks[x])
           /\ p.chunks[x].kind = "group" =>
                chunks[x].size = p.chunks[x].size + (IF x \in grown THEN delta ELSE 0)
  BY <1>1, <1>4, <1>5, ResizedChunks
<1>7. q = [p EXCEPT !.chunks = [chunks EXCEPT ![i] = Record(id, payload)]]
  BY DEF Replaced, i, grown, delta
<1> HIDE DEF chunks, q
<1>8. q.chunks = [chunks EXCEPT ![i] = Record(id, payload)]
  BY <1>1, <1>7 DEF WellFormed
<1>9. /\ q.chunks[i] = Record(id, payload)
      /\ \A x \in 1 .. n : x # i => q.chunks[x] = chunks[x]
      /\ DOMAIN q.chunks = 1 .. n
  BY <1>2, <1>6, <1>8
<1>10. Len(q.chunks) = n
  <2>1. WellFormed(q)
    BY DEF q
  <2>2. Len(q.chunks) \in Nat /\ DOMAIN q.chunks = 1 .. Len(q.chunks)
    BY <2>1, ChunksStartInOrder
  <2> DEFINE m == Len(q.chunks)
  <2>3. m \in Nat /\ 1 .. m = 1 .. n
    BY <1>9, <2>2
  <2> HIDE DEF m, n
  <2>4. m = n
    BY <1>3, <2>3
  <2> QED
    BY <2>4 DEF m
<1>11. /\ q.chunks[i].kind = "record" /\ q.chunks[i].id = id
       /\ RecordSize(q.chunks[i]) = RecordHeaderSize + payload
  BY <1>9 DEF Record, RecordSize
<1>12. \A x : NewPlace(i, 1, 1, x) = IF x < i THEN x ELSE x + 1 - 1
  BY DEF NewPlace
<1>13. \A x \in 1 .. n : NewPlace(i, 1, 1, x) = x
  BY <1>12
<1>14. OneEdit(p, q, {id}, i, 1, 1)
  <2>1. i \in 1 .. n + 1
    BY <1>2, <1>3
  <2>2. Len(q.chunks) = n + 1 - 1
    BY <1>3, <1>10
  <2> QED
    BY <1>2, <1>6, <1>9, <1>11, <1>13, <2>1, <2>2 DEF OneEdit
<1>15. Gained(q, i, 1) - Lost(p, i, 1) = delta
  <2>1. /\ Gained(q, i, 1) = 1 + payload /\ Lost(p, i, 1) = 1 + p.chunks[i].payload
    BY <1>11 DEF Gained, Lost, RecordSize, RecordHeaderSize
  <2> QED
    BY <1>4, <2>1 DEF delta
<1>16. GroupsGrow(p, q, i, 1, 1, grown)
  <2> SUFFICES ASSUME NEW g \in Groups(p)
               PROVE  /\ g < i /\ Start(p, i) < End(p, g) => g \in grown
                      /\ g \in grown => /\ g < i /\ Start(p, i) <= End(p, g)
                                        /\ Start(p, i) # End(p, g)
                      /\ q.chunks[g].size = p.chunks[g].size + (IF g \in grown THEN delta ELSE 0)
    <3>1. \A g \in Groups(p) : NewPlace(i, 1, 1, g) = g
      BY <1>3, <1>13 DEF Groups
    <3> QED
      BY <1>15, <3>1 DEF GroupsGrow
  <2>1. g \in 1 .. n /\ p.chunks[g].kind = "group"
    BY <1>3 DEF Groups
  <2>2. g # i
    BY <1>2, <2>1
  <2>3. q.chunks[g].size = p.chunks[g].size + (IF g \in grown THEN delta ELSE 0)
    BY <1>6, <1>9, <2>1, <2>2
  <2>4. End(p, i) # Start(p, i) /\ i \in 1 .. n + 1 /\ Start(p, i) \in Nat
    <3>1. i \in 1 .. n + 1
      BY <1>2, <1>3
    <3>2. Start(p, i) \in Nat
      BY <1>3, <3>1
    <3>3. End(p, i) = Start(p, i) + (1 + p.chunks[i].payload)
      BY <1>2 DEF End, Span, RecordSize, RecordHeaderSize
    <3> QED
      BY <1>4, <3>1, <3>2, <3>3
  <2>5. /\ g < i /\ Start(p, i) < End(p, g) => g \in grown
        /\ g \in grown => g < i /\ Start(p, i) < End(p, g)
    <3>1. End(p, i) \in {Start(p, i), IF i \in 1 .. n THEN End(p, i) ELSE Start(p, i)}
      BY <1>2
    <3>2. grown = ContainingGroups(p, Start(p, i), End(p, i))
      BY DEF grown
    <3> QED
      BY <1>1, <2>4, <3>1, <3>2, ContainingGroupsGrow
  <2>6. End(p, g) \in Nat
    BY <1>1, <2>1, ChunksEnd
  <2> QED
    BY <2>3, <2>4, <2>5, <2>6
<1> QED
  BY <1>2, <1>9, <1>10, <1>14, <1>16 DEF q, grown, i

\* ... and keeps every other record and every group.
LEMMA ReplacedKeepsTheRest ==
  ASSUME NEW p, Opens(p), NEW id \in Ids(p), NEW payload \in Nat,
         WellFormed(Replaced(p, id, payload))
  PROVE  KeepsTheRest(p, Replaced(p, id, payload), {id})
  BY ReplacedIsOneEdit, OneEditKeepsTheRest DEF Opens, Indexes

\* Chunks whose groups are resized are as many chunks.
LEMMA ResizedIsASequence ==
  ASSUME NEW p, WellFormed(p), NEW groups, NEW delta, NEW e
  PROVE  /\ Len(Resize(p, groups, delta)) = Len(p.chunks)
         /\ \E S : e \in S /\ Resize(p, groups, delta) \in Seq(S)
<1> DEFINE n == Len(p.chunks)
           c == Resize(p, groups, delta)
           S == {c[x] : x \in 1 .. n} \cup {e}
<1>1. n \in Nat /\ DOMAIN p.chunks = 1 .. n
  BY ChunksStartInOrder
<1>2. c = [x \in 1 .. n |-> c[x]]
  BY <1>1 DEF Resize
<1> HIDE DEF c, n
<1>3. c \in [1 .. n -> S]
  BY <1>2
<1>4. c \in Seq(S) /\ Len(c) = n /\ e \in S
  <2>1. e \in S
    OBVIOUS
  <2> HIDE DEF S
  <2> QED
    BY <1>1, <1>3, <2>1
<1> QED
  BY <1>4 DEF c, n

\* So is remove_record ...
LEMMA RemovedIsOneEdit ==
  ASSUME NEW p, Opens(p), NEW id \in Ids(p), WellFormed(Removed(p, id))
  PROVE  LET q == Removed(p, id)
             i == IndexOf(p, id)
         IN /\ OneEdit(p, q, {id}, i, 0, 1)
            /\ GroupsGrow(p, q, i, 0, 1, ContainingGroups(p, Start(p, i), End(p, i)))
<1> DEFINE q == Removed(p, id)
           n == Len(p.chunks)
           i == IndexOf(p, id)
           grown == ContainingGroups(p, Start(p, i), End(p, i))
           delta == - RecordSize(p.chunks[i])
           chunks == Resize(p, grown, delta)
<1>1. WellFormed(p) /\ Scans(p)
  BY DEF Opens, Indexes
<1>2. /\ i \in 1 .. n /\ p.chunks[i].kind = "record" /\ p.chunks[i].id = id
      /\ \A x \in 1 .. n : p.chunks[x].kind = "record" /\ p.chunks[x].id = id => x = i
  BY IndexOfARecord
<1>3. /\ n \in Nat /\ DOMAIN p.chunks = 1 .. n
      /\ \A j \in 1 .. n + 1 : Start(p, j) \in Nat
  BY <1>1, ChunksStartInOrder
<1>4. /\ p.chunks[i].payload \in Nat /\ delta \in Int
      /\ RecordSize(p.chunks[i]) = 1 + p.chunks[i].payload
  <2>1. p.chunks[i].payload \in Nat
    BY <1>1, <1>2, <1>3 DEF WellFormed, IsRecord, IsGroup
  <2> QED
    BY <2>1 DEF RecordSize, RecordHeaderSize
<1>5. grown \subseteq Groups(p)
  BY DEF ContainingGroups
<1> HIDE DEF i, grown, delta
<1>6. /\ DOMAIN chunks = 1 .. n
      /\ \A x \in 1 .. n :
           /\ SameEntry(p.chunks[x], chunks[x])
           /\ p.chunks[x].kind = "group" =>
                chunks[x].size = p.chunks[x].size + (IF x \in grown THEN delta ELSE 0)
  BY <1>1, <1>4, <1>5, ResizedChunks
<1>7. Len(chunks) = n /\ \E S : chunks \in Seq(S)
  BY <1>1, ResizedIsASequence
<1>8. q.chunks = RemoveAt(chunks, i)
  BY DEF Removed, Rewrite, i, grown, delta
<1>9. WellFormed(q)
  OBVIOUS
<1> HIDE DEF chunks, q
<1>10. /\ Len(q.chunks) = n - 1
       /\ \A k \in 1 .. n - 1 : q.chunks[k] = IF k < i THEN chunks[k] ELSE chunks[k + 1]
  <2>1. PICK S : chunks \in Seq(S)
    BY <1>7
  <2>2. i \in 1 .. Len(chunks)
    BY <1>2, <1>7
  <2>3. /\ Len(RemoveAt(chunks, i)) = Len(chunks) - 1
        /\ \A k \in 1 .. Len(chunks) - 1 :
             RemoveAt(chunks, i)[k] = IF k < i THEN chunks[k] ELSE chunks[k + 1]
    BY <2>1, <2>2, RemovedAt
  <2> QED
    BY <1>7, <1>8, <2>3
<1>11. ASSUME NEW x \in 1 .. n, x # i
       PROVE  q.chunks[NewPlace(i, 0, 1, x)] = chunks[x]
  <2>1. CASE x < i
    <3>1. x \in 1 .. n - 1 /\ NewPlace(i, 0, 1, x) = x
      BY <1>2, <1>3, <2>1 DEF NewPlace
    <3> QED
      BY <1>10, <2>1, <3>1
  <2>2. CASE ~ (x < i)
    <3>1. x - 1 \in 1 .. n - 1 /\ ~ (x - 1 < i) /\ (x - 1) + 1 = x
      BY <1>2, <1>3, <1>11, <2>2
    <3>2. NewPlace(i, 0, 1, x) = x - 1
      BY <1>3, <2>2 DEF NewPlace
    <3> QED
      BY <1>10, <3>1, <3>2
  <2> QED
    BY <2>1, <2>2
<1>12. OneEdit(p, q, {id}, i, 0, 1)
  <2>1. i \in 1 .. n + 1
    BY <1>2, <1>3
  <2>2. Len(q.chunks) = n + 0 - 1
    BY <1>3, <1>10
  <2> QED
    BY <1>2, <1>6, <1>11, <2>1, <2>2 DEF OneEdit
<1>13. Gained(q, i, 0) - Lost(p, i, 1) = delta
  BY <1>4 DEF Gained, Lost, delta
<1>14. GroupsGrow(p, q, i, 0, 1, grown)
  <2> SUFFICES ASSUME NEW g \in Groups(p)
               PROVE  /\ g < i /\ Start(p, i) < End(p, g) => g \in grown
                      /\ g \in grown => /\ g < i /\ Start(p, i) <= End(p, g)
                                        /\ Start(p, i) # End(p, g)
                      /\ q.chunks[NewPlace(i, 0, 1, g)].size
                           = p.chunks[g].size + (IF g \in grown THEN delta ELSE 0)
    BY <1>13 DEF GroupsGrow
  <2>1. g \in 1 .. n /\ p.chunks[g].kind = "group"
    BY <1>3 DEF Groups
  <2>2. g # i
    BY <1>2, <2>1
  <2>3. q.chunks[NewPlace(i, 0, 1, g)].size
          = p.chunks[g].size + (IF g \in grown THEN delta ELSE 0)
    BY <1>6, <1>11, <2>1, <2>2
  <2>4. End(p, i) # Start(p, i) /\ i \in 1 .. n + 1 /\ Start(p, i) \in Nat
    <3>1. i \in 1 .. n + 1
      BY <1>2, <1>3
    <3>2. Start(p, i) \in Nat
      BY <1>3, <3>1
    <3>3. End(p, i) = Start(p, i) + (1 + p.chunks[i].payload)
      BY <1>2 DEF End, Span, RecordSize, RecordHeaderSize
    <3> QED
      BY <1>4, <3>1, <3>2, <3>3
  <2>5. /\ g < i /\ Start(p, i) < End(p, g) => g \in grown
        /\ g \in grown => g < i /\ Start(p, i) < End(p, g)
    <3>1. End(p, i) \in {Start(p, i), IF i \in 1 .. n THEN End(p, i) ELSE Start(p, i)}
      BY <1>2
    <3>2. grown = ContainingGroups(p, Start(p, i), End(p, i))
      BY DEF grown
    <3> QED
      BY <1>1, <2>4, <3>1, <3>2, ContainingGroupsGrow
  <2>6. End(p, g) \in Nat
    BY <1>1, <2>1, ChunksEnd
  <2> QED
    BY <2>3, <2>4, <2>5, <2>6
<1> QED
  BY <1>12, <1>14 DEF q, grown, i

\* ... which keeps the rest as well ...
LEMMA RemovedKeepsTheRest ==
  ASSUME NEW p, Opens(p), NEW id \in Ids(p), WellFormed(Removed(p, id))
  PROVE  KeepsTheRest(p, Removed(p, id), {id})
  BY RemovedIsOneEdit, OneEditKeepsTheRest DEF Opens, Indexes

\* Where a record is inserted, a chunk starts, or the content ends.
LEMMA InsertionPlace ==
  ASSUME NEW p, Opens(p), NEW target, IsTarget(p, target)
  PROVE  \E i \in 1 .. Len(p.chunks) + 1 :
           /\ Start(p, i) = InsertionPoint(p, target)
           /\ target # Root => target < i
<1>1. WellFormed(p) /\ Scans(p) /\ Len(p.chunks) \in Nat
  BY ChunksStartInOrder DEF Opens, Indexes
<1>2. CASE target = Root
  BY <1>1, <1>2 DEF InsertionPoint, ByteCount
<1>3. CASE target # Root /\ target \in Groups(p)
  BY <1>1, <1>3, GroupsEndAtStarts DEF InsertionPoint
<1> QED
  BY <1>2, <1>3 DEF IsTarget

\* q is p with a new record, at chunk i, where the target ends.
IsPutAt(p, q, target, id, payload, i) ==
  /\ i \in 1 .. Len(q.chunks) /\ i \in 1 .. Len(p.chunks) + 1
  /\ Start(p, i) = InsertionPoint(p, target)
  /\ OneEdit(p, q, {id}, i, 1, 0)
  /\ GroupsGrow(p, q, i, 1, 0, ContainingGroups(p, Start(p, i), Start(p, i)))
  /\ q.chunks[i] = Record(id, payload)

\* insert_record and insert_record_with_id are such edits, too ...
LEMMA InsertedIsOneEdit ==
  ASSUME NEW p, Opens(p), NEW target, IsTarget(p, target), NEW id, id \notin Ids(p),
         NEW payload \in Nat, WellFormed(Inserted(p, target, id, payload))
  PROVE  \E i : IsPutAt(p, Inserted(p, target, id, payload), target, id, payload, i)
<1> DEFINE q == Inserted(p, target, id, payload)
           n == Len(p.chunks)
           at == InsertionPoint(p, target)
           i == CHOOSE x \in 1 .. n + 1 : Start(p, x) = at
           grown == ContainingGroups(p, at, at)
           record == Record(id, payload)
           delta == RecordSize(record)
           chunks == Resize(p, grown, delta)
<1>1. WellFormed(p) /\ Scans(p)
  BY DEF Opens, Indexes
<1>2. i \in 1 .. n + 1 /\ Start(p, i) = at
  BY InsertionPlace
<1>3. /\ n \in Nat /\ DOMAIN p.chunks = 1 .. n
      /\ \A j \in 1 .. n + 1 : Start(p, j) \in Nat
  BY <1>1, ChunksStartInOrder
<1>4. /\ record.kind = "record" /\ record.id = id /\ delta \in Int
  BY DEF Record, RecordSize, RecordHeaderSize
<1>5. grown \subseteq Groups(p)
  BY DEF ContainingGroups
<1>6. q.chunks = InsertAt(chunks, i, record)
  BY DEF Inserted, Rewrite
<1>7. WellFormed(q)
  OBVIOUS
<1>8. grown = ContainingGroups(p, Start(p, i), Start(p, i))
  BY <1>2
<1> HIDE DEF i, grown, delta, record, at
<1>9. /\ DOMAIN chunks = 1 .. n
      /\ \A x \in 1 .. n :
           /\ SameEntry(p.chunks[x], chunks[x])
           /\ p.chunks[x].kind = "group" =>
                chunks[x].size = p.chunks[x].size + (IF x \in grown THEN delta ELSE 0)
  BY <1>1, <1>4, <1>5, ResizedChunks
<1>10. Len(chunks) = n /\ \E S : record \in S /\ chunks \in Seq(S)
  BY <1>1, ResizedIsASequence
<1> HIDE DEF chunks, q
<1>11. /\ Len(q.chunks) = n + 1
       /\ \A k \in 1 .. n + 1 :
            q.chunks[k] = IF k < i THEN chunks[k] ELSE IF k = i THEN record ELSE chunks[k - 1]
  <2>1. PICK S : record \in S /\ chunks \in Seq(S)
    BY <1>10
  <2>2. i \in 1 .. Len(chunks) + 1
    BY <1>2, <1>10
  <2>3. /\ Len(InsertAt(chunks, i, record)) = Len(chunks) + 1
        /\ \A k \in 1 .. Len(chunks) + 1 :
             InsertAt(chunks, i, record)[k]
               = IF k < i THEN chunks[k] ELSE IF k = i THEN record ELSE chunks[k - 1]
    BY <2>1, <2>2, InsertedAt
  <2> QED
    BY <1>6, <1>10, <2>3
<1>12. q.chunks[i] = record
  <2>1. ~ (i < i)
    BY <1>2, <1>3
  <2> QED
    BY <1>2, <1>11, <2>1
<1>13. ASSUME NEW x \in 1 .. n
       PROVE  q.chunks[NewPlace(i, 1, 0, x)] = chunks[x]
  <2>1. CASE x < i
    <3>1. x \in 1 .. n + 1 /\ NewPlace(i, 1, 0, x) = x
      BY <1>3, <2>1 DEF NewPlace
    <3> QED
      BY <1>11, <2>1, <3>1
  <2>2. CASE ~ (x < i)
    <3>1. x + 1 \in 1 .. n + 1 /\ ~ (x + 1 < i) /\ x + 1 # i /\ (x + 1) - 1 = x
      BY <1>2, <1>3, <2>2
    <3>2. NewPlace(i, 1, 0, x) = x + 1
      BY <1>3, <2>2 DEF NewPlace
    <3> QED
      BY <1>11, <3>1, <3>2
  <2> QED
    BY <2>1, <2>2
<1>14. \A x \in 1 .. n : p.chunks[x].kind = "record" => p.chunks[x].id \notin {id}
  BY <1>3 DEF Ids, Records
<1>15. OneEdit(p, q, {id}, i, 1, 0)
  <2>1. Len(q.chunks) = n + 1 - 0
    BY <1>3, <1>11
  <2> QED
    BY <1>2, <1>4, <1>9, <1>12, <1>13, <1>14, <2>1 DEF OneEdit
<1>16. Gained(q, i, 1) - Lost(p, i, 0) = delta
  BY <1>4, <1>12 DEF Gained, Lost, delta
<1>17. GroupsGrow(p, q, i, 1, 0, grown)
  <2> SUFFICES ASSUME NEW g \in Groups(p)
               PROVE  /\ g < i /\ Start(p, i) < End(p, g) => g \in grown
                      /\ g \in grown => g < i /\ Start(p, i) <= End(p, g)
                      /\ q.chunks[NewPlace(i, 1, 0, g)].size
                           = p.chunks[g].size + (IF g \in grown THEN delta ELSE 0)
    BY <1>16 DEF GroupsGrow
  <2>1. g \in 1 .. n /\ p.chunks[g].kind = "group"
    BY <1>3 DEF Groups
  <2>2. q.chunks[NewPlace(i, 1, 0, g)].size
          = p.chunks[g].size + (IF g \in grown THEN delta ELSE 0)
    BY <1>9, <1>13, <2>1
  <2>3. /\ g < i /\ Start(p, i) < End(p, g) => g \in grown
        /\ g \in grown => g < i /\ Start(p, i) <= End(p, g)
    BY <1>1, <1>2, <1>8, ContainingGroupsGrow
  <2> QED
    BY <2>2, <2>3
<1>18. i \in 1 .. Len(q.chunks)
  BY <1>2, <1>11
<1>19. Start(p, i) = InsertionPoint(p, target)
  BY <1>2 DEF at
<1>20. /\ GroupsGrow(p, q, i, 1, 0, ContainingGroups(p, Start(p, i), Start(p, i)))
       /\ q.chunks[i] = Record(id, payload)
  BY <1>8, <1>12, <1>17 DEF record
<1>21. IsPutAt(p, q, target, id, payload, i)
  BY <1>2, <1>15, <1>18, <1>19, <1>20 DEF IsPutAt
<1> QED
  BY <1>21 DEF q

\* ... and keep the rest ...
LEMMA InsertedKeepsTheRest ==
  ASSUME NEW p, Opens(p), NEW target, IsTarget(p, target), NEW id, id \notin Ids(p),
         NEW payload \in Nat, WellFormed(Inserted(p, target, id, payload))
  PROVE  KeepsTheRest(p, Inserted(p, target, id, payload), {id})
  BY InsertedIsOneEdit, OneEditKeepsTheRest DEF IsPutAt, Opens, Indexes

\* ... and whatever rewrites the header alone.
LEMMA HeaderKeepsTheRest ==
  ASSUME NEW p, Opens(p), NEW q, WellFormed(q), q.chunks = p.chunks, NEW ids
  PROVE  KeepsTheRest(p, q, ids)
<1> DEFINE d == HeaderSize(q.header) - HeaderSize(p.header)
<1>1. HeaderSize(p.header) \in Nat /\ HeaderSize(q.header) \in Nat
  BY HeaderSizeType DEF Opens, WellFormed, IsHeader
<1>2. Moved(p, q, d)
  BY <1>1 DEF Moved
<1> HIDE DEF d
<1>3. /\ Records(q) = Records(p) /\ DOMAIN p.chunks = 1 .. Len(p.chunks)
      /\ \A i \in 1 .. Len(p.chunks) : Ancestors(q, i) = Ancestors(p, i)
  BY <1>2, GroupsStay, RecordsAreFinite
<1> DEFINE others(r) == {i \in DOMAIN r.chunks : i \in Records(r) => r.chunks[i].id \notin ids}
           a == Ascending(others(p))
           row(r, x) == [key |-> Key(r, x), place |-> Place(r, x),
                         payload |-> IF x \in Records(r) THEN r.chunks[x].payload ELSE 0]
<1>4. others(q) = others(p)
  BY <1>3
<1>5. ASSUME NEW x \in 1 .. Len(p.chunks) PROVE row(q, x) = row(p, x)
  BY <1>3 DEF Key, Place
<1>6. \A k \in DOMAIN a : a[k] \in 1 .. Len(p.chunks)
  <2>1. others(p) \in SUBSET (1 .. Len(p.chunks)) /\ Len(p.chunks) \in Nat
    BY <1>3, RecordsAreFinite
  <2> HIDE DEF others
  <2>2. IsFiniteSet(1 .. Len(p.chunks))
    BY <2>1, PlacesAreFinite
  <2>3. IsFiniteSet(others(p)) /\ others(p) \in SUBSET Int
    BY <2>1, <2>2, FS_Subset
  <2>4. a \in [1 .. Cardinality(others(p)) -> others(p)]
    BY <2>3, AscendingLists
  <2> QED
    BY <2>1, <2>4
<1>7. Rest(p, ids) = [k \in DOMAIN a |-> row(p, a[k])]
  BY DEF Rest
<1>8. Rest(q, ids) = [k \in DOMAIN a |-> row(q, a[k])]
  BY <1>4 DEF Rest
<1> HIDE DEF a, row
<1>9. \A k \in DOMAIN a : row(q, a[k]) = row(p, a[k])
  BY <1>5, <1>6
<1>10. Ids(q) = Ids(p)
  BY <1>3 DEF Ids
<1> QED
  BY <1>7, <1>8, <1>9, <1>10 DEF KeepsTheRest

(***************************************************************************)
(* A batch: every chunk of p with the edits that start there.              *)
(***************************************************************************)

\* From each step to the next, F grows by the numbers at the places in S.
Steps(F, m, f, S) == \A j \in 1 .. m : F[j + 1] = F[j] + (IF j \in S THEN f[j] ELSE 0)

\* What grows by some of the numbers grows by their sum.
LEMMA SumOfSteps ==
  ASSUME NEW m \in Nat, NEW f \in [1 .. m -> Int], NEW S, NEW F \in [1 .. m + 1 -> Int],
         Steps(F, m, f, S)
  PROVE  SumOver(m, f, S) = F[m + 1] - F[1]
<1> DEFINE list == [j \in 1 .. m |-> IF j \in S THEN f[j] ELSE 0]
           g == [k \in 0 .. m |-> F[k + 1] - F[1]]
<1>1. list \in Seq(Int) /\ Len(list) = m
  OBVIOUS
<1>2. ASSUME NEW k \in 0 .. m PROVE g[k] = F[k + 1] - F[1] /\ F[k + 1] \in Int /\ F[1] \in Int
  OBVIOUS
<1>3. g \in [0 .. m -> Int] /\ g[0] = 0
  BY <1>2
<1>4. ASSUME NEW k \in 1 .. m PROVE g[k] = g[k - 1] + list[k]
  <2>1. k \in 0 .. m /\ k - 1 \in 0 .. m /\ (k - 1) + 1 = k
    OBVIOUS
  <2>2. F[k + 1] = F[k] + list[k] /\ list[k] \in Int
    BY DEF Steps
  <2>3. /\ g[k] = F[k + 1] - F[1] /\ g[k - 1] = F[k] - F[1]
        /\ F[k] \in Int /\ F[1] \in Int
    BY <1>2, <2>1
  <2> HIDE DEF list, g
  <2> QED
    BY <2>2, <2>3
<1>5. m \in 0 .. m
  OBVIOUS
<1>6. SumOver(m, f, S) = Total(list)
  BY DEF SumOver
<1>7. g[m] = F[m + 1] - F[1]
  BY <1>2, <1>5
<1> HIDE DEF list, g
<1>8. Sums(g, list)
  BY <1>1, <1>3, <1>4 DEF Sums
<1>9. Total(list) = g[m]
  BY <1>1, <1>8, TotalIs
<1> QED
  BY <1>6, <1>7, <1>9

\* T is the part of S before j.
IsBefore(T, S, j, m) == \A l \in 1 .. m : l \in T <=> l \in S /\ l < j

\* Up to the j-th step, F grows by the sum of the numbers at the places in T.
GrowsBy(F, j, m, f, T) == SumOver(m, f, T) = F[j] - F[1]

\* These are the numbers before.
LEMMA SumOfFirstSteps ==
  ASSUME NEW m \in Nat, NEW f \in [1 .. m -> Int], NEW S, NEW F \in [1 .. m + 1 -> Int],
         NEW j \in 1 .. m + 1, NEW T, Steps(F, m, f, S), IsBefore(T, S, j, m)
  PROVE  GrowsBy(F, j, m, f, T)
<1> DEFINE G == [l \in 1 .. m + 1 |-> IF l <= j THEN F[l] ELSE F[j]]
<1>1. \A l \in 1 .. m + 1 : F[l] \in Int
  OBVIOUS
<1>2. G \in [1 .. m + 1 -> Int]
  BY <1>1
<1>3. ASSUME NEW l \in 1 .. m PROVE G[l + 1] = G[l] + (IF l \in T THEN f[l] ELSE 0)
  <2>1. l \in 1 .. m + 1 /\ l + 1 \in 1 .. m + 1 /\ f[l] \in Int
    OBVIOUS
  <2>2. F[l + 1] = F[l] + (IF l \in S THEN f[l] ELSE 0)
    BY DEF Steps
  <2>3. /\ G[l] = IF l <= j THEN F[l] ELSE F[j]
        /\ G[l + 1] = IF l + 1 <= j THEN F[l + 1] ELSE F[j]
    BY <2>1
  <2>4. l \in T <=> l \in S /\ l < j
    BY DEF IsBefore
  <2>5. F[l] \in Int /\ F[l + 1] \in Int /\ F[j] \in Int
    BY <1>1, <2>1
  <2> HIDE DEF G
  <2>6. CASE l < j
    <3>1. l + 1 <= j /\ l <= j
      BY <2>6
    <3> QED
      BY <2>2, <2>3, <2>4, <2>6, <3>1
  <2>7. CASE ~ (l < j)
    <3>1. ~ (l + 1 <= j) /\ (l <= j => l = j)
      BY <2>7
    <3>2. G[l] = F[j] /\ G[l + 1] = F[j]
      BY <2>3, <3>1
    <3> QED
      BY <2>4, <2>5, <2>7, <3>2
  <2> QED
    BY <2>6, <2>7
<1>4. G[1] = F[1] /\ G[m + 1] = F[j]
  <2>1. 1 \in 1 .. m + 1 /\ m + 1 \in 1 .. m + 1 /\ 1 <= j /\ (m + 1 <= j => m + 1 = j)
    OBVIOUS
  <2> QED
    BY <2>1
<1>5. Steps(G, m, f, T)
  BY <1>3 DEF Steps
<1> HIDE DEF G
<1>6. SumOver(m, f, T) = G[m + 1] - G[1]
  BY <1>2, <1>5, SumOfSteps
<1> QED
  BY <1>4, <1>6 DEF GrowsBy

\* The sum of differences is the difference of sums.
LEMMA SumOfTheDifference ==
  ASSUME NEW m \in Nat, NEW gain \in [1 .. m -> Nat], NEW loss \in [1 .. m -> Nat], NEW S
  PROVE  /\ SumOver(m, gain, S) \in Int /\ SumOver(m, loss, S) \in Int
         /\ SumOver(m, Difference(m, gain, loss), S) = SumOver(m, gain, S) - SumOver(m, loss, S)
<1> DEFINE a == [j \in 1 .. m |-> IF j \in S THEN gain[j] ELSE 0]
           b == [j \in 1 .. m |-> IF j \in S THEN loss[j] ELSE 0]
           d == Difference(m, gain, loss)
           c == [j \in 1 .. m |-> IF j \in S THEN d[j] ELSE 0]
<1>1. a \in [1 .. m -> Int] /\ b \in [1 .. m -> Int]
  OBVIOUS
<1>2. ASSUME NEW j \in 1 .. m PROVE c[j] = a[j] - b[j]
  <2>1. d[j] = gain[j] - loss[j]
    BY DEF Difference
  <2> HIDE DEF d
  <2> QED
    BY <2>1
<1>3. c = [j \in 1 .. m |-> a[j] - b[j]]
  BY <1>2
<1>4. SumOver(m, gain, S) = Total(a) /\ SumOver(m, loss, S) = Total(b) /\ SumOver(m, d, S) = Total(c)
  BY DEF SumOver
<1> HIDE DEF a, b, c, d
<1>5. /\ Total(a) \in Int /\ Total(b) \in Int
      /\ Total([k \in 1 .. m |-> a[k] - b[k]]) = Total(a) - Total(b)
  BY <1>1, TotalOfDifference
<1>6. SumOver(m, d, S) = SumOver(m, gain, S) - SumOver(m, loss, S)
  BY <1>3, <1>4, <1>5
<1> QED
  BY <1>4, <1>5, <1>6 DEF d

\* The edits of a batch: each begins where a chunk does, puts in a record or none, and
\* takes away the chunk or none.  Every record with one of the ids is taken away, once.
EditsAt(p, edits, ids, m, place, gain, loss) ==
  /\ m \in Nat /\ m # 0 /\ DOMAIN edits = 1 .. m
  /\ place \in [1 .. m -> 1 .. Len(p.chunks) + 1]
  /\ gain \in [1 .. m -> Nat] /\ loss \in [1 .. m -> Nat]
  /\ \A j \in 1 .. m :
       /\ edits[j].start = Start(p, place[j])
       /\ edits[j].end = Start(p, place[j]) + loss[j]
       /\ \/ edits[j].pieces = <<>> /\ gain[j] = 0
          \/ /\ \E x : edits[j].pieces = <<x>>
             /\ edits[j].pieces[1].kind = "record" /\ edits[j].pieces[1].id \in ids
             /\ gain[j] = RecordSize(edits[j].pieces[1])
       /\ loss[j] # 0 =>
            /\ place[j] \in 1 .. Len(p.chunks)
            /\ p.chunks[place[j]].kind = "record" /\ p.chunks[place[j]].id \in ids
            /\ loss[j] = RecordSize(p.chunks[place[j]])
  /\ \A j, k \in 1 .. m : loss[j] # 0 /\ loss[k] # 0 /\ place[j] = place[k] => j = k
  /\ \A x \in 1 .. Len(p.chunks) : p.chunks[x].kind = "record" /\ p.chunks[x].id \in ids =>
       \E j \in 1 .. m : place[j] = x /\ loss[j] # 0

\* What each edit puts in front of chunk i.
PieceLists(edits, m, place, i) ==
  [j \in 1 .. m |-> IF place[j] = i THEN edits[j].pieces ELSE <<>>]

\* All of it, in the order of the batch.
Pieces(edits, m, place, i) == FlattenSeq(PieceLists(edits, m, place, i))

\* Some edit takes chunk i away.
Taken(m, place, loss, i) == \E j \in 1 .. m : place[j] = i /\ loss[j] # 0

\* The chunks that none does.
Untouched(p, m, place, loss) == {i \in 1 .. Len(p.chunks) : ~ Taken(m, place, loss, i)}

\* The slot of every chunk.
SlotChunks(p, edits, m, place, loss) ==
  [i \in 1 .. Len(p.chunks) + 1 |->
     IF i > Len(p.chunks) \/ Taken(m, place, loss, i)
     THEN Pieces(edits, m, place, i)
     ELSE Append(Pieces(edits, m, place, i), Patched(p, edits)[i])]

\* The records that the edits put in.
NewRecords(edits, m) == {edits[j].pieces[1] : j \in {k \in 1 .. m : edits[k].pieces # <<>>}}

\* The new chunks are these, slot by slot.
LEMMA RewrittenInSlots ==
  ASSUME NEW p, WellFormed(p), NEW edits, NEW ids, NEW m, NEW place, NEW gain, NEW loss,
         EditsAt(p, edits, ids, m, place, gain, loss)
  PROVE  Rewritten(p, edits) = FlattenSeq(SlotChunks(p, edits, m, place, loss))
<1> DEFINE n == Len(p.chunks)
           start == Starts(p)
           here(i, j) == edits[j].start = start[i]
           pieces(i) ==
             FlattenSeq([j \in DOMAIN edits |-> IF here(i, j) THEN edits[j].pieces ELSE <<>>])
           gone(i) == \E j \in DOMAIN edits : here(i, j) /\ edits[j].end > edits[j].start
<1>1. /\ n \in Nat /\ \A i \in 1 .. n + 1 : Start(p, i) \in Nat
      /\ \A i, j \in 1 .. n + 1 : i < j <=> Start(p, i) < Start(p, j)
  BY ChunksStartInOrder
<1>2. /\ DOMAIN edits = 1 .. m
      /\ \A j \in 1 .. m : /\ place[j] \in 1 .. n + 1 /\ loss[j] \in Nat
                           /\ edits[j].start = Start(p, place[j])
                           /\ edits[j].end = Start(p, place[j]) + loss[j]
  BY DEF EditsAt
<1> HIDE DEF n
<1>3. ASSUME NEW i \in 1 .. n + 1, NEW j \in 1 .. m
      PROVE  /\ here(i, j) <=> place[j] = i
             /\ edits[j].end > edits[j].start <=> loss[j] # 0
  <2>1. place[j] \in 1 .. n + 1 /\ loss[j] \in Nat /\ i \in Int /\ place[j] \in Int
    BY <1>1, <1>2
  <2>2. Start(p, place[j]) \in Nat /\ Start(p, i) \in Nat
    BY <1>1, <2>1
  <2>3. (place[j] < i <=> Start(p, place[j]) < Start(p, i))
        /\ (i < place[j] <=> Start(p, i) < Start(p, place[j]))
    BY <1>1, <2>1
  <2>4. Start(p, place[j]) = Start(p, i) <=> place[j] = i
    BY <2>1, <2>2, <2>3
  <2>5. here(i, j) <=> Start(p, place[j]) = Start(p, i)
    BY <1>2 DEF Start
  <2>6. edits[j].end > edits[j].start <=> Start(p, place[j]) + loss[j] > Start(p, place[j])
    BY <1>2
  <2> HIDE DEF here
  <2> QED
    BY <2>1, <2>2, <2>4, <2>5, <2>6
<1> HIDE DEF here
<1>4. ASSUME NEW i \in 1 .. n + 1
      PROVE  pieces(i) = Pieces(edits, m, place, i) /\ (gone(i) <=> Taken(m, place, loss, i))
  <2>1. [j \in DOMAIN edits |-> IF here(i, j) THEN edits[j].pieces ELSE <<>>]
          = PieceLists(edits, m, place, i)
    BY <1>2, <1>3 DEF PieceLists
  <2>2. pieces(i) = Pieces(edits, m, place, i)
    BY <2>1 DEF Pieces
  <2>3. gone(i) <=> Taken(m, place, loss, i)
    BY <1>2, <1>3 DEF Taken
  <2> QED
    BY <2>2, <2>3
<1>5. Rewritten(p, edits)
        = FlattenSeq([i \in 1 .. n + 1 |->
            IF i > n \/ gone(i) THEN pieces(i) ELSE Append(pieces(i), Patched(p, edits)[i])])
  BY DEF Rewritten, here, n
<1> HIDE DEF pieces, gone
<1>6. [i \in 1 .. n + 1 |->
         IF i > n \/ gone(i) THEN pieces(i) ELSE Append(pieces(i), Patched(p, edits)[i])]
        = SlotChunks(p, edits, m, place, loss)
  BY <1>4 DEF SlotChunks, n
<1> QED
  BY <1>5, <1>6

\* The pieces at a place are new records.
LEMMA PiecesAreNew ==
  ASSUME NEW p, NEW edits, NEW ids, NEW m, NEW place, NEW gain, NEW loss,
         EditsAt(p, edits, ids, m, place, gain, loss), NEW i
  PROVE  /\ PieceLists(edits, m, place, i) \in [1 .. m -> Seq(NewRecords(edits, m))]
         /\ Pieces(edits, m, place, i) \in Seq(NewRecords(edits, m))
         /\ \E bt : Joins(Pieces(edits, m, place, i), PieceLists(edits, m, place, i), m, bt)
         /\ \A x \in NewRecords(edits, m) : x.kind = "record" /\ x.id \in ids
<1> DEFINE X == NewRecords(edits, m)
           ss == PieceLists(edits, m, place, i)
<1>1. /\ m \in Nat /\ m # 0
      /\ \A j \in 1 .. m :
           \/ edits[j].pieces = <<>>
           \/ /\ \E x : edits[j].pieces = <<x>>
              /\ edits[j].pieces[1].kind = "record" /\ edits[j].pieces[1].id \in ids
  BY DEF EditsAt
<1>2. \A x \in X : x.kind = "record" /\ x.id \in ids
  BY <1>1 DEF NewRecords
<1>3. ASSUME NEW j \in 1 .. m PROVE edits[j].pieces \in Seq(X)
  <2>1. CASE edits[j].pieces = <<>>
    BY <2>1
  <2>2. CASE edits[j].pieces # <<>>
    <3>1. PICK x : edits[j].pieces = <<x>>
      BY <1>1, <2>2
    <3>2. edits[j].pieces[1] \in X
      BY <2>2 DEF NewRecords
    <3>3. x \in X
      BY <3>1, <3>2
    <3> HIDE DEF X
    <3>4. <<x>> \in Seq(X)
      BY <3>3
    <3> QED
      BY <3>1, <3>4
  <2> QED
    BY <2>1, <2>2
<1>4. ss = [j \in 1 .. m |-> IF place[j] = i THEN edits[j].pieces ELSE <<>>]
  BY DEF PieceLists
<1> HIDE DEF X, ss
<1>5. ss \in [1 .. m -> Seq(X)]
  <2>1. <<>> \in Seq(X)
    OBVIOUS
  <2> QED
    BY <1>3, <1>4, <2>1
<1>6. FlattenSeq(ss) \in Seq(X) /\ \E bt : Joins(FlattenSeq(ss), ss, m, bt)
  BY <1>1, <1>5, Flattened
<1> QED
  BY <1>2, <1>5, <1>6 DEF X, ss, Pieces

\* In q, list begins at b.
Holds(q, b, list) ==
  /\ b + Len(list) <= Len(q.chunks) + 1
  /\ \A k \in 1 .. Len(list) : q.chunks[b + k - 1] = list[k]

\* Where each piece starts.
PieceStarts(q, b, bt, m) == [j \in 1 .. m + 1 |-> Start(q, b + bt[j] - 1)]

\* The pieces of place i, from chunk b of q on, follow each other, each as long as what its
\* edit puts in.
Follow(q, b, bt, edits, m, place, gain, i) ==
  /\ \A j \in 1 .. m + 1 : bt[j] \in 1 .. Len(Pieces(edits, m, place, i)) + 1
  /\ PieceStarts(q, b, bt, m) \in [1 .. m + 1 -> Int]
  /\ Steps(PieceStarts(q, b, bt, m), m, gain, At(m, place, i))
  /\ PieceStarts(q, b, bt, m)[1] = Start(q, b)
  /\ PieceStarts(q, b, bt, m)[m + 1] = Start(q, b + Len(Pieces(edits, m, place, i)))
  /\ \A j \in 1 .. m : place[j] = i /\ edits[j].pieces # <<>> =>
       /\ bt[j] \in 1 .. Len(Pieces(edits, m, place, i))
       /\ q.chunks[b + bt[j] - 1] = edits[j].pieces[1]

\* So they do where q has them.
LEMMA PiecesFollow ==
  ASSUME NEW p, NEW edits, NEW ids, NEW m, NEW place, NEW gain, NEW loss,
         EditsAt(p, edits, ids, m, place, gain, loss), NEW i,
         NEW q, WellFormed(q), NEW b \in Nat \ {0},
         Holds(q, b, Pieces(edits, m, place, i))
  PROVE  \E bt : Follow(q, b, bt, edits, m, place, gain, i)
<1> DEFINE X == NewRecords(edits, m)
           ss == PieceLists(edits, m, place, i)
           list == Pieces(edits, m, place, i)
           S == At(m, place, i)
<1>1. /\ m \in Nat /\ m # 0
      /\ gain \in [1 .. m -> Nat]
      /\ \A j \in 1 .. m :
           \/ edits[j].pieces = <<>> /\ gain[j] = 0
           \/ /\ \E x : edits[j].pieces = <<x>>
              /\ edits[j].pieces[1].kind = "record"
              /\ gain[j] = RecordSize(edits[j].pieces[1])
  BY DEF EditsAt
<1>2. /\ ss \in [1 .. m -> Seq(X)] /\ list \in Seq(X)
      /\ \E bt : Joins(list, ss, m, bt)
  BY PiecesAreNew
<1>3. /\ Len(q.chunks) \in Nat
      /\ \A k \in 1 .. Len(q.chunks) + 1 : Start(q, k) \in Nat
      /\ \A k \in 1 .. Len(q.chunks) : Start(q, k + 1) = Start(q, k) + OwnSize(q.chunks[k])
  BY ChunksStartInOrder
<1>4. \A j \in 1 .. m : /\ ss[j] = IF j \in S THEN edits[j].pieces ELSE <<>>
  BY DEF PieceLists, At
<1>5. /\ b + Len(list) <= Len(q.chunks) + 1
      /\ \A k \in 1 .. Len(list) : q.chunks[b + k - 1] = list[k]
  BY DEF Holds
<1> HIDE DEF X, ss, list, S
<1>6. PICK bt : Joins(list, ss, m, bt)
  BY <1>2
<1>7. Len(list) \in Nat /\ \A j \in 1 .. m : Len(ss[j]) \in Nat
  BY <1>2
<1>8. /\ \A j \in 1 .. m : bt[j] + Len(ss[j]) = bt[j + 1]
      /\ \A j \in 1 .. m + 1 : bt[j] \in 1 .. Len(list) + 1
  <2>1. m \in Nat
    BY <1>1
  <2>2. Spreads(list, ss, m, bt)
    BY <1>2, <1>6, <1>7, <2>1, JoinedPlaces
  <2> QED
    BY <2>2 DEF Spreads
<1>9. /\ bt[1] = 1 /\ bt[m + 1] = Len(list) + 1
      /\ \A j \in 1 .. m : \A k \in 1 .. Len(ss[j]) : list[bt[j] + k - 1] = ss[j][k]
  BY <1>6 DEF Joins
<1> DEFINE F == PieceStarts(q, b, bt, m)
<1>10. ASSUME NEW j \in 1 .. m + 1
       PROVE  b + bt[j] - 1 \in 1 .. Len(q.chunks) + 1 /\ F[j] \in Int
  <2>1. bt[j] \in 1 .. Len(list) + 1
    BY <1>8
  <2>2. b + bt[j] - 1 \in 1 .. Len(q.chunks) + 1
    BY <1>3, <1>5, <1>7, <2>1
  <2>3. F[j] = Start(q, b + bt[j] - 1)
    BY DEF PieceStarts
  <2> HIDE DEF F
  <2> QED
    BY <1>3, <2>2, <2>3
<1>11. ASSUME NEW j \in 1 .. m
       PROVE  F[j + 1] = F[j] + (IF j \in S THEN gain[j] ELSE 0)
  <2> DEFINE k == b + bt[j] - 1
  <2>1. j \in 1 .. m + 1 /\ j + 1 \in 1 .. m + 1
    BY <1>1
  <2>2. /\ bt[j] \in 1 .. Len(list) + 1 /\ bt[j + 1] \in 1 .. Len(list) + 1
        /\ bt[j] + Len(ss[j]) = bt[j + 1]
    BY <1>8, <2>1
  <2>3. k \in 1 .. Len(q.chunks) + 1 /\ F[j] \in Int /\ F[j] = Start(q, k)
    BY <1>10, <2>1 DEF PieceStarts
  <2>4. F[j + 1] = Start(q, b + bt[j + 1] - 1)
    BY <2>1 DEF PieceStarts
  <2> HIDE DEF F
  <2>5. CASE ss[j] = <<>>
    <3>1. bt[j + 1] = bt[j]
      BY <2>2, <2>5
    <3>2. F[j + 1] = F[j]
      BY <2>3, <2>4, <3>1
    <3>3. j \in S => gain[j] = 0
      BY <1>1, <1>4, <2>5
    <3> QED
      BY <2>3, <3>2, <3>3
  <2>6. CASE ss[j] # <<>>
    <3>1. j \in S /\ edits[j].pieces # <<>> /\ ss[j] = edits[j].pieces
      BY <1>4, <2>6
    <3>2. /\ \E x : edits[j].pieces = <<x>>
          /\ edits[j].pieces[1].kind = "record"
          /\ gain[j] = RecordSize(edits[j].pieces[1])
      BY <1>1, <3>1
    <3>3. Len(ss[j]) = 1 /\ gain[j] = OwnSize(ss[j][1])
      BY <3>1, <3>2 DEF OwnSize
    <3>4. bt[j + 1] = bt[j] + 1 /\ bt[j] \in 1 .. Len(list) /\ bt[j] + 1 - 1 = bt[j]
      BY <1>7, <2>2, <3>3
    <3>5. list[bt[j] + 1 - 1] = ss[j][1]
      BY <1>9, <3>3
    <3>6. q.chunks[k] = ss[j][1]
      BY <1>5, <3>4, <3>5
    <3>7. b + bt[j + 1] - 1 = k + 1
      BY <3>4
    <3>8. k \in 1 .. Len(q.chunks)
      BY <1>3, <1>5, <1>7, <3>4
    <3>9. Start(q, k + 1) = Start(q, k) + OwnSize(q.chunks[k])
      BY <1>3, <3>8
    <3> QED
      BY <2>3, <2>4, <3>1, <3>3, <3>6, <3>7, <3>9
  <2> QED
    BY <2>5, <2>6
<1>12. F \in [1 .. m + 1 -> Int]
  BY <1>10 DEF PieceStarts
<1>13. F[m + 1] = Start(q, b + Len(list)) /\ F[1] = Start(q, b)
  <2>1. m + 1 \in 1 .. m + 1 /\ 1 \in 1 .. m + 1
    BY <1>1
  <2>2. b + bt[m + 1] - 1 = b + Len(list) /\ b + bt[1] - 1 = b
    BY <1>7, <1>9
  <2> QED
    BY <2>1, <2>2 DEF PieceStarts
<1> HIDE DEF F
<1>14. ASSUME NEW j \in 1 .. m, place[j] = i, edits[j].pieces # <<>>
       PROVE  bt[j] \in 1 .. Len(list) /\ q.chunks[b + bt[j] - 1] = edits[j].pieces[1]
  <2>1. j \in S
    BY <1>14 DEF S, At
  <2>2. ss[j] = edits[j].pieces /\ Len(ss[j]) = 1
    <3>1. PICK x : edits[j].pieces = <<x>>
      BY <1>1, <1>14
    <3>2. ss[j] = edits[j].pieces
      BY <1>4, <2>1
    <3> QED
      BY <3>1, <3>2
  <2>3. j \in 1 .. m + 1 /\ j + 1 \in 1 .. m + 1
    BY <1>1
  <2>4. /\ bt[j] \in 1 .. Len(list) + 1 /\ bt[j + 1] \in 1 .. Len(list) + 1
        /\ bt[j] + 1 = bt[j + 1]
    BY <1>8, <2>2, <2>3
  <2>5. bt[j] \in 1 .. Len(list) /\ bt[j] + 1 - 1 = bt[j]
    BY <1>7, <2>4
  <2>6. list[bt[j] + 1 - 1] = ss[j][1]
    BY <1>9, <2>2
  <2> QED
    BY <1>5, <2>2, <2>5, <2>6
<1>15. Steps(F, m, gain, S)
  BY <1>11 DEF Steps
<1>16. Follow(q, b, bt, edits, m, place, gain, i)
  BY <1>8, <1>12, <1>13, <1>14, <1>15 DEF F, list, S, Follow
<1> QED
  BY <1>16

\* Together they are as long as what the edits put in.
LEMMA PiecesMeasure ==
  ASSUME NEW p, NEW edits, NEW ids, NEW m, NEW place, NEW gain, NEW loss,
         EditsAt(p, edits, ids, m, place, gain, loss), NEW i,
         NEW q, WellFormed(q), NEW b \in Nat \ {0},
         Holds(q, b, Pieces(edits, m, place, i))
  PROVE  Start(q, b + Len(Pieces(edits, m, place, i))) - Start(q, b)
           = SumOver(m, gain, At(m, place, i))
<1> DEFINE S == At(m, place, i)
<1>1. m \in Nat /\ gain \in [1 .. m -> Nat]
  BY DEF EditsAt
<1>2. PICK bt : Follow(q, b, bt, edits, m, place, gain, i)
  BY PiecesFollow
<1> DEFINE F == PieceStarts(q, b, bt, m)
<1>3. /\ F \in [1 .. m + 1 -> Int] /\ Steps(F, m, gain, S)
      /\ F[1] = Start(q, b) /\ F[m + 1] = Start(q, b + Len(Pieces(edits, m, place, i)))
  BY <1>2 DEF Follow
<1>4. gain \in [1 .. m -> Int]
  BY <1>1
<1> HIDE DEF F, S
<1>5. SumOver(m, gain, S) = F[m + 1] - F[1]
  BY <1>1, <1>3, <1>4, SumOfSteps
<1> QED
  BY <1>3, <1>5 DEF S

\* Each starts behind those of the edits before its own ...
LEMMA PieceBehind ==
  ASSUME NEW m \in Nat, NEW gain \in [1 .. m -> Nat], NEW q, NEW b, NEW bt, NEW edits,
         NEW place, NEW i, Follow(q, b, bt, edits, m, place, gain, i), NEW j \in 1 .. m
  PROVE  PieceStarts(q, b, bt, m)[j]
           = Start(q, b) + SumOver(m, gain, {l \in At(m, place, i) : l < j})
<1> DEFINE S == At(m, place, i)
           T == {l \in S : l < j}
           F == PieceStarts(q, b, bt, m)
<1>1. F \in [1 .. m + 1 -> Int] /\ Steps(F, m, gain, S) /\ F[1] = Start(q, b)
  BY DEF Follow
<1>2. gain \in [1 .. m -> Int] /\ j \in 1 .. m + 1 /\ 1 \in 1 .. m + 1
  OBVIOUS
<1>3. IsBefore(T, S, j, m)
  BY DEF IsBefore
<1> HIDE DEF F, T, S
<1>4. GrowsBy(F, j, m, gain, T)
  BY <1>1, <1>2, <1>3, SumOfFirstSteps
<1>5. F[j] \in Int /\ F[1] \in Int
  BY <1>1, <1>2
<1>6. F[j] = F[1] + SumOver(m, gain, T)
  BY <1>4, <1>5 DEF GrowsBy
<1> QED
  BY <1>1, <1>6 DEF F, T, S

\* The edits of a batch that put their records in front of that of the j-th one.
Earlier(m, place, j) == {l \in At(m, place, place[j]) : l < j}

\* Chunk k of q begins x bytes behind chunk a, in front of chunk b.
IsBehind(q, a, b, k, x) ==
  k \in 1 .. Len(q.chunks) /\ a <= k /\ k < b /\ Start(q, k) = Start(q, a) + x

\* ... and is found there.
LEMMA PieceAt ==
  ASSUME NEW p, NEW edits, NEW ids, NEW m, NEW place, NEW gain, NEW loss,
         EditsAt(p, edits, ids, m, place, gain, loss),
         NEW q, WellFormed(q), NEW b \in Nat \ {0},
         NEW j \in 1 .. m, edits[j].pieces # <<>>,
         Holds(q, b, Pieces(edits, m, place, place[j]))
  PROVE  \E k :
           /\ q.chunks[k] = edits[j].pieces[1]
           /\ IsBehind(q, b, b + Len(Pieces(edits, m, place, place[j])), k,
                       SumOver(m, gain, Earlier(m, place, j)))
<1> DEFINE S == At(m, place, place[j])
           list == Pieces(edits, m, place, place[j])
<1>1. m \in Nat /\ gain \in [1 .. m -> Nat]
  BY DEF EditsAt
<1>2. PICK bt : Follow(q, b, bt, edits, m, place, gain, place[j])
  BY PiecesFollow
<1>3. Len(q.chunks) \in Nat
      /\ \A k \in 1 .. Len(q.chunks) + 1 : Start(q, k) \in Nat
  BY ChunksStartInOrder
<1>4. b + Len(list) <= Len(q.chunks) + 1
  BY DEF Holds
<1> DEFINE F == PieceStarts(q, b, bt, m)
           k == b + bt[j] - 1
           T == {l \in S : l < j}
           sum == SumOver(m, gain, T)
<1>5. F \in [1 .. m + 1 -> Int] /\ Steps(F, m, gain, S) /\ F[1] = Start(q, b)
  BY <1>2 DEF Follow
<1>6. j \in 1 .. m + 1 /\ gain \in [1 .. m -> Int]
  BY <1>1
<1>7. F[j] = Start(q, k)
  BY <1>6 DEF PieceStarts
<1>8. Len(list) \in Nat /\ bt[j] \in 1 .. Len(list)
  <2>1. list \in Seq(NewRecords(edits, m))
    BY PiecesAreNew
  <2> QED
    BY <1>2, <2>1 DEF Follow
<1> HIDE DEF S, list, F
<1>9. k \in 1 .. Len(q.chunks) /\ b <= k /\ k < b + Len(list)
  <2> DEFINE u == bt[j]
             v == Len(list)
             w == Len(q.chunks)
  <2>1. u \in 1 .. v /\ v \in Nat /\ w \in Nat /\ b + v <= w + 1 /\ k = b + u - 1
    BY <1>3, <1>4, <1>8 DEF list
  <2> HIDE DEF k, u, v, w
  <2>2. k \in 1 .. w /\ b <= k /\ k < b + v
    BY <2>1
  <2> QED
    BY <2>2 DEF v, w
<1>10. F[j] = Start(q, b) + sum
  BY <1>1, <1>2, PieceBehind DEF S, F
<1>11. Start(q, k) = Start(q, b) + sum
  BY <1>7, <1>10
<1>12. q.chunks[k] = edits[j].pieces[1]
  BY <1>2 DEF Follow
<1>13. T = Earlier(m, place, j)
  BY DEF S, Earlier
<1> HIDE DEF k, sum
<1>14. IsBehind(q, b, b + Len(list), k, sum)
  BY <1>9, <1>11 DEF IsBehind
<1> HIDE DEF T
<1>15. IsBehind(q, b, b + Len(list), k, SumOver(m, gain, Earlier(m, place, j)))
  BY <1>13, <1>14 DEF sum
<1> QED
  BY <1>12, <1>15 DEF list

\* What the edits at a place take away is the chunk there, or nothing.
LEMMA TakenMeasures ==
  ASSUME NEW p, NEW edits, NEW ids, NEW m, NEW place, NEW gain, NEW loss,
         EditsAt(p, edits, ids, m, place, gain, loss), NEW i
  PROVE  SumOver(m, loss, At(m, place, i))
           = IF Taken(m, place, loss, i) THEN OwnSize(p.chunks[i]) ELSE 0
<1> DEFINE a == [j \in 1 .. m |-> IF j \in At(m, place, i) THEN loss[j] ELSE 0]
<1>1. /\ m \in Nat /\ loss \in [1 .. m -> Nat]
      /\ \A j \in 1 .. m : loss[j] # 0 =>
           /\ p.chunks[place[j]].kind = "record"
           /\ loss[j] = RecordSize(p.chunks[place[j]])
      /\ \A j, k \in 1 .. m : loss[j] # 0 /\ loss[k] # 0 /\ place[j] = place[k] => j = k
  BY DEF EditsAt
<1>2. SumOver(m, loss, At(m, place, i)) = Total(a)
  BY DEF SumOver
<1>3. ASSUME NEW j \in 1 .. m PROVE a[j] = IF place[j] = i THEN loss[j] ELSE 0
  BY DEF At
<1>4. CASE ~ Taken(m, place, loss, i)
  <2>1. \A j \in 1 .. m : a[j] = 0
    BY <1>3, <1>4 DEF Taken
  <2>2. a = [j \in 1 .. m |-> 0]
    BY <2>1
  <2> HIDE DEF a
  <2>3. Total(a) = 0
    BY <1>1, <2>2, TotalOfZeros
  <2> QED
    BY <1>2, <1>4, <2>3
<1>5. CASE Taken(m, place, loss, i)
  <2>1. PICK t \in 1 .. m : place[t] = i /\ loss[t] # 0
    BY <1>5 DEF Taken
  <2>2. \A j \in 1 .. m : a[j] = IF j = t THEN loss[t] ELSE 0
    BY <1>1, <1>3, <2>1
  <2>3. a = [j \in 1 .. m |-> IF j = t THEN loss[t] ELSE 0]
    BY <2>2
  <2> DEFINE x == loss[t]
  <2>4. x \in Int /\ x = OwnSize(p.chunks[i])
    BY <1>1, <2>1 DEF OwnSize
  <2>5. a = [j \in 1 .. m |-> IF j = t THEN x ELSE 0]
    BY <2>3
  <2> HIDE DEF a, x
  <2>6. Total([j \in 1 .. m |-> IF j = t THEN x ELSE 0]) = x
    BY <1>1, <2>1, <2>4, TotalOfOne
  <2> QED
    BY <1>2, <1>5, <2>4, <2>5, <2>6
<1> QED
  BY <1>4, <1>5

\* A chunk with the size that the edits give it.
LEMMA PatchedChunks ==
  ASSUME NEW p, WellFormed(p), NEW edits, NEW x \in 1 .. Len(p.chunks)
  PROVE  /\ SameEntry(p.chunks[x], Patched(p, edits)[x])
         /\ OwnSize(Patched(p, edits)[x]) = OwnSize(p.chunks[x])
         /\ p.chunks[x].kind = "group" =>
              Patched(p, edits)[x].size = p.chunks[x].size + GroupDelta(p, edits, x)
<1> DEFINE c == p.chunks[x]
           delta == GroupDelta(p, edits, x)
           d == Patched(p, edits)[x]
<1>1. DOMAIN p.chunks = 1 .. Len(p.chunks)
  BY ChunksStartInOrder
<1>2. d = IF x \in Groups(p) THEN [c EXCEPT !.size = @ + delta] ELSE c
  BY <1>1 DEF Patched
<1>3. x \in Groups(p) <=> c.kind = "group"
  BY <1>1 DEF Groups
<1>4. IsRecord(c) \/ IsGroup(c)
  BY <1>1 DEF WellFormed
<1> HIDE DEF c, d, delta
<1>5. CASE IsRecord(c)
  <2>1. c.kind = "record"
    BY <1>5 DEF IsRecord
  <2>2. d = c
    BY <1>2, <1>3, <2>1
  <2> QED
    BY <2>1, <2>2 DEF SameEntry, c, d
<1>6. CASE IsGroup(c)
  <2>1. c.kind = "group" /\ d = [c EXCEPT !.size = @ + delta]
    BY <1>2, <1>3, <1>6 DEF IsGroup
  <2>2. /\ d.kind = "group" /\ d.type = c.type /\ d.label = c.label
        /\ d.size = c.size + delta
    BY <1>6, <2>1 DEF IsGroup
  <2>3. SameEntry(c, d) /\ OwnSize(c) = OwnSize(d)
    BY <2>1, <2>2 DEF SameEntry, OwnSize
  <2> QED
    BY <2>2, <2>3 DEF c, d, delta
<1> QED
  BY <1>4, <1>5, <1>6

\* The slot of the i-th chunk: its pieces, and the chunk unless it is taken away.
SlotFilled(p, q, edits, m, place, kept, at, i) ==
  /\ at[i] \in Nat \ {0}
  /\ at[i + 1] = at[i] + Len(Pieces(edits, m, place, i)) + (IF i \in kept THEN 1 ELSE 0)
  /\ Holds(q, at[i], Pieces(edits, m, place, i))
  /\ i \in kept => /\ at[i + 1] - 1 \in 1 .. Len(q.chunks)
                   /\ q.chunks[at[i + 1] - 1] = Patched(p, edits)[i]

\* The slots of q follow each other, and each holds its chunks.
Filled(p, q, edits, m, place, loss, at) ==
  /\ at \in [1 .. Len(p.chunks) + 2 -> Nat]
  /\ at[1] = 1 /\ at[Len(p.chunks) + 2] = Len(q.chunks) + 1
  /\ \A i \in 1 .. Len(p.chunks) + 1 :
       SlotFilled(p, q, edits, m, place, Untouched(p, m, place, loss), at, i)

\* The chunks there are then.
ChunksLeft(p, edits, m, place, loss) ==
  NewRecords(edits, m) \cup {Patched(p, edits)[i] : i \in Untouched(p, m, place, loss)}

\* The slots are lists of these.
LEMMA SlotLists ==
  ASSUME NEW p, WellFormed(p), NEW edits, NEW ids, NEW m, NEW place, NEW gain, NEW loss,
         EditsAt(p, edits, ids, m, place, gain, loss)
  PROVE  LET n == Len(p.chunks)
             kept == Untouched(p, m, place, loss)
             ss == SlotChunks(p, edits, m, place, loss)
             Y == ChunksLeft(p, edits, m, place, loss)
         IN /\ ss \in [1 .. n + 1 -> Seq(Y)]
            /\ \A i : Pieces(edits, m, place, i) \in Seq(Y)
            /\ \A i \in kept : Patched(p, edits)[i] \in Y
            /\ \A i \in 1 .. n + 1 :
                 ss[i] = IF i \in kept THEN Append(Pieces(edits, m, place, i), Patched(p, edits)[i])
                                       ELSE Pieces(edits, m, place, i)
<1> DEFINE n == Len(p.chunks)
           l == n + 1
           ss == SlotChunks(p, edits, m, place, loss)
           kept == Untouched(p, m, place, loss)
           pieces(i) == Pieces(edits, m, place, i)
           Y == ChunksLeft(p, edits, m, place, loss)
<1>1. n \in Nat
  BY ChunksStartInOrder
<1>2. \A i : i \in kept <=> i \in 1 .. n /\ ~ Taken(m, place, loss, i)
  BY DEF Untouched
<1>3. ASSUME NEW i
      PROVE  pieces(i) \in Seq(Y)
  <2>1. pieces(i) \in Seq(NewRecords(edits, m))
    BY PiecesAreNew
  <2>2. NewRecords(edits, m) \subseteq Y
    BY DEF ChunksLeft
  <2> HIDE DEF Y, pieces
  <2> QED
    BY <2>1, <2>2
<1>4. DOMAIN ss = 1 .. l /\ ss = [i \in 1 .. l |-> ss[i]]
  BY DEF SlotChunks
<1>5. ASSUME NEW i \in 1 .. l
      PROVE  ss[i] = IF i \in kept THEN Append(pieces(i), Patched(p, edits)[i]) ELSE pieces(i)
  <2>1. i > n \/ Taken(m, place, loss, i) <=> i \notin kept
    BY <1>1, <1>2
  <2> QED
    BY <2>1 DEF SlotChunks
<1>6. \A i \in kept : Patched(p, edits)[i] \in Y
  BY DEF ChunksLeft
<1> HIDE DEF n, ss, kept, pieces, Y
<1>7. ASSUME NEW i \in 1 .. l PROVE ss[i] \in Seq(Y)
  <2> DEFINE a == pieces(i)
             e == Patched(p, edits)[i]
  <2>1. a \in Seq(Y)
    BY <1>3
  <2>2. ss[i] = IF i \in kept THEN Append(a, e) ELSE a
    BY <1>5
  <2>3. i \in kept => e \in Y
    BY <1>6
  <2> HIDE DEF a, e
  <2>4. i \in kept => Append(a, e) \in Seq(Y)
    BY <2>1, <2>3, AppendProperties
  <2> QED
    BY <2>1, <2>2, <2>4
<1>8. ss \in [1 .. l -> Seq(Y)]
  BY <1>4, <1>7
<1> QED
  BY <1>3, <1>5, <1>6, <1>8 DEF n, ss, kept, pieces, Y

\* There are no others.
LEMMA NoOtherChunks ==
  ASSUME NEW p, WellFormed(p), NEW edits, NEW ids, NEW m, NEW place, NEW gain, NEW loss,
         EditsAt(p, edits, ids, m, place, gain, loss),
         NEW q, q.chunks = Rewritten(p, edits), NEW k \in 1 .. Len(q.chunks)
  PROVE  q.chunks[k] \in ChunksLeft(p, edits, m, place, loss)
<1> DEFINE l == Len(p.chunks) + 1
           ss == SlotChunks(p, edits, m, place, loss)
           Y == ChunksLeft(p, edits, m, place, loss)
<1>1. l \in Nat /\ l # 0
  BY ChunksStartInOrder
<1>2. ss \in [1 .. l -> Seq(Y)]
  BY SlotLists
<1>3. q.chunks = FlattenSeq(ss)
  BY RewrittenInSlots
<1> HIDE DEF l, ss, Y
<1>4. q.chunks \in Seq(Y)
  BY <1>1, <1>2, <1>3, Flattened
<1>5. q.chunks[k] \in Y
  BY <1>4
<1> QED
  BY <1>5 DEF Y

\* The bytes that a batch makes are slots.
LEMMA SlotsFill ==
  ASSUME NEW p, WellFormed(p), NEW edits, NEW ids, NEW m, NEW place, NEW gain, NEW loss,
         EditsAt(p, edits, ids, m, place, gain, loss),
         NEW q, WellFormed(q), q.chunks = Rewritten(p, edits)
  PROVE  \E at : Filled(p, q, edits, m, place, loss, at)
<1> DEFINE n == Len(p.chunks)
           l == n + 1
           ss == SlotChunks(p, edits, m, place, loss)
           kept == Untouched(p, m, place, loss)
           pieces(i) == Pieces(edits, m, place, i)
           Y == ChunksLeft(p, edits, m, place, loss)
<1>1. n \in Nat /\ Len(q.chunks) \in Nat
  BY ChunksStartInOrder
<1>2. /\ ss \in [1 .. l -> Seq(Y)]
      /\ \A i : pieces(i) \in Seq(Y)
      /\ \A i \in kept : Patched(p, edits)[i] \in Y
      /\ \A i \in 1 .. l :
           ss[i] = IF i \in kept THEN Append(pieces(i), Patched(p, edits)[i]) ELSE pieces(i)
  BY SlotLists
<1>3. \A i : pieces(i) \in Seq(Y)
  BY <1>2
<1>5. \A i \in 1 .. l :
        ss[i] = IF i \in kept THEN Append(pieces(i), Patched(p, edits)[i]) ELSE pieces(i)
  BY <1>2
<1>6. \A i \in kept : Patched(p, edits)[i] \in Y
  BY <1>2
<1>7. q.chunks = FlattenSeq(ss)
  BY RewrittenInSlots
<1>9. ss \in [1 .. l -> Seq(Y)]
  BY <1>2
<1> HIDE DEF n, ss, kept, pieces, Y
<1>10. l \in Nat /\ l # 0 /\ l + 1 = n + 2
  BY <1>1
<1> HIDE DEF l
<1>11. PICK at : Joins(q.chunks, ss, l, at)
  BY <1>7, <1>9, <1>10, Flattened
<1>12. Spreads(q.chunks, ss, l, at)
  BY <1>1, <1>9, <1>10, <1>11, JoinedPlaces
<1>13. ASSUME NEW i \in 1 .. l
       PROVE  /\ at[i] \in Nat \ {0}
              /\ at[i + 1] \in 1 .. Len(q.chunks) + 1
              /\ at[i + 1] = at[i] + Len(ss[i])
              /\ \A k \in 1 .. Len(ss[i]) : q.chunks[at[i] + k - 1] = ss[i][k]
  <2>1. i \in 1 .. l + 1 /\ i + 1 \in 1 .. l + 1
    BY <1>10
  <2>2. at[i] \in 1 .. Len(q.chunks) + 1 /\ at[i + 1] \in 1 .. Len(q.chunks) + 1
    BY <1>12, <2>1 DEF Spreads
  <2>3. at[i] \in Nat \ {0}
    BY <2>2
  <2> QED
    BY <1>11, <2>2, <2>3 DEF Joins
<1>14. ASSUME NEW i \in 1 .. l PROVE SlotFilled(p, q, edits, m, place, kept, at, i)
  <2> DEFINE a == pieces(i)
             e == Patched(p, edits)[i]
             len == Len(a)
  <2>1. a \in Seq(Y)
    BY <1>3
  <2>2. /\ at[i] \in Nat \ {0} /\ at[i + 1] \in 1 .. Len(q.chunks) + 1
        /\ at[i + 1] = at[i] + Len(ss[i])
        /\ \A k \in 1 .. Len(ss[i]) : q.chunks[at[i] + k - 1] = ss[i][k]
    BY <1>13
  <2>3. ss[i] = IF i \in kept THEN Append(a, e) ELSE a
    BY <1>5
  <2>4. i \in kept => e \in Y
    BY <1>6
  <2>5. a = Pieces(edits, m, place, i)
    BY DEF pieces
  <2> HIDE DEF a, e
  <2>6. len \in Nat
    BY <2>1
  <2>7. CASE i \in kept
    <3>1. /\ Len(ss[i]) = len + 1 /\ ss[i][len + 1] = e
          /\ \A k \in 1 .. len : ss[i][k] = a[k]
      BY <2>1, <2>3, <2>4, <2>7
    <3> HIDE DEF len
    <3>2. /\ at[i + 1] = at[i] + len + 1
          /\ at[i + 1] - 1 \in 1 .. Len(q.chunks) /\ at[i] + len <= Len(q.chunks) + 1
          /\ at[i] + (len + 1) - 1 = at[i + 1] - 1
          /\ len + 1 \in 1 .. Len(ss[i])
      BY <1>1, <2>2, <2>6, <3>1
    <3>3. q.chunks[at[i + 1] - 1] = e
      BY <2>2, <3>1, <3>2
    <3>4. \A k \in 1 .. len : q.chunks[at[i] + k - 1] = a[k]
      <4> SUFFICES ASSUME NEW k \in 1 .. len PROVE q.chunks[at[i] + k - 1] = a[k]
        OBVIOUS
      <4>1. k \in 1 .. Len(ss[i])
        BY <2>6, <3>1
      <4> QED
        BY <2>2, <3>1, <4>1
    <3>5. Holds(q, at[i], a)
      BY <3>2, <3>4 DEF Holds, len
    <3>6. at[i + 1] = at[i] + Len(a) + (IF i \in kept THEN 1 ELSE 0)
      BY <2>7, <3>2 DEF len
    <3> QED
      BY <2>2, <2>5, <3>2, <3>3, <3>5, <3>6 DEF SlotFilled, e
  <2>8. CASE i \notin kept
    <3>1. ss[i] = a
      BY <2>3, <2>8
    <3>2. Holds(q, at[i], a)
      BY <2>2, <3>1 DEF Holds
    <3>3. at[i + 1] = at[i] + Len(a) + (IF i \in kept THEN 1 ELSE 0)
      BY <2>2, <2>6, <2>8, <3>1
    <3> QED
      BY <2>2, <2>5, <2>8, <3>2, <3>3 DEF SlotFilled
  <2> QED
    BY <2>7, <2>8
<1>15. at \in [1 .. l + 1 -> Nat] /\ at[1] = 1 /\ at[l + 1] = Len(q.chunks) + 1
  BY <1>11 DEF Joins
<1>16. Filled(p, q, edits, m, place, loss, at)
  <2>1. /\ at \in [1 .. n + 2 -> Nat] /\ at[1] = 1 /\ at[n + 2] = Len(q.chunks) + 1
    BY <1>10, <1>15
  <2>2. \A i \in 1 .. n + 1 : SlotFilled(p, q, edits, m, place, kept, at, i)
    BY <1>14 DEF l
  <2> QED
    BY <2>1, <2>2 DEF Filled, n, kept
<1> QED
  BY <1>16

\* A batch keeps the chunks that no edit takes away ...
LEMMA BatchSettles ==
  ASSUME NEW p, WellFormed(p), NEW edits, NEW ids, NEW m, NEW place, NEW gain, NEW loss,
         EditsAt(p, edits, ids, m, place, gain, loss),
         NEW q, WellFormed(q), NEW at, Filled(p, q, edits, m, place, loss, at)
  PROVE  Settled(p, q, ids, at, Untouched(p, m, place, loss))
<1> DEFINE n == Len(p.chunks)
           kept == Untouched(p, m, place, loss)
           X == NewRecords(edits, m)
<1>1. n \in Nat /\ Len(q.chunks) \in Nat
  BY ChunksStartInOrder
<1>2. \A i : i \in kept <=> i \in 1 .. n /\ ~ Taken(m, place, loss, i)
  BY DEF Untouched
<1>3. /\ at \in [1 .. n + 2 -> Nat]
      /\ at[1] = 1 /\ at[n + 2] = Len(q.chunks) + 1
      /\ \A i \in 1 .. n + 1 : SlotFilled(p, q, edits, m, place, kept, at, i)
  BY DEF Filled
<1>4. ASSUME NEW i \in 1 .. n, i \notin kept
      PROVE  p.chunks[i].kind = "record" /\ p.chunks[i].id \in ids
  <2>1. PICK j \in 1 .. m : place[j] = i /\ loss[j] # 0
    BY <1>2, <1>4 DEF Taken
  <2> QED
    BY <2>1 DEF EditsAt
<1>5. ASSUME NEW i \in kept PROVE p.chunks[i].kind = "record" => p.chunks[i].id \notin ids
  BY <1>2 DEF EditsAt, Taken
<1> HIDE DEF n, kept
<1>6. ASSUME NEW i \in 1 .. n + 1
      PROVE  /\ at[i] <= at[i + 1] /\ (i \in kept => at[i] < at[i + 1])
             /\ \A k \in Nat : /\ at[i] <= k /\ k < at[i + 1]
                               /\ i \in kept => k # at[i + 1] - 1
                               => q.chunks[k].kind = "record" /\ q.chunks[k].id \in ids
  <2> DEFINE a == Pieces(edits, m, place, i)
             len == Len(a)
             one == IF i \in kept THEN 1 ELSE 0
  <2>1. /\ at[i] \in Nat \ {0}
        /\ at[i + 1] = at[i] + len + one
        /\ \A k \in 1 .. len : q.chunks[at[i] + k - 1] = a[k]
    BY <1>3 DEF SlotFilled, Holds
  <2>2. a \in Seq(X) /\ \A x \in X : x.kind = "record" /\ x.id \in ids
    BY PiecesAreNew
  <2> HIDE DEF X, a
  <2>3. len \in Nat /\ \A k \in 1 .. len : a[k].kind = "record" /\ a[k].id \in ids
    BY <2>2
  <2>4. one \in {0, 1} /\ (i \in kept <=> one = 1)
    OBVIOUS
  <2> HIDE DEF len, one
  <2>5. at[i] <= at[i + 1] /\ (i \in kept => at[i] < at[i + 1])
    BY <2>1, <2>3, <2>4
  <2>6. ASSUME NEW k \in Nat, at[i] <= k, k < at[i + 1], i \in kept => k # at[i + 1] - 1
        PROVE  q.chunks[k].kind = "record" /\ q.chunks[k].id \in ids
    <3> DEFINE h == k - at[i] + 1
    <3>1. h \in 1 .. len /\ at[i] + h - 1 = k
      BY <2>1, <2>3, <2>4, <2>6
    <3> HIDE DEF h
    <3> QED
      BY <2>1, <2>3, <3>1
  <2> QED
    BY <2>5, <2>6
<1>7. ASSUME NEW i \in kept
      PROVE  SameEntry(p.chunks[i], q.chunks[at[i + 1] - 1])
  <2>1. i \in 1 .. n /\ i \in 1 .. n + 1
    BY <1>1, <1>2
  <2>2. q.chunks[at[i + 1] - 1] = Patched(p, edits)[i]
    BY <1>3, <2>1 DEF SlotFilled
  <2> QED
    BY <2>1, <2>2, PatchedChunks DEF n
<1>8. /\ kept \subseteq 1 .. n
      /\ \A i \in kept : i \in 1 .. n + 1
  BY <1>1, <1>2
<1>9. Settled(p, q, ids, at, kept)
  BY <1>3, <1>4, <1>5, <1>6, <1>7, <1>8 DEF Settled, n
<1> QED
  BY <1>9 DEF kept

\* ... its slots are as long as the chunks and the edits make them ...
LEMMA BatchMeasures ==
  ASSUME NEW p, WellFormed(p), NEW edits, NEW ids, NEW m, NEW place, NEW gain, NEW loss,
         EditsAt(p, edits, ids, m, place, gain, loss),
         NEW q, WellFormed(q), NEW at, Filled(p, q, edits, m, place, loss, at)
  PROVE  Measured(p, q, at, Untouched(p, m, place, loss), m, place, gain, loss)
<1> DEFINE n == Len(p.chunks)
           kept == Untouched(p, m, place, loss)
           gained(i) == SumOver(m, gain, At(m, place, i))
           lost(i) == SumOver(m, loss, At(m, place, i))
           sum(i) == SumOver(m, Difference(m, gain, loss), At(m, place, i))
<1>1. /\ n \in Nat /\ Len(q.chunks) \in Nat
      /\ \A i \in 1 .. Len(q.chunks) + 1 : Start(q, i) \in Nat
      /\ \A i \in 1 .. Len(q.chunks) : Start(q, i + 1) = Start(q, i) + OwnSize(q.chunks[i])
  BY ChunksStartInOrder
<1>2. \A i : i \in kept <=> i \in 1 .. n /\ ~ Taken(m, place, loss, i)
  BY DEF Untouched
<1>3. \A i \in 1 .. n + 1 : SlotFilled(p, q, edits, m, place, kept, at, i)
  BY DEF Filled
<1>4. ASSUME NEW i
      PROVE  /\ gained(i) \in Int /\ lost(i) \in Int /\ sum(i) = gained(i) - lost(i)
             /\ i \in 1 .. n => lost(i) = IF i \in kept THEN 0 ELSE OwnSize(p.chunks[i])
  <2>1. m \in Nat /\ gain \in [1 .. m -> Nat] /\ loss \in [1 .. m -> Nat]
    BY DEF EditsAt
  <2>2. gained(i) \in Int /\ lost(i) \in Int /\ sum(i) = gained(i) - lost(i)
    BY <2>1, SumOfTheDifference
  <2>3. lost(i) = IF Taken(m, place, loss, i) THEN OwnSize(p.chunks[i]) ELSE 0
    BY TakenMeasures
  <2> HIDE DEF gained, lost, sum
  <2> QED
    BY <1>2, <2>2, <2>3
<1>5. ASSUME NEW i \in 1 .. n + 1
      PROVE  /\ Start(q, InsertedEnd(at, kept, i)) - Start(q, at[i]) = gained(i)
             /\ i \in 1 .. n =>
                  Start(q, at[i + 1]) - Start(q, at[i]) = OwnSize(p.chunks[i]) + sum(i)
  <2> DEFINE a == Pieces(edits, m, place, i)
             b == at[i] + Len(a)
  <2>1. /\ at[i] \in Nat \ {0} /\ Holds(q, at[i], a)
        /\ at[i + 1] = at[i] + Len(a) + (IF i \in kept THEN 1 ELSE 0)
        /\ i \in kept => /\ at[i + 1] - 1 \in 1 .. Len(q.chunks)
                         /\ q.chunks[at[i + 1] - 1] = Patched(p, edits)[i]
    BY <1>3 DEF SlotFilled
  <2>2. Start(q, b) - Start(q, at[i]) = gained(i)
    BY <2>1, PiecesMeasure
  <2>3. Len(a) \in Nat /\ b <= Len(q.chunks) + 1
    BY <2>1, PiecesAreNew DEF Holds
  <2>4. b \in 1 .. Len(q.chunks) + 1 /\ at[i] \in 1 .. Len(q.chunks) + 1
    <3> DEFINE len == Len(a)
               k == at[i]
    <3>1. len \in Nat /\ k \in Nat \ {0} /\ k + len <= Len(q.chunks) + 1
      BY <2>1, <2>3
    <3> HIDE DEF len, k
    <3>2. k + len \in 1 .. Len(q.chunks) + 1 /\ k \in 1 .. Len(q.chunks) + 1
      BY <1>1, <3>1
    <3> QED
      BY <3>2 DEF len, k
  <2>5. Start(q, b) \in Nat /\ Start(q, at[i]) \in Nat
    BY <1>1, <2>4
  <2>6. at[i + 1] = b + (IF i \in kept THEN 1 ELSE 0)
    BY <2>1, <2>3
  <2> HIDE DEF a, b, kept, gained, lost, sum
  <2>7. InsertedEnd(at, kept, i) = b
    BY <2>4, <2>6 DEF InsertedEnd
  <2>8. ASSUME i \in 1 .. n
        PROVE  Start(q, at[i + 1]) - Start(q, at[i]) = OwnSize(p.chunks[i]) + sum(i)
    <3> DEFINE own == OwnSize(p.chunks[i])
               s == Start(q, at[i])
               t == Start(q, b)
               u == Start(q, at[i + 1])
    <3>1. own \in Nat
      BY <2>8, ChunkTypes
    <3>2. gained(i) \in Int /\ lost(i) \in Int /\ sum(i) = gained(i) - lost(i)
      BY <1>4
    <3>3. lost(i) = IF i \in kept THEN 0 ELSE own
      BY <1>4, <2>8
    <3>4. u = t + (IF i \in kept THEN own ELSE 0)
      <4>1. CASE i \in kept
        <5>1. at[i + 1] = b + 1 /\ at[i + 1] - 1 = b
          BY <2>4, <2>6, <4>1
        <5>2. b \in 1 .. Len(q.chunks) /\ q.chunks[b] = Patched(p, edits)[i]
          BY <2>1, <4>1, <5>1
        <5>3. OwnSize(q.chunks[b]) = own
          BY <2>8, <5>2, PatchedChunks DEF n
        <5> QED
          BY <1>1, <4>1, <5>1, <5>2, <5>3
      <4>2. CASE i \notin kept
        <5>1. at[i + 1] = b
          BY <2>4, <2>6, <4>2
        <5> QED
          BY <2>5, <4>2, <5>1
      <4> QED
        BY <4>1, <4>2
    <3>5. t \in Nat /\ s \in Nat /\ t - s = gained(i)
      BY <2>2, <2>5
    <3> HIDE DEF own, s, t, u
    <3>6. u - s = own + sum(i)
      BY <3>1, <3>2, <3>3, <3>4, <3>5
    <3> QED
      BY <3>6 DEF own, s, u
  <2> QED
    BY <2>2, <2>7, <2>8
<1>6. Measured(p, q, at, kept, m, place, gain, loss)
  <2>1. \A i \in 1 .. n : i \in 1 .. n + 1
    BY <1>1
  <2> QED
    BY <1>5, <2>1 DEF Measured
<1> QED
  BY <1>6 DEF kept

\* The groups that the edits change are those around them, as GroupsGrow says of one.
GrowsAround(p, edits, m, place, loss) ==
  \A g \in Groups(p) : \A j \in 1 .. m :
    /\ g < place[j] /\ Start(p, place[j]) < End(p, g) => g \in Grows(p, edits[j])
    /\ g \in Grows(p, edits[j]) =>
         /\ g < place[j] /\ Start(p, place[j]) <= End(p, g)
         /\ Start(p, place[j]) = End(p, g) => loss[j] = 0

\* A group grows by what the edits in it add.
LEMMA GroupsGrowBySums ==
  ASSUME NEW p, WellFormed(p), NEW edits, NEW ids, NEW m, NEW place, NEW gain, NEW loss,
         EditsAt(p, edits, ids, m, place, gain, loss), NEW g \in Groups(p)
  PROVE  GroupDelta(p, edits, g)
           = SumOver(m, Difference(m, gain, loss), {j \in 1 .. m : g \in Grows(p, edits[j])})
<1> DEFINE n == Len(p.chunks)
           d == Difference(m, gain, loss)
<1>1. n \in Nat
  BY ChunksStartInOrder
<1>2. ASSUME NEW j \in 1 .. m PROVE ByteDelta(edits[j]) = d[j]
  <2>1. d[j] = gain[j] - loss[j]
    BY DEF Difference
  <2>2. /\ Start(p, place[j]) \in Nat
        /\ edits[j].end - edits[j].start = loss[j]
    <3>1. /\ place[j] \in 1 .. n + 1 /\ loss[j] \in Nat
          /\ edits[j].start = Start(p, place[j])
          /\ edits[j].end = Start(p, place[j]) + loss[j]
      BY DEF EditsAt
    <3>2. Start(p, place[j]) \in Nat
      BY <3>1, ChunksStartInOrder
    <3> QED
      BY <3>1, <3>2
  <2>3. (IF edits[j].pieces = <<>> THEN 0 ELSE RecordSize(edits[j].pieces[1])) = gain[j]
    <3>1. \/ edits[j].pieces = <<>> /\ gain[j] = 0
          \/ /\ \E x : edits[j].pieces = <<x>>
             /\ gain[j] = RecordSize(edits[j].pieces[1])
      BY DEF EditsAt
    <3>2. \A x : <<x>> # <<>>
      OBVIOUS
    <3> QED
      BY <3>1, <3>2
  <2> HIDE DEF d
  <2> QED
    BY <2>1, <2>2, <2>3 DEF ByteDelta
<1> DEFINE S == {j \in 1 .. m : g \in Grows(p, edits[j])}
<1>3. DOMAIN edits = 1 .. m
  BY DEF EditsAt
<1>4. \A j \in 1 .. m : j \in S <=> g \in Grows(p, edits[j])
  OBVIOUS
<1> HIDE DEF S, d
<1>5. [j \in DOMAIN edits |-> IF g \in Grows(p, edits[j]) THEN ByteDelta(edits[j]) ELSE 0]
        = [j \in 1 .. m |-> IF j \in S THEN d[j] ELSE 0]
  BY <1>2, <1>3, <1>4
<1>6. GroupDelta(p, edits, g) = SumOver(m, d, S)
  BY <1>5 DEF GroupDelta, SumOver
<1> QED
  BY <1>6 DEF S, d

\* ... and its groups grow by what is put into them.
LEMMA BatchResizes ==
  ASSUME NEW p, WellFormed(p), NEW edits, NEW ids, NEW m, NEW place, NEW gain, NEW loss,
         EditsAt(p, edits, ids, m, place, gain, loss), GrowsAround(p, edits, m, place, loss),
         NEW q, WellFormed(q), NEW at, Filled(p, q, edits, m, place, loss, at)
  PROVE  Resized(p, q, at, m, place, gain, loss, [j \in 1 .. m |-> Grows(p, edits[j])])
<1> DEFINE n == Len(p.chunks)
           kept == Untouched(p, m, place, loss)
           grown == [j \in 1 .. m |-> Grows(p, edits[j])]
           d == Difference(m, gain, loss)
<1>1. n \in Nat /\ DOMAIN p.chunks = 1 .. n
  BY ChunksStartInOrder
<1>2. ASSUME NEW g \in Groups(p)
      PROVE  g \in 1 .. n /\ p.chunks[g].kind = "group" /\ g \in kept
  <2>1. g \in 1 .. n /\ p.chunks[g].kind = "group"
    BY <1>1 DEF Groups
  <2>2. \A j \in 1 .. m : loss[j] # 0 => p.chunks[place[j]].kind = "record"
    BY DEF EditsAt
  <2>3. ~ Taken(m, place, loss, g)
    BY <2>1, <2>2 DEF Taken
  <2> QED
    BY <2>1, <2>3 DEF Untouched
<1>4. ASSUME NEW g \in Groups(p)
      PROVE  GroupDelta(p, edits, g) = SumOver(m, d, {j \in 1 .. m : g \in grown[j]})
  <2>1. {j \in 1 .. m : g \in grown[j]} = {j \in 1 .. m : g \in Grows(p, edits[j])}
    OBVIOUS
  <2>2. GroupDelta(p, edits, g) = SumOver(m, d, {j \in 1 .. m : g \in Grows(p, edits[j])})
    BY GroupsGrowBySums
  <2> QED
    BY <2>1, <2>2
<1> HIDE DEF d
<1>5. ASSUME NEW g \in Groups(p)
      PROVE  q.chunks[at[g + 1] - 1].size
               = p.chunks[g].size + SumOver(m, d, {j \in 1 .. m : g \in grown[j]})
  <2>1. g \in 1 .. n /\ p.chunks[g].kind = "group" /\ g \in kept /\ g \in 1 .. n + 1
    BY <1>1, <1>2
  <2>2. q.chunks[at[g + 1] - 1] = Patched(p, edits)[g]
    BY <2>1 DEF Filled, SlotFilled
  <2>3. Patched(p, edits)[g].size = p.chunks[g].size + GroupDelta(p, edits, g)
    BY <2>1, PatchedChunks
  <2> HIDE DEF grown, kept
  <2> QED
    BY <1>4, <2>2, <2>3
<1>6. \A j \in 1 .. m : grown[j] = Grows(p, edits[j])
  OBVIOUS
<1> HIDE DEF grown
<1>7. Resized(p, q, at, m, place, gain, loss, grown)
  BY <1>5, <1>6 DEF Resized, GrowsAround, d
<1> QED
  BY <1>7 DEF grown

\* So edits keep the rest, however many they are.
LEMMA EditsKeepTheRest ==
  ASSUME NEW p, WellFormed(p), Scans(p), NEW edits, NEW ids,
         NEW m, NEW place, NEW gain, NEW loss,
         EditsAt(p, edits, ids, m, place, gain, loss), GrowsAround(p, edits, m, place, loss),
         NEW q, WellFormed(q), q.chunks = Rewritten(p, edits)
  PROVE  KeepsTheRest(p, q, ids)
<1> DEFINE kept == Untouched(p, m, place, loss)
           grown == [j \in 1 .. m |-> Grows(p, edits[j])]
<1>1. PICK at : Filled(p, q, edits, m, place, loss, at)
  BY SlotsFill
<1>2. Settled(p, q, ids, at, kept)
  BY <1>1, BatchSettles
<1>3. Measured(p, q, at, kept, m, place, gain, loss)
  BY <1>1, BatchMeasures
<1>4. Resized(p, q, at, m, place, gain, loss, grown)
  BY <1>1, BatchResizes
<1>5. /\ m \in Nat /\ place \in [1 .. m -> 1 .. Len(p.chunks) + 1]
      /\ gain \in [1 .. m -> Nat] /\ loss \in [1 .. m -> Nat]
  BY DEF EditsAt
<1> HIDE DEF kept, grown
<1>6. GroupsFit(p, q, at, kept)
  BY <1>2, <1>3, <1>4, <1>5, EditsFit
<1> QED
  BY <1>2, <1>6, SettledKeepsTheRest

\* A group, its parents and no others grow by a record at its end.
LEMMA TargetGroupsGrow ==
  ASSUME NEW p, WellFormed(p), Scans(p), NEW target \in Groups(p),
         NEW i \in 1 .. Len(p.chunks) + 1, Start(p, i) = End(p, target), target < i,
         NEW g \in Groups(p)
  PROVE  /\ g < i /\ Start(p, i) < End(p, g) => g \in {target} \cup Ancestors(p, target)
         /\ g \in {target} \cup Ancestors(p, target) => g < i /\ Start(p, i) <= End(p, g)
<1> DEFINE n == Len(p.chunks)
<1>1. /\ n \in Nat /\ DOMAIN p.chunks = 1 .. n
      /\ \A j \in 1 .. n + 1 : Start(p, j) \in Nat
      /\ \A j, k \in 1 .. n + 1 : j < k <=> Start(p, j) < Start(p, k)
  BY ChunksStartInOrder
<1>2. /\ g \in 1 .. n /\ p.chunks[g].kind = "group" /\ g \in 1 .. n + 1
      /\ target \in 1 .. n /\ p.chunks[target].kind = "group" /\ target \in 1 .. n + 1
  BY <1>1 DEF Groups
<1>3. /\ End(p, g) = Start(p, g) + p.chunks[g].size /\ End(p, g) \in Nat
      /\ End(p, target) \in Nat
  BY <1>2, ChunksEnd
<1>4. g \in Ancestors(p, target) <=> g < target /\ Start(p, target) < End(p, g)
  BY <1>1, <1>2, <1>3 DEF Ancestors, Start
<1>5. \A h \in Groups(p) : \A j \in 1 .. n :
        Start(p, h) < Start(p, j) /\ Start(p, j) < End(p, h) => End(p, j) <= End(p, h)
  BY <1>1 DEF Scans, Start, End
<1> HIDE DEF n
<1> DEFINE sg == Start(p, g)
           eg == End(p, g)
           st == Start(p, target)
           et == End(p, target)
<1>6. sg \in Nat /\ eg \in Nat /\ st \in Nat /\ et \in Nat
  BY <1>1, <1>2, <1>3
<1>7. (sg < st /\ st < eg => et <= eg) /\ (st < sg /\ sg < et => eg <= et)
  BY <1>2, <1>5
<1>8. (g < target <=> sg < st) /\ (target < g <=> st < sg) /\ (g < i <=> sg < et)
  <2>1. i \in 1 .. n + 1
    BY DEF n
  <2> QED
    BY <1>1, <1>2, <2>1
<1>9. st < et
  <2>1. target < i <=> Start(p, target) < Start(p, i)
    BY <1>1, <1>2 DEF n
  <2> QED
    BY <2>1
<1>10. g \in Ancestors(p, target) <=> g < target /\ st < eg
  BY <1>4
<1>11. g \in Int /\ target \in Int /\ i \in Int /\ target < i
  BY <1>1, <1>2 DEF n
<1>12. g = target => eg = et
  OBVIOUS
<1> HIDE DEF sg, eg, st, et
<1>13. /\ g < i /\ et < eg => g = target \/ g \in Ancestors(p, target)
       /\ g = target \/ g \in Ancestors(p, target) => g < i /\ et <= eg
  BY <1>6, <1>7, <1>8, <1>9, <1>10, <1>11, <1>12
<1> QED
  BY <1>13 DEF et, eg

\* The places, gains and losses of the edits that a batch makes.
BatchPlace(p, mutations) ==
  [j \in DOMAIN mutations |->
     IF mutations[j].kind = "insert"
     THEN CHOOSE i \in 1 .. Len(p.chunks) + 1 :
            /\ Start(p, i) = InsertionPoint(p, mutations[j].target)
            /\ mutations[j].target # Root => mutations[j].target < i
     ELSE IndexOf(p, mutations[j].id)]

\* What each mutation puts in,
BatchGain(mutations) ==
  [j \in DOMAIN mutations |->
     IF mutations[j].kind = "delete" THEN 0
     ELSE RecordSize(Record(mutations[j].id, mutations[j].payload))]

\* and what it takes away.
BatchLoss(p, mutations) ==
  [j \in DOMAIN mutations |->
     IF mutations[j].kind = "insert" THEN 0
     ELSE RecordSize(p.chunks[IndexOf(p, mutations[j].id)])]

\* A batch of m mutations.
IsBatch(mutations, m) ==
  /\ m \in Nat /\ m # 0 /\ DOMAIN mutations = 1 .. m
  /\ \A j \in 1 .. m : /\ mutations[j].kind \in {"insert", "replace", "delete"}
                       /\ mutations[j].payload \in Nat

\* The edit of a mutation that is valid.
LEMMA MutationEdit ==
  ASSUME NEW p, Opens(p), NEW mutations, NEW m, IsBatch(mutations, m),
         NEW j \in 1 .. m, MutationValid(p, mutations[j])
  PROVE  LET e == ByteEdits(p, mutations)[j]
             i == BatchPlace(p, mutations)[j]
             gain == BatchGain(mutations)[j]
             loss == BatchLoss(p, mutations)[j]
         IN /\ i \in 1 .. Len(p.chunks) + 1 /\ gain \in Nat /\ loss \in Nat
            /\ e = ByteEdit(p, mutations[j])
            /\ e.start = Start(p, i) /\ e.end = Start(p, i) + loss
            /\ \/ e.pieces = <<>> /\ gain = 0
               \/ /\ e.pieces = <<Record(mutations[j].id, mutations[j].payload)>>
                  /\ gain = RecordSize(Record(mutations[j].id, mutations[j].payload))
            /\ mutations[j].kind = "insert" =>
                 /\ loss = 0 /\ IsTarget(p, mutations[j].target) /\ mutations[j].id \notin Ids(p)
                 /\ e.group = mutations[j].target
                 /\ Start(p, i) = InsertionPoint(p, mutations[j].target)
                 /\ mutations[j].target # Root => mutations[j].target < i
            /\ mutations[j].kind # "insert" =>
                 /\ i \in 1 .. Len(p.chunks) /\ loss = RecordSize(p.chunks[i]) /\ loss # 0
                 /\ p.chunks[i].kind = "record" /\ p.chunks[i].id = mutations[j].id
                 /\ i = IndexOf(p, mutations[j].id) /\ mutations[j].id \in Ids(p)
                 /\ e.group = Root /\ e.end = End(p, i)
<1> DEFINE mu == mutations[j]
           e == ByteEdits(p, mutations)[j]
           i == BatchPlace(p, mutations)[j]
           gain == BatchGain(mutations)[j]
           loss == BatchLoss(p, mutations)[j]
           n == Len(p.chunks)
<1>1. /\ DOMAIN mutations = 1 .. m /\ mu.kind \in {"insert", "replace", "delete"}
      /\ mu.payload \in Nat
      /\ MutationValid(p, mu)
  BY DEF IsBatch
<1>2. WellFormed(p) /\ Scans(p) /\ n \in Nat /\ \A x \in 1 .. n + 1 : Start(p, x) \in Nat
  BY ChunksStartInOrder DEF Opens, Indexes
<1>3. /\ e = ByteEdit(p, mu)
      /\ i = IF mu.kind = "insert"
             THEN CHOOSE x \in 1 .. n + 1 : /\ Start(p, x) = InsertionPoint(p, mu.target)
                                            /\ mu.target # Root => mu.target < x
             ELSE IndexOf(p, mu.id)
      /\ gain = IF mu.kind = "delete" THEN 0 ELSE RecordSize(Record(mu.id, mu.payload))
      /\ loss = IF mu.kind = "insert" THEN 0 ELSE RecordSize(p.chunks[IndexOf(p, mu.id)])
  BY <1>1 DEF ByteEdits, BatchPlace, BatchGain, BatchLoss
<1> DEFINE x == Record(mu.id, mu.payload)
<1>4. RecordSize(x) \in Nat
  BY <1>1 DEF Record, RecordSize, RecordHeaderSize
<1> HIDE DEF mu, e, i, gain, loss, x
<1>5. CASE mu.kind = "insert"
  <2>1. IsTarget(p, mu.target) /\ mu.id \notin Ids(p)
    BY <1>1, <1>5 DEF MutationValid, CanInsert
  <2>2. \E y \in 1 .. n + 1 : /\ Start(p, y) = InsertionPoint(p, mu.target)
                              /\ mu.target # Root => mu.target < y
    BY <2>1, InsertionPlace
  <2>3. /\ i \in 1 .. n + 1 /\ Start(p, i) = InsertionPoint(p, mu.target)
        /\ mu.target # Root => mu.target < i
    BY <1>3, <1>5, <2>2
  <2>4. loss = 0 /\ gain = RecordSize(x)
    BY <1>3, <1>5 DEF x
  <2>5. /\ e.start = InsertionPoint(p, mu.target) /\ e.end = InsertionPoint(p, mu.target)
        /\ e.pieces = <<x>> /\ e.group = mu.target
    BY <1>3, <1>5 DEF ByteEdit, x
  <2>6. e.end = Start(p, i) + loss
    BY <1>2, <2>3, <2>4, <2>5
  <2> QED
    BY <1>3, <1>4, <1>5, <2>1, <2>3, <2>4, <2>5, <2>6 DEF mu, e, i, gain, loss, x
<1>6. CASE mu.kind # "insert"
  <2>1. mu.id \in Ids(p)
    BY <1>1, <1>6 DEF MutationValid
  <2>2. i = IndexOf(p, mu.id)
    BY <1>3, <1>6
  <2>3. i \in 1 .. n /\ p.chunks[i].kind = "record" /\ p.chunks[i].id = mu.id
    BY <2>1, <2>2, IndexOfARecord
  <2>4. loss = RecordSize(p.chunks[i]) /\ OwnSize(p.chunks[i]) = RecordSize(p.chunks[i])
    BY <1>3, <1>6, <2>2, <2>3 DEF OwnSize
  <2>5. RecordSize(p.chunks[i]) \in Nat /\ RecordSize(p.chunks[i]) # 0
    <3>1. p.chunks[i].payload \in Nat
      BY <1>2, <2>3, ChunksStartInOrder DEF WellFormed, IsRecord, IsGroup
    <3> QED
      BY <3>1 DEF RecordSize, RecordHeaderSize
  <2>6. End(p, i) = Start(p, i) + RecordSize(p.chunks[i])
    BY <2>3 DEF End, Span
  <2>7. /\ e.start = Start(p, i) /\ e.end = End(p, i) /\ e.group = Root
        /\ e.pieces = IF mu.kind = "replace" THEN <<x>> ELSE <<>>
    BY <1>3, <1>6, <2>2 DEF ByteEdit, x
  <2>8. /\ mu.kind = "replace" => gain = RecordSize(x)
        /\ mu.kind # "replace" => gain = 0
        /\ gain \in Nat
    BY <1>1, <1>3, <1>4, <1>6 DEF x
  <2>9. i \in 1 .. n + 1
    BY <1>2, <2>3
  <2> QED
    BY <1>3, <1>6, <2>1, <2>2, <2>3, <2>4, <2>5, <2>6, <2>7, <2>8, <2>9
       DEF mu, e, i, gain, loss, x
<1> QED
  BY <1>5, <1>6

\* One edit of a batch.
LEMMA BatchEdit ==
  ASSUME NEW p, Opens(p), NEW mutations, NEW m, IsBatch(mutations, m),
         BatchValid(p, mutations), NEW j \in 1 .. m
  PROVE  LET e == ByteEdits(p, mutations)[j]
             i == BatchPlace(p, mutations)[j]
             gain == BatchGain(mutations)[j]
             loss == BatchLoss(p, mutations)[j]
         IN /\ i \in 1 .. Len(p.chunks) + 1 /\ gain \in Nat /\ loss \in Nat
            /\ e = ByteEdit(p, mutations[j])
            /\ e.start = Start(p, i) /\ e.end = Start(p, i) + loss
            /\ \/ e.pieces = <<>> /\ gain = 0
               \/ /\ e.pieces = <<Record(mutations[j].id, mutations[j].payload)>>
                  /\ gain = RecordSize(Record(mutations[j].id, mutations[j].payload))
            /\ mutations[j].kind = "insert" =>
                 /\ loss = 0 /\ IsTarget(p, mutations[j].target) /\ mutations[j].id \notin Ids(p)
                 /\ e.group = mutations[j].target
                 /\ Start(p, i) = InsertionPoint(p, mutations[j].target)
                 /\ mutations[j].target # Root => mutations[j].target < i
            /\ mutations[j].kind # "insert" =>
                 /\ i \in 1 .. Len(p.chunks) /\ loss = RecordSize(p.chunks[i]) /\ loss # 0
                 /\ p.chunks[i].kind = "record" /\ p.chunks[i].id = mutations[j].id
                 /\ i = IndexOf(p, mutations[j].id) /\ mutations[j].id \in Ids(p)
                 /\ e.group = Root /\ e.end = End(p, i)
<1>1. j \in DOMAIN mutations
  BY DEF IsBatch
<1>2. MutationValid(p, mutations[j])
  BY <1>1 DEF BatchValid
<1> QED
  BY <1>2, MutationEdit

\* The mutations of a batch that is valid are such edits.
LEMMA BatchEditsAt ==
  ASSUME NEW p, Opens(p), NEW mutations, NEW m, IsBatch(mutations, m),
         BatchValid(p, mutations)
  PROVE  EditsAt(p, ByteEdits(p, mutations), Named(mutations), m,
                 BatchPlace(p, mutations), BatchGain(mutations), BatchLoss(p, mutations))
<1> DEFINE edits == ByteEdits(p, mutations)
           place == BatchPlace(p, mutations)
           gain == BatchGain(mutations)
           loss == BatchLoss(p, mutations)
           ids == Named(mutations)
           n == Len(p.chunks)
<1>1. m \in Nat /\ m # 0 /\ DOMAIN mutations = 1 .. m
  BY DEF IsBatch
<1>2. /\ DOMAIN edits = 1 .. m
      /\ DOMAIN place = 1 .. m /\ place = [j \in 1 .. m |-> place[j]]
      /\ DOMAIN gain = 1 .. m /\ gain = [j \in 1 .. m |-> gain[j]]
      /\ DOMAIN loss = 1 .. m /\ loss = [j \in 1 .. m |-> loss[j]]
  BY <1>1 DEF ByteEdits, BatchPlace, BatchGain, BatchLoss
<1>3. ASSUME NEW j \in 1 .. m
      PROVE  /\ place[j] \in 1 .. n + 1 /\ gain[j] \in Nat /\ loss[j] \in Nat
             /\ edits[j].start = Start(p, place[j]) /\ edits[j].end = Start(p, place[j]) + loss[j]
             /\ \/ edits[j].pieces = <<>> /\ gain[j] = 0
                \/ /\ edits[j].pieces = <<Record(mutations[j].id, mutations[j].payload)>>
                   /\ gain[j] = RecordSize(Record(mutations[j].id, mutations[j].payload))
             /\ mutations[j].kind = "insert" => loss[j] = 0 /\ mutations[j].id \notin Ids(p)
             /\ mutations[j].kind # "insert" =>
                  /\ place[j] \in 1 .. n /\ loss[j] = RecordSize(p.chunks[place[j]]) /\ loss[j] # 0
                  /\ p.chunks[place[j]].kind = "record"
                  /\ p.chunks[place[j]].id = mutations[j].id
                  /\ place[j] = IndexOf(p, mutations[j].id) /\ mutations[j].id \in Ids(p)
  BY BatchEdit
<1>4. \A j \in 1 .. m : mutations[j].id \in ids
  BY <1>1 DEF Named
<1>5. \A id \in ids : \E j \in 1 .. m : mutations[j].id = id
  BY <1>1 DEF Named
<1>6. \A j, k \in 1 .. m : mutations[j].id = mutations[k].id => j = k
  BY <1>1 DEF BatchValid
<1> HIDE DEF edits, place, gain, loss, ids
<1>7. ASSUME NEW j \in 1 .. m
      PROVE  /\ edits[j].start = Start(p, place[j])
             /\ edits[j].end = Start(p, place[j]) + loss[j]
             /\ \/ edits[j].pieces = <<>> /\ gain[j] = 0
                \/ /\ \E x : edits[j].pieces = <<x>>
                   /\ edits[j].pieces[1].kind = "record" /\ edits[j].pieces[1].id \in ids
                   /\ gain[j] = RecordSize(edits[j].pieces[1])
             /\ loss[j] # 0 =>
                  /\ place[j] \in 1 .. n
                  /\ p.chunks[place[j]].kind = "record" /\ p.chunks[place[j]].id \in ids
                  /\ loss[j] = RecordSize(p.chunks[place[j]])
  <2>1. ASSUME edits[j].pieces = <<Record(mutations[j].id, mutations[j].payload)>>,
               gain[j] = RecordSize(Record(mutations[j].id, mutations[j].payload))
        PROVE  /\ \E x : edits[j].pieces = <<x>>
               /\ edits[j].pieces[1].kind = "record" /\ edits[j].pieces[1].id \in ids
               /\ gain[j] = RecordSize(edits[j].pieces[1])
    <3> DEFINE x == Record(mutations[j].id, mutations[j].payload)
    <3>1. x.kind = "record" /\ x.id \in ids
      BY <1>4 DEF Record
    <3>2. edits[j].pieces = <<x>> /\ gain[j] = RecordSize(x)
      BY <2>1
    <3> HIDE DEF x
    <3>3. edits[j].pieces[1] = x
      BY <3>2
    <3> QED
      BY <3>1, <3>2, <3>3
  <2>2. loss[j] # 0 => mutations[j].kind # "insert"
    BY <1>3
  <2> QED
    BY <1>3, <1>4, <2>1, <2>2
<1>8. ASSUME NEW j \in 1 .. m, NEW k \in 1 .. m, loss[j] # 0, loss[k] # 0, place[j] = place[k]
      PROVE  j = k
  <2>1. p.chunks[place[j]].id = mutations[j].id /\ p.chunks[place[k]].id = mutations[k].id
    BY <1>3, <1>8
  <2> QED
    BY <1>6, <1>8, <2>1
<1>9. ASSUME NEW x \in 1 .. n, p.chunks[x].kind = "record", p.chunks[x].id \in ids
      PROVE  \E j \in 1 .. m : place[j] = x /\ loss[j] # 0
  <2>1. PICK j \in 1 .. m : mutations[j].id = p.chunks[x].id
    BY <1>5, <1>9
  <2>2. p.chunks[x].id \in Ids(p)
    <3>1. x \in Records(p)
      BY <1>9, RecordsAreFinite DEF Records
    <3> QED
      BY <3>1 DEF Ids
  <2>3. x = IndexOf(p, p.chunks[x].id)
    BY <1>9, <2>2, IndexOfARecord
  <2>4. mutations[j].kind # "insert"
    BY <1>3, <2>1, <2>2
  <2> QED
    BY <1>3, <2>1, <2>3, <2>4
<1>10. /\ place \in [1 .. m -> 1 .. n + 1] /\ gain \in [1 .. m -> Nat] /\ loss \in [1 .. m -> Nat]
  BY <1>2, <1>3
<1>11. EditsAt(p, edits, ids, m, place, gain, loss)
  BY <1>1, <1>2, <1>7, <1>8, <1>9, <1>10 DEF EditsAt
<1> QED
  BY <1>11 DEF edits, ids, place, gain, loss

\* And the groups they make grow are those around them.
LEMMA BatchGrowsAround ==
  ASSUME NEW p, Opens(p), NEW mutations, NEW m, IsBatch(mutations, m),
         BatchValid(p, mutations)
  PROVE  GrowsAround(p, ByteEdits(p, mutations), m, BatchPlace(p, mutations),
                     BatchLoss(p, mutations))
<1> DEFINE edits == ByteEdits(p, mutations)
           place == BatchPlace(p, mutations)
           loss == BatchLoss(p, mutations)
           n == Len(p.chunks)
<1> SUFFICES ASSUME NEW g \in Groups(p), NEW j \in 1 .. m
             PROVE  /\ g < place[j] /\ Start(p, place[j]) < End(p, g) => g \in Grows(p, edits[j])
                    /\ g \in Grows(p, edits[j]) =>
                         /\ g < place[j] /\ Start(p, place[j]) <= End(p, g)
                         /\ Start(p, place[j]) = End(p, g) => loss[j] = 0
  BY DEF GrowsAround
<1> DEFINE e == edits[j]
           i == place[j]
           out == loss[j]
           target == mutations[j].target
<1>1. /\ i \in 1 .. n + 1 /\ out \in Nat
      /\ e.start = Start(p, i) /\ e.end = Start(p, i) + out
      /\ mutations[j].kind = "insert" =>
           /\ out = 0 /\ IsTarget(p, target) /\ e.group = target
           /\ Start(p, i) = InsertionPoint(p, target)
           /\ target # Root => target < i
      /\ mutations[j].kind # "insert" =>
           /\ i \in 1 .. n /\ out # 0 /\ e.group = Root /\ e.end = End(p, i)
  BY BatchEdit
<1>2. WellFormed(p) /\ Scans(p) /\ n \in Nat /\ \A x \in 1 .. n + 1 : Start(p, x) \in Nat
  BY ChunksStartInOrder DEF Opens, Indexes
<1>3. \A h \in Groups(p) : h \in 1 .. n /\ h \in 1 .. n + 1
  BY <1>2, ChunksStartInOrder DEF Groups
<1> HIDE DEF e, i, out, target, edits, place, loss, n
<1>4. Start(p, i) \in Nat /\ Start(p, g) \in Nat /\ End(p, g) \in Nat
  <2>1. g \in 1 .. Len(p.chunks)
    BY <1>3 DEF n
  <2> QED
    BY <1>1, <1>2, <1>3, <2>1, ChunksEnd
<1>5. CASE e.group # Root
  <2>1. target \in Groups(p) /\ Start(p, i) = End(p, target) /\ target < i /\ out = 0
    BY <1>1, <1>5 DEF IsTarget, InsertionPoint
  <2>2. Grows(p, e) = {target} \cup Ancestors(p, target)
    BY <1>1, <1>5 DEF Grows
  <2>3. /\ g < i /\ Start(p, i) < End(p, g) => g \in {target} \cup Ancestors(p, target)
        /\ g \in {target} \cup Ancestors(p, target) => g < i /\ Start(p, i) <= End(p, g)
    BY <1>1, <1>2, <2>1, TargetGroupsGrow DEF n
  <2> QED
    BY <2>1, <2>2, <2>3 DEF e, i, out
<1>6. CASE e.group = Root
  <2>1. Grows(p, e) = {h \in Groups(p) : Start(p, h) < e.start /\ End(p, h) >= e.end}
    BY <1>6 DEF Grows
  <2> DEFINE to == e.end
             grown == ContainingGroups(p, Start(p, i), to)
  <2>2. g \in grown <=> Start(p, g) + GroupHeaderSize <= Start(p, i) /\ End(p, g) >= to
    BY DEF ContainingGroups
  <2>3. g \in Grows(p, e) <=> g \in grown
    BY <1>1, <1>4, <2>1, <2>2 DEF GroupHeaderSize
  <2>4. to \in {Start(p, i), IF i \in 1 .. n THEN End(p, i) ELSE Start(p, i)}
    BY <1>1, <1>4
  <2>5. to # Start(p, i) \/ out = 0
    BY <1>1, <1>4
  <2>6. /\ g < i /\ Start(p, i) < End(p, g) => g \in grown
        /\ g \in grown => /\ g < i /\ Start(p, i) <= End(p, g)
                          /\ to # Start(p, i) => Start(p, i) < End(p, g)
    <3> HIDE DEF to
    <3> QED
      BY <1>1, <1>2, <2>4, ContainingGroupsGrow DEF n
  <2> HIDE DEF to, grown
  <2>7. g \in grown /\ Start(p, i) = End(p, g) => out = 0
    BY <1>4, <2>5, <2>6
  <2> QED
    BY <2>3, <2>6, <2>7 DEF e, i, out
<1> QED
  BY <1>5, <1>6

\* apply_record_batch keeps every record that it does not name, and every group.
LEMMA BatchedKeepsTheRest ==
  ASSUME NEW p, Opens(p), NEW mutations, NEW m, IsBatch(mutations, m),
         BatchValid(p, mutations), WellFormed(Batched(p, mutations))
  PROVE  KeepsTheRest(p, Batched(p, mutations), Named(mutations))
<1>1. WellFormed(p) /\ Scans(p)
  BY DEF Opens, Indexes
<1>2. Batched(p, mutations).chunks = Rewritten(p, ByteEdits(p, mutations))
  BY DEF Batched, Rewrite
<1> QED
  BY <1>1, <1>2, BatchEditsAt, BatchGrowsAround, EditsKeepTheRest

\* The last call left everything but the records it names.
RestKept == KeepsTheRest(package, package', Named(last'.mutations))

\* reopen keeps the rest if the edit does.
LEMMA ReopenKeeps ==
  ASSUME NEW op, NEW mutations, NEW valid, NEW p, Reopen(op, mutations, valid, p),
         valid /\ Opens(p) => KeepsTheRest(package, p, Named(mutations))
  PROVE  RestKept
<1>1. last'.mutations = mutations
  BY ReopenAnswers
<1>2. CASE package' = package
  BY <1>1, <1>2 DEF RestKept, KeepsTheRest
<1>3. CASE valid /\ Opens(p) /\ package' = p
  BY <1>1, <1>3 DEF RestKept
<1> QED
  BY <1>2, <1>3 DEF Reopen

\* A call that names one record.
LEMMA NamedByOne ==
  ASSUME NEW kind, NEW id, NEW payload, NEW target
  PROVE  Named(<<Mutation(kind, id, payload, target)>>) = {id}
<1> DEFINE s == <<Mutation(kind, id, payload, target)>>
<1>1. DOMAIN s = {1} /\ s[1] = Mutation(kind, id, payload, target)
  OBVIOUS
<1>2. s[1].id = id
  BY <1>1 DEF Mutation
<1> HIDE DEF s
<1>3. Named(s) = {id}
  BY <1>1, <1>2 DEF Named
<1> QED
  BY <1>3 DEF s

\* A header call, whatever header it makes.
LEMMA EditHeaderKeeps ==
  ASSUME FilesInv, NEW op, NEW valid, NEW h, EditHeader(op, valid, h)
  PROVE  RestKept
<1> DEFINE p == Rewrite(package, package.chunks, h)
<1>1. p.chunks = package.chunks
  BY DEF Rewrite
<1>2. Reopen(op, <<>>, valid, p)
  BY DEF EditHeader
<1> HIDE DEF p
<1>3. Opens(p) => KeepsTheRest(package, p, Named(<<>>))
  <2>1. Opens(p) => WellFormed(p)
    BY DEF Opens
  <2> QED
    BY <1>1, <2>1, HeaderKeepsTheRest DEF FilesInv
<1> QED
  BY <1>2, <1>3, ReopenKeeps

\* Rebuilding scene offsets touches no chunk.
LEMMA RebuiltKeeps ==
  ASSUME FilesInv, Opens(Rebuilt(package)), NEW ids
  PROVE  KeepsTheRest(package, Rebuilt(package), ids)
<1>1. Rebuilt(package).chunks = package.chunks
  BY DEF Rebuilt, Rewrite
<1>2. WellFormed(Rebuilt(package))
  BY DEF Opens
<1> QED
  BY <1>1, <1>2, HeaderKeepsTheRest DEF FilesInv

\* Every call but open keeps the rest.
LEMMA CallKeepsTheRest ==
  ASSUME FilesInv, Next, last'.op # "open"
  PROVE  RestKept
<1>0. Opens(package) /\ Payloads \subseteq Nat
  BY SessionAssumption DEF FilesInv
<1>1. ASSUME NEW id \in KnownIds, NEW payload \in Payloads, ReplaceRecord(id, payload)
      PROVE  RestKept
  <2> DEFINE p == Replaced(package, id, payload)
             mutations == <<Mutation("replace", id, payload, Root)>>
  <2>1. id \in Ids(package) /\ Opens(p) => KeepsTheRest(package, p, {id})
    BY <1>0, ReplacedKeepsTheRest DEF Opens
  <2>2. Named(mutations) = {id}
    BY NamedByOne
  <2>3. Reopen("replace", mutations, id \in Ids(package), p)
    BY <1>1 DEF ReplaceRecord
  <2> HIDE DEF p, mutations
  <2> QED
    BY <2>1, <2>2, <2>3, ReopenKeeps
<1>2. ASSUME NEW id \in KnownIds, RemoveRecord(id)
      PROVE  RestKept
  <2> DEFINE p == Removed(package, id)
             mutations == <<Mutation("delete", id, 0, Root)>>
  <2>1. id \in Ids(package) /\ Opens(p) => KeepsTheRest(package, p, {id})
    BY <1>0, RemovedKeepsTheRest DEF Opens
  <2>2. Named(mutations) = {id}
    BY NamedByOne
  <2>3. Reopen("remove", mutations, id \in Ids(package), p)
    BY <1>2 DEF RemoveRecord
  <2> HIDE DEF p, mutations
  <2> QED
    BY <2>1, <2>2, <2>3, ReopenKeeps
<1>3. ASSUME NEW op, NEW target, NEW id, NEW payload \in Payloads,
             Reopen(op, <<Mutation("insert", id, payload, target)>>,
                    CanInsert(package, id) /\ IsTarget(package, target),
                    Inserted(package, target, id, payload))
      PROVE  RestKept
  <2> DEFINE p == Inserted(package, target, id, payload)
             mutations == <<Mutation("insert", id, payload, target)>>
             valid == CanInsert(package, id) /\ IsTarget(package, target)
  <2>1. valid => IsTarget(package, target) /\ id \notin Ids(package)
    BY DEF CanInsert
  <2>2. valid /\ Opens(p) => KeepsTheRest(package, p, {id})
    BY <1>0, <2>1, InsertedKeepsTheRest DEF Opens
  <2>3. Named(mutations) = {id}
    BY NamedByOne
  <2>4. Reopen(op, mutations, valid, p)
    BY <1>3
  <2> HIDE DEF p, mutations, valid
  <2> QED
    BY <2>2, <2>3, <2>4, ReopenKeeps
<1>4. ASSUME NEW mutations \in Batches, ApplyBatch(mutations)
      PROVE  RestKept
  <2>1. PICK m \in 0 .. MaxBatch : mutations \in [1 .. m -> Mutations]
    BY DEF Batches
  <2>2. CASE m = 0
    <3>1. mutations = <<>>
      BY <2>1, <2>2
    <3>2. package' = package
      BY <1>4, <3>1 DEF ApplyBatch
    <3> QED
      BY <3>2 DEF RestKept, KeepsTheRest
  <2>3. CASE m # 0
    <3>1. mutations # <<>>
      BY <2>1, <2>3
    <3>2. Reopen("batch", mutations, BatchValid(package, mutations), Batched(package, mutations))
      BY <1>4, <3>1 DEF ApplyBatch
    <3>3. ASSUME NEW x \in Mutations
          PROVE  x.kind \in {"insert", "replace", "delete"} /\ x.payload \in Nat
      BY <1>0 DEF Mutations, Mutation
    <3>4. IsBatch(mutations, m)
      <4>1. m \in Nat
        BY <2>1, SessionAssumption
      <4>2. \A j \in 1 .. m : mutations[j] \in Mutations
        BY <2>1
      <4> QED
        BY <2>1, <2>3, <3>3, <4>1, <4>2 DEF IsBatch
    <3>5. BatchValid(package, mutations) /\ Opens(Batched(package, mutations)) =>
            KeepsTheRest(package, Batched(package, mutations), Named(mutations))
      BY <1>0, <3>4, BatchedKeepsTheRest DEF Opens
    <3> QED
      BY <3>2, <3>5, ReopenKeeps
  <2> QED
    BY <2>2, <2>3
<1>5. ASSUME NEW class \in Classes, NEW text \in Texts, SetMetadata(class, text)
      PROVE  RestKept
  BY <1>5, EditHeaderKeeps DEF SetMetadata
<1>6. ASSUME NEW d \in OtherPackages, AddDependency(d) \/ RemoveDependency(d)
      PROVE  RestKept
  BY <1>6, EditHeaderKeeps DEF AddDependency, RemoveDependency
<1>7. ASSUME NEW d \in Rivals, AddIncompatibility(d) \/ RemoveIncompatibility(d)
      PROVE  RestKept
  BY <1>7, EditHeaderKeeps DEF AddIncompatibility, RemoveIncompatibility
<1>8. ASSUME NEW list \in StreamingLists, ReplaceStreamingOverrides(list)
      PROVE  RestKept
  BY <1>8, EditHeaderKeeps DEF ReplaceStreamingOverrides
<1>9. ASSUME RebuildSceneOffsets
      PROVE  RestKept
  BY <1>9, RebuiltKeeps, ReopenKeeps DEF RebuildSceneOffsets
<1>10. ASSUME RefuseSave
       PROVE  RestKept
  BY <1>10 DEF RefuseSave, RestKept, KeepsTheRest
<1>11. ASSUME WriteFails \/ \E q \in Paths : Save(q)
       PROVE  RestKept
  <2>1. Opens(Rebuilt(package)) /\ package' = Rebuilt(package)
    BY <1>11 DEF WriteFails, Save
  <2> QED
    BY <2>1, RebuiltKeeps DEF RestKept
<1>12. ASSUME NEW q \in Paths, OpenForEditing(q) \/ CreatePackage(q)
       PROVE  last'.op = "open"
  BY <1>12 DEF OpenForEditing, CreatePackage, Called
<1>13. ASSUME NEW target \in Targets, NEW payload \in Payloads, InsertRecord(target, payload)
       PROVE  RestKept
  BY <1>3, <1>13 DEF InsertRecord
<1>14. ASSUME NEW target \in Targets, NEW id \in KnownIds, NEW payload \in Payloads,
              InsertRecordWithId(target, id, payload)
       PROVE  RestKept
  BY <1>3, <1>14 DEF InsertRecordWithId
<1> QED
  BY <1>1, <1>2, <1>4, <1>5, <1>6, <1>7, <1>8, <1>9, <1>10, <1>11, <1>12, <1>13, <1>14 DEF Next

\* Whatever is edited, one record or many at once: every record that the call does not
\* name keeps its payload, its groups and its place in the order, and every group the
\* groups around it.  The edits move all bytes behind them and leave nothing to tell where
\* a group ends but the sizes they add up (apply_record_batch, update_containing_group_sizes).
THEOREM CallsAlwaysKeepTheRest == Spec => CallsKeepTheRest
<1>1. ASSUME FilesInv, [Next]_vars
      PROVE  [last'.op # "open" =>
               Rest(package, Named(last'.mutations)) = Rest(package', Named(last'.mutations))]_vars
  <2>1. CASE Next
    BY <1>1, <2>1, CallKeepsTheRest DEF RestKept, KeepsTheRest
  <2> QED
    BY <1>1, <2>1
<1> QED
  BY <1>1, FilesInvariant, PTL DEF Spec, CallsKeepTheRest

(***************************************************************************)
(* Where the records are that an edit puts in.                             *)
(***************************************************************************)

\* The groups around a record that is put in front of chunk i, behind x bytes of other
\* new records: those that go on behind there, and those that end there and grow by more.
Surrounding(p, m, place, gain, grown, i, x) ==
  {g \in Groups(p) :
     /\ g < i
     /\ \/ Start(p, i) < End(p, g)
        \/ /\ Start(p, i) = End(p, g)
           /\ x < SumOver(m, gain, Ending(m, place, grown, g, i))}

\* Where groups of p are in q.
Images(at, groups) == {at[g + 1] - 1 : g \in groups}

\* These are the groups around it.
LEMMA AncestorsOfNew ==
  ASSUME NEW p, NEW q, NEW ids, NEW at, NEW kept, NEW m, NEW place, NEW gain, NEW loss, NEW grown,
         IsEdited(p, q, ids, at, kept, m, place, gain, loss, grown),
         NEW i \in 1 .. Len(p.chunks) + 1, NEW x \in Nat, NEW k,
         IsBehind(q, at[i], InsertedEnd(at, kept, i), k, x)
  PROVE  Ancestors(q, k) = Images(at, Surrounding(p, m, place, gain, grown, i, x))
<1> SUFFICES ASSUME k \in 1 .. Len(q.chunks), at[i] <= k, k < InsertedEnd(at, kept, i),
                    Start(q, k) = Start(q, at[i]) + x,
                    WellFormed(p), Scans(p), WellFormed(q), Settled(p, q, ids, at, kept),
                    m \in Nat, place \in [1 .. m -> 1 .. Len(p.chunks) + 1],
                    gain \in [1 .. m -> Nat], loss \in [1 .. m -> Nat],
                    Measured(p, q, at, kept, m, place, gain, loss),
                    Resized(p, q, at, m, place, gain, loss, grown)
             PROVE  Ancestors(q, k)
                      = {at[g + 1] - 1 : g \in Surrounding(p, m, place, gain, grown, i, x)}
  BY DEF IsBehind, Images, IsEdited
<1> DEFINE n == Len(p.chunks)
           o == Len(q.chunks)
           new(j) == at[j + 1] - 1
           around == Surrounding(p, m, place, gain, grown, i, x)
<1>1. /\ n \in Nat /\ DOMAIN p.chunks = 1 .. n
      /\ \A j \in 1 .. n + 1 : Start(p, j) \in Nat
      /\ \A j, l \in 1 .. n + 1 : j < l <=> Start(p, j) < Start(p, l)
  BY ChunksStartInOrder
<1>2. /\ o \in Nat /\ DOMAIN q.chunks = 1 .. o
      /\ \A j \in 1 .. o + 1 : Start(q, j) \in Nat
      /\ \A j, l \in 1 .. o + 1 : j < l <=> Start(q, j) < Start(q, l)
  BY ChunksStartInOrder
<1>3. /\ \A j, l \in 1 .. n + 2 : j <= l => at[j] <= at[l]
      /\ \A j \in 1 .. n + 2 : at[j] \in 1 .. o + 1
      /\ \A j \in kept : j \in 1 .. n /\ new(j) \in 1 .. o
      /\ \A l \in 1 .. o : \/ \E j \in kept : l = new(j)
                           \/ q.chunks[l].kind = "record" /\ q.chunks[l].id \in ids
  BY SettledPlaces
<1>4. Groups(p) \subseteq kept
  <2>1. ASSUME NEW g \in Groups(p) PROVE g \in kept
    <3>1. g \in 1 .. n /\ p.chunks[g].kind = "group"
      BY <1>1 DEF Groups
    <3> QED
      BY <3>1 DEF Settled
  <2> QED
    BY <2>1
<1>5. \A j \in kept : at[j] < at[j + 1] /\ q.chunks[new(j)].kind = p.chunks[j].kind
  BY DEF Settled, SameEntry
<1>6. /\ i \in 1 .. n + 2 /\ i + 1 \in 1 .. n + 2 /\ at[i] \in 1 .. o + 1 /\ at[i + 1] \in 1 .. o + 1
      /\ k < at[i + 1] /\ at[i] <= k /\ k \in 1 .. o + 1 /\ k \in Int
      /\ at[i] \in Int /\ at[i + 1] \in Int
  <2>1. i \in 1 .. n + 2 /\ i + 1 \in 1 .. n + 2 /\ k \in 1 .. o + 1
    BY <1>1, <1>2
  <2>2. at[i] \in 1 .. o + 1 /\ at[i + 1] \in 1 .. o + 1
    BY <1>3, <2>1
  <2> QED
    BY <1>2, <2>1, <2>2 DEF InsertedEnd
<1>7. ASSUME NEW g \in Groups(p)
      PROVE  /\ g \in kept /\ g \in 1 .. n /\ p.chunks[g].kind = "group"
             /\ new(g) \in 1 .. o /\ q.chunks[new(g)].kind = "group"
             /\ g < i => new(g) \in 1 .. k - 1
             /\ ~ (g < i) => ~ (new(g) < k)
  <2>1. g \in kept /\ g \in 1 .. n /\ p.chunks[g].kind = "group"
        /\ new(g) \in 1 .. o /\ q.chunks[new(g)].kind = "group" /\ at[g] < at[g + 1]
    BY <1>3, <1>4, <1>5 DEF Groups
  <2>2. g \in 1 .. n + 2 /\ g + 1 \in 1 .. n + 2
    BY <1>1, <2>1
  <2>3. at[g] \in 1 .. o + 1 /\ at[g + 1] \in 1 .. o + 1
    BY <1>3, <2>2
  <2>4. ASSUME g < i PROVE new(g) \in 1 .. k - 1
    <3>1. g + 1 <= i
      BY <1>1, <2>1, <2>4
    <3>2. at[g + 1] <= at[i]
      BY <1>3, <1>6, <2>2, <3>1
    <3> DEFINE u == at[g + 1]
               v == at[i]
    <3>3. u <= v /\ v <= k /\ u \in Int /\ v \in Int /\ k \in Int
      BY <1>6, <2>3, <3>2
    <3>4. new(g) = u - 1 /\ new(g) \in 1 .. o
      BY <2>1
    <3> HIDE DEF new, u, v
    <3> QED
      BY <3>3, <3>4
  <2>5. ASSUME ~ (g < i) PROVE ~ (new(g) < k)
    <3>1. CASE g = i
      <4>1. InsertedEnd(at, kept, i) = new(g)
        BY <2>1, <3>1 DEF InsertedEnd
      <4>2. k < new(g) /\ k \in Int /\ new(g) \in Int
        BY <1>2, <2>1, <4>1
      <4> HIDE DEF new
      <4> QED
        BY <4>2
    <3>2. CASE g # i
      <4>1. i + 1 <= g
        BY <1>1, <2>1, <2>5, <3>2
      <4>2. at[i + 1] <= at[g]
        BY <1>3, <1>6, <2>2, <4>1
      <4> DEFINE u == at[i + 1]
                 v == at[g]
                 w == at[g + 1]
      <4>3. u <= v /\ v < w /\ k < u /\ u \in Int /\ v \in Int /\ w \in Int /\ k \in Int
        BY <1>6, <2>1, <2>3, <4>2
      <4>4. new(g) = w - 1
        OBVIOUS
      <4> HIDE DEF new, u, v, w
      <4> QED
        BY <4>3, <4>4
    <3> QED
      BY <3>1, <3>2
  <2> HIDE DEF new
  <2> QED
    BY <2>1, <2>4, <2>5
<1>8. ASSUME NEW g \in Groups(p), g < i
      PROVE  g \in around <=> Start(q, k) < Start(q, new(g)) + q.chunks[new(g)].size
  <2> DEFINE sum == SumOver(m, gain, Ending(m, place, grown, g, i))
  <2>1. /\ End(q, new(g)) = Start(q, new(g)) + q.chunks[new(g)].size
        /\ End(q, new(g)) \in Nat
    <3> DEFINE l == new(g)
    <3>1. l \in 1 .. Len(q.chunks) /\ q.chunks[l].kind = "group"
      BY <1>7
    <3> HIDE DEF l
    <3>2. End(q, l) = Start(q, l) + q.chunks[l].size /\ End(q, l) \in Nat
      BY <3>1, ChunksEnd
    <3> QED
      BY <3>2 DEF l
  <2>2. PICK b \in 1 .. n + 1 : EndsIn(p, q, at, m, place, gain, grown, g, b)
    BY GroupsEnd
  <2>3. Start(p, b) = End(p, g)
        /\ End(q, new(g)) = Start(q, at[b]) + SumOver(m, gain, Ending(m, place, grown, g, b))
    BY <2>2 DEF EndsIn
  <2>4. PICK c \in 1 .. n + 1 : /\ Start(p, c) = End(p, g)
                                /\ Start(q, at[c]) <= End(q, new(g))
                                /\ End(q, new(g)) <= Start(q, InsertedEnd(at, kept, c))
    BY EditsFit DEF GroupsFit
  <2>5. b = c
    BY <1>1, <2>3, <2>4
  <2>6. /\ i < b <=> Start(p, i) < End(p, g)
        /\ b < i <=> End(p, g) < Start(p, i)
        /\ Start(p, i) \in Nat /\ End(p, g) \in Nat
    BY <1>1, <2>3
  <2>7. sum \in Nat
    BY SomeAreFewer
  <2>8. g \in around <=> \/ Start(p, i) < End(p, g)
                         \/ Start(p, i) = End(p, g) /\ x < sum
    BY <1>8 DEF Surrounding
  <2>9. b \in 1 .. n + 2 /\ b + 1 \in 1 .. n + 2 /\ at[b] \in 1 .. o + 1 /\ at[b + 1] \in 1 .. o + 1
    <3>1. b \in 1 .. n + 2 /\ b + 1 \in 1 .. n + 2
      BY <1>1
    <3> QED
      BY <1>3, <3>1
  <2>10. CASE i < b
    <3>1. i + 1 <= b
      BY <1>1, <2>10
    <3>2. at[i + 1] <= at[b]
      BY <1>3, <1>6, <2>9, <3>1
    <3>3. k < at[b]
      <4> DEFINE u == at[i + 1]
                 v == at[b]
      <4>1. u <= v /\ k < u /\ u \in Int /\ v \in Int /\ k \in Int
        BY <1>6, <2>9, <3>2
      <4> HIDE DEF u, v
      <4>2. k < v
        BY <4>1
      <4> QED
        BY <4>2 DEF v
    <3>4. Start(q, k) < Start(q, at[b]) /\ Start(q, k) \in Nat /\ Start(q, at[b]) \in Nat
      BY <1>2, <1>6, <2>9, <3>3
    <3>5. Start(q, at[b]) <= End(q, new(g))
      BY <2>4, <2>5
    <3> HIDE DEF new
    <3>6. Start(q, k) < End(q, new(g))
      BY <2>1, <3>4, <3>5
    <3> QED
      BY <2>1, <2>6, <2>8, <2>10, <3>6
  <2>11. CASE b = i
    <3>1. End(q, new(g)) = Start(q, at[i]) + sum /\ Start(p, i) = End(p, g)
      BY <2>3, <2>11
    <3>2. Start(q, at[i]) \in Nat
      BY <1>2, <1>6
    <3> HIDE DEF sum, new
    <3> DEFINE s == Start(q, at[i])
               e == End(q, new(g))
               t == Start(q, k)
    <3>3. s \in Int /\ sum \in Int /\ x \in Int /\ e = s + sum /\ t = s + x
      BY <2>7, <3>1, <3>2
    <3> HIDE DEF s, e, t
    <3>4. t < e <=> x < sum
      BY <3>3
    <3>5. Start(q, k) < End(q, new(g)) <=> x < sum
      BY <3>4 DEF s, e, t
    <3> QED
      BY <2>1, <2>6, <2>8, <3>1, <3>5
  <2>12. CASE b < i
    <3> DEFINE e == InsertedEnd(at, kept, b)
    <3>1. b + 1 <= i
      BY <1>1, <2>12
    <3>2. at[b + 1] <= at[i]
      BY <1>3, <1>6, <2>9, <3>1
    <3>3. e \in 1 .. o + 1 /\ e <= k
      <4>1. CASE b \in kept
        <5> DEFINE u == at[b + 1]
                   v == at[i]
        <5>1. e = u - 1 /\ e \in 1 .. o
          BY <1>3, <4>1 DEF InsertedEnd
        <5>2. u <= v /\ v <= k /\ u \in Int /\ v \in Int /\ k \in Int /\ o \in Nat
          BY <1>2, <1>6, <2>9, <3>2
        <5> HIDE DEF e, u, v, o
        <5> QED
          BY <5>1, <5>2
      <4>2. CASE b \notin kept
        <5> DEFINE u == at[b + 1]
                   v == at[i]
        <5>1. e = u
          BY <4>2 DEF InsertedEnd
        <5>2. u <= v /\ v <= k /\ u \in 1 .. o + 1 /\ v \in Int /\ k \in Int
          BY <1>6, <2>9, <3>2
        <5> HIDE DEF e, u, v, o
        <5> QED
          BY <5>1, <5>2
      <4> QED
        BY <4>1, <4>2
    <3>4. ~ (k < e)
      BY <1>2, <3>3
    <3>5. ~ (Start(q, k) < Start(q, e)) /\ Start(q, k) \in Nat /\ Start(q, e) \in Nat
      BY <1>2, <1>6, <3>3, <3>4
    <3>6. End(q, new(g)) <= Start(q, e)
      BY <2>4, <2>5
    <3> HIDE DEF e, new, sum
    <3>7. ~ (Start(q, k) < End(q, new(g)))
      BY <2>1, <3>5, <3>6
    <3> QED
      BY <2>1, <2>6, <2>8, <2>12, <3>7
  <2> QED
    BY <1>1, <2>10, <2>11, <2>12
<1>9. Ancestors(q, k) = {l \in 1 .. k - 1 : /\ q.chunks[l].kind = "group"
                                            /\ Start(q, k) < Start(q, l) + q.chunks[l].size}
  BY DEF Ancestors, Start
<1>10. ASSUME NEW g \in around PROVE g \in Groups(p) /\ g < i
  BY DEF Surrounding
<1> HIDE DEF new, around
<1>11. ASSUME NEW l \in Ancestors(q, k) PROVE \E g \in around : l = new(g)
  <2>1. /\ l \in 1 .. k - 1 /\ q.chunks[l].kind = "group"
        /\ Start(q, k) < Start(q, l) + q.chunks[l].size
    BY <1>9
  <2>2. l \in 1 .. o /\ l < k
    BY <1>2, <2>1
  <2>3. PICK g \in kept : l = new(g)
    BY <1>3, <2>1, <2>2
  <2>4. g \in Groups(p)
    BY <1>1, <1>3, <1>5, <2>1, <2>3 DEF Groups
  <2>5. g < i
    BY <1>7, <2>2, <2>3, <2>4
  <2>6. g \in around
    BY <1>8, <2>1, <2>3, <2>4, <2>5
  <2> QED
    BY <2>3, <2>6
<1>12. ASSUME NEW g \in around PROVE new(g) \in Ancestors(q, k)
  <2>1. g \in Groups(p) /\ g < i
    BY <1>10
  <2> QED
    BY <1>7, <1>8, <1>9, <2>1
<1>13. Ancestors(q, k) = {new(g) : g \in around}
  BY <1>11, <1>12
<1> QED
  BY <1>13 DEF new, around

\* What groups are told by.
Keys(p, groups) == {Key(p, g) : g \in groups}

\* A group is told by what it was told by.
LEMMA PlaceOfNew ==
  ASSUME NEW p, NEW q, NEW ids, NEW at, NEW kept, Settled(p, q, ids, at, kept), WellFormed(p),
         NEW k, NEW around, around \subseteq Groups(p), Ancestors(q, k) = Images(at, around)
  PROVE  Place(q, k) = Keys(p, around)
<1>1. ASSUME NEW g \in around PROVE Key(q, at[g + 1] - 1) = Key(p, g)
  <2>0. g \in Groups(p)
    OBVIOUS
  <2>1. g \in 1 .. Len(p.chunks) /\ p.chunks[g].kind = "group"
    BY <2>0, ChunksStartInOrder DEF Groups
  <2>2. g \in kept
    BY <2>1 DEF Settled
  <2>3. SameEntry(p.chunks[g], q.chunks[at[g + 1] - 1])
    BY <2>2 DEF Settled
  <2> QED
    BY <2>1, <2>3 DEF SameEntry, Key
<1>2. Place(q, k) = {Key(q, l) : l \in Ancestors(q, k)}
  BY DEF Place
<1> QED
  BY <1>1, <1>2 DEF Images, Keys

\* The groups of p around the record that the j-th edit puts in.
AroundNew(p, edits, m, place, gain, j) ==
  Surrounding(p, m, place, gain, [l \in 1 .. m |-> Grows(p, edits[l])], place[j],
              SumOver(m, gain, Earlier(m, place, j)))

\* Every record that a batch puts in is there, with these groups around it.
LEMMA NewRecordAt ==
  ASSUME NEW p, WellFormed(p), Scans(p), NEW edits, NEW ids,
         NEW m, NEW place, NEW gain, NEW loss,
         EditsAt(p, edits, ids, m, place, gain, loss), GrowsAround(p, edits, m, place, loss),
         NEW q, WellFormed(q), q.chunks = Rewritten(p, edits),
         NEW j \in 1 .. m, edits[j].pieces # <<>>
  PROVE  \E k \in 1 .. Len(q.chunks) :
           /\ q.chunks[k] = edits[j].pieces[1]
           /\ Place(q, k) = Keys(p, AroundNew(p, edits, m, place, gain, j))
<1> DEFINE kept == Untouched(p, m, place, loss)
           grown == [l \in 1 .. m |-> Grows(p, edits[l])]
           i == place[j]
           x == SumOver(m, gain, Earlier(m, place, j))
           list == Pieces(edits, m, place, i)
<1>1. PICK at : Filled(p, q, edits, m, place, loss, at)
  BY SlotsFill
<1>2. Settled(p, q, ids, at, kept)
  BY <1>1, BatchSettles
<1>3. Measured(p, q, at, kept, m, place, gain, loss)
  BY <1>1, BatchMeasures
<1>4. Resized(p, q, at, m, place, gain, loss, grown)
  BY <1>1, BatchResizes
<1>5. /\ m \in Nat /\ place \in [1 .. m -> 1 .. Len(p.chunks) + 1]
      /\ gain \in [1 .. m -> Nat] /\ loss \in [1 .. m -> Nat]
  BY DEF EditsAt
<1>6. i \in 1 .. Len(p.chunks) + 1
  BY <1>5
<1>7. SlotFilled(p, q, edits, m, place, kept, at, i)
  BY <1>1, <1>6 DEF Filled
<1>8. at[i] \in Nat \ {0} /\ Holds(q, at[i], list)
  BY <1>7 DEF SlotFilled
<1>9. at[i] + Len(list) = InsertedEnd(at, kept, i)
  <2>1. at[i + 1] = at[i] + Len(list) + (IF i \in kept THEN 1 ELSE 0)
    BY <1>7 DEF SlotFilled
  <2>2. Len(list) \in Nat
    BY PiecesAreNew
  <2> HIDE DEF list, kept, i
  <2> QED
    BY <1>8, <2>1, <2>2 DEF InsertedEnd
<1>10. x \in Nat
  <2>1. SumOver(m, gain, Earlier(m, place, j)) \in Nat
    <3> DEFINE S == Earlier(m, place, j)
    <3>1. \A l \in 1 .. m : l \in S => l \in S
      OBVIOUS
    <3> HIDE DEF S
    <3> QED
      BY <1>5, <3>1, SomeAreFewer DEF S
  <2> QED
    BY <2>1
<1>11. PICK k : /\ q.chunks[k] = edits[j].pieces[1]
                /\ IsBehind(q, at[i], at[i] + Len(list), k, x)
  BY <1>8, PieceAt
<1> DEFINE around == Surrounding(p, m, place, gain, grown, i, x)
<1> HIDE DEF kept, grown, i, x, list
<1>12. k \in 1 .. Len(q.chunks) /\ IsBehind(q, at[i], InsertedEnd(at, kept, i), k, x)
  BY <1>9, <1>11 DEF IsBehind
<1>13. IsEdited(p, q, ids, at, kept, m, place, gain, loss, grown)
  BY <1>2, <1>3, <1>4, <1>5 DEF IsEdited
<1>14. Ancestors(q, k) = Images(at, Surrounding(p, m, place, gain, grown, i, x))
  BY <1>6, <1>10, <1>12, <1>13, AncestorsOfNew
<1>15. Ancestors(q, k) = Images(at, around)
  BY <1>14
<1>16. around \subseteq Groups(p)
  BY DEF Surrounding
<1> HIDE DEF around
<1>17. Place(q, k) = Keys(p, around)
  BY <1>2, <1>15, <1>16, PlaceOfNew
<1>18. around = AroundNew(p, edits, m, place, gain, j)
  BY DEF around, AroundNew, grown, i, x
<1> QED
  BY <1>11, <1>12, <1>17, <1>18

\* One more number adds itself.
LEMMA OneMore ==
  ASSUME NEW m \in Nat, NEW f \in [1 .. m -> Nat], NEW S \in SUBSET (1 .. m),
         NEW j \in 1 .. m, j \notin S
  PROVE  SumOver(m, f, S \cup {j}) = SumOver(m, f, S) + f[j]
<1> DEFINE T == S \cup {j}
<1>1. f \in [1 .. m -> Int] /\ T \in SUBSET (1 .. m) /\ S \in SUBSET T
  OBVIOUS
<1>2. /\ SumOver(m, f, T) \in Int /\ SumOver(m, f, S) \in Int
      /\ SumOver(m, f, T \ S) = SumOver(m, f, T) - SumOver(m, f, S)
  <2> HIDE DEF T
  <2> QED
    BY <1>1, SumOfDifference
<1>3. T \ S = {j}
  OBVIOUS
<1>4. SumOver(m, f, {j}) = f[j]
  <2> DEFINE x == f[j]
             list == [k \in 1 .. m |-> IF k = j THEN x ELSE 0]
  <2>1. x \in Int
    OBVIOUS
  <2>2. [k \in 1 .. m |-> IF k \in {j} THEN f[k] ELSE 0] = list
    OBVIOUS
  <2>3. Total(list) = x
    <3> HIDE DEF x
    <3> QED
      BY <2>1, TotalOfOne
  <2> QED
    BY <2>2, <2>3 DEF SumOver
<1>5. f[j] \in Int
  BY <1>1
<1> HIDE DEF T
<1> DEFINE u == SumOver(m, f, T)
           v == SumOver(m, f, S)
           w == f[j]
<1>6. u \in Int /\ v \in Int /\ w \in Int /\ w = u - v
  BY <1>2, <1>3, <1>4, <1>5
<1> HIDE DEF u, v, w
<1>7. u = v + w
  BY <1>6
<1> QED
  BY <1>7 DEF T, u, v, w

\* The edits of a batch, and where they are made.
IsBatchOf(p, mutations, m, edits, place, gain, loss) ==
  /\ edits = ByteEdits(p, mutations) /\ place = BatchPlace(p, mutations)
  /\ gain = BatchGain(mutations) /\ loss = BatchLoss(p, mutations)
  /\ Opens(p) /\ IsBatch(mutations, m) /\ BatchValid(p, mutations)

\* Group g ends where the edits at place i are made, and some of them make it grow.
GrowsBehind(p, edits, m, place, gain, g, i, x) ==
  /\ Start(p, i) = End(p, g)
  /\ x < SumOver(m, gain, {l \in 1 .. m : place[l] = i /\ g \in Grows(p, edits[l])})

\* The groups around a new record, one by one.
LEMMA GroupAroundNew ==
  ASSUME NEW p, NEW edits, NEW m \in Nat, NEW place, NEW gain, NEW j, NEW g \in Groups(p)
  PROVE  g \in AroundNew(p, edits, m, place, gain, j)
           <=> /\ g < place[j]
               /\ \/ Start(p, place[j]) < End(p, g)
                  \/ GrowsBehind(p, edits, m, place, gain, g, place[j],
                                 SumOver(m, gain, Earlier(m, place, j)))
<1> DEFINE grown == [l \in 1 .. m |-> Grows(p, edits[l])]
           i == place[j]
           x == SumOver(m, gain, Earlier(m, place, j))
<1>1. Ending(m, place, grown, g, i) = {l \in 1 .. m : place[l] = i /\ g \in Grows(p, edits[l])}
  BY DEF Ending
<1> DEFINE S == {l \in 1 .. m : place[l] = i /\ g \in Grows(p, edits[l])}
<1>2. GrowsBehind(p, edits, m, place, gain, g, i, x)
        <=> Start(p, i) = End(p, g) /\ x < SumOver(m, gain, S)
  BY DEF GrowsBehind
<1>3. g \in Surrounding(p, m, place, gain, grown, i, x)
        <=> /\ g < i
            /\ \/ Start(p, i) < End(p, g)
               \/ Start(p, i) = End(p, g) /\ x < SumOver(m, gain, S)
  <2> HIDE DEF grown, i, x, S
  <2> QED
    BY <1>1 DEF Surrounding, S
<1> HIDE DEF grown, i, x, S
<1>4. AroundNew(p, edits, m, place, gain, j) = Surrounding(p, m, place, gain, grown, i, x)
  BY DEF AroundNew, grown, i, x
<1> QED
  BY <1>2, <1>3, <1>4 DEF i, x

\* The groups of p around the record that one edit puts in at chunk i.
AroundOne(p, i, grown) ==
  {g \in Groups(p) : /\ g < i
                     /\ Start(p, i) < End(p, g) \/ (Start(p, i) = End(p, g) /\ g \in grown)}

\* The record that one edit puts in has these groups around it.
LEMMA OneNewRecord ==
  ASSUME NEW p, NEW q, NEW ids, NEW i, NEW l, OneEdit(p, q, ids, i, 1, l),
         NEW grown, GroupsGrow(p, q, i, 1, l, grown),
         WellFormed(p), Scans(p), WellFormed(q), i \in 1 .. Len(q.chunks)
  PROVE  Place(q, i) = Keys(p, AroundOne(p, i, grown))
<1> DEFINE n == Len(p.chunks)
           at == Slots(n, i, 1, l)
           kept == Left(n, i, l)
           gain == Gained(q, i, 1)
           loss == Lost(p, i, l)
           place == Lone(i)
           gains == Lone(gain)
           losses == Lone(loss)
           grows == Lone(grown)
           around == Surrounding(p, 1, place, gains, grows, i, 0)
<1>1. IsEdited(p, q, ids, at, kept, 1, place, gains, losses, grows)
  BY OneEditIsEdited
<1>2. n \in Nat /\ i \in 1 .. n + 1 /\ l \in {0, 1} /\ (l = 1 => i \in 1 .. n)
  BY ChunksStartInOrder DEF OneEdit
<1>3. gain \in Nat /\ gain # 0
  <2>1. q.chunks[i].kind = "record"
    BY DEF OneEdit
  <2>2. OwnSize(q.chunks[i]) \in Nat \ {0}
    BY ChunksStartInOrder
  <2> QED
    BY <2>1, <2>2 DEF Gained, OwnSize
<1>4. Stepwise(at, n, i, 1, l)
  <2> HIDE DEF at, n
  <2>1. 1 \in {0, 1}
    OBVIOUS
  <2> QED
    BY <1>2, <2>1, SlotPlaces DEF at
<1>5. at[i] = i /\ i < InsertedEnd(at, kept, i)
  <2>1. i \in kept <=> i \in 1 .. n /\ l = 0
    BY DEF Left
  <2> HIDE DEF at, kept, n
  <2>2. /\ at[i] = i
        /\ i \in 1 .. n => at[i + 1] = i + 1 + (1 - l)
        /\ i = n + 1 => at[i + 1] = i + 1
    BY <1>4 DEF Stepwise
  <2>3. i \in 1 .. n \/ i = n + 1
    BY <1>2
  <2> QED
    BY <1>2, <2>1, <2>2, <2>3 DEF InsertedEnd
<1>6. Start(q, i) \in Nat
  <2>1. Len(q.chunks) \in Nat /\ \A k \in 1 .. Len(q.chunks) + 1 : Start(q, k) \in Nat
    BY ChunksStartInOrder
  <2>2. i \in 1 .. Len(q.chunks) + 1
    BY <2>1
  <2> QED
    BY <2>1, <2>2
<1>7. IsBehind(q, at[i], InsertedEnd(at, kept, i), i, 0)
  <2> HIDE DEF at, kept
  <2> QED
    BY <1>2, <1>5, <1>6 DEF IsBehind
<1>8. /\ place[1] = i /\ gains[1] = gain /\ grows[1] = grown
  BY DEF Lone
<1> HIDE DEF at, kept, gain, loss, place, gains, losses, grows, n
<1>9. ASSUME NEW g \in Groups(p)
      PROVE  g \in around <=> g \in AroundOne(p, i, grown)
  <2> DEFINE S == Ending(1, place, grows, g, i)
             sum == SumOver(1, gains, S)
  <2>1. 1 \in S <=> g \in grown
    BY <1>8 DEF Ending
  <2>2. sum = IF 1 \in S THEN gain ELSE 0
    <3> HIDE DEF S
    <3> QED
      BY <1>3, <1>8, SumOfOne
  <2>3. 0 < sum <=> g \in grown
    <3> HIDE DEF S, sum
    <3> QED
      BY <1>3, <2>1, <2>2
  <2>4. g \in around <=> /\ g < i
                         /\ Start(p, i) < End(p, g) \/ (Start(p, i) = End(p, g) /\ 0 < sum)
    <3> HIDE DEF sum, S
    <3> QED
      BY DEF Surrounding, sum, S
  <2> HIDE DEF sum, S, around
  <2> QED
    BY <2>3, <2>4 DEF AroundOne
<1>10. around = AroundOne(p, i, grown)
  <2>1. around \subseteq Groups(p) /\ AroundOne(p, i, grown) \subseteq Groups(p)
    BY DEF Surrounding, AroundOne
  <2> HIDE DEF around
  <2> QED
    BY <1>9, <2>1
<1>11. Ancestors(q, i) = Images(at, Surrounding(p, 1, place, gains, grows, i, 0))
  <2>1. i \in 1 .. Len(p.chunks) + 1 /\ 0 \in Nat
    BY <1>2 DEF n
  <2> QED
    BY <1>1, <1>7, <2>1, AncestorsOfNew
<1>12. Ancestors(q, i) = Images(at, around)
  BY <1>11
<1>13. around \subseteq Groups(p)
  BY DEF Surrounding
<1>14. Settled(p, q, ids, at, kept)
  BY <1>1 DEF IsEdited
<1> HIDE DEF around
<1>15. Place(q, i) = Keys(p, around)
  BY <1>12, <1>13, <1>14, PlaceOfNew
<1> QED
  BY <1>10, <1>15

\* The groups around a chunk are those that go on behind its beginning.
LEMMA AncestorsAre ==
  ASSUME NEW p, WellFormed(p), NEW i \in 1 .. Len(p.chunks) + 1
  PROVE  Ancestors(p, i) = {g \in Groups(p) : g < i /\ Start(p, i) < End(p, g)}
<1> DEFINE n == Len(p.chunks)
<1>1. n \in Nat /\ DOMAIN p.chunks = 1 .. n
  BY ChunksStartInOrder
<1>2. ASSUME NEW g \in Groups(p)
      PROVE  g \in Ancestors(p, i) <=> g < i /\ Start(p, i) < End(p, g)
  <2>1. g \in 1 .. n /\ p.chunks[g].kind = "group"
    BY <1>1 DEF Groups
  <2>2. End(p, g) = Start(p, g) + p.chunks[g].size
    BY <2>1, ChunksEnd
  <2>3. g \in 1 .. i - 1 <=> g < i
    BY <1>1, <2>1
  <2> QED
    BY <2>1, <2>2, <2>3 DEF Ancestors, Start
<1>3. Ancestors(p, i) \subseteq Groups(p)
  <2>1. ASSUME NEW g \in Ancestors(p, i) PROVE g \in Groups(p)
    <3>1. g \in 1 .. i - 1 /\ p.chunks[g].kind = "group"
      BY DEF Ancestors
    <3>2. g \in 1 .. n
      BY <1>1, <3>1
    <3> QED
      BY <1>1, <3>1, <3>2 DEF Groups
  <2> QED
    BY <2>1
<1> QED
  BY <1>2, <1>3

\* Where no group ends with the file, none reaches its end.
LEMMA NoneAtTheEnd ==
  ASSUME NEW p, WellFormed(p), Scans(p), ~ SharesEnd(p, Root), NEW g \in Groups(p)
  PROVE  /\ End(p, g) \in Nat /\ InsertionPoint(p, Root) \in Nat
         /\ End(p, g) < InsertionPoint(p, Root)
<1> DEFINE n == Len(p.chunks)
<1>1. /\ n \in Nat /\ DOMAIN p.chunks = 1 .. n /\ \A k \in 1 .. n + 1 : Start(p, k) \in Nat
  BY ChunksStartInOrder
<1>2. g \in 1 .. n
  BY <1>1 DEF Groups
<1>3. End(p, g) \in Nat
  BY <1>2, ChunksEnd
<1>4. End(p, g) <= Start(p, n + 1)
  BY <1>1, <1>2 DEF Scans, Start, End
<1>5. End(p, g) # Start(p, n + 1)
  <2>1. g # Root
    BY <1>1, <1>2 DEF Root
  <2> QED
    BY <2>1 DEF SharesEnd, InsertionPoint, ByteCount
<1>6. Start(p, n + 1) \in Nat
  BY <1>1
<1>7. InsertionPoint(p, Root) = Start(p, n + 1)
  BY DEF InsertionPoint, ByteCount
<1> HIDE DEF n
<1> QED
  BY <1>3, <1>4, <1>5, <1>6, <1>7

\* Such edits are what the lemmas before are about.
LEMMA BatchIsEdits ==
  ASSUME NEW p, NEW mutations, NEW m, NEW edits, NEW place, NEW gain, NEW loss,
         IsBatchOf(p, mutations, m, edits, place, gain, loss)
  PROVE  /\ WellFormed(p) /\ Scans(p) /\ m \in Nat /\ DOMAIN mutations = 1 .. m
         /\ EditsAt(p, edits, Named(mutations), m, place, gain, loss)
         /\ GrowsAround(p, edits, m, place, loss)
         /\ gain \in [1 .. m -> Nat]
<1>1. /\ Opens(p) /\ IsBatch(mutations, m) /\ BatchValid(p, mutations)
      /\ edits = ByteEdits(p, mutations) /\ place = BatchPlace(p, mutations)
      /\ gain = BatchGain(mutations) /\ loss = BatchLoss(p, mutations)
  BY DEF IsBatchOf
<1>2. EditsAt(p, edits, Named(mutations), m, place, gain, loss)
  BY <1>1, BatchEditsAt
<1>3. GrowsAround(p, edits, m, place, loss)
  BY <1>1, BatchGrowsAround
<1> QED
  BY <1>1, <1>2, <1>3 DEF Opens, Indexes, EditsAt, IsBatch

\* A mutation that inserts nothing is an edit of its record.
LEMMA EditOfARecord ==
  ASSUME NEW p, NEW mutations, NEW m, NEW edits, NEW place, NEW gain, NEW loss,
         IsBatchOf(p, mutations, m, edits, place, gain, loss),
         NEW j \in 1 .. m, mutations[j].kind # "insert"
  PROVE  /\ place[j] \in 1 .. Len(p.chunks) /\ place[j] = IndexOf(p, mutations[j].id)
         /\ mutations[j].id \in Ids(p)
         /\ loss[j] \in Nat \ {0}
         /\ edits[j].start = Start(p, place[j]) /\ edits[j].end = Start(p, place[j]) + loss[j]
  BY BatchEdit DEF IsBatchOf

\* An insertion begins and ends where its target does.
LEMMA EditAtATarget ==
  ASSUME NEW p, NEW mutations, NEW m, NEW edits, NEW place, NEW gain, NEW loss,
         IsBatchOf(p, mutations, m, edits, place, gain, loss),
         NEW j \in 1 .. m, mutations[j].kind = "insert"
  PROVE  /\ place[j] \in 1 .. Len(p.chunks) + 1
         /\ IsTarget(p, mutations[j].target) /\ edits[j].group = mutations[j].target
         /\ edits[j].start = Start(p, place[j]) /\ edits[j].end = Start(p, place[j])
         /\ Start(p, place[j]) = InsertionPoint(p, mutations[j].target)
         /\ mutations[j].target # Root => mutations[j].target < place[j]
<1>1. /\ place[j] \in 1 .. Len(p.chunks) + 1 /\ loss[j] = 0
      /\ IsTarget(p, mutations[j].target) /\ edits[j].group = mutations[j].target
      /\ edits[j].start = Start(p, place[j]) /\ edits[j].end = Start(p, place[j]) + loss[j]
      /\ Start(p, place[j]) = InsertionPoint(p, mutations[j].target)
      /\ mutations[j].target # Root => mutations[j].target < place[j]
  BY BatchEdit DEF IsBatchOf
<1>2. Start(p, place[j]) \in Nat
  <2>1. WellFormed(p)
    BY DEF IsBatchOf, Opens
  <2> QED
    BY <1>1, <2>1, ChunksStartInOrder
<1> QED
  BY <1>1, <1>2

\* The record that replaces another has the groups around it that that one had: no edit
\* that comes behind it starts where it does, for they would overlap.
LEMMA AroundReplaced ==
  ASSUME NEW p, NEW mutations, NEW m, NEW edits, NEW place, NEW gain, NEW loss,
         IsBatchOf(p, mutations, m, edits, place, gain, loss),
         NEW j \in 1 .. m, mutations[j].kind # "insert"
  PROVE  AroundNew(p, edits, m, place, gain, j) = Ancestors(p, place[j])
<1> DEFINE n == Len(p.chunks)
           i == place[j]
           x == SumOver(m, gain, Earlier(m, place, j))
<1>1. /\ WellFormed(p) /\ m \in Nat /\ DOMAIN mutations = 1 .. m /\ DOMAIN edits = 1 .. m
      /\ GrowsAround(p, edits, m, place, loss) /\ gain \in [1 .. m -> Nat]
      /\ place \in [1 .. m -> 1 .. n + 1]
  BY BatchIsEdits DEF EditsAt
<1>2. /\ i \in 1 .. n /\ loss[j] \in Nat \ {0}
      /\ edits[j].start = Start(p, i) /\ edits[j].end = Start(p, i) + loss[j]
  BY EditOfARecord
<1>3. n \in Nat /\ DOMAIN p.chunks = 1 .. n /\ \A k \in 1 .. n + 1 : Start(p, k) \in Nat
  BY <1>1, ChunksStartInOrder
<1>4. ASSUME NEW l \in 1 .. m, place[l] = i, j < l PROVE FALSE
  <2>1. ~ Overlap(edits)
    BY DEF IsBatchOf, BatchValid
  <2>2. edits[l].start = Start(p, i)
    <3>1. EditsAt(p, edits, Named(mutations), m, place, gain, loss)
      BY BatchIsEdits
    <3> QED
      BY <1>4, <3>1 DEF EditsAt
  <2>3. ~ (edits[l].start < edits[j].end)
    <3>1. edits[j].start = edits[l].start /\ j \in DOMAIN edits /\ l \in DOMAIN edits
      BY <1>1, <1>2, <2>2
    <3> HIDE DEF i, n
    <3> QED
      BY <1>4, <2>1, <3>1 DEF Overlap
  <2>4. Start(p, i) \in Nat
    BY <1>2, <1>3
  <2> HIDE DEF i, n
  <2> QED
    BY <1>2, <2>2, <2>3, <2>4
<1> HIDE DEF i, x, n
<1>5. ASSUME NEW g \in Groups(p)
      PROVE  ~ GrowsBehind(p, edits, m, place, gain, g, i, x)
  <2> SUFFICES ASSUME Start(p, i) = End(p, g),
                      x < SumOver(m, gain, {l \in 1 .. m : place[l] = i /\ g \in Grows(p, edits[l])})
               PROVE  FALSE
    BY DEF GrowsBehind
  <2> DEFINE S == {l \in 1 .. m : place[l] = i /\ g \in Grows(p, edits[l])}
             T == Earlier(m, place, j)
  <2>1. ASSUME NEW l \in 1 .. m, l \in S PROVE l \in T
    <3>1. place[l] = i /\ g \in Grows(p, edits[l])
      BY <2>1
    <3>2. ~ (j < l)
      BY <1>4, <3>1
    <3>3. l # j
      <4>1. g \in Grows(p, edits[j]) /\ Start(p, place[j]) = End(p, g) => loss[j] = 0
        BY <1>1 DEF GrowsAround
      <4> QED
        BY <1>2, <3>1, <4>1 DEF i
    <3>4. l < j
      BY <1>1, <3>2, <3>3
    <3> QED
      BY <3>1, <3>4 DEF Earlier, At, i
  <2> HIDE DEF S, T
  <2>2. /\ SumOver(m, gain, S) \in Nat /\ SumOver(m, gain, T) \in Nat
        /\ SumOver(m, gain, S) <= SumOver(m, gain, T)
    BY <1>1, <2>1, SomeAreFewer
  <2>3. SumOver(m, gain, T) < SumOver(m, gain, S)
    BY DEF S, T, x
  <2> DEFINE u == SumOver(m, gain, S)
             v == SumOver(m, gain, T)
  <2> HIDE DEF u, v
  <2> QED
    BY <2>2, <2>3 DEF u, v
<1>6. ASSUME NEW g \in Groups(p)
      PROVE  g \in AroundNew(p, edits, m, place, gain, j) <=> g < i /\ Start(p, i) < End(p, g)
  BY <1>1, <1>5, GroupAroundNew DEF i, x
<1>7. Ancestors(p, i) = {g \in Groups(p) : g < i /\ Start(p, i) < End(p, g)}
  <2>1. i \in 1 .. Len(p.chunks) + 1
    BY <1>2, <1>3 DEF n
  <2> QED
    BY <1>1, <2>1, AncestorsAre
<1>8. AroundNew(p, edits, m, place, gain, j) \subseteq Groups(p)
  BY DEF AroundNew, Surrounding
<1>10. AroundNew(p, edits, m, place, gain, j) = Ancestors(p, i)
  BY <1>6, <1>7, <1>8
<1> QED
  BY <1>10 DEF i

\* What is around an insertion grows by it, and by no insertion that comes behind it in a
\* batch in order; those that come before it at the same place make all of that grow, too.
LEMMA AroundsNest ==
  ASSUME NEW p, NEW mutations, NEW m, NEW edits, NEW place, NEW gain, NEW loss,
         IsBatchOf(p, mutations, m, edits, place, gain, loss), Ordered(p, mutations),
         NEW j \in 1 .. m, mutations[j].kind = "insert", mutations[j].target # Root,
         NEW g \in Groups(p), Start(p, place[j]) = End(p, g), g < place[j],
         NEW l \in 1 .. m, place[l] = place[j]
  PROVE  /\ j < l /\ g \in Grows(p, edits[l]) => g \in Around(p, mutations[j].target)
         /\ l < j /\ g \in Around(p, mutations[j].target) => g \in Grows(p, edits[l])
         /\ g \in Grows(p, edits[j]) <=> g \in Around(p, mutations[j].target)
<1> DEFINE T == mutations[j].target
           U == mutations[l].target
           i == place[j]
<1>1. /\ WellFormed(p) /\ m \in Nat /\ DOMAIN mutations = 1 .. m
      /\ GrowsAround(p, edits, m, place, loss)
  BY BatchIsEdits
<1>2. /\ T # Root /\ edits[j].group = T /\ Start(p, i) = InsertionPoint(p, T)
      /\ i \in 1 .. Len(p.chunks) + 1
  BY EditAtATarget
<1>3. Grows(p, edits[j]) = Around(p, T)
  BY <1>2 DEF Grows, Around
<1>4. ASSUME mutations[l].kind = "insert"
      PROVE  /\ edits[l].group = U /\ Start(p, i) = InsertionPoint(p, U)
             /\ edits[l].start = Start(p, i) /\ edits[l].end = Start(p, i)
  BY <1>4, EditAtATarget
<1>5. ASSUME mutations[l].kind = "insert"
      PROVE  g \in Grows(p, edits[l]) <=> g \in Around(p, U)
  <2>1. CASE U # Root
    BY <1>4, <1>5, <2>1 DEF Grows, Around
  <2>2. CASE U = Root
    <3>1. g \in Around(p, U)
      BY <1>4, <1>5, <2>2 DEF Around
    <3>2. g \in Grows(p, edits[l])
      <4>1. Start(p, g) < Start(p, i) /\ End(p, g) \in Nat
        <5>1. /\ DOMAIN p.chunks = 1 .. Len(p.chunks) /\ Len(p.chunks) \in Nat
              /\ \A a, b \in 1 .. Len(p.chunks) + 1 : a < b <=> Start(p, a) < Start(p, b)
          BY <1>1, ChunksStartInOrder
        <5>2. g \in 1 .. Len(p.chunks) /\ g \in 1 .. Len(p.chunks) + 1
          BY <5>1 DEF Groups
        <5>3. End(p, g) \in Nat
          BY <1>1, <5>2, ChunksEnd
        <5> QED
          BY <1>2, <5>1, <5>2, <5>3
      <4>2. End(p, g) >= edits[l].end /\ Start(p, g) < edits[l].start
        BY <1>4, <1>5, <4>1
      <4>3. Grows(p, edits[l])
              = {h \in Groups(p) : Start(p, h) < edits[l].start /\ End(p, h) >= edits[l].end}
        BY <1>4, <1>5, <2>2 DEF Grows
      <4> QED
        BY <4>2, <4>3
    <3> QED
      BY <3>1, <3>2
  <2> QED
    BY <2>1, <2>2
<1>6. ASSUME mutations[l].kind # "insert" PROVE g \notin Grows(p, edits[l])
  <2>1. loss[l] # 0
    BY <1>6, EditOfARecord
  <2>2. g \in Grows(p, edits[l]) /\ Start(p, place[l]) = End(p, g) => loss[l] = 0
    BY <1>1 DEF GrowsAround
  <2> QED
    BY <2>1, <2>2
<1>7. ASSUME j < l, mutations[l].kind = "insert" PROVE Around(p, U) \subseteq Around(p, T)
  BY <1>1, <1>2, <1>4, <1>7 DEF Ordered
<1>8. ASSUME l < j
      PROVE  mutations[l].kind = "insert" /\ Around(p, T) \subseteq Around(p, U)
  <2>1. /\ mutations[l].kind = "insert"
        /\ \/ InsertionPoint(p, T) # InsertionPoint(p, U)
           \/ Around(p, T) \subseteq Around(p, U)
    BY <1>1, <1>8 DEF Ordered
  <2> QED
    BY <1>2, <1>4, <2>1
<1> QED
  BY <1>3, <1>5, <1>6, <1>7, <1>8

\* A record that is put into a group is in that group and in those around it, and in no
\* other: of the groups that end with it, those that it is to be in grow by more than what
\* is put in front of the record, and the others by no more.
LEMMA AroundInserted ==
  ASSUME NEW p, NEW mutations, NEW m, NEW edits, NEW place, NEW gain, NEW loss,
         IsBatchOf(p, mutations, m, edits, place, gain, loss), Ordered(p, mutations),
         NEW j \in 1 .. m, mutations[j].kind = "insert", mutations[j].target # Root,
         gain[j] # 0
  PROVE  AroundNew(p, edits, m, place, gain, j) = Around(p, mutations[j].target)
<1> DEFINE n == Len(p.chunks)
           i == place[j]
           T == mutations[j].target
           x == SumOver(m, gain, Earlier(m, place, j))
<1>1. /\ WellFormed(p) /\ Scans(p) /\ m \in Nat /\ gain \in [1 .. m -> Nat]
  BY BatchIsEdits
<1>2. /\ i \in 1 .. n + 1 /\ T \in Groups(p) /\ Start(p, i) = End(p, T) /\ T < i
  BY EditAtATarget DEF IsTarget, InsertionPoint
<1>3. /\ n \in Nat /\ DOMAIN p.chunks = 1 .. n /\ Start(p, i) \in Nat
  BY <1>1, <1>2, ChunksStartInOrder
<1>4. Around(p, T) = {T} \cup Ancestors(p, T)
  BY DEF Around
<1>5. ASSUME NEW g \in Groups(p)
      PROVE  /\ g < i /\ Start(p, i) < End(p, g) => g \in Around(p, T)
             /\ g \in Around(p, T) => g < i /\ Start(p, i) <= End(p, g)
             /\ End(p, g) \in Nat
  <2>1. g \in 1 .. n
    BY <1>3 DEF Groups
  <2>2. End(p, g) \in Nat
    BY <1>1, <2>1, ChunksEnd DEF n
  <2> QED
    BY <1>1, <1>2, <1>4, <2>2, TargetGroupsGrow DEF n
<1> HIDE DEF n, i, T, x
<1>6. ASSUME NEW g \in Groups(p), g < i, Start(p, i) = End(p, g)
      PROVE  GrowsBehind(p, edits, m, place, gain, g, i, x) <=> g \in Around(p, T)
  <2> DEFINE S == {l \in 1 .. m : place[l] = i /\ g \in Grows(p, edits[l])}
             E == Earlier(m, place, j)
  <2>1. ASSUME NEW l \in 1 .. m, place[l] = i
        PROVE  /\ j < l /\ g \in Grows(p, edits[l]) => g \in Around(p, T)
               /\ l < j /\ g \in Around(p, T) => g \in Grows(p, edits[l])
               /\ g \in Grows(p, edits[j]) <=> g \in Around(p, T)
    BY <1>6, <2>1, AroundsNest DEF i, T
  <2>2. \A l : l \in E <=> l \in 1 .. m /\ place[l] = i /\ l < j
    BY DEF Earlier, At, i
  <2>3. \A l : l \in S <=> l \in 1 .. m /\ place[l] = i /\ g \in Grows(p, edits[l])
    OBVIOUS
  <2>4. GrowsBehind(p, edits, m, place, gain, g, i, x) <=> x < SumOver(m, gain, S)
    BY <1>6 DEF GrowsBehind
  <2>5. x = SumOver(m, gain, E)
    BY DEF x
  <2>6. place[j] = i
    BY DEF i
  <2> HIDE DEF S, E
  <2>7. CASE g \notin Around(p, T)
    <3>1. ASSUME NEW l \in 1 .. m, l \in S PROVE l \in E
      <4>1. place[l] = i /\ g \in Grows(p, edits[l])
        BY <2>3, <3>1
      <4>2. ~ (j < l)
        BY <2>1, <2>7, <4>1
      <4>3. l # j
        BY <2>1, <2>6, <2>7, <4>1
      <4>4. l < j
        BY <1>1, <4>2, <4>3
      <4> QED
        BY <2>2, <4>1, <4>4
    <3>2. /\ SumOver(m, gain, S) \in Nat /\ SumOver(m, gain, E) \in Nat
          /\ SumOver(m, gain, S) <= SumOver(m, gain, E)
      BY <1>1, <3>1, SomeAreFewer
    <3> DEFINE u == SumOver(m, gain, S)
               v == SumOver(m, gain, E)
    <3>3. u \in Nat /\ v \in Nat /\ u <= v
      BY <3>2
    <3> HIDE DEF u, v
    <3>4. ~ (v < u)
      BY <3>3
    <3> QED
      BY <2>4, <2>5, <2>7, <3>4 DEF u, v
  <2>8. CASE g \in Around(p, T)
    <3> DEFINE F == E \cup {j}
    <3>1. E \in SUBSET (1 .. m) /\ j \notin E
      BY <1>1, <2>2
    <3>2. ASSUME NEW l \in 1 .. m, l \in F PROVE l \in S
      <4>1. CASE l \in E
        BY <2>1, <2>2, <2>3, <2>8, <4>1
      <4>2. CASE l = j
        BY <2>1, <2>3, <2>6, <2>8, <4>2
      <4> QED
        BY <3>2, <4>1, <4>2
    <3>3. SumOver(m, gain, F) = SumOver(m, gain, E) + gain[j]
      BY <1>1, <3>1, OneMore
    <3> HIDE DEF F
    <3>4. /\ SumOver(m, gain, F) \in Nat /\ SumOver(m, gain, S) \in Nat
          /\ SumOver(m, gain, F) <= SumOver(m, gain, S)
      BY <1>1, <3>2, SomeAreFewer
    <3>5. SumOver(m, gain, E) \in Nat
      <4>1. \A l \in 1 .. m : l \in E => l \in E
        OBVIOUS
      <4> QED
        BY <1>1, <4>1, SomeAreFewer
    <3>6. gain[j] \in Nat
      BY <1>1
    <3> DEFINE u == SumOver(m, gain, S)
               v == SumOver(m, gain, E)
               w == SumOver(m, gain, F)
               d == gain[j]
    <3>7. u \in Nat /\ v \in Nat /\ w \in Nat /\ d \in Nat /\ d # 0 /\ w = v + d /\ w <= u
      BY <3>3, <3>4, <3>5, <3>6
    <3> HIDE DEF u, v, w, d
    <3>8. v < u
      BY <3>7
    <3> QED
      BY <2>4, <2>5, <2>8, <3>8 DEF u, v
  <2> QED
    BY <2>7, <2>8
<1>7. ASSUME NEW g \in Groups(p)
      PROVE  g \in AroundNew(p, edits, m, place, gain, j) <=> g \in Around(p, T)
  <2>1. g \in AroundNew(p, edits, m, place, gain, j)
          <=> /\ g < i
              /\ \/ Start(p, i) < End(p, g)
                 \/ GrowsBehind(p, edits, m, place, gain, g, i, x)
    BY <1>1, GroupAroundNew DEF i, x
  <2>2. GrowsBehind(p, edits, m, place, gain, g, i, x) => Start(p, i) = End(p, g)
    BY DEF GrowsBehind
  <2>3. Start(p, i) \in Nat /\ End(p, g) \in Nat
    BY <1>3, <1>5
  <2>4. Start(p, i) < End(p, g) \/ Start(p, i) = End(p, g) \/ ~ (Start(p, i) <= End(p, g))
    BY <2>3
  <2> QED
    BY <1>5, <1>6, <2>1, <2>2, <2>4
<1>8. AroundNew(p, edits, m, place, gain, j) \subseteq Groups(p)
  BY DEF AroundNew, Surrounding
<1>9. Around(p, T) \subseteq Groups(p)
  <2>1. ASSUME NEW g \in Ancestors(p, T) PROVE g \in Groups(p)
    <3>1. g \in 1 .. T - 1 /\ p.chunks[g].kind = "group"
      BY DEF Ancestors
    <3>2. T \in 1 .. n
      BY <1>2, <1>3 DEF Groups
    <3>3. g \in 1 .. n
      BY <1>3, <3>1, <3>2
    <3> QED
      BY <1>3, <3>1, <3>3 DEF Groups
  <2> QED
    BY <1>2, <1>4, <2>1
<1>10. AroundNew(p, edits, m, place, gain, j) = Around(p, T)
  BY <1>7, <1>8, <1>9
<1> QED
  BY <1>10 DEF T

\* Where no group ends with the file, a record that is put in at the root has none around it.
LEMMA AroundAtRoot ==
  ASSUME NEW p, NEW mutations, NEW m, NEW edits, NEW place, NEW gain, NEW loss,
         IsBatchOf(p, mutations, m, edits, place, gain, loss), ~ SharesEnd(p, Root),
         NEW j \in 1 .. m, mutations[j].kind = "insert", mutations[j].target = Root
  PROVE  AroundNew(p, edits, m, place, gain, j) = {}
<1> DEFINE i == place[j]
<1>1. /\ WellFormed(p) /\ Scans(p) /\ m \in Nat
  BY BatchIsEdits
<1>2. Start(p, i) = InsertionPoint(p, Root)
  BY EditAtATarget
<1>4. ASSUME NEW g \in Groups(p)
      PROVE  Start(p, i) \in Nat /\ End(p, g) \in Nat /\ ~ (Start(p, i) <= End(p, g))
  BY <1>1, <1>2, NoneAtTheEnd
<1>5. ASSUME NEW g \in Groups(p) PROVE g \notin AroundNew(p, edits, m, place, gain, j)
  <2> DEFINE x == SumOver(m, gain, Earlier(m, place, j))
  <2>1. g \in AroundNew(p, edits, m, place, gain, j)
          => \/ Start(p, i) < End(p, g)
             \/ GrowsBehind(p, edits, m, place, gain, g, i, x)
    BY <1>1, GroupAroundNew
  <2>2. GrowsBehind(p, edits, m, place, gain, g, i, x) => Start(p, i) = End(p, g)
    BY DEF GrowsBehind
  <2> HIDE DEF x, i
  <2> QED
    BY <1>4, <2>1, <2>2
<1>6. AroundNew(p, edits, m, place, gain, j) \subseteq Groups(p)
  BY DEF AroundNew, Surrounding
<1> QED
  BY <1>5, <1>6

(***************************************************************************)
(* What calls do to the records they name.                                 *)
(***************************************************************************)

\* A record that is there is found by its id.
LEMMA RecordFound ==
  ASSUME NEW q, Opens(q), NEW k \in 1 .. Len(q.chunks), NEW id, NEW payload,
         q.chunks[k] = Record(id, payload)
  PROVE  /\ id \in Ids(q) /\ Payload(q, id) = payload
         /\ PlaceOf(q, id) = Place(q, k)
<1>1. q.chunks[k].kind = "record" /\ q.chunks[k].id = id /\ q.chunks[k].payload = payload
  BY DEF Record
<1>2. k \in Records(q)
  BY <1>1, RecordsAreFinite DEF Records
<1>3. id \in Ids(q)
  BY <1>1, <1>2 DEF Ids
<1>4. k = IndexOf(q, id)
  BY <1>1, <1>3, IndexOfARecord
<1> QED
  BY <1>1, <1>3, <1>4 DEF Payload, PlaceOf

\* The mutation m is in its target in q.
Lands(p, q, m) == PlaceOf(q, m.id) = TargetPlace(p, m.target)

\* What q made of the record that the j-th mutation names.
TakesEffect(op, mutations, j, p, q) ==
  LET m == mutations[j] IN
  /\ m.kind = "delete" => m.id \notin Ids(q)
  /\ m.kind # "delete" => m.id \in Ids(q) /\ Payload(q, m.id) = m.payload
  /\ m.kind = "replace" => PlaceOf(q, m.id) = PlaceOf(p, m.id)
  /\ /\ m.kind = "insert"
     /\ Ordered(p, mutations)
     /\ (op = "batch" /\ m.target # Root) \/ ~ SharesEnd(p, m.target)
     => Lands(p, q, m)

\* What an edit of a batch puts in.
LEMMA BatchPieces ==
  ASSUME NEW p, NEW mutations, NEW m, NEW edits, NEW place, NEW gain, NEW loss,
         IsBatchOf(p, mutations, m, edits, place, gain, loss), NEW j \in 1 .. m
  PROVE  /\ mutations[j].kind \in {"insert", "replace", "delete"}
         /\ mutations[j].kind = "delete" => edits[j].pieces = <<>>
         /\ mutations[j].kind # "delete" =>
              /\ edits[j].pieces = <<Record(mutations[j].id, mutations[j].payload)>>
              /\ gain[j] # 0
<1>1. edits[j] = ByteEdit(p, mutations[j])
  BY BatchEdit DEF IsBatchOf
<1>2. mutations[j].kind \in {"insert", "replace", "delete"} /\ mutations[j].payload \in Nat
  BY DEF IsBatchOf, IsBatch
<1>3. gain[j] = IF mutations[j].kind = "delete" THEN 0
                ELSE RecordSize(Record(mutations[j].id, mutations[j].payload))
  BY DEF IsBatchOf, IsBatch, BatchGain
<1>4. RecordSize(Record(mutations[j].id, mutations[j].payload)) # 0
  BY <1>2 DEF RecordSize, Record, RecordHeaderSize
<1> QED
  BY <1>1, <1>2, <1>3, <1>4 DEF ByteEdit

\* A batch leaves nothing of the records it deletes.
LEMMA BatchDeletes ==
  ASSUME NEW p, NEW mutations, NEW m, NEW edits, NEW place, NEW gain, NEW loss,
         IsBatchOf(p, mutations, m, edits, place, gain, loss),
         NEW q, WellFormed(q), q.chunks = Rewritten(p, edits),
         NEW j \in 1 .. m, mutations[j].kind = "delete"
  PROVE  mutations[j].id \notin Ids(q)
<1> SUFFICES ASSUME mutations[j].id \in Ids(q) PROVE FALSE
  OBVIOUS
<1>1. /\ WellFormed(p) /\ m \in Nat /\ DOMAIN mutations = 1 .. m
      /\ EditsAt(p, edits, Named(mutations), m, place, gain, loss)
  BY BatchIsEdits
<1>2. PICK k \in Records(q) : q.chunks[k].id = mutations[j].id
  BY DEF Ids
<1> DEFINE c == q.chunks[k]
<1>3. k \in 1 .. Len(q.chunks) /\ c.kind = "record"
  BY ChunksStartInOrder DEF Records
<1>4. c \in ChunksLeft(p, edits, m, place, loss)
  BY <1>1, <1>3, NoOtherChunks
<1>5. c.id = mutations[j].id
  BY <1>2
<1> HIDE DEF c
<1>6. CASE c \in NewRecords(edits, m)
  <2>1. PICK l \in 1 .. m : edits[l].pieces # <<>> /\ c = edits[l].pieces[1]
    BY <1>6 DEF NewRecords
  <2>2. mutations[l].kind # "delete"
    BY <2>1, BatchPieces
  <2>3. edits[l].pieces = <<Record(mutations[l].id, mutations[l].payload)>>
    BY <2>2, BatchPieces
  <2>4. c.id = mutations[l].id
    BY <2>1, <2>3 DEF Record
  <2>5. l = j
    BY <1>1, <1>5, <2>4 DEF IsBatchOf, BatchValid
  <2> QED
    BY <2>2, <2>5
<1>7. CASE c \notin NewRecords(edits, m)
  <2>1. PICK i \in Untouched(p, m, place, loss) : c = Patched(p, edits)[i]
    BY <1>4, <1>7 DEF ChunksLeft
  <2>2. i \in 1 .. Len(p.chunks) /\ ~ Taken(m, place, loss, i)
    BY DEF Untouched
  <2>3. SameEntry(p.chunks[i], c)
    BY <1>1, <2>1, <2>2, PatchedChunks
  <2>4. p.chunks[i].kind \in {"record", "group"}
    BY <1>1, <2>2, ChunksEnd
  <2>5. p.chunks[i].kind = "record" /\ p.chunks[i].id = mutations[j].id
    BY <1>3, <1>5, <2>3, <2>4 DEF SameEntry
  <2>6. p.chunks[i].id \in Named(mutations)
    BY <1>1, <2>5 DEF Named
  <2> QED
    BY <1>1, <2>2, <2>5, <2>6 DEF EditsAt, Taken
<1> QED
  BY <1>6, <1>7

\* Keys of what is around a target.
LEMMA TargetPlaceIs ==
  ASSUME NEW p, NEW target
  PROVE  /\ target # Root => TargetPlace(p, target) = Keys(p, Around(p, target))
         /\ target = Root => TargetPlace(p, target) = {}
  BY DEF TargetPlace, Around, Place, Keys

\* apply_record_batch does what its mutations say.
LEMMA BatchTakesEffect ==
  ASSUME NEW p, Opens(p), NEW mutations, NEW m, IsBatch(mutations, m),
         BatchValid(p, mutations), Opens(Batched(p, mutations)), NEW j \in 1 .. m
  PROVE  TakesEffect("batch", mutations, j, p, Batched(p, mutations))
<1> DEFINE q == Batched(p, mutations)
           edits == ByteEdits(p, mutations)
           place == BatchPlace(p, mutations)
           gain == BatchGain(mutations)
           loss == BatchLoss(p, mutations)
           mut == mutations[j]
<1>1. IsBatchOf(p, mutations, m, edits, place, gain, loss)
  BY DEF IsBatchOf
<1>2. q.chunks = Rewritten(p, edits) /\ Opens(q) /\ WellFormed(q)
  BY DEF Batched, Rewrite, Opens
<1> HIDE DEF q, edits, place, gain, loss
<1>3. /\ WellFormed(p) /\ Scans(p) /\ m \in Nat /\ DOMAIN mutations = 1 .. m
      /\ EditsAt(p, edits, Named(mutations), m, place, gain, loss)
      /\ GrowsAround(p, edits, m, place, loss)
  BY <1>1, BatchIsEdits
<1>4. ASSUME mut.kind = "delete" PROVE mut.id \notin Ids(q)
  BY <1>1, <1>2, <1>4, BatchDeletes
<1> DEFINE around == AroundNew(p, edits, m, place, gain, j)
<1>5. ASSUME mut.kind # "delete"
      PROVE  /\ mut.id \in Ids(q) /\ Payload(q, mut.id) = mut.payload
             /\ PlaceOf(q, mut.id) = Keys(p, around)
             /\ gain[j] # 0
  <2>1. edits[j].pieces = <<Record(mut.id, mut.payload)>> /\ gain[j] # 0
    BY <1>1, <1>5, BatchPieces
  <2>2. edits[j].pieces # <<>> /\ edits[j].pieces[1] = Record(mut.id, mut.payload)
    BY <2>1
  <2>3. PICK k \in 1 .. Len(q.chunks) :
          /\ q.chunks[k] = edits[j].pieces[1]
          /\ Place(q, k) = Keys(p, around)
    BY <1>2, <1>3, <2>2, NewRecordAt
  <2>4. q.chunks[k] = Record(mut.id, mut.payload)
    BY <2>2, <2>3
  <2> QED
    BY <1>2, <2>1, <2>3, <2>4, RecordFound
<1>6. ASSUME mut.kind = "replace" PROVE PlaceOf(q, mut.id) = PlaceOf(p, mut.id)
  <2>1. around = Ancestors(p, place[j])
    BY <1>1, <1>6, AroundReplaced
  <2>2. place[j] = IndexOf(p, mut.id)
    BY <1>1, <1>6, EditOfARecord
  <2> QED
    BY <1>5, <1>6, <2>1, <2>2 DEF PlaceOf, Place, Keys
<1>7. ASSUME mut.kind = "insert", Ordered(p, mutations),
             mut.target # Root \/ ~ SharesEnd(p, mut.target)
      PROVE  Lands(p, q, mut)
  <2>1. PlaceOf(q, mut.id) = Keys(p, around) /\ gain[j] # 0
    BY <1>5, <1>7
  <2>2. CASE mut.target # Root
    <3>1. around = Around(p, mut.target)
      BY <1>1, <1>7, <2>1, <2>2, AroundInserted
    <3> QED
      BY <2>1, <2>2, <3>1, TargetPlaceIs DEF Lands
  <2>3. CASE mut.target = Root
    <3>1. around = {}
      BY <1>1, <1>7, <2>3, AroundAtRoot
    <3> QED
      BY <2>1, <2>3, <3>1, TargetPlaceIs DEF Lands, Keys
  <2> QED
    BY <2>2, <2>3
<1>8. TakesEffect("batch", mutations, j, p, q)
  BY <1>4, <1>5, <1>6, <1>7 DEF TakesEffect
<1> QED
  BY <1>8 DEF q

\* One mutation alone is in order.
LEMMA OneMutation ==
  ASSUME NEW op, NEW kind, NEW id, NEW payload, NEW target, NEW p, NEW q,
         kind = "delete" => id \notin Ids(q),
         kind # "delete" => id \in Ids(q) /\ Payload(q, id) = payload,
         kind = "replace" => PlaceOf(q, id) = PlaceOf(p, id),
         kind = "insert" /\ ~ SharesEnd(p, target) => PlaceOf(q, id) = TargetPlace(p, target),
         op # "batch", NEW j \in DOMAIN <<Mutation(kind, id, payload, target)>>
  PROVE  TakesEffect(op, <<Mutation(kind, id, payload, target)>>, j, p, q)
<1> DEFINE mut == Mutation(kind, id, payload, target)
           mutations == <<mut>>
<1>1. /\ mut.kind = kind /\ mut.id = id /\ mut.payload = payload /\ mut.target = target
  BY DEF Mutation
<1> HIDE DEF mut
<1>2. mutations[j] = mut
  OBVIOUS
<1> HIDE DEF mutations
<1>3. TakesEffect(op, mutations, j, p, q)
  BY <1>1, <1>2 DEF TakesEffect, Lands
<1> QED
  BY <1>3 DEF mutations, mut

\* replace_record_payload and replace_subrecord do what they say ...
LEMMA ReplacedTakesEffect ==
  ASSUME NEW p, Opens(p), NEW id \in Ids(p), NEW payload \in Nat,
         Opens(Replaced(p, id, payload))
  PROVE  LET q == Replaced(p, id, payload)
         IN id \in Ids(q) /\ Payload(q, id) = payload /\ PlaceOf(q, id) = PlaceOf(p, id)
<1> DEFINE q == Replaced(p, id, payload)
           i == IndexOf(p, id)
           grown == ContainingGroups(p, Start(p, i), End(p, i))
<1>1. WellFormed(p) /\ Scans(p) /\ WellFormed(q) /\ Opens(q)
  BY DEF Opens, Indexes
<1>2. /\ OneEdit(p, q, {id}, i, 1, 1) /\ GroupsGrow(p, q, i, 1, 1, grown)
      /\ i \in 1 .. Len(q.chunks) /\ q.chunks[i] = Record(id, payload)
  BY <1>1, ReplacedIsOneEdit
<1> HIDE DEF q, i, grown
<1>3. Place(q, i) = Keys(p, AroundOne(p, i, grown))
  BY <1>1, <1>2, OneNewRecord
<1>4. AroundOne(p, i, grown) = Ancestors(p, i)
  <2>1. \A g \in Groups(p) : g \in grown => Start(p, i) # End(p, g)
    BY <1>2 DEF GroupsGrow
  <2>2. Ancestors(p, i) = {g \in Groups(p) : g < i /\ Start(p, i) < End(p, g)}
    <3>1. i \in 1 .. Len(p.chunks) + 1
      BY <1>2 DEF OneEdit
    <3> QED
      BY <1>1, <3>1, AncestorsAre
  <2> QED
    BY <2>1, <2>2 DEF AroundOne
<1>5. /\ id \in Ids(q) /\ Payload(q, id) = payload /\ PlaceOf(q, id) = Place(q, i)
  BY <1>1, <1>2, RecordFound
<1>6. PlaceOf(q, id) = PlaceOf(p, id)
  BY <1>3, <1>4, <1>5 DEF PlaceOf, Place, Keys, i
<1> QED
  BY <1>5, <1>6 DEF q

\* ... remove_record ...
LEMMA RemovedTakesEffect ==
  ASSUME NEW p, Opens(p), NEW id \in Ids(p), WellFormed(Removed(p, id))
  PROVE  id \notin Ids(Removed(p, id))
<1> DEFINE q == Removed(p, id)
           i == IndexOf(p, id)
           n == Len(p.chunks)
<1>1. OneEdit(p, q, {id}, i, 0, 1)
  BY RemovedIsOneEdit
<1>2. WellFormed(p) /\ WellFormed(q)
  BY DEF Opens
<1> HIDE DEF q, i
<1>3. /\ n \in Nat /\ i \in 1 .. n /\ Len(q.chunks) = n + 0 - 1
      /\ \A x \in 1 .. n : x # i =>
           /\ SameEntry(p.chunks[x], q.chunks[NewPlace(i, 0, 1, x)])
           /\ p.chunks[x].kind = "record" => p.chunks[x].id # id
  BY <1>1, <1>2, ChunksStartInOrder DEF OneEdit
<1>4. ASSUME NEW k \in Records(q) PROVE q.chunks[k].id # id
  <2>1. k \in 1 .. Len(q.chunks) /\ q.chunks[k].kind = "record"
    BY <1>2, ChunksStartInOrder DEF Records
  <2> DEFINE x == IF k < i THEN k ELSE k + 1
  <2> HIDE DEF n
  <2>2. x \in 1 .. n /\ x # i /\ NewPlace(i, 0, 1, x) = k
    BY <1>3, <2>1 DEF NewPlace
  <2> HIDE DEF x
  <2>3. SameEntry(p.chunks[x], q.chunks[k]) /\ (p.chunks[x].kind = "record" => p.chunks[x].id # id)
    BY <1>3, <2>2
  <2>4. p.chunks[x].kind \in {"record", "group"}
    BY <1>2, <2>2, ChunksEnd DEF n
  <2> QED
    BY <2>1, <2>3, <2>4 DEF SameEntry
<1>5. id \notin Ids(q)
  BY <1>4 DEF Ids
<1> QED
  BY <1>5 DEF q

\* ... insert_record and insert_record_with_id, where no other group ends with the target.
LEMMA InsertedTakesEffect ==
  ASSUME NEW p, Opens(p), NEW target, IsTarget(p, target), NEW id, id \notin Ids(p),
         NEW payload \in Nat, Opens(Inserted(p, target, id, payload))
  PROVE  LET q == Inserted(p, target, id, payload)
         IN /\ id \in Ids(q) /\ Payload(q, id) = payload
            /\ ~ SharesEnd(p, target) => PlaceOf(q, id) = TargetPlace(p, target)
<1> DEFINE q == Inserted(p, target, id, payload)
           n == Len(p.chunks)
<1>1. WellFormed(p) /\ Scans(p) /\ WellFormed(q) /\ Opens(q)
  BY DEF Opens, Indexes
<1>a. PICK i : IsPutAt(p, q, target, id, payload, i)
  BY <1>1, InsertedIsOneEdit
<1>2. /\ i \in 1 .. Len(q.chunks) /\ i \in 1 .. n + 1
      /\ Start(p, i) = InsertionPoint(p, target)
      /\ OneEdit(p, q, {id}, i, 1, 0)
      /\ GroupsGrow(p, q, i, 1, 0, ContainingGroups(p, Start(p, i), Start(p, i)))
      /\ q.chunks[i] = Record(id, payload)
  BY <1>a DEF IsPutAt
<1> DEFINE grown == ContainingGroups(p, Start(p, i), Start(p, i))
           around == AroundOne(p, i, grown)
<1>3. Place(q, i) = Keys(p, around)
  <2> HIDE DEF q, grown, around
  <2>1. GroupsGrow(p, q, i, 1, 0, grown)
    BY <1>2 DEF grown
  <2> QED
    BY <1>1, <1>2, <2>1, OneNewRecord DEF around
<1>4. /\ id \in Ids(q) /\ Payload(q, id) = payload /\ PlaceOf(q, id) = Place(q, i)
  <2> HIDE DEF q
  <2> QED
    BY <1>1, <1>2, RecordFound
<1>5. /\ n \in Nat /\ DOMAIN p.chunks = 1 .. n /\ \A k \in 1 .. n + 1 : Start(p, k) \in Nat
      /\ \A j, k \in 1 .. n + 1 : j < k <=> Start(p, j) < Start(p, k)
  BY <1>1, ChunksStartInOrder
<1> HIDE DEF q, n
<1>6. ASSUME NEW g \in Groups(p)
      PROVE  g \in around <=> g < i /\ Start(p, i) <= End(p, g)
  <2>1. g \in 1 .. n /\ g \in 1 .. n + 1
    BY <1>5 DEF Groups
  <2>2. End(p, g) \in Nat /\ Start(p, g) \in Nat /\ Start(p, i) \in Nat
    BY <1>1, <1>2, <1>5, <2>1, ChunksEnd DEF n
  <2>3. g < i => Start(p, g) < Start(p, i)
    BY <1>2, <1>5, <2>1
  <2>4. g \in grown <=> Start(p, g) + GroupHeaderSize <= Start(p, i) /\ End(p, g) >= Start(p, i)
    BY DEF ContainingGroups
  <2>5. g \in around
          <=> /\ g < i
              /\ Start(p, i) < End(p, g) \/ (Start(p, i) = End(p, g) /\ g \in grown)
    <3> HIDE DEF grown
    <3> QED
      BY DEF AroundOne
  <2> HIDE DEF around, grown
  <2> QED
    BY <2>2, <2>3, <2>4, <2>5 DEF GroupHeaderSize
<1>7. around \subseteq Groups(p)
  BY DEF AroundOne
<1> HIDE DEF around, grown
<1>8. ASSUME target = Root, ~ SharesEnd(p, Root) PROVE around = {}
  <2>1. ASSUME NEW g \in Groups(p) PROVE g \notin around
    <3>1. /\ End(p, g) \in Nat /\ Start(p, i) \in Nat /\ End(p, g) < Start(p, i)
      BY <1>1, <1>2, <1>8, NoneAtTheEnd
    <3> QED
      BY <1>6, <3>1
  <2> QED
    BY <1>7, <2>1
<1>9. ASSUME target # Root, ~ SharesEnd(p, target) PROVE around = Around(p, target)
  <2>1. target \in Groups(p) /\ Start(p, i) = End(p, target)
    BY <1>2, <1>9 DEF IsTarget, InsertionPoint
  <2>2. Around(p, target) = {target} \cup Ancestors(p, target)
    BY <1>9 DEF Around
  <2>3. target < i
    <3>1. PICK k \in 1 .. n + 1 : Start(p, k) = InsertionPoint(p, target) /\ target < k
      BY <1>9, InsertionPlace DEF n
    <3>2. Start(p, k) = Start(p, i) /\ Start(p, i) \in Nat
      BY <1>2, <1>5, <3>1
    <3>3. ~ (k < i) /\ ~ (i < k)
      BY <1>2, <1>5, <3>2
    <3>4. k = i
      BY <1>2, <1>5, <3>3
    <3> QED
      BY <3>1, <3>4
  <2>4. ASSUME NEW g \in Groups(p)
        PROVE  /\ g < i /\ Start(p, i) < End(p, g) => g \in Around(p, target)
               /\ g \in Around(p, target) => g < i /\ Start(p, i) <= End(p, g)
    BY <1>1, <1>2, <2>1, <2>2, <2>3, TargetGroupsGrow DEF n
  <2>5. ASSUME NEW g \in Groups(p), Start(p, i) = End(p, g)
        PROVE  g \in Around(p, target)
    <3>1. End(p, g) = InsertionPoint(p, target)
      BY <1>2, <2>5
    <3> QED
      BY <1>9, <2>2, <3>1 DEF SharesEnd
  <2>6. ASSUME NEW g \in Groups(p) PROVE g \in around <=> g \in Around(p, target)
    <3>1. g \in 1 .. n
      BY <1>5 DEF Groups
    <3>2. End(p, g) \in Nat /\ Start(p, i) \in Nat
      BY <1>1, <1>2, <1>5, <3>1, ChunksEnd DEF n
    <3>3. Start(p, i) <= End(p, g) => Start(p, i) < End(p, g) \/ Start(p, i) = End(p, g)
      BY <3>2
    <3> QED
      BY <1>6, <2>4, <2>5, <3>3
  <2>7. Around(p, target) \subseteq Groups(p)
    <3>1. target \in 1 .. n /\ target \in 1 .. n + 1
      BY <1>5, <2>1 DEF Groups
    <3>2. Ancestors(p, target)
            = {g \in Groups(p) : g < target /\ Start(p, target) < End(p, g)}
      BY <1>1, <3>1, AncestorsAre DEF n
    <3> QED
      BY <2>1, <2>2, <3>2
  <2> QED
    BY <1>7, <2>6, <2>7
<1>10. ~ SharesEnd(p, target) => PlaceOf(q, id) = TargetPlace(p, target)
  <2>1. CASE target = Root
    BY <1>3, <1>4, <1>8, <2>1, TargetPlaceIs DEF Keys
  <2>2. CASE target # Root
    BY <1>3, <1>4, <1>9, <2>2, TargetPlaceIs
  <2> QED
    BY <2>1, <2>2
<1> QED
  BY <1>4, <1>10 DEF q

\* The last call did what its mutations say, if it returned Ok.
EffectTaken ==
  last'.ok => \A j \in DOMAIN last'.mutations :
                TakesEffect(last'.op, last'.mutations, j, package, package')

\* reopen does if the edit does.
LEMMA ReopenTakesEffect ==
  ASSUME NEW op, NEW mutations, NEW valid, NEW p, Reopen(op, mutations, valid, p),
         valid /\ Opens(p) =>
           \A j \in DOMAIN mutations : TakesEffect(op, mutations, j, package, p)
  PROVE  EffectTaken
<1>1. CASE valid /\ Opens(p) /\ package' = p /\ Called(op, mutations, TRUE)
  <2>1. last'.op = op /\ last'.mutations = mutations
    BY <1>1 DEF Called
  <2> QED
    BY <1>1, <2>1 DEF EffectTaken
<1>2. CASE Called(op, mutations, FALSE)
  BY <1>2 DEF EffectTaken, Called
<1> QED
  BY <1>1, <1>2 DEF Reopen

\* A call without mutations has nothing to do.
LEMMA NothingToDo ==
  ASSUME last'.mutations = <<>>
  PROVE  EffectTaken
  BY DEF EffectTaken

\* Every call that returns Ok does what it says.
LEMMA CallTakesEffect ==
  ASSUME FilesInv, Next
  PROVE  EffectTaken
<1>0. Opens(package) /\ Payloads \subseteq Nat
  BY SessionAssumption DEF FilesInv
<1>1. ASSUME NEW id \in KnownIds, NEW payload \in Payloads, ReplaceRecord(id, payload)
      PROVE  EffectTaken
  <2> DEFINE p == Replaced(package, id, payload)
             mutations == <<Mutation("replace", id, payload, Root)>>
  <2>1. ASSUME id \in Ids(package), Opens(p)
        PROVE  \A j \in DOMAIN mutations : TakesEffect("replace", mutations, j, package, p)
    <3>1. /\ id \in Ids(p) /\ Payload(p, id) = payload
          /\ PlaceOf(p, id) = PlaceOf(package, id)
      BY <1>0, <2>1, ReplacedTakesEffect
    <3> HIDE DEF p
    <3> QED
      BY <3>1, OneMutation
  <2>2. Reopen("replace", mutations, id \in Ids(package), p)
    BY <1>1 DEF ReplaceRecord
  <2> HIDE DEF p, mutations
  <2> QED
    BY <2>1, <2>2, ReopenTakesEffect
<1>2. ASSUME NEW id \in KnownIds, RemoveRecord(id)
      PROVE  EffectTaken
  <2> DEFINE p == Removed(package, id)
             mutations == <<Mutation("delete", id, 0, Root)>>
  <2>1. ASSUME id \in Ids(package), Opens(p)
        PROVE  \A j \in DOMAIN mutations : TakesEffect("remove", mutations, j, package, p)
    <3>1. id \notin Ids(p)
      BY <1>0, <2>1, RemovedTakesEffect DEF Opens
    <3> HIDE DEF p
    <3> QED
      BY <3>1, OneMutation
  <2>2. Reopen("remove", mutations, id \in Ids(package), p)
    BY <1>2 DEF RemoveRecord
  <2> HIDE DEF p, mutations
  <2> QED
    BY <2>1, <2>2, ReopenTakesEffect
<1>3. ASSUME NEW op, op # "batch", NEW target, NEW id, NEW payload \in Payloads,
             Reopen(op, <<Mutation("insert", id, payload, target)>>,
                    CanInsert(package, id) /\ IsTarget(package, target),
                    Inserted(package, target, id, payload))
      PROVE  EffectTaken
  <2> DEFINE p == Inserted(package, target, id, payload)
             mutations == <<Mutation("insert", id, payload, target)>>
             valid == CanInsert(package, id) /\ IsTarget(package, target)
  <2>1. ASSUME valid, Opens(p)
        PROVE  \A j \in DOMAIN mutations : TakesEffect(op, mutations, j, package, p)
    <3>1. IsTarget(package, target) /\ id \notin Ids(package)
      BY <2>1 DEF CanInsert
    <3>2. /\ id \in Ids(p) /\ Payload(p, id) = payload
          /\ ~ SharesEnd(package, target) => PlaceOf(p, id) = TargetPlace(package, target)
      BY <1>0, <2>1, <3>1, InsertedTakesEffect
    <3> HIDE DEF p
    <3> QED
      BY <1>3, <3>2, OneMutation
  <2>2. Reopen(op, mutations, valid, p)
    BY <1>3
  <2> HIDE DEF p, mutations, valid
  <2> QED
    BY <2>1, <2>2, ReopenTakesEffect
<1>4. ASSUME NEW mutations \in Batches, ApplyBatch(mutations)
      PROVE  EffectTaken
  <2>1. PICK m \in 0 .. MaxBatch : mutations \in [1 .. m -> Mutations]
    BY DEF Batches
  <2>2. CASE m = 0
    <3>1. mutations = <<>>
      BY <2>1, <2>2
    <3>2. last'.mutations = <<>>
      BY <1>4, <3>1, ReopenAnswers DEF ApplyBatch, Called
    <3> QED
      BY <3>2, NothingToDo
  <2>3. CASE m # 0
    <3>1. mutations # <<>>
      BY <2>1, <2>3
    <3>2. Reopen("batch", mutations, BatchValid(package, mutations), Batched(package, mutations))
      BY <1>4, <3>1 DEF ApplyBatch
    <3>3. ASSUME NEW x \in Mutations
          PROVE  x.kind \in {"insert", "replace", "delete"} /\ x.payload \in Nat
      BY <1>0 DEF Mutations, Mutation
    <3>4. IsBatch(mutations, m)
      <4>1. m \in Nat
        BY <2>1, SessionAssumption
      <4>2. \A j \in 1 .. m : mutations[j] \in Mutations
        BY <2>1
      <4> QED
        BY <2>1, <2>3, <3>3, <4>1, <4>2 DEF IsBatch
    <3>5. BatchValid(package, mutations) /\ Opens(Batched(package, mutations)) =>
            \A j \in DOMAIN mutations :
              TakesEffect("batch", mutations, j, package, Batched(package, mutations))
      <4>1. DOMAIN mutations = 1 .. m
        BY <2>1
      <4> QED
        BY <1>0, <3>4, <4>1, BatchTakesEffect
    <3> QED
      BY <3>2, <3>5, ReopenTakesEffect
  <2> QED
    BY <2>2, <2>3
<1>5. ASSUME NEW op, NEW valid, NEW h, EditHeader(op, valid, h)
      PROVE  EffectTaken
  BY <1>5, ReopenAnswers, NothingToDo DEF EditHeader
<1>6. ASSUME NEW class \in Classes, NEW text \in Texts, SetMetadata(class, text)
      PROVE  EffectTaken
  BY <1>5, <1>6 DEF SetMetadata
<1>7. ASSUME NEW d \in OtherPackages, AddDependency(d) \/ RemoveDependency(d)
      PROVE  EffectTaken
  BY <1>5, <1>7 DEF AddDependency, RemoveDependency
<1>8. ASSUME NEW d \in Rivals, AddIncompatibility(d) \/ RemoveIncompatibility(d)
      PROVE  EffectTaken
  BY <1>5, <1>8 DEF AddIncompatibility, RemoveIncompatibility
<1>9. ASSUME NEW list \in StreamingLists, ReplaceStreamingOverrides(list)
      PROVE  EffectTaken
  BY <1>5, <1>9 DEF ReplaceStreamingOverrides
<1>10. ASSUME RebuildSceneOffsets
       PROVE  EffectTaken
  BY <1>10, ReopenAnswers, NothingToDo DEF RebuildSceneOffsets
<1>11. ASSUME RefuseSave \/ WriteFails \/ \E q \in Paths : Save(q)
       PROVE  EffectTaken
  BY <1>11, NothingToDo DEF RefuseSave, WriteFails, Save, Called
<1>12. ASSUME NEW q \in Paths, OpenForEditing(q) \/ CreatePackage(q)
       PROVE  EffectTaken
  BY <1>12, NothingToDo DEF OpenForEditing, CreatePackage, Called
<1>13. ASSUME NEW target \in Targets, NEW payload \in Payloads, InsertRecord(target, payload)
       PROVE  EffectTaken
  BY <1>3, <1>13 DEF InsertRecord
<1>14. ASSUME NEW target \in Targets, NEW id \in KnownIds, NEW payload \in Payloads,
              InsertRecordWithId(target, id, payload)
       PROVE  EffectTaken
  BY <1>3, <1>14 DEF InsertRecordWithId
<1> QED
  BY <1>1, <1>2, <1>4, <1>6, <1>7, <1>8, <1>9, <1>10, <1>11, <1>12, <1>13, <1>14 DEF Next

\* Whatever edits a call makes, and however many of a batch start at one place: a replaced
\* record has its new payload and its old groups around it, a deleted one is gone, and an
\* inserted one is in its target and the groups around that, in no other, when a batch in
\* order puts it into a group or no other group ends at the same place.  No byte says which group a record
\* at the end of several belongs to but the sizes that update_containing_group_sizes and
\* apply_record_batch make of their sums.
THEOREM CallsAlwaysTakeEffect == Spec => CallsTakeEffect
<1> DEFINE Done(j) ==
             LET m == last'.mutations[j] IN
             /\ m.kind = "delete" => m.id \notin Ids(package')
             /\ m.kind # "delete" => m.id \in Ids(package') /\ Payload(package', m.id) = m.payload
             /\ m.kind = "replace" => PlaceOf(package', m.id) = PlaceOf(package, m.id)
             /\ /\ m.kind = "insert"
                /\ Ordered(package, last'.mutations)
                /\ (last'.op = "batch" /\ m.target # Root) \/ ~ SharesEnd(package, m.target)
                => LandsInTarget(m)
<1>1. ASSUME FilesInv, [Next]_vars
      PROVE  [last'.ok => \A j \in DOMAIN last'.mutations : Done(j)]_vars
  <2>1. CASE Next
    <3>1. EffectTaken
      BY <1>1, <2>1, CallTakesEffect
    <3>2. ASSUME NEW j, TakesEffect(last'.op, last'.mutations, j, package, package')
          PROVE  Done(j)
      BY <3>2 DEF TakesEffect, Lands, LandsInTarget
    <3> HIDE DEF Done
    <3> QED
      BY <3>1, <3>2 DEF EffectTaken
  <2> QED
    BY <1>1, <2>1
<1> QED
  BY <1>1, FilesInvariant, PTL DEF Spec, CallsTakeEffect

(***************************************************************************)
(* Owned ids and the next one.                                             *)
(***************************************************************************)

\* What an edit of the package makes of the header: the index of the package itself is as
\* it was, the next id is no less, and it is greater than every owned id that is new.
CoversIds(p, mutations) ==
  /\ OwnedIndex(p.header) = OwnedIndex(package.header)
  /\ Advances(p)
  /\ \A id \in Named(mutations) \ Ids(package) :
       id.index = OwnedIndex(package.header) => id.local < p.header.next

\* Then all owned ids are in range: those of a compact package are below its limit, since
\* reopening checks that the next one is.
LEMMA CoveredIdsAreInRange ==
  ASSUME Opens(package), OwnedIdsInRange(package), NEW p, Opens(p), NEW mutations,
         CoversIds(p, mutations), KeepsTheRest(package, p, Named(mutations))
  PROVE  OwnedIdsInRange(p)
<1>1. p.header.next \in Nat /\ package.header.next \in Nat /\ CompactLimit \in Nat
  BY HeaderTypes, LimitsAssumption
<1>2. p.header.class = "Compact" => p.header.next <= CompactLimit
  BY DEF Opens, Decodes, LoadClassValid
<1>3. ASSUME NEW id \in Ids(p), id.index = OwnedIndex(p.header)
      PROVE  id.local \in Nat /\ id.local < p.header.next
  <2>1. id.local \in Nat
    BY RecordsAreFinite
  <2>2. id \in Ids(package) \/ id \in Named(mutations) \ Ids(package)
    BY DEF KeepsTheRest
  <2>3. id.index = OwnedIndex(package.header) /\ p.header.next >= package.header.next
    BY <1>3 DEF CoversIds, Advances
  <2>4. CASE id \in Ids(package)
    <3>1. id.local < package.header.next
      BY <2>3, <2>4 DEF OwnedIdsInRange
    <3> QED
      BY <1>1, <2>1, <2>3, <3>1
  <2>5. CASE id \in Named(mutations) \ Ids(package)
    BY <2>1, <2>3, <2>5 DEF CoversIds
  <2> QED
    BY <2>2, <2>4, <2>5
<1>4. ASSUME NEW id \in Ids(p), id.index = OwnedIndex(p.header), p.header.class = "Compact"
      PROVE  id.local < CompactLimit
  BY <1>1, <1>2, <1>3, <1>4
<1> QED
  BY <1>3, <1>4 DEF OwnedIdsInRange

\* reopen covers the ids if the edit does.
LEMMA ReopenCovers ==
  ASSUME NEW op, NEW mutations, NEW valid, NEW p, Reopen(op, mutations, valid, p),
         valid /\ Opens(p) => CoversIds(p, mutations)
  PROVE  package' = package \/ CoversIds(package', last'.mutations)
<1>1. last'.mutations = mutations
  BY ReopenAnswers
<1> QED
  BY <1>1 DEF Reopen

\* The edits that insert nothing: they leave index and next id alone.
LEMMA NothingToCover ==
  ASSUME Opens(package), NEW p, NEW mutations, Named(mutations) \subseteq Ids(package),
         OwnedIndex(p.header) = OwnedIndex(package.header),
         p.header.next = package.header.next \/ Ids(p) = {}
  PROVE  CoversIds(p, mutations)
<1>1. package.header.next \in Nat
  BY HeaderTypes
<1> QED
  BY <1>1 DEF CoversIds, Advances

\* A call that rewrites the header, but for its dependencies.
LEMMA EditHeaderCovers ==
  ASSUME FilesInv, NEW op, NEW valid, NEW h, EditHeader(op, valid, h),
         DOMAIN h = DOMAIN NewHeader, h.dependencies = package.header.dependencies,
         h.next = package.header.next \/ h.count = 0
  PROVE  package' = package \/ CoversIds(package', last'.mutations)
<1> DEFINE p == Rewrite(package, package.chunks, h)
<1>1. /\ p.header.next = h.next /\ p.header.count = h.count
      /\ OwnedIndex(p.header) = OwnedIndex(package.header)
  BY RewrittenNext, RewrittenDependencies DEF OwnedIndex
<1>2. Reopen(op, <<>>, valid, p)
  BY DEF EditHeader
<1> HIDE DEF p
<1>3. Opens(p) => p.header.next = package.header.next \/ Ids(p) = {}
  BY <1>1, CountedRecords
<1>4. Named(<<>>) = {}
  BY DEF Named
<1>5. Opens(p) => CoversIds(p, <<>>)
  BY <1>1, <1>3, <1>4, NothingToCover DEF FilesInv
<1> QED
  BY <1>2, <1>5, ReopenCovers

\* Every call covers the ids, or leaves the package as it is, but for those that open
\* another package and those that change the dependencies.
LEMMA CoversStep ==
  ASSUME FilesInv, Next, last'.op \notin {"open", "addDependency", "removeDependency"}
  PROVE  package' = package \/ CoversIds(package', last'.mutations)
<1>0. /\ Opens(package)
      /\ DOMAIN package.header = DOMAIN NewHeader /\ package.header.next \in Nat
      /\ \A id \in KnownIds : id.local \in Nat
  BY HeaderTypes, SessionAssumption DEF FilesInv
<1>1. ASSUME NEW id \in KnownIds, NEW payload \in Payloads, ReplaceRecord(id, payload)
      PROVE  package' = package \/ CoversIds(package', last'.mutations)
  <2> DEFINE p == Replaced(package, id, payload)
             mutations == <<Mutation("replace", id, payload, Root)>>
  <2>1. p.header = package.header
    BY <1>0 DEF Replaced, Opens, WellFormed
  <2>2. Named(mutations) = {id}
    BY NamedByOne
  <2>3. Reopen("replace", mutations, id \in Ids(package), p)
    BY <1>1 DEF ReplaceRecord
  <2> HIDE DEF p, mutations
  <2> QED
    BY <1>0, <2>1, <2>2, <2>3, NothingToCover, ReopenCovers
<1>2. ASSUME NEW id \in KnownIds, RemoveRecord(id)
      PROVE  package' = package \/ CoversIds(package', last'.mutations)
  <2> DEFINE p == Removed(package, id)
             mutations == <<Mutation("delete", id, 0, Root)>>
             h == HeaderWithout(package, id)
  <2>1. DOMAIN h = DOMAIN NewHeader
    BY <1>0 DEF HeaderWithout
  <2>2. h.next = package.header.next /\ h.dependencies = package.header.dependencies
    BY <1>0 DEF HeaderWithout, NewHeader
  <2> HIDE DEF h
  <2>3. p.header.next = h.next /\ OwnedIndex(p.header) = OwnedIndex(h)
    BY <2>1, RewrittenNext, RewrittenDependencies DEF Removed, h
  <2>4. Named(mutations) = {id}
    BY NamedByOne
  <2>5. Reopen("remove", mutations, id \in Ids(package), p)
    BY <1>2 DEF RemoveRecord
  <2> HIDE DEF p, mutations
  <2>6. OwnedIndex(p.header) = OwnedIndex(package.header) /\ p.header.next = package.header.next
    BY <2>2, <2>3 DEF OwnedIndex
  <2> QED
    BY <1>0, <2>4, <2>5, <2>6, NothingToCover, ReopenCovers
<1>3. ASSUME NEW op, NEW target, NEW id, id.local \in Nat, NEW payload,
             Reopen(op, <<Mutation("insert", id, payload, target)>>,
                    CanInsert(package, id) /\ IsTarget(package, target),
                    Inserted(package, target, id, payload))
      PROVE  package' = package \/ CoversIds(package', last'.mutations)
  <2> DEFINE p == Inserted(package, target, id, payload)
             mutations == <<Mutation("insert", id, payload, target)>>
             h == HeaderWith(package, id)
             valid == CanInsert(package, id) /\ IsTarget(package, target)
  <2>1. DOMAIN h = DOMAIN NewHeader /\ h.dependencies = package.header.dependencies
    BY <1>0 DEF HeaderWith, NewHeader
  <2> HIDE DEF h
  <2>2. OwnedIndex(p.header) = OwnedIndex(package.header)
    BY <2>1, RewrittenDependencies DEF Inserted, h, OwnedIndex
  <2>3. /\ p.header.next >= package.header.next
        /\ id.index = OwnedIndex(package.header) => p.header.next > id.local
    BY <1>0, <1>3, InsertedNext
  <2>4. Named(mutations) = {id}
    BY NamedByOne
  <2>5. Reopen(op, mutations, valid, p)
    BY <1>3
  <2> HIDE DEF p, mutations, valid
  <2>6. Opens(p) => CoversIds(p, mutations)
    <3>1. Opens(p) => p.header.next \in Nat
      BY HeaderTypes
    <3> QED
      BY <1>3, <2>2, <2>3, <2>4, <3>1 DEF CoversIds, Advances
  <2> QED
    BY <2>5, <2>6, ReopenCovers
<1>4. ASSUME NEW mutations \in Batches, ApplyBatch(mutations)
      PROVE  package' = package \/ CoversIds(package', last'.mutations)
  <2> DEFINE p == Batched(package, mutations)
             h == BatchHeader(package, mutations)
  <2>1. DOMAIN h = DOMAIN NewHeader /\ h.dependencies = package.header.dependencies
    BY <1>0 DEF BatchHeader, NewHeader
  <2> HIDE DEF h
  <2>2. OwnedIndex(p.header) = OwnedIndex(package.header)
    BY <2>1, RewrittenDependencies DEF Batched, h, OwnedIndex
  <2>3. PICK n \in 0 .. MaxBatch : mutations \in [1 .. n -> Mutations]
    BY DEF Batches
  <2>4. \A j \in DOMAIN mutations : mutations[j].id.local \in Nat
    BY <1>0, <2>3 DEF Mutations, Mutation
  <2>5. ASSUME BatchValid(package, mutations)
        PROVE  CoversIds(p, mutations)
    <3>1. p.header.next >= package.header.next
      BY <1>0, <2>4, <2>5, BatchedNext
    <3>2. \A j \in DOMAIN mutations :
             mutations[j].kind = "insert" /\ mutations[j].id.index = OwnedIndex(package.header)
               => mutations[j].id.local < p.header.next
      BY <1>0, <2>4, <2>5, BatchedNext
    <3>3. ASSUME NEW id \in Named(mutations) \ Ids(package),
                 id.index = OwnedIndex(package.header)
          PROVE  id.local < p.header.next
      <4>1. PICK j \in DOMAIN mutations : id = mutations[j].id
        BY DEF Named
      <4>2. mutations[j].kind = "insert"
        BY <2>5, <4>1 DEF BatchValid, MutationValid
      <4> HIDE DEF p
      <4> QED
        BY <3>2, <3>3, <4>1, <4>2
    <3> QED
      BY <2>2, <3>1, <3>3 DEF CoversIds, Advances
  <2> HIDE DEF p
  <2>6. CASE Reopen("batch", mutations, BatchValid(package, mutations), p)
    BY <2>5, <2>6, ReopenCovers
  <2> QED
    BY <1>4, <2>6 DEF ApplyBatch, p
<1>5. ASSUME NEW class \in Classes, NEW text \in Texts, SetMetadata(class, text)
      PROVE  package' = package \/ CoversIds(package', last'.mutations)
  <2> DEFINE h == [SetLoadClass(package.header, class) EXCEPT !.text = text]
  <2>1. DOMAIN h = DOMAIN NewHeader
    BY <1>0 DEF SetLoadClass
  <2>2. /\ h.next = package.header.next \/ h.count = 0
        /\ h.dependencies = package.header.dependencies
    BY <1>0 DEF SetLoadClass, NewHeader
  <2>3. EditHeader("metadata", TRUE, h)
    BY <1>5 DEF SetMetadata
  <2> HIDE DEF h
  <2> QED
    BY <2>1, <2>2, <2>3, EditHeaderCovers
<1>6. ASSUME NEW d \in OtherPackages, AddDependency(d) \/ RemoveDependency(d)
      PROVE  last'.op \in {"addDependency", "removeDependency"}
  BY <1>6, ReopenAnswers DEF AddDependency, RemoveDependency, EditHeader
<1>7. ASSUME NEW d \in Rivals, AddIncompatibility(d) \/ RemoveIncompatibility(d)
      PROVE  package' = package \/ CoversIds(package', last'.mutations)
  <2> DEFINE g == WithIncompatibility(package.header, d)
             h == WithoutIncompatibility(package.header, d)
  <2>1. /\ DOMAIN g = DOMAIN NewHeader /\ g.next = package.header.next
        /\ g.dependencies = package.header.dependencies
    BY <1>0 DEF WithIncompatibility, NewHeader
  <2>2. /\ DOMAIN h = DOMAIN NewHeader /\ h.next = package.header.next
        /\ h.dependencies = package.header.dependencies
    BY <1>0 DEF WithoutIncompatibility, NewHeader
  <2>3. \/ EditHeader("incompatibilities", MayAddIncompatibility(package.header, d), g)
        \/ EditHeader("incompatibilities", d \in package.header.incompatibilities, h)
    BY <1>7 DEF AddIncompatibility, RemoveIncompatibility
  <2> HIDE DEF g, h
  <2> QED
    BY <2>1, <2>2, <2>3, EditHeaderCovers
<1>8. ASSUME NEW list \in StreamingLists, ReplaceStreamingOverrides(list)
      PROVE  package' = package \/ CoversIds(package', last'.mutations)
  <2> DEFINE h == WithStreaming(package.header, list)
  <2>1. /\ DOMAIN h = DOMAIN NewHeader /\ h.next = package.header.next
        /\ h.dependencies = package.header.dependencies
    BY <1>0 DEF WithStreaming, NewHeader
  <2>2. EditHeader("streaming", TRUE, h)
    BY <1>8 DEF ReplaceStreamingOverrides
  <2> HIDE DEF h
  <2> QED
    BY <2>1, <2>2, EditHeaderCovers
<1>9. CoversIds(Rebuilt(package), <<>>)
  <2> DEFINE h == [package.header EXCEPT !.offsets = SceneOffsets(package)]
             p == Rebuilt(package)
  <2>1. /\ DOMAIN h = DOMAIN NewHeader /\ h.next = package.header.next
        /\ h.dependencies = package.header.dependencies
    BY <1>0 DEF NewHeader
  <2>2. p = Rewrite(package, package.chunks, h)
    BY DEF Rebuilt
  <2> HIDE DEF h, p
  <2>3. p.header.next = package.header.next /\ OwnedIndex(p.header) = OwnedIndex(package.header)
    BY <2>1, <2>2, RewrittenNext, RewrittenDependencies DEF OwnedIndex
  <2>4. Named(<<>>) = {}
    BY DEF Named
  <2>5. CoversIds(p, <<>>)
    BY <1>0, <2>3, <2>4, NothingToCover
  <2> QED
    BY <2>5 DEF p
<1>10. ASSUME RebuildSceneOffsets
       PROVE  package' = package \/ CoversIds(package', last'.mutations)
  BY <1>9, <1>10, ReopenCovers DEF RebuildSceneOffsets
<1>11. ASSUME RefuseSave \/ WriteFails \/ \E q \in Paths : Save(q)
       PROVE  package' = package \/ CoversIds(package', last'.mutations)
  <2>1. /\ package' = package \/ package' = Rebuilt(package)
        /\ last'.mutations = <<>>
    BY <1>11 DEF RefuseSave, WriteFails, Save, Called
  <2> QED
    BY <1>9, <2>1
<1>12. ASSUME NEW q \in Paths, OpenForEditing(q) \/ CreatePackage(q)
       PROVE  last'.op = "open"
  BY <1>12 DEF OpenForEditing, CreatePackage, Called
<1>13. ASSUME NEW target \in Targets, NEW payload \in Payloads, InsertRecord(target, payload)
       PROVE  package' = package \/ CoversIds(package', last'.mutations)
  <2>1. RecordId(OwnedIndex(package.header), package.header.next).local \in Nat
    BY <1>0 DEF RecordId
  <2> QED
    BY <1>3, <1>13, <2>1 DEF InsertRecord
<1>14. ASSUME NEW target \in Targets, NEW id \in KnownIds, NEW payload \in Payloads,
              InsertRecordWithId(target, id, payload)
       PROVE  package' = package \/ CoversIds(package', last'.mutations)
  BY <1>0, <1>3, <1>14 DEF InsertRecordWithId
<1> QED
  BY <1>1, <1>2, <1>4, <1>5, <1>6, <1>7, <1>8, <1>10, <1>11, <1>12, <1>13, <1>14 DEF Next

\* A dependency that is added leaves no record with the index of the package itself, when
\* none counted on a dependency that was removed.
LEMMA AddedDependencyOwnsNothing ==
  ASSUME Opens(package), NEW d \in OtherPackages, AddDependency(d), OwnersKnown(package)
  PROVE  package' = package \/ OwnedIdsInRange(package')
<1> DEFINE h == WithDependency(package.header, d)
           p == Rewrite(package, package.chunks, h)
<1>1. /\ DOMAIN package.header = DOMAIN NewHeader
      /\ IsSequence(package.header.dependencies)
      /\ OwnedIndex(package.header) \in Nat
  BY HeaderTypes DEF Opens, WellFormed, IsHeader
<1>2. DOMAIN h = DOMAIN NewHeader /\ h.dependencies = Append(package.header.dependencies, d)
  BY <1>1 DEF WithDependency, NewHeader
<1>3. OwnedIndex(h) = OwnedIndex(package.header) + 1
  BY <1>1, <1>2 DEF OwnedIndex, IsSequence
<1> HIDE DEF h
<1>4. OwnedIndex(p.header) = OwnedIndex(package.header) + 1 /\ p.chunks = package.chunks
  BY <1>2, <1>3, RewrittenDependencies, RewrittenNext
<1>5. package' = package \/ package' = p
  BY DEF AddDependency, EditHeader, Reopen, h
<1> HIDE DEF p
<1>6. \A id \in Ids(p) : id.index \in Nat /\ id.index <= OwnedIndex(package.header)
  BY <1>4, RecordsAreFinite DEF Ids, Records, OwnersKnown
<1>7. OwnedIdsInRange(p)
  BY <1>1, <1>4, <1>6 DEF OwnedIdsInRange
<1> QED
  BY <1>5, <1>7

\* Whatever ids callers choose, whichever class the package changes to and whatever is
\* inserted, removed or saved: the next id stays ahead of every owned one, and a compact
\* package keeps them all within its slot (next_local in apply_record_batch and
\* insert_record_with_id; set_load_class resets the next id of an empty package alone).
THEOREM OwnedIdsAlwaysInRange == Spec => OwnedIdsStayInRange
<1>1. ASSUME FilesInv, FilesInv', [Next]_vars
      PROVE  [/\ last'.op \notin {"removeDependency", "open"}
              /\ last'.op = "addDependency" => OwnersKnown(package)
              /\ OwnedIdsInRange(package)
              => OwnedIdsInRange(package')]_vars
  <2> SUFFICES ASSUME Next, last'.op \notin {"removeDependency", "open"},
                      last'.op = "addDependency" => OwnersKnown(package),
                      OwnedIdsInRange(package)
               PROVE  OwnedIdsInRange(package')
    BY <1>1
  <2>0. Opens(package) /\ Opens(package')
    BY <1>1 DEF FilesInv
  <2>1. CASE package' = package
    BY <2>1
  <2>2. CASE last'.op = "addDependency"
    BY <2>0, <2>1, <2>2, AnswersTell, AddedDependencyOwnsNothing
  <2>3. CASE package' # package /\ last'.op # "addDependency"
    <3>1. CoversIds(package', last'.mutations)
      BY <1>1, <2>3, CoversStep
    <3>2. KeepsTheRest(package, package', Named(last'.mutations))
      BY <1>1, CallKeepsTheRest DEF RestKept
    <3> QED
      BY <2>0, <3>1, <3>2, CoveredIdsAreInRange
  <2> QED
    BY <2>1, <2>2, <2>3
<1> QED
  BY <1>1, FilesInvariant, PTL DEF Spec, OwnedIdsStayInRange

(***************************************************************************)
(* Fields: the values under a signature.                                   *)
(***************************************************************************)

\* f lists the places of the fields with this signature, in their order.
Lists(f, n, fields, signature) ==
  /\ n \in Nat /\ f \in [1 .. n -> 1 .. Len(fields)]
  /\ \A k, l \in 1 .. n : k < l => f[k] < f[l]
  /\ \A k \in 1 .. n : fields[f[k]].signature = signature
  /\ \A i \in 1 .. Len(fields) :
       fields[i].signature = signature => \E k \in 1 .. n : f[k] = i

HasPlaces(s) == Len(s) \in Nat /\ DOMAIN s = 1 .. Len(s)

LEMMA SequenceHasPlaces ==
  ASSUME NEW s, IsSequence(s)
  PROVE  HasPlaces(s)
BY DEF IsSequence, HasPlaces

LEMMA SequenceOf ==
  ASSUME NEW X, NEW s \in Seq(X)
  PROVE  IsSequence(s)
<1>1. Len(s) \in Nat /\ s \in [1 .. Len(s) -> X]
  OBVIOUS
<1>2. \A i \in 1 .. Len(s) : s[i] \in ToSet(s)
  BY <1>1 DEF ToSet
<1> DEFINE Y == ToSet(s)
<1> HIDE DEF Y
<1>3. s \in Seq(Y)
  BY <1>1, <1>2 DEF Y
<1> QED
  BY <1>3 DEF IsSequence, Y

LEMMA ValuesAre ==
  ASSUME NEW fields, HasPlaces(fields), NEW signature, NEW n, NEW f,
         Lists(f, n, fields, signature)
  PROVE  ValuesOf(fields, signature) = [k \in 1 .. n |-> fields[f[k]].value]
<1> DEFINE P == {k \in DOMAIN fields : fields[k].signature = signature}
           N == Len(fields)
<1>1. N \in Nat /\ P = {k \in 1 .. N : fields[k].signature = signature}
  BY DEF HasPlaces
<1>2. P \in SUBSET (1 .. N) /\ P \in SUBSET Int
  BY <1>1
<1>3. /\ n \in Nat /\ f \in [1 .. n -> P]
      /\ \A k, l \in 1 .. n : k < l => f[k] < f[l]
      /\ \A x \in P : \E k \in 1 .. n : f[k] = x
  BY <1>1 DEF Lists
<1> DEFINE c == Cardinality(P)
           e == Ascending(P)
<1>4. ValuesOf(fields, signature) = [k \in 1 .. c |-> fields[e[k]].value]
  BY DEF ValuesOf, Restricted
<1> HIDE DEF P, N, c, e
<1>5. IsFiniteSet(P)
  BY <1>1, <1>2, PlacesAreFinite, FS_Subset
<1>6. /\ c \in Nat /\ e \in [1 .. c -> P]
      /\ \A k, l \in 1 .. c : k < l => e[k] < e[l]
  BY <1>2, <1>5, AscendingLists DEF c, e
<1>7. n <= c /\ \A k \in 1 .. n : e[k] = f[k]
  BY <1>2, <1>3, <1>5, AscendingBegins DEF c, e
<1>8. c = n
  <2>1. SUFFICES ASSUME n + 1 \in 1 .. c PROVE FALSE
    BY <1>3, <1>6, <1>7
  <2>2. PICK k \in 1 .. n : f[k] = e[n + 1]
    BY <1>3, <1>6, <2>1
  <2>3. k \in 1 .. c /\ k < n + 1 /\ e[k] = e[n + 1]
    BY <1>3, <1>6, <1>7, <2>1, <2>2
  <2>5. e[k] \in P
    BY <1>6, <2>3
  <2>6. e[k] \in Int
    BY <1>2, <2>5
  <2>4. e[k] < e[n + 1]
    BY <1>6, <2>1, <2>3
  <2> QED
    BY <2>3, <2>4, <2>6
<1> QED
  BY <1>4, <1>7, <1>8

LEMMA ValuesListed ==
  ASSUME NEW fields, HasPlaces(fields), NEW signature
  PROVE  \E n, f : Lists(f, n, fields, signature)
<1> DEFINE N == Len(fields)
           P == {k \in 1 .. N : fields[k].signature = signature}
<1>1. N \in Nat /\ P \in SUBSET (1 .. N)
  BY DEF HasPlaces
<1>2. \A k \in P : fields[k].signature = signature
  OBVIOUS
<1>3. \A k \in 1 .. N : fields[k].signature = signature => k \in P
  OBVIOUS
<1>4. PICK n : n = Cardinality(P)
  OBVIOUS
<1>5. PICK f : f = Ascending(P)
  OBVIOUS
<1> HIDE DEF N, P
<1>6. P \in SUBSET Int /\ IsFiniteSet(P)
  <2>1. IsFiniteSet(1 .. N)
    BY <1>1, PlacesAreFinite
  <2>2. IsFiniteSet(P)
    BY <1>1, <2>1, FS_Subset
  <2> QED
    BY <1>1, <2>2
<1>7. /\ n \in Nat /\ f \in [1 .. n -> P]
      /\ \A x \in P : \E i \in 1 .. n : f[i] = x
      /\ \A i, j \in 1 .. n : i < j => f[i] < f[j]
  BY <1>4, <1>5, <1>6, AscendingLists
<1>8. Lists(f, n, fields, signature)
  <2>1. f \in [1 .. n -> 1 .. N]
    BY <1>1, <1>7
  <2> QED
    BY <1>2, <1>3, <1>7, <2>1 DEF Lists, N
<1> QED
  BY <1>8

\* The values of fields in two parts.
LEMMA ValuesJoined ==
  ASSUME NEW s, IsSequence(s), NEW t, IsSequence(t), NEW signature
  PROVE  /\ IsSequence(s \o t)
         /\ ValuesOf(s \o t, signature) = ValuesOf(s, signature) \o ValuesOf(t, signature)
<1> DEFINE a == Len(s)
           b == Len(t)
           u == s \o t
<1>1. /\ a \in Nat /\ b \in Nat /\ HasPlaces(s) /\ HasPlaces(t)
      /\ IsSequence(u) /\ HasPlaces(u) /\ Len(u) = a + b
      /\ \A i \in 1 .. a : u[i] = s[i]
      /\ \A i \in 1 .. b : u[a + i] = t[i]
  <2> DEFINE X == ToSet(s) \cup ToSet(t)
  <2>1. s \in Seq(X) /\ t \in Seq(X)
    BY DEF IsSequence
  <2> HIDE DEF X
  <2>2. /\ u \in Seq(X) /\ Len(u) = a + b
        /\ \A i \in 1 .. a : u[i] = s[i]
        /\ \A i \in 1 .. b : u[a + i] = t[i]
    BY <2>1
  <2>3. IsSequence(u)
    BY <2>2, SequenceOf
  <2> QED
    BY <2>1, <2>2, <2>3, SequenceHasPlaces
<1>2. PICK n, f : Lists(f, n, s, signature)
  BY <1>1, ValuesListed
<1>3. PICK m, g : Lists(g, m, t, signature)
  BY <1>1, ValuesListed
<1> DEFINE e == [k \in 1 .. n + m |-> IF k <= n THEN f[k] ELSE a + g[k - n]]
           v == ValuesOf(s, signature)
           w == ValuesOf(t, signature)
<1>4. /\ n \in Nat /\ m \in Nat
      /\ v = [k \in 1 .. n |-> s[f[k]].value]
      /\ w = [k \in 1 .. m |-> t[g[k]].value]
  <2>1. HasPlaces(s) /\ HasPlaces(t)
    BY <1>1
  <2>2. v = [k \in 1 .. n |-> s[f[k]].value]
    BY <1>2, <2>1, ValuesAre
  <2>3. w = [k \in 1 .. m |-> t[g[k]].value]
    BY <1>3, <2>1, ValuesAre
  <2> QED
    BY <1>2, <1>3, <2>2, <2>3 DEF Lists
<1> HIDE DEF a, b, u, v, w
<1>5. /\ f \in [1 .. n -> 1 .. a] /\ g \in [1 .. m -> 1 .. b]
      /\ \A k, l \in 1 .. n : k < l => f[k] < f[l]
      /\ \A k, l \in 1 .. m : k < l => g[k] < g[l]
      /\ \A k \in 1 .. n : s[f[k]].signature = signature
      /\ \A k \in 1 .. m : t[g[k]].signature = signature
      /\ \A i \in 1 .. a : s[i].signature = signature => \E k \in 1 .. n : f[k] = i
      /\ \A i \in 1 .. b : t[i].signature = signature => \E k \in 1 .. m : g[k] = i
  BY <1>2, <1>3 DEF Lists, a, b
<1>6. \A k \in 1 .. n + m : \/ k \in 1 .. n /\ e[k] = f[k]
                            \/ k \notin 1 .. n /\ k - n \in 1 .. m /\ e[k] = a + g[k - n]
  BY <1>4
<1>61. \A k \in 1 .. n : k \in 1 .. n + m /\ e[k] = f[k]
  BY <1>4
<1>62. \A k \in 1 .. m : n + k \in 1 .. n + m /\ e[n + k] = a + g[k]
  BY <1>4
<1>7. DOMAIN e = 1 .. n + m
  OBVIOUS
<1>71. e = [k \in 1 .. n + m |-> e[k]]
  OBVIOUS
<1> HIDE DEF e
<1>8. Lists(e, n + m, u, signature)
  <2>1. ASSUME NEW k \in 1 .. n + m
        PROVE  e[k] \in 1 .. a + b
    <3>1. CASE k \in 1 .. n
      <4>1. e[k] = f[k] /\ f[k] \in 1 .. a
        BY <1>5, <1>61, <3>1
      <4> QED
        BY <1>1, <4>1
    <3>2. CASE k \notin 1 .. n
      <4>1. k - n \in 1 .. m /\ e[k] = a + g[k - n]
        BY <1>6, <3>2
      <4>2. g[k - n] \in 1 .. b
        BY <1>5, <4>1
      <4> QED
        BY <1>1, <4>1, <4>2
    <3> QED
      BY <3>1, <3>2
  <2>2. e \in [1 .. n + m -> 1 .. a + b]
    BY <1>71, <2>1
  <2>3. ASSUME NEW k \in 1 .. n + m, NEW l \in 1 .. n + m, k < l
        PROVE  e[k] < e[l]
    <3>1. CASE l \in 1 .. n
      BY <1>4, <1>5, <1>61, <2>3, <3>1
    <3>2. CASE l \notin 1 .. n /\ k \in 1 .. n
      <4>1. l - n \in 1 .. m /\ e[l] = a + g[l - n] /\ e[k] = f[k]
        BY <1>6, <1>61, <3>2
      <4>2. g[l - n] \in 1 .. b /\ f[k] \in 1 .. a
        BY <1>5, <3>2, <4>1
      <4> QED
        BY <1>1, <4>1, <4>2
    <3>3. CASE l \notin 1 .. n /\ k \notin 1 .. n
      <4>1. /\ l - n \in 1 .. m /\ e[l] = a + g[l - n]
            /\ k - n \in 1 .. m /\ e[k] = a + g[k - n]
        BY <1>6, <3>3
      <4>2. k - n < l - n
        BY <1>4, <2>3
      <4>3. g[k - n] < g[l - n] /\ g[k - n] \in 1 .. b /\ g[l - n] \in 1 .. b
        BY <1>5, <4>1, <4>2
      <4> QED
        BY <1>1, <4>1, <4>3
    <3> QED
      BY <3>1, <3>2, <3>3
  <2>4. \A k \in 1 .. n + m : u[e[k]].signature = signature
    BY <1>1, <1>5, <1>6
  <2>5. ASSUME NEW i \in 1 .. a + b, u[i].signature = signature
        PROVE  \E k \in 1 .. n + m : e[k] = i
    <3>1. CASE i <= a
      <4>1. i \in 1 .. a /\ s[i].signature = signature
        BY <1>1, <2>5, <3>1
      <4> QED
        BY <1>5, <1>61, <4>1
    <3>2. CASE ~ (i <= a)
      <4>1. PICK j \in 1 .. b : i = a + j
        <5>1. i - a \in 1 .. b /\ i = a + (i - a)
          BY <1>1, <3>2
        <5> QED
          BY <5>1
      <4>2. t[j].signature = signature
        BY <1>1, <2>5, <4>1
      <4> QED
        BY <1>5, <1>62, <4>1, <4>2
    <3> QED
      BY <3>1, <3>2
  <2> QED
    BY <1>1, <1>4, <2>2, <2>3, <2>4, <2>5 DEF Lists
<1>9. ValuesOf(u, signature) = [k \in 1 .. n + m |-> u[e[k]].value]
  BY <1>1, <1>8, ValuesAre
<1>10. v \o w = [k \in 1 .. n + m |-> u[e[k]].value]
  <2>1. Len(v) = n /\ Len(w) = m
    BY <1>4
  <2>2. v \o w = [k \in 1 .. n + m |-> IF k <= n THEN v[k] ELSE w[k - n]]
    BY <1>4, <2>1
  <2>3. \A k \in 1 .. n + m : (IF k <= n THEN v[k] ELSE w[k - n]) = u[e[k]].value
    <3> SUFFICES ASSUME NEW k \in 1 .. n + m
                 PROVE  (IF k <= n THEN v[k] ELSE w[k - n]) = u[e[k]].value
      OBVIOUS
    <3>1. CASE k \in 1 .. n
      <4>1. k <= n /\ e[k] = f[k] /\ f[k] \in 1 .. a
        BY <1>4, <1>5, <1>61, <3>1
      <4> QED
        BY <1>1, <1>4, <3>1, <4>1
    <3>2. CASE k \notin 1 .. n
      <4>1. ~ (k <= n) /\ k - n \in 1 .. m /\ e[k] = a + g[k - n] /\ g[k - n] \in 1 .. b
        BY <1>4, <1>5, <1>6, <3>2
      <4> QED
        BY <1>1, <1>4, <4>1
    <3> QED
      BY <3>1, <3>2
  <2> QED
    BY <2>2, <2>3
<1> QED
  BY <1>1, <1>9, <1>10 DEF u, v, w

\* The only field with a signature, and a signature of no field.
LEMMA OnlyAt ==
  ASSUME NEW fields, HasPlaces(fields), NEW signature, NEW i \in 1 .. Len(fields),
         \A k \in 1 .. Len(fields) : fields[k].signature = signature <=> k = i
  PROVE  ValuesOf(fields, signature) = <<fields[i].value>>
<1> DEFINE f == [k \in 1 .. 1 |-> i]
<1>1. Lists(f, 1, fields, signature)
  BY DEF Lists
<1>2. ValuesOf(fields, signature) = [k \in 1 .. 1 |-> fields[f[k]].value]
  BY <1>1, ValuesAre
<1> QED
  BY <1>2

LEMMA Nowhere ==
  ASSUME NEW fields, HasPlaces(fields), NEW signature,
         \A k \in 1 .. Len(fields) : fields[k].signature # signature
  PROVE  ValuesOf(fields, signature) = <<>>
<1> DEFINE f == [k \in 1 .. 0 |-> 1]
<1>1. Lists(f, 0, fields, signature)
  BY DEF Lists
<1>2. ValuesOf(fields, signature) = [k \in 1 .. 0 |-> fields[f[k]].value]
  BY <1>1, ValuesAre
<1> QED
  BY <1>2

LEMMA ValuesOfEach ==
  ASSUME NEW values, IsSequence(values), NEW signature
  PROVE  /\ IsSequence(Each(signature, values)) /\ Len(Each(signature, values)) = Len(values)
         /\ ValuesOf(Each(signature, values), signature) = values
         /\ \A other : other # signature => ValuesOf(Each(signature, values), other) = <<>>
<1> DEFINE n == Len(values)
           fields == Each(signature, values)
           f == [k \in 1 .. n |-> k]
<1>1. n \in Nat /\ DOMAIN values = 1 .. n /\ values = [k \in 1 .. n |-> values[k]]
  BY DEF IsSequence
<1>2. fields = [k \in 1 .. n |-> Field(signature, values[k])]
  BY <1>1 DEF Each
<1>3. HasPlaces(fields) /\ Len(fields) = n
  BY <1>1, <1>2 DEF HasPlaces
<1>4. IsSequence(fields)
  <2> DEFINE X == {Field(signature, values[k]) : k \in 1 .. n}
  <2>1. fields \in [1 .. n -> X]
    BY <1>2
  <2> HIDE DEF X, fields, n
  <2>2. fields \in Seq(X)
    BY <1>1, <2>1
  <2> QED
    BY <2>2, SequenceOf
<1>5. \A k \in 1 .. n : fields[k].signature = signature /\ fields[k].value = values[k]
  BY <1>2 DEF Field
<1> HIDE DEF fields
<1>6. ValuesOf(fields, signature) = values
  <2>1. Lists(f, n, fields, signature)
    BY <1>1, <1>3, <1>5 DEF Lists
  <2>2. ValuesOf(fields, signature) = [k \in 1 .. n |-> fields[f[k]].value]
    BY <1>3, <2>1, ValuesAre
  <2>3. \A k \in 1 .. n : fields[f[k]].value = values[k]
    BY <1>5
  <2>4. [k \in 1 .. n |-> fields[f[k]].value] = [k \in 1 .. n |-> values[k]]
    BY <2>3
  <2> QED
    BY <1>1, <2>2, <2>4
<1>7. ASSUME NEW other, other # signature
      PROVE  ValuesOf(fields, other) = <<>>
  BY <1>3, <1>5, <1>7, Nowhere
<1> QED
  BY <1>3, <1>4, <1>6, <1>7 DEF fields

\* SetToSeq lists a finite set.
LEMMA SetToSeqLists ==
  ASSUME NEW S, IsFiniteSet(S)
  PROVE  /\ IsSequence(SetToSeq(S)) /\ ToSet(SetToSeq(S)) = S
         /\ IsInjective(SetToSeq(S))
<1> DEFINE n == Cardinality(S)
           s == SetToSeq(S)
<1>1. n \in Nat
  BY FS_CardinalityType
<1>2. \E f : f \in [1 .. n -> S] /\ IsInjective(f)
  <2>1. \E f : f \in Bijection(1 .. n, S)
    BY FS_CardinalityType DEF ExistsBijection
  <2> QED
    BY <2>1 DEF Bijection, Injection, IsInjective
<1>3. s \in [1 .. n -> S] /\ IsInjective(s)
  BY <1>2 DEF SetToSeq
<1> HIDE DEF s, n
<1>4. s \in Seq(S)
  BY <1>1, <1>3
<1>5. ToSet(s) = S
  <2> DEFINE T == ToSet(s)
  <2>1. T \subseteq S /\ s \in [1 .. n -> T] /\ DOMAIN s = 1 .. n
    BY <1>3 DEF ToSet
  <2>2. \A y \in T : \E k \in 1 .. n : s[k] = y
    BY <2>1 DEF ToSet
  <2> HIDE DEF T
  <2>3. s \in Bijection(1 .. n, T)
    BY <1>3, <2>1, <2>2 DEF Bijection, Injection, Surjection, IsInjective
  <2>4. IsFiniteSet(1 .. n) /\ Cardinality(1 .. n) = n
    BY <1>1, FS_Interval
  <2>5. Cardinality(T) = n
    <3>1. ExistsBijection(1 .. n, T)
      BY <2>3 DEF ExistsBijection
    <3>2. Cardinality(T) = Cardinality(1 .. n)
      BY <2>4, <3>1, FS_Bijection
    <3> QED
      BY <2>4, <3>2
  <2>6. T = S
    BY <2>1, <2>5, FS_Subset DEF n
  <2> QED
    BY <2>6 DEF T
<1>6. IsSequence(s)
  BY <1>4, SequenceOf
<1> QED
  BY <1>3, <1>5, <1>6 DEF s

\* Where the values are: one for each field of the signature.
LEMMA EveryField ==
  ASSUME NEW fields, HasPlaces(fields), NEW i \in 1 .. Len(fields)
  PROVE  LET values == ValuesOf(fields, fields[i].signature)
         IN \E a \in DOMAIN values : values[a] = fields[i].value
<1>0. PICK sig : sig = fields[i].signature
  OBVIOUS
<1>1. PICK n, f : Lists(f, n, fields, sig)
  BY ValuesListed
<1>2. ValuesOf(fields, sig) = [k \in 1 .. n |-> fields[f[k]].value]
  BY <1>1, ValuesAre
<1>3. PICK k \in 1 .. n : f[k] = i
  BY <1>0, <1>1 DEF Lists
<1> QED
  BY <1>0, <1>2, <1>3

LEMMA TwoFields ==
  ASSUME NEW fields, HasPlaces(fields), NEW i \in 1 .. Len(fields), NEW j \in 1 .. Len(fields),
         i # j, NEW signature, fields[i].signature = signature, fields[j].signature = signature
  PROVE  LET values == ValuesOf(fields, signature)
         IN \E a, b \in DOMAIN values :
              a # b /\ values[a] = fields[i].value /\ values[b] = fields[j].value
<1>1. PICK n, f : Lists(f, n, fields, signature)
  BY ValuesListed
<1>2. ValuesOf(fields, signature) = [k \in 1 .. n |-> fields[f[k]].value]
  BY <1>1, ValuesAre
<1>3. PICK k \in 1 .. n : f[k] = i
  BY <1>1 DEF Lists
<1>4. PICK l \in 1 .. n : f[l] = j
  BY <1>1 DEF Lists
<1>5. k # l
  BY <1>3, <1>4
<1> QED
  BY <1>2, <1>3, <1>4, <1>5

\* And one field for each value.
LEMMA EveryValue ==
  ASSUME NEW fields, HasPlaces(fields), NEW signature, NEW a \in DOMAIN ValuesOf(fields, signature)
  PROVE  \E i \in 1 .. Len(fields) :
           fields[i].signature = signature /\ fields[i].value = ValuesOf(fields, signature)[a]
<1>1. PICK n, f : Lists(f, n, fields, signature)
  BY ValuesListed
<1>2. ValuesOf(fields, signature) = [k \in 1 .. n |-> fields[f[k]].value]
  BY <1>1, ValuesAre
<1>3. a \in 1 .. n /\ f[a] \in 1 .. Len(fields) /\ fields[f[a]].signature = signature
  BY <1>1, <1>2 DEF Lists
<1> QED
  BY <1>2, <1>3

LEMMA TwoValues ==
  ASSUME NEW fields, HasPlaces(fields), NEW signature,
         NEW a \in DOMAIN ValuesOf(fields, signature), NEW b \in DOMAIN ValuesOf(fields, signature),
         a # b
  PROVE  \E i, j \in 1 .. Len(fields) :
           /\ i # j /\ fields[i].signature = signature /\ fields[j].signature = signature
           /\ fields[i].value = ValuesOf(fields, signature)[a]
           /\ fields[j].value = ValuesOf(fields, signature)[b]
<1>1. PICK n, f : Lists(f, n, fields, signature)
  BY ValuesListed
<1>2. ValuesOf(fields, signature) = [k \in 1 .. n |-> fields[f[k]].value]
  BY <1>1, ValuesAre
<1>3. /\ n \in Nat /\ a \in 1 .. n /\ f[a] \in 1 .. Len(fields) /\ fields[f[a]].signature = signature
      /\ b \in 1 .. n /\ f[b] \in 1 .. Len(fields) /\ fields[f[b]].signature = signature
  BY <1>1, <1>2 DEF Lists
<1>4. f[a] # f[b]
  <2>1. a < b \/ b < a
    BY <1>3
  <2>2. f[a] < f[b] \/ f[b] < f[a]
    BY <1>1, <1>3, <2>1 DEF Lists
  <2>3. f[a] \in Int /\ f[b] \in Int
    BY <1>3 DEF HasPlaces
  <2> QED
    BY <2>2, <2>3
<1> QED
  BY <1>2, <1>3, <1>4

(***************************************************************************)
(* What decode refuses.                                                    *)
(***************************************************************************)

LEMMA FirstFault ==
  ASSUME NEW fields, HasPlaces(fields)
  PROVE  \/ /\ \A k \in 1 .. Len(fields) : FieldError(fields, k) = "none"
            /\ DecodeError(fields) = HeaderError(fields)
         \/ DecodeError(fields) # "none"
<1> DEFINE faulty == {k \in DOMAIN fields : FieldError(fields, k) # "none"}
<1>1. DOMAIN fields = 1 .. Len(fields) /\ Len(fields) \in Nat
  BY DEF HasPlaces
<1>2. DecodeError(fields) =
        IF faulty # {} THEN FieldError(fields, CHOOSE k \in faulty : \A j \in faulty : k <= j)
        ELSE HeaderError(fields)
  BY DEF DecodeError
<1>3. CASE faulty = {}
  BY <1>1, <1>2, <1>3
<1>4. CASE faulty # {}
  <2>1. faulty \in SUBSET Nat
    BY <1>1
  <2>2. \A k \in faulty : FieldError(fields, k) # "none"
    OBVIOUS
  <2> HIDE DEF faulty
  <2>3. PICK k : k = CHOOSE i \in faulty : \A j \in faulty : i <= j
    OBVIOUS
  <2>4. k \in faulty
    <3>1. \E i \in faulty : \A j \in faulty : i <= j
      BY <1>4, <2>1, FirstPlace
    <3> QED
      BY <2>3, <3>1
  <2> QED
    BY <1>2, <1>4, <2>2, <2>3, <2>4
<1> QED
  BY <1>3, <1>4

\* What is not refused has no field twice ...
LEMMA FieldsAreDistinct ==
  ASSUME NEW fields, HasPlaces(fields), DecodeError(fields) = "none",
         NEW i \in 1 .. Len(fields), NEW j \in 1 .. Len(fields), i < j
  PROVE  fields[i] # fields[j]
<1>1. SUFFICES ASSUME fields[i] = fields[j] PROVE FALSE
  OBVIOUS
<1>2. FieldError(fields, j) = "none" /\ HeaderError(fields) = "none"
  BY FirstFault
<1> DEFINE earlier == {fields[k] : k \in 1 .. j - 1}
<1>3. fields[i] \in earlier /\ fields[j] \in earlier
  <2>1. i \in 1 .. j - 1
    BY DEF HasPlaces
  <2> QED
    BY <1>1, <2>1
<1>4. PICK g : g = fields[j]
  OBVIOUS
<1>5. PICK e : e = earlier
  OBVIOUS
<1>6. g \in e
  BY <1>3, <1>4, <1>5
<1>7. /\ ~ (g.signature \in Once /\ \E f \in e : f.signature = g.signature)
      /\ ~ (g.signature = "SOVR" /\ g \in e)
      /\ ~ (g.signature = "SOFF" /\ \E f \in e : f.signature = "SOFF" /\ f.value.world = g.value.world)
      /\ g.signature \in Signatures
  BY <1>2, <1>4, <1>5 DEF FieldError
<1>8. g.signature \in {"DEPN", "INCM"}
  BY <1>6, <1>7 DEF Signatures
<1>9. IsInjective(ValuesOf(fields, "DEPN")) /\ IsInjective(ValuesOf(fields, "INCM"))
  <2>1. Decoded(fields).dependencies = ValuesOf(fields, "DEPN")
    BY DEF Decoded
  <2> QED
    BY <1>2, <2>1 DEF HeaderError
<1>10. PICK s \in {"DEPN", "INCM"} : fields[i].signature = s /\ fields[j].signature = s
  BY <1>1, <1>4, <1>8
<1>11. i # j
  BY DEF HasPlaces
<1>12. PICK a, b \in DOMAIN ValuesOf(fields, s) :
         a # b /\ ValuesOf(fields, s)[a] = fields[i].value /\ ValuesOf(fields, s)[b] = fields[j].value
  BY <1>10, <1>11, TwoFields
<1>13. IsInjective(ValuesOf(fields, s))
  BY <1>9, <1>10
<1> QED
  BY <1>1, <1>12, <1>13 DEF IsInjective

\* The fields that say h, in any order.
Tables(h) == {Table(h, w) : w \in Worlds(h)}

Says(fields, h) ==
  /\ IsSequence(fields)
  /\ \A k \in 1 .. Len(fields) :
       /\ fields[k] = Field(fields[k].signature, fields[k].value)
       /\ fields[k].signature \in Signatures
  /\ ValuesOf(fields, "FMTV") = <<FormatVersion>>
  /\ ValuesOf(fields, "PKID") = <<PackageId>>
  /\ ValuesOf(fields, "CLAS") = <<h.class>>
  /\ ValuesOf(fields, "NXID") = <<h.next>>
  /\ ValuesOf(fields, "RCNT") = <<h.count>>
  /\ ValuesOf(fields, "ORCT") = <<h.owned>>
  /\ ValuesOf(fields, "PVER") = <<"version">>
  /\ ValuesOf(fields, "TEXT") = IF h.text = 0 THEN <<>> ELSE <<h.text>>
  /\ ValuesOf(fields, "DEPN") = h.dependencies
  /\ ValuesOf(fields, "INCM") = SetToSeq(h.incompatibilities)
  /\ ValuesOf(fields, "SOVR") = h.streaming
  /\ ValuesOf(fields, "SOFF") = SetToSeq(Tables(h))

\* Worlds are finitely many, and so are their tables.
LEMMA TablesAreFinite ==
  ASSUME NEW h, IsHeader(h)
  PROVE  IsFiniteSet(Tables(h))
<1> DEFINE f == [o \in h.offsets |-> Table(h, o.world)]
<1>1. IsFiniteSet(h.offsets)
  BY DEF IsHeader
<1>2. f \in Surjection(h.offsets, Tables(h))
  <2>1. \A o \in h.offsets : Table(h, o.world) \in Tables(h)
    BY DEF Tables, Worlds
  <2>2. \A t \in Tables(h) : \E o \in h.offsets : t = Table(h, o.world)
    BY DEF Tables, Worlds
  <2> QED
    BY <2>1, <2>2 DEF Surjection
<1> QED
  BY <1>1, <1>2, FS_Surjection

\* The tables hold the places of the scenes.
LEMMA TablesTell ==
  ASSUME NEW h, IsHeader(h), ZeroId \notin Worlds(h)
  PROVE  UNION {{[world |-> ReadWorld(t.world), scene |-> o.scene,
                  start |-> o.start, end |-> o.end] : o \in t.scenes} : t \in Tables(h)}
           = h.offsets
<1> DEFINE read(t) == {[world |-> ReadWorld(t.world), scene |-> o.scene,
                        start |-> o.start, end |-> o.end] : o \in t.scenes}
<1>1. \A w \in Worlds(h) : ReadWorld(WrittenWorld(w)) = w
  BY DEF ReadWorld, WrittenWorld
<1>2. ASSUME NEW w \in Worlds(h)
      PROVE  read(Table(h, w)) = {o \in h.offsets : o.world = w}
  <2>1. /\ Table(h, w).world = WrittenWorld(w)
        /\ Table(h, w).scenes = {[scene |-> o.scene, start |-> o.start, end |-> o.end] :
                                   o \in {o \in h.offsets : o.world = w}}
    BY DEF Table
  <2>2. ReadWorld(Table(h, w).world) = w
    BY <1>1, <2>1
  <2>3. \A o \in h.offsets :
          o = [world |-> o.world, scene |-> o.scene, start |-> o.start, end |-> o.end]
    BY DEF IsHeader
  <2>4. ASSUME NEW x \in read(Table(h, w))
        PROVE  x \in {o \in h.offsets : o.world = w}
    <3>1. PICK q \in Table(h, w).scenes :
            x = [world |-> w, scene |-> q.scene, start |-> q.start, end |-> q.end]
      BY <2>2
    <3>2. PICK o \in {o \in h.offsets : o.world = w} :
            q = [scene |-> o.scene, start |-> o.start, end |-> o.end]
      BY <2>1
    <3>3. x = o
      BY <2>3, <3>1, <3>2
    <3> QED
      BY <3>3
  <2>5. ASSUME NEW o \in h.offsets, o.world = w
        PROVE  o \in read(Table(h, w))
    <3>1. PICK q : q = [scene |-> o.scene, start |-> o.start, end |-> o.end]
      OBVIOUS
    <3>2. q \in Table(h, w).scenes
      BY <2>1, <2>5, <3>1
    <3>3. o = [world |-> w, scene |-> q.scene, start |-> q.start, end |-> q.end]
      BY <2>3, <2>5, <3>1
    <3> QED
      BY <2>2, <3>2, <3>3
  <2> QED
    BY <2>4, <2>5
<1> HIDE DEF read
<1>3. UNION {read(t) : t \in Tables(h)} = h.offsets
  <2>1. ASSUME NEW t \in Tables(h)
        PROVE  read(t) \subseteq h.offsets
    BY <1>2 DEF Tables
  <2>2. ASSUME NEW o \in h.offsets
        PROVE  \E t \in Tables(h) : o \in read(t)
    <3>1. o.world \in Worlds(h)
      BY DEF Worlds
    <3>2. o \in read(Table(h, o.world)) /\ Table(h, o.world) \in Tables(h)
      BY <1>2, <3>1 DEF Tables
    <3> QED
      BY <3>2
  <2> QED
    BY <2>1, <2>2
<1> QED
  BY <1>3 DEF read

\* What such fields say is h.
LEMMA SaysTheHeader ==
  ASSUME NEW h, IsHeader(h), ZeroId \notin Worlds(h), NEW fields, Says(fields, h)
  PROVE  Decoded(fields) = h
<1>1. h = [class |-> h.class, next |-> h.next, count |-> h.count, owned |-> h.owned,
           text |-> h.text, dependencies |-> h.dependencies,
           incompatibilities |-> h.incompatibilities, streaming |-> h.streaming,
           offsets |-> h.offsets]
  <2>1. DOMAIN NewHeader = {"class", "next", "count", "owned", "text", "dependencies",
                            "incompatibilities", "streaming", "offsets"}
    BY DEF NewHeader
  <2>2. h = [field \in {"class", "next", "count", "owned", "text", "dependencies",
                        "incompatibilities", "streaming", "offsets"} |-> h[field]]
    BY <2>1 DEF IsHeader
  <2> QED
    BY <2>2
<1>2. /\ Value(fields, "CLAS") = h.class /\ Value(fields, "NXID") = h.next
      /\ Value(fields, "RCNT") = h.count /\ Value(fields, "ORCT") = h.owned
  BY DEF Says, Value
<1>3. (IF ValuesOf(fields, "TEXT") = <<>> THEN 0 ELSE Value(fields, "TEXT")) = h.text
  BY DEF Says, Value
<1>4. ToSet(ValuesOf(fields, "INCM")) = h.incompatibilities
  <2>1. IsFiniteSet(h.incompatibilities)
    BY DEF IsHeader
  <2> QED
    BY <2>1, SetToSeqLists DEF Says
<1>5. UNION {{[world |-> ReadWorld(t.world), scene |-> o.scene,
               start |-> o.start, end |-> o.end] : o \in t.scenes} :
               t \in ToSet(ValuesOf(fields, "SOFF"))} = h.offsets
  <2>1. ToSet(ValuesOf(fields, "SOFF")) = Tables(h)
    BY TablesAreFinite, SetToSeqLists DEF Says
  <2> QED
    BY <2>1, TablesTell
<1>6. ValuesOf(fields, "DEPN") = h.dependencies /\ ValuesOf(fields, "SOVR") = h.streaming
  BY DEF Says
<1> QED
  BY <1>1, <1>2, <1>3, <1>4, <1>5, <1>6 DEF Decoded

\* Nothing is wrong with a field when the header decodes.
LEMMA SaysNoFieldError ==
  ASSUME NEW h, IsHeader(h), ZeroId \notin Worlds(h), Decodes(h), NEW fields, Says(fields, h),
         NEW j \in 1 .. Len(fields)
  PROVE  FieldError(fields, j) = "none"
<1>1. HasPlaces(fields)
  BY SequenceHasPlaces DEF Says
<1>2. PICK f : f = fields[j]
  OBVIOUS
<1>3. PICK earlier : earlier = {fields[i] : i \in 1 .. j - 1}
  OBVIOUS
<1>4. ASSUME NEW g \in earlier, g.signature = f.signature
      PROVE  \E a, b \in DOMAIN ValuesOf(fields, f.signature) :
               /\ a # b
               /\ ValuesOf(fields, f.signature)[a] = f.value
               /\ ValuesOf(fields, f.signature)[b] = g.value
  <2>1. PICK i \in 1 .. j - 1 : g = fields[i]
    BY <1>3
  <2>2. i \in 1 .. Len(fields) /\ i # j
    BY <1>1, <2>1 DEF HasPlaces
  <2> QED
    BY <1>1, <1>2, <1>4, <2>1, <2>2, TwoFields
<1>5. f.signature \in Signatures
  BY <1>2 DEF Says
<1>6. ~ (f.signature \in Once /\ \E g \in earlier : g.signature = f.signature)
  <2>1. SUFFICES ASSUME f.signature \in Once, NEW g \in earlier, g.signature = f.signature
                 PROVE FALSE
    OBVIOUS
  <2>2. \E v : ValuesOf(fields, f.signature) \in {<<>>, <<v>>}
    <3>1. f.signature \in {"FMTV", "PKID", "CLAS", "NXID", "RCNT", "ORCT", "PVER", "TEXT"}
      BY <2>1 DEF Once, Required
    <3> QED
      BY <3>1 DEF Says
  <2>3. PICK v : ValuesOf(fields, f.signature) \in {<<>>, <<v>>}
    BY <2>2
  <2>4. \A a, b \in DOMAIN ValuesOf(fields, f.signature) : a = b
    BY <2>3
  <2> QED
    BY <1>4, <2>1, <2>4
<1>7. ~ (f.signature = "SOVR" /\ f \in earlier)
  <2>1. SUFFICES ASSUME f.signature = "SOVR", f \in earlier PROVE FALSE
    OBVIOUS
  <2>2. PICK a, b \in DOMAIN h.streaming : a # b /\ h.streaming[a] = f.value /\ h.streaming[b] = f.value
    BY <1>4, <2>1 DEF Says
  <2> QED
    BY <2>2 DEF Decodes, IsInjective
<1>8. ASSUME f.signature = "SOFF"
      PROVE  /\ f.value \in Tables(h)
             /\ ~ \E g \in earlier : g.signature = "SOFF" /\ g.value.world = f.value.world
  <2>1. /\ ToSet(ValuesOf(fields, "SOFF")) = Tables(h)
        /\ IsInjective(ValuesOf(fields, "SOFF"))
    BY TablesAreFinite, SetToSeqLists DEF Says
  <2>2. PICK a \in DOMAIN ValuesOf(fields, "SOFF") : ValuesOf(fields, "SOFF")[a] = f.value
    BY <1>1, <1>2, <1>8, EveryField
  <2>3. f.value \in Tables(h)
    BY <2>1, <2>2 DEF ToSet
  <2>4. ASSUME NEW g \in earlier, g.signature = "SOFF", g.value.world = f.value.world
        PROVE  FALSE
    <3>1. PICK c, b \in DOMAIN ValuesOf(fields, "SOFF") :
            /\ c # b
            /\ ValuesOf(fields, "SOFF")[c] = f.value
            /\ ValuesOf(fields, "SOFF")[b] = g.value
      BY <1>4, <1>8, <2>4
    <3>2. g.value \in Tables(h) /\ g.value # f.value
      BY <2>1, <3>1 DEF ToSet, IsInjective
    <3>3. PICK v \in Worlds(h) : f.value = Table(h, v)
      BY <2>3 DEF Tables
    <3>4. PICK w \in Worlds(h) : g.value = Table(h, w)
      BY <3>2 DEF Tables
    <3>5. WrittenWorld(v) = WrittenWorld(w)
      BY <2>4, <3>3, <3>4 DEF Table
    <3>6. v = w
      BY <3>5 DEF WrittenWorld
    <3> QED
      BY <3>2, <3>3, <3>4, <3>6
  <2> QED
    BY <2>3, <2>4
<1>9. ASSUME f.signature = "SOFF", NEW o \in f.value.scenes
      PROVE  \E p \in h.offsets :
               /\ f.value = Table(h, p.world)
               /\ o = [scene |-> p.scene, start |-> p.start, end |-> p.end]
  <2>1. PICK w \in Worlds(h) : f.value = Table(h, w)
    BY <1>8, <1>9 DEF Tables
  <2>2. f.value.scenes = {[scene |-> p.scene, start |-> p.start, end |-> p.end] :
                            p \in {p \in h.offsets : p.world = w}}
    BY <2>1 DEF Table
  <2>3. PICK p \in {p \in h.offsets : p.world = w} :
          o = [scene |-> p.scene, start |-> p.start, end |-> p.end]
    BY <1>9, <2>2
  <2>4. p \in h.offsets /\ p.world = w
    BY <2>3
  <2> QED
    BY <2>1, <2>3, <2>4
<1>10. f.signature = "SOFF" => \A o \in f.value.scenes : ~ (o.start >= o.end)
  <2>1. SUFFICES ASSUME f.signature = "SOFF", NEW o \in f.value.scenes
                 PROVE  ~ (o.start >= o.end)
    OBVIOUS
  <2>2. PICK p \in h.offsets : o = [scene |-> p.scene, start |-> p.start, end |-> p.end]
    BY <1>9, <2>1
  <2>3. o.start = p.start /\ o.end = p.end /\ p.start < p.end /\ p.start \in Nat /\ p.end \in Nat
    BY <2>2 DEF Decodes, IsHeader
  <2> QED
    BY <2>3
<1>11. f.signature = "SOFF" => \A o, q \in f.value.scenes : ~ (o # q /\ o.scene = q.scene)
  <2>1. SUFFICES ASSUME f.signature = "SOFF", NEW o \in f.value.scenes, NEW q \in f.value.scenes,
                        o.scene = q.scene
                 PROVE  o = q
    OBVIOUS
  <2>2. PICK w \in Worlds(h) : f.value = Table(h, w)
    BY <1>8, <2>1 DEF Tables
  <2>3. f.value.scenes = {[scene |-> r.scene, start |-> r.start, end |-> r.end] :
                            r \in {r \in h.offsets : r.world = w}}
    BY <2>2 DEF Table
  <2>4. PICK r \in h.offsets : r.world = w /\ o = [scene |-> r.scene, start |-> r.start, end |-> r.end]
    BY <2>3
  <2>5. PICK s \in h.offsets : s.world = w /\ q = [scene |-> s.scene, start |-> s.start, end |-> s.end]
    BY <2>3
  <2>6. r.scene = s.scene
    BY <2>1, <2>4, <2>5
  <2>7. r = s
    BY <2>4, <2>5, <2>6 DEF Decodes
  <2> QED
    BY <2>4, <2>5, <2>7
<1> QED
  BY <1>2, <1>3, <1>5, <1>6, <1>7, <1>8, <1>10, <1>11 DEF FieldError

LEMMA SaysNoHeaderError ==
  ASSUME NEW h, IsHeader(h), ZeroId \notin Worlds(h), NEW fields, Says(fields, h)
  PROVE  HeaderError(fields) = "none" <=>
           /\ h.next <= MaxLocalId /\ Len(h.dependencies) <= MaxDependencies
           /\ IsInjective(h.dependencies)
           /\ PackageId \notin ToSet(h.dependencies) \cup h.incompatibilities
           /\ LoadClassValid(h)
<1>1. Decoded(fields) = h
  BY SaysTheHeader
<1>2. Value(fields, "FMTV") = FormatVersion /\ Value(fields, "PKID") = PackageId
        /\ Value(fields, "NXID") = h.next
  BY DEF Says, Value
<1>3. \A s \in Required : ValuesOf(fields, s) # <<>>
  BY DEF Says, Required
<1>4. {"FMTV", "PKID", "CLAS", "NXID"} \subseteq Required
  BY DEF Required
<1>5. IsInjective(ValuesOf(fields, "INCM"))
  <2>1. IsFiniteSet(h.incompatibilities)
    BY DEF IsHeader
  <2> QED
    BY <2>1, SetToSeqLists DEF Says
<1>6. /\ h.next \in Nat /\ MaxLocalId \in Nat /\ MaxDependencies \in Nat
      /\ Len(h.dependencies) \in Nat
  BY LimitsAssumption DEF IsHeader, IsSequence
<1>7. /\ (h.next > MaxLocalId) = ~ (h.next <= MaxLocalId)
      /\ (Len(h.dependencies) > MaxDependencies) = ~ (Len(h.dependencies) <= MaxDependencies)
  BY <1>6
<1>8. HeaderError(fields) =
        IF h.next > MaxLocalId THEN "NextRecordIdOutOfRange"
        ELSE IF Len(h.dependencies) > MaxDependencies THEN "TooManyDependencies"
        ELSE IF ~ IsInjective(h.dependencies) \/ PackageId \in ToSet(h.dependencies)
             THEN "SelfOrDuplicateDependency"
        ELSE IF PackageId \in h.incompatibilities THEN "SelfOrDuplicateIncompatibility"
        ELSE IF ~ LoadClassValid(h) THEN "LoadClass"
        ELSE "none"
  BY <1>1, <1>2, <1>3, <1>4, <1>5 DEF HeaderError
<1> QED
  BY <1>7, <1>8

\* Such fields are read exactly when the header decodes.
LEMMA SaysIsRead ==
  ASSUME NEW h, IsHeader(h), ZeroId \notin Worlds(h), NEW fields, Says(fields, h)
  PROVE  /\ Decodes(h) => Reads(fields, h)
         /\ ~ Decodes(h) => DecodeError(fields) # "none"
<1>1. HasPlaces(fields)
  BY SequenceHasPlaces DEF Says
<1>2. ASSUME Decodes(h)
      PROVE  Reads(fields, h)
  <2>1. \A k \in 1 .. Len(fields) : FieldError(fields, k) = "none"
    BY <1>2, SaysNoFieldError
  <2>2. HeaderError(fields) = "none"
    BY <1>2, SaysNoHeaderError DEF Decodes
  <2>3. DecodeError(fields) = "none"
    <3> DEFINE faulty == {k \in DOMAIN fields : FieldError(fields, k) # "none"}
    <3>1. faulty = {}
      BY <1>1, <2>1 DEF HasPlaces
    <3>2. DecodeError(fields) =
            IF faulty # {} THEN FieldError(fields, CHOOSE k \in faulty : \A j \in faulty : k <= j)
            ELSE HeaderError(fields)
      BY DEF DecodeError
    <3> HIDE DEF faulty
    <3> QED
      BY <2>2, <3>1, <3>2
  <2> QED
    BY <2>3, SaysTheHeader DEF Reads
<1>3. ASSUME DecodeError(fields) = "none"
      PROVE  Decodes(h)
  <2>1. (\A k \in 1 .. Len(fields) : FieldError(fields, k) = "none") /\ HeaderError(fields) = "none"
    BY <1>1, <1>3, FirstFault
  <2>2. /\ h.next <= MaxLocalId /\ Len(h.dependencies) <= MaxDependencies
        /\ IsInjective(h.dependencies)
        /\ PackageId \notin ToSet(h.dependencies) \cup h.incompatibilities
        /\ LoadClassValid(h)
    BY <2>1, SaysNoHeaderError
  <2>3. IsInjective(h.streaming)
    <3>1. SUFFICES ASSUME NEW a \in DOMAIN h.streaming, NEW b \in DOMAIN h.streaming,
                          h.streaming[a] = h.streaming[b], a # b
                   PROVE  FALSE
      BY DEF IsInjective
    <3>2. ValuesOf(fields, "SOVR") = h.streaming
      BY DEF Says
    <3>3. PICK i, j \in 1 .. Len(fields) :
            /\ i # j /\ fields[i].signature = "SOVR" /\ fields[j].signature = "SOVR"
            /\ fields[i].value = h.streaming[a] /\ fields[j].value = h.streaming[b]
      BY <1>1, <3>1, <3>2, TwoValues
    <3>4. fields[i] = Field("SOVR", h.streaming[a]) /\ fields[j] = Field("SOVR", h.streaming[a])
      BY <3>1, <3>3 DEF Says
    <3>5. i < j \/ j < i
      BY <1>1, <3>3 DEF HasPlaces
    <3> QED
      BY <1>1, <1>3, <3>4, <3>5, FieldsAreDistinct
  <2>4. ASSUME NEW o \in h.offsets
        PROVE  \E k \in 1 .. Len(fields) :
                 fields[k].signature = "SOFF" /\ fields[k].value = Table(h, o.world)
    <3>1. /\ ToSet(ValuesOf(fields, "SOFF")) = Tables(h)
      BY TablesAreFinite, SetToSeqLists DEF Says
    <3>2. Table(h, o.world) \in Tables(h)
      BY DEF Tables, Worlds
    <3>3. PICK a \in DOMAIN ValuesOf(fields, "SOFF") : ValuesOf(fields, "SOFF")[a] = Table(h, o.world)
      BY <3>1, <3>2 DEF ToSet
    <3> QED
      BY <1>1, <3>3, EveryValue
  <2>5. ASSUME NEW o \in h.offsets
        PROVE  [scene |-> o.scene, start |-> o.start, end |-> o.end] \in Table(h, o.world).scenes
    BY DEF Table
  <2>6. \A o \in h.offsets : o.start < o.end
    <3> SUFFICES ASSUME NEW o \in h.offsets PROVE o.start < o.end
      OBVIOUS
    <3>1. PICK k \in 1 .. Len(fields) :
            fields[k].signature = "SOFF" /\ fields[k].value = Table(h, o.world)
      BY <2>4
    <3>2. FieldError(fields, k) = "none"
      BY <2>1
    <3>3. ~ \E q \in Table(h, o.world).scenes : q.start >= q.end
      BY <3>1, <3>2 DEF FieldError
    <3>4. PICK q : q = [scene |-> o.scene, start |-> o.start, end |-> o.end]
      OBVIOUS
    <3>5. q \in Table(h, o.world).scenes /\ q.start = o.start /\ q.end = o.end
      BY <2>5, <3>4
    <3>6. ~ (o.start >= o.end) /\ o.start \in Nat /\ o.end \in Nat
      BY <3>3, <3>5 DEF IsHeader
    <3> QED
      BY <3>6
  <2>7. ASSUME NEW o \in h.offsets, NEW q \in h.offsets, o.world = q.world, o.scene = q.scene
        PROVE  o = q
    <3>1. PICK k \in 1 .. Len(fields) :
            fields[k].signature = "SOFF" /\ fields[k].value = Table(h, o.world)
      BY <2>4
    <3>2. FieldError(fields, k) = "none"
      BY <2>1
    <3>3. \A x, y \in Table(h, o.world).scenes : x.scene = y.scene => x = y
      BY <3>1, <3>2 DEF FieldError
    <3>4. PICK x : x = [scene |-> o.scene, start |-> o.start, end |-> o.end]
      OBVIOUS
    <3>5. PICK y : y = [scene |-> q.scene, start |-> q.start, end |-> q.end]
      OBVIOUS
    <3>6. x \in Table(h, o.world).scenes /\ y \in Table(h, o.world).scenes
      BY <2>5, <2>7, <3>4, <3>5
    <3>7. x.scene = y.scene
      BY <2>7, <3>4, <3>5
    <3>8. x = y
      BY <3>3, <3>6, <3>7
    <3>9. o.start = q.start /\ o.end = q.end
      BY <3>4, <3>5, <3>8
    <3>10. /\ o = [world |-> o.world, scene |-> o.scene, start |-> o.start, end |-> o.end]
           /\ q = [world |-> q.world, scene |-> q.scene, start |-> q.start, end |-> q.end]
      BY DEF IsHeader
    <3> QED
      BY <2>7, <3>9, <3>10
  <2> QED
    BY <2>2, <2>3, <2>6, <2>7 DEF Decodes
<1> QED
  BY <1>2, <1>3

(***************************************************************************)
(* What encode writes says the header.                                     *)
(***************************************************************************)

\* Fields as they are written, and what they say.
AreFields(fields) ==
  /\ IsSequence(fields)
  /\ \A k \in 1 .. Len(fields) :
       /\ fields[k] = Field(fields[k].signature, fields[k].value)
       /\ fields[k].signature \in Signatures

LEMMA FieldsJoined ==
  ASSUME NEW s, AreFields(s), NEW t, AreFields(t)
  PROVE  /\ AreFields(s \o t)
         /\ \A signature :
              ValuesOf(s \o t, signature) = ValuesOf(s, signature) \o ValuesOf(t, signature)
<1>1. IsSequence(s) /\ IsSequence(t)
  BY DEF AreFields
<1>2. /\ IsSequence(s \o t)
      /\ \A signature :
              ValuesOf(s \o t, signature) = ValuesOf(s, signature) \o ValuesOf(t, signature)
  BY <1>1, ValuesJoined
<1>3. ASSUME NEW k \in 1 .. Len(s \o t)
      PROVE  (\E i \in 1 .. Len(s) : (s \o t)[k] = s[i]) \/ \E i \in 1 .. Len(t) : (s \o t)[k] = t[i]
  <2> DEFINE X == ToSet(s) \cup ToSet(t)
  <2>1. s \in Seq(X) /\ t \in Seq(X)
    BY <1>1 DEF IsSequence
  <2> HIDE DEF X
  <2>2. /\ Len(s) \in Nat /\ Len(t) \in Nat /\ Len(s \o t) = Len(s) + Len(t)
        /\ \A i \in 1 .. Len(s) + Len(t) : (s \o t)[i] = IF i <= Len(s) THEN s[i] ELSE t[i - Len(s)]
    BY <2>1, ConcatProperties
  <2>3. CASE k <= Len(s)
    BY <2>2, <2>3
  <2>4. CASE ~ (k <= Len(s))
    <3>1. k - Len(s) \in 1 .. Len(t) /\ (s \o t)[k] = t[k - Len(s)]
      BY <2>2, <2>4
    <3> QED
      BY <3>1
  <2> QED
    BY <2>3, <2>4
<1> QED
  BY <1>2, <1>3 DEF AreFields

LEMMA EachAreFields ==
  ASSUME NEW values, IsSequence(values), NEW signature \in Signatures
  PROVE  AreFields(Each(signature, values))
<1>1. IsSequence(Each(signature, values)) /\ Len(Each(signature, values)) = Len(values)
  BY ValuesOfEach
<1>2. DOMAIN values = 1 .. Len(values)
  BY DEF IsSequence
<1> QED
  BY <1>1, <1>2 DEF AreFields, Each, Field

\* No field, and one field, told as Each.
LEMMA OneField ==
  ASSUME NEW value, NEW signature \in Signatures
  PROVE  /\ AreFields(<<Field(signature, value)>>) /\ AreFields(<<>>)
         /\ ValuesOf(<<Field(signature, value)>>, signature) = <<value>>
         /\ \A other : other # signature => ValuesOf(<<Field(signature, value)>>, other) = <<>>
         /\ \A other : ValuesOf(<<>>, other) = <<>>
<1>1. Each(signature, <<value>>) = <<Field(signature, value)>> /\ Each(signature, <<>>) = <<>>
  BY DEF Each
<1>2. IsSequence(<<value>>) /\ IsSequence(<<>>)
  BY DEF IsSequence, ToSet
<1>3. ValuesOf(<<>>, signature) = <<>>
  BY <1>1, <1>2, ValuesOfEach
<1>4. \A other : other # signature => ValuesOf(<<>>, other) = <<>>
  BY <1>1, <1>2, ValuesOfEach
<1>5. AreFields(<<Field(signature, value)>>) /\ AreFields(<<>>)
  BY <1>1, <1>2, EachAreFields
<1>6. /\ ValuesOf(<<Field(signature, value)>>, signature) = <<value>>
      /\ \A other : other # signature => ValuesOf(<<Field(signature, value)>>, other) = <<>>
  BY <1>1, <1>2, ValuesOfEach
<1>7. \A other : ValuesOf(<<>>, other) = <<>>
  BY <1>3, <1>4
<1> QED
  BY <1>5, <1>6, <1>7

\* The fields that each package has.
FixedFields(h) ==
  <<Field("FMTV", FormatVersion), Field("PKID", PackageId), Field("CLAS", h.class),
    Field("NXID", h.next), Field("RCNT", h.count), Field("ORCT", h.owned)>>

LEMMA FixedFieldsSay ==
  ASSUME NEW h, NEW s, s = FixedFields(h)
  PROVE  /\ AreFields(s)
         /\ ValuesOf(s, "FMTV") = <<FormatVersion>> /\ ValuesOf(s, "PKID") = <<PackageId>>
         /\ ValuesOf(s, "CLAS") = <<h.class>> /\ ValuesOf(s, "NXID") = <<h.next>>
         /\ ValuesOf(s, "RCNT") = <<h.count>> /\ ValuesOf(s, "ORCT") = <<h.owned>>
         /\ \A sig \in {"PVER", "TEXT", "DEPN", "INCM", "SOVR", "SOFF"} : ValuesOf(s, sig) = <<>>
<1>1. /\ Len(s) = 6 /\ DOMAIN s = 1 .. 6
      /\ s[1] = Field("FMTV", FormatVersion) /\ s[2] = Field("PKID", PackageId)
      /\ s[3] = Field("CLAS", h.class) /\ s[4] = Field("NXID", h.next)
      /\ s[5] = Field("RCNT", h.count) /\ s[6] = Field("ORCT", h.owned)
  BY DEF FixedFields
<1>2. HasPlaces(s)
  BY <1>1 DEF HasPlaces
<1>3. \A k \in 1 .. 6 : k = 1 \/ k = 2 \/ k = 3 \/ k = 4 \/ k = 5 \/ k = 6
  OBVIOUS
<1>4. /\ s[1].signature = "FMTV" /\ s[2].signature = "PKID" /\ s[3].signature = "CLAS"
      /\ s[4].signature = "NXID" /\ s[5].signature = "RCNT" /\ s[6].signature = "ORCT"
      /\ s[1].value = FormatVersion /\ s[2].value = PackageId /\ s[3].value = h.class
      /\ s[4].value = h.next /\ s[5].value = h.count /\ s[6].value = h.owned
  BY <1>1 DEF Field
<1>5. IsSequence(s)
  <2> DEFINE X == {s[i] : i \in 1 .. 6}
  <2>1. s \in Seq(X)
    BY DEF FixedFields
  <2> HIDE DEF X
  <2> QED
    BY <2>1, SequenceOf
<1>6. AreFields(s)
  <2>1. ASSUME NEW k \in 1 .. 6
        PROVE  s[k] = Field(s[k].signature, s[k].value) /\ s[k].signature \in Signatures
    <3>1. /\ Field("FMTV", FormatVersion).signature \in Signatures
          /\ {"PKID", "CLAS", "NXID", "RCNT", "ORCT"} \subseteq Signatures
      BY DEF Field, Signatures, Once, Required
    <3>2. CASE k = 1
      BY <1>1, <3>1, <3>2, <1>4
    <3>3. CASE k = 2
      BY <1>1, <3>1, <3>3, <1>4
    <3>4. CASE k = 3
      BY <1>1, <3>1, <3>4, <1>4
    <3>5. CASE k = 4
      BY <1>1, <3>1, <3>5, <1>4
    <3>6. CASE k = 5
      BY <1>1, <3>1, <3>6, <1>4
    <3>7. CASE k = 6
      BY <1>1, <3>1, <3>7, <1>4
    <3> QED
      BY <1>3, <3>2, <3>3, <3>4, <3>5, <3>6, <3>7
  <2> QED
    BY <1>1, <1>5, <2>1 DEF AreFields
<1>7. ValuesOf(s, "FMTV") = <<FormatVersion>>
  <2>1. \A k \in 1 .. Len(s) : s[k].signature = "FMTV" <=> k = 1
    BY <1>1, <1>3, <1>4
  <2>2. 1 \in 1 .. Len(s)
    BY <1>1
  <2>3. PICK p \in 1 .. Len(s) : p = 1
    BY <2>2
  <2>4. \A k \in 1 .. Len(s) : s[k].signature = "FMTV" <=> k = p
    BY <2>1, <2>3
  <2>5. ValuesOf(s, "FMTV") = <<s[p].value>>
    BY <1>2, <2>4, OnlyAt
  <2> QED
    BY <1>4, <2>3, <2>5
<1>8. ValuesOf(s, "PKID") = <<PackageId>>
  <2>1. \A k \in 1 .. Len(s) : s[k].signature = "PKID" <=> k = 2
    BY <1>1, <1>3, <1>4
  <2>2. 2 \in 1 .. Len(s)
    BY <1>1
  <2>3. PICK p \in 1 .. Len(s) : p = 2
    BY <2>2
  <2>4. \A k \in 1 .. Len(s) : s[k].signature = "PKID" <=> k = p
    BY <2>1, <2>3
  <2>5. ValuesOf(s, "PKID") = <<s[p].value>>
    BY <1>2, <2>4, OnlyAt
  <2> QED
    BY <1>4, <2>3, <2>5
<1>9. ValuesOf(s, "CLAS") = <<h.class>>
  <2>1. \A k \in 1 .. Len(s) : s[k].signature = "CLAS" <=> k = 3
    BY <1>1, <1>3, <1>4
  <2>2. 3 \in 1 .. Len(s)
    BY <1>1
  <2>3. PICK p \in 1 .. Len(s) : p = 3
    BY <2>2
  <2>4. \A k \in 1 .. Len(s) : s[k].signature = "CLAS" <=> k = p
    BY <2>1, <2>3
  <2>5. ValuesOf(s, "CLAS") = <<s[p].value>>
    BY <1>2, <2>4, OnlyAt
  <2> QED
    BY <1>4, <2>3, <2>5
<1>10. ValuesOf(s, "NXID") = <<h.next>>
  <2>1. \A k \in 1 .. Len(s) : s[k].signature = "NXID" <=> k = 4
    BY <1>1, <1>3, <1>4
  <2>2. 4 \in 1 .. Len(s)
    BY <1>1
  <2>3. PICK p \in 1 .. Len(s) : p = 4
    BY <2>2
  <2>4. \A k \in 1 .. Len(s) : s[k].signature = "NXID" <=> k = p
    BY <2>1, <2>3
  <2>5. ValuesOf(s, "NXID") = <<s[p].value>>
    BY <1>2, <2>4, OnlyAt
  <2> QED
    BY <1>4, <2>3, <2>5
<1>11. ValuesOf(s, "RCNT") = <<h.count>>
  <2>1. \A k \in 1 .. Len(s) : s[k].signature = "RCNT" <=> k = 5
    BY <1>1, <1>3, <1>4
  <2>2. 5 \in 1 .. Len(s)
    BY <1>1
  <2>3. PICK p \in 1 .. Len(s) : p = 5
    BY <2>2
  <2>4. \A k \in 1 .. Len(s) : s[k].signature = "RCNT" <=> k = p
    BY <2>1, <2>3
  <2>5. ValuesOf(s, "RCNT") = <<s[p].value>>
    BY <1>2, <2>4, OnlyAt
  <2> QED
    BY <1>4, <2>3, <2>5
<1>12. ValuesOf(s, "ORCT") = <<h.owned>>
  <2>1. \A k \in 1 .. Len(s) : s[k].signature = "ORCT" <=> k = 6
    BY <1>1, <1>3, <1>4
  <2>2. 6 \in 1 .. Len(s)
    BY <1>1
  <2>3. PICK p \in 1 .. Len(s) : p = 6
    BY <2>2
  <2>4. \A k \in 1 .. Len(s) : s[k].signature = "ORCT" <=> k = p
    BY <2>1, <2>3
  <2>5. ValuesOf(s, "ORCT") = <<s[p].value>>
    BY <1>2, <2>4, OnlyAt
  <2> QED
    BY <1>4, <2>3, <2>5
<1>13. \A sig \in {"PVER", "TEXT", "DEPN", "INCM", "SOVR", "SOFF"} : ValuesOf(s, sig) = <<>>
  <2>1. \A sig \in {"PVER", "TEXT", "DEPN", "INCM", "SOVR", "SOFF"} :
          \A k \in 1 .. Len(s) : s[k].signature # sig
    BY <1>1, <1>3, <1>4
  <2> QED
    BY <1>2, <2>1, Nowhere
<1> QED
  BY <1>6, <1>7, <1>8, <1>9, <1>10, <1>11, <1>12, <1>13

\* One part that says something among six that say nothing.
LEMMA OneOfSeven ==
  ASSUME NEW t, IsSequence(t)
  PROVE  /\ t \o <<>> \o <<>> \o <<>> \o <<>> \o <<>> \o <<>> = t
         /\ <<>> \o t \o <<>> \o <<>> \o <<>> \o <<>> \o <<>> = t
         /\ <<>> \o <<>> \o t \o <<>> \o <<>> \o <<>> \o <<>> = t
         /\ <<>> \o <<>> \o <<>> \o t \o <<>> \o <<>> \o <<>> = t
         /\ <<>> \o <<>> \o <<>> \o <<>> \o t \o <<>> \o <<>> = t
         /\ <<>> \o <<>> \o <<>> \o <<>> \o <<>> \o t \o <<>> = t
         /\ <<>> \o <<>> \o <<>> \o <<>> \o <<>> \o <<>> \o t = t
<1>1. t \o <<>> = t /\ <<>> \o t = t
  <2> DEFINE X == ToSet(t)
  <2>1. t \in Seq(X)
    BY DEF IsSequence
  <2> HIDE DEF X
  <2> QED
    BY <2>1
<1>2. <<>> \o <<>> = <<>>
  OBVIOUS
<1> QED
  BY <1>1, <1>2

LEMMA EncodeSays ==
  ASSUME NEW h, IsHeader(h)
  PROVE  Says(Encode(h), h)
<1> DEFINE a == FixedFields(h)
           b == IF h.text = 0 THEN <<>> ELSE <<Field("TEXT", h.text)>>
           c == <<Field("PVER", "version")>>
           d == Each("DEPN", h.dependencies)
           i == Each("INCM", SetToSeq(h.incompatibilities))
           s == Each("SOVR", h.streaming)
           o == Each("SOFF", SetToSeq(Tables(h)))
<1>1. Encode(h) = a \o b \o c \o d \o i \o s \o o
  BY DEF Encode, FixedFields, Tables
<1>2. /\ {"FMTV", "PKID", "CLAS", "NXID", "RCNT", "ORCT", "PVER", "TEXT"} = Once
      /\ Signatures = Once \cup {"DEPN", "INCM", "SOVR", "SOFF"}
  BY DEF Once, Required, Signatures
<1>3. /\ IsSequence(h.dependencies) /\ IsSequence(h.streaming)
      /\ IsSequence(SetToSeq(h.incompatibilities)) /\ IsSequence(SetToSeq(Tables(h)))
  BY TablesAreFinite, SetToSeqLists DEF IsHeader
<1>4. /\ AreFields(a)
      /\ ValuesOf(a, "FMTV") = <<FormatVersion>> /\ ValuesOf(a, "PKID") = <<PackageId>>
      /\ ValuesOf(a, "CLAS") = <<h.class>> /\ ValuesOf(a, "NXID") = <<h.next>>
      /\ ValuesOf(a, "RCNT") = <<h.count>> /\ ValuesOf(a, "ORCT") = <<h.owned>>
      /\ \A sig \in {"PVER", "TEXT", "DEPN", "INCM", "SOVR", "SOFF"} : ValuesOf(a, sig) = <<>>
  BY FixedFieldsSay
<1>5. /\ AreFields(b) /\ ValuesOf(b, "TEXT") = IF h.text = 0 THEN <<>> ELSE <<h.text>>
      /\ \A sig : sig # "TEXT" => ValuesOf(b, sig) = <<>>
  <2>1. "TEXT" \in Signatures
    BY <1>2
  <2>2. CASE h.text = 0
    BY <2>1, <2>2, OneField
  <2>3. CASE h.text # 0
    BY <2>1, <2>3, OneField
  <2> QED
    BY <2>2, <2>3
<1>6. /\ AreFields(c) /\ ValuesOf(c, "PVER") = <<"version">>
      /\ \A sig : sig # "PVER" => ValuesOf(c, sig) = <<>>
  BY <1>2, OneField
<1>7. /\ AreFields(d) /\ ValuesOf(d, "DEPN") = h.dependencies
      /\ \A sig : sig # "DEPN" => ValuesOf(d, sig) = <<>>
  BY <1>2, <1>3, ValuesOfEach, EachAreFields
<1>8. /\ AreFields(i) /\ ValuesOf(i, "INCM") = SetToSeq(h.incompatibilities)
      /\ \A sig : sig # "INCM" => ValuesOf(i, sig) = <<>>
  BY <1>2, <1>3, ValuesOfEach, EachAreFields
<1>9. /\ AreFields(s) /\ ValuesOf(s, "SOVR") = h.streaming
      /\ \A sig : sig # "SOVR" => ValuesOf(s, sig) = <<>>
  BY <1>2, <1>3, ValuesOfEach, EachAreFields
<1>10. /\ AreFields(o) /\ ValuesOf(o, "SOFF") = SetToSeq(Tables(h))
       /\ \A sig : sig # "SOFF" => ValuesOf(o, sig) = <<>>
  BY <1>2, <1>3, ValuesOfEach, EachAreFields
<1> HIDE DEF a, b, c, d, i, s, o
<1>11. /\ AreFields(a \o b) /\ AreFields(a \o b \o c) /\ AreFields(a \o b \o c \o d)
       /\ AreFields(a \o b \o c \o d \o i) /\ AreFields(a \o b \o c \o d \o i \o s)
       /\ AreFields(a \o b \o c \o d \o i \o s \o o)
  BY <1>4, <1>5, <1>6, <1>7, <1>8, <1>9, <1>10, FieldsJoined
<1>12. ASSUME NEW sig
       PROVE  ValuesOf(Encode(h), sig) =
                ValuesOf(a, sig) \o ValuesOf(b, sig) \o ValuesOf(c, sig) \o ValuesOf(d, sig)
                  \o ValuesOf(i, sig) \o ValuesOf(s, sig) \o ValuesOf(o, sig)
  <2>1. ValuesOf(a \o b, sig) = ValuesOf(a, sig) \o ValuesOf(b, sig)
    BY <1>4, <1>5, FieldsJoined
  <2>2. ValuesOf(a \o b \o c, sig) = ValuesOf(a \o b, sig) \o ValuesOf(c, sig)
    BY <1>6, <1>11, FieldsJoined
  <2>3. ValuesOf(a \o b \o c \o d, sig) = ValuesOf(a \o b \o c, sig) \o ValuesOf(d, sig)
    BY <1>7, <1>11, FieldsJoined
  <2>4. ValuesOf(a \o b \o c \o d \o i, sig) = ValuesOf(a \o b \o c \o d, sig) \o ValuesOf(i, sig)
    BY <1>8, <1>11, FieldsJoined
  <2>5. ValuesOf(a \o b \o c \o d \o i \o s, sig)
          = ValuesOf(a \o b \o c \o d \o i, sig) \o ValuesOf(s, sig)
    BY <1>9, <1>11, FieldsJoined
  <2>6. ValuesOf(a \o b \o c \o d \o i \o s \o o, sig)
          = ValuesOf(a \o b \o c \o d \o i \o s, sig) \o ValuesOf(o, sig)
    BY <1>10, <1>11, FieldsJoined
  <2> QED
    BY <1>1, <2>1, <2>2, <2>3, <2>4, <2>5, <2>6
<1>13. IsSequence(<<>>) /\ \A v : IsSequence(<<v>>)
  BY DEF IsSequence, ToSet
<1> DEFINE E(sig) == ValuesOf(Encode(h), sig)
<1>14. E("FMTV") = <<FormatVersion>>
  <2>1. /\ ValuesOf(a, "FMTV") = <<FormatVersion>>
        /\ ValuesOf(b, "FMTV") = <<>>
        /\ ValuesOf(c, "FMTV") = <<>>
        /\ ValuesOf(d, "FMTV") = <<>>
        /\ ValuesOf(i, "FMTV") = <<>>
        /\ ValuesOf(s, "FMTV") = <<>>
        /\ ValuesOf(o, "FMTV") = <<>>
    BY <1>4, <1>5, <1>6, <1>7, <1>8, <1>9, <1>10
  <2>2. IsSequence(<<FormatVersion>>)
    BY <1>13
  <2> QED
    BY <1>12, <2>1, <2>2, OneOfSeven
<1>15. E("PKID") = <<PackageId>>
  <2>1. /\ ValuesOf(a, "PKID") = <<PackageId>>
        /\ ValuesOf(b, "PKID") = <<>>
        /\ ValuesOf(c, "PKID") = <<>>
        /\ ValuesOf(d, "PKID") = <<>>
        /\ ValuesOf(i, "PKID") = <<>>
        /\ ValuesOf(s, "PKID") = <<>>
        /\ ValuesOf(o, "PKID") = <<>>
    BY <1>4, <1>5, <1>6, <1>7, <1>8, <1>9, <1>10
  <2>2. IsSequence(<<PackageId>>)
    BY <1>13
  <2> QED
    BY <1>12, <2>1, <2>2, OneOfSeven
<1>16. E("CLAS") = <<h.class>>
  <2>1. /\ ValuesOf(a, "CLAS") = <<h.class>>
        /\ ValuesOf(b, "CLAS") = <<>>
        /\ ValuesOf(c, "CLAS") = <<>>
        /\ ValuesOf(d, "CLAS") = <<>>
        /\ ValuesOf(i, "CLAS") = <<>>
        /\ ValuesOf(s, "CLAS") = <<>>
        /\ ValuesOf(o, "CLAS") = <<>>
    BY <1>4, <1>5, <1>6, <1>7, <1>8, <1>9, <1>10
  <2>2. IsSequence(<<h.class>>)
    BY <1>13
  <2> QED
    BY <1>12, <2>1, <2>2, OneOfSeven
<1>17. E("NXID") = <<h.next>>
  <2>1. /\ ValuesOf(a, "NXID") = <<h.next>>
        /\ ValuesOf(b, "NXID") = <<>>
        /\ ValuesOf(c, "NXID") = <<>>
        /\ ValuesOf(d, "NXID") = <<>>
        /\ ValuesOf(i, "NXID") = <<>>
        /\ ValuesOf(s, "NXID") = <<>>
        /\ ValuesOf(o, "NXID") = <<>>
    BY <1>4, <1>5, <1>6, <1>7, <1>8, <1>9, <1>10
  <2>2. IsSequence(<<h.next>>)
    BY <1>13
  <2> QED
    BY <1>12, <2>1, <2>2, OneOfSeven
<1>18. E("RCNT") = <<h.count>>
  <2>1. /\ ValuesOf(a, "RCNT") = <<h.count>>
        /\ ValuesOf(b, "RCNT") = <<>>
        /\ ValuesOf(c, "RCNT") = <<>>
        /\ ValuesOf(d, "RCNT") = <<>>
        /\ ValuesOf(i, "RCNT") = <<>>
        /\ ValuesOf(s, "RCNT") = <<>>
        /\ ValuesOf(o, "RCNT") = <<>>
    BY <1>4, <1>5, <1>6, <1>7, <1>8, <1>9, <1>10
  <2>2. IsSequence(<<h.count>>)
    BY <1>13
  <2> QED
    BY <1>12, <2>1, <2>2, OneOfSeven
<1>19. E("ORCT") = <<h.owned>>
  <2>1. /\ ValuesOf(a, "ORCT") = <<h.owned>>
        /\ ValuesOf(b, "ORCT") = <<>>
        /\ ValuesOf(c, "ORCT") = <<>>
        /\ ValuesOf(d, "ORCT") = <<>>
        /\ ValuesOf(i, "ORCT") = <<>>
        /\ ValuesOf(s, "ORCT") = <<>>
        /\ ValuesOf(o, "ORCT") = <<>>
    BY <1>4, <1>5, <1>6, <1>7, <1>8, <1>9, <1>10
  <2>2. IsSequence(<<h.owned>>)
    BY <1>13
  <2> QED
    BY <1>12, <2>1, <2>2, OneOfSeven
<1>20. E("TEXT") = (IF h.text = 0 THEN <<>> ELSE <<h.text>>)
  <2>1. /\ ValuesOf(a, "TEXT") = <<>>
        /\ ValuesOf(b, "TEXT") = (IF h.text = 0 THEN <<>> ELSE <<h.text>>)
        /\ ValuesOf(c, "TEXT") = <<>>
        /\ ValuesOf(d, "TEXT") = <<>>
        /\ ValuesOf(i, "TEXT") = <<>>
        /\ ValuesOf(s, "TEXT") = <<>>
        /\ ValuesOf(o, "TEXT") = <<>>
    BY <1>4, <1>5, <1>6, <1>7, <1>8, <1>9, <1>10
  <2>2. IsSequence((IF h.text = 0 THEN <<>> ELSE <<h.text>>))
    BY <1>13
  <2> QED
    BY <1>12, <2>1, <2>2, OneOfSeven
<1>21. E("PVER") = <<"version">>
  <2>1. /\ ValuesOf(a, "PVER") = <<>>
        /\ ValuesOf(b, "PVER") = <<>>
        /\ ValuesOf(c, "PVER") = <<"version">>
        /\ ValuesOf(d, "PVER") = <<>>
        /\ ValuesOf(i, "PVER") = <<>>
        /\ ValuesOf(s, "PVER") = <<>>
        /\ ValuesOf(o, "PVER") = <<>>
    BY <1>4, <1>5, <1>6, <1>7, <1>8, <1>9, <1>10
  <2>2. IsSequence(<<"version">>)
    BY <1>13
  <2> QED
    BY <1>12, <2>1, <2>2, OneOfSeven
<1>22. E("DEPN") = h.dependencies
  <2>0. PICK v : v = h.dependencies
    OBVIOUS
  <2>1. /\ ValuesOf(a, "DEPN") = <<>>
        /\ ValuesOf(b, "DEPN") = <<>>
        /\ ValuesOf(c, "DEPN") = <<>>
        /\ ValuesOf(d, "DEPN") = v
        /\ ValuesOf(i, "DEPN") = <<>>
        /\ ValuesOf(s, "DEPN") = <<>>
        /\ ValuesOf(o, "DEPN") = <<>>
    BY <1>4, <1>5, <1>6, <1>7, <1>8, <1>9, <1>10, <2>0
  <2>2. IsSequence(v)
    BY <1>3, <2>0
  <2>3. E("DEPN") = v
    BY <1>12, <2>1, <2>2, OneOfSeven
  <2> QED
    BY <2>0, <2>3
<1>23. E("INCM") = SetToSeq(h.incompatibilities)
  <2>0. PICK v : v = SetToSeq(h.incompatibilities)
    OBVIOUS
  <2>1. /\ ValuesOf(a, "INCM") = <<>>
        /\ ValuesOf(b, "INCM") = <<>>
        /\ ValuesOf(c, "INCM") = <<>>
        /\ ValuesOf(d, "INCM") = <<>>
        /\ ValuesOf(i, "INCM") = v
        /\ ValuesOf(s, "INCM") = <<>>
        /\ ValuesOf(o, "INCM") = <<>>
    BY <1>4, <1>5, <1>6, <1>7, <1>8, <1>9, <1>10, <2>0
  <2>2. IsSequence(v)
    BY <1>3, <2>0
  <2>3. E("INCM") = v
    BY <1>12, <2>1, <2>2, OneOfSeven
  <2> QED
    BY <2>0, <2>3
<1>24. E("SOVR") = h.streaming
  <2>0. PICK v : v = h.streaming
    OBVIOUS
  <2>1. /\ ValuesOf(a, "SOVR") = <<>>
        /\ ValuesOf(b, "SOVR") = <<>>
        /\ ValuesOf(c, "SOVR") = <<>>
        /\ ValuesOf(d, "SOVR") = <<>>
        /\ ValuesOf(i, "SOVR") = <<>>
        /\ ValuesOf(s, "SOVR") = v
        /\ ValuesOf(o, "SOVR") = <<>>
    BY <1>4, <1>5, <1>6, <1>7, <1>8, <1>9, <1>10, <2>0
  <2>2. IsSequence(v)
    BY <1>3, <2>0
  <2>3. E("SOVR") = v
    BY <1>12, <2>1, <2>2, OneOfSeven
  <2> QED
    BY <2>0, <2>3
<1>25. E("SOFF") = SetToSeq(Tables(h))
  <2>0. PICK v : v = SetToSeq(Tables(h))
    OBVIOUS
  <2>1. /\ ValuesOf(a, "SOFF") = <<>>
        /\ ValuesOf(b, "SOFF") = <<>>
        /\ ValuesOf(c, "SOFF") = <<>>
        /\ ValuesOf(d, "SOFF") = <<>>
        /\ ValuesOf(i, "SOFF") = <<>>
        /\ ValuesOf(s, "SOFF") = <<>>
        /\ ValuesOf(o, "SOFF") = v
    BY <1>4, <1>5, <1>6, <1>7, <1>8, <1>9, <1>10, <2>0
  <2>2. IsSequence(v)
    BY <1>3, <2>0
  <2>3. E("SOFF") = v
    BY <1>12, <2>1, <2>2, OneOfSeven
  <2> QED
    BY <2>0, <2>3
<1> QED
  BY <1>1, <1>11, <1>14, <1>15, <1>16, <1>17, <1>18, <1>19, <1>20, <1>21, <1>22, <1>23, <1>24, <1>25
  DEF Says, AreFields

(***************************************************************************)
(* Fields exchanged, taken out or written twice.                           *)
(***************************************************************************)

\* Sequences that list the same fields have the same values.
LEMMA SameValues ==
  ASSUME NEW fields, HasPlaces(fields), NEW g, HasPlaces(g), NEW signature, NEW m,
         NEW f, Lists(f, m, fields, signature), NEW e, Lists(e, m, g, signature),
         \A i \in 1 .. m : g[e[i]] = fields[f[i]]
  PROVE  ValuesOf(g, signature) = ValuesOf(fields, signature)
<1>1. ValuesOf(g, signature) = [i \in 1 .. m |-> g[e[i]].value]
  BY ValuesAre
<1>2. ValuesOf(fields, signature) = [i \in 1 .. m |-> fields[f[i]].value]
  BY ValuesAre
<1>3. [i \in 1 .. m |-> g[e[i]].value] = [i \in 1 .. m |-> fields[f[i]].value]
  OBVIOUS
<1> QED
  BY <1>1, <1>2, <1>3

Exchanges(g, fields, k) == g = [fields EXCEPT ![k] = fields[k + 1], ![k + 1] = fields[k]]

LEMMA Exchanged ==
  ASSUME NEW fields, AreFields(fields), NEW k \in 1 .. Len(fields), k + 1 \in 1 .. Len(fields),
         fields[k].signature # fields[k + 1].signature,
         NEW g, Exchanges(g, fields, k)
  PROVE  AreFields(g) /\ \A signature : ValuesOf(g, signature) = ValuesOf(fields, signature)
<1>1. PICK n : n = Len(fields)
  OBVIOUS
<1>2. /\ n \in Nat /\ DOMAIN fields = 1 .. n /\ k \in 1 .. n /\ k + 1 \in 1 .. n
      /\ HasPlaces(fields)
  BY <1>1, SequenceHasPlaces DEF AreFields, HasPlaces
<1> DEFINE swap(i) == IF i = k THEN k + 1 ELSE IF i = k + 1 THEN k ELSE i
<1>3. /\ DOMAIN g = 1 .. n
      /\ \A i \in 1 .. n : swap(i) \in 1 .. n /\ g[swap(i)] = fields[i] /\ g[i] = fields[swap(i)]
      /\ \A i \in 1 .. n : swap(swap(i)) = i
  BY <1>2 DEF Exchanges
<1>4. \A i, j \in 1 .. n :
        i < j => swap(i) < swap(j) \/ fields[i].signature # fields[j].signature
  BY <1>2
<1>5. IsSequence(g) /\ HasPlaces(g) /\ Len(g) = n
  <2> DEFINE X == ToSet(fields)
  <2>1. fields \in Seq(X)
    BY DEF AreFields, IsSequence
  <2>2. \A i \in 1 .. n : fields[i] \in X
    BY <1>2 DEF ToSet
  <2> HIDE DEF X
  <2>3. g \in Seq(X) /\ Len(g) = n
    BY <1>1, <1>2, <2>1, <2>2 DEF Exchanges
  <2> QED
    BY <2>3, SequenceOf, SequenceHasPlaces
<1> HIDE DEF swap
<1>6. AreFields(g)
  BY <1>1, <1>3, <1>5 DEF AreFields
<1>7. ASSUME NEW signature
      PROVE  ValuesOf(g, signature) = ValuesOf(fields, signature)
  <2>1. PICK m, f : Lists(f, m, fields, signature)
    BY <1>2, ValuesListed
  <2> DEFINE e == [i \in 1 .. m |-> swap(f[i])]
  <2>2. /\ m \in Nat /\ f \in [1 .. m -> 1 .. n]
        /\ \A i, j \in 1 .. m : i < j => f[i] < f[j]
        /\ \A i \in 1 .. m : fields[f[i]].signature = signature
        /\ \A x \in 1 .. n : fields[x].signature = signature => \E i \in 1 .. m : f[i] = x
    BY <1>1, <2>1 DEF Lists
  <2>3. e \in [1 .. m -> 1 .. n] /\ \A i \in 1 .. m : g[e[i]] = fields[f[i]]
    BY <1>3, <2>2
  <2>4. \A i, j \in 1 .. m : i < j => e[i] < e[j]
    <3> SUFFICES ASSUME NEW i \in 1 .. m, NEW j \in 1 .. m, i < j PROVE e[i] < e[j]
      OBVIOUS
    <3>1. /\ f[i] \in 1 .. n /\ f[j] \in 1 .. n /\ f[i] < f[j]
          /\ fields[f[i]].signature = fields[f[j]].signature
      BY <2>2
    <3> QED
      BY <1>4, <3>1
  <2>5. ASSUME NEW x \in 1 .. n, g[x].signature = signature
        PROVE  \E i \in 1 .. m : e[i] = x
    <3>1. swap(x) \in 1 .. n /\ fields[swap(x)].signature = signature
      BY <1>3, <2>5
    <3>2. PICK i \in 1 .. m : f[i] = swap(x)
      BY <2>2, <3>1
    <3>3. e[i] = swap(swap(x))
      BY <3>2
    <3> QED
      BY <1>3, <3>3
  <2>6. Lists(e, m, g, signature)
    <3>1. \A i \in 1 .. m : g[e[i]].signature = signature
      BY <2>2, <2>3
    <3> HIDE DEF e
    <3> QED
      BY <1>5, <2>2, <2>3, <2>4, <2>5, <3>1 DEF Lists
  <2>7. \A i \in 1 .. m : g[e[i]] = fields[f[i]]
    BY <2>3
  <2>8. PICK d : d = e
    OBVIOUS
  <2> HIDE DEF e
  <2>9. Lists(d, m, g, signature) /\ \A i \in 1 .. m : g[d[i]] = fields[f[i]]
    BY <2>6, <2>7, <2>8
  <2>10. HasPlaces(fields) /\ HasPlaces(g) /\ Lists(f, m, fields, signature)
    BY <1>2, <1>5, <2>1
  <2> QED
    BY <2>9, <2>10, SameValues
<1> QED
  BY <1>6, <1>7

\* The fields g of a sequence without one field of the signature: each field of g stands behind no
\* more than it did.
Lacks(g, fields, sig) ==
  /\ HasPlaces(g)
  /\ \A j \in 1 .. Len(g) : \E i \in 1 .. Len(fields) :
       /\ g[j] = fields[i]
       /\ {g[l] : l \in 1 .. j - 1} \subseteq {fields[l] : l \in 1 .. i - 1}
  /\ \A signature : signature # sig => ValuesOf(g, signature) = ValuesOf(fields, signature)

LEMMA FieldRemoved ==
  ASSUME NEW fields, AreFields(fields), NEW k \in 1 .. Len(fields),
         NEW g, g = RemoveAt(fields, k)
  PROVE  Lacks(g, fields, fields[k].signature)
<1>1. PICK n : n = Len(fields)
  OBVIOUS
<1>2. /\ n \in Nat /\ DOMAIN fields = 1 .. n /\ k \in 1 .. n /\ HasPlaces(fields)
  BY <1>1, SequenceHasPlaces DEF AreFields, HasPlaces
<1>3. /\ Len(g) = n - 1 /\ HasPlaces(g)
      /\ \A j \in 1 .. n - 1 : g[j] = IF j < k THEN fields[j] ELSE fields[j + 1]
  <2> DEFINE X == ToSet(fields)
  <2>1. fields \in Seq(X)
    BY DEF AreFields, IsSequence
  <2> HIDE DEF X
  <2>2. /\ RemoveAt(fields, k) \in Seq(X)
        /\ Len(RemoveAt(fields, k)) = Len(fields) - 1
        /\ \A j \in 1 .. Len(fields) - 1 :
              RemoveAt(fields, k)[j] = IF j < k THEN fields[j] ELSE fields[j + 1]
    BY <2>1, RemovedAt
  <2>3. HasPlaces(g)
    BY <2>2, SequenceOf, SequenceHasPlaces
  <2> QED
    BY <1>1, <2>2, <2>3
<1> DEFINE from(j) == IF j < k THEN j ELSE j + 1
           to(i) == IF i < k THEN i ELSE i - 1
<1>4. /\ \A j \in 1 .. n - 1 : from(j) \in 1 .. n /\ from(j) # k /\ g[j] = fields[from(j)]
                               /\ to(from(j)) = j
      /\ \A i, j \in 1 .. n - 1 : i < j => from(i) < from(j)
      /\ \A i \in 1 .. n : i # k => to(i) \in 1 .. n - 1 /\ g[to(i)] = fields[i] /\ from(to(i)) = i
      /\ \A i, j \in 1 .. n : i # k /\ j # k /\ i < j => to(i) < to(j)
  <2>1. \A j \in 1 .. n - 1 : from(j) \in 1 .. n /\ from(j) # k /\ g[j] = fields[from(j)]
                               /\ to(from(j)) = j
    BY <1>2, <1>3
  <2>2. \A i, j \in 1 .. n - 1 : i < j => from(i) < from(j)
    BY <1>2
  <2>3. \A i \in 1 .. n : i # k => to(i) \in 1 .. n - 1 /\ from(to(i)) = i
    BY <1>2
  <2>4. \A i, j \in 1 .. n : i # k /\ j # k /\ i < j => to(i) < to(j)
    BY <1>2
  <2>5. \A i \in 1 .. n : i # k => g[to(i)] = fields[i]
    <3> HIDE DEF from, to
    <3> QED
      BY <2>1, <2>3
  <2> HIDE DEF from, to
  <2> QED
    BY <2>1, <2>2, <2>3, <2>4, <2>5
<1> HIDE DEF from, to
<1>5. ASSUME NEW j \in 1 .. Len(g)
      PROVE  \E i \in 1 .. Len(fields) :
              /\ g[j] = fields[i]
              /\ {g[l] : l \in 1 .. j - 1} \subseteq {fields[l] : l \in 1 .. i - 1}
  <2>1. j \in 1 .. n - 1
    BY <1>3
  <2>2. from(j) \in 1 .. n /\ g[j] = fields[from(j)]
    BY <1>4, <2>1
  <2>3. ASSUME NEW l \in 1 .. j - 1
        PROVE  \E x \in 1 .. from(j) - 1 : g[l] = fields[x]
    <3>1. l \in 1 .. n - 1 /\ l < j
      BY <1>2, <2>1
    <3>2. from(l) \in 1 .. n /\ from(l) < from(j) /\ g[l] = fields[from(l)]
      BY <1>4, <2>1, <3>1
    <3>3. from(l) \in 1 .. from(j) - 1
      BY <1>2, <2>2, <3>2
    <3> QED
      BY <3>2, <3>3
  <2>4. PICK i : i = from(j)
    OBVIOUS
  <2>5. i \in 1 .. n /\ g[j] = fields[i] /\ \A l \in 1 .. j - 1 : \E x \in 1 .. i - 1 : g[l] = fields[x]
    BY <2>2, <2>3, <2>4
  <2>6. {g[l] : l \in 1 .. j - 1} \subseteq {fields[l] : l \in 1 .. i - 1}
    BY <2>5
  <2> QED
    BY <1>1, <2>5, <2>6
<1>6. ASSUME NEW signature, signature # fields[k].signature
      PROVE  ValuesOf(g, signature) = ValuesOf(fields, signature)
  <2>1. PICK m, f : Lists(f, m, fields, signature)
    BY <1>2, ValuesListed
  <2> DEFINE e == [i \in 1 .. m |-> to(f[i])]
  <2>2. /\ m \in Nat /\ f \in [1 .. m -> 1 .. n]
        /\ \A i, j \in 1 .. m : i < j => f[i] < f[j]
        /\ \A i \in 1 .. m : fields[f[i]].signature = signature
        /\ \A x \in 1 .. n : fields[x].signature = signature => \E i \in 1 .. m : f[i] = x
    BY <1>1, <2>1 DEF Lists
  <2>3. \A i \in 1 .. m : f[i] \in 1 .. n /\ f[i] # k
    BY <1>6, <2>2
  <2>4. e \in [1 .. m -> 1 .. n - 1] /\ \A i \in 1 .. m : g[e[i]] = fields[f[i]]
    BY <1>4, <2>3
  <2>5. \A i, j \in 1 .. m : i < j => e[i] < e[j]
    BY <1>4, <2>2, <2>3
  <2>6. ASSUME NEW x \in 1 .. n - 1, g[x].signature = signature
        PROVE  \E i \in 1 .. m : e[i] = x
    <3>1. from(x) \in 1 .. n /\ fields[from(x)].signature = signature /\ to(from(x)) = x
      BY <1>4, <2>6
    <3>2. PICK i \in 1 .. m : f[i] = from(x)
      BY <2>2, <3>1
    <3> QED
      BY <3>1, <3>2
  <2>7. Lists(e, m, g, signature)
    <3>1. \A i \in 1 .. m : g[e[i]].signature = signature
      BY <2>2, <2>4
    <3> HIDE DEF e
    <3> QED
      BY <1>3, <2>2, <2>4, <2>5, <2>6, <3>1 DEF Lists
  <2>8. \A i \in 1 .. m : g[e[i]] = fields[f[i]]
    BY <2>4
  <2> HIDE DEF e
  <2> QED
    BY <1>2, <1>3, <2>1, <2>7, <2>8, SameValues
<1> QED
  BY <1>3, <1>5, <1>6 DEF Lacks

\* A header without a field that is required is refused as such.
LEMMA RequiredIsMissed ==
  ASSUME NEW h, IsHeader(h), ZeroId \notin Worlds(h), Decodes(h), NEW fields, Says(fields, h),
         NEW k \in 1 .. Len(fields), fields[k].signature \in Required
  PROVE  DecodeError(RemoveAt(fields, k)) = "MissingField"
<1>1. AreFields(fields) /\ HasPlaces(fields)
  BY SequenceHasPlaces DEF Says, AreFields
<1>2. PICK g : g = RemoveAt(fields, k)
  OBVIOUS
<1>3. PICK sig : sig = fields[k].signature
  OBVIOUS
<1>4. /\ HasPlaces(g)
      /\ \A j \in 1 .. Len(g) : \E i \in 1 .. Len(fields) :
              /\ g[j] = fields[i]
              /\ {g[l] : l \in 1 .. j - 1} \subseteq {fields[l] : l \in 1 .. i - 1}
      /\ \A signature : signature # sig => ValuesOf(g, signature) = ValuesOf(fields, signature)
  <2>1. Lacks(g, fields, sig)
    BY <1>1, <1>2, <1>3, FieldRemoved
  <2> QED
    BY <2>1 DEF Lacks
<1>5. ASSUME NEW j \in 1 .. Len(g)
      PROVE  FieldError(g, j) = "none"
  <2>1. PICK i \in 1 .. Len(fields) :
              /\ g[j] = fields[i]
              /\ {g[l] : l \in 1 .. j - 1} \subseteq {fields[l] : l \in 1 .. i - 1}
    BY <1>4
  <2>2. PICK f, earlier : f = fields[i] /\ earlier = {fields[l] : l \in 1 .. i - 1}
    OBVIOUS
  <2>3. PICK fewer : fewer = {g[l] : l \in 1 .. j - 1}
    OBVIOUS
  <2>4. FieldError(fields, i) = "none"
    BY SaysNoFieldError
  <2>5. /\ ~ (f.signature \in Once /\ \E x \in earlier : x.signature = f.signature)
        /\ ~ (f.signature = "SOVR" /\ f \in earlier)
        /\ ~ (f.signature = "SOFF" /\ \E o \in f.value.scenes : o.start >= o.end)
        /\ ~ (f.signature = "SOFF" /\ \E o, q \in f.value.scenes : o # q /\ o.scene = q.scene)
        /\ ~ (f.signature = "SOFF" /\ \E x \in earlier : /\ x.signature = "SOFF"
                                                         /\ x.value.world = f.value.world)
        /\ f.signature \in Signatures
    BY <2>2, <2>4 DEF FieldError
  <2>6. fewer \subseteq earlier /\ g[j] = f
    BY <2>1, <2>2, <2>3
  <2> QED
    BY <2>3, <2>5, <2>6 DEF FieldError
<1>6. ValuesOf(g, sig) = <<>>
  <2>1. \E v : ValuesOf(fields, sig) = <<v>>
    BY <1>3 DEF Says, Required
  <2>2. \A a, b \in DOMAIN ValuesOf(fields, sig) : a = b
    BY <2>1
  <2>3. ASSUME NEW j \in 1 .. Len(g), g[j].signature = sig
        PROVE  FALSE
    <3>1. PICK n : n = Len(fields)
      OBVIOUS
    <3>2. fields \in Seq(ToSet(fields)) /\ n \in Nat /\ k \in 1 .. n
      BY <1>1, <3>1 DEF AreFields, IsSequence, HasPlaces
    <3> DEFINE X == ToSet(fields)
    <3> HIDE DEF X
    <3>3. fields \in Seq(X)
      BY <3>2 DEF X
    <3>4. Len(g) = n - 1 /\ \A i \in 1 .. n - 1 : g[i] = IF i < k THEN fields[i] ELSE fields[i + 1]
      BY <1>2, <3>1, <3>3, RemovedAt
    <3>5. PICK i \in 1 .. n : i # k /\ fields[i].signature = sig
      <4>1. CASE j < k
        <5>1. j \in 1 .. n - 1 /\ j \in 1 .. n /\ j # k
          BY <3>2, <3>4, <4>1
        <5>2. g[j] = fields[j]
          BY <3>4, <4>1, <5>1
        <5> QED
          BY <2>3, <5>1, <5>2
      <4>2. CASE ~ (j < k)
        <5>1. j + 1 \in 1 .. n /\ j + 1 # k /\ fields[j + 1].signature = sig
          BY <2>3, <3>2, <3>4, <4>2
        <5> QED
          BY <5>1
      <4> QED
        BY <4>1, <4>2
    <3> QED
      BY <1>1, <1>3, <2>2, <3>1, <3>5, TwoFields
  <2> QED
    BY <1>4, <2>3, Nowhere
<1>7. sig \in Required /\ Required = {"FMTV", "PKID", "CLAS", "NXID", "RCNT", "ORCT", "PVER"}
  BY <1>3 DEF Required
<1>8. HeaderError(g) = "MissingField"
  <2>1. CASE sig = "FMTV"
    BY <1>6, <2>1 DEF HeaderError
  <2>2. CASE sig \in {"PKID", "CLAS", "NXID"}
    <3>1. ValuesOf(g, "FMTV") = <<FormatVersion>>
      BY <1>4, <2>2 DEF Says
    <3>2. Value(g, "FMTV") = FormatVersion
      BY <3>1 DEF Value
    <3>3. \E s \in {"PKID", "CLAS", "NXID"} : ValuesOf(g, s) = <<>>
      BY <1>6, <2>2
    <3>4. ~ \E s \in {"FMTV"} : ValuesOf(g, s) = <<>>
      BY <3>1
    <3> QED
      BY <3>2, <3>3, <3>4 DEF HeaderError
  <2>3. CASE sig \in {"RCNT", "ORCT", "PVER"}
    <3>1. /\ ValuesOf(g, "FMTV") = <<FormatVersion>> /\ ValuesOf(g, "PKID") = <<PackageId>>
          /\ ValuesOf(g, "CLAS") = <<h.class>> /\ ValuesOf(g, "NXID") = <<h.next>>
      BY <1>4, <2>3 DEF Says
    <3>2. Value(g, "FMTV") = FormatVersion /\ Value(g, "NXID") = h.next
      BY <3>1 DEF Value
    <3>3. ~ \E s \in {"FMTV"} : ValuesOf(g, s) = <<>>
      BY <3>1
    <3>4. ~ \E s \in {"PKID", "CLAS", "NXID"} : ValuesOf(g, s) = <<>>
      BY <3>1
    <3>5. \E s \in Required : ValuesOf(g, s) = <<>>
      BY <1>6, <1>7
    <3>6. ~ (h.next > MaxLocalId)
      BY LimitsAssumption DEF Decodes, IsHeader
    <3> QED
      BY <3>2, <3>3, <3>4, <3>5, <3>6 DEF HeaderError
  <2> QED
    BY <1>7, <2>1, <2>2, <2>3
<1>9. DecodeError(g) = HeaderError(g)
  <2> DEFINE faulty == {i \in DOMAIN g : FieldError(g, i) # "none"}
  <2>1. faulty = {}
    BY <1>4, <1>5 DEF HasPlaces
  <2>2. DecodeError(g) =
          IF faulty # {} THEN FieldError(g, CHOOSE i \in faulty : \A j \in faulty : i <= j)
          ELSE HeaderError(g)
    BY DEF DecodeError
  <2> HIDE DEF faulty
  <2> QED
    BY <2>1, <2>2
<1> QED
  BY <1>2, <1>8, <1>9

\* A field written twice is refused, whatever it is and wherever.
LEMMA RepeatedIsRefused ==
  ASSUME NEW fields, IsSequence(fields), NEW k \in 1 .. Len(fields)
  PROVE  /\ DecodeError(Append(fields, fields[k])) # "none"
         /\ DecodeError(<<fields[k]>> \o fields) # "none"
<1> DEFINE X == ToSet(fields)
           n == Len(fields)
           v == fields[k]
           a == Append(fields, v)
           b == <<v>> \o fields
<1>1. fields \in Seq(X) /\ n \in Nat /\ k \in 1 .. n /\ v \in X
  <2>1. fields \in Seq(X)
    BY DEF IsSequence
  <2> QED
    BY <2>1 DEF ToSet
<1> HIDE DEF X, n, v
<1>2. /\ a \in Seq(X) /\ Len(a) = n + 1 /\ a[n + 1] = v /\ a[k] = v
  BY <1>1 DEF n, v
<1>3. /\ b \in Seq(X) /\ Len(b) = n + 1 /\ b[1] = v /\ b[k + 1] = v
  <2>1. <<v>> \in Seq(X) /\ Len(<<v>>) = 1 /\ <<v>>[1] = v
    BY <1>1
  <2>2. /\ b \in Seq(X) /\ Len(b) = 1 + n
        /\ \A i \in 1 .. 1 + n : b[i] = IF i <= 1 THEN <<v>>[i] ELSE fields[i - 1]
    BY <1>1, <2>1, ConcatProperties DEF n
  <2>3. /\ 1 \in 1 .. 1 + n /\ k + 1 \in 1 .. 1 + n /\ 1 <= 1 /\ ~ (k + 1 <= 1)
        /\ (k + 1) - 1 = k /\ 1 + n = n + 1
    BY <1>1
  <2> HIDE DEF b
  <2>4. b[1] = v /\ b[k + 1] = fields[k]
    BY <2>1, <2>2, <2>3
  <2> QED
    BY <2>2, <2>3, <2>4 DEF v
<1> HIDE DEF a, b
<1>4. HasPlaces(a) /\ HasPlaces(b)
  BY <1>2, <1>3, SequenceOf, SequenceHasPlaces
<1>5. DecodeError(a) # "none"
  <2>1. k \in 1 .. Len(a) /\ n + 1 \in 1 .. Len(a) /\ k < n + 1
    BY <1>1, <1>2
  <2> QED
    BY <1>2, <1>4, <2>1, FieldsAreDistinct
<1>6. DecodeError(b) # "none"
  <2>1. 1 \in 1 .. Len(b) /\ k + 1 \in 1 .. Len(b) /\ 1 < k + 1
    BY <1>1, <1>3
  <2> QED
    BY <1>3, <1>4, <2>1, FieldsAreDistinct
<1> QED
  BY <1>5, <1>6 DEF a, b, v

(***************************************************************************)
(* The header of a package that opens.                                     *)
(***************************************************************************)

LEMMA VariantsAreHeaders ==
  ASSUME NEW h, IsHeader(h), NEW v \in Variants(h)
  PROVE  IsHeader(v) /\ Worlds(v) = Worlds(h)
<1>1. /\ h = [field \in DOMAIN NewHeader |-> h[field]]
      /\ {h.next, h.count, h.owned, h.text} \subseteq Nat
      /\ IsSequence(h.dependencies) /\ IsSequence(h.streaming)
      /\ IsFiniteSet(h.incompatibilities) /\ IsFiniteSet(h.offsets)
      /\ \A o \in h.offsets :
           /\ o = [world |-> o.world, scene |-> o.scene, start |-> o.start, end |-> o.end]
           /\ {o.start, o.end} \subseteq Nat
  BY DEF IsHeader
<1>2. DOMAIN NewHeader = {"class", "next", "count", "owned", "text", "dependencies",
                          "incompatibilities", "streaming", "offsets"}
  BY DEF NewHeader
<1>3. CASE v \in {[h EXCEPT !.class = class, !.owned = owned, !.next = next] :
                    class \in {"Full", "Compact", "Overlay"}, owned \in {h.owned, CompactLimit + 1},
                    next \in {h.next, MaxLocalId + 1}}
  <2>1. PICK class \in {"Full", "Compact", "Overlay"}, owned \in {h.owned, CompactLimit + 1},
             next \in {h.next, MaxLocalId + 1} :
          v = [h EXCEPT !.class = class, !.owned = owned, !.next = next]
    BY <1>3
  <2>2. owned \in Nat /\ next \in Nat
    BY <1>1, LimitsAssumption
  <2>3. /\ v = [field \in DOMAIN NewHeader |-> v[field]]
        /\ v.next = next /\ v.owned = owned /\ v.count = h.count /\ v.text = h.text
        /\ v.dependencies = h.dependencies /\ v.streaming = h.streaming
        /\ v.incompatibilities = h.incompatibilities /\ v.offsets = h.offsets
    BY <1>1, <1>2, <2>1
  <2> QED
    BY <1>1, <2>2, <2>3 DEF IsHeader, Worlds
<1>4. CASE v \in {WithDependency(h, d) : d \in OtherPackages \cup {PackageId}}
  <2>1. PICK d : v = [h EXCEPT !.dependencies = Append(@, d)]
    BY <1>4 DEF WithDependency
  <2>2. /\ v = [field \in DOMAIN NewHeader |-> v[field]]
        /\ v.next = h.next /\ v.owned = h.owned /\ v.count = h.count /\ v.text = h.text
        /\ v.dependencies = Append(h.dependencies, d) /\ v.streaming = h.streaming
        /\ v.incompatibilities = h.incompatibilities /\ v.offsets = h.offsets
    BY <1>1, <1>2, <2>1
  <2>3. IsSequence(Append(h.dependencies, d))
    <3> DEFINE X == ToSet(h.dependencies) \cup {d}
    <3>1. h.dependencies \in Seq(X) /\ d \in X
      BY <1>1 DEF IsSequence
    <3> HIDE DEF X
    <3>2. Append(h.dependencies, d) \in Seq(X)
      BY <3>1
    <3> QED
      BY <3>2, SequenceOf
  <2> QED
    BY <1>1, <2>2, <2>3 DEF IsHeader, Worlds
<1>5. CASE v \in {WithIncompatibility(h, d) : d \in Rivals}
  <2>1. PICK d : v = [h EXCEPT !.incompatibilities = @ \cup {d}]
    BY <1>5 DEF WithIncompatibility
  <2>2. /\ v = [field \in DOMAIN NewHeader |-> v[field]]
        /\ v.next = h.next /\ v.owned = h.owned /\ v.count = h.count /\ v.text = h.text
        /\ v.dependencies = h.dependencies /\ v.streaming = h.streaming
        /\ v.incompatibilities = h.incompatibilities \cup {d} /\ v.offsets = h.offsets
    BY <1>1, <1>2, <2>1
  <2>3. IsFiniteSet(h.incompatibilities \cup {d})
    BY <1>1, FS_AddElement
  <2> QED
    BY <1>1, <2>2, <2>3 DEF IsHeader, Worlds
<1> QED
  BY <1>3, <1>4, <1>5 DEF Variants

LEMMA OpenHeaderReadsBack ==
  ASSUME Opens(package)
  PROVE  HeaderReadsBack
<1>1. SUFFICES ASSUME ZeroId \notin Worlds(package.header), NEW h \in Variants(package.header)
               PROVE  /\ Decodes(h) => Reads(Encode(h), h)
                      /\ ~ Decodes(h) => DecodeError(Encode(h)) # "none"
  BY DEF HeaderReadsBack
<1>2. IsHeader(package.header)
  BY DEF Opens, WellFormed
<1>3. IsHeader(h) /\ ZeroId \notin Worlds(h)
  BY <1>1, <1>2, VariantsAreHeaders
<1>4. Says(Encode(h), h)
  BY <1>3, EncodeSays
<1> QED
  BY <1>3, <1>4, SaysIsRead

LEMMA OpenFieldsCountOnce ==
  ASSUME Opens(package)
  PROVE  FieldsCountOnce
<1>1. PICK h, fields : h = package.header /\ fields = Encode(h)
  OBVIOUS
<1>2. IsHeader(h) /\ Decodes(h)
  BY <1>1 DEF Opens, WellFormed
<1>3. Says(fields, h) /\ IsSequence(fields) /\ AreFields(fields)
  BY <1>1, <1>2, EncodeSays DEF Says, AreFields
<1>4. DOMAIN fields = 1 .. Len(fields)
  BY <1>3 DEF IsSequence
<1>5. ASSUME ZeroId \notin Worlds(h), NEW k \in 1 .. Len(fields)
      PROVE  /\ DecodeError(Append(fields, fields[k])) # "none"
             /\ DecodeError(<<fields[k]>> \o fields) # "none"
             /\ fields[k].signature \in Required => DecodeError(RemoveAt(fields, k)) = "MissingField"
  BY <1>2, <1>3, <1>5, RepeatedIsRefused, RequiredIsMissed
<1>6. ASSUME ZeroId \notin Worlds(h), NEW k \in 1 .. Len(fields), k < Len(fields),
             fields[k].signature # fields[k + 1].signature
      PROVE  Reads([fields EXCEPT ![k] = fields[k + 1], ![k + 1] = fields[k]], h)
  <2>1. PICK g : g = [fields EXCEPT ![k] = fields[k + 1], ![k + 1] = fields[k]]
    OBVIOUS
  <2>2. k + 1 \in 1 .. Len(fields)
    BY <1>3, <1>6 DEF IsSequence
  <2>3. AreFields(g) /\ \A signature : ValuesOf(g, signature) = ValuesOf(fields, signature)
    BY <1>3, <1>6, <2>1, <2>2, Exchanged DEF Exchanges
  <2>4. Says(g, h)
    BY <1>3, <2>3 DEF Says, AreFields
  <2> QED
    BY <1>2, <1>6, <2>1, <2>4, SaysIsRead
<1> QED
  BY <1>1, <1>4, <1>5, <1>6 DEF FieldsCountOnce

\* What encode writes of the header of the handle, and of every header an edit makes of it,
\* decode reads back as that header, or refuses when it breaks a limit: whichever fields are
\* absent, in whatever order the offset tables of its worlds come (write_header and
\* read_header in package_header.rs).
THEOREM HeaderAlwaysReadsBack == Spec => []HeaderReadsBack
BY HandleAlwaysOpens, OpenHeaderReadsBack, PTL

\* A field written twice is refused and a required one left out is missed, wherever it stands;
\* the order of fields of different signatures says nothing.
THEOREM FieldsAlwaysCountOnce == Spec => []FieldsCountOnce
BY HandleAlwaysOpens, OpenFieldsCountOnce, PTL
=============================================================================
