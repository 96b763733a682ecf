---------------------------- MODULE EditSession ----------------------------
(***************************************************************************)
(* An editor's session on one package through the native interface: a      *)
(* PcpPackageHandle holds the bytes, the package and the index made from   *)
(* them, and whether they were edited since they were opened or saved.     *)
(* Every edit makes new bytes, opens and indexes them (reopen) and         *)
(* replaces the handle's content only when that succeeds.  Saving rebuilds *)
(* the scene offsets first and writes the file with the module             *)
(* AtomicWrite's write_package_atomically, here in one step.               *)
(*                                                                         *)
(* A target group is named by the place of its chunk, as the code names it *)
(* by its offset; Root stands for u64::MAX.                                *)
(***************************************************************************)
EXTENDS PackageLayout, Ascending

CONSTANTS
  InitialPackages,   \* the file at first
  Paths, InitialPath,
  NoFile,
  KnownIds,          \* record ids the calls name
  Payloads,          \* payloads the calls pass
  Classes, Texts,    \* what set_metadata passes
  OtherPackages,     \* dependencies the calls add and remove
  Rivals,            \* incompatibilities the calls add and remove
  StreamingLists,    \* what replace_streaming_overrides passes
  MaxBatch,          \* bound: mutations of one batch
  MaxCalls           \* bound: calls of one session, a batch of n mutations being n

Root == 0

ASSUME SessionAssumption ==
  /\ \A p \in InitialPackages : Opens(p)
  /\ InitialPath \in Paths
  /\ \A id \in KnownIds : id.index \in Nat /\ id.local \in Nat
  /\ Payloads \subseteq Nat
  /\ MaxBatch \in Nat
  /\ MaxCalls \in Nat

VARIABLES
  package,   \* bytes, package and index of the handle
  dirty,
  path,
  disk,      \* the files
  last,      \* the last call and what it returned
  calls,     \* bound
  assigned   \* history: local ids assigned since the package was last empty

vars == <<package, dirty, path, disk, last, calls, assigned>>

Init ==
  /\ package \in InitialPackages
  /\ dirty = FALSE
  /\ path = InitialPath
  /\ disk = [q \in Paths |-> IF q = InitialPath THEN package ELSE NoFile]
  /\ last = [op |-> "open", ok |-> TRUE, mutations |-> <<>>]
  /\ calls = 0
  /\ assigned = {}

---------------------------------------------------------------------------
(* The bytes an edit makes.                                                *)

IsTarget(p, target) == target = Root \/ target \in Groups(p)

InsertionPoint(p, target) == IF target = Root THEN ByteCount(p) ELSE End(p, target)

\* Mutant: a group that ends where the entry does is not resized.
StrictlyContainingGroups(p, from, to) ==
  {g \in Groups(p) : Start(p, g) + GroupHeaderSize <= from /\ End(p, g) > to}

\* update_containing_group_sizes: the groups it resizes.
ContainingGroups(p, from, to) ==
  {g \in Groups(p) : Start(p, g) + GroupHeaderSize <= from /\ End(p, g) >= to}

Resize(p, groups, delta) ==
  [i \in DOMAIN p.chunks |->
     IF i \in groups THEN [p.chunks[i] EXCEPT !.size = @ + delta] ELSE p.chunks[i]]

Replaced(p, id, payload) ==
  LET i == IndexOf(p, id)
      grown == ContainingGroups(p, Start(p, i), End(p, i))
  IN [p EXCEPT !.chunks =
        [Resize(p, grown, payload - p.chunks[i].payload) EXCEPT ![i] = Record(id, payload)]]

\* Mutant: a removed record stays among the owned ones.
UncountedHeader(p, id) == [p.header EXCEPT !.count = @ - 1]

HeaderWithout(p, id) ==
  [p.header EXCEPT !.count = @ - 1,
                   !.owned = @ - (IF id.index = OwnedIndex(p.header) THEN 1 ELSE 0)]

Removed(p, id) ==
  LET i == IndexOf(p, id)
      shrunk == ContainingGroups(p, Start(p, i), End(p, i))
  IN Rewrite(p, RemoveAt(Resize(p, shrunk, - RecordSize(p.chunks[i])), i), HeaderWithout(p, id))

\* The next local id stays ahead of every owned record.
NextAfter(h, id) == IF id.local + 1 > h.next THEN id.local + 1 ELSE h.next

\* Mutant: an id the caller chose does not move the next one.
HeaderWithNextKept(p, id) ==
  IF id.index = OwnedIndex(p.header)
  THEN [p.header EXCEPT !.count = @ + 1, !.owned = @ + 1]
  ELSE [p.header EXCEPT !.count = @ + 1]

HeaderWith(p, id) ==
  IF id.index = OwnedIndex(p.header)
  THEN [p.header EXCEPT !.count = @ + 1, !.owned = @ + 1, !.next = NextAfter(p.header, id)]
  ELSE [p.header EXCEPT !.count = @ + 1]

Inserted(p, target, id, payload) ==
  LET at == InsertionPoint(p, target)
      place == CHOOSE i \in 1 .. Len(p.chunks) + 1 : Start(p, i) = at
      grown == ContainingGroups(p, at, at)
      record == Record(id, payload)
  IN Rewrite(p, InsertAt(Resize(p, grown, RecordSize(record)), place, record), HeaderWith(p, id))

\* What insert_record and a batch ask of an id to insert.
CanInsert(p, id) ==
  /\ id.local <= MaxLocalId
  /\ id.index <= OwnedIndex(p.header)
  /\ id.index = OwnedIndex(p.header) => p.header.class # "Overlay"
  /\ id \notin Ids(p)

---------------------------------------------------------------------------
(* apply_record_batch: every mutation is an edit of the source bytes.      *)

Mutation(kind, id, payload, target) ==
  [kind |-> kind, id |-> id, payload |-> payload, target |-> target]

MutationValid(p, m) ==
  IF m.kind = "insert" THEN CanInsert(p, m.id) /\ IsTarget(p, m.target)
                       ELSE m.id \in Ids(p)

ByteEdit(p, m) ==
  IF m.kind = "insert"
  THEN [start |-> InsertionPoint(p, m.target), end |-> InsertionPoint(p, m.target),
        pieces |-> <<Record(m.id, m.payload)>>, group |-> m.target]
  ELSE [start |-> Start(p, IndexOf(p, m.id)), end |-> End(p, IndexOf(p, m.id)),
        pieces |-> IF m.kind = "replace" THEN <<Record(m.id, m.payload)>> ELSE <<>>,
        group |-> Root]

\* In the order of their starts, and of the batch where they start together, an
\* edit starts before an earlier one ends.
Overlap(edits) ==
  \E j, k \in DOMAIN edits :
    /\ edits[j].start < edits[k].start \/ (edits[j].start = edits[k].start /\ j < k)
    /\ edits[k].start < edits[j].end

\* Mutant: the groups are found by their offsets for every edit.
GrowsByOffset(p, edit) ==
  {g \in Groups(p) : Start(p, g) < edit.start /\ End(p, g) >= edit.end}

\* The groups whose size an edit changes: the target of an insertion and its
\* parents; for any other edit, and for an insertion at the root, the groups that
\* begin before it and end no earlier than it does.
Grows(p, edit) ==
  IF edit.group # Root THEN {edit.group} \cup Ancestors(p, edit.group)
  ELSE {g \in Groups(p) : Start(p, g) < edit.start /\ End(p, g) >= edit.end}

ByteDelta(edit) ==
  (IF edit.pieces = <<>> THEN 0 ELSE RecordSize(edit.pieces[1])) - (edit.end - edit.start)

\* The sum of a list of numbers.
Total(list) ==
  LET sum[k \in 0 .. Len(list)] == IF k = 0 THEN 0 ELSE sum[k - 1] + list[k]
  IN sum[Len(list)]

GroupDelta(p, edits, g) ==
  Total([j \in DOMAIN edits |-> IF g \in Grows(p, edits[j]) THEN ByteDelta(edits[j]) ELSE 0])

Patched(p, edits) ==
  [i \in DOMAIN p.chunks |->
     IF i \in Groups(p) THEN [p.chunks[i] EXCEPT !.size = @ + GroupDelta(p, edits, i)]
                        ELSE p.chunks[i]]

\* The patched bytes with the edits made: in front of every chunk come the edits
\* that start there, in the order of the batch.
Rewritten(p, edits) ==
  LET start == Starts(p)
      patched == Patched(p, edits)
      here(i, j) == edits[j].start = start[i]
      pieces(i) ==
        FlattenSeq([j \in DOMAIN edits |-> IF here(i, j) THEN edits[j].pieces ELSE <<>>])
      gone(i) == \E j \in DOMAIN edits : here(i, j) /\ edits[j].end > edits[j].start
  IN FlattenSeq([i \in 1 .. Len(p.chunks) + 1 |->
       IF i > Len(p.chunks) \/ gone(i) THEN pieces(i) ELSE Append(pieces(i), patched[i])])

\* record_delta, owned_delta and next_local.
BatchHeader(p, mutations) ==
  LET those(kind) == {j \in DOMAIN mutations : mutations[j].kind = kind}
      owned(places) == {j \in places : mutations[j].id.index = OwnedIndex(p.header)}
      delta(inserts, deletes) == Cardinality(inserts) - Cardinality(deletes)
      behind == {mutations[j].id.local + 1 : j \in owned(those("insert"))}
  IN [p.header EXCEPT
        !.count = @ + delta(those("insert"), those("delete")),
        !.owned = @ + delta(owned(those("insert")), owned(those("delete"))),
        !.next = Max({@} \cup behind)]

ByteEdits(p, mutations) == [j \in DOMAIN mutations |-> ByteEdit(p, mutations[j])]

Batched(p, mutations) ==
  Rewrite(p, Rewritten(p, ByteEdits(p, mutations)), BatchHeader(p, mutations))

BatchValid(p, mutations) ==
  /\ \A j, k \in DOMAIN mutations : mutations[j].id = mutations[k].id => j = k
  /\ \A j \in DOMAIN mutations : MutationValid(p, mutations[j])
  /\ ~ Overlap(ByteEdits(p, mutations))

---------------------------------------------------------------------------
(* The calls.                                                              *)

Weight(mutations) == IF mutations = <<>> THEN 1 ELSE Len(mutations)

MayCall(mutations) == calls + Weight(mutations) <= MaxCalls

\* What was called, and whether it returned Ok.
Called(op, mutations, ok) ==
  /\ calls' = calls + Weight(mutations)
  /\ last' = [op |-> op, mutations |-> mutations, ok |-> ok]

\* reopen: the handle takes p when it opens and indexes; otherwise, and when the
\* edit is refused before, it keeps what it has.
Reopen(op, mutations, valid, p) ==
  LET opens == valid /\ Opens(p) IN
  \/ /\ MayCall(mutations)
     /\ opens
     /\ package' = p
     /\ dirty' = TRUE
     /\ assigned' = IF Ids(p) = {} THEN {}
                    ELSE IF op = "assign" THEN assigned \cup {mutations[1].id.local}
                    ELSE assigned
     /\ Called(op, mutations, TRUE)
     /\ UNCHANGED <<path, disk>>
  \/ /\ MayCall(mutations)
     /\ ~ opens
     /\ Called(op, mutations, FALSE)
     /\ UNCHANGED <<package, dirty, path, disk, assigned>>

\* replace_record_payload and replace_subrecord, which makes the payload itself.
ReplaceRecord(id, payload) ==
  Reopen("replace", <<Mutation("replace", id, payload, Root)>>,
         id \in Ids(package), Replaced(package, id, payload))

RemoveRecord(id) ==
  Reopen("remove", <<Mutation("delete", id, 0, Root)>>,
         id \in Ids(package), Removed(package, id))

InsertRecordWithId(target, id, payload) ==
  Reopen("insert", <<Mutation("insert", id, payload, target)>>,
         CanInsert(package, id) /\ IsTarget(package, target),
         Inserted(package, target, id, payload))

\* insert_record: the package assigns the id.
InsertRecord(target, payload) ==
  LET id == RecordId(OwnedIndex(package.header), package.header.next)
  IN Reopen("assign", <<Mutation("insert", id, payload, target)>>,
            CanInsert(package, id) /\ IsTarget(package, target),
            Inserted(package, target, id, payload))

\* A batch of no mutations returns Ok at once.
ApplyBatch(mutations) ==
  \/ /\ MayCall(mutations)
     /\ mutations = <<>>
     /\ Called("batch", <<>>, TRUE)
     /\ UNCHANGED <<package, dirty, path, disk, assigned>>
  \/ /\ MayCall(mutations)
     /\ mutations # <<>>
     /\ Reopen("batch", mutations, BatchValid(package, mutations), Batched(package, mutations))

\* A header call, and the package with the header it makes.
EditHeader(op, valid, h) == Reopen(op, <<>>, valid, Rewrite(package, package.chunks, h))

SetMetadata(class, text) ==
  EditHeader("metadata", TRUE, [SetLoadClass(package.header, class) EXCEPT !.text = text])

AddDependency(d) ==
  EditHeader("addDependency", MayAddDependency(package.header, d),
             WithDependency(package.header, d))

RemoveDependency(d) ==
  EditHeader("removeDependency", d \in ToSet(package.header.dependencies),
             WithoutDependency(package.header, d))

AddIncompatibility(d) ==
  EditHeader("incompatibilities", MayAddIncompatibility(package.header, d),
             WithIncompatibility(package.header, d))

RemoveIncompatibility(d) ==
  EditHeader("incompatibilities", d \in package.header.incompatibilities,
             WithoutIncompatibility(package.header, d))

ReplaceStreamingOverrides(list) ==
  EditHeader("streaming", TRUE, WithStreaming(package.header, list))

Rebuilt(p) == Rewrite(p, p.chunks, [p.header EXCEPT !.offsets = SceneOffsets(p)])

RebuildSceneOffsets ==
  Reopen("rebuild", <<>>, HasSceneOffsets(package), Rebuilt(package))

\* save and save_as.  The scene offsets cannot be built ...
RefuseSave ==
  /\ MayCall(<<>>)
  /\ ~ (HasSceneOffsets(package) /\ Opens(Rebuilt(package)))
  /\ Called("save", <<>>, FALSE)
  /\ UNCHANGED <<package, dirty, path, disk, assigned>>

\* Mutant: the path of save_as is not adopted.
SaveCopy(q) ==
  /\ MayCall(<<>>)
  /\ HasSceneOffsets(package) /\ Opens(Rebuilt(package))
  /\ package' = Rebuilt(package)
  /\ disk' = [disk EXCEPT ![q] = Rebuilt(package)]
  /\ dirty' = FALSE
  /\ Called("save", <<>>, TRUE)
  /\ UNCHANGED <<path, assigned>>

\* ... or the file is written ...
Save(q) ==
  /\ MayCall(<<>>)
  /\ HasSceneOffsets(package) /\ Opens(Rebuilt(package))
  /\ package' = Rebuilt(package)
  /\ disk' = [disk EXCEPT ![q] = Rebuilt(package)]
  /\ path' = q
  /\ dirty' = FALSE
  /\ Called("save", <<>>, TRUE)
  /\ UNCHANGED assigned

\* ... or it cannot be written: the handle keeps the rebuilt offsets.
WriteFails ==
  /\ MayCall(<<>>)
  /\ HasSceneOffsets(package) /\ Opens(Rebuilt(package))
  /\ package' = Rebuilt(package)
  /\ dirty' = TRUE
  /\ Called("save", <<>>, FALSE)
  /\ UNCHANGED <<path, disk, assigned>>

\* The editor drops its handle and opens a file again.
OpenForEditing(q) ==
  /\ MayCall(<<>>)
  /\ disk[q] # NoFile
  /\ package' = disk[q]
  /\ dirty' = FALSE
  /\ path' = q
  /\ assigned' = {}
  /\ Called("open", <<>>, TRUE)
  /\ UNCHANGED disk

\* pcp_package_create: an empty package is written over whatever file there is, and
\* its handle replaces the one before.
CreatePackage(q) ==
  /\ MayCall(<<>>)
  /\ package' = [header |-> NewHeader, chunks |-> <<>>]
  /\ dirty' = FALSE
  /\ path' = q
  /\ disk' = [disk EXCEPT ![q] = package']
  /\ assigned' = {}
  /\ Called("open", <<>>, TRUE)

---------------------------------------------------------------------------
Targets == {Root} \cup DOMAIN package.chunks

Mutations ==
  {Mutation("replace", id, payload, Root) : id \in KnownIds, payload \in Payloads}
  \cup {Mutation("delete", id, 0, Root) : id \in KnownIds}
  \cup {Mutation("insert", id, payload, target) :
          id \in KnownIds, payload \in Payloads, target \in Targets}

Batches == UNION {[1 .. n -> Mutations] : n \in {k \in 0 .. MaxBatch : calls + k <= MaxCalls}}

Next ==
  \/ \E id \in KnownIds, payload \in Payloads : ReplaceRecord(id, payload)
  \/ \E id \in KnownIds : RemoveRecord(id)
  \/ \E target \in Targets, payload \in Payloads : InsertRecord(target, payload)
  \/ \E target \in Targets, id \in KnownIds, payload \in Payloads :
       InsertRecordWithId(target, id, payload)
  \/ \E mutations \in Batches : ApplyBatch(mutations)
  \/ \E class \in Classes, text \in Texts : SetMetadata(class, text)
  \/ \E d \in OtherPackages : AddDependency(d)
  \/ \E d \in OtherPackages : RemoveDependency(d)
  \/ \E d \in Rivals : AddIncompatibility(d) \/ RemoveIncompatibility(d)
  \/ \E list \in StreamingLists : ReplaceStreamingOverrides(list)
  \/ RebuildSceneOffsets
  \/ RefuseSave
  \/ WriteFails
  \/ \E q \in Paths : Save(q)
  \/ \E q \in Paths : OpenForEditing(q) \/ CreatePackage(q)

Spec == Init /\ [][Next]_vars

---------------------------------------------------------------------------
(* Properties.                                                             *)

\* Groups are told by their type and label, records by their id.
Key(p, i) ==
  IF p.chunks[i].kind = "record" THEN p.chunks[i].id
                                 ELSE <<p.chunks[i].type, p.chunks[i].label>>

Place(p, i) == {Key(p, g) : g \in Ancestors(p, i)}

Payload(p, id) == p.chunks[IndexOf(p, id)].payload
PlaceOf(p, id) == Place(p, IndexOf(p, id))

TargetPlace(p, target) == IF target = Root THEN {} ELSE Place(p, target) \cup {Key(p, target)}

Named(mutations) == {mutations[j].id : j \in DOMAIN mutations}

\* Everything but the records with these ids: what there is, in its order, and the
\* place of each.
Rest(p, ids) ==
  LET others == Ascending({i \in DOMAIN p.chunks :
                             i \in Records(p) => p.chunks[i].id \notin ids})
  IN [k \in DOMAIN others |->
        [key |-> Key(p, others[k]), place |-> Place(p, others[k]),
         payload |-> IF others[k] \in Records(p) THEN p.chunks[others[k]].payload ELSE 0]]

\* A call changes the records it names and nothing else: every other record keeps
\* its payload, the groups it is in and its place in the order, and every group the
\* groups around it, though sizes and offsets move all over the bytes.
CallsKeepTheRest ==
  [][last'.op # "open" =>
       Rest(package, Named(last'.mutations)) = Rest(package', Named(last'.mutations))]_vars

\* Another group ends where the target does: the record inserted there is taken for
\* a part of it.
SharesEnd(p, target) ==
  \E g \in Groups(p) \ {target} :
    /\ target = Root \/ g \notin Ancestors(p, target)
    /\ End(p, g) = InsertionPoint(p, target)

\* The groups an insertion makes larger: at the root, those that reach the end of
\* the file.
Around(p, target) ==
  IF target = Root THEN {g \in Groups(p) : End(p, g) = InsertionPoint(p, Root)}
                   ELSE {target} \cup Ancestors(p, target)

\* The order that a batch needs: insertions first, and those at one place from the
\* inside out, so that no group is to hold a record behind one that it is not to hold.
Ordered(p, mutations) ==
  \A j, k \in DOMAIN mutations :
    j < k /\ mutations[k].kind = "insert" =>
      /\ mutations[j].kind = "insert"
      /\ \/ InsertionPoint(p, mutations[k].target) # InsertionPoint(p, mutations[j].target)
         \/ Around(p, mutations[k].target) \subseteq Around(p, mutations[j].target)

LandsInTarget(m) == PlaceOf(package', m.id) = TargetPlace(package, m.target)

\* A call that returns Ok did what its mutations say: a replaced record has the new
\* payload at its old place, a removed one is gone, an inserted one is in its
\* target, at the exact depth, when a batch in order puts it into a group or no other
\* group ends at the same place.
CallsTakeEffect ==
  [][last'.ok => \A j \in DOMAIN last'.mutations :
       LET m == last'.mutations[j] IN
       /\ m.kind = "delete" => m.id \notin Ids(package')
       /\ m.kind # "delete" => m.id \in Ids(package') /\ Payload(package', m.id) = m.payload
       /\ m.kind = "replace" => PlaceOf(package', m.id) = PlaceOf(package, m.id)
       /\ /\ m.kind = "insert"
          /\ Ordered(package, last'.mutations)
          /\ (last'.op = "batch" /\ m.target # Root) \/ ~ SharesEnd(package, m.target)
          => LandsInTarget(m)]_vars

\* "Inserts a record at the end of a group, or at package root".
InsertionLandsInTarget ==
  [][last'.ok /\ last'.op \in {"insert", "assign"} => LandsInTarget(last'.mutations[1])]_vars

\* What a caller knows to be allowed: records that exist or may be inserted, each
\* once, and a header within the limits.
Allowed(p, mutations) ==
  /\ \A j, k \in DOMAIN mutations : mutations[j].id = mutations[k].id => j = k
  /\ \A j \in DOMAIN mutations : MutationValid(p, mutations[j])
  /\ Decodes(BatchHeader(p, mutations))

\* No allowed edit is refused: the counts, sizes and offsets the edit wrote pass the
\* checks of reopening.  A header with scene offsets is another matter.
AllowedEditsAreAccepted ==
  [][/\ last'.mutations # <<>>
     /\ package.header.offsets = {}
     /\ Allowed(package, last'.mutations)
     /\ Ordered(package, last'.mutations)
     => last'.ok]_vars

\* "Removes a record from an editable package handle": a record that is there can
\* be removed.
RemovalIsAccepted ==
  [][last'.op = "remove" /\ last'.mutations[1].id \in Ids(package) => last'.ok]_vars

\* "Adds one dependency to the end of the package header": a package that is not one
\* yet can be added, the records are remapped by the caller afterwards.
DependencyIsAdded ==
  [][/\ last'.op = "addDependency"
     /\ ToSet(package.header.dependencies) \cap OtherPackages = {}
     /\ Len(package.header.dependencies) < MaxDependencies
     => last'.ok]_vars

\* Every owned record has a local id below the next one, which a compact package
\* keeps within its slot.
OwnedIdsInRange(p) ==
  \A id \in Ids(p) : id.index = OwnedIndex(p.header) =>
    /\ id.local < p.header.next
    /\ p.header.class = "Compact" => id.local < CompactLimit

\* No record counts on a dependency that was removed.
OwnersKnown(p) == \A id \in Ids(p) : id.index <= OwnedIndex(p.header)

\* The id the package would assign next is free, and owned records keep ids that
\* load orders can translate, whatever ids callers choose and whichever class the
\* package changes to.  Removing a dependency may make records of its own out of
\* overrides, and adding one out of records of nobody; no other call breaks the range.
OwnedIdsStayInRange ==
  [][/\ last'.op \notin {"removeDependency", "open"}
     /\ last'.op = "addDependency" => OwnersKnown(package)
     /\ OwnedIdsInRange(package)
     => OwnedIdsInRange(package')]_vars

\* An id that was assigned is not assigned to another record while the package has
\* records.
AssignedIdsAreFresh ==
  [][last'.op = "assign" /\ last'.ok => last'.mutations[1].id.local \notin assigned]_vars

\* The package a stored id names.
OwnerOf(h, id) == IF id.index < Len(h.dependencies) THEN h.dependencies[id.index + 1] ELSE PackageId

\* Adding a dependency moves no record to another owner, unless a dependency was
\* removed under records that still count on it.
OwnersAreKept ==
  [][/\ last'.op = "addDependency"
     /\ OwnersKnown(package)
     => \A id \in Ids(package) :
          OwnerOf(package'.header, id) = OwnerOf(package.header, id)]_vars

\* The scene offsets of a saved file are those of its content, however the edits
\* and the length of the header moved it.
SavedSceneOffsetsAreExact ==
  [][last'.op = "save" /\ last'.ok =>
       disk'[path'].header.offsets = SceneOffsets(disk'[path'])]_vars

\* The header of the handle and those one call, or a damaged count, away from it.
Variants(h) ==
  {[h EXCEPT !.class = class, !.owned = owned, !.next = next] :
     class \in {"Full", "Compact", "Overlay"}, owned \in {h.owned, CompactLimit + 1},
     next \in {h.next, MaxLocalId + 1}}
  \cup {WithDependency(h, d) : d \in OtherPackages \cup {PackageId}}
  \cup {WithIncompatibility(h, d) : d \in Rivals}

Reads(fields, h) == DecodeError(fields) = "none" /\ Decoded(fields) = h

\* A header is read back as it was written, whatever is in it, exactly when it is within
\* the limits that the edits count on (Decodes); encode itself refuses no more than the
\* load class.  Unless it has scenes of a world with the null id: their table is written
\* like the one of the scenes that are in no world.
HeaderReadsBack ==
  ZeroId \notin Worlds(package.header) =>
    \A h \in Variants(package.header) :
      /\ Decodes(h) => Reads(Encode(h), h)
      /\ ~ Decodes(h) => DecodeError(Encode(h)) # "none"

\* The order of the fields says nothing, and each counts once: a header with any two
\* neighbours exchanged reads the same, one with any field written twice, wherever, is
\* refused, and so is one without a field that is required.
FieldsCountOnce ==
  LET fields == Encode(package.header)
      exchanged(k) == [fields EXCEPT ![k] = fields[k + 1], ![k + 1] = fields[k]]
  IN ZeroId \notin Worlds(package.header) => \A k \in DOMAIN fields :
       /\ DecodeError(Append(fields, fields[k])) # "none"
       /\ DecodeError(<<fields[k]>> \o fields) # "none"
       /\ fields[k].signature \in Required => DecodeError(RemoveAt(fields, k)) = "MissingField"
       /\ k < Len(fields) /\ fields[k].signature # fields[k + 1].signature =>
            Reads(exchanged(k), package.header)

\* A handle that is not dirty holds what its file holds.
CleanHandleMatchesFile == ~ dirty => disk[path] = package
=============================================================================
