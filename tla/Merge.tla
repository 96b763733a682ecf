------------------------------- MODULE Merge -------------------------------
(***************************************************************************)
(* merge_packages_with_options (merge.rs): the records of a source package *)
(* that depends on the destination are taken over by the destination.  Own *)
(* records of the source get new local ids of the destination (injected),  *)
(* overrides of destination records replace or complete them, deleted      *)
(* overrides remove them, and all of them move to the place in the groups  *)
(* that the source gives them.  References are relative to the             *)
(* dependencies of the package that holds them and are translated on the   *)
(* way.                                                                    *)
(*                                                                         *)
(* The steps are those of the function: the preparation, one step for each *)
(* record of the source, the end.  Packages are those of PackageLayout,    *)
(* whose records have more to them here: a deleted flag, subrecords, the   *)
(* change set that last changed them.  A payload of a subrecord is a       *)
(* sequence of items, which are record ids in the subrecords that the      *)
(* game's ReferenceRewriter rewrites.  An author is always given.          *)
(***************************************************************************)
EXTENDS Validation, Ascending

CONSTANTS
  SourceId,             \* the id of the source; PackageId is the destination's
  Destinations,         \* destinations to start from
  Sources,              \* and sources
  Options,              \* MergeOptions: [selection, includeOverrides, rules]
  ReferenceSignatures,  \* the signatures whose items are record ids
  ReplaceRecord,        \* the rules of an override that replaces the whole record
  MergeId,              \* the id of the change set of the merge
  NoPackage             \* the result before there is one

FromSource == INSTANCE PackageLayout WITH PackageId <- SourceId

LogicalRecord(id, deleted, subrecords, stamp) ==
  [kind |-> "record", id |-> id, payload |-> Len(subrecords),
   deleted |-> deleted, subrecords |-> subrecords, stamp |-> stamp]

\* A record as read_logical takes it apart, with the ids in its references.
IsLogical(r) ==
  /\ r = LogicalRecord(r.id, r.deleted, r.subrecords, r.stamp)
  /\ IsSequence(r.subrecords) /\ r.deleted \in BOOLEAN
  /\ \A s \in ToSet(r.subrecords) :
       /\ DOMAIN s = {"signature", "payload"} /\ IsSequence(s.payload)
       /\ s.signature \in ReferenceSignatures =>
            \A id \in ToSet(s.payload) : {id.index, id.local} \subseteq Nat

\* SubrecordMergeRule and ListMergeMode.
IsRule(rule) ==
  \/ rule.strategy \in {"KeepDestination", "Replace", "AppendOccurrences", "AppendNewOccurrences"}
  \/ /\ rule.strategy = "AppendEncodedList"
     /\ rule.mode \in {"All", "NewIndices", "Unique"} /\ rule.limit \in Nat

ASSUME MergeAssumption ==
  /\ PackageId # SourceId
  /\ \A p \in Destinations : Opens(p)
  /\ \A p \in Sources : FromSource!Opens(p)
  /\ \A p \in Destinations \cup Sources : \A i \in Records(p) : IsLogical(p.chunks[i])
  /\ \A o \in Options : \/ o.rules = ReplaceRecord
                        \/ IsSequence(o.rules) /\ \A rule \in ToSet(o.rules) : IsRule(rule)

VARIABLES
  destination, source, options,  \* the request
  outcome,     \* "Preparing", "Merging", "Merged" or the error
  next,        \* next_local
  selected,    \* the source records selected
  injected,    \* the destination id of each own source record selected
  position,    \* how many records of the source are done
  records,     \* the records of the destination by their id
  tree,        \* destination_tree
  pending,     \* the operations
  actions,     \* the destination id of each source record taken over
  result       \* the merged package

vars == <<destination, source, options, outcome, next, selected, injected, position,
          records, tree, pending, actions, result>>
request == <<destination, source, options>>

---------------------------------------------------------------------------
(* Trees.  The entries in the order of the bytes, each with its depth: what is within a  *)
(* group are the entries behind it that are deeper.                                      *)

RecordEntry(depth, id) == [kind |-> "record", depth |-> depth, id |-> id]
GroupEntry(depth, type, label) ==
  [kind |-> "group", depth |-> depth, type |-> type, label |-> label]

\* group_label_is_record_id of a rewriter that declares no further types.
LabelIsRecordId(type) == type \in RecordLabelled

ReadTree(p) ==
  [i \in DOMAIN p.chunks |->
     LET depth == Cardinality(Ancestors(p, i))
         chunk == p.chunks[i]
     IN IF chunk.kind = "record" THEN RecordEntry(depth, chunk.id)
        ELSE GroupEntry(depth, chunk.type, chunk.label)]

\* The first place behind i that is not within it.
Behind(entries, i) ==
  CHOOSE j \in i + 1 .. Len(entries) + 1 :
    /\ \A k \in i + 1 .. j - 1 : entries[k].depth > entries[i].depth
    /\ j <= Len(entries) => entries[j].depth <= entries[i].depth

\* remove_record, for each of these ids.
RemoveRecords(entries, ids) ==
  Restricted(entries, {i \in DOMAIN entries : entries[i].kind = "record" => entries[i].id \notin ids})

\* One entry of union_tree.  The last one entered and the groups around it are at path, of
\* which the first few, as many as joined says, were in the tree before.  A group joins the
\* first one of its type and label at its level, if that is a level of the tree; a record
\* and any other group go to the end of the level.
Enter(state, e) ==
  LET parents == SubSeq(state.path, 1, e.depth)
      end == IF e.depth = 0 THEN Len(state.tree) + 1 ELSE Behind(state.tree, parents[e.depth])
      twins == {i \in 1 .. end - 1 : /\ \A k \in DOMAIN parents : parents[k] < i
                                     /\ state.tree[i] = e}
  IN IF e.kind = "group" /\ e.depth <= state.joined /\ twins # {}
     THEN [state EXCEPT !.path = Append(parents, Min(twins)), !.joined = e.depth + 1]
     ELSE [tree |-> InsertAt(state.tree, end, e), path |-> Append(parents, end),
           joined |-> Min({e.depth, state.joined})]

UnionTree(entries, added) ==
  LET entered[i \in 0 .. Len(added)] ==
        IF i = 0 THEN [tree |-> entries, path |-> <<>>, joined |-> 0]
        ELSE Enter(entered[i - 1], added[i])
  IN entered[Len(added)].tree

\* The chunks of a tree: GroupWriter counts the bytes in each group.
EncodeTree(entries, byId) ==
  LET own(i) == IF entries[i].kind = "record" THEN RecordSize(byId[entries[i].id])
                ELSE GroupHeaderSize
      start[i \in 1 .. Len(entries) + 1] == IF i = 1 THEN 0 ELSE start[i - 1] + own(i - 1)
  IN [i \in DOMAIN entries |->
        IF entries[i].kind = "record" THEN byId[entries[i].id]
        ELSE Group(entries[i].type, entries[i].label, start[Behind(entries, i)] - start[i])]

---------------------------------------------------------------------------
(* The request: dependencies, selection, injected ids.                     *)

\* The place of a package among the dependencies, from 0.
PlaceOf(package, dependencies) ==
  (CHOOSE i \in DOMAIN dependencies : dependencies[i] = package) - 1

\* Mutant: the dependencies keep their places.
UntranslatedDependencyMap ==
  [i \in DOMAIN source.header.dependencies |->
     IF source.header.dependencies[i] = PackageId THEN OwnedIndex(destination.header) ELSE i - 1]

\* source_dependency_to_destination_index.
DependencyMap ==
  [i \in DOMAIN source.header.dependencies |->
     LET dependency == source.header.dependencies[i]
     IN IF dependency = PackageId THEN OwnedIndex(destination.header)
        ELSE PlaceOf(dependency, destination.header.dependencies)]

Owns(p, id) == id.index = OwnedIndex(p.header)

\* RecordIdMapper::map, and whether it finds the record.
Mappable(id) ==
  IF Owns(source, id) THEN id \in DOMAIN injected
  ELSE id.index < Len(source.header.dependencies)
Mapped(id) ==
  IF Owns(source, id) THEN injected[id] ELSE RecordId(DependencyMap[id.index + 1], id.local)

\* The records that the groups around a source record are labelled with.
Parents(id) ==
  {source.chunks[g].label : g \in {a \in Ancestors(source, IndexOf(source, id)) :
                                     LabelIsRecordId(source.chunks[a].type)}}

\* collect_descendants.
Descendants(id) == {r \in Ids(source) : id \in Parents(r)}

\* Mutant: the parents of the parents are not selected.
WithParents(ids) == ids \cup UNION {Parents(id) : id \in ids \cap Ids(source)}

\* include_serialized_ancestors: what is reached from the ids over their parents.
WithAncestors(ids) ==
  LET parents == [id \in Ids(source) |-> Parents(id)]
      known == ids \cup Ids(source) \cup UNION {parents[id] : id \in Ids(source)}
      closed(S) == \A id \in S \cap Ids(source) : parents[id] \subseteq S
  IN {id \in known : \A S \in SUBSET known : ids \subseteq S /\ closed(S) => id \in S}

Chosen ==
  CASE options.selection.kind = "All" -> Ids(source)
    [] options.selection.kind = "Record" -> {options.selection.id}
    [] OTHER -> {options.selection.id} \cup Descendants(options.selection.id)

SelectedRecords == WithAncestors(Chosen)

\* source_index.records(): in the order of the bytes.
SourceRecords == Restricted(source.chunks, Records(source))

\* The own records among the selected.
ToInject == {id \in SelectedRecords : Owns(source, id)}

\* How many of these are in front of one in the bytes.
InFront(ids, id) ==
  Cardinality({other \in ids : IndexOf(source, other) < IndexOf(source, id)})

\* Mutant: the ids count from the number of records the destination owns.
InjectedFromCount ==
  LET own == ToInject IN
  [id \in own |-> RecordId(OwnedIndex(destination.header),
                           destination.header.owned + 1 + InFront(own, id))]

InjectedIds ==
  LET own == ToInject IN
  [id \in own |-> RecordId(OwnedIndex(destination.header),
                           destination.header.next + InFront(own, id))]

RequestError ==
  LET dependencies == ToSet(source.header.dependencies) IN
  IF PackageId \notin dependencies THEN "SourceDoesNotDependOnDestination"
  ELSE IF ~ dependencies \subseteq {PackageId} \cup ToSet(destination.header.dependencies)
    THEN "DependencyUnavailableInDestination"
  ELSE IF options.selection.kind # "All" /\ options.selection.id \notin Ids(source)
    THEN "SelectedRecordMissing"
  ELSE IF ~ SelectedRecords \subseteq Ids(source) THEN "HierarchyParentRecordMissing"
  ELSE IF ToInject # {} /\ destination.header.next + Cardinality(ToInject) > MaxLocalId
    THEN "RecordIdCapacityExhausted"
  ELSE "None"

---------------------------------------------------------------------------
(* Overrides: which subrecords of a record they change, rule by rule.      *)

\* The payloads under a signature.
Occurrences(subrecords, signature) ==
  LET these == Restricted(subrecords, {i \in DOMAIN subrecords : subrecords[i].signature = signature})
  IN [i \in DOMAIN these |-> these[i].payload]

\* replace_occurrences: at the place of the first one, or at the end.
ReplaceOccurrences(subrecords, signature, payloads) ==
  LET these == {i \in DOMAIN subrecords : subrecords[i].signature = signature}
      front == {i \in DOMAIN subrecords : \A k \in these : i < k}
  IN Restricted(subrecords, front)
     \o [i \in DOMAIN payloads |-> [signature |-> signature, payload |-> payloads[i]]]
     \o Restricted(subrecords, DOMAIN subrecords \ (front \cup these))

\* What is not there yet is appended, repeated items once.
AppendNew(items, added) ==
  items \o Restricted(added, {i \in DOMAIN added :
                               /\ added[i] \notin ToSet(items)
                               /\ \A k \in 1 .. i - 1 : added[k] # added[i]})

\* append_encoded_list.
AppendList(items, added, mode) ==
  CASE mode = "All" -> items \o added
    [] mode = "NewIndices" -> items \o SubSeq(added, Len(items) + 1, Len(added))
    [] mode = "Unique" -> AppendNew(items, added)

\* One rule of compose_logical_override: what becomes of subrecords when the source
\* has those of from.
ApplyRule(subrecords, from, rule) ==
  LET values == Occurrences(from, rule.signature)
      present == Occurrences(subrecords, rule.signature)
      added == [i \in DOMAIN values |-> [signature |-> rule.signature, payload |-> values[i]]]
  IN CASE rule.strategy = "KeepDestination" -> subrecords
       [] rule.strategy = "Replace" -> ReplaceOccurrences(subrecords, rule.signature, values)
       [] rule.strategy = "AppendOccurrences" -> subrecords \o added
       [] rule.strategy = "AppendNewOccurrences" -> AppendNew(subrecords, added)
       [] rule.strategy = "AppendEncodedList" ->
            IF values = <<>> THEN subrecords
            ELSE ReplaceOccurrences(subrecords, rule.signature,
                   <<IF present = <<>> THEN values[1]
                     ELSE AppendList(present[1], values[1], rule.mode)>>)

\* The subrecords that an override of into with those of from gives, after each rule.
Composed(into, from, rules) ==
  LET after[k \in 0 .. Len(rules)] ==
        IF k = 0 THEN into ELSE ApplyRule(after[k - 1], from, rules[k])
  IN after
Compose(into, from, rules) == Composed(into, from, rules)[Len(rules)]

ListLimit(rule, items) == Len(items) > rule.limit

\* The error of the first rule that has one: a list is in one subrecord at most, and
\* neither list nor what they append to is over the limit.
ComposeError(into, from, rules) ==
  LET composed == Composed(into, from, rules)
      error(k) ==
        LET rule == rules[k]
            values == Occurrences(from, rule.signature)
            present == Occurrences(composed[k - 1], rule.signature)
        IN IF rule.strategy # "AppendEncodedList" THEN "None"
           ELSE IF Len(values) > 1 \/ Len(present) > 1 THEN "ListSubrecordMultiplicity"
           ELSE IF /\ values # <<>> /\ present # <<>>
                   /\ \E items \in {present[1], values[1],
                                    AppendList(present[1], values[1], rule.mode)} :
                        ListLimit(rule, items)
             THEN "Collection"
           ELSE "None"
      wrong == {k \in DOMAIN rules : error(k) # "None"}
  IN IF wrong = {} THEN "None" ELSE error(Min(wrong))

---------------------------------------------------------------------------
(* The steps.                                                              *)

Init ==
  /\ destination \in Destinations /\ source \in Sources /\ options \in Options
  /\ outcome = "Preparing" /\ next = destination.header.next
  /\ selected = {} /\ injected = <<>> /\ position = 0 /\ records = <<>> /\ tree = <<>>
  /\ pending = <<>> /\ actions = <<>> /\ result = NoPackage

\* Up to the loop: merge.rs:163-230.
Prepare ==
  /\ outcome = "Preparing" /\ RequestError = "None"
  /\ outcome' = "Merging"
  /\ selected' = SelectedRecords
  /\ injected' = InjectedIds
  /\ next' = next + Cardinality(ToInject)
  /\ records' = [id \in Ids(destination) |-> destination.chunks[IndexOf(destination, id)]]
  /\ tree' = ReadTree(destination)
  /\ UNCHANGED <<request, position, pending, actions, result>>

RefuseRequest ==
  /\ outcome = "Preparing" /\ RequestError # "None"
  /\ outcome' = RequestError
  /\ UNCHANGED <<request, next, selected, injected, position, records, tree, pending, actions,
                 result>>

More == outcome = "Merging" /\ position < Len(SourceRecords)
Current == SourceRecords[position + 1]
IsNew(r) == Owns(source, r.id)
TakesPart(r) == r.id \in selected /\ (IsNew(r) \/ options.includeOverrides)

\* destination_record_id, and whether it is a record of the destination at all.
InDestination(r) == IsNew(r) \/ r.id.index = PlaceOf(PackageId, source.header.dependencies)
Target(r) ==
  IF IsNew(r) THEN Mapped(r.id) ELSE RecordId(OwnedIndex(destination.header), r.id.local)

\* What the rewriter does to the subrecords with references, and whether it can.
Rewritable(r) ==
  \A i \in DOMAIN r.subrecords :
    r.subrecords[i].signature \in ReferenceSignatures
      => \A j \in DOMAIN r.subrecords[i].payload : Mappable(r.subrecords[i].payload[j])
Rewritten(r) ==
  [i \in DOMAIN r.subrecords |->
     LET s == r.subrecords[i] IN
     IF s.signature \notin ReferenceSignatures THEN s
     ELSE [s EXCEPT !.payload = [j \in DOMAIN s.payload |-> Mapped(s.payload[j])]]]

\* The subrecords the record has in the destination.
Content(r) ==
  IF IsNew(r) \/ options.rules = ReplaceRecord THEN Rewritten(r)
  ELSE Compose(records[Target(r)].subrecords, Rewritten(r), options.rules)

RecordError(r) ==
  IF ~ InDestination(r) THEN "OverrideTargetsAnotherDependency"
  ELSE IF r.deleted THEN IF Target(r) \in DOMAIN records THEN "None" ELSE "DeleteTargetMissing"
  ELSE IF ~ Rewritable(r) THEN "SchemaRewrite"
  ELSE IF IsNew(r) THEN "None"
  ELSE IF Target(r) \notin DOMAIN records THEN "OverrideTargetMissing"
  ELSE IF options.rules = ReplaceRecord THEN "None"
  ELSE ComposeError(records[Target(r)].subrecords, Rewritten(r), options.rules)

SkipRecord ==
  /\ More /\ ~ TakesPart(Current)
  /\ position' = position + 1
  /\ UNCHANGED <<request, outcome, next, selected, injected, records, tree, pending, actions,
                 result>>

RefuseRecord ==
  /\ More /\ TakesPart(Current) /\ RecordError(Current) # "None"
  /\ outcome' = RecordError(Current)
  /\ UNCHANGED <<request, next, selected, injected, position, records, tree, pending, actions,
                 result>>

DeleteRecord ==
  /\ More /\ TakesPart(Current) /\ RecordError(Current) = "None" /\ Current.deleted
  /\ LET id == Target(Current) IN
     /\ records' = [i \in DOMAIN records \ {id} |-> records[i]]
     /\ tree' = RemoveRecords(tree, {id})
     /\ pending' = Append(pending, [kind |-> "Delete", id |-> id, previous |-> records[id].stamp])
  /\ position' = position + 1
  /\ UNCHANGED <<request, outcome, next, selected, injected, actions, result>>

\* insert of a map.
Inserted(map, key, value) ==
  [k \in DOMAIN map \cup {key} |-> IF k = key THEN value ELSE map[k]]

\* Add and Override.  The digest of the operation is told by what it is of.
PutRecord ==
  /\ More /\ TakesPart(Current) /\ RecordError(Current) = "None" /\ ~ Current.deleted
  /\ LET id == Target(Current)
         content == Content(Current)
     IN /\ records' = Inserted(records, id, LogicalRecord(id, FALSE, content, Current.stamp))
        /\ actions' = Inserted(actions, Current.id, id)
        /\ pending' = Append(pending,
             IF IsNew(Current) THEN [kind |-> "Add", id |-> id, digest |-> content]
             ELSE [kind |-> "Override", id |-> id, previous |-> records[id].stamp,
                   digest |-> content])
  /\ position' = position + 1
  /\ UNCHANGED <<request, outcome, next, selected, injected, tree, result>>

\* translated_selected_tree: the records taken over, in the groups of the source that
\* have one; the labels name their records in the destination.
TranslatedTree ==
  LET entries == ReadTree(source)
      taken == {i \in DOMAIN entries : entries[i].kind = "record" /\ entries[i].id \in DOMAIN actions}
      filled == {i \in DOMAIN entries : /\ entries[i].kind = "group"
                                        /\ taken \cap i .. Behind(entries, i) - 1 # {}}
      translated(e) ==
        IF e.kind = "record" THEN RecordEntry(e.depth, actions[e.id])
        ELSE GroupEntry(e.depth, e.type, IF LabelIsRecordId(e.type) THEN Mapped(e.label) ELSE e.label)
      kept == Restricted(entries, taken \cup filled)
  IN [i \in DOMAIN kept |-> translated(kept[i])]

\* Mutant: the records taken over stay where they were in the destination as well.
TreeWithoutRemoval == UnionTree(tree, TranslatedTree)

\* The destination with the records taken over moved to their place in the source.
MergedTree ==
  UnionTree(RemoveRecords(tree, {actions[id] : id \in DOMAIN actions}), TranslatedTree)

Operated == {pending[i].id : i \in DOMAIN pending}

\* Mutant: the next identifier stays.
HeaderWithoutNext ==
  [destination.header EXCEPT
     !.count = Cardinality(DOMAIN records),
     !.owned = Cardinality({id \in DOMAIN records : Owns(destination, id)})]

\* The header keeps the scene offsets the destination has.
MergedHeader ==
  [destination.header EXCEPT
     !.next = next, !.count = Cardinality(DOMAIN records),
     !.owned = Cardinality({id \in DOMAIN records : Owns(destination, id)})]

\* Mutant: the records keep the change set they had.
UnstampedPackage == [header |-> MergedHeader, chunks |-> EncodeTree(MergedTree, records)]

MergedPackage ==
  LET stamped == [id \in DOMAIN records |->
                    IF id \in Operated THEN [records[id] EXCEPT !.stamp = MergeId]
                    ELSE records[id]]
  IN [header |-> MergedHeader, chunks |-> EncodeTree(MergedTree, stamped)]

\* From translated_selected_tree on: the labels, ChangeSet::create, encode.
MergeError ==
  IF \E id \in DOMAIN actions : \E label \in Parents(id) : ~ Mappable(label)
    THEN "InvalidSourceReference"
  ELSE IF pending = <<>> THEN "NoOperations"
  ELSE IF Cardinality(Operated) < Len(pending) THEN "DuplicateRecordOperation"
  ELSE IF ~ LoadClassValid(MergedHeader) THEN "InvalidPackageHeader"
  ELSE "None"

Done == outcome = "Merging" /\ position = Len(SourceRecords)

RefuseMerge ==
  /\ Done /\ MergeError # "None"
  /\ outcome' = MergeError
  /\ UNCHANGED <<request, next, selected, injected, position, records, tree, pending, actions,
                 result>>

Finish ==
  /\ Done /\ MergeError = "None"
  /\ outcome' = "Merged"
  /\ result' = MergedPackage
  /\ UNCHANGED <<request, next, selected, injected, position, records, tree, pending, actions>>

Next ==
  \/ Prepare \/ RefuseRequest
  \/ SkipRecord \/ RefuseRecord \/ DeleteRecord \/ PutRecord
  \/ Finish \/ RefuseMerge

Spec == Init /\ [][Next]_vars

---------------------------------------------------------------------------
(* Properties.                                                             *)

Merged == outcome = "Merged"

\* Every own id of p is below its next local identifier, as the editors keep it.  A
\* header that says less opens, but then a merge injects ids that are taken.
FreshNextId(p) == \A id \in Ids(p) : Owns(p, id) => id.local < p.header.next

\* The types and labels of the groups around chunk i of p, from the outside in.
GroupsAround(p, i) ==
  LET around == Ascending(Ancestors(p, i))
  IN [k \in DOMAIN around |-> <<p.chunks[around[k]].type, p.chunks[around[k]].label>>]

PathIn(p, id) == GroupsAround(p, IndexOf(p, id))

\* Where the destination has the groups around a record of the source.
TranslatedPath(id) ==
  LET path == PathIn(source, id)
  IN [k \in DOMAIN path |->
        IF LabelIsRecordId(path[k][1]) THEN <<path[k][1], Mapped(path[k][2])>> ELSE path[k]]

References(r) ==
  UNION {ToSet(s.payload) : s \in {s \in ToSet(r.subrecords) :
                                     s.signature \in ReferenceSignatures}}

\* The package that owns the records of an index in a package with this id.
OwnerOf(p, id, self) ==
  IF id.index < Len(p.header.dependencies) THEN p.header.dependencies[id.index + 1] ELSE self

\* What a merge returns is a package: it opens, its header counts the records it has, in
\* groups of the right sizes, each record once.  Scene offsets are left out: the code
\* keeps those of the destination, which say nothing of the bytes of the result
\* (merge.rs:326-339).
MergedPackageOpens ==
  Merged /\ destination.header.offsets = {} => Opens(result)

\* The records of the destination that the change set overrides or deletes.
Touched == {pending[i].id : i \in {j \in DOMAIN pending : pending[j].kind # "Add"}}

\* What is neither overridden nor deleted stays: every other record of the destination
\* keeps its content, the groups around it and its place among the others, and no group
\* goes.  It takes injected ids that no record has (merge.rs:202-215) and a union that only
\* appends (merge.rs:674-701); the children of a deleted record are among what stays.
RestIsKept ==
  LET kept == Ids(destination) \ Touched
      rest(p) ==
        LET these == Restricted(p.chunks, {i \in Records(p) : p.chunks[i].id \in kept})
        IN [i \in DOMAIN these |-> <<these[i], PathIn(p, these[i].id)>>]
      groups(p) == {Append(GroupsAround(p, g), <<p.chunks[g].type, p.chunks[g].label>>) :
                      g \in Groups(p)}
  IN Merged /\ FreshNextId(destination) =>
       /\ rest(result) = rest(destination)
       /\ groups(destination) \subseteq groups(result)

\* A record taken over is where the source has it, its groups named as the destination
\* names their records, and of the record-labelled groups around it none is left without
\* its record, unless the merge deletes that one: the ancestors are selected with their
\* children, whatever the selection (merge.rs:420-447, 636-672).
TakenOverWithItsPlace ==
  Merged =>
    \A id \in DOMAIN actions :
      /\ PathIn(result, actions[id]) = TranslatedPath(id)
      /\ options.includeOverrides =>
           \A parent \in Parents(id) : Mapped(parent) \in Ids(result) \cup Operated

\* A reference that a merge brings names the same record before and after, read through
\* the dependencies of the package that holds it; one to an own record of the source names
\* the record this one has become, and that record is in the result
\* (RecordIdMapper::map, merge.rs:22-37, 265-269).  If injected ids were taken, a deleted
\* own record of the source would remove the record that has its id.
ReferencesNameTheSameRecord ==
  LET same(from, to) ==
        IF Owns(source, from) THEN to = injected[from] /\ to \in Ids(result)
        ELSE /\ to.local = from.local
             /\ OwnerOf(destination, to, PackageId) = OwnerOf(source, from, SourceId)
  IN Merged /\ FreshNextId(destination) =>
       \A id \in DOMAIN actions :
         LET taken == source.chunks[IndexOf(source, id)]
             now == result.chunks[IndexOf(result, actions[id])]
             before == IF actions[id] \in Ids(destination) /\ options.rules # ReplaceRecord
                         THEN References(destination.chunks[IndexOf(destination, actions[id])])
                       ELSE {}
         IN \A to \in References(now) \ before : \E from \in References(taken) : same(from, to)

\* A merge that takes overrides leaves a valid package valid: the result has no error
\* and no warning that the destination has not, but those a deletion brings, whose
\* record others still name (merge.rs:202-229, 326-339; validation.rs:26-88).
MergeBringsNoIssues ==
  Merged /\ ~ HasErrors(destination) /\ options.includeOverrides =>
    \A issue \in Issues(result) \ Issues(destination) :
      \E i \in DOMAIN pending : pending[i].kind = "Delete" /\ pending[i].id = issue.id

\* The change set is the difference between the destination and the result: its
\* operations name the records that were added, changed or deleted, no other, each with
\* the change set it had before and with the digest of what it is now; the records of the
\* operations, and no others, name the new change set (merge.rs:229-326).
ChangeSetTellsTheDifference ==
  LET of(p, id) == p.chunks[IndexOf(p, id)] IN
  Merged /\ FreshNextId(destination) =>
    /\ \A id \in Ids(destination) \cup Ids(result) :
         id \notin Operated => /\ id \in Ids(destination) \cap Ids(result)
                               /\ of(result, id) = of(destination, id)
    /\ \A i \in DOMAIN pending :
         LET op == pending[i] IN
         /\ (op.kind = "Add") = (op.id \notin Ids(destination))
         /\ (op.kind = "Delete") = (op.id \notin Ids(result))
         /\ op.kind # "Add" => op.previous = of(destination, op.id).stamp
         /\ op.kind # "Delete" => /\ op.digest = of(result, op.id).subrecords
                                  /\ of(result, op.id).stamp = MergeId
=============================================================================
