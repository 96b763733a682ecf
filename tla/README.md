# Pluginable content packages: TLA+ models and proofs

Models of the Rust workspace `pluginable-content-package`: a file format for
moddable content, the library that reads, orders, edits and saves it
(`pluginable-content-package-core`, below CORE) and the C interface over it
(`pluginable-content-package-ffi`, below FFI). The modules are checked with TLC
on small instances and, where the table below says so, proved with TLAPS for
all instances.

## The system

A *package* is one file: a header record, then records and groups. Groups nest
by the byte count they declare. A record's id is the place of its owner among
the package's dependencies (the number of dependencies for the package itself)
and a local id. A *load order* is a sequence of packages, each behind its
dependencies; a package may override records of its dependencies.

| component | source | state | operations | interacts with |
|---|---|---|---|---|
| atomic replacement | CORE `atomic_write.rs`, `package_source.rs` | the files of a directory, a counter per process | `write_package_atomically`, opening a package | every save; readers keep open files |
| load order | CORE `load_order.rs` | packages, slots, streaming winners, override chains | `build_with_policy`, `resolve_record_id`, `serialize_record_id`, `build_record_index(_from)` | headers and indexes of packages |
| repair | CORE `load_order.rs` | the caller's vector, earlier orders, the report | `repair_load_order` | comes before `build` in an editor |
| availability | CORE `load_order.rs` | the issues of each package | `inspect_package_availability` | the same headers |
| layout, index | CORE `package_reader.rs`, `package_index.rs`, `package.rs`, `group_header.rs`, `record_header.rs` | immutable bytes, the index made from them | opening, indexing, scene offset tables, rewriting of the header | everything that reads packages |
| header | CORE `package_header.rs` | load class, counts, next local id, relationships, overrides, scene offsets | decode, encode, setters | every edit, every opening |
| editing session | FFI `editing.rs`, `editing_engine.rs`, `metadata.rs`, `streaming.rs`, `package.rs`, `lib.rs` | a handle: bytes, package, index, path, dirty | record edits, batches, metadata, relationships, save | layout, header, atomic replacement |
| merge | CORE `merge.rs` | maps and trees of one call: selection, injected ids, records, operations | `merge_packages_with_options`, runtime composition | layout, header, change sets |
| change sets | CORE `change_set.rs`, `collection_codec.rs` | a store of change sets with parents | create, insert, `is_ancestor`, write, read | a merge makes one |
| cursor | FFI `cursor.rs`, CORE `group_view.rs` | a stack of readers, the group given last | next entry, enter group | layout, the packages of sessions |
| load order handle | FFI `load_order.rs` | a load order, its index once built, the sorted runtime ids | open, build index, walk, resolve, chains | load order |
| validation report | CORE `validation.rs` | none | the issues of a package | what edits and merges leave |
| record readers, writer, encodings, error interface | CORE `record_reader.rs`, `writer.rs`, `signature.rs`, ...; FFI `record_reader.rs`, `error_api.rs` | none that survives a call | pure functions and wrappers | |

What is hard in it:

* **Concurrency and crashes.** Only `write_package_atomically` shares state
  between threads and processes (a directory), and only it leaves state behind
  when it is interrupted.
* **Offsets.** Group sizes, the count fields, the scene offset tables and the
  length of the header describe each other; each edit changes several.
* **Relative names.** A stored record id means something only together with the
  list of dependencies of the package that stores it, which edits change.
* **Order.** Load order decides winners; incompatibilities and missing
  dependencies must be found from both sides; the repair moves packages until
  nothing moves.
* **Limits.** 254 full and 4096 compact slots, 2^24 and 2^12 local ids, packed
  into 32 bits.

What makes each component correct: the destination of a save is always a whole
package; a load order is in dependency order and its runtime ids name records
uniquely; a repair ends with an order that can be built or with a reason; an
edit changes what it names and nothing else, is accepted when it is allowed, and
leaves a handle that opens; owned ids stay unique and in range; a saved file's
scene offsets are those of its content; a header is read back as it was written and
refused when a field is doubled; a cursor sees what the index says; a merge loses
nothing of the destination, brings no validation issue, keeps what references mean, and
is described by its change set; a history is closed under parents, is read back as it
was written, and knows its ancestors; inspection calls available exactly what could be
loaded; a client that walks over a load order meets every winning record once.

`PROJECT.json` lists the components, the hazards with the lines at which they
bite, and the lines each definition models.

## The modules

| module | models | checked by |
|---|---|---|
| `AtomicFile` | the promise of an atomic replacement: the file goes from one whole package to another, a power failure brings back one installed since the last flush | as a property of `AtomicWrite` |
| `AtomicWrite` | `write_package_atomically` step by step, its failures, threads, processes, readers, kills, power failures | `AtomicWriteSafety`, `AtomicWriteLiveness` |
| `AtomicWriteProofs` | proofs about it, the refinement included | TLAPS |
| `LoadOrder` | building a load order, runtime ids, override chains | `LoadOrders` |
| `Availability` | `inspect_package_availability`, on the packages of `LoadOrder` | `LoadOrders` |
| `LoadOrderHandle` | `PcpLoadOrderHandle` and a client that walks over it, on `LoadOrder` and `Availability` | `LoadOrders` |
| `LoadOrderProofs` | proofs about the three: ids, slots, order, streaming winners, override chains; what inspection finds and foretells, the walk over a handle | TLAPS |
| `LoadOrderRepair` | the loop of `repair_load_order` | `Repairs` |
| `LoadOrderRepairProofs` | proofs about it | TLAPS |
| `PackageHeader` | the header: the calls that change it, encoding and decoding | through `EditSession` and `Merge` |
| `PackageLayout` | the bytes of a package as readers see them: offsets, nesting, opening, indexing, scene offsets | through `EditSession` and `Merge` |
| `EditSession` | the calls of an editor on one handle | `Edits`, `EditScenes`, `EditIdentifiers` and three runs that show a divergence |
| `EditSessionProofs` | proofs about it: what packages, files, headers and edits keep to | TLAPS |
| `Cursor` | a package cursor, on what a session left or on a package opened for reading | `EditScenes` |
| `PackageHandleProofs` | proofs about both: which edits a handle accepts, what a cursor over its package gives | TLAPS |
| `Validation` | `ValidationReport::for_indexed_package` | `Merges` |
| `Merge` | `merge_packages_with_options`, on packages of `PackageLayout` | `Merges` |
| `MergeProofs` | proofs about it: all six properties | TLAPS |
| `ChangeSets` | change sets, their store, the search for ancestors, the history stream | `Histories` |
| `ChangeSetsProofs` | proofs about it | TLAPS |
| `Ascending` | the elements of a finite set of numbers in ascending order, as `sort_unstable` and a scan give them; the elements of a sequence at some places, as a filter keeps them | by the runs of the modules that extend it |
| `Places` | lemmas: first and last places, induction along the places of a sequence; ascending lists; where the elements are when one is removed or inserted and when sequences are joined | TLAPS |
| `MC...` | instances: inputs and initial states | |

### AtomicWrite

A call has a program counter; each step is one call to the operating system.
`ClaimName` is the `fetch_add` on `TEMPORARY_FILE_SEQUENCE`, `CreatePending`,
`SkipTakenName` and `CreateFails` the three outcomes of `create_new`, then come
`WriteAll`, `SyncFile`, `Validate` (by name, as in the code), `Rename` and the
best-effort synchronisation of the directory. `Fail` may replace any of the four
fallible steps and leads to the best-effort removal. The file system is inodes
and names. The write makes the file's content unsynchronised; a power failure
may tear what is not synchronised. Every name of the directory, the destination and the
pending names each by itself, comes back as what it was at some time since the directory
was last synchronised (`recoverable`, `returnable`): a rename may be undone, also for
one of its two names only, and so may a removal, which the code follows by no
synchronisation. Process ids may repeat: containers, and a process that starts
again with the id it had. Content is told apart by whether it opens as a
package; `Validate` refuses the rest. `abandoned` and `unsettled` are history: names
of calls that were killed, could not remove their file or had that undone by a power
failure, and names renamed or removed since the directory was last synchronised.
`NoPendingFileLeft` relates them to what the directory holds and may bring back.

### LoadOrder

One action per iteration of each loop of `build_with_policy` and
`build_record_index_from`, and one per error. Every error ends the call, and the
kind of the error is kept. Slots are a class and a number; `RuntimeId` packs them
like `translate`, with the widths as constants, and `SlotOf` and `LocalOf` take
them apart like `serialize_record_id`. A version requirement is the set of
versions it matches. `serialize_record_id` finds the owner by searching a hash
map for the slot; `Serializations` is the set of the ids it may return, and
`SerializingInvertsResolving` says that there is exactly one.
`build_record_index` indexes all packages before it starts (`RefuseIndex`).

### LoadOrderHandle

The handle follows the steps of `LoadOrder`: a runtime handle exists from the moment
the order is built and stays when building the index fails, an editor's handle comes
with its index or not at all. `runtimeIds` is the sorted list the handle collects from
the index; `Enumerate` is a client that calls `pcp_load_order_winning_record_at` with one
index after the other until `EndOfRecords`. The other queries are operators named for
the calls, with the error codes they return.

### LoadOrderRepair

One action per iteration: `FindCycle`, `FindMissing`, `MovePackage` or `Finish`.
Places count from 1, in the code from 0. The code looks for the first package
that misses a dependency or loads too early; `ScanStopsAt` says that none before
it does.

### PackageHeader

The setters are operators from header to header. `Encode` gives the fields with their
signatures in the order the code writes them; `DecodeError` reads any sequence of fields,
with the refusals in the order of the code: while fields are read (`set_once`, repeated
overrides, scene offset tables), and when all are read (required fields, version,
relationships, load class). `Decodes` is what the rest of the models need of this: the
headers that are read back as they were. `HeaderReadsBack` shows that the two agree, on
every header a session makes and on those one call or one damaged count away. Both
properties about encoding leave out headers with scenes of a world with the null id: the
code writes `None` as 0 and reads 0 as `None` (`SceneOffsetTable::encode`, `decode`), so their
table would come back as the one of the scenes in no world. `text`
stands for author, description and schema namespace, a relationship for the package it
names.

### PackageLayout and EditSession

`chunks` is the sequence of records and group headers in the order of their
bytes. Groups are not a tree here because they are none in the file: a group
declares a size, and its members are the entries that begin before its end.
That is what the interesting bugs are about, so offsets are computed and
compared as in the code. Sizes are in units (a header is 1, a payload its
length), and the header's length depends on its lists, so that edits of the
header move all content. The places of scenes are one set of world, scene, start and
end; a table of the file is the scenes of one world.

Each call of the interface makes new bytes and calls `Reopen`, which checks them
like `Package::from_source` and `PackageIndex::build` do and replaces the
content of the handle, or keeps it and returns an error. `ApplyBatch` follows
`apply_record_batch`: byte edits on the source, sorted, checked for overlap; size
changes collected per group; the header rewritten with the summed counts.
`Save` rebuilds the scene offsets first. `last` is the call and its result, which
the properties read; `assigned` is history.

### Cursor

A cursor begins on the package of a session (or on one opened for reading, in which
nothing has looked at the groups), and the session then rests: the cursor holds the source
it was created from, which edits replace and never change. `NextEntry` pops the finished
readers and gives the next entry or an error, `EnterGroup` pushes the children of the
group that was given last. `Aligned` restricts packages opened for reading: the ends of
their groups are starts of entries or behind the content, because a reader that starts
in the middle of a payload takes bytes for a header, which the model has not.

### Merge

The actions are the steps of `merge_packages_with_options`: `Prepare` is what
comes before the loop, `SkipRecord`, `DeleteRecord` and `PutRecord` one iteration
of it, `Finish` the rest; `RefuseRequest`, `RefuseRecord` and `RefuseMerge` are
the errors of each part, `RequestError`, `RecordError` and `MergeError` their
order. `outcome` is the error that was returned. `tree`, `records`, `pending`,
`actions` and `injected` are the local variables of those names. The trees of the code
are nested vectors; here a tree is the sequence of its entries in the order of the bytes,
each with its depth, and what is within a group are the deeper entries behind it.
`remove_record` is then a filter, and `union_tree` enters the entries of the source one by
one: `Enter` keeps the path to the last one entered and how many of its groups were
joined with groups of the destination. The destination and the source are packages of `PackageLayout` whose records have a
deleted flag, subrecords and a change set on top; the source has its own id, and
`FromSource` is the layout from its side. A merge starts from packages that open
and can be indexed.

The game's `ReferenceRewriter` is external: it maps every item of the subrecords
with a signature in `ReferenceSignatures` and fails when the mapper does. A
digest is the content it is the digest of, the id of a change set is `MergeId`.

### Validation

The issues are a set of severity, code and the record that is concerned, one operator
per loop of `for_indexed_package`. The messages are left out.

### ChangeSets

The identifier of a change set is what it says (digests do not collide). `Insert` is
`create` and `insert`, `Read` replaces the store by a stream's, `Ask`, `LookUp` and
`Answer` are the call of `is_ancestor` and the turns of its loop, with the stack and the
visited set as variables. A stream is its beginning, the entries that can be decoded, and
what follows them; `FirstFault` and `DecodeError` are the refusals in the order of the
code. The order in which a store is written is the order of the digests, hence any order.
`turns` is history. A collection of a stream counts in 32 bits; `MaxCount` stands for
the largest count, and `Encodes` says when `to_bytes` does not answer
`HistoryTooLarge`.

### Availability

The issues of a package are a set of code, package and related package. Each pass
of the loop is `Pass`; `IssuesAfter[n]` are the issues after `n` of them. The
module has no state of its own: it reads the packages of `LoadOrder`, so that
what inspection says can be compared with what `build` does to the same packages.

## What the runs check

Runs and bounds; each takes less than three minutes with two workers.

* **AtomicWriteSafety**: two threads in two processes that share one process id,
  two calls, two kills or power failures in any place, three files, one reader,
  contents that are two packages, torn or invalid. Two calls are enough for one
  to meet the pending file of the other, live or abandoned; the second failure
  hits a directory an earlier one left. Inodes but the first are symmetric.
* **AtomicWriteLiveness**: the same without the reader, one failure, and enough
  sequence numbers for every retry. Fairness: weak fairness of each thread's
  steps, because a call is ordinary code of a running thread. It says nothing
  about making calls, and each outcome of a step may fail for ever.
* **LoadOrders**: every order of up to three packages over all load classes and
  all lists of up to two dependencies (repeated and missing packages included,
  cycles too);
  all version matches and incompatibilities in both policies; records of every
  owner, ids outside the owners and outside the compact range; streaming
  overrides of the same and of different records. Each of these inputs is inspected
  as well: the available packages are compared with the largest set of packages that
  has all it needs, over all subsets, and with the outcome of the build. Widths: two full slots of four
  ids, two compact ones of two ids, so that both slot limits and both widths are
  exceeded with three packages. Each order is opened as a native handle, and a client
  walks over it to the end, before and after the index is built. The search stops when
  the client has seen the end, so deadlock is not checked.
* **Repairs**: all dependency graphs without self-dependencies over four
  packages, orders of two to four packages (missing dependencies) and with
  packages listed twice. `MaxMoves` (24) is above the longest repair, which
  `RepairEnds` confirms. Fairness: weak fairness of the loop in its one thread.
* **Edits**: two groups of every size and nesting, an override and an owned
  record in every place; calls and batches of two mutations in every order with
  every target. Two ids may be inserted, so that a batch puts two records at one place: what
  is to be said of the order of insertions (`Ordered`: from the inside out, an insertion at
  the root being one around all groups that end with the file) shows only there.
* **EditScenes**: a scene in a world and one outside, with and without built
  offsets; three calls over two files, failed writes included. Every header on the way
  is encoded, damaged and decoded. A cursor is created on the packages a session has
  after at most one call (`MaxCallsBefore`), or on one of the packages opened for reading:
  three groups, one nested in another, next to each other, empty, ending together, ending
  with the file, or running over the end of another or of the file. It enters or skips
  every group in all ways. More calls give no other shapes of groups.
* **EditIdentifiers**: flat packages of every class and a scene with an empty
  temporary group, five calls. Limits: first user id 3, compact limit 4, largest local id 6, so that ids pass both limits
  within five insertions.

* **Merges**: five destinations with a world, a record in it and one beside it: the
  world record missing, a second group of the same world, another place of the
  dependency, a compact class at its limit, a next id that is taken, ids that run
  out. 218 sources: three lists of dependencies, the world overridden, deleted or
  left out, overrides, new and deleted records in and beside the world in every
  order that matters, records the destination does not have, a scene whose children
  are in another place of the source; and sources that do not depend on the
  destination or on something unknown. Selections: everything, each of three ids
  alone and with descendants; overrides in and out; whole records and two lists of
  rules that use every strategy and mode; the first destination names a streaming
  override that a source may delete. Every error is reached but
  `InvalidSourceReference`, which takes a group labelled with a record of no
  dependency. `RestIsKept`, `ReferencesNameTheSameRecord` and
  `ChangeSetTellsTheDifference` are about destinations whose next id is fresh, which the
  editors keep and opening does not check. That `ReferencesNameTheSameRecord` needs this
  was found by its proof: else a source that deletes an own record whose injected id is
  taken removes the record that has the id, though a reference may name it.

* **Histories**: seven change sets and one that is never created: two roots, a line, a
  merge of two lines, one that names a parent twice, a merge that shares ancestors
  twice, and a root of seven operations; drafts with every refusal of `create`. Streams of up to four entries in every
  order and repetition, whole, cut off or followed by bytes; altered entries, whose
  identifier is that of another text or whose text `create` refuses, at both ends.
  `MaxCount` is 5, so that a store of six, or one that holds the change set of seven operations, is
  too large for a stream. Every pair of identifiers is asked about in every store.

A session is bounded by `MaxCalls` and a load order by its inputs; the next
state after the last call does not exist, hence `CHECK_DEADLOCK FALSE`.

Every property has a mutant in `PROJECT.json`: the code with a plausible bug, for
which the same run finds the property violated. The mutants stand before the
definitions they change and are used nowhere else. Type correctness and the invariants
that only support others (`FilesAccounted`, `PendingFileIsPrivate`,
`DestinationIsPackage`, `BuildConsistent`, `StrictOrderIsCompatible`) are proved and
listed by no run.

### Where the code and its documentation differ

* **InsertionTarget.** "Inserts a record at the end of a group, or at package
  root for `u64::MAX`" (FFI `editing.rs:130`; the header says "UINT64_MAX insets
  at package root"). A record inserted where another group ends becomes a member
  of that group: at the root behind a trailing group, or in a group whose sibling
  is empty. Batches use the target's own parents and land inside a target group
  as asked; at the root they share the behaviour.
* **RemovalRefused.** With scene offset tables that reach the end of the file,
  removing a record is refused, because reopening finds the old tables out of
  bounds. Clearing or rebuilding the tables is not part of the edit.
* **DependencyRefused.** A dependency cannot be added to a package with owned
  records: reopening counts the owned records with the new place. The interface
  describes remapping after the addition.

Other things the models made visible, which no document contradicts: removing a
dependency may silently turn overrides into records of another owner; a package
that is emptied and changes its class may assign an id again that it assigned
before (`AssignedIdsAreFresh` is about packages with records); a batch that
deletes a record and lists an insertion at its start behind the deletion is
refused as overlapping, in the other order it is accepted; `add_dependency` lets
a 255th dependency in, which decoding then refuses; saving a handle that is not
editable answers `InvalidPackage`; a failed write leaves the handle with rebuilt
offsets and dirty; a repair that ends in an error leaves the caller's vector
rearranged; a repair may take exponentially many moves before it ends. A merge
into a destination whose next id is taken overwrites the record that has it; it
keeps the destination's scene offset tables, so that the result of a merge with
deletions may refuse to open; an override of a scene record moves it behind its
children, where scene offsets cannot be built; composition at run time
(`compose_record_override`) translates no references. The change set a delete or an
override says the record had before (`previous_change_set`) is compared with no store.
`pcp_load_order_winning_record_at` answers `EndOfRecords` for a handle without an index,
as for an empty order, where `pcp_load_order_record_count` answers `IndexUnavailable`. A
scene offset table of the world with the raw id 0 would be read back as the table of no
world; sessions have no such world. Packages that depend on each
other in a cycle are reported available, and no order of them can be built.

## What is proved

TLAPS proves, for every value of the constants that satisfies the modules'
assumptions:

* **AtomicWrite** (`AtomicWriteProofs`): all of its safety properties and the
  refinement of `AtomicFile`. The invariant is `TypeOK /\ FilesAccounted`.
  `DestinationIsPackage` is not inductive: why a rename installs a whole package
  depends on the content of the pending file since validation, hence on no other
  call reaching that file, hence on names and inodes of live calls being distinct
  and on what readers and power failures can reach. It is the files of live calls only
  that are private (`OwnedFilesPrivate`): after a rename that was undone in part, a left
  pending name and the destination are names of one file. `FilesAccounted` collects
  these; each action has a lemma that it preserves the invariant. The refinement
  maps `installed` to the content of the destination and `recoverable` to the
  contents of the inodes a power failure may bring back: `Rename` is `Replace`,
  `SyncDirectory` is `Flush`, `LosePower` is `Recover`, all else stutters.
* **LoadOrder** (`LoadOrderProofs`): type correctness, dependency order,
  compatibility under the strict policy, distinct slots, unique runtime ids and
  the inverse. The invariant adds to `TypeOK` that the headers are valid and
  `BuildConsistent`: the loaded packages are those before `next`, each in order,
  and slot numbers lie below the counters. That runtime ids are unique is
  arithmetic over slots that are distinct and below the limits (`RuntimeIdDecodes`),
  for all widths with `CompactSlots * CompactSpan = LocalSpan`.

* **The record index** (`LoadOrderProofs`): the streaming winner of a record is the
  last package that overrides it; its chain is the packages that hold it, each once, in
  load order, and nothing before its owner. `IndexInv` adds to the invariant above what
  the winners and chains are when the packages up to `n` have been seen
  (`StreamedUpTo`, `ChainedUpTo`): the domain is the ids of these packages, a winner is
  the largest of its packages, a chain lists exactly its packages and ascends. Each
  iteration extends this by one package. That nothing stands before the owner is
  `OwnerIsNotBehind`: an id is translated through the dependencies of the package, which
  were loaded before it.

* **Availability** (`LoadOrderProofs`): what inspection calls available is the
  largest set of packages that has all it needs. Each pass brings a package its first error
  or is followed by one that finds nothing (`EveryPassFindsAPackage`), so that as many
  passes as there are packages find everything (`PassesEnd`); a set that has all it needs
  never gets an error, pass by pass. That inspection foretells the build is another
  invariant: `ErrorInv` says of every error of a build what it says of the packages (a
  dependency that is missing or has another version, two packages that exclude each
  other, a class that is full), and each is an issue of inspection or one of the errors
  that inspection does not look for.

* **LoadOrderHandle** (`LoadOrderProofs`): the module is written so that every step of the
  handle is a step of `LoadOrder` or leaves its variables alone (`HandleStepsAreSteps`, a
  lemma only), which brings the invariants of `LoadOrder` here. A client that walks to the end meets every
  winning record once: `WalkInv` says that it has met the records of the first runtime ids
  of the list; the list ascends, and distinct runtime ids are distinct records.

* **ChangeSets** (`ChangeSetsProofs`): the store is closed and verified, every store is
  read back from every order of its entries, and `is_ancestor` is right, for histories of
  every size. `IInv` is `StoreInv`, `SearchInv` and the answer. `SearchInv` says of a
  search under way that the visited and pending identifiers are all reached from the
  descendant, that the parents of a visited one are visited or pending, and that the
  ancestor was not visited; an empty stack then makes the visited ones closed under
  parents, and the ancestor is not among them. `TurnsInv` bounds the turns: with those that
  wait set aside, they are no more than the parents that the visited ones name. `AcceptedFile` and `FileIsAccepted` say
  what the absence of an error means for a stream.

* **EditSession** (`EditSessionProofs`), for packages, limits and sessions of every size:
  - `FilesInv`: the handle and all files hold packages that open, and a clean handle holds
    what its file holds. Every call has one of four effects on these variables (`Edits`,
    `Answers`, `Writes`, `Loads`), so that the invariant is proved of the effects.
  - `OwnersAlwaysKept`: a new dependency moves the place of the package itself by one.
    `NothingWasOwned` shows from the two counts, the one before and the one checked at
    reopening, that the call is refused unless no record was owned; then
    all places that are used keep their meaning.
  - `AssignedIdsAlwaysFresh`: `FreshInv` says that the assigned ids lie below the next one
    and that an empty package has none. It is a statement about every call, because each
    could set the next id back; only changes of the class do, on empty packages.
  - `SavedSceneOffsetsAlwaysExact`: writing rebuilt offsets changes the length of the
    header and so the place of everything. `StartsAdd` shows that the recursive function
    `Starts` is the recurrence it is written as, by induction along the places;
    then starts, ends, groups, worlds and regions all move by the same amount
    (`StartsMove` to `SceneOffsetsMove`), the shift leaves the header's length as it is
    (`ShiftKeepsSize`), and the offsets of the rewritten package are the shifted ones.
  - `CallsAlwaysKeepTheRest`, the longest argument. An edit of the bytes is seen as a
    sequence of slots, one for each chunk of the old package: records that were put in,
    and behind them the chunk itself unless it is gone (`Settled`). `Measured` says that a
    slot is as long as the chunk and the edits at it make it, `Resized` that a group grows
    by the sum of the edits it counts. From these and the sums (`TotalIs`, `SumsBetween`)
    follows `GroupsFit`: every group still ends in front of the chunk it ended in front of, with
    or without records put in there; hence every chunk has the groups around it that it
    had (`AncestorsSettle`) and the order is kept. The calls on one record are one edit
    (`OneEdit`), a batch is many (`EditsAt`, `GrowsAround`), whose slots the lemmas on
    `FlattenSeq` in `Places` find in the bytes. What the proof takes from the code is which
    groups it lets grow: those around the edit, found by offsets for single calls and
    replacements and along the parents of the target for insertions of a batch.
  - `CallsAlwaysTakeEffect`: the edit as slots again, now with the exact end of every group
    (`GroupsEnd`): which of the records put in behind its last chunk are still within it.
    `NewRecordAt` takes from that which groups each new record has around it, and
    `AroundReplaced` that a replaced one keeps its groups. An inserted record may lie at the
    end of several groups, and only their sizes tell which of them hold it. The groups that
    end there and are to hold it must grow by more than what is put in front of it, the
    others by no more; `AroundInserted` shows that the sums do so for a batch in order,
    inner groups first. Without the order the code puts a record into another group than
    its target, which is why the property asks for it.
  - `OwnedIdsAlwaysInRange`: every call leaves the index of the package itself and a next id
    that is no less, and greater than every owned id that the call brings (`CoversIds`); the
    other ids were there before, for no other record is new (`KeepsTheRest`). The limit of a
    compact package is that of its next id, which reopening checks. A dependency that is
    added leaves no owned record at all.
  - `HeaderAlwaysReadsBack` and `FieldsAlwaysCountOnce`: `Says` tells what a sequence of
    fields must hold to be a header, signature by signature and in whatever order the
    signatures are mixed. Encoding gives such a sequence (`EncodeSays`), and decoding one
    gives the header, or refuses it when it breaks a limit (`SaysIsRead`): no two of its
    fields are equal and no two tables are of one world (`FieldsAreDistinct`,
    `TablesTell`), so none is refused for what stands before it. `Lists` gives the places
    of the fields of a signature; two neighbours of different signatures exchanged keep
    what each signature lists (`Exchanged`), a field taken out empties its own and leaves
    the others (`FieldRemoved`), and one written again is met twice wherever it stands.

* **Accepted edits** (`PackageHandleProofs`). `AllowedEditsAlwaysAccepted`: what an edit
  writes passes every check on the way, for headers without scene offsets. Allowed
  mutations given in order do not overlap (`AllowedIsValid`), and no group becomes shorter
  than nothing, since what is taken out of it was in it (`SizesStayPositive`). The edited
  bytes scan (`EditedScans`, for the batch `BatchScans`, for single calls `OneEditScans`):
  each group, grown or not, ends where a chunk begins, by the slots again, and lies within
  the groups around it, for where groups end at one place an outer one grows with every
  inner one (`BatchGrowsNested`). The records are those of before with some ids exchanged,
  one for one (`RecordsExchanged`): they are distinct (`ExchangedOpens`) and as many as the
  counts that the header of the edit says (`BatchHeaderCounts`), which are kept apart from
  the index and compared with it at reopening.

* **Cursor** (`PackageHandleProofs`): what a cursor gives is what the index has:
  every chunk all of whose groups were entered, once, in order. `CursorInv` says that the
  readers on the stack are nested, each at the start of a chunk and ending where the one
  below reads on; that the groups entered and not left are those around the place where it
  reads (`AroundInv`); and that what was given is what is visible and starts before the
  `Mark`, the first place where a chunk can still be given (`SeenInv`).

* **LoadOrderRepair** (`LoadOrderRepairProofs`): type correctness and that an order
  answered with `Ok` can be built, for every order; for orders that list no package
  twice also `RefusalIsJustified`. The code takes an order that comes back for a
  cycle of dependencies. `OrdersInv` says why that is right: each order `o` seen
  before differs from the present one by the moves of a set of packages `M`. What is
  not in `M` is before all that it was before in `o`, and each package of `M` has a
  dependency that is in `M` as well, or that was behind the package in `o` and is
  before it now (`Explains`). A move adds the moved package to every `M`. If the
  present order is `o` itself, nothing was behind and is now before, so the packages
  of `M` depend on each other in a circle. `RemovedAt`, `InsertedAt`, `MovedBehind`
  and `MoveKeepsTheRest` say what a move does to the places and to what is before
  what. That the report replays (`ReportAlwaysReplays`) takes the existence and uniqueness
  of the recursive replay (`ReplayInv`): every move of the report is from and to places of
  the order it was made on, and one more move continues the replay.

* **Merge** (`MergeProofs`): all six properties, for packages of every size and nesting.
  - The inductive invariant `IInv` says what a merge has done so far (`IsUnderWay`). `w`
    maps each operation to the record of the source it is of; `Operates` says that it is the
    right one and that no record done was forgotten. `IsRecorded` says that the map of
    records is that of the destination, without the deleted ones and with those put as the
    operations tell. It holds only while no id has two operations (`AllDistinct`): a source
    may override or delete a record whose id the same merge has injected, and the map is then
    not what the operations say. `ChangeSet::create` refuses such a merge, so that at the
    end `IsRecorded` holds without the condition. Each action has a lemma that it preserves
    the invariant.
  - Trees. A package that opens reads as a tree (`IsTree`: each entry is within one group of
    every smaller depth), whose `Around` are the `Ancestors` of the layout. A tree is
    encoded as a package with these groups again (`EncodesTheTree`): the sizes of `EncodeTree` are
    sums of what is behind each group, so that its end is the start of the entry behind it.
    `Unites` is the invariant of `union_tree` after `n` entries: both trees are in the union,
    each entry within the ones it was within, the destination's in their order, records at
    places of their own, and the path leads to the entry that came last. `Composes` is what
    follows for the tree of the result; `MergedPackageOpens`, `RestIsKept` and
    `TakenOverWithItsPlace` are read off it. That a parent of a record taken over is in the
    result or deleted takes the fixed point of `WithAncestors` (`ParentsAreSelected`).
  - References. `AllHold` says of subrecords that their references are of a set, and is kept by every
    rule of a composition (`AllAreApplied` gives the recurrence that `Composed` is); with the
    references of the destination and the translated ones of the source as the set,
    `ReferencesNameTheSameRecord` follows. Injected ids are
    distinct and new (`NewIsFresh`), because the next id of the destination is fresh and
    those of the merge count up from it.
  - `MergeBringsNoIssues`: a new id lies below the merged next id (`ResultIsFresh`), a label
    of a group in the result is one of the destination, whose record is still there or
    deleted, or a translated one, whose record was taken over (`LabelsAreKnown`).

The assumptions are those of the modules: `ConstantsAssumption`,
`WidthsAssumption`, `InputsAssumption` (headers that decode), `RepairAssumption` (no
package depends on itself), `LimitsAssumption` and `SessionAssumption` (initial packages
open; both parts of an id and the lengths of payloads are unsigned), `CursorAssumption` (packages opened
for reading are well formed and aligned), `MergeAssumption` (destinations and sources open,
as the library's types guarantee, their records can be taken apart, the rules are of the
interface's types), `DraftsAssumption` and `FilesAssumption` (the types of drafts and
streams). TLC evaluates them in the runs.

Only model-checked:

* liveness (`CallReturns`, `RepairEnds`), which the prover does not treat;
* `RefusalIsJustified` for orders that list a package twice: it is stated for the others.

The prover cannot expand the library's sorting operators, so `Ascending` says which sequence
a sorted one is: each element stands at its rank.

## What is not modelled

* Byte encodings: signatures of records, flags but the deleted one, texts, version
  numbers, the encoding of subrecords. The model works on what they mean and how long they are. Records with
  the signature of the header or the null id, and index counts that do not match,
  are refused inputs and left out.
* I/O errors while reading; the bytes of the winning record.
* Getters, the read-only handles, the error interface and the ownership of
  handles: one-step wrappers.
* Integer overflow in sizes: the code uses checked arithmetic and returns an error.
* In a merge: signatures of records, so that rules may compose records of different
  kinds as in the code; empty authors; `compose_record_override` and
  `compose_override_chain`, which fold the rules of the merge over records at run time
  and change no package.
* `build_record_index_from` with indexes of other packages than those of the order: the
  precondition is the caller's, only the number is compared.
* `ValidationReport::for_load_order`: its errors are chains that change the signature of
  a record, and signatures are abstracted; its other issues restate the lengths of chains.
* The remapping of records a caller does after removing a dependency: the code has no
  function for it.
* The bytes inside a header field, and packages in which a group ends within a payload.

## Plan

What would come next: signatures of records, so that both validation reports and the rules
of a merge can tell records of different kinds apart; and a caller that remaps records after
changes of the dependencies.
