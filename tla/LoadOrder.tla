----------------------------- MODULE LoadOrder -----------------------------
(***************************************************************************)
(* LoadOrder (load_order.rs): build_with_policy checks the packages of a   *)
(* load order one after the other and gives each a slot of the runtime id  *)
(* space; translate turns the record id a package stores (the place of the *)
(* owner among its dependencies, a local id) into the runtime id all       *)
(* packages share; build_record_index_from collects, per runtime id, the   *)
(* packages that hold the record; serialize_record_id goes back.           *)
(*                                                                         *)
(* The widths are constants: 0xFE full slots of 2^24 ids each, and in the  *)
(* block of the prefix 0xFE 4096 compact slots of 2^12 ids each.           *)
(***************************************************************************)
EXTENDS Integers, Sequences, FiniteSets

CONSTANTS
  PackageIds,
  Versions,
  FullSlots,      \* 0xFE: full packages of one load order
  LocalSpan,      \* 2^24: local ids of a full package
  CompactSlots,   \* 4096: compact packages of one load order
  CompactSpan,    \* 2^12: local ids of a compact package
  Inputs          \* the calls: records [packages, strict]

ASSUME WidthsAssumption ==
  /\ FullSlots \in Nat
  /\ LocalSpan \in Nat \ {0}
  /\ CompactSlots \in Nat \ {0}
  /\ CompactSpan \in Nat \ {0}
  /\ CompactSlots * CompactSpan = LocalSpan

LocalIds == 0 .. LocalSpan - 1

\* RecordId: package_index and local_identifier.
RecordIds == [index : Nat, local : LocalIds]

\* A dependency or an incompatibility: the package, and the versions its
\* requirement matches (all of them when it has none).
Relationships == [package : PackageIds, versions : SUBSET Versions]

\* What load_order.rs reads of a package: its header, whether its content can be
\* indexed (opening a package does not look at it) and the records found there.
Headers ==
  [id : PackageIds, class : {"Full", "Compact", "Overlay"}, version : Versions,
   dependencies : Seq(Relationships), incompatibilities : SUBSET Relationships,
   streaming : SUBSET RecordIds, indexes : BOOLEAN, records : SUBSET RecordIds]

\* PackageHeader::decode refuses self-dependencies, repeated dependencies and an
\* overlay that owns records; build checks the last again, in vain.
ValidHeader(h) ==
  /\ \A i, j \in DOMAIN h.dependencies :
       h.dependencies[i].package = h.dependencies[j].package => i = j
  /\ \A i \in DOMAIN h.dependencies : h.dependencies[i].package # h.id
  /\ h.class = "Overlay" => \A id \in h.records : id.index # Len(h.dependencies)

ASSUME InputsAssumption ==
  \A input \in Inputs :
    /\ input \in [packages : Seq(Headers), strict : BOOLEAN]
    /\ \A k \in DOMAIN input.packages : ValidHeader(input.packages[k])

VARIABLES
  packages,       \* the argument of build: Vec<Arc<Package>>
  strict,         \* LoadOrderPolicy::STRICT, or EDITOR
  phase,          \* the loop that runs
  next,           \* the package it looks at
  loaded, slots, full, compact,       \* the local variables of build
  streamingWinners,                   \* runtime id -> package index
  chains,                             \* runtime id -> origins: package indexes
  error

vars == <<packages, strict, phase, next, loaded, slots, full, compact,
          streamingWinners, chains, error>>

Phases == {"packages", "incompatibilities", "streaming", "ready", "indexing",
           "indexed", "failed"}

Slots == [class : {"Full", "Compact", "Overlay"}, number : Nat]

\* An overlay has no slot.
NoSlot == [class |-> "Overlay", number |-> 0]

---------------------------------------------------------------------------
(* translate and serialize_record_id.                                      *)

OwnerOf(h, id) ==
  IF id.index < Len(h.dependencies) THEN h.dependencies[id.index + 1].package ELSE h.id

\* Mutant: the range of a compact package's local ids is not checked.
TranslatesUnchecked(h, id) ==
  /\ id.index <= Len(h.dependencies)
  /\ slots[OwnerOf(h, id)].class \in {"Full", "Compact"}

\* Whether translate returns Ok.
Translates(h, id) ==
  /\ id.index <= Len(h.dependencies)
  /\ slots[OwnerOf(h, id)].class \in {"Full", "Compact"}
  /\ slots[OwnerOf(h, id)].class = "Compact" => id.local < CompactSpan

RuntimeId(slot, local) ==
  IF slot.class = "Full" THEN slot.number * LocalSpan + local
                         ELSE FullSlots * LocalSpan + slot.number * CompactSpan + local

Translate(h, id) == RuntimeId(slots[OwnerOf(h, id)], id.local)

\* The slot and the local id that serialize_record_id reads from a runtime id.
SlotOf(raw) ==
  IF raw \div LocalSpan = FullSlots
  THEN [class |-> "Compact", number |-> (raw \div CompactSpan) % CompactSlots]
  ELSE [class |-> "Full", number |-> raw \div LocalSpan]

\* Mutant: the mask of the full ids is used for both.
WideLocalOf(raw) == raw % LocalSpan

LocalOf(raw) ==
  IF raw \div LocalSpan = FullSlots THEN raw % CompactSpan ELSE raw % LocalSpan

\* The ids serialize_record_id may return for package h (none: an error).  The
\* owner is found by its slot; a dependency is preferred to the package itself.
Serializations(h, raw) ==
  {id \in [index : 0 .. Len(h.dependencies), local : {LocalOf(raw)}] :
     slots[OwnerOf(h, id)] = SlotOf(raw)}

---------------------------------------------------------------------------
Init ==
  /\ \E input \in Inputs : packages = input.packages /\ strict = input.strict
  /\ phase = "packages"
  /\ next = 1
  /\ loaded = {}
  /\ slots = [p \in PackageIds |-> NoSlot]
  /\ full = 0
  /\ compact = 0
  /\ streamingWinners = <<>>
  /\ chains = <<>>
  /\ error = "none"

Current == packages[next]

Fail(kind) ==
  /\ phase' = "failed"
  /\ error' = kind
  /\ UNCHANGED <<packages, strict, next, loaded, slots, full, compact,
                 streamingWinners, chains>>

---------------------------------------------------------------------------
(* The loop over the packages.                                             *)

NotLoaded(d) == d.package \notin loaded \cup {Current.id}

WrongVersion(d) ==
  \E k \in 1 .. next - 1 :
    packages[k].id = d.package /\ packages[k].version \notin d.versions

FullSlotsLeft == full < FullSlots

CompactSlotsLeft == compact < CompactSlots

SlotsLeft ==
  /\ Current.class = "Full" => FullSlotsLeft
  /\ Current.class = "Compact" => CompactSlotsLeft

RefuseDuplicate ==
  /\ phase = "packages"
  /\ next <= Len(packages)
  /\ Current.id \in loaded
  /\ Fail("DuplicatePackage")

\* The first dependency that cannot be used decides which error is returned.
RefuseDependency ==
  /\ phase = "packages"
  /\ next <= Len(packages)
  /\ Current.id \notin loaded
  /\ \E i \in DOMAIN Current.dependencies :
       /\ \A j \in 1 .. i - 1 :
            ~ NotLoaded(Current.dependencies[j]) /\ ~ WrongVersion(Current.dependencies[j])
       /\ \/ /\ NotLoaded(Current.dependencies[i])
             /\ Fail("DependencyNotLoaded")
          \/ /\ ~ NotLoaded(Current.dependencies[i])
             /\ WrongVersion(Current.dependencies[i])
             /\ Fail("DependencyVersionMismatch")

\* Mutant: the version of a dependency is not looked at.
DependencyUsableInAnyVersion(d) == ~ NotLoaded(d)

DependencyUsable(d) == ~ NotLoaded(d) /\ ~ WrongVersion(d)

Acceptable ==
  /\ Current.id \notin loaded
  /\ \A i \in DOMAIN Current.dependencies : DependencyUsable(Current.dependencies[i])

RefuseSlot ==
  /\ phase = "packages"
  /\ next <= Len(packages)
  /\ Acceptable
  /\ ~ SlotsLeft
  /\ Fail("TooManyPackages")

NewSlot(class) ==
  IF class = "Full" THEN [class |-> "Full", number |-> full]
  ELSE IF class = "Compact" THEN [class |-> "Compact", number |-> compact]
  ELSE NoSlot

LoadPackage ==
  /\ phase = "packages"
  /\ next <= Len(packages)
  /\ Acceptable
  /\ SlotsLeft
  /\ loaded' = loaded \cup {Current.id}
  /\ slots' = [slots EXCEPT ![Current.id] = NewSlot(Current.class)]
  /\ full' = full + (IF Current.class = "Full" THEN 1 ELSE 0)
  /\ compact' = compact + (IF Current.class = "Compact" THEN 1 ELSE 0)
  /\ next' = next + 1
  /\ UNCHANGED <<packages, strict, phase, streamingWinners, chains, error>>

AllLoaded ==
  /\ phase = "packages"
  /\ next > Len(packages)
  /\ phase' = "incompatibilities"
  /\ next' = 1
  /\ UNCHANGED <<packages, strict, loaded, slots, full, compact, streamingWinners,
                 chains, error>>

---------------------------------------------------------------------------
(* The incompatibilities, in any order of the two packages.                *)

Excludes(h, other) ==
  \E d \in h.incompatibilities : d.package = other.id /\ other.version \in d.versions

\* Mutant: only packages loaded earlier are looked at.
IncompatibleWithEarlier(k) == \E j \in 1 .. k - 1 : Excludes(packages[k], packages[j])

Incompatible(k) == \E j \in DOMAIN packages : Excludes(packages[k], packages[j])

RefuseIncompatible ==
  /\ phase = "incompatibilities"
  /\ strict
  /\ \E k \in DOMAIN packages : Incompatible(k)
  /\ Fail("IncompatiblePackages")

AcceptCompatible ==
  /\ phase = "incompatibilities"
  /\ strict => \A k \in DOMAIN packages : ~ Incompatible(k)
  /\ phase' = "streaming"
  /\ UNCHANGED <<packages, strict, next, loaded, slots, full, compact,
                 streamingWinners, chains, error>>

---------------------------------------------------------------------------
(* The streaming overrides: the last package that declares one wins.       *)

\* Mutant: the first package that declares it wins.
KeepFirst(f, S, v) == [x \in DOMAIN f \cup S |-> IF x \in DOMAIN f THEN f[x] ELSE v]

\* f with every element of S mapped to v.
Overwrite(f, S, v) == [x \in DOMAIN f \cup S |-> IF x \in S THEN v ELSE f[x]]

RefuseStreaming ==
  /\ phase = "streaming"
  /\ next <= Len(packages)
  /\ \E id \in Current.streaming : ~ Translates(Current, id)
  /\ Fail("UntranslatableStreamingOverride")

StreamPackage ==
  /\ phase = "streaming"
  /\ next <= Len(packages)
  /\ \A id \in Current.streaming : Translates(Current, id)
  /\ streamingWinners' =
       Overwrite(streamingWinners, {Translate(Current, id) : id \in Current.streaming}, next)
  /\ next' = next + 1
  /\ UNCHANGED <<packages, strict, phase, loaded, slots, full, compact, chains, error>>

\* build returns the load order.
Built ==
  /\ phase = "streaming"
  /\ next > Len(packages)
  /\ phase' = "ready"
  /\ next' = 1
  /\ UNCHANGED <<packages, strict, loaded, slots, full, compact, streamingWinners,
                 chains, error>>

---------------------------------------------------------------------------
(* build_record_index: a call of its own on the load order.                *)

\* All packages are indexed before the first chain is made.
RefuseIndex ==
  /\ phase = "ready"
  /\ \E k \in DOMAIN packages : ~ packages[k].indexes
  /\ Fail("Index")

StartIndex ==
  /\ phase = "ready"
  /\ \A k \in DOMAIN packages : packages[k].indexes
  /\ phase' = "indexing"
  /\ UNCHANGED <<packages, strict, next, loaded, slots, full, compact,
                 streamingWinners, chains, error>>

\* A record that translate refuses: an overlay's own, one of a slotless owner, an
\* index beyond the dependencies, a compact local id out of range.
RefuseRecord ==
  /\ phase = "indexing"
  /\ next <= Len(packages)
  /\ \E id \in Current.records : ~ Translates(Current, id)
  /\ Fail("UntranslatableRecord")

Chain(raw) == IF raw \in DOMAIN chains THEN chains[raw] ELSE <<>>

\* Mutant: an override replaces the chain instead of ending it.
ReplacedChain(raw) == <<next>>

ExtendedChain(raw) == Append(Chain(raw), next)

IndexPackage ==
  /\ phase = "indexing"
  /\ next <= Len(packages)
  /\ \A id \in Current.records : Translates(Current, id)
  /\ LET found == {Translate(Current, id) : id \in Current.records}
     IN chains' = [raw \in DOMAIN chains \cup found |->
                     IF raw \in found THEN ExtendedChain(raw) ELSE chains[raw]]
  /\ next' = next + 1
  /\ UNCHANGED <<packages, strict, phase, loaded, slots, full, compact,
                 streamingWinners, error>>

Indexed ==
  /\ phase = "indexing"
  /\ next > Len(packages)
  /\ phase' = "indexed"
  /\ UNCHANGED <<packages, strict, next, loaded, slots, full, compact,
                 streamingWinners, chains, error>>

---------------------------------------------------------------------------
Next ==
  \/ RefuseDuplicate
  \/ RefuseDependency
  \/ RefuseSlot
  \/ LoadPackage
  \/ AllLoaded
  \/ RefuseIncompatible
  \/ AcceptCompatible
  \/ RefuseStreaming
  \/ StreamPackage
  \/ Built
  \/ RefuseIndex
  \/ StartIndex
  \/ RefuseRecord
  \/ IndexPackage
  \/ Indexed

Spec == Init /\ [][Next]_vars

---------------------------------------------------------------------------
(* Properties.                                                             *)

TypeOK ==
  /\ packages \in Seq(Headers)
  /\ strict \in BOOLEAN
  /\ phase \in Phases
  /\ next \in 1 .. Len(packages) + 1
  /\ loaded \subseteq PackageIds
  /\ slots \in [PackageIds -> Slots]
  /\ full \in 0 .. FullSlots
  /\ compact \in 0 .. CompactSlots

\* Slots are never shared and stay inside the blocks of the id space.
SlotsDistinct ==
  \A p, q \in PackageIds :
    /\ slots[p].class = "Full" => slots[p].number < full
    /\ slots[p].class = "Compact" => slots[p].number < compact
    /\ slots[p] = slots[q] /\ slots[p] # NoSlot => p = q

\* The k-th package is behind all its dependencies, in versions it accepts, and
\* is not listed earlier.
InOrder(k) ==
  /\ \A j \in 1 .. k - 1 : packages[j].id # packages[k].id
  /\ \A i \in DOMAIN packages[k].dependencies :
       \E j \in 1 .. k - 1 :
         /\ packages[j].id = packages[k].dependencies[i].package
         /\ packages[j].version \in packages[k].dependencies[i].versions

\* The inductive invariant: the packages accepted so far are the loaded ones, are
\* in order, and only they have slots.
Accepted == IF phase = "packages" THEN 1 .. next - 1 ELSE DOMAIN packages

BuildConsistent ==
  /\ phase # "failed" => loaded = {packages[k].id : k \in Accepted}
  /\ phase # "failed" => \A k \in Accepted : InOrder(k)
  /\ \A p \in PackageIds : p \notin loaded => slots[p] = NoSlot
  /\ \A p \in PackageIds : slots[p].class = "Overlay" => slots[p] = NoSlot
  /\ SlotsDistinct

\* The ids a package could store.
StorableIds(h) == [index : 0 .. Len(h.dependencies), local : LocalIds]

\* Two stored ids get one runtime id exactly when they name the same record: the
\* same local id of the same owner, whichever packages store them and wherever
\* the owner is among their dependencies.
OneRuntimeIdPerRecord ==
  LET named == UNION {{<<Translate(packages[k], id), OwnerOf(packages[k], id), id.local>> :
                         id \in {id \in StorableIds(packages[k]) : Translates(packages[k], id)}}
                        : k \in DOMAIN packages}
  IN \A a, b \in named : a[1] = b[1] <=> a[2] = b[2] /\ a[3] = b[3]

\* serialize_record_id inverts resolve_record_id, for every id a package can store.
SerializingInvertsResolving ==
  \A k \in DOMAIN packages : \A id \in StorableIds(packages[k]) :
    Translates(packages[k], id) =>
      Serializations(packages[k], Translate(packages[k], id)) = {id}

\* A load order that was built has every package once and behind all its
\* dependencies, each in a version it accepts.
BuiltInDependencyOrder ==
  phase \notin {"packages", "failed"} => \A k \in DOMAIN packages : InOrder(k)

\* The strict policy lets no two incompatible packages in, whichever of the two
\* declares it and whichever is loaded first.
StrictOrderIsCompatible ==
  strict /\ phase \in {"streaming", "ready", "indexing", "indexed"} =>
    \A j, k \in DOMAIN packages : ~ Excludes(packages[j], packages[k])

\* The packages whose set field holds an id of the record raw.
Holders(raw, ids(_)) ==
  {k \in DOMAIN packages : \E id \in ids(packages[k]) : Translate(packages[k], id) = raw}

StreamedBy(h) == h.streaming
RecordsOf(h) == h.records

\* The streaming winner of a record is the last package that overrides it.
LastStreamingOverrideWins ==
  phase \in {"ready", "indexing", "indexed"} =>
    /\ DOMAIN streamingWinners =
         UNION {{Translate(packages[k], id) : id \in packages[k].streaming}
                  : k \in DOMAIN packages}
    /\ \A raw \in DOMAIN streamingWinners :
         /\ streamingWinners[raw] \in Holders(raw, StreamedBy)
         /\ \A k \in Holders(raw, StreamedBy) : k <= streamingWinners[raw]

\* The chain of a record lists exactly the packages that hold it, each once, in
\* load order: its last origin, the winner, is the last package that holds it.
ChainsAreComplete ==
  phase = "indexed" =>
    /\ DOMAIN chains =
         UNION {{Translate(packages[k], id) : id \in packages[k].records}
                  : k \in DOMAIN packages}
    /\ \A raw \in DOMAIN chains :
         /\ {chains[raw][i] : i \in DOMAIN chains[raw]} = Holders(raw, RecordsOf)
         /\ \A i \in 2 .. Len(chains[raw]) : chains[raw][i - 1] < chains[raw][i]

\* No package appears in the chain of a record before the record's owner is
\* loaded: an override is never older than what it overrides.
OverridesFollowOwner ==
  \A raw \in DOMAIN chains : \E o \in DOMAIN packages :
    /\ slots[packages[o].id] = SlotOf(raw)
    /\ o <= chains[raw][1]
=============================================================================
