-------------------------- MODULE LoadOrderProofs --------------------------
(***************************************************************************)
(* Proofs about LoadOrder, for every width of the id space, any number of  *)
(* packages and any headers: first about build, then about the streaming   *)
(* winners and the chains of the record index.  Behind them those about    *)
(* what is made of a load order: the inspection of packages before they    *)
(* are built into one (Availability), and the handle of the native         *)
(* interface over what was built (LoadOrderHandle).                        *)
(***************************************************************************)
EXTENDS LoadOrderHandle, Places, FiniteSetTheorems, TLAPS

(***************************************************************************)
(* Arithmetic: a number n * S + l with l < S is taken apart by \div and %. *)
(***************************************************************************)

\* More slots have greater ids.
LEMMA ProductGrows ==
  ASSUME NEW S \in Nat, NEW m \in Int, NEW n \in Int, m + 1 <= n
  PROVE  m * S + S <= n * S
<1> DEFINE d == n - m - 1
<1>1. d \in Nat /\ n = m + 1 + d
  OBVIOUS
<1>2. n * S = m * S + S + d * S
  BY <1>1
<1>3. d * S \in Nat
  BY <1>1
<1> QED
  BY <1>2, <1>3

\* A number is taken apart into slot and local id as it was put together.
LEMMA DivMod ==
  ASSUME NEW S \in Nat \ {0}, NEW n \in Nat, NEW l \in 0 .. S - 1
  PROVE  (n * S + l) \div S = n /\ (n * S + l) % S = l
<1> DEFINE x == n * S + l
           q == x \div S
           r == x % S
<1>1. x \in Nat
  OBVIOUS
<1>2. q \in Int /\ r \in 0 .. S - 1 /\ x = q * S + r
  BY <1>1
<1> HIDE DEF q, r
<1>3. ~ (q + 1 <= n)
  <2> SUFFICES ASSUME q + 1 <= n PROVE FALSE
    OBVIOUS
  <2>1. q * S + S <= n * S
    BY <1>2, ProductGrows
  <2> QED
    BY <1>2, <2>1
<1>4. ~ (n + 1 <= q)
  <2> SUFFICES ASSUME n + 1 <= q PROVE FALSE
    OBVIOUS
  <2>1. n * S + S <= q * S
    BY <1>2, ProductGrows
  <2> QED
    BY <1>2, <2>1
<1>5. q = n
  BY <1>2, <1>3, <1>4
<1>6. r = l
  BY <1>2, <1>5
<1> QED
  BY <1>5, <1>6 DEF q, r

(***************************************************************************)
(* serialize_record_id reads from a runtime id what translate put into it. *)
(***************************************************************************)

\* A slot that was given out, and a local id translate lets through for it.
Encodable(slot, local) ==
  /\ slot \in Slots
  /\ local \in LocalIds
  /\ \/ slot.class = "Full" /\ slot.number < FullSlots
     \/ slot.class = "Compact" /\ slot.number < CompactSlots /\ local < CompactSpan

\* So are the ids of full packages ...
LEMMA FullIdDecodes ==
  ASSUME NEW n \in Nat, n < FullSlots, NEW l \in LocalIds
  PROVE  (n * LocalSpan + l) \div LocalSpan = n /\ (n * LocalSpan + l) % LocalSpan = l
BY WidthsAssumption, DivMod DEF LocalIds

\* ... and those of compact ones ...
LEMMA CompactIdDecodes ==
  ASSUME NEW n \in Nat, n < CompactSlots, NEW l \in 0 .. CompactSpan - 1,
         NEW raw, raw = FullSlots * LocalSpan + n * CompactSpan + l
  PROVE  /\ raw \div LocalSpan = FullSlots
         /\ (raw \div CompactSpan) % CompactSlots = n
         /\ raw % CompactSpan = l
<1> USE WidthsAssumption
<1>1. n * CompactSpan + l \in 0 .. LocalSpan - 1
  <2>1. n * CompactSpan + CompactSpan <= CompactSlots * CompactSpan
    BY ProductGrows
  <2>2. n * CompactSpan \in Nat
    OBVIOUS
  <2> QED
    BY <2>1, <2>2
<1>2. raw \div LocalSpan = FullSlots
  BY <1>1, DivMod
<1>3. FullSlots * LocalSpan = (FullSlots * CompactSlots) * CompactSpan
  OBVIOUS
<1>4. raw = (FullSlots * CompactSlots + n) * CompactSpan + l
  BY <1>3
<1> DEFINE m == FullSlots * CompactSlots + n
<1>5. m \in Nat /\ raw = m * CompactSpan + l
  BY <1>4
<1> HIDE DEF m
<1>6. raw \div CompactSpan = m /\ raw % CompactSpan = l
  BY <1>5, DivMod
<1>7. m % CompactSlots = n
  BY DivMod DEF m
<1> QED
  BY <1>2, <1>6, <1>7

\* ... hence any runtime id.
LEMMA RuntimeIdDecodes ==
  ASSUME NEW slot, NEW local, Encodable(slot, local)
  PROVE  SlotOf(RuntimeId(slot, local)) = slot /\ LocalOf(RuntimeId(slot, local)) = local
<1> USE WidthsAssumption
<1>1. CASE slot.class = "Full"
  <2>1. slot.number \in Nat /\ slot.number < FullSlots /\ local \in LocalIds
    BY <1>1 DEF Encodable, Slots
  <2>2. RuntimeId(slot, local) = slot.number * LocalSpan + local
    BY <1>1 DEF RuntimeId
  <2>3. slot = [class |-> "Full", number |-> slot.number]
    BY <1>1 DEF Encodable, Slots
  <2> QED
    BY <2>1, <2>2, <2>3, FullIdDecodes DEF SlotOf, LocalOf
<1>2. CASE slot.class = "Compact"
  <2>1. slot.number \in Nat /\ slot.number < CompactSlots /\ local \in 0 .. CompactSpan - 1
    BY <1>2 DEF Encodable, Slots, LocalIds
  <2>2. RuntimeId(slot, local) = FullSlots * LocalSpan + slot.number * CompactSpan + local
    BY <1>2 DEF RuntimeId
  <2>3. slot = [class |-> "Compact", number |-> slot.number]
    BY <1>2 DEF Encodable, Slots
  <2> QED
    BY <2>1, <2>2, <2>3, CompactIdDecodes DEF SlotOf, LocalOf
<1> QED
  BY <1>1, <1>2 DEF Encodable

(***************************************************************************)
(* The inductive invariant of build.                                       *)
(***************************************************************************)

\* The packages passed validation.
HeadersValid == \A k \in DOMAIN packages : ValidHeader(packages[k])

\* The inductive invariant of building.
IInv == TypeOK /\ HeadersValid /\ BuildConsistent

\* It holds before anything is built.
LEMMA InitIInv == Init => IInv
<1> SUFFICES ASSUME Init PROVE IInv
  OBVIOUS
<1> PICK input \in Inputs : packages = input.packages /\ strict = input.strict
  BY DEF Init
<1>1. packages \in Seq(Headers) /\ strict \in BOOLEAN /\ HeadersValid
  BY InputsAssumption DEF HeadersValid
<1>2. Len(packages) \in Nat /\ NoSlot \in Slots
  BY <1>1 DEF NoSlot, Slots
<1>3. TypeOK
  BY <1>1, <1>2, WidthsAssumption DEF Init, TypeOK, Phases
<1>4. BuildConsistent
  BY DEF Init, BuildConsistent, SlotsDistinct, Accepted, NoSlot
<1> QED
  BY <1>1, <1>3, <1>4 DEF IInv

\* A slot that is assigned is one.
LEMMA NewSlotType ==
  ASSUME TypeOK, NEW class \in {"Full", "Compact", "Overlay"}
  PROVE  NewSlot(class) \in Slots
BY DEF TypeOK, NewSlot, NoSlot, Slots

\* The step that accepts a package.
LEMMA LoadPackagePreserves ==
  ASSUME IInv, LoadPackage
  PROVE  IInv'
<1> DEFINE c == Current
<1>1. c \in Headers /\ next \in DOMAIN packages /\ ValidHeader(c) /\ c = packages[next]
  BY DEF LoadPackage, Current, IInv, TypeOK, HeadersValid
<1>2. c.id \in PackageIds /\ c.class \in {"Full", "Compact", "Overlay"}
  BY <1>1 DEF Headers
<1>3. NewSlot(c.class) \in Slots
  BY <1>2, NewSlotType DEF IInv
<1> HIDE DEF c
<1>4. /\ loaded' = loaded \cup {c.id}
      /\ slots' = [slots EXCEPT ![c.id] = NewSlot(c.class)]
      /\ full' = full + (IF c.class = "Full" THEN 1 ELSE 0)
      /\ compact' = compact + (IF c.class = "Compact" THEN 1 ELSE 0)
      /\ next' = next + 1
      /\ UNCHANGED <<packages, strict, phase>>
  BY DEF LoadPackage, c
<1>5. /\ c.id \notin loaded
      /\ c.class = "Full" => full < FullSlots
      /\ c.class = "Compact" => compact < CompactSlots
  BY DEF LoadPackage, Acceptable, SlotsLeft, FullSlotsLeft, CompactSlotsLeft, c
<1>6. TypeOK'
  <2>1. slots' \in [PackageIds -> Slots] /\ loaded' \subseteq PackageIds
    BY <1>2, <1>3, <1>4 DEF IInv, TypeOK
  <2>2. full' \in 0 .. FullSlots /\ compact' \in 0 .. CompactSlots
    BY <1>4, <1>5, WidthsAssumption DEF IInv, TypeOK
  <2>3. next' \in 1 .. Len(packages') + 1
    BY <1>1, <1>4 DEF IInv, TypeOK
  <2> QED
    BY <1>4, <2>1, <2>2, <2>3 DEF IInv, TypeOK
<1>7. SlotsDistinct'
  BY <1>2, <1>4, <1>5, WidthsAssumption
  DEF IInv, TypeOK, BuildConsistent, SlotsDistinct, NewSlot, NoSlot, Slots
<1>8. loaded' = {packages'[k].id : k \in Accepted'}
  <2>1. Accepted' = Accepted \cup {next}
    BY <1>4 DEF LoadPackage, Accepted, IInv, TypeOK
  <2>2. loaded = {packages[k].id : k \in Accepted}
    BY DEF LoadPackage, IInv, BuildConsistent
  <2>3. packages' = packages
    BY <1>4
  <2>4. {packages'[k].id : k \in Accepted'} = {packages[k].id : k \in Accepted} \cup {packages[next].id}
    BY <2>1, <2>3
  <2> QED
    BY <1>1, <1>4, <2>2, <2>4
<1>9. \A k \in Accepted' : InOrder(k)'
  <2> SUFFICES ASSUME NEW k \in Accepted' PROVE InOrder(k)
    BY <1>4 DEF InOrder
  <2>1. CASE k < next
    BY <1>4, <2>1 DEF LoadPackage, Accepted, IInv, TypeOK, BuildConsistent
  <2>2. CASE k = next
    <3>1. loaded = {packages[j].id : j \in 1 .. k - 1}
      BY <2>2 DEF LoadPackage, Accepted, IInv, BuildConsistent
    <3>2. ASSUME NEW j \in 1 .. k - 1 PROVE packages[j].id # packages[k].id
      BY <1>1, <1>5, <2>2, <3>1
    <3>3. ASSUME NEW i \in DOMAIN c.dependencies
          PROVE  \E j \in 1 .. k - 1 :
                   /\ packages[j].id = c.dependencies[i].package
                   /\ packages[j].version \in c.dependencies[i].versions
      <4>1. DependencyUsable(c.dependencies[i])
        BY DEF LoadPackage, Acceptable, c
      <4>2. c.dependencies[i].package \in loaded
        BY <1>1, <4>1 DEF DependencyUsable, NotLoaded, ValidHeader, c
      <4>3. PICK j \in 1 .. k - 1 : packages[j].id = c.dependencies[i].package
        BY <3>1, <4>2
      <4> QED
        BY <2>2, <4>1, <4>3 DEF DependencyUsable, WrongVersion
    <3> QED
      BY <1>1, <2>2, <3>2, <3>3 DEF InOrder
  <2> QED
    BY <1>4, <2>1, <2>2 DEF LoadPackage, Accepted, IInv, TypeOK
<1>10. \A p \in PackageIds : p \notin loaded' => slots'[p] = NoSlot
  BY <1>2, <1>4 DEF IInv, TypeOK, BuildConsistent
<1>11. \A p \in PackageIds : slots'[p].class = "Overlay" => slots'[p] = NoSlot
  BY <1>2, <1>4 DEF IInv, TypeOK, BuildConsistent, NewSlot
<1> QED
  BY <1>4, <1>6, <1>7, <1>8, <1>9, <1>10, <1>11
  DEF IInv, HeadersValid, BuildConsistent, ValidHeader

\* Every other step leaves the packages, the slots and the counters alone.
LEMMA OtherStepPreserves ==
  ASSUME IInv, [Next]_vars, ~ LoadPackage
  PROVE  IInv'
<1>1. UNCHANGED <<packages, strict, loaded, slots, full, compact>>
  BY DEF Next, vars, Fail, LoadPackage, RefuseDuplicate, RefuseDependency, RefuseSlot, AllLoaded, RefuseIncompatible, AcceptCompatible,
     RefuseStreaming, StreamPackage, Built, RefuseIndex, StartIndex, RefuseRecord, IndexPackage, Indexed
<1>2. /\ phase' \in Phases
      /\ next' \in 1 .. Len(packages) + 1
  BY DEF IInv, TypeOK, Phases, Next, vars, Fail, RefuseDuplicate, RefuseDependency, RefuseSlot, AllLoaded, RefuseIncompatible, AcceptCompatible,
     RefuseStreaming, StreamPackage, Built, RefuseIndex, StartIndex, RefuseRecord, IndexPackage, Indexed
<1>3. TypeOK'
  BY <1>1, <1>2 DEF IInv, TypeOK
<1>4. phase' # "failed" => phase # "failed" /\ Accepted' = Accepted
  BY <1>1 DEF IInv, TypeOK, Accepted, Next, vars, Fail, RefuseDuplicate, RefuseDependency, RefuseSlot, AllLoaded, RefuseIncompatible, AcceptCompatible,
     RefuseStreaming, StreamPackage, Built, RefuseIndex, StartIndex, RefuseRecord, IndexPackage, Indexed
<1>5. SlotsDistinct'
  BY <1>1 DEF IInv, BuildConsistent, SlotsDistinct
<1> QED
  BY <1>1, <1>3, <1>4, <1>5 DEF IInv, HeadersValid, BuildConsistent, ValidHeader, InOrder

\* It holds of every build.
LEMMA BuildInvariant == Spec => []IInv
<1>1. IInv /\ [Next]_vars => IInv'
  BY LoadPackagePreserves, OtherStepPreserves
<1> QED
  BY InitIInv, <1>1, PTL DEF Spec

(***************************************************************************)
(* The theorems about build.                                               *)
(***************************************************************************)

\* Every variable keeps its type: the counters stay within the slots there are.
THEOREM TypeAlwaysCorrect == Spec => []TypeOK
<1>1. IInv => TypeOK
  BY DEF IInv
<1> QED
  BY <1>1, BuildInvariant, PTL

\* The packages accepted so far are the loaded ones, are in order, and only they
\* have slots.
THEOREM BuildAlwaysConsistent == Spec => []BuildConsistent
<1>1. IInv => BuildConsistent
  BY DEF IInv
<1> QED
  BY <1>1, BuildInvariant, PTL

\* No two packages share a slot, and every slot lies in the block of its class:
\* the counters never run past the limits.
THEOREM SlotsAlwaysDistinct == Spec => []SlotsDistinct
<1>1. IInv => SlotsDistinct
  BY DEF IInv, BuildConsistent
<1> QED
  BY <1>1, BuildInvariant, PTL

\* A load order that was built is in dependency order.
THEOREM AlwaysBuiltInDependencyOrder == Spec => []BuiltInDependencyOrder
<1>1. IInv => BuiltInDependencyOrder
  BY DEF IInv, BuildConsistent, BuiltInDependencyOrder, Accepted
<1> QED
  BY <1>1, BuildInvariant, PTL

\* No pair of incompatible packages is in a load order of the strict policy.
THEOREM StrictOrderAlwaysCompatible == Spec => []StrictOrderIsCompatible
<1>1. Init => StrictOrderIsCompatible
  BY DEF Init, StrictOrderIsCompatible
<1>2. StrictOrderIsCompatible /\ [Next]_vars => StrictOrderIsCompatible'
  <2> SUFFICES ASSUME StrictOrderIsCompatible, [Next]_vars
               PROVE  StrictOrderIsCompatible'
    OBVIOUS
  <2>1. UNCHANGED <<packages, strict>>
    BY DEF Next, vars, Fail, RefuseDuplicate, RefuseDependency, RefuseSlot, LoadPackage,
       AllLoaded, RefuseIncompatible, AcceptCompatible, RefuseStreaming, StreamPackage, Built,
       RefuseIndex, StartIndex, RefuseRecord, IndexPackage, Indexed
  <2>2. CASE AcceptCompatible
    BY <2>1, <2>2 DEF AcceptCompatible, Incompatible, Excludes, StrictOrderIsCompatible
  <2>3. ASSUME ~ AcceptCompatible, phase' \in {"streaming", "ready", "indexing", "indexed"}
        PROVE  phase \in {"streaming", "ready", "indexing", "indexed"}
    BY <2>3 DEF Next, vars, Fail, RefuseDuplicate, RefuseDependency, RefuseSlot, LoadPackage,
       AllLoaded, RefuseIncompatible, RefuseStreaming, StreamPackage, Built, RefuseIndex,
       StartIndex, RefuseRecord, IndexPackage, Indexed
  <2> QED
    BY <2>1, <2>2, <2>3 DEF StrictOrderIsCompatible, Excludes
<1> QED
  BY <1>1, <1>2, PTL DEF Spec

\* The owner a storable id names is a package.
LEMMA OwnerIsPackage ==
  ASSUME NEW h \in Headers, NEW id, id.index \in 0 .. Len(h.dependencies)
  PROVE  OwnerOf(h, id) \in PackageIds
<1>1. h.id \in PackageIds /\ h.dependencies \in Seq(Relationships)
  BY DEF Headers
<1>2. CASE id.index < Len(h.dependencies)
  <2>1. id.index + 1 \in 1 .. Len(h.dependencies)
    BY <1>1, <1>2
  <2>2. h.dependencies[id.index + 1] \in Relationships
    BY <1>1, <2>1
  <2> QED
    BY <1>2, <2>2 DEF OwnerOf, Relationships
<1>3. CASE ~ (id.index < Len(h.dependencies))
  BY <1>1, <1>3 DEF OwnerOf
<1> QED
  BY <1>2, <1>3

\* What translate lets through can be read back from the runtime id.
LEMMA TranslationsEncode ==
  ASSUME IInv, NEW k \in DOMAIN packages, NEW id \in StorableIds(packages[k]),
         Translates(packages[k], id)
  PROVE  /\ OwnerOf(packages[k], id) \in PackageIds
         /\ Encodable(slots[OwnerOf(packages[k], id)], id.local)
<1> DEFINE h == packages[k]
           owner == OwnerOf(h, id)
<1>1. h \in Headers /\ id.index \in 0 .. Len(h.dependencies) /\ id.local \in LocalIds
  <2>1. h \in Headers
    BY DEF IInv, TypeOK
  <2> QED
    BY <2>1 DEF StorableIds
<1>2. owner \in PackageIds
  BY <1>1, OwnerIsPackage
<1>3. /\ slots[owner] \in Slots
      /\ slots[owner].class = "Full" => slots[owner].number < FullSlots
      /\ slots[owner].class = "Compact" => slots[owner].number < CompactSlots
  BY <1>2, WidthsAssumption DEF IInv, TypeOK, BuildConsistent, SlotsDistinct, Slots
<1> QED
  BY <1>1, <1>2, <1>3 DEF Translates, Encodable

\* Two stored ids get one runtime id exactly when they name the same record.
THEOREM AlwaysOneRuntimeIdPerRecord == Spec => []OneRuntimeIdPerRecord
<1>1. ASSUME IInv, NEW j \in DOMAIN packages, NEW k \in DOMAIN packages,
             NEW a \in StorableIds(packages[j]), NEW b \in StorableIds(packages[k]),
             Translates(packages[j], a), Translates(packages[k], b)
      PROVE  Translate(packages[j], a) = Translate(packages[k], b)
               <=> /\ OwnerOf(packages[j], a) = OwnerOf(packages[k], b)
                   /\ a.local = b.local
  <2> DEFINE p == OwnerOf(packages[j], a)
             q == OwnerOf(packages[k], b)
  <2>1. p \in PackageIds /\ Encodable(slots[p], a.local)
    BY <1>1, TranslationsEncode
  <2>2. q \in PackageIds /\ Encodable(slots[q], b.local)
    BY <1>1, TranslationsEncode
  <2>3. slots[p].class # "Overlay"
    BY <2>1 DEF Encodable
  <2> HIDE DEF p, q
  <2>4. ASSUME RuntimeId(slots[p], a.local) = RuntimeId(slots[q], b.local)
        PROVE  slots[p] = slots[q] /\ a.local = b.local
    BY <2>1, <2>2, <2>4, RuntimeIdDecodes
  <2>5. slots[p] = slots[q] => p = q
    BY <1>1, <2>1, <2>2, <2>3 DEF IInv, BuildConsistent, SlotsDistinct, NoSlot
  <2> QED
    BY <2>4, <2>5 DEF Translate, p, q
<1>2. IInv => OneRuntimeIdPerRecord
  <2> DEFINE names(k) == {<<Translate(packages[k], id), OwnerOf(packages[k], id), id.local>> :
                            id \in {id \in StorableIds(packages[k]) :
                                     Translates(packages[k], id)}}
             named == UNION {names(k) : k \in DOMAIN packages}
  <2> SUFFICES ASSUME IInv, NEW x \in named, NEW y \in named
               PROVE  x[1] = y[1] <=> x[2] = y[2] /\ x[3] = y[3]
    BY DEF OneRuntimeIdPerRecord
  <2>1. PICK j \in DOMAIN packages : x \in names(j)
    OBVIOUS
  <2>2. PICK k \in DOMAIN packages : y \in names(k)
    OBVIOUS
  <2>3. PICK a \in StorableIds(packages[j]) :
          /\ Translates(packages[j], a)
          /\ x = <<Translate(packages[j], a), OwnerOf(packages[j], a), a.local>>
    BY <2>1
  <2>4. PICK b \in StorableIds(packages[k]) :
          /\ Translates(packages[k], b)
          /\ y = <<Translate(packages[k], b), OwnerOf(packages[k], b), b.local>>
    BY <2>2
  <2> HIDE DEF names, named
  <2> QED
    BY <1>1, <2>3, <2>4
<1> QED
  BY <1>2, BuildInvariant, PTL

\* A package's stored id is the only one it can store for the record it names.
THEOREM SerializingAlwaysInvertsResolving == Spec => []SerializingInvertsResolving
<1>1. ASSUME IInv, NEW k \in DOMAIN packages, NEW id \in StorableIds(packages[k]),
             Translates(packages[k], id)
      PROVE  Serializations(packages[k], Translate(packages[k], id)) = {id}
  <2> DEFINE h == packages[k]
             raw == Translate(h, id)
  <2>1. SlotOf(raw) = slots[OwnerOf(h, id)] /\ LocalOf(raw) = id.local
    BY <1>1, TranslationsEncode, RuntimeIdDecodes DEF Translate
  <2>2. h \in Headers /\ ValidHeader(h)
    BY <1>1 DEF IInv, TypeOK, HeadersValid
  <2>3. id \in Serializations(h, raw)
    BY <1>1, <2>1 DEF Serializations, StorableIds
  <2>4. ASSUME NEW other \in Serializations(h, raw) PROVE other = id
    <3>1. /\ other \in [index : 0 .. Len(h.dependencies), local : LocalIds]
          /\ other.local = id.local
          /\ slots[OwnerOf(h, other)] = slots[OwnerOf(h, id)]
      BY <1>1, <2>1 DEF Serializations, StorableIds
    <3>2. OwnerOf(h, other) = OwnerOf(h, id)
      <4>1. OwnerOf(h, id) \in PackageIds /\ slots[OwnerOf(h, id)].class # "Overlay"
        BY <1>1, TranslationsEncode DEF Encodable
      <4>2. OwnerOf(h, other) \in PackageIds
        BY <2>2, <3>1, OwnerIsPackage
      <4> QED
        BY <1>1, <3>1, <4>1, <4>2 DEF IInv, BuildConsistent, SlotsDistinct, NoSlot
    <3>3. other.index = id.index
      BY <1>1, <2>2, <3>1, <3>2 DEF OwnerOf, ValidHeader, StorableIds, Headers
    <3> QED
      BY <1>1, <3>1, <3>3 DEF StorableIds
  <2> QED
    BY <2>3, <2>4
<1>2. IInv => SerializingInvertsResolving
  BY <1>1 DEF SerializingInvertsResolving
<1> QED
  BY <1>2, BuildInvariant, PTL

(***************************************************************************)
(* What is built once the packages have their slots: the streaming winners *)
(* and the chains of the record index.                                     *)
(***************************************************************************)

\* The runtime ids of the streaming overrides and of the records of package k.
StreamedIds(k) == {Translate(packages[k], id) : id \in packages[k].streaming}
\* The runtime ids of the records of package k.
RecordedIds(k) == {Translate(packages[k], id) : id \in packages[k].records}

\* The winners when the packages up to n have been streamed.
StreamedUpTo(n) ==
  /\ DOMAIN streamingWinners = UNION {StreamedIds(k) : k \in 1 .. n}
  /\ \A raw \in DOMAIN streamingWinners :
       /\ streamingWinners[raw] \in 1 .. n
       /\ raw \in StreamedIds(streamingWinners[raw])
       /\ \A k \in 1 .. n : raw \in StreamedIds(k) => k <= streamingWinners[raw]

\* The chains when the packages up to n have been indexed.
ChainedUpTo(n) ==
  /\ DOMAIN chains = UNION {RecordedIds(k) : k \in 1 .. n}
  /\ \A raw \in DOMAIN chains :
       /\ chains[raw] \in Seq(1 .. n)
       /\ \A k \in 1 .. n : raw \in RecordedIds(k) <=>
                              \E i \in DOMAIN chains[raw] : chains[raw][i] = k
       /\ \A i \in 2 .. Len(chains[raw]) : chains[raw][i - 1] < chains[raw][i]

\* What is streamed so far, package by package.
StreamInv ==
  /\ phase = "packages" => streamingWinners = <<>>
  /\ phase = "incompatibilities" => streamingWinners = <<>> /\ next = 1
  /\ phase = "streaming" => \A n \in Nat : n = next - 1 => StreamedUpTo(n)
  /\ phase \in {"ready", "indexing", "indexed"} =>
       \A n \in Nat : n = Len(packages) => StreamedUpTo(n)

\* The chains hold the packages that were indexed.
ChainInv ==
  /\ phase \in {"packages", "incompatibilities", "streaming"} => chains = <<>>
  /\ phase = "ready" => chains = <<>> /\ next = 1
  /\ phase = "indexing" => \A n \in Nat : n = next - 1 => ChainedUpTo(n)
  /\ phase = "indexed" => \A n \in Nat : n = Len(packages) => ChainedUpTo(n)
  /\ OverridesFollowOwner

\* The inductive invariant of building and indexing.
IndexInv == IInv /\ StreamInv /\ ChainInv

\* It holds before anything is built.
LEMMA InitIndexInv == Init => IndexInv
BY InitIInv DEF Init, IndexInv, StreamInv, ChainInv, OverridesFollowOwner

(***************************************************************************)
(* The streaming winners.                                                  *)
(***************************************************************************)

\* A stream that begins has nothing.
LEMMA NothingStreamed ==
  ASSUME streamingWinners = <<>>
  PROVE  StreamedUpTo(0)
BY DEF StreamedUpTo

\* A package that is streamed adds its records.
LEMMA StreamPackageExtends ==
  ASSUME NEW n \in Nat \ {0}, next = n, StreamedUpTo(n - 1), StreamPackage
  PROVE  StreamedUpTo(n)'
<1>1. ASSUME NEW k PROVE StreamedIds(k)' = StreamedIds(k)
  BY DEF StreamPackage, StreamedIds, Translate, OwnerOf
<1>2. {Translate(Current, id) : id \in Current.streaming} = StreamedIds(n)
  BY DEF StreamedIds, Current
<1>3. streamingWinners' =
        [raw \in DOMAIN streamingWinners \cup StreamedIds(n) |->
           IF raw \in StreamedIds(n) THEN n ELSE streamingWinners[raw]]
  BY <1>2 DEF StreamPackage, Overwrite
<1>4. DOMAIN streamingWinners' = UNION {StreamedIds(k)' : k \in 1 .. n}
  <2>1. UNION {StreamedIds(k) : k \in 1 .. n}
          = (UNION {StreamedIds(k) : k \in 1 .. n - 1}) \cup StreamedIds(n)
    OBVIOUS
  <2>2. UNION {StreamedIds(k)' : k \in 1 .. n} = UNION {StreamedIds(k) : k \in 1 .. n}
    BY <1>1
  <2>3. DOMAIN streamingWinners = UNION {StreamedIds(k) : k \in 1 .. n - 1}
    BY DEF StreamedUpTo
  <2> QED
    BY <1>3, <2>1, <2>2, <2>3
<1>5. ASSUME NEW raw \in DOMAIN streamingWinners'
      PROVE  /\ streamingWinners'[raw] \in 1 .. n
             /\ raw \in StreamedIds(streamingWinners'[raw])
             /\ \A k \in 1 .. n : raw \in StreamedIds(k) => k <= streamingWinners'[raw]
  <2>1. CASE raw \in StreamedIds(n)
    BY <1>3, <2>1
  <2>2. CASE raw \notin StreamedIds(n)
    <3>1. raw \in DOMAIN streamingWinners /\ streamingWinners'[raw] = streamingWinners[raw]
      BY <1>3, <2>2
    <3>2. /\ streamingWinners[raw] \in 1 .. n - 1
          /\ raw \in StreamedIds(streamingWinners[raw])
          /\ \A k \in 1 .. n - 1 : raw \in StreamedIds(k) => k <= streamingWinners[raw]
      BY <3>1 DEF StreamedUpTo
    <3> QED
      BY <2>2, <3>1, <3>2
  <2> QED
    BY <2>1, <2>2
<1>6. ASSUME NEW raw \in DOMAIN streamingWinners'
      PROVE  StreamedIds(streamingWinners[raw])' = StreamedIds(streamingWinners'[raw])
  BY DEF StreamPackage, StreamedIds, Translate, OwnerOf
<1> QED
  BY <1>1, <1>4, <1>5, <1>6 DEF StreamedUpTo

\* A step that keeps the packages and the slots.
LEMMA SameIds ==
  ASSUME UNCHANGED <<packages, slots>>
  PROVE  /\ \A k : StreamedIds(k)' = StreamedIds(k)
         /\ \A k : RecordedIds(k)' = RecordedIds(k)
BY DEF StreamedIds, RecordedIds, Translate, OwnerOf

\* What leaves packages, slots and stream alone leaves what is streamed.
LEMMA SameWinners ==
  ASSUME NEW n \in Nat, StreamedUpTo(n), UNCHANGED <<packages, slots, streamingWinners>>
  PROVE  StreamedUpTo(n)'
<1>1. \A k : StreamedIds(k)' = StreamedIds(k)
  BY SameIds
<1>2. ASSUME NEW raw \in DOMAIN streamingWinners
      PROVE  StreamedIds(streamingWinners[raw])' = StreamedIds(streamingWinners[raw])
  BY DEF StreamedIds, Translate, OwnerOf
<1>3. UNION {StreamedIds(k)' : k \in 1 .. n} = UNION {StreamedIds(k) : k \in 1 .. n}
  BY <1>1
<1> QED
  BY <1>1, <1>2, <1>3 DEF StreamedUpTo

\* What leaves packages, slots and chains alone leaves what is indexed.
LEMMA SameChains ==
  ASSUME NEW n \in Nat, ChainedUpTo(n), UNCHANGED <<packages, slots, chains>>
  PROVE  ChainedUpTo(n)'
<1>1. \A k : RecordedIds(k)' = RecordedIds(k)
  BY SameIds
<1>2. UNION {RecordedIds(k)' : k \in 1 .. n} = UNION {RecordedIds(k) : k \in 1 .. n}
  BY <1>1
<1> QED
  BY <1>1, <1>2 DEF ChainedUpTo

(***************************************************************************)
(* The chains.                                                             *)
(***************************************************************************)

\* An index that begins has no chains.
LEMMA NothingChained ==
  ASSUME chains = <<>>
  PROVE  ChainedUpTo(0)
BY DEF ChainedUpTo

\* What IndexPackage makes of the chains: the package ends the chain of every record it
\* holds.
LEMMA IndexPackageEffect ==
  ASSUME NEW n \in Nat \ {0}, next = n, ChainedUpTo(n - 1), IndexPackage
  PROVE  /\ DOMAIN chains' = DOMAIN chains \cup RecordedIds(n)
         /\ \A raw \in DOMAIN chains : chains[raw] \in Seq(1 .. n - 1)
         /\ \A raw \in RecordedIds(n) \cap DOMAIN chains : chains'[raw] = Append(chains[raw], n)
         /\ \A raw \in RecordedIds(n) \ DOMAIN chains : chains'[raw] = <<n>>
         /\ \A raw \in DOMAIN chains \ RecordedIds(n) : chains'[raw] = chains[raw]
<1>1. {Translate(Current, id) : id \in Current.records} = RecordedIds(n)
  BY DEF RecordedIds, Current
<1>2. chains' = [raw \in DOMAIN chains \cup RecordedIds(n) |->
                   IF raw \in RecordedIds(n) THEN ExtendedChain(raw) ELSE chains[raw]]
  BY <1>1 DEF IndexPackage
<1>3. \A raw \in DOMAIN chains : chains[raw] \in Seq(1 .. n - 1)
  BY DEF ChainedUpTo
<1>4. \A raw \in RecordedIds(n) \cap DOMAIN chains : ExtendedChain(raw) = Append(chains[raw], n)
  BY DEF ExtendedChain, Chain
<1>5. \A raw \in RecordedIds(n) \ DOMAIN chains : ExtendedChain(raw) = <<n>>
  BY DEF ExtendedChain, Chain
<1> QED
  BY <1>2, <1>3, <1>4, <1>5

\* A package that is indexed is put at the end of the chains of its records.
LEMMA IndexPackageExtends ==
  ASSUME NEW n \in Nat \ {0}, next = n, ChainedUpTo(n - 1), IndexPackage
  PROVE  ChainedUpTo(n)'
<1>1. UNCHANGED <<packages, slots>>
  BY DEF IndexPackage
<1>2. \A k : RecordedIds(k)' = RecordedIds(k)
  BY <1>1, SameIds
<1>3. DOMAIN chains' = UNION {RecordedIds(k)' : k \in 1 .. n}
  <2>1. UNION {RecordedIds(k) : k \in 1 .. n}
          = (UNION {RecordedIds(k) : k \in 1 .. n - 1}) \cup RecordedIds(n)
    OBVIOUS
  <2>2. UNION {RecordedIds(k)' : k \in 1 .. n} = UNION {RecordedIds(k) : k \in 1 .. n}
    BY <1>2
  <2>3. DOMAIN chains = UNION {RecordedIds(k) : k \in 1 .. n - 1}
    BY DEF ChainedUpTo
  <2> QED
    BY <2>1, <2>2, <2>3, IndexPackageEffect
<1>4. ASSUME NEW raw \in DOMAIN chains'
      PROVE  /\ chains'[raw] \in Seq(1 .. n)
             /\ \A k \in 1 .. n : raw \in RecordedIds(k) <=>
                                    \E i \in DOMAIN chains'[raw] : chains'[raw][i] = k
             /\ \A i \in 2 .. Len(chains'[raw]) : chains'[raw][i - 1] < chains'[raw][i]
  <2> DEFINE c == chains[raw]
             d == chains'[raw]
  <2>1. CASE raw \in DOMAIN chains
    <3>1. /\ c \in Seq(1 .. n - 1)
          /\ \A k \in 1 .. n - 1 : raw \in RecordedIds(k) <=> \E i \in DOMAIN c : c[i] = k
          /\ \A i \in 2 .. Len(c) : c[i - 1] < c[i]
      BY <2>1 DEF ChainedUpTo
    <3>2. CASE raw \in RecordedIds(n)
      <4>1. d = Append(c, n)
        BY <2>1, <3>2, IndexPackageEffect
      <4> HIDE DEF c, d
      <4>2. d \in Seq(1 .. n) /\ Len(d) = Len(c) + 1 /\ Len(c) \in Nat
        BY <3>1, <4>1
      <4>3. DOMAIN c = 1 .. Len(c) /\ DOMAIN d = 1 .. Len(c) + 1
        BY <3>1, <4>1, <4>2
      <4>4. d[Len(c) + 1] = n /\ \A i \in 1 .. Len(c) : d[i] = c[i] /\ c[i] \in 1 .. n - 1
        BY <3>1, <4>1, <4>2, <4>3
      <4>5. ASSUME NEW k \in 1 .. n
            PROVE  raw \in RecordedIds(k) <=> \E i \in DOMAIN d : d[i] = k
        <5>1. CASE k = n
          BY <3>2, <4>2, <4>3, <4>4, <5>1
        <5>2. CASE k \in 1 .. n - 1
          <6>1. raw \in RecordedIds(k) <=> \E i \in 1 .. Len(c) : c[i] = k
            BY <3>1, <4>3, <5>2
          <6>2. (\E i \in 1 .. Len(c) : c[i] = k) <=> \E i \in 1 .. Len(c) : d[i] = k
            BY <4>4
          <6>3. d[Len(c) + 1] # k
            BY <4>4, <5>2
          <6>4. 1 .. Len(c) + 1 = (1 .. Len(c)) \cup {Len(c) + 1}
            BY <4>2
          <6> QED
            BY <4>3, <6>1, <6>2, <6>3, <6>4
        <5> QED
          BY <5>1, <5>2
      <4>6. ASSUME NEW i \in 2 .. Len(d) PROVE d[i - 1] < d[i]
        <5>1. CASE i = Len(c) + 1
          BY <4>2, <4>4, <5>1
        <5>2. CASE i \in 2 .. Len(c)
          <6>1. i - 1 \in 1 .. Len(c) /\ i \in 1 .. Len(c)
            BY <4>2, <5>2
          <6>2. d[i - 1] = c[i - 1] /\ d[i] = c[i]
            BY <4>4, <6>1
          <6> QED
            BY <3>1, <5>2, <6>2
        <5> QED
          BY <4>2, <5>1, <5>2
      <4> QED
        BY <4>2, <4>5, <4>6 DEF d
    <3>3. CASE raw \notin RecordedIds(n)
      <4>1. d = c
        BY <2>1, <3>3, IndexPackageEffect
      <4>2. c \in Seq(1 .. n) /\ \A i \in DOMAIN c : c[i] # n
        BY <3>1
      <4>3. ASSUME NEW k \in 1 .. n
            PROVE  raw \in RecordedIds(k) <=> \E i \in DOMAIN c : c[i] = k
        BY <3>1, <3>3, <4>2
      <4> QED
        BY <3>1, <4>1, <4>2, <4>3
    <3> QED
      BY <3>2, <3>3
  <2>2. CASE raw \notin DOMAIN chains
    <3>1. d = <<n>> /\ raw \in RecordedIds(n)
      BY <2>2, IndexPackageEffect
    <3>2. \A k \in 1 .. n - 1 : raw \notin RecordedIds(k)
      BY <2>2 DEF ChainedUpTo
    <3> QED
      BY <3>1, <3>2
  <2> QED
    BY <2>1, <2>2
<1> QED
  BY <1>2, <1>3, <1>4 DEF ChainedUpTo

\* The first package of the chain of a record holds the record, so its owner is that
\* package or one of its dependencies, all of which come before it.
LEMMA OwnerIsNotBehind ==
  ASSUME IInv, phase = "indexing", NEW k \in DOMAIN packages, NEW id \in packages[k].records,
         Translates(packages[k], id)
  PROVE  \E o \in DOMAIN packages :
           /\ slots[packages[o].id] = SlotOf(Translate(packages[k], id))
           /\ o <= k
<1> DEFINE h == packages[k]
           owner == OwnerOf(h, id)
<1>1. h \in Headers /\ k \in Nat /\ packages \in Seq(Headers)
  BY DEF IInv, TypeOK
<1>2. id \in RecordIds /\ h.dependencies \in Seq(Relationships)
  BY <1>1 DEF Headers
<1>3. id \in StorableIds(h)
  BY <1>2 DEF Translates, StorableIds, RecordIds
<1>4. SlotOf(Translate(h, id)) = slots[owner]
  BY <1>3, TranslationsEncode, RuntimeIdDecodes DEF Translate
<1>5. CASE id.index < Len(h.dependencies)
  <2>1. id.index + 1 \in DOMAIN h.dependencies /\ owner = h.dependencies[id.index + 1].package
    BY <1>2, <1>5 DEF RecordIds, OwnerOf
  <2>2. InOrder(k)
    BY DEF IInv, BuildConsistent, Accepted
  <2>3. PICK o \in 1 .. k - 1 : packages[o].id = owner
    BY <2>1, <2>2 DEF InOrder
  <2> QED
    BY <1>1, <1>4, <2>3
<1>6. CASE ~ (id.index < Len(h.dependencies))
  BY <1>1, <1>4, <1>6 DEF OwnerOf
<1> QED
  BY <1>5, <1>6

\* No chain gets a package in front of the owner of its record.
LEMMA IndexPackageKeepsOwnersFirst ==
  ASSUME IInv, NEW n \in Nat \ {0}, next = n, ChainedUpTo(n - 1), OverridesFollowOwner,
         IndexPackage
  PROVE  OverridesFollowOwner'
<1>1. UNCHANGED <<packages, slots>> /\ n \in DOMAIN packages /\ phase = "indexing"
  BY DEF IndexPackage, IInv, TypeOK
<1> SUFFICES ASSUME NEW raw \in DOMAIN chains'
             PROVE  \E o \in DOMAIN packages : /\ slots[packages[o].id] = SlotOf(raw)
                                               /\ o <= chains'[raw][1]
  BY <1>1 DEF OverridesFollowOwner, SlotOf
<1>2. CASE raw \in DOMAIN chains
  <2>1. chains[raw] \in Seq(1 .. n - 1)
    BY <1>2, IndexPackageEffect
  <2>2. PICK k \in 1 .. n - 1 : raw \in RecordedIds(k)
    BY <1>2 DEF ChainedUpTo
  <2>3. chains[raw] # <<>>
    BY <1>2, <2>2 DEF ChainedUpTo
  <2>4. chains'[raw][1] = chains[raw][1]
    <3>1. CASE raw \in RecordedIds(n)
      <4> DEFINE c == chains[raw]
      <4>1. chains'[raw] = Append(c, n)
        BY <1>2, <3>1, IndexPackageEffect
      <4>2. c \in Seq(Nat) /\ c # <<>>
        BY <2>1, <2>3
      <4> HIDE DEF c
      <4>3. Append(c, n)[1] = c[1]
        BY <4>2
      <4> QED
        BY <4>1, <4>3 DEF c
    <3>2. CASE raw \notin RecordedIds(n)
      BY <1>2, <3>2, IndexPackageEffect
    <3> QED
      BY <3>1, <3>2
  <2> QED
    BY <1>2, <2>4 DEF OverridesFollowOwner
<1>3. CASE raw \notin DOMAIN chains
  <2>1. raw \in RecordedIds(n) /\ chains'[raw] = <<n>>
    BY <1>3, IndexPackageEffect
  <2>2. PICK id \in packages[n].records : raw = Translate(packages[n], id)
    BY <2>1 DEF RecordedIds
  <2>3. Translates(packages[n], id)
    BY DEF IndexPackage, Current
  <2> QED
    BY <1>1, <2>1, <2>2, <2>3, OwnerIsNotBehind
<1> QED
  BY <1>2, <1>3

(***************************************************************************)
(* The inductive invariant of the index.                                   *)
(***************************************************************************)

\* The steps that touch neither slots, winners nor chains.
Elsewhere ==
  \/ RefuseDuplicate \/ RefuseDependency \/ RefuseSlot \/ AllLoaded
  \/ RefuseIncompatible \/ AcceptCompatible \/ RefuseStreaming \/ Built
  \/ RefuseIndex \/ StartIndex \/ RefuseRecord \/ Indexed \/ UNCHANGED vars

\* The steps that touch neither.
LEMMA ElsewherePhases ==
  ASSUME Elsewhere
  PROVE  \/ phase' = "failed"
         \/ phase = "packages" /\ phase' = "incompatibilities" /\ next' = 1
         \/ phase = "incompatibilities" /\ phase' = "streaming" /\ next' = next
         \/ phase = "streaming" /\ next > Len(packages) /\ phase' = "ready" /\ next' = 1
         \/ phase = "ready" /\ phase' = "indexing" /\ next' = next
         \/ phase = "indexing" /\ next > Len(packages) /\ phase' = "indexed" /\ next' = next
         \/ phase' = phase /\ next' = next
<1>1. CASE RefuseDuplicate \/ RefuseDependency \/ RefuseSlot
  BY <1>1 DEF RefuseDuplicate, RefuseDependency, RefuseSlot, Fail
<1>2. CASE RefuseIncompatible \/ RefuseStreaming \/ RefuseIndex \/ RefuseRecord
  BY <1>2 DEF RefuseIncompatible, RefuseStreaming, RefuseIndex, RefuseRecord, Fail
<1>3. CASE AllLoaded \/ AcceptCompatible \/ Built
  BY <1>3 DEF AllLoaded, AcceptCompatible, Built
<1>4. CASE StartIndex \/ Indexed \/ UNCHANGED vars
  BY <1>4 DEF StartIndex, Indexed, vars
<1> QED
  BY <1>1, <1>2, <1>3, <1>4 DEF Elsewhere

\* They leave the chains and the stream.
LEMMA ElsewhereKeeps ==
  ASSUME Elsewhere
  PROVE  UNCHANGED <<packages, slots, streamingWinners, chains>>
BY DEF Elsewhere, Fail, vars, RefuseDuplicate, RefuseDependency, RefuseSlot, AllLoaded,
   RefuseIncompatible, AcceptCompatible, RefuseStreaming, Built, RefuseIndex, StartIndex,
   RefuseRecord, Indexed

\* So they keep the invariant.
LEMMA ElsewherePreserves ==
  ASSUME IndexInv, Elsewhere
  PROVE  StreamInv' /\ ChainInv'
<1>1. UNCHANGED <<packages, slots, streamingWinners, chains>>
  BY ElsewhereKeeps
<1>2. OverridesFollowOwner'
  BY <1>1 DEF IndexInv, ChainInv, OverridesFollowOwner, SlotOf
<1>3. packages \in Seq(Headers) /\ Len(packages) \in Nat /\ next \in 1 .. Len(packages) + 1
      /\ phase \in Phases
  BY DEF IndexInv, IInv, TypeOK
<1>4. ASSUME phase' = "streaming", NEW n \in Nat, n = next' - 1
      PROVE  StreamedUpTo(n)'
  <2>1. StreamedUpTo(n)
    BY <1>3, <1>4, ElsewherePhases, NothingStreamed DEF IndexInv, StreamInv
  <2> QED
    BY <1>1, <2>1, SameWinners
<1>5. ASSUME phase' \in {"ready", "indexing", "indexed"}, NEW n \in Nat, n = Len(packages')
      PROVE  StreamedUpTo(n)'
  <2>1. StreamedUpTo(n)
    BY <1>1, <1>3, <1>5, ElsewherePhases DEF IndexInv, StreamInv
  <2> QED
    BY <1>1, <2>1, SameWinners
<1>6. StreamInv'
  BY <1>1, <1>4, <1>5, ElsewherePhases DEF IndexInv, StreamInv
<1>7. ASSUME phase' = "indexing", NEW n \in Nat, n = next' - 1
      PROVE  ChainedUpTo(n)'
  <2>1. ChainedUpTo(n)
    BY <1>3, <1>7, ElsewherePhases, NothingChained DEF IndexInv, ChainInv
  <2> QED
    BY <1>1, <2>1, SameChains
<1>8. ASSUME phase' = "indexed", NEW n \in Nat, n = Len(packages')
      PROVE  ChainedUpTo(n)'
  <2>1. ChainedUpTo(n)
    BY <1>1, <1>3, <1>8, ElsewherePhases DEF IndexInv, ChainInv
  <2> QED
    BY <1>1, <2>1, SameChains
<1>9. ChainInv'
  BY <1>1, <1>2, <1>7, <1>8, ElsewherePhases DEF IndexInv, ChainInv
<1> QED
  BY <1>6, <1>9

\* Every step keeps it.
LEMMA NextIndexInv == IndexInv /\ [Next]_vars => IndexInv'
<1> SUFFICES ASSUME IndexInv, [Next]_vars PROVE IndexInv'
  OBVIOUS
<1>1. IInv'
  BY LoadPackagePreserves, OtherStepPreserves DEF IndexInv
<1>2. PICK n \in Nat \ {0} : n = next
  BY DEF IndexInv, IInv, TypeOK
<1>3. CASE Elsewhere
  BY <1>1, <1>3, ElsewherePreserves DEF IndexInv
<1>4. CASE LoadPackage
  <2>1. /\ phase' = "packages"
        /\ streamingWinners' = <<>>
        /\ chains' = <<>>
    BY <1>4 DEF LoadPackage, IndexInv, StreamInv, ChainInv
  <2> QED
    BY <1>1, <2>1 DEF IndexInv, StreamInv, ChainInv, OverridesFollowOwner
<1>5. CASE StreamPackage
  <2>1. StreamedUpTo(n - 1)
    BY <1>2, <1>5 DEF StreamPackage, IndexInv, StreamInv
  <2>2. StreamedUpTo(n)'
    BY <1>2, <1>5, <2>1, StreamPackageExtends
  <2>3. phase' = "streaming" /\ next' - 1 = n /\ chains' = <<>>
    BY <1>2, <1>5 DEF StreamPackage, IndexInv, ChainInv
  <2> QED
    BY <1>1, <2>2, <2>3 DEF IndexInv, StreamInv, ChainInv, OverridesFollowOwner
<1>6. CASE IndexPackage
  <2>1. ChainedUpTo(n - 1)
    BY <1>2, <1>6 DEF IndexPackage, IndexInv, ChainInv
  <2>2. ChainedUpTo(n)'
    BY <1>2, <1>6, <2>1, IndexPackageExtends
  <2>3. OverridesFollowOwner'
    BY <1>2, <1>6, <2>1, IndexPackageKeepsOwnersFirst DEF IndexInv, ChainInv
  <2>4. phase = "indexing" /\ phase' = "indexing" /\ next' - 1 = n
    BY <1>2, <1>6 DEF IndexPackage
  <2>5. ChainInv'
    BY <2>2, <2>3, <2>4 DEF ChainInv
  <2>6. UNCHANGED <<packages, slots, streamingWinners>>
    BY <1>6 DEF IndexPackage
  <2>7. ASSUME NEW m \in Nat, m = Len(packages) PROVE StreamedUpTo(m)'
    BY <2>4, <2>6, <2>7, SameWinners DEF IndexInv, StreamInv
  <2> QED
    BY <1>1, <2>4, <2>5, <2>6, <2>7 DEF IndexInv, StreamInv
<1> QED
  BY <1>3, <1>4, <1>5, <1>6 DEF Next, Elsewhere

\* It holds of every index.
LEMMA IndexInvariant == Spec => []IndexInv
BY InitIndexInv, NextIndexInv, PTL DEF Spec

(***************************************************************************)
(* The theorems about what was built.                                      *)
(***************************************************************************)

\* The streaming winner of a record is the last package that declares an override of it,
\* and every record with a declared override has a winner.
THEOREM LastStreamingOverrideAlwaysWins == Spec => []LastStreamingOverrideWins
<1>1. IndexInv => LastStreamingOverrideWins
  <2> SUFFICES ASSUME IndexInv, phase \in {"ready", "indexing", "indexed"}
               PROVE  LastStreamingOverrideWins
    BY DEF LastStreamingOverrideWins
  <2> PICK n \in Nat : n = Len(packages) /\ DOMAIN packages = 1 .. n
    BY DEF IndexInv, IInv, TypeOK
  <2>1. StreamedUpTo(n)
    BY DEF IndexInv, StreamInv
  <2>2. \A raw : \A k \in DOMAIN packages :
          k \in Holders(raw, StreamedBy) <=> raw \in StreamedIds(k)
    BY DEF Holders, StreamedBy, StreamedIds
  <2>3. \A raw : Holders(raw, StreamedBy) \subseteq DOMAIN packages
    BY DEF Holders
  <2>4. DOMAIN streamingWinners
          = UNION {{Translate(packages[k], id) : id \in packages[k].streaming}
                     : k \in DOMAIN packages}
    BY <2>1 DEF StreamedUpTo, StreamedIds
  <2> QED
    BY <2>1, <2>2, <2>3, <2>4 DEF StreamedUpTo, LastStreamingOverrideWins
<1> QED
  BY <1>1, IndexInvariant, PTL

\* The chain of a record lists the packages that hold it, all of them, each once and in
\* load order.
THEOREM ChainsAlwaysComplete == Spec => []ChainsAreComplete
<1>1. IndexInv => ChainsAreComplete
  <2> SUFFICES ASSUME IndexInv, phase = "indexed"
               PROVE  ChainsAreComplete
    BY DEF ChainsAreComplete
  <2> PICK n \in Nat : n = Len(packages) /\ DOMAIN packages = 1 .. n
    BY DEF IndexInv, IInv, TypeOK
  <2>1. ChainedUpTo(n)
    BY DEF IndexInv, ChainInv
  <2>2. \A raw : \A k \in DOMAIN packages :
          k \in Holders(raw, RecordsOf) <=> raw \in RecordedIds(k)
    BY DEF Holders, RecordsOf, RecordedIds
  <2>3. \A raw : Holders(raw, RecordsOf) \subseteq DOMAIN packages
    BY DEF Holders
  <2>4. DOMAIN chains
          = UNION {{Translate(packages[k], id) : id \in packages[k].records}
                     : k \in DOMAIN packages}
    BY <2>1 DEF ChainedUpTo, RecordedIds
  <2>5. ASSUME NEW raw \in DOMAIN chains
        PROVE  {chains[raw][i] : i \in DOMAIN chains[raw]} = Holders(raw, RecordsOf)
    <3> DEFINE listed == {chains[raw][i] : i \in DOMAIN chains[raw]}
    <3>1. listed \subseteq 1 .. n
      BY <2>1 DEF ChainedUpTo
    <3>2. \A k \in 1 .. n : raw \in RecordedIds(k) <=> k \in listed
      BY <2>1 DEF ChainedUpTo
    <3> HIDE DEF listed
    <3>3. listed = Holders(raw, RecordsOf)
      BY <2>2, <2>3, <3>1, <3>2
    <3> QED
      BY <3>3 DEF listed
  <2> QED
    BY <2>1, <2>4, <2>5 DEF ChainedUpTo, ChainsAreComplete
<1> QED
  BY <1>1, IndexInvariant, PTL

\* No chain begins before the owner of its record is loaded, whether or not the index is
\* finished.
THEOREM OverridesAlwaysFollowOwner == Spec => []OverridesFollowOwner
<1>1. IndexInv => OverridesFollowOwner
  BY DEF IndexInv, ChainInv
<1> QED
  BY <1>1, IndexInvariant, PTL

(***************************************************************************)
(* The passes of the inspection.                                           *)
(***************************************************************************)

\* The issue of a package whose dependency is not available.
Unavailable(e) == Issue("DependencyUnavailable", e[1], e[2].package)

\* All issues there could be.
Possible == DirectIssues \cup {Unavailable(e) : e \in Declared}

\* A pass finds no other issues than those there can be.
LEMMA PassStaysPossible ==
  ASSUME NEW issues, issues \subseteq Possible
  PROVE  Pass(issues) \subseteq Possible
BY DEF Pass, Possible, Unavailable

\* The recursive definition of IssuesAfter has a solution.
LEMMA PassesFollow ==
  /\ IssuesAfter[0] = DirectIssues
  /\ \A n \in Nat : IssuesAfter[n + 1] = Pass(IssuesAfter[n])
<1> DEFINE P == SUBSET Possible
           step == [issues \in P |-> Pass(issues)]
           Solves(f) == f = [n \in Nat |-> IF n = 0 THEN DirectIssues ELSE Pass(f[n - 1])]
<1>1. DirectIssues \in P
  BY DEF Possible
<1>2. step \in [P -> P]
  BY PassStaysPossible
<1> HIDE DEF P, step
<1>3. PICK f \in [Nat -> P] : f[0] = DirectIssues /\ \A n \in Nat : f[n + 1] = step[f[n]]
  BY <1>1, <1>2, Iterates
<1>4. ASSUME NEW n \in Nat, n # 0 PROVE f[n] = Pass(f[n - 1])
  <2>1. n - 1 \in Nat /\ (n - 1) + 1 = n
    BY <1>4
  <2>2. f[n] = step[f[n - 1]]
    BY <1>3, <2>1
  <2> QED
    BY <1>3, <2>1, <2>2 DEF step
<1>5. Solves(f)
  BY <1>3, <1>4
<1>6. IssuesAfter = CHOOSE g : Solves(g)
  BY DEF IssuesAfter
<1> HIDE DEF Solves
<1>7. Solves(IssuesAfter)
  BY <1>5, <1>6
<1>8. ASSUME NEW n \in Nat PROVE (n + 1) - 1 = n /\ n + 1 # 0 /\ n + 1 \in Nat
  OBVIOUS
<1> QED
  BY <1>7, <1>8 DEF Solves

\* What a pass adds to the packages with an error.
LEMMA ErroredByPass ==
  ASSUME NEW issues
  PROVE  Errored(Pass(issues)) =
           Errored(issues) \cup {e[1] : e \in {e \in Declared : e[2].package \in Errored(issues)}}
<1> DEFINE new == {e \in Declared : e[2].package \in Errored(issues)}
<1>1. Pass(issues) = issues \cup {Unavailable(e) : e \in new}
  BY DEF Pass, Unavailable
<1>2. \A e : Unavailable(e).package = e[1] /\ Unavailable(e).code # "IncompatiblePackage"
  BY DEF Unavailable, Issue
<1> HIDE DEF new
<1>3. ASSUME NEW p PROVE p \in Errored(Pass(issues)) <=> p \in Errored(issues) \cup {e[1] : e \in new}
  BY <1>1, <1>2 DEF Errored
<1> QED
  BY <1>3 DEF new

\* Every package with an issue, and every one that declares a dependency, is listed.
LEMMA DeclaredIsListed == \A e \in Declared : e[1] \in Listed
BY DEF Declared, Listed

\* Packages with issues are in the list.
LEMMA ErroredIsListed == \A n \in Nat : Errored(IssuesAfter[n]) \subseteq Listed
<1> DEFINE S == {n \in Nat : Errored(IssuesAfter[n]) \subseteq Listed}
<1>1. 0 \in S
  BY PassesFollow, DeclaredIsListed DEF Errored, DirectIssues, Issue, Listed
<1>2. ASSUME NEW n \in Nat, n \in S PROVE n + 1 \in S
  BY <1>2, PassesFollow, ErroredByPass, DeclaredIsListed
<1> HIDE DEF S
<1>3. \A n \in Nat : n \in S
  BY <1>1, <1>2, EveryNumber
<1> QED
  BY <1>3 DEF S

\* The issues found first stay.
LEMMA DirectIssuesStay == \A n \in Nat : DirectIssues \subseteq IssuesAfter[n]
<1> DEFINE S == {n \in Nat : DirectIssues \subseteq IssuesAfter[n]}
<1>1. 0 \in S
  BY PassesFollow
<1>2. ASSUME NEW n \in Nat, n \in S PROVE n + 1 \in S
  BY <1>2, PassesFollow DEF Pass
<1> HIDE DEF S
<1>3. \A n \in Nat : n \in S
  BY <1>1, <1>2, EveryNumber
<1> QED
  BY <1>3 DEF S

\* A list has finitely many packages.
LEMMA ListedIsFinite ==
  ASSUME packages \in Seq(Headers)
  PROVE  /\ IsFiniteSet(Listed)
         /\ Cardinality(Listed) <= Len(packages)
         /\ Cardinality(Listed) = Len(packages) =>
              \A j, k \in DOMAIN packages : packages[j].id = packages[k].id => j = k
<1> DEFINE f == [k \in 1 .. Len(packages) |-> packages[k].id]
<1>1. f \in Surjection(1 .. Len(packages), Listed)
  BY DEF Listed, Surjection
<1>2. Len(packages) \in Nat /\ DOMAIN packages = 1 .. Len(packages)
  OBVIOUS
<1>3. IsFiniteSet(1 .. Len(packages)) /\ Cardinality(1 .. Len(packages)) = Len(packages)
  BY <1>2, PlacesAreFinite
<1> HIDE DEF f
<1>4. /\ IsFiniteSet(Listed)
      /\ Cardinality(Listed) <= Len(packages)
      /\ Cardinality(Listed) = Len(packages) => f \in Injection(1 .. Len(packages), Listed)
  BY <1>1, <1>3, FS_Surjection
<1> QED
  BY <1>2, <1>4 DEF Injection, IsInjective, f

\* A set of packages that has all it needs has no errors.
LEMMA SelfSufficientHasNoErrors ==
  ASSUME NEW S \in SUBSET Listed, SelfSufficient(S)
  PROVE  \A n \in Nat : S \cap Errored(IssuesAfter[n]) = {}
<1> DEFINE T == {n \in Nat : S \cap Errored(IssuesAfter[n]) = {}}
<1>1. 0 \in T
  <2> SUFFICES ASSUME NEW i \in DirectIssues, i.code # "IncompatiblePackage", i.package \in S
               PROVE  FALSE
    BY PassesFollow DEF Errored
  <2>1. PICK e \in Declared :
          /\ i.package = e[1]
          /\ \/ e[2].package \notin Listed
             \/ ById(e[2].package).version \notin e[2].versions
    BY DEF DirectIssues, Issue
  <2> QED
    BY <2>1 DEF SelfSufficient
<1>2. ASSUME NEW n \in Nat, n \in T PROVE n + 1 \in T
  BY <1>2, PassesFollow, ErroredByPass DEF SelfSufficient
<1> HIDE DEF T
<1>3. \A n \in Nat : n \in T
  BY <1>1, <1>2, EveryNumber
<1> QED
  BY <1>3 DEF T

\* A pass that brings no package its first error is followed by one that finds nothing.
LEMMA NothingNewThenNothing ==
  ASSUME NEW issues, Errored(Pass(issues)) = Errored(issues)
  PROVE  Pass(Pass(issues)) = Pass(issues)
BY DEF Pass

\* Either the passes have come to an end or each brought a package its first error.
LEMMA EveryPassFindsAPackage ==
  ASSUME packages \in Seq(Headers)
  PROVE  \A n \in Nat : \/ Cardinality(Errored(IssuesAfter[n])) >= n + 1
                        \/ Pass(IssuesAfter[n]) = IssuesAfter[n]
<1> DEFINE errored(n) == Errored(IssuesAfter[n])
           T == {n \in Nat : \/ Cardinality(errored(n)) >= n + 1
                             \/ Pass(IssuesAfter[n]) = IssuesAfter[n]}
<1>1. \A n \in Nat : IsFiniteSet(errored(n)) /\ Cardinality(errored(n)) \in Nat
  BY ListedIsFinite, ErroredIsListed, FS_Subset, FS_CardinalityType
<1>2. 0 \in T
  <2>1. CASE errored(0) = {}
    BY <2>1 DEF Pass
  <2>2. CASE errored(0) # {}
    <3>1. Cardinality(errored(0)) # 0
      BY <1>1, <2>2, FS_EmptySet
    <3> QED
      BY <1>1, <3>1
  <2> QED
    BY <2>1, <2>2
<1>3. ASSUME NEW n \in Nat, n \in T PROVE n + 1 \in T
  <2>1. IssuesAfter[n + 1] = Pass(IssuesAfter[n])
    BY PassesFollow
  <2>2. CASE Pass(IssuesAfter[n]) = IssuesAfter[n]
    BY <2>1, <2>2
  <2>3. CASE errored(n + 1) = errored(n)
    BY <2>1, <2>3, NothingNewThenNothing
  <2>4. CASE Cardinality(errored(n)) >= n + 1 /\ errored(n + 1) # errored(n)
    <3>1. errored(n) \subseteq errored(n + 1)
      BY <2>1, ErroredByPass
    <3>2. /\ Cardinality(errored(n)) <= Cardinality(errored(n + 1))
          /\ Cardinality(errored(n + 1)) # Cardinality(errored(n))
      <4>1. IsFiniteSet(errored(n + 1)) /\ errored(n) \in SUBSET errored(n + 1)
        BY <1>1, <3>1
      <4> HIDE DEF errored
      <4> QED
        BY <2>4, <4>1, FS_Subset
    <3>3. Cardinality(errored(n)) \in Nat /\ Cardinality(errored(n + 1)) \in Nat
      BY <1>1
    <3> HIDE DEF errored
    <3>4. Cardinality(errored(n + 1)) >= (n + 1) + 1
      BY <2>4, <3>2, <3>3
    <3> QED
      BY <3>4
  <2> QED
    BY <1>3, <2>2, <2>3, <2>4
<1> HIDE DEF T
<1>4. \A n \in Nat : n \in T
  BY <1>2, <1>3, EveryNumber
<1> QED
  BY <1>4 DEF T

\* As many passes as packages find everything.
LEMMA PassesEnd ==
  ASSUME packages \in Seq(Headers)
  PROVE  Pass(Issues) = Issues
<1> DEFINE n == Len(packages)
           E == Errored(Issues)
<1>1. n \in Nat
  OBVIOUS
<1>2. IsFiniteSet(Listed) /\ Cardinality(Listed) <= n /\ E \subseteq Listed
  BY <1>1, ListedIsFinite, ErroredIsListed DEF Issues
<1>3. Cardinality(E) <= Cardinality(Listed)
  BY <1>2, FS_Subset
<1>4. Cardinality(E) \in Nat /\ Cardinality(Listed) \in Nat
  BY <1>2, FS_Subset, FS_CardinalityType
<1>5. Cardinality(E) >= n + 1 \/ Pass(Issues) = Issues
  BY <1>1, EveryPassFindsAPackage DEF Issues
<1> HIDE DEF n, E
<1> QED
  BY <1>1, <1>2, <1>3, <1>4, <1>5

\* The packages that are called available are the largest set of packages that has all it
\* needs, whatever the dependencies are: cycles of packages, packages that come before their
\* dependencies and several versions included; and the passes have ended by then.
THEOREM AvailableAlwaysLargestSelfSufficient == Spec => []AvailableIsLargestSelfSufficient
<1>1. TypeOK => AvailableIsLargestSelfSufficient
  <2> SUFFICES ASSUME TypeOK PROVE AvailableIsLargestSelfSufficient
    OBVIOUS
  <2> DEFINE available == Listed \ Errored(Issues)
  <2>1. packages \in Seq(Headers) /\ Len(packages) \in Nat
    BY DEF TypeOK
  <2>2. Pass(Issues) = Issues /\ DirectIssues \subseteq Issues
    BY <2>1, PassesEnd, DirectIssuesStay DEF Issues
  <2>3. ASSUME NEW e \in Declared, e[1] \in available
        PROVE  e[2].package \in available /\ ById(e[2].package).version \in e[2].versions
    <3>1. \A i \in Issues : i.package = e[1] => i.code = "IncompatiblePackage"
      BY <2>3 DEF Errored
    <3>2. \A other : /\ Issue("MissingDependency", e[1], other) \notin Issues
                     /\ Issue("DependencyVersionMismatch", e[1], other) \notin Issues
                     /\ Issue("DependencyUnavailable", e[1], other) \notin Issues
      BY <3>1 DEF Issue
    <3>3. e[2].package \in Listed /\ ById(e[2].package).version \in e[2].versions
      BY <2>2, <3>2 DEF DirectIssues
    <3>4. e[2].package \notin Errored(Issues)
      BY <2>2, <3>2 DEF Pass
    <3> QED
      BY <3>3, <3>4
  <2>4. \A S \in SUBSET Listed : SelfSufficient(S) => S \subseteq available
    BY <2>1, SelfSufficientHasNoErrors DEF Issues
  <2> QED
    BY <2>2, <2>3, <2>4 DEF AvailableIsLargestSelfSufficient, SelfSufficient
<1> QED
  BY <1>1, TypeAlwaysCorrect, PTL

(***************************************************************************)
(* Inspection and build.                                                   *)
(***************************************************************************)

\* What build found when it refused the packages.
ErrorInv ==
  /\ error = "DependencyNotLoaded" =>
       \E k \in DOMAIN packages : \E i \in DOMAIN packages[k].dependencies :
         \A j \in 1 .. k : packages[j].id # packages[k].dependencies[i].package
  /\ error = "DependencyVersionMismatch" =>
       \E k \in DOMAIN packages : \E i \in DOMAIN packages[k].dependencies :
         \E j \in 1 .. k - 1 :
           /\ packages[j].id = packages[k].dependencies[i].package
           /\ packages[j].version \notin packages[k].dependencies[i].versions
  /\ error = "IncompatiblePackages" => \E k \in DOMAIN packages : Incompatible(k)

\* The packages of a build stay as they are.
LEMMA PackagesStay == [Next]_vars => UNCHANGED <<packages, strict>>
BY DEF Next, vars, Fail, RefuseDuplicate, RefuseDependency, RefuseSlot, LoadPackage,
   AllLoaded, RefuseIncompatible, AcceptCompatible, RefuseStreaming, StreamPackage, Built,
   RefuseIndex, StartIndex, RefuseRecord, IndexPackage, Indexed

\* A refusal for a dependency says which one is missing or has another version.
LEMMA DependencyRefusals ==
  ASSUME IInv, ErrorInv, RefuseDependency
  PROVE  ErrorInv'
<1> DEFINE k == next
<1>1. /\ k \in DOMAIN packages /\ k \in Nat /\ packages' = packages /\ Current = packages[k]
      /\ loaded = {packages[j].id : j \in 1 .. k - 1}
  BY DEF IInv, TypeOK, BuildConsistent, Accepted, RefuseDependency, Fail, Current
<1>2. PICK i \in DOMAIN packages[k].dependencies :
        \/ NotLoaded(packages[k].dependencies[i]) /\ error' = "DependencyNotLoaded"
        \/ WrongVersion(packages[k].dependencies[i]) /\ error' = "DependencyVersionMismatch"
  BY <1>1 DEF RefuseDependency, Fail
<1>3. CASE NotLoaded(packages[k].dependencies[i]) /\ error' = "DependencyNotLoaded"
  <2>1. \A j \in 1 .. k : packages[j].id # packages[k].dependencies[i].package
    <3> HIDE DEF k
    <3>1. \A j \in 1 .. k : j = k \/ j \in 1 .. k - 1
      BY <1>1
    <3>2. \A j \in 1 .. k : packages[j].id \in loaded \cup {packages[k].id}
      BY <1>1, <3>1
    <3> QED
      BY <1>1, <1>3, <3>2 DEF NotLoaded
  <2> QED
    BY <1>1, <1>3, <2>1 DEF ErrorInv
<1>4. CASE WrongVersion(packages[k].dependencies[i]) /\ error' = "DependencyVersionMismatch"
  BY <1>1, <1>4 DEF WrongVersion, ErrorInv
<1> QED
  BY <1>2, <1>3, <1>4

\* So every error says something that holds of the packages.
LEMMA ErrorInvariant == Spec => []ErrorInv
<1>1. Init => ErrorInv
  BY DEF Init, ErrorInv
<1>2. IInv /\ ErrorInv /\ [Next]_vars => ErrorInv'
  <2> SUFFICES ASSUME IInv, ErrorInv, [Next]_vars PROVE ErrorInv'
    OBVIOUS
  <2>1. CASE RefuseDependency
    BY <2>1, DependencyRefusals
  <2>2. CASE RefuseIncompatible
    BY <2>2 DEF RefuseIncompatible, Fail, ErrorInv, Incompatible, Excludes
  <2>3. CASE ~ RefuseDependency /\ ~ RefuseIncompatible
    <3>1. \/ error' = error
          \/ error' \notin {"DependencyNotLoaded", "DependencyVersionMismatch",
                            "IncompatiblePackages"}
      BY <2>3 DEF Next, vars, Fail, RefuseDuplicate, RefuseSlot, LoadPackage, AllLoaded,
         AcceptCompatible, RefuseStreaming, StreamPackage, Built, RefuseIndex, StartIndex,
         RefuseRecord, IndexPackage, Indexed
    <3> QED
      BY <3>1, PackagesStay DEF ErrorInv, Incompatible, Excludes
  <2> QED
    BY <2>1, <2>2, <2>3
<1> QED
  BY <1>1, <1>2, BuildInvariant, PTL DEF Spec

\* A package that is listed once is the one its id stands for.
LEMMA OnlyPackageWithId ==
  ASSUME NEW k \in DOMAIN packages, packages \in Seq(Headers),
         \A j \in DOMAIN packages : packages[j].id = packages[k].id => j = k
  PROVE  ById(packages[k].id) = packages[k]
<1> DEFINE last(j) == /\ packages[j].id = packages[k].id
                      /\ \A i \in DOMAIN packages : packages[i].id = packages[k].id => i <= j
<1>1. last(k) /\ \A j \in DOMAIN packages : last(j) => j = k
  OBVIOUS
<1> HIDE DEF last
<1>2. (CHOOSE j \in DOMAIN packages : last(j)) = k
  BY <1>1
<1> QED
  BY <1>2 DEF ById, last

\* Packages without a direct error have none at all.
LEMMA NoErrorsWithoutDirectOnes ==
  ASSUME Errored(DirectIssues) = {}
  PROVE  \A n \in Nat : IssuesAfter[n] = DirectIssues
<1> DEFINE S == {n \in Nat : IssuesAfter[n] = DirectIssues}
<1>1. 0 \in S
  BY PassesFollow
<1>2. ASSUME NEW n \in Nat, n \in S PROVE n + 1 \in S
  <2>1. Pass(DirectIssues) = DirectIssues
    BY DEF Pass
  <2> QED
    BY <1>2, <2>1, PassesFollow
<1> HIDE DEF S
<1>3. \A n \in Nat : n \in S
  BY <1>1, <1>2, EveryNumber
<1> QED
  BY <1>3 DEF S

\* The warnings are those of packages that exclude one another, when every package is
\* listed once.
LEMMA WarningsAreExclusions ==
  ASSUME packages \in Seq(Headers),
         \A j, k \in DOMAIN packages : packages[j].id = packages[k].id => j = k
  PROVE  (\E i \in DirectIssues : i.code = "IncompatiblePackage") <=>
           \E k \in DOMAIN packages : Incompatible(k)
<1>1. \A k \in DOMAIN packages : ById(packages[k].id) = packages[k]
  BY OnlyPackageWithId
<1>2. ASSUME NEW i \in DirectIssues, i.code = "IncompatiblePackage"
      PROVE  \E k \in DOMAIN packages : Incompatible(k)
  <2>1. PICK k \in DOMAIN packages : \E x \in packages[k].incompatibilities :
          x.package \in Listed /\ ById(x.package).version \in x.versions
    BY <1>2 DEF DirectIssues, Issue
  <2>2. PICK x \in packages[k].incompatibilities :
          x.package \in Listed /\ ById(x.package).version \in x.versions
    BY <2>1
  <2>3. PICK j \in DOMAIN packages : packages[j].id = x.package
    BY <2>2 DEF Listed
  <2>4. Excludes(packages[k], packages[j])
    BY <1>1, <2>2, <2>3 DEF Excludes
  <2> QED
    BY <2>4 DEF Incompatible
<1>3. ASSUME NEW k \in DOMAIN packages, Incompatible(k)
      PROVE  \E i \in DirectIssues : i.code = "IncompatiblePackage"
  <2>1. PICK j \in DOMAIN packages : \E x \in packages[k].incompatibilities :
          x.package = packages[j].id /\ packages[j].version \in x.versions
    BY <1>3 DEF Incompatible, Excludes
  <2>2. PICK x \in packages[k].incompatibilities :
          x.package = packages[j].id /\ packages[j].version \in x.versions
    BY <2>1
  <2>3. x.package \in Listed /\ ById(x.package).version \in x.versions
    BY <1>1, <2>2 DEF Listed
  <2>4. Issue("IncompatiblePackage", packages[k].id, x.package) \in DirectIssues
    BY <2>3 DEF DirectIssues
  <2> QED
    BY <2>4 DEF Issue
<1> QED
  BY <1>2, <1>3

\* A load order that was built has packages without an error.
LEMMA BuiltHasNoErrors ==
  ASSUME IInv, phase = "ready"
  PROVE  /\ Errored(DirectIssues) = {}
         /\ \A j, k \in DOMAIN packages : packages[j].id = packages[k].id => j = k
<1>1. /\ packages \in Seq(Headers)
      /\ \A k \in DOMAIN packages : InOrder(k)
  BY DEF IInv, TypeOK, BuildConsistent, Accepted
<1>2. ASSUME NEW j \in DOMAIN packages, NEW k \in DOMAIN packages,
             packages[j].id = packages[k].id
      PROVE  j = k
  <2>1. j \in Nat /\ k \in Nat /\ j >= 1 /\ k >= 1
    BY <1>1
  <2>2. ~ (j < k) /\ ~ (k < j)
    BY <1>1, <1>2, <2>1 DEF InOrder
  <2> QED
    BY <2>1, <2>2
<1>3. ASSUME NEW e \in Declared
      PROVE  e[2].package \in Listed /\ ById(e[2].package).version \in e[2].versions
  <2>1. PICK k \in DOMAIN packages : \E i \in DOMAIN packages[k].dependencies :
          e[2] = packages[k].dependencies[i]
    BY DEF Declared
  <2>2. PICK i \in DOMAIN packages[k].dependencies : e[2] = packages[k].dependencies[i]
    BY <2>1
  <2>3. PICK j \in 1 .. k - 1 :
          packages[j].id = e[2].package /\ packages[j].version \in e[2].versions
    <3>1. InOrder(k)
      BY <1>1
    <3> QED
      BY <2>2, <3>1 DEF InOrder
  <2>4. j \in DOMAIN packages
    BY <1>1
  <2>5. ById(packages[j].id) = packages[j]
    BY <1>1, <1>2, <2>4, OnlyPackageWithId
  <2> QED
    BY <2>3, <2>4, <2>5 DEF Listed
<1>4. ASSUME NEW i \in DirectIssues PROVE i.code = "IncompatiblePackage"
  BY <1>3 DEF DirectIssues, Issue
<1> QED
  BY <1>2, <1>4 DEF Errored

\* What was inspected without an error can only be refused for its order, and the other
\* way round: what was built shows no error, under the strict policy no warning either.
THEOREM InspectionAlwaysForetellsBuild == Spec => []InspectionForetellsBuild
<1> DEFINE late == \E j, k \in DOMAIN packages : \E i \in DOMAIN packages[j].dependencies :
                      j <= k /\ packages[j].dependencies[i].package = packages[k].id
           warned == \E i \in Issues : i.code = "IncompatiblePackage"
<1>1. ASSUME IInv, StrictOrderIsCompatible, phase = "ready"
      PROVE  Errored(Issues) = {} /\ (strict => ~ warned)
  <2>1. packages \in Seq(Headers) /\ Len(packages) \in Nat
    BY <1>1 DEF IInv, TypeOK
  <2>2. Issues = DirectIssues /\ Errored(Issues) = {}
    <3>1. Errored(DirectIssues) = {}
      BY <1>1, BuiltHasNoErrors
    <3>2. Issues = DirectIssues
      BY <2>1, <3>1, NoErrorsWithoutDirectOnes DEF Issues
    <3> QED
      BY <3>1, <3>2
  <2>3. warned <=> \E k \in DOMAIN packages : Incompatible(k)
    BY <1>1, <2>1, <2>2, BuiltHasNoErrors, WarningsAreExclusions
  <2> QED
    BY <1>1, <2>2, <2>3 DEF StrictOrderIsCompatible, Incompatible
<1>2. ASSUME IInv, ErrorInv, Cardinality(Listed) = Len(packages)
      PROVE  /\ error = "DependencyNotLoaded" => Errored(Issues) # {} \/ late
             /\ error = "DependencyVersionMismatch" => Errored(Issues) # {}
             /\ error = "IncompatiblePackages" => warned
  <2>1. packages \in Seq(Headers) /\ Len(packages) \in Nat /\ DOMAIN packages \subseteq Nat
    BY <1>2 DEF IInv, TypeOK
  <2>2. \A j, k \in DOMAIN packages : packages[j].id = packages[k].id => j = k
    BY <1>2, <2>1, ListedIsFinite
  <2>3. DirectIssues \subseteq Issues
    BY <2>1, DirectIssuesStay DEF Issues
  <2>4. ASSUME NEW i \in DirectIssues, i.code # "IncompatiblePackage" PROVE Errored(Issues) # {}
    BY <2>3, <2>4 DEF Errored
  <2>5. ASSUME error = "DependencyNotLoaded", ~ late PROVE Errored(Issues) # {}
    <3>1. PICK k \in DOMAIN packages : \E i \in DOMAIN packages[k].dependencies :
            \A j \in 1 .. k : packages[j].id # packages[k].dependencies[i].package
      BY <1>2, <2>5 DEF ErrorInv
    <3>2. PICK i \in DOMAIN packages[k].dependencies :
            \A j \in 1 .. k : packages[j].id # packages[k].dependencies[i].package
      BY <3>1
    <3>3. packages[k].dependencies[i].package \notin Listed
      <4> SUFFICES ASSUME NEW j \in DOMAIN packages,
                          packages[j].id = packages[k].dependencies[i].package
                   PROVE  FALSE
        BY DEF Listed
      <4>1. ~ (k <= j)
        BY <2>5
      <4>2. j \in 1 .. k
        BY <2>1, <4>1
      <4> QED
        BY <3>2, <4>2
    <3>4. <<packages[k].id, packages[k].dependencies[i]>> \in Declared
      BY DEF Declared
    <3>5. Issue("MissingDependency", packages[k].id, packages[k].dependencies[i].package)
            \in DirectIssues
      BY <3>3, <3>4 DEF DirectIssues
    <3> QED
      BY <2>4, <3>5 DEF Issue
  <2>6. ASSUME error = "DependencyVersionMismatch" PROVE Errored(Issues) # {}
    <3>1. PICK k \in DOMAIN packages : \E i \in DOMAIN packages[k].dependencies :
            \E j \in 1 .. k - 1 :
              /\ packages[j].id = packages[k].dependencies[i].package
              /\ packages[j].version \notin packages[k].dependencies[i].versions
      BY <1>2, <2>6 DEF ErrorInv
    <3>2. PICK i \in DOMAIN packages[k].dependencies : \E j \in 1 .. k - 1 :
              /\ packages[j].id = packages[k].dependencies[i].package
              /\ packages[j].version \notin packages[k].dependencies[i].versions
      BY <3>1
    <3>3. PICK j \in 1 .. k - 1 :
              /\ packages[j].id = packages[k].dependencies[i].package
              /\ packages[j].version \notin packages[k].dependencies[i].versions
      BY <3>2
    <3>4. j \in DOMAIN packages
      BY <2>1
    <3>5. ById(packages[j].id) = packages[j] /\ packages[j].id \in Listed
      BY <2>1, <2>2, <3>4, OnlyPackageWithId DEF Listed
    <3>6. <<packages[k].id, packages[k].dependencies[i]>> \in Declared
      BY DEF Declared
    <3>7. Issue("DependencyVersionMismatch", packages[k].id, packages[k].dependencies[i].package)
            \in DirectIssues
      BY <3>3, <3>5, <3>6 DEF DirectIssues
    <3> QED
      BY <2>4, <3>7 DEF Issue
  <2>7. ASSUME error = "IncompatiblePackages" PROVE warned
    BY <1>2, <2>1, <2>2, <2>3, <2>7, WarningsAreExclusions DEF ErrorInv
  <2> QED
    BY <2>5, <2>6, <2>7
<1>3. IInv /\ ErrorInv /\ StrictOrderIsCompatible => InspectionForetellsBuild
  BY <1>1, <1>2 DEF InspectionForetellsBuild
<1> QED
  BY <1>3, BuildInvariant, ErrorInvariant, StrictOrderAlwaysCompatible, PTL

(***************************************************************************)
(* The handle.                                                             *)
(***************************************************************************)

\* Every step of the handle is one of LoadOrder or leaves it alone, by their definitions:
\* the invariants of LoadOrder are those of the load order behind the handle.
LEMMA HandleStepsAreSteps == HandleSpec => Spec
<1>1. HandleInit => Init
  BY DEF HandleInit
<1>2. [HandleNext]_<<vars, handleVars>> => [Next]_vars
  BY DEF HandleNext, HandleStep, Enumerate
<1> QED
  BY <1>1, <1>2, PTL DEF HandleSpec, Spec

\* The records of the packages that were indexed have runtime ids.
RecordsTranslate ==
  /\ phase = "indexing" =>
       \A k \in DOMAIN packages : k < next =>
         \A id \in packages[k].records : Translates(packages[k], id)
  /\ phase = "indexed" =>
       \A k \in DOMAIN packages : \A id \in packages[k].records : Translates(packages[k], id)

\* The records of indexed packages have runtime ids.
LEMMA RecordsTranslateInvariant == Spec => []RecordsTranslate
<1>1. Init => RecordsTranslate
  BY DEF Init, RecordsTranslate
<1>2. IndexInv /\ RecordsTranslate /\ [Next]_vars => RecordsTranslate'
  <2> SUFFICES ASSUME IndexInv, RecordsTranslate, [Next]_vars PROVE RecordsTranslate'
    OBVIOUS
  <2>1. /\ packages \in Seq(Headers) /\ Len(packages) \in Nat
        /\ DOMAIN packages = 1 .. Len(packages) /\ next \in Nat
    BY DEF IndexInv, IInv, TypeOK
  <2>2. CASE LoadPackage \/ StreamPackage
    BY <2>2 DEF LoadPackage, StreamPackage, RecordsTranslate
  <2>3. CASE IndexPackage
    <3>1. /\ phase = "indexing" /\ phase' = "indexing" /\ next' = next + 1
          /\ UNCHANGED <<packages, slots>>
          /\ \A id \in packages[next].records : Translates(packages[next], id)
      BY <2>3 DEF IndexPackage, Current
    <3>2. ASSUME NEW k \in DOMAIN packages, k < next + 1, NEW id \in packages[k].records
          PROVE  Translates(packages[k], id)
      <4>1. k = next \/ k < next
        BY <2>1, <3>2
      <4> QED
        BY <3>1, <3>2, <4>1 DEF RecordsTranslate
    <3> QED
      BY <3>1, <3>2 DEF RecordsTranslate, Translates, OwnerOf
  <2>4. CASE Elsewhere
    <3>1. UNCHANGED <<packages, slots>>
      BY <2>4, ElsewhereKeeps
    <3>2. \A k \in DOMAIN packages : k >= 1
      BY <2>1
    <3>3. phase = "ready" => next = 1
      BY DEF IndexInv, ChainInv
    <3>4. ASSUME phase' = "indexing", NEW k \in DOMAIN packages, k < next'
          PROVE  phase = "indexing" /\ k < next
      BY <2>1, <2>4, <3>2, <3>3, <3>4, ElsewherePhases
    <3>5. ASSUME phase' = "indexed", NEW k \in DOMAIN packages
          PROVE  phase = "indexed" \/ (phase = "indexing" /\ k < next)
      BY <2>1, <2>4, <3>5, ElsewherePhases
    <3> QED
      BY <3>1, <3>4, <3>5 DEF RecordsTranslate, Translates, OwnerOf
  <2> QED
    BY <2>2, <2>3, <2>4 DEF Next, Elsewhere
<1> QED
  BY <1>1, <1>2, IndexInvariant, PTL DEF Spec

\* The runtime ids of records stay below the end of the compact block.
LEMMA EncodedIdFits ==
  ASSUME NEW slot, NEW local, Encodable(slot, local)
  PROVE  RuntimeId(slot, local) \in 0 .. (FullSlots + 1) * LocalSpan - 1
<1> USE WidthsAssumption
<1> DEFINE n == slot.number
<1>1. n \in Nat /\ local \in Nat /\ local < LocalSpan
  BY DEF Encodable, Slots, LocalIds
<1>2. (FullSlots + 1) * LocalSpan = FullSlots * LocalSpan + LocalSpan /\ FullSlots * LocalSpan \in Nat
  OBVIOUS
<1>3. CASE slot.class = "Full"
  <2>1. n + 1 <= FullSlots
    BY <1>1, <1>3 DEF Encodable
  <2>2. n * LocalSpan + LocalSpan <= FullSlots * LocalSpan /\ n * LocalSpan \in Nat
    BY <1>1, <2>1, ProductGrows
  <2>3. RuntimeId(slot, local) = n * LocalSpan + local
    BY <1>3 DEF RuntimeId
  <2> HIDE DEF n
  <2> QED
    BY <1>1, <1>2, <2>2, <2>3
<1>4. CASE slot.class = "Compact"
  <2>1. n + 1 <= CompactSlots /\ local < CompactSpan
    BY <1>1, <1>4 DEF Encodable
  <2>2. n * CompactSpan + CompactSpan <= CompactSlots * CompactSpan /\ n * CompactSpan \in Nat
    BY <1>1, <2>1, ProductGrows
  <2>3. RuntimeId(slot, local) = FullSlots * LocalSpan + n * CompactSpan + local
    BY <1>4 DEF RuntimeId
  <2> HIDE DEF n
  <2> QED
    BY <1>1, <1>2, <2>1, <2>2, <2>3
<1> QED
  BY <1>3, <1>4 DEF Encodable

\* An index has finitely many ids.
IdsAreFinite == HasIndex => DOMAIN chains \in SUBSET Int /\ IsFiniteSet(DOMAIN chains)

\* Each package that is indexed adds finitely many.
LEMMA IndexedIdsAreFinite ==
  ASSUME IndexInv, RecordsTranslate
  PROVE  IdsAreFinite
<1> SUFFICES ASSUME phase = "indexed"
             PROVE  DOMAIN chains \in SUBSET Int /\ IsFiniteSet(DOMAIN chains)
  BY DEF IdsAreFinite, HasIndex
<1> DEFINE top == (FullSlots + 1) * LocalSpan - 1
<1>1. top \in Int
  BY WidthsAssumption
<1>2. ASSUME NEW raw \in DOMAIN chains PROVE raw \in 0 .. top
  <2> PICK n \in Nat : n = Len(packages) /\ DOMAIN packages = 1 .. n /\ packages \in Seq(Headers)
    BY DEF IndexInv, IInv, TypeOK
  <2>1. PICK k \in 1 .. n : raw \in RecordedIds(k)
    <3>1. ChainedUpTo(n)
      BY DEF IndexInv, ChainInv
    <3> QED
      BY <3>1 DEF ChainedUpTo
  <2>2. PICK id \in packages[k].records : raw = Translate(packages[k], id)
    BY <2>1 DEF RecordedIds
  <2>3. Translates(packages[k], id)
    BY <2>1, <2>2 DEF RecordsTranslate
  <2>4. id \in RecordIds /\ packages[k].dependencies \in Seq(Relationships)
    <3>1. packages[k] \in Headers
      BY <2>1
    <3> QED
      BY <2>2, <3>1 DEF Headers
  <2>5. id \in StorableIds(packages[k])
    BY <2>3, <2>4 DEF Translates, StorableIds, RecordIds
  <2>6. Encodable(slots[OwnerOf(packages[k], id)], id.local)
    BY <2>1, <2>3, <2>5, TranslationsEncode DEF IndexInv
  <2> QED
    BY <2>2, <2>6, EncodedIdFits DEF Translate
<1> HIDE DEF top
<1>3. DOMAIN chains \in SUBSET (0 .. top) /\ IsFiniteSet(0 .. top) /\ 0 .. top \in SUBSET Int
  BY <1>1, <1>2, FS_Interval
<1>4. IsFiniteSet(DOMAIN chains)
  BY <1>3, FS_Subset
<1> QED
  BY <1>3, <1>4

\* The ids of the handle are those of its index, and the client was given the winners of
\* the first of them.
WalkInv ==
  /\ runtimeIds = IF HasIndex THEN Ascending(DOMAIN chains) ELSE <<>>
  /\ position \in 1 .. Len(runtimeIds) + 1
  /\ seen = [i \in 1 .. position - 1 |-> WinningRecordAt(i)]
  /\ answer # "none" => position = Len(runtimeIds) + 1

\* The inductive invariant of the handle.
HandleInv == IndexInv /\ RecordsTranslate /\ IdsAreFinite /\ WalkInv

\* The list of ids that a handle walks along is that of its index.
LEMMA IdsAreListed ==
  ASSUME HandleInv
  PROVE  /\ Len(runtimeIds) \in Nat
         /\ DOMAIN runtimeIds = 1 .. Len(runtimeIds)
         /\ HasIndex => /\ runtimeIds \in [1 .. Len(runtimeIds) -> DOMAIN chains]
                        /\ \A raw \in DOMAIN chains : \E i \in DOMAIN runtimeIds : runtimeIds[i] = raw
                        /\ \A i, j \in DOMAIN runtimeIds : i < j => runtimeIds[i] < runtimeIds[j]
                        /\ DOMAIN chains \in SUBSET Int
<1>1. CASE HasIndex
  <2>1. DOMAIN chains \in SUBSET Int /\ IsFiniteSet(DOMAIN chains)
    BY <1>1 DEF HandleInv, IdsAreFinite
  <2>2. runtimeIds = Ascending(DOMAIN chains)
    BY <1>1 DEF HandleInv, WalkInv
  <2> DEFINE n == Cardinality(DOMAIN chains)
  <2>3. /\ n \in Nat
        /\ runtimeIds \in [1 .. n -> DOMAIN chains]
        /\ \A raw \in DOMAIN chains : \E i \in 1 .. n : runtimeIds[i] = raw
        /\ \A i, j \in 1 .. n : i < j => runtimeIds[i] < runtimeIds[j]
    BY <2>1, <2>2, AscendingLists
  <2> HIDE DEF n
  <2>4. Len(runtimeIds) = n /\ DOMAIN runtimeIds = 1 .. n
    BY <2>3
  <2> QED
    BY <2>1, <2>3, <2>4
<1>2. CASE ~ HasIndex
  <2>1. runtimeIds = <<>>
    BY <1>2 DEF HandleInv, WalkInv
  <2> QED
    BY <1>2, <2>1
<1> QED
  BY <1>1, <1>2

\* A build that was indexed is through.
LEMMA NothingFollowsIndexed == Next => phase # "indexed"
BY DEF Next, RefuseDuplicate, RefuseDependency, RefuseSlot, LoadPackage, AllLoaded,
   RefuseIncompatible, AcceptCompatible, RefuseStreaming, StreamPackage, Built,
   RefuseIndex, StartIndex, RefuseRecord, IndexPackage, Indexed

\* The steps of the build keep the invariant ...
LEMMA HandleStepPreserves ==
  ASSUME HandleInv, HandleStep, IdsAreFinite'
  PROVE  WalkInv'
<1>1. runtimeIds = <<>>
  BY NothingFollowsIndexed DEF HandleStep, HandleInv, WalkInv, HasIndex
<1>2. runtimeIds' = IF HasIndex' THEN Ascending(DOMAIN chains') ELSE <<>>
  BY <1>1 DEF HandleStep, IdsOnceIndexed, HasIndex
<1>3. Len(runtimeIds') \in Nat
  <2>1. CASE HasIndex'
    <3>1. DOMAIN chains' \in SUBSET Int /\ IsFiniteSet(DOMAIN chains')
      BY <2>1 DEF IdsAreFinite
    <3>2. /\ Cardinality(DOMAIN chains') \in Nat
          /\ runtimeIds' \in [1 .. Cardinality(DOMAIN chains') -> DOMAIN chains']
      BY <1>2, <2>1, <3>1, AscendingLists
    <3> QED
      BY <3>2
  <2>2. CASE ~ HasIndex'
    BY <1>2, <2>2
  <2> QED
    BY <2>1, <2>2
<1>4. position' = 1 /\ seen' = <<>> /\ answer' = "none"
  BY DEF HandleStep
<1>5. seen' = [i \in 1 .. position' - 1 |-> WinningRecordAt(i)']
  BY <1>4
<1> QED
  BY <1>2, <1>3, <1>4, <1>5 DEF WalkInv

\* ... and so does the enumeration.
LEMMA EnumeratePreserves ==
  ASSUME HandleInv, Enumerate
  PROVE  WalkInv'
<1> DEFINE n == Len(runtimeIds)
<1>1. n \in Nat /\ DOMAIN runtimeIds = 1 .. n
  BY IdsAreListed
<1>2. UNCHANGED <<runtimeIds, phase, chains>> /\ answer = "none"
  BY DEF Enumerate, vars
<1>3. position \in 1 .. n + 1 /\ seen = [i \in 1 .. position - 1 |-> WinningRecordAt(i)]
  BY DEF HandleInv, WalkInv
<1>4. \A i : WinningRecordAt(i)' = WinningRecordAt(i)
  BY <1>2 DEF WinningRecordAt, Last
<1>5. runtimeIds' = IF HasIndex' THEN Ascending(DOMAIN chains') ELSE <<>>
  BY <1>2 DEF HandleInv, WalkInv, HasIndex
<1> HIDE DEF n
<1>6. CASE position \in 1 .. n
  <2>1. position' = position + 1 /\ answer' = "none" /\ seen' = Append(seen, WinningRecordAt(position))
    BY <1>1, <1>2, <1>6 DEF Enumerate
  <2>2. seen' = [i \in 1 .. position |-> WinningRecordAt(i)]
    <3> DEFINE T == {WinningRecordAt(i) : i \in 1 .. position}
    <3>1. seen \in Seq(T) /\ Len(seen) = position - 1
      BY <1>3, <1>6
    <3>2. WinningRecordAt(position) \in T
      BY <1>6
    <3> HIDE DEF T
    <3> QED
      BY <1>3, <1>6, <2>1, <3>1, <3>2
  <2>3. seen' = [i \in 1 .. position' - 1 |-> WinningRecordAt(i)']
    BY <1>4, <1>6, <2>1, <2>2
  <2> QED
    BY <1>1, <1>2, <1>5, <1>6, <2>1, <2>3 DEF WalkInv, n
<1>7. CASE position = n + 1
  <2>1. UNCHANGED <<position, seen>>
    BY <1>1, <1>7 DEF Enumerate
  <2>2. seen' = [i \in 1 .. position' - 1 |-> WinningRecordAt(i)']
    BY <1>3, <1>4, <2>1
  <2> QED
    BY <1>1, <1>2, <1>3, <1>5, <1>7, <2>1, <2>2 DEF WalkInv, n
<1> QED
  BY <1>1, <1>3, <1>6, <1>7

\* It holds for every handle.
LEMMA HandleInvariant == HandleSpec => []HandleInv
<1>1. HandleInit => WalkInv
  BY DEF HandleInit, Init, WalkInv, HasIndex
<1>2. HandleInv /\ IdsAreFinite' /\ [HandleNext]_<<vars, handleVars>> => WalkInv'
  <2> SUFFICES ASSUME HandleInv, IdsAreFinite', [HandleNext]_<<vars, handleVars>>
               PROVE  WalkInv'
    OBVIOUS
  <2>1. CASE HandleStep
    BY <2>1, HandleStepPreserves
  <2>2. CASE Enumerate
    BY <2>2, EnumeratePreserves
  <2>3. CASE UNCHANGED <<vars, handleVars>>
    <3>1. UNCHANGED <<runtimeIds, position, seen, answer, chains, phase>>
      BY <2>3 DEF vars, handleVars
    <3>2. \A i : WinningRecordAt(i)' = WinningRecordAt(i)
      BY <3>1 DEF WinningRecordAt, Last
    <3> QED
      BY <3>1, <3>2 DEF HandleInv, WalkInv, HasIndex
  <2> QED
    BY <2>1, <2>2, <2>3 DEF HandleNext
<1>3. IndexInv /\ RecordsTranslate => IdsAreFinite
  BY IndexedIdsAreFinite
<1>4. HandleSpec => [](IndexInv /\ RecordsTranslate /\ IdsAreFinite)
  BY <1>3, HandleStepsAreSteps, IndexInvariant, RecordsTranslateInvariant, PTL
<1> QED
  BY <1>1, <1>2, <1>4, PTL DEF HandleSpec, HandleInv

\* What the chain of a record says of the packages that hold it.
LEMMA ChainNamesHolders ==
  ASSUME HandleInv, HasIndex, NEW raw \in DOMAIN chains
  PROVE  LET c == chains[raw]
         IN /\ Len(c) \in Nat \ {0}
            /\ DOMAIN c = 1 .. Len(c)
            /\ IsFiniteSet(StoredBy(raw))
            /\ Cardinality(StoredBy(raw)) = Len(c)
            /\ Last(c) = c[Len(c)]
            /\ Last(c) = CHOOSE k \in StoredBy(raw) : \A j \in StoredBy(raw) : j <= k
<1> DEFINE c == chains[raw]
           H == StoredBy(raw)
<1> PICK n \in Nat : n = Len(packages) /\ DOMAIN packages = 1 .. n
  BY DEF HandleInv, IndexInv, IInv, TypeOK
<1>1. ChainedUpTo(n)
  BY DEF HandleInv, IndexInv, ChainInv, HasIndex
<1>2. /\ c \in Seq(1 .. n) /\ raw \in UNION {RecordedIds(k) : k \in 1 .. n}
      /\ \A k \in 1 .. n : raw \in RecordedIds(k) <=> \E i \in DOMAIN c : c[i] = k
      /\ \A i \in 2 .. Len(c) : c[i - 1] < c[i]
  BY <1>1 DEF ChainedUpTo
<1>3. \A k \in DOMAIN packages : \A id \in packages[k].records :
        ResolveRecordId(k, id) = Translate(packages[k], id)
  BY DEF HandleInv, HasIndex, RecordsTranslate, ResolveRecordId
<1>4. \A k \in 1 .. n : k \in H <=> raw \in RecordedIds(k)
  BY <1>3 DEF StoredBy, RecordedIds
<1>5. H \subseteq 1 .. n
  BY DEF StoredBy
<1> HIDE DEF c, H
<1>6. Len(c) \in Nat /\ DOMAIN c = 1 .. Len(c) /\ \A i \in 1 .. Len(c) : c[i] \in 1 .. n
  BY <1>2
<1>7. \A k : k \in H <=> \E i \in 1 .. Len(c) : c[i] = k
  BY <1>2, <1>4, <1>5, <1>6
<1>8. \A i, j \in 1 .. Len(c) : i < j => c[i] < c[j]
  <2>1. \A i \in 1 .. Len(c) : c[i] \in Int
    BY <1>6
  <2> QED
    BY <1>2, <1>6, <2>1, NeighboursAscend
<1>9. Len(c) # 0
  BY <1>2, <1>6
<1>10. IsFiniteSet(H) /\ Cardinality(H) = Len(c)
  <2> DEFINE f == [i \in 1 .. Len(c) |-> c[i]]
  <2>1. f \in Surjection(1 .. Len(c), H)
    BY <1>7 DEF Surjection
  <2>2. f \in Injection(1 .. Len(c), H)
    <3>1. ASSUME NEW i \in 1 .. Len(c), NEW j \in 1 .. Len(c), c[i] = c[j] PROVE i = j
      <4>1. ~ (i < j) /\ ~ (j < i)
        BY <1>6, <1>8, <3>1
      <4> QED
        BY <4>1
    <3> QED
      BY <1>7, <3>1 DEF Injection, IsInjective
  <2> HIDE DEF f
  <2>3. IsFiniteSet(1 .. Len(c)) /\ Cardinality(1 .. Len(c)) = Len(c)
    BY <1>6, PlacesAreFinite
  <2>4. /\ IsFiniteSet(H)
        /\ Cardinality(H) = Cardinality(1 .. Len(c)) <=> f \in Injection(1 .. Len(c), H)
    BY <2>1, <2>3, FS_Surjection
  <2> QED
    BY <2>2, <2>3, <2>4
<1>11. c[Len(c)] \in H /\ \A j \in H : j <= c[Len(c)] /\ j \in Nat
  BY <1>6, <1>7, <1>8, <1>9
<1> DEFINE last(k) == \A j \in H : j <= k
<1>12. \A k \in H : last(k) => k = c[Len(c)]
  BY <1>11
<1>13. last(c[Len(c)])
  BY <1>11
<1> HIDE DEF last
<1>14. (CHOOSE k \in H : last(k)) = c[Len(c)]
  BY <1>11, <1>12, <1>13
<1>15. Last(c) = c[Len(c)]
  BY DEF Last
<1> QED
  BY <1>6, <1>9, <1>10, <1>14, <1>15 DEF c, H, last

\* Walking over a handle to its end gives every record of every package once, in ascending
\* order and each with the last package that holds it, and agrees with the counts and
\* origins the other calls return.
THEOREM EnumerationAlwaysFindsWinners == HandleSpec => []EnumerationFindsWinners
<1>1. HandleInv => EnumerationFindsWinners
  <2> SUFFICES ASSUME HandleInv, HasIndex, answer = "EndOfRecords"
               PROVE  EnumerationFindsWinners
    BY DEF EnumerationFindsWinners
  <2> DEFINE n == Len(runtimeIds)
             winner(raw) == CHOOSE k \in StoredBy(raw) : \A j \in StoredBy(raw) : j <= k
             stored == UNION {{ResolveRecordId(k, id) : id \in packages[k].records} :
                                k \in DOMAIN packages}
  <2>1. /\ n \in Nat /\ DOMAIN runtimeIds = 1 .. n
        /\ \A i \in 1 .. n : runtimeIds[i] \in DOMAIN chains
        /\ \A raw \in DOMAIN chains : \E i \in 1 .. n : runtimeIds[i] = raw
        /\ \A i, j \in 1 .. n : i < j => runtimeIds[i] < runtimeIds[j]
    <3>1. /\ n \in Nat /\ DOMAIN runtimeIds = 1 .. n
          /\ runtimeIds \in [1 .. n -> DOMAIN chains]
          /\ \A raw \in DOMAIN chains : \E i \in DOMAIN runtimeIds : runtimeIds[i] = raw
          /\ \A i, j \in DOMAIN runtimeIds : i < j => runtimeIds[i] < runtimeIds[j]
      BY IdsAreListed
    <3> QED
      BY <3>1
  <2>2. ASSUME NEW raw \in DOMAIN chains
        PROVE  /\ Len(chains[raw]) \in Nat \ {0}
               /\ DOMAIN chains[raw] = 1 .. Len(chains[raw])
               /\ Cardinality(StoredBy(raw)) = Len(chains[raw])
               /\ Last(chains[raw]) = chains[raw][Len(chains[raw])]
               /\ Last(chains[raw]) = winner(raw)
    BY ChainNamesHolders
  <2>3. DOMAIN chains = stored
    <3>1. PICK m \in Nat : m = Len(packages) /\ DOMAIN packages = 1 .. m
      BY DEF HandleInv, IndexInv, IInv, TypeOK
    <3>2. ChainedUpTo(m)
      BY <3>1 DEF HandleInv, IndexInv, ChainInv, HasIndex
    <3>3. DOMAIN chains = UNION {RecordedIds(k) : k \in 1 .. m}
      BY <3>2 DEF ChainedUpTo
    <3>4. \A k \in DOMAIN packages : \A id \in packages[k].records :
            ResolveRecordId(k, id) = Translate(packages[k], id)
      BY DEF HandleInv, HasIndex, RecordsTranslate, ResolveRecordId
    <3>5. \A k \in 1 .. m : {ResolveRecordId(k, id) : id \in packages[k].records} = RecordedIds(k)
      BY <3>1, <3>4 DEF RecordedIds
    <3> QED
      BY <3>1, <3>3, <3>5
  <2>4. seen = [i \in 1 .. n |-> [id |-> runtimeIds[i], package |-> Last(chains[runtimeIds[i]])]]
    <3>1. position = n + 1 /\ seen = [i \in 1 .. position - 1 |-> WinningRecordAt(i)]
      BY DEF HandleInv, WalkInv
    <3>2. seen = [i \in 1 .. n |-> WinningRecordAt(i)]
      BY <2>1, <3>1
    <3>3. \A i \in 1 .. n : WinningRecordAt(i)
            = [id |-> runtimeIds[i], package |-> Last(chains[runtimeIds[i]])]
      BY <2>1 DEF WinningRecordAt
    <3> QED
      BY <3>2, <3>3
  <2> HIDE DEF n, winner, stored
  <2>5. Len(seen) = n /\ DOMAIN seen = 1 .. n
    BY <2>1, <2>4
  <2>6. \A i \in 1 .. n : seen[i].id = runtimeIds[i] /\ seen[i].package = winner(runtimeIds[i])
                          /\ seen[i] = [id |-> runtimeIds[i], package |-> winner(runtimeIds[i])]
    BY <2>1, <2>2, <2>4
  <2>7. Len(seen) = RecordCount
    BY <2>5 DEF RecordCount, n
  <2>8. ToSet(seen) = {[id |-> raw, package |-> winner(raw)] : raw \in stored}
    <3>1. ToSet(seen) = {seen[i] : i \in 1 .. n}
      BY <2>5 DEF ToSet
    <3>2. ASSUME NEW raw \in stored
          PROVE  \E i \in 1 .. n : seen[i] = [id |-> raw, package |-> winner(raw)]
      <4>1. PICK i \in 1 .. n : runtimeIds[i] = raw
        BY <2>1, <2>3
      <4> QED
        BY <2>6, <4>1
    <3>3. ASSUME NEW i \in 1 .. n
          PROVE  seen[i] \in {[id |-> raw, package |-> winner(raw)] : raw \in stored}
      <4>1. runtimeIds[i] \in stored
        BY <2>1, <2>3
      <4> QED
        BY <2>6, <4>1
    <3> QED
      BY <3>1, <3>2, <3>3
  <2>9. \A i \in 2 .. Len(seen) : seen[i - 1].id < seen[i].id
    <3> SUFFICES ASSUME NEW i \in 2 .. n PROVE seen[i - 1].id < seen[i].id
      BY <2>5
    <3>1. i - 1 \in 1 .. n /\ i \in 1 .. n /\ i - 1 < i
      BY <2>1
    <3> QED
      BY <2>1, <2>6, <3>1
  <2>10. ASSUME NEW i \in DOMAIN seen
         PROVE  LET count == OverrideCount(seen[i].id)
                IN /\ count = Cardinality(StoredBy(seen[i].id))
                   /\ OverrideOrigin(seen[i].id, count) = seen[i].package
                   /\ OverrideOrigin(seen[i].id, count + 1) = "EndOfRecords"
    <3> DEFINE raw == seen[i].id
               c == chains[raw]
    <3>1. raw \in DOMAIN chains /\ seen[i].package = winner(raw)
      BY <2>1, <2>5, <2>6
    <3>2. /\ Len(c) \in Nat \ {0} /\ DOMAIN c = 1 .. Len(c)
          /\ Cardinality(StoredBy(raw)) = Len(c) /\ c[Len(c)] = winner(raw)
      BY <2>2, <3>1
    <3>3. OverrideCount(raw) = Len(c)
      BY <3>1 DEF OverrideCount
    <3>4. Len(c) \in DOMAIN c /\ Len(c) + 1 \notin DOMAIN c
      BY <3>2
    <3>5. OverrideOrigin(raw, Len(c)) = c[Len(c)] /\ OverrideOrigin(raw, Len(c) + 1) = "EndOfRecords"
      BY <3>1, <3>4 DEF OverrideOrigin
    <3> HIDE DEF raw, c
    <3>6. /\ OverrideCount(raw) = Cardinality(StoredBy(raw))
          /\ OverrideOrigin(raw, OverrideCount(raw)) = seen[i].package
          /\ OverrideOrigin(raw, OverrideCount(raw) + 1) = "EndOfRecords"
      BY <3>1, <3>2, <3>3, <3>5
    <3> QED
      BY <3>6 DEF raw
  <2> QED
    BY <2>7, <2>8, <2>9, <2>10 DEF EnumerationFindsWinners, winner, stored
<1> QED
  BY <1>1, HandleInvariant, PTL
=============================================================================
