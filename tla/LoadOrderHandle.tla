-------------------------- MODULE LoadOrderHandle --------------------------
(***************************************************************************)
(* PcpLoadOrderHandle: a load order behind the native interface, its       *)
(* record index once it is built, and the sorted runtime ids by which a    *)
(* client walks over the winning records, one position after the other.    *)
(* Package and origin indexes count from 1 here.                           *)
(***************************************************************************)
EXTENDS Availability, SequencesExt, Ascending

VARIABLES
  runtimeIds,   \* runtime_ids of the handle
  position,     \* the client's: the index it asks for next
  seen,         \* what it was given: records [id, package]
  answer

handleVars == <<runtimeIds, position, seen, answer>>

HandleInit ==
  /\ Init
  /\ runtimeIds = <<>>
  /\ position = 1
  /\ seen = <<>>
  /\ answer = "none"

---------------------------------------------------------------------------
(* What the calls return.                                                  *)

HasIndex == phase = "indexed"

\* The runtime opens a load order without an index and keeps it when building the index
\* fails; the editor has it with its index or not at all.
HasHandle ==
  \/ HasIndex
  \/ strict /\ phase = "ready"
  \/ strict /\ phase = "failed" /\ error \in {"Index", "UntranslatableRecord"}

RecordCount == IF HasIndex THEN Len(runtimeIds) ELSE "IndexUnavailable"

\* Without an index there is no runtime id, and the order looks empty.
WinningRecordAt(i) ==
  IF i \notin DOMAIN runtimeIds THEN "EndOfRecords"
  ELSE [id |-> runtimeIds[i], package |-> Last(chains[runtimeIds[i]])]

OverrideCount(raw) ==
  IF ~ HasIndex THEN "IndexUnavailable"
  ELSE IF raw \in DOMAIN chains THEN Len(chains[raw]) ELSE 0

OverrideOrigin(raw, i) ==
  IF ~ HasIndex THEN "IndexUnavailable"
  ELSE IF raw \in DOMAIN chains /\ i \in DOMAIN chains[raw] THEN chains[raw][i]
  ELSE "EndOfRecords"

ResolveRecordId(k, id) ==
  IF k \in DOMAIN packages /\ Translates(packages[k], id)
  THEN Translate(packages[k], id) ELSE "InvalidPackage"

---------------------------------------------------------------------------
\* Mutant: the ids are collected when the handle is made and not again.
IdsOnceOpened == runtimeIds

\* The ids of a handle whose index was built, in ascending order.
IdsOnceIndexed ==
  IF phase' = "indexed" THEN Ascending(DOMAIN chains') ELSE runtimeIds

\* open_load_order and build_record_index; a client starts over with a new index.
HandleStep ==
  /\ Next
  /\ runtimeIds' = IdsOnceIndexed
  /\ position' = 1
  /\ seen' = <<>>
  /\ answer' = "none"

\* The client asks for the next winning record.
Enumerate ==
  /\ HasHandle
  /\ answer = "none"
  /\ IF position \in DOMAIN runtimeIds
     THEN /\ seen' = Append(seen, WinningRecordAt(position))
          /\ position' = position + 1
          /\ UNCHANGED answer
     ELSE /\ answer' = WinningRecordAt(position)
          /\ UNCHANGED <<position, seen>>
  /\ UNCHANGED <<vars, runtimeIds>>

HandleNext == HandleStep \/ Enumerate

HandleSpec == HandleInit /\ [][HandleNext]_<<vars, handleVars>>

---------------------------------------------------------------------------
(* Properties.                                                             *)

\* The packages that hold a record, by what resolve_record_id says of the ids they store.
StoredBy(raw) ==
  {k \in DOMAIN packages : \E id \in packages[k].records : ResolveRecordId(k, id) = raw}

\* Walking over a handle with an index until the end gives every record of every package
\* once, in ascending order of the runtime ids, each with the last package that holds it,
\* and agrees with the counts and origins that the other calls return.
EnumerationFindsWinners ==
  HasIndex /\ answer = "EndOfRecords" =>
    /\ Len(seen) = RecordCount
    /\ ToSet(seen) =
         {[id |-> raw, package |-> CHOOSE k \in StoredBy(raw) : \A j \in StoredBy(raw) : j <= k] :
            raw \in UNION {{ResolveRecordId(k, id) : id \in packages[k].records} :
                             k \in DOMAIN packages}}
    /\ \A i \in 2 .. Len(seen) : seen[i - 1].id < seen[i].id
    /\ \A i \in DOMAIN seen :
         LET count == OverrideCount(seen[i].id)
         IN /\ count = Cardinality(StoredBy(seen[i].id))
            /\ OverrideOrigin(seen[i].id, count) = seen[i].package
            /\ OverrideOrigin(seen[i].id, count + 1) = "EndOfRecords"
=============================================================================
