--------------------------- MODULE PackageHeader ---------------------------
(***************************************************************************)
(* PackageHeader (package_header.rs): what a package says of itself, the   *)
(* calls that change it, and its encoding.  The header is a record of      *)
(* fields, each with a signature: encode writes them in one order, decode  *)
(* takes them in any order, refuses the ones it does not know and repeated *)
(* ones, and checks the whole when all are read.                           *)
(*                                                                         *)
(* text stands for author, description and schema namespace, which are     *)
(* handled alike; a relationship is told by the package it names; ids of   *)
(* packages are never nil.                                                 *)
(***************************************************************************)
EXTENDS Integers, Sequences, FiniteSets, SequencesExt, Ascending

CONSTANTS
  PackageId,         \* the id of the package itself
  FirstUserId,       \* FIRST_USER_LOCAL_IDENTIFIER, 0x800
  FirstCompactId,    \* FIRST_COMPACT_LOCAL_IDENTIFIER, 1
  CompactLimit,      \* 0x1000: local ids and owned records of a compact package
  MaxLocalId,        \* MAXIMUM_LOCAL_IDENTIFIER, 0xFFFFFF
  MaxDependencies,   \* 254
  NoWorld            \* the world of a scene outside of every world

ASSUME LimitsAssumption ==
  /\ {FirstCompactId, FirstUserId, CompactLimit, MaxLocalId, MaxDependencies} \subseteq Nat
  /\ 0 < FirstCompactId /\ FirstCompactId < FirstUserId
  /\ FirstUserId < CompactLimit /\ CompactLimit <= MaxLocalId

\* RecordId: package_index and local_identifier.
RecordId(index, local) == [index |-> index, local |-> local]

\* PackageHeader::new.  The places of scenes are kept as one set.
NewHeader ==
  [class |-> "Full", next |-> FirstUserId, count |-> 0, owned |-> 0, text |-> 0,
   dependencies |-> <<>>, incompatibilities |-> {}, streaming |-> <<>>, offsets |-> {}]

OwnedIndex(h) == Len(h.dependencies)

IsSequence(s) == s \in Seq(ToSet(s))

\* The fields of a header: counts, ids and offsets are unsigned.
IsHeader(h) ==
  /\ h = [field \in DOMAIN NewHeader |-> h[field]]
  /\ {h.next, h.count, h.owned, h.text} \subseteq Nat
  /\ IsSequence(h.dependencies) /\ IsSequence(h.streaming)
  /\ IsFiniteSet(h.incompatibilities) /\ IsFiniteSet(h.offsets)
  /\ \A o \in h.offsets :
       /\ o = [world |-> o.world, scene |-> o.scene, start |-> o.start, end |-> o.end]
       /\ {o.start, o.end} \subseteq Nat

---------------------------------------------------------------------------
(* The calls.                                                              *)

\* Mutant: the class decides alone.
ResetLoadClass(h, class) ==
  [h EXCEPT !.class = class,
            !.next = IF h.next = FirstUserId /\ class = "Compact" THEN FirstCompactId ELSE @]

\* set_load_class: an empty package that assigned no id starts at the first id of the
\* class.
SetLoadClass(h, class) ==
  [h EXCEPT !.class = class,
            !.next = IF h.count = 0 /\ h.next = FirstUserId
                     THEN IF class = "Compact" THEN FirstCompactId ELSE FirstUserId
                     ELSE @]

\* add_dependency takes one more than decode does.
MayAddDependency(h, d) ==
  /\ d # PackageId
  /\ d \notin ToSet(h.dependencies)
  /\ Len(h.dependencies) <= MaxDependencies

WithDependency(h, d) == [h EXCEPT !.dependencies = Append(@, d)]

WithoutDependency(h, d) == [h EXCEPT !.dependencies = SelectSeq(@, LAMBDA e : e # d)]

MayAddIncompatibility(h, d) == d # PackageId /\ d \notin h.incompatibilities

WithIncompatibility(h, d) == [h EXCEPT !.incompatibilities = @ \cup {d}]

WithoutIncompatibility(h, d) == [h EXCEPT !.incompatibilities = @ \ {d}]

\* replace_streaming_overrides keeps the first of repeated ids.
FirstOccurrences(list) ==
  FoldLeft(LAMBDA kept, id : IF id \in ToSet(kept) THEN kept ELSE Append(kept, id), <<>>, list)

WithStreaming(h, list) == [h EXCEPT !.streaming = FirstOccurrences(list)]

\* shift_scene_offsets.
Shift(offsets, delta) ==
  {[world |-> o.world, scene |-> o.scene, start |-> o.start + delta, end |-> o.end + delta] :
     o \in offsets}

---------------------------------------------------------------------------
(* encode.                                                                 *)

\* validate_load_class.
LoadClassValid(h) ==
  /\ h.class = "Compact" => h.owned <= CompactLimit /\ h.next <= CompactLimit
  /\ h.class = "Overlay" => h.owned = 0

FormatVersion == 4

\* A subrecord of the header.
Field(signature, value) == [signature |-> signature, value |-> value]

\* A world is written as its record id, and no world as 0.
ZeroId == RecordId(0, 0)
WrittenWorld(world) == IF world = NoWorld THEN ZeroId ELSE world

Worlds(h) == {o.world : o \in h.offsets}

\* SceneOffsetTable: the scenes of one world.
Table(h, world) ==
  [world |-> WrittenWorld(world),
   scenes |-> {[scene |-> o.scene, start |-> o.start, end |-> o.end] :
                 o \in {o \in h.offsets : o.world = world}}]

\* One field per element.
Each(signature, values) == [i \in DOMAIN values |-> Field(signature, values[i])]

\* Mutant: counts of zero are left out like empty texts.
EncodeWithoutZeros(h) ==
  <<Field("FMTV", FormatVersion), Field("PKID", PackageId), Field("CLAS", h.class),
    Field("NXID", h.next), Field("RCNT", h.count)>>
  \o (IF h.owned = 0 THEN <<>> ELSE <<Field("ORCT", h.owned)>>)
  \o (IF h.text = 0 THEN <<>> ELSE <<Field("TEXT", h.text)>>)
  \o <<Field("PVER", "version")>>
  \o Each("DEPN", h.dependencies)
  \o Each("INCM", SetToSeq(h.incompatibilities))
  \o Each("SOVR", h.streaming)
  \o Each("SOFF", SetToSeq({Table(h, w) : w \in Worlds(h)}))

\* The fields in the order in which encode writes them.
Encode(h) ==
  <<Field("FMTV", FormatVersion), Field("PKID", PackageId), Field("CLAS", h.class),
    Field("NXID", h.next), Field("RCNT", h.count), Field("ORCT", h.owned)>>
  \o (IF h.text = 0 THEN <<>> ELSE <<Field("TEXT", h.text)>>)
  \o <<Field("PVER", "version")>>
  \o Each("DEPN", h.dependencies)
  \o Each("INCM", SetToSeq(h.incompatibilities))
  \o Each("SOVR", h.streaming)
  \o Each("SOFF", SetToSeq({Table(h, w) : w \in Worlds(h)}))

---------------------------------------------------------------------------
(* decode.                                                                 *)

Required == {"FMTV", "PKID", "CLAS", "NXID", "RCNT", "ORCT", "PVER"}
Once == Required \cup {"TEXT"}
Signatures == Once \cup {"DEPN", "INCM", "SOVR", "SOFF"}

\* Mutant: a repeated field replaces the one before.
FieldErrorUnlessListed(fields, k) ==
  IF \/ fields[k].signature \notin Signatures
     \/ /\ fields[k].signature = "SOVR"
        /\ fields[k] \in {fields[j] : j \in 1 .. k - 1}
  THEN "InvalidField" ELSE "none"

\* What the k-th field is refused for when it is read: set_once, the sets of the ids and
\* worlds that were seen, and the checks of a table.
FieldError(fields, k) ==
  LET f == fields[k]
      earlier == {fields[j] : j \in 1 .. k - 1}
  IN IF f.signature \in Once /\ \E g \in earlier : g.signature = f.signature
     THEN "DuplicateField"
     ELSE IF f.signature = "SOVR" /\ f \in earlier THEN "DuplicateStreamingOverride"
     ELSE IF f.signature = "SOFF" /\ \E o \in f.value.scenes : o.start >= o.end
          THEN "InvalidSceneOffset"
     ELSE IF f.signature = "SOFF" /\ \E o, q \in f.value.scenes : o # q /\ o.scene = q.scene
          THEN "DuplicateSceneOffset"
     ELSE IF f.signature = "SOFF" /\ \E g \in earlier : /\ g.signature = "SOFF"
                                                          /\ g.value.world = f.value.world
          THEN "DuplicateSceneOffsetTable"
     ELSE IF f.signature \notin Signatures THEN "UnknownField"
     ELSE "none"

ValuesOf(fields, signature) ==
  LET found == Restricted(fields, {k \in DOMAIN fields : fields[k].signature = signature})
  IN [i \in DOMAIN found |-> found[i].value]

Value(fields, signature) == ValuesOf(fields, signature)[1]

ReadWorld(world) == IF world = ZeroId THEN NoWorld ELSE world

\* The header that all fields together say.
Decoded(fields) ==
  [class |-> Value(fields, "CLAS"), next |-> Value(fields, "NXID"),
   count |-> Value(fields, "RCNT"), owned |-> Value(fields, "ORCT"),
   text |-> IF ValuesOf(fields, "TEXT") = <<>> THEN 0 ELSE Value(fields, "TEXT"),
   dependencies |-> ValuesOf(fields, "DEPN"),
   incompatibilities |-> ToSet(ValuesOf(fields, "INCM")),
   streaming |-> ValuesOf(fields, "SOVR"),
   offsets |-> UNION {{[world |-> ReadWorld(t.world), scene |-> o.scene,
                        start |-> o.start, end |-> o.end] : o \in t.scenes} :
                        t \in ToSet(ValuesOf(fields, "SOFF"))}]

\* What the header is refused for when all fields are read: the fields are asked for one
\* after the other, set_next_local_identifier, replace_dependencies,
\* replace_incompatibilities and validate_load_class check what they are given.
HeaderError(fields) ==
  LET missing(signatures) == \E s \in signatures : ValuesOf(fields, s) = <<>>
  IN IF missing({"FMTV"}) THEN "MissingField"
     ELSE IF Value(fields, "FMTV") # FormatVersion THEN "UnsupportedFormatVersion"
     ELSE IF missing({"PKID", "CLAS", "NXID"}) THEN "MissingField"
     ELSE IF Value(fields, "NXID") > MaxLocalId THEN "NextRecordIdOutOfRange"
     ELSE IF missing(Required) THEN "MissingField"
     ELSE LET h == Decoded(fields)
              id == Value(fields, "PKID")
          IN IF Len(h.dependencies) > MaxDependencies THEN "TooManyDependencies"
             ELSE IF ~ IsInjective(h.dependencies) \/ id \in ToSet(h.dependencies)
                  THEN "SelfOrDuplicateDependency"
             ELSE IF \/ ~ IsInjective(ValuesOf(fields, "INCM"))
                     \/ id \in h.incompatibilities
                  THEN "SelfOrDuplicateIncompatibility"
             ELSE IF ~ LoadClassValid(h) THEN "LoadClass"
             ELSE "none"

\* The error decode returns, "none" with the header Decoded(fields).
DecodeError(fields) ==
  LET faulty == {k \in DOMAIN fields : FieldError(fields, k) # "none"}
  IN IF faulty # {} THEN FieldError(fields, CHOOSE k \in faulty : \A j \in faulty : k <= j)
     ELSE HeaderError(fields)

---------------------------------------------------------------------------
(* What the layout and the edits need of all this: the headers that can be *)
(* written and are read back as they were.                                 *)

Decodes(h) ==
  /\ h.next <= MaxLocalId
  /\ Len(h.dependencies) <= MaxDependencies
  /\ IsInjective(h.dependencies)
  /\ PackageId \notin ToSet(h.dependencies) \cup h.incompatibilities
  /\ IsInjective(h.streaming)
  /\ \A o \in h.offsets : o.start < o.end
  /\ \A o, q \in h.offsets : o.world = q.world /\ o.scene = q.scene => o = q
  /\ LoadClassValid(h)
=============================================================================
