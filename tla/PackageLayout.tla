--------------------------- MODULE PackageLayout ---------------------------
(***************************************************************************)
(* The bytes of a package as its readers see them: the package header      *)
(* record, then records and groups.  A group declares how many bytes it    *)
(* spans and nothing else says where it ends, so what a package contains   *)
(* depends on the declared sizes: chunks is the sequence of the records    *)
(* and group headers in the order of the bytes, and the nesting is read    *)
(* off the offsets (package_reader.rs, package_index.rs).  Modelled are    *)
(* the checks of opening (package.rs) and indexing, the scene offset       *)
(* tables and the rewriting of the header, whose length shifts everything  *)
(* behind it.                                                              *)
(*                                                                         *)
(* Sizes are in units: a record or group header takes one, like a          *)
(* relationship, a streaming override, a scene offset and its table.       *)
(***************************************************************************)
EXTENDS PackageHeader

RecordHeaderSize == 1
GroupHeaderSize == 1

Record(id, payload) == [kind |-> "record", id |-> id, payload |-> payload]

\* The payload is told by its length.
RecordSize(chunk) == RecordHeaderSize + chunk.payload

Group(type, label, size) == [kind |-> "group", type |-> type, label |-> label, size |-> size]

---------------------------------------------------------------------------
(* Offsets.                                                                *)

\* The length of the encoded header: text stands for the texts and the version.
HeaderSize(h) ==
  RecordHeaderSize + h.text + Len(h.dependencies) + Cardinality(h.incompatibilities)
    + Len(h.streaming) + Cardinality(Worlds(h)) + Cardinality(h.offsets)

\* The bytes of a chunk's own: a group's are its header.
OwnSize(chunk) == IF chunk.kind = "record" THEN RecordSize(chunk) ELSE GroupHeaderSize

\* The bytes it spans: a group says so itself.
Span(chunk) == IF chunk.kind = "record" THEN RecordSize(chunk) ELSE chunk.size

\* header_offset of every chunk, and behind them the byte count of the package.
Starts(p) ==
  LET start[i \in 1 .. Len(p.chunks) + 1] ==
        IF i = 1 THEN HeaderSize(p.header) ELSE start[i - 1] + OwnSize(p.chunks[i - 1])
  IN start

Start(p, i) == Starts(p)[i]

ByteCount(p) == Start(p, Len(p.chunks) + 1)

\* end_offset: behind the record, or where the group says it ends.
End(p, i) == Start(p, i) + Span(p.chunks[i])

Groups(p) == {i \in DOMAIN p.chunks : p.chunks[i].kind = "group"}
Records(p) == {i \in DOMAIN p.chunks : p.chunks[i].kind = "record"}

\* The groups on the record_path of chunk i.
Ancestors(p, i) ==
  LET start == Starts(p)
  IN {g \in 1 .. i - 1 : p.chunks[g].kind = "group" /\ start[i] < start[g] + p.chunks[g].size}

Ids(p) == {p.chunks[i].id : i \in Records(p)}

IndexOf(p, id) == CHOOSE i \in Records(p) : p.chunks[i].id = id

---------------------------------------------------------------------------
(* Opening and indexing.                                                   *)

\* The headers that the readers take apart: sizes and ids are unsigned.
IsRecord(c) ==
  /\ {"kind", "id", "payload"} \subseteq DOMAIN c /\ c.kind = "record"
  /\ {c.payload, c.id.index, c.id.local} \subseteq Nat
IsGroup(c) ==
  {"kind", "type", "label", "size"} \subseteq DOMAIN c /\ c.kind = "group" /\ c.size \in Nat

WellFormed(p) ==
  /\ DOMAIN p = {"header", "chunks"}
  /\ IsHeader(p.header)
  /\ IsSequence(p.chunks)
  /\ \A i \in DOMAIN p.chunks : IsRecord(p.chunks[i]) \/ IsGroup(p.chunks[i])

\* Package::from_source: the scene offsets are within the content.
OffsetsInBounds(p) ==
  \A o \in p.header.offsets : o.start >= HeaderSize(p.header) /\ o.end <= ByteCount(p)

\* The readers find every entry, and no entry reaches over the end of its group.
Scans(p) ==
  LET start == Starts(p)
      end(i) == start[i] + Span(p.chunks[i])
  IN /\ \A g \in Groups(p) : p.chunks[g].size >= GroupHeaderSize
     /\ \A i \in DOMAIN p.chunks : end(i) <= start[Len(p.chunks) + 1]
     /\ \A g \in Groups(p) : \A i \in DOMAIN p.chunks :
          start[g] < start[i] /\ start[i] < end(g) => end(i) <= end(g)

\* Mutant: the owned records are not counted.
IndexesByCount(p) ==
  /\ Scans(p)
  /\ Cardinality(Ids(p)) = Cardinality(Records(p))
  /\ p.header.count = Cardinality(Records(p))

\* PackageIndex::build.
Indexes(p) ==
  /\ Scans(p)
  /\ Cardinality(Ids(p)) = Cardinality(Records(p))
  /\ p.header.count = Cardinality(Records(p))
  /\ p.header.owned = Cardinality({id \in Ids(p) : id.index = OwnedIndex(p.header)})

Opens(p) == WellFormed(p) /\ Decodes(p.header) /\ OffsetsInBounds(p) /\ Indexes(p)

---------------------------------------------------------------------------
(* scene_offset_tables_from_index: where a streaming engine finds a scene.  *)

Temporaries(p) == {g \in Groups(p) : p.chunks[g].type = "SceneTemporaryChildren"}

\* The outermost world around a record.
WorldOf(p, i) ==
  LET worlds == {g \in Ancestors(p, i) : p.chunks[g].type = "WorldChildren"}
  IN IF worlds = {} THEN NoWorld
     ELSE p.chunks[CHOOSE w \in worlds : \A v \in worlds : w <= v].label

\* The end of the innermost SceneChildren group of the scene around g, or of g.
RegionEnd(p, g) ==
  LET around == {c \in Groups(p) : /\ p.chunks[c].type = "SceneChildren"
                                   /\ p.chunks[c].label = p.chunks[g].label
                                   /\ c <= g /\ End(p, c) >= End(p, g)}
  IN IF around = {} THEN End(p, g)
     ELSE End(p, CHOOSE c \in around : \A d \in around :
                   End(p, c) - Start(p, c) <= End(p, d) - Start(p, d))

SceneOffset(p, g) ==
  LET scene == IndexOf(p, p.chunks[g].label)
  IN [world |-> WorldOf(p, scene), scene |-> p.chunks[g].label,
      start |-> Start(p, scene), end |-> RegionEnd(p, g)]

\* Whether there is an error: a scene without its record, behind its own region, or
\* with two temporary groups.
HasSceneOffsets(p) ==
  /\ \A g \in Temporaries(p) : p.chunks[g].label \in Ids(p)
  /\ \A g \in Temporaries(p) : SceneOffset(p, g).start < SceneOffset(p, g).end
  /\ \A f, g \in Temporaries(p) : p.chunks[f].label = p.chunks[g].label => f = g

SceneOffsets(p) == {SceneOffset(p, g) : g \in Temporaries(p)}

---------------------------------------------------------------------------
(* rewrite_package_header_bytes.                                           *)

\* Mutant: the scene offsets are written as they are.
RewriteUnshifted(p, chunks, h) == [header |-> h, chunks |-> chunks]

\* p with its chunks replaced and its header replaced by h: the scene offsets of h
\* count from the old length of the header, and follow the new one.
Rewrite(p, chunks, h) ==
  [header |-> [h EXCEPT !.offsets = Shift(@, HeaderSize(h) - HeaderSize(p.header))],
   chunks |-> chunks]
=============================================================================
