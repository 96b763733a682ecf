------------------------------ MODULE MCMerge ------------------------------
\* Small instances of Merge: a destination with a world and a record in it, and sources
\* that override, add and delete around them.
EXTENDS Merge

R(id) == [kind |-> "record", id |-> id]
G(type, label, children) ==
  [kind |-> "group", type |-> type, label |-> label, children |-> children]

\* The entries of nested groups, the outermost ones at this depth.
RECURSIVE Flat(_, _)
Flat(nested, depth) ==
  FlattenSeq([i \in DOMAIN nested |->
    IF nested[i].kind = "record" THEN <<RecordEntry(depth, nested[i].id)>>
    ELSE <<GroupEntry(depth, nested[i].type, nested[i].label)>>
         \o Flat(nested[i].children, depth + 1)])

\* The package of nested groups with these records: the header counts them.
PackageOf(nested, contents, dependencies, class, nextId) ==
  LET byId == [id \in {r.id : r \in contents} |-> CHOOSE r \in contents : r.id = id]
      chunks == EncodeTree(Flat(nested, 0), byId)
      ids == {chunks[i].id : i \in {j \in DOMAIN chunks : chunks[j].kind = "record"}}
  IN [header |-> [NewHeader EXCEPT
                    !.class = class, !.next = nextId, !.dependencies = dependencies,
                    !.count = Cardinality(ids),
                    !.owned = Cardinality({id \in ids : id.index = Len(dependencies)})],
      chunks |-> chunks]

Refs(ids) == [signature |-> "REFS", payload |-> ids]
List(items) == [signature |-> "LIST", payload |-> items]
Name(item) == [signature |-> "NAME", payload |-> <<item>>]

Plain(id, subrecords) == LogicalRecord(id, FALSE, subrecords, "earlier")
Deleted(id) == LogicalRecord(id, TRUE, <<>>, "earlier")

\* A world 3 with a child 4, and a record 5 beside them or in a second group of the world,
\* all its own; the world record may be missing, the next identifier may be one that is
\* taken.
DestinationOf(worldThere, split, dependencies, class, nextId) ==
  LET own(local) == RecordId(Len(dependencies), local)
      base == RecordId(PlaceOf("base", dependencies), 1)
      inWorld(id) == G("WorldChildren", own(3), <<R(id)>>)
  IN PackageOf(
       <<G("TopLevel", "scenes",
           (IF worldThere THEN <<R(own(3))>> ELSE <<>>)
             \o <<inWorld(own(4)), IF split THEN inWorld(own(5)) ELSE R(own(5))>>)>>,
       {Plain(own(3), <<Name("world")>>),
        Plain(own(4), <<Refs(<<base, own(3)>>), List(<<"a">>), Name("child")>>),
        Plain(own(5), <<Refs(<<own(4)>>)>>)},
       dependencies, class, nextId)

\* The first one names a streaming override that a source may delete.
MCDestinations ==
  {[DestinationOf(TRUE, FALSE, <<"other", "base">>, "Full", 7)
      EXCEPT !.header.streaming = <<RecordId(2, 5)>>],
   DestinationOf(FALSE, TRUE, <<"base">>, "Full", 6),
   DestinationOf(TRUE, TRUE, <<"other", "base">>, "Full", 6),
   DestinationOf(TRUE, FALSE, <<"base">>, "Compact", 6),
   DestinationOf(TRUE, FALSE, <<"base">>, "Full", 4)}

DependencyLists == {<<"self">>, <<"base", "self">>, <<"self", "base">>}

\* A source: what it does with the world, what is in the world's group and beside it.
SourceOf(dependencies, world, inside, beside) ==
  LET selfAt == IF "self" \in ToSet(dependencies) THEN PlaceOf("self", dependencies) ELSE 0
      baseAt == IF "base" \in ToSet(dependencies) THEN PlaceOf("base", dependencies) ELSE selfAt
      self(local) == RecordId(selfAt, local)
      own(local) == RecordId(Len(dependencies), local)
      base == RecordId(baseAt, 1)
      entry(what) ==
        CASE what = "child" -> R(self(4)) [] what = "missing" -> R(self(6))
          [] what = "new" -> R(own(3)) [] what = "newer" -> R(own(4))
          [] what = "gone" -> R(self(5)) [] what = "foreign" -> R(base)
          [] what = "scene" -> G("SceneChildren", own(3), <<R(own(4))>>)
      entries(list) == [i \in DOMAIN list |-> entry(list[i])]
      group == G("WorldChildren", self(3), entries(inside))
      worldRecord == IF world = "absent" THEN <<>> ELSE <<R(self(3))>>
  IN PackageOf(
       (IF inside = <<>> THEN worldRecord
        ELSE <<G("TopLevel", "scenes", worldRecord \o <<group>>)>>) \o entries(beside),
       {IF world = "deleted" THEN Deleted(self(3)) ELSE Plain(self(3), <<Name("moved")>>),
        Plain(self(4), <<Refs(<<own(3), base>>), List(<<"a", "b">>), Name("changed")>>),
        Plain(self(6), <<Name("late")>>), Deleted(self(5)), Plain(base, <<>>),
        Plain(own(3), <<Refs(<<base, self(5)>>)>>),
        Plain(own(4), <<Refs(<<own(3)>>), List(<<"b">>)>>)},
       dependencies, "Full", 5)

MCSources ==
  {SourceOf(dependencies, world, inside, beside) :
     dependencies \in DependencyLists,
     world \in {"absent", "plain", "deleted"},
     inside \in {<<>>, <<"new">>, <<"child", "new">>, <<"newer", "child">>},
     beside \in {<<>>, <<"newer">>, <<"gone", "new">>, <<"missing">>, <<"foreign">>,
                 <<"child">>, <<"new", "missing">>, <<"scene">>}}
    \cup {SourceOf(dependencies, "plain", <<>>, <<"new">>) :
            dependencies \in {<<"base">>, <<"self", "unknown">>}}

Rule(signature, strategy) == [signature |-> signature, strategy |-> strategy]
ListRule(signature, mode, limit) ==
  [signature |-> signature, strategy |-> "AppendEncodedList", mode |-> mode, limit |-> limit]

RuleSets ==
  {ReplaceRecord,
   <<Rule("NAME", "KeepDestination"), ListRule("REFS", "Unique", 3),
     ListRule("LIST", "NewIndices", 3)>>,
   <<Rule("NAME", "AppendNewOccurrences"), Rule("LIST", "Replace"),
     Rule("REFS", "AppendOccurrences"), ListRule("REFS", "All", 3)>>}

Selections ==
  {[kind |-> "All"]}
    \cup [kind : {"Record", "RecordAndDescendants"}, id : {RecordId(1, 3), RecordId(2, 3), RecordId(2, 4)}]

MCOptions == [selection : Selections, includeOverrides : BOOLEAN, rules : RuleSets]

\* The sources and destinations that open: no record twice, and room for the ids.
OpenSources == {p \in MCSources : FromSource!Opens(p)}
OpenDestinations == {p \in MCDestinations : Opens(p)}
=============================================================================
