--------------------------- MODULE MCEditSession ---------------------------
\* Small instances of EditSession.
EXTENDS EditSession

\* A package with these chunks: the header counts them.
PackageOf(chunks, dependencies, class, next) ==
  LET records == {i \in DOMAIN chunks : chunks[i].kind = "record"}
  IN [header |-> [NewHeader EXCEPT
                    !.class = class, !.next = next, !.dependencies = dependencies,
                    !.count = Cardinality(records),
                    !.owned = Cardinality({i \in records : chunks[i].id.index = Len(dependencies)})],
      chunks |-> chunks]

Override == RecordId(0, 1)
Own(local) == RecordId(1, local)

Plain(n, size) == Group("TopLevel", n, size)

\* Two groups, an override and an owned record, in every nesting and with every
\* place of the two groups.
Shapes(a, b) ==
  {<<Plain(1, a), Record(Override, 1), Plain(2, b), Record(Own(3), 0)>>,
   <<Plain(1, a), Plain(2, b), Record(Override, 1), Record(Own(3), 0)>>,
   <<Record(Override, 1), Plain(1, a), Plain(2, b), Record(Own(3), 0)>>,
   <<Plain(1, a), Record(Override, 1), Record(Own(3), 0), Plain(2, b)>>}

Nestings ==
  {p \in {PackageOf(chunks, <<"base">>, "Full", 4) :
            chunks \in UNION {Shapes(a, b) : a, b \in 1 .. 5}} : Opens(p)}

RecordIds == {Override, Own(3), Own(4), Own(5)}

\* Packages of every class: nothing but owned records, overrides, or none; and a scene
\* with an empty temporary group, whose record may be removed before a save.
FlatPackages ==
  {PackageOf(<<>>, <<>>, "Full", FirstUserId),
   PackageOf(<<>>, <<>>, "Compact", FirstCompactId),
   PackageOf(<<Record(Override, 0)>>, <<"base">>, "Overlay", FirstUserId),
   PackageOf(<<Record(RecordId(0, 1), 0), Group("SceneTemporaryChildren", RecordId(0, 1), 1)>>,
             <<>>, "Full", FirstUserId)}

FlatIds == {RecordId(0, 1), RecordId(0, 4), RecordId(1, 3)}

\* A scene in a world: its record, and its children with a temporary group, that of
\* the world first or last; and a scene outside of every world.
Scene == RecordId(0, 3)
Actor == RecordId(0, 4)
World == RecordId(0, 5)

SceneChunks ==
  {<<Group("WorldChildren", World, 7), Record(Scene, 0), Group("SceneChildren", Scene, 5),
     Group("SceneTemporaryChildren", Scene, 3), Record(Actor, 1), Record(World, 0)>>,
   <<Record(World, 0), Record(Scene, 1), Group("SceneTemporaryChildren", Scene, 2),
     Record(Actor, 0)>>}

ScenePackages ==
  LET unbuilt == {PackageOf(chunks, <<>>, "Full", 6) : chunks \in SceneChunks}
  IN {p \in unbuilt \cup {Rebuilt(q) : q \in unbuilt} : Opens(p)}

SceneIds == {Scene, Actor}
Overrides == {<<>>, <<Actor, Actor>>}
=============================================================================
