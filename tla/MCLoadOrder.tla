---------------------------- MODULE MCLoadOrder ----------------------------
\* Small instances of LoadOrder, Availability and LoadOrderHandle: three packages, ids 1, 2 and 3.
EXTENDS LoadOrderHandle

CONSTANT Classes

Order == <<1, 2, 3>>

Plain(p, class) ==
  [id |-> p, class |-> class, version |-> 1, dependencies |-> <<>>,
   incompatibilities |-> {}, streaming |-> {},
   indexes |-> TRUE, records |-> {}]

AnyVersion(p) == [package |-> p, versions |-> Versions]

\* Every list of up to two other packages, in every order, loaded or not.
DependencyLists(p) ==
  {<<>>}
  \cup {<<AnyVersion(q)>> : q \in PackageIds \ {p}}
  \cup {<<AnyVersion(r[1]), AnyVersion(r[2])>> :
          r \in {s \in (PackageIds \ {p}) \X (PackageIds \ {p}) : s[1] # s[2]}}

\* All classes and dependencies, packages listed twice and packages missing included.
StructureInputs ==
  {[packages |-> [k \in DOMAIN order |-> [Plain(order[k], classes[k]) EXCEPT !.dependencies = lists[order[k]]]],
    strict |-> TRUE] :
     order \in {<<1, 2, 3>>, <<1, 2, 1>>, <<1, 2>>},
     classes \in [1 .. 3 -> Classes],
     lists \in [1 .. 3 -> UNION {DependencyLists(p) : p \in 1 .. 3}]}

\* The headers among them that decode.
Structures ==
  {input \in StructureInputs : \A k \in DOMAIN input.packages : ValidHeader(input.packages[k])}

\* A dependency of 2 on 1 and of 3 on 1 and 2 with version requirements, and
\* incompatibilities between any two of them, under both policies.
Requirement(p) == [package : {p}, versions : {{1}, {1, 2}}]

Requirements ==
  {[packages |->
      <<[Plain(1, "Full") EXCEPT !.version = v[1], !.incompatibilities = x],
        [Plain(2, "Full") EXCEPT !.version = v[2], !.dependencies = <<a>>],
        [Plain(3, "Overlay") EXCEPT !.dependencies = <<b, c>>, !.incompatibilities = y]>>,
    strict |-> s] :
     v \in (1 .. 2) \X (1 .. 2), a \in Requirement(1), b \in Requirement(2), c \in Requirement(1),
     x \in SUBSET Requirement(3), y \in SUBSET Requirement(2), s \in BOOLEAN}

\* 3 depends on 2 and 1, 2 depends on 1; the records are ids of every owner, one
\* past the last owner and one beyond a compact package's range included; the
\* streaming overrides of 2 and 3 name different records or the same one.
Id(index, local) == [index |-> index, local |-> local]

StreamingLists ==
  {<<{}, {}>>, <<{Id(0, 1)}, {Id(1, 1)}>>, <<{Id(0, 1)}, {Id(0, 1)}>>,
   <<{}, {Id(0, 1), Id(1, 1)}>>}

Records ==
  {[packages |->
      <<[Plain(1, k[1]) EXCEPT !.records = a],
        [Plain(2, k[2]) EXCEPT !.dependencies = <<AnyVersion(1)>>, !.records = b, !.streaming = s[1]],
        [Plain(3, k[3]) EXCEPT !.dependencies = <<AnyVersion(2), AnyVersion(1)>>, !.records = c, !.streaming = s[2]]>>,
    strict |-> TRUE] :
     k \in [1 .. 3 -> Classes],
     a \in {{}, {Id(0, 1)}, {Id(0, 2)}},
     b \in SUBSET {Id(0, 1), Id(1, 1)},
     c \in {{}, {Id(0, 1)}, {Id(1, 1)}, {Id(0, 1), Id(1, 1)}, {Id(3, 1)}},
     s \in StreamingLists}

RecordInputs ==
  {input \in Records : \A k \in 1 .. 3 : ValidHeader(input.packages[k])}

\* A package whose content cannot be indexed.
Unindexed ==
  {[packages |-> <<Plain(1, "Full"), [Plain(2, "Full") EXCEPT !.indexes = FALSE]>>, strict |-> TRUE]}

AllInputs == Structures \cup Requirements \cup RecordInputs \cup Unindexed
=============================================================================
