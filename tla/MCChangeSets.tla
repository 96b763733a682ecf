---------------------------- MODULE MCChangeSets ----------------------------
\* A small instance of ChangeSets: three roots, one of them too large for a stream, a
\* line, a merge of two lines, a change set that names a parent twice, and a merge of those.
EXTENDS ChangeSets

Operation(record, kind) == [record |-> record, kind |-> kind]

Said(note) ==
  [destination |-> "p", source |-> "q", author |-> "dev", note |-> note,
   operations |-> <<Operation(1, "Add")>>]

First == ComputeId(<<>>, Said("a"))
Other == ComputeId(<<>>, Said("b"))
Line == ComputeId(<<First>>, Said("a"))
Fork == ComputeId(<<Line, Other>>, Said("a"))
Twice == ComputeId(<<Line, Line>>, Said("b"))
Join == ComputeId(<<Twice, Line>>, Said("a"))
Unknown == ComputeId(<<>>, Said("never created"))

\* More operations than a stream of the instance holds.
ManyOperations == [Said("many") EXCEPT !.operations = [k \in 1 .. 7 |-> Operation(k, "Add")]]
Large == ComputeId(<<>>, ManyOperations)

AllIds == {First, Other, Line, Fork, Twice, Join, Large, Unknown}

\* Bodies with each error of create.
Refused ==
  {[Said("a") EXCEPT !.source = "nil"], [Said("a") EXCEPT !.source = "p"],
   [Said("a") EXCEPT !.author = ""], [Said("a") EXCEPT !.operations = <<>>],
   [Said("a") EXCEPT !.operations = <<Operation(1, "Add"), Operation(1, "Delete")>>]}

AllBodies == {Said("a"), Said("b"), ManyOperations} \cup Refused

Draft(id) == [parents |-> id[1], body |-> id[2]]

AllDrafts ==
  {Draft(id) : id \in AllIds \ {Unknown}}
  \cup {[parents |-> <<Unknown>>, body |-> Said("a")]}
  \cup {[parents |-> <<First>>, body |-> body] : body \in Refused}

Entry(id) == [id |-> id, parents |-> id[1], body |-> id[2]]

\* Entries as they were written; with other content under the identifier; and entries
\* that create refuses.
Written == {Entry(id) : id \in {First, Other, Line, Fork}}
Altered ==
  {[Entry(Line) EXCEPT !.body = Said("b")], [Entry(Line) EXCEPT !.parents = <<Other>>]}
  \cup {[Entry(First) EXCEPT !.body = body] : body \in Refused}

\* Every sequence of up to four written entries, repetitions included, whole or with an
\* end or a beginning that is not that of a history; and an altered entry among others.
AllFiles ==
  {[magic |-> TRUE, entries |-> e, ending |-> x] :
     e \in UNION {[1 .. n -> Written] : n \in 0 .. 4}, x \in {"exact", "undecodable", "trailing"}}
  \cup {[magic |-> FALSE, entries |-> <<>>, ending |-> "exact"]}
  \cup {[magic |-> TRUE, entries |-> <<a, b, c>>, ending |-> "exact"] :
     a \in Written \cup Altered, b \in Written, c \in Altered}
=============================================================================
