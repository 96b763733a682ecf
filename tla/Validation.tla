----------------------------- MODULE Validation -----------------------------
(***************************************************************************)
(* ValidationReport::for_indexed_package (validation.rs): what an author   *)
(* is told of a package that opens and is still not sound, as the editors  *)
(* and the merge should leave none.  An issue names the record it is       *)
(* about.                                                                  *)
(***************************************************************************)
EXTENDS PackageLayout

Issue(severity, code, id) == [severity |-> severity, code |-> code, id |-> id]

\* The groups whose label is the record they belong to.
RecordLabelled ==
  {"WorldChildren", "SceneChildren", "ConversationChildren",
   "ScenePersistentChildren", "SceneTemporaryChildren", "SceneDistantChildren"}

OwnedIds(p) == {id \in Ids(p) : id.index = OwnedIndex(p.header)}

\* The largest own id, where the next one is not above it.
NextIdCollisions(p) ==
  {Issue("Error", "PCP-NEXT-ID-COLLISION", id) :
     id \in {largest \in OwnedIds(p) :
               /\ \A other \in OwnedIds(p) : other.local <= largest.local
               /\ p.header.next <= largest.local}}

MissingStreamingOverrides(p) ==
  {Issue("Warning", "PCP-STREAMING-OVERRIDE-MISSING", id) :
     id \in {p.header.streaming[i] : i \in DOMAIN p.header.streaming} \ Ids(p)}

OrphanedPaths(p) ==
  {Issue("Error", "PCP-ORPHANED-RECORD-PATH", id) :
     id \in {p.chunks[g].label : g \in {c \in Groups(p) : p.chunks[c].type \in RecordLabelled}}
            \ Ids(p)}

Issues(p) == NextIdCollisions(p) \cup MissingStreamingOverrides(p) \cup OrphanedPaths(p)

HasErrors(p) == \E issue \in Issues(p) : issue.severity = "Error"
=============================================================================
