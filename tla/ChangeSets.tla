----------------------------- MODULE ChangeSets -----------------------------
(***************************************************************************)
(* ChangeSetStore (change_set.rs): the history of the merges of a package  *)
(* as a graph of change sets, each of which names its parents by their     *)
(* identifiers.  An identifier is the digest of all that a change set      *)
(* says; digests do not collide here.  Modelled are the creation of change *)
(* sets, insertion, the search for an ancestor turn by turn, and the       *)
(* history stream a store is written to and read from.                     *)
(***************************************************************************)
EXTENDS Integers, Sequences, FiniteSets, Functions

CONSTANTS
  NilPackage,      \* PackageId::is_nil
  NoAuthor,        \* the empty author
  ChangeSetIds,    \* every identifier the calls may name, stored or not
  Bodies,          \* what change sets say beside their parents
  Drafts,          \* the arguments of ChangeSet::create: records [parents, body]
  Files,           \* the streams from_bytes is given
  MaxCount         \* u32::MAX: the longest collection a stream can hold

\* An operation is the record it is about and a kind, which stands for the digest of
\* the content and the change set the record had before as well.
ASSUME DraftsAssumption ==
  /\ MaxCount \in Nat
  /\ \A draft \in Drafts : /\ draft.parents \in Seq(ChangeSetIds)
                           /\ draft.body \in Bodies
  /\ \A body \in Bodies : body.operations \in Seq(Range(body.operations))

\* A stream: whether it begins with PCVH and its version, the entries that can be
\* decoded, and what follows them: nothing, an entry that ends early, has an unknown
\* operation or no valid text, or bytes that no entry accounts for.
ASSUME FilesAssumption ==
  \A file \in Files :
    /\ file.magic \in BOOLEAN
    /\ file.entries \in Seq(Range(file.entries))
    /\ \A entry \in Range(file.entries) : /\ entry.parents \in Seq(ChangeSetIds)
                                          /\ entry.body \in Bodies
                                          /\ entry.id \in ChangeSetIds
    /\ file.ending \in {"exact", "undecodable", "trailing"}

VARIABLES
  entries,   \* ChangeSetStore::entries: from identifiers to change sets
  query,     \* is_ancestor's arguments: records [ancestor, descendant]
  pending,   \* its stack
  visited,   \* its set of identifiers that were looked up
  answer,    \* "none" before it is called, "searching", TRUE and FALSE as "yes", "no"
  turns      \* history: the iterations of its loop

searchVars == <<query, pending, visited, answer, turns>>
vars == <<entries, searchVars>>

---------------------------------------------------------------------------
(* ChangeSet::create.                                                      *)

\* compute_id.
ComputeId(parents, body) == <<parents, body>>

\* Its errors, in their order.
CreateError(body) ==
  LET records == [k \in DOMAIN body.operations |-> body.operations[k].record]
  IN IF NilPackage \in {body.destination, body.source} THEN "NilPackageId"
     ELSE IF body.destination = body.source THEN "SameSourceAndDestination"
     ELSE IF body.author = NoAuthor THEN "EmptyAuthor"
     ELSE IF body.operations = <<>> THEN "NoOperations"
     ELSE IF ~ IsInjective(records) THEN "DuplicateRecordOperation"
     ELSE "none"

\* The change set of a draft without error.
Create(draft) ==
  [id |-> ComputeId(draft.parents, draft.body), parents |-> draft.parents, body |-> draft.body]

---------------------------------------------------------------------------
(* The history stream.                                                     *)

Stored == DOMAIN entries

\* ChangeSetStore::to_bytes: HistoryTooLarge, or a stream of the entries in the order
\* of their identifiers, which for digests is any order.
Encodes ==
  /\ Cardinality(Stored) <= MaxCount
  /\ \A id \in Stored : /\ Len(entries[id].parents) <= MaxCount
                        /\ Len(entries[id].body.operations) <= MaxCount

Orders == {order \in [1 .. Cardinality(Stored) -> Stored] : Range(order) = Stored}

ToBytes(order) ==
  [magic |-> TRUE, entries |-> [k \in DOMAIN order |-> entries[order[k]]], ending |-> "exact"]

\* Mutant: the identifier of an entry is taken from the stream.
EntryErrorTrusting(entry) == CreateError(entry.body)

\* The error of decoding one entry.
EntryError(entry) ==
  IF CreateError(entry.body) # "none" THEN CreateError(entry.body)
  ELSE IF ComputeId(entry.parents, entry.body) # entry.id THEN "HistoryIdentifierMismatch"
  ELSE "none"

FileIds(file) == {entry.id : entry \in Range(file.entries)}

\* What is wrong with an entry of the file, the first that has a fault, or with what
\* follows the entries.
FirstFault(file) ==
  LET bad == {k \in DOMAIN file.entries : EntryError(file.entries[k]) # "none"}
  IN IF ~file.magic THEN "MalformedHistory"
     ELSE IF bad # {} THEN EntryError(file.entries[CHOOSE k \in bad : \A l \in bad : k <= l])
     ELSE IF file.ending # "exact" THEN "MalformedHistory"
     ELSE "none"

\* Mutant: the parents are not looked for.
DecodeErrorUnlinked(file) == FirstFault(file)

\* Mutant: parents must come before their children, as if the entries were inserted.
DecodeErrorInOrder(file) ==
  IF FirstFault(file) # "none" THEN FirstFault(file)
  ELSE IF \E k \in DOMAIN file.entries : \E parent \in Range(file.entries[k].parents) :
            \A l \in 1 .. k - 1 : file.entries[l].id # parent
  THEN "MissingParent" ELSE "none"

\* The error of ChangeSetStore::from_bytes: entries in the order of the stream, then
\* what follows them, then the parents, which may stand anywhere in the stream.
DecodeError(file) ==
  IF FirstFault(file) # "none" THEN FirstFault(file)
  ELSE IF \E entry \in Range(file.entries) : ~ Range(entry.parents) \subseteq FileIds(file)
  THEN "MissingParent" ELSE "none"

\* The store it returns: of entries with one identifier the last one stays.
Decoded(file) ==
  [id \in FileIds(file) |->
     LET last == CHOOSE k \in DOMAIN file.entries :
                   /\ file.entries[k].id = id
                   /\ \A l \in DOMAIN file.entries : l > k => file.entries[l].id # id
     IN file.entries[last]]

---------------------------------------------------------------------------
(* The calls.                                                              *)

Init ==
  /\ entries = <<>>
  /\ query = <<>>
  /\ pending = <<>>
  /\ visited = {}
  /\ answer = "none"
  /\ turns = 0

\* is_ancestor borrows the store: nothing else is called before it answers.
Idle == answer # "searching"

ForgetAnswer ==
  /\ query' = <<>>
  /\ pending' = <<>>
  /\ visited' = {}
  /\ answer' = "none"
  /\ turns' = 0

\* ChangeSet::create, ChangeSetStore::insert.  MissingParent and DuplicateChangeSet
\* leave the store as it is.
Insert(draft) ==
  /\ Idle
  /\ CreateError(draft.body) = "none"
  /\ Range(draft.parents) \subseteq Stored
  /\ Create(draft).id \notin Stored
  /\ entries' = [id \in Stored \cup {Create(draft).id} |->
                   IF id \in Stored THEN entries[id] ELSE Create(draft)]
  /\ ForgetAnswer

\* A store that was read takes the place of the present one.
Read(file) ==
  /\ Idle
  /\ DecodeError(file) = "none"
  /\ entries' = Decoded(file)
  /\ ForgetAnswer

\* ChangeSetStore::is_ancestor is called.  The identifiers need not be stored.
Ask(ancestor, descendant) ==
  /\ answer = "none"
  /\ query' = [ancestor |-> ancestor, descendant |-> descendant]
  /\ pending' = <<descendant>>
  /\ visited' = {}
  /\ answer' = "searching"
  /\ turns' = 0
  /\ UNCHANGED entries

Top == pending[Len(pending)]

Popped == SubSeq(pending, 1, Len(pending) - 1)

\* One turn finds the ancestor, or the stack empty.
Answer ==
  /\ answer = "searching"
  /\ \/ pending = <<>> /\ answer' = "no" /\ UNCHANGED pending
     \/ pending # <<>> /\ Top = query.ancestor /\ answer' = "yes" /\ pending' = Popped
  /\ turns' = turns + 1
  /\ UNCHANGED <<entries, query, visited>>

\* Mutant: what was visited is looked up again.
LookUpAgain ==
  /\ answer = "searching"
  /\ pending # <<>>
  /\ Top # query.ancestor
  /\ visited' = visited \cup {Top}
  /\ pending' = IF Top \in Stored THEN Popped \o entries[Top].parents ELSE Popped
  /\ turns' = turns + 1
  /\ UNCHANGED <<entries, query, answer>>

\* Mutant: only the first parent is followed.
LookUpFirst ==
  /\ answer = "searching"
  /\ pending # <<>>
  /\ Top # query.ancestor
  /\ visited' = visited \cup {Top}
  /\ pending' = IF Top \notin visited /\ Top \in Stored /\ entries[Top].parents # <<>>
                THEN Append(Popped, Head(entries[Top].parents)) ELSE Popped
  /\ turns' = turns + 1
  /\ UNCHANGED <<entries, query, answer>>

\* One turn pops another identifier, whose parents follow if it is stored and was not
\* popped before.
LookUp ==
  /\ answer = "searching"
  /\ pending # <<>>
  /\ Top # query.ancestor
  /\ visited' = visited \cup {Top}
  /\ pending' = IF Top \notin visited /\ Top \in Stored
                THEN Popped \o entries[Top].parents ELSE Popped
  /\ turns' = turns + 1
  /\ UNCHANGED <<entries, query, answer>>

Next ==
  \/ \E draft \in Drafts : Insert(draft)
  \/ \E file \in Files : Read(file)
  \/ \E ancestor, descendant \in ChangeSetIds : Ask(ancestor, descendant)
  \/ Answer
  \/ LookUp

Spec == Init /\ [][Next]_vars

---------------------------------------------------------------------------
(* Properties.                                                             *)

\* No merge of the history is without the merges it builds on: the parents of every
\* stored change set are stored.  Insertion and decoding establish it differently.
StoreIsClosed ==
  \A id \in Stored : Range(entries[id].parents) \subseteq Stored

\* A change set is found under the digest of what it says, and could have been created:
\* decoding lets no altered entry in.
StoredIsVerified ==
  \A id \in Stored : /\ entries[id].id = id
                     /\ id = ComputeId(entries[id].parents, entries[id].body)
                     /\ CreateError(entries[id].body) = "none"

\* What a store writes it reads back, to the same store, in whatever order the digests
\* put children and parents.
HistoryReadsBack ==
  Encodes => \A order \in Orders : /\ DecodeError(ToBytes(order)) = "none"
                                   /\ Decoded(ToBytes(order)) = entries

\* The sets of identifiers that are closed under taking the parents of stored ones.
ClosedUnderParents(S) ==
  \A id \in S \cap Stored : Range(entries[id].parents) \subseteq S

\* Reaching an ancestor over parents, the change set itself included.
Reaches(descendant, ancestor) ==
  \A S \in SUBSET (Stored \cup {descendant}) :
    descendant \in S /\ ClosedUnderParents(S) => ancestor \in S

\* is_ancestor answers TRUE exactly for the ancestors, through shared parents,
\* repeated parents and identifiers that are not stored.
AncestryIsExact ==
  answer \in {"yes", "no"} => (answer = "yes" <=> Reaches(query.descendant, query.ancestor))

\* Every place at which one of these change sets names a parent.
NamedParents(ids) == UNION {{id} \X DOMAIN entries[id].parents : id \in ids}

\* The search looks every change set up once: merges of merges, which share ever more
\* ancestors, cost no more than the parents they name.
SearchIsLinear == turns <= 2 + Cardinality(NamedParents(Stored))
=============================================================================
