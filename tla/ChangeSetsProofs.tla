-------------------------- MODULE ChangeSetsProofs --------------------------
(***************************************************************************)
(* Proofs about ChangeSets, for histories, streams and drafts of every     *)
(* size: the store is closed and verified, it reads back what it writes,   *)
(* and is_ancestor finds the ancestors.                                    *)
(***************************************************************************)
EXTENDS ChangeSets, FiniteSetTheorems, Places

---------------------------------------------------------------------------
(* What decoding accepts.                                                  *)

\* A stream as FilesAssumption has them.
IsFile(file) ==
  /\ file.magic \in BOOLEAN
  /\ file.entries \in Seq(Range(file.entries))
  /\ \A entry \in Range(file.entries) : entry.parents \in Seq(ChangeSetIds) /\ entry.body \in Bodies

\* No error: every entry is what its identifier says and could be created, and the
\* parents are in the stream.
LEMMA AcceptedFile ==
  ASSUME NEW file, IsFile(file), DecodeError(file) = "none"
  PROVE  /\ file.magic
         /\ file.ending = "exact"
         /\ \A entry \in Range(file.entries) :
              /\ CreateError(entry.body) = "none"
              /\ ComputeId(entry.parents, entry.body) = entry.id
              /\ Range(entry.parents) \subseteq FileIds(file)
<1> DEFINE bad == {k \in DOMAIN file.entries : EntryError(file.entries[k]) # "none"}
<1>1. FirstFault(file) = "none"
  BY DEF DecodeError
<1>2. bad = {}
  <2> SUFFICES ASSUME bad # {} PROVE FALSE
    OBVIOUS
  <2>1. bad \in SUBSET Nat
    BY DEF IsFile
  <2>2. PICK k \in bad : \A l \in bad : k <= l
    BY <2>1, FirstPlace
  <2> DEFINE first == CHOOSE j \in bad : \A l \in bad : j <= l
  <2>3. first \in bad
    BY <2>2
  <2>4. EntryError(file.entries[first]) # "none"
    BY <2>3
  <2>5. file.magic => FirstFault(file) = EntryError(file.entries[first])
    BY DEF FirstFault
  <2>6. file.magic
    BY <1>1 DEF FirstFault
  <2> QED
    BY <1>1, <2>4, <2>5, <2>6
<1>3. file.magic /\ file.ending = "exact"
  BY <1>1, <1>2 DEF FirstFault
<1>4. ASSUME NEW entry \in Range(file.entries)
      PROVE  CreateError(entry.body) = "none" /\ ComputeId(entry.parents, entry.body) = entry.id
  <2>1. PICK k \in DOMAIN file.entries : file.entries[k] = entry
    BY DEF Range
  <2>2. EntryError(entry) = "none"
    BY <1>2, <2>1
  <2> QED
    BY <2>2 DEF EntryError
<1>5. \A entry \in Range(file.entries) : Range(entry.parents) \subseteq FileIds(file)
  BY <1>1 DEF DecodeError
<1> QED
  BY <1>3, <1>4, <1>5

\* No error, the other way round.
LEMMA FileIsAccepted ==
  ASSUME NEW file,
         file.magic, file.ending = "exact",
         \A entry \in Range(file.entries) :
           /\ CreateError(entry.body) = "none"
           /\ ComputeId(entry.parents, entry.body) = entry.id
           /\ Range(entry.parents) \subseteq FileIds(file)
  PROVE  DecodeError(file) = "none"
<1> DEFINE bad == {k \in DOMAIN file.entries : EntryError(file.entries[k]) # "none"}
<1>1. ASSUME NEW k \in DOMAIN file.entries PROVE EntryError(file.entries[k]) = "none"
  <2>1. file.entries[k] \in Range(file.entries)
    BY DEF Range
  <2> QED
    BY <2>1 DEF EntryError
<1>2. bad = {}
  BY <1>1
<1>3. FirstFault(file) = "none"
  BY <1>2 DEF FirstFault
<1> QED
  BY <1>3 DEF DecodeError

\* Under each identifier of the stream the store gets an entry with that identifier.
LEMMA DecodedEntry ==
  ASSUME NEW file, file.entries \in Seq(Range(file.entries)), NEW id \in FileIds(file)
  PROVE  Decoded(file)[id] \in Range(file.entries) /\ Decoded(file)[id].id = id
<1> DEFINE T == {k \in DOMAIN file.entries : file.entries[k].id = id}
           last == CHOOSE k \in DOMAIN file.entries :
                     /\ file.entries[k].id = id
                     /\ \A l \in DOMAIN file.entries : l > k => file.entries[l].id # id
<1>1. PICK n \in Nat : DOMAIN file.entries = 1 .. n
  OBVIOUS
<1>2. T \in SUBSET (0 .. n) /\ T # {}
  BY <1>1 DEF FileIds, Range
<1>3. PICK k \in T : \A l \in T : l <= k
  BY <1>1, <1>2, LastPlace
<1>4. \A l \in DOMAIN file.entries : l > k => file.entries[l].id # id
  BY <1>1, <1>3
<1>5. last \in DOMAIN file.entries /\ file.entries[last].id = id
  BY <1>3, <1>4
<1>6. Decoded(file)[id] = file.entries[last]
  BY DEF Decoded
<1> QED
  BY <1>5, <1>6 DEF Range

LEMMA DecodedDomain ==
  ASSUME NEW file
  PROVE  DOMAIN Decoded(file) = FileIds(file)
BY DEF Decoded

LEMMA FileIdsFinite ==
  ASSUME NEW file, file.entries \in Seq(Range(file.entries))
  PROVE  IsFiniteSet(FileIds(file))
<1> DEFINE f == [k \in DOMAIN file.entries |-> file.entries[k].id]
<1>1. PICK n \in Nat : DOMAIN file.entries = 1 .. n
  OBVIOUS
<1>2. f \in Surjection(1 .. n, FileIds(file))
  BY <1>1 DEF Surjection, FileIds, Range
<1> QED
  BY <1>2, FS_Interval, FS_Surjection

---------------------------------------------------------------------------
(* The invariant.                                                          *)

\* The store: finitely many change sets, closed and verified.
StoreInv ==
  /\ entries = [id \in Stored |-> entries[id]]
  /\ IsFiniteSet(Stored)
  /\ \A id \in Stored : entries[id].parents \in Seq(ChangeSetIds)
  /\ StoreIsClosed
  /\ StoredIsVerified

\* The search: what was looked up or waits can be reached; the ancestor was not looked
\* up; the parents of what was looked up were looked up or wait.
SearchInv ==
  /\ answer \in {"none", "searching", "yes", "no"}
  /\ answer = "searching" =>
       /\ pending \in Seq(ChangeSetIds)
       /\ query.descendant \in visited \cup Range(pending)
       /\ query.ancestor \notin visited
       /\ \A id \in visited \cap Stored : Range(entries[id].parents) \subseteq visited \cup Range(pending)
       /\ \A S \in SUBSET (Stored \cup {query.descendant}) :
            query.descendant \in S /\ ClosedUnderParents(S) => visited \cup Range(pending) \subseteq S

IInv == StoreInv /\ SearchInv /\ AncestryIsExact

LEMMA InitIInv == Init => IInv
<1> SUFFICES ASSUME Init PROVE IInv
  OBVIOUS
<1> USE DEF Init
<1>1. Stored = {}
  BY DEF Stored
<1>2. IsFiniteSet(Stored)
  BY <1>1, FS_EmptySet
<1>3. entries = [id \in Stored |-> entries[id]]
  BY <1>1
<1>4. StoreInv
  BY <1>1, <1>2, <1>3 DEF StoreInv, StoreIsClosed, StoredIsVerified
<1>5. SearchInv /\ AncestryIsExact
  BY DEF SearchInv, AncestryIsExact
<1> QED
  BY <1>4, <1>5 DEF IInv

LEMMA InsertPreserves ==
  ASSUME StoreInv, NEW draft \in Drafts, Insert(draft)
  PROVE  StoreInv'
<1> DEFINE new == Create(draft).id
<1>1. draft.parents \in Seq(ChangeSetIds)
  BY DraftsAssumption
<1>2. /\ Create(draft).parents = draft.parents
      /\ Create(draft).body = draft.body
      /\ new = ComputeId(draft.parents, draft.body)
  BY DEF Create
<1> HIDE DEF new
<1>3. /\ entries' = [id \in Stored \cup {new} |-> IF id \in Stored THEN entries[id] ELSE Create(draft)]
      /\ Range(draft.parents) \subseteq Stored
      /\ CreateError(draft.body) = "none"
      /\ new \notin Stored
  BY DEF Insert, new
<1>4. Stored' = Stored \cup {new}
  BY <1>3 DEF Stored
<1>5. entries'[new] = Create(draft) /\ \A id \in Stored : entries'[id] = entries[id]
  BY <1>3
<1>6. IsFiniteSet(Stored')
  BY <1>4, FS_AddElement DEF StoreInv
<1>7. entries' = [id \in Stored' |-> entries'[id]]
  BY <1>3, <1>4
<1>8. \A id \in Stored' : entries'[id].parents \in Seq(ChangeSetIds)
  BY <1>1, <1>2, <1>4, <1>5 DEF StoreInv
<1>9. StoreIsClosed'
  BY <1>2, <1>3, <1>4, <1>5 DEF StoreInv, StoreIsClosed
<1>10. StoredIsVerified'
  BY <1>2, <1>3, <1>4, <1>5 DEF StoreInv, StoredIsVerified, new
<1> QED
  BY <1>6, <1>7, <1>8, <1>9, <1>10 DEF StoreInv

LEMMA ReadPreserves ==
  ASSUME NEW file \in Files, Read(file)
  PROVE  StoreInv'
<1>1. IsFile(file)
  BY FilesAssumption DEF IsFile
<1>2. DecodeError(file) = "none" /\ entries' = Decoded(file)
  BY DEF Read
<1>3. Stored' = FileIds(file)
  BY <1>2, DecodedDomain DEF Stored
<1>4. \A id \in Stored' : entries'[id] \in Range(file.entries) /\ entries'[id].id = id
  BY <1>1, <1>2, <1>3, DecodedEntry DEF IsFile
<1>5. \A entry \in Range(file.entries) :
        /\ CreateError(entry.body) = "none"
        /\ ComputeId(entry.parents, entry.body) = entry.id
        /\ Range(entry.parents) \subseteq FileIds(file)
  BY <1>1, <1>2, AcceptedFile
<1>6. IsFiniteSet(Stored')
  BY <1>1, <1>3, FileIdsFinite DEF IsFile
<1>7. entries' = [id \in Stored' |-> entries'[id]]
  BY <1>2, <1>3 DEF Decoded
<1>8. \A id \in Stored' : entries'[id].parents \in Seq(ChangeSetIds)
  BY <1>1, <1>4 DEF IsFile
<1>9. StoreIsClosed'
  BY <1>3, <1>4, <1>5 DEF StoreIsClosed
<1>10. StoredIsVerified'
  BY <1>4, <1>5 DEF StoredIsVerified
<1> QED
  BY <1>6, <1>7, <1>8, <1>9, <1>10 DEF StoreInv

\* Forgetting the answer leaves nothing to show of the search.
LEMMA ForgetPreserves ==
  ASSUME ForgetAnswer
  PROVE  SearchInv' /\ AncestryIsExact'
BY DEF ForgetAnswer, SearchInv, AncestryIsExact

\* The stack without its top.
LEMMA PoppedStack ==
  ASSUME pending \in Seq(ChangeSetIds), pending # <<>>
  PROVE  /\ Popped \in Seq(ChangeSetIds)
         /\ Len(pending) \in Nat /\ Len(Popped) = Len(pending) - 1
         /\ Range(pending) = Range(Popped) \cup {Top}
<1> DEFINE n == Len(pending)
<1>1. n \in Nat /\ n > 0 /\ DOMAIN pending = 1 .. n
  OBVIOUS
<1>2. Popped \in Seq(ChangeSetIds) /\ Len(Popped) = n - 1 /\ DOMAIN Popped = 1 .. n - 1
  BY <1>1 DEF Popped
<1>3. \A k \in 1 .. n - 1 : Popped[k] = pending[k]
  BY <1>1 DEF Popped
<1>4. Top = pending[n]
  BY DEF Top
<1>5. 1 .. n = (1 .. n - 1) \cup {n}
  BY <1>1
<1>6. Range(pending) = Range(Popped) \cup {Top}
  <2> HIDE DEF n
  <2> QED
    BY <1>1, <1>2, <1>3, <1>4, <1>5 DEF Range
<1> QED
  BY <1>1, <1>2, <1>6

\* The stack with parents pushed.
LEMMA PushedStack ==
  ASSUME NEW s \in Seq(ChangeSetIds), NEW t \in Seq(ChangeSetIds)
  PROVE  s \o t \in Seq(ChangeSetIds) /\ Range(s \o t) = Range(s) \cup Range(t)
<1>1. s \o t \in Seq(ChangeSetIds) /\ Len(s \o t) = Len(s) + Len(t)
  OBVIOUS
<1>2. \A k \in 1 .. Len(s) + Len(t) : (s \o t)[k] = IF k <= Len(s) THEN s[k] ELSE t[k - Len(s)]
  OBVIOUS
<1>3. ASSUME NEW k \in DOMAIN (s \o t) PROVE (s \o t)[k] \in Range(s) \cup Range(t)
  <2>1. CASE k <= Len(s)
    BY <1>1, <1>2, <2>1 DEF Range
  <2>2. CASE k > Len(s)
    <3>1. k - Len(s) \in DOMAIN t
      BY <1>1, <2>2
    <3> QED
      BY <1>1, <1>2, <2>2, <3>1 DEF Range
  <2> QED
    BY <1>1, <2>1, <2>2
<1>4. ASSUME NEW k \in DOMAIN s PROVE s[k] \in Range(s \o t)
  <2>1. k \in DOMAIN (s \o t) /\ (s \o t)[k] = s[k]
    BY <1>1, <1>2
  <2> QED
    BY <2>1 DEF Range
<1>5. ASSUME NEW k \in DOMAIN t PROVE t[k] \in Range(s \o t)
  <2>1. Len(s) + k \in DOMAIN (s \o t) /\ (s \o t)[Len(s) + k] = t[k]
    BY <1>1, <1>2
  <2> QED
    BY <2>1 DEF Range
<1> QED
  BY <1>1, <1>3, <1>4, <1>5 DEF Range

LEMMA AskPreserves ==
  ASSUME StoreInv, NEW ancestor \in ChangeSetIds, NEW descendant \in ChangeSetIds,
         Ask(ancestor, descendant)
  PROVE  SearchInv' /\ AncestryIsExact'
<1>1. /\ query' = [ancestor |-> ancestor, descendant |-> descendant]
      /\ pending' = <<descendant>>
      /\ visited' = {}
      /\ answer' = "searching"
      /\ entries' = entries
  BY DEF Ask
<1>2. pending' \in Seq(ChangeSetIds) /\ Range(pending') = {descendant}
  BY <1>1 DEF Range
<1>3. query'.descendant = descendant
  BY <1>1
<1>4. \A id \in visited' \cap Stored' : Range(entries'[id].parents) \subseteq visited' \cup Range(pending')
  BY <1>1
<1>5. SearchInv'
  BY <1>1, <1>2, <1>3, <1>4 DEF SearchInv
<1> QED
  BY <1>1, <1>5 DEF AncestryIsExact

LEMMA AnswerPreserves ==
  ASSUME StoreInv, SearchInv, Answer
  PROVE  SearchInv' /\ AncestryIsExact'
<1> DEFINE a == query.ancestor
           d == query.descendant
<1>1. entries' = entries /\ query' = query /\ visited' = visited /\ answer = "searching"
  BY DEF Answer
<1>2. Stored' = Stored
  BY <1>1 DEF Stored
<1>3. /\ pending \in Seq(ChangeSetIds)
      /\ d \in visited \cup Range(pending)
      /\ a \notin visited
      /\ \A id \in visited \cap Stored : Range(entries[id].parents) \subseteq visited \cup Range(pending)
      /\ \A S \in SUBSET (Stored \cup {d}) :
           d \in S /\ ClosedUnderParents(S) => visited \cup Range(pending) \subseteq S
  BY <1>1 DEF SearchInv
<1> HIDE DEF a, d
<1>4. CASE pending = <<>> /\ answer' = "no"
  <2>1. Range(pending) = {}
    BY <1>4 DEF Range
  <2>2. ClosedUnderParents(Stored \cup {d})
    <3>1. CASE d \in Stored
      BY <3>1 DEF ClosedUnderParents, StoreInv, StoreIsClosed
    <3>2. CASE d \notin Stored
      BY <3>2 DEF ClosedUnderParents, StoreInv, StoreIsClosed
    <3> QED
      BY <3>1, <3>2
  <2>3. visited \subseteq Stored \cup {d}
    BY <1>3, <2>2
  <2>4. ClosedUnderParents(visited) /\ d \in visited
    BY <1>3, <2>1 DEF ClosedUnderParents
  <2>5. ~ Reaches(d, a)
    BY <1>3, <2>3, <2>4 DEF Reaches
  <2>6. Reaches(d, a)' <=> Reaches(d, a)
    BY <1>1, <1>2 DEF Reaches, ClosedUnderParents, a, d
  <2> QED
    BY <1>1, <1>4, <2>5, <2>6 DEF SearchInv, AncestryIsExact, a, d
<1>5. CASE pending # <<>> /\ Top = a /\ answer' = "yes"
  <2>1. a \in Range(pending)
    BY <1>3, <1>5, PoppedStack
  <2>2. Reaches(d, a)
    BY <1>3, <2>1 DEF Reaches
  <2>3. Reaches(d, a)' <=> Reaches(d, a)
    BY <1>1, <1>2 DEF Reaches, ClosedUnderParents, a, d
  <2> QED
    BY <1>1, <1>5, <2>2, <2>3 DEF SearchInv, AncestryIsExact, a, d
<1> QED
  BY <1>4, <1>5 DEF Answer, a

LEMMA LookUpPreserves ==
  ASSUME StoreInv, SearchInv, LookUp
  PROVE  SearchInv' /\ AncestryIsExact'
<1> DEFINE a == query.ancestor
           d == query.descendant
           seen == visited \cup Range(pending)
           new == visited' \cup Range(pending')
<1>1. /\ entries' = entries /\ query' = query /\ answer = "searching" /\ answer' = "searching"
      /\ pending # <<>> /\ Top # a
      /\ visited' = visited \cup {Top}
      /\ pending' = IF Top \notin visited /\ Top \in Stored
                    THEN Popped \o entries[Top].parents ELSE Popped
  BY DEF LookUp
<1>2. Stored' = Stored
  BY <1>1 DEF Stored
<1>3. /\ pending \in Seq(ChangeSetIds)
      /\ d \in seen
      /\ a \notin visited
      /\ \A id \in visited \cap Stored : Range(entries[id].parents) \subseteq seen
      /\ \A S \in SUBSET (Stored \cup {d}) : d \in S /\ ClosedUnderParents(S) => seen \subseteq S
  BY <1>1 DEF SearchInv
<1>4. Popped \in Seq(ChangeSetIds) /\ Range(pending) = Range(Popped) \cup {Top}
  BY <1>1, <1>3, PoppedStack
<1>5. /\ pending' \in Seq(ChangeSetIds)
      /\ new = IF Top \notin visited /\ Top \in Stored
               THEN seen \cup Range(entries[Top].parents) ELSE seen
  <2>1. CASE Top \notin visited /\ Top \in Stored
    <3>1. entries[Top].parents \in Seq(ChangeSetIds)
      BY <2>1 DEF StoreInv
    <3>2. /\ Popped \o entries[Top].parents \in Seq(ChangeSetIds)
          /\ Range(Popped \o entries[Top].parents) = Range(Popped) \cup Range(entries[Top].parents)
      BY <1>4, <3>1, PushedStack
    <3> QED
      BY <1>1, <1>4, <2>1, <3>2
  <2>2. CASE ~ (Top \notin visited /\ Top \in Stored)
    BY <1>1, <1>4, <2>2
  <2> QED
    BY <2>1, <2>2
<1>6. ASSUME NEW id \in visited' \cap Stored PROVE Range(entries[id].parents) \subseteq new
  <2>1. CASE id \in visited
    BY <1>3, <1>5, <2>1
  <2>2. CASE id \notin visited
    BY <1>1, <1>5, <2>2
  <2> QED
    BY <2>1, <2>2
<1>7. ASSUME NEW S \in SUBSET (Stored \cup {d}), d \in S, ClosedUnderParents(S)
      PROVE  new \subseteq S
  <2>1. seen \subseteq S
    BY <1>3, <1>7
  <2>2. CASE Top \notin visited /\ Top \in Stored
    <3>1. Top \in S
      BY <1>4, <2>1
    <3>2. Range(entries[Top].parents) \subseteq S
      BY <1>7, <2>2, <3>1 DEF ClosedUnderParents
    <3> QED
      BY <1>5, <2>1, <2>2, <3>2
  <2>3. CASE ~ (Top \notin visited /\ Top \in Stored)
    BY <1>5, <2>1, <2>3
  <2> QED
    BY <2>2, <2>3
<1>8. d \in new /\ a \notin visited'
  BY <1>1, <1>3, <1>5
<1>9. \A S : ClosedUnderParents(S)' <=> ClosedUnderParents(S)
  BY <1>1, <1>2 DEF ClosedUnderParents
<1> HIDE DEF new, seen, a, d
<1>10. SearchInv'
  <2>1. query'.descendant = d /\ query'.ancestor = a
    BY <1>1 DEF a, d
  <2>2. \A id \in visited' \cap Stored' : Range(entries'[id].parents) \subseteq visited' \cup Range(pending')
    BY <1>1, <1>2, <1>6 DEF new
  <2>3. \A S \in SUBSET (Stored' \cup {d}) :
          d \in S /\ ClosedUnderParents(S)' => visited' \cup Range(pending') \subseteq S
    BY <1>2, <1>7, <1>9 DEF new
  <2>4. d \in visited' \cup Range(pending')
    BY <1>8 DEF new
  <2> QED
    BY <1>1, <1>5, <1>8, <2>1, <2>2, <2>3, <2>4 DEF SearchInv
<1> QED
  BY <1>1, <1>10 DEF AncestryIsExact

---------------------------------------------------------------------------
(* Theorems.                                                               *)

LEMMA StepPreserves == IInv /\ [Next]_vars => IInv'
<1> SUFFICES ASSUME IInv, [Next]_vars PROVE IInv'
  OBVIOUS
<1>0. StoreInv /\ SearchInv /\ AncestryIsExact
  BY DEF IInv
<1>1. ASSUME NEW draft \in Drafts, Insert(draft) PROVE IInv'
  <2>1. ForgetAnswer
    BY <1>1 DEF Insert
  <2> QED
    BY <1>0, <1>1, <2>1, InsertPreserves, ForgetPreserves DEF IInv
<1>2. ASSUME NEW file \in Files, Read(file) PROVE IInv'
  <2>1. ForgetAnswer
    BY <1>2 DEF Read
  <2> QED
    BY <1>2, <2>1, ReadPreserves, ForgetPreserves DEF IInv
<1>3. ASSUME entries' = entries PROVE StoreInv'
  BY <1>0, <1>3 DEF StoreInv, StoreIsClosed, StoredIsVerified, Stored
<1>4. ASSUME NEW ancestor \in ChangeSetIds, NEW descendant \in ChangeSetIds, Ask(ancestor, descendant)
      PROVE  IInv'
  <2>1. entries' = entries
    BY <1>4 DEF Ask
  <2> QED
    BY <1>0, <1>3, <1>4, <2>1, AskPreserves DEF IInv
<1>5. CASE Answer
  <2>1. entries' = entries
    BY <1>5 DEF Answer
  <2> QED
    BY <1>0, <1>3, <1>5, <2>1, AnswerPreserves DEF IInv
<1>6. CASE LookUp
  <2>1. entries' = entries
    BY <1>6 DEF LookUp
  <2> QED
    BY <1>0, <1>3, <1>6, <2>1, LookUpPreserves DEF IInv
<1>7. CASE UNCHANGED vars
  <2>1. /\ entries' = entries /\ query' = query /\ pending' = pending
        /\ visited' = visited /\ answer' = answer
    BY <1>7 DEF vars, searchVars
  <2>2. SearchInv' /\ AncestryIsExact'
    BY <1>0, <2>1 DEF SearchInv, AncestryIsExact, Reaches, ClosedUnderParents, Stored
  <2> QED
    BY <1>3, <2>1, <2>2 DEF IInv
<1> QED
  BY <1>1, <1>2, <1>4, <1>5, <1>6, <1>7 DEF Next

\* The inductive invariant holds of every stack of change sets and every search through it
\* (record_lookup.rs, change_set.rs).
THEOREM Invariant == Spec => []IInv
BY InitIInv, StepPreserves, PTL DEF Spec

\* Insertion, which asks for the parents first, and decoding, which looks for them
\* afterwards, both keep every parent of a stored change set stored.
THEOREM HistoryStaysClosed == Spec => []StoreIsClosed
<1>1. IInv => StoreIsClosed
  BY DEF IInv, StoreInv
<1> QED
  BY <1>1, Invariant, PTL

\* Every stored change set is found under the digest of what it says, whatever the
\* streams contain.
THEOREM HistoryStaysVerified == Spec => []StoredIsVerified
<1>1. IInv => StoredIsVerified
  BY DEF IInv, StoreInv
<1> QED
  BY <1>1, Invariant, PTL

\* is_ancestor answers TRUE exactly for the ancestors, for histories of every shape.
THEOREM SearchFindsAncestors == Spec => []AncestryIsExact
<1>1. IInv => AncestryIsExact
  BY DEF IInv
<1> QED
  BY <1>1, Invariant, PTL

\* A store whose change sets are closed and verified reads back what it writes.
LEMMA ReadsBack == StoreInv => HistoryReadsBack
<1> SUFFICES ASSUME StoreInv, NEW order \in Orders
             PROVE  /\ DecodeError(ToBytes(order)) = "none"
                    /\ Decoded(ToBytes(order)) = entries
  BY DEF HistoryReadsBack
<1> DEFINE file == ToBytes(order)
           n == Cardinality(Stored)
<1>1. n \in Nat /\ order \in [1 .. n -> Stored] /\ Range(order) = Stored
  BY FS_CardinalityType DEF Orders, StoreInv
<1> HIDE DEF n
<1>2. /\ file.magic /\ file.ending = "exact"
      /\ file.entries = [k \in 1 .. n |-> entries[order[k]]]
  BY <1>1 DEF ToBytes
<1> HIDE DEF file
<1>3. Range(file.entries) = {entries[id] : id \in Stored}
  BY <1>1, <1>2 DEF Range
<1>4. FileIds(file) = Stored
  BY <1>3 DEF FileIds, StoreInv, StoredIsVerified
<1>5. file.entries \in Seq(Range(file.entries))
  <2>1. file.entries \in [1 .. n -> Range(file.entries)]
    BY <1>2 DEF Range
  <2> QED
    BY <1>1, <2>1
<1>6. DecodeError(file) = "none"
  <2>1. ASSUME NEW entry \in Range(file.entries)
        PROVE  /\ CreateError(entry.body) = "none"
               /\ ComputeId(entry.parents, entry.body) = entry.id
               /\ Range(entry.parents) \subseteq FileIds(file)
    <3>1. PICK id \in Stored : entry = entries[id]
      BY <1>3
    <3> QED
      BY <1>4, <3>1 DEF StoreInv, StoreIsClosed, StoredIsVerified
  <2> QED
    BY <1>2, <2>1, FileIsAccepted
<1>7. ASSUME NEW id \in Stored PROVE Decoded(file)[id] = entries[id]
  <2>1. Decoded(file)[id] \in {entries[i] : i \in Stored} /\ Decoded(file)[id].id = id
    BY <1>3, <1>4, <1>5, DecodedEntry
  <2> QED
    BY <2>1 DEF StoreInv, StoredIsVerified
<1>8. Decoded(file) = [id \in Stored |-> Decoded(file)[id]]
  BY <1>4 DEF Decoded
<1>9. Decoded(file) = entries
  BY <1>7, <1>8 DEF StoreInv
<1> QED
  BY <1>6, <1>9 DEF file

\* What a store writes is read back to the same store, for histories of every length
\* and in every order of the digests.
THEOREM HistoriesReadBack == Spec => []HistoryReadsBack
<1>1. IInv => HistoryReadsBack
  BY ReadsBack DEF IInv
<1> QED
  BY <1>1, Invariant, PTL

---------------------------------------------------------------------------
(* The number of turns.                                                    *)

\* A search has taken no more turns than the looked up change sets name parents, those
\* that wait set aside.
TurnsInv ==
  /\ turns \in Nat
  /\ answer = "none" => turns = 0
  /\ answer = "searching" =>
       turns + Len(pending) <= 1 + Cardinality(NamedParents(visited \cap Stored))
  /\ SearchIsLinear

\* There are finitely many named parents.
LEMMA NamedParentsFinite ==
  ASSUME StoreInv, NEW S \in SUBSET Stored
  PROVE  IsFiniteSet(NamedParents(S)) /\ Cardinality(NamedParents(S)) \in Nat
<1> DEFINE f == [id \in S |-> {id} \X DOMAIN entries[id].parents]
           T == {{id} \X DOMAIN entries[id].parents : id \in S}
<1>1. IsFiniteSet(S)
  BY FS_Subset DEF StoreInv
<1>2. f \in Surjection(S, T)
  BY DEF Surjection
<1> HIDE DEF f
<1>3. IsFiniteSet(T)
  BY <1>1, <1>2, FS_Surjection
<1>4. ASSUME NEW U \in T PROVE IsFiniteSet(U)
  <2>1. PICK id \in S : U = {id} \X DOMAIN entries[id].parents
    OBVIOUS
  <2>2. PICK n \in Nat : DOMAIN entries[id].parents = 1 .. n
    BY DEF StoreInv
  <2>3. IsFiniteSet(1 .. n)
    BY FS_Interval
  <2>4. IsFiniteSet({id})
    BY FS_Singleton
  <2> QED
    BY <2>1, <2>2, <2>3, <2>4, FS_Product
<1> HIDE DEF T
<1>5. IsFiniteSet(UNION T)
  BY <1>3, <1>4, FS_UNION
<1> QED
  BY <1>5, FS_CardinalityType DEF T, NamedParents

LEMMA StoreNamesFinitelyMany == StoreInv => Cardinality(NamedParents(Stored)) \in Nat
BY NamedParentsFinite

\* One more change set names its parents.
LEMMA NamedParentsGrow ==
  ASSUME StoreInv, NEW S \in SUBSET Stored, NEW id \in Stored \ S
  PROVE  Cardinality(NamedParents(S \cup {id})) =
           Cardinality(NamedParents(S)) + Len(entries[id].parents)
<1> DEFINE new == {id} \X DOMAIN entries[id].parents
<1>1. PICK n \in Nat : DOMAIN entries[id].parents = 1 .. n /\ Len(entries[id].parents) = n
  BY DEF StoreInv
<1>2. /\ IsFiniteSet(1 .. n) /\ Cardinality(1 .. n) = n
      /\ IsFiniteSet({id}) /\ Cardinality({id}) = 1
  <2>1. IsFiniteSet(1 .. n) /\ Cardinality(1 .. n) = IF 1 > n THEN 0 ELSE n - 1 + 1
    BY FS_Interval
  <2>2. Cardinality(1 .. n) = n
    BY <2>1
  <2> QED
    BY <2>1, <2>2, FS_Singleton
<1>3. IsFiniteSet(new) /\ Cardinality(new) = n
  <2>1. IsFiniteSet({id} \X (1 .. n)) /\ Cardinality({id} \X (1 .. n)) = 1 * n
    BY <1>2, FS_Product
  <2> QED
    BY <1>1, <2>1
<1>4. NamedParents(S \cup {id}) = NamedParents(S) \cup new
  BY DEF NamedParents
<1>5. NamedParents(S) \cap new = {}
  BY DEF NamedParents
<1>6. IsFiniteSet(NamedParents(S)) /\ Cardinality(NamedParents(S)) \in Nat
  BY NamedParentsFinite
<1> HIDE DEF new
<1>7. Cardinality(NamedParents(S) \cup new) =
        Cardinality(NamedParents(S)) + Cardinality(new) - Cardinality(NamedParents(S) \cap new)
  BY <1>3, <1>6, FS_Union
<1>8. Cardinality({}) = 0
  BY FS_EmptySet
<1>9. Cardinality(NamedParents(S \cup {id})) = Cardinality(NamedParents(S)) + n - 0
  BY <1>3, <1>4, <1>5, <1>7, <1>8, Zenon
<1>10. PICK m \in Nat : m = Cardinality(NamedParents(S))
  BY <1>6
<1> QED
  BY <1>1, <1>9, <1>10

\* What was looked up names no more parents than the store.
LEMMA NamedParentsWithin ==
  ASSUME StoreInv
  PROVE  Cardinality(NamedParents(visited \cap Stored)) <= Cardinality(NamedParents(Stored))
<1>1. IsFiniteSet(NamedParents(Stored))
  BY NamedParentsFinite
<1>2. NamedParents(visited \cap Stored) \in SUBSET NamedParents(Stored)
  BY DEF NamedParents
<1> QED
  BY <1>1, <1>2, FS_Subset

\* A turn that looks an identifier up.
LEMMA LookUpTakesATurn ==
  ASSUME StoreInv, SearchInv, TurnsInv, LookUp
  PROVE  TurnsInv'
<1> DEFINE named == Cardinality(NamedParents(visited \cap Stored))
           then == Cardinality(NamedParents(visited' \cap Stored))
<1>1. /\ entries' = entries /\ answer = "searching" /\ answer' = "searching"
      /\ pending # <<>> /\ turns' = turns + 1 /\ turns \in Nat
      /\ visited' = visited \cup {Top}
      /\ pending' = IF Top \notin visited /\ Top \in Stored
                    THEN Popped \o entries[Top].parents ELSE Popped
      /\ turns + Len(pending) <= 1 + named
      /\ pending \in Seq(ChangeSetIds)
  BY DEF LookUp, TurnsInv, SearchInv
<1>2. Stored' = Stored
  BY <1>1 DEF Stored
<1>3. named \in Nat /\ then \in Nat
  <2>1. visited \cap Stored \in SUBSET Stored /\ visited' \cap Stored \in SUBSET Stored
    OBVIOUS
  <2> QED
    BY <2>1, NamedParentsFinite
<1>4. Popped \in Seq(ChangeSetIds) /\ Len(Popped) = Len(pending) - 1 /\ Len(pending) \in Nat
  BY <1>1, PoppedStack
<1>5. turns' \in Nat /\ Len(pending') \in Nat /\ turns' + Len(pending') <= 1 + then
  <2>1. CASE Top \notin visited /\ Top \in Stored
    <3>1. visited' \cap Stored = (visited \cap Stored) \cup {Top}
      BY <1>1, <2>1
    <3>2. Top \in Stored \ (visited \cap Stored)
      BY <2>1
    <3>3. then = named + Len(entries[Top].parents)
      BY <3>1, <3>2, NamedParentsGrow
    <3>4. entries[Top].parents \in Seq(ChangeSetIds)
      BY <2>1 DEF StoreInv
    <3>5. pending' = Popped \o entries[Top].parents
      BY <1>1, <2>1
    <3>6. PICK s \in Seq(ChangeSetIds) : s = Popped
      BY <1>4
    <3>7. PICK u \in Seq(ChangeSetIds) : u = entries[Top].parents
      BY <3>4
    <3>8. Len(s \o u) = Len(s) + Len(u) /\ Len(u) \in Nat
      OBVIOUS
    <3>9. Len(pending') = Len(Popped) + Len(entries[Top].parents) /\ Len(entries[Top].parents) \in Nat
      BY <3>5, <3>6, <3>7, <3>8, Zenon
    <3>10. /\ turns + Len(pending) <= 1 + named /\ turns' = turns + 1
           /\ turns \in Nat /\ Len(pending) \in Nat /\ Len(Popped) = Len(pending) - 1
      BY <1>1, <1>4
    <3>11. PICK m \in Nat : m = Len(entries[Top].parents)
      BY <3>9
    <3> HIDE DEF named, then
    <3>12. Len(pending') = Len(pending) - 1 + m
      BY <3>9, <3>10, <3>11, Zenon
    <3>13. then = named + m
      BY <3>3, <3>11, Zenon
    <3> QED
      BY <1>3, <1>4, <3>10, <3>12, <3>13
  <2>2. CASE ~ (Top \notin visited /\ Top \in Stored)
    <3>1. visited' \cap Stored = visited \cap Stored
      BY <1>1, <2>2
    <3>2. pending' = Popped /\ then = named
      BY <1>1, <2>2, <3>1
    <3>3. /\ turns + Len(pending) <= 1 + named /\ turns' = turns + 1
          /\ turns \in Nat /\ Len(pending) \in Nat /\ Len(Popped) = Len(pending) - 1
      BY <1>1, <1>4
    <3> HIDE DEF named, then
    <3> QED
      BY <1>3, <3>2, <3>3
  <2> QED
    BY <2>1, <2>2
<1>6. then <= Cardinality(NamedParents(Stored)) /\ Cardinality(NamedParents(Stored)) \in Nat
  <2>1. IsFiniteSet(NamedParents(Stored)) /\ Cardinality(NamedParents(Stored)) \in Nat
    BY NamedParentsFinite
  <2>2. NamedParents(visited' \cap Stored) \in SUBSET NamedParents(Stored)
    BY DEF NamedParents
  <2> QED
    BY <2>1, <2>2, FS_Subset
<1>8. Cardinality(NamedParents(visited \cap Stored))' = then
  BY <1>1, <1>2 DEF NamedParents
<1>9. Cardinality(NamedParents(Stored))' = Cardinality(NamedParents(Stored))
  BY <1>1, <1>2 DEF NamedParents
<1> HIDE DEF named, then
<1>10. SearchIsLinear'
  <2>1. turns' <= 2 + Cardinality(NamedParents(Stored))
    BY <1>3, <1>5, <1>6
  <2> QED
    BY <1>9, <2>1 DEF SearchIsLinear
<1> QED
  BY <1>1, <1>5, <1>8, <1>10 DEF TurnsInv

\* A search looks up every change set once, for histories of every shape: identifiers are
\* pushed only when one that was not visited is looked up (change_set.rs, is_ancestor).
THEOREM SearchTakesFewTurns == Spec => []SearchIsLinear
<1>1. Init => TurnsInv
  <2> SUFFICES ASSUME Init PROVE TurnsInv
    OBVIOUS
  <2>1. StoreInv
    BY InitIInv DEF IInv
  <2>2. Cardinality(NamedParents(Stored)) \in Nat
    BY <2>1, NamedParentsFinite
  <2> QED
    BY <2>2 DEF Init, TurnsInv, SearchIsLinear
<1>2. IInv /\ IInv' /\ TurnsInv /\ [Next]_vars => TurnsInv'
  <2> SUFFICES ASSUME IInv, IInv', TurnsInv, [Next]_vars PROVE TurnsInv'
    OBVIOUS
  <2>0. StoreInv /\ SearchInv /\ StoreInv'
    BY DEF IInv
  <2>1. /\ Cardinality(NamedParents(Stored)) \in Nat
        /\ Cardinality(NamedParents(Stored))' \in Nat
    <3>1. StoreInv' => (Cardinality(NamedParents(Stored)) \in Nat)'
      BY StoreNamesFinitelyMany, PTL
    <3> QED
      BY <2>0, <3>1, StoreNamesFinitelyMany
  <2>2. CASE ForgetAnswer
    BY <2>1, <2>2 DEF ForgetAnswer, TurnsInv, SearchIsLinear
  <2>3. ASSUME NEW ancestor \in ChangeSetIds, NEW descendant \in ChangeSetIds, Ask(ancestor, descendant)
        PROVE  TurnsInv'
    <3>1. /\ answer' = "searching" /\ turns' = 0 /\ pending' = <<descendant>> /\ visited' = {}
      BY <2>3 DEF Ask
    <3>3. Cardinality(NamedParents(visited \cap Stored))' = 0
      <4>1. NamedParents(visited \cap Stored)' = {}
        BY <3>1 DEF NamedParents
      <4> QED
        BY <4>1, FS_EmptySet
    <3>4. Len(pending') = 1
      BY <3>1
    <3> QED
      BY <2>1, <3>1, <3>3, <3>4 DEF TurnsInv, SearchIsLinear
  <2>4. CASE Answer
    <3>1. /\ entries' = entries /\ visited' = visited /\ answer = "searching"
          /\ answer' \in {"yes", "no"} /\ turns' = turns + 1
      BY <2>4 DEF Answer
    <3>2. /\ turns \in Nat /\ pending \in Seq(ChangeSetIds)
          /\ turns + Len(pending) <= 1 + Cardinality(NamedParents(visited \cap Stored))
      BY <2>0, <3>1 DEF TurnsInv, SearchInv
    <3>3. Cardinality(NamedParents(visited \cap Stored)) <= Cardinality(NamedParents(Stored))
      BY <2>0, NamedParentsWithin
    <3>4. Cardinality(NamedParents(visited \cap Stored)) \in Nat
      <4>1. visited \cap Stored \in SUBSET Stored
        OBVIOUS
      <4> QED
        BY <2>0, <4>1, NamedParentsFinite
    <3>5. Len(pending) \in Nat
      BY <3>2
    <3>6. turns' <= 2 + Cardinality(NamedParents(Stored))
      BY <2>1, <3>1, <3>2, <3>3, <3>4, <3>5
    <3>7. Cardinality(NamedParents(Stored))' = Cardinality(NamedParents(Stored))
      BY <3>1 DEF NamedParents, Stored
    <3>8. SearchIsLinear'
      BY <3>6, <3>7 DEF SearchIsLinear
    <3> QED
      BY <3>1, <3>2, <3>8 DEF TurnsInv
  <2>5. CASE LookUp
    BY <2>0, <2>5, LookUpTakesATurn
  <2>6. CASE UNCHANGED vars
    BY <2>6 DEF vars, searchVars, TurnsInv, SearchIsLinear, NamedParents, Stored
  <2> QED
    BY <2>2, <2>3, <2>4, <2>5, <2>6 DEF Next, Insert, Read
<1>3. TurnsInv => SearchIsLinear
  BY DEF TurnsInv
<1> QED
  BY <1>1, <1>2, <1>3, Invariant, PTL DEF Spec
=============================================================================
