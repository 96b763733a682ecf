------------------------------- MODULE Cursor -------------------------------
(***************************************************************************)
(* A cursor of the native interface over the content of a package: a       *)
(* stack of PackageReaders, each with its position and its end, and the    *)
(* group that was given last, which the caller may enter.  A group that is *)
(* not entered at once is skipped with all it contains.  The package comes *)
(* from an editing session, or was opened for reading: then nothing has    *)
(* looked at its content before.                                           *)
(*                                                                         *)
(* A cursor shares the source of the package it was created from, and an   *)
(* edit gives the handle another source: the session rests while a cursor  *)
(* runs, which loses no behaviour of the cursor.                           *)
(***************************************************************************)
EXTENDS EditSession, Ascending

CONSTANTS
  Unchecked,        \* packages opened for reading
  NoSource,
  MaxCallsBefore    \* bound: calls of the session before the cursor is created

\* The ends of groups are starts of chunks, or beyond the content: between them a reader
\* would take the bytes of a payload for a header.
Aligned(p) ==
  \A g \in Groups(p) : End(p, g) > ByteCount(p) \/ End(p, g) \in ToSet(Starts(p))

ASSUME CursorAssumption ==
  /\ MaxCallsBefore \in Nat
  /\ \A p \in Unchecked : WellFormed(p) /\ Decodes(p.header) /\ OffsetsInBounds(p) /\ Aligned(p)

VARIABLES
  source,     \* of the cursor
  readers,    \* records [position, end], the innermost last
  pending,    \* pending_group: the place of its chunk, 0 for none
  reply,
  given,      \* history: the chunks the cursor returned
  entered     \* history: the groups that were entered

cursorVars == <<source, readers, pending, reply, given, entered>>

CursorInit ==
  /\ Init
  /\ source = NoSource
  /\ readers = <<>>
  /\ pending = 0
  /\ reply = "none"
  /\ given = <<>>
  /\ entered = {}

---------------------------------------------------------------------------
Reader(start, end) == [position |-> start, end |-> end]

\* content_reader begins behind the header record.
Create ==
  /\ source = NoSource
  /\ calls <= MaxCallsBefore
  /\ source' \in {package} \cup (IF calls = 0 THEN Unchecked ELSE {})
  /\ readers' = <<Reader(HeaderSize(source'.header), ByteCount(source'))>>
  /\ reply' = "created"
  /\ UNCHANGED <<pending, given, entered, vars>>

\* The readers left when those at their end are dropped, from the innermost outwards.
Unfinished(stack) ==
  LET open == {k \in DOMAIN stack : stack[k].position # stack[k].end}
  IN IF open = {} THEN <<>>
     ELSE SubSeq(stack, 1, CHOOSE k \in open : \A j \in open : j <= k)

ChunkAt(position) == CHOOSE i \in DOMAIN source.chunks : Start(source, i) = position

\* next_entry: the size of the entry is possible, and the entry ends within the reader.
Fits(reader, i) ==
  /\ source.chunks[i].kind = "group" => source.chunks[i].size >= GroupHeaderSize
  /\ End(source, i) <= reader.end

\* pcp_package_cursor_next: the next entry of the innermost reader that has one; a reader
\* that fails stays where it is.
NextEntry ==
  /\ source # NoSource
  /\ LET stack == Unfinished(readers)
         top == Last(stack)
         i == ChunkAt(top.position)
     IN \/ /\ stack = <<>>
           /\ readers' = stack
           /\ pending' = 0
           /\ reply' = "EndOfRecords"
           /\ UNCHANGED given
        \/ /\ stack # <<>>
           /\ ~ Fits(top, i)
           /\ readers' = stack
           /\ pending' = 0
           /\ reply' = "InvalidPackage"
           /\ UNCHANGED given
        \/ /\ stack # <<>>
           /\ Fits(top, i)
           /\ readers' = [stack EXCEPT ![Len(stack)].position = End(source, i)]
           /\ pending' = IF source.chunks[i].kind = "group" THEN i ELSE 0
           /\ reply' = source.chunks[i].kind
           /\ given' = Append(given, i)
  /\ UNCHANGED <<source, entered, vars>>

\* Mutant: the children end where the content ends.
ChildrenUnbounded(g) == Reader(Start(source, g) + GroupHeaderSize, ByteCount(source))

\* GroupView::children.
Children(g) == Reader(Start(source, g) + GroupHeaderSize, End(source, g))

EnterGroup ==
  /\ source # NoSource
  /\ \/ /\ pending = 0
        /\ reply' = "InvalidArgument"
        /\ UNCHANGED <<readers, pending, entered>>
     \/ /\ pending # 0
        /\ readers' = Append(readers, Children(pending))
        /\ entered' = entered \cup {pending}
        /\ pending' = 0
        /\ reply' = "entered"
  /\ UNCHANGED <<source, given, vars>>

SessionStep == source = NoSource /\ Next /\ UNCHANGED cursorVars

CursorNext == SessionStep \/ Create \/ NextEntry \/ EnterGroup

CursorSpec == CursorInit /\ [][CursorNext]_<<vars, cursorVars>>

---------------------------------------------------------------------------
(* Properties.                                                             *)

\* The chunks of the source all of whose groups were entered, in the order of the bytes.
Visible ==
  Ascending({i \in DOMAIN source.chunks : Ancestors(source, i) \subseteq entered})

\* The cursor agrees with the index.  Whichever groups a caller enters, and wherever groups
\* end together, a cursor on a package that nests well gives exactly the entries of the
\* groups that were entered, each once and in the order of the bytes, and never fails; and
\* a walk that entered every group it met and came to the end proves that the groups nest.
CursorAgreesWithIndex ==
  source # NoSource =>
    /\ Scans(source) => /\ IsPrefix(given, Visible)
                        /\ reply = "EndOfRecords" => given = Visible
                        /\ reply # "InvalidPackage"
    /\ /\ reply = "EndOfRecords"
       /\ \A i \in ToSet(given) : source.chunks[i].kind = "group" => i \in entered
       => Scans(source)
=============================================================================
