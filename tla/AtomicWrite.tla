---------------------------- MODULE AtomicWrite ----------------------------
(***************************************************************************)
(* write_package_atomically (atomic_write.rs): threads of several          *)
(* processes replace one package file through pending files in its         *)
(* directory.  Modelled are the pending name (process id and a counter of  *)
(* the process), the exclusive creation that skips taken names, the write, *)
(* the synchronisation, the validation that opens the pending file BY NAME,*)
(* the rename, the best-effort synchronisation of the directory and the    *)
(* best-effort removal after a failure; any of these may fail.  A process  *)
(* may be killed at every step, leaves its pending files behind and comes  *)
(* back with a counter of 0 and any process id, its old one included.  A   *)
(* power failure also loses what was not synchronised, in files and in the *)
(* directory: a rename, a creation or a removal may turn out undone.       *)
(* Readers open the destination and read it through the handle they        *)
(* opened.                                                                 *)
(*                                                                         *)
(* The file system is external: inodes that names refer to, with the       *)
(* content each holds; rename replaces what the destination names and      *)
(* never changes the content of an inode.                                  *)
(***************************************************************************)
EXTENDS Integers, FiniteSets

CONSTANTS
  Threads,        \* threads that call write_package_atomically
  Readers,        \* holders of a Package opened from the destination
  Processes,      \* operating-system processes
  ProcessOf,      \* the process each thread runs in
  Pids,           \* process ids; two processes may have the same one (containers)
  Packages,       \* byte strings that open and index as a package
  Broken,         \* byte strings that do not
  Torn,           \* what an incomplete write leaves: a member of Broken
  Inodes,         \* files the file system can hold
  Original,       \* the inode the destination names at first
  Nothing,        \* no file, no content
  MaxSequence,    \* bound: values of TEMPORARY_FILE_SEQUENCE in one process
  MaxCalls,       \* bound: calls of write_package_atomically
  MaxFailures     \* bound: killed processes and power failures

Contents == Packages \cup Broken

PendingNames == Pids \X (0 .. MaxSequence)

ASSUME ConstantsAssumption ==
  /\ ProcessOf \in [Threads -> Processes]
  /\ Packages \cap Broken = {}
  /\ Packages # {}
  /\ Torn \in Broken
  /\ Original \in Inodes
  /\ Nothing \notin Inodes \cup Contents \cup PendingNames
  /\ MaxSequence \in Nat
  /\ MaxCalls \in Nat
  /\ MaxFailures \in Nat

VARIABLES
  \* the file system
  content,        \* content[i]: what inode i holds, Nothing while i is unused
  synced,         \* inodes whose content reached the disk
  pending,        \* pending[n]: the inode the pending name n refers to
  destination,    \* the inode the destination refers to
  recoverable,    \* inodes the destination may refer to after a power failure
  returnable,     \* returnable[n]: what n may refer to after one, Nothing if it may be gone
  \* the processes
  pid,            \* std::process::id() of each process
  sequence,       \* TEMPORARY_FILE_SEQUENCE of each process
  \* the calls, one per thread
  pc,             \* the next step of the call
  bytes,          \* the argument of the call
  name,           \* temporary_path
  file,           \* the open file: the inode the call created
  \* the readers
  reader,         \* reader[r]: the inode r opened
  opened,         \* opened[r]: what that inode held when r opened it
  \* bounds and history
  calls, failures,
  abandoned,      \* pending names whose call was killed or could not remove them, and
                  \* those that a power failure could bring back
  unsettled       \* names renamed or removed since the directory was last synchronised

fileSystem == <<content, synced, pending, destination, recoverable, returnable>>
processes == <<pid, sequence>>
threads == <<pc, bytes, name, file>>
readers == <<reader, opened>>
history == <<calls, failures, abandoned, unsettled>>
vars == <<fileSystem, processes, threads, readers, history>>

Steps == {"idle", "claim", "create", "write", "sync", "validate", "rename",
          "syncDirectory", "remove"}

\* Steps at which the call owns a pending file.
Owning == {"write", "sync", "validate", "rename", "remove"}

OwnedNames(S) == {name[t] : t \in {u \in S : pc[u] \in Owning}}

Goto(t, step) == pc' = [pc EXCEPT ![t] = step]

\* The call ends, with Ok or with an error.
Return(t) ==
  /\ Goto(t, "idle")
  /\ bytes' = [bytes EXCEPT ![t] = Nothing]
  /\ name' = [name EXCEPT ![t] = Nothing]
  /\ file' = [file EXCEPT ![t] = Nothing]

---------------------------------------------------------------------------
Init ==
  /\ \E package \in Packages :
       content = [i \in Inodes |-> IF i = Original THEN package ELSE Nothing]
  /\ synced = {Original}
  /\ pending = [n \in PendingNames |-> Nothing]
  /\ destination = Original
  /\ recoverable = {Original}
  /\ returnable = [n \in PendingNames |-> {Nothing}]
  /\ pid \in [Processes -> Pids]
  /\ sequence = [p \in Processes |-> 0]
  /\ pc = [t \in Threads |-> "idle"]
  /\ bytes = [t \in Threads |-> Nothing]
  /\ name = [t \in Threads |-> Nothing]
  /\ file = [t \in Threads |-> Nothing]
  /\ reader = [r \in Readers |-> Nothing]
  /\ opened = [r \in Readers |-> Nothing]
  /\ calls = 0
  /\ failures = 0
  /\ abandoned = {}
  /\ unsettled = {}

---------------------------------------------------------------------------
(* One call of write_package_atomically.                                   *)

Call(t, package) ==
  /\ pc[t] = "idle"
  /\ calls < MaxCalls
  /\ calls' = calls + 1
  /\ bytes' = [bytes EXCEPT ![t] = package]
  /\ Goto(t, "claim")
  /\ UNCHANGED <<fileSystem, processes, name, file, readers, failures, abandoned, unsettled>>

\* fetch_add on the counter of the process, and the name made from it.
ClaimName(t) ==
  LET p == ProcessOf[t] IN
  /\ pc[t] = "claim"
  /\ sequence[p] < MaxSequence
  /\ sequence' = [sequence EXCEPT ![p] = @ + 1]
  /\ name' = [name EXCEPT ![t] = <<pid[p], sequence[p]>>]
  /\ Goto(t, "create")
  /\ UNCHANGED <<fileSystem, pid, bytes, file, readers, history>>

\* Mutant: create instead of create_new, which truncates the file it finds.
CreateOrTruncate(t) ==
  /\ pc[t] = "create"
  /\ \E i \in Inodes :
       /\ IF pending[name[t]] = Nothing THEN content[i] = Nothing
                                       ELSE i = pending[name[t]]
       /\ content' = [content EXCEPT ![i] = Torn]
       /\ pending' = [pending EXCEPT ![name[t]] = i]
       /\ returnable' = [returnable EXCEPT ![name[t]] = @ \cup {i}]
       /\ file' = [file EXCEPT ![t] = i]
  /\ abandoned' = abandoned \ {name[t]}
  /\ Goto(t, "write")
  /\ UNCHANGED <<synced, destination, recoverable, processes, bytes, name, readers,
                 calls, failures, unsettled>>

\* OpenOptions::create_new: the name must be free.
CreatePending(t) ==
  /\ pc[t] = "create"
  /\ pending[name[t]] = Nothing
  /\ \E i \in Inodes :
       /\ content[i] = Nothing
       /\ content' = [content EXCEPT ![i] = Torn]
       /\ pending' = [pending EXCEPT ![name[t]] = i]
       /\ returnable' = [returnable EXCEPT ![name[t]] = @ \cup {i}]
       /\ file' = [file EXCEPT ![t] = i]
  /\ abandoned' = abandoned \ {name[t]}
  /\ Goto(t, "write")
  /\ UNCHANGED <<synced, destination, recoverable, processes, bytes, name, readers,
                 calls, failures, unsettled>>

\* Mutant: the sequence number that was taken is tried again.
RetrySameName(t) ==
  LET p == ProcessOf[t] IN
  /\ pc[t] = "create"
  /\ pending[name[t]] # Nothing
  /\ sequence' = [sequence EXCEPT ![p] = @ - 1]
  /\ Goto(t, "claim")
  /\ UNCHANGED <<fileSystem, pid, bytes, name, file, readers, history>>

\* AlreadyExists: the next sequence number is tried.
SkipTakenName(t) ==
  /\ pc[t] = "create"
  /\ pending[name[t]] # Nothing
  /\ Goto(t, "claim")
  /\ UNCHANGED <<fileSystem, processes, bytes, name, file, readers, history>>

\* Every other error of the creation is returned.
CreateFails(t) ==
  /\ pc[t] = "create"
  /\ Return(t)
  /\ UNCHANGED <<fileSystem, processes, readers, history>>

\* write_all: it writes through the open file.
WriteAll(t) ==
  /\ pc[t] = "write"
  /\ content' = [content EXCEPT ![file[t]] = bytes[t]]
  /\ Goto(t, "sync")
  /\ synced' = synced \ {file[t]}
  /\ UNCHANGED <<pending, destination, recoverable, returnable, processes,
                 bytes, name, file, readers, history>>

\* Mutant: the file is closed without sync_all.
CloseFile(t) ==
  /\ pc[t] = "sync"
  /\ Goto(t, "validate")
  /\ UNCHANGED <<fileSystem, processes, bytes, name, file, readers, history>>

\* sync_all on the file.
SyncFile(t) ==
  /\ pc[t] = "sync"
  /\ synced' = synced \cup {file[t]}
  /\ Goto(t, "validate")
  /\ UNCHANGED <<content, pending, destination, recoverable, returnable, processes,
                 bytes, name, file, readers, history>>

\* Package::open on the path of the pending file, and build_index.
Validate(t) ==
  /\ pc[t] = "validate"
  /\ pending[name[t]] # Nothing
  /\ content[pending[name[t]]] \in Packages
  /\ Goto(t, "rename")
  /\ UNCHANGED <<fileSystem, processes, bytes, name, file, readers, history>>

\* The name was renamed or removed.  That is on the disk once the directory is
\* synchronised, until then it may be undone.
Release(n) ==
  /\ pending' = [pending EXCEPT ![n] = Nothing]
  /\ returnable' = [returnable EXCEPT ![n] = @ \cup {Nothing}]
  /\ unsettled' = unsettled \cup {n}

\* fs::rename: the destination names the file the pending name referred to.
Rename(t) ==
  /\ pc[t] = "rename"
  /\ pending[name[t]] # Nothing
  /\ destination' = pending[name[t]]
  /\ recoverable' = recoverable \cup {pending[name[t]]}
  /\ Release(name[t])
  /\ Goto(t, "syncDirectory")
  /\ UNCHANGED <<content, synced, processes, bytes, name, file, readers,
                 calls, failures, abandoned>>

\* The directory is opened and synchronised, with what other calls did in it; the
\* call returns Ok ...
SyncDirectory(t) ==
  /\ pc[t] = "syncDirectory"
  /\ recoverable' = {destination}
  /\ returnable' = [n \in PendingNames |-> {pending[n]}]
  /\ unsettled' = {}
  /\ Return(t)
  /\ UNCHANGED <<content, synced, pending, destination, processes,
                 readers, calls, failures, abandoned>>

\* ... and it returns Ok also when that failed.
IgnoreDirectory(t) ==
  /\ pc[t] = "syncDirectory"
  /\ Return(t)
  /\ UNCHANGED <<fileSystem, processes, readers, history>>

\* Mutant: a failure returns at once.
FailAtOnce(t) ==
  /\ pc[t] \in {"write", "sync", "validate", "rename"}
  /\ Return(t)
  /\ UNCHANGED <<fileSystem, processes, readers, history>>

\* Writing, synchronising, validating or renaming returns an error.
Fail(t) ==
  /\ pc[t] \in {"write", "sync", "validate", "rename"}
  /\ Goto(t, "remove")
  /\ UNCHANGED <<fileSystem, processes, bytes, name, file, readers, history>>

\* remove_file on the path of the pending file, and no synchronisation of the
\* directory; the call returns the error ...
RemovePending(t) ==
  /\ pc[t] = "remove"
  /\ Release(name[t])
  /\ Return(t)
  /\ UNCHANGED <<content, synced, destination, recoverable, processes,
                 readers, calls, failures, abandoned>>

\* ... and returns it also when the removal failed.
IgnoreRemoval(t) ==
  /\ pc[t] = "remove"
  /\ abandoned' = abandoned \cup {name[t]}
  /\ Return(t)
  /\ UNCHANGED <<fileSystem, processes, readers, calls, failures, unsettled>>

---------------------------------------------------------------------------
(* Readers: FilePackageSource keeps the file it opened.                    *)

OpenReader(r) ==
  /\ reader[r] = Nothing
  /\ reader' = [reader EXCEPT ![r] = destination]
  /\ opened' = [opened EXCEPT ![r] = content[destination]]
  /\ UNCHANGED <<fileSystem, processes, threads, history>>

CloseReader(r) ==
  /\ reader[r] # Nothing
  /\ reader' = [reader EXCEPT ![r] = Nothing]
  /\ opened' = [opened EXCEPT ![r] = Nothing]
  /\ UNCHANGED <<fileSystem, processes, threads, history>>

---------------------------------------------------------------------------
(* Failures (the environment).                                             *)

\* The threads in S end without another step; their pending files stay.
Kill(S) ==
  /\ pc' = [t \in Threads |-> IF t \in S THEN "idle" ELSE pc[t]]
  /\ bytes' = [t \in Threads |-> IF t \in S THEN Nothing ELSE bytes[t]]
  /\ name' = [t \in Threads |-> IF t \in S THEN Nothing ELSE name[t]]
  /\ file' = [t \in Threads |-> IF t \in S THEN Nothing ELSE file[t]]

\* One process is killed and started again.
KillProcess(p) ==
  /\ failures < MaxFailures
  /\ failures' = failures + 1
  /\ LET S == {t \in Threads : ProcessOf[t] = p}
     IN  Kill(S) /\ abandoned' = abandoned \cup OwnedNames(S)
  /\ \E q \in Pids : pid' = [pid EXCEPT ![p] = q]
  /\ sequence' = [sequence EXCEPT ![p] = 0]
  /\ UNCHANGED <<fileSystem, readers, calls, unsettled>>

\* Power is lost.  Content that was not synchronised may be torn; every name of
\* the directory, by itself, is what it was at some time since the directory was
\* last synchronised, so that a file may be back under the pending name it was
\* renamed or removed from; and every process starts again.
LosePower ==
  /\ failures < MaxFailures
  /\ failures' = failures + 1
  /\ Kill(Threads)
  /\ \E lost \in SUBSET {i \in Inodes \ synced : content[i] # Nothing} :
       content' = [i \in Inodes |-> IF i \in lost THEN Torn ELSE content[i]]
  /\ pending' \in [PendingNames -> Inodes \cup {Nothing}]
  /\ \A n \in PendingNames : pending'[n] \in returnable[n]
  /\ returnable' = [n \in PendingNames |-> {pending'[n]}]
  /\ abandoned' = abandoned \cup OwnedNames(Threads) \cup unsettled
  /\ unsettled' = {}
  /\ \E i \in recoverable :
       /\ destination' = i
       /\ recoverable' = {i}
  /\ pid' \in [Processes -> Pids]
  /\ sequence' = [p \in Processes |-> 0]
  /\ reader' = [r \in Readers |-> Nothing]
  /\ opened' = [r \in Readers |-> Nothing]
  /\ UNCHANGED <<synced, calls>>

---------------------------------------------------------------------------
\* What a call does by itself once it was made.
Step(t) ==
  \/ ClaimName(t)
  \/ CreatePending(t)
  \/ SkipTakenName(t)
  \/ CreateFails(t)
  \/ WriteAll(t)
  \/ SyncFile(t)
  \/ Validate(t)
  \/ Rename(t)
  \/ SyncDirectory(t)
  \/ IgnoreDirectory(t)
  \/ Fail(t)
  \/ RemovePending(t)
  \/ IgnoreRemoval(t)

Next ==
  \/ \E t \in Threads : Step(t)
  \/ \E t \in Threads, package \in Contents : Call(t, package)
  \/ \E r \in Readers : OpenReader(r) \/ CloseReader(r)
  \/ \E p \in Processes : KillProcess(p)
  \/ LosePower

Spec == Init /\ [][Next]_vars

\* A call is ordinary code of a running thread: it keeps taking steps.
FairSpec == Spec /\ \A t \in Threads : WF_vars(Step(t))

---------------------------------------------------------------------------
(* Properties.                                                             *)

TypeOK ==
  /\ content \in [Inodes -> Contents \cup {Nothing}]
  /\ synced \subseteq Inodes
  /\ pending \in [PendingNames -> Inodes \cup {Nothing}]
  /\ destination \in Inodes
  /\ recoverable \subseteq Inodes
  /\ returnable \in [PendingNames -> SUBSET (Inodes \cup {Nothing})]
  /\ pid \in [Processes -> Pids]
  /\ sequence \in [Processes -> 0 .. MaxSequence]
  /\ pc \in [Threads -> Steps]
  /\ bytes \in [Threads -> Contents \cup {Nothing}]
  /\ name \in [Threads -> PendingNames \cup {Nothing}]
  /\ file \in [Threads -> Inodes \cup {Nothing}]
  /\ reader \in [Readers -> Inodes \cup {Nothing}]
  /\ opened \in [Readers -> Contents \cup {Nothing}]
  /\ calls \in 0 .. MaxCalls
  /\ failures \in 0 .. MaxFailures
  /\ abandoned \subseteq PendingNames
  /\ unsettled \subseteq PendingNames

\* The destination, and whatever a power failure may bring back in its place,
\* is a complete package that reached the disk: "validates it before replacing
\* the original file", whoever writes at the same time and whatever fails.
DestinationIsPackage ==
  \A i \in recoverable \cup {destination} : i \in synced /\ content[i] \in Packages

\* Between its creation and its rename or removal a pending file is reached by
\* one call only: no other call has its name or its inode, its name still
\* refers to it, no reader can reach it and no power failure makes it the
\* destination.  This is what makes validating and renaming by NAME what was
\* written through the FILE safe.
PendingFileIsPrivate ==
  \A t \in Threads : pc[t] \in Owning =>
    /\ pending[name[t]] = file[t]
    /\ file[t] \notin recoverable \cup {destination} \cup {reader[r] : r \in Readers}
    /\ \A u \in Threads \ {t} :
         pc[u] \in Owning => name[u] # name[t] /\ file[u] # file[t]
    /\ \A n \in PendingNames \ {name[t]} : pending[n] # file[t]

\* What an open Package reads never changes under it: the file it opened was
\* complete and no writer touches that file again.
ReaderSeesOnePackage ==
  \A r \in Readers : reader[r] # Nothing =>
    opened[r] \in Packages /\ content[reader[r]] = opened[r]

\* A pending file is there only while its call runs, or because the call was
\* killed, could not remove it, or had its rename or removal undone by a power
\* failure.  And only what was renamed or removed since the directory was last
\* synchronised can be undone: what was before that never comes back.
NoPendingFileLeft ==
  LET accounted == abandoned \cup OwnedNames(Threads)
  IN  \A n \in PendingNames :
        /\ pending[n] # Nothing => n \in accounted
        /\ returnable[n] # {Nothing} => n \in accounted \cup unsettled

\* A call that gets past its rename has installed its own bytes, never those of
\* a call that runs at the same time.
InstallsOwnBytes ==
  [][\A t \in Threads :
       pc[t] = "rename" /\ pc'[t] = "syncDirectory" => content'[destination'] = bytes[t]]_vars

\* Every call returns (or is killed), the retries of taken names included.
CallReturns == \A t \in Threads : pc[t] # "idle" ~> pc[t] = "idle"

\* The inductive invariant behind the safety properties above.
CallsConsistent ==
  \A t \in Threads :
    /\ pc[t] # "idle" => bytes[t] \in Contents
    /\ pc[t] = "create" => name[t] \in PendingNames
    /\ pc[t] \in Owning =>
         /\ name[t] \in PendingNames
         /\ file[t] \in Inodes
         /\ pending[name[t]] = file[t]
    /\ pc[t] \in {"sync", "validate", "rename"} => content[file[t]] = bytes[t]
    /\ pc[t] \in {"validate", "rename"} => file[t] \in synced
    /\ pc[t] = "rename" => bytes[t] \in Packages

OwnersDistinct ==
  \A t, u \in Threads :
    pc[t] \in Owning /\ pc[u] \in Owning /\ name[t] = name[u] => t = u

\* Left pending names may share a file with each other or the destination, after a
\* rename that was undone in part: only the files of live calls are private.
OwnedFilesPrivate ==
  \A t \in Threads : pc[t] \in Owning =>
    /\ file[t] \notin recoverable
    /\ \A r \in Readers : reader[r] # file[t]
    /\ \A n \in PendingNames : pending[n] = file[t] => n = name[t]

NamedFilesExist ==
  \A n \in PendingNames :
    /\ pending[n] \in returnable[n]
    /\ \A i \in returnable[n] : i # Nothing => content[i] # Nothing

DestinationRecoverable ==
  /\ destination \in recoverable
  /\ \A i \in recoverable : i \in synced /\ content[i] \in Packages

FilesAccounted ==
  /\ CallsConsistent
  /\ OwnersDistinct
  /\ OwnedFilesPrivate
  /\ NamedFilesExist
  /\ DestinationRecoverable
  /\ ReaderSeesOnePackage
  /\ NoPendingFileLeft

\* The promise of the module AtomicFile: seen from outside, the destination
\* only ever changes from one whole package to another.
Promise == INSTANCE AtomicFile WITH
  installed <- content[destination],
  recoverable <- {content[i] : i \in recoverable}
ImplementsAtomicFile == Promise!AbstractSpec
=============================================================================
