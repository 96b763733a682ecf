------------------------- MODULE AtomicWriteProofs -------------------------
(***************************************************************************)
(* Proofs about AtomicWrite, for any number of threads, processes, calls   *)
(* and failures.                                                           *)
(***************************************************************************)
EXTENDS AtomicWrite, TLAPS

IInv == TypeOK /\ FilesAccounted

LEMMA InitIInv == Init => IInv
<1> SUFFICES ASSUME Init PROVE IInv
  OBVIOUS
<1>1. TypeOK
  <2>1. content \in [Inodes -> Contents \cup {Nothing}]
    BY DEF Init, Contents
  <2>2. returnable \in [PendingNames -> SUBSET (Inodes \cup {Nothing})]
    BY DEF Init
  <2> QED
    BY <2>1, <2>2, ConstantsAssumption DEF Init, TypeOK, Steps
<1>2. CallsConsistent /\ OwnersDistinct
  BY DEF Init, CallsConsistent, OwnersDistinct, Owning
<1>3. OwnedFilesPrivate /\ NamedFilesExist /\ NoPendingFileLeft
  BY DEF Init, OwnedFilesPrivate, NamedFilesExist, NoPendingFileLeft, OwnedNames, Owning
<1>4. DestinationRecoverable
  BY ConstantsAssumption DEF Init, DestinationRecoverable
<1>5. ReaderSeesOnePackage
  BY DEF Init, ReaderSeesOnePackage
<1> QED
  BY <1>1, <1>2, <1>3, <1>4, <1>5 DEF IInv, FilesAccounted

(***************************************************************************)
(* Each action preserves the inductive invariant, part by part.            *)
(***************************************************************************)

LEMMA ClaimNamePreserves ==
  ASSUME IInv, NEW t \in Threads, ClaimName(t)
  PROVE  IInv'
<1> USE ConstantsAssumption DEF ClaimName, Goto, fileSystem, processes, threads, readers, history
<1> USE DEF IInv, FilesAccounted
<1>1. TypeOK'
  <2>1. ProcessOf[t] \in Processes
    OBVIOUS
  <2>2. name' \in [Threads -> PendingNames \cup {Nothing}]
    BY <2>1 DEF TypeOK, PendingNames
  <2>3. sequence' \in [Processes -> 0 .. MaxSequence]
    BY <2>1 DEF TypeOK
  <2> QED
    BY <2>2, <2>3 DEF TypeOK, Steps
<1>2. CallsConsistent'
  <2>1. <<pid[ProcessOf[t]], sequence[ProcessOf[t]]>> \in PendingNames
    BY DEF TypeOK, PendingNames
  <2> QED
    BY <2>1 DEF TypeOK, CallsConsistent, Owning
<1>3. OwnersDistinct'
  BY DEF OwnersDistinct, Owning
<1>4. OwnedFilesPrivate'
  BY DEF TypeOK, CallsConsistent, OwnersDistinct, OwnedFilesPrivate, Owning
<1>5. NamedFilesExist'
  BY DEF NamedFilesExist
<1>6. DestinationRecoverable'
  BY DEF DestinationRecoverable
<1>7. ReaderSeesOnePackage'
  BY DEF ReaderSeesOnePackage
<1>8. NoPendingFileLeft'
  BY DEF NoPendingFileLeft, OwnedNames, Owning
<1> QED
  BY <1>1, <1>2, <1>3, <1>4, <1>5, <1>6, <1>7, <1>8

LEMMA CreatePendingPreserves ==
  ASSUME IInv, NEW t \in Threads, CreatePending(t)
  PROVE  IInv'
<1> USE ConstantsAssumption DEF CreatePending, Goto, fileSystem, processes, threads, readers, history
<1> USE DEF IInv, FilesAccounted
<1>1. TypeOK'
  BY DEF TypeOK, CallsConsistent, Steps, Contents
<1>2. CallsConsistent'
  BY DEF TypeOK, CallsConsistent
<1>3. OwnersDistinct'
  BY DEF CallsConsistent, OwnersDistinct
<1>4. OwnedFilesPrivate'
  BY DEF TypeOK, CallsConsistent, OwnersDistinct, OwnedFilesPrivate, NamedFilesExist,
     DestinationRecoverable, ReaderSeesOnePackage, Contents, Owning
<1>5. NamedFilesExist'
  BY DEF TypeOK, NamedFilesExist, DestinationRecoverable, ReaderSeesOnePackage, Contents
<1>6. DestinationRecoverable'
  BY DEF DestinationRecoverable, Contents
<1>7. ReaderSeesOnePackage'
  BY DEF ReaderSeesOnePackage, Contents
<1>8. NoPendingFileLeft'
  BY DEF TypeOK, NoPendingFileLeft, OwnedNames, Owning
<1> QED
  BY <1>1, <1>2, <1>3, <1>4, <1>5, <1>6, <1>7, <1>8

LEMMA SkipTakenNamePreserves ==
  ASSUME IInv, NEW t \in Threads, SkipTakenName(t)
  PROVE  IInv'
<1> USE ConstantsAssumption DEF SkipTakenName, Goto, fileSystem, processes, threads, readers, history
<1> USE DEF IInv, FilesAccounted
<1>1. TypeOK'
  BY DEF TypeOK, Steps
<1>2. CallsConsistent'
  BY DEF CallsConsistent, Owning
<1>3. OwnersDistinct'
  BY DEF OwnersDistinct, Owning
<1>4. OwnedFilesPrivate'
  BY DEF TypeOK, CallsConsistent, OwnersDistinct, OwnedFilesPrivate, Owning
<1>5. NamedFilesExist'
  BY DEF NamedFilesExist
<1>6. DestinationRecoverable'
  BY DEF DestinationRecoverable
<1>7. ReaderSeesOnePackage'
  BY DEF ReaderSeesOnePackage
<1>8. NoPendingFileLeft'
  BY DEF NoPendingFileLeft, OwnedNames, Owning
<1> QED
  BY <1>1, <1>2, <1>3, <1>4, <1>5, <1>6, <1>7, <1>8

LEMMA CreateFailsPreserves ==
  ASSUME IInv, NEW t \in Threads, CreateFails(t)
  PROVE  IInv'
<1> USE ConstantsAssumption DEF CreateFails, Return, Goto, fileSystem, processes, threads, readers, history
<1> USE DEF IInv, FilesAccounted
<1>1. TypeOK'
  BY DEF TypeOK, Steps
<1>2. CallsConsistent'
  BY DEF TypeOK, CallsConsistent, Owning
<1>3. OwnersDistinct'
  BY DEF OwnersDistinct, Owning
<1>4. OwnedFilesPrivate'
  BY DEF TypeOK, CallsConsistent, OwnersDistinct, OwnedFilesPrivate, Owning
<1>5. NamedFilesExist'
  BY DEF NamedFilesExist
<1>6. DestinationRecoverable'
  BY DEF DestinationRecoverable
<1>7. ReaderSeesOnePackage'
  BY DEF ReaderSeesOnePackage
<1>8. NoPendingFileLeft'
  BY DEF NoPendingFileLeft, OwnedNames, Owning
<1> QED
  BY <1>1, <1>2, <1>3, <1>4, <1>5, <1>6, <1>7, <1>8

LEMMA WriteAllPreserves ==
  ASSUME IInv, NEW t \in Threads, WriteAll(t)
  PROVE  IInv'
<1> USE ConstantsAssumption DEF WriteAll, Goto, fileSystem, processes, threads, readers, history
<1> USE DEF IInv, FilesAccounted
<1>1. TypeOK'
  BY DEF TypeOK, Steps
<1>2. CallsConsistent'
  BY DEF TypeOK, CallsConsistent, OwnersDistinct, OwnedFilesPrivate, Owning
<1>3. OwnersDistinct'
  BY DEF OwnersDistinct, Owning
<1>4. OwnedFilesPrivate'
  BY DEF TypeOK, CallsConsistent, OwnersDistinct, OwnedFilesPrivate, Owning
<1>5. NamedFilesExist'
  BY DEF TypeOK, CallsConsistent, NamedFilesExist, Owning
<1>6. DestinationRecoverable'
  BY DEF CallsConsistent, OwnedFilesPrivate, DestinationRecoverable, Owning
<1>7. ReaderSeesOnePackage'
  BY DEF CallsConsistent, OwnedFilesPrivate, ReaderSeesOnePackage, Owning
<1>8. NoPendingFileLeft'
  BY DEF NoPendingFileLeft, OwnedNames, Owning
<1> QED
  BY <1>1, <1>2, <1>3, <1>4, <1>5, <1>6, <1>7, <1>8

LEMMA SyncFilePreserves ==
  ASSUME IInv, NEW t \in Threads, SyncFile(t)
  PROVE  IInv'
<1> USE ConstantsAssumption DEF SyncFile, Goto, fileSystem, processes, threads, readers, history
<1> USE DEF IInv, FilesAccounted
<1>1. TypeOK'
  BY DEF TypeOK, CallsConsistent, Owning, Steps
<1>2. CallsConsistent'
  BY DEF CallsConsistent, Owning
<1>3. OwnersDistinct'
  BY DEF OwnersDistinct, Owning
<1>4. OwnedFilesPrivate'
  BY DEF TypeOK, CallsConsistent, OwnersDistinct, OwnedFilesPrivate, Owning
<1>5. NamedFilesExist'
  BY DEF NamedFilesExist
<1>6. DestinationRecoverable'
  BY DEF DestinationRecoverable
<1>7. ReaderSeesOnePackage'
  BY DEF ReaderSeesOnePackage
<1>8. NoPendingFileLeft'
  BY DEF NoPendingFileLeft, OwnedNames, Owning
<1> QED
  BY <1>1, <1>2, <1>3, <1>4, <1>5, <1>6, <1>7, <1>8

LEMMA ValidatePreserves ==
  ASSUME IInv, NEW t \in Threads, Validate(t)
  PROVE  IInv'
<1> USE ConstantsAssumption DEF Validate, Goto, fileSystem, processes, threads, readers, history
<1> USE DEF IInv, FilesAccounted
<1>1. TypeOK'
  BY DEF TypeOK, Steps
<1>2. CallsConsistent'
  BY DEF CallsConsistent, Owning
<1>3. OwnersDistinct'
  BY DEF OwnersDistinct, Owning
<1>4. OwnedFilesPrivate'
  BY DEF TypeOK, CallsConsistent, OwnersDistinct, OwnedFilesPrivate, Owning
<1>5. NamedFilesExist'
  BY DEF NamedFilesExist
<1>6. DestinationRecoverable'
  BY DEF DestinationRecoverable
<1>7. ReaderSeesOnePackage'
  BY DEF ReaderSeesOnePackage
<1>8. NoPendingFileLeft'
  BY DEF NoPendingFileLeft, OwnedNames, Owning
<1> QED
  BY <1>1, <1>2, <1>3, <1>4, <1>5, <1>6, <1>7, <1>8

LEMMA RenamePreserves ==
  ASSUME IInv, NEW t \in Threads, Rename(t)
  PROVE  IInv'
<1> USE ConstantsAssumption DEF Rename, Release, Goto, fileSystem, processes, threads, readers, history
<1> USE DEF IInv, FilesAccounted
<1>1. TypeOK'
  BY DEF TypeOK, CallsConsistent, Owning, Steps
<1>2. CallsConsistent'
  BY DEF TypeOK, CallsConsistent, OwnersDistinct, Owning
<1>3. OwnersDistinct'
  BY DEF OwnersDistinct, Owning
<1>4. OwnedFilesPrivate'
  BY DEF TypeOK, CallsConsistent, OwnersDistinct, OwnedFilesPrivate, Owning
<1>5. NamedFilesExist'
  BY DEF TypeOK, CallsConsistent, OwnedFilesPrivate, NamedFilesExist, Owning
<1>6. DestinationRecoverable'
  BY DEF CallsConsistent, DestinationRecoverable, Owning
<1>7. ReaderSeesOnePackage'
  BY DEF ReaderSeesOnePackage
<1>8. NoPendingFileLeft'
  BY DEF TypeOK, NoPendingFileLeft, OwnedNames, Owning
<1> QED
  BY <1>1, <1>2, <1>3, <1>4, <1>5, <1>6, <1>7, <1>8

LEMMA SyncDirectoryPreserves ==
  ASSUME IInv, NEW t \in Threads, SyncDirectory(t)
  PROVE  IInv'
<1> USE ConstantsAssumption DEF SyncDirectory, Return, Goto, fileSystem, processes, threads, readers, history
<1> USE DEF IInv, FilesAccounted
<1>1. TypeOK'
  BY DEF TypeOK, Steps
<1>2. CallsConsistent'
  BY DEF TypeOK, CallsConsistent, Owning
<1>3. OwnersDistinct'
  BY DEF OwnersDistinct, Owning
<1>4. OwnedFilesPrivate'
  BY DEF OwnedFilesPrivate, DestinationRecoverable, TypeOK, Owning
<1>5. NamedFilesExist'
  BY DEF NamedFilesExist, DestinationRecoverable
<1>6. DestinationRecoverable'
  BY DEF DestinationRecoverable
<1>7. ReaderSeesOnePackage'
  BY DEF ReaderSeesOnePackage
<1>8. NoPendingFileLeft'
  BY DEF NoPendingFileLeft, OwnedNames, Owning
<1> QED
  BY <1>1, <1>2, <1>3, <1>4, <1>5, <1>6, <1>7, <1>8

LEMMA IgnoreDirectoryPreserves ==
  ASSUME IInv, NEW t \in Threads, IgnoreDirectory(t)
  PROVE  IInv'
<1> USE ConstantsAssumption DEF IgnoreDirectory, Return, Goto, fileSystem, processes, threads, readers, history
<1> USE DEF IInv, FilesAccounted
<1>1. TypeOK'
  BY DEF TypeOK, Steps
<1>2. CallsConsistent'
  BY DEF TypeOK, CallsConsistent, Owning
<1>3. OwnersDistinct'
  BY DEF OwnersDistinct, Owning
<1>4. OwnedFilesPrivate'
  BY DEF TypeOK, CallsConsistent, OwnersDistinct, OwnedFilesPrivate, Owning
<1>5. NamedFilesExist'
  BY DEF NamedFilesExist
<1>6. DestinationRecoverable'
  BY DEF DestinationRecoverable
<1>7. ReaderSeesOnePackage'
  BY DEF ReaderSeesOnePackage
<1>8. NoPendingFileLeft'
  BY DEF NoPendingFileLeft, OwnedNames, Owning
<1> QED
  BY <1>1, <1>2, <1>3, <1>4, <1>5, <1>6, <1>7, <1>8

LEMMA FailPreserves ==
  ASSUME IInv, NEW t \in Threads, Fail(t)
  PROVE  IInv'
<1> USE ConstantsAssumption DEF Fail, Goto, fileSystem, processes, threads, readers, history
<1> USE DEF IInv, FilesAccounted
<1>1. TypeOK'
  BY DEF TypeOK, Steps
<1>2. CallsConsistent'
  BY DEF CallsConsistent, Owning
<1>3. OwnersDistinct'
  BY DEF OwnersDistinct, Owning
<1>4. OwnedFilesPrivate'
  BY DEF TypeOK, CallsConsistent, OwnersDistinct, OwnedFilesPrivate, Owning
<1>5. NamedFilesExist'
  BY DEF NamedFilesExist
<1>6. DestinationRecoverable'
  BY DEF DestinationRecoverable
<1>7. ReaderSeesOnePackage'
  BY DEF ReaderSeesOnePackage
<1>8. NoPendingFileLeft'
  BY DEF NoPendingFileLeft, OwnedNames, Owning
<1> QED
  BY <1>1, <1>2, <1>3, <1>4, <1>5, <1>6, <1>7, <1>8

LEMMA RemovePendingPreserves ==
  ASSUME IInv, NEW t \in Threads, RemovePending(t)
  PROVE  IInv'
<1> USE ConstantsAssumption DEF RemovePending, Release, Return, Goto, fileSystem, processes, threads, readers, history
<1> USE DEF IInv, FilesAccounted
<1>1. TypeOK'
  BY DEF TypeOK, CallsConsistent, Owning, Steps
<1>2. CallsConsistent'
  BY DEF TypeOK, CallsConsistent, OwnersDistinct, OwnedFilesPrivate, Owning
<1>3. OwnersDistinct'
  BY DEF CallsConsistent, OwnersDistinct, Owning
<1>4. OwnedFilesPrivate'
  BY DEF TypeOK, CallsConsistent, OwnersDistinct, OwnedFilesPrivate, Owning
<1>5. NamedFilesExist'
  BY DEF TypeOK, CallsConsistent, NamedFilesExist, Owning
<1>6. DestinationRecoverable'
  BY DEF DestinationRecoverable
<1>7. ReaderSeesOnePackage'
  BY DEF ReaderSeesOnePackage
<1>8. NoPendingFileLeft'
  BY DEF TypeOK, NoPendingFileLeft, OwnedNames, Owning
<1> QED
  BY <1>1, <1>2, <1>3, <1>4, <1>5, <1>6, <1>7, <1>8

LEMMA IgnoreRemovalPreserves ==
  ASSUME IInv, NEW t \in Threads, IgnoreRemoval(t)
  PROVE  IInv'
<1> USE ConstantsAssumption DEF IgnoreRemoval, Return, Goto, fileSystem, processes, threads, readers, history
<1> USE DEF IInv, FilesAccounted
<1>1. TypeOK'
  BY DEF TypeOK, CallsConsistent, Owning, Steps
<1>2. CallsConsistent'
  BY DEF TypeOK, CallsConsistent, Owning
<1>3. OwnersDistinct'
  BY DEF CallsConsistent, OwnersDistinct, Owning
<1>4. OwnedFilesPrivate'
  BY DEF TypeOK, CallsConsistent, OwnersDistinct, OwnedFilesPrivate, Owning
<1>5. NamedFilesExist'
  BY DEF NamedFilesExist
<1>6. DestinationRecoverable'
  BY DEF DestinationRecoverable
<1>7. ReaderSeesOnePackage'
  BY DEF ReaderSeesOnePackage
<1>8. NoPendingFileLeft'
  BY DEF NoPendingFileLeft, OwnedNames
<1> QED
  BY <1>1, <1>2, <1>3, <1>4, <1>5, <1>6, <1>7, <1>8

LEMMA CallPreserves ==
  ASSUME IInv, NEW t \in Threads, NEW package \in Contents, Call(t, package)
  PROVE  IInv'
<1> USE ConstantsAssumption DEF Call, Goto, fileSystem, processes, threads, readers, history
<1> USE DEF IInv, FilesAccounted
<1>1. TypeOK'
  BY DEF TypeOK, Steps
<1>2. CallsConsistent'
  BY DEF TypeOK, CallsConsistent, Owning
<1>3. OwnersDistinct'
  BY DEF OwnersDistinct, Owning
<1>4. OwnedFilesPrivate'
  BY DEF TypeOK, CallsConsistent, OwnersDistinct, OwnedFilesPrivate, Owning
<1>5. NamedFilesExist'
  BY DEF NamedFilesExist
<1>6. DestinationRecoverable'
  BY DEF DestinationRecoverable
<1>7. ReaderSeesOnePackage'
  BY DEF ReaderSeesOnePackage
<1>8. NoPendingFileLeft'
  BY DEF NoPendingFileLeft, OwnedNames, Owning
<1> QED
  BY <1>1, <1>2, <1>3, <1>4, <1>5, <1>6, <1>7, <1>8

LEMMA OpenReaderPreserves ==
  ASSUME IInv, NEW r \in Readers, OpenReader(r)
  PROVE  IInv'
<1> USE ConstantsAssumption DEF OpenReader, fileSystem, processes, threads, readers, history
<1> USE DEF IInv, FilesAccounted
<1>1. TypeOK'
  BY DEF TypeOK
<1>2. CallsConsistent'
  BY DEF CallsConsistent
<1>3. OwnersDistinct'
  BY DEF OwnersDistinct
<1>4. OwnedFilesPrivate'
  BY DEF OwnedFilesPrivate, DestinationRecoverable, Owning
<1>5. NamedFilesExist'
  BY DEF NamedFilesExist, DestinationRecoverable
<1>6. DestinationRecoverable'
  BY DEF DestinationRecoverable
<1>7. ReaderSeesOnePackage'
  BY DEF TypeOK, DestinationRecoverable, ReaderSeesOnePackage
<1>8. NoPendingFileLeft'
  BY DEF NoPendingFileLeft, OwnedNames
<1> QED
  BY <1>1, <1>2, <1>3, <1>4, <1>5, <1>6, <1>7, <1>8

LEMMA CloseReaderPreserves ==
  ASSUME IInv, NEW r \in Readers, CloseReader(r)
  PROVE  IInv'
<1> USE ConstantsAssumption DEF CloseReader, fileSystem, processes, threads, readers, history
<1> USE DEF IInv, FilesAccounted
<1>1. TypeOK'
  BY DEF TypeOK
<1>2. CallsConsistent'
  BY DEF CallsConsistent
<1>3. OwnersDistinct'
  BY DEF OwnersDistinct
<1>4. OwnedFilesPrivate'
  BY DEF TypeOK, CallsConsistent, OwnersDistinct, OwnedFilesPrivate, Owning
<1>5. NamedFilesExist'
  BY DEF NamedFilesExist
<1>6. DestinationRecoverable'
  BY DEF DestinationRecoverable
<1>7. ReaderSeesOnePackage'
  BY DEF TypeOK, CallsConsistent, NamedFilesExist, DestinationRecoverable, ReaderSeesOnePackage, Owning, Contents
<1>8. NoPendingFileLeft'
  BY DEF TypeOK, CallsConsistent, NoPendingFileLeft, OwnedNames, Owning
<1> QED
  BY <1>1, <1>2, <1>3, <1>4, <1>5, <1>6, <1>7, <1>8

LEMMA KillProcessPreserves ==
  ASSUME IInv, NEW p \in Processes, KillProcess(p)
  PROVE  IInv'
<1> USE ConstantsAssumption DEF KillProcess, Kill, fileSystem, processes, threads, readers, history
<1> USE DEF IInv, FilesAccounted
<1>1. TypeOK'
  BY DEF TypeOK, CallsConsistent, OwnedNames, Owning, Steps
<1>2. CallsConsistent'
  BY DEF TypeOK, CallsConsistent, Owning
<1>3. OwnersDistinct'
  BY DEF TypeOK, CallsConsistent, OwnersDistinct, Owning
<1>4. OwnedFilesPrivate'
  BY DEF TypeOK, CallsConsistent, OwnedFilesPrivate, Owning
<1>5. NamedFilesExist'
  BY DEF TypeOK, CallsConsistent, OwnedFilesPrivate, NamedFilesExist, DestinationRecoverable, ReaderSeesOnePackage, Owning, Contents
<1>6. DestinationRecoverable'
  BY DEF TypeOK, CallsConsistent, NamedFilesExist, DestinationRecoverable, Owning, Contents
<1>7. ReaderSeesOnePackage'
  BY DEF TypeOK, CallsConsistent, NamedFilesExist, DestinationRecoverable, ReaderSeesOnePackage, Owning, Contents
<1>8. NoPendingFileLeft'
  BY DEF TypeOK, CallsConsistent, NoPendingFileLeft, OwnedNames, Owning
<1> QED
  BY <1>1, <1>2, <1>3, <1>4, <1>5, <1>6, <1>7, <1>8

LEMMA LosePowerPreserves ==
  ASSUME IInv, LosePower
  PROVE  IInv'
<1> USE ConstantsAssumption DEF LosePower, Kill, fileSystem, processes, threads, readers, history
<1> USE DEF IInv, FilesAccounted
<1>1. TypeOK'
  BY DEF TypeOK, CallsConsistent, OwnedNames, Owning, Steps, Contents
<1>2. CallsConsistent'
  BY DEF TypeOK, CallsConsistent, Owning
<1>3. OwnersDistinct'
  BY DEF TypeOK, CallsConsistent, OwnersDistinct, Owning
<1>4. OwnedFilesPrivate'
  BY DEF TypeOK, CallsConsistent, OwnedFilesPrivate, Owning
<1>5. NamedFilesExist'
  BY DEF TypeOK, CallsConsistent, OwnedFilesPrivate, NamedFilesExist, DestinationRecoverable, ReaderSeesOnePackage, Owning, Contents
<1>6. DestinationRecoverable'
  BY DEF TypeOK, CallsConsistent, NamedFilesExist, DestinationRecoverable, Owning, Contents
<1>7. ReaderSeesOnePackage'
  BY DEF TypeOK, CallsConsistent, NamedFilesExist, DestinationRecoverable, ReaderSeesOnePackage, Owning, Contents
<1>8. NoPendingFileLeft'
  BY DEF TypeOK, CallsConsistent, NoPendingFileLeft, OwnedNames, Owning
<1> QED
  BY <1>1, <1>2, <1>3, <1>4, <1>5, <1>6, <1>7, <1>8

(***************************************************************************)
(* The theorems.                                                           *)
(***************************************************************************)

LEMMA StepPreserves ==
  ASSUME IInv, [Next]_vars
  PROVE  IInv'
<1>1. ASSUME NEW t \in Threads, Step(t) PROVE IInv'
  <2>1. CASE ClaimName(t)
    BY <2>1, ClaimNamePreserves
  <2>2. CASE CreatePending(t)
    BY <2>2, CreatePendingPreserves
  <2>3. CASE SkipTakenName(t)
    BY <2>3, SkipTakenNamePreserves
  <2>4. CASE CreateFails(t)
    BY <2>4, CreateFailsPreserves
  <2>5. CASE WriteAll(t)
    BY <2>5, WriteAllPreserves
  <2>6. CASE SyncFile(t)
    BY <2>6, SyncFilePreserves
  <2>7. CASE Validate(t)
    BY <2>7, ValidatePreserves
  <2>8. CASE Rename(t)
    BY <2>8, RenamePreserves
  <2>9. CASE SyncDirectory(t)
    BY <2>9, SyncDirectoryPreserves
  <2>10. CASE IgnoreDirectory(t)
    BY <2>10, IgnoreDirectoryPreserves
  <2>11. CASE Fail(t)
    BY <2>11, FailPreserves
  <2>12. CASE RemovePending(t)
    BY <2>12, RemovePendingPreserves
  <2>13. CASE IgnoreRemoval(t)
    BY <2>13, IgnoreRemovalPreserves
  <2> QED
    BY <1>1, <2>1, <2>2, <2>3, <2>4, <2>5, <2>6, <2>7, <2>8, <2>9, <2>10, <2>11, <2>12, <2>13 DEF Step
<1>2. ASSUME NEW t \in Threads, NEW package \in Contents, Call(t, package) PROVE IInv'
  BY <1>2, CallPreserves
<1>3. ASSUME NEW r \in Readers, OpenReader(r) \/ CloseReader(r) PROVE IInv'
  BY <1>3, OpenReaderPreserves, CloseReaderPreserves
<1>4. ASSUME NEW p \in Processes, KillProcess(p) PROVE IInv'
  BY <1>4, KillProcessPreserves
<1>5. CASE LosePower
  BY <1>5, LosePowerPreserves
<1>6. CASE UNCHANGED vars
  BY <1>6 DEF vars, fileSystem, processes, threads, readers, history, IInv, TypeOK,
     FilesAccounted, CallsConsistent, OwnersDistinct, OwnedFilesPrivate, NamedFilesExist,
     DestinationRecoverable, ReaderSeesOnePackage, NoPendingFileLeft, OwnedNames
<1> QED
  BY <1>1, <1>2, <1>3, <1>4, <1>5, <1>6 DEF Next

\* The accounting of files (which call owns which pending file, what can reach
\* it, what is synchronised) holds whatever the interleaving of the calls, the
\* crashes and the power failures.
THEOREM FilesAlwaysAccounted == Spec => [](TypeOK /\ FilesAccounted)
<1>1. Init => IInv
  BY InitIInv
<1>2. IInv /\ [Next]_vars => IInv'
  BY StepPreserves
<1> QED
  BY <1>1, <1>2, PTL DEF Spec, IInv

\* Every variable keeps its type: a call is at one of its steps, and a name refers
\* to a file or to none.
THEOREM TypeAlwaysCorrect == Spec => []TypeOK
<1>1. TypeOK /\ FilesAccounted => TypeOK
  OBVIOUS
<1> QED
  BY <1>1, FilesAlwaysAccounted, PTL

\* A pending file is only ever left behind by a call that was killed or that could
\* not remove it.
THEOREM NoPendingFileEverLeft == Spec => []NoPendingFileLeft
<1>1. TypeOK /\ FilesAccounted => NoPendingFileLeft
  BY DEF FilesAccounted
<1> QED
  BY <1>1, FilesAlwaysAccounted, PTL

\* The destination, now and after a power failure, is a complete package that
\* reached the disk.
THEOREM DestinationAlwaysPackage == Spec => []DestinationIsPackage
<1>1. TypeOK /\ FilesAccounted => DestinationIsPackage
  BY DEF FilesAccounted, DestinationRecoverable, DestinationIsPackage
<1> QED
  BY <1>1, FilesAlwaysAccounted, PTL

\* A pending file belongs to one call from its creation to its rename or removal.
THEOREM PendingFileAlwaysPrivate == Spec => []PendingFileIsPrivate
<1>1. TypeOK /\ FilesAccounted => PendingFileIsPrivate
  BY ConstantsAssumption DEF TypeOK, FilesAccounted, CallsConsistent, OwnersDistinct,
     OwnedFilesPrivate, NamedFilesExist, DestinationRecoverable, PendingFileIsPrivate
<1> QED
  BY <1>1, FilesAlwaysAccounted, PTL

\* An open package never changes under its reader.
THEOREM ReaderAlwaysSeesOnePackage == Spec => []ReaderSeesOnePackage
<1>1. TypeOK /\ FilesAccounted => ReaderSeesOnePackage
  BY DEF FilesAccounted
<1> QED
  BY <1>1, FilesAlwaysAccounted, PTL

\* What a call renames over the destination is what it was asked to write.
THEOREM AlwaysInstallsOwnBytes == Spec => InstallsOwnBytes
<1>1. ASSUME IInv, [Next]_vars, NEW t \in Threads, pc[t] = "rename", pc'[t] = "syncDirectory"
      PROVE  content'[destination'] = bytes[t]
  <2>1. Rename(t)
    BY <1>1 DEF IInv, TypeOK, Next, vars, Step, ClaimName, CreatePending, SkipTakenName,
       CreateFails, WriteAll, SyncFile, Validate, Rename, SyncDirectory, IgnoreDirectory,
       Fail, RemovePending, IgnoreRemoval, Call, OpenReader, CloseReader, KillProcess,
       LosePower, Kill, Goto, Return, threads
  <2> QED
    BY <1>1, <2>1 DEF IInv, FilesAccounted, CallsConsistent, Rename, Owning
<1>2. IInv /\ [Next]_vars =>
        [\A t \in Threads :
           pc[t] = "rename" /\ pc'[t] = "syncDirectory" => content'[destination'] = bytes[t]]_vars
  BY <1>1
<1> QED
  BY <1>2, FilesAlwaysAccounted, PTL DEF Spec, IInv, InstallsOwnBytes

(***************************************************************************)
(* AtomicWrite implements AtomicFile.                                      *)
(***************************************************************************)

\* A step that changes neither which inodes can be reached nor their content is
\* a stuttering step of the promise.
LEMMA UnseenStep ==
  ASSUME IInv, UNCHANGED <<destination, recoverable>>,
         \A i \in recoverable : content'[i] = content[i]
  PROVE  UNCHANGED Promise!abstractVars
<1>1. content'[destination'] = content[destination]
  BY DEF IInv, FilesAccounted, DestinationRecoverable
<1>2. {content'[i] : i \in recoverable'} = {content[i] : i \in recoverable}
  OBVIOUS
<1> QED
  BY <1>1, <1>2 DEF Promise!abstractVars

\* Only writing calls change content, and only that of files no one can reach.
LEMMA ContentStable ==
  ASSUME IInv, NEW t \in Threads, CreatePending(t) \/ WriteAll(t)
  PROVE  \A i \in recoverable : content'[i] = content[i]
<1>1. CASE CreatePending(t)
  BY <1>1, ConstantsAssumption DEF CreatePending, IInv, TypeOK, FilesAccounted,
     DestinationRecoverable, Contents
<1>2. CASE WriteAll(t)
  BY <1>2, ConstantsAssumption DEF WriteAll, IInv, TypeOK, FilesAccounted, CallsConsistent,
     OwnedFilesPrivate, Owning
<1> QED
  BY <1>1, <1>2

LEMMA RenameReplaces ==
  ASSUME IInv, NEW t \in Threads, Rename(t)
  PROVE  \E package \in Packages : Promise!Replace(package)
<1> DEFINE i == pending[name[t]]
<1>1. i \in Inodes /\ content[i] \in Packages
  BY ConstantsAssumption DEF Rename, IInv, TypeOK, FilesAccounted, CallsConsistent, Owning
<1>2. content'[destination'] = content[i]
  BY DEF Rename
<1>3. {content'[j] : j \in recoverable'} = {content[j] : j \in recoverable} \cup {content[i]}
  BY DEF Rename
<1> QED
  BY <1>1, <1>2, <1>3 DEF Promise!Replace

LEMMA SyncDirectoryFlushes ==
  ASSUME NEW t \in Threads, SyncDirectory(t)
  PROVE  Promise!Flush
<1>1. {content'[i] : i \in recoverable'} = {content[destination]}
  BY DEF SyncDirectory
<1> QED
  BY <1>1 DEF SyncDirectory, Promise!Flush

LEMMA LosePowerRecovers ==
  ASSUME IInv, LosePower
  PROVE  Promise!Recover
<1>1. PICK i \in recoverable : destination' = i /\ recoverable' = {i}
  BY DEF LosePower
<1>2. content'[i] = content[i]
  BY <1>1 DEF LosePower, IInv, TypeOK, FilesAccounted, DestinationRecoverable
<1>3. {content'[j] : j \in recoverable'} = {content[i]}
  BY <1>1, <1>2
<1> QED
  BY <1>1, <1>2, <1>3 DEF Promise!Recover

LEMMA StepImplements ==
  ASSUME IInv, [Next]_vars
  PROVE  [Promise!AbstractNext]_Promise!abstractVars
<1> SUFFICES Promise!AbstractNext \/ UNCHANGED Promise!abstractVars
  OBVIOUS
<1>1. ASSUME NEW t \in Threads, Step(t)
      PROVE  Promise!AbstractNext \/ UNCHANGED Promise!abstractVars
  <2>1. CASE Rename(t)
    BY <2>1, RenameReplaces DEF Promise!AbstractNext
  <2>2. CASE SyncDirectory(t)
    BY <2>2, SyncDirectoryFlushes DEF Promise!AbstractNext
  <2>3. CASE CreatePending(t) \/ WriteAll(t)
    <3>1. UNCHANGED <<destination, recoverable>>
      BY <2>3 DEF CreatePending, WriteAll
    <3> QED
      BY <2>3, <3>1, ContentStable, UnseenStep
  <2>4. ASSUME ~ (Rename(t) \/ SyncDirectory(t) \/ CreatePending(t) \/ WriteAll(t))
        PROVE  UNCHANGED <<content, destination, recoverable>>
    BY <1>1, <2>4 DEF Step, ClaimName, SkipTakenName, CreateFails, SyncFile, Validate,
       IgnoreDirectory, Fail, RemovePending, IgnoreRemoval, fileSystem
  <2> QED
    BY <2>1, <2>2, <2>3, <2>4, UnseenStep
<1>2. ASSUME NEW t \in Threads, NEW package \in Contents, Call(t, package)
      PROVE  UNCHANGED Promise!abstractVars
  BY <1>2, UnseenStep DEF Call, fileSystem
<1>3. ASSUME NEW r \in Readers, OpenReader(r) \/ CloseReader(r)
      PROVE  UNCHANGED Promise!abstractVars
  BY <1>3, UnseenStep DEF OpenReader, CloseReader, fileSystem
<1>4. ASSUME NEW p \in Processes, KillProcess(p)
      PROVE  UNCHANGED Promise!abstractVars
  BY <1>4, UnseenStep DEF KillProcess, fileSystem
<1>5. CASE LosePower
  BY <1>5, LosePowerRecovers DEF Promise!AbstractNext
<1>6. CASE UNCHANGED vars
  BY <1>6, UnseenStep DEF vars, fileSystem
<1> QED
  BY <1>1, <1>2, <1>3, <1>4, <1>5, <1>6 DEF Next

\* write_package_atomically keeps its promise: seen from outside, the destination
\* changes from one whole package to another and a power failure brings back one
\* of those installed since the directory last reached the disk.
THEOREM RefinesAtomicFile == Spec => ImplementsAtomicFile
<1>1. Init => Promise!AbstractInit
  <2> SUFFICES ASSUME Init PROVE Promise!AbstractInit
    OBVIOUS
  <2>1. content[destination] \in Packages
    BY ConstantsAssumption DEF Init
  <2>2. {content[i] : i \in recoverable} = {content[destination]}
    BY DEF Init
  <2> QED
    BY <2>1, <2>2 DEF Promise!AbstractInit
<1>2. IInv /\ [Next]_vars => [Promise!AbstractNext]_Promise!abstractVars
  BY StepImplements
<1> QED
  BY <1>1, <1>2, FilesAlwaysAccounted, PTL DEF Spec, IInv, ImplementsAtomicFile, Promise!AbstractSpec
=============================================================================
