----------------------------- MODULE AtomicFile -----------------------------
(***************************************************************************)
(* What write_package_atomically promises about the file it replaces: the  *)
(* file always holds one complete package, each change of it is a complete *)
(* replacement, and whatever a power failure brings back is a package that *)
(* was installed before.                                                   *)
(***************************************************************************)
CONSTANT Packages        \* byte strings that open and index as a package

VARIABLES
  installed,             \* the package the destination holds
  recoverable            \* what the destination may hold after a power failure

abstractVars == <<installed, recoverable>>

AbstractInit ==
  /\ installed \in Packages
  /\ recoverable = {installed}

\* A writer replaces the destination; until the directory reaches the disk a
\* power failure may bring back the old package or the new one.
Replace(package) ==
  /\ installed' = package
  /\ recoverable' = recoverable \cup {package}

\* The directory reached the disk.
Flush ==
  /\ recoverable' = {installed}
  /\ UNCHANGED installed

\* A power failure brings back one of the packages that may be on the disk.
Recover ==
  \E package \in recoverable :
    /\ installed' = package
    /\ recoverable' = {package}

AbstractNext ==
  \/ \E package \in Packages : Replace(package)
  \/ Flush
  \/ Recover

AbstractSpec == AbstractInit /\ [][AbstractNext]_abstractVars
=============================================================================
