--------------------------- MODULE MCAtomicWrite ---------------------------
\* Small instances of AtomicWrite.
EXTENDS AtomicWrite, TLC

CONSTANTS t1, t2, p1, p2, i0, i1, i2, i3

\* Each thread in a process of its own: the processes may share a process id.
SeparateProcesses == t1 :> p1 @@ t2 :> p2

\* Two threads share the counter of one process.
SharedProcess == t1 :> p1 @@ t2 :> p1

\* Inodes that are not named yet are interchangeable.
FreshInodes == Permutations({i1, i2, i3} \cap Inodes)
=============================================================================
