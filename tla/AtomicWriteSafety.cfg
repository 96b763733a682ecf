SPECIFICATION Spec
CONSTANTS
  t1 = t1  t2 = t2  p1 = p1  p2 = p2
  i0 = i0  i1 = i1  i2 = i2  i3 = i3
  Threads = {t1, t2}
  Readers = {r1}
  Processes = {p1, p2}
  ProcessOf <- SeparateProcesses
  Pids = {7}
  Packages = {"old", "new"}
  Broken = {"torn", "invalid"}
  Torn = "torn"
  Inodes = {i0, i1, i2}
  Original = i0
  Nothing = Nothing
  MaxSequence = 2
  MaxCalls = 2
  MaxFailures = 2
SYMMETRY FreshInodes
INVARIANTS ReaderSeesOnePackage NoPendingFileLeft
PROPERTIES InstallsOwnBytes ImplementsAtomicFile
