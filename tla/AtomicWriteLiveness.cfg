SPECIFICATION FairSpec
CONSTANTS
  t1 = t1  t2 = t2  p1 = p1  p2 = p2
  i0 = i0  i1 = i1  i2 = i2  i3 = i3
  Threads = {t1, t2}
  Readers = {}
  Processes = {p1, p2}
  ProcessOf <- SeparateProcesses
  Pids = {7}
  Packages = {"old"}
  Broken = {"torn", "invalid"}
  Torn = "torn"
  Inodes = {i0, i1, i2}
  Original = i0
  Nothing = Nothing
  MaxSequence = 4
  MaxCalls = 2
  MaxFailures = 1
PROPERTIES CallReturns
CHECK_DEADLOCK FALSE
