SPECIFICATION Spec
CONSTANTS
  t1 = t1
  t2 = t2
  Pids = {p1, p2}
  MainPid = p1
  Threads = {t1, t2}
  CacheQty = 2
  ShellCalls <- MCShellCalls
  MaxNumber = 12
  Decimal <- ToString
  Strtol <- MCStrtol
  Jobs <- MCShell
INVARIANTS LogsEachCall
