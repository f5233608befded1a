SPECIFICATION LockSpec
CONSTANTS
  Threads = {t1, t2, t3}
  ApiEvents = {listener, fd}
  MaxCommands = 2
INVARIANTS
  UpgradeIsAtomic
  NoNewReader
  NoStrayYield
PROPERTIES
  WriterServed
  AllExit
CHECK_DEADLOCK FALSE
