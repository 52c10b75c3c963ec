CONSTANTS
  c1 = c1
  c2 = c2
  init = init
  a = a
  b = b
  Cpu = {c1, c2}
  Task = {init, a, b}
  Root = init
  Idle = Idle
  Nobody = Nobody
  Event = Event
  MaxEvents = 2
  MaxThreads = 2
  ExitCodes = {0, 1}
SPECIFICATION SafeSpec
SYMMETRY Perms
INVARIANTS RunQueueExact BlockedHasWaker NoLostWakeup NoPanic NoLostExit NoLostKill NoLeakedChild
PROPERTY ImplementsDispatcher
CHECK_DEADLOCK FALSE
