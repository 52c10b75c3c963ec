CONSTANTS
  c1 = c1
  c2 = c2
  Cpu = {c1, c2}
  Task = {1, 2, 3}
  Root = 1
  Idle = Idle
  Nobody = Nobody
  Event = Event
  MaxEvents = 1
  MaxThreads = 2
  ExitCodes = {0}
SPECIFICATION LiveSpec
PROPERTIES OrphansFreed ProgramEnds WaitReturns
CHECK_DEADLOCK FALSE
