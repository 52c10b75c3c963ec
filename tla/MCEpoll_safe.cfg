SPECIFICATION TurnSpec
CONSTANTS
  Reader = Reader
  Writer = Writer
  Looker = Looker
  Thread = {Reader, Writer, Looker}
  Interruptible = {Looker}
  None = None
  CAPACITY = 3
  ATOMIC_WRITE = 2
  Ops <- Roles
  MaxWrites = 2
INVARIANTS RingIsQueue WritesWhole SleepersWoken WatchersWoken EdgeKept NoDangling
CHECK_DEADLOCK FALSE
