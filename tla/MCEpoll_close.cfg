SPECIFICATION TurnSpec
CONSTANTS
  Reader = Reader
  Writer = Writer
  Looker = Looker
  Thread = {Reader, Writer, Looker}
  Interruptible = {Looker}
  None = None
  CAPACITY = 3
  ATOMIC_WRITE = 2
  Ops <- Roles
  MaxWrites = 2
INVARIANT NoUseAfterFree
CHECK_DEADLOCK FALSE
