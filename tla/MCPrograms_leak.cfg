CONSTANTS
  Program <- Programs
  AnyFrom <- Roaming
  LINGERING <- LingeringPrograms
  DATA <- DataPaths
  Tree <- Trees
  MAX_OPEN = 16
  MAX_THREADS = 4
  CAPACITY = 4
  ATOMIC_WRITE = 2
  QUEUE = 6
  MAX_COUNT = 20
  TO_END = 600
  WAITING = 3
  MAX_USES = 12
  MAX_CHANGES = 3
  MAX_BOOTS = 2
  Scenes = {"two_rights"}
SPECIFICATION Spec
INVARIANT ReferencesHeld
CHECK_DEADLOCK FALSE
