CONSTANTS
  Program <- Programs
  AnyFrom <- Roaming
  LINGERING <- LingeringPrograms
  DATA <- DataPaths
  Tree <- Trees
  MAX_OPEN = 16
  MAX_THREADS = 4
  CAPACITY = 4
  ATOMIC_WRITE = 2
  QUEUE = 6
  MAX_COUNT = 20
  TO_END = 600
  WAITING = 3
  MAX_USES = 12
  MAX_CHANGES = 3
  MAX_BOOTS = 2
  Scenes = {"pipe_probe", "epoll_probe", "unix_probe", "spawn_probe", "file_probe", "data_probe", "passing", "locking", "saving", "musl_probe", "thread_capacity", "glib_probe", "cxx_probe", "jsc_probe"}
SPECIFICATION Spec
INVARIANTS RefsExact Durable
PROPERTIES LocksImplement ProbesPass
