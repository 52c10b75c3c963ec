CONSTANTS
  p = p
  q = q
  r = r
  d = d
  file = file
  Owner <- Owners
  File = {file}
  Asks <- Asking
  Ranges <- Nested
  Threaded = FALSE
  TO_END = 9
  WAITING = 2
SYMMETRY Symmetric
SPECIFICATION Spec
INVARIANTS LocksCoherent NoDeadlock
