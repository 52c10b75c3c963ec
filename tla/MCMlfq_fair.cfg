CONSTANTS
  c1 = c1
  a = a
  b = b
  d = d
  Cpu = {c1}
  Boot = c1
  Task = {a, b, d}
  Realtime = {a}
  Idle = Idle
  Quantum <- ShortQuanta
  BoostTicks = 3
SPECIFICATION FairSpec
PROPERTIES Refines NoStarvation
