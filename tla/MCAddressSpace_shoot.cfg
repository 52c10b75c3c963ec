SPECIFICATION FairSpec
CONSTANTS
  Cpu = {c1, c2}
  Space = {s1, s2}
  Frame = {f1}
  Kernel = Kernel
  None = None
  MaxTasks <- Tasks
  MaxEpoch <- Epochs
  s1 = s1
  s2 = s2
INVARIANTS CopyStaysInside NoStaleFrame TlbCoherent FramesConserved
PROPERTY ChangesEnd
CHECK_DEADLOCK FALSE
