SPECIFICATION FairScenes
CONSTANTS
  Threads = 2
  Signals = 2
  DefaultIgnores = {}
  NoDefer = {}
  ResetHand = {1}
  Faults = {1}
  MaxFrames = 2
  HandlerMask <- Masks
INVARIANTS InterruptedNeverSleeps SignalsConserved MaskRestored
PROPERTY SignalsServed
CONSTRAINT EndsSoon
CHECK_DEADLOCK FALSE
