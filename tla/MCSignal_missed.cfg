SPECIFICATION SceneSpec
CONSTANTS
  Threads = 2
  Signals = 2
  DefaultIgnores = {}
  NoDefer = {}
  ResetHand = {1}
  Faults = {1}
  MaxFrames = 2
  HandlerMask <- Masks
INVARIANT SignalNotMissed
CHECK_DEADLOCK FALSE
