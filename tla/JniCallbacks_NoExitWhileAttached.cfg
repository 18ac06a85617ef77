\* Checks NoExitWhileAttached with two worker threads and one Java thread.
CONSTANTS
  NativeThreads = {w1, w2}
  JavaThreads = {j1}
  Kinds <- MC_Kinds
  Discovered = "deviceDiscovered"
  MaxEvents = 4
SPECIFICATION Spec
CHECK_DEADLOCK FALSE
INVARIANT NoExitWhileAttached
