\* One host thread; checks the spec's claim FailedInitLeavesNoEngine.
CONSTANTS
  Threads = {t1}
  Engines = {e1, e2, e3}
  Refs = {r1, r2, r3}
  NoEngine = NoEngine
  NoRef = NoRef
  Setters <- MC_Setters
SPECIFICATION Spec
INVARIANT FailedInitLeavesNoEngine
