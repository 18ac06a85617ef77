\* One host thread: every sequence of initialize, cleanup and commands.
CONSTANTS
  Threads = {t1}
  Engines = {e1, e2, e3}
  Refs = {r1, r2, r3}
  NoEngine = NoEngine
  NoRef = NoRef
  Setters <- MC_Setters
SPECIFICATION Spec
INVARIANTS
  EngineAccessSafe
  GlobalRefsSafe
  NoResourceLeak
PROPERTIES
  RefinesSlot
