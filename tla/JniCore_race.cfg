\* Two host threads calling into the bridge concurrently.
CONSTANTS
  Threads = {t1, t2}
  Engines = {e1, e2, e3}
  Refs = {r1, r2, r3}
  NoEngine = NoEngine
  NoRef = NoRef
  Setters <- MC_Setters
SPECIFICATION Spec
INVARIANT EngineAccessSafe
