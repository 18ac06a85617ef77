\* One host thread and one engine worker thread, up to three events.  After
\* JNI_OnUnload, or a failed JNI_OnLoad, no native method can be called and
\* the system stops once the worker exits or the event budget is spent, so
\* deadlock is not an error here.
CONSTANTS
  HostThreads = {h1}
  NativeThreads = {w1}
  Engines = {e1, e2}
  Refs = {r1, r2}
  NoEngine = NoEngine
  NoRef = NoRef
  Setters <- MC_Setters
  MaxEvents = 3
SPECIFICATION Spec
CHECK_DEADLOCK FALSE
INVARIANT
  CommandFailuresContained
