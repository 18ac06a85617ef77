-------------------------- MODULE MC_JniCallbacks --------------------------
(* Model-checking instance of JniCallbacks.                               *)
EXTENDS JniCallbacks

MC_Kinds == {"deviceDiscovered", "discoveryState", "connection", "clipboard",
             "error"}
=============================================================================
