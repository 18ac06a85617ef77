---------------------------- MODULE MC_JniCore ----------------------------
(* Model-checking instance of JniCore: the five callback setters in the   *)
(* order setup_callbacks calls them.                                      *)
EXTENDS JniCore

MC_Setters == <<"deviceDiscovered", "discoveryState", "connection",
                "clipboard", "error">>
=============================================================================
