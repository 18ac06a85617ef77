---------------------------- MODULE MC_JniBridge ----------------------------
(* Model-checking instance of JniBridge: the five callback setters in the *)
(* order setup_callbacks calls them.                                      *)
EXTENDS JniBridge

MC_Setters == <<"deviceDiscovered", "discoveryState", "connection",
                "clipboard", "error">>
=============================================================================
