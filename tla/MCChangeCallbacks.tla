--------------------------- MODULE MCChangeCallbacks ---------------------------
(* Instances of ChangeCallbacks for TLC. *)
EXTENDS ChangeCallbacks
=============================================================================
