--------------------------- MODULE MCCommandDrain ---------------------------
(* Instance of CommandDrain for TLC. *)
EXTENDS CommandDrain
=============================================================================
