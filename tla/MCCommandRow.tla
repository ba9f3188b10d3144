---------------------------- MODULE MCCommandRow ----------------------------
(* Instance of CommandRow for TLC: interchangeable requests and reconnects. *)
EXTENDS CommandRow, TLC

RowSymmetry == Permutations(Handlers) \cup Permutations(Requeuers)
=============================================================================
