---------------------------- MODULE MCRelayRegistry ----------------------------
(* Instances of RelayRegistry for TLC. *)
EXTENDS RelayRegistry, TLC

CONSTANTS i1, i2

InstanceSymmetry == Permutations({i1, i2})
=============================================================================
