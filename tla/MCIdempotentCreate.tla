-------------------------- MODULE MCIdempotentCreate --------------------------
(* Instance of IdempotentCreate for TLC. *)
EXTENDS IdempotentCreate, TLC

CONSTANTS i1, i2, r1, r2, r3, p1, p2

Interchangeable ==
  Permutations({i1, i2}) \cup Permutations({r1, r2, r3}) \cup Permutations({p1, p2})
=============================================================================
