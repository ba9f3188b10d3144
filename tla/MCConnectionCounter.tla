-------------------------- MODULE MCConnectionCounter --------------------------
(* Instances of ConnectionCounter for TLC. *)
EXTENDS ConnectionCounter, TLC

CONSTANTS i1, i2, h1, h2

(* Only invariants are checked with it. *)
Peers == Permutations({i1, i2}) \cup Permutations({h1, h2})

(* The VIEW of the run.  What a connection that is over was, and where, is   *)
(* read by no action and no invariant once its take has ended: states that   *)
(* differ in it alone are one.                                               *)
Over(h) == conn[h] \in {"uncounted", "refused", "closed"}
Remains(h) ==
  IF ~Over(h) THEN <<at[h], take[h], conn[h], h \in unseen>>
  ELSE IF take[h].step # "none" THEN <<at[h], take[h], "over", h \in unseen>>
  ELSE "over"
Essence ==
  <<hash, lease, phase, reachable, memory, sweeper, outages,
    [h \in Handshakes |-> Remains(h)]>>

OneConnection == (User :> 2 @@ Org :> 1)
=============================================================================
