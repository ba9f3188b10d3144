-------------------------- MODULE MCCommandExecutor --------------------------
(* Instances of CommandExecutor for TLC.  The lock keys are the repository *)
(* paths of the commands.                                                  *)
EXTENDS CommandExecutor, TLC

CONSTANTS c1, c2, c3, k

BothOnOneRepo == (c1 :> k) @@ (c2 :> k)

(* Two commands on one repository and one on none. *)
TwoOnOneRepo == (c1 :> k) @@ (c2 :> k) @@ (c3 :> NoKey)

(* One command with a lock, one without. *)
OneLocked == (c1 :> k) @@ (c2 :> NoKey)

(* MaxEvents: the first command streams a line, and its first event may be *)
(* acked; or none does.                                                    *)
FirstIsChatty == [c \in Commands |-> IF c = c1 THEN 1 ELSE 0]
NoneIsChatty == [c \in Commands |-> 0]
=============================================================================
