-------------------------- MODULE MCChannelRevocation --------------------------
(* Instances of ChannelRevocation for TLC. *)
EXTENDS ChannelRevocation

CONSTANTS u1

OneUser == [s \in Sockets |-> u1]
OfUser == [r \in Revokes |-> u1]
=============================================================================
