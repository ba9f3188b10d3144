------------------------------- MODULE EventLog -------------------------------
(***************************************************************************)
(* What the event stream of a command promises ("API accepts next          *)
(* contiguous sequence, ignores duplicates, rejects gaps").  Runs of the   *)
(* command write numbered events; the stored log takes, at each number,    *)
(* the event of that number some run has written, once and in order.  The  *)
(* cloud adds an event of its own for a rejection.                         *)
(***************************************************************************)
EXTENDS Naturals, Sequences

CONSTANTS
  Runs,    \* the runs of the command, on the desktop
  Cloud    \* the author of a rejection's event, none of the runs

VARIABLES
  written,   \* how many events each run has written
  log        \* the stored events: their run and number

Init ==
  /\ written = [r \in Runs |-> 0]
  /\ log = <<>>

Write(r) ==
  /\ written' = [written EXCEPT ![r] = @ + 1]
  /\ UNCHANGED log

Store(r) ==
  /\ Len(log) < written[r]
  /\ log' = Append(log, [run |-> r, sequence |-> Len(log) + 1])
  /\ UNCHANGED written

Reject ==
  /\ log' = Append(log, [run |-> Cloud, sequence |-> Len(log) + 1])
  /\ UNCHANGED written

Next ==
  \/ \E r \in Runs : Write(r) \/ Store(r)
  \/ Reject

Spec == Init /\ [][Next]_<<written, log>>
=============================================================================
