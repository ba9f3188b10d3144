----------------------------- MODULE CommandStream -----------------------------
(***************************************************************************)
(* The events of one command on their way from the desktop's executor over *)
(* the relay to the command row: numbered and buffered by the executor     *)
(* (cloud-command-executor.ts), forwarded one at a time by the relay       *)
(* (apps/relay/src/index.ts), stored by the API, which answers each with   *)
(* an ack or, over a gap, with the number to resume from.  The command is  *)
(* delivered again by a hello or a drain, and may run again when the       *)
(* desktop has forgotten it.                                               *)
(*                                                                         *)
(* CommandExecutor and CommandRow have the two ends in detail; here a run  *)
(* is the numbers it has emitted and a request is one step.                *)
(***************************************************************************)
EXTENDS Integers, Sequences

CONSTANTS
  Cloud,         \* the author of a rejection's event in the log
  MaxRuns,       \* bound: runs of the command
  MaxEvents,     \* bound: events of one run
  MaxBuffered,   \* MAX_BUFFERED_EVENTS_PER_COMMAND
  MaxPending,    \* MAX_PENDING_BUFFER_SIZE
  MaxChannel,    \* bound: frames on their way when an end sends another
  MaxLog,        \* bound: stored events when a rejection adds another
  MaxFaults,     \* bound: failed forwards, failed hellos and dropped busy sockets
  MaxPauses      \* bound: times the user pauses cloud commands

Runs == 1..MaxRuns

ASSUME StreamAssumption ==
  /\ Cloud \notin Runs
  /\ MaxRuns \in Nat \ {0} /\ MaxEvents \in Nat \ {0}
  /\ MaxBuffered \in Nat \ {0} /\ MaxPending \in Nat
  /\ MaxChannel \in Nat /\ MaxLog \in Nat /\ MaxFaults \in Nat /\ MaxPauses \in Nat

VARIABLES
  run,       \* the desktop's latest run of the command, 0 before any
  state,     \* trackedByCommandId: "untracked", "live" or "terminal"
  emitted,   \* lastEmittedSequence of each run
  trimmed,   \* the events of the latest run that left its buffer
  acked,     \* lastAckedSequence
  paused,    \* areCloudCommandsPaused
  session,   \* the desktop's socket: "down", "hello" or "up" (registered)
  up,        \* the events on the socket and in the relay's queue for it
  stray,     \* forwards given up on, and events of sockets gone: may still land
  down,      \* what the API sends to the desktop over the socket
  acks,      \* command acks on their way, in no order
  row,       \* the row: "queued", "taken" (accepted or running) or "ended"
  log,       \* the stored events: the run that wrote each, and its number
  faults, pauses

desktop == <<run, state, emitted, trimmed, acked>>
wire == <<session, up, stray, down, acks>>
cloud == <<row, log>>
vars == <<desktop, paused, wire, cloud, faults, pauses>>

Event(r, n, last) == [run |-> r, sequence |-> n, last |-> last]
Events == [run: Runs, sequence: Nat, last: BOOLEAN]
Answers == [type: {"ack", "resume"}, sequence: Nat]
Command == [type |-> "command"]

TypeOK ==
  /\ run \in 0..MaxRuns
  /\ state \in {"untracked", "live", "terminal"}
  /\ state # "untracked" => run \in Runs
  /\ emitted \in [Runs -> Nat]
  /\ trimmed \in Nat /\ acked \in Nat
  /\ paused \in BOOLEAN
  /\ session \in {"down", "hello", "up"}
  /\ session = "down" => up = <<>> /\ down = <<>>
  /\ up \in Seq(Events)
  /\ stray \in SUBSET Events
  /\ down \in Seq(Answers \cup {Command})
  /\ acks \in SUBSET {"accepted", "rejected"}
  /\ row \in {"queued", "taken", "ended"}
  /\ log \in Seq([run: Runs \cup {Cloud}, sequence: Nat])
  /\ faults \in 0..MaxFaults /\ pauses \in 0..MaxPauses

Init ==
  /\ run = 0 /\ state = "untracked"
  /\ emitted = [r \in Runs |-> 0]
  /\ trimmed = 0 /\ acked = 0
  /\ paused = FALSE
  /\ session = "down"
  /\ up = <<>> /\ stray = {} /\ down = <<>> /\ acks = {}
  /\ row = "queued"
  /\ log = <<>>
  /\ faults = 0 /\ pauses = 0

(***************************************************************************)
(* The desktop.                                                            *)
(***************************************************************************)

Latest == emitted[run]

(* The buffer of the latest run: what was emitted and not trimmed.         *)
Buffered == {n \in 1..Latest : n > trimmed}

(* replayBuffered: the buffered events above a number, in order.           *)
Above(from) ==
  LET base == IF from > trimmed THEN from ELSE trimmed IN
  [i \in 1..(IF Latest > base THEN Latest - base ELSE 0) |->
     Event(run, base + i, state = "terminal" /\ base + i = Latest)]

(* Mutant: the client library's buffering of what is sent while down.      *)
SendAlways(events) ==
  /\ Len(up) + Len(events) <= MaxChannel
  /\ up' = up \o events

(* CloudSocketService.emit sends on a connected socket only; before the    *)
(* hello is answered the relay keeps at most MaxPending events.            *)
Send(events) ==
  LET room == IF session = "hello" /\ Len(up) + Len(events) > MaxPending
                THEN IF Len(up) < MaxPending THEN MaxPending - Len(up) ELSE 0
                ELSE Len(events)
  IN
  IF session = "down"
    THEN UNCHANGED up
    ELSE /\ Len(up) + Len(events) <= MaxChannel
         /\ up' = up \o SubSeq(events, 1, room)

(* emitTrackedEvent and markTerminal.  A full buffer ends the run.         *)
Emit(last) ==
  /\ state = "live"
  /\ LET ends == last \/ Latest - trimmed >= MaxBuffered IN
     /\ ends \/ Latest + 1 < MaxEvents
     /\ emitted' = [emitted EXCEPT ![run] = @ + 1]
     /\ state' = IF ends THEN "terminal" ELSE state
     /\ Send(<<Event(run, Latest + 1, ends)>>)
  /\ UNCHANGED <<run, trimmed, acked, paused, session, stray, down, acks, cloud, faults, pauses>>

Acknowledge(sequence) ==
  LET highest == IF sequence > acked THEN sequence ELSE acked IN
  /\ IF state = "untracked"
       THEN UNCHANGED <<acked, trimmed>>
       ELSE /\ acked' = highest
            /\ trimmed' = IF state = "terminal" THEN trimmed ELSE highest
  /\ UNCHANGED <<run, state, emitted, up, acks>>

(* onHelloAck: replayFrom.                                                 *)
Resume(sequence) ==
  /\ IF state = "untracked" THEN UNCHANGED up ELSE Send(Above(sequence))
  /\ UNCHANGED <<desktop, acks>>

(* Mutant: an ended command delivered again is only re-acked.              *)
AdmitWithoutReplay ==
  /\ acks' = acks \cup {IF paused THEN "rejected" ELSE "accepted"}
  /\ IF paused \/ state # "untracked"
       THEN UNCHANGED desktop
       ELSE /\ run < MaxRuns
            /\ run' = run + 1 /\ state' = "live" /\ trimmed' = 0 /\ acked' = 0
            /\ UNCHANGED emitted
  /\ UNCHANGED up

(* admitInboundCloudCommand: paused comes before the executor's dedupe.    *)
Admit ==
  CASE paused ->
         /\ acks' = acks \cup {"rejected"}
         /\ UNCHANGED <<desktop, up>>
    [] ~paused /\ state # "untracked" ->
         /\ acks' = acks \cup {"accepted"}
         /\ IF state = "terminal" THEN Send(Above(0)) ELSE UNCHANGED up
         /\ UNCHANGED desktop
    [] OTHER ->
         /\ run < MaxRuns
         /\ run' = run + 1 /\ state' = "live" /\ trimmed' = 0 /\ acked' = 0
         /\ acks' = acks \cup {"accepted"}
         /\ UNCHANGED <<emitted, up>>

Receive ==
  /\ down # <<>>
  /\ LET frame == Head(down) IN
     \/ frame = Command /\ Admit
     \/ frame # Command /\ frame.type = "ack" /\ Acknowledge(frame.sequence)
     \/ frame # Command /\ frame.type = "resume" /\ Resume(frame.sequence)
  /\ down' = Tail(down)
  /\ UNCHANGED <<paused, session, stray, cloud, faults, pauses>>

(* pruneTerminalCommands, at the enqueue of some other command.  It is     *)
(* followed here only while another run can be modelled.                   *)
Forget ==
  /\ state = "terminal" /\ session = "up" /\ run < MaxRuns
  /\ state' = "untracked"
  /\ UNCHANGED <<run, emitted, trimmed, acked, paused, wire, cloud, faults, pauses>>

SetPaused(to) ==
  /\ paused # to
  /\ to => pauses < MaxPauses
  /\ paused' = to
  /\ pauses' = IF to THEN pauses + 1 ELSE pauses
  /\ UNCHANGED <<desktop, wire, cloud, faults>>

(***************************************************************************)
(* The socket.                                                             *)
(***************************************************************************)

Connect ==
  /\ session = "down"
  /\ session' = "hello"
  /\ UNCHANGED <<desktop, paused, up, stray, down, acks, cloud, faults, pauses>>

(* What is on the socket is lost or, once registered, may still be         *)
(* forwarded by the relay's queue; its answers go nowhere.                 *)
Dropped ==
  /\ session' = "down"
  /\ up' = <<>> /\ down' = <<>>
  /\ stray' = IF session = "up" THEN stray \cup {up[i] : i \in 1..Len(up)} ELSE stray
  /\ UNCHANGED acks

Disconnect ==
  /\ session # "down"
  /\ faults < MaxFaults
  /\ faults' = faults + 1
  /\ Dropped
  /\ UNCHANGED <<desktop, paused, cloud, pauses>>

(* No socket lasts for ever, an idle one included.                         *)
IdleDisconnect ==
  /\ session = "up" /\ up = <<>> /\ down = <<>>
  /\ Dropped
  /\ UNCHANGED <<desktop, paused, cloud, faults, pauses>>

(* A desktop that restarts has forgotten its commands.                     *)
Restart ==
  /\ run \in Runs /\ run < MaxRuns
  /\ state' = "untracked"
  /\ Dropped
  /\ UNCHANGED <<run, emitted, trimmed, acked, paused, cloud, faults, pauses>>

(***************************************************************************)
(* The API.                                                                *)
(***************************************************************************)

(* handleHello: a row that has not ended is released, with the number to   *)
(* resume from ahead of it, or withheld behind others and queued again.    *)
HandleHello(released) ==
  /\ session = "hello"
  /\ session' = "up"
  /\ down' = IF row # "ended" /\ released
               THEN <<[type |-> "resume", sequence |-> Len(log)], Command>>
               ELSE <<>>
  /\ row' = IF row = "taken" /\ ~released THEN "queued" ELSE row
  /\ UNCHANGED <<desktop, paused, up, stray, acks, log, faults, pauses>>

(* A drain hands out a queued row.                                         *)
Dispatch ==
  /\ session = "up" /\ row = "queued"
  /\ Len(down) < MaxChannel
  /\ down' = Append(down, Command)
  /\ UNCHANGED <<desktop, paused, session, up, stray, acks, cloud, faults, pauses>>

(* Mutant: the gate lets a gap through. *)
IngestOverGap(event) ==
  IF event.sequence > Len(log)
    THEN /\ log' = Append(log, [run |-> event.run, sequence |-> event.sequence])
         /\ row' = IF event.last THEN "ended" ELSE IF row = "queued" THEN "taken" ELSE row
    ELSE UNCHANGED cloud

(* ingestCommandEvent: only the next number is stored.                     *)
Ingest(event) ==
  IF event.sequence = Len(log) + 1
    THEN /\ log' = Append(log, [run |-> event.run, sequence |-> event.sequence])
         /\ row' = IF event.last THEN "ended" ELSE IF row = "queued" THEN "taken" ELSE row
    ELSE UNCHANGED cloud

(* Mutant: a gap is acked like an event. *)
AnswerAlwaysAck(event) == [type |-> "ack", sequence |-> event.sequence]

(* handleCommandEvent acks a stored event and a duplicate alike;           *)
(* handleCommandSequenceGap answers with the number to resume from.        *)
Answer(event) ==
  IF event.sequence <= Len(log) + 1
    THEN [type |-> "ack", sequence |-> event.sequence]
    ELSE [type |-> "resume", sequence |-> Len(log)]

(* The relay forwards one event of a socket at a time.                     *)
Forward ==
  /\ session = "up" /\ up # <<>>
  /\ up' = Tail(up)
  /\ Ingest(Head(up))
  /\ down' = Append(down, Answer(Head(up)))
  /\ UNCHANGED <<desktop, paused, session, stray, acks, faults, pauses>>

(* A forward that fails is only logged; one that timed out may still land. *)
ForwardFails ==
  /\ session = "up" /\ up # <<>>
  /\ faults < MaxFaults
  /\ faults' = faults + 1
  /\ up' = Tail(up)
  /\ stray' = stray \cup {Head(up)}
  /\ UNCHANGED <<desktop, paused, session, down, acks, cloud, pauses>>

StrayLands ==
  /\ \E event \in stray :
       /\ stray' = stray \ {event}
       /\ Ingest(event)
  /\ UNCHANGED <<desktop, paused, session, up, down, acks, faults, pauses>>

StrayLost ==
  /\ \E event \in stray : stray' = stray \ {event}
  /\ UNCHANGED <<desktop, paused, session, up, down, acks, cloud, faults, pauses>>

(* handleCommandAck: a rejection stores an event of its own, at the next   *)
(* number, whatever the row has become.                                    *)
AckLands(answer) ==
  /\ answer \in acks
  /\ acks' = acks \ {answer}
  /\ IF answer = "rejected"
       THEN /\ Len(log) < MaxLog
            /\ log' = Append(log, [run |-> Cloud, sequence |-> Len(log) + 1])
            /\ row' = "ended"
       ELSE /\ row' = IF row = "queued" THEN "taken" ELSE row
            /\ UNCHANGED log
  /\ UNCHANGED <<desktop, paused, session, up, stray, down, faults, pauses>>

AckLost(answer) ==
  /\ answer \in acks
  /\ acks' = acks \ {answer}
  /\ UNCHANGED <<desktop, paused, session, up, stray, down, cloud, faults, pauses>>

Next ==
  \/ \E last \in BOOLEAN : Emit(last)
  \/ Receive
  \/ Forget
  \/ \E to \in BOOLEAN : SetPaused(to)
  \/ Connect
  \/ Disconnect
  \/ IdleDisconnect
  \/ Restart
  \/ \E released \in BOOLEAN : HandleHello(released)
  \/ Dispatch
  \/ Forward
  \/ ForwardFails
  \/ StrayLands
  \/ StrayLost
  \/ \E answer \in acks : AckLands(answer) \/ AckLost(answer)

Spec == Init /\ [][Next]_vars

(***************************************************************************)
(* Fairness: the desktop reconnects and is answered, what is on a socket   *)
(* is carried, drains are triggered for a queued row (by every presence    *)
(* frame), and no socket lasts for ever.  MaxFaults is the number of       *)
(* faults after which the network serves.                                  *)
(***************************************************************************)
FairSpec ==
  /\ Spec
  /\ WF_vars(Connect)
  /\ WF_vars(\E released \in BOOLEAN : HandleHello(released))
  /\ WF_vars(Receive)
  /\ WF_vars(Forward)
  /\ SF_vars(Dispatch)
  /\ WF_vars(IdleDisconnect)

(***************************************************************************)
(* Properties                                                              *)
(***************************************************************************)

(* The stream implements the ordered log, over every loss, duplicate,      *)
(* replay, rerun and rejection: no stored event is ever invented, skipped, *)
(* overwritten or stored at another number than its own.                   *)
Abstract == INSTANCE EventLog WITH written <- emitted
StreamIsOrderedLog == Abstract!Spec

(* What the cloud lacks of the latest run is in that run's buffer, however *)
(* late the acks and whichever run's events the cloud holds: acks never    *)
(* trim what is not stored, so a resume can always fill the gap.           *)
CloudCanCatchUp ==
  state # "untracked" => \A n \in (Len(log) + 1)..Latest : n \in Buffered

(* An event the executor takes as acked is stored: the log holds, at that  *)
(* number, this run's event, or what took the number before it, an event   *)
(* of an earlier run or the rejection a pause made.  "API accepts next     *)
(* contiguous sequence, ignores duplicates": what it answers as a          *)
(* duplicate it has.                                                       *)
AckedIsStored ==
  state # "untracked" => \A n \in 1..acked : n <= Latest =>
    /\ n <= Len(log)
    /\ log[n].run \in 1..run \/ (log[n].run = Cloud /\ pauses > 0)

(* A command that ended on the desktop ends in the cloud, although the     *)
(* last event has no later one to reveal its loss: a reconnect or a        *)
(* redelivery replays it.  A desktop that forgets the command, and one     *)
(* that was paused over it, need not report its end.                       *)
EndIsReported ==
  (state = "terminal" /\ run = 1)
    ~> (row = "ended" \/ state # "terminal" \/ pauses > 0)
=============================================================================
