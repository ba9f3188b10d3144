----------------------------- MODULE CommandRow -----------------------------
(***************************************************************************)
(* One row of desktop_commands and its desktop_command_events, as the API  *)
(* instances see them (apps/api/lib/desktop-command-store.ts).  Requests   *)
(* are served concurrently and the database runs READ COMMITTED, so every  *)
(* operation is split where the code commits or re-reads:                  *)
(*                                                                         *)
(*   ack     findCommandByIdScoped ; conditional updateMany ; and, for a   *)
(*           rejection, a second transaction ingesting a synthetic error   *)
(*   event   one transaction: read the row ; insert the event row under    *)
(*           the (commandId, sequence) key ; update the row and commit     *)
(*   hello   sample requeuedAt ; conditional updateMany                    *)
(*   create  one dispatch attempt ; conditional expiry of a signed command *)
(*                                                                         *)
(* A transaction that has inserted its event but not committed is a        *)
(* handler at step "update": its event is invisible, and its key makes     *)
(* another insert of the same sequence wait.                               *)
(***************************************************************************)
EXTENDS Integers

CONSTANTS
  Handlers,      \* concurrent requests carrying a command ack or a command event
  Requeuers,     \* reconnects whose withheld commands are being requeued
  Unset,         \* SQL NULL, and "no status write" of a transition
  MaxSequence,   \* bound: highest sequence number the desktop puts on an event
  MaxTime        \* bound: last instant of the clock

ASSUME BoundsAssumption == MaxSequence \in Nat /\ MaxTime \in Nat

InFlightStatuses == {"accepted", "running"}
TerminalStatuses == {"done", "failed", "cancelled", "expired"}
Statuses == {"queued"} \cup InFlightStatuses \cup TerminalStatuses

ASSUME UnsetAssumption == Unset \notin Nat \cup Statuses

(* What the transition reads off an event: its type and the terminal and   *)
(* cancelled flags of its data.                                            *)
TerminalKinds == {"done", "cancelled", "terminalError"}
EventKinds == {"progress"} \cup TerminalKinds

VARIABLES
  row,       \* the command row
  events,    \* the committed event rows
  handler,   \* per request: the step it is at and what it has read
  requeuer,  \* per reconnect: the step it is at and its requeuedAt
  dispatch,  \* the create request's one dispatch attempt: "pending" or "settled"
  answered,  \* history: the queue entries some recorded answer was read against
  latest,    \* history: the latest queue entry there has been
  clock

vars == <<row, events, handler, requeuer, dispatch, answered, latest, clock>>

IsTerminal(status) == status \in TerminalStatuses

(* The row fields an operation reads before it writes. *)
Snapshot == [status: Statuses, lastSequenceAcked: Nat, queuedAt: Nat]

SnapshotOf(r) == [status            |-> r.status,
                  lastSequenceAcked |-> r.lastSequenceAcked,
                  queuedAt          |-> r.queuedAt]

Idle == [step |-> "idle"]

AckStates == [step: {"ackWrite"}, accepted: BOOLEAN, read: Snapshot]
IngestStates ==
  [step: {"insert", "update"}, sequence: Nat, kind: EventKinds, read: Snapshot]
HandlerStates == {Idle} \cup AckStates \cup [step: {"synthesize"}] \cup IngestStates

RowStates == [status: Statuses, lastSequenceAcked: Nat,
              ackedAt: Nat \cup {Unset}, queuedAt: Nat]

TypeOK ==
  /\ row \in RowStates
  /\ events \in SUBSET [sequence: Nat, kind: EventKinds]
  /\ handler \in [Handlers -> HandlerStates]
  /\ requeuer \in [Requeuers -> {Idle} \cup [step: {"write"}, requeuedAt: Nat]]
  /\ dispatch \in {"pending", "settled"}
  /\ answered \in SUBSET Nat
  /\ latest \in Nat
  /\ clock \in Nat

Init ==
  /\ row = [status |-> "queued", lastSequenceAcked |-> 0,
            ackedAt |-> Unset, queuedAt |-> 0]
  /\ events = {}
  /\ handler = [h \in Handlers |-> Idle]
  /\ requeuer = [q \in Requeuers |-> Idle]
  /\ dispatch = "pending"
  /\ answered = {}
  /\ latest = 0
  /\ clock = 0

(***************************************************************************)
(* acknowledgeCommand, and the ingestion acknowledgeDesktopCommand adds    *)
(* after a rejection.                                                      *)
(***************************************************************************)

(* The early returns: a terminal row is reported unchanged, and only a     *)
(* rejection goes on, to its synthetic event.                              *)
ReadForAck(h, accepted) ==
  /\ handler[h] = Idle
  /\ handler' = [handler EXCEPT ![h] =
       CASE ~IsTerminal(row.status) ->
              [step |-> "ackWrite", accepted |-> accepted, read |-> SnapshotOf(row)]
         [] IsTerminal(row.status) /\ ~accepted -> [step |-> "synthesize"]
         [] OTHER -> Idle]
  /\ UNCHANGED <<row, events, requeuer, dispatch, answered, latest, clock>>

(* Mutant: no frozen terminal status. *)
AckAppliesToTerminal(current, read, accepted) ==
  \/ current.ackedAt = Unset
  \/ current.ackedAt < read.queuedAt

(* The WHERE clause of the conditional update. *)
AckApplies(current, read, accepted) ==
  /\ IF accepted /\ read.status = "queued"
       THEN current.status = "queued"
       ELSE ~IsTerminal(current.status)
  /\ \/ current.ackedAt = Unset
     \/ current.ackedAt < read.queuedAt

(* Mutant: the stamp is the time of the ack. *)
AckedRowNow(current, read, accepted) ==
  [current EXCEPT
     !.ackedAt = clock,
     !.status = CASE ~accepted -> "failed"
                  [] accepted /\ read.status = "queued" -> "accepted"
                  [] OTHER -> @]

(* Its SET clause: the stamp is the queue entry that was read, not the     *)
(* clock.                                                                  *)
AckedRow(current, read, accepted) ==
  [current EXCEPT
     !.ackedAt = read.queuedAt,
     !.status = CASE ~accepted -> "failed"
                  [] accepted /\ read.status = "queued" -> "accepted"
                  [] OTHER -> @]

WriteAck(h) ==
  LET me == handler[h] IN
  /\ me.step = "ackWrite"
  /\ IF AckApplies(row, me.read, me.accepted)
       THEN /\ row' = AckedRow(row, me.read, me.accepted)
            /\ answered' = answered \cup {me.read.queuedAt}
       ELSE UNCHANGED <<row, answered>>
  /\ handler' = [handler EXCEPT ![h] =
                   IF me.accepted THEN Idle ELSE [step |-> "synthesize"]]
  /\ UNCHANGED <<events, requeuer, dispatch, latest, clock>>

(***************************************************************************)
(* ingestCommandEvent.                                                     *)
(***************************************************************************)

(* Mutant: a gap is let through. *)
GateEventOverGap(h, sequence, kind) ==
  handler' = [handler EXCEPT ![h] =
    IF sequence > row.lastSequenceAcked
      THEN [step |-> "insert", sequence |-> sequence, kind |-> kind,
            read |-> SnapshotOf(row)]
      ELSE Idle]

(* The sequence gate: only lastSequenceAcked + 1 goes on to the insert; a  *)
(* lower one is answered as a duplicate, a higher one as a gap.            *)
GateEvent(h, sequence, kind) ==
  handler' = [handler EXCEPT ![h] =
    IF sequence = row.lastSequenceAcked + 1
      THEN [step |-> "insert", sequence |-> sequence, kind |-> kind,
            read |-> SnapshotOf(row)]
      ELSE Idle]

ReadForEvent(h, sequence, kind) ==
  /\ handler[h] = Idle
  /\ GateEvent(h, sequence, kind)
  /\ UNCHANGED <<row, events, requeuer, dispatch, answered, latest, clock>>

(* A rejection's event carries no sequence, so it takes the expected one.  *)
(* MaxSequence bounds the model, as it bounds the desktop's own events.    *)
ReadForRejection(h) ==
  /\ handler[h].step = "synthesize"
  /\ row.lastSequenceAcked < MaxSequence
  /\ GateEvent(h, row.lastSequenceAcked + 1, "terminalError")
  /\ UNCHANGED <<row, events, requeuer, dispatch, answered, latest, clock>>

(* createEventRow.  The key is held by an uncommitted insert until that    *)
(* transaction ends, so a second insert waits; a committed one makes it a  *)
(* duplicate, which ends the transaction with nothing written.             *)
KeyHeldByOther(h, sequence) ==
  \E other \in Handlers \ {h} :
    handler[other].step = "update" /\ handler[other].sequence = sequence

KeyTaken(sequence) == \E e \in events : e.sequence = sequence

InsertEvent(h) ==
  LET me == handler[h] IN
  /\ me.step = "insert"
  /\ ~KeyHeldByOther(h, me.sequence)
  /\ handler' = [handler EXCEPT ![h] =
                   IF KeyTaken(me.sequence) THEN Idle ELSE [me EXCEPT !.step = "update"]]
  /\ UNCHANGED <<row, events, requeuer, dispatch, answered, latest, clock>>

(* Mutant: the cancelled flag of a done event is not read. *)
ResolveCommandUpdateUncancelled(status, kind) ==
  CASE IsTerminal(status) -> Unset
    [] ~IsTerminal(status) /\ kind \in {"done", "cancelled"} -> "done"
    [] ~IsTerminal(status) /\ kind = "terminalError" -> "failed"
    [] status \in {"queued", "accepted"} /\ kind = "progress" -> "running"
    [] OTHER -> Unset

(* resolveCommandUpdate: the status an event writes, Unset for none. *)
ResolveCommandUpdate(status, kind) ==
  CASE IsTerminal(status) -> Unset
    [] ~IsTerminal(status) /\ kind = "done" -> "done"
    [] ~IsTerminal(status) /\ kind = "cancelled" -> "cancelled"
    [] ~IsTerminal(status) /\ kind = "terminalError" -> "failed"
    [] status \in {"queued", "accepted"} /\ kind = "progress" -> "running"
    [] OTHER -> Unset

(* Mutant: "no status" is written like a status. *)
EventedRowAnyStatus(current, read, sequence, kind) ==
  [current EXCEPT
     !.lastSequenceAcked = sequence,
     !.ackedAt = read.queuedAt,
     !.status = ResolveCommandUpdate(read.status, kind)]

(* The update names the row by id alone: it applies whatever the row has   *)
(* become since it was read, and the status it writes was resolved from    *)
(* the status that was read.                                               *)
EventedRow(current, read, sequence, kind) ==
  LET status == ResolveCommandUpdate(read.status, kind) IN
  [current EXCEPT
     !.lastSequenceAcked = sequence,
     !.ackedAt = read.queuedAt,
     !.status = IF status = Unset THEN @ ELSE status]

CommitEvent(h) ==
  LET me == handler[h] IN
  /\ me.step = "update"
  /\ row' = EventedRow(row, me.read, me.sequence, me.kind)
  /\ events' = events \cup {[sequence |-> me.sequence, kind |-> me.kind]}
  /\ answered' = answered \cup {me.read.queuedAt}
  /\ handler' = [handler EXCEPT ![h] = Idle]
  /\ UNCHANGED <<requeuer, dispatch, latest, clock>>

(* A serverless invocation can vanish at any step: an open transaction     *)
(* rolls back, and a rejection already written never gets its event.       *)
CrashHandler(h) ==
  /\ handler[h] # Idle
  /\ handler' = [handler EXCEPT ![h] = Idle]
  /\ UNCHANGED <<row, events, requeuer, dispatch, answered, latest, clock>>

(***************************************************************************)
(* requeueUndeliveredCommands, started by a reconnect that withheld the    *)
(* command: requeuedAt is sampled before the update gets its connection.   *)
(***************************************************************************)

SampleRequeue(q) ==
  /\ requeuer[q] = Idle
  /\ ~IsTerminal(row.status)
  /\ requeuer' = [requeuer EXCEPT ![q] = [step |-> "write", requeuedAt |-> clock]]
  /\ UNCHANGED <<row, events, handler, dispatch, answered, latest, clock>>

(* Mutant: the in-flight guard of the update is missing. *)
RequeuedRowAnyStatus(current, requeuedAt) ==
  [current EXCEPT !.status = "queued", !.queuedAt = requeuedAt]

RequeuedRow(current, requeuedAt) ==
  IF current.status \in InFlightStatuses
    THEN [current EXCEPT !.status = "queued", !.queuedAt = requeuedAt]
    ELSE current

WriteRequeue(q) ==
  /\ requeuer[q].step = "write"
  /\ row' = RequeuedRow(row, requeuer[q].requeuedAt)
  /\ latest' = IF row'.queuedAt > latest THEN row'.queuedAt ELSE latest
  /\ requeuer' = [requeuer EXCEPT ![q] = Idle]
  /\ UNCHANGED <<events, handler, dispatch, answered, clock>>

(***************************************************************************)
(* The create request's dispatch attempt.  A failed one expires a signed   *)
(* command (expireUndeliveredSignedCommand, markCommandExpired); a 5s      *)
(* timeout fails it even when the desktop got the command.                 *)
(***************************************************************************)

DispatchSettled ==
  /\ dispatch = "pending"
  /\ dispatch' = "settled"
  /\ UNCHANGED <<row, events, handler, requeuer, answered, latest, clock>>

MarkCommandExpired ==
  /\ dispatch = "pending"
  /\ dispatch' = "settled"
  /\ row' = IF IsTerminal(row.status) THEN row ELSE [row EXCEPT !.status = "expired"]
  /\ UNCHANGED <<events, handler, requeuer, answered, latest, clock>>

Tick ==
  /\ clock < MaxTime
  /\ clock' = clock + 1
  /\ UNCHANGED <<row, events, handler, requeuer, dispatch, answered, latest>>

(***************************************************************************)
(* Any ack and any event may arrive at any time: the desktop may restart   *)
(* and number its events from 1 again, and requests are not ordered.       *)
(***************************************************************************)
HandlerStep(h) ==
  \/ \E accepted \in BOOLEAN : ReadForAck(h, accepted)
  \/ WriteAck(h)
  \/ \E sequence \in 1..MaxSequence, kind \in EventKinds : ReadForEvent(h, sequence, kind)
  \/ ReadForRejection(h)
  \/ InsertEvent(h)
  \/ CommitEvent(h)
  \/ CrashHandler(h)

Next ==
  \/ \E h \in Handlers : HandlerStep(h)
  \/ \E q \in Requeuers : SampleRequeue(q) \/ WriteRequeue(q)
  \/ DispatchSettled
  \/ MarkCommandExpired
  \/ Tick

Spec == Init /\ [][Next]_vars

(***************************************************************************)
(* Properties                                                              *)
(***************************************************************************)

(* The stored events are numbered 1..lastSequenceAcked with no gap and no  *)
(* number twice, whichever transactions overlap: a reader resuming after   *)
(* any sequence misses nothing (ingestCommandEvent, createEventRow).       *)
EventLogContiguous ==
  /\ \A e \in events : e.sequence \in 1..row.lastSequenceAcked
  /\ \A n \in 1..row.lastSequenceAcked : \E e \in events : e.sequence = n
  /\ \A e, f \in events : e.sequence = f.sequence => e = f

EndsCommand == \E e \in events : e.kind \in TerminalKinds

(* Once a terminal event is stored the row is terminal, although the       *)
(* status it writes is resolved from a status read earlier: an event can   *)
(* not be recorded and its outcome lost (ingestCommandEvent).              *)
TerminalEventFinalizes == EndsCommand => IsTerminal(row.status)

(* A success or a cancellation is never reported without the event that    *)
(* said so (resolveCommandUpdate against the stored history).              *)
OutcomeHasItsEvent ==
  \A outcome \in {"done", "cancelled"} :
    row.status = outcome => \E e \in events : e.kind = outcome

(* Once a terminal event is stored no ack, requeue, expiry or later event  *)
(* changes the outcome.                                                    *)
FinalizedStaysFinal == [][EndsCommand => row'.status = row.status]_vars

(* A late accept-ack never takes a command that is already running back to *)
(* accepted: the narrowed status guard of acknowledgeCommand.              *)
AckNeverRegresses ==
  [][~(row.status = "running" /\ row'.status = "accepted")]_vars

(* wasAnsweredOnEarlierDelivery. *)
WasAnsweredOnEarlierDelivery ==
  row.ackedAt # Unset /\ row.ackedAt < row.queuedAt

(* The current queue entry is the latest: reconnects that sample their     *)
(* requeuedAt in one order may write it in the other.                      *)
EntryIsLatest == row.queuedAt = latest

(* When an answer is on record and none was read against the current queue *)
(* entry, the sweep sees that the command was answered on an earlier       *)
(* delivery, however acks and requeues interleaved (acknowledgeCommand,    *)
(* requeueUndeliveredCommands).  The code's comment, "binding to the entry *)
(* is sound whichever write wins", says so of every order; it is not so    *)
(* while a requeue has put an earlier entry over a later one.              *)
EarlierAnswerIsVisible ==
  (row.ackedAt # Unset /\ row.queuedAt \notin answered /\ EntryIsLatest)
    => WasAnsweredOnEarlierDelivery
=============================================================================
