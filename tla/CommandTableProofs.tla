--------------------------- MODULE CommandTableProofs ---------------------------
(***************************************************************************)
(* Theorems about the desktop command table, checked by TLAPS: about a row *)
(* under any set of concurrent requests and reconnects and every bound     *)
(* (CommandRow), and about the creates that race for a row for any number  *)
(* of instances, requests, keys, payloads and ids (IdempotentCreate).      *)
(***************************************************************************)
EXTENDS CommandRow, IdempotentCreate, TLAPS

(***************************************************************************)
(* CommandRow                                                              *)
(***************************************************************************)

(***************************************************************************)
(* The strengthening that makes TerminalEventFinalizes inductive.  It      *)
(* relates each open ingest transaction to the row it read: the gate gave  *)
(* it the successor of the sequence it read, that sequence is still the    *)
(* row's once the insert has gone through, and as long as no event was     *)
(* committed since the read, "the history has ended" and "the row is       *)
(* terminal" can be told from the status that was read.                    *)
(***************************************************************************)
Ingesting(h) == handler[h].step \in {"insert", "update"}

ReadIsCurrent(h) == handler[h].read.lastSequenceAcked = row.lastSequenceAcked

GatedSequence ==
  \A h \in Handlers : Ingesting(h) =>
    /\ handler[h].sequence = handler[h].read.lastSequenceAcked + 1
    /\ handler[h].read.lastSequenceAcked <= row.lastSequenceAcked

InsertedIsNext ==
  \A h \in Handlers : handler[h].step = "update" => ReadIsCurrent(h)

OneInserted ==
  \A g, h \in Handlers :
    handler[g].step = "update" /\ handler[h].step = "update" => g = h

EndSeenByRead ==
  \A h \in Handlers :
    Ingesting(h) /\ ReadIsCurrent(h) /\ EndsCommand => IsTerminal(handler[h].read.status)

TerminalSeenByRead ==
  \A h \in Handlers :
    Ingesting(h) /\ ReadIsCurrent(h) /\ IsTerminal(handler[h].read.status)
      => IsTerminal(row.status)

IInv ==
  /\ TypeOK
  /\ EventLogContiguous
  /\ GatedSequence
  /\ InsertedIsNext
  /\ OneInserted
  /\ EndSeenByRead
  /\ TerminalSeenByRead
  /\ TerminalEventFinalizes

(***************************************************************************)
(* Type correctness                                                        *)
(***************************************************************************)

(* What a request holds at the steps that write. *)
LEMMA HandlerShape ==
  ASSUME TypeOK, NEW h \in Handlers
  PROVE  /\ handler[h].step = "ackWrite" => handler[h] \in AckStates
         /\ Ingesting(h) => handler[h] \in IngestStates
  BY DEF TypeOK, HandlerStates, AckStates, IngestStates, Idle, Ingesting

(* The transition writes a status of the table, or none. *)
LEMMA ResolvedStatus ==
  ASSUME NEW status \in Statuses, NEW kind \in EventKinds
  PROVE  /\ ResolveCommandUpdate(status, kind) \in Statuses \cup {Unset}
         /\ IsTerminal(status) => ResolveCommandUpdate(status, kind) = Unset
         /\ ~IsTerminal(status) /\ kind \in TerminalKinds
              => /\ ResolveCommandUpdate(status, kind) \in TerminalStatuses
                 /\ ResolveCommandUpdate(status, kind) # Unset
<1> USE DEF ResolveCommandUpdate, Statuses, InFlightStatuses, TerminalStatuses,
            EventKinds, TerminalKinds, IsTerminal
<1>1. CASE IsTerminal(status)
  BY <1>1
<1>2. CASE ~IsTerminal(status) /\ kind \in TerminalKinds
  BY <1>2, UnsetAssumption
<1>3. CASE ~IsTerminal(status) /\ kind = "progress"
  BY <1>3
<1> QED
  BY <1>1, <1>2, <1>3

(* Every variable keeps its type: in particular a request at a given step  *)
(* carries exactly the fields that step reads.                             *)
THEOREM TypeCorrect == Spec => []TypeOK
<1>1. Init => TypeOK
  BY DEF Init, TypeOK, RowStates, HandlerStates, Idle, Statuses
<1>2. TypeOK /\ [Next]_vars => TypeOK'
  <2> SUFFICES ASSUME TypeOK, [Next]_vars PROVE TypeOK'
    OBVIOUS
  <2>0. SnapshotOf(row) \in Snapshot
    BY DEF TypeOK, RowStates, SnapshotOf, Snapshot
  <2>1. ASSUME NEW h \in Handlers, NEW accepted \in BOOLEAN, ReadForAck(h, accepted)
        PROVE TypeOK'
    BY <2>0, <2>1 DEF ReadForAck, TypeOK, HandlerStates, AckStates, Idle
  <2>2. ASSUME NEW h \in Handlers, WriteAck(h) PROVE TypeOK'
    <3>1. handler[h] \in AckStates
      BY <2>2, HandlerShape DEF WriteAck
    <3>2. PICK acked : acked = AckedRow(row, handler[h].read, handler[h].accepted)
      OBVIOUS
    <3>3. acked \in RowStates /\ handler[h].read.queuedAt \in Nat
      <4>1. handler[h].read.queuedAt \in Nat /\ row \in RowStates
        BY <3>1 DEF AckStates, Snapshot, TypeOK
      <4>2. PICK status \in Statuses :
              acked = [row EXCEPT !.ackedAt = handler[h].read.queuedAt, !.status = status]
        BY <3>2, <4>1 DEF AckedRow, RowStates, Statuses, InFlightStatuses, TerminalStatuses
      <4> QED
        BY <4>1, <4>2 DEF RowStates
    <3>4. row' \in {row, acked} /\ answered' \in {answered, answered \cup {handler[h].read.queuedAt}}
      BY <2>2, <3>2 DEF WriteAck
    <3>5. row' \in RowStates /\ answered' \in SUBSET Nat
      BY <3>3, <3>4 DEF TypeOK
    <3> QED
      BY <2>2, <3>5 DEF WriteAck, TypeOK, HandlerStates, Idle
  <2>3. ASSUME NEW h \in Handlers, NEW sequence \in 1..MaxSequence, NEW kind \in EventKinds,
               ReadForEvent(h, sequence, kind)
        PROVE TypeOK'
    BY <2>0, <2>3, BoundsAssumption
       DEF ReadForEvent, GateEvent, TypeOK, HandlerStates, IngestStates, Idle
  <2>4. ASSUME NEW h \in Handlers, ReadForRejection(h) PROVE TypeOK'
    <3>1. row.lastSequenceAcked + 1 \in Nat /\ "terminalError" \in EventKinds
      BY DEF TypeOK, RowStates, EventKinds, TerminalKinds
    <3> QED
      BY <2>0, <2>4, <3>1
         DEF ReadForRejection, GateEvent, TypeOK, HandlerStates, IngestStates, Idle
  <2>5. ASSUME NEW h \in Handlers, InsertEvent(h) PROVE TypeOK'
    <3>1. handler[h] \in IngestStates
      BY <2>5, HandlerShape DEF InsertEvent, Ingesting
    <3>2. [handler[h] EXCEPT !.step = "update"] \in IngestStates
      BY <3>1 DEF IngestStates
    <3> QED
      BY <2>5, <3>2 DEF InsertEvent, TypeOK, HandlerStates, Idle
  <2>6. ASSUME NEW h \in Handlers, CommitEvent(h) PROVE TypeOK'
    <3>1. handler[h] \in IngestStates
      BY <2>6, HandlerShape DEF CommitEvent, Ingesting
    <3>2. /\ handler[h].sequence \in Nat
          /\ handler[h].kind \in EventKinds
          /\ handler[h].read.status \in Statuses
          /\ handler[h].read.queuedAt \in Nat
      BY <3>1 DEF IngestStates, Snapshot
    <3>3. row' \in RowStates
      BY <2>6, <3>2, ResolvedStatus DEF CommitEvent, EventedRow, TypeOK, RowStates
    <3>4. [sequence |-> handler[h].sequence, kind |-> handler[h].kind]
            \in [sequence: Nat, kind: EventKinds]
      BY <3>2
    <3>5. events' \in SUBSET [sequence: Nat, kind: EventKinds]
      BY <2>6, <3>4 DEF CommitEvent, TypeOK
    <3> QED
      BY <2>6, <3>2, <3>3, <3>5 DEF CommitEvent, TypeOK, HandlerStates, Idle
  <2>7. ASSUME NEW h \in Handlers, CrashHandler(h) PROVE TypeOK'
    BY <2>7 DEF CrashHandler, TypeOK, HandlerStates, Idle
  <2>8. ASSUME NEW q \in Requeuers, SampleRequeue(q) PROVE TypeOK'
    BY <2>8 DEF SampleRequeue, TypeOK
  <2>9. ASSUME NEW q \in Requeuers, WriteRequeue(q) PROVE TypeOK'
    <3>1. requeuer[q].requeuedAt \in Nat
      BY <2>9 DEF WriteRequeue, TypeOK, Idle
    <3>2. row' \in RowStates
      BY <2>9, <3>1 DEF WriteRequeue, RequeuedRow, TypeOK, RowStates, Statuses
    <3>3. latest' \in Nat
      BY <2>9, <3>2 DEF WriteRequeue, TypeOK, RowStates
    <3> QED
      BY <2>9, <3>2, <3>3 DEF WriteRequeue, TypeOK
  <2>10. CASE DispatchSettled
    BY <2>10 DEF DispatchSettled, TypeOK
  <2>11. CASE MarkCommandExpired
    BY <2>11 DEF MarkCommandExpired, TypeOK, RowStates, Statuses, TerminalStatuses
  <2>12. CASE Tick
    BY <2>12 DEF Tick, TypeOK
  <2>13. CASE UNCHANGED vars
    BY <2>13 DEF vars, TypeOK
  <2> QED
    BY <2>1, <2>2, <2>3, <2>4, <2>5, <2>6, <2>7, <2>8, <2>9, <2>10, <2>11, <2>12, <2>13
       DEF Next, HandlerStep
<1>3. QED
  BY <1>1, <1>2, PTL DEF Spec
(***************************************************************************)
(* The ingest protocol                                                     *)
(***************************************************************************)

(* Everything the ingest invariants mention apart from row.status. *)
IngestUnchanged ==
  /\ UNCHANGED <<events, handler>>
  /\ row'.lastSequenceAcked = row.lastSequenceAcked

(* A write to the row by anything but an event: it leaves the ingest state *)
(* alone and keeps a terminal row terminal, so it disturbs nothing.        *)
LEMMA OtherRowWrite ==
  ASSUME IInv, TypeOK', IngestUnchanged, IsTerminal(row.status) => IsTerminal(row'.status)
  PROVE  IInv'
  BY DEF IInv, IngestUnchanged, EventLogContiguous, GatedSequence, InsertedIsNext,
         OneInserted, EndSeenByRead, TerminalSeenByRead, TerminalEventFinalizes,
         EndsCommand, Ingesting, ReadIsCurrent, IsTerminal

(* A step of a request that writes no table and neither starts nor         *)
(* advances an ingest transaction.                                         *)
LEMMA LeavesIngest ==
  ASSUME IInv, TypeOK', UNCHANGED events, row'.lastSequenceAcked = row.lastSequenceAcked,
         IsTerminal(row.status) => IsTerminal(row'.status),
         NEW h \in Handlers,
         \A g \in Handlers \ {h} : handler'[g] = handler[g],
         handler'[h].step \notin {"insert", "update"}
  PROVE  IInv'
  BY DEF IInv, EventLogContiguous, GatedSequence, InsertedIsNext, OneInserted,
         EndSeenByRead, TerminalSeenByRead, TerminalEventFinalizes, EndsCommand,
         Ingesting, ReadIsCurrent, IsTerminal

(* Passing the sequence gate: the read is current by construction. *)
LEMMA GateKeepsIInv ==
  ASSUME IInv, TypeOK', NEW h \in Handlers, handler[h].step \in {"idle", "synthesize"},
         NEW sequence \in Nat, NEW kind \in EventKinds,
         GateEvent(h, sequence, kind), UNCHANGED <<row, events>>
  PROVE  IInv'
<1>1. \A g \in Handlers \ {h} : handler'[g] = handler[g]
  BY DEF GateEvent, IInv, TypeOK
<1>2. CASE sequence # row.lastSequenceAcked + 1
  <2>1. handler'[h] = Idle
    BY <1>2 DEF GateEvent, IInv, TypeOK
  <2> QED
    BY <1>1, <2>1, LeavesIngest DEF Idle
<1>3. CASE sequence = row.lastSequenceAcked + 1
  <2>1. handler'[h] = [step |-> "insert", sequence |-> sequence, kind |-> kind,
                       read |-> SnapshotOf(row)]
    BY <1>3 DEF GateEvent, IInv, TypeOK
  <2>2. /\ handler'[h].read.lastSequenceAcked = row.lastSequenceAcked
        /\ handler'[h].read.status = row.status
        /\ handler'[h].sequence = row.lastSequenceAcked + 1
        /\ handler'[h].step = "insert"
    BY <1>3, <2>1 DEF SnapshotOf
  <2>3. row.lastSequenceAcked \in Nat
    BY DEF IInv, TypeOK, RowStates
  <2>4. EventLogContiguous' /\ TerminalEventFinalizes'
    BY DEF IInv, EventLogContiguous, TerminalEventFinalizes, EndsCommand
  <2>5. GatedSequence' /\ InsertedIsNext' /\ OneInserted'
    BY <1>1, <2>2, <2>3
       DEF IInv, GatedSequence, InsertedIsNext, OneInserted, Ingesting, ReadIsCurrent
  <2>6. EndSeenByRead' /\ TerminalSeenByRead'
    BY <1>1, <2>2
       DEF IInv, EndSeenByRead, TerminalSeenByRead, TerminalEventFinalizes, EndsCommand,
           Ingesting, ReadIsCurrent
  <2> QED
    BY <2>4, <2>5, <2>6 DEF IInv
<1> QED
  BY <1>2, <1>3

(* The event insert: the (commandId, sequence) key makes the inserter the  *)
(* only one, and its read current.                                         *)
LEMMA InsertKeepsIInv ==
  ASSUME IInv, TypeOK', NEW h \in Handlers, InsertEvent(h)
  PROVE  IInv'
<1>1. \A g \in Handlers \ {h} : handler'[g] = handler[g]
  BY DEF InsertEvent, IInv, TypeOK
<1>2. CASE KeyTaken(handler[h].sequence)
  <2>1. handler'[h] = Idle
    BY <1>2 DEF InsertEvent, IInv, TypeOK
  <2> QED
    BY <1>1, <2>1, LeavesIngest DEF Idle, InsertEvent
<1>3. CASE ~KeyTaken(handler[h].sequence)
  <2>1. handler[h] \in IngestStates /\ handler[h].step = "insert"
    BY HandlerShape DEF IInv, InsertEvent, Ingesting
  <2>2. /\ handler'[h].step = "update"
        /\ handler'[h].sequence = handler[h].sequence
        /\ handler'[h].read = handler[h].read
    BY <1>3, <2>1 DEF InsertEvent, IInv, TypeOK, IngestStates
  <2>3. ReadIsCurrent(h)
    <3>1. /\ handler[h].sequence = handler[h].read.lastSequenceAcked + 1
          /\ handler[h].read.lastSequenceAcked <= row.lastSequenceAcked
      BY <2>1 DEF IInv, GatedSequence, Ingesting
    <3>2. handler[h].sequence \notin 1..row.lastSequenceAcked
      BY <1>3 DEF IInv, EventLogContiguous, KeyTaken
    <3>3. handler[h].read.lastSequenceAcked \in Nat /\ row.lastSequenceAcked \in Nat
      BY <2>1 DEF IInv, TypeOK, RowStates, IngestStates, Snapshot
    <3> QED
      BY <3>1, <3>2, <3>3 DEF ReadIsCurrent
  <2>4. \A g \in Handlers \ {h} : handler[g].step # "update"
    <3> SUFFICES ASSUME NEW g \in Handlers \ {h}, handler[g].step = "update"
                 PROVE  FALSE
      OBVIOUS
    <3>1. handler[g].sequence = handler[h].sequence
      BY <2>1, <2>3 DEF IInv, GatedSequence, InsertedIsNext, Ingesting, ReadIsCurrent
    <3> QED
      BY <3>1 DEF InsertEvent, KeyHeldByOther
  <2>5. UNCHANGED <<row, events>>
    BY DEF InsertEvent
  <2>6. EventLogContiguous' /\ TerminalEventFinalizes'
    BY <2>5 DEF IInv, EventLogContiguous, TerminalEventFinalizes, EndsCommand
  <2>7. GatedSequence' /\ InsertedIsNext' /\ OneInserted'
    BY <1>1, <2>1, <2>2, <2>3, <2>4, <2>5
       DEF IInv, GatedSequence, InsertedIsNext, OneInserted, Ingesting, ReadIsCurrent
  <2>8. EndSeenByRead' /\ TerminalSeenByRead'
    BY <1>1, <2>1, <2>2, <2>5
       DEF IInv, EndSeenByRead, TerminalSeenByRead, EndsCommand, Ingesting, ReadIsCurrent
  <2> QED
    BY <2>6, <2>7, <2>8 DEF IInv
<1> QED
  BY <1>2, <1>3

(* The commit: it adds exactly the next event, and if the history has now  *)
(* ended, either this event's outcome is written or the row was terminal   *)
(* when it was read and still is.                                          *)
LEMMA CommitKeepsIInv ==
  ASSUME IInv, TypeOK', NEW h \in Handlers, CommitEvent(h)
  PROVE  IInv'
<1>1. handler[h] \in IngestStates /\ handler[h].step = "update"
  BY HandlerShape DEF IInv, CommitEvent, Ingesting
<1>2. /\ handler[h].read.lastSequenceAcked = row.lastSequenceAcked
      /\ handler[h].sequence = row.lastSequenceAcked + 1
  BY <1>1 DEF IInv, GatedSequence, InsertedIsNext, Ingesting, ReadIsCurrent
<1>3. row.lastSequenceAcked \in Nat
  BY DEF IInv, TypeOK, RowStates
<1>4. /\ row'.lastSequenceAcked = row.lastSequenceAcked + 1
      /\ events' = events \cup {[sequence |-> row.lastSequenceAcked + 1,
                                 kind |-> handler[h].kind]}
      /\ row'.status = LET status == ResolveCommandUpdate(handler[h].read.status,
                                                          handler[h].kind)
                       IN IF status = Unset THEN row.status ELSE status
  BY <1>2 DEF CommitEvent, EventedRow, IInv, TypeOK, RowStates
<1>5. /\ handler'[h] = Idle
      /\ \A g \in Handlers \ {h} : handler'[g] = handler[g]
  BY DEF CommitEvent, IInv, TypeOK
<1>6. EventLogContiguous'
  <2> DEFINE last == row.lastSequenceAcked
             new  == [sequence |-> last + 1, kind |-> handler[h].kind]
  <2>1. /\ \A e \in events : e.sequence \in 1..last
        /\ \A n \in 1..last : \E e \in events : e.sequence = n
        /\ \A e, f \in events : e.sequence = f.sequence => e = f
    BY DEF IInv, EventLogContiguous
  <2>2. /\ events' = events \cup {new}
        /\ new.sequence = last + 1
        /\ last \in Nat
        /\ row'.lastSequenceAcked = last + 1
    BY <1>3, <1>4
  <2> HIDE DEF new
  <2>3. \A e \in events' : e.sequence \in 1..(last + 1)
    BY <2>1, <2>2
  <2>4. \A n \in 1..(last + 1) : \E e \in events' : e.sequence = n
    <3> SUFFICES ASSUME NEW n \in 1..(last + 1)
                 PROVE  \E e \in events' : e.sequence = n
      OBVIOUS
    <3>1. n \in 1..last \/ n = last + 1
      BY <2>2
    <3> QED
      BY <2>1, <2>2, <3>1
  <2>5. \A e, f \in events' : e.sequence = f.sequence => e = f
    BY <2>1, <2>2
  <2> HIDE DEF last
  <2> QED
    BY <2>2, <2>3, <2>4, <2>5 DEF EventLogContiguous
<1>7. \A g \in Handlers :
        Ingesting(g)' => handler[g].step = "insert" /\ handler'[g] = handler[g]
  BY <1>1, <1>5 DEF IInv, OneInserted, Ingesting, Idle
<1>8. \A g \in Handlers : Ingesting(g)' => ~ReadIsCurrent(g)'
  <2> SUFFICES ASSUME NEW g \in Handlers, Ingesting(g)'
               PROVE  ~ReadIsCurrent(g)'
    OBVIOUS
  <2>1. handler[g].step = "insert" /\ handler'[g] = handler[g]
    BY <1>7
  <2>2. handler[g] \in IngestStates
    BY <2>1, HandlerShape DEF IInv, Ingesting
  <2>3. /\ handler[g].read.lastSequenceAcked \in Nat
        /\ handler[g].read.lastSequenceAcked <= row.lastSequenceAcked
    BY <2>1, <2>2 DEF IInv, GatedSequence, Ingesting, IngestStates, Snapshot
  <2> QED
    BY <1>3, <1>4, <2>1, <2>3 DEF ReadIsCurrent
<1>9. GatedSequence'
  <2> SUFFICES ASSUME NEW g \in Handlers, Ingesting(g)'
               PROVE  /\ handler'[g].sequence = handler'[g].read.lastSequenceAcked + 1
                      /\ handler'[g].read.lastSequenceAcked <= row'.lastSequenceAcked
    BY DEF GatedSequence
  <2>1. handler[g].step = "insert" /\ handler'[g] = handler[g]
    BY <1>7
  <2>2. handler[g] \in IngestStates
    BY <2>1, HandlerShape DEF IInv, Ingesting
  <2>3. /\ handler[g].read.lastSequenceAcked \in Nat
        /\ handler[g].read.lastSequenceAcked <= row.lastSequenceAcked
        /\ handler[g].sequence = handler[g].read.lastSequenceAcked + 1
    BY <2>1, <2>2 DEF IInv, GatedSequence, Ingesting, IngestStates, Snapshot
  <2> QED
    BY <1>3, <1>4, <2>1, <2>3
<1>10. InsertedIsNext' /\ OneInserted' /\ EndSeenByRead' /\ TerminalSeenByRead'
  BY <1>7, <1>8 DEF InsertedIsNext, OneInserted, EndSeenByRead, TerminalSeenByRead, Ingesting
<1>11. TerminalEventFinalizes'
  <2> SUFFICES ASSUME EndsCommand' PROVE IsTerminal(row'.status)
    BY DEF TerminalEventFinalizes
  <2>0. handler[h].kind \in EventKinds /\ handler[h].read.status \in Statuses
    BY <1>1 DEF IngestStates, Snapshot
  <2>1. CASE IsTerminal(handler[h].read.status)
    <3>1. IsTerminal(row.status)
      BY <1>1, <1>2, <2>1 DEF IInv, TerminalSeenByRead, Ingesting, ReadIsCurrent
    <3> QED
      BY <1>4, <2>0, <2>1, <3>1, ResolvedStatus
  <2>2. CASE ~IsTerminal(handler[h].read.status)
    <3>1. ~EndsCommand
      BY <1>1, <1>2, <2>2 DEF IInv, EndSeenByRead, Ingesting, ReadIsCurrent
    <3>2. handler[h].kind \in TerminalKinds
      BY <1>4, <3>1 DEF EndsCommand
    <3> QED
      BY <1>4, <2>0, <2>2, <3>2, ResolvedStatus DEF IsTerminal
  <2> QED
    BY <2>1, <2>2
<1> QED
  BY <1>6, <1>9, <1>10, <1>11 DEF IInv
(* Every step keeps the invariant: one step below per action.              *)
LEMMA StepKeepsIInv ==
  ASSUME IInv, [Next]_vars, TypeOK'
  PROVE  IInv'
<1>1. ASSUME NEW h \in Handlers, NEW accepted \in BOOLEAN, ReadForAck(h, accepted)
      PROVE  IInv'
  <2>1. /\ \A g \in Handlers \ {h} : handler'[g] = handler[g]
        /\ handler'[h].step \notin {"insert", "update"}
    BY <1>1 DEF ReadForAck, IInv, TypeOK, Idle
  <2> QED
    BY <1>1, <2>1, LeavesIngest DEF ReadForAck
<1>2. ASSUME NEW h \in Handlers, WriteAck(h) PROVE IInv'
  <2>1. /\ \A g \in Handlers \ {h} : handler'[g] = handler[g]
        /\ handler'[h].step \notin {"insert", "update"}
    BY <1>2 DEF WriteAck, IInv, TypeOK, Idle
  <2>2. /\ row'.lastSequenceAcked = row.lastSequenceAcked
        /\ IsTerminal(row.status) => row' = row
    BY <1>2 DEF WriteAck, AckApplies, AckedRow, IInv, TypeOK, RowStates, IsTerminal,
                TerminalStatuses
  <2> QED
    BY <1>2, <2>1, <2>2, LeavesIngest DEF WriteAck
<1>3. ASSUME NEW h \in Handlers, NEW sequence \in 1..MaxSequence, NEW kind \in EventKinds,
             ReadForEvent(h, sequence, kind)
      PROVE  IInv'
  BY <1>3, GateKeepsIInv, BoundsAssumption DEF ReadForEvent, Idle
<1>4. ASSUME NEW h \in Handlers, ReadForRejection(h) PROVE IInv'
  <2>1. row.lastSequenceAcked + 1 \in Nat /\ "terminalError" \in EventKinds
    BY DEF IInv, TypeOK, RowStates, EventKinds, TerminalKinds
  <2> QED
    BY <1>4, <2>1, GateKeepsIInv DEF ReadForRejection
<1>5. ASSUME NEW h \in Handlers, InsertEvent(h) PROVE IInv'
  BY <1>5, InsertKeepsIInv
<1>6. ASSUME NEW h \in Handlers, CommitEvent(h) PROVE IInv'
  BY <1>6, CommitKeepsIInv
<1>7. ASSUME NEW h \in Handlers, CrashHandler(h) PROVE IInv'
  <2>1. /\ \A g \in Handlers \ {h} : handler'[g] = handler[g]
        /\ handler'[h].step \notin {"insert", "update"}
    BY <1>7 DEF CrashHandler, IInv, TypeOK, Idle
  <2> QED
    BY <1>7, <2>1, LeavesIngest DEF CrashHandler
<1>8. ASSUME NEW q \in Requeuers, SampleRequeue(q) PROVE IInv'
  BY <1>8, OtherRowWrite DEF SampleRequeue, IngestUnchanged
<1>9. ASSUME NEW q \in Requeuers, WriteRequeue(q) PROVE IInv'
  <2>1. /\ row'.lastSequenceAcked = row.lastSequenceAcked
        /\ IsTerminal(row.status) => row' = row
    BY <1>9 DEF WriteRequeue, RequeuedRow, IInv, TypeOK, RowStates, IsTerminal,
                TerminalStatuses, InFlightStatuses
  <2> QED
    BY <1>9, <2>1, OtherRowWrite DEF WriteRequeue, IngestUnchanged
<1>10. CASE DispatchSettled
  BY <1>10, OtherRowWrite DEF DispatchSettled, IngestUnchanged
<1>11. CASE MarkCommandExpired
  <2>1. /\ row'.lastSequenceAcked = row.lastSequenceAcked
        /\ IsTerminal(row.status) => row' = row
    BY <1>11 DEF MarkCommandExpired, IInv, TypeOK, RowStates
  <2> QED
    BY <1>11, <2>1, OtherRowWrite DEF MarkCommandExpired, IngestUnchanged
<1>12. CASE Tick
  BY <1>12, OtherRowWrite DEF Tick, IngestUnchanged
<1>13. CASE UNCHANGED vars
  BY <1>13, OtherRowWrite DEF vars, IngestUnchanged
<1> QED
  BY <1>1, <1>2, <1>3, <1>4, <1>5, <1>6, <1>7, <1>8, <1>9, <1>10, <1>11, <1>12, <1>13
     DEF Next, HandlerStep

(* The strengthened invariant holds of every reachable state.              *)
THEOREM InductiveInvariant == Spec => []IInv
<1>1. Init => IInv
  <2> SUFFICES ASSUME Init PROVE IInv
    OBVIOUS
  <2>1. TypeOK
    BY DEF Init, TypeOK, RowStates, HandlerStates, Idle, Statuses
  <2> QED
    BY <2>1 DEF Init, IInv, EventLogContiguous, GatedSequence, InsertedIsNext,
                OneInserted, EndSeenByRead, TerminalSeenByRead, TerminalEventFinalizes,
                EndsCommand, Ingesting, Idle
<1>2. IInv /\ TypeOK' /\ [Next]_vars => IInv'
  BY StepKeepsIInv
<1>3. QED
  BY <1>1, <1>2, TypeCorrect, PTL DEF Spec

(* The stored events of a command are numbered 1..lastSequenceAcked        *)
(* without gap or repetition, whatever requests overlap or vanish.         *)
THEOREM LogIsContiguous == Spec => []EventLogContiguous
<1>1. IInv => EventLogContiguous
  BY DEF IInv
<1> QED
  BY <1>1, InductiveInvariant, PTL

(* A stored terminal event always leaves the row terminal.                 *)
THEOREM TerminalEventIsNeverLost == Spec => []TerminalEventFinalizes
<1>1. IInv => TerminalEventFinalizes
  BY DEF IInv
<1> QED
  BY <1>1, InductiveInvariant, PTL

(* After a stored terminal event nothing changes the outcome.              *)
THEOREM OutcomeIsFinal == Spec => FinalizedStaysFinal
<1>1. IInv /\ [Next]_vars => [EndsCommand => row'.status = row.status]_vars
  <2> SUFFICES ASSUME IInv, Next, EndsCommand PROVE row'.status = row.status
    OBVIOUS
  <2>0. IsTerminal(row.status) /\ row \in RowStates
    BY DEF IInv, TerminalEventFinalizes, TypeOK
  <2>1. ASSUME NEW h \in Handlers, WriteAck(h) PROVE row'.status = row.status
    BY <2>0, <2>1 DEF WriteAck, AckApplies, IsTerminal, TerminalStatuses
  <2>2. ASSUME NEW h \in Handlers, CommitEvent(h) PROVE row'.status = row.status
    <3>1. handler[h] \in IngestStates /\ handler[h].step = "update"
      BY <2>2, HandlerShape DEF IInv, CommitEvent, Ingesting
    <3>2. IsTerminal(handler[h].read.status)
      BY <3>1 DEF IInv, InsertedIsNext, EndSeenByRead, Ingesting
    <3>3. ResolveCommandUpdate(handler[h].read.status, handler[h].kind) = Unset
      BY <3>1, <3>2, ResolvedStatus DEF IngestStates, Snapshot
    <3> QED
      BY <2>0, <2>2, <3>3 DEF CommitEvent, EventedRow, RowStates
  <2>3. ASSUME NEW q \in Requeuers, WriteRequeue(q) PROVE row'.status = row.status
    BY <2>0, <2>3 DEF WriteRequeue, RequeuedRow, IsTerminal, TerminalStatuses,
                      InFlightStatuses
  <2>4. CASE MarkCommandExpired
    BY <2>0, <2>4 DEF MarkCommandExpired
  <2>5. CASE UNCHANGED row
    BY <2>5
  <2> QED
    BY <2>1, <2>2, <2>3, <2>4, <2>5
       DEF Next, HandlerStep, ReadForAck, ReadForEvent, ReadForRejection, InsertEvent,
           CrashHandler, SampleRequeue, DispatchSettled, Tick
<1> QED
  BY <1>1, InductiveInvariant, PTL DEF Spec, FinalizedStaysFinal

(* The transition writes done or cancelled only for the event of that      *)
(* kind, and never writes accepted.                                        *)
LEMMA ResolutionNamesItsKind ==
  ASSUME NEW status \in Statuses, NEW kind \in EventKinds
  PROVE  /\ ResolveCommandUpdate(status, kind) # "accepted"
         /\ \A outcome \in {"done", "cancelled"} :
              ResolveCommandUpdate(status, kind) = outcome => kind = outcome
<1>0. Unset # "accepted" /\ Unset # "done" /\ Unset # "cancelled"
  BY UnsetAssumption DEF Statuses, InFlightStatuses, TerminalStatuses
<1>1. CASE IsTerminal(status)
  BY <1>0, <1>1, ResolvedStatus
<1>2. CASE ~IsTerminal(status) /\ kind = "done"
  BY <1>2 DEF ResolveCommandUpdate
<1>3. CASE ~IsTerminal(status) /\ kind = "cancelled"
  BY <1>3 DEF ResolveCommandUpdate
<1>4. CASE ~IsTerminal(status) /\ kind = "terminalError"
  BY <1>4 DEF ResolveCommandUpdate
<1>5. CASE ~IsTerminal(status) /\ kind = "progress"
  <2>1. ResolveCommandUpdate(status, kind) \in {"running", Unset}
    BY <1>5 DEF ResolveCommandUpdate
  <2> QED
    BY <1>0, <2>1
<1> QED
  BY <1>1, <1>2, <1>3, <1>4, <1>5 DEF EventKinds, TerminalKinds

(* A row says done or cancelled only with the event that said so.          *)
THEOREM OutcomeIsBacked == Spec => []OutcomeHasItsEvent
<1>1. Init => OutcomeHasItsEvent
  BY DEF Init, OutcomeHasItsEvent
<1>2. TypeOK /\ OutcomeHasItsEvent /\ [Next]_vars => OutcomeHasItsEvent'
  <2> SUFFICES ASSUME TypeOK, OutcomeHasItsEvent, [Next]_vars,
                      NEW outcome \in {"done", "cancelled"}, row'.status = outcome
               PROVE  \E e \in events' : e.kind = outcome
    BY DEF OutcomeHasItsEvent
  <2>0. row \in RowStates
    BY DEF TypeOK
  <2>1. ASSUME NEW h \in Handlers, WriteAck(h) PROVE row.status = outcome /\ events' = events
    BY <2>0, <2>1 DEF WriteAck, AckedRow, RowStates
  <2>2. ASSUME NEW h \in Handlers, CommitEvent(h) PROVE \E e \in events' : e.kind = outcome
    <3>1. handler[h] \in IngestStates
      BY <2>2, HandlerShape DEF CommitEvent, Ingesting
    <3>2. events' = events \cup {[sequence |-> handler[h].sequence, kind |-> handler[h].kind]}
      BY <2>2 DEF CommitEvent
    <3>3. CASE row.status = outcome
      BY <3>2, <3>3 DEF OutcomeHasItsEvent
    <3>4. CASE row.status # outcome
      <4>1. ResolveCommandUpdate(handler[h].read.status, handler[h].kind) = outcome
        BY <2>0, <2>2, <3>4 DEF CommitEvent, EventedRow, RowStates
      <4>2. handler[h].kind = outcome
        BY <3>1, <4>1, ResolutionNamesItsKind DEF IngestStates, Snapshot
      <4> DEFINE stored == [sequence |-> handler[h].sequence, kind |-> handler[h].kind]
      <4>3. stored.kind = outcome /\ stored \in events'
        BY <3>2, <4>2
      <4> QED
        BY <4>3
    <3> QED
      BY <3>3, <3>4
  <2>3. ASSUME NEW q \in Requeuers, WriteRequeue(q) PROVE row.status = outcome /\ events' = events
    BY <2>0, <2>3 DEF WriteRequeue, RequeuedRow, RowStates
  <2>4. CASE MarkCommandExpired
    BY <2>0, <2>4 DEF MarkCommandExpired, RowStates, OutcomeHasItsEvent
  <2>5. CASE UNCHANGED <<row, events>>
    BY <2>5 DEF OutcomeHasItsEvent
  <2> QED
    BY <2>1, <2>2, <2>3, <2>4, <2>5
       DEF Next, HandlerStep, ReadForAck, ReadForEvent, ReadForRejection, InsertEvent,
           CrashHandler, SampleRequeue, DispatchSettled, Tick, vars, OutcomeHasItsEvent
<1> QED
  BY <1>1, <1>2, TypeCorrect, PTL DEF Spec

(* No ack takes a running command back to accepted.                        *)
THEOREM AckDoesNotRegress == Spec => AckNeverRegresses
<1>1. TypeOK /\ [Next]_vars => [~(row.status = "running" /\ row'.status = "accepted")]_vars
  <2> SUFFICES ASSUME TypeOK, Next, row.status = "running", row'.status = "accepted"
               PROVE  FALSE
    OBVIOUS
  <2>0. row \in RowStates
    BY DEF TypeOK
  <2>1. ASSUME NEW h \in Handlers, WriteAck(h) PROVE FALSE
    BY <2>0, <2>1 DEF WriteAck, AckApplies, AckedRow, RowStates
  <2>2. ASSUME NEW h \in Handlers, CommitEvent(h) PROVE FALSE
    <3>1. handler[h] \in IngestStates
      BY <2>2, HandlerShape DEF CommitEvent, Ingesting
    <3>2. ResolveCommandUpdate(handler[h].read.status, handler[h].kind) = "accepted"
      BY <2>0, <2>2 DEF CommitEvent, EventedRow, RowStates
    <3> QED
      BY <3>1, <3>2, ResolutionNamesItsKind DEF IngestStates, Snapshot
  <2>3. ASSUME NEW q \in Requeuers, WriteRequeue(q) PROVE FALSE
    BY <2>0, <2>3 DEF WriteRequeue, RequeuedRow, RowStates
  <2>4. CASE MarkCommandExpired
    BY <2>0, <2>4 DEF MarkCommandExpired, RowStates
  <2>5. CASE UNCHANGED row
    BY <2>5
  <2> QED
    BY <2>1, <2>2, <2>3, <2>4, <2>5
       DEF Next, HandlerStep, ReadForAck, ReadForEvent, ReadForRejection, InsertEvent,
           CrashHandler, SampleRequeue, DispatchSettled, Tick
<1> QED
  BY <1>1, TypeCorrect, PTL DEF Spec, AckNeverRegresses

(***************************************************************************)
(* The answer stamp.  Requeues may move the queue entry of a row forward   *)
(* and back; no request has read, and no stamp names, an entry later than  *)
(* the latest there has been.                                              *)
(***************************************************************************)
Reading(h) == handler[h].step \in {"ackWrite", "insert", "update"}

ReadsNotAhead == \A h \in Handlers : Reading(h) => handler[h].read.queuedAt <= latest

StampIsAnAnswer ==
  row.ackedAt # Unset => row.ackedAt \in answered /\ row.ackedAt <= latest

StampInv ==
  /\ TypeOK
  /\ row.queuedAt <= latest
  /\ ReadsNotAhead
  /\ StampIsAnAnswer

(* A request that moves on with what it has read, or reads the row now, or *)
(* ends, keeps the stamp invariant while the row is left alone.            *)
LEMMA HandlerMoveKeepsStampInv ==
  ASSUME StampInv, TypeOK', NEW h \in Handlers,
         UNCHANGED <<row, answered, latest>>,
         \A other \in Handlers \ {h} : handler'[other] = handler[other],
         Reading(h)' => \/ handler'[h].read.queuedAt = row.queuedAt
                        \/ Reading(h) /\ handler'[h].read = handler[h].read
  PROVE  StampInv'
<1>1. row.queuedAt \in Nat
  BY DEF StampInv, TypeOK, RowStates
<1>2. ReadsNotAhead'
  <2> SUFFICES ASSUME NEW other \in Handlers, Reading(other)'
               PROVE  handler'[other].read.queuedAt <= latest
    BY DEF ReadsNotAhead
  <2>1. CASE other = h
    BY <2>1, <1>1 DEF StampInv, ReadsNotAhead
  <2>2. CASE other # h
    BY <2>2 DEF StampInv, ReadsNotAhead, Reading
  <2> QED
    BY <2>1, <2>2
<1> QED
  BY <1>2 DEF StampInv, StampIsAnAnswer

(* A request that writes the entry it read as the stamp keeps it.          *)
LEMMA StampKeepsStampInv ==
  ASSUME StampInv, TypeOK', NEW h \in Handlers, Reading(h),
         row'.queuedAt = row.queuedAt,
         row'.ackedAt = handler[h].read.queuedAt,
         answered' = answered \cup {handler[h].read.queuedAt},
         \A other \in Handlers \ {h} : handler'[other] = handler[other],
         ~Reading(h)',
         UNCHANGED latest
  PROVE  StampInv'
<1>1. ReadsNotAhead'
  BY DEF StampInv, ReadsNotAhead, Reading
<1> QED
  BY <1>1 DEF StampInv, StampIsAnAnswer, ReadsNotAhead

(* Every step keeps the stamp invariant, whatever requeues are under way.  *)
LEMMA StepKeepsStampInv == StampInv /\ TypeOK' /\ [Next]_vars => StampInv'
<1> SUFFICES ASSUME StampInv, TypeOK', [Next]_vars
             PROVE  StampInv'
  OBVIOUS
<1>0. TypeOK /\ row \in RowStates /\ clock \in Nat
  BY DEF StampInv, TypeOK
<1>1. ASSUME NEW h \in Handlers, NEW accepted \in BOOLEAN, ReadForAck(h, accepted)
      PROVE  StampInv'
  <2>1. /\ UNCHANGED <<row, answered, latest>>
        /\ \A other \in Handlers \ {h} : handler'[other] = handler[other]
    BY <1>1, <1>0 DEF ReadForAck, TypeOK
  <2>2. Reading(h)' => handler'[h].read.queuedAt = row.queuedAt
    <3>1. CASE ~IsTerminal(row.status)
      BY <1>1, <1>0, <3>1 DEF ReadForAck, SnapshotOf, TypeOK
    <3>2. CASE IsTerminal(row.status)
      BY <1>1, <1>0, <3>2 DEF ReadForAck, TypeOK, Reading, Idle
    <3> QED
      BY <3>1, <3>2
  <2> QED
    BY <2>1, <2>2, HandlerMoveKeepsStampInv
<1>2. ASSUME NEW h \in Handlers, WriteAck(h)
      PROVE  StampInv'
  <2>1. /\ UNCHANGED latest
        /\ \A other \in Handlers \ {h} : handler'[other] = handler[other]
        /\ Reading(h) /\ ~Reading(h)'
    BY <1>2, <1>0 DEF WriteAck, TypeOK, Reading, Idle
  <2>2. CASE AckApplies(row, handler[h].read, handler[h].accepted)
    <3>1. /\ row'.queuedAt = row.queuedAt
          /\ row'.ackedAt = handler[h].read.queuedAt
          /\ answered' = answered \cup {handler[h].read.queuedAt}
      BY <1>2, <1>0, <2>2 DEF WriteAck, AckedRow, RowStates
    <3> QED
      BY <2>1, <3>1, StampKeepsStampInv
  <2>3. CASE ~AckApplies(row, handler[h].read, handler[h].accepted)
    <3>1. UNCHANGED <<row, answered>>
      BY <1>2, <2>3 DEF WriteAck
    <3> QED
      BY <2>1, <3>1, HandlerMoveKeepsStampInv
  <2> QED
    BY <2>2, <2>3
<1>3. ASSUME NEW h \in Handlers, NEW sequence, NEW kind, GateEvent(h, sequence, kind),
             UNCHANGED <<row, events, requeuer, dispatch, answered, latest, clock>>
      PROVE  StampInv'
  <2>1. \A other \in Handlers \ {h} : handler'[other] = handler[other]
    BY <1>3, <1>0 DEF GateEvent, TypeOK
  <2>2. Reading(h)' => handler'[h].read.queuedAt = row.queuedAt
    BY <1>3, <1>0 DEF GateEvent, SnapshotOf, TypeOK, Reading, Idle
  <2> QED
    BY <1>3, <2>1, <2>2, HandlerMoveKeepsStampInv
<1>4. ASSUME NEW h \in Handlers, InsertEvent(h) \/ CrashHandler(h)
      PROVE  StampInv'
  <2>1. /\ UNCHANGED <<row, answered, latest>>
        /\ \A other \in Handlers \ {h} : handler'[other] = handler[other]
    BY <1>4, <1>0 DEF InsertEvent, CrashHandler, TypeOK
  <2>2. Reading(h)' => Reading(h) /\ handler'[h].read = handler[h].read
    <3>1. CASE handler'[h] = Idle
      BY <3>1 DEF Reading, Idle
    <3>2. CASE handler'[h] # Idle
      <4>1. handler[h].step = "insert" /\ handler'[h] = [handler[h] EXCEPT !.step = "update"]
        BY <1>4, <1>0, <3>2 DEF InsertEvent, CrashHandler, TypeOK
      <4>2. handler[h] \in IngestStates
        BY <4>1, <1>0, HandlerShape DEF Ingesting
      <4> QED
        BY <4>1, <4>2 DEF Reading, IngestStates
    <3> QED
      BY <3>1, <3>2
  <2> QED
    BY <2>1, <2>2, HandlerMoveKeepsStampInv
<1>5. ASSUME NEW h \in Handlers, CommitEvent(h)
      PROVE  StampInv'
  <2>1. /\ UNCHANGED latest
        /\ \A other \in Handlers \ {h} : handler'[other] = handler[other]
        /\ Reading(h) /\ ~Reading(h)'
    BY <1>5, <1>0 DEF CommitEvent, TypeOK, Reading, Idle
  <2>2. /\ row'.queuedAt = row.queuedAt
        /\ row'.ackedAt = handler[h].read.queuedAt
        /\ answered' = answered \cup {handler[h].read.queuedAt}
    BY <1>5, <1>0 DEF CommitEvent, EventedRow, RowStates
  <2> QED
    BY <2>1, <2>2, StampKeepsStampInv
<1>6. ASSUME NEW q \in Requeuers, SampleRequeue(q)
      PROVE  StampInv'
  BY <1>6 DEF SampleRequeue, StampInv, ReadsNotAhead, Reading, StampIsAnAnswer
<1>7. ASSUME NEW q \in Requeuers, WriteRequeue(q)
      PROVE  StampInv'
  <2>1. /\ UNCHANGED <<handler, answered>>
        /\ row'.ackedAt = row.ackedAt
        /\ latest' = IF row'.queuedAt > latest THEN row'.queuedAt ELSE latest
    BY <1>7, <1>0 DEF WriteRequeue, RequeuedRow, RowStates
  <2>2. row'.queuedAt \in Nat /\ latest \in Nat
    BY <1>0 DEF StampInv, TypeOK, RowStates
  <2>3. row'.queuedAt <= latest' /\ latest <= latest' /\ latest' \in Nat
    BY <2>1, <2>2
  <2>4. ReadsNotAhead'
    <3> SUFFICES ASSUME NEW h \in Handlers, Reading(h)
                 PROVE  handler[h].read.queuedAt <= latest'
      BY <2>1 DEF ReadsNotAhead, Reading
    <3>1. handler[h].read.queuedAt \in Nat
      BY <1>0, HandlerShape DEF Reading, Ingesting, AckStates, IngestStates, Snapshot
    <3> QED
      BY <2>2, <2>3, <3>1 DEF StampInv, ReadsNotAhead
  <2>5. StampIsAnAnswer'
    BY <2>1, <2>2, <2>3, <1>0 DEF StampInv, StampIsAnAnswer, RowStates
  <2> QED
    BY <2>3, <2>4, <2>5 DEF StampInv
<1>8. ASSUME DispatchSettled \/ MarkCommandExpired
      PROVE  StampInv'
  <2>1. /\ UNCHANGED <<handler, answered, latest>>
        /\ row'.queuedAt = row.queuedAt /\ row'.ackedAt = row.ackedAt
    BY <1>8, <1>0 DEF DispatchSettled, MarkCommandExpired, RowStates
  <2> QED
    BY <2>1 DEF StampInv, ReadsNotAhead, Reading, StampIsAnAnswer
<1>9. CASE Tick
  BY <1>9 DEF Tick, StampInv, ReadsNotAhead, Reading, StampIsAnAnswer
<1>10. CASE UNCHANGED vars
  BY <1>10 DEF vars, StampInv, ReadsNotAhead, Reading, StampIsAnAnswer
<1> QED
  BY <1>1, <1>2, <1>3, <1>4, <1>5, <1>6, <1>7, <1>8, <1>9, <1>10
     DEF Next, HandlerStep, ReadForEvent, ReadForRejection

(* An answer recorded only against an earlier queue entry shows as one,    *)
(* however many reconnects requeue the command and however acks, events    *)
(* and requeues interleave, whenever the current entry is the latest.      *)
THEOREM EarlierAnswerStaysVisible == Spec => []EarlierAnswerIsVisible
<1>1. Init => StampInv
  <2> SUFFICES ASSUME Init PROVE StampInv
    OBVIOUS
  <2>1. TypeOK
    BY DEF Init, TypeOK, RowStates, HandlerStates, Idle, Statuses
  <2> QED
    BY <2>1 DEF Init, StampInv, ReadsNotAhead, Reading, StampIsAnAnswer, Idle
<1>2. StampInv /\ TypeOK' /\ [Next]_vars => StampInv'
  BY StepKeepsStampInv
<1>3. StampInv => EarlierAnswerIsVisible
  BY UnsetAssumption DEF StampInv, StampIsAnAnswer, EarlierAnswerIsVisible, EntryIsLatest,
     WasAnsweredOnEarlierDelivery, TypeOK, RowStates
<1> QED
  BY <1>1, <1>2, <1>3, TypeCorrect, PTL DEF Spec

(***************************************************************************)
(* IdempotentCreate: what requests are told of their commands holds, and a *)
(* conflict is one.                                                        *)
(***************************************************************************)

Steps == {"begin", "byKey", "insert", "recover", "dispatch", "expire", "answered"}
Conflicts == {"keyConflict", "idConflict"}

TypeInv ==
  /\ input \in [Requests -> [at: Instances, key: Keys \cup {NoKey},
                  payload: Payloads, commandId: ClientIds \cup {NoId}]]
  /\ step \in [Requests -> Steps]
  /\ command \in [Requests -> Ids \cup {NoId}]
  /\ answer \in [Requests -> {"open", "created", "expired"} \cup Conflicts]
  /\ inserted \in SUBSET Requests
  /\ cache \in [Instances -> [Keys -> Entries \cup {Nothing}]]
  /\ rows \in [Ids -> Rows \cup {Nothing}]
  /\ handed \in SUBSET Ids
  /\ event \in [Ids -> CreateStatuses \cup {Nothing}]

(***************************************************************************)
(* The table, the caches, and what each request has been through.          *)
(***************************************************************************)

(* A key has one row, each row has its inserter, only a row is handed, and *)
(* only what was handed has events.                                        *)
TableInv ==
  /\ \A id \in Stored : rows[id].fingerprint.key = rows[id].key
  /\ \A a, b \in Stored : rows[a].key = rows[b].key /\ rows[a].key # NoKey => a = b
  /\ \A id \in Stored : \E s \in inserted : command[s] = id
  /\ \A r, s \in inserted : command[r] = command[s] => r = s
  /\ handed \subseteq Stored
  /\ \A id \in Ids : event[id] # Nothing => id \in handed

(* What the answer "expired" promises of its command. *)
OverOrHanded(id) == IsOver(id) \/ id \in handed

(* What a cache holds under a key is that key's row.                       *)
CacheInv ==
  \A i \in Instances, k \in Keys : cache[i][k] # Nothing =>
    /\ cache[i][k].commandId \in Stored
    /\ rows[cache[i][k].commandId].key = k
    /\ rows[cache[i][k].commandId].fingerprint = cache[i][k].fingerprint

(* The row is the one request r asks for.                                  *)
Names(r, id) ==
  /\ id \in Stored
  /\ rows[id].key = Key(r)
  /\ rows[id].fingerprint = Fingerprint(r)

(* The id that r brings is another request's.                              *)
IdTaken(r) == \E s \in inserted \ {r} : Signed(r) /\ command[s] = input[r].commandId

(* The key of r names another command.                                     *)
KeyNamesAnother(r) == \E id \in UnderKey(r) : rows[id].fingerprint.payload # input[r].payload

RequestOk(r) ==
  /\ step[r] \in {"begin", "byKey", "insert", "recover"} =>
       command[r] = NoId /\ answer[r] = "open" /\ r \notin inserted
  /\ step[r] \in {"byKey", "recover"} => Keyed(r)
  /\ step[r] = "recover" => UnderKey(r) # {} \/ IdTaken(r)
  /\ step[r] \in {"dispatch", "expire"} => command[r] # NoId /\ answer[r] = "open"
  /\ answer[r] \in {"created", "expired"} => command[r] # NoId
  /\ answer[r] = "expired" => OverOrHanded(command[r])
  /\ answer[r] \in Conflicts => KeyNamesAnother(r) \/ IdTaken(r)
  /\ command[r] # NoId => Names(r, command[r]) /\ (Keyed(r) \/ r \in inserted)
  /\ r \in inserted => command[r] = IdOf(r)

CreateIInv ==
  /\ TypeInv
  /\ TableInv
  /\ CacheInv
  /\ \A r \in Requests : RequestOk(r)

(***************************************************************************)
(* Ids and fingerprints                                                    *)
(***************************************************************************)

(* Ids meet only when a client's id is brought again.                      *)
LEMMA IdsOfRequests ==
  ASSUME TypeInv, NEW r \in Requests
  PROVE  /\ IdOf(r) \in Ids /\ IdOf(r) # NoId
         /\ Key(r) \in Keys \cup {NoKey} /\ input[r].at \in Instances
         /\ Fingerprint(r) \in Fingerprints
         /\ Signed(r) => IdOf(r) = input[r].commandId
         /\ \A s \in Requests : IdOf(s) = IdOf(r) /\ s # r => Signed(r)
<1>1. /\ input[r].at \in Instances /\ input[r].key \in Keys \cup {NoKey}
      /\ input[r].payload \in Payloads /\ input[r].commandId \in ClientIds \cup {NoId}
  BY DEF TypeInv
<1>2. \A s \in Requests : Signed(s) => input[s].commandId \in ClientIds
  BY DEF TypeInv, Signed
<1>3. \A s \in Requests : IdOf(s) = IF Signed(s) THEN input[s].commandId ELSE s
  BY DEF IdOf
<1>4. IdOf(r) \in Ids /\ IdOf(r) # NoId
  BY <1>2, <1>3, CreateAssumption DEF Ids
<1>5. ASSUME NEW s \in Requests, IdOf(s) = IdOf(r), s # r PROVE Signed(r)
  BY <1>2, <1>3, <1>5, CreateAssumption
<1> QED
  BY <1>1, <1>3, <1>4, <1>5 DEF Key, Fingerprint, Fingerprints

(* Under one key, fingerprints differ in what is persisted.                *)
LEMMA FingerprintsDiffer ==
  ASSUME TypeInv, NEW r \in Requests, NEW fingerprint \in Fingerprints,
         fingerprint.key = Key(r), fingerprint # Fingerprint(r)
  PROVE  fingerprint.payload # input[r].payload
BY DEF Fingerprints, Fingerprint

(* A stored row is a row, a cached entry an entry.                         *)
LEMMA StoredIsRow ==
  ASSUME TypeInv
  PROVE  /\ \A id \in Stored :
              /\ id \in Ids /\ rows[id] \in Rows
              /\ rows[id].key \in Keys \cup {NoKey}
              /\ rows[id].fingerprint \in Fingerprints
              /\ rows[id].status \in CreateStatuses
         /\ \A i \in Instances, k \in Keys : cache[i][k] # Nothing =>
              /\ cache[i][k] \in Entries
              /\ cache[i][k].commandId \in Ids
              /\ cache[i][k].fingerprint \in Fingerprints
<1>1. \A id \in Stored : id \in Ids /\ rows[id] \in Rows
  BY DEF TypeInv, Stored
<1>2. \A i \in Instances, k \in Keys : cache[i][k] # Nothing => cache[i][k] \in Entries
  BY DEF TypeInv
<1> QED
  BY <1>1, <1>2 DEF Rows, Entries, CreateStatuses

(***************************************************************************)
(* What every step leaves of what was there                                *)
(***************************************************************************)

(* Rows keep their key and fingerprint, what is over or handed stays one of *)
(* these, and an inserter keeps its command.                               *)
Lasting ==
  /\ input' = input
  /\ \A id \in Stored :
       /\ id \in Stored'
       /\ rows'[id].key = rows[id].key
       /\ rows'[id].fingerprint = rows[id].fingerprint
       /\ OverOrHanded(id) => OverOrHanded(id)'
  /\ inserted \subseteq inserted'
  /\ \A s \in inserted : command'[s] = command[s]

(* A request that takes no part in a step stays as it was told.            *)
LEMMA OthersStayOk ==
  ASSUME CreateIInv, Lasting, NEW r \in Requests,
         step'[r] = step[r], command'[r] = command[r], answer'[r] = answer[r],
         r \in inserted' => r \in inserted
  PROVE  RequestOk(r)'
<1>1. RequestOk(r)
  BY DEF CreateIInv
<1>2. /\ Key(r)' = Key(r) /\ Signed(r)' = Signed(r) /\ IdOf(r)' = IdOf(r)
      /\ Keyed(r)' = Keyed(r) /\ Fingerprint(r)' = Fingerprint(r)
      /\ input' = input
  BY DEF Lasting, Key, Keyed, Signed, IdOf, Fingerprint
<1>3. \A id : id \in UnderKey(r) =>
        id \in UnderKey(r)' /\ rows'[id].fingerprint = rows[id].fingerprint
  BY <1>2 DEF Lasting, UnderKey
<1>4. IdTaken(r) => IdTaken(r)'
  BY <1>2 DEF IdTaken, Lasting
<1>5. KeyNamesAnother(r) => KeyNamesAnother(r)'
  BY <1>2, <1>3 DEF KeyNamesAnother
<1>6. \A id : Names(r, id) => Names(r, id)'
  BY <1>2 DEF Names, Lasting
<1>7. \A id \in Stored : OverOrHanded(id) => OverOrHanded(id)'
  BY DEF Lasting
<1>8. r \in inserted' <=> r \in inserted
  BY DEF Lasting
<1>9. command[r] # NoId => command[r] \in Stored
  BY <1>1 DEF RequestOk, Names
<1> QED
  BY <1>1, <1>2, <1>3, <1>4, <1>5, <1>6, <1>7, <1>8, <1>9 DEF RequestOk

(* A step that changes no row, cache or inserter keeps the table.          *)
LEMMA SameTable ==
  ASSUME CreateIInv, Lasting, UNCHANGED <<rows, inserted, event>>,
         handed \subseteq handed', handed' \subseteq Stored
  PROVE  TableInv'
<1>1. Stored' = Stored
  BY DEF Stored
<1> QED
  BY <1>1 DEF CreateIInv, TableInv, Lasting

(* Caches stay true while the rows last.                                   *)
LEMMA SameCache ==
  ASSUME CreateIInv, Lasting,
         \A i \in Instances, k \in Keys :
            cache'[i][k] # Nothing => cache'[i][k] = cache[i][k]
  PROVE  CacheInv'
BY DEF CreateIInv, CacheInv, Lasting

(***************************************************************************)
(* Each action keeps the invariant                                         *)
(***************************************************************************)

(* When only r has moved and rows last, the others are still as told.      *)
LEMMA OnlyOneMoves ==
  ASSUME CreateIInv, Lasting, NEW r \in Requests, TypeInv', TableInv', CacheInv', RequestOk(r)',
         \A s \in Requests \ {r} :
           /\ step'[s] = step[s] /\ command'[s] = command[s] /\ answer'[s] = answer[s]
           /\ s \in inserted' => s \in inserted
  PROVE  CreateIInv'
<1>1. \A s \in Requests \ {r} : RequestOk(s)'
  BY OthersStayOk
<1> QED
  BY <1>1 DEF CreateIInv

(* A request that was given an earlier command is told of the one it asks. *)
LEMMA GotCommand ==
  ASSUME NEW r \in Requests, NEW id, Names(r, id)', Keyed(r)', id # NoId, r \notin inserted',
         step'[r] = "dispatch", answer'[r] = "open", command'[r] = id
  PROVE  RequestOk(r)'
BY DEF RequestOk, Conflicts

(* The early steps of a request, before it has a command.                  *)
LEMMA BeginKeeps ==
  ASSUME CreateIInv, NEW r \in Requests, Begin(r)
  PROVE  CreateIInv'
<1> DEFINE cached == IF Keyed(r) THEN cache[input[r].at][Key(r)] ELSE Nothing
<1>0. /\ TypeInv /\ RequestOk(r) /\ step[r] = "begin"
      /\ UNCHANGED <<input, inserted, cache, rows, handed, event>>
      /\ command[r] = NoId /\ answer[r] = "open" /\ r \notin inserted
  BY DEF CreateIInv, Begin, RequestOk
<1>1. cached # Nothing =>
        /\ Keyed(r) /\ cached.commandId \in Stored /\ cached.commandId \in Ids
        /\ cached.commandId # NoId
        /\ rows[cached.commandId].key = Key(r)
        /\ rows[cached.commandId].fingerprint = cached.fingerprint
        /\ cached.fingerprint \in Fingerprints
        /\ cached.fingerprint.key = Key(r)
  <2>1. SUFFICES ASSUME cached # Nothing
                 PROVE  /\ Keyed(r) /\ cached.commandId \in Stored /\ cached.commandId \in Ids
                        /\ cached.commandId # NoId
                        /\ rows[cached.commandId].key = Key(r)
                        /\ rows[cached.commandId].fingerprint = cached.fingerprint
                        /\ cached.fingerprint \in Fingerprints
                        /\ cached.fingerprint.key = Key(r)
    OBVIOUS
  <2>2. Keyed(r) /\ Key(r) \in Keys /\ input[r].at \in Instances
    BY <1>0, <2>1, IdsOfRequests DEF Keyed
  <2>3. /\ cached.commandId \in Stored
        /\ rows[cached.commandId].key = Key(r)
        /\ rows[cached.commandId].fingerprint = cached.fingerprint
    BY <2>1, <2>2 DEF CreateIInv, CacheInv
  <2>4. cached.commandId \in Ids /\ cached.fingerprint \in Fingerprints
    BY <1>0, <2>1, <2>2, StoredIsRow
  <2>5. cached.fingerprint.key = Key(r)
    BY <2>3 DEF CreateIInv, TableInv
  <2> QED
    BY <2>2, <2>3, <2>4, <2>5, CreateAssumption
<1>2. /\ answer' \in {answer, [answer EXCEPT ![r] = "keyConflict"]}
      /\ command' = command
         \/ (cached # Nothing /\ command' = [command EXCEPT ![r] = cached.commandId])
      /\ \E to \in {"insert", "byKey", "answered", "dispatch"} : step' = [step EXCEPT ![r] = to]
  BY DEF Begin, Go, Answer
<1>3. TypeInv'
  <2>1. command' \in [Requests -> Ids \cup {NoId}]
    BY <1>0, <1>1, <1>2 DEF TypeInv
  <2>2. answer' \in [Requests -> {"open", "created", "expired"} \cup Conflicts]
    BY <1>0, <1>2 DEF TypeInv, Conflicts
  <2>3. step' \in [Requests -> Steps]
    BY <1>0, <1>2 DEF TypeInv, Steps
  <2> QED
    BY <1>0, <2>1, <2>2, <2>3 DEF TypeInv
<1>4. Lasting
  BY <1>0, <1>2 DEF Lasting, Stored, IsOver, OverOrHanded, TypeInv
<1>5. TableInv' /\ CacheInv'
  BY <1>0, <1>4, SameTable, SameCache DEF CreateIInv, TableInv
<1>6. \A s \in Requests \ {r} :
        /\ step'[s] = step[s] /\ command'[s] = command[s] /\ answer'[s] = answer[s]
        /\ s \in inserted' => s \in inserted
  BY <1>0, <1>2 DEF TypeInv
<1>7. /\ Key(r)' = Key(r) /\ Keyed(r)' = Keyed(r) /\ Fingerprint(r)' = Fingerprint(r)
      /\ Stored' = Stored /\ rows' = rows /\ input' = input /\ UnderKey(r)' = UnderKey(r)
  BY <1>0 DEF Key, Keyed, Fingerprint, Stored, UnderKey
<1>8. RequestOk(r)'
  <2>0. r \notin inserted'
    BY <1>0
  <2>1. CASE Go(r, "insert") /\ UNCHANGED <<command, answer>>
    BY <1>0, <2>0, <2>1 DEF Go, RequestOk, TypeInv, Conflicts
  <2>2. CASE Keyed(r) /\ Go(r, "byKey") /\ UNCHANGED <<command, answer>>
    BY <1>0, <1>7, <2>0, <2>2 DEF Go, RequestOk, TypeInv, Conflicts
  <2>3. CASE /\ cached # Nothing /\ cached.fingerprint # Fingerprint(r)
             /\ Answer(r, "keyConflict") /\ UNCHANGED command
    <3>1. cached.commandId \in UnderKey(r)
          /\ rows[cached.commandId].fingerprint.payload # input[r].payload
      BY <1>0, <1>1, <2>3, FingerprintsDiffer DEF UnderKey
    <3>2. KeyNamesAnother(r)'
      BY <1>7, <3>1 DEF KeyNamesAnother
    <3>3. step'[r] = "answered" /\ answer'[r] = "keyConflict" /\ command'[r] = NoId
      BY <1>0, <2>3 DEF Answer, Go, TypeInv
    <3> QED
      BY <2>0, <3>2, <3>3 DEF RequestOk
  <2>4. CASE /\ cached # Nothing /\ cached.fingerprint = Fingerprint(r)
             /\ command' = [command EXCEPT ![r] = cached.commandId]
             /\ Go(r, "dispatch") /\ UNCHANGED answer
    <3>1. step'[r] = "dispatch" /\ answer'[r] = "open" /\ command'[r] = cached.commandId
      BY <1>0, <2>4 DEF Go, TypeInv
    <3>2. PICK id : id = cached.commandId
      OBVIOUS
    <3>3. Names(r, id) /\ Keyed(r) /\ id # NoId
      BY <1>1, <2>4, <3>2 DEF Names
    <3>4. Names(r, id)' /\ Keyed(r)'
      BY <1>7, <3>3 DEF Names
    <3> QED
      BY <2>0, <3>1, <3>2, <3>3, <3>4, GotCommand
  <2> QED
    BY <2>1, <2>2, <2>3, <2>4 DEF Begin
<1> QED
  BY <1>3, <1>4, <1>5, <1>6, <1>8, OnlyOneMoves

(* The command found under the key is the one asked for, or a conflict.    *)
LEMMA ResolveTells ==
  ASSUME CreateIInv, NEW r \in Requests, NEW id \in UnderKey(r), Resolve(r, id),
         UNCHANGED <<input, inserted, rows, handed, event>>,
         command[r] = NoId, answer[r] = "open", r \notin inserted
  PROVE  /\ Lasting /\ TableInv' /\ RequestOk(r)'
         /\ step' \in [Requests -> Steps] /\ command' \in [Requests -> Ids \cup {NoId}]
         /\ answer' \in [Requests -> {"open", "created", "expired"} \cup Conflicts]
         /\ \A s \in Requests \ {r} :
              step'[s] = step[s] /\ command'[s] = command[s] /\ answer'[s] = answer[s]
<1>0. /\ TypeInv /\ id \in Stored /\ Keyed(r) /\ rows[id].key = Key(r) /\ id \in Ids
      /\ id # NoId /\ rows[id].fingerprint \in Fingerprints
      /\ rows[id].fingerprint.key = Key(r)
  BY StoredIsRow, CreateAssumption DEF CreateIInv, TableInv, UnderKey, Stored
<1>1. /\ Key(r)' = Key(r) /\ Keyed(r)' = Keyed(r) /\ Fingerprint(r)' = Fingerprint(r)
      /\ Stored' = Stored /\ UnderKey(r)' = UnderKey(r)
  BY DEF Key, Keyed, Fingerprint, Stored, UnderKey
<1>2. CASE rows[id].fingerprint = Fingerprint(r)
  <2>1. /\ command' = [command EXCEPT ![r] = id] /\ step' = [step EXCEPT ![r] = "dispatch"]
        /\ answer' = answer
    BY <1>2 DEF Resolve, Go
  <2>2. Names(r, id)' /\ Keyed(r)'
    BY <1>0, <1>1, <1>2 DEF Names
  <2>3. step'[r] = "dispatch" /\ answer'[r] = "open" /\ command'[r] = id
    BY <1>0, <2>1 DEF TypeInv
  <2>4. RequestOk(r)'
    BY <1>0, <2>2, <2>3, GotCommand
  <2>5. Lasting
    BY <1>0, <2>1 DEF Lasting, Stored, IsOver, OverOrHanded, TypeInv
  <2>6. TableInv'
    BY <2>5, SameTable DEF CreateIInv, TableInv
  <2> QED
    BY <1>0, <2>1, <2>4, <2>5, <2>6 DEF TypeInv, Steps
<1>3. CASE rows[id].fingerprint # Fingerprint(r)
  <2>1. /\ answer' = [answer EXCEPT ![r] = "keyConflict"]
        /\ step' = [step EXCEPT ![r] = "answered"] /\ command' = command
    BY <1>3 DEF Resolve, Answer, Go
  <2>2. KeyNamesAnother(r)'
    BY <1>0, <1>1, <1>3, FingerprintsDiffer DEF KeyNamesAnother
  <2>3. step'[r] = "answered" /\ answer'[r] = "keyConflict" /\ command'[r] = NoId
    BY <1>0, <2>1 DEF TypeInv
  <2>4. RequestOk(r)'
    BY <2>2, <2>3 DEF RequestOk
  <2>5. Lasting
    BY <1>0, <2>1 DEF Lasting, Stored, IsOver, OverOrHanded, TypeInv
  <2>6. TableInv'
    BY <2>5, SameTable DEF CreateIInv, TableInv
  <2> QED
    BY <1>0, <2>1, <2>4, <2>5, <2>6 DEF TypeInv, Steps, Conflicts
<1> QED
  BY <1>2, <1>3

(* What an instance remembers of a command is true of its row.             *)
LEMMA RememberedIsTrue ==
  ASSUME CreateIInv, Lasting, NEW r \in Requests, NEW id \in Ids, Names(r, id)',
         cache' = Remembered(r, id)
  PROVE  CacheInv' /\ cache' \in [Instances -> [Keys -> Entries \cup {Nothing}]]
<1>1. CASE ~Keyed(r)
  BY <1>1, SameCache DEF Remembered, CreateIInv, TypeInv
<1>2. CASE Keyed(r)
  <2> DEFINE entry == [commandId |-> id, fingerprint |-> Fingerprint(r)]
  <2>1. Key(r) \in Keys /\ input[r].at \in Instances /\ entry \in Entries
    BY <1>2, IdsOfRequests DEF Keyed, Entries, CreateIInv
  <2>2. cache' = [cache EXCEPT ![input[r].at][Key(r)] = entry]
    BY <1>2 DEF Remembered
  <2>3. entry.commandId = id /\ entry.fingerprint = Fingerprint(r)
    OBVIOUS
  <2>4. id \in Stored' /\ rows'[id].key = Key(r) /\ rows'[id].fingerprint = Fingerprint(r)
    BY DEF Lasting, Names, Key, Fingerprint
  <2> HIDE DEF entry
  <2>5. cache' \in [Instances -> [Keys -> Entries \cup {Nothing}]]
    BY <2>1, <2>2 DEF CreateIInv, TypeInv
  <2>6. ASSUME NEW i \in Instances, NEW k \in Keys, cache'[i][k] # Nothing
        PROVE  /\ cache'[i][k].commandId \in Stored'
               /\ rows'[cache'[i][k].commandId].key = k
               /\ rows'[cache'[i][k].commandId].fingerprint = cache'[i][k].fingerprint
    <3>1. CASE i = input[r].at /\ k = Key(r)
      <4>1. cache'[i][k] = entry
        BY <2>1, <2>2, <3>1 DEF CreateIInv, TypeInv
      <4> QED
        BY <2>3, <2>4, <3>1, <4>1
    <3>2. CASE ~(i = input[r].at /\ k = Key(r))
      <4>1. cache'[i][k] = cache[i][k]
        BY <2>1, <2>2, <3>2 DEF CreateIInv, TypeInv
      <4> QED
        BY <2>6, <4>1 DEF CreateIInv, CacheInv, Lasting
    <3> QED
      BY <3>1, <3>2
  <2> QED
    BY <2>5, <2>6 DEF CacheInv
<1> QED
  BY <1>1, <1>2

(* The look-up in the table, which fills the cache.                        *)
LEMMA FindByKeyKeeps ==
  ASSUME CreateIInv, NEW r \in Requests, FindByKey(r)
  PROVE  CreateIInv'
<1>0. /\ TypeInv /\ RequestOk(r) /\ step[r] = "byKey" /\ Keyed(r)
      /\ UNCHANGED <<input, inserted, rows, handed, event>>
      /\ command[r] = NoId /\ answer[r] = "open" /\ r \notin inserted
  BY DEF CreateIInv, FindByKey, RequestOk
<1>1. CASE UnderKey(r) = {} /\ Go(r, "insert") /\ UNCHANGED <<command, answer, cache>>
  <2>1. Lasting
    BY <1>0, <1>1 DEF Lasting, Stored, IsOver, OverOrHanded
  <2>2. TableInv' /\ CacheInv'
    BY <1>0, <1>1, <2>1, SameTable, SameCache DEF CreateIInv, TableInv
  <2>3. TypeInv'
    BY <1>0, <1>1 DEF TypeInv, Go, Steps
  <2>4. RequestOk(r)'
    BY <1>0, <1>1 DEF RequestOk, Go, TypeInv, Conflicts
  <2> QED
    BY <1>0, <1>1, <2>1, <2>2, <2>3, <2>4, OnlyOneMoves DEF Go, TypeInv
<1>2. ASSUME NEW id \in UnderKey(r), Resolve(r, id),
             cache' = IF rows[id].fingerprint = Fingerprint(r) THEN Remembered(r, id) ELSE cache
      PROVE  CreateIInv'
  <2>1. /\ Lasting /\ TableInv' /\ RequestOk(r)'
        /\ step' \in [Requests -> Steps] /\ command' \in [Requests -> Ids \cup {NoId}]
        /\ answer' \in [Requests -> {"open", "created", "expired"} \cup Conflicts]
        /\ \A s \in Requests \ {r} :
             step'[s] = step[s] /\ command'[s] = command[s] /\ answer'[s] = answer[s]
    BY <1>0, <1>2, ResolveTells
  <2>2. CacheInv' /\ cache' \in [Instances -> [Keys -> Entries \cup {Nothing}]]
    <3>1. CASE rows[id].fingerprint = Fingerprint(r)
      <4>1. Names(r, id)' /\ id \in Ids
        BY <1>0, <2>1, <3>1 DEF Names, UnderKey, Lasting, Key, Fingerprint, Stored
      <4> QED
        BY <1>2, <2>1, <3>1, <4>1, RememberedIsTrue
    <3>2. CASE rows[id].fingerprint # Fingerprint(r)
      BY <1>0, <1>2, <2>1, <3>2, SameCache DEF TypeInv
    <3> QED
      BY <3>1, <3>2
  <2>3. TypeInv'
    BY <1>0, <2>1, <2>2 DEF TypeInv
  <2> QED
    BY <1>0, <2>1, <2>2, <2>3, OnlyOneMoves
<1> QED
  BY <1>1, <1>2 DEF FindByKey

(* The read after a failed insert.                                         *)
LEMMA RecoverKeeps ==
  ASSUME CreateIInv, NEW r \in Requests, Recover(r)
  PROVE  CreateIInv'
<1>0. /\ TypeInv /\ RequestOk(r) /\ step[r] = "recover" /\ Keyed(r)
      /\ UNCHANGED <<input, inserted, cache, rows, handed, event>>
      /\ command[r] = NoId /\ answer[r] = "open" /\ r \notin inserted
      /\ UnderKey(r) # {} \/ IdTaken(r)
  BY DEF CreateIInv, Recover, RequestOk
<1>1. CASE UnderKey(r) = {} /\ Answer(r, "keyConflict") /\ UNCHANGED command
  <2>1. Lasting
    BY <1>0, <1>1 DEF Lasting, Stored, IsOver, OverOrHanded
  <2>2. TableInv' /\ CacheInv'
    BY <1>0, <1>1, <2>1, SameTable, SameCache DEF CreateIInv, TableInv
  <2>3. TypeInv'
    BY <1>0, <1>1 DEF TypeInv, Answer, Go, Steps, Conflicts
  <2>4. IdTaken(r)'
    BY <1>0, <1>1 DEF IdTaken, Signed
  <2>5. step'[r] = "answered" /\ answer'[r] = "keyConflict" /\ command'[r] = NoId
    BY <1>0, <1>1 DEF Answer, Go, TypeInv
  <2>6. RequestOk(r)'
    BY <1>0, <2>4, <2>5 DEF RequestOk
  <2> QED
    BY <1>0, <1>1, <2>1, <2>2, <2>3, <2>6, OnlyOneMoves DEF Answer, Go, TypeInv
<1>2. ASSUME NEW id \in UnderKey(r), Resolve(r, id) PROVE CreateIInv'
  <2>1. /\ Lasting /\ TableInv' /\ RequestOk(r)'
        /\ step' \in [Requests -> Steps] /\ command' \in [Requests -> Ids \cup {NoId}]
        /\ answer' \in [Requests -> {"open", "created", "expired"} \cup Conflicts]
        /\ \A s \in Requests \ {r} :
             step'[s] = step[s] /\ command'[s] = command[s] /\ answer'[s] = answer[s]
    BY <1>0, <1>2, ResolveTells
  <2>2. TypeInv' /\ CacheInv'
    BY <1>0, <2>1, SameCache DEF TypeInv
  <2> QED
    BY <1>0, <2>1, <2>2, OnlyOneMoves
<1> QED
  BY <1>0, <1>1, <1>2 DEF Recover

(* The insert that finds neither its key nor its id taken.                 *)
LEMMA InsertRowKeeps ==
  ASSUME CreateIInv, NEW r \in Requests, step[r] = "insert",
         UnderKey(r) = {}, IdOf(r) \notin Stored, InsertRow(r)
  PROVE  CreateIInv'
<1>a. IdOf(r) \in Ids /\ IdOf(r) # NoId
  BY IdsOfRequests DEF CreateIInv
<1>b. PICK id \in Ids : id = IdOf(r)
  BY <1>a
<1> DEFINE written == [key |-> Key(r), fingerprint |-> Fingerprint(r), status |-> "queued"]
<1>0. /\ TypeInv /\ RequestOk(r) /\ UNCHANGED <<input, answer, handed, event>>
      /\ command[r] = NoId /\ answer[r] = "open" /\ r \notin inserted
      /\ id # NoId /\ written \in Rows /\ written # Nothing
      /\ Key(r) \in Keys \cup {NoKey} /\ Fingerprint(r) \in Fingerprints
      /\ id \notin Stored
  BY <1>a, <1>b, IdsOfRequests, CreateAssumption
     DEF CreateIInv, InsertRow, RequestOk, Rows, CreateStatuses
<1>1. /\ rows' = [rows EXCEPT ![id] = written]
      /\ command' = [command EXCEPT ![r] = id]
      /\ inserted' = inserted \cup {r}
      /\ cache' = Remembered(r, id)
      /\ step' = [step EXCEPT ![r] = "dispatch"]
  BY <1>b DEF InsertRow, Go
<1>2. written.key = Key(r) /\ written.fingerprint = Fingerprint(r) /\ written.fingerprint.key = Key(r)
  BY DEF Fingerprint
<1> HIDE DEF written
<1>3. /\ Stored' = Stored \cup {id}
      /\ rows'[id] = written /\ \A other \in Stored : rows'[other] = rows[other]
  BY <1>0, <1>1 DEF Stored, TypeInv
<1>4. /\ command'[r] = id /\ \A s \in inserted : command'[s] = command[s]
      /\ \A s \in inserted : command[s] \in Stored
  <2>1. \A s \in inserted : s \in Requests /\ s # r
    BY <1>0 DEF TypeInv
  <2>2. \A s \in inserted : command[s] \in Stored
    BY <2>1, IdsOfRequests, <1>0 DEF CreateIInv, RequestOk, Names
  <2> QED
    BY <1>0, <1>1, <2>1, <2>2 DEF TypeInv
<1>5. Lasting
  <2>1. \A other \in Stored : OverOrHanded(other)' = OverOrHanded(other)
    BY <1>0, <1>3 DEF IsOver, OverOrHanded
  <2>2. input' = input /\ Stored \subseteq Stored' /\ inserted \subseteq inserted'
    BY <1>0, <1>1, <1>3
  <2> QED
    BY <1>3, <1>4, <2>1, <2>2 DEF Lasting
<1>6. TableInv'
  <2>1. \A other \in Stored : rows[other].key = Key(r) => Key(r) = NoKey
    BY DEF UnderKey, Keyed
  <2>2. \A a \in Stored' : rows'[a].fingerprint.key = rows'[a].key
    BY <1>2, <1>3 DEF CreateIInv, TableInv
  <2>3. \A a, b \in Stored' : rows'[a].key = rows'[b].key /\ rows'[a].key # NoKey => a = b
    BY <1>2, <1>3, <2>1 DEF CreateIInv, TableInv
  <2>4. \A a \in Stored' : \E s \in inserted' : command'[s] = a
    BY <1>1, <1>3, <1>4 DEF CreateIInv, TableInv
  <2>5. \A p, q \in inserted' : command'[p] = command'[q] => p = q
    BY <1>0, <1>1, <1>4 DEF CreateIInv, TableInv
  <2>6. handed' \subseteq Stored' /\ \A other \in Ids : event'[other] # Nothing => other \in handed'
    BY <1>0, <1>3 DEF CreateIInv, TableInv
  <2> QED
    BY <2>2, <2>3, <2>4, <2>5, <2>6 DEF TableInv
<1>7. Names(r, id)'
  <2>1. Key(r)' = Key(r) /\ Fingerprint(r)' = Fingerprint(r) /\ id \in Stored'
    BY <1>0, <1>3 DEF Key, Fingerprint
  <2> QED
    BY <1>2, <1>3, <2>1 DEF Names
<1>8. CacheInv' /\ cache' \in [Instances -> [Keys -> Entries \cup {Nothing}]]
  BY <1>1, <1>5, <1>7, RememberedIsTrue
<1>9. TypeInv'
  BY <1>0, <1>1, <1>8 DEF TypeInv, Steps
<1>10. RequestOk(r)'
  <2>1. step'[r] = "dispatch" /\ answer'[r] = "open" /\ command'[r] = id /\ r \in inserted'
    BY <1>0, <1>1 DEF TypeInv
  <2>2. command'[r] = IdOf(r)'
    BY <1>0, <1>b, <2>1 DEF IdOf, Signed
  <2>3. Names(r, command[r])'
    BY <1>7, <2>1 DEF Names
  <2> QED
    BY <1>0, <2>1, <2>2, <2>3 DEF RequestOk, Conflicts
<1>11. \A s \in Requests \ {r} :
         /\ step'[s] = step[s] /\ command'[s] = command[s] /\ answer'[s] = answer[s]
         /\ s \in inserted' => s \in inserted
  BY <1>0, <1>1 DEF TypeInv
<1> QED
  BY <1>5, <1>6, <1>8, <1>9, <1>10, <1>11, OnlyOneMoves

(* The insert that fails on its key or its id.                             *)
LEMMA InsertKeeps ==
  ASSUME CreateIInv, NEW r \in Requests, Insert(r)
  PROVE  CreateIInv'
<1>1. CASE UnderKey(r) = {} /\ IdOf(r) \notin Stored
  BY <1>1, InsertRowKeeps DEF Insert
<1>2. CASE UnderKey(r) # {} \/ IdOf(r) \in Stored
  <2>0. /\ TypeInv /\ RequestOk(r) /\ step[r] = "insert"
        /\ UNCHANGED <<input, command, inserted, cache, rows, handed, event>>
        /\ command[r] = NoId /\ answer[r] = "open" /\ r \notin inserted
    BY <1>2 DEF CreateIInv, Insert, RequestOk
  <2>1. \/ /\ Keyed(r) /\ step' = [step EXCEPT ![r] = "recover"] /\ answer' = answer
        \/ /\ ~Keyed(r) /\ step' = [step EXCEPT ![r] = "answered"]
           /\ answer' = [answer EXCEPT ![r] = "idConflict"]
    BY <1>2 DEF Insert, Go, Answer
  <2>2. Lasting
    BY <2>0 DEF Lasting, Stored, IsOver, OverOrHanded
  <2>3. TableInv' /\ CacheInv'
    BY <2>0, <2>2, SameTable, SameCache DEF CreateIInv, TableInv
  <2>4. TypeInv'
    BY <2>0, <2>1 DEF TypeInv, Steps, Conflicts
  <2>5. IdOf(r) \in Stored => IdTaken(r)
    <3>1. SUFFICES ASSUME IdOf(r) \in Stored PROVE IdTaken(r)
      OBVIOUS
    <3>2. PICK s \in inserted : command[s] = IdOf(r)
      BY <3>1 DEF CreateIInv, TableInv
    <3>3. s \in Requests /\ s # r /\ IdOf(s) = IdOf(r)
      BY <2>0, <3>2 DEF CreateIInv, TypeInv, RequestOk
    <3> QED
      BY <2>0, <3>2, <3>3, IdsOfRequests DEF IdTaken
  <2>6. UnderKey(r) # {} \/ IdTaken(r)
    BY <1>2, <2>5
  <2>7. /\ UnderKey(r)' = UnderKey(r) /\ IdTaken(r)' = IdTaken(r)
        /\ Keyed(r)' = Keyed(r)
    BY <2>0 DEF UnderKey, IdTaken, Signed, Stored, Keyed, Key
  <2>8. ~Keyed(r) => IdTaken(r)
    BY <2>6 DEF UnderKey
  <2>9. RequestOk(r)'
    <3>1. CASE Keyed(r)
      BY <2>0, <2>1, <2>6, <2>7, <3>1 DEF RequestOk, TypeInv, Conflicts
    <3>2. CASE ~Keyed(r)
      BY <2>0, <2>1, <2>7, <2>8, <3>2 DEF RequestOk, TypeInv, Conflicts
    <3> QED
      BY <3>1, <3>2
  <2> QED
    BY <2>0, <2>1, <2>2, <2>3, <2>4, <2>9, OnlyOneMoves DEF TypeInv
<1> QED
  BY <1>1, <1>2

(* Handing the command to the relay, of a deduplicated one too.            *)
LEMMA DispatchKeeps ==
  ASSUME CreateIInv, NEW r \in Requests, Dispatch(r)
  PROVE  CreateIInv'
<1>0. /\ TypeInv /\ RequestOk(r) /\ step[r] = "dispatch"
      /\ UNCHANGED <<input, command, inserted, cache, rows, event>>
      /\ command[r] # NoId /\ answer[r] = "open" /\ command[r] \in Stored /\ command[r] \in Ids
      /\ Names(r, command[r]) /\ (Keyed(r) \/ r \in inserted)
  BY DEF CreateIInv, Dispatch, RequestOk, Names, Stored
<1>1. /\ handed' \in {handed, handed \cup {command[r]}}
      /\ \/ /\ step' = [step EXCEPT ![r] = "answered"]
            /\ answer' = [answer EXCEPT ![r] = "created"]
         \/ /\ step' = [step EXCEPT ![r] = "expire"] /\ answer' = answer
  BY DEF Dispatch, Go, Answer
<1>2. Lasting
  BY <1>0, <1>1 DEF Lasting, Stored, IsOver, OverOrHanded
<1>3. TableInv' /\ CacheInv'
  <2>1. handed \subseteq handed' /\ handed' \subseteq Stored
    BY <1>0, <1>1 DEF CreateIInv, TableInv
  <2> QED
    BY <1>0, <1>2, <2>1, SameTable, SameCache DEF CreateIInv, TableInv
<1>4. TypeInv'
  BY <1>0, <1>1 DEF TypeInv, Steps
<1>5. Names(r, command[r])' /\ Keyed(r)' = Keyed(r) /\ IdOf(r)' = IdOf(r)
  BY <1>0 DEF Names, Stored, Key, Fingerprint, Keyed, IdOf, Signed
<1>6. RequestOk(r)'
  BY <1>0, <1>1, <1>5 DEF RequestOk, TypeInv, Conflicts
<1> QED
  BY <1>0, <1>1, <1>2, <1>3, <1>4, <1>6, OnlyOneMoves DEF TypeInv

(* A step that only moves the status of one row, unless it was over.       *)
LEMMA StatusStepLasts ==
  ASSUME CreateIInv, NEW id \in Stored, NEW status \in CreateStatuses,
         rows' = [rows EXCEPT ![id].status = status], UNCHANGED <<input, inserted, command, handed>>,
         \A other \in Ids : event'[other] # Nothing => event[other] # Nothing,
         IsOver(id) => status = rows[id].status \/ id \in handed
  PROVE  /\ Lasting /\ TableInv' /\ Stored' = Stored
         /\ rows' \in [Ids -> Rows \cup {Nothing}] /\ rows'[id].status = status
<1>0. /\ TypeInv /\ id \in Ids /\ rows[id] \in Rows
      /\ rows \in [Ids -> Rows \cup {Nothing}]
      /\ rows[id].key \in Keys \cup {NoKey} /\ rows[id].fingerprint \in Fingerprints
  BY StoredIsRow DEF CreateIInv, TypeInv
<1>1. rows'[id] = [rows[id] EXCEPT !.status = status]
      /\ \A other \in Ids \ {id} : rows'[other] = rows[other]
  BY <1>0
<1>2. /\ rows'[id] \in Rows /\ rows'[id].status = status
      /\ rows'[id].key = rows[id].key /\ rows'[id].fingerprint = rows[id].fingerprint
  BY <1>0, <1>1 DEF Rows, CreateStatuses
<1>3. rows' \in [Ids -> Rows \cup {Nothing}]
  <2>1. \A other \in Ids : rows'[other] \in Rows \cup {Nothing}
    BY <1>0, <1>1, <1>2
  <2>2. rows' = [other \in Ids |-> rows'[other]]
    BY <1>0
  <2> QED
    BY <2>1, <2>2
<1>4. Stored' = Stored
  BY <1>0, <1>1, <1>2, CreateAssumption DEF Stored
<1>5. \A other \in Stored : /\ rows'[other].key = rows[other].key
                            /\ rows'[other].fingerprint = rows[other].fingerprint
                            /\ OverOrHanded(other) => OverOrHanded(other)'
  BY <1>1, <1>2 DEF Stored, IsOver, OverOrHanded
<1>6. Lasting
  BY <1>4, <1>5 DEF Lasting
<1>7. TableInv'
  BY <1>4, <1>5 DEF TableInv, CreateIInv
<1> QED
  BY <1>2, <1>3, <1>4, <1>6, <1>7

(* An undelivered signed command is over when its request says so.         *)
LEMMA ExpireKeeps ==
  ASSUME CreateIInv, NEW r \in Requests, Expire(r)
  PROVE  CreateIInv'
<1> DEFINE id == command[r]
           status == IF IsOver(id) THEN rows[id].status ELSE "expired"
<1>0. /\ TypeInv /\ RequestOk(r) /\ step[r] = "expire"
      /\ UNCHANGED <<input, command, inserted, cache, handed, event>>
      /\ id # NoId /\ answer[r] = "open" /\ id \in Stored
      /\ Names(r, id) /\ (Keyed(r) \/ r \in inserted)
  BY DEF CreateIInv, Expire, RequestOk, Names
<1>1. /\ rows' = [rows EXCEPT ![id].status = status]
      /\ step' = [step EXCEPT ![r] = "answered"]
      /\ answer' = [answer EXCEPT ![r] = "expired"]
  BY DEF Expire, Go, Answer
<1>2. status \in {"done", "expired"} /\ status \in CreateStatuses
  BY DEF IsOver, CreateStatuses
<1>3. /\ Lasting /\ TableInv' /\ Stored' = Stored
      /\ rows' \in [Ids -> Rows \cup {Nothing}] /\ rows'[id].status = status
  BY <1>0, <1>1, <1>2, StatusStepLasts
<1>4. CacheInv'
  BY <1>0, <1>3, SameCache
<1>5. TypeInv'
  BY <1>0, <1>1, <1>3 DEF TypeInv, Steps
<1>6. RequestOk(r)'
  <2>1. step'[r] = "answered" /\ answer'[r] = "expired" /\ command'[r] = id
    BY <1>0, <1>1 DEF TypeInv
  <2>2. OverOrHanded(command[r])'
    BY <1>0, <1>2, <1>3, <2>1 DEF IsOver, OverOrHanded
  <2>3. Names(r, command[r])' /\ Keyed(r)' = Keyed(r) /\ IdOf(r)' = IdOf(r)
    BY <1>0, <1>3 DEF Names, Lasting, Key, Fingerprint, Keyed, IdOf, Signed
  <2> QED
    BY <1>0, <2>1, <2>2, <2>3 DEF RequestOk, Conflicts
<1> QED
  BY <1>0, <1>1, <1>3, <1>4, <1>5, <1>6, OnlyOneMoves DEF TypeInv

(* An event of a command is read: nothing it promises has changed.         *)
LEMMA EventMoves ==
  ASSUME CreateIInv, UNCHANGED <<input, request, cache, rows, handed>>,
         event' \in [Ids -> CreateStatuses \cup {Nothing}],
         \A id \in Ids : event'[id] # Nothing => id \in handed
  PROVE  CreateIInv'
<1>1. UNCHANGED <<input, step, command, answer, inserted, cache, rows, handed>>
  BY DEF request
<1>2. Lasting /\ Stored' = Stored
  BY <1>1 DEF Lasting, Stored, IsOver, OverOrHanded
<1>3. TableInv'
  BY <1>1, <1>2 DEF CreateIInv, TableInv
<1>4. CacheInv'
  BY <1>1, <1>2, SameCache
<1>5. TypeInv'
  BY <1>1 DEF CreateIInv, TypeInv
<1>6. \A r \in Requests : RequestOk(r)'
  BY <1>1, <1>2, OthersStayOk
<1> QED
  BY <1>3, <1>4, <1>5, <1>6 DEF CreateIInv

LEMMA ReadEventKeeps ==
  ASSUME CreateIInv, NEW id \in Ids, NEW to \in {"running", "done"}, ReadEvent(id, to)
  PROVE  CreateIInv'
<1>1. /\ id \in handed /\ to \in CreateStatuses /\ event' = [event EXCEPT ![id] = to]
      /\ UNCHANGED <<input, request, cache, rows, handed>>
  BY DEF ReadEvent, CreateStatuses
<1>2. /\ event \in [Ids -> CreateStatuses \cup {Nothing}]
      /\ \A other \in Ids : event[other] # Nothing => other \in handed
  BY DEF CreateIInv, TypeInv, TableInv
<1> QED
  BY <1>1, <1>2, EventMoves

LEMMA LoseEventKeeps ==
  ASSUME CreateIInv, NEW id \in Ids, LoseEvent(id)
  PROVE  CreateIInv'
<1>1. /\ event' = [event EXCEPT ![id] = Nothing]
      /\ UNCHANGED <<input, request, cache, rows, handed>>
  BY DEF LoseEvent
<1>2. /\ event \in [Ids -> CreateStatuses \cup {Nothing}]
      /\ \A other \in Ids : event[other] # Nothing => other \in handed
  BY DEF CreateIInv, TypeInv, TableInv
<1> QED
  BY <1>1, <1>2, EventMoves

(* Whatever the row has become, it was handed.                             *)
LEMMA StoreEventKeeps ==
  ASSUME CreateIInv, NEW id \in Ids, StoreEvent(id)
  PROVE  CreateIInv'
<1> DEFINE status == event[id]
<1>1. /\ id \in Stored /\ id \in handed /\ status \in CreateStatuses
      /\ rows' = [rows EXCEPT ![id].status = status]
      /\ event' = [event EXCEPT ![id] = Nothing]
      /\ UNCHANGED <<input, step, command, answer, inserted, cache, handed>>
  BY DEF StoreEvent, CreateIInv, TypeInv, TableInv, request
<1>2. /\ event' \in [Ids -> CreateStatuses \cup {Nothing}]
      /\ \A other \in Ids : event'[other] # Nothing => event[other] # Nothing
  BY <1>1 DEF CreateIInv, TypeInv
<1> HIDE DEF status
<1>3. Lasting /\ TableInv' /\ rows' \in [Ids -> Rows \cup {Nothing}]
  BY <1>1, <1>2, StatusStepLasts
<1>4. CacheInv'
  BY <1>1, <1>3, SameCache
<1>5. TypeInv'
  BY <1>1, <1>2, <1>3 DEF CreateIInv, TypeInv
<1>6. \A r \in Requests : RequestOk(r)'
  BY <1>1, <1>3, OthersStayOk
<1> QED
  BY <1>3, <1>4, <1>5, <1>6 DEF CreateIInv

(* What changes no more than a cache's forgetting.                         *)
LEMMA ForgetKeeps ==
  ASSUME CreateIInv, UNCHANGED <<input, request, rows, handed, event>>,
         cache' \in [Instances -> [Keys -> Entries \cup {Nothing}]],
         \A i \in Instances, k \in Keys : cache'[i][k] # Nothing => cache'[i][k] = cache[i][k]
  PROVE  CreateIInv'
<1>1. UNCHANGED <<input, step, command, answer, inserted, rows, handed, event>>
  BY DEF request
<1>2. Lasting
  BY <1>1 DEF Lasting, Stored, IsOver, OverOrHanded
<1>3. TableInv' /\ CacheInv'
  BY <1>1, <1>2, SameTable, SameCache DEF CreateIInv, TableInv
<1>4. TypeInv'
  BY <1>1 DEF CreateIInv, TypeInv
<1>5. \A r \in Requests : RequestOk(r)'
  BY <1>1, <1>2, OthersStayOk
<1> QED
  BY <1>3, <1>4, <1>5 DEF CreateIInv

(***************************************************************************)
(* The invariant and what it says                                          *)
(***************************************************************************)

(* Whatever requests, instances and caches interleave.                     *)
THEOREM CreateInductive == CreateSpec => []CreateIInv
<1>1. CreateInit => CreateIInv
  <2> SUFFICES ASSUME CreateInit PROVE CreateIInv
    OBVIOUS
  <2>1. TypeInv
    BY DEF CreateInit, TypeInv, Steps
  <2>2. Stored = {}
    BY DEF CreateInit, Stored
  <2>3. TableInv /\ CacheInv
    BY <2>2 DEF CreateInit, TableInv, CacheInv
  <2>4. \A r \in Requests : RequestOk(r)
    BY DEF CreateInit, RequestOk, Conflicts
  <2> QED
    BY <2>1, <2>3, <2>4 DEF CreateIInv
<1>2. CreateIInv /\ [CreateNext]_createVars => CreateIInv'
  <2> SUFFICES ASSUME CreateIInv, [CreateNext]_createVars PROVE CreateIInv'
    OBVIOUS
  <2>1. ASSUME NEW r \in Requests,
               Begin(r) \/ FindByKey(r) \/ Insert(r) \/ Recover(r) \/ Dispatch(r) \/ Expire(r)
        PROVE  CreateIInv'
    BY <2>1, BeginKeeps, FindByKeyKeeps, InsertKeeps, RecoverKeeps, DispatchKeeps, ExpireKeeps
  <2>2. ASSUME NEW i \in Instances, NEW k \in Keys, Evict(i, k)
        PROVE  CreateIInv'
    BY <2>2, ForgetKeeps DEF Evict, CreateIInv, TypeInv
  <2>3. CASE UNCHANGED createVars
    BY <2>3, ForgetKeeps DEF createVars, CreateIInv, TypeInv
  <2> QED
    BY <2>1, <2>2, <2>3, ReadEventKeeps, StoreEventKeeps, LoseEventKeeps DEF CreateNext
<1> QED
  BY <1>1, <1>2, PTL DEF CreateSpec

(* What requests are told of their commands holds: one command for a key,  *)
(* the one that was asked for, over every race of caches and inserts.      *)
THEOREM AnswersAreTrue == CreateSpec => []AnswersHold
<1>1. CreateIInv => AnswersHold
  <2> SUFFICES ASSUME CreateIInv PROVE AnswersHold
    OBVIOUS
  <2>1. ASSUME NEW r \in Succeeded
        PROVE  /\ r \in Requests /\ Names(r, command[r]) /\ (Keyed(r) \/ r \in inserted)
               /\ answer[r] = "expired" => OverOrHanded(command[r])
    BY DEF Succeeded, CreateIInv, RequestOk
  <2>2. \A r \in Succeeded : Fingerprint(r).payload = input[r].payload
    BY DEF Fingerprint
  <2>3. ASSUME NEW r \in Succeeded, NEW s \in Succeeded, Keyed(r), Key(r) = Key(s)
        PROVE  command[r] = command[s]
    BY <2>1, <2>3 DEF Names, Keyed, CreateIInv, TableInv
  <2>4. \A r, s \in inserted : command[r] = command[s] => r = s
    BY DEF CreateIInv, TableInv
  <2> QED
    BY <2>1, <2>2, <2>3, <2>4 DEF AnswersHold, Names, OverOrHanded
<1> QED
  BY <1>1, CreateInductive, PTL

(* Two attempts at one command never conflict: a refused request has its   *)
(* key on another command, or its id is another request's.                 *)
THEOREM ConflictsAreReal == CreateSpec => []ConflictIsReal
<1>1. CreateIInv => ConflictIsReal
  BY DEF CreateIInv, RequestOk, ConflictIsReal, Conflicts, KeyNamesAnother, IdTaken
<1> QED
  BY <1>1, CreateInductive, PTL
=============================================================================
