--------------------------- MODULE CommandExecutor ---------------------------
(***************************************************************************)
(* CloudCommandExecutor (apps/desktop/src/main/cloud): the desktop's queue *)
(* of cloud commands, its in-flight slots, one lock per repository path,   *)
(* the numbered events of each command and the buffer that replays them.   *)
(*                                                                         *)
(* JavaScript runs one callback at a time, so an action is what runs       *)
(* between two awaits.  A run is one call of execute(): a command pruned   *)
(* and delivered again has a second run, whose predecessor may still be    *)
(* waiting on its fetch, and everything but the fetch is looked up by      *)
(* command id.  A run's fetch may ignore its abort.                        *)
(***************************************************************************)
EXTENDS Integers, FiniteSets

CONSTANTS
  Commands,
  Keys,          \* the lock keys deriveLockKey finds
  NoKey,
  LockOf,        \* the lock key of each command, or NoKey
  NoOwner,       \* no entry in lockOwners
  MaxInFlight,   \* maxInFlightCommands
  MaxBuffered,   \* MAX_BUFFERED_EVENTS_PER_COMMAND
  MaxRuns,       \* bound: runs of one command
  MaxEvents      \* bound, per command: lines that end nothing, and numbers acked

ASSUME ExecutorAssumption ==
  /\ IsFiniteSet(Commands)
  /\ LockOf \in [Commands -> Keys \cup {NoKey}] /\ NoKey \notin Keys
  /\ NoOwner \notin Commands
  /\ MaxInFlight \in Nat \ {0} /\ MaxBuffered \in Nat \ {0}
  /\ MaxRuns \in Nat \ {0} /\ MaxEvents \in [Commands -> Nat]

VARIABLES
  connected,
  queue,       \* the place of each command in the queue, 0 for one that does not wait
  tracked,     \* trackedByCommandId
  inFlight,    \* inFlightByCommandId: the run that holds the command's slot, 0 for none
  lockOwner,   \* lockOwners
  run          \* the calls of execute(), by command and order

vars == <<connected, queue, tracked, inFlight, lockOwner, run>>

Untracked == [state |-> "untracked"]
NoRun == [phase |-> "none"]
Settled == [phase |-> "settled"]

Unsettled == {"fetching", "body", "streaming"}

TypeOK ==
  /\ connected \in BOOLEAN
  /\ queue \in [Commands -> Nat]
  /\ tracked \in [Commands -> {Untracked} \cup
       [state: {"queued", "running", "terminal"}, lastEmitted: Nat, lastAcked: Nat,
        buffer: SUBSET Nat]]
  /\ inFlight \in [Commands -> 0..MaxRuns]
  /\ lockOwner \in [Keys -> Commands \cup {NoOwner}]
  /\ run \in [Commands -> [1..MaxRuns -> {NoRun, Settled} \cup
       [phase: Unsettled, emittedTerminal: BOOLEAN,
        cancelRequested: BOOLEAN, overflowed: BOOLEAN,
        timeout: {"armed", "cleared", "fired"}, grace: BOOLEAN]]]

Init ==
  /\ connected = FALSE
  /\ queue = [c \in Commands |-> 0]
  /\ tracked = [c \in Commands |-> Untracked]
  /\ inFlight = [c \in Commands |-> 0]
  /\ lockOwner = [k \in Keys |-> NoOwner]
  /\ run = [c \in Commands |-> [g \in 1..MaxRuns |-> NoRun]]

WaitingIn(q) == {c \in Commands : q[c] # 0}
Waiting == WaitingIn(queue)
Holding(slots) == {c \in Commands : slots[c] # 0}
Running == Holding(inFlight)
(* The queue with a command at its end, and without some of them. *)
Appended(q, c) == [q EXCEPT ![c] = Cardinality(WaitingIn(q)) + 1]

Without(q, gone) ==
  LET rest == WaitingIn(q) \ gone IN
  [c \in Commands |-> IF c \in rest THEN Cardinality({b \in rest : q[b] <= q[c]}) ELSE 0]

RunsOf(c) == {g \in 1..MaxRuns : run[c][g] # NoRun}
IsUnsettled(c, g) == run[c][g].phase \in Unsettled

(***************************************************************************)
(* Events.  The buffer is the set of the sequence numbers in it.           *)
(***************************************************************************)

IsLive(t) == t # Untracked /\ t.state # "terminal"

(* pushAndSend *)
Push(t) ==
  [t EXCEPT !.lastEmitted = @ + 1, !.buffer = @ \cup {t.lastEmitted + 1}]

Overflows(t) == IsLive(t) /\ Cardinality(t.buffer) >= MaxBuffered

(* A terminal event and the markTerminal that follows it everywhere; both  *)
(* do nothing once the command is terminal.                                *)
Finish(t) == IF IsLive(t) THEN [Push(t) EXCEPT !.state = "terminal"] ELSE t

(* Mutant: past the high-water mark the oldest event makes room. *)
EmitOverOldest(t) ==
  IF ~IsLive(t) THEN t
  ELSE IF ~Overflows(t) THEN Push(t)
  ELSE [Push(t) EXCEPT !.buffer = {n \in @ : \E m \in @ : m < n}]

(* emitTrackedEvent for an event that does not end the command: past the   *)
(* high-water mark failBufferOverflow ends it instead.                     *)
Emit(t) ==
  CASE ~IsLive(t) -> t
    [] Overflows(t) -> Finish(t)
    [] OTHER -> Push(t)

(***************************************************************************)
(* schedule(): commands start in queue order while a slot and their lock   *)
(* are free.  `taken` is the set that loop takes: a command is in it       *)
(* exactly when those in it from places before leave it both.  One that is *)
(* no longer tracked is taken and dropped.                                 *)
(***************************************************************************)
Locked(owner, key) == key # NoKey /\ owner[key] # NoOwner

Starts(taken, q, t, slots, owner) ==
  \A c \in WaitingIn(q) :
    LET before == {b \in taken : t[b] # Untracked /\ q[b] < q[c]} IN
    c \in taken <=>
      /\ Cardinality(Holding(slots) \cup before) < MaxInFlight
      /\ ~Locked(owner, LockOf[c])
      /\ \A b \in before : LockOf[b] # LockOf[c] \/ LockOf[b] = NoKey

FreshRun(overflowed) ==
  [phase |-> "fetching", emittedTerminal |-> FALSE, cancelRequested |-> FALSE,
   overflowed |-> overflowed, timeout |-> "armed", grace |-> FALSE]

NextRun(c, runs) == Cardinality({g \in 1..MaxRuns : runs[c][g] # NoRun}) + 1

(* The synchronous part of execute() for each of them: the lock, the slot  *)
(* and the first event, which an earlier run's late ones may leave no room *)
(* for.                                                                    *)
Schedule(q, t, slots, owner, runs) ==
  \E taken \in (IF connected' THEN SUBSET WaitingIn(q) ELSE {{}}) :
    LET started == {c \in taken : t[c] # Untracked} IN
    /\ connected' => Starts(taken, q, t, slots, owner)
    /\ queue' = Without(q, taken)
    /\ tracked' = [c \in Commands |->
         IF c \in started
           THEN Emit([t[c] EXCEPT !.state = "running"])
           ELSE t[c]]
    /\ inFlight' = [c \in Commands |-> IF c \in started THEN NextRun(c, runs) ELSE slots[c]]
    /\ lockOwner' = [k \in Keys |->
         IF \E c \in started : LockOf[c] = k
           THEN CHOOSE c \in started : LockOf[c] = k
           ELSE owner[k]]
    /\ run' = [c \in Commands |->
         IF c \in started
           THEN [runs[c] EXCEPT ![NextRun(c, runs)] =
                   FreshRun(Overflows([t[c] EXCEPT !.state = "running"]))]
           ELSE runs[c]]

SetConnected(to) ==
  /\ connected' = to
  /\ Schedule(queue, tracked, inFlight, lockOwner, run)

(***************************************************************************)
(* enqueue().  Pruning comes first: terminal commands go by age (ten       *)
(* minutes) and by number (two hundred), acknowledged or not, so any of    *)
(* them may be forgotten; both are taken to be longer than the 5s grace of *)
(* a cancelled one.  A command still tracked is acked and, when terminal,  *)
(* replayed.  MaxRuns bounds the deliveries, and none is made of a command *)
(* forgotten while it waits.                                               *)
(***************************************************************************)
GracePending(c) == \E g \in 1..MaxRuns : IsUnsettled(c, g) /\ run[c][g].grace

Prunable == {c \in Commands : tracked[c].state = "terminal" /\ ~GracePending(c)}

Enqueue(c, pruned) ==
  LET kept == [d \in Commands |-> IF d \in pruned THEN Untracked ELSE tracked[d]]
      new == [state |-> "queued", lastEmitted |-> 0, lastAcked |-> 0,
              buffer |-> {}]
  IN
  /\ pruned \subseteq Prunable
  /\ IF kept[c] # Untracked
       THEN tracked' = kept /\ UNCHANGED <<connected, queue, inFlight, lockOwner, run>>
       ELSE /\ c \notin Waiting /\ Cardinality(RunsOf(c)) < MaxRuns
            /\ UNCHANGED connected
            /\ Schedule(Appended(queue, c), [kept EXCEPT ![c] = new], inFlight, lockOwner, run)

(***************************************************************************)
(* cancel().                                                               *)
(***************************************************************************)
CancelQueued(c) ==
  /\ c \in Waiting
  /\ queue' = Without(queue, {c})
  /\ tracked' = [tracked EXCEPT ![c] = Finish(@)]
  /\ UNCHANGED <<connected, inFlight, lockOwner, run>>

(* Mutant: no grace timer. *)
CancelRunningUntimed(c) ==
  /\ c \notin Waiting
  /\ inFlight[c] # 0
  /\ ~run[c][inFlight[c]].cancelRequested
  /\ tracked' = [tracked EXCEPT ![c] = Finish(@)]
  /\ run' = [run EXCEPT ![c][inFlight[c]].cancelRequested = TRUE]
  /\ UNCHANGED <<connected, queue, inFlight, lockOwner>>

(* The command ends at once and a grace timer is set for its slot; one     *)
(* that already ended is only aborted.                                     *)
CancelRunning(c) ==
  LET g == inFlight[c] IN
  /\ c \notin Waiting
  /\ g # 0
  /\ ~run[c][g].cancelRequested
  /\ tracked' = [tracked EXCEPT ![c] = Finish(@)]
  /\ run' = [run EXCEPT ![c][g].cancelRequested = TRUE,
                        ![c][g].grace = (tracked[c].state # "terminal")]
  /\ UNCHANGED <<connected, queue, inFlight, lockOwner>>

(* releaseInFlight *)
SlotsWithout(c) == [inFlight EXCEPT ![c] = 0]

(* Mutants: the entry is emptied and not deleted, and not even that. *)
LocksEmptied(c) == [k \in Keys |-> IF LockOf[c] = k THEN NoKey ELSE lockOwner[k]]
LocksKept(c) == lockOwner

LocksWithout(c) == [k \in Keys |-> IF LockOf[c] = k /\ lockOwner[k] = c THEN NoOwner ELSE lockOwner[k]]

(* Mutant: the slot is freed and nothing is scheduled. *)
ForceSettleUnscheduled(c, g) ==
  /\ IsUnsettled(c, g) /\ run[c][g].grace
  /\ inFlight' = SlotsWithout(c)
  /\ lockOwner' = LocksWithout(c)
  /\ run' = [run EXCEPT ![c][g].grace = FALSE]
  /\ UNCHANGED <<connected, queue, tracked>>

(* forceSettleCancelled.  The timer knows the command, not the run: it     *)
(* frees whichever slot the command holds when it fires.                   *)
ForceSettleCancelled(c, g) ==
  LET held == inFlight[c]
      fired == [run EXCEPT ![c][g].grace = FALSE]
  IN
  /\ IsUnsettled(c, g) /\ run[c][g].grace
  /\ UNCHANGED connected
  /\ IF held = 0
       THEN run' = fired /\ UNCHANGED <<queue, tracked, inFlight, lockOwner>>
       ELSE Schedule(queue, tracked, SlotsWithout(c), LocksWithout(c),
              [fired EXCEPT ![c][held].timeout = IF @ = "armed" THEN "cleared" ELSE @])

(***************************************************************************)
(* The run's fetch.                                                        *)
(***************************************************************************)
At(c, g, phase) == run[c][g].phase = phase
Aborted(r) == r.cancelRequested \/ r.overflowed \/ r.timeout = "fired"

CommandTimesOut(c, g) ==
  /\ IsUnsettled(c, g)
  /\ run[c][g].timeout = "armed"
  /\ run' = [run EXCEPT ![c][g].timeout = "fired"]
  /\ UNCHANGED <<connected, queue, tracked, inFlight, lockOwner>>

GatewayResponds(c, g, phase) ==
  /\ At(c, g, "fetching")
  /\ ~Aborted(run[c][g])
  /\ run' = [run EXCEPT ![c][g].phase = phase]
  /\ UNCHANGED <<connected, queue, tracked, inFlight, lockOwner>>

(* failBufferOverflow aborts the run in the command's slot. *)
OverflowAborts(c) ==
  LET held == inFlight[c] IN
  IF Overflows(tracked[c]) /\ held # 0
    THEN [run EXCEPT ![c][held].overflowed = TRUE]
    ELSE run

(* processStreamLine.  MaxEvents bounds the lines that end nothing. *)
StreamLine(c, g) ==
  /\ At(c, g, "streaming")
  /\ IsLive(tracked[c]) => tracked[c].lastEmitted <= MaxEvents[c]
  /\ tracked' = [tracked EXCEPT ![c] = Emit(@)]
  /\ run' = OverflowAborts(c)
  /\ UNCHANGED <<connected, queue, inFlight, lockOwner>>

TerminalStreamLine(c, g) ==
  /\ At(c, g, "streaming")
  /\ tracked' = [tracked EXCEPT ![c] = Finish(@)]
  /\ run' = [run EXCEPT ![c][g].emittedTerminal = TRUE]
  /\ UNCHANGED <<connected, queue, inFlight, lockOwner>>

(* Mutant: the finally block frees the command's slot, whoever holds it. *)
OwnsSomeSlot(c, g) == inFlight[c] # 0

OwnsSlot(c, g) == inFlight[c] = g

(* The finally block of execute(), after what the run emitted last. *)
Settle(c, g, after, runs) ==
  /\ UNCHANGED connected
  /\ Schedule(queue, [tracked EXCEPT ![c] = after],
       IF OwnsSlot(c, g) THEN SlotsWithout(c) ELSE inFlight,
       IF OwnsSlot(c, g) THEN LocksWithout(c) ELSE lockOwner,
       [runs EXCEPT ![c][g] = Settled])

StreamEnds(c, g) ==
  /\ At(c, g, "streaming")
  /\ Settle(c, g,
       IF run[c][g].emittedTerminal THEN tracked[c] ELSE Finish(tracked[c]), run)

(* A response that is no stream: its result, then done.  The reads of the  *)
(* body swallow an abort, so a run that timed out, overflowed or was       *)
(* cancelled may come here like any other; one whose status is an error    *)
(* throws (RunFails).                                                      *)
BodyParsed(c, g) ==
  /\ At(c, g, "body")
  /\ Settle(c, g, Finish(Emit(tracked[c])), OverflowAborts(c))

(* The catch block: a cancelled or overflowed command has its event. *)
RunFails(c, g) ==
  /\ IsUnsettled(c, g)
  /\ Settle(c, g,
       IF run[c][g].cancelRequested \/ (run[c][g].overflowed /\ run[c][g].timeout # "fired")
         THEN tracked[c]
         ELSE Finish(tracked[c]),
       run)

(***************************************************************************)
(* acknowledge().  The cloud acks the numbers it knows, which for a        *)
(* command run again may be those of its first run.  MaxEvents bounds      *)
(* them.                                                                   *)
(***************************************************************************)
Acknowledge(c, sequence) ==
  /\ tracked[c] # Untracked
  /\ LET acked == IF sequence > tracked[c].lastAcked THEN sequence ELSE tracked[c].lastAcked IN
     tracked' = [tracked EXCEPT
       ![c].lastAcked = acked,
       ![c].buffer = IF tracked[c].state = "terminal" THEN @ ELSE {n \in @ : n > acked}]
  /\ UNCHANGED <<connected, queue, inFlight, lockOwner, run>>

RunSettles(c, g) == StreamEnds(c, g) \/ BodyParsed(c, g) \/ RunFails(c, g)

Next ==
  \/ \E to \in BOOLEAN : SetConnected(to)
  \/ \E c \in Commands, pruned \in SUBSET Commands : Enqueue(c, pruned)
  \/ \E c \in Commands : CancelQueued(c) \/ CancelRunning(c)
  \/ \E c \in Commands : \E sequence \in 1..MaxEvents[c] : Acknowledge(c, sequence)
  \/ \E c \in Commands, g \in 1..MaxRuns :
       \/ ForceSettleCancelled(c, g)
       \/ CommandTimesOut(c, g)
       \/ \E phase \in {"body", "streaming"} : GatewayResponds(c, g, phase)
       \/ StreamLine(c, g)
       \/ TerminalStreamLine(c, g)
       \/ RunSettles(c, g)

Spec == Init /\ [][Next]_vars

(***************************************************************************)
(* Fairness: timers fire, the gateway recovery reconnects, a run ends.     *)
(* But a run cancelled before its command ended may ignore its abort for   *)
(* ever: that is what the grace timer is for.                              *)
(***************************************************************************)
MayIgnoreAbort(c, g) ==
  run[c][g].cancelRequested /\ ~run[c][g].emittedTerminal /\ ~run[c][g].overflowed

Timers ==
  /\ WF_vars(~connected /\ SetConnected(TRUE))
  /\ \A c \in Commands, g \in 1..MaxRuns : WF_vars(ForceSettleCancelled(c, g))

FairSpec ==
  /\ Spec /\ Timers
  /\ \A c \in Commands, g \in 1..MaxRuns :
       WF_vars(IsUnsettled(c, g) /\ ~MayIgnoreAbort(c, g) /\ RunSettles(c, g))

(***************************************************************************)
(* Properties                                                              *)
(***************************************************************************)

(* Never more commands in flight than the executor was built for, over     *)
(* force-settled slots, late finally blocks and commands run again.        *)
SlotsBounded == Cardinality(Running) <= MaxInFlight

(* A lock is owned by the command that holds a slot for that key, and a    *)
(* command in a slot owns its lock: no release leaves a lock behind, which *)
(* would strand every later command of the path, or takes a newer owner's. *)
LocksMatchSlots ==
  /\ \A c \in Running : LockOf[c] # NoKey => lockOwner[LockOf[c]] = c
  /\ \A k \in Keys : lockOwner[k] # NoOwner =>
       lockOwner[k] \in Running /\ LockOf[lockOwner[k]] = k

KeepsSlot(c) ==
  \A g \in RunsOf(c) :
    (g + 1 \notin RunsOf(c) /\ IsUnsettled(c, g) /\ ~run[c][g].cancelRequested)
      => inFlight[c] = g

(* The last run of a command keeps its slot until it settles or is         *)
(* cancelled, whatever the finally block of an earlier run of the same     *)
(* command does.  With more than one slot and no lock the grace timer of   *)
(* an earlier run does take it: it "releases the in-flight slot of a       *)
(* cancelled command" by the command's id.                                 *)
LatestRunHoldsSlot == \A c \in Commands : KeepsSlot(c)

(* A command with a lock is safe from that, on any number of slots: its    *)
(* second run waits for the lock, so the timer of the first has fired or   *)
(* has nothing left to do when the second gets its slot.                   *)
LockedRunHoldsSlot ==
  \A c \in Commands : LockOf[c] # NoKey \/ MaxInFlight = 1 => KeepsSlot(c)

(* While connected no command waits that could start: every path that      *)
(* frees a slot or a lock schedules again.                                 *)
WorkConserving == connected => Starts({}, queue, tracked, inFlight, lockOwner)

(* What the cloud has not acked can be replayed, and the terminal event    *)
(* always can, until the command is forgotten.                             *)
ReplayCovers ==
  \A c \in Commands : tracked[c] # Untracked =>
    /\ (tracked[c].lastAcked + 1)..tracked[c].lastEmitted \subseteq tracked[c].buffer
    /\ tracked[c].state = "terminal" => tracked[c].lastEmitted \in tracked[c].buffer

(* A queued command gets its turn or is cancelled.                         *)
QueuedGetsItsTurn == \A c \in Commands : (c \in Waiting) ~> (c \notin Waiting)

(* A command cancelled while it runs gives its slot back within the grace, *)
(* even when its fetch never ends.                                         *)
CancelFreesSlot ==
  \A c \in Commands, g \in 1..MaxRuns :
    (IsUnsettled(c, g) /\ MayIgnoreAbort(c, g) /\ inFlight[c] = g) ~> (inFlight[c] # g)

=============================================================================
