---------------------------- MODULE CommandDrain ----------------------------
(***************************************************************************)
(* The drain that releases one target's queued commands up to the ceiling  *)
(* it declared (releaseQueuedCommands in service/command-drain.ts, over    *)
(* the lease and the reads of lib/desktop-command-dispatch-queries.ts).    *)
(* Any API instance may be triggered at any time by a heartbeat, a         *)
(* terminal event, a refused ack or the idle sweep; a lease on the target  *)
(* row, expiring on the database's clock, is what serializes them.         *)
(*                                                                         *)
(* A drain is acquire ; count in flight ; list queued ; renew ; dispatch   *)
(* the batch in parallel ; release.  Each is its own statement, and the    *)
(* rows move between any two of them: a delivered row stays queued until   *)
(* the desktop's ack or first event is ingested, and a POST whose sender   *)
(* timed out or vanished may still reach the desktop later.                *)
(*                                                                         *)
(* A reconnect hands out commands too, under no lease (handleHello): the   *)
(* oldest pending ones up to the ceiling, and what it withholds is put     *)
(* back to queued after the answer.                                        *)
(***************************************************************************)
EXTENDS Integers, FiniteSets

CONSTANTS
  Drainers,       \* API invocations running releaseQueuedCommands
  CommandCount,   \* the target's commands are 1..CommandCount, oldest first
  Legacy,         \* queued rows whose path the desktop's parser refuses
  Ceiling,        \* maxInFlightCommands the target declared
  LeaseTtl,       \* COMMAND_DRAIN_LEASE_TTL_MS
  DispatchBound,  \* the 5s timeout of one relay POST
  NoLease,        \* SQL NULL
  RequeueChunk,   \* REQUEUE_ID_CHUNK_SIZE
  MaxHellos,      \* bound: reconnects of the target
  MaxTime         \* bound: last instant of the database's clock

Commands == 1..CommandCount

ASSUME DrainAssumption ==
  /\ CommandCount \in Nat /\ Ceiling \in Nat \ {0} /\ MaxTime \in Nat
  /\ MaxHellos \in Nat /\ RequeueChunk \in Nat \ {0}
  /\ DispatchBound \in Nat /\ LeaseTtl \in Nat /\ DispatchBound < LeaseTtl
  /\ Legacy \subseteq Commands
  /\ NoLease \notin Nat

VARIABLES
  lease,   \* command_drain_lease_until
  owner,   \* history: who wrote the lease, NoLease when it is NULL
  drain,   \* per drainer: its step and what it holds
  status,  \* the command rows: "queued", "inFlight" (accepted or running), "ended"
  posted,  \* commands some relay POST may still carry to the desktop
  handed,  \* commands the desktop was handed
  withheld,  \* commands each reconnect withheld and has yet to put back
  hellos,    \* the reconnects so far
  clock

target == <<lease, owner>>
rows == <<status, posted, handed, withheld, hellos>>
vars == <<target, drain, rows, clock>>

Idle == [step |-> "idle"]

TypeOK ==
  /\ lease \in Nat \cup {NoLease}
  /\ owner \in Drainers \cup {NoLease}
  /\ drain \in [Drainers ->
       {Idle}
       \cup [step: {"count", "release"}, heldUntil: Nat]
       \cup [step: {"list"}, heldUntil: Nat, free: Nat]
       \cup [step: {"renew"}, heldUntil: Nat, batch: SUBSET Commands]
       \cup [step: {"dispatch"}, heldUntil: Nat, since: Nat]]
  /\ status \in [Commands -> {"queued", "inFlight", "ended"}]
  /\ posted \in SUBSET Commands
  /\ handed \in SUBSET Commands
  /\ withheld \in [1..MaxHellos -> SUBSET Commands]
  /\ hellos \in 0..MaxHellos
  /\ clock \in Nat

Init ==
  /\ lease = NoLease
  /\ owner = NoLease
  /\ drain = [d \in Drainers |-> Idle]
  /\ status = [c \in Commands |-> "queued"]
  /\ posted = {}
  /\ handed = {}
  /\ withheld = [h \in 1..MaxHellos |-> {}]
  /\ hellos = 0
  /\ clock = 0

InStatus(s) == {c \in Commands : status[c] = s}

(* Mutant: no LIMIT. *)
AllQueued(n) == InStatus("queued")

(* ORDER BY created_at LIMIT n *)
Oldest(n, set) == {c \in set : Cardinality({b \in set : b < c}) < n}
OldestQueued(n) == Oldest(n, InStatus("queued"))

(* Mutant: a lease never runs out. *)
LeaseFreeOnceReleased == lease = NoLease

LeaseFree == lease # NoLease => lease <= clock

(* One conditional update; a refused drain is over. *)
AcquireCommandDrainLease(d) ==
  /\ drain[d] = Idle
  /\ LeaseFree
  /\ lease' = clock + LeaseTtl
  /\ owner' = d
  /\ drain' = [drain EXCEPT ![d] = [step |-> "count", heldUntil |-> clock + LeaseTtl]]
  /\ UNCHANGED <<rows, clock>>

(* Mutant: the early return on a full ceiling is missing. *)
CountInFlightUnchecked(d) ==
  /\ drain[d].step = "count"
  /\ drain' = [drain EXCEPT ![d] =
       [step |-> "list", heldUntil |-> @.heldUntil,
        free |-> Ceiling - Cardinality(InStatus("inFlight"))]]
  /\ UNCHANGED <<target, rows, clock>>

(* The first read of readDispatchBatch. *)
CountInFlight(d) ==
  LET free == Ceiling - Cardinality(InStatus("inFlight")) IN
  /\ drain[d].step = "count"
  /\ drain' = [drain EXCEPT ![d] =
       IF free <= 0
         THEN [step |-> "release", heldUntil |-> @.heldUntil]
         ELSE [step |-> "list", heldUntil |-> @.heldUntil, free |-> free]]
  /\ UNCHANGED <<target, rows, clock>>

(* The second, a statement and a pooled connection later. *)
ListQueued(d) ==
  /\ drain[d].step = "list"
  /\ drain' = [drain EXCEPT ![d] =
       IF InStatus("queued") = {}
         THEN [step |-> "release", heldUntil |-> @.heldUntil]
         ELSE [step |-> "renew", heldUntil |-> @.heldUntil,
               batch |-> OldestQueued(@.free)]]
  /\ UNCHANGED <<target, rows, clock>>

(* Mutant: the renewal does not ask whose lease it is. *)
RenewAnyLease(d) ==
  /\ drain[d].step = "renew"
  /\ lease' = clock + LeaseTtl
  /\ owner' = d
  /\ drain' = [drain EXCEPT ![d] =
       [step |-> "dispatch", heldUntil |-> clock + LeaseTtl, since |-> clock]]
  /\ posted' = posted \cup drain[d].batch
  /\ UNCHANGED <<status, handed, withheld, hellos, clock>>

(* Ownership re-asserted on the exact expiry this drain holds, expired or  *)
(* not; a refused renewal goes to the finally block with the old expiry.   *)
(* A granted one sends the POSTs of the batch.                             *)
RenewCommandDrainLease(d) ==
  /\ drain[d].step = "renew"
  /\ IF lease = drain[d].heldUntil
       THEN /\ lease' = clock + LeaseTtl
            /\ owner' = d
            /\ drain' = [drain EXCEPT ![d] =
                 [step |-> "dispatch", heldUntil |-> clock + LeaseTtl, since |-> clock]]
            /\ posted' = posted \cup drain[d].batch
       ELSE /\ drain' = [drain EXCEPT ![d] =
                 [step |-> "release", heldUntil |-> @.heldUntil]]
            /\ UNCHANGED <<target, posted>>
  /\ UNCHANGED <<status, handed, withheld, hellos, clock>>

(* Every POST of the batch has settled, delivered, failed or timed out.    *)
DispatchBatchSettled(d) ==
  /\ drain[d].step = "dispatch"
  /\ drain' = [drain EXCEPT ![d] = [step |-> "release", heldUntil |-> @.heldUntil]]
  /\ UNCHANGED <<target, rows, clock>>

(* The finally block: cleared only if the lease is still the one held. *)
ReleaseCommandDrainLease(d) ==
  /\ drain[d].step = "release"
  /\ IF lease = drain[d].heldUntil
       THEN lease' = NoLease /\ owner' = NoLease
       ELSE UNCHANGED target
  /\ drain' = [drain EXCEPT ![d] = Idle]
  /\ UNCHANGED <<rows, clock>>

(* The holder is a serverless invocation that can vanish mid-drain.  The   *)
(* guard is a bound: time left for its lease to run out.                   *)
CrashDrain(d) ==
  /\ drain[d] # Idle
  /\ clock + LeaseTtl <= MaxTime
  /\ drain' = [drain EXCEPT ![d] = Idle]
  /\ UNCHANGED <<target, rows, clock>>

(* A POST reaches the desktop, or is lost: no socket holds the target, the *)
(* relay or its peer fails.  Neither moves the row.                        *)
RelayDelivers(c) ==
  /\ c \in posted
  /\ posted' = posted \ {c}
  /\ handed' = handed \cup {c}
  /\ UNCHANGED <<target, drain, status, withheld, hellos, clock>>

RelayLoses(c) ==
  /\ c \in posted
  /\ posted' = posted \ {c}
  /\ UNCHANGED <<target, drain, status, handed, withheld, hellos, clock>>

(* The desktop's ack or first event is ingested; it refuses a legacy row   *)
(* without answering.                                                      *)
CommandAnswered(c) ==
  /\ c \in handed \ Legacy
  /\ status[c] = "queued"
  /\ status' = [status EXCEPT ![c] = "inFlight"]
  /\ UNCHANGED <<target, drain, posted, handed, withheld, hellos, clock>>

(* A terminal event, or a refusal, which may be the first answer.          *)
CommandEnds(c) ==
  /\ \/ status[c] = "inFlight"
     \/ status[c] = "queued" /\ c \in handed \ Legacy
  /\ status' = [status EXCEPT ![c] = "ended"]
  /\ UNCHANGED <<target, drain, posted, handed, withheld, hellos, clock>>

(* The hello's answer carries the oldest pending commands, in flight ones  *)
(* included, up to the ceiling; legacy rows are skipped.                   *)
Pending == (InStatus("queued") \cup InStatus("inFlight")) \ Legacy

HandleHello ==
  /\ hellos < MaxHellos
  /\ hellos' = hellos + 1
  /\ handed' = handed \cup Oldest(Ceiling, Pending)
  /\ withheld' = [withheld EXCEPT ![hellos + 1] = Pending \ Oldest(Ceiling, Pending)]
  /\ UNCHANGED <<target, drain, status, posted, clock>>

(* After the answer, and although a desktop that only lost its socket may  *)
(* still hold them, the withheld ones in flight are put back, one chunk    *)
(* after the other; if a write fails, the rest never are.                  *)
RequeueUndeliveredCommands(h) ==
  LET chunk == Oldest(RequeueChunk, withheld[h]) IN
  /\ withheld[h] # {}
  /\ status' = [c \in Commands |->
       IF c \in chunk /\ status[c] = "inFlight" THEN "queued" ELSE status[c]]
  /\ withheld' = [withheld EXCEPT ![h] = @ \ chunk]
  /\ UNCHANGED <<target, drain, posted, handed, hellos, clock>>

(* Reads and connection waits are unbounded in time; a dispatch ends       *)
(* within DispatchBound of the renewal before it.                          *)
Tick ==
  /\ clock < MaxTime
  /\ \A d \in Drainers : drain[d].step = "dispatch" => clock < drain[d].since + DispatchBound
  /\ clock' = clock + 1
  /\ UNCHANGED <<target, drain, rows>>

DrainStep(d) ==
  \/ AcquireCommandDrainLease(d)
  \/ CountInFlight(d)
  \/ ListQueued(d)
  \/ RenewCommandDrainLease(d)
  \/ DispatchBatchSettled(d)
  \/ ReleaseCommandDrainLease(d)

Next ==
  \/ \E d \in Drainers : DrainStep(d) \/ CrashDrain(d)
  \/ \E c \in Commands :
       RelayDelivers(c) \/ RelayLoses(c) \/ CommandAnswered(c) \/ CommandEnds(c)
  \/ HandleHello
  \/ \E h \in 1..MaxHellos : RequeueUndeliveredCommands(h)
  \/ Tick

Spec == Init /\ [][Next]_vars

(* A drain runs to its end once triggered and triggers keep coming (the    *)
(* presence heartbeat), an online desktop that is dispatched to again and  *)
(* again is eventually reached, it answers what it took and commands end,  *)
(* and time passes.                                                        *)
Fairness ==
  /\ \A d \in Drainers : WF_vars(DrainStep(d))
  /\ \A c \in Commands : SF_vars(RelayDelivers(c))
  /\ \A c \in Commands : WF_vars(CommandAnswered(c)) /\ WF_vars(CommandEnds(c))
  /\ WF_vars(Tick)

FairSpec == Spec /\ Fairness

(***************************************************************************)
(* Properties                                                              *)
(***************************************************************************)

Dispatching == {d \in Drainers : drain[d].step = "dispatch"}

(* Two drains never dispatch against the same ceiling at the same time,    *)
(* although a drain's reads may outlast its lease and another may claim    *)
(* the target meanwhile: the renewal refuses the overrun one.              *)
OneDispatcher == \A d, e \in Dispatching : d = e

(* A drain that overran never frees a lease that is now someone else's:    *)
(* releaseCommandDrainLease matches only the expiry its caller wrote, and  *)
(* two holders never write the same one.                                   *)
OnlyOwnerFreesLease ==
  [][lease # NoLease /\ lease' = NoLease =>
       drain[owner].step = "release" /\ drain'[owner] = Idle]_vars

(* Commands handed to the desktop and not over. *)
Outstanding == {c \in handed : status[c] # "ended"}

(* Counting and listing are two statements and a delivered row stays       *)
(* queued, so drains can put more on a desktop than it declared: by one    *)
(* further ceiling, since only the oldest queued commands are handed out,  *)
(* and by one more for every reconnect, which requeues commands that the   *)
(* desktop may still hold.                                                 *)
OvershootBounded == Cardinality(Outstanding) <= (2 + hellos) * Ceiling

(* Every queued command is eventually handed to the desktop, through       *)
(* crashed drains, overrun leases, failed dispatches and a full ceiling.   *)
EveryCommandDispatched == \A c \in Commands \ Legacy : <>(c \in handed)
=============================================================================
