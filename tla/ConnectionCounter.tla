--------------------------- MODULE ConnectionCounter ---------------------------
(***************************************************************************)
(* The connection caps of the realtime server (apps/realtime               *)
(* src/redis/connections.ts, edge/admission.ts): a hash per user and per   *)
(* org with one field per instance, the lease every instance's heartbeat   *)
(* renews, and the sweep of an instance whose lease has lapsed.            *)
(*                                                                         *)
(* One user of one org, so two counts, taken in the order of Keys.  An     *)
(* instance sends its commands over one connection, in order; a command    *)
(* takes effect and is answered in one step, or fails while Redis is out   *)
(* of the instance's reach: an outage keeps it from all, a partition from  *)
(* one, and a stalled instance is one whose commands wait.  Left out: a    *)
(* command whose answer is lost and that ioredis sends again, and a SADD   *)
(* that fails (it leaves a hold and nothing else).  An instance's id is    *)
(* never used again.                                                       *)
(***************************************************************************)
EXTENDS Integers, FiniteSetsExt

CONSTANTS
  Instances, Handshakes,
  User, Org,     \* the count keys
  Cap,           \* perUser and perOrg
  Nobody,        \* no instance is being swept
  MaxOutages,    \* bound: times Redis is out of reach of an instance or of all
  MaxCrashes     \* bound: instances that vanish

Keys == {User, Org}

ASSUME CounterAssumption ==
  /\ User # Org /\ Cap \in [Keys -> Nat] /\ Nobody \notin Instances
  /\ IsFiniteSet(Instances) /\ IsFiniteSet(Handshakes)
  /\ MaxOutages \in Nat /\ MaxCrashes \in Nat

VARIABLES
  field,      \* the field of each instance in each hash
  keySet,     \* rt:conn:keys of each instance
  lease,      \* rt:conn:instances: "none", "current" or "lapsed"
  phase,      \* each instance: "new", "alive" or "crashed"
  reachable,  \* the instances that can reach Redis
  live,       \* liveInstances of each instance
  held,       \* held of each instance
  gives,      \* releases issued and not yet answered, of each instance and key
  unreleased, \* releases that failed and wait for a heartbeat
  settled,    \* whether an instance has reached Redis for a full TTL
  claimed,    \* claimedUnswept of each instance
  sweep,      \* the sweep an instance has under way
  at, take, conn,  \* each handshake: its instance, its takeBoth, its socket
  silent,     \* history: instances whose lease lapsed, alive, with a peer settled
  unseen,     \* history: handshakes checked without the count of an instance alive
  outages

hash == <<field, keySet>>
memory == <<live, held, gives, unreleased>>
sweeper == <<settled, silent, claimed, sweep>>
sockets == <<at, take, conn, unseen>>
vars == <<hash, lease, phase, reachable, memory, sweeper, sockets, outages>>

Zero == [k \in Keys |-> 0]
NoSweep == [of |-> Nobody, step |-> "idle", keys |-> {}, rest |-> {}]
Alive(i) == phase[i] = "alive"
Crashed == {i \in Instances : phase[i] = "crashed"}
Counted(i, k) == Cardinality({h \in Handshakes : at[h] = i /\ conn[h] = "counted"})

TypeOK ==
  /\ field \in [Instances -> [Keys -> Nat]]
  /\ keySet \in [Instances -> SUBSET Keys]
  /\ lease \in [Instances -> {"none", "current", "lapsed"}]
  /\ phase \in [Instances -> {"new", "alive", "crashed"}]
  /\ reachable \in SUBSET Instances
  /\ live \in [Instances -> SUBSET Instances]
  /\ held \in [Instances -> [Keys -> Nat]]
  /\ gives \in [Instances -> [Keys -> Nat]]
  /\ unreleased \in [Instances -> [Keys -> Nat]]
  /\ \A i \in Instances, k \in Keys : gives[i][k] + unreleased[i][k] <= held[i][k]
  /\ settled \in SUBSET Instances /\ silent \in SUBSET Instances
  /\ claimed \in [Instances -> SUBSET Instances]
  /\ sweep \in [Instances -> [of: Instances \cup {Nobody}, keys: SUBSET Keys,
                  rest: SUBSET Instances,
                  step: {"idle", "claim", "read", "fields", "set"}]]
  /\ at \in [Handshakes -> Instances]
  /\ take \in [Handshakes -> [step: {"none", "incr", "total"}, key: Keys, late: BOOLEAN]]
  /\ conn \in [Handshakes -> {"new", "waiting", "counted", "uncounted", "refused", "closed"}]
  /\ unseen \in SUBSET Handshakes
  /\ outages \in 0..MaxOutages

NotTaking == [step |-> "none", key |-> User, late |-> FALSE]

Init ==
  /\ field = [i \in Instances |-> Zero]
  /\ keySet = [i \in Instances |-> {}]
  /\ lease = [i \in Instances |-> "none"]
  /\ phase = [i \in Instances |-> "new"]
  /\ reachable = Instances
  /\ live = [i \in Instances |-> {i}]
  /\ held = [i \in Instances |-> Zero]
  /\ gives = [i \in Instances |-> Zero]
  /\ unreleased = [i \in Instances |-> Zero]
  /\ settled = {} /\ silent = {}
  /\ claimed = [i \in Instances |-> {}]
  /\ sweep = [i \in Instances |-> NoSweep]
  /\ at \in [Handshakes -> Instances]
  /\ take = [h \in Handshakes |-> NotTaking]
  /\ conn = [h \in Handshakes |-> "new"]
  /\ unseen = {}
  /\ outages = 0

(* An instance starts with a heartbeat, whose two commands are answered      *)
(* before the third of the first admission, its total.                       *)
Start(i) ==
  /\ phase[i] = "new" /\ i \in reachable
  /\ phase' = [phase EXCEPT ![i] = "alive"]
  /\ lease' = [lease EXCEPT ![i] = "current"]
  /\ live' = [live EXCEPT ![i] = @ \cup {j \in Instances : lease[j] = "current"}]
  /\ UNCHANGED <<hash, reachable, held, gives, unreleased, sweeper, sockets, outages>>

-----------------------------------------------------------------------------
(* Admission.                                                               *)

(* give: the release script is sent for each of the keys. *)
Given(i, ks) == [gives EXCEPT ![i] = [k \in Keys |-> IF k \in ks THEN @[k] + 1 ELSE @[k]]]

(* hold, then SADD: take's first two lines. *)
Hold(i, k) ==
  /\ held' = [held EXCEPT ![i][k] = @ + 1]
  /\ keySet' = [keySet EXCEPT ![i] = @ \cup {k}]

Step(h, step, key) == take' = [take EXCEPT ![h].step = step, ![h].key = key]

(* admit while Redis is ready: take of the user's key begins. *)
Admit(h) ==
  LET i == at[h] IN
  /\ Alive(i) /\ i \in reachable /\ conn[h] = "new"
  /\ conn' = [conn EXCEPT ![h] = "waiting"]
  /\ Hold(i, User)
  /\ Step(h, "incr", User)
  /\ UNCHANGED <<field, lease, phase, reachable, live, gives, unreleased, sweeper, at, unseen, outages>>

AdmitUncounted(h) ==
  /\ Alive(at[h]) /\ at[h] \notin reachable /\ conn[h] = "new"
  /\ conn' = [conn EXCEPT ![h] = "uncounted"]
  /\ UNCHANGED <<hash, lease, phase, reachable, memory, sweeper, at, take, unseen, outages>>

Increment(h) ==
  LET i == at[h] IN
  /\ Alive(i) /\ i \in reachable /\ take[h].step = "incr"
  /\ field' = [field EXCEPT ![i][take[h].key] = @ + 1]
  /\ Step(h, "total", take[h].key)
  /\ UNCHANGED <<keySet, lease, phase, reachable, memory, sweeper, at, conn, unseen, outages>>

(* Mutant: the total of this instance alone. *)
LiveTotalOwn(i, k) == field[i][k]

(* liveTotal: the fields of the instances this one takes for live. *)
LiveTotal(i, k) == MapThenSumSet(LAMBDA j : field[j][k], live[i] \cup {i})
Within(h) == LiveTotal(at[h], take[h].key) <= Cap[take[h].key]
Check(h) ==
  unseen' = IF \A j \in Instances : Alive(j) => j \in live[at[h]] /\ j \notin silent
            THEN unseen ELSE unseen \cup {h}

(* HGETALL: the user's total is within its cap, and the org's key is next. *)
TakeOrg(h) ==
  LET i == at[h] IN
  /\ Alive(i) /\ i \in reachable /\ take[h].step = "total" /\ take[h].key = User
  /\ Within(h) /\ Check(h)
  /\ Hold(i, Org)
  /\ Step(h, "incr", Org)
  /\ UNCHANGED <<field, lease, phase, reachable, live, gives, unreleased, sweeper, at, conn, outages>>

Taken(h) == take' = [take EXCEPT ![h] = NotTaking]

(* Both counts are taken.  Past the deadline they are given back. *)
Admitted(h) ==
  LET i == at[h] IN
  /\ Alive(i) /\ i \in reachable /\ take[h].step = "total" /\ take[h].key = Org
  /\ Within(h) /\ Check(h)
  /\ IF take[h].late
     THEN gives' = Given(i, Keys) /\ UNCHANGED conn
     ELSE conn' = [conn EXCEPT ![h] = "counted"] /\ UNCHANGED gives
  /\ Taken(h)
  /\ UNCHANGED <<hash, lease, phase, reachable, live, held, unreleased, sweeper, at, outages>>

(* A total over its cap: what was taken is given back. *)
Refused(h) ==
  LET i == at[h] IN
  /\ Alive(i) /\ i \in reachable /\ take[h].step = "total"
  /\ ~Within(h)
  /\ gives' = Given(i, {User, take[h].key})
  /\ conn' = IF take[h].late THEN conn ELSE [conn EXCEPT ![h] = "refused"]
  /\ Taken(h)
  /\ UNCHANGED <<hash, lease, phase, reachable, live, held, unreleased, sweeper, at, unseen, outages>>

(* withDeadline: the handshake goes on uncounted, the take too. *)
AdmissionDeadline(h) ==
  /\ Alive(at[h]) /\ conn[h] = "waiting" /\ take[h].step # "none"
  /\ conn' = [conn EXCEPT ![h] = "uncounted"]
  /\ take' = [take EXCEPT ![h].late = TRUE]
  /\ UNCHANGED <<hash, lease, phase, reachable, memory, sweeper, at, unseen, outages>>

(* A command of the take fails.  An increment may have landed and keeps its  *)
(* hold; a failed read gives the key back; the user's key is given back when *)
(* the org's fails.                                                          *)
TakeFails(h) ==
  LET i == at[h]
      k == take[h].key
      back == IF take[h].step = "total" THEN {User, k} ELSE {User, k} \ {k}
  IN
  /\ Alive(i) /\ i \notin reachable /\ take[h].step # "none"
  /\ field' \in {field} \cup
       (IF take[h].step = "incr" THEN {[field EXCEPT ![i][k] = @ + 1]} ELSE {})
  /\ gives' = Given(i, back)
  /\ conn' = IF conn[h] = "waiting" THEN [conn EXCEPT ![h] = "uncounted"] ELSE conn
  /\ Taken(h)
  /\ UNCHANGED <<keySet, lease, phase, reachable, live, held, unreleased, sweeper, at, unseen, outages>>

(* Mutant: the release runs on "disconnect" and on the transport's "close". *)
CloseReleasingTwice(h) ==
  /\ Alive(at[h]) /\ conn[h] \in {"counted", "uncounted"}
  /\ conn' = [conn EXCEPT ![h] = "closed"]
  /\ gives' = IF conn[h] = "counted"
              THEN [gives EXCEPT ![at[h]] = [k \in Keys |-> @[k] + 2]] ELSE gives
  /\ UNCHANGED <<hash, lease, phase, reachable, live, held, unreleased, sweeper, at, take, unseen, outages>>

(* The socket closes; a counted one is released, once. *)
Close(h) ==
  /\ Alive(at[h]) /\ conn[h] \in {"counted", "uncounted"}
  /\ conn' = [conn EXCEPT ![h] = "closed"]
  /\ gives' = IF conn[h] = "counted" THEN Given(at[h], Keys) ELSE gives
  /\ UNCHANGED <<hash, lease, phase, reachable, live, held, unreleased, sweeper, at, take, unseen, outages>>

(* Mutant: the key leaves the key set when the script answers zero. *)
GiveLandsDropping(i, k) ==
  /\ Alive(i) /\ i \in reachable /\ gives[i][k] > 0
  /\ gives' = [gives EXCEPT ![i][k] = @ - 1]
  /\ field' = [field EXCEPT ![i][k] = IF @ <= 1 THEN 0 ELSE @ - 1]
  /\ held' = [held EXCEPT ![i][k] = @ - 1]
  /\ keySet' = IF field[i][k] <= 1 THEN [keySet EXCEPT ![i] = @ \ {k}] ELSE keySet
  /\ UNCHANGED <<lease, phase, reachable, live, unreleased, sweeper, sockets, outages>>

(* RELEASE_SCRIPT, then drop: the key leaves the key set at the last hold. *)
GiveLands(i, k) ==
  /\ Alive(i) /\ i \in reachable /\ gives[i][k] > 0
  /\ gives' = [gives EXCEPT ![i][k] = @ - 1]
  /\ field' = [field EXCEPT ![i][k] = IF @ <= 1 THEN 0 ELSE @ - 1]
  /\ held' = [held EXCEPT ![i][k] = @ - 1]
  /\ keySet' = IF held[i][k] = 1 THEN [keySet EXCEPT ![i] = @ \ {k}] ELSE keySet
  /\ UNCHANGED <<lease, phase, reachable, live, unreleased, sweeper, sockets, outages>>

GiveFails(i, k) ==
  /\ Alive(i) /\ i \notin reachable /\ gives[i][k] > 0
  /\ gives' = [gives EXCEPT ![i][k] = @ - 1]
  /\ unreleased' = [unreleased EXCEPT ![i][k] = @ + 1]
  /\ UNCHANGED <<hash, lease, phase, reachable, live, held, sweeper, sockets, outages>>

-----------------------------------------------------------------------------
(* The heartbeat and the sweep.                                             *)

(* sweepDead: the loop over what is left of the dead. *)
SweepOf(dead) ==
  IF dead = {} THEN NoSweep ELSE [NoSweep EXCEPT !.step = "claim", !.rest = dead]

(* beat, retryUnreleased, and a sweep of the dead once this instance has     *)
(* reached Redis for a full TTL, unless one is under way.                    *)
Beat(i) ==
  LET lapsed == {j \in Instances : j # i /\ lease[j] = "lapsed"}
      dead == (lapsed \cup claimed[i]) \ {i}
  IN
  /\ Alive(i) /\ i \in reachable
  /\ lease' = [lease EXCEPT ![i] = "current"]
  /\ live' = [live EXCEPT ![i] = {j \in Instances : lease[j] = "current"} \cup {i}]
  /\ gives' = [gives EXCEPT ![i] = [k \in Keys |-> @[k] + unreleased[i][k]]]
  /\ unreleased' = [unreleased EXCEPT ![i] = Zero]
  /\ sweep' = IF i \in settled /\ sweep[i] = NoSweep
              THEN [sweep EXCEPT ![i] = SweepOf(dead)]
              ELSE sweep
  /\ UNCHANGED <<hash, phase, reachable, held, settled, silent, claimed, sockets, outages>>

BeatFails(i) ==
  /\ Alive(i) /\ i \notin reachable /\ i \in settled
  /\ settled' = settled \ {i}
  /\ UNCHANGED <<hash, lease, phase, reachable, memory, silent, claimed, sweep, sockets, outages>>

(* Mutant: a single heartbeat that reached Redis is enough. *)
SettlesAtOnce(i) ==
  /\ Alive(i) /\ i \in reachable /\ i \notin settled
  /\ settled' = settled \cup {i}
  /\ UNCHANGED <<hash, lease, phase, reachable, memory, silent, claimed, sweep, sockets, outages>>

(* A full TTL of heartbeats that reached Redis: every live peer that can     *)
(* reach it, and beats three times in a TTL, has beaten in it.               *)
Settles(i) ==
  LET missing == {j \in Instances : Alive(j) /\ lease[j] # "current"} IN
  /\ Alive(i) /\ i \in reachable /\ i \notin settled
  /\ i \notin missing /\ missing \cap reachable = {}
  /\ settled' = settled \cup {i}
  /\ silent' = silent \cup missing
  /\ UNCHANGED <<hash, lease, phase, reachable, memory, claimed, sweep, sockets, outages>>

(* A TTL without a heartbeat: the instance is gone, or cannot reach Redis,   *)
(* alone or with all the others, or stalls.                                  *)
Lapse(i) ==
  /\ lease[i] = "current"
  /\ Alive(i) => i \notin reachable
  /\ lease' = [lease EXCEPT ![i] = "lapsed"]
  /\ silent' = IF Alive(i) /\ settled \ {i} # {} THEN silent \cup {i} ELSE silent
  /\ UNCHANGED <<hash, phase, reachable, memory, settled, claimed, sweep, sockets, outages>>

(* CLAIM_LAPSED_SCRIPT, unless this instance has claimed the lapse before. *)
SweepClaim(i) ==
  /\ Alive(i) /\ i \in reachable /\ sweep[i].step = "claim"
  /\ \E d \in sweep[i].rest :
       IF d \in claimed[i] \/ lease[d] = "lapsed"
       THEN /\ sweep' = [sweep EXCEPT ![i] = [@ EXCEPT !.of = d, !.step = "read"]]
            /\ claimed' = [claimed EXCEPT ![i] = @ \cup {d}]
            /\ lease' = IF d \in claimed[i] THEN lease ELSE [lease EXCEPT ![d] = "none"]
       ELSE /\ sweep' = [sweep EXCEPT ![i] = SweepOf(sweep[i].rest \ {d})]
            /\ UNCHANGED <<claimed, lease>>
  /\ UNCHANGED <<hash, phase, reachable, memory, settled, silent, sockets, outages>>

SweepRead(i) ==
  /\ Alive(i) /\ i \in reachable /\ sweep[i].step = "read"
  /\ sweep' = [sweep EXCEPT ![i] = [@ EXCEPT !.keys = keySet[sweep[i].of], !.step = "fields"]]
  /\ UNCHANGED <<hash, lease, phase, reachable, memory, settled, silent, claimed, sockets, outages>>

SweepField(i) ==
  /\ Alive(i) /\ i \in reachable /\ sweep[i].step = "fields"
  /\ IF sweep[i].keys = {}
     THEN sweep' = [sweep EXCEPT ![i].step = "set"] /\ UNCHANGED field
     ELSE \E k \in sweep[i].keys :
            /\ field' = [field EXCEPT ![sweep[i].of][k] = 0]
            /\ sweep' = [sweep EXCEPT ![i].keys = @ \ {k}]
  /\ UNCHANGED <<keySet, lease, phase, reachable, memory, settled, silent, claimed, sockets, outages>>

SweepSet(i) ==
  /\ Alive(i) /\ i \in reachable /\ sweep[i].step = "set"
  /\ keySet' = [keySet EXCEPT ![sweep[i].of] = {}]
  /\ claimed' = [claimed EXCEPT ![i] = @ \ {sweep[i].of}]
  /\ sweep' = [sweep EXCEPT ![i] = SweepOf(sweep[i].rest \ {sweep[i].of})]
  /\ UNCHANGED <<field, lease, phase, reachable, memory, settled, silent, sockets, outages>>

(* What was claimed stays claimed, for the next heartbeat. *)
SweepFails(i) ==
  /\ Alive(i) /\ i \notin reachable /\ sweep[i].step # "idle"
  /\ sweep' = [sweep EXCEPT ![i] = NoSweep]
  /\ UNCHANGED <<hash, lease, phase, reachable, memory, settled, silent, claimed, sockets, outages>>

-----------------------------------------------------------------------------
Outage(cut) ==
  /\ reachable \cap cut # {} /\ outages < MaxOutages
  /\ reachable' = reachable \ cut /\ outages' = outages + 1
  /\ UNCHANGED <<hash, lease, phase, memory, sweeper, sockets>>

Recover(i) ==
  /\ i \notin reachable /\ reachable' = reachable \cup {i}
  /\ UNCHANGED <<hash, lease, phase, memory, sweeper, sockets, outages>>

Crash(i) ==
  /\ Alive(i) /\ Cardinality(Crashed) < MaxCrashes
  /\ phase' = [phase EXCEPT ![i] = "crashed"]
  /\ live' = [live EXCEPT ![i] = {i}]
  /\ held' = [held EXCEPT ![i] = Zero]
  /\ gives' = [gives EXCEPT ![i] = Zero]
  /\ unreleased' = [unreleased EXCEPT ![i] = Zero]
  /\ settled' = settled \ {i}
  /\ claimed' = [claimed EXCEPT ![i] = {}]
  /\ sweep' = [sweep EXCEPT ![i] = NoSweep]
  /\ take' = [h \in Handshakes |-> IF at[h] = i THEN NotTaking ELSE take[h]]
  /\ conn' = [h \in Handshakes |-> IF at[h] = i THEN "closed" ELSE conn[h]]
  /\ UNCHANGED <<hash, lease, reachable, silent, at, unseen, outages>>

Admission == \E h \in Handshakes :
  \/ Admit(h) \/ AdmitUncounted(h) \/ Increment(h) \/ TakeOrg(h) \/ Admitted(h)
  \/ Refused(h) \/ AdmissionDeadline(h) \/ TakeFails(h) \/ Close(h)
Release == \E i \in Instances, k \in Keys : GiveLands(i, k) \/ GiveFails(i, k)
Heartbeat == \E i \in Instances :
  \/ Start(i) \/ Beat(i) \/ BeatFails(i) \/ Settles(i) \/ Lapse(i)
  \/ SweepClaim(i) \/ SweepRead(i) \/ SweepField(i) \/ SweepSet(i) \/ SweepFails(i)
  \/ Crash(i)
Network ==
  \/ Outage(Instances)
  \/ \E i \in Instances : Outage({i}) \/ Recover(i)

Next == Admission \/ Release \/ Heartbeat \/ Network

Spec == Init /\ [][Next]_vars

-----------------------------------------------------------------------------
(* A count a crash may leave behind is under a key the sweep will find: the  *)
(* key is in the instance's set, whatever admissions and releases of the key *)
(* were in flight (connections.ts hold, drop and the order of SADD and       *)
(* SREM).  The sweep of an instance that is only silent empties its key set  *)
(* too, perhaps between the SADD of an admission and the increment.          *)
FieldsAreFound ==
  \A i \in Instances \ silent, k \in Keys : field[i][k] > 0 => k \in keySet[i]

(* No instance that is alive is counted for fewer connections than it holds: *)
(* not after an outage that let its lease lapse, nor after late takes and    *)
(* retried releases (connections.ts give, sweep, reachableSince).  One that  *)
(* alone is silent for a TTL, cut off or stalled, is swept like a crashed    *)
(* one, and what it holds is then not counted.                               *)
NeverUndercounted ==
  \A i \in Instances \ silent, k \in Keys : Alive(i) => field[i][k] >= Counted(i, k)

(* Connections admitted by instances that knew of every instance alive, none *)
(* of which had been silent, are never more than a cap, however their takes  *)
(* interleave (connections.ts take: increment first, check after).  Until    *)
(* the next heartbeat a new instance and its peers do not know of each       *)
(* other.                                                                    *)
CapHolds ==
  \A k \in Keys :
    Cardinality({h \in Handshakes : conn[h] = "counted" /\ h \notin unseen}) <= Cap[k]
=============================================================================
