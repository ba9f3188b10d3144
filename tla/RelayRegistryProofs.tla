-------------------------- MODULE RelayRegistryProofs --------------------------
(***************************************************************************)
(* Theorems about RelayRegistry for every number of instances, sockets,    *)
(* registrations and failures, checked by TLAPS: an entry that no worker   *)
(* stands behind is on its way out, and nobody erases that of a worker.    *)
(***************************************************************************)
EXTENDS RelayRegistry, TLAPS, SequenceTheorems

(***************************************************************************)
(* The inductive invariant.  A worker's socket stands for the target, and  *)
(* no generation in use is beyond the last one given.                      *)
(***************************************************************************)
Sent(i) == 1..Len(redis[i])
Is(i, n, command, g) == redis[i][n].command = command /\ redis[i][n].generation = g

WorkersOk ==
  \A i \in Instances :
    worker[i] # None => worker[i].socket \in bound /\ worker[i].generation = generation[i]

GenerationsOk ==
  /\ registry # None => registry.generation <= generation[registry.instance]
  /\ \A i \in Instances :
       /\ \A n \in Sent(i) : redis[i][n].generation <= generation[i]
       /\ heartbeat[i] # Idle => heartbeat[i].generation <= generation[i]

(* A heartbeat sends one command at a time and waits for it.                 *)
OfHeartbeat(i, n) == redis[i][n].command \in {"refresh", "reclaim"}

HeartbeatsWait ==
  \A i \in Instances : \A n \in Sent(i) : OfHeartbeat(i, n) =>
    /\ heartbeat[i].step = redis[i][n].command
    /\ heartbeat[i].generation = redis[i][n].generation
    /\ \A m \in Sent(i) : OfHeartbeat(i, m) => m = n

(* An entry on its way is that of the worker, or is followed by what         *)
(* replaces or removes it.                                                   *)
Stands(i, g) == worker[i] # None /\ worker[i].generation = g

Followed(i, n) ==
  \E m \in Sent(i) : m > n /\
    \/ Is(i, m, "del", redis[i][n].generation)
    \/ redis[i][m].command = "set" /\ redis[i][m].generation > redis[i][n].generation

WritesAreFollowed ==
  \A i \in Instances : \A n \in Sent(i) :
    redis[i][n].command \in {"set", "reclaim"} => Stands(i, redis[i][n].generation) \/ Followed(i, n)

(* A delete on its way is not of the worker.                                 *)
DeletesAreOld ==
  \A i \in Instances : \A n \in Sent(i) :
    redis[i][n].command = "del" => ~Stands(i, redis[i][n].generation)

(* What stands behind an entry: a worker, or a command on its way that     *)
(* removes or replaces it.                                                 *)
Leaving(i, g) ==
  \/ \E n \in Sent(i) : Is(i, n, "del", g)
  \/ \E n \in Sent(i) :
       redis[i][n].command = "set" /\ redis[i][n].generation \in (g + 1)..generation[i]
Backed(i, g) == Stands(i, g) \/ Leaving(i, g)

EntryIsBacked ==
  registry # None /\ Running(registry.instance) =>
    Backed(registry.instance, registry.generation) \/ registry \in missed

Behind ==
  /\ WorkersOk /\ GenerationsOk /\ HeartbeatsWait
  /\ WritesAreFollowed /\ DeletesAreOld /\ EntryIsBacked

(* A heartbeat's command is of the last registration when it is sent: what *)
(* was sent before it set no later entry and deletes another.              *)
HeartbeatsAreLater ==
  \A i \in Instances : \A m, n \in Sent(i) : m < n /\ OfHeartbeat(i, n) =>
    /\ redis[i][m].command = "set" => redis[i][m].generation <= redis[i][n].generation
    /\ redis[i][m].command = "del" => redis[i][m].generation # redis[i][n].generation

(* Nobody stands behind an entry whose removal failed, or will renew it.   *)
Gone(i, g) ==
  /\ g <= generation[i] /\ ~Stands(i, g)
  /\ \A n \in Sent(i) : OfHeartbeat(i, n) => redis[i][n].generation # g

MissedAreGone == \A e \in missed : Gone(e.instance, e.generation)

Missing == HeartbeatsAreLater /\ MissedAreGone

IInv == TypeOK /\ Behind /\ Missing

(***************************************************************************)
(* Types                                                                   *)
(***************************************************************************)
Worker == [socket: Sockets, generation: Nat]
Beat == [step: Steps, generation: Nat]
Command == [command: Commands, generation: Nat]

LEMMA Typed ==
  ASSUME TypeOK, NEW i \in Instances
  PROVE  /\ worker[i] = None \/ worker[i] \in Worker
         /\ worker[i] # None =>
              /\ worker[i].socket \in Sockets /\ worker[i].generation \in Nat
              /\ at[worker[i].socket] = i
              /\ conn[worker[i].socket] \in {"open", "dead"}
         /\ generation[i] \in Nat
         /\ heartbeat[i] = Idle \/ heartbeat[i] \in Beat
         /\ heartbeat[i].step # "idle" => heartbeat[i] \in Beat
         /\ redis[i] \in Seq(Command)
         /\ redis \in [Instances -> Seq(Command)]
<1>1. worker \in [Instances -> {None} \cup Worker]
  BY DEF TypeOK, Worker
<1>2. worker[i] # None => at[worker[i].socket] = i /\ conn[worker[i].socket] \in {"open", "dead"}
  BY DEF TypeOK
<1>3. \A w \in Worker : w.socket \in Sockets /\ w.generation \in Nat
  BY DEF Worker
<1>4. heartbeat \in [Instances -> {Idle} \cup Beat]
  BY DEF TypeOK, Beat
<1>5. redis \in [Instances -> Seq(Command)] /\ generation \in [Instances -> Nat]
  BY DEF TypeOK, Command
<1>6. Idle.step = "idle"
  BY DEF Idle
<1> QED
  BY <1>1, <1>2, <1>3, <1>4, <1>5, <1>6

LEMMA WorkerIs ==
  \A w \in Worker : w.socket \in Sockets /\ w.generation \in Nat /\ w # None
BY RegistryAssumption DEF Worker

LEMMA BeatIs ==
  /\ Idle.step = "idle"
  /\ \A b \in Beat : b.step \in Steps /\ b.generation \in Nat /\ b # Idle
  /\ \A x \in Steps, g \in Nat : [step |-> x, generation |-> g] \in Beat
BY DEF Idle, Beat, Steps

(* What has been sent stays, and the new command is the last.              *)
LEMMA SendsOne ==
  ASSUME TypeOK, NEW i \in Instances, NEW command \in Commands, NEW g \in Nat,
         Sends(i, command, g)
  PROVE  /\ redis' \in [Instances -> Seq(Command)]
         /\ \A j \in Instances \ {i} : redis'[j] = redis[j]
         /\ Len(redis[i]) \in Nat
         /\ Len(redis'[i]) = Len(redis[i]) + 1
         /\ \A n \in Sent(i) : redis'[i][n] = redis[i][n]
         /\ redis'[i][Len(redis[i]) + 1].command = command
         /\ redis'[i][Len(redis[i]) + 1].generation = g
<1> DEFINE c == [command |-> command, generation |-> g]
<1>1. c \in Command /\ redis[i] \in Seq(Command) /\ redis \in [Instances -> Seq(Command)]
  BY Typed DEF Command
<1>2. c.command = command /\ c.generation = g
  OBVIOUS
<1>3. redis' = [redis EXCEPT ![i] = Append(redis[i], c)]
  BY DEF Sends
<1> HIDE DEF c
<1> QED
  BY <1>1, <1>2, <1>3 DEF Sent

(* What is left keeps its order.                                           *)
LEMMA RunsOne ==
  ASSUME TypeOK, NEW i \in Instances, redis[i] # <<>>,
         redis' = [redis EXCEPT ![i] = Tail(@)]
  PROVE  /\ redis' \in [Instances -> Seq(Command)]
         /\ \A j \in Instances \ {i} : redis'[j] = redis[j]
         /\ Len(redis[i]) \in Nat \ {0}
         /\ Len(redis'[i]) = Len(redis[i]) - 1
         /\ \A n \in Sent(i)' : n \in Nat \ {0} /\ n + 1 \in Sent(i) /\ redis'[i][n] = redis[i][n + 1]
         /\ Head(redis[i]) = redis[i][1] /\ 1 \in Sent(i) /\ redis[i][1] \in Command
         /\ \A n \in Sent(i) : n # 1 => n - 1 \in Sent(i)' /\ redis'[i][n - 1] = redis[i][n]
<1>1. redis[i] \in Seq(Command) /\ redis \in [Instances -> Seq(Command)]
  BY Typed
<1> QED
  BY <1>1 DEF Sent
(***************************************************************************)
(* Type correctness                                                        *)
(***************************************************************************)
LEMMA InitHolds == Init => IInv
<1> SUFFICES ASSUME Init PROVE IInv
  OBVIOUS
<1>1. TypeOK
  <2>1. redis \in [Instances -> Seq([command: Commands, generation: Nat])]
    BY DEF Init
  <2>2. /\ heartbeat \in [Instances -> {Idle} \cup [step: Steps, generation: Nat]]
        /\ worker \in [Instances -> {None} \cup [socket: Sockets, generation: Nat]]
    BY DEF Init
  <2>3. faults \in 0..(MaxFaults + MaxFailures)
    BY RegistryAssumption DEF Init
  <2> QED
    BY <2>1, <2>2, <2>3 DEF Init, TypeOK
<1>2. \A i \in Instances : Len(redis[i]) = 0 /\ Sent(i) = {}
  BY DEF Init, Sent
<1>3. \A i \in Instances : worker[i] = None /\ heartbeat[i] = Idle
  BY DEF Init
<1>4. registry = None /\ missed = {}
  BY DEF Init
<1> QED
  BY <1>1, <1>2, <1>3, <1>4
  DEF IInv, Behind, WorkersOk, GenerationsOk, HeartbeatsWait, WritesAreFollowed, DeletesAreOld,
      EntryIsBacked, Missing, HeartbeatsAreLater, MissedAreGone

(* The type invariant in parts. *)
RelayOk ==
  /\ conn \in [Sockets -> {"none", "open", "dead", "closed"}]
  /\ at \in [Sockets -> Instances]
  /\ bound \in SUBSET Sockets
  /\ worker \in [Instances -> {None} \cup Worker]
  /\ \A i \in Instances : worker[i] # None =>
       at[worker[i].socket] = i /\ conn[worker[i].socket] \in {"open", "dead"}
  /\ generation \in [Instances -> Nat]
QueueOk == redis \in [Instances -> Seq(Command)]
BeatOk == heartbeat \in [Instances -> {Idle} \cup Beat]
ApiOk ==
  /\ phase \in [Instances -> {"up", "sweeping", "swept", "down"}]
  /\ requests \in SUBSET ({"hello", "disconnect", "presence"} \X Sockets)
  /\ answered \in SUBSET Sockets
  /\ online \in BOOLEAN /\ fresh \in BOOLEAN
  /\ faults \in 0..(MaxFaults + MaxFailures)
EntriesOk ==
  registry \in {None} \cup Entries /\ peer \in {None} \cup Entries /\ missed \in SUBSET Entries

LEMMA TypeParts == TypeOK <=> RelayOk /\ QueueOk /\ BeatOk /\ ApiOk /\ EntriesOk
BY DEF TypeOK, RelayOk, QueueOk, BeatOk, ApiOk, EntriesOk, Worker, Command, Beat

LEMMA RelayTypes ==
  ASSUME TypeOK, WorkersOk, [Next]_vars
  PROVE  RelayOk'
<1>0. RelayOk
  BY TypeParts
<1> USE <1>0, WorkerIs DEF RelayOk, relay
<1>1. CASE Connect
  <2>1. conn' \in [Sockets -> {"none", "open", "dead", "closed"}]
    BY <1>1 DEF Connect
  <2>2. \A s \in Sockets : conn[s] \in {"open", "dead"} => conn'[s] \in {"open", "dead"}
    BY <1>1 DEF Connect
  <2>3. UNCHANGED <<at, bound, worker, generation>>
    BY <1>1 DEF Connect
  <2> QED
    BY <2>1, <2>2, <2>3
<1>2. ASSUME NEW s \in Sockets, RegisterWorker(s)
      PROVE  RelayOk'
  <2>1. CASE Connected(s)
    <3> DEFINE w == [socket |-> s, generation |-> generation[at[s]] + 1]
    <3>1. w \in Worker /\ w.socket = s
      BY DEF Worker
    <3>2. worker' = [worker EXCEPT ![at[s]] = w] /\ UNCHANGED <<conn, at>>
      BY <1>2, <2>1 DEF RegisterWorker
    <3> HIDE DEF w
    <3>3. /\ worker' \in [Instances -> {None} \cup Worker]
          /\ \A i \in Instances : worker'[i] # None =>
               at[worker'[i].socket] = i /\ conn[worker'[i].socket] \in {"open", "dead"}
      BY <2>1, <3>1, <3>2 DEF Connected
    <3>4. bound' \in SUBSET Sockets /\ generation' \in [Instances -> Nat]
      BY <1>2, <2>1 DEF RegisterWorker
    <3> QED
      BY <3>2, <3>3, <3>4
  <2>2. CASE ~Connected(s)
    BY <1>2, <2>2 DEF RegisterWorker
  <2> QED
    BY <2>1, <2>2
<1>3. ASSUME NEW s \in Sockets, SocketCloses(s)
      PROVE  RelayOk'
  <2>1. conn' = [conn EXCEPT ![s] = "closed"] /\ UNCHANGED <<at, generation>> /\ bound' \in SUBSET Sockets
    BY <1>3 DEF SocketCloses
  <2>2. CASE s \in bound /\ worker[at[s]] # None /\ worker[at[s]].socket = s
    BY <1>3, <2>1, <2>2 DEF SocketCloses
  <2>3. CASE ~(s \in bound /\ worker[at[s]] # None /\ worker[at[s]].socket = s)
    <3>1. UNCHANGED worker
      BY <1>3, <2>3 DEF SocketCloses
    <3>2. \A i \in Instances : worker[i] # None => worker[i].socket # s
      BY <2>3 DEF WorkersOk
    <3> QED
      BY <2>1, <3>1, <3>2
  <2> QED
    BY <2>2, <2>3
<1>4. ASSUME NEW i \in Instances, Stops(i)
      PROVE  RelayOk'
  <2>1. conn' \in [Sockets -> {"none", "open", "dead", "closed"}]
    BY <1>4 DEF Stops
  <2>2. \A s \in Sockets : at[s] # i => conn'[s] = conn[s]
    BY <1>4 DEF Stops
  <2>3. /\ worker' = [worker EXCEPT ![i] = None] /\ UNCHANGED <<at, generation>>
        /\ bound' \in SUBSET Sockets
    BY <1>4 DEF Stops
  <2> QED
    BY <2>1, <2>2, <2>3
<1>5. CASE UNCHANGED relay
  BY <1>5
<1>6. ASSUME NEW s \in Sockets, Leave(s)
      PROVE  RelayOk'
  BY <1>6 DEF Leave
<1> QED
  BY <1>1, <1>2, <1>3, <1>4, <1>5, <1>6
  DEF Next, SocketStep, InstanceStep, vars, Hello, HelloLands, PresenceLands, DisconnectLands,
      Probe, ProbeFails, ProbeAcked, Heal, Healed, RedisRuns, RedisFails, PeerLookup, Crash, SweepReads,
      SweepDeletes, Exit, Lapse, PeerAnswers, GoesStale, MarkStaleTargetsOffline

LEMMA QueueTypes ==
  ASSUME TypeOK, [Next]_vars
  PROVE  QueueOk'
<1>0. QueueOk
  BY TypeParts
<1> USE <1>0 DEF QueueOk, store
<1>1. ASSUME NEW i \in Instances, NEW c \in Commands, NEW g \in Nat, Sends(i, c, g)
      PROVE  QueueOk'
  BY <1>1, SendsOne
<1>2. ASSUME NEW s \in Sockets, RegisterWorker(s)
      PROVE  QueueOk'
  <2>1. at[s] \in Instances
    BY TypeParts DEF RelayOk
  <2>2. "set" \in Commands /\ generation[at[s]] + 1 \in Nat
    BY <2>1, Typed DEF Commands
  <2> QED
    BY <1>1, <1>2, <2>1, <2>2 DEF RegisterWorker
<1>3. ASSUME NEW s \in Sockets, SocketCloses(s)
      PROVE  QueueOk'
  <2>1. at[s] \in Instances /\ "del" \in Commands
    BY TypeParts DEF RelayOk, Commands
  <2>2. worker[at[s]] # None => worker[at[s]].generation \in Nat
    BY <2>1, Typed
  <2> QED
    BY <1>1, <1>3, <2>1, <2>2 DEF SocketCloses
<1>4. ASSUME NEW i \in Instances, ProbeAcked(i) \/ Heal(i) \/ Healed(i)
      PROVE  QueueOk'
  <2>1. heartbeat[i].step # "idle"
    BY <1>4 DEF ProbeAcked, Heal, Healed
  <2>2. heartbeat[i].generation \in Nat /\ {"refresh", "reclaim", "del"} \subseteq Commands
    BY <2>1, Typed, BeatIs DEF Commands
  <2> QED
    BY <1>1, <1>4, <2>2 DEF ProbeAcked, Heal, Healed
<1>5. ASSUME NEW i \in Instances, RedisRuns(i) \/ RedisFails(i)
      PROVE  QueueOk'
  BY <1>5, RunsOne DEF RedisRuns, RedisFails
<1>6. ASSUME NEW i \in Instances, Stops(i)
      PROVE  QueueOk'
  BY <1>6 DEF Stops
<1>7. CASE UNCHANGED redis
  BY <1>7
<1> QED
  BY <1>2, <1>3, <1>4, <1>5, <1>6, <1>7
  DEF Next, SocketStep, InstanceStep, vars, Connect, Leave, Hello, HelloLands, PresenceLands,
      DisconnectLands, Probe, ProbeFails, PeerLookup, Crash, SweepReads, SweepDeletes, Exit, Lapse,
      PeerAnswers, GoesStale, MarkStaleTargetsOffline

LEMMA BeatTypes ==
  ASSUME TypeOK, HeartbeatsWait, [Next]_vars
  PROVE  BeatOk'
<1>0. BeatOk
  BY TypeParts
<1> USE <1>0, BeatIs DEF BeatOk
<1>1. ASSUME NEW i \in Instances, NEW b \in {Idle} \cup Beat, heartbeat' = [heartbeat EXCEPT ![i] = b]
      PROVE  BeatOk'
  BY <1>1
<1>2. ASSUME NEW i \in Instances, NEW x \in Steps, heartbeat[i].step # "idle",
             heartbeat' = [heartbeat EXCEPT ![i].step = x]
      PROVE  BeatOk'
  <2>1. [heartbeat[i] EXCEPT !.step = x] \in Beat
    BY <1>2 DEF Beat
  <2>2. heartbeat' = [heartbeat EXCEPT ![i] = [heartbeat[i] EXCEPT !.step = x]]
    BY <1>2
  <2> QED
    BY <1>1, <2>1, <2>2
<1>3. ASSUME NEW i \in Instances, Probe(i)
      PROVE  BeatOk'
  BY <1>1, <1>3, Typed DEF Probe, Steps
<1>4. ASSUME NEW i \in Instances, ProbeFails(i) \/ ProbeAcked(i) \/ Heal(i) \/ Healed(i) \/ Stops(i)
      PROVE  BeatOk'
  BY <1>1, <1>2, <1>4 DEF ProbeFails, ProbeAcked, Heal, Healed, Stops, Steps
<1>5. ASSUME NEW i \in Instances, RedisRuns(i) \/ RedisFails(i)
      PROVE  BeatOk'
  <2>1. 1 \in Sent(i) /\ Head(redis[i]) = redis[i][1]
    BY <1>5, RunsOne DEF RedisRuns, RedisFails
  <2>2. Head(redis[i]).command \in {"refresh", "reclaim"} => heartbeat[i].step # "idle"
    BY <2>1 DEF HeartbeatsWait, OfHeartbeat
  <2>3. CASE RedisRuns(i)
    BY <1>1, <1>2, <2>2, <2>3 DEF RedisRuns, Steps
  <2>4. CASE RedisFails(i)
    <3>1. \/ Head(redis[i]).command = "refresh" /\ heartbeat' = [heartbeat EXCEPT ![i].step = "refused"]
          \/ heartbeat' = [heartbeat EXCEPT ![i] = Idle]
          \/ heartbeat' = heartbeat
      BY <2>4 DEF RedisFails
    <3> QED
      BY <1>1, <1>2, <2>2, <3>1 DEF Steps
  <2> QED
    BY <1>5, <2>3, <2>4
<1>6. ASSUME NEW s \in Sockets, PresenceLands(s)
      PROVE  BeatOk'
  <2>1. at[s] \in Instances
    BY TypeParts DEF RelayOk
  <2> QED
    BY <1>2, <1>6, <2>1 DEF PresenceLands, Steps
<1>7. CASE UNCHANGED heartbeat
  BY <1>7
<1> QED
  BY <1>3, <1>4, <1>5, <1>6, <1>7
  DEF Next, SocketStep, InstanceStep, vars, Connect, Leave, Hello, HelloLands, RegisterWorker,
      SocketCloses, DisconnectLands, PeerLookup, Crash, SweepReads, SweepDeletes, Exit, Lapse,
      PeerAnswers, GoesStale, MarkStaleTargetsOffline

LEMMA ApiTypes ==
  ASSUME TypeOK, [Next]_vars
  PROVE  ApiOk'
<1>0. ApiOk
  BY TypeParts
<1>1. phase' \in [Instances -> {"up", "sweeping", "swept", "down"}]
  <2>1. ASSUME NEW i \in Instances, NEW x \in {"up", "sweeping", "swept", "down"},
               phase' = [phase EXCEPT ![i] = x]
        PROVE  phase' \in [Instances -> {"up", "sweeping", "swept", "down"}]
    BY <1>0, <2>1 DEF ApiOk
  <2>2. ASSUME NEW i \in Instances, Crash(i) \/ SweepReads(i) \/ SweepDeletes(i) \/ Exit(i)
        PROVE  phase' \in [Instances -> {"up", "sweeping", "swept", "down"}]
    BY <2>1, <2>2 DEF Crash, SweepReads, SweepDeletes, Exit, Stops
  <2>3. CASE UNCHANGED phase
    BY <1>0, <2>3 DEF ApiOk
  <2> QED
    BY <2>2, <2>3
    DEF Next, SocketStep, InstanceStep, vars, Connect, Leave, Hello, RegisterWorker, SocketCloses,
        HelloLands, PresenceLands, DisconnectLands, Probe, ProbeFails, ProbeAcked, Heal, Healed,
        RedisRuns, RedisFails, PeerLookup, Lapse, PeerAnswers, GoesStale, MarkStaleTargetsOffline
<1>2. requests' \in SUBSET ({"hello", "disconnect", "presence"} \X Sockets)
  <2>1. ASSUME NEW i \in Instances, Probe(i)
        PROVE  requests' \in SUBSET ({"hello", "disconnect", "presence"} \X Sockets)
    BY <1>0, <2>1, Typed DEF ApiOk, Probe
  <2>2. ASSUME NEW s \in Sockets, SocketStep(s)
        PROVE  requests' \in SUBSET ({"hello", "disconnect", "presence"} \X Sockets)
    <3>1. requests' \subseteq requests \cup {<<"hello", s>>, <<"disconnect", s>>}
      BY <2>2
      DEF SocketStep, Leave, Hello, RegisterWorker, SocketCloses, HelloLands, PresenceLands,
          DisconnectLands, api
    <3> QED
      BY <1>0, <3>1 DEF ApiOk
  <2>3. CASE UNCHANGED requests
    BY <1>0, <2>3 DEF ApiOk
  <2> QED
    BY <2>1, <2>2, <2>3
    DEF Next, InstanceStep, vars, api, Connect, ProbeFails, ProbeAcked, Heal, Healed, RedisRuns,
        RedisFails, PeerLookup, Crash, SweepReads, SweepDeletes, Exit, Stops, Lapse, PeerAnswers, GoesStale,
        MarkStaleTargetsOffline
<1>3. answered' \in SUBSET Sockets
  <2>1. CASE \/ \E s \in Sockets : RegisterWorker(s) \/ HelloLands(s)
             \/ \E i \in Instances : Stops(i)
    BY <1>0, <2>1 DEF ApiOk, RegisterWorker, HelloLands, Stops
  <2>2. CASE UNCHANGED answered
    BY <1>0, <2>2 DEF ApiOk
  <2> QED
    BY <2>1, <2>2
    DEF Next, SocketStep, InstanceStep, vars, Connect, Leave, Hello, SocketCloses, PresenceLands,
        DisconnectLands, Probe, ProbeFails, ProbeAcked, Heal, Healed, RedisRuns, RedisFails, PeerLookup, Crash,
        SweepReads, SweepDeletes, Exit, Lapse, PeerAnswers, GoesStale, MarkStaleTargetsOffline
<1>4. online' \in BOOLEAN /\ fresh' \in BOOLEAN
  <2>1. CASE \/ \E s \in Sockets : HelloLands(s) \/ PresenceLands(s) \/ DisconnectLands(s)
             \/ GoesStale \/ MarkStaleTargetsOffline
    BY <1>0, <2>1
    DEF ApiOk, HelloLands, PresenceLands, DisconnectLands, GoesStale, MarkStaleTargetsOffline
  <2>2. CASE UNCHANGED <<online, fresh>>
    BY <1>0, <2>2 DEF ApiOk
  <2> QED
    BY <2>1, <2>2
    DEF Next, SocketStep, InstanceStep, vars, api, Connect, Leave, Hello, SocketCloses,
        RegisterWorker, Probe, ProbeFails, ProbeAcked, Heal, Healed, RedisRuns, RedisFails, PeerLookup, Crash,
        SweepReads, SweepDeletes, Exit, Stops, Lapse, PeerAnswers
<1>5. faults' \in 0..(MaxFaults + MaxFailures)
  <2>1. faults \in 0..(MaxFaults + MaxFailures) /\ MaxFaults \in Nat /\ MaxFailures \in Nat
    BY <1>0, RegistryAssumption DEF ApiOk
  <2>2. faults' = faults \/ ((faults < MaxFaults \/ faults < MaxFailures) /\ faults' = faults + 1)
    <3>1. CASE \/ \E s \in Sockets : SocketCloses(s)
               \/ \E i \in Instances : ProbeFails(i) \/ RedisFails(i)
               \/ Lapse
      BY <3>1 DEF SocketCloses, ProbeFails, RedisFails, Lapse
    <3>2. CASE UNCHANGED faults
      BY <3>2
    <3> QED
      BY <3>1, <3>2
      DEF Next, SocketStep, InstanceStep, vars, Connect, Leave, Hello, RegisterWorker, HelloLands,
          PresenceLands, DisconnectLands, Probe, ProbeAcked, Heal, Healed, RedisRuns, RedisFails, PeerLookup,
          Crash, SweepReads, SweepDeletes, Exit, Stops, PeerAnswers, GoesStale,
          MarkStaleTargetsOffline
  <2> QED
    BY <2>1, <2>2
<1> QED
  BY <1>1, <1>2, <1>3, <1>4, <1>5 DEF ApiOk

LEMMA EntryIs ==
  ASSUME NEW i \in Instances, NEW g \in Nat
  PROVE  EntryOf(i, g) \in Entries /\ EntryOf(i, g) # None
         /\ EntryOf(i, g).instance = i /\ EntryOf(i, g).generation = g
BY RegistryAssumption DEF EntryOf, Entries

LEMMA EntryTypes ==
  ASSUME TypeOK, [Next]_vars
  PROVE  EntriesOk'
<1>0. EntriesOk
  BY TypeParts
<1>1. ASSUME NEW i \in Instances, RedisRuns(i) \/ RedisFails(i)
      PROVE  EntriesOk'
  <2>1. Head(redis[i]).generation \in Nat
    BY <1>1, RunsOne DEF RedisRuns, RedisFails, Command
  <2>2. EntryOf(i, Head(redis[i]).generation) \in Entries
    BY <2>1, EntryIs
  <2>3. registry' \in {registry, None, EntryOf(i, Head(redis[i]).generation)} /\ peer' = peer
    BY <1>1 DEF RedisRuns, RedisFails, Deleted, Reclaimed
  <2>4. missed' = missed \/ (registry # None /\ missed' = missed \cup {registry})
    BY <1>1 DEF RedisRuns, RedisFails, Removes
  <2> QED
    BY <1>0, <2>2, <2>3, <2>4 DEF EntriesOk
<1>2. CASE /\ registry' = registry \/ registry' = None
           /\ peer' = peer \/ peer' = registry \/ peer' = None
           /\ missed' = missed
  BY <1>0, <1>2 DEF EntriesOk
<1> QED
  BY <1>0, <1>1, <1>2
  DEF EntriesOk, Next, SocketStep, InstanceStep, vars, store, Connect, Leave, Hello, RegisterWorker,
      SocketCloses, HelloLands, PresenceLands, DisconnectLands, Probe, ProbeFails, ProbeAcked, Heal,
      Healed, PeerLookup, Crash, SweepReads, SweepDeletes, Exit, Stops, Lapse, PeerAnswers,
      GoesStale, MarkStaleTargetsOffline, Deleted

LEMMA TypeStep ==
  ASSUME TypeOK, WorkersOk, HeartbeatsWait, [Next]_vars
  PROVE  TypeOK'
<1>1. RelayOk' /\ QueueOk' /\ BeatOk' /\ ApiOk' /\ EntriesOk'
  BY RelayTypes, QueueTypes, BeatTypes, ApiTypes, EntryTypes
<1> QED
  BY <1>1 DEF TypeOK, RelayOk, QueueOk, BeatOk, ApiOk, EntriesOk, Worker, Command, Beat

(***************************************************************************)
(* What stands behind an entry                                             *)
(***************************************************************************)
LEMMA GhostsAreBacked == EntryIsBacked /\ MissedAreGone => GhostIsCleanedUp
<1>1. \A i, g : Leaving(i, g) <=>
        Pending(i, "del", g) \/ (\E h \in (g + 1)..generation[i] : Pending(i, "set", h))
  BY DEF Leaving, Pending, Sent, Is
<1>2. \A i, g : Gone(i, g) => ~Pending(i, "refresh", g) /\ ~Pending(i, "reclaim", g)
  BY DEF Gone, Pending, Sent, OfHeartbeat
<1> QED
  BY <1>1, <1>2 DEF GhostIsCleanedUp, EntryIsBacked, MissedAreGone, Backed, Stands

LEMMA EntryTyped ==
  ASSUME TypeOK, registry # None
  PROVE  registry.instance \in Instances /\ registry.generation \in Nat
BY DEF TypeOK, Entries

LEMMA SentTyped ==
  ASSUME TypeOK, NEW i \in Instances
  PROVE  /\ Len(redis[i]) \in Nat
         /\ \A n \in Sent(i) : n \in Nat /\ redis[i][n].command \in Commands
                               /\ redis[i][n].generation \in Nat
<1>1. redis[i] \in Seq(Command)
  BY Typed
<1>2. \A c \in Command : c.command \in Commands /\ c.generation \in Nat
  BY DEF Command
<1> QED
  BY <1>1, <1>2 DEF Sent

(* A new command leaves what follows and what leaves as they are.          *)
LEMMA SendingKeeps ==
  ASSUME TypeOK, NEW i \in Instances, NEW command \in Commands, NEW g \in Nat,
         Sends(i, command, g), generation[i] <= generation'[i], generation'[i] \in Nat,
         NEW j \in Instances, j # i => generation'[j] = generation[j]
  PROVE  /\ \A n \in Sent(j) : n \in Sent(j)' /\ redis'[j][n] = redis[j][n]
         /\ \A n \in Sent(j) : Followed(j, n) => Followed(j, n)'
         /\ \A h \in Nat : Leaving(j, h) => Leaving(j, h)'
         /\ \A n \in Sent(j)' : n \in Sent(j) \/ (j = i /\ n = Len(redis[i]) + 1)
         /\ Len(redis[i]) + 1 \in Sent(i)'
         /\ redis'[i][Len(redis[i]) + 1].command = command
         /\ redis'[i][Len(redis[i]) + 1].generation = g
         /\ \A n \in Sent(i) : Len(redis[i]) + 1 > n
<1>1. /\ \A n \in Sent(j) : n \in Sent(j)' /\ redis'[j][n] = redis[j][n]
      /\ \A n \in Sent(j)' : n \in Sent(j) \/ (j = i /\ n = Len(redis[i]) + 1)
      /\ Len(redis[i]) + 1 \in Sent(i)'
      /\ redis'[i][Len(redis[i]) + 1].command = command
      /\ redis'[i][Len(redis[i]) + 1].generation = g
      /\ \A n \in Sent(i) : Len(redis[i]) + 1 > n
  <2> DEFINE l == Len(redis[i])
  <2>1. /\ l \in Nat /\ Len(redis'[i]) = l + 1
        /\ \A n \in Sent(i) : redis'[i][n] = redis[i][n]
        /\ redis'[i][l + 1].command = command /\ redis'[i][l + 1].generation = g
        /\ j # i => redis'[j] = redis[j]
    BY SendsOne
  <2> HIDE DEF l
  <2>2. Sent(i) = 1..l /\ Sent(i)' = 1..(l + 1)
    BY <2>1 DEF Sent, l
  <2>3. j # i => Sent(j)' = Sent(j)
    BY <2>1 DEF Sent
  <2>4. l + 1 \in Sent(i)' /\ \A n \in Sent(i) : l + 1 > n
    BY <2>1, <2>2
  <2>5. /\ \A n \in Sent(j) : n \in Sent(j)' /\ redis'[j][n] = redis[j][n]
        /\ \A n \in Sent(j)' : n \in Sent(j) \/ (j = i /\ n = l + 1)
    <3>1. CASE j # i
      BY <2>1, <2>3, <3>1
    <3>2. CASE j = i
      <4>1. /\ \A n \in 1..l : n \in 1..(l + 1)
            /\ \A n \in 1..(l + 1) : n \in 1..l \/ n = l + 1
        BY <2>1
      <4> QED
        BY <2>1, <2>2, <3>2, <4>1
    <3> QED
      BY <3>1, <3>2
  <2> QED
    BY <2>1, <2>4, <2>5 DEF l
<1>2. \A n \in Sent(j) : Followed(j, n) => Followed(j, n)'
  BY <1>1 DEF Followed, Is
<1>3. generation[j] <= generation'[j] /\ generation[j] \in Nat /\ generation'[j] \in Nat
  BY Typed
<1>4. \A h \in Nat : Leaving(j, h) => Leaving(j, h)'
  BY <1>1, <1>3, SentTyped, SMTT(20) DEF Leaving, Is
<1> QED
  BY <1>1, <1>2, <1>4

(***************************************************************************)
(* Steps that change no worker and send nothing                            *)
(***************************************************************************)
LEMMA Quiet ==
  ASSUME TypeOK, Behind, UNCHANGED <<bound, worker, generation, heartbeat, redis, missed>>,
         registry' \in {registry, None}, \A i \in Instances : Running(i)' => Running(i)
  PROVE  Behind'
<1>1. WorkersOk' /\ DeletesAreOld'
  BY DEF Behind, WorkersOk, DeletesAreOld, Stands, Sent
<1>2. GenerationsOk'
  BY DEF Behind, GenerationsOk, Sent
<1>3. HeartbeatsWait' /\ WritesAreFollowed'
  BY DEF Behind, HeartbeatsWait, OfHeartbeat, WritesAreFollowed, Stands, Followed, Is, Sent
<1>4. EntryIsBacked'
  <2> SUFFICES ASSUME registry' # None, Running(registry.instance)'
               PROVE  (Backed(registry.instance, registry.generation) \/ registry \in missed)'
    BY DEF EntryIsBacked
  <2>1. registry' = registry /\ Running(registry.instance)
    BY EntryTyped
  <2>2. Backed(registry.instance, registry.generation) \/ registry \in missed
    BY <2>1 DEF Behind, EntryIsBacked
  <2> QED
    BY <2>1, <2>2 DEF Backed, Stands, Leaving, Is, Sent
<1> QED
  BY <1>1, <1>2, <1>3, <1>4 DEF Behind

(* A heartbeat that waits for no command and has nothing to roll back.     *)
LEMMA BeatMoves ==
  ASSUME TypeOK, Behind, NEW i \in Instances, NEW b \in {Idle} \cup Beat,
         heartbeat' = [heartbeat EXCEPT ![i] = b],
         heartbeat[i].step \notin {"refresh", "reclaim", "reclaimed"},
         b # Idle => b.generation <= generation[i],
         UNCHANGED <<bound, worker, generation, redis, registry, missed, phase>>
  PROVE  Behind'
<1>1. WorkersOk' /\ DeletesAreOld' /\ WritesAreFollowed'
  BY DEF Behind, WorkersOk, DeletesAreOld, Stands, WritesAreFollowed, Followed, Is, Sent
<1>2. heartbeat'[i] = b /\ \A j \in Instances : j # i => heartbeat'[j] = heartbeat[j]
  BY DEF TypeOK
<1>3. GenerationsOk'
  BY <1>2 DEF Behind, GenerationsOk, Sent
<1>4. \A n \in Sent(i) : ~OfHeartbeat(i, n)
  BY DEF Behind, HeartbeatsWait, OfHeartbeat
<1>5. HeartbeatsWait'
  BY <1>2, <1>4 DEF Behind, HeartbeatsWait, OfHeartbeat, Sent
<1>6. EntryIsBacked'
  <2> SUFFICES ASSUME registry # None, Running(registry.instance)
               PROVE  (Backed(registry.instance, registry.generation) \/ registry \in missed)'
    BY DEF EntryIsBacked, Running
  <2>1. Backed(registry.instance, registry.generation) \/ registry \in missed
    BY DEF Behind, EntryIsBacked
  <2>2. registry.instance \in Instances
    BY EntryTyped
  <2> QED
    BY <1>2, <2>1, <2>2 DEF Backed, Stands, Leaving, Is, Sent
<1> QED
  BY <1>1, <1>3, <1>5, <1>6 DEF Behind

(* One command of the heartbeat is sent, and the heartbeat waits for it.   *)
LEMMA BeatSends ==
  ASSUME TypeOK, Behind, NEW i \in Instances, NEW x \in {"refresh", "reclaim"},
         heartbeat[i].step \in {"acked", "refused"},
         heartbeat' = [heartbeat EXCEPT ![i].step = x],
         Sends(i, x, heartbeat[i].generation), Stands(i, heartbeat[i].generation),
         UNCHANGED <<bound, worker, generation, registry, missed, phase>>
  PROVE  Behind'
<1> DEFINE g == heartbeat[i].generation
           l == Len(redis[i])
<1>1. heartbeat[i] \in Beat /\ g \in Nat /\ x \in Commands /\ x \in Steps
      /\ heartbeat[i] # Idle
  BY Typed, BeatIs DEF Commands, Steps
<1>2. /\ heartbeat'[i].step = x /\ heartbeat'[i].generation = g /\ heartbeat'[i] # Idle
      /\ \A j \in Instances : j # i => heartbeat'[j] = heartbeat[j]
  <2>1. heartbeat' = [heartbeat EXCEPT ![i] = [heartbeat[i] EXCEPT !.step = x]]
    OBVIOUS
  <2>2. [heartbeat[i] EXCEPT !.step = x] \in Beat
    BY <1>1 DEF Beat
  <2>3. [heartbeat[i] EXCEPT !.step = x].step = x /\ [heartbeat[i] EXCEPT !.step = x].generation = g
    BY <1>1 DEF Beat
  <2>4. heartbeat'[i] = [heartbeat[i] EXCEPT !.step = x]
        /\ \A j \in Instances : j # i => heartbeat'[j] = heartbeat[j]
    BY <2>1 DEF TypeOK
  <2> QED
    BY <2>2, <2>3, <2>4, BeatIs
<1>3. \A j \in Instances : generation'[j] = generation[j] /\ generation[j] \in Nat
  BY Typed
<1>4. \A j \in Instances :
        /\ \A n \in Sent(j) : n \in Sent(j)' /\ redis'[j][n] = redis[j][n]
        /\ \A n \in Sent(j) : Followed(j, n) => Followed(j, n)'
        /\ \A h \in Nat : Leaving(j, h) => Leaving(j, h)'
        /\ \A n \in Sent(j)' : n \in Sent(j) \/ (j = i /\ n = l + 1)
        /\ redis'[i][l + 1].command = x /\ redis'[i][l + 1].generation = g
  BY <1>1, <1>3, SendingKeeps
<1>5. \A n \in Sent(i) : ~OfHeartbeat(i, n)
  BY DEF Behind, HeartbeatsWait, OfHeartbeat
<1> HIDE DEF g, l
<1>6. WorkersOk'
  BY DEF Behind, WorkersOk
<1>7. DeletesAreOld' /\ WritesAreFollowed'
  <2>1. Stands(i, g) /\ \A j \in Instances, h \in Nat : Stands(j, h)' <=> Stands(j, h)
    BY DEF Stands, g
  <2>2. DeletesAreOld'
    BY <1>4 DEF Behind, DeletesAreOld, Stands
  <2>3. WritesAreFollowed'
    <3> SUFFICES ASSUME NEW j \in Instances, NEW n \in Sent(j)',
                        redis'[j][n].command \in {"set", "reclaim"}
                 PROVE  (Stands(j, redis[j][n].generation) \/ Followed(j, n))'
      BY DEF WritesAreFollowed
    <3>1. CASE n \in Sent(j)
      <4>1. redis'[j][n] = redis[j][n] /\ redis[j][n].generation \in Nat
        BY <1>4, <3>1, SentTyped
      <4>2. Stands(j, redis[j][n].generation) \/ Followed(j, n)
        BY <3>1, <4>1 DEF Behind, WritesAreFollowed
      <4> QED
        BY <1>4, <2>1, <3>1, <4>1, <4>2
    <3>2. CASE n \notin Sent(j)
      <4>1. j = i /\ n = l + 1
        BY <1>4, <3>2
      <4>2. redis'[j][n].generation = g
        BY <1>4, <4>1
      <4> QED
        BY <2>1, <4>1, <4>2 DEF Stands
    <3> QED
      BY <3>1, <3>2
  <2> QED
    BY <2>2, <2>3
<1>8. GenerationsOk'
  BY <1>1, <1>2, <1>4 DEF Behind, GenerationsOk, g
<1>9. HeartbeatsWait'
  BY <1>2, <1>4, <1>5 DEF Behind, HeartbeatsWait, OfHeartbeat
<1>10. EntryIsBacked'
  <2> SUFFICES ASSUME registry # None, Running(registry.instance)
               PROVE  (Backed(registry.instance, registry.generation) \/ registry \in missed)'
    BY DEF EntryIsBacked, Running
  <2>1. Backed(registry.instance, registry.generation) \/ registry \in missed
    BY DEF Behind, EntryIsBacked
  <2> QED
    BY <1>2, <1>4, <2>1, EntryTyped DEF Backed, Stands
<1> QED
  BY <1>6, <1>7, <1>8, <1>9, <1>10 DEF Behind

LEMMA HealedStep ==
  ASSUME TypeOK, Behind, NEW i \in Instances, Healed(i)
  PROVE  Behind'
<1>1. PICK g \in Nat : g = heartbeat[i].generation
  BY Typed, BeatIs DEF Healed
<1>2. /\ heartbeat[i].step = "reclaimed" /\ heartbeat[i] # Idle
      /\ heartbeat'[i] = Idle /\ \A j \in Instances : j # i => heartbeat'[j] = heartbeat[j]
      /\ UNCHANGED <<bound, worker, generation, registry, missed, phase>>
  BY BeatIs DEF Healed, relay, TypeOK, Idle
<1>3. \A n \in Sent(i) : ~OfHeartbeat(i, n)
  BY <1>2 DEF Behind, HeartbeatsWait, OfHeartbeat
<1>4. \A j \in Instances : generation'[j] = generation[j] /\ generation[j] \in Nat
  BY <1>2, Typed
<1>5. WorkersOk'
  BY <1>2 DEF Behind, WorkersOk
<1>6. CASE Stands(i, g)
  <2>1. UNCHANGED redis
    BY <1>1, <1>6 DEF Healed, StillCurrent, Stands
  <2>2. DeletesAreOld' /\ WritesAreFollowed' /\ GenerationsOk' /\ HeartbeatsWait'
    BY <1>2, <1>3, <2>1
    DEF Behind, DeletesAreOld, WritesAreFollowed, Followed, Stands, GenerationsOk, HeartbeatsWait,
        OfHeartbeat, Is, Sent
  <2>3. EntryIsBacked'
    BY <1>2, <2>1 DEF Behind, EntryIsBacked, Running, Backed, Stands, Leaving, Is, Sent
  <2> QED
    BY <1>5, <2>2, <2>3 DEF Behind
<1>7. CASE ~Stands(i, g)
  <2> DEFINE l == Len(redis[i])
  <2>1. Sends(i, "del", g) /\ "del" \in Commands
    BY <1>1, <1>7 DEF Healed, StillCurrent, Stands, Commands
  <2>2. \A j \in Instances :
          /\ \A n \in Sent(j) : n \in Sent(j)' /\ redis'[j][n] = redis[j][n]
          /\ \A n \in Sent(j) : Followed(j, n) => Followed(j, n)'
          /\ \A h \in Nat : Leaving(j, h) => Leaving(j, h)'
          /\ \A n \in Sent(j)' : n \in Sent(j) \/ (j = i /\ n = l + 1)
          /\ l + 1 \in Sent(i)'
          /\ redis'[i][l + 1].command = "del" /\ redis'[i][l + 1].generation = g
    BY <1>4, <2>1, SendingKeeps
  <2> HIDE DEF l
  <2>3. g <= generation[i]
    BY <1>1, <1>2 DEF Behind, GenerationsOk
  <2>4. DeletesAreOld' /\ WritesAreFollowed'
    BY <1>2, <1>7, <2>2 DEF Behind, DeletesAreOld, WritesAreFollowed, Stands
  <2>5. GenerationsOk'
    BY <1>2, <2>2, <2>3 DEF Behind, GenerationsOk
  <2>6. HeartbeatsWait'
    BY <1>2, <1>3, <2>2 DEF Behind, HeartbeatsWait, OfHeartbeat
  <2>7. EntryIsBacked'
    <3> SUFFICES ASSUME registry # None, Running(registry.instance)
                 PROVE  (Backed(registry.instance, registry.generation) \/ registry \in missed)'
      BY <1>2 DEF EntryIsBacked, Running
    <3>1. Backed(registry.instance, registry.generation) \/ registry \in missed
      BY DEF Behind, EntryIsBacked
    <3> QED
      BY <1>2, <2>2, <3>1, EntryTyped DEF Backed, Stands
  <2> QED
    BY <1>5, <2>4, <2>5, <2>6, <2>7 DEF Behind
<1> QED
  BY <1>6, <1>7

LEMMA RegisterStep ==
  ASSUME TypeOK, Behind, NEW s \in Sockets, RegisterWorker(s), Connected(s)
  PROVE  Behind'
<1>1. PICK i \in Instances : i = at[s]
  BY DEF TypeOK
<1>2. PICK g \in Nat : g = generation[i] + 1
  BY Typed
<1> DEFINE l == Len(redis[i])
           w == [socket |-> s, generation |-> g]
<1>3. /\ generation' = [generation EXCEPT ![i] = g]
      /\ worker' = [worker EXCEPT ![i] = w]
      /\ Sends(i, "set", g) /\ "set" \in Commands
      /\ UNCHANGED <<heartbeat, registry, missed, phase>>
      /\ bound' = (bound \ (IF worker[i] = None THEN {} ELSE {worker[i].socket} \ {s})) \cup {s}
  BY <1>1, <1>2 DEF RegisterWorker, Commands
<1>4. w \in Worker /\ w # None /\ w.socket = s /\ w.generation = g
  BY <1>2, WorkerIs DEF Worker
<1> HIDE DEF w
<1>5. /\ generation'[i] = g /\ worker'[i] = w /\ g > generation[i] /\ generation[i] \in Nat
      /\ \A j \in Instances : j # i => generation'[j] = generation[j] /\ worker'[j] = worker[j]
  BY <1>2, <1>3 DEF TypeOK
<1>6. \A j \in Instances :
        /\ \A n \in Sent(j) : n \in Sent(j)' /\ redis'[j][n] = redis[j][n]
        /\ \A n \in Sent(j) : Followed(j, n) => Followed(j, n)'
        /\ \A h \in Nat : Leaving(j, h) => Leaving(j, h)'
        /\ \A n \in Sent(j)' : n \in Sent(j) \/ (j = i /\ n = l + 1)
        /\ l + 1 \in Sent(i)' /\ \A n \in Sent(i) : l + 1 > n
        /\ redis'[i][l + 1].command = "set" /\ redis'[i][l + 1].generation = g
  BY <1>2, <1>3, <1>5, SendingKeeps
<1> HIDE DEF l
<1>7. WorkersOk'
  <2>1. \A j \in Instances : j # i /\ worker[j] # None => worker[j].socket \in bound'
    BY <1>1, <1>3, Typed DEF Behind, WorkersOk
  <2>2. s \in bound'
    BY <1>3
  <2> QED
    BY <1>2, <1>4, <1>5, <2>1, <2>2 DEF Behind, WorkersOk
<1>8. \A n \in Sent(i) : redis[i][n].generation \in Nat /\ redis[i][n].generation <= generation[i]
  BY SentTyped DEF Behind, GenerationsOk
<1>9. GenerationsOk'
  <2>1. registry # None => registry.generation <= generation'[registry.instance]
    BY <1>2, <1>5, EntryTyped DEF Behind, GenerationsOk
  <2>2. \A j \in Instances : \A n \in Sent(j)' : redis'[j][n].generation <= generation'[j]
    BY <1>2, <1>5, <1>6, <1>8 DEF Behind, GenerationsOk
  <2>3. \A j \in Instances : heartbeat[j] # Idle => heartbeat[j].generation <= generation'[j]
    BY <1>2, <1>5, Typed, BeatIs DEF Behind, GenerationsOk
  <2> QED
    BY <1>3, <2>1, <2>2, <2>3 DEF GenerationsOk
<1>10. HeartbeatsWait'
  BY <1>3, <1>6 DEF Behind, HeartbeatsWait, OfHeartbeat
<1>11. DeletesAreOld'
  BY <1>2, <1>4, <1>5, <1>6, <1>8 DEF Behind, DeletesAreOld, Stands
<1>12. WritesAreFollowed'
  <2>1. \A n \in Sent(i) : Followed(i, n)'
    BY <1>2, <1>5, <1>6, <1>8 DEF Followed
  <2> QED
    BY <1>4, <1>5, <1>6, <2>1 DEF Behind, WritesAreFollowed, Stands
<1>13. EntryIsBacked'
  <2> SUFFICES ASSUME registry # None, Running(registry.instance)
               PROVE  (Backed(registry.instance, registry.generation) \/ registry \in missed)'
    BY <1>3 DEF EntryIsBacked, Running
  <2>1. Backed(registry.instance, registry.generation) \/ registry \in missed
    BY DEF Behind, EntryIsBacked
  <2>2. \A h \in Nat : h <= generation[i] => Leaving(i, h)'
    BY <1>2, <1>5, <1>6 DEF Leaving
  <2>3. registry.generation \in Nat /\ registry.generation <= generation[registry.instance]
        /\ registry.instance \in Instances
    BY EntryTyped DEF Behind, GenerationsOk
  <2>4. CASE registry.instance = i
    BY <1>3, <2>2, <2>3, <2>4 DEF Backed
  <2>5. CASE registry.instance # i
    BY <1>3, <1>5, <1>6, <2>1, <2>3, <2>5 DEF Backed, Stands
  <2> QED
    BY <2>4, <2>5
<1> QED
  BY <1>7, <1>9, <1>10, <1>11, <1>12, <1>13 DEF Behind

LEMMA ClosesStep ==
  ASSUME TypeOK, Behind, NEW s \in Sockets, SocketCloses(s)
  PROVE  Behind'
<1>1. PICK i \in Instances : i = at[s]
  BY DEF TypeOK
<1>2. UNCHANGED <<generation, heartbeat, registry, missed, phase>> /\ bound' = bound \ {s}
  BY DEF SocketCloses
<1>3. \A j \in Instances : worker[j] # None /\ worker[j].socket = s => j = i
  BY <1>1, Typed
<1>4. CASE worker[i] # None /\ worker[i].socket = s
  <2>1. PICK g \in Nat : g = worker[i].generation
    BY <1>4, Typed
  <2> DEFINE l == Len(redis[i])
  <2>2. s \in bound
    BY <1>4 DEF Behind, WorkersOk
  <2>3. /\ worker' = [worker EXCEPT ![i] = None]
        /\ Sends(i, "del", g) /\ "del" \in Commands
    BY <1>1, <1>4, <2>1, <2>2 DEF SocketCloses, Commands
  <2>4. /\ worker'[i] = None
        /\ \A j \in Instances : j # i => worker'[j] = worker[j]
        /\ \A j \in Instances : generation'[j] = generation[j] /\ generation[j] \in Nat
    BY <1>2, <2>3, Typed DEF TypeOK
  <2>5. \A j \in Instances :
          /\ \A n \in Sent(j) : n \in Sent(j)' /\ redis'[j][n] = redis[j][n]
          /\ \A n \in Sent(j) : Followed(j, n) => Followed(j, n)'
          /\ \A h \in Nat : Leaving(j, h) => Leaving(j, h)'
          /\ \A n \in Sent(j)' : n \in Sent(j) \/ (j = i /\ n = l + 1)
          /\ l + 1 \in Sent(i)' /\ \A n \in Sent(i) : l + 1 > n
          /\ redis'[i][l + 1].command = "del" /\ redis'[i][l + 1].generation = g
    BY <2>3, <2>4, SendingKeeps
  <2> HIDE DEF l
  <2>6. WorkersOk'
    BY <1>2, <1>3, <2>4 DEF Behind, WorkersOk
  <2>7. g <= generation[i]
    BY <1>4, <2>1 DEF Behind, WorkersOk
  <2>8. GenerationsOk' /\ HeartbeatsWait'
    BY <1>2, <2>5, <2>7 DEF Behind, GenerationsOk, HeartbeatsWait, OfHeartbeat
  <2>9. DeletesAreOld'
    BY <2>4, <2>5 DEF Behind, DeletesAreOld, Stands
  <2>10. WritesAreFollowed'
    <3>1. \A n \in Sent(i) : Stands(i, redis[i][n].generation) => Followed(i, n)'
      BY <2>1, <2>5 DEF Stands, Followed, Is
    <3> QED
      BY <2>4, <2>5, <3>1 DEF Behind, WritesAreFollowed, Stands
  <2>11. EntryIsBacked'
    <3> SUFFICES ASSUME registry # None, Running(registry.instance)
                 PROVE  (Backed(registry.instance, registry.generation) \/ registry \in missed)'
      BY <1>2 DEF EntryIsBacked, Running
    <3>1. Backed(registry.instance, registry.generation) \/ registry \in missed
      BY DEF Behind, EntryIsBacked
    <3>2. Leaving(i, g)'
      BY <2>5 DEF Leaving, Is
    <3> QED
      BY <1>2, <2>1, <2>4, <2>5, <3>1, <3>2, EntryTyped DEF Backed, Stands
  <2> QED
    BY <2>6, <2>8, <2>9, <2>10, <2>11 DEF Behind
<1>5. CASE ~(worker[i] # None /\ worker[i].socket = s)
  <2>1. UNCHANGED <<worker, redis>>
    BY <1>1, <1>5 DEF SocketCloses
  <2>2. WorkersOk'
    BY <1>2, <1>3, <1>5, <2>1 DEF Behind, WorkersOk
  <2>3. GenerationsOk' /\ HeartbeatsWait' /\ DeletesAreOld' /\ WritesAreFollowed' /\ EntryIsBacked'
    BY <1>2, <2>1
    DEF Behind, GenerationsOk, HeartbeatsWait, OfHeartbeat, DeletesAreOld, WritesAreFollowed, Stands,
        Followed, EntryIsBacked, Backed, Leaving, Running, Is, Sent
  <2> QED
    BY <2>2, <2>3 DEF Behind
<1> QED
  BY <1>4, <1>5

LEMMA StopsStep ==
  ASSUME TypeOK, Behind, NEW i \in Instances, Stops(i)
  PROVE  Behind'
<1>1. /\ UNCHANGED <<generation, registry, missed, at>>
      /\ worker'[i] = None /\ heartbeat'[i] = Idle /\ redis'[i] = <<>> /\ ~Running(i)'
      /\ \A j \in Instances : j # i =>
           worker'[j] = worker[j] /\ heartbeat'[j] = heartbeat[j] /\ redis'[j] = redis[j]
           /\ phase'[j] = phase[j]
      /\ bound' = {s \in bound : at[s] # i}
  BY DEF Stops, TypeOK, Running
<1>2. Sent(i)' = {}
  <2>1. Len(redis'[i]) = 0
    BY <1>1
  <2> QED
    BY <2>1 DEF Sent
<1>3. WorkersOk'
  BY <1>1, Typed DEF Behind, WorkersOk
<1>4. GenerationsOk' /\ HeartbeatsWait'
  <2>1. \A j \in Instances : j # i => Sent(j)' = Sent(j)
    BY <1>1 DEF Sent
  <2> QED
    BY <1>1, <1>2, <2>1 DEF Behind, GenerationsOk, HeartbeatsWait, OfHeartbeat
<1>5. DeletesAreOld' /\ WritesAreFollowed'
  <2>1. \A j \in Instances : j # i => Sent(j)' = Sent(j)
    BY <1>1 DEF Sent
  <2> QED
    BY <1>1, <1>2, <2>1 DEF Behind, DeletesAreOld, WritesAreFollowed, Stands, Followed, Is
<1>6. EntryIsBacked'
  <2> SUFFICES ASSUME registry # None, Running(registry.instance)'
               PROVE  (Backed(registry.instance, registry.generation) \/ registry \in missed)'
    BY <1>1 DEF EntryIsBacked
  <2>1. registry.instance \in Instances /\ registry.instance # i /\ registry' = registry
    BY <1>1, EntryTyped
  <2>2. Running(registry.instance)
    BY <1>1, <2>1 DEF Running
  <2>3. Backed(registry.instance, registry.generation) \/ registry \in missed
    BY <2>2 DEF Behind, EntryIsBacked
  <2> QED
    BY <1>1, <2>1, <2>3 DEF Backed, Stands, Leaving, Is, Sent
<1> QED
  BY <1>3, <1>4, <1>5, <1>6 DEF Behind

(* The first command of an instance runs, or fails.                        *)
LEMMA RunsStep ==
  ASSUME TypeOK, Behind, NEW i \in Instances, RedisRuns(i) \/ RedisFails(i)
  PROVE  Behind'
<1>1. PICK x \in Commands, g \in Nat : x = redis[i][1].command /\ g = redis[i][1].generation
  BY RunsOne DEF RedisRuns, RedisFails, Command
<1>2. /\ UNCHANGED <<bound, worker, generation, phase>>
      /\ redis[i] # <<>> /\ redis' = [redis EXCEPT ![i] = Tail(@)]
  BY DEF RedisRuns, RedisFails, relay
<1>3. /\ \A j \in Instances \ {i} : redis'[j] = redis[j] /\ Sent(j)' = Sent(j)
      /\ \A n \in Sent(i)' : n \in Nat \ {0} /\ n + 1 \in Sent(i) /\ redis'[i][n] = redis[i][n + 1]
      /\ 1 \in Sent(i) /\ Head(redis[i]) = redis[i][1]
      /\ \A n \in Sent(i) : n # 1 => n - 1 \in Sent(i)' /\ redis'[i][n - 1] = redis[i][n]
  BY <1>2, RunsOne DEF Sent
<1>4. \A n \in Sent(i)' : Followed(i, n + 1) => Followed(i, n)'
  <2> SUFFICES ASSUME NEW n \in Sent(i)', NEW m \in Sent(i), m > n + 1,
                      \/ Is(i, m, "del", redis[i][n + 1].generation)
                      \/ /\ redis[i][m].command = "set"
                         /\ redis[i][m].generation > redis[i][n + 1].generation
               PROVE  Followed(i, n)'
    BY DEF Followed
  <2>1. m # 1 /\ n \in Nat /\ m \in Nat /\ m - 1 > n
    BY <1>3, SentTyped
  <2>2. m - 1 \in Sent(i)' /\ redis'[i][m - 1] = redis[i][m] /\ redis'[i][n] = redis[i][n + 1]
    BY <1>3, <2>1
  <2> QED
    BY <2>1, <2>2 DEF Followed, Is
<1>5. \A h \in Nat : Leaving(i, h) =>
        \/ Leaving(i, h)'
        \/ x = "del" /\ g = h
        \/ x = "set" /\ g \in (h + 1)..generation[i]
  <2> SUFFICES ASSUME NEW h \in Nat, NEW n \in Sent(i),
                      \/ Is(i, n, "del", h)
                      \/ redis[i][n].command = "set" /\ redis[i][n].generation \in (h + 1)..generation[i]
               PROVE  \/ Leaving(i, h)'
                      \/ x = "del" /\ g = h
                      \/ x = "set" /\ g \in (h + 1)..generation[i]
    BY DEF Leaving
  <2>1. CASE n = 1
    BY <1>1, <2>1 DEF Is
  <2>2. CASE n # 1
    <3>1. PICK m \in Sent(i)' : redis'[i][m] = redis[i][n]
      BY <1>3, <2>2
    <3>2. generation'[i] = generation[i]
      BY <1>2
    <3>3. \/ redis'[i][m].command = "del" /\ redis'[i][m].generation = h
          \/ redis'[i][m].command = "set" /\ redis'[i][m].generation \in (h + 1)..generation'[i]
      BY <3>1, <3>2 DEF Is
    <3> QED
      BY <3>3 DEF Leaving, Is
  <2> QED
    BY <2>1, <2>2
<1>6. \A j \in Instances, h \in Nat : j # i /\ Leaving(j, h) => Leaving(j, h)'
  BY <1>2, <1>3 DEF Leaving, Is
<1>7. WorkersOk'
  BY <1>2 DEF Behind, WorkersOk
<1>8. \A j \in Instances : \A n \in Sent(j)' : \E m \in Sent(j) : redis'[j][n] = redis[j][m]
  <2> SUFFICES ASSUME NEW j \in Instances, NEW n \in Sent(j)'
               PROVE  \E m \in Sent(j) : redis'[j][n] = redis[j][m]
    OBVIOUS
  <2>1. CASE j = i
    BY <1>3, <2>1
  <2>2. CASE j # i
    BY <1>3, <2>2
  <2> QED
    BY <2>1, <2>2
<1>8a. DeletesAreOld'
  <2> SUFFICES ASSUME NEW j \in Instances, NEW n \in Sent(j)', redis'[j][n].command = "del"
               PROVE  ~Stands(j, redis[j][n].generation)'
    BY DEF DeletesAreOld
  <2>1. PICK m \in Sent(j) : redis'[j][n] = redis[j][m]
    BY <1>8
  <2>2. ~Stands(j, redis[j][m].generation)
    BY <2>1 DEF Behind, DeletesAreOld
  <2> QED
    BY <1>2, <2>1, <2>2 DEF Stands
<1>9. WritesAreFollowed'
  <2>1. \A j \in Instances, n \in Nat : j # i /\ Followed(j, n) => Followed(j, n)'
    BY <1>3 DEF Followed, Is
  <2>2. \A j \in Instances : \A n \in Sent(j)' :
          redis'[j][n].command \in {"set", "reclaim"} => Stands(j, redis'[j][n].generation) \/ Followed(j, n)'
    <3> SUFFICES ASSUME NEW j \in Instances, NEW n \in Sent(j)', redis'[j][n].command \in {"set", "reclaim"}
                 PROVE  Stands(j, redis'[j][n].generation) \/ Followed(j, n)'
      OBVIOUS
    <3>1. CASE j = i
      BY <1>3, <1>4, <3>1 DEF Behind, WritesAreFollowed
    <3>2. CASE j # i
      <4>1. n \in Sent(j) /\ redis'[j] = redis[j] /\ n \in Nat
        BY <1>3, <3>2, SentTyped
      <4> QED
        BY <2>1, <3>2, <4>1 DEF Behind, WritesAreFollowed
    <3> QED
      BY <3>1, <3>2
  <2> QED
    BY <1>2, <2>2 DEF WritesAreFollowed, Stands
<1>10. \A j \in Instances : \A n \in Sent(j)' : redis'[j][n].generation <= generation'[j]
  BY <1>2, <1>8 DEF Behind, GenerationsOk
<1>11. g <= generation[i] /\ generation[i] \in Nat /\ generation' = generation
  BY <1>1, <1>2, <1>3, Typed DEF Behind, GenerationsOk
<1>12. x \in {"refresh", "reclaim"} =>
         /\ heartbeat[i].step = x /\ heartbeat[i].generation = g
         /\ heartbeat[i] \in Beat /\ heartbeat[i] # Idle
         /\ \A n \in Sent(i)' : ~OfHeartbeat(i, n)'
  <2>1. x \in {"refresh", "reclaim"} =>
          /\ heartbeat[i].step = x /\ heartbeat[i].generation = g
          /\ \A n \in Sent(i) : OfHeartbeat(i, n) => n = 1
    BY <1>1, <1>3 DEF Behind, HeartbeatsWait, OfHeartbeat
  <2>2. \A n \in Sent(i)' : n + 1 # 1 /\ (OfHeartbeat(i, n)' <=> OfHeartbeat(i, n + 1))
    BY <1>3 DEF OfHeartbeat
  <2> QED
    BY <1>3, <2>1, <2>2, Typed, BeatIs
<1> DEFINE entry == EntryOf(i, g)
<1>13. /\ registry' = registry \/ (x \in {"set", "reclaim"} /\ registry' = entry)
         \/ (x = "del" /\ registry' = None)
       /\ \/ heartbeat' = heartbeat /\ x \in {"set", "del"}
          \/ heartbeat' = [heartbeat EXCEPT ![i] = Idle] /\ x \in {"refresh", "reclaim"}
          \/ /\ x \in {"refresh", "reclaim"}
             /\ \E y \in {"refused", "reclaimed"} : heartbeat' = [heartbeat EXCEPT ![i].step = y]
       /\ missed \subseteq missed'
       /\ registry' = registry /\ registry # None /\ registry.instance = i =>
            /\ x = "del" /\ registry.generation = g => registry \in missed'
            /\ x = "set" /\ registry.generation < g => registry \in missed'
  <2>1. CASE RedisRuns(i)
    <3>1. /\ x = "set" => registry' = entry /\ heartbeat' = heartbeat
          /\ x = "del" => registry' = Deleted(entry) /\ heartbeat' = heartbeat
          /\ x = "refresh" => registry' = registry /\ heartbeat' =
               IF registry = entry THEN [heartbeat EXCEPT ![i] = Idle]
               ELSE [heartbeat EXCEPT ![i].step = "refused"]
          /\ x = "reclaim" => registry' = Reclaimed(entry) /\ heartbeat' =
               IF registry' = entry THEN [heartbeat EXCEPT ![i].step = "reclaimed"]
               ELSE [heartbeat EXCEPT ![i] = Idle]
          /\ missed' = missed
      BY <1>1, <1>3, <2>1 DEF RedisRuns
    <3>2. registry # None /\ registry.instance = i /\ registry.generation = g => registry = entry
      BY DEF TypeOK, Entries, EntryOf
    <3>3. entry # None /\ entry.generation = g
      BY EntryIs
    <3> HIDE DEF entry
    <3> QED
      BY <3>1, <3>2, <3>3 DEF Deleted, Reclaimed, Commands
  <2>2. CASE RedisFails(i)
    <3>1. /\ registry' = registry \/ (x = "reclaim" /\ registry' = Reclaimed(entry))
          /\ heartbeat' = CASE x = "refresh" -> [heartbeat EXCEPT ![i].step = "refused"]
                            [] x = "reclaim" -> [heartbeat EXCEPT ![i] = Idle]
                            [] OTHER -> heartbeat
          /\ missed' = IF Removes(i, redis[i][1], registry) THEN missed \cup {registry} ELSE missed
      BY <1>1, <1>3, <2>2 DEF RedisFails
    <3> HIDE DEF entry
    <3> QED
      BY <1>1, <3>1 DEF Reclaimed, Commands, Removes
  <2> QED
    BY <2>1, <2>2
<1>14. entry # None /\ entry.instance = i /\ entry.generation = g
  BY EntryIs
<1> HIDE DEF entry
<1>15. registry' \in {None, registry, entry}
  BY <1>13
<1>16. \A j \in Instances : j # i => heartbeat'[j] = heartbeat[j]
  BY <1>13 DEF TypeOK
<1>17. heartbeat'[i] = heartbeat[i] \/ heartbeat'[i] = Idle
       \/ (heartbeat'[i] # Idle /\ heartbeat'[i].generation = g)
  <2>1. ASSUME NEW y \in {"refused", "reclaimed"}, x \in {"refresh", "reclaim"},
               heartbeat' = [heartbeat EXCEPT ![i].step = y]
        PROVE  heartbeat'[i].step = y /\ heartbeat'[i].generation = g /\ heartbeat'[i] # Idle
    BY <1>12, <2>1 DEF TypeOK, Beat, Idle
  <2> QED
    BY <1>13, <2>1 DEF TypeOK
<1>18. GenerationsOk'
  BY <1>10, <1>11, <1>14, <1>15, <1>16, <1>17 DEF Behind, GenerationsOk
<1>19. HeartbeatsWait'
  <2>1. CASE x \in {"refresh", "reclaim"}
    BY <1>3, <1>12, <1>16, <2>1 DEF Behind, HeartbeatsWait, OfHeartbeat
  <2>2. CASE x \notin {"refresh", "reclaim"}
    BY <1>3, <1>13, <2>2 DEF Behind, HeartbeatsWait, OfHeartbeat
  <2> QED
    BY <2>1, <2>2
<1>20. EntryIsBacked'
  <2> SUFFICES ASSUME registry' # None, Running(registry.instance)'
               PROVE  (Backed(registry.instance, registry.generation) \/ registry \in missed)'
    BY DEF EntryIsBacked
  <2>1. CASE x \in {"set", "reclaim"} /\ registry' = entry
    <3>1. Stands(i, g) \/ Followed(i, 1)
      BY <1>1, <1>3, <2>1 DEF Behind, WritesAreFollowed
    <3>2. Followed(i, 1) => Leaving(i, g)'
      <4> SUFFICES ASSUME NEW m \in Sent(i), m > 1,
                          Is(i, m, "del", g) \/ (redis[i][m].command = "set" /\ redis[i][m].generation > g)
                   PROVE  Leaving(i, g)'
        BY <1>1 DEF Followed
      <4>1. m - 1 \in Sent(i)' /\ redis'[i][m - 1] = redis[i][m]
        BY <1>3
      <4>2. redis[i][m].generation \in Nat /\ redis[i][m].generation <= generation[i]
        BY SentTyped DEF Behind, GenerationsOk
      <4> QED
        BY <1>11, <4>1, <4>2 DEF Leaving, Is
    <3>3. Backed(i, g)'
      BY <1>2, <3>1, <3>2 DEF Backed, Stands
    <3> QED
      BY <1>14, <2>1, <3>3
  <2>2. CASE registry' = registry
    <3>1. PICK j \in Instances, h \in Nat : j = registry.instance /\ h = registry.generation
      BY <2>2, EntryTyped
    <3>2. Backed(j, h) \/ registry \in missed
      BY <1>2, <2>2, <3>1 DEF Behind, EntryIsBacked, Running
    <3>3. Stands(j, h) => Stands(j, h)'
      BY <1>2 DEF Stands
    <3>4. Leaving(j, h) => Leaving(j, h)' \/ registry \in missed'
      <4>1. CASE j # i
        BY <1>6, <4>1
      <4>2. CASE j = i
        <5>1. x = "set" /\ g \in (h + 1)..generation[i] => registry \in missed'
          BY <1>11, <1>13, <2>2, <3>1, <4>2
        <5>2. x = "del" /\ g = h => registry \in missed'
          BY <1>13, <2>2, <3>1, <4>2
        <5> QED
          BY <1>5, <4>2, <5>1, <5>2
      <4> QED
        BY <4>1, <4>2
    <3> QED
      BY <1>13, <2>2, <3>1, <3>2, <3>3, <3>4 DEF Backed
  <2> QED
    BY <1>13, <2>1, <2>2
<1> QED
  BY <1>7, <1>8a, <1>9, <1>18, <1>19, <1>20 DEF Behind

(***************************************************************************)
(* The theorems                                                            *)
(***************************************************************************)
LEMMA BehindStep ==
  ASSUME TypeOK, Behind, [Next]_vars
  PROVE  Behind'
<1> USE DEF relay, store
<1>1. ASSUME NEW s \in Sockets, SocketStep(s)
      PROVE  Behind'
  <2>1. CASE Leave(s) \/ Hello(s) \/ HelloLands(s) \/ DisconnectLands(s)
    BY <2>1, Quiet DEF Leave, Hello, HelloLands, DisconnectLands, Running
  <2>2. CASE RegisterWorker(s)
    <3>1. CASE Connected(s)
      BY <2>2, <3>1, RegisterStep
    <3>2. CASE ~Connected(s)
      BY <2>2, <3>2, Quiet DEF RegisterWorker, Running
    <3> QED
      BY <3>1, <3>2
  <2>3. CASE SocketCloses(s)
    BY <2>3, ClosesStep
  <2>4. CASE PresenceLands(s)
    <3>1. PICK i \in Instances : i = at[s]
      BY DEF TypeOK
    <3>2. CASE heartbeat[i].step = "probe"
      <4> DEFINE b == [heartbeat[i] EXCEPT !.step = "acked"]
      <4>1. heartbeat[i] \in Beat /\ heartbeat[i] # Idle
        BY <3>2, Typed, BeatIs
      <4>2. b \in Beat /\ b.generation = heartbeat[i].generation
        BY <4>1 DEF Beat, Steps
      <4>3. heartbeat' = [heartbeat EXCEPT ![i] = b]
        BY <2>4, <3>1, <3>2 DEF PresenceLands
      <4>4. b.generation <= generation[i]
        BY <4>1, <4>2 DEF Behind, GenerationsOk
      <4>5. UNCHANGED <<bound, worker, generation, redis, registry, missed, phase>>
        BY <2>4 DEF PresenceLands
      <4> HIDE DEF b
      <4> QED
        BY <3>2, <4>2, <4>3, <4>4, <4>5, BeatMoves
    <3>3. CASE heartbeat[i].step # "probe"
      BY <2>4, <3>1, <3>3, Quiet DEF PresenceLands, Running
    <3> QED
      BY <3>2, <3>3
  <2> QED
    BY <1>1, <2>1, <2>2, <2>3, <2>4 DEF SocketStep
<1>2. ASSUME NEW i \in Instances, InstanceStep(i)
      PROVE  Behind'
  <2>1. CASE Probe(i)
    <3> DEFINE b == [step |-> "probe", generation |-> worker[i].generation]
    <3>1. worker[i].generation \in Nat /\ worker[i].generation <= generation[i]
      BY <2>1, Typed DEF Probe, Behind, WorkersOk
    <3>2. b \in Beat /\ b.generation <= generation[i]
      BY <3>1, BeatIs DEF Steps
    <3>3. /\ heartbeat' = [heartbeat EXCEPT ![i] = b] /\ heartbeat[i].step = "idle"
          /\ UNCHANGED <<bound, worker, generation, redis, registry, missed, phase>>
      BY <2>1, BeatIs DEF Probe
    <3> HIDE DEF b
    <3> QED
      BY <3>2, <3>3, BeatMoves
  <2>2. CASE ProbeFails(i)
    BY <2>2, BeatMoves DEF ProbeFails
  <2>3. CASE ProbeAcked(i) \/ Heal(i)
    <3>1. /\ heartbeat[i].step \in {"acked", "refused"}
          /\ UNCHANGED <<bound, worker, generation, registry, missed, phase>>
      BY <2>3 DEF ProbeAcked, Heal
    <3>2. CASE heartbeat' = [heartbeat EXCEPT ![i] = Idle] /\ UNCHANGED redis
      BY <3>1, <3>2, BeatMoves
    <3>3. ASSUME NEW x \in {"refresh", "reclaim"}, heartbeat' = [heartbeat EXCEPT ![i].step = x],
                 Sends(i, x, heartbeat[i].generation), StillCurrent(i)
          PROVE  Behind'
      BY <3>1, <3>3, BeatSends DEF StillCurrent, Stands
    <3> QED
      BY <2>3, <3>2, <3>3 DEF ProbeAcked, Heal
  <2>4. CASE Healed(i)
    BY <2>4, HealedStep
  <2>5. CASE RedisRuns(i) \/ RedisFails(i)
    BY <2>5, RunsStep
  <2>6. CASE PeerLookup(i)
    BY <2>6, Quiet DEF PeerLookup, Running
  <2>7. CASE Crash(i) \/ Exit(i)
    BY <2>7, StopsStep DEF Crash, Exit
  <2>8. CASE SweepReads(i) \/ SweepDeletes(i)
    <3>1. \A j \in Instances : Running(j)' => Running(j)
      BY <2>8 DEF SweepReads, SweepDeletes, Running, TypeOK
    <3> QED
      BY <2>8, <3>1, Quiet DEF SweepReads, SweepDeletes
  <2> QED
    BY <1>2, <2>1, <2>2, <2>3, <2>4, <2>5, <2>6, <2>7, <2>8 DEF InstanceStep
<1>3. CASE Connect \/ Lapse \/ PeerAnswers \/ GoesStale \/ MarkStaleTargetsOffline \/ UNCHANGED vars
  BY <1>3, Quiet
  DEF Connect, Lapse, PeerAnswers, GoesStale, MarkStaleTargetsOffline, vars, Running, Deleted
<1> QED
  BY <1>1, <1>2, <1>3 DEF Next

(***************************************************************************)
(* What failed to remove an entry leaves it to lapse.                      *)
(***************************************************************************)
LEMMA SendKeepsMissing ==
  ASSUME TypeOK, Behind, Missing, NEW i \in Instances, NEW c \in Commands, NEW g \in Nat,
         Sends(i, c, g), missed' = missed,
         c \in {"refresh", "reclaim"} => Stands(i, g),
         \A j \in Instances : generation'[j] \in Nat /\ generation[j] <= generation'[j],
         \A j \in Instances : j # i => generation'[j] = generation[j],
         \A j \in Instances, h \in Nat : h <= generation[j] /\ Stands(j, h)' => Stands(j, h)
  PROVE  Missing'
<1> DEFINE l == Len(redis[i])
<1>1. \A j \in Instances :
        /\ \A n \in Sent(j) : n \in Sent(j)' /\ redis'[j][n] = redis[j][n]
        /\ \A n \in Sent(j)' : n \in Sent(j) \/ (j = i /\ n = l + 1)
        /\ \A n \in Sent(i) : l + 1 > n
        /\ redis'[i][l + 1].command = c /\ redis'[i][l + 1].generation = g
        /\ l \in Nat
  BY SendingKeeps, SentTyped
<1> HIDE DEF l
<1>2. \A j \in Instances : generation[j] \in Nat /\ \A n \in Sent(j) :
        n \in Nat /\ redis[j][n].generation \in Nat /\ redis[j][n].generation <= generation[j]
  BY Typed, SentTyped DEF Behind, GenerationsOk
<1>3. HeartbeatsAreLater'
  <2> SUFFICES ASSUME NEW j \in Instances, NEW m \in Sent(j)', NEW n \in Sent(j)',
                      m < n, OfHeartbeat(j, n)'
               PROVE  /\ redis'[j][m].command = "set" => redis'[j][m].generation <= redis'[j][n].generation
                      /\ redis'[j][m].command = "del" => redis'[j][m].generation # redis'[j][n].generation
    BY DEF HeartbeatsAreLater
  <2>1. CASE n \in Sent(j)
    <3>1. m \in Sent(j)
      BY <1>1, <1>2, <2>1
    <3>2. OfHeartbeat(j, n) /\ redis'[j][m] = redis[j][m] /\ redis'[j][n] = redis[j][n]
      BY <1>1, <2>1, <3>1 DEF OfHeartbeat
    <3> QED
      BY <2>1, <3>1, <3>2 DEF Missing, HeartbeatsAreLater
  <2>2. CASE n \notin Sent(j)
    <3>1. j = i /\ n = l + 1
      BY <1>1, <2>2
    <3>2. redis'[j][n].command = c /\ redis'[j][n].generation = g /\ m \in Sent(i)
          /\ redis'[j][m] = redis[j][m]
      <4>1. redis'[j][n].command = c /\ redis'[j][n].generation = g
        BY <1>1, <3>1
      <4>2. m # l + 1
        BY <1>1, <3>1
      <4>3. m \in Sent(i)
        BY <1>1, <3>1, <4>2
      <4> QED
        BY <1>1, <3>1, <4>1, <4>3
    <3>3. Stands(i, g)
      BY <3>1, <3>2 DEF OfHeartbeat
    <3>4. g = generation[i]
      BY <3>3 DEF Stands, Behind, WorkersOk
    <3>5. redis[i][m].command = "del" => redis[i][m].generation # g
      BY <3>2, <3>3 DEF Behind, DeletesAreOld
    <3> QED
      BY <1>2, <3>1, <3>2, <3>4, <3>5
  <2> QED
    BY <2>1, <2>2
<1>4. MissedAreGone'
  <2> SUFFICES ASSUME NEW e \in missed
               PROVE  Gone(e.instance, e.generation)'
    BY DEF MissedAreGone
  <2>1. PICK j \in Instances, h \in Nat : j = e.instance /\ h = e.generation
    BY DEF TypeOK, Entries
  <2>2. Gone(j, h)
    BY <2>1 DEF Missing, MissedAreGone
  <2>3. h <= generation'[j] /\ ~Stands(j, h)'
    BY <1>2, <2>2 DEF Gone
  <2>4. \A n \in Sent(j)' : OfHeartbeat(j, n)' => redis'[j][n].generation # h
    BY <1>1, <2>2 DEF Gone, OfHeartbeat
  <2> QED
    BY <2>1, <2>3, <2>4 DEF Gone
<1> QED
  BY <1>3, <1>4 DEF Missing

LEMMA RunKeepsMissing ==
  ASSUME TypeOK, Behind, Missing, NEW i \in Instances, RedisRuns(i) \/ RedisFails(i)
  PROVE  Missing'
<1>1. /\ UNCHANGED <<worker, generation>>
      /\ redis[i] # <<>> /\ redis' = [redis EXCEPT ![i] = Tail(@)]
  BY DEF RedisRuns, RedisFails, relay
<1>2. /\ \A j \in Instances \ {i} : redis'[j] = redis[j] /\ Sent(j)' = Sent(j)
      /\ \A n \in Sent(i)' : n \in Nat \ {0} /\ n + 1 \in Sent(i) /\ redis'[i][n] = redis[i][n + 1]
      /\ 1 \in Sent(i) /\ Head(redis[i]) = redis[i][1]
  BY <1>1, RunsOne DEF Sent
<1>3. HeartbeatsAreLater'
  <2> SUFFICES ASSUME NEW j \in Instances, NEW m \in Sent(j)', NEW n \in Sent(j)',
                      m < n, OfHeartbeat(j, n)'
               PROVE  /\ redis'[j][m].command = "set" => redis'[j][m].generation <= redis'[j][n].generation
                      /\ redis'[j][m].command = "del" => redis'[j][m].generation # redis'[j][n].generation
    BY DEF HeartbeatsAreLater
  <2>1. CASE j = i
    <3>1. m + 1 < n + 1 /\ m + 1 \in Sent(j) /\ n + 1 \in Sent(j)
      BY <1>2, <2>1
    <3>2. OfHeartbeat(j, n + 1) /\ redis'[j][m] = redis[j][m + 1] /\ redis'[j][n] = redis[j][n + 1]
      BY <1>2, <2>1 DEF OfHeartbeat
    <3> QED
      BY <3>1, <3>2 DEF Missing, HeartbeatsAreLater
  <2>2. CASE j # i
    BY <1>2, <2>2 DEF Missing, HeartbeatsAreLater, OfHeartbeat
  <2> QED
    BY <2>1, <2>2
<1>4. \A j \in Instances, h \in Nat : Gone(j, h) => Gone(j, h)'
  <2> SUFFICES ASSUME NEW j \in Instances, NEW h \in Nat, Gone(j, h)
               PROVE  Gone(j, h)'
    OBVIOUS
  <2>1. h <= generation'[j] /\ ~Stands(j, h)'
    BY <1>1 DEF Gone, Stands
  <2>2. \A n \in Sent(j)' : OfHeartbeat(j, n)' => redis'[j][n].generation # h
    BY <1>2 DEF Gone, OfHeartbeat
  <2> QED
    BY <2>1, <2>2 DEF Gone
<1>5. \A e \in missed' : e \in missed \/ (e = registry /\ Removes(i, redis[i][1], registry))
  BY <1>2 DEF RedisRuns, RedisFails
<1>6. ASSUME NEW e, e = registry, Removes(i, redis[i][1], registry)
      PROVE  Gone(e.instance, e.generation)'
  <2>1. PICK h \in Nat, g \in Nat : /\ e.instance = i /\ e.generation = h
                                   /\ redis[i][1].generation = g /\ registry # None
    <3>1. registry # None /\ registry.instance = i
      BY <1>6 DEF Removes
    <3>2. registry.generation \in Nat
      BY <3>1, EntryTyped
    <3>3. redis[i][1].generation \in Nat
      BY <1>2, SentTyped
    <3> QED
      BY <1>6, <3>1, <3>2, <3>3
  <2>2. h <= generation[i] /\ g <= generation[i] /\ generation[i] \in Nat
    BY <1>2, <1>6, <2>1, Typed DEF Behind, GenerationsOk
  <2>3. ~Stands(i, h)
    <3>1. CASE redis[i][1].command = "del" /\ h = g
      BY <1>2, <2>1, <3>1 DEF Behind, DeletesAreOld
    <3>2. CASE h < g
      BY <2>2, <3>2 DEF Behind, WorkersOk, Stands
    <3> QED
      BY <1>6, <2>1, <3>1, <3>2 DEF Removes
  <2>4. \A n \in Sent(i) : OfHeartbeat(i, n) /\ n > 1 => redis[i][n].generation # h
    <3> SUFFICES ASSUME NEW n \in Sent(i), OfHeartbeat(i, n), n > 1
                 PROVE  redis[i][n].generation # h
      OBVIOUS
    <3>1. /\ redis[i][1].command = "set" => g <= redis[i][n].generation
          /\ redis[i][1].command = "del" => g # redis[i][n].generation
      BY <1>2, <2>1 DEF Missing, HeartbeatsAreLater
    <3> QED
      BY <1>6, <2>1, <3>1 DEF Removes
  <2>5. \A n \in Sent(i)' : OfHeartbeat(i, n)' => redis'[i][n].generation # h
    BY <1>2, <2>4 DEF OfHeartbeat
  <2> QED
    BY <1>1, <2>1, <2>2, <2>3, <2>5 DEF Gone, Stands
<1>7. MissedAreGone'
  <2> SUFFICES ASSUME NEW e \in missed'
               PROVE  Gone(e.instance, e.generation)'
    BY DEF MissedAreGone
  <2>1. CASE e \in missed
    <3>1. e.instance \in Instances /\ e.generation \in Nat
      BY <2>1 DEF TypeOK, Entries
    <3> QED
      BY <1>4, <2>1, <3>1 DEF Missing, MissedAreGone
  <2>2. CASE e = registry /\ Removes(i, redis[i][1], registry)
    BY <1>6, <2>2
  <2> QED
    BY <1>5, <2>1, <2>2
<1> QED
  BY <1>3, <1>7 DEF Missing

LEMMA StopKeepsMissing ==
  ASSUME TypeOK, Missing, NEW i \in Instances, Stops(i)
  PROVE  Missing'
<1>1. /\ UNCHANGED generation /\ missed' = missed /\ worker'[i] = None /\ redis'[i] = <<>>
      /\ \A j \in Instances : j # i => worker'[j] = worker[j] /\ redis'[j] = redis[j]
  BY DEF Stops, TypeOK
<1>2. Sent(i)' = {}
  <2>1. Len(redis'[i]) = 0
    BY <1>1
  <2> QED
    BY <2>1 DEF Sent
<1>3. \A j \in Instances : j # i => Sent(j)' = Sent(j)
  BY <1>1 DEF Sent
<1>4. HeartbeatsAreLater'
  BY <1>1, <1>2, <1>3 DEF Missing, HeartbeatsAreLater, OfHeartbeat
<1>5. \A j \in Instances, h \in Nat : Gone(j, h) => Gone(j, h)'
  BY <1>1, <1>2, <1>3 DEF Gone, Stands, OfHeartbeat
<1>6. \A e \in missed : e.instance \in Instances /\ e.generation \in Nat
  BY DEF TypeOK, Entries
<1> QED
  BY <1>1, <1>4, <1>5, <1>6 DEF Missing, MissedAreGone

LEMMA QuietKeepsMissing ==
  ASSUME Missing, UNCHANGED <<worker, generation, redis, missed>>
  PROVE  Missing'
BY DEF Missing, HeartbeatsAreLater, MissedAreGone, Gone, Stands, OfHeartbeat, Sent

LEMMA MissingStep ==
  ASSUME TypeOK, Behind, Missing, [Next]_vars
  PROVE  Missing'
<1> USE DEF relay, store
<1>0. \A j \in Instances : generation[j] \in Nat
  BY Typed
<1>1. ASSUME NEW s \in Sockets, RegisterWorker(s)
      PROVE  Missing'
  <2>1. PICK i \in Instances : i = at[s]
    BY DEF TypeOK
  <2>2. CASE Connected(s)
    <3>1. PICK g \in Nat : g = generation[i] + 1
      BY <1>0
    <3>2. /\ generation' = [generation EXCEPT ![i] = g] /\ missed' = missed
          /\ worker' = [worker EXCEPT ![i] = [socket |-> s, generation |-> g]]
          /\ Sends(i, "set", g) /\ "set" \in Commands
      BY <1>1, <2>1, <2>2, <3>1 DEF RegisterWorker, Commands
    <3>3. /\ generation'[i] = g
          /\ \A j \in Instances : j # i => generation'[j] = generation[j] /\ worker'[j] = worker[j]
          /\ worker'[i] = [socket |-> s, generation |-> g]
      BY <3>2 DEF TypeOK
    <3>4. \A j \in Instances, h \in Nat : h <= generation[j] /\ Stands(j, h)' => Stands(j, h)
      BY <1>0, <3>1, <3>3 DEF Stands
    <3>5. \A j \in Instances : generation'[j] \in Nat /\ generation[j] <= generation'[j]
      BY <1>0, <3>1, <3>3
    <3> QED
      BY <3>2, <3>3, <3>4, <3>5, SendKeepsMissing
  <2>3. CASE ~Connected(s)
    BY <1>1, <2>3, QuietKeepsMissing DEF RegisterWorker
  <2> QED
    BY <2>2, <2>3
<1>2. ASSUME NEW i \in Instances, NEW c \in Commands, NEW g \in Nat, Sends(i, c, g),
             c \in {"refresh", "reclaim"} => Stands(i, g),
             UNCHANGED <<generation, missed>>,
             \A j \in Instances : worker'[j] = worker[j] \/ worker'[j] = None
      PROVE  Missing'
  <2>1. \A j \in Instances, h \in Nat : h <= generation[j] /\ Stands(j, h)' => Stands(j, h)
    BY <1>2 DEF Stands
  <2> QED
    BY <1>0, <1>2, <2>1, SendKeepsMissing
<1>3. ASSUME NEW s \in Sockets, SocketCloses(s)
      PROVE  Missing'
  <2>1. PICK i \in Instances : i = at[s]
    BY DEF TypeOK
  <2>2. CASE s \in bound /\ worker[i] # None /\ worker[i].socket = s
    <3>1. PICK g \in Nat : g = worker[i].generation
      BY <2>2, Typed
    <3>2. /\ Sends(i, "del", g) /\ "del" \in Commands /\ UNCHANGED <<generation, missed>>
          /\ worker' = [worker EXCEPT ![i] = None]
      BY <1>3, <2>1, <2>2, <3>1 DEF SocketCloses, Commands
    <3>3. \A j \in Instances : worker'[j] = worker[j] \/ worker'[j] = None
      BY <3>2 DEF TypeOK
    <3> QED
      BY <1>2, <3>2, <3>3
  <2>3. CASE ~(s \in bound /\ worker[i] # None /\ worker[i].socket = s)
    BY <1>3, <2>1, <2>3, QuietKeepsMissing DEF SocketCloses
  <2> QED
    BY <2>2, <2>3
<1>4. ASSUME NEW i \in Instances, ProbeAcked(i) \/ Heal(i) \/ Healed(i)
      PROVE  Missing'
  <2>1. heartbeat[i].step # "idle"
    BY <1>4 DEF ProbeAcked, Heal, Healed
  <2>2. PICK g \in Nat : g = heartbeat[i].generation
    BY <2>1, Typed, BeatIs
  <2>3. UNCHANGED <<worker, generation, missed>> /\ {"refresh", "reclaim", "del"} \subseteq Commands
    BY <1>4 DEF ProbeAcked, Heal, Healed, Commands
  <2>4. \/ UNCHANGED redis
        \/ Sends(i, "del", g)
        \/ Stands(i, g) /\ (Sends(i, "refresh", g) \/ Sends(i, "reclaim", g))
    BY <1>4, <2>2 DEF ProbeAcked, Heal, Healed, StillCurrent, Stands
  <2> QED
    BY <1>2, <2>3, <2>4, QuietKeepsMissing
<1>5. ASSUME NEW i \in Instances, RedisRuns(i) \/ RedisFails(i)
      PROVE  Missing'
  BY <1>5, RunKeepsMissing
<1>6. ASSUME NEW i \in Instances, Stops(i)
      PROVE  Missing'
  BY <1>6, StopKeepsMissing
<1>7. CASE UNCHANGED <<worker, generation, redis, missed>>
  BY <1>7, QuietKeepsMissing
<1> QED
  BY <1>1, <1>3, <1>4, <1>5, <1>6, <1>7
  DEF Next, SocketStep, InstanceStep, vars, Connect, Leave, Hello, HelloLands, PresenceLands,
      DisconnectLands, Probe, ProbeFails, PeerLookup, Crash, SweepReads, SweepDeletes, Exit, Lapse,
      PeerAnswers, GoesStale, MarkStaleTargetsOffline

(* The invariant is inductive.                                             *)
THEOREM Inductive == Spec => []IInv
<1>1. IInv /\ [Next]_vars => IInv'
  BY TypeStep, BehindStep, MissingStep DEF IInv, Behind
<1> QED
  BY <1>1, InitHolds, PTL DEF Spec

(* Type correctness.                                                       *)
THEOREM TypeCorrect == Spec => []TypeOK
<1>1. IInv => TypeOK
  BY DEF IInv
<1> QED
  BY <1>1, Inductive, PTL

(* An entry of a running instance names its worker, or what removes or     *)
(* replaces it is on its way, or that has failed and nothing renews it.    *)
THEOREM GhostsAreCleanedUp == Spec => []GhostIsCleanedUp
<1>1. IInv => GhostIsCleanedUp
  BY GhostsAreBacked DEF IInv, Behind, Missing
<1> QED
  BY <1>1, Inductive, PTL

(* No step but a fault or the sweep of an instance that shuts down removes *)
(* the entry of a worker that stays.                                       *)
THEOREM OwnersAreNotErased == Spec => OwnerIsNotErased
<1> DEFINE Allowed ==
      \/ faults' = faults + 1
      \/ \E j \in Instances : phase[j] = "sweeping" /\ phase'[j] = "swept"
<1>1. IInv /\ [Next]_vars =>
        [\A i \in Instances :
           Owner(i) /\ worker'[i] = worker[i] /\ registry' = None => Allowed]_vars
  <2> SUFFICES ASSUME TypeOK, Behind, Next, NEW i \in Instances,
                      Owner(i), worker'[i] = worker[i], registry' = None
               PROVE  Allowed
    BY DEF IInv
  <2>1. worker[i] # None /\ worker[i].generation \in Nat
    BY Typed DEF Owner
  <2>2. registry = EntryOf(i, worker[i].generation) /\ registry # None
        /\ registry.instance = i /\ registry.generation = worker[i].generation
    BY <2>1, EntryIs DEF Owner
  <2>3. CASE Lapse
    BY <2>3 DEF Lapse, Owned
  <2>4. ASSUME NEW j \in Instances, SweepDeletes(j)
        PROVE  Allowed
    BY <2>4 DEF SweepDeletes, TypeOK
  <2>5. CASE PeerAnswers
    BY <2>1, <2>2, <2>5 DEF PeerAnswers, Deleted
  <2>6. ASSUME NEW j \in Instances, RedisRuns(j)
        PROVE  Allowed
    <3> DEFINE g == redis[j][1].generation
    <3>1. 1 \in Sent(j) /\ Head(redis[j]) = redis[j][1] /\ g \in Nat
          /\ redis[j][1].command \in Commands
      BY <2>6, RunsOne DEF RedisRuns, Command
    <3>2. EntryOf(j, g) # None /\ EntryOf(j, g).instance = j /\ EntryOf(j, g).generation = g
      BY <3>1, EntryIs
    <3>3. redis[j][1].command = "del" /\ registry = EntryOf(j, g)
      BY <2>2, <2>6, <3>1, <3>2 DEF RedisRuns, Deleted, Reclaimed, Commands
    <3>4. ~Stands(j, g)
      BY <3>1, <3>3 DEF Behind, DeletesAreOld
    <3> QED
      BY <2>1, <2>2, <3>2, <3>3, <3>4 DEF Stands
  <2>7. CASE registry' = registry
    BY <2>2, <2>7
  <2>8. ASSUME NEW j \in Instances, RedisFails(j)
        PROVE  Allowed
    BY <2>8 DEF RedisFails
  <2> QED
    BY <2>3, <2>4, <2>5, <2>6, <2>7, <2>8
    DEF Next, SocketStep, InstanceStep, store, Connect, Leave, Hello, RegisterWorker, SocketCloses,
        HelloLands, PresenceLands, DisconnectLands, Probe, ProbeFails, ProbeAcked, Heal, Healed,
        PeerLookup, Crash, SweepReads, Exit, Stops, GoesStale, MarkStaleTargetsOffline
<1> QED
  BY <1>1, Inductive, PTL DEF Spec, OwnerIsNotErased
=====
