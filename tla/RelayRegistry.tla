----------------------------- MODULE RelayRegistry -----------------------------
(***************************************************************************)
(* Where a desktop is connected: the relay instances' workers              *)
(* (apps/relay/src/index.ts, worker-heartbeat.ts, worker-registry.ts), the *)
(* entry of the target in the shared registry (target-registry.ts,         *)
(* registry-ownership.ts), through which a peer instance finds it          *)
(* (proxy-dispatch.ts), and the online flag of the target row.             *)
(*                                                                         *)
(* One target.  Its desktop opens one socket after another, on any         *)
(* instance; the relay may learn late that a socket is dead.  An instance  *)
(* sends its registry commands over one connection, in order; its requests *)
(* to the API are not ordered.  An owner token is an instance and the      *)
(* value of its ownerGeneration.                                           *)
(***************************************************************************)
EXTENDS Integers, Sequences, FiniteSets

CONSTANTS
  Instances,
  None,            \* no worker, no registry entry
  MaxSockets,      \* bound: sockets the desktop opens
  MaxGeneration,   \* bound: registrations on one instance
  MaxFaults,       \* bound: faults before a socket drops, a probe fails or a live owner's
                   \* entry is lost
  MaxFailures,     \* bound: faults before a registry command fails
  MaxCrashes,      \* bound: instances that vanish
  MaxShutdowns     \* bound: instances that are stopped

Sockets == 1..MaxSockets
Entries == [instance: Instances, generation: Nat]

ASSUME RegistryAssumption ==
  /\ None \notin Entries /\ None \notin [socket: Sockets, generation: Nat]
  /\ MaxSockets \in Nat \ {0} /\ MaxFaults \in Nat /\ MaxFailures \in Nat

VARIABLES
  conn,        \* each socket: "none", "open", "dead" (unnoticed) or "closed"
  at,          \* the instance of each socket
  bound,       \* socketToTarget: the sockets that stand for the target
  worker,      \* workersByTargetId of each instance
  generation,  \* ownerGeneration of each instance
  heartbeat,   \* the heartbeat of each instance, and the generation it is for
  redis,       \* the registry commands each instance has sent
  registry,    \* the target's entry
  missed,      \* history: entries whose removal or replacement failed
  peer,        \* the entry a peer instance's dispatch has looked up
  phase,       \* each instance: "up", "sweeping", "swept" or "down"
  requests,    \* requests on their way to the API
  answered,    \* the sockets whose hello the API has answered
  online, fresh,  \* isOnline, and whether lastSeenAt is recent
  faults

relay == <<conn, at, bound, worker, generation>>
store == <<redis, registry, missed>>
api == <<requests, online, fresh>>
vars == <<relay, heartbeat, store, peer, phase, api, answered, faults>>

Idle == [step |-> "idle"]
Steps == {"probe", "acked", "refresh", "refused", "reclaim", "reclaimed"}
Commands == {"set", "del", "refresh", "reclaim"}

TypeOK ==
  /\ conn \in [Sockets -> {"none", "open", "dead", "closed"}]
  /\ at \in [Sockets -> Instances]
  /\ bound \in SUBSET Sockets
  /\ worker \in [Instances -> {None} \cup [socket: Sockets, generation: Nat]]
  /\ \A i \in Instances : worker[i] # None =>
       at[worker[i].socket] = i /\ conn[worker[i].socket] \in {"open", "dead"}
  /\ generation \in [Instances -> Nat]
  /\ heartbeat \in [Instances -> {Idle} \cup [step: Steps, generation: Nat]]
  /\ redis \in [Instances -> Seq([command: Commands, generation: Nat])]
  /\ missed \in SUBSET Entries
  /\ registry \in {None} \cup Entries /\ peer \in {None} \cup Entries
  /\ phase \in [Instances -> {"up", "sweeping", "swept", "down"}]
  /\ requests \in SUBSET ({"hello", "disconnect", "presence"} \X Sockets)
  /\ answered \in SUBSET Sockets
  /\ online \in BOOLEAN /\ fresh \in BOOLEAN
  /\ faults \in 0..(MaxFaults + MaxFailures)

Init ==
  /\ conn = [s \in Sockets |-> "none"]
  /\ at \in [Sockets -> Instances]
  /\ bound = {}
  /\ worker = [i \in Instances |-> None]
  /\ generation = [i \in Instances |-> 0]
  /\ heartbeat = [i \in Instances |-> Idle]
  /\ redis = [i \in Instances |-> <<>>]
  /\ registry = None /\ peer = None /\ missed = {}
  /\ phase = [i \in Instances |-> "up"]
  /\ requests = {} /\ answered = {}
  /\ online = FALSE /\ fresh = FALSE
  /\ faults = 0

Connected(s) == conn[s] \in {"open", "dead"}
Running(i) == phase[i] # "down"

Sends(i, command, g) ==
  redis' = [redis EXCEPT ![i] = Append(@, [command |-> command, generation |-> g])]

(***************************************************************************)
(* The desktop opens sockets one after another and leaves the last.        *)
(***************************************************************************)

Opened == {s \in Sockets : conn[s] # "none"}

Connect ==
  LET s == Cardinality(Opened) + 1 IN
  /\ s \in Sockets /\ phase[at[s]] = "up"
  /\ conn' = [t \in Sockets |->
       IF t = s THEN "open" ELSE IF conn[t] = "open" THEN "dead" ELSE conn[t]]
  /\ UNCHANGED <<at, bound, worker, generation, heartbeat, store, peer, phase, api, answered, faults>>

Leave(s) ==
  /\ conn[s] = "open"
  /\ conn' = [conn EXCEPT ![s] = "dead"]
  /\ UNCHANGED <<at, bound, worker, generation, heartbeat, store, peer, phase, api, answered, faults>>

(* desktop.hello, on connect and again when its answer is late.            *)
Hello(s) ==
  /\ conn[s] = "open"
  /\ <<"hello", s>> \notin requests /\ s \notin answered
  /\ generation[at[s]] < MaxGeneration
  /\ requests' = requests \cup {<<"hello", s>>}
  /\ UNCHANGED <<relay, heartbeat, store, peer, phase, online, fresh, answered, faults>>

(***************************************************************************)
(* One relay instance.                                                     *)
(***************************************************************************)

(* Mutant: the answer registers a socket that is gone.                     *)
RegisterWorkerAnyway(s) ==
  LET i == at[s] IN
  /\ s \in answered
  /\ answered' = answered \ {s}
  /\ bound' = bound \cup {s}
  /\ generation' = [generation EXCEPT ![i] = @ + 1]
  /\ worker' = [worker EXCEPT ![i] = [socket |-> s, generation |-> generation[i] + 1]]
  /\ Sends(i, "set", generation[i] + 1)
  /\ UNCHANGED <<conn, at, heartbeat, registry, missed, peer, phase, api, faults>>

(* The hello's answer: registerWorker, with cleanupExistingWorker.         *)
RegisterWorker(s) ==
  LET i == at[s]
      displaced == IF worker[i] = None THEN {} ELSE {worker[i].socket} \ {s}
  IN
  /\ s \in answered
  /\ answered' = answered \ {s}
  /\ IF Connected(s)
       THEN /\ bound' = (bound \ displaced) \cup {s}
            /\ generation' = [generation EXCEPT ![i] = @ + 1]
            /\ worker' = [worker EXCEPT ![i] =
                 [socket |-> s, generation |-> generation[i] + 1]]
            /\ Sends(i, "set", generation[i] + 1)
       ELSE UNCHANGED <<bound, generation, worker, redis>>
  /\ UNCHANGED <<conn, at, heartbeat, registry, missed, peer, phase, api, faults>>

(* The disconnect handler: only the socket of the worker cleans up and     *)
(* tells the API.                                                          *)
SocketCloses(s) ==
  LET i == at[s] IN
  /\ Connected(s)
  /\ conn[s] = "open" => faults < MaxFaults
  /\ faults' = IF conn[s] = "open" THEN faults + 1 ELSE faults
  /\ conn' = [conn EXCEPT ![s] = "closed"]
  /\ bound' = bound \ {s}
  /\ IF s \in bound /\ worker[i] # None /\ worker[i].socket = s
       THEN /\ worker' = [worker EXCEPT ![i] = None]
            /\ Sends(i, "del", worker[i].generation)
            /\ requests' = requests \cup {<<"disconnect", s>>}
       ELSE UNCHANGED <<worker, redis, requests>>
  /\ UNCHANGED <<at, generation, heartbeat, registry, missed, peer, phase, online, fresh, answered>>

(* Mutant: any worker of the target will do. *)
SomeWorker(i) == worker[i] # None

(* isStillCurrentWorker, for the worker the heartbeat was started for.     *)
StillCurrent(i) ==
  worker[i] # None /\ worker[i].generation = heartbeat[i].generation

(* The heartbeat's probe: a presence frame the relay itself sends.         *)
Probe(i) ==
  /\ heartbeat[i] = Idle /\ worker[i] # None
  /\ heartbeat' = [heartbeat EXCEPT ![i] =
       [step |-> "probe", generation |-> worker[i].generation]]
  /\ requests' = requests \cup {<<"presence", worker[i].socket>>}
  /\ UNCHANGED <<relay, store, peer, phase, online, fresh, answered, faults>>

(* Its failure; the request may still land.                                *)
ProbeFails(i) ==
  /\ heartbeat[i].step = "probe" /\ faults < MaxFaults
  /\ faults' = faults + 1
  /\ heartbeat' = [heartbeat EXCEPT ![i] = Idle]
  /\ UNCHANGED <<relay, store, peer, phase, api, answered>>

(* onHeartbeatAck.                                                         *)
ProbeAcked(i) ==
  /\ heartbeat[i].step = "acked"
  /\ IF StillCurrent(i)
       THEN /\ heartbeat' = [heartbeat EXCEPT ![i].step = "refresh"]
            /\ Sends(i, "refresh", heartbeat[i].generation)
       ELSE heartbeat' = [heartbeat EXCEPT ![i] = Idle] /\ UNCHANGED redis
  /\ UNCHANGED <<relay, registry, missed, peer, phase, api, answered, faults>>

(* Mutant: a refused refresh is not healed.                                *)
HealNothing(i) ==
  /\ heartbeat[i].step = "refused"
  /\ heartbeat' = [heartbeat EXCEPT ![i] = Idle]
  /\ UNCHANGED <<relay, store, peer, phase, api, answered, faults>>

(* healMissingRegistryEntry: the check before the write.                   *)
Heal(i) ==
  /\ heartbeat[i].step = "refused"
  /\ IF StillCurrent(i)
       THEN /\ heartbeat' = [heartbeat EXCEPT ![i].step = "reclaim"]
            /\ Sends(i, "reclaim", heartbeat[i].generation)
       ELSE heartbeat' = [heartbeat EXCEPT ![i] = Idle] /\ UNCHANGED redis
  /\ UNCHANGED <<relay, registry, missed, peer, phase, api, answered, faults>>

(* The check after it, and the rollback.                                   *)
Healed(i) ==
  /\ heartbeat[i].step = "reclaimed"
  /\ heartbeat' = [heartbeat EXCEPT ![i] = Idle]
  /\ IF StillCurrent(i) THEN UNCHANGED redis ELSE Sends(i, "del", heartbeat[i].generation)
  /\ UNCHANGED <<relay, registry, missed, peer, phase, api, answered, faults>>

(***************************************************************************)
(* The registry.                                                           *)
(***************************************************************************)

EntryOf(i, g) == [instance |-> i, generation |-> g]

(* Mutant: a delete does not compare the owner's token.                    *)
DeletedWhoever(entry) == None

(* COMPARE_AND_DELETE_SCRIPT *)
Deleted(entry) == IF registry = entry THEN None ELSE registry

(* SET NX *)
Reclaimed(entry) == IF registry = None THEN entry ELSE registry

RedisRuns(i) ==
  /\ redis[i] # <<>>
  /\ redis' = [redis EXCEPT ![i] = Tail(@)]
  /\ LET command == Head(redis[i]).command
         entry == EntryOf(i, Head(redis[i]).generation)
     IN
     \/ /\ command = "set"
        /\ registry' = entry
        /\ UNCHANGED heartbeat
     \/ /\ command = "del"
        /\ registry' = Deleted(entry)
        /\ UNCHANGED heartbeat
     \/ /\ command = "refresh"
        /\ heartbeat' = IF registry = entry
                          THEN [heartbeat EXCEPT ![i] = Idle]
                          ELSE [heartbeat EXCEPT ![i].step = "refused"]
        /\ UNCHANGED registry
     \/ /\ command = "reclaim"
        /\ registry' = Reclaimed(entry)
        /\ heartbeat' = IF registry' = entry
                          THEN [heartbeat EXCEPT ![i].step = "reclaimed"]
                          ELSE [heartbeat EXCEPT ![i] = Idle]
  /\ UNCHANGED <<relay, missed, peer, phase, api, answered, faults>>

(* What a command that takes an entry away was to take away.               *)
Removes(i, sent, entry) ==
  /\ entry # None /\ entry.instance = i
  /\ \/ sent.command = "del" /\ entry.generation = sent.generation
     \/ sent.command = "set" /\ entry.generation < sent.generation

(* A command that fails is not sent again, by nobody: its caller is told   *)
(* false, which heals after a refresh.  One that answers may have run and  *)
(* its answer got lost: of these only a reclaim leaves a trace.            *)
RedisFails(i) ==
  /\ redis[i] # <<>> /\ faults < MaxFailures
  /\ faults' = faults + 1
  /\ redis' = [redis EXCEPT ![i] = Tail(@)]
  /\ LET sent == Head(redis[i]) IN
     /\ missed' = IF Removes(i, sent, registry) THEN missed \cup {registry} ELSE missed
     /\ \/ UNCHANGED registry
        \/ /\ sent.command = "reclaim"
           /\ registry' = Reclaimed(EntryOf(i, sent.generation))
     /\ heartbeat' =
          CASE sent.command = "refresh" -> [heartbeat EXCEPT ![i].step = "refused"]
            [] sent.command = "reclaim" -> [heartbeat EXCEPT ![i] = Idle]
            [] OTHER -> heartbeat
  /\ UNCHANGED <<relay, peer, phase, api, answered>>

Owner(i) == worker[i] # None /\ registry = EntryOf(i, worker[i].generation)
Owned == \E i \in Instances : Owner(i)

(* The TTL of an entry nobody refreshes, or the loss of one somebody does. *)
Lapse ==
  /\ registry # None
  /\ Owned => faults < MaxFaults
  /\ faults' = IF Owned THEN faults + 1 ELSE faults
  /\ registry' = None
  /\ UNCHANGED <<relay, heartbeat, redis, missed, peer, phase, api, answered>>

(***************************************************************************)
(* A dispatch at an instance without the worker: tryProxyDispatch.         *)
(***************************************************************************)
PeerLookup(i) ==
  /\ peer = None /\ phase[i] = "up"
  /\ registry # None /\ registry.instance # i
  /\ peer' = registry
  /\ UNCHANGED <<relay, heartbeat, store, phase, api, answered, faults>>

(* The hop to the peer; a peer without a worker has its entry removed, or  *)
(* not, when that fails.                                                   *)
PeerAnswers ==
  /\ peer # None
  /\ peer' = None
  /\ \/ UNCHANGED registry
     \/ /\ Running(peer.instance) /\ worker[peer.instance] = None
        /\ registry' = Deleted(peer)
  /\ UNCHANGED <<relay, heartbeat, redis, missed, phase, api, answered, faults>>

(***************************************************************************)
(* The end of an instance.  handleShutdown sweeps the entries of the       *)
(* instance: a GET, then a DEL of what was its own; it ends when one fails. *)
(***************************************************************************)
Stops(i) ==
  /\ phase' = [phase EXCEPT ![i] = "down"]
  /\ conn' = [s \in Sockets |-> IF at[s] = i /\ Connected(s) THEN "closed" ELSE conn[s]]
  /\ bound' = {s \in bound : at[s] # i}
  /\ worker' = [worker EXCEPT ![i] = None]
  /\ heartbeat' = [heartbeat EXCEPT ![i] = Idle]
  /\ redis' = [redis EXCEPT ![i] = <<>>]
  /\ answered' = {s \in answered : at[s] # i}
  /\ UNCHANGED <<at, generation, registry, missed, peer, api, faults>>

Ended == {i \in Instances : phase[i] # "up"}

Crash(i) ==
  /\ phase[i] = "up" /\ Cardinality(Ended) < MaxCrashes
  /\ Stops(i)

SweepReads(i) ==
  /\ phase[i] = "up" /\ Cardinality(Ended) < MaxShutdowns
  /\ \/ phase' = [phase EXCEPT ![i] = "swept"]
     \/ /\ registry # None /\ registry.instance = i
        /\ phase' = [phase EXCEPT ![i] = "sweeping"]
  /\ UNCHANGED <<relay, heartbeat, store, peer, api, answered, faults>>

SweepDeletes(i) ==
  /\ phase[i] = "sweeping"
  /\ phase' = [phase EXCEPT ![i] = "swept"]
  /\ registry' \in {None, registry}
  /\ UNCHANGED <<relay, heartbeat, redis, missed, peer, api, answered, faults>>

Exit(i) ==
  /\ phase[i] = "swept"
  /\ Stops(i)

(***************************************************************************)
(* The API, in whatever order the requests land.                           *)
(***************************************************************************)

(* handleHello's setOnlineState(true) and its answer.                      *)
HelloLands(s) ==
  /\ <<"hello", s>> \in requests
  /\ requests' = requests \ {<<"hello", s>>}
  /\ online' = TRUE /\ fresh' = TRUE
  /\ answered' = IF Running(at[s]) THEN answered \cup {s} ELSE answered
  /\ UNCHANGED <<relay, heartbeat, store, peer, phase, faults>>

(* Mutant: a presence is a check-in that leaves the flag.                  *)
PresenceLandsUnflagged(s) ==
  LET i == at[s] IN
  /\ <<"presence", s>> \in requests
  /\ requests' = requests \ {<<"presence", s>>}
  /\ fresh' = TRUE
  /\ heartbeat' = IF heartbeat[i].step = "probe"
                    THEN [heartbeat EXCEPT ![i].step = "acked"]
                    ELSE heartbeat
  /\ UNCHANGED <<relay, store, peer, phase, online, answered, faults>>

(* recordRelayPresence; the instance waits for the answer of its probe.    *)
PresenceLands(s) ==
  LET i == at[s] IN
  /\ <<"presence", s>> \in requests
  /\ requests' = requests \ {<<"presence", s>>}
  /\ online' = TRUE /\ fresh' = TRUE
  /\ heartbeat' = IF heartbeat[i].step = "probe"
                    THEN [heartbeat EXCEPT ![i].step = "acked"]
                    ELSE heartbeat
  /\ UNCHANGED <<relay, store, peer, phase, answered, faults>>

(* handleDisconnect, unconditional; it may also be lost.                   *)
DisconnectLands(s) ==
  /\ <<"disconnect", s>> \in requests
  /\ requests' = requests \ {<<"disconnect", s>>}
  /\ online' \in {FALSE, online}
  /\ UNCHANGED <<relay, heartbeat, store, peer, phase, fresh, answered, faults>>

(* Time passes with nobody checking in, and markStaleTargetsOffline.       *)
GoesStale ==
  /\ fresh /\ \A i \in Instances : worker[i] = None
  /\ fresh' = FALSE
  /\ UNCHANGED <<relay, heartbeat, store, peer, phase, requests, online, answered, faults>>

MarkStaleTargetsOffline ==
  /\ online /\ ~fresh
  /\ online' = FALSE
  /\ UNCHANGED <<relay, heartbeat, store, peer, phase, requests, fresh, answered, faults>>

InstanceStep(i) ==
  \/ Probe(i) \/ ProbeFails(i) \/ ProbeAcked(i) \/ Heal(i) \/ Healed(i)
  \/ RedisRuns(i) \/ RedisFails(i)
  \/ PeerLookup(i)
  \/ Crash(i) \/ SweepReads(i) \/ SweepDeletes(i) \/ Exit(i)

SocketStep(s) ==
  \/ Leave(s) \/ Hello(s) \/ RegisterWorker(s) \/ SocketCloses(s)
  \/ HelloLands(s) \/ PresenceLands(s) \/ DisconnectLands(s)

Next ==
  \/ Connect
  \/ \E s \in Sockets : SocketStep(s)
  \/ \E i \in Instances : InstanceStep(i)
  \/ Lapse
  \/ PeerAnswers
  \/ GoesStale
  \/ MarkStaleTargetsOffline

Spec == Init /\ [][Next]_vars

(***************************************************************************)
(* Fairness: timers fire (the heartbeat, the ping timeout of a dead        *)
(* socket, the TTL), commands and requests are carried out, continuations  *)
(* run, and targets are listed now and then, which marks the stale ones.   *)
(***************************************************************************)
FairSpec ==
  /\ Spec
  /\ WF_vars(Lapse) /\ WF_vars(GoesStale) /\ WF_vars(MarkStaleTargetsOffline)
  /\ \A s \in Sockets :
       /\ WF_vars(conn[s] = "dead" /\ SocketCloses(s))
       /\ WF_vars(PresenceLands(s)) /\ WF_vars(RegisterWorker(s))
       /\ WF_vars(HelloLands(s))
  /\ \A i \in Instances :
       /\ WF_vars(Probe(i)) /\ WF_vars(ProbeAcked(i)) /\ WF_vars(Heal(i))
       /\ WF_vars(Healed(i)) /\ WF_vars(RedisRuns(i)) /\ WF_vars(Exit(i))

(***************************************************************************)
(* Properties                                                              *)
(***************************************************************************)

Pending(i, command, g) ==
  \E k \in 1..Len(redis[i]) :
    redis[i][k].command = command /\ redis[i][k].generation = g

(* No "advertising a DEAD target": an entry of a running instance names    *)
(* its worker, or what removes or replaces it is on its way, or that has   *)
(* failed, which nobody tries again: then it lapses, for nothing on its    *)
(* way refreshes it or brings it back.                                     *)
GhostIsCleanedUp ==
  registry # None /\ Running(registry.instance) =>
    LET i == registry.instance
        g == registry.generation
    IN
    \/ worker[i] # None /\ worker[i].generation = g
    \/ Pending(i, "del", g)
    \/ \E h \in (g + 1)..generation[i] : Pending(i, "set", h)
    \/ registry \in missed /\ ~Pending(i, "refresh", g) /\ ~Pending(i, "reclaim", g)

(* The entry of a worker is removed by nobody: not by the late cleanup of  *)
(* an earlier connection, a rollback, or a peer that found the instance    *)
(* empty a moment ago.  (The sweep of an instance that shuts down looks an *)
(* entry up and deletes it in two commands, and may delete a new owner's.) *)
OwnerIsNotErased ==
  [][\A i \in Instances :
       Owner(i) /\ worker'[i] = worker[i] /\ registry' = None =>
         \/ faults' = faults + 1
         \/ \E j \in Instances : phase[j] = "sweeping" /\ phase'[j] = "swept"]_vars

Attached(s) == conn[s] = "open" /\ s \in bound

(* A desktop that stays connected is found by every other instance again,  *)
(* whatever became of its entry: late writes of earlier connections, lost  *)
(* entries, crashes and shutdowns of other instances.                      *)
FoundAgain ==
  \A s \in Sockets :
    <>[]Attached(s) => <>[]Owner(at[s])

(* A desktop that stays connected is online again, although the disconnect *)
(* of an earlier socket may land after its hello; one that is gone goes    *)
(* offline and out of the registry, although its last hello or presence    *)
(* may land after its disconnect.                                          *)
PresenceConverges ==
  /\ \A s \in Sockets : <>[]Attached(s) => <>[]online
  /\ <>[](\A s \in Sockets : conn[s] # "open") => <>[](~online /\ registry = None)
=============================================================================
