--------------------------- MODULE ChannelRevocation ---------------------------
(***************************************************************************)
(* Revoking a channel of the realtime server (apps/realtime): the log and  *)
(* the publish of a revoke (bus/bus.ts, bus/revocation-log.ts), the        *)
(* subscription of every instance with its replay of the log, the revokes  *)
(* an instance knows (realtime-contract/revocations.ts), and the sockets   *)
(* that hold tokens: handshake, join, leave, refresh and expiry            *)
(* (edge/channels.ts, handlers.ts, token-expiry.ts).                       *)
(*                                                                         *)
(* One channel.  A revoke names the channel (or its org, which covers it   *)
(* the same way) or a user.  A token is the moment it was issued and       *)
(* whether its grants cover the channel; a client may present any token    *)
(* ever issued that has not expired.  One clock for all: time passes in    *)
(* ticks, and Second of them make the second a token's iat is rounded to.  *)
(* The published signals, which change no state of this, are left out.     *)
(***************************************************************************)
EXTENDS Integers, Sequences, FiniteSets

CONSTANTS
  Instances, Sockets, Users, Revokes,
  Channel,    \* the target of a revoke of the channel; a user is the other kind
  UserOf,     \* the user of each socket's tokens
  TargetOf,   \* the target of each revoke
  Second,     \* ticks per second
  Lifetime,   \* REALTIME_TOKEN_TTL_SECONDS in ticks, and the retention of a revoke
  NoToken,
  MaxTime,       \* bound: the last tick
  MaxFaults      \* bound: lost connections, failed commands and restarts

Targets == Users \cup {Channel}
Time == 0..MaxTime
Never == -1

ASSUME RevocationAssumption ==
  /\ Channel \notin Users
  /\ UserOf \in [Sockets -> Users] /\ TargetOf \in [Revokes -> Targets]
  /\ Second \in Nat \ {0} /\ Lifetime \in Nat \ {0}
  /\ MaxTime \in Nat /\ MaxFaults \in Nat

VARIABLES
  now,
  log,        \* the sorted set rt:revocations
  revoke,     \* each request: how far the bus is, when it was taken, the answer
  link,       \* the subscriber connection of each instance
  generation, \* generation of each instance's subscription
  asked,      \* the generations whose SUBSCRIBE has no answer yet
  refused,    \* history: the instances whose last SUBSCRIBE was rejected
  reads,      \* the reads of the log an instance has under way
  retry,      \* the instances whose replay timer is armed
  up,         \* the instances that marked Dependency.Bus up
  inbox,      \* messages on their way to each subscriber
  known,      \* latestByTarget of each instance
  conn, home, token,  \* each socket, its instance and its claims
  refreshed,  \* the token a refresh of the socket has just verified
  joined,     \* the sockets in the channel's room
  faults

bus == <<log, revoke>>
subscription == <<link, generation, asked, refused, reads, retry, up, inbox>>
asking == <<asked, refused>>
edge == <<conn, home, token, refreshed>>
vars == <<now, bus, subscription, known, edge, joined, faults>>

Token == [issued: Time, granted: BOOLEAN]
Entry == [target: Targets, at: Time]

Iat(t) == (t.issued \div Second) * Second
Expiry(t) == Iat(t) + Lifetime

(* covers: the key's revoke is retained and binds the token, for the         *)
(* channel's keys or the user's.                                             *)
Covers(revoked, user, t) ==
  \E target \in {user, Channel} :
    /\ revoked[target] # Never
    /\ now < revoked[target] + Lifetime
    /\ Iat(t) <= revoked[target]

Live(i) == {s \in Sockets : conn[s] = "open" /\ home[s] = i}

TypeOK ==
  /\ now \in Time
  /\ log \in SUBSET Entry /\ \A e \in log : e.at <= now
  /\ revoke \in [Revokes -> [stage: {"new", "append", "publish", "done", "failed"},
                             at: Time, answer: {"none", "accepted", "refused"}]]
  /\ link \in [Instances -> {"down", "ready", "subscribed", "lost"}]
  /\ generation \in [Instances -> Nat]
  /\ asked \in [Instances -> SUBSET Nat] /\ refused \in SUBSET Instances
  /\ reads \in [Instances -> SUBSET [generation: Nat, answered: BOOLEAN, result: SUBSET Entry]]
  /\ \A i \in Instances : \A a, b \in reads[i] : a.generation = b.generation => a = b
  /\ retry \in SUBSET Instances /\ up \in SUBSET Instances
  /\ inbox \in [Instances -> Seq(Targets)]
  /\ \A i \in Instances : inbox[i] # <<>> => link[i] = "subscribed"
  /\ known \in [Instances -> [Targets -> {Never} \cup 0..now]]
  /\ conn \in [Sockets -> {"none", "handshake", "open"}]
  /\ home \in [Sockets -> Instances]
  /\ token \in [Sockets -> Token \cup {NoToken}]
  /\ refreshed \in [Sockets -> Token \cup {NoToken}]
  /\ joined \in SUBSET Sockets /\ \A s \in joined : conn[s] = "open"
  /\ faults \in 0..MaxFaults

Init ==
  /\ now = 0 /\ log = {}
  /\ revoke = [r \in Revokes |-> [stage |-> "new", at |-> 0, answer |-> "none"]]
  /\ link = [i \in Instances |-> "down"]
  /\ generation = [i \in Instances |-> 0]
  /\ asked = [i \in Instances |-> {}] /\ refused = {}
  /\ reads = [i \in Instances |-> {}]
  /\ retry = {} /\ up = {}
  /\ inbox = [i \in Instances |-> <<>>]
  /\ known = [i \in Instances |-> [t \in Targets |-> Never]]
  /\ conn = [s \in Sockets |-> "none"]
  /\ home \in [Sockets -> Instances]
  /\ token = [s \in Sockets |-> NoToken]
  /\ refreshed = [s \in Sockets |-> NoToken]
  /\ joined = {}
  /\ faults = 0

Tick == now < MaxTime /\ now' = now + 1
        /\ UNCHANGED <<bus, subscription, known, edge, joined, faults>>

Fault == faults < MaxFaults /\ faults' = faults + 1

-----------------------------------------------------------------------------
(* publish, on whichever instance POST /internal/revoke reached: append to   *)
(* the log, then publish, under one deadline.                                *)

EntryOf(r) == [target |-> TargetOf[r], at |-> revoke[r].at]
Appended(entry) == {e \in log : e.at > entry.at - Lifetime} \cup {entry}

(* PUBLISH reaches the connections that are subscribed when it runs. *)
Delivered(r) ==
  [i \in Instances |->
     IF link[i] = "subscribed" THEN Append(inbox[i], TargetOf[r]) ELSE inbox[i]]

(* The answer stands once given: a late settlement changes nothing. *)
Settle(r, stage, answer) ==
  revoke' = [revoke EXCEPT ![r].stage = stage,
               ![r].answer = IF @ = "none" THEN answer ELSE @]

Request(r) ==
  /\ revoke[r].stage = "new"
  /\ revoke' = [revoke EXCEPT ![r].stage = "append", ![r].at = now]
  /\ UNCHANGED <<now, log, subscription, known, edge, joined, faults>>

AppendLands(r) ==
  /\ revoke[r].stage = "append"
  /\ log' = Appended(EntryOf(r))
  /\ revoke' = [revoke EXCEPT ![r].stage = "publish"]
  /\ UNCHANGED <<now, subscription, known, edge, joined, faults>>

(* A failed append may still have been written; it is not published. *)
AppendFails(r) ==
  /\ revoke[r].stage = "append" /\ Fault
  /\ log' \in {log, Appended(EntryOf(r))}
  /\ Settle(r, "failed", "refused")
  /\ UNCHANGED <<now, subscription, known, edge, joined>>

PublishLands(r) ==
  /\ revoke[r].stage = "publish"
  /\ inbox' = Delivered(r)
  /\ Settle(r, "done", "accepted")
  /\ UNCHANGED <<now, log, link, generation, asking, reads, retry, up, known, edge, joined, faults>>

PublishFails(r) ==
  /\ revoke[r].stage = "publish" /\ Fault
  /\ inbox' \in {inbox, Delivered(r)}
  /\ Settle(r, "failed", "refused")
  /\ UNCHANGED <<now, log, link, generation, asking, reads, retry, up, known, edge, joined>>

(* withDeadline answers 503 while the commands go on. *)
Deadline(r) ==
  /\ revoke[r].stage \in {"append", "publish"} /\ revoke[r].answer = "none"
  /\ revoke' = [revoke EXCEPT ![r].answer = "refused"]
  /\ UNCHANGED <<now, log, subscription, known, edge, joined, faults>>

-----------------------------------------------------------------------------
(* The subscription of an instance. *)

(* applyRevocation of every entry: the instance records it and closes the    *)
(* channel of each socket the target finds and the record binds.             *)
Recorded(i, entries) ==
  [target \in Targets |->
     LET ats == {known[i][target]} \cup {e.at : e \in {x \in entries : x.target = target}}
     IN CHOOSE at \in ats : \A other \in ats : other <= at]
Found(i, entries) ==
  {s \in joined \cap Live(i) :
     \E e \in entries : e.target \in {Channel, UserOf[s]}}
Apply(i, entries) ==
  LET after == Recorded(i, entries)
  IN /\ known' = [known EXCEPT ![i] = after]
     /\ joined' = joined \ {s \in Found(i, entries) : Covers(after, UserOf[s], token[s])}

StartRead(i) ==
  reads' = [reads EXCEPT ![i] = @ \cup
              {[generation |-> generation[i], answered |-> FALSE, result |-> {}]}]

(* "ready": the connection is made and SUBSCRIBE sent. *)
SubscriberReady(i) ==
  /\ link[i] = "down"
  /\ link' = [link EXCEPT ![i] = "ready"]
  /\ generation' = [generation EXCEPT ![i] = @ + 1]
  /\ asked' = [asked EXCEPT ![i] = @ \cup {generation[i] + 1}]
  /\ refused' = refused \ {i}
  /\ UNCHANGED <<now, bus, reads, retry, up, inbox, known, edge, joined, faults>>

(* SUBSCRIBE is answered: only then is the log read.  The client sends one   *)
(* again that a lost connection left unanswered; its answer reads nothing.   *)
Subscribed(i) ==
  \E g \in asked[i] :
    /\ link[i] \in {"ready", "subscribed"}
    /\ link' = [link EXCEPT ![i] = "subscribed"]
    /\ asked' = [asked EXCEPT ![i] = @ \ {g}]
    /\ IF g = generation[i] THEN StartRead(i) ELSE UNCHANGED reads
    /\ UNCHANGED <<now, bus, generation, refused, retry, up, inbox, known, edge, joined, faults>>

(* SUBSCRIBE is rejected: nothing sends another before the next "ready", and *)
(* a rejection of an earlier connection's marks the bus down all the same.   *)
SubscribeFails(i) ==
  /\ Fault
  /\ \E g \in asked[i] :
       /\ asked' = [asked EXCEPT ![i] = @ \ {g}]
       /\ refused' = IF g = generation[i] THEN refused \cup {i} ELSE refused
  /\ up' = up \ {i}
  /\ UNCHANGED <<now, bus, link, generation, reads, retry, inbox, known, edge, joined>>

ReadLog(i) ==
  \E read \in reads[i] :
    /\ ~read.answered
    /\ reads' = [reads EXCEPT ![i] = (@ \ {read}) \cup
         {[read EXCEPT !.answered = TRUE, !.result = {e \in log : e.at >= now - Lifetime}]}]
    /\ UNCHANGED <<now, bus, asking, link, generation, retry, up, inbox, known, edge, joined, faults>>

(* Mutant: a late read marks the bus up whatever subscription it is for. *)
ReplayAnyGeneration(i) ==
  \E read \in reads[i] :
    /\ read.answered
    /\ reads' = [reads EXCEPT ![i] = @ \ {read}]
    /\ Apply(i, read.result) /\ up' = up \cup {i}
    /\ UNCHANGED <<now, bus, asking, link, generation, retry, inbox, edge, faults>>

(* A result of an earlier generation is dropped. *)
Replay(i) ==
  \E read \in reads[i] :
    /\ read.answered
    /\ reads' = [reads EXCEPT ![i] = @ \ {read}]
    /\ IF read.generation = generation[i]
       THEN Apply(i, read.result) /\ up' = up \cup {i}
       ELSE UNCHANGED <<known, joined, up>>
    /\ UNCHANGED <<now, bus, asking, link, generation, retry, inbox, edge, faults>>

(* Mutant: a failed read marks the bus down and arms no timer. *)
ReadFailsForGood(i) ==
  /\ Fault
  /\ \E read \in reads[i] :
       /\ reads' = [reads EXCEPT ![i] = @ \ {read}]
       /\ up' = IF read.generation = generation[i] THEN up \ {i} ELSE up
  /\ UNCHANGED <<now, bus, asking, link, generation, retry, inbox, known, edge, joined>>

ReadFails(i) ==
  /\ Fault
  /\ \E read \in reads[i] :
       /\ reads' = [reads EXCEPT ![i] = @ \ {read}]
       /\ IF read.generation = generation[i]
          THEN up' = up \ {i} /\ retry' = retry \cup {i}
          ELSE UNCHANGED <<up, retry>>
  /\ UNCHANGED <<now, bus, asking, link, generation, inbox, known, edge, joined>>

RetryReplay(i) ==
  /\ i \in retry
  /\ retry' = retry \ {i}
  /\ StartRead(i)
  /\ UNCHANGED <<now, bus, asking, link, generation, up, inbox, known, edge, joined, faults>>

(* The connection breaks, with the messages on it; the close comes later. *)
LoseLink(i) ==
  /\ link[i] \in {"ready", "subscribed"} /\ Fault
  /\ link' = [link EXCEPT ![i] = "lost"]
  /\ inbox' = [inbox EXCEPT ![i] = <<>>]
  /\ UNCHANGED <<now, bus, asking, generation, reads, retry, up, known, edge, joined>>

SubscriberClosed(i) ==
  /\ link[i] = "lost"
  /\ link' = [link EXCEPT ![i] = "down"]
  /\ generation' = [generation EXCEPT ![i] = @ + 1]
  /\ retry' = retry \ {i} /\ up' = up \ {i}
  /\ UNCHANGED <<now, bus, asking, reads, inbox, known, edge, joined, faults>>

(* applyBusMessage takes a revoke as of now. *)
Message(i) ==
  /\ inbox[i] # <<>>
  /\ inbox' = [inbox EXCEPT ![i] = Tail(@)]
  /\ Apply(i, {[target |-> Head(inbox[i]), at |-> now]})
  /\ UNCHANGED <<now, bus, asking, link, generation, reads, retry, up, edge, faults>>

(* An instance dies with its sockets, and starts knowing nothing. *)
Restart(i) ==
  /\ Fault
  /\ link' = [link EXCEPT ![i] = "down"]
  /\ generation' = [generation EXCEPT ![i] = 0]
  /\ asked' = [asked EXCEPT ![i] = {}] /\ refused' = refused \ {i}
  /\ reads' = [reads EXCEPT ![i] = {}]
  /\ retry' = retry \ {i} /\ up' = up \ {i}
  /\ inbox' = [inbox EXCEPT ![i] = <<>>]
  /\ known' = [known EXCEPT ![i] = [t \in Targets |-> Never]]
  /\ conn' = [s \in Sockets |-> IF home[s] = i THEN "none" ELSE conn[s]]
  /\ token' = [s \in Sockets |-> IF home[s] = i THEN NoToken ELSE token[s]]
  /\ refreshed' = [s \in Sockets |-> IF home[s] = i THEN NoToken ELSE refreshed[s]]
  /\ joined' = {s \in joined : home[s] # i}
  /\ UNCHANGED <<now, bus, home>>

-----------------------------------------------------------------------------
(* The sockets. *)

Valid == {t \in Token : t.issued <= now /\ now < Expiry(t)}

(* The auth middleware has verified a token; the admission is awaited. *)
Handshake(s) ==
  /\ conn[s] = "none"
  /\ \E i \in Instances, t \in Valid :
       /\ conn' = [conn EXCEPT ![s] = "handshake"]
       /\ home' = [home EXCEPT ![s] = i]
       /\ token' = [token EXCEPT ![s] = t]
  /\ UNCHANGED <<now, bus, subscription, known, refreshed, joined, faults>>

Connect(s) ==
  /\ conn[s] = "handshake"
  /\ conn' = [conn EXCEPT ![s] = "open"]
  /\ UNCHANGED <<now, bus, subscription, known, home, token, refreshed, joined, faults>>

(* admitJoin; it looks at no expiry. *)
Join(s) ==
  /\ conn[s] = "open" /\ s \notin joined
  /\ token[s].granted /\ ~Covers(known[home[s]], UserOf[s], token[s])
  /\ joined' = joined \cup {s}
  /\ UNCHANGED <<now, bus, subscription, known, edge, faults>>

Leave(s) ==
  /\ s \in joined
  /\ joined' = joined \ {s}
  /\ UNCHANGED <<now, bus, subscription, known, edge, faults>>

(* handleRefresh up to the verified token: any valid token of the user, an   *)
(* older one than the socket's included.                                     *)
VerifyRefresh(s) ==
  /\ conn[s] = "open" /\ refreshed[s] = NoToken
  /\ \E t \in Valid : refreshed' = [refreshed EXCEPT ![s] = t]
  /\ UNCHANGED <<now, bus, subscription, known, conn, home, token, joined, faults>>

(* Mutant: a refresh swaps the claims and leaves the rooms alone. *)
RefreshKeepsRooms(s) ==
  /\ refreshed[s] # NoToken
  /\ token' = [token EXCEPT ![s] = refreshed[s]]
  /\ refreshed' = [refreshed EXCEPT ![s] = NoToken]
  /\ UNCHANGED <<now, bus, subscription, known, conn, home, joined, faults>>

(* The claims are swapped and leaveUngrantedChannels looks again. *)
FinishRefresh(s) ==
  /\ refreshed[s] # NoToken
  /\ token' = [token EXCEPT ![s] = refreshed[s]]
  /\ refreshed' = [refreshed EXCEPT ![s] = NoToken]
  /\ joined' = IF refreshed[s].granted /\ ~Covers(known[home[s]], UserOf[s], refreshed[s])
               THEN joined ELSE joined \ {s}
  /\ UNCHANGED <<now, bus, subscription, known, conn, home, faults>>

Gone(s) ==
  /\ conn' = [conn EXCEPT ![s] = "none"]
  /\ token' = [token EXCEPT ![s] = NoToken]
  /\ refreshed' = [refreshed EXCEPT ![s] = NoToken]
  /\ joined' = joined \ {s}
  /\ UNCHANGED <<now, bus, subscription, known, home, faults>>

(* The expiry timer finds no refresh has come. *)
TokenExpires(s) ==
  /\ conn[s] = "open" /\ now >= Expiry(token[s])
  /\ Gone(s)

Disconnect(s) ==
  /\ conn[s] # "none"
  /\ Gone(s)

-----------------------------------------------------------------------------
Bus == \E r \in Revokes :
         \/ Request(r) \/ AppendLands(r) \/ AppendFails(r)
         \/ PublishLands(r) \/ PublishFails(r) \/ Deadline(r)
Subscriber == \E i \in Instances :
         \/ SubscriberReady(i) \/ Subscribed(i) \/ SubscribeFails(i) \/ ReadLog(i)
         \/ Replay(i) \/ ReadFails(i) \/ RetryReplay(i) \/ LoseLink(i) \/ SubscriberClosed(i)
         \/ Message(i) \/ Restart(i)
Client == \E s \in Sockets :
         \/ Handshake(s) \/ Connect(s) \/ Join(s) \/ Leave(s)
         \/ VerifyRefresh(s) \/ FinishRefresh(s) \/ TokenExpires(s) \/ Disconnect(s)

Next == Tick \/ Bus \/ Subscriber \/ Client

Spec == Init /\ [][Next]_vars

(* The client library reconnects, timers fire, and commands that do not fail *)
(* are answered.  Nothing is asked of the clients or of the clock.           *)
Fairness ==
  /\ \A r \in Revokes : WF_vars(AppendLands(r)) /\ WF_vars(PublishLands(r))
  /\ \A i \in Instances :
       /\ WF_vars(SubscriberReady(i)) /\ WF_vars(Subscribed(i))
       /\ WF_vars(ReadLog(i)) /\ WF_vars(Replay(i)) /\ WF_vars(RetryReplay(i))
       /\ WF_vars(SubscriberClosed(i)) /\ WF_vars(Message(i))
  /\ \A s \in Sockets : WF_vars(TokenExpires(s)) /\ WF_vars(FinishRefresh(s))

FairSpec == Spec /\ Fairness

-----------------------------------------------------------------------------
(* The revoke binds the socket's token: issued at or before it was taken. *)
Binds(r, s) ==
  /\ TargetOf[r] \in {Channel, UserOf[s]}
  /\ token[s] # NoToken /\ token[s].issued <= revoke[r].at

(* On an instance whose bus is up, its connection standing and its inbox     *)
(* read, no socket is in a channel by a live token that a published revoke   *)
(* binds: whatever was lost while the subscription was down, however many    *)
(* reads of the log are under way, and whatever the socket refreshed with    *)
(* (bus.ts replay and generation, revocations.ts covers).                    *)
UpInstanceEnforces ==
  \A r \in Revokes : \A s \in joined :
    /\ revoke[r].stage = "done" /\ Binds(r, s)
    /\ home[s] \in up /\ link[home[s]] = "subscribed" /\ inbox[home[s]] = <<>>
    => now >= Expiry(token[s])

(* A socket in the channel's room has a token that grants it and that no     *)
(* revoke its instance knows of covers: a join, a refresh verified before    *)
(* the revoke and finished after it, and the revoke itself all keep this     *)
(* (channels.ts admitJoin, leaveUngrantedChannels; apply.ts).                *)
HolderIsAdmitted ==
  \A s \in joined :
    token[s].granted /\ ~Covers(known[home[s]], UserOf[s], token[s])

(* A revoke answered 202 ends, for good, every hold on the channel by a      *)
(* token it binds, on every instance whose SUBSCRIBE is not left rejected:   *)
(* those that were unsubscribed or restarted when it was published too       *)
(* (bus.ts publish and start).  A rejected read of the log is tried again, a *)
(* rejected SUBSCRIBE is not.                                                *)
RevokeLands ==
  \A r \in Revokes, i \in Instances :
    []<>(i \notin refused) =>
      <>[](revoke[r].answer = "accepted" =>
             \A s \in joined : home[s] = i => ~Binds(r, s))
=============================================================================
