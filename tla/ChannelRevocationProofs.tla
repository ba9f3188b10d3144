------------------------ MODULE ChannelRevocationProofs ------------------------
(***************************************************************************)
(* Theorems about ChannelRevocation for every number of instances,         *)
(* sockets, users and revokes and every rounding and lifetime of tokens,   *)
(* checked by TLAPS: a socket in the channel is admitted, and an instance  *)
(* whose bus is up enforces every published revoke.                        *)
(***************************************************************************)
EXTENDS ChannelRevocation, TLAPS, SequenceTheorems, WellFoundedInduction

(***************************************************************************)
(* Of the reads of the log under way only one is of the subscription that  *)
(* stands; before its SUBSCRIBE is answered there is none, no timer is     *)
(* armed, and the bus is not up.                                           *)
(***************************************************************************)
Unread(i) == link[i] \in {"down", "ready"} \/ generation[i] \in asked[i]

ReadsOk ==
  \A i \in Instances :
    /\ \A g \in asked[i] : g <= generation[i]
    /\ \A read \in reads[i] :
         /\ read.generation <= generation[i]
         /\ \A e \in read.result : e.at <= now
    /\ Unread(i) => i \notin up /\ i \notin retry
    /\ Unread(i) \/ i \in retry =>
         \A read \in reads[i] : read.generation # generation[i]

(***************************************************************************)
(* A revoke that has been appended is in the log for as long as a token it *)
(* binds can live.  Once published it is known to every instance that is   *)
(* subscribed, or is a message on its way there, or in the result of the   *)
(* read whose replay will mark the bus up, or will be read.                *)
(***************************************************************************)
Past(r) == now >= revoke[r].at + Lifetime
OnItsWay(r, i) == \E n \in 1..Len(inbox[i]) : inbox[i][n] = TargetOf[r]
Reached(r, i) == known[i][TargetOf[r]] >= revoke[r].at \/ Past(r) \/ OnItsWay(r, i)

LogHolds ==
  \A r \in Revokes :
    /\ revoke[r].at <= now
    /\ revoke[r].stage \in {"publish", "done"} => EntryOf(r) \in log \/ Past(r)

PublishedReaches ==
  \A r \in Revokes, i \in Instances :
    revoke[r].stage = "done" /\ link[i] = "subscribed" =>
      /\ i \in up => Reached(r, i)
      /\ \A read \in reads[i] : read.answered /\ read.generation = generation[i] =>
           EntryOf(r) \in read.result \/ Reached(r, i)

IInv == ReadsOk /\ LogHolds /\ PublishedReaches /\ HolderIsAdmitted

(***************************************************************************)
(* Numbers                                                                 *)
(***************************************************************************)

(* A bounded set of numbers has a largest.                                 *)
LEMMA LargestOf ==
  ASSUME NEW S, NEW m \in Int, S # {}, \A x \in S : x \in Int /\ x <= m
  PROVE  \E x \in S : \A y \in S : y <= x
<1> DEFINE T == {m - x : x \in S}
<1>1. T \subseteq Nat /\ T # {}
  OBVIOUS
<1> HIDE DEF T
<1>2. IsWellFoundedOn(OpToRel(<, Nat), Nat)
  BY NatLessThanWellFounded
<1>3. PICK z \in T : \A y \in T : ~(<<y, z>> \in OpToRel(<, Nat))
  BY <1>1, <1>2, WFMin
<1>4. \A y \in T : ~(y < z)
  BY <1>1, <1>3 DEF OpToRel
<1>5. PICK x \in S : z = m - x
  BY DEF T
<1>6. \A y \in S : m - y \in T
  BY DEF T
<1> QED
  BY <1>4, <1>5, <1>6

(* The second of a moment is no later than the moment.                     *)
LEMMA IatIsEarlier ==
  ASSUME NEW t \in Token
  PROVE  Iat(t) \in Nat /\ Iat(t) <= t.issued /\ t.issued \in Nat
<1>1. t.issued \in Nat
  BY RevocationAssumption DEF Token, Time
<1>2. \A n \in Nat, d \in Nat \ {0} : (n \div d) * d <= n /\ (n \div d) * d \in Nat
  OBVIOUS
<1> QED
  BY <1>1, <1>2, RevocationAssumption DEF Iat

(* What an instance records of a target is the latest it knows of it.      *)
LEMMA RecordedIsLatest ==
  ASSUME TypeOK, NEW i \in Instances,
         NEW entries, \A e \in entries : e.target \in Targets /\ e.at \in 0..now,
         NEW target \in Targets
  PROVE  /\ Recorded(i, entries)[target] \in {Never} \cup 0..now
         /\ Recorded(i, entries)[target] >= known[i][target]
         /\ \A e \in entries : e.target = target => Recorded(i, entries)[target] >= e.at
         /\ (\A e \in entries : e.target # target) => Recorded(i, entries)[target] = known[i][target]
<1> DEFINE ats == {known[i][target]} \cup {e.at : e \in {x \in entries : x.target = target}}
           latest == CHOOSE at \in ats : \A other \in ats : other <= at
<1>1. now \in Nat
  BY RevocationAssumption DEF TypeOK, Time
<1>2. known[i][target] \in {Never} \cup 0..now
  BY DEF TypeOK
<1>3. ats # {} /\ ats \subseteq {Never} \cup 0..now
  BY <1>2
<1>4. \A x \in ats : x \in Int /\ x <= now
  BY <1>1, <1>3 DEF Never
<1>5. /\ known[i][target] \in ats
      /\ \A e \in entries : e.target = target => e.at \in ats
      /\ (\A e \in entries : e.target # target) => ats = {known[i][target]}
  OBVIOUS
<1> HIDE DEF ats
<1>6. \E x \in ats : \A other \in ats : other <= x
  BY <1>1, <1>3, <1>4, LargestOf
<1>7. latest \in ats /\ \A other \in ats : other <= latest
  BY <1>6
<1>8. Recorded(i, entries)[target] = latest
  BY DEF Recorded, ats
<1> HIDE DEF latest
<1> QED
  BY <1>1, <1>2, <1>3, <1>4, <1>5, <1>7, <1>8

(***************************************************************************)
(* Type correctness, together with ReadsOk: a replay is of entries that    *)
(* were logged, and a new read finds none of its own subscription.         *)
(***************************************************************************)
Reads == [generation: Nat, answered: BOOLEAN, result: SUBSET Entry]

Stages == {"new", "append", "publish", "done", "failed"}
Answers == {"none", "accepted", "refused"}

BusType ==
  /\ log \in SUBSET Entry /\ \A e \in log : e.at <= now
  /\ revoke \in [Revokes -> [stage: Stages, at: Time, answer: Answers]]

SubscriptionType ==
  /\ link \in [Instances -> {"down", "ready", "subscribed", "lost"}]
  /\ generation \in [Instances -> Nat]
  /\ asked \in [Instances -> SUBSET Nat] /\ refused \in SUBSET Instances
  /\ reads \in [Instances -> SUBSET Reads]
  /\ \A i \in Instances : \A a, b \in reads[i] : a.generation = b.generation => a = b
  /\ retry \in SUBSET Instances /\ up \in SUBSET Instances
  /\ inbox \in [Instances -> Seq(Targets)]
  /\ \A i \in Instances : inbox[i] # <<>> => link[i] = "subscribed"

KnownType == known \in [Instances -> [Targets -> {Never} \cup 0..now]]

EdgeType ==
  /\ conn \in [Sockets -> {"none", "handshake", "open"}]
  /\ home \in [Sockets -> Instances]
  /\ token \in [Sockets -> Token \cup {NoToken}]
  /\ refreshed \in [Sockets -> Token \cup {NoToken}]
  /\ joined \in SUBSET Sockets /\ \A s \in joined : conn[s] = "open"

(* The parts of the type invariant.                                        *)
LEMMA TypeParts ==
  /\ TypeOK => BusType /\ SubscriptionType /\ KnownType /\ EdgeType
  /\ /\ now' \in Time /\ faults' \in 0..MaxFaults
     /\ BusType' /\ SubscriptionType' /\ KnownType' /\ EdgeType'
     => TypeOK'
BY DEF TypeOK, BusType, SubscriptionType, KnownType, EdgeType, Reads, Stages, Answers

(* Apply learns, and closes the channel to some.                           *)
LEMMA ApplyType ==
  ASSUME TypeOK, NEW i \in Instances,
         NEW entries, \A e \in entries : e.target \in Targets /\ e.at \in 0..now,
         Apply(i, entries)
  PROVE  /\ known' \in [Instances -> [Targets -> {Never} \cup 0..now]]
         /\ joined' \subseteq joined
<1>1. Recorded(i, entries) \in [Targets -> {Never} \cup 0..now]
  <2>1. \A target \in Targets : Recorded(i, entries)[target] \in {Never} \cup 0..now
    BY RecordedIsLatest
  <2>2. Recorded(i, entries) = [target \in Targets |-> Recorded(i, entries)[target]]
    BY DEF Recorded
  <2> HIDE DEF Recorded
  <2> QED
    BY <2>1, <2>2
<1>2. known' = [known EXCEPT ![i] = Recorded(i, entries)] /\ joined' \subseteq joined
  BY DEF Apply
<1> QED
  BY <1>1, <1>2 DEF TypeOK

(* A pending revoke's entry is one, of a moment that has been.             *)
LEMMA AppendType ==
  ASSUME TypeOK, LogHolds, NEW r \in Revokes
  PROVE  /\ EntryOf(r) \in Entry /\ EntryOf(r).at <= now
         /\ Appended(EntryOf(r)) \in SUBSET Entry
         /\ \A e \in Appended(EntryOf(r)) : e.at <= now
<1>1. TargetOf[r] \in Targets /\ revoke[r].at \in Time /\ revoke[r].at <= now
  BY RevocationAssumption DEF TypeOK, LogHolds
<1>2. EntryOf(r) \in Entry /\ EntryOf(r).at <= now
  BY <1>1 DEF EntryOf, Entry
<1> QED
  BY <1>2 DEF Appended, TypeOK

(* A settlement moves a request on and keeps its moment.                   *)
LEMMA SettleType ==
  ASSUME BusType, NEW r \in Revokes, NEW stage \in Stages, NEW answer \in Answers,
         Settle(r, stage, answer)
  PROVE  /\ revoke' \in [Revokes -> [stage: Stages, at: Time, answer: Answers]]
         /\ revoke'[r].stage = stage /\ revoke'[r].at = revoke[r].at
         /\ \A other \in Revokes \ {r} : revoke'[other] = revoke[other]
<1> DEFINE given == IF revoke[r].answer = "none" THEN answer ELSE revoke[r].answer
           new == [revoke[r] EXCEPT !.stage = stage, !.answer = given]
<1>1. revoke[r] \in [stage: Stages, at: Time, answer: Answers] /\ given \in Answers
  BY DEF BusType
<1>2. /\ new \in [stage: Stages, at: Time, answer: Answers]
      /\ new.stage = stage /\ new.at = revoke[r].at
  BY <1>1
<1>3. revoke' = [revoke EXCEPT ![r] = new]
  BY <1>1 DEF Settle, BusType
<1> HIDE DEF new
<1> QED
  BY <1>2, <1>3 DEF BusType

(* The bus's steps, and what they leave of its types.                      *)
LEMMA BusTypeStep ==
  ASSUME TypeOK, LogHolds, NEW r \in Revokes,
         Request(r) \/ AppendLands(r) \/ AppendFails(r) \/ PublishLands(r)
           \/ PublishFails(r) \/ Deadline(r)
  PROVE  TypeOK'
<1>1. /\ UNCHANGED <<now, link, generation, asked, refused, reads, retry, up, known, edge, joined>>
      /\ faults' \in 0..MaxFaults
  BY RevocationAssumption
  DEF Request, AppendLands, AppendFails, PublishLands, PublishFails, Deadline, Fault,
      subscription, asking, TypeOK
<1>2. log' \in SUBSET Entry /\ \A e \in log' : e.at <= now
  <2>1. log' \in {log, Appended(EntryOf(r))}
    BY DEF Request, AppendLands, AppendFails, PublishLands, PublishFails, Deadline
  <2> QED
    BY <2>1, AppendType DEF TypeOK
<1>3. revoke' \in [Revokes -> [stage: Stages, at: Time, answer: Answers]]
  <2>1. BusType /\ now \in Time
    BY TypeParts DEF TypeOK
  <2>2. CASE Request(r)
    BY <2>1, <2>2 DEF Request, BusType, Stages
  <2>3. CASE AppendLands(r)
    BY <2>1, <2>3 DEF AppendLands, BusType, Stages
  <2>4. CASE AppendFails(r) \/ PublishFails(r)
    BY <2>1, <2>4, SettleType DEF AppendFails, PublishFails, Stages, Answers
  <2>5. CASE PublishLands(r)
    BY <2>1, <2>5, SettleType DEF PublishLands, Stages, Answers
  <2>6. CASE Deadline(r)
    BY <2>1, <2>6 DEF Deadline, BusType, Answers
  <2> QED
    BY <2>2, <2>3, <2>4, <2>5, <2>6
<1>4. /\ inbox' \in [Instances -> Seq(Targets)]
      /\ \A i \in Instances : inbox'[i] # <<>> => link[i] = "subscribed"
  <2>1. inbox' = inbox \/ inbox' = Delivered(r)
    BY DEF Request, AppendLands, AppendFails, PublishLands, PublishFails, Deadline,
         subscription, asking
  <2>2. TargetOf[r] \in Targets
    BY RevocationAssumption
  <2>3. \A i \in Instances : Append(inbox[i], TargetOf[r]) \in Seq(Targets)
    BY <2>2, AppendProperties DEF TypeOK
  <2>4. /\ Delivered(r) \in [Instances -> Seq(Targets)]
        /\ \A i \in Instances : Delivered(r)[i] # <<>> => link[i] = "subscribed"
    BY <2>3 DEF Delivered, TypeOK
  <2> QED
    BY <2>1, <2>4 DEF TypeOK
<1>5. BusType' /\ SubscriptionType'
  BY <1>1, <1>2, <1>3, <1>4 DEF BusType, SubscriptionType, TypeOK, Reads
<1>6. KnownType' /\ EdgeType'
  BY <1>1 DEF KnownType, EdgeType, TypeOK, edge
<1> QED
  BY <1>1, <1>5, <1>6, TypeParts DEF TypeOK

(* A read that is started is the only one of its subscription.             *)
LEMMA StartReadType ==
  ASSUME TypeOK, NEW i \in Instances, StartRead(i),
         \A read \in reads[i] : read.generation # generation[i]
  PROVE  /\ reads' \in [Instances -> SUBSET Reads]
         /\ \A j \in Instances : \A a, b \in reads'[j] : a.generation = b.generation => a = b
         /\ \A j \in Instances \ {i} : reads'[j] = reads[j]
         /\ \A read \in reads'[i] :
              \/ read \in reads[i]
              \/ read.generation = generation[i] /\ ~read.answered /\ read.result = {}
<1> DEFINE new == [generation |-> generation[i], answered |-> FALSE, result |-> {}]
<1>1. new \in Reads /\ new.generation = generation[i] /\ ~new.answered /\ new.result = {}
  BY DEF TypeOK, Reads
<1>2. reads' = [reads EXCEPT ![i] = @ \cup {new}]
  BY DEF StartRead
<1> HIDE DEF new
<1>3. reads \in [Instances -> SUBSET Reads]
      /\ \A j \in Instances : \A a, b \in reads[j] : a.generation = b.generation => a = b
  BY DEF TypeOK, Reads
<1> QED
  BY <1>1, <1>2, <1>3

(* The steps of a subscription.                                            *)
LEMMA SubscriberTypeStep ==
  ASSUME TypeOK, ReadsOk, NEW i \in Instances,
         SubscriberReady(i) \/ Subscribed(i) \/ SubscribeFails(i) \/ ReadLog(i) \/ Replay(i)
           \/ ReadFails(i) \/ RetryReplay(i) \/ LoseLink(i) \/ SubscriberClosed(i)
           \/ Message(i) \/ Restart(i)
  PROVE  TypeOK' /\ ReadsOk'
<1>1. /\ BusType /\ SubscriptionType /\ KnownType /\ EdgeType
      /\ now \in Time /\ now \in Nat /\ faults \in 0..MaxFaults
  BY TypeParts, RevocationAssumption DEF TypeOK, Time
<1>2. /\ UNCHANGED <<now, log, revoke>> /\ faults' \in 0..MaxFaults
  <2>1. UNCHANGED <<now, log, revoke>> /\ (Fault \/ faults' = faults)
    BY DEF SubscriberReady, Subscribed, SubscribeFails, ReadLog, Replay, ReadFails, RetryReplay, LoseLink,
           SubscriberClosed, Message, Restart, bus
  <2>2. Fault => faults' \in 0..MaxFaults
    BY <1>1, RevocationAssumption DEF Fault
  <2> QED
    BY <1>1, <2>1, <2>2
<1>3. BusType'
  BY <1>1, <1>2 DEF BusType
<1>4. ASSUME UNCHANGED <<known, edge, joined>>, SubscriptionType' PROVE TypeOK'
  <2>1. KnownType' /\ EdgeType'
    BY <1>1, <1>2, <1>4 DEF KnownType, EdgeType, edge
  <2> QED
    BY <1>1, <1>2, <1>3, <1>4, <2>1, TypeParts
<1>5. CASE SubscriberReady(i)
  <2>1. /\ link' = [link EXCEPT ![i] = "ready"] /\ link[i] = "down"
        /\ generation' = [generation EXCEPT ![i] = @ + 1]
        /\ asked' = [asked EXCEPT ![i] = @ \cup {generation[i] + 1}] /\ refused' = refused \ {i}
        /\ UNCHANGED <<reads, retry, up, inbox, known, edge, joined>>
    BY <1>5 DEF SubscriberReady
  <2>2. SubscriptionType'
    BY <1>1, <2>1 DEF SubscriptionType
  <2>3. ReadsOk'
    BY <1>1, <1>2, <2>1 DEF ReadsOk, Unread, SubscriptionType, Reads
  <2> QED
    BY <1>4, <2>1, <2>2, <2>3
<1>6. CASE Subscribed(i)
  <2>1. PICK g \in asked[i] :
          /\ link[i] \in {"ready", "subscribed"} /\ link' = [link EXCEPT ![i] = "subscribed"]
          /\ asked' = [asked EXCEPT ![i] = @ \ {g}]
          /\ IF g = generation[i] THEN StartRead(i) ELSE UNCHANGED reads
          /\ UNCHANGED <<generation, refused, retry, up, inbox, known, edge, joined>>
    BY <1>6 DEF Subscribed
  <2>2. CASE g = generation[i]
    <3>1. /\ i \notin up /\ i \notin retry
          /\ \A read \in reads[i] : read.generation # generation[i]
      BY <2>1, <2>2 DEF ReadsOk, Unread
    <3>2. /\ reads' \in [Instances -> SUBSET Reads]
          /\ \A j \in Instances : \A a, b \in reads'[j] : a.generation = b.generation => a = b
          /\ \A j \in Instances \ {i} : reads'[j] = reads[j]
          /\ \A read \in reads'[i] :
               \/ read \in reads[i]
               \/ read.generation = generation[i] /\ ~read.answered /\ read.result = {}
      BY <2>1, <2>2, <3>1, StartReadType
    <3>3. SubscriptionType'
      BY <1>1, <2>1, <3>2 DEF SubscriptionType
    <3>4. ReadsOk'
      BY <1>1, <1>2, <2>1, <2>2, <3>1, <3>2 DEF ReadsOk, Unread, SubscriptionType, Reads
    <3> QED
      BY <1>4, <2>1, <3>3, <3>4
  <2>3. CASE g # generation[i]
    <3>1. SubscriptionType'
      BY <1>1, <2>1, <2>3 DEF SubscriptionType
    <3>2. ReadsOk'
      BY <1>1, <1>2, <2>1, <2>3 DEF ReadsOk, Unread, SubscriptionType
    <3> QED
      BY <1>4, <2>1, <3>1, <3>2
  <2> QED
    BY <2>2, <2>3
<1>7. CASE SubscribeFails(i)
  <2>1. PICK g \in asked[i] :
          /\ asked' = [asked EXCEPT ![i] = @ \ {g}]
          /\ refused' = IF g = generation[i] THEN refused \cup {i} ELSE refused
          /\ up' = up \ {i}
          /\ UNCHANGED <<link, generation, reads, retry, inbox, known, edge, joined>>
    BY <1>7 DEF SubscribeFails
  <2>2. SubscriptionType'
    BY <1>1, <2>1 DEF SubscriptionType
  <2>3. ReadsOk'
    BY <1>1, <1>2, <2>1 DEF ReadsOk, Unread, SubscriptionType
  <2> QED
    BY <1>4, <2>1, <2>2, <2>3
<1>8. CASE ReadLog(i)
  <2>1. PICK read \in reads[i] :
          reads' = [reads EXCEPT ![i] = (@ \ {read}) \cup
             {[read EXCEPT !.answered = TRUE, !.result = {e \in log : e.at >= now - Lifetime}]}]
    BY <1>8 DEF ReadLog, asking
  <2> DEFINE new == [read EXCEPT !.answered = TRUE, !.result = {e \in log : e.at >= now - Lifetime}]
  <2>2. UNCHANGED <<link, generation, asked, refused, retry, up, inbox, known, edge, joined>>
    BY <1>8 DEF ReadLog, asking
  <2>3. /\ new \in Reads /\ new.generation = read.generation
        /\ new.result \subseteq log /\ \A e \in new.result : e.at <= now
    <3>1. read \in Reads /\ log \in SUBSET Entry /\ \A e \in log : e.at <= now
      BY <1>1 DEF SubscriptionType, BusType
    <3>2. PICK result \in SUBSET Entry :
            result = {e \in log : e.at >= now - Lifetime} /\ result \subseteq log
      BY <3>1
    <3>3. new = [read EXCEPT !.answered = TRUE, !.result = result]
      BY <3>2
    <3>4. new \in Reads /\ new.generation = read.generation /\ new.result = result
      BY <3>1, <3>3 DEF Reads
    <3> QED
      BY <3>1, <3>2, <3>4
  <2>4. reads' = [reads EXCEPT ![i] = (@ \ {read}) \cup {new}]
    BY <2>1
  <2> HIDE DEF new
  <2>5. SubscriptionType'
    BY <1>1, <2>2, <2>3, <2>4 DEF SubscriptionType
  <2>6. ReadsOk'
    BY <1>1, <1>2, <2>2, <2>3, <2>4 DEF ReadsOk, Unread, SubscriptionType
  <2> QED
    BY <1>4, <2>2, <2>5, <2>6
<1>9. CASE Replay(i)
  <2>1. PICK read \in reads[i] :
          /\ reads' = [reads EXCEPT ![i] = @ \ {read}]
          /\ IF read.generation = generation[i]
             THEN Apply(i, read.result) /\ up' = up \cup {i}
             ELSE UNCHANGED <<known, joined, up>>
    BY <1>9 DEF Replay, asking
  <2>2. UNCHANGED <<link, generation, asked, refused, retry, inbox, edge>>
    BY <1>9 DEF Replay, asking
  <2>3. \A e \in read.result : e.target \in Targets /\ e.at \in 0..now
    BY <1>1, RevocationAssumption DEF ReadsOk, Unread, SubscriptionType, Reads, Entry, Time
  <2>4. /\ known' \in [Instances -> [Targets -> {Never} \cup 0..now]]
        /\ joined' \subseteq joined
    BY <1>1, <2>1, <2>3, ApplyType DEF TypeOK
  <2>5. SubscriptionType'
    BY <1>1, <2>1, <2>2 DEF SubscriptionType
  <2>6. KnownType' /\ EdgeType'
    BY <1>1, <1>2, <2>2, <2>4 DEF KnownType, EdgeType, edge
  <2>7. ReadsOk'
    <3>1. read.generation = generation[i] => ~Unread(i)
      BY DEF ReadsOk, Unread
    <3> QED
      BY <1>1, <1>2, <2>1, <2>2, <3>1 DEF ReadsOk, Unread, SubscriptionType
  <2> QED
    BY <1>1, <1>2, <1>3, <2>5, <2>6, <2>7, TypeParts
<1>10. CASE ReadFails(i)
  <2>1. PICK read \in reads[i] :
          /\ reads' = [reads EXCEPT ![i] = @ \ {read}]
          /\ IF read.generation = generation[i]
             THEN up' = up \ {i} /\ retry' = retry \cup {i}
             ELSE UNCHANGED <<up, retry>>
    BY <1>10 DEF ReadFails, asking
  <2>2. UNCHANGED <<link, generation, asked, refused, inbox, known, edge, joined>>
    BY <1>10 DEF ReadFails, asking
  <2>3. SubscriptionType'
    BY <1>1, <2>1, <2>2 DEF SubscriptionType
  <2>4. ReadsOk'
    <3>1. read.generation = generation[i] =>
            /\ ~Unread(i)
            /\ \A other \in reads'[i] : other.generation # generation[i]
      BY <1>1, <2>1 DEF ReadsOk, Unread, SubscriptionType
    <3> QED
      BY <1>1, <1>2, <2>1, <2>2, <3>1 DEF ReadsOk, Unread, SubscriptionType
  <2> QED
    BY <1>4, <2>2, <2>3, <2>4
<1>11. CASE RetryReplay(i)
  <2>1. /\ i \in retry /\ retry' = retry \ {i} /\ StartRead(i)
        /\ UNCHANGED <<link, generation, asked, refused, up, inbox, known, edge, joined>>
    BY <1>11 DEF RetryReplay, asking
  <2>2. /\ \A read \in reads[i] : read.generation # generation[i]
        /\ ~Unread(i)
    BY <2>1 DEF ReadsOk, Unread
  <2>3. /\ reads' \in [Instances -> SUBSET Reads]
        /\ \A j \in Instances : \A a, b \in reads'[j] : a.generation = b.generation => a = b
        /\ \A j \in Instances \ {i} : reads'[j] = reads[j]
        /\ \A read \in reads'[i] :
             \/ read \in reads[i]
             \/ read.generation = generation[i] /\ ~read.answered /\ read.result = {}
    BY <2>1, <2>2, StartReadType
  <2>4. SubscriptionType'
    BY <1>1, <2>1, <2>3 DEF SubscriptionType
  <2>5. ReadsOk'
    BY <1>1, <1>2, <2>1, <2>2, <2>3 DEF ReadsOk, Unread, SubscriptionType, Reads
  <2> QED
    BY <1>4, <2>1, <2>4, <2>5
<1>12. CASE LoseLink(i)
  <2>1. /\ link' = [link EXCEPT ![i] = "lost"] /\ inbox' = [inbox EXCEPT ![i] = <<>>]
        /\ UNCHANGED <<generation, asked, refused, reads, retry, up, known, edge, joined>>
    BY <1>12 DEF LoseLink, asking
  <2>2. SubscriptionType'
    BY <1>1, <2>1 DEF SubscriptionType
  <2>3. ReadsOk'
    BY <1>1, <1>2, <2>1 DEF ReadsOk, Unread, SubscriptionType
  <2> QED
    BY <1>4, <2>1, <2>2, <2>3
<1>13. CASE SubscriberClosed(i)
  <2>1. /\ link' = [link EXCEPT ![i] = "down"] /\ link[i] = "lost"
        /\ generation' = [generation EXCEPT ![i] = @ + 1]
        /\ retry' = retry \ {i} /\ up' = up \ {i}
        /\ UNCHANGED <<asked, refused, reads, inbox, known, edge, joined>>
    BY <1>13 DEF SubscriberClosed, asking
  <2>2. SubscriptionType'
    BY <1>1, <2>1 DEF SubscriptionType
  <2>3. ReadsOk'
    BY <1>1, <1>2, <2>1 DEF ReadsOk, Unread, SubscriptionType, Reads
  <2> QED
    BY <1>4, <2>1, <2>2, <2>3
<1>14. CASE Message(i)
  <2>1. /\ inbox[i] # <<>> /\ inbox' = [inbox EXCEPT ![i] = Tail(@)]
        /\ Apply(i, {[target |-> Head(inbox[i]), at |-> now]})
        /\ UNCHANGED <<link, generation, asked, refused, reads, retry, up, edge>>
    BY <1>14 DEF Message, asking
  <2>2. Head(inbox[i]) \in Targets /\ Tail(inbox[i]) \in Seq(Targets)
    BY <1>1, <2>1, HeadTailProperties DEF SubscriptionType
  <2>3. \A e \in {[target |-> Head(inbox[i]), at |-> now]} : e.target \in Targets /\ e.at \in 0..now
    BY <1>1, <2>2
  <2>4. /\ known' \in [Instances -> [Targets -> {Never} \cup 0..now]]
        /\ joined' \subseteq joined
    BY <2>1, <2>3, ApplyType
  <2>5. SubscriptionType'
    BY <1>1, <2>1, <2>2 DEF SubscriptionType
  <2>6. KnownType' /\ EdgeType'
    BY <1>1, <1>2, <2>1, <2>4 DEF KnownType, EdgeType, edge
  <2>7. ReadsOk'
    BY <1>2, <2>1 DEF ReadsOk, Unread
  <2> QED
    BY <1>1, <1>2, <1>3, <2>5, <2>6, <2>7, TypeParts
<1>15. CASE Restart(i)
  <2>1. SubscriptionType'
    BY <1>1, <1>15 DEF Restart, SubscriptionType
  <2>2. KnownType'
    BY <1>1, <1>2, <1>15 DEF Restart, KnownType
  <2>3. EdgeType'
    BY <1>1, <1>15 DEF Restart, EdgeType
  <2>4. ReadsOk'
    BY <1>1, <1>2, <1>15 DEF Restart, ReadsOk, Unread, SubscriptionType
  <2> QED
    BY <1>1, <1>2, <1>3, <2>1, <2>2, <2>3, <2>4, TypeParts
<1> QED
  BY <1>5, <1>6, <1>8, <1>9, <1>10, <1>11, <1>12, <1>13, <1>14, <1>15, <1>7

(* The steps of the sockets.                                               *)
LEMMA ClientTypeStep ==
  ASSUME TypeOK, NEW s \in Sockets,
         Handshake(s) \/ Connect(s) \/ Join(s) \/ Leave(s) \/ VerifyRefresh(s)
           \/ FinishRefresh(s) \/ TokenExpires(s) \/ Disconnect(s)
  PROVE  /\ TypeOK'
         /\ UNCHANGED <<now, log, revoke, link, generation, asked, refused, reads, retry, up,
                     inbox, known>>
<1>1. /\ BusType /\ SubscriptionType /\ KnownType /\ EdgeType
      /\ now \in Time /\ faults \in 0..MaxFaults
  BY TypeParts DEF TypeOK
<1>2. /\ UNCHANGED <<now, log, revoke, link, generation, asked, refused, reads, retry, up,
                     inbox, known>>
      /\ faults' = faults
  BY DEF Handshake, Connect, Join, Leave, VerifyRefresh, FinishRefresh, TokenExpires, Disconnect,
         Gone, bus, subscription
<1>3. BusType' /\ SubscriptionType' /\ KnownType'
  BY <1>1, <1>2 DEF BusType, SubscriptionType, KnownType
<1>4. EdgeType'
  <2>1. CASE Handshake(s)
    BY <1>1, <2>1 DEF Handshake, Valid, EdgeType
  <2>2. CASE Connect(s)
    BY <1>1, <2>2 DEF Connect, EdgeType
  <2>3. CASE Join(s) \/ Leave(s)
    BY <1>1, <2>3 DEF Join, Leave, EdgeType, edge
  <2>4. CASE VerifyRefresh(s)
    BY <1>1, <2>4 DEF VerifyRefresh, Valid, EdgeType
  <2>5. CASE FinishRefresh(s)
    BY <1>1, <2>5 DEF FinishRefresh, EdgeType
  <2>6. CASE Gone(s)
    BY <1>1, <2>6 DEF Gone, EdgeType
  <2> QED
    BY <2>1, <2>2, <2>3, <2>4, <2>5, <2>6 DEF TokenExpires, Disconnect
<1> QED
  BY <1>1, <1>2, <1>3, <1>4, TypeParts

(* Time passes.                                                            *)
LEMMA TickTypeStep ==
  ASSUME TypeOK, ReadsOk, Tick
  PROVE  TypeOK' /\ ReadsOk'
<1>1. /\ BusType /\ SubscriptionType /\ KnownType /\ EdgeType
      /\ now \in Nat /\ now' \in Time /\ now' = now + 1 /\ faults \in 0..MaxFaults
      /\ UNCHANGED <<log, revoke, link, generation, asked, refused, reads, retry, up, inbox,
                     known, edge, joined, faults>>
  BY TypeParts, RevocationAssumption DEF TypeOK, Time, Tick, bus, subscription
<1>2. /\ \A e \in log : e.at \in Int
      /\ \A i \in Instances : \A read \in reads[i] : \A e \in read.result : e.at \in Int
  BY <1>1 DEF BusType, SubscriptionType, Reads, Entry, Time
<1>3. BusType' /\ SubscriptionType' /\ EdgeType'
  BY <1>1, <1>2 DEF BusType, SubscriptionType, EdgeType, edge
<1>4. KnownType'
  <2>1. {Never} \cup 0..now \subseteq {Never} \cup 0..now'
    BY <1>1
  <2> QED
    BY <1>1, <2>1 DEF KnownType
<1>5. ReadsOk'
  BY <1>1, <1>2 DEF ReadsOk, Unread
<1> QED
  BY <1>1, <1>3, <1>4, <1>5, TypeParts

(* An entry leaves the log when no token it binds can live.                *)
LEMMA LogStep ==
  ASSUME TypeOK, LogHolds, [Next]_vars
  PROVE  LogHolds'
<1>1. /\ BusType /\ now \in Nat /\ Lifetime \in Nat
      /\ \A r \in Revokes : revoke[r].at \in Nat
  BY TypeParts, RevocationAssumption DEF TypeOK, Time, BusType
<1>2. ASSUME NEW r \in Revokes, NEW q \in Revokes, log' = Appended(EntryOf(r)), UNCHANGED now,
             EntryOf(q) \in log
      PROVE  EntryOf(q) \in log' \/ Past(q)
  <2>1. EntryOf(q).at = revoke[q].at /\ EntryOf(r).at = revoke[r].at /\ revoke[r].at <= now
    BY DEF EntryOf, LogHolds
  <2> QED
    BY <1>1, <1>2, <2>1 DEF Appended, Past
<1>3. ASSUME UNCHANGED <<log, revoke>>, now' = now \/ now' = now + 1 PROVE LogHolds'
  BY <1>1, <1>3 DEF LogHolds, Past, EntryOf
<1>4. ASSUME NEW r \in Revokes, NEW stage \in Stages, NEW answer \in Answers,
             Settle(r, stage, answer), UNCHANGED now,
             log' = log \/ log' = Appended(EntryOf(r)),
             stage = "done" => revoke[r].stage = "publish"
      PROVE  LogHolds' \/ stage = "publish"
  <2>1. /\ revoke'[r].stage = stage /\ revoke'[r].at = revoke[r].at
        /\ \A other \in Revokes \ {r} : revoke'[other] = revoke[other]
    BY <1>1, <1>4, SettleType
  <2>2. \A q \in Revokes :
          /\ EntryOf(q)' = EntryOf(q) /\ (Past(q) => Past(q)')
          /\ EntryOf(q) \in log => EntryOf(q) \in log' \/ Past(q)
    BY <1>2, <1>4, <2>1 DEF EntryOf, Past
  <2> QED
    BY <1>4, <2>1, <2>2 DEF LogHolds
<1>5. ASSUME NEW r \in Revokes, Request(r) PROVE LogHolds'
  <2>1. /\ log' = log /\ now' = now /\ revoke[r].stage = "new"
        /\ revoke'[r].stage = "append" /\ revoke'[r].at = now
        /\ \A q \in Revokes \ {r} : revoke'[q] = revoke[q]
    BY <1>1, <1>5 DEF Request, BusType
  <2> QED
    BY <1>1, <2>1 DEF LogHolds, Past, EntryOf
<1>6. ASSUME NEW r \in Revokes, AppendLands(r) PROVE LogHolds'
  <2>1. /\ log' = Appended(EntryOf(r)) /\ now' = now
        /\ revoke'[r].at = revoke[r].at
        /\ \A q \in Revokes \ {r} : revoke'[q] = revoke[q]
    BY <1>1, <1>6 DEF AppendLands, BusType
  <2>2. EntryOf(r)' \in log'
    BY <2>1 DEF EntryOf, Appended
  <2>3. \A q \in Revokes \ {r} :
          /\ EntryOf(q)' = EntryOf(q) /\ (Past(q) => Past(q)')
          /\ EntryOf(q) \in log => EntryOf(q) \in log' \/ Past(q)
    BY <1>2, <2>1 DEF EntryOf, Past
  <2> QED
    BY <2>1, <2>2, <2>3 DEF LogHolds
<1>7. ASSUME NEW r \in Revokes, AppendFails(r) \/ PublishLands(r) \/ PublishFails(r)
      PROVE  LogHolds'
  BY <1>4, <1>7 DEF AppendFails, PublishLands, PublishFails, Stages, Answers
<1>8. ASSUME NEW r \in Revokes, Deadline(r) PROVE LogHolds'
  <2>1. /\ UNCHANGED <<log, now>>
        /\ \A q \in Revokes : revoke'[q].stage = revoke[q].stage /\ revoke'[q].at = revoke[q].at
    BY <1>1, <1>8 DEF Deadline, BusType
  <2> QED
    BY <2>1 DEF LogHolds, Past, EntryOf
<1>9. CASE Tick
  BY <1>3, <1>9 DEF Tick, bus
<1>10. CASE Subscriber
  BY <1>3, <1>10
  DEF Subscriber, SubscriberReady, Subscribed, SubscribeFails, ReadLog, Replay, ReadFails,
      RetryReplay, LoseLink, SubscriberClosed, Message, Restart, bus
<1>11. CASE Client
  BY <1>3, <1>11, ClientTypeStep DEF Client
<1>12. CASE UNCHANGED vars
  BY <1>3, <1>12 DEF vars, bus
<1> QED
  BY <1>5, <1>6, <1>7, <1>8, <1>9, <1>10, <1>11, <1>12 DEF Next, Bus

(* Types, the reads under way and the log, over every loss and restart.    *)
LEMMA Foundations == Spec => [](TypeOK /\ ReadsOk /\ LogHolds)
<1>1. Init => TypeOK /\ ReadsOk /\ LogHolds
  <2> SUFFICES ASSUME Init PROVE TypeOK /\ ReadsOk /\ LogHolds
    OBVIOUS
  <2>1. now \in Time /\ now \in Nat /\ faults \in 0..MaxFaults
    BY RevocationAssumption DEF Init, Time
  <2>2. BusType
    BY <2>1 DEF Init, BusType, Stages, Answers
  <2>3. SubscriptionType
    BY DEF Init, SubscriptionType
  <2>4. KnownType /\ EdgeType
    BY DEF Init, KnownType, EdgeType
  <2>5. TypeOK
    BY <2>1, <2>2, <2>3, <2>4
    DEF TypeOK, BusType, SubscriptionType, KnownType, EdgeType, Reads, Stages, Answers
  <2>6. ReadsOk
    BY DEF Init, ReadsOk, Unread
  <2>7. LogHolds
    BY <2>1 DEF Init, LogHolds
  <2> QED
    BY <2>5, <2>6, <2>7
<1>2. TypeOK /\ ReadsOk /\ LogHolds /\ [Next]_vars => (TypeOK /\ ReadsOk /\ LogHolds)'
  <2> SUFFICES ASSUME TypeOK, ReadsOk, LogHolds, [Next]_vars PROVE TypeOK' /\ ReadsOk' /\ LogHolds'
    OBVIOUS
  <2>1. LogHolds'
    BY LogStep
  <2>2. CASE Bus
    <3>1. TypeOK'
      BY <2>2, BusTypeStep DEF Bus
    <3>2. UNCHANGED <<now, link, generation, asked, refused, reads, retry, up>>
      BY <2>2
      DEF Bus, Request, AppendLands, AppendFails, PublishLands, PublishFails, Deadline,
         subscription, asking
    <3>3. ReadsOk'
      BY <3>2 DEF ReadsOk, Unread
    <3> QED
      BY <2>1, <3>1, <3>3
  <2>3. CASE Subscriber
    BY <2>1, <2>3, SubscriberTypeStep DEF Subscriber
  <2>4. CASE Client
    <3>1. TypeOK' /\ UNCHANGED <<now, link, generation, asked, refused, reads, retry, up>>
      BY <2>4, ClientTypeStep DEF Client
    <3>2. ReadsOk'
      BY <3>1 DEF ReadsOk, Unread
    <3> QED
      BY <2>1, <3>1, <3>2
  <2>5. CASE Tick
    BY <2>1, <2>5, TickTypeStep
  <2>6. CASE UNCHANGED vars
    BY <2>1, <2>6 DEF vars, bus, subscription, edge, TypeOK, ReadsOk, Unread
  <2> QED
    BY <2>2, <2>3, <2>4, <2>5, <2>6 DEF Next
<1> QED
  BY <1>1, <1>2, PTL DEF Spec

(* Types are kept, and at most one read is of a subscription.              *)
THEOREM TypeCorrect == Spec => []TypeOK
BY Foundations, PTL

(***************************************************************************)
(* A socket in the channel is admitted                                     *)
(***************************************************************************)
Admitted(s) == token[s].granted /\ ~Covers(known[home[s]], UserOf[s], token[s])

(* While its token and what is known of its targets stand, a socket stays  *)
(* admitted, however late it gets.                                         *)
LEMMA StaysAdmitted ==
  ASSUME TypeOK, NEW s \in Sockets, Admitted(s), now' = now \/ now' = now + 1,
         token'[s] = token[s], home'[s] = home[s],
         \A target \in {UserOf[s], Channel} : known'[home[s]][target] = known[home[s]][target]
  PROVE  Admitted(s)'
<1>1. now \in Int /\ Lifetime \in Int /\ UserOf[s] \in Targets /\ Channel \in Targets
      /\ home[s] \in Instances
  BY RevocationAssumption DEF TypeOK, Time, Targets
<1>2. \A target \in {UserOf[s], Channel} : known[home[s]][target] \in Int
  <2>1. \A target \in Targets : known[home[s]][target] \in {Never} \cup 0..now
    BY <1>1 DEF TypeOK
  <2> QED
    BY <1>1, <2>1 DEF Never
<1>3. Iat(token[s])' = Iat(token[s])
  BY DEF Iat
<1> QED
  BY <1>1, <1>2, <1>3 DEF Admitted, Covers

(* A revoke closes the channel of every socket that it covers.             *)
LEMMA ApplyAdmits ==
  ASSUME TypeOK, HolderIsAdmitted, NEW i \in Instances,
         NEW entries, \A e \in entries : e.target \in Targets /\ e.at \in 0..now,
         Apply(i, entries), UNCHANGED <<now, edge>>
  PROVE  HolderIsAdmitted'
<1> DEFINE after == Recorded(i, entries)
<1>1. /\ known' = [known EXCEPT ![i] = after]
      /\ joined' = joined \ {s \in Found(i, entries) : Covers(after, UserOf[s], token[s])}
      /\ UNCHANGED <<now, conn, home, token>>
  BY DEF Apply, edge
<1>2. SUFFICES ASSUME NEW s \in joined' PROVE Admitted(s)'
  BY DEF HolderIsAdmitted, Admitted
<1>3. /\ s \in joined /\ s \in Sockets /\ conn[s] = "open" /\ home[s] \in Instances
      /\ UserOf[s] \in Targets /\ Channel \in Targets /\ Admitted(s)
  BY <1>1, <1>2, RevocationAssumption DEF TypeOK, HolderIsAdmitted, Admitted, Targets
<1>4. CASE home[s] # i
  BY <1>1, <1>3, <1>4, StaysAdmitted DEF TypeOK
<1>5. CASE s \in Found(i, entries)
  <2>1. ~Covers(after, UserOf[s], token[s]) /\ home[s] = i
    BY <1>1, <1>2, <1>5 DEF Found, Live
  <2>2. known'[home[s]] = after
    BY <1>1, <2>1 DEF TypeOK
  <2>3. \A t \in Targets : known'[i][t] = after[t]
    BY <2>1, <2>2
  <2> HIDE DEF after
  <2>4. Iat(token[s])' = Iat(token[s])
    BY <1>1 DEF Iat
  <2> QED
    BY <1>1, <1>3, <2>1, <2>3, <2>4 DEF Admitted, Covers
<1>6. CASE home[s] = i /\ s \notin Found(i, entries)
  <2>1. \A e \in entries : e.target \notin {Channel, UserOf[s]}
    BY <1>3, <1>6 DEF Found, Live
  <2>2. \A target \in {UserOf[s], Channel} : after[target] = known[i][target]
    BY <1>3, <2>1, RecordedIsLatest
  <2>3. known'[i] = after
    BY <1>1 DEF TypeOK
  <2> HIDE DEF after
  <2> QED
    BY <1>1, <1>3, <1>6, <2>2, <2>3, StaysAdmitted
<1> QED
  BY <1>4, <1>5, <1>6

(* A socket in the channel's room has a token that grants it and that no   *)
(* revoke its instance knows of covers, however joins, refreshes and       *)
(* revokes interleave.                                                     *)
THEOREM Admission == Spec => []HolderIsAdmitted
<1>1. Init => HolderIsAdmitted
  BY DEF Init, HolderIsAdmitted
<1>2. TypeOK /\ ReadsOk /\ HolderIsAdmitted /\ [Next]_vars => HolderIsAdmitted'
  <2> SUFFICES ASSUME TypeOK, ReadsOk, HolderIsAdmitted, [Next]_vars PROVE HolderIsAdmitted'
    OBVIOUS
  <2>1. \A s \in joined : s \in Sockets /\ Admitted(s) /\ conn[s] = "open"
    BY DEF TypeOK, HolderIsAdmitted, Admitted
  <2>2. ASSUME UNCHANGED <<known, edge, joined>>, now' = now \/ now' = now + 1
        PROVE  HolderIsAdmitted'
    <3>1. \A s \in joined : Admitted(s)'
      BY <2>1, <2>2, StaysAdmitted DEF edge
    <3> QED
      BY <2>2, <3>1 DEF HolderIsAdmitted, Admitted
  <2>3. CASE Bus
    BY <2>2, <2>3
    DEF Bus, Request, AppendLands, AppendFails, PublishLands, PublishFails, Deadline
  <2>4. CASE Tick
    BY <2>2, <2>4 DEF Tick
  <2>5. CASE UNCHANGED vars
    BY <2>2, <2>5 DEF vars
  <2>6. ASSUME NEW i \in Instances, Replay(i) PROVE HolderIsAdmitted'
    <3>1. PICK read \in reads[i] :
            IF read.generation = generation[i]
            THEN Apply(i, read.result)
            ELSE UNCHANGED <<known, joined>>
      BY <2>6 DEF Replay, asking
    <3>2. UNCHANGED <<now, edge>>
      BY <2>6 DEF Replay, asking
    <3>3. \A e \in read.result : e.target \in Targets /\ e.at \in 0..now
      <4>1. read.result \in SUBSET Entry
        BY <2>6, <3>1 DEF TypeOK
      <4> QED
        BY <4>1, RevocationAssumption DEF ReadsOk, Entry, Time, TypeOK
    <3> QED
      BY <2>2, <2>6, <3>1, <3>2, <3>3, ApplyAdmits
  <2>7. ASSUME NEW i \in Instances, Message(i) PROVE HolderIsAdmitted'
    <3> DEFINE entries == {[target |-> Head(inbox[i]), at |-> now]}
    <3>1. Head(inbox[i]) \in Targets /\ now \in Nat
      BY <2>7, HeadTailProperties, RevocationAssumption DEF Message, TypeOK, Time
    <3>2. \A e \in entries : e.target \in Targets /\ e.at \in 0..now
      BY <3>1
    <3>3. Apply(i, entries) /\ UNCHANGED <<now, edge>>
      BY <2>7 DEF Message, asking
    <3> HIDE DEF entries
    <3> QED
      BY <3>2, <3>3, ApplyAdmits
  <2>8. ASSUME NEW i \in Instances, Restart(i) PROVE HolderIsAdmitted'
    <3>1. SUFFICES ASSUME NEW s \in joined' PROVE Admitted(s)'
      BY DEF HolderIsAdmitted, Admitted
    <3>2. s \in joined /\ s \in Sockets /\ home[s] # i /\ home[s] \in Instances
      BY <2>1, <2>8 DEF Restart, TypeOK
    <3>3. /\ now' = now /\ token'[s] = token[s] /\ home'[s] = home[s]
          /\ known'[home[s]] = known[home[s]]
      BY <2>8, <3>2 DEF Restart, TypeOK
    <3> QED
      BY <2>1, <3>2, <3>3, StaysAdmitted
  <2>9. CASE Subscriber
    <3>1. PICK i \in Instances :
            \/ SubscriberReady(i) \/ Subscribed(i) \/ SubscribeFails(i) \/ ReadLog(i) \/ Replay(i)
            \/ ReadFails(i) \/ RetryReplay(i) \/ LoseLink(i) \/ SubscriberClosed(i)
            \/ Message(i) \/ Restart(i)
      BY <2>9 DEF Subscriber
    <3> QED
      BY <2>2, <2>6, <2>7, <2>8, <3>1
      DEF SubscriberReady, Subscribed, SubscribeFails, ReadLog, ReadFails, RetryReplay,
          LoseLink, SubscriberClosed
  <2>10. ASSUME NEW s \in Sockets,
               Handshake(s) \/ Connect(s) \/ Join(s) \/ Leave(s) \/ VerifyRefresh(s)
                 \/ FinishRefresh(s) \/ Gone(s)
        PROVE  HolderIsAdmitted'
    <3>1. SUFFICES ASSUME NEW q \in joined' PROVE Admitted(q)'
      BY DEF HolderIsAdmitted, Admitted
    <3>2. UNCHANGED <<now, known>>
      BY <2>10 DEF Handshake, Connect, Join, Leave, VerifyRefresh, FinishRefresh, Gone
    <3>3. CASE q # s
      <4>1. q \in joined /\ token'[q] = token[q] /\ home'[q] = home[q]
        BY <2>10, <3>1, <3>3
        DEF Handshake, Connect, Join, Leave, VerifyRefresh, FinishRefresh, Gone, edge, TypeOK
      <4> QED
        BY <2>1, <3>2, <4>1, StaysAdmitted
    <3>4. CASE q = s /\ (Connect(s) \/ Leave(s) \/ VerifyRefresh(s))
      <4>1. q \in joined /\ token'[q] = token[q] /\ home'[q] = home[q]
        BY <3>1, <3>4 DEF Connect, Leave, VerifyRefresh, edge
      <4> QED
        BY <2>1, <3>2, <4>1, StaysAdmitted
    <3>5. CASE q = s /\ (Handshake(s) \/ Gone(s))
      BY <2>1, <3>1, <3>5 DEF Handshake, Gone
    <3>6. CASE q = s /\ Join(s)
      <4>1. /\ token[s].granted /\ ~Covers(known[home[s]], UserOf[s], token[s])
            /\ UNCHANGED <<now, known, token, home>>
        BY <3>6 DEF Join, edge
      <4> QED
        BY <3>6, <4>1 DEF Admitted, Covers, Iat
    <3>7. CASE q = s /\ FinishRefresh(s)
      <4>1. /\ refreshed[s].granted /\ ~Covers(known[home[s]], UserOf[s], refreshed[s])
            /\ UNCHANGED <<now, known, home>> /\ token' = [token EXCEPT ![s] = refreshed[s]]
        BY <3>1, <3>7 DEF FinishRefresh
      <4>2. token'[s] = refreshed[s]
        BY <4>1 DEF TypeOK
      <4> QED
        BY <3>7, <4>1, <4>2 DEF Admitted, Covers, Iat
    <3> QED
      BY <2>10, <3>3, <3>4, <3>5, <3>6, <3>7
  <2>11. CASE Client
    BY <2>10, <2>11 DEF Client, TokenExpires, Disconnect
  <2> QED
    BY <2>3, <2>4, <2>5, <2>9, <2>11 DEF Next
<1> QED
  BY <1>1, <1>2, Foundations, PTL DEF Spec

(***************************************************************************)
(* A published revoke reaches every instance                               *)
(***************************************************************************)

(* What has reached an instance has reached it for good, while the         *)
(* connection with what is on it stands.                                   *)
LEMMA ReachedStays ==
  ASSUME TypeOK, NEW r \in Revokes, NEW i \in Instances, Reached(r, i),
         now' = now \/ now' = now + 1, revoke'[r].at = revoke[r].at,
         \/ known'[i] = known[i]
         \/ \A target \in Targets :
              known'[i][target] \in Int /\ known'[i][target] >= known[i][target],
         \/ inbox'[i] = inbox[i]
         \/ \E target \in Targets : inbox'[i] = Append(inbox[i], target)
  PROVE  Reached(r, i)'
<1>1. /\ now \in Nat /\ revoke[r].at \in Nat /\ TargetOf[r] \in Targets /\ Lifetime \in Nat
      /\ inbox[i] \in Seq(Targets)
  BY RevocationAssumption DEF TypeOK, Time
<1>2. known[i][TargetOf[r]] \in Int
  <2>1. known[i][TargetOf[r]] \in {Never} \cup 0..now
    BY <1>1 DEF TypeOK
  <2> QED
    BY <1>1, <2>1 DEF Never
<1>3. Past(r) => Past(r)'
  BY <1>1 DEF Past
<1>4. OnItsWay(r, i) => OnItsWay(r, i)'
  <2>1. CASE inbox'[i] = inbox[i]
    BY <2>1 DEF OnItsWay
  <2>2. ASSUME NEW target \in Targets, inbox'[i] = Append(inbox[i], target), OnItsWay(r, i)
        PROVE  OnItsWay(r, i)'
    <3>1. PICK n \in 1..Len(inbox[i]) : inbox[i][n] = TargetOf[r]
      BY <2>2 DEF OnItsWay
    <3>2. /\ Len(inbox'[i]) = Len(inbox[i]) + 1 /\ Len(inbox[i]) \in Nat
          /\ inbox'[i][n] = inbox[i][n]
      BY <1>1, <2>2, AppendProperties, LenProperties
    <3>3. n \in 1..Len(inbox'[i])
      BY <3>2
    <3> QED
      BY <3>1, <3>2, <3>3 DEF OnItsWay
  <2> QED
    BY <2>1, <2>2
<1> QED
  BY <1>1, <1>2, <1>3, <1>4 DEF Reached

(* The bus: a publish puts the revoke on its way to all that subscribe.    *)
LEMMA BusReaches ==
  ASSUME TypeOK, PublishedReaches, NEW q \in Revokes,
         Request(q) \/ AppendLands(q) \/ AppendFails(q) \/ PublishLands(q)
           \/ PublishFails(q) \/ Deadline(q)
  PROVE  PublishedReaches'
<1>1. /\ UNCHANGED <<now, link, generation, asked, refused, reads, up, known>>
      /\ inbox' = inbox \/ inbox' = Delivered(q)
  BY DEF Request, AppendLands, AppendFails, PublishLands, PublishFails, Deadline,
         subscription, asking
<1>2. \A i \in Instances : inbox'[i] = inbox[i] \/ inbox'[i] = Append(inbox[i], TargetOf[q])
  BY <1>1 DEF Delivered
<1>3. /\ \A r \in Revokes \ {q} : revoke'[r] = revoke[r]
      /\ \/ revoke'[q].stage # "done"
         \/ revoke'[q].at = revoke[q].at /\ PublishLands(q)
  <2>1. BusType
    BY TypeParts
  <2>2. CASE Request(q) \/ AppendLands(q)
    BY <2>1, <2>2 DEF Request, AppendLands, BusType
  <2>3. CASE AppendFails(q) \/ PublishFails(q)
    BY <2>1, <2>3, SettleType DEF AppendFails, PublishFails, Stages, Answers
  <2>4. CASE PublishLands(q)
    BY <2>1, <2>4, SettleType DEF PublishLands, Stages, Answers
  <2>5. CASE Deadline(q)
    BY <2>1, <2>5 DEF Deadline, BusType
  <2> QED
    BY <2>2, <2>3, <2>4, <2>5
<1>4. SUFFICES ASSUME NEW r \in Revokes, NEW i \in Instances,
                      revoke'[r].stage = "done", link[i] = "subscribed"
               PROVE  /\ i \in up => Reached(r, i)'
                      /\ \A read \in reads[i] : read.answered /\ read.generation = generation[i] =>
                           EntryOf(r)' \in read.result \/ Reached(r, i)'
  BY <1>1 DEF PublishedReaches
<1>5. TargetOf[q] \in Targets /\ inbox[i] \in Seq(Targets)
  BY RevocationAssumption DEF TypeOK
<1>6. CASE r # q
  <2>1. revoke'[r] = revoke[r] /\ EntryOf(r)' = EntryOf(r)
    BY <1>3, <1>6 DEF EntryOf
  <2>2. Reached(r, i) => Reached(r, i)'
    BY <1>1, <1>2, <1>5, <2>1, ReachedStays
  <2> QED
    BY <1>4, <2>1, <2>2 DEF PublishedReaches
<1>7. CASE r = q
  <2>1. inbox' = Delivered(q)
    BY <1>3, <1>4, <1>7 DEF PublishLands
  <2>2. inbox'[i] = Append(inbox[i], TargetOf[q])
    BY <1>4, <2>1 DEF Delivered
  <2>3. inbox'[i][Len(inbox[i]) + 1] = TargetOf[q] /\ Len(inbox'[i]) = Len(inbox[i]) + 1
        /\ Len(inbox[i]) \in Nat
    BY <1>5, <2>2, AppendProperties, LenProperties
  <2> QED
    BY <1>7, <2>3 DEF Reached, OnItsWay
<1> QED
  BY <1>6, <1>7

(* What Apply is given, the instance knows of.                             *)
LEMMA ApplyReaches ==
  ASSUME TypeOK, NEW i \in Instances,
         NEW entries, \A e \in entries : e.target \in Targets /\ e.at \in 0..now,
         Apply(i, entries)
  PROVE  /\ \A j \in Instances \ {i} : known'[j] = known[j]
         /\ \A target \in Targets :
              known'[i][target] \in Int /\ known'[i][target] >= known[i][target]
         /\ \A e \in entries : known'[i][e.target] >= e.at
<1> DEFINE after == Recorded(i, entries)
<1>1. known' = [known EXCEPT ![i] = after]
  BY DEF Apply
<1>2. known'[i] = after /\ \A j \in Instances \ {i} : known'[j] = known[j]
  BY <1>1 DEF TypeOK
<1>3. \A target \in Targets :
        /\ after[target] \in {Never} \cup 0..now
        /\ after[target] >= known[i][target]
        /\ \A e \in entries : e.target = target => after[target] >= e.at
  BY RecordedIsLatest
<1> HIDE DEF after
<1>4. now \in Int
  BY RevocationAssumption DEF TypeOK, Time
<1> QED
  BY <1>2, <1>3, <1>4 DEF Never

(* The subscription: what was published before SUBSCRIBE is read from the  *)
(* log, what is published after it comes as a message.                     *)
LEMMA SubscriberReaches ==
  ASSUME TypeOK, ReadsOk, LogHolds, PublishedReaches, NEW i \in Instances,
         SubscriberReady(i) \/ Subscribed(i) \/ SubscribeFails(i) \/ ReadLog(i) \/ Replay(i)
           \/ ReadFails(i) \/ RetryReplay(i) \/ LoseLink(i) \/ SubscriberClosed(i)
           \/ Message(i) \/ Restart(i)
  PROVE  PublishedReaches'
<1>1. /\ SubscriptionType /\ BusType /\ now \in Nat /\ Lifetime \in Nat
      /\ \A r \in Revokes : TargetOf[r] \in Targets /\ revoke[r].at \in Nat
  BY TypeParts, RevocationAssumption DEF TypeOK, Time
<1>2. UNCHANGED <<now, log, revoke>>
  BY DEF SubscriberReady, Subscribed, SubscribeFails, ReadLog, Replay, ReadFails,
         RetryReplay, LoseLink, SubscriberClosed, Message, Restart, bus
<1>3. \A r \in Revokes : EntryOf(r)' = EntryOf(r) /\ Past(r)' = Past(r)
  BY <1>2 DEF EntryOf, Past
<1>4. \A j \in Instances \ {i} :
        /\ link'[j] = link[j] /\ generation'[j] = generation[j] /\ reads'[j] = reads[j]
        /\ j \in up' <=> j \in up
        /\ inbox'[j] = inbox[j] /\ known'[j] = known[j]
  <2> USE <1>1 DEF SubscriberReady, Subscribed, SubscribeFails, ReadLog, Replay, ReadFails, RetryReplay,
        LoseLink, SubscriberClosed, Message, Restart
  <2>1. \A j \in Instances \ {i} : link'[j] = link[j] /\ generation'[j] = generation[j]
    BY DEF SubscriptionType
  <2>2. \A j \in Instances \ {i} : reads'[j] = reads[j]
    BY DEF SubscriptionType, StartRead
  <2>3. \A j \in Instances \ {i} : (j \in up' <=> j \in up) /\ inbox'[j] = inbox[j]
    BY DEF SubscriptionType
  <2>4. \A j \in Instances \ {i} : known'[j] = known[j]
    BY DEF TypeOK, Apply
  <2> QED
    BY <2>1, <2>2, <2>3, <2>4
<1>5. ASSUME NEW r \in Revokes, NEW j \in Instances \ {i},
             revoke[r].stage = "done", link[j] = "subscribed"
      PROVE  /\ j \in up => Reached(r, j)'
             /\ \A read \in reads[j] : read.answered /\ read.generation = generation[j] =>
                  EntryOf(r) \in read.result \/ Reached(r, j)'
  <2>1. Reached(r, j) => Reached(r, j)'
    BY <1>2, <1>4, ReachedStays
  <2> QED
    BY <1>5, <2>1 DEF PublishedReaches
<1>6. ASSUME \/ link'[i] # "subscribed"
             \/ \A r \in Revokes : revoke[r].stage = "done" =>
                  /\ i \in up' => Reached(r, i)'
                  /\ \A read \in reads'[i] : read.answered /\ read.generation = generation'[i] =>
                       EntryOf(r) \in read.result \/ Reached(r, i)'
      PROVE  PublishedReaches'
  <2> SUFFICES ASSUME NEW r \in Revokes, NEW j \in Instances,
                      revoke[r].stage = "done", link'[j] = "subscribed"
               PROVE  /\ j \in up' => Reached(r, j)'
                      /\ \A read \in reads'[j] : read.answered /\ read.generation = generation'[j] =>
                           EntryOf(r) \in read.result \/ Reached(r, j)'
    BY <1>2, <1>3 DEF PublishedReaches
  <2>1. CASE j = i
    BY <1>6, <2>1
  <2>2. CASE j # i
    BY <1>4, <1>5, <2>2
  <2> QED
    BY <2>1, <2>2
<1>7. CASE SubscriberReady(i) \/ LoseLink(i) \/ SubscriberClosed(i) \/ Restart(i)
  <2>1. link'[i] # "subscribed"
    BY <1>1, <1>7 DEF SubscriberReady, LoseLink, SubscriberClosed, Restart, SubscriptionType
  <2> QED
    BY <1>6, <2>1
<1>8. CASE Subscribed(i)
  <2>1. PICK g \in asked[i] :
          /\ link[i] \in {"ready", "subscribed"}
          /\ IF g = generation[i] THEN StartRead(i) ELSE UNCHANGED reads
          /\ UNCHANGED <<up, generation, inbox, known>>
    BY <1>8 DEF Subscribed
  <2>2. CASE g = generation[i]
    <3>1. /\ i \notin up' /\ generation'[i] = generation[i] /\ StartRead(i)
          /\ \A read \in reads[i] : read.generation # generation[i]
      BY <2>1, <2>2 DEF ReadsOk, Unread
    <3>2. \A read \in reads'[i] :
            \/ read \in reads[i]
            \/ read.generation = generation[i] /\ ~read.answered /\ read.result = {}
      BY <3>1, StartReadType
    <3> QED
      BY <1>6, <3>1, <3>2
  <2>3. CASE g # generation[i] /\ link[i] = "ready"
    <3>1. i \notin up' /\ \A read \in reads'[i] : read.generation # generation'[i]
      BY <2>1, <2>3 DEF ReadsOk, Unread
    <3> QED
      BY <1>6, <3>1
  <2>4. CASE g # generation[i] /\ link[i] = "subscribed"
    <3>1. UNCHANGED <<up, reads, generation, inbox, known>>
      BY <2>1, <2>4
    <3>2. \A r \in Revokes : Reached(r, i) => Reached(r, i)'
      BY <1>2, <3>1, ReachedStays
    <3> QED
      BY <1>6, <2>4, <3>1, <3>2 DEF PublishedReaches
  <2> QED
    BY <2>1, <2>2, <2>3, <2>4
<1>9. CASE SubscribeFails(i)
  <2>1. i \notin up' /\ UNCHANGED <<link, reads, generation, inbox, known>>
    BY <1>9 DEF SubscribeFails
  <2>2. \A r \in Revokes : Reached(r, i) => Reached(r, i)'
    BY <1>2, <2>1, ReachedStays
  <2>3. CASE link[i] = "subscribed"
    BY <1>6, <2>1, <2>2, <2>3 DEF PublishedReaches
  <2>4. CASE link[i] # "subscribed"
    BY <1>6, <2>1, <2>4
  <2> QED
    BY <2>3, <2>4
<1>10. CASE RetryReplay(i)
  <2>1. /\ i \in retry /\ UNCHANGED <<up, generation, inbox, known, link>> /\ StartRead(i)
        /\ \A read \in reads[i] : read.generation # generation[i]
    BY <1>10 DEF RetryReplay, ReadsOk
  <2>2. \A read \in reads'[i] :
          \/ read \in reads[i]
          \/ read.generation = generation[i] /\ ~read.answered /\ read.result = {}
    BY <2>1, StartReadType
  <2>3. \A r \in Revokes : Reached(r, i) => Reached(r, i)'
    BY <1>2, <2>1, ReachedStays
  <2> QED
    BY <1>6, <2>1, <2>2, <2>3 DEF PublishedReaches
<1>11. CASE ReadLog(i)
  <2>1. PICK read \in reads[i] :
          reads' = [reads EXCEPT ![i] = (@ \ {read}) \cup
             {[read EXCEPT !.answered = TRUE, !.result = {e \in log : e.at >= now - Lifetime}]}]
    BY <1>11 DEF ReadLog, asking
  <2> DEFINE new == [read EXCEPT !.answered = TRUE, !.result = {e \in log : e.at >= now - Lifetime}]
  <2>2. UNCHANGED <<link, generation, up, inbox, known>>
    BY <1>11 DEF ReadLog, asking
  <2>3. new.result = {e \in log : e.at >= now - Lifetime}
    BY <1>1 DEF SubscriptionType, Reads
  <2>4. reads' = [reads EXCEPT ![i] = (@ \ {read}) \cup {new}]
    BY <2>1
  <2> HIDE DEF new
  <2>5. \A other \in reads'[i] : other \in reads[i] \/ other = new
    BY <1>1, <2>4 DEF SubscriptionType
  <2>6. \A r \in Revokes : revoke[r].stage = "done" => EntryOf(r) \in new.result \/ Past(r)
    BY <1>1, <2>3 DEF LogHolds, Past, EntryOf
  <2>7. \A r \in Revokes : Reached(r, i) => Reached(r, i)'
    BY <1>2, <2>2, ReachedStays
  <2>8. \A r \in Revokes : Past(r) => Reached(r, i)'
    BY <1>3 DEF Reached
  <2>9. CASE link[i] = "subscribed"
    BY <1>6, <2>2, <2>5, <2>6, <2>7, <2>8, <2>9 DEF PublishedReaches
  <2>10. CASE link[i] # "subscribed"
    BY <1>6, <2>2, <2>10
  <2> QED
    BY <2>9, <2>10
<1>12. CASE ReadFails(i)
  <2>1. /\ \A read \in reads'[i] : read \in reads[i]
        /\ i \in up' => i \in up
        /\ UNCHANGED <<link, generation, inbox, known>>
    BY <1>1, <1>12 DEF ReadFails, SubscriptionType
  <2>2. \A r \in Revokes : Reached(r, i) => Reached(r, i)'
    BY <1>2, <2>1, ReachedStays
  <2>3. CASE link[i] = "subscribed"
    BY <1>6, <2>1, <2>2, <2>3 DEF PublishedReaches
  <2>4. CASE link[i] # "subscribed"
    BY <1>6, <2>1, <2>4
  <2> QED
    BY <2>3, <2>4
<1>13. CASE Replay(i)
  <2>1. PICK read \in reads[i] :
          /\ read.answered
          /\ reads' = [reads EXCEPT ![i] = @ \ {read}]
          /\ IF read.generation = generation[i]
             THEN Apply(i, read.result) /\ up' = up \cup {i}
             ELSE UNCHANGED <<known, joined, up>>
    BY <1>13 DEF Replay, asking
  <2>2. UNCHANGED <<link, generation, inbox>>
    BY <1>13 DEF Replay, asking
  <2>3. \A e \in read.result : e.target \in Targets /\ e.at \in 0..now
    <3>1. read.result \in SUBSET Entry
      BY <1>1, <2>1 DEF SubscriptionType, Reads
    <3> QED
      BY <3>1, RevocationAssumption DEF ReadsOk, Entry, Time
  <2>4. \A other \in reads'[i] : other \in reads[i]
    BY <1>1, <2>1 DEF SubscriptionType
  <2>5. CASE link[i] # "subscribed"
    BY <1>6, <2>2, <2>5
  <2>6. CASE link[i] = "subscribed" /\ read.generation = generation[i]
    <3>1. /\ \A target \in Targets :
               known'[i][target] \in Int /\ known'[i][target] >= known[i][target]
          /\ \A e \in read.result : known'[i][e.target] >= e.at
      BY <2>1, <2>3, <2>6, ApplyReaches
    <3>2. \A r \in Revokes : Reached(r, i) => Reached(r, i)'
      BY <1>2, <2>2, <3>1, ReachedStays
    <3>3. \A r \in Revokes : EntryOf(r) \in read.result => Reached(r, i)'
      <4>1. \A r \in Revokes : EntryOf(r).target = TargetOf[r] /\ EntryOf(r).at = revoke[r].at
        BY DEF EntryOf
      <4> QED
        BY <1>2, <3>1, <4>1 DEF Reached
    <3>4. \A r \in Revokes : revoke[r].stage = "done" => Reached(r, i)'
      BY <2>1, <2>6, <3>2, <3>3 DEF PublishedReaches
    <3> QED
      BY <1>6, <3>4
  <2>7. CASE link[i] = "subscribed" /\ read.generation # generation[i]
    <3>1. UNCHANGED <<known, up>>
      BY <2>1, <2>7
    <3>2. \A r \in Revokes : Reached(r, i) => Reached(r, i)'
      BY <1>2, <2>2, <3>1, ReachedStays
    <3> QED
      BY <1>6, <2>2, <2>4, <2>7, <3>1, <3>2 DEF PublishedReaches
  <2> QED
    BY <2>5, <2>6, <2>7
<1>14. CASE Message(i)
  <2> DEFINE head == Head(inbox[i])
             entries == {[target |-> head, at |-> now]}
  <2>1. /\ inbox[i] # <<>> /\ inbox'[i] = Tail(inbox[i]) /\ Apply(i, entries)
        /\ UNCHANGED <<link, generation, asked, refused, reads, up>>
    BY <1>1, <1>14 DEF Message, asking, SubscriptionType
  <2>2. inbox[i] \in Seq(Targets) /\ head \in Targets /\ link[i] = "subscribed"
    BY <1>1, <2>1, HeadTailProperties DEF SubscriptionType
  <2>3. \A e \in entries : e.target \in Targets /\ e.at \in 0..now
    BY <1>1, <2>2
  <2>4. /\ \A target \in Targets :
             known'[i][target] \in Int /\ known'[i][target] >= known[i][target]
        /\ known'[i][head] >= now
    <3>1. [target |-> head, at |-> now] \in entries
      OBVIOUS
    <3> HIDE DEF entries
    <3> QED
      BY <2>1, <2>3, <3>1, ApplyReaches
  <2>5. ASSUME NEW r \in Revokes, Reached(r, i) PROVE Reached(r, i)'
    <3>1. revoke[r].at <= now /\ known[i][TargetOf[r]] \in Int
      <4>1. known[i][TargetOf[r]] \in {Never} \cup 0..now
        BY <1>1 DEF TypeOK
      <4> QED
        BY <1>1, <4>1 DEF Never, LogHolds
    <3>2. CASE known[i][TargetOf[r]] >= revoke[r].at
      BY <1>1, <1>2, <2>4, <3>1, <3>2 DEF Reached
    <3>3. CASE Past(r)
      BY <1>3, <3>3 DEF Reached
    <3>4. CASE OnItsWay(r, i)
      <4>1. PICK n \in 1..Len(inbox[i]) : inbox[i][n] = TargetOf[r]
        BY <3>4 DEF OnItsWay
      <4>2. CASE n = 1
        BY <1>1, <1>2, <2>2, <2>4, <3>1, <4>1, <4>2 DEF Reached
      <4>3. CASE n # 1
        <5>1. /\ Len(Tail(inbox[i])) = Len(inbox[i]) - 1 /\ Len(inbox[i]) \in Nat
              /\ \A m \in 1..Len(Tail(inbox[i])) : Tail(inbox[i])[m] = inbox[i][m + 1]
          BY <2>1, <2>2, HeadTailProperties, LenProperties
        <5>2. n - 1 \in 1..Len(Tail(inbox[i])) /\ Tail(inbox[i])[n - 1] = TargetOf[r]
          BY <4>1, <4>3, <5>1
        <5> QED
          BY <2>1, <5>2 DEF Reached, OnItsWay
      <4> QED
        BY <4>2, <4>3
    <3> QED
      BY <2>5, <3>2, <3>3, <3>4 DEF Reached
  <2> QED
    BY <1>6, <2>1, <2>2, <2>5 DEF PublishedReaches
<1> QED
  BY <1>7, <1>8, <1>10, <1>11, <1>12, <1>13, <1>14, <1>9

(* Every step keeps the published revokes where they can be enforced.      *)
LEMMA Reach == Spec => []PublishedReaches
<1>1. Init => PublishedReaches
  BY DEF Init, PublishedReaches
<1>2. TypeOK /\ ReadsOk /\ LogHolds /\ PublishedReaches /\ [Next]_vars => PublishedReaches'
  <2> SUFFICES ASSUME TypeOK, ReadsOk, LogHolds, PublishedReaches, [Next]_vars
               PROVE  PublishedReaches'
    OBVIOUS
  <2>1. ASSUME UNCHANGED <<revoke, link, generation, asked, refused, reads, up, inbox, known>>,
               now' = now \/ now' = now + 1
        PROVE  PublishedReaches'
    <3>1. \A r \in Revokes, i \in Instances : Reached(r, i) => Reached(r, i)'
      BY <2>1, ReachedStays
    <3>2. \A r \in Revokes : EntryOf(r)' = EntryOf(r)
      BY <2>1 DEF EntryOf
    <3> QED
      BY <2>1, <3>1, <3>2 DEF PublishedReaches
  <2>2. CASE Tick
    BY <2>1, <2>2 DEF Tick, bus, subscription
  <2>3. CASE Client
    BY <2>1, <2>3, ClientTypeStep DEF Client
  <2>4. CASE UNCHANGED vars
    BY <2>1, <2>4 DEF vars, bus, subscription
  <2> QED
    BY <2>2, <2>3, <2>4, BusReaches, SubscriberReaches DEF Next, Bus, Subscriber
<1> QED
  BY <1>1, <1>2, Foundations, PTL DEF Spec

(* The inductive invariant: with TypeOK it is preserved by every step.     *)
THEOREM Inductive == Spec => []IInv
BY Foundations, Reach, Admission, PTL DEF IInv

(* An instance whose bus is up, connected and with its inbox read, holds   *)
(* no socket in the channel by a live token that a published revoke binds. *)
THEOREM Enforcement == Spec => []UpInstanceEnforces
<1>1. TypeOK /\ HolderIsAdmitted /\ PublishedReaches => UpInstanceEnforces
  <2> SUFFICES ASSUME TypeOK, HolderIsAdmitted, PublishedReaches,
                      NEW r \in Revokes, NEW s \in joined,
                      revoke[r].stage = "done", Binds(r, s), home[s] \in up,
                      link[home[s]] = "subscribed", inbox[home[s]] = <<>>
               PROVE  now >= Expiry(token[s])
    BY DEF UpInstanceEnforces
  <2> DEFINE target == TargetOf[r]
             at == known[home[s]][target]
  <2>1. /\ home[s] \in Instances /\ token[s] \in Token /\ target \in {Channel, UserOf[s]}
        /\ target \in Targets /\ token[s].issued <= revoke[r].at
        /\ now \in Nat /\ revoke[r].at \in Nat /\ Lifetime \in Nat
    BY RevocationAssumption DEF TypeOK, Binds, Time
  <2>2. at \in {Never} \cup 0..now
    BY <2>1 DEF TypeOK
  <2>3. Iat(token[s]) \in Nat /\ Iat(token[s]) <= token[s].issued /\ token[s].issued \in Nat
    BY <2>1, IatIsEarlier
  <2>4. Len(inbox[home[s]]) = 0
    OBVIOUS
  <2>5. ~OnItsWay(r, home[s])
    BY <2>4 DEF OnItsWay
  <2>6. at >= revoke[r].at \/ Past(r)
    BY <2>1, <2>5 DEF PublishedReaches, Reached
  <2>7. CASE Past(r)
    BY <2>1, <2>3, <2>7 DEF Past, Expiry
  <2>8. CASE at >= revoke[r].at
    <3>1. ~Covers(known[home[s]], UserOf[s], token[s])
      BY DEF HolderIsAdmitted
    <3>2. at # Never /\ at \in Nat
      BY <2>1, <2>2, <2>8 DEF Never
    <3>3. now >= at + Lifetime \/ Iat(token[s]) > at
      BY <2>1, <2>3, <3>1, <3>2 DEF Covers
    <3> QED
      BY <2>1, <2>3, <2>8, <3>2, <3>3 DEF Expiry
  <2> QED
    BY <2>6, <2>7, <2>8
<1> QED
  BY <1>1, Foundations, Admission, Reach, PTL
=============================================================================
