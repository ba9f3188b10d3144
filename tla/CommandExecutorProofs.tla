------------------------ MODULE CommandExecutorProofs ------------------------
(***************************************************************************)
(* Proofs about CommandExecutor, for any finite set of commands and any    *)
(* bounds.  Almost every action ends in Schedule, from an intermediate     *)
(* state: a queue, the tracked commands, the slots, the locks and the      *)
(* runs.  So the invariant is a predicate of those five, Good; every       *)
(* action is shown to reach a good intermediate state, and Schedule to     *)
(* lead from one to the invariant.                                         *)
(***************************************************************************)
EXTENDS CommandExecutor, FiniteSetTheorems, WellFoundedInduction, TLAPS

TrackedStates ==
  [state: {"queued", "running", "terminal"}, lastEmitted: Nat, lastAcked: Nat,
   buffer: SUBSET Nat]

OpenRuns ==
  [phase: Unsettled, emittedTerminal: BOOLEAN,
   cancelRequested: BOOLEAN, overflowed: BOOLEAN,
   timeout: {"armed", "cleared", "fired"}, grace: BOOLEAN]

Typed(q, t, slots, owner, runs) ==
  /\ q \in [Commands -> Nat]
  /\ t \in [Commands -> {Untracked} \cup TrackedStates]
  /\ slots \in [Commands -> 0..MaxRuns]
  /\ owner \in [Keys -> Commands \cup {NoOwner}]
  /\ runs \in [Commands -> [1..MaxRuns -> {NoRun, Settled} \cup OpenRuns]]

(* The places in the queue are numbers up to its length, each taken once.  *)
Ordered(q) ==
  /\ \A c \in Commands : q[c] <= Cardinality(WaitingIn(q))
  /\ \A b, c \in WaitingIn(q) : q[b] = q[c] => b = c

(***************************************************************************)
(* The queue                                                               *)
(***************************************************************************)

LEMMA FiniteCommands ==
  ASSUME NEW S \in SUBSET Commands
  PROVE  IsFiniteSet(S) /\ Cardinality(S) \in Nat
  BY ExecutorAssumption, FS_Subset, FS_CardinalityType

(* A command appended to the queue is behind all that wait.                *)
LEMMA AppendedIsOrdered ==
  ASSUME NEW q \in [Commands -> Nat], Ordered(q), NEW c \in Commands, q[c] = 0
  PROVE  /\ Appended(q, c) \in [Commands -> Nat]
         /\ Ordered(Appended(q, c))
         /\ WaitingIn(Appended(q, c)) = WaitingIn(q) \cup {c}
<1> DEFINE n == Cardinality(WaitingIn(q))
<1>1. IsFiniteSet(WaitingIn(q)) /\ n \in Nat
  BY FiniteCommands DEF WaitingIn
<1>2. Appended(q, c) \in [Commands -> Nat]
  BY <1>1 DEF Appended
<1>3. WaitingIn(Appended(q, c)) = WaitingIn(q) \cup {c}
  BY <1>1 DEF Appended, WaitingIn
<1>4. Cardinality(WaitingIn(Appended(q, c))) = n + 1
  BY <1>1, <1>3, FS_AddElement DEF WaitingIn
<1>5. Ordered(Appended(q, c))
  BY <1>1, <1>3, <1>4 DEF Ordered, Appended, WaitingIn
<1> QED
  BY <1>2, <1>3, <1>5

(* Those that stay keep a place of their own.                              *)
LEMMA WithoutIsOrdered ==
  ASSUME NEW q \in [Commands -> Nat], Ordered(q), NEW gone
  PROVE  /\ Without(q, gone) \in [Commands -> Nat]
         /\ Ordered(Without(q, gone))
         /\ WaitingIn(Without(q, gone)) = WaitingIn(q) \ gone
<1> DEFINE rest == WaitingIn(q) \ gone
           upTo(c) == {b \in rest : q[b] <= q[c]}
<1>1. IsFiniteSet(rest) /\ Cardinality(rest) \in Nat
  BY FiniteCommands DEF WaitingIn
<1>2. ASSUME NEW c \in rest
      PROVE  /\ IsFiniteSet(upTo(c)) /\ Cardinality(upTo(c)) \in Nat
             /\ Cardinality(upTo(c)) # 0 /\ Cardinality(upTo(c)) <= Cardinality(rest)
  <2>1. upTo(c) \in SUBSET rest /\ c \in upTo(c)
    BY DEF WaitingIn
  <2>2. IsFiniteSet(upTo(c)) /\ Cardinality(upTo(c)) <= Cardinality(rest)
    BY <1>1, <2>1, FS_Subset
  <2>3. Cardinality(upTo(c)) \in Nat /\ Cardinality(upTo(c)) # 0
    BY <2>1, <2>2, FS_CardinalityType, FS_EmptySet
  <2> QED
    BY <2>2, <2>3
<1>3. ASSUME NEW b \in rest, NEW c \in rest, Cardinality(upTo(b)) = Cardinality(upTo(c))
      PROVE  b = c
  <2>1. q[b] \in Nat /\ q[c] \in Nat /\ b \in WaitingIn(q) /\ c \in WaitingIn(q)
    BY DEF WaitingIn
  <2>2. CASE q[b] <= q[c]
    <3>1. upTo(b) \in SUBSET upTo(c)
      BY <2>1, <2>2 DEF WaitingIn
    <3>2. upTo(b) = upTo(c)
      BY <1>2, <1>3, <3>1, FS_Subset
    <3>3. c \in upTo(b)
      BY <2>1, <3>2
    <3> QED
      BY <2>1, <2>2, <3>3 DEF Ordered
  <2>3. CASE q[c] <= q[b]
    <3>1. upTo(c) \in SUBSET upTo(b)
      BY <2>1, <2>3 DEF WaitingIn
    <3>2. upTo(b) = upTo(c)
      BY <1>2, <1>3, <3>1, FS_Subset
    <3>3. b \in upTo(c)
      BY <2>1, <3>2
    <3> QED
      BY <2>1, <2>3, <3>3 DEF Ordered
  <2> QED
    BY <2>1, <2>2, <2>3
<1>4. Without(q, gone) = [c \in Commands |-> IF c \in rest THEN Cardinality(upTo(c)) ELSE 0]
  BY DEF Without
<1> HIDE DEF upTo
<1>5. Without(q, gone) \in [Commands -> Nat]
  BY <1>2, <1>4
<1>6. WaitingIn(Without(q, gone)) = rest
  BY <1>2, <1>4 DEF WaitingIn
<1>7. Ordered(Without(q, gone))
  <2>1. \A c \in Commands : Without(q, gone)[c] <= Cardinality(rest)
    BY <1>1, <1>2, <1>4
  <2>2. \A b, c \in rest : Without(q, gone)[b] = Without(q, gone)[c] => b = c
    BY <1>3, <1>4 DEF WaitingIn
  <2> QED
    BY <1>6, <2>1, <2>2 DEF Ordered
<1> QED
  BY <1>5, <1>6, <1>7

(* Of some waiting commands one is the last in the queue.                  *)
LEMMA LastInQueue ==
  ASSUME NEW q \in [Commands -> Nat], Ordered(q), NEW S \in SUBSET Commands, S # {}
  PROVE  \E m \in S : \A b \in S : q[b] <= q[m]
<1> DEFINE n == Cardinality(WaitingIn(q))
           behind(c) == n - q[c]
           R == {ss \in Nat \X Nat : ss[1] < ss[2]}
           T == {behind(c) : c \in S}
<1>1. n \in Nat
  BY FiniteCommands DEF WaitingIn
<1>2. \A c \in Commands : behind(c) \in Nat
  BY <1>1 DEF Ordered
<1>3. IsWellFoundedOn(R, Nat)
  BY NatLessThanWellFounded DEF OpToRel
<1>4. T \subseteq Nat /\ T # {}
  BY <1>2
<1>5. PICK x \in T : \A y \in T : ~ (<<y, x>> \in R)
  BY <1>3, <1>4, WFMin
<1>6. PICK m \in S : x = behind(m)
  BY <1>5
<1>7. ASSUME NEW b \in S PROVE q[b] <= q[m]
  <2>1. ~ (<<behind(b), behind(m)>> \in R)
    BY <1>5, <1>6
  <2>2. ~ (behind(b) < behind(m))
    BY <1>2, <2>1
  <2> QED
    BY <1>1, <2>2
<1> QED
  BY <1>7

(***************************************************************************)
(* What schedule() takes                                                   *)
(***************************************************************************)

(* A lock is owned by the one command that holds a slot for its key.       *)
Matching(slots, owner) ==
  /\ \A c \in Holding(slots) : LockOf[c] # NoKey => owner[LockOf[c]] = c
  /\ \A k \in Keys : owner[k] # NoOwner =>
       owner[k] \in Holding(slots) /\ LockOf[owner[k]] = k

Within(slots) == Cardinality(Holding(slots)) <= MaxInFlight

Startable(c, slots, owner) ==
  Cardinality(Holding(slots)) < MaxInFlight /\ ~Locked(owner, LockOf[c])

(* Of the taken commands, those that are tracked start.                    *)
StartedOf(taken, t) == {c \in taken : t[c] # Untracked}

LEMMA StartsFew ==
  ASSUME NEW q \in [Commands -> Nat], Ordered(q), NEW t, NEW slots, NEW owner,
         Within(slots), NEW taken \in SUBSET WaitingIn(q),
         Starts(taken, q, t, slots, owner)
  PROVE  Cardinality(Holding(slots) \cup StartedOf(taken, t)) <= MaxInFlight
<1> DEFINE S == StartedOf(taken, t)
           before(c) == {b \in taken : t[b] # Untracked /\ q[b] < q[c]}
<1>1. S \in SUBSET Commands /\ Holding(slots) \in SUBSET Commands
  BY DEF StartedOf, WaitingIn, Holding
<1>2. CASE S = {}
  BY <1>2 DEF Within
<1>3. CASE S # {}
  <2>1. PICK m \in S : \A b \in S : q[b] <= q[m]
    BY <1>1, <1>3, LastInQueue
  <2>2. m \in taken /\ m \in WaitingIn(q) /\ m \in Commands
    BY <1>1 DEF StartedOf
  <2>3. Cardinality(Holding(slots) \cup before(m)) < MaxInFlight
    BY <2>2 DEF Starts
  <2>4. before(m) \in SUBSET Commands /\ before(m) \in SUBSET S
    BY <1>1 DEF StartedOf
  <2>5. ASSUME NEW b \in S, b # m PROVE b \in before(m)
    <3>1. b \in taken /\ t[b] # Untracked /\ b \in WaitingIn(q)
      BY DEF StartedOf
    <3>2. q[b] # q[m] /\ q[b] <= q[m] /\ q[b] \in Nat /\ q[m] \in Nat
      BY <1>1, <2>1, <2>2, <2>5, <3>1 DEF Ordered
    <3> QED
      BY <3>1, <3>2
  <2>6. Holding(slots) \cup S = (Holding(slots) \cup before(m)) \cup {m}
    BY <2>1, <2>4, <2>5
  <2> HIDE DEF before, S
  <2>7. IsFiniteSet(Holding(slots) \cup before(m))
        /\ Cardinality(Holding(slots) \cup before(m)) \in Nat
    BY <1>1, <2>4, FiniteCommands
  <2>8. Cardinality(Holding(slots) \cup S) <= Cardinality(Holding(slots) \cup before(m)) + 1
    BY <2>6, <2>7, FS_AddElement
  <2>9. Cardinality(Holding(slots) \cup S) \in Nat
    BY <1>1, FiniteCommands
  <2> QED
    BY <2>3, <2>7, <2>8, <2>9, ExecutorAssumption DEF S
<1> QED
  BY <1>2, <1>3

LEMMA StartedHaveTheirLock ==
  ASSUME NEW q \in [Commands -> Nat], Ordered(q), NEW t, NEW slots, NEW owner,
         NEW taken \in SUBSET WaitingIn(q), Starts(taken, q, t, slots, owner)
  PROVE  /\ \A c \in taken : LockOf[c] # NoKey => owner[LockOf[c]] = NoOwner
         /\ \A b, c \in StartedOf(taken, t) :
              LockOf[b] = LockOf[c] /\ LockOf[c] # NoKey => b = c
<1>1. ASSUME NEW c \in taken PROVE LockOf[c] # NoKey => owner[LockOf[c]] = NoOwner
  BY DEF Starts, Locked
<1>2. ASSUME NEW b \in StartedOf(taken, t), NEW c \in StartedOf(taken, t),
             LockOf[b] = LockOf[c], LockOf[c] # NoKey, b # c
      PROVE  FALSE
  <2>1. /\ b \in taken /\ b \in WaitingIn(q) /\ t[b] # Untracked
        /\ c \in taken /\ c \in WaitingIn(q) /\ t[c] # Untracked
    BY DEF StartedOf
  <2>2. q[b] \in Nat /\ q[c] \in Nat /\ q[b] # q[c]
    BY <1>2, <2>1 DEF Ordered, WaitingIn
  <2>3. CASE q[b] < q[c]
    BY <1>2, <2>1, <2>3 DEF Starts
  <2>4. CASE q[c] < q[b]
    BY <1>2, <2>1, <2>4 DEF Starts
  <2> QED
    BY <2>2, <2>3, <2>4
<1> QED
  BY <1>1, <1>2

(* None of those left behind could have started.                           *)
LEMMA LeftBehind ==
  ASSUME NEW q \in [Commands -> Nat], NEW t, NEW slots, NEW owner,
         NEW taken \in SUBSET WaitingIn(q), Starts(taken, q, t, slots, owner),
         NEW slots2, Holding(slots2) = Holding(slots) \cup StartedOf(taken, t),
         NEW owner2, \A k \in Keys :
           (owner[k] # NoOwner \/ \E b \in StartedOf(taken, t) : LockOf[b] = k)
             => owner2[k] # NoOwner,
         NEW c \in WaitingIn(q) \ taken
  PROVE  ~Startable(c, slots2, owner2)
<1> DEFINE before == {b \in taken : t[b] # Untracked /\ q[b] < q[c]}
<1>1. before \in SUBSET StartedOf(taken, t) /\ StartedOf(taken, t) \in SUBSET Commands
      /\ c \in Commands /\ Holding(slots) \in SUBSET Commands
  BY DEF StartedOf, WaitingIn, Holding
<1>2. ~ /\ Cardinality(Holding(slots) \cup before) < MaxInFlight
        /\ ~Locked(owner, LockOf[c])
        /\ \A b \in before : LockOf[b] # LockOf[c] \/ LockOf[b] = NoKey
  BY DEF Starts
<1> HIDE DEF before
<1>3. CASE ~(Cardinality(Holding(slots) \cup before) < MaxInFlight)
  <2>1. /\ Holding(slots) \cup before \in SUBSET Holding(slots2)
        /\ IsFiniteSet(Holding(slots2)) /\ Cardinality(Holding(slots2)) \in Nat
        /\ Cardinality(Holding(slots) \cup before) \in Nat
    BY <1>1, FiniteCommands
  <2>2. Cardinality(Holding(slots) \cup before) <= Cardinality(Holding(slots2))
    BY <2>1, FS_Subset
  <2> QED
    BY <1>3, <2>1, <2>2, ExecutorAssumption DEF Startable
<1>4. CASE Locked(owner, LockOf[c])
  BY <1>1, <1>4, ExecutorAssumption DEF Locked, Startable
<1>5. CASE \E b \in before : LockOf[b] = LockOf[c] /\ LockOf[b] # NoKey
  BY <1>1, <1>5, ExecutorAssumption DEF Locked, Startable
<1> QED
  BY <1>2, <1>3, <1>4, <1>5

(***************************************************************************)
(* Events                                                                  *)
(***************************************************************************)

MaybeTracked == {Untracked} \cup TrackedStates

Replayable(x) ==
  /\ (x.lastAcked + 1)..x.lastEmitted \subseteq x.buffer
  /\ x.state = "terminal" => x.lastEmitted \in x.buffer

LEMMA TrackedIsNotUntracked == \A x \in TrackedStates : x # Untracked
  BY DEF TrackedStates, Untracked

LEMMA PushKeeps ==
  ASSUME NEW x \in TrackedStates
  PROVE  /\ Push(x) \in TrackedStates
         /\ Push(x).state = x.state
         /\ Push(x).lastEmitted = x.lastEmitted + 1
         /\ Replayable(x) => Replayable(Push(x)) /\ Push(x).lastEmitted \in Push(x).buffer
<1> DEFINE next == x.lastEmitted + 1
           grown == x.buffer \cup {x.lastEmitted + 1}
<1>1. Push(x) = [x EXCEPT !.lastEmitted = next, !.buffer = grown]
  BY DEF Push
<1>2. next \in Nat /\ grown \in SUBSET Nat /\ x.lastEmitted \in Nat /\ x.lastAcked \in Nat
  BY DEF TrackedStates
<1> HIDE DEF next, grown
<1>3. /\ Push(x) \in TrackedStates
      /\ Push(x).state = x.state
      /\ Push(x).lastAcked = x.lastAcked
      /\ Push(x).lastEmitted = next
      /\ Push(x).buffer = grown
  BY <1>1, <1>2 DEF TrackedStates
<1> QED
  BY <1>2, <1>3 DEF Replayable, next, grown

LEMMA FinishKeeps ==
  ASSUME NEW x \in MaybeTracked
  PROVE  /\ Finish(x) \in MaybeTracked
         /\ Finish(x) = Untracked <=> x = Untracked
         /\ x.state = "terminal" => Finish(x) = x
         /\ x # Untracked /\ Replayable(x) => Replayable(Finish(x))
<1>1. CASE ~IsLive(x)
  BY <1>1 DEF Finish
<1>2. CASE IsLive(x)
  <2>1. x \in TrackedStates /\ x.state # "terminal" /\ x # Untracked
    BY <1>2 DEF IsLive, MaybeTracked
  <2>2. PICK y \in TrackedStates : y = Push(x)
    BY <2>1, PushKeeps
  <2>3. Finish(x) = [y EXCEPT !.state = "terminal"]
    BY <1>2, <2>2 DEF Finish
  <2>4. Finish(x) \in TrackedStates
    BY <2>3 DEF TrackedStates
  <2>5. Replayable(x) => Replayable(Finish(x))
    <3>1. Replayable(x) => Replayable(y) /\ y.lastEmitted \in y.buffer
      BY <2>1, <2>2, PushKeeps
    <3> QED
      BY <2>3, <3>1 DEF Replayable, TrackedStates
  <2> QED
    BY <2>1, <2>4, <2>5, TrackedIsNotUntracked DEF MaybeTracked
<1> QED
  BY <1>1, <1>2

LEMMA EmitKeeps ==
  ASSUME NEW x \in MaybeTracked
  PROVE  /\ Emit(x) \in MaybeTracked
         /\ Emit(x) = Untracked <=> x = Untracked
         /\ x # Untracked /\ Replayable(x) => Replayable(Emit(x))
<1>1. CASE ~IsLive(x)
  <2>1. Emit(x) = x
    BY <1>1 DEF Emit, Overflows
  <2> QED
    BY <2>1
<1>2. CASE Overflows(x)
  <2>1. Emit(x) = Finish(x)
    BY <1>2 DEF Emit, Overflows
  <2> QED
    BY <2>1, FinishKeeps
<1>3. CASE IsLive(x) /\ ~Overflows(x)
  <2>1. x \in TrackedStates /\ x # Untracked
    BY <1>3 DEF IsLive, MaybeTracked
  <2>2. Emit(x) = Push(x)
    BY <1>3 DEF Emit
  <2> QED
    BY <2>1, <2>2, PushKeeps, TrackedIsNotUntracked DEF MaybeTracked
<1> QED
  BY <1>1, <1>2, <1>3

(***************************************************************************)
(* The invariant                                                           *)
(***************************************************************************)

RunsIn(runs, c) == {g \in 1..MaxRuns : runs[c][g] # NoRun}
LatestIn(runs, c) == Cardinality(RunsIn(runs, c))

Contiguous(runs) == \A c \in Commands : RunsIn(runs, c) = 1..LatestIn(runs, c)

Room(q, runs) == \A c \in WaitingIn(q) : LatestIn(runs, c) < MaxRuns

(* The run in a slot is the last of its command and still open.            *)
SlotsOpen(slots, runs) ==
  \A c \in Holding(slots) :
    slots[c] = LatestIn(runs, c) /\ runs[c][slots[c]].phase \in Unsettled

(* A command no second run of which can start beside its first.            *)
Guarded(c) == LockOf[c] # NoKey \/ MaxInFlight = 1

(* The last run of such a command keeps its slot until it is over or       *)
(* cancelled, and so does one whose grace timer is armed.                  *)
OneSlot(slots, runs) ==
  \A c \in Commands, g \in 1..MaxRuns :
    Guarded(c) /\ runs[c][g].phase \in Unsettled =>
      /\ g = LatestIn(runs, c) /\ ~runs[c][g].cancelRequested => slots[c] = g
      /\ runs[c][g].grace => slots[c] = g /\ runs[c][g].cancelRequested

AllReplayable(t) == \A c \in Commands : t[c] # Untracked => Replayable(t[c])

Good(q, t, slots, owner, runs) ==
  /\ Typed(q, t, slots, owner, runs)
  /\ Ordered(q)
  /\ Matching(slots, owner)
  /\ Within(slots)
  /\ Contiguous(runs)
  /\ Room(q, runs)
  /\ SlotsOpen(slots, runs)
  /\ OneSlot(slots, runs)
  /\ AllReplayable(t)

IInv ==
  /\ connected \in BOOLEAN
  /\ Good(queue, tracked, inFlight, lockOwner, run)
  /\ connected => \A c \in Waiting : ~Startable(c, inFlight, lockOwner)

(* The run that a command starts with.                                     *)
LEMMA FreshRunIsOpen ==
  ASSUME NEW overflowed \in BOOLEAN
  PROVE  /\ FreshRun(overflowed) \in OpenRuns
         /\ FreshRun(overflowed).phase \in Unsettled
         /\ ~FreshRun(overflowed).cancelRequested
         /\ ~FreshRun(overflowed).grace
         /\ FreshRun(overflowed) # NoRun
  BY DEF FreshRun, OpenRuns, Unsettled, NoRun

LEMMA RunShape ==
  /\ NoRun.phase \notin Unsettled /\ Settled.phase \notin Unsettled /\ Settled # NoRun
  /\ \A r \in OpenRuns : r.phase \in Unsettled /\ r # NoRun /\ r # Settled
  BY DEF NoRun, Settled, Unsettled, OpenRuns

LEMMA LatestIsNat ==
  ASSUME NEW runs, NEW c
  PROVE  LatestIn(runs, c) \in Nat
<1>1. RunsIn(runs, c) \in SUBSET (1..MaxRuns) /\ IsFiniteSet(1..MaxRuns)
  BY FS_Interval, ExecutorAssumption DEF RunsIn
<1> QED
  BY <1>1, FS_Subset, FS_CardinalityType DEF LatestIn

(* The next run of a command that has room for one.                        *)
LEMMA NextRunIsLatest ==
  ASSUME NEW runs, NEW c \in Commands, runs[c] \in [1..MaxRuns -> {NoRun, Settled} \cup OpenRuns],
         RunsIn(runs, c) = 1..LatestIn(runs, c), LatestIn(runs, c) < MaxRuns,
         NEW r, r # NoRun,
         NEW runs2, runs2[c] = [runs[c] EXCEPT ![NextRun(c, runs)] = r]
  PROVE  /\ NextRun(c, runs) = LatestIn(runs, c) + 1
         /\ NextRun(c, runs) \in 1..MaxRuns
         /\ RunsIn(runs2, c) = 1..NextRun(c, runs)
         /\ LatestIn(runs2, c) = NextRun(c, runs)
<1> DEFINE n == LatestIn(runs, c)
<1>1. n \in Nat /\ NextRun(c, runs) = n + 1
  BY LatestIsNat DEF NextRun, LatestIn, RunsIn
<1>2. n + 1 \in 1..MaxRuns
  BY <1>1, ExecutorAssumption
<1>3. RunsIn(runs2, c) = RunsIn(runs, c) \cup {n + 1}
  BY <1>1, <1>2 DEF RunsIn
<1>4. RunsIn(runs2, c) = 1..(n + 1)
  BY <1>1, <1>3
<1>5. LatestIn(runs2, c) = n + 1
  BY <1>1, <1>4, FS_Interval DEF LatestIn
<1> QED
  BY <1>1, <1>2, <1>4, <1>5

(* Schedule leads from a good intermediate state to the invariant.         *)
LEMMA ScheduleKeeps ==
  ASSUME NEW q, NEW t, NEW slots, NEW owner, NEW runs, Good(q, t, slots, owner, runs),
         connected' \in BOOLEAN, Schedule(q, t, slots, owner, runs)
  PROVE  IInv'
<1> USE DEF MaybeTracked
<1>1. PICK taken \in (IF connected' THEN SUBSET WaitingIn(q) ELSE {{}}) :
        LET started == {c \in taken : t[c] # Untracked} IN
        /\ connected' => Starts(taken, q, t, slots, owner)
        /\ queue' = Without(q, taken)
        /\ tracked' = [c \in Commands |->
             IF c \in started
               THEN Emit([t[c] EXCEPT !.state = "running"])
               ELSE t[c]]
        /\ inFlight' = [c \in Commands |-> IF c \in started THEN NextRun(c, runs) ELSE slots[c]]
        /\ lockOwner' = [k \in Keys |->
             IF \E c \in started : LockOf[c] = k
               THEN CHOOSE c \in started : LockOf[c] = k
               ELSE owner[k]]
        /\ run' = [c \in Commands |->
             IF c \in started
               THEN [runs[c] EXCEPT ![NextRun(c, runs)] =
                       FreshRun(Overflows([t[c] EXCEPT !.state = "running"]))]
               ELSE runs[c]]
  BY DEF Schedule
<1> DEFINE S == StartedOf(taken, t)
           fresh(c) == FreshRun(Overflows([t[c] EXCEPT !.state = "running"]))
<1>2. /\ connected' => Starts(taken, q, t, slots, owner)
      /\ queue' = Without(q, taken)
      /\ tracked' = [c \in Commands |->
           IF c \in S THEN Emit([t[c] EXCEPT !.state = "running"]) ELSE t[c]]
      /\ inFlight' = [c \in Commands |-> IF c \in S THEN NextRun(c, runs) ELSE slots[c]]
      /\ lockOwner' = [k \in Keys |->
           IF \E c \in S : LockOf[c] = k THEN CHOOSE c \in S : LockOf[c] = k ELSE owner[k]]
      /\ run' = [c \in Commands |->
           IF c \in S THEN [runs[c] EXCEPT ![NextRun(c, runs)] = fresh(c)] ELSE runs[c]]
  BY <1>1 DEF StartedOf
<1>3. /\ taken \in SUBSET WaitingIn(q) /\ taken \in SUBSET Commands
      /\ S \in SUBSET taken /\ S \in SUBSET Commands
      /\ ~connected' => S = {}
  BY <1>1 DEF StartedOf, WaitingIn
<1>4. /\ Typed(q, t, slots, owner, runs) /\ Ordered(q) /\ Matching(slots, owner)
      /\ Within(slots) /\ Contiguous(runs) /\ Room(q, runs) /\ SlotsOpen(slots, runs)
      /\ OneSlot(slots, runs) /\ AllReplayable(t)
  BY DEF Good
<1>5. /\ q \in [Commands -> Nat]
      /\ slots \in [Commands -> 0..MaxRuns]
      /\ owner \in [Keys -> Commands \cup {NoOwner}]
      /\ runs \in [Commands -> [1..MaxRuns -> {NoRun, Settled} \cup OpenRuns]]
      /\ \A c \in Commands : t[c] \in MaybeTracked
  BY <1>4 DEF Typed
<1> HIDE DEF S, fresh
<1>6. Cardinality(Holding(slots) \cup S) <= MaxInFlight
  <2>1. CASE connected'
    BY <1>2, <1>3, <1>4, <1>5, <2>1, StartsFew DEF S
  <2>2. CASE ~connected'
    BY <1>3, <1>4, <2>2 DEF Within
  <2> QED
    BY <2>1, <2>2
<1>7. /\ \A c \in S : LockOf[c] # NoKey => owner[LockOf[c]] = NoOwner
      /\ \A b, c \in S : LockOf[b] = LockOf[c] /\ LockOf[c] # NoKey => b = c
  <2>1. CASE connected'
    <3>1. Starts(taken, q, t, slots, owner)
      BY <1>2, <2>1
    <3>2. /\ \A c \in taken : LockOf[c] # NoKey => owner[LockOf[c]] = NoOwner
          /\ \A b, c \in StartedOf(taken, t) :
               LockOf[b] = LockOf[c] /\ LockOf[c] # NoKey => b = c
      BY <1>3, <1>4, <1>5, <3>1, StartedHaveTheirLock
    <3> QED
      BY <1>3, <3>2 DEF S
  <2>2. CASE ~connected'
    BY <1>3, <2>2
  <2> QED
    BY <2>1, <2>2
<1>8. queue' \in [Commands -> Nat] /\ Ordered(queue') /\ WaitingIn(queue') = WaitingIn(q) \ taken
  BY <1>2, <1>4, <1>5, WithoutIsOrdered
<1>9. \A c \in S : t[c] \in TrackedStates /\ [t[c] EXCEPT !.state = "running"] \in TrackedStates
                   /\ (Replayable(t[c]) => Replayable([t[c] EXCEPT !.state = "running"]))
  BY <1>3, <1>5 DEF S, StartedOf, TrackedStates, Replayable
<1>10. tracked' \in [Commands -> MaybeTracked] /\ AllReplayable(tracked')
  <2>1. ASSUME NEW c \in Commands
        PROVE  tracked'[c] \in MaybeTracked /\ (tracked'[c] # Untracked => Replayable(tracked'[c]))
    <3>1. CASE c \in S
      <4>1. tracked'[c] = Emit([t[c] EXCEPT !.state = "running"])
        BY <1>2, <3>1
      <4>2. t[c] # Untracked /\ Replayable(t[c])
        BY <1>4, <1>9, <3>1, TrackedIsNotUntracked DEF AllReplayable
      <4>3. PICK x \in TrackedStates :
              x = [t[c] EXCEPT !.state = "running"] /\ Replayable(x) /\ x # Untracked
        BY <1>9, <3>1, <4>2, TrackedIsNotUntracked
      <4> QED
        BY <4>1, <4>3, EmitKeeps
    <3>2. CASE c \notin S
      BY <1>2, <1>4, <1>5, <3>2 DEF AllReplayable
    <3> QED
      BY <3>1, <3>2
  <2>2. tracked' = [c \in Commands |-> tracked'[c]]
    BY <1>2
  <2> QED
    BY <2>1, <2>2 DEF AllReplayable
<1>11. \A c \in S :
         /\ fresh(c) \in OpenRuns /\ fresh(c).phase \in Unsettled /\ fresh(c) # NoRun
         /\ ~fresh(c).cancelRequested /\ ~fresh(c).grace
  BY FreshRunIsOpen DEF fresh, Overflows
<1>12. ASSUME NEW c \in S
       PROVE  /\ NextRun(c, runs) = LatestIn(runs, c) + 1
              /\ NextRun(c, runs) \in 1..MaxRuns
              /\ RunsIn(run', c) = 1..NextRun(c, runs)
              /\ LatestIn(run', c) = NextRun(c, runs)
              /\ run'[c] = [runs[c] EXCEPT ![NextRun(c, runs)] = fresh(c)]
  <2>1. c \in Commands /\ c \in WaitingIn(q)
    BY <1>3
  <2>2. run'[c] = [runs[c] EXCEPT ![NextRun(c, runs)] = fresh(c)]
    BY <1>2, <2>1
  <2>3. runs[c] \in [1..MaxRuns -> {NoRun, Settled} \cup OpenRuns]
        /\ RunsIn(runs, c) = 1..LatestIn(runs, c) /\ LatestIn(runs, c) < MaxRuns
    BY <1>4, <1>5, <2>1 DEF Contiguous, Room
  <2>4. PICK r : r = fresh(c) /\ r # NoRun
    BY <1>11
  <2>5. run'[c] = [runs[c] EXCEPT ![NextRun(c, runs)] = r]
    BY <2>2, <2>4
  <2> HIDE DEF S, fresh
  <2>6. /\ NextRun(c, runs) = LatestIn(runs, c) + 1
        /\ NextRun(c, runs) \in 1..MaxRuns
        /\ RunsIn(run', c) = 1..NextRun(c, runs)
        /\ LatestIn(run', c) = NextRun(c, runs)
    BY <2>1, <2>3, <2>4, <2>5, NextRunIsLatest
  <2> QED
    BY <2>2, <2>6
<1>13. ASSUME NEW c \in Commands \ S
       PROVE  /\ run'[c] = runs[c] /\ inFlight'[c] = slots[c]
              /\ RunsIn(run', c) = RunsIn(runs, c) /\ LatestIn(run', c) = LatestIn(runs, c)
  BY <1>2 DEF RunsIn, LatestIn
<1>14. run' \in [Commands -> [1..MaxRuns -> {NoRun, Settled} \cup OpenRuns]]
  BY <1>2, <1>3, <1>5, <1>11
<1>15. inFlight' \in [Commands -> 0..MaxRuns]
  <2>1. \A c \in S : NextRun(c, runs) \in 1..MaxRuns
    BY <1>12
  <2> QED
    BY <1>2, <1>5, <2>1, ExecutorAssumption
<1>16. Holding(inFlight') = Holding(slots) \cup S
  <2>1. \A c \in S : NextRun(c, runs) \in 1..MaxRuns
    BY <1>12
  <2> QED
    BY <1>2, <1>3, <2>1, ExecutorAssumption DEF Holding
<1>17. /\ \A k \in Keys : (\E c \in S : LockOf[c] = k) =>
            lockOwner'[k] \in S /\ LockOf[lockOwner'[k]] = k
       /\ \A k \in Keys : ~(\E c \in S : LockOf[c] = k) => lockOwner'[k] = owner[k]
  BY <1>2
<1>18. lockOwner' \in [Keys -> Commands \cup {NoOwner}]
  <2>1. \A k \in Keys : lockOwner'[k] \in Commands \cup {NoOwner}
    BY <1>3, <1>5, <1>17
  <2>2. lockOwner' = [k \in Keys |-> lockOwner'[k]]
    BY <1>2
  <2> QED
    BY <2>1, <2>2
<1>19. Matching(inFlight', lockOwner')
  <2>1. ASSUME NEW c \in Holding(inFlight'), LockOf[c] # NoKey
        PROVE  lockOwner'[LockOf[c]] = c
    <3>1. c \in Commands /\ LockOf[c] \in Keys
      BY <2>1, ExecutorAssumption DEF Holding
    <3>2. CASE c \in S
      BY <1>7, <1>17, <2>1, <3>1, <3>2
    <3>3. CASE c \notin S
      <4>1. c \in Holding(slots) /\ owner[LockOf[c]] = c /\ c # NoOwner
        BY <1>4, <1>16, <2>1, <3>1, <3>3, ExecutorAssumption DEF Matching
      <4>2. ~ \E b \in S : LockOf[b] = LockOf[c]
        BY <1>7, <2>1, <4>1
      <4> QED
        BY <1>17, <3>1, <4>1, <4>2
    <3> QED
      BY <3>2, <3>3
  <2>2. ASSUME NEW k \in Keys, lockOwner'[k] # NoOwner
        PROVE  lockOwner'[k] \in Holding(inFlight') /\ LockOf[lockOwner'[k]] = k
    BY <1>4, <1>16, <1>17, <2>2 DEF Matching
  <2> QED
    BY <2>1, <2>2 DEF Matching
<1>20. Within(inFlight')
  BY <1>6, <1>16 DEF Within
<1>21. Contiguous(run')
  BY <1>4, <1>12, <1>13 DEF Contiguous
<1>22. Room(queue', run')
  BY <1>3, <1>4, <1>8, <1>13 DEF Room, WaitingIn, S, StartedOf
<1>23. SlotsOpen(inFlight', run')
  <2>1. ASSUME NEW c \in Holding(inFlight')
        PROVE  inFlight'[c] = LatestIn(run', c) /\ run'[c][inFlight'[c]].phase \in Unsettled
    <3>1. c \in Commands
      BY DEF Holding
    <3>2. CASE c \in S
      <4>1. inFlight'[c] = NextRun(c, runs)
        BY <1>2, <3>1, <3>2
      <4>2. run'[c][NextRun(c, runs)] = fresh(c)
        BY <1>5, <1>12, <3>1, <3>2
      <4> QED
        BY <1>11, <1>12, <3>2, <4>1, <4>2
    <3>3. CASE c \notin S
      BY <1>4, <1>13, <3>1, <3>3 DEF SlotsOpen, Holding
    <3> QED
      BY <3>2, <3>3
  <2> QED
    BY <2>1 DEF SlotsOpen
<1>24. OneSlot(inFlight', run')
  <2> SUFFICES ASSUME NEW c \in Commands, Guarded(c), NEW g \in 1..MaxRuns,
                      run'[c][g].phase \in Unsettled
               PROVE  /\ g = LatestIn(run', c) /\ ~run'[c][g].cancelRequested
                            => inFlight'[c] = g
                      /\ run'[c][g].grace => inFlight'[c] = g /\ run'[c][g].cancelRequested
    BY DEF OneSlot
  <2>1. CASE c \notin S
    BY <1>4, <1>13, <2>1 DEF OneSlot
  <2>2. CASE c \in S
    <3>1. inFlight'[c] = NextRun(c, runs) /\ LatestIn(run', c) = NextRun(c, runs)
      BY <1>2, <1>12, <2>2
    <3>2. CASE g = NextRun(c, runs)
      <4>1. run'[c][g] = fresh(c)
        BY <1>5, <1>12, <2>2, <3>2
      <4> QED
        BY <1>11, <2>2, <3>1, <3>2, <4>1
    <3>3. CASE g # NextRun(c, runs)
      <4>1. run'[c][g] = runs[c][g]
        <5>1. runs[c] \in [1..MaxRuns -> {NoRun, Settled} \cup OpenRuns]
          BY <1>5
        <5>2. run'[c] = [runs[c] EXCEPT ![NextRun(c, runs)] = fresh(c)]
          BY <1>12, <2>2
        <5> HIDE DEF fresh
        <5> QED
          BY <3>3, <5>1, <5>2
      <4>2. connected' /\ c \in taken /\ c \in WaitingIn(q)
        BY <1>3, <2>2
      <4>3. ASSUME MaxInFlight = 1 PROVE slots[c] = 0
        <5> DEFINE before == {b \in taken : t[b] # Untracked /\ q[b] < q[c]}
        <5>1. Cardinality(Holding(slots) \cup before) < 1
          BY <1>2, <4>2, <4>3 DEF Starts
        <5>2. Holding(slots) \cup before \in SUBSET Commands
          BY <1>3 DEF Holding
        <5> HIDE DEF before
        <5>3. /\ IsFiniteSet(Holding(slots) \cup before)
              /\ Cardinality(Holding(slots) \cup before) \in Nat
          BY <5>2, FiniteCommands
        <5>4. Holding(slots) \cup before = {}
          BY <5>1, <5>3, FS_EmptySet
        <5> QED
          BY <5>4 DEF Holding
      <4>4. ASSUME LockOf[c] # NoKey PROVE slots[c] = 0
        <5>1. owner[LockOf[c]] = NoOwner /\ c # NoOwner
          BY <1>7, <2>2, <4>4, ExecutorAssumption
        <5> QED
          BY <1>4, <4>4, <5>1 DEF Matching, Holding
      <4>5. slots[c] = 0
        BY <4>3, <4>4 DEF Guarded
      <4>6. ~runs[c][g].grace
        BY <1>4, <4>1, <4>5 DEF OneSlot
      <4> QED
        BY <3>1, <3>3, <4>1, <4>6
    <3> QED
      BY <3>2, <3>3
  <2> QED
    BY <2>1, <2>2
<1>25. ASSUME connected', NEW c \in Waiting' PROVE ~Startable(c, inFlight', lockOwner')
  <2>1. c \in WaitingIn(q) \ taken
    BY <1>8 DEF Waiting
  <2>2. \A k \in Keys : (owner[k] # NoOwner \/ \E b \in StartedOf(taken, t) : LockOf[b] = k)
                          => lockOwner'[k] # NoOwner
    BY <1>3, <1>17, ExecutorAssumption DEF S
  <2>3. Holding(inFlight') = Holding(slots) \cup StartedOf(taken, t)
    BY <1>16 DEF S
  <2>4. Starts(taken, q, t, slots, owner)
    BY <1>2, <1>25
  <2> QED
    <3> DEFINE slots2 == inFlight'
               owner2 == lockOwner'
    <3>1. /\ taken \in SUBSET WaitingIn(q) /\ q \in [Commands -> Nat]
          /\ Holding(slots2) = Holding(slots) \cup StartedOf(taken, t)
          /\ \A k \in Keys : (owner[k] # NoOwner \/ \E b \in StartedOf(taken, t) : LockOf[b] = k)
                              => owner2[k] # NoOwner
      BY <1>3, <1>5, <2>2, <2>3
    <3> HIDE DEF slots2, owner2
    <3>2. ~Startable(c, slots2, owner2)
      BY <2>1, <2>4, <3>1, LeftBehind
    <3> QED
      BY <3>2 DEF slots2, owner2
<1>26. Typed(queue', tracked', inFlight', lockOwner', run')
  BY <1>8, <1>10, <1>14, <1>15, <1>18 DEF Typed
<1>27. Good(queue', tracked', inFlight', lockOwner', run')
  BY <1>8, <1>10, <1>19, <1>20, <1>21, <1>22, <1>23, <1>24, <1>26 DEF Good
<1> QED
  BY <1>25, <1>27 DEF IInv

(***************************************************************************)
(* Steps that schedule nothing, and the intermediate states of those that  *)
(* do.                                                                     *)
(***************************************************************************)

GoodNow == Good(queue, tracked, inFlight, lockOwner, run)

(* A step that frees nothing and lets nobody in has nothing to schedule.   *)
LEMMA NothingFreed ==
  ASSUME IInv, UNCHANGED <<connected, inFlight, lockOwner>>, Waiting' \subseteq Waiting,
         Good(queue', tracked', inFlight', lockOwner', run')
  PROVE  IInv'
  BY DEF IInv, Startable, Holding, Locked

(* Another state of one tracked command.                                   *)
LEMMA TrackedKeeps ==
  ASSUME NEW q, NEW t, NEW slots, NEW owner, NEW runs, Good(q, t, slots, owner, runs),
         NEW c \in Commands, NEW x \in MaybeTracked, x # Untracked => Replayable(x)
  PROVE  Good(q, [t EXCEPT ![c] = x], slots, owner, runs)
<1>1. t \in [Commands -> MaybeTracked]
  BY DEF Good, Typed, MaybeTracked
<1>2. [t EXCEPT ![c] = x] \in [Commands -> MaybeTracked]
  BY <1>1
<1>3. AllReplayable([t EXCEPT ![c] = x])
  BY <1>1 DEF Good, AllReplayable
<1> QED
  BY <1>2, <1>3 DEF Good, Typed, MaybeTracked

(* What a command may have become since it was good: ended, or one event   *)
(* further.                                                                *)
LEMMA EventsKeep ==
  ASSUME IInv, NEW c \in Commands
  PROVE  /\ tracked[c] \in MaybeTracked
         /\ tracked[c] # Untracked => Replayable(tracked[c])
         /\ Finish(tracked[c]) \in MaybeTracked
         /\ Finish(tracked[c]) # Untracked => Replayable(Finish(tracked[c]))
         /\ Emit(tracked[c]) \in MaybeTracked
         /\ Emit(tracked[c]) # Untracked => Replayable(Emit(tracked[c]))
         /\ Finish(Emit(tracked[c])) \in MaybeTracked
         /\ Finish(Emit(tracked[c])) # Untracked => Replayable(Finish(Emit(tracked[c])))
<1>1. tracked[c] \in MaybeTracked /\ (tracked[c] # Untracked => Replayable(tracked[c]))
  BY DEF IInv, Good, Typed, AllReplayable, MaybeTracked
<1>2. PICK x \in MaybeTracked : x = tracked[c] /\ (x # Untracked => Replayable(x))
  BY <1>1
<1>3. PICK y \in MaybeTracked : y = Emit(x) /\ (y # Untracked => Replayable(y))
  BY <1>2, EmitKeeps
<1> QED
  BY <1>2, <1>3, FinishKeeps

(* A record of an open run.                                                *)
LEMMA UnsettledIsOpen ==
  ASSUME NEW q, NEW t, NEW slots, NEW owner, NEW runs, Typed(q, t, slots, owner, runs),
         NEW c \in Commands, NEW g \in 1..MaxRuns, runs[c][g].phase \in Unsettled
  PROVE  runs[c][g] \in OpenRuns
  BY RunShape DEF Typed

(* The runs when one of them that is there is written over.                *)
LEMMA RunsWritten ==
  ASSUME NEW q, NEW t, NEW slots, NEW owner, NEW runs, Good(q, t, slots, owner, runs),
         NEW c \in Commands, NEW g \in 1..MaxRuns, runs[c][g] # NoRun,
         NEW r \in {Settled} \cup OpenRuns
  PROVE  /\ [runs EXCEPT ![c][g] = r]
              \in [Commands -> [1..MaxRuns -> {NoRun, Settled} \cup OpenRuns]]
         /\ [runs EXCEPT ![c][g] = r][c][g] = r
         /\ \A d \in Commands, h \in 1..MaxRuns :
              d # c \/ h # g => [runs EXCEPT ![c][g] = r][d][h] = runs[d][h]
         /\ \A d \in Commands :
              LatestIn([runs EXCEPT ![c][g] = r], d) = LatestIn(runs, d)
         /\ Contiguous([runs EXCEPT ![c][g] = r])
         /\ Room(q, [runs EXCEPT ![c][g] = r])
<1> DEFINE runs2 == [runs EXCEPT ![c][g] = r]
<1>1. runs \in [Commands -> [1..MaxRuns -> {NoRun, Settled} \cup OpenRuns]]
  BY DEF Good, Typed
<1>2. r # NoRun
  BY RunShape
<1>3. runs2 \in [Commands -> [1..MaxRuns -> {NoRun, Settled} \cup OpenRuns]]
  BY <1>1
<1>4. /\ runs2[c][g] = r
      /\ \A d \in Commands, h \in 1..MaxRuns : d # c \/ h # g => runs2[d][h] = runs[d][h]
  BY <1>1
<1> HIDE DEF runs2
<1>5. \A d \in Commands : RunsIn(runs2, d) = RunsIn(runs, d)
  BY <1>2, <1>4 DEF RunsIn
<1>6. \A d \in Commands : LatestIn(runs2, d) = LatestIn(runs, d)
  BY <1>5 DEF LatestIn
<1>7. Contiguous(runs2) /\ Room(q, runs2)
  BY <1>5, <1>6 DEF Good, Contiguous, Room, WaitingIn
<1> QED
  BY <1>3, <1>4, <1>6, <1>7 DEF runs2

(* An open run that stays open, and cancelled once it is, keeps all good.  *)
LEMMA OpenRunKeeps ==
  ASSUME NEW q, NEW t, NEW slots, NEW owner, NEW runs, Good(q, t, slots, owner, runs),
         NEW c \in Commands, NEW g \in 1..MaxRuns, runs[c][g].phase \in Unsettled,
         NEW r \in OpenRuns, runs[c][g].cancelRequested => r.cancelRequested,
         r.grace => runs[c][g].grace \/ (slots[c] = g /\ r.cancelRequested)
  PROVE  Good(q, t, slots, owner, [runs EXCEPT ![c][g] = r])
<1> DEFINE runs2 == [runs EXCEPT ![c][g] = r]
<1>1. runs[c][g] # NoRun
  BY RunShape
<1>2. /\ runs2 \in [Commands -> [1..MaxRuns -> {NoRun, Settled} \cup OpenRuns]]
      /\ runs2[c][g] = r
      /\ \A d \in Commands, h \in 1..MaxRuns : d # c \/ h # g => runs2[d][h] = runs[d][h]
      /\ \A d \in Commands : LatestIn(runs2, d) = LatestIn(runs, d)
      /\ Contiguous(runs2) /\ Room(q, runs2)
  BY <1>1, RunsWritten
<1> HIDE DEF runs2
<1>3. r.phase \in Unsettled
  BY RunShape
<1>4. \A d \in Holding(slots) : slots[d] \in 1..MaxRuns /\ d \in Commands
  BY ExecutorAssumption DEF Good, Typed, Holding
<1>5. SlotsOpen(slots, runs2)
  BY <1>2, <1>3, <1>4 DEF Good, SlotsOpen
<1>6. OneSlot(slots, runs2)
  <2> SUFFICES ASSUME NEW d \in Commands, Guarded(d), NEW h \in 1..MaxRuns,
                      runs2[d][h].phase \in Unsettled
               PROVE  /\ h = LatestIn(runs2, d) /\ ~runs2[d][h].cancelRequested => slots[d] = h
                      /\ runs2[d][h].grace => slots[d] = h /\ runs2[d][h].cancelRequested
    BY DEF OneSlot
  <2>1. CASE d # c \/ h # g
    BY <1>2, <2>1 DEF Good, OneSlot
  <2>2. CASE d = c /\ h = g
    BY <1>2, <2>2 DEF Good, OneSlot
  <2> QED
    BY <2>1, <2>2
<1> QED
  BY <1>2, <1>5, <1>6 DEF Good, Typed, runs2

(* releaseInFlight keeps locks and slots matched.                          *)
LEMMA ReleaseKeeps ==
  ASSUME GoodNow, NEW c \in Commands
  PROVE  /\ SlotsWithout(c) \in [Commands -> 0..MaxRuns]
         /\ LocksWithout(c) \in [Keys -> Commands \cup {NoOwner}]
         /\ Holding(SlotsWithout(c)) = Running \ {c}
         /\ Matching(SlotsWithout(c), LocksWithout(c))
         /\ Within(SlotsWithout(c))
<1>1. /\ inFlight \in [Commands -> 0..MaxRuns]
      /\ lockOwner \in [Keys -> Commands \cup {NoOwner}]
      /\ Matching(inFlight, lockOwner) /\ Within(inFlight)
  BY DEF GoodNow, Good, Typed
<1>2. SlotsWithout(c) \in [Commands -> 0..MaxRuns]
  BY <1>1, ExecutorAssumption DEF SlotsWithout
<1>3. LocksWithout(c) \in [Keys -> Commands \cup {NoOwner}]
  BY <1>1 DEF LocksWithout
<1>4. Holding(SlotsWithout(c)) = Running \ {c}
  BY <1>1 DEF SlotsWithout, Holding, Running
<1>5. Matching(SlotsWithout(c), LocksWithout(c))
  <2>1. ASSUME NEW d \in Running \ {c}, LockOf[d] # NoKey
        PROVE  LocksWithout(c)[LockOf[d]] = d
    <3>1. lockOwner[LockOf[d]] = d /\ d \in Commands /\ LockOf[d] \in Keys
      BY <1>1, <2>1, ExecutorAssumption DEF Matching, Running, Holding
    <3> QED
      BY <3>1 DEF LocksWithout
  <2>2. ASSUME NEW k \in Keys, LocksWithout(c)[k] # NoOwner
        PROVE  LocksWithout(c)[k] \in Running \ {c} /\ LockOf[LocksWithout(c)[k]] = k
    <3>1. LocksWithout(c)[k] = lockOwner[k] /\ ~(LockOf[c] = k /\ lockOwner[k] = c)
      BY <2>2 DEF LocksWithout
    <3>2. lockOwner[k] \in Running /\ LockOf[lockOwner[k]] = k
      BY <1>1, <2>2, <3>1 DEF Matching, Running
    <3> QED
      BY <3>1, <3>2
  <2> QED
    BY <1>4, <2>1, <2>2 DEF Matching
<1>6. Within(SlotsWithout(c))
  <2>1. Running \in SUBSET Commands /\ Running \ {c} \in SUBSET Running
    BY DEF Running, Holding
  <2> HIDE DEF Running
  <2>2. /\ IsFiniteSet(Running) /\ Cardinality(Running) \in Nat
        /\ Cardinality(Running \ {c}) \in Nat
        /\ Cardinality(Running \ {c}) <= Cardinality(Running)
    BY <2>1, FiniteCommands, FS_Subset
  <2>3. Cardinality(Running) <= MaxInFlight
    BY <1>1 DEF Within, Running
  <2> QED
    BY <1>4, <2>2, <2>3, ExecutorAssumption DEF Within
<1> QED
  BY <1>2, <1>3, <1>4, <1>5, <1>6

(* A run that gives way to its finally block.                              *)
LEMMA SettledKeeps ==
  ASSUME NEW runs, Good(queue, tracked, inFlight, lockOwner, runs), GoodNow,
         NEW c \in Commands, NEW g \in 1..MaxRuns, runs[c][g].phase \in Unsettled
  PROVE  Good(queue, tracked,
              IF inFlight[c] = g THEN SlotsWithout(c) ELSE inFlight,
              IF inFlight[c] = g THEN LocksWithout(c) ELSE lockOwner,
              [runs EXCEPT ![c][g] = Settled])
<1> DEFINE runs2 == [runs EXCEPT ![c][g] = Settled]
           slots2 == IF inFlight[c] = g THEN SlotsWithout(c) ELSE inFlight
           owner2 == IF inFlight[c] = g THEN LocksWithout(c) ELSE lockOwner
<1>1. runs[c][g] # NoRun
  BY RunShape
<1>2. /\ runs2 \in [Commands -> [1..MaxRuns -> {NoRun, Settled} \cup OpenRuns]]
      /\ runs2[c][g] = Settled
      /\ \A d \in Commands, h \in 1..MaxRuns : d # c \/ h # g => runs2[d][h] = runs[d][h]
      /\ \A d \in Commands : LatestIn(runs2, d) = LatestIn(runs, d)
      /\ Contiguous(runs2) /\ Room(queue, runs2)
  BY <1>1, RunsWritten
<1>3. /\ inFlight \in [Commands -> 0..MaxRuns]
      /\ \A d \in Commands : d # c => slots2[d] = inFlight[d]
      /\ slots2[c] = IF inFlight[c] = g THEN 0 ELSE inFlight[c]
  BY DEF Good, Typed, SlotsWithout
<1>4. /\ slots2 \in [Commands -> 0..MaxRuns]
      /\ owner2 \in [Keys -> Commands \cup {NoOwner}]
      /\ Matching(slots2, owner2) /\ Within(slots2)
  BY ReleaseKeeps DEF Good, Typed
<1> HIDE DEF runs2, slots2, owner2
<1>5. SlotsOpen(slots2, runs2)
  <2>1. ASSUME NEW d \in Holding(slots2)
        PROVE  slots2[d] = LatestIn(runs2, d) /\ runs2[d][slots2[d]].phase \in Unsettled
    <3>1. d \in Commands /\ slots2[d] # 0 /\ slots2[d] = inFlight[d] /\ d \in Holding(inFlight)
          /\ (d # c \/ inFlight[d] # g) /\ inFlight[d] \in 1..MaxRuns
      BY <1>3, ExecutorAssumption DEF Holding
    <3>2. inFlight[d] = LatestIn(runs, d) /\ runs[d][inFlight[d]].phase \in Unsettled
      BY <3>1 DEF Good, SlotsOpen
    <3> QED
      BY <1>2, <3>1, <3>2
  <2> QED
    BY <2>1 DEF SlotsOpen
<1>6. OneSlot(slots2, runs2)
  <2> SUFFICES ASSUME NEW d \in Commands, Guarded(d), NEW h \in 1..MaxRuns,
                      runs2[d][h].phase \in Unsettled
               PROVE  /\ h = LatestIn(runs2, d) /\ ~runs2[d][h].cancelRequested => slots2[d] = h
                      /\ runs2[d][h].grace => slots2[d] = h /\ runs2[d][h].cancelRequested
    BY DEF OneSlot
  <2>1. d # c \/ h # g
    BY <1>2, RunShape
  <2>2. runs2[d][h] = runs[d][h]
    BY <1>2, <2>1
  <2>3. /\ h = LatestIn(runs, d) /\ ~runs[d][h].cancelRequested => inFlight[d] = h
        /\ runs[d][h].grace => inFlight[d] = h /\ runs[d][h].cancelRequested
    BY <2>2 DEF Good, OneSlot
  <2> QED
    BY <1>2, <1>3, <2>1, <2>2, <2>3
<1> QED
  BY <1>2, <1>4, <1>5, <1>6 DEF Good, Typed, runs2, slots2, owner2

(* failBufferOverflow aborts an open run.                                  *)
LEMMA OverflowKeeps ==
  ASSUME GoodNow, NEW c \in Commands
  PROVE  /\ Good(queue, tracked, inFlight, lockOwner, OverflowAborts(c))
         /\ \A g \in 1..MaxRuns :
              run[c][g].phase \in Unsettled => OverflowAborts(c)[c][g].phase \in Unsettled
<1>1. CASE ~(Overflows(tracked[c]) /\ inFlight[c] # 0)
  BY <1>1 DEF OverflowAborts, GoodNow
<1>2. CASE Overflows(tracked[c]) /\ inFlight[c] # 0
  <2> DEFINE g == inFlight[c]
             r == [run[c][g] EXCEPT !.overflowed = TRUE]
  <2>1. g \in 1..MaxRuns /\ run[c][g].phase \in Unsettled
    BY <1>2, ExecutorAssumption DEF GoodNow, Good, Typed, SlotsOpen, Holding
  <2>2. OverflowAborts(c) = [run EXCEPT ![c][g] = r]
    BY <1>2 DEF OverflowAborts
  <2>3. run[c][g] \in OpenRuns
    BY <2>1, UnsettledIsOpen DEF GoodNow, Good
  <2>4. r \in OpenRuns /\ r.cancelRequested = run[c][g].cancelRequested
        /\ r.grace = run[c][g].grace
    BY <2>3 DEF OpenRuns
  <2>5. run[c] \in [1..MaxRuns -> {NoRun, Settled} \cup OpenRuns]
        /\ run \in [Commands -> [1..MaxRuns -> {NoRun, Settled} \cup OpenRuns]]
    BY DEF GoodNow, Good, Typed
  <2> HIDE DEF g, r
  <2>6. Good(queue, tracked, inFlight, lockOwner, [run EXCEPT ![c][g] = r])
    BY <2>1, <2>4, OpenRunKeeps DEF GoodNow
  <2>7. ASSUME NEW h \in 1..MaxRuns, run[c][h].phase \in Unsettled
        PROVE  [run EXCEPT ![c][g] = r][c][h].phase \in Unsettled
    BY <2>1, <2>4, <2>5, <2>7, RunShape
  <2> QED
    BY <2>2, <2>6, <2>7
<1> QED
  BY <1>1, <1>2

(***************************************************************************)
(* The actions                                                             *)
(***************************************************************************)

LEMMA SetConnectedKeeps ==
  ASSUME IInv, NEW to \in BOOLEAN, SetConnected(to)
  PROVE  IInv'
  BY ScheduleKeeps DEF IInv, SetConnected

LEMMA EnqueueKeeps ==
  ASSUME IInv, NEW c \in Commands, NEW pruned \in SUBSET Commands, Enqueue(c, pruned)
  PROVE  IInv'
<1> DEFINE kept == [d \in Commands |-> IF d \in pruned THEN Untracked ELSE tracked[d]]
           new == [state |-> "queued", lastEmitted |-> 0, lastAcked |-> 0, buffer |-> {}]
<1>1. GoodNow /\ Good(queue, tracked, inFlight, lockOwner, run)
  BY DEF IInv, GoodNow
<1>2. Good(queue, kept, inFlight, lockOwner, run)
  <2>1. kept \in [Commands -> {Untracked} \cup TrackedStates]
    BY <1>1 DEF Good, Typed
  <2>2. AllReplayable(kept)
    BY <1>1 DEF Good, AllReplayable
  <2> QED
    BY <1>1, <2>1, <2>2 DEF Good, Typed
<1>3. CASE kept[c] # Untracked
  <2>1. tracked' = kept /\ UNCHANGED <<connected, queue, inFlight, lockOwner, run>>
    BY <1>3 DEF Enqueue
  <2> QED
    BY <1>2, <2>1, NothingFreed DEF Waiting, WaitingIn
<1>4. CASE kept[c] = Untracked
  <2>1. /\ c \notin Waiting /\ Cardinality(RunsOf(c)) < MaxRuns
        /\ UNCHANGED connected
        /\ Schedule(Appended(queue, c), [kept EXCEPT ![c] = new], inFlight, lockOwner, run)
    BY <1>4 DEF Enqueue
  <2>2. /\ queue \in [Commands -> Nat] /\ Ordered(queue) /\ queue[c] = 0
        /\ Room(queue, run)
    BY <1>1, <2>1 DEF Good, Typed, Waiting, WaitingIn
  <2>3. /\ Appended(queue, c) \in [Commands -> Nat] /\ Ordered(Appended(queue, c))
        /\ WaitingIn(Appended(queue, c)) = WaitingIn(queue) \cup {c}
    BY <2>2, AppendedIsOrdered
  <2>4. LatestIn(run, c) < MaxRuns
    BY <2>1 DEF LatestIn, RunsIn, RunsOf
  <2>5. Room(Appended(queue, c), run)
    BY <2>2, <2>3, <2>4 DEF Room
  <2>6. new \in MaybeTracked /\ Replayable(new)
    BY DEF MaybeTracked, TrackedStates, Replayable
  <2> HIDE DEF kept, new
  <2>7. Good(queue, [kept EXCEPT ![c] = new], inFlight, lockOwner, run)
    BY <1>2, <2>6, TrackedKeeps
  <2>8. Good(Appended(queue, c), [kept EXCEPT ![c] = new], inFlight, lockOwner, run)
    BY <2>3, <2>5, <2>7 DEF Good, Typed
  <2> QED
    BY <2>1, <2>8, ScheduleKeeps DEF IInv
<1> QED
  BY <1>3, <1>4

LEMMA CancelQueuedKeeps ==
  ASSUME IInv, NEW c \in Commands, CancelQueued(c)
  PROVE  IInv'
<1>1. /\ queue' = Without(queue, {c})
      /\ tracked' = [tracked EXCEPT ![c] = Finish(tracked[c])]
      /\ UNCHANGED <<connected, inFlight, lockOwner, run>>
  BY DEF CancelQueued
<1>2. Good(queue, tracked, inFlight, lockOwner, run)
  BY DEF IInv
<1>3. queue \in [Commands -> Nat] /\ Ordered(queue) /\ Room(queue, run)
  BY <1>2 DEF Good, Typed
<1>4. /\ queue' \in [Commands -> Nat] /\ Ordered(queue')
      /\ WaitingIn(queue') = WaitingIn(queue) \ {c}
  BY <1>1, <1>3, WithoutIsOrdered
<1>5. Room(queue', run)
  BY <1>3, <1>4 DEF Room
<1>6. Good(queue, tracked', inFlight, lockOwner, run)
  BY <1>1, <1>2, EventsKeep, TrackedKeeps
<1>7. Good(queue', tracked', inFlight', lockOwner', run')
  BY <1>1, <1>4, <1>5, <1>6 DEF Good, Typed
<1>8. Waiting' \subseteq Waiting
  BY <1>4 DEF Waiting
<1> QED
  BY <1>1, <1>7, <1>8, NothingFreed

(* Writing the record of one run and one tracked command over.             *)
LEMMA RecordsWritten ==
  ASSUME IInv, UNCHANGED <<connected, queue, inFlight, lockOwner>>,
         NEW c \in Commands,
         NEW x \in MaybeTracked, x # Untracked => Replayable(x),
         tracked' = [tracked EXCEPT ![c] = x],
         NEW g \in 1..MaxRuns, run[c][g].phase \in Unsettled,
         NEW r \in OpenRuns, run[c][g].cancelRequested => r.cancelRequested,
         r.grace => run[c][g].grace \/ (inFlight[c] = g /\ r.cancelRequested),
         run' = [run EXCEPT ![c][g] = r]
  PROVE  IInv'
<1>1. Good(queue, tracked, inFlight, lockOwner, run)
  BY DEF IInv
<1>2. Good(queue, tracked, inFlight, lockOwner, [run EXCEPT ![c][g] = r])
  BY <1>1, OpenRunKeeps
<1>3. Good(queue, tracked', inFlight, lockOwner, run')
  BY <1>2, TrackedKeeps
<1>4. Good(queue', tracked', inFlight', lockOwner', run') /\ Waiting' \subseteq Waiting
  BY <1>3 DEF Waiting
<1> QED
  BY <1>4, NothingFreed

LEMMA CancelRunningKeeps ==
  ASSUME IInv, NEW c \in Commands, CancelRunning(c)
  PROVE  IInv'
<1> DEFINE g == inFlight[c]
           armed == tracked[c].state # "terminal"
           r == [run[c][g] EXCEPT !.cancelRequested = TRUE, !.grace = armed]
<1>1. /\ tracked' = [tracked EXCEPT ![c] = Finish(tracked[c])]
      /\ run' = [run EXCEPT ![c][g].cancelRequested = TRUE, ![c][g].grace = armed]
      /\ g # 0
      /\ UNCHANGED <<connected, queue, inFlight, lockOwner>>
  BY DEF CancelRunning
<1>2. /\ g \in 1..MaxRuns /\ run[c][g].phase \in Unsettled
      /\ run \in [Commands -> [1..MaxRuns -> {NoRun, Settled} \cup OpenRuns]]
  BY <1>1, ExecutorAssumption DEF IInv, Good, Typed, SlotsOpen, Holding
<1>3. run[c][g] \in OpenRuns
  BY <1>2, RunShape
<1>4. r \in OpenRuns /\ r.cancelRequested
  BY <1>3 DEF OpenRuns
<1>5. run' = [run EXCEPT ![c][g] = r]
  BY <1>1, <1>2
<1>6. PICK x \in MaybeTracked : x = Finish(tracked[c]) /\ (x # Untracked => Replayable(x))
  BY EventsKeep
<1>7. tracked' = [tracked EXCEPT ![c] = x] /\ g = inFlight[c]
  BY <1>1, <1>6
<1>8. UNCHANGED <<connected, queue, inFlight, lockOwner>>
  BY <1>1
<1> HIDE DEF r, armed, g
<1> QED
  BY <1>2, <1>4, <1>5, <1>6, <1>7, <1>8, RecordsWritten

(* A slot given back whose command has nobody left to keep it for.         *)
LEMMA ReleasedIsGood ==
  ASSUME GoodNow, NEW runs, Good(queue, tracked, inFlight, lockOwner, runs), NEW c \in Commands,
         Guarded(c) => \A h \in 1..MaxRuns : runs[c][h].phase \in Unsettled =>
           ~runs[c][h].grace /\ (h = LatestIn(runs, c) => runs[c][h].cancelRequested)
  PROVE  Good(queue, tracked, SlotsWithout(c), LocksWithout(c), runs)
<1>1. /\ SlotsWithout(c) \in [Commands -> 0..MaxRuns]
      /\ LocksWithout(c) \in [Keys -> Commands \cup {NoOwner}]
      /\ Holding(SlotsWithout(c)) = Running \ {c}
      /\ Matching(SlotsWithout(c), LocksWithout(c))
      /\ Within(SlotsWithout(c))
  BY ReleaseKeeps
<1>2. \A d \in Commands : d # c => SlotsWithout(c)[d] = inFlight[d]
  BY DEF Good, Typed, SlotsWithout
<1>3. SlotsOpen(SlotsWithout(c), runs)
  BY <1>1, <1>2 DEF Good, SlotsOpen, Running, Holding
<1>4. OneSlot(SlotsWithout(c), runs)
  BY <1>2 DEF Good, OneSlot
<1> QED
  BY <1>1, <1>3, <1>4 DEF Good, Typed

LEMMA ForceSettleKeeps ==
  ASSUME IInv, NEW c \in Commands, NEW g \in 1..MaxRuns, ForceSettleCancelled(c, g)
  PROVE  IInv'
<1> DEFINE held == inFlight[c]
           r == [run[c][g] EXCEPT !.grace = FALSE]
           fired == [run EXCEPT ![c][g] = r]
<1>1. /\ Good(queue, tracked, inFlight, lockOwner, run) /\ GoodNow
      /\ run \in [Commands -> [1..MaxRuns -> {NoRun, Settled} \cup OpenRuns]]
      /\ inFlight \in [Commands -> 0..MaxRuns] /\ tracked = [tracked EXCEPT ![c] = tracked[c]]
  BY DEF IInv, GoodNow, Good, Typed
<1>2. run[c][g].phase \in Unsettled /\ run[c][g].grace /\ UNCHANGED connected
  BY DEF ForceSettleCancelled, IsUnsettled
<1>3. run[c][g] \in OpenRuns
  BY <1>1, <1>2, RunShape
<1>4. /\ r \in OpenRuns /\ ~r.grace /\ r.cancelRequested = run[c][g].cancelRequested
      /\ fired = [run EXCEPT ![c][g].grace = FALSE]
  BY <1>1, <1>3 DEF OpenRuns
<1>5. Good(queue, tracked, inFlight, lockOwner, fired)
  <2> HIDE DEF r
  <2> QED
    BY <1>1, <1>2, <1>4, OpenRunKeeps
<1>6. CASE held = 0
  <2>1. run' = fired /\ UNCHANGED <<queue, tracked, inFlight, lockOwner>>
    BY <1>4, <1>6 DEF ForceSettleCancelled
  <2> QED
    BY <1>2, <1>5, <2>1, NothingFreed DEF Waiting
<1>7. CASE held # 0
  <2> DEFINE late == IF fired[c][held].timeout = "armed" THEN "cleared" ELSE fired[c][held].timeout
             r2 == [fired[c][held] EXCEPT !.timeout = late]
             runs == [fired EXCEPT ![c][held] = r2]
  <2>1. Schedule(queue, tracked, SlotsWithout(c), LocksWithout(c),
          [fired EXCEPT ![c][held].timeout = IF @ = "armed" THEN "cleared" ELSE @])
    BY <1>4, <1>7 DEF ForceSettleCancelled
  <2>2. /\ fired \in [Commands -> [1..MaxRuns -> {NoRun, Settled} \cup OpenRuns]]
        /\ held \in 1..MaxRuns /\ held = LatestIn(fired, c) /\ c \in Holding(inFlight)
        /\ fired[c][held].phase \in Unsettled
    <3>1. c \in Holding(inFlight) /\ held \in 1..MaxRuns
      BY <1>1, <1>7, ExecutorAssumption DEF Holding
    <3> HIDE DEF fired
    <3> QED
      BY <1>5, <3>1 DEF Good, Typed, SlotsOpen
  <2>3. [fired EXCEPT ![c][held].timeout = IF @ = "armed" THEN "cleared" ELSE @] = runs
    BY <2>2
  <2>4. fired[c][held] \in OpenRuns
    BY <2>2, RunShape
  <2>5. /\ r2 \in OpenRuns /\ r2.grace = fired[c][held].grace
        /\ r2.cancelRequested = fired[c][held].cancelRequested
    <3>1. late \in {"armed", "cleared", "fired"}
      BY <2>4 DEF OpenRuns
    <3> HIDE DEF late
    <3> QED
      BY <2>4, <3>1 DEF OpenRuns
  <2>6. fired[c][g] = r /\ \A h \in 1..MaxRuns : h # g => fired[c][h] = run[c][h]
    BY <1>1
  <2>7. runs[c][held] = r2 /\ \A h \in 1..MaxRuns : h # held => runs[c][h] = fired[c][h]
    BY <2>2
  <2> HIDE DEF r, fired, r2
  <2>8. Good(queue, tracked, inFlight, lockOwner, runs)
    BY <1>5, <2>2, <2>5, OpenRunKeeps
  <2>9. LatestIn(runs, c) = held
    BY <2>2, <2>8 DEF Good, SlotsOpen
  <2>10. ASSUME Guarded(c), NEW h \in 1..MaxRuns, runs[c][h].phase \in Unsettled
         PROVE  ~runs[c][h].grace /\ (h = LatestIn(runs, c) => runs[c][h].cancelRequested)
    <3>1. held = g /\ run[c][g].cancelRequested
      BY <1>1, <1>2, <2>10 DEF Good, OneSlot
    <3>2. CASE h = g
      <4>1. runs[c][h] = r2 /\ fired[c][held] = r
        BY <2>6, <2>7, <3>1, <3>2
      <4> QED
        BY <1>4, <2>5, <3>1, <4>1
    <3>3. CASE h # g
      <4>1. runs[c][h] = run[c][h]
        BY <2>6, <2>7, <3>1, <3>3
      <4>2. run[c][h].grace => held = h
        BY <1>1, <2>10, <4>1 DEF Good, OneSlot
      <4> QED
        BY <2>9, <3>1, <3>3, <4>1, <4>2
    <3> QED
      BY <3>2, <3>3
  <2>11. Good(queue, tracked, SlotsWithout(c), LocksWithout(c), runs)
    <3> HIDE DEF runs
    <3> QED
      BY <1>1, <2>8, <2>10, ReleasedIsGood
  <2> QED
    BY <1>2, <2>1, <2>3, <2>11, ScheduleKeeps DEF IInv
<1> QED
  BY <1>6, <1>7

LEMMA CommandTimesOutKeeps ==
  ASSUME IInv, NEW c \in Commands, NEW g \in 1..MaxRuns, CommandTimesOut(c, g)
  PROVE  IInv'
<1> DEFINE r == [run[c][g] EXCEPT !.timeout = "fired"]
<1>1. /\ run' = [run EXCEPT ![c][g] = r] /\ run[c][g].phase \in Unsettled
      /\ UNCHANGED <<connected, queue, tracked, inFlight, lockOwner>>
  BY DEF CommandTimesOut, IsUnsettled
<1>2. run[c][g] \in OpenRuns /\ tracked' = [tracked EXCEPT ![c] = tracked[c]]
  BY <1>1, RunShape DEF IInv, Good, Typed
<1>3. r \in OpenRuns /\ r.cancelRequested = run[c][g].cancelRequested
      /\ r.grace = run[c][g].grace
  BY <1>2 DEF OpenRuns
<1> HIDE DEF r
<1> QED
  BY <1>1, <1>2, <1>3, EventsKeep, RecordsWritten

LEMMA GatewayRespondsKeeps ==
  ASSUME IInv, NEW c \in Commands, NEW g \in 1..MaxRuns, NEW phase \in {"body", "streaming"},
         GatewayResponds(c, g, phase)
  PROVE  IInv'
<1> DEFINE r == [run[c][g] EXCEPT !.phase = phase]
<1>1. /\ run' = [run EXCEPT ![c][g] = r] /\ run[c][g].phase \in Unsettled
      /\ UNCHANGED <<connected, queue, tracked, inFlight, lockOwner>>
  BY DEF GatewayResponds, At, Unsettled
<1>2. run[c][g] \in OpenRuns /\ tracked' = [tracked EXCEPT ![c] = tracked[c]]
  BY <1>1, RunShape DEF IInv, Good, Typed
<1>3. r \in OpenRuns /\ r.cancelRequested = run[c][g].cancelRequested
      /\ r.grace = run[c][g].grace
  BY <1>2 DEF OpenRuns, Unsettled
<1> HIDE DEF r
<1> QED
  BY <1>1, <1>2, <1>3, EventsKeep, RecordsWritten

LEMMA StreamLineKeeps ==
  ASSUME IInv, NEW c \in Commands, NEW g \in 1..MaxRuns, StreamLine(c, g)
  PROVE  IInv'
<1>1. /\ tracked' = [tracked EXCEPT ![c] = Emit(tracked[c])] /\ run' = OverflowAborts(c)
      /\ UNCHANGED <<connected, queue, inFlight, lockOwner>>
  BY DEF StreamLine
<1>2. GoodNow
  BY DEF IInv, GoodNow
<1>3. Good(queue, tracked, inFlight, lockOwner, run')
  BY <1>1, <1>2, OverflowKeeps
<1>4. Good(queue, tracked', inFlight, lockOwner, run')
  BY <1>1, <1>3, EventsKeep, TrackedKeeps
<1> QED
  BY <1>1, <1>4, NothingFreed DEF Waiting

LEMMA TerminalStreamLineKeeps ==
  ASSUME IInv, NEW c \in Commands, NEW g \in 1..MaxRuns, TerminalStreamLine(c, g)
  PROVE  IInv'
<1> DEFINE r == [run[c][g] EXCEPT !.emittedTerminal = TRUE]
<1>1. /\ run' = [run EXCEPT ![c][g] = r] /\ run[c][g].phase \in Unsettled
      /\ tracked' = [tracked EXCEPT ![c] = Finish(tracked[c])]
      /\ UNCHANGED <<connected, queue, inFlight, lockOwner>>
  BY DEF TerminalStreamLine, At, Unsettled
<1>2. run[c][g] \in OpenRuns
  BY <1>1, RunShape DEF IInv, Good, Typed
<1>3. r \in OpenRuns /\ r.cancelRequested = run[c][g].cancelRequested
      /\ r.grace = run[c][g].grace
  BY <1>2 DEF OpenRuns
<1> HIDE DEF r
<1> QED
  BY <1>1, <1>2, <1>3, EventsKeep, RecordsWritten

(* The finally block, after what the run emitted last.                     *)
LEMMA SettleKeeps ==
  ASSUME IInv, NEW c \in Commands, NEW g \in 1..MaxRuns,
         NEW after \in MaybeTracked, after # Untracked => Replayable(after),
         NEW runs, Good(queue, tracked, inFlight, lockOwner, runs),
         runs[c][g].phase \in Unsettled, Settle(c, g, after, runs)
  PROVE  IInv'
<1> DEFINE slots == IF inFlight[c] = g THEN SlotsWithout(c) ELSE inFlight
           owner == IF inFlight[c] = g THEN LocksWithout(c) ELSE lockOwner
           runs2 == [runs EXCEPT ![c][g] = Settled]
           t2 == [tracked EXCEPT ![c] = after]
<1>1. UNCHANGED connected /\ Schedule(queue, t2, slots, owner, runs2)
  BY DEF Settle, OwnsSlot
<1>2. Good(queue, tracked, slots, owner, runs2)
  BY SettledKeeps DEF IInv, GoodNow
<1> HIDE DEF slots, owner, runs2
<1>3. Good(queue, t2, slots, owner, runs2)
  BY <1>2, TrackedKeeps
<1> HIDE DEF t2
<1> QED
  BY <1>1, <1>3, ScheduleKeeps DEF IInv

LEMMA RunSettlesKeeps ==
  ASSUME IInv, NEW c \in Commands, NEW g \in 1..MaxRuns, RunSettles(c, g)
  PROVE  IInv'
<1>1. GoodNow /\ Good(queue, tracked, inFlight, lockOwner, run)
  BY DEF IInv, GoodNow
<1>2. CASE StreamEnds(c, g)
  <2> DEFINE after == IF run[c][g].emittedTerminal THEN tracked[c] ELSE Finish(tracked[c])
  <2>1. run[c][g].phase \in Unsettled /\ Settle(c, g, after, run)
    BY <1>2 DEF StreamEnds, At, Unsettled
  <2>2. after \in MaybeTracked /\ (after # Untracked => Replayable(after))
    BY EventsKeep
  <2> QED
    BY <1>1, <2>1, <2>2, SettleKeeps
<1>3. CASE BodyParsed(c, g)
  <2>1. run[c][g].phase \in Unsettled
        /\ Settle(c, g, Finish(Emit(tracked[c])), OverflowAborts(c))
    BY <1>3 DEF BodyParsed, At, Unsettled
  <2>2. /\ Good(queue, tracked, inFlight, lockOwner, OverflowAborts(c))
        /\ OverflowAborts(c)[c][g].phase \in Unsettled
    BY <1>1, <2>1, OverflowKeeps
  <2> QED
    BY <2>1, <2>2, EventsKeep, SettleKeeps
<1>4. CASE RunFails(c, g)
  <2> DEFINE after ==
        IF run[c][g].cancelRequested \/ (run[c][g].overflowed /\ run[c][g].timeout # "fired")
          THEN tracked[c]
          ELSE Finish(tracked[c])
  <2>1. run[c][g].phase \in Unsettled /\ Settle(c, g, after, run)
    BY <1>4 DEF RunFails, IsUnsettled
  <2>2. after \in MaybeTracked /\ (after # Untracked => Replayable(after))
    BY EventsKeep
  <2> QED
    BY <1>1, <2>1, <2>2, SettleKeeps
<1> QED
  BY <1>2, <1>3, <1>4 DEF RunSettles

LEMMA AcknowledgeKeeps ==
  ASSUME IInv, NEW c \in Commands, NEW sequence \in 1..MaxEvents[c], Acknowledge(c, sequence)
  PROVE  IInv'
<1> DEFINE acked == IF sequence > tracked[c].lastAcked THEN sequence ELSE tracked[c].lastAcked
           left == IF tracked[c].state = "terminal"
                     THEN tracked[c].buffer ELSE {n \in tracked[c].buffer : n > acked}
           x == [tracked[c] EXCEPT !.lastAcked = acked, !.buffer = left]
<1>1. /\ Good(queue, tracked, inFlight, lockOwner, run)
      /\ tracked \in [Commands -> MaybeTracked] /\ tracked[c] # Untracked
      /\ UNCHANGED <<connected, queue, inFlight, lockOwner, run>>
  BY DEF IInv, Good, Typed, Acknowledge, MaybeTracked
<1>2. tracked[c] \in TrackedStates /\ Replayable(tracked[c])
  BY <1>1 DEF MaybeTracked, Good, AllReplayable
<1>3. acked \in Nat /\ acked >= tracked[c].lastAcked /\ left \in SUBSET Nat
      /\ tracked[c].lastAcked \in Nat /\ tracked[c].lastEmitted \in Nat
  BY <1>2, ExecutorAssumption DEF TrackedStates
<1>4. (acked + 1)..tracked[c].lastEmitted \subseteq left
  BY <1>2, <1>3 DEF Replayable
<1>5. tracked[c].state = "terminal" => tracked[c].lastEmitted \in left
  BY <1>2 DEF Replayable
<1>6. tracked' = [tracked EXCEPT ![c] = x]
  BY <1>1 DEF Acknowledge
<1> HIDE DEF acked, left
<1>7. x \in TrackedStates /\ Replayable(x)
  BY <1>2, <1>3, <1>4, <1>5 DEF TrackedStates, Replayable
<1> HIDE DEF x
<1>8. Good(queue, tracked', inFlight, lockOwner, run)
  BY <1>1, <1>6, <1>7, TrackedKeeps DEF MaybeTracked
<1> QED
  BY <1>1, <1>8, NothingFreed DEF Waiting

(***************************************************************************)
(* The theorems                                                            *)
(***************************************************************************)

LEMMA InitGood == Init => IInv
<1> SUFFICES ASSUME Init PROVE IInv
  OBVIOUS
<1>1. Holding(inFlight) = {} /\ WaitingIn(queue) = {} /\ Cardinality({}) = 0
  BY FS_EmptySet DEF Init, Holding, WaitingIn
<1>2. Typed(queue, tracked, inFlight, lockOwner, run)
  BY ExecutorAssumption DEF Init, Typed
<1>3. \A c \in Commands : RunsIn(run, c) = {} /\ LatestIn(run, c) = 0
  BY <1>1 DEF Init, RunsIn, LatestIn
<1>4. Contiguous(run) /\ Room(queue, run)
  <2>1. 1..0 = {}
    OBVIOUS
  <2>2. Contiguous(run)
    BY <1>3, <2>1 DEF Contiguous
  <2>3. Room(queue, run)
    BY <1>1 DEF Room
  <2> QED
    BY <2>2, <2>3
<1>5. Ordered(queue) /\ Within(inFlight)
  <2>1. Cardinality(WaitingIn(queue)) = 0 /\ \A c \in Commands : queue[c] = 0
    BY <1>1 DEF Init
  <2> QED
    BY <1>1, <2>1, ExecutorAssumption DEF Ordered, Within
<1>6. Matching(inFlight, lockOwner) /\ SlotsOpen(inFlight, run)
  BY <1>1 DEF Init, Matching, SlotsOpen
<1>7. OneSlot(inFlight, run)
  BY RunShape DEF Init, OneSlot
<1>8. AllReplayable(tracked)
  BY DEF Init, AllReplayable
<1> QED
  BY <1>1, <1>2, <1>4, <1>5, <1>6, <1>7, <1>8 DEF IInv, Good, Init, Waiting

LEMMA StepKeeps == IInv /\ [Next]_vars => IInv'
<1> SUFFICES ASSUME IInv, [Next]_vars PROVE IInv'
  OBVIOUS
<1>1. CASE \E to \in BOOLEAN : SetConnected(to)
  BY <1>1, SetConnectedKeeps
<1>2. CASE \E c \in Commands, pruned \in SUBSET Commands : Enqueue(c, pruned)
  BY <1>2, EnqueueKeeps
<1>3. CASE \E c \in Commands : CancelQueued(c) \/ CancelRunning(c)
  BY <1>3, CancelQueuedKeeps, CancelRunningKeeps
<1>4. CASE \E c \in Commands : \E sequence \in 1..MaxEvents[c] : Acknowledge(c, sequence)
  BY <1>4, AcknowledgeKeeps
<1>5. ASSUME NEW c \in Commands, NEW g \in 1..MaxRuns, ForceSettleCancelled(c, g) PROVE IInv'
  BY <1>5, ForceSettleKeeps
<1>6. ASSUME NEW c \in Commands, NEW g \in 1..MaxRuns, CommandTimesOut(c, g) PROVE IInv'
  BY <1>6, CommandTimesOutKeeps
<1>7. ASSUME NEW c \in Commands, NEW g \in 1..MaxRuns, NEW phase \in {"body", "streaming"},
             GatewayResponds(c, g, phase)
      PROVE  IInv'
  BY <1>7, GatewayRespondsKeeps
<1>8. ASSUME NEW c \in Commands, NEW g \in 1..MaxRuns, StreamLine(c, g) PROVE IInv'
  BY <1>8, StreamLineKeeps
<1>9. ASSUME NEW c \in Commands, NEW g \in 1..MaxRuns, TerminalStreamLine(c, g) PROVE IInv'
  BY <1>9, TerminalStreamLineKeeps
<1>10. ASSUME NEW c \in Commands, NEW g \in 1..MaxRuns, RunSettles(c, g) PROVE IInv'
  BY <1>10, RunSettlesKeeps
<1>11. CASE UNCHANGED vars
  <2>1. Good(queue', tracked', inFlight', lockOwner', run')
    BY <1>11 DEF IInv, vars
  <2> QED
    BY <1>11, <2>1, NothingFreed DEF vars, Waiting
<1> QED
  BY <1>1, <1>2, <1>3, <1>4, <1>5, <1>6, <1>7, <1>8, <1>9, <1>10, <1>11 DEF Next

THEOREM InductiveInvariant == Spec => []IInv
  BY InitGood, StepKeeps, PTL DEF Spec

(* The state of the executor has the shape TypeOK says.                    *)
THEOREM TypeCorrect == Spec => []TypeOK
<1>1. IInv => TypeOK
  BY DEF IInv, Good, Typed, TypeOK, TrackedStates, OpenRuns
<1> QED
  BY <1>1, InductiveInvariant, PTL

(* maxInFlightCommands is never exceeded: not when a grace timer frees a   *)
(* slot whose fetch goes on, nor when that fetch ends later.               *)
THEOREM SlotsStayBounded == Spec => []SlotsBounded
<1>1. IInv => SlotsBounded
  BY DEF IInv, Good, Within, SlotsBounded, Running
<1> QED
  BY <1>1, InductiveInvariant, PTL

(* Every lock belongs to the command in a slot for it, and every command   *)
(* in a slot has its lock: two commands of one path never run together in  *)
(* their slots.                                                            *)
THEOREM LocksFollowSlots == Spec => []LocksMatchSlots
<1>1. IInv => LocksMatchSlots
  BY DEF IInv, Good, Matching, LocksMatchSlots, Running
<1> QED
  BY <1>1, InductiveInvariant, PTL

(* No command waits, while connected, that schedule() would start now.     *)
THEOREM WorkIsConserved == Spec => []WorkConserving
<1>1. ASSUME IInv, connected PROVE Starts({}, queue, tracked, inFlight, lockOwner)
  <2>1. ASSUME NEW c \in WaitingIn(queue)
        PROVE  ~(Cardinality(Holding(inFlight)) < MaxInFlight /\ ~Locked(lockOwner, LockOf[c]))
    BY <1>1 DEF IInv, Startable, Waiting
  <2>2. \A c \in WaitingIn(queue) :
          {b \in {} : tracked[b] # Untracked /\ queue[b] < queue[c]} = {}
    OBVIOUS
  <2> QED
    BY <2>1, <2>2 DEF Starts
<1>2. IInv => WorkConserving
  BY <1>1 DEF WorkConserving
<1> QED
  BY <1>2, InductiveInvariant, PTL

(* Whatever the cloud has not acked is in the buffer that is replayed.     *)
THEOREM ReplayIsComplete == Spec => []ReplayCovers
<1>1. IInv => ReplayCovers
  BY DEF IInv, Good, AllReplayable, Replayable, ReplayCovers
<1> QED
  BY <1>1, InductiveInvariant, PTL

(* With a lock, or a single slot, the last run of a command keeps its slot *)
(* until it settles or is cancelled, on any number of slots: no finally    *)
(* block and no grace timer of an earlier run takes it.                    *)
THEOREM LockedRunKeepsSlot == Spec => []LockedRunHoldsSlot
<1>1. ASSUME IInv PROVE LockedRunHoldsSlot
  <2> SUFFICES ASSUME NEW c \in Commands, Guarded(c), NEW g \in RunsOf(c), g + 1 \notin RunsOf(c),
                      IsUnsettled(c, g), ~run[c][g].cancelRequested
               PROVE  inFlight[c] = g
    BY DEF LockedRunHoldsSlot, KeepsSlot, Guarded
  <2>1. RunsOf(c) = 1..LatestIn(run, c) /\ LatestIn(run, c) \in Nat /\ g \in 1..MaxRuns
    BY <1>1, LatestIsNat DEF IInv, Good, Contiguous, RunsIn, RunsOf
  <2>2. g = LatestIn(run, c)
    BY <2>1
  <2> QED
    BY <1>1, <2>1, <2>2 DEF IInv, Good, OneSlot, IsUnsettled
<1> QED
  BY <1>1, InductiveInvariant, PTL
=============================================================================
