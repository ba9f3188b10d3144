------------------------- MODULE CommandDrainProofs -------------------------
(***************************************************************************)
(* Proofs about CommandDrain, for any number of drains, commands and       *)
(* reconnects, any ceiling and any lease time to live longer than a        *)
(* dispatch.  The lease: tokens differ, and one that has not run out is    *)
(* still the lease.  The overshoot: the commands ever handed out lie in a  *)
(* set of the oldest ones, whose size what was counted bounds.             *)
(***************************************************************************)
EXTENDS CommandDrain, FiniteSetTheorems, WellFoundedInduction, TLAPS

Holders == {d \in Drainers : drain[d] # Idle}

LeaseBounded ==
  /\ lease # NoLease => lease <= clock + LeaseTtl
  /\ \A d \in Holders : drain[d].heldUntil <= clock + LeaseTtl

UnexpiredTokenIsLease ==
  \A d \in Holders : drain[d].heldUntil > clock => lease = drain[d].heldUntil

TokensDiffer ==
  \A d, e \in Holders : drain[d].heldUntil = drain[e].heldUntil => d = e

OwnerHoldsToken ==
  /\ lease # NoLease => owner \in Drainers
  /\ \A d \in Holders : lease = drain[d].heldUntil => owner = d

DispatchWithinLease ==
  \A d \in Dispatching :
    /\ drain[d].heldUntil = drain[d].since + LeaseTtl
    /\ clock <= drain[d].since + DispatchBound

IInv ==
  /\ TypeOK
  /\ LeaseBounded
  /\ UnexpiredTokenIsLease
  /\ TokensDiffer
  /\ OwnerHoldsToken
  /\ DispatchWithinLease

(* What a drain holds depends on its step: every step but the idle one     *)
(* carries a token, a natural number, and only a dispatch carries the      *)
(* instant it began.                                                       *)
LEMMA DrainShape ==
  ASSUME TypeOK, NEW d \in Drainers
  PROVE  /\ drain[d] # Idle => drain[d].heldUntil \in Nat
         /\ drain[d].step = "dispatch" => drain[d].since \in Nat
         /\ drain[d].step = "list" => drain[d].free \in Nat
         /\ drain[d].step = "renew" => drain[d].batch \in SUBSET Commands
         /\ drain[d] = Idle <=> drain[d].step = "idle"
  BY DEF TypeOK, Idle

(* A drain that keeps its token while it moves to a step other than the    *)
(* dispatch, with the lease and the clock left alone, keeps the invariant: *)
(* the reads, a refused renewal and the end of a dispatch.                 *)
LEMMA KeepsToken ==
  ASSUME IInv, NEW d \in Drainers, drain[d] # Idle,
         NEW after \in [step: {"count", "release"}, heldUntil: Nat]
                \cup [step: {"list"}, heldUntil: Nat, free: Nat]
                \cup [step: {"renew"}, heldUntil: Nat, batch: SUBSET Commands],
         after.heldUntil = drain[d].heldUntil,
         drain' = [drain EXCEPT ![d] = after],
         UNCHANGED <<target, rows, clock>>
  PROVE  IInv'
<1>. USE DEF target, rows
<1>1. TypeOK'
  BY DEF IInv, TypeOK
<1>2. after # Idle /\ after.step # "dispatch"
  BY DEF Idle
<1>3. Holders' = Holders
  BY <1>2 DEF Holders, IInv, TypeOK
<1>4. \A e \in Holders : drain'[e].heldUntil = drain[e].heldUntil
  BY DEF IInv, TypeOK, Holders
<1>5. \A e \in Dispatching' : e \in Dispatching /\ drain'[e] = drain[e]
  BY <1>2 DEF IInv, TypeOK, Dispatching
<1> QED
  BY <1>1, <1>3, <1>4, <1>5 DEF IInv, LeaseBounded, UnexpiredTokenIsLease,
     TokensDiffer, OwnerHoldsToken, DispatchWithinLease

(* A drain that writes the lease, as an acquisition or a renewal does,     *)
(* keeps the invariant provided no other drain holds an unexpired token.   *)
LEMMA WritesLease ==
  ASSUME IInv, NEW d \in Drainers,
         \A e \in Holders \ {d} : drain[e].heldUntil <= clock,
         NEW after \in [step: {"count"}, heldUntil: Nat]
                \cup [step: {"dispatch"}, heldUntil: Nat, since: Nat],
         after.heldUntil = clock + LeaseTtl,
         after.step = "dispatch" => after.since = clock,
         drain' = [drain EXCEPT ![d] = after],
         lease' = clock + LeaseTtl,
         owner' = d,
         posted' \in SUBSET Commands,
         UNCHANGED <<status, handed, withheld, hellos, clock>>
  PROVE  IInv'
<1>. USE DrainAssumption DEF target, rows
<1>1. TypeOK'
  BY DEF IInv, TypeOK
<1>2. Holders' = Holders \cup {d} /\ after # Idle
  BY DEF Holders, Idle, IInv, TypeOK
<1>3. /\ drain'[d] = after
      /\ \A e \in Holders \ {d} : drain'[e] = drain[e] /\ drain[e].heldUntil \in Nat
  BY DrainShape DEF Holders, IInv, TypeOK
<1>4. clock \in Nat /\ clock' = clock /\ clock + LeaseTtl > clock /\ lease' # NoLease
  BY DEF IInv, TypeOK
<1>5. LeaseBounded'
  BY <1>2, <1>3, <1>4 DEF LeaseBounded
<1>6. UnexpiredTokenIsLease'
  BY <1>2, <1>3, <1>4 DEF UnexpiredTokenIsLease
<1>7. TokensDiffer'
  BY <1>2, <1>3, <1>4 DEF TokensDiffer, IInv
<1>8. OwnerHoldsToken'
  BY <1>2, <1>3, <1>4 DEF OwnerHoldsToken
<1>9. DispatchWithinLease'
  <2> SUFFICES ASSUME NEW e \in Drainers, drain'[e].step = "dispatch"
               PROVE  /\ drain'[e].heldUntil = drain'[e].since + LeaseTtl
                      /\ clock' <= drain'[e].since + DispatchBound
    BY DEF DispatchWithinLease, Dispatching
  <2>1. CASE e = d
    BY <2>1, <1>3, <1>4
  <2>2. CASE e # d
    <3>1. drain'[e] = drain[e]
      BY <2>2 DEF IInv, TypeOK
    <3> QED
      BY <3>1, <1>4 DEF IInv, DispatchWithinLease, Dispatching
  <2> QED
    BY <2>1, <2>2
<1> QED
  BY <1>1, <1>5, <1>6, <1>7, <1>8, <1>9 DEF IInv

(* A drain that ends, by crashing or through the finally block, keeps the  *)
(* invariant whether it clears its own lease or leaves the lease alone.    *)
LEMMA LeavesTarget ==
  ASSUME IInv, NEW d \in Drainers, drain[d] # Idle,
         drain' = [drain EXCEPT ![d] = Idle],
         \/ UNCHANGED target
         \/ lease = drain[d].heldUntil /\ lease' = NoLease /\ owner' = NoLease,
         UNCHANGED <<rows, clock>>
  PROVE  IInv'
<1>. USE DrainAssumption DEF target, rows
<1>1. TypeOK'
  BY DEF IInv, TypeOK
<1>2. /\ Holders' = Holders \ {d}
      /\ d \in Holders
      /\ \A e \in Holders' : drain'[e] = drain[e] /\ drain[e].heldUntil \in Nat
  BY DrainShape DEF Holders, IInv, TypeOK
<1>3. \A e \in Dispatching' : e \in Dispatching /\ drain'[e] = drain[e]
  BY DEF IInv, TypeOK, Dispatching, Idle
<1>4. \A e \in Holders' : drain[e].heldUntil # drain[d].heldUntil
  BY <1>2 DEF IInv, TokensDiffer
<1>5. LeaseBounded'
  BY <1>2 DEF LeaseBounded, IInv
<1>6. UnexpiredTokenIsLease'
  BY <1>2, <1>4 DEF UnexpiredTokenIsLease, IInv
<1>7. TokensDiffer'
  BY <1>2 DEF TokensDiffer, IInv
<1>8. OwnerHoldsToken'
  BY <1>2, <1>4 DEF OwnerHoldsToken, IInv
<1>9. DispatchWithinLease'
  BY <1>3 DEF DispatchWithinLease, IInv
<1> QED
  BY <1>1, <1>5, <1>6, <1>7, <1>8, <1>9 DEF IInv

(* Every step keeps the invariant. *)
LEMMA StepKeepsIInv == IInv /\ [Next]_vars => IInv'
<1> SUFFICES ASSUME IInv, [Next]_vars
             PROVE  IInv'
  OBVIOUS
<1>. USE DrainAssumption DEF target, rows
<1>a. TypeOK /\ clock \in Nat
  BY DEF IInv, TypeOK
<1>1. ASSUME NEW d \in Drainers, AcquireCommandDrainLease(d)
      PROVE  IInv'
  <2>1. \A e \in Holders \ {d} : drain[e].heldUntil <= clock
    <3> SUFFICES ASSUME NEW e \in Holders, drain[e].heldUntil > clock
                 PROVE  FALSE
      BY DrainShape, <1>a DEF Holders
    <3> QED
      BY <1>1, <1>a, DrainShape
      DEF AcquireCommandDrainLease, LeaseFree, IInv, UnexpiredTokenIsLease, Holders
  <2> DEFINE after == [step |-> "count", heldUntil |-> clock + LeaseTtl]
  <2>2. after \in [step: {"count"}, heldUntil: Nat] /\ after.step # "dispatch"
    BY <1>a
  <2> HIDE DEF after
  <2>3. /\ drain' = [drain EXCEPT ![d] = after] /\ after.heldUntil = clock + LeaseTtl
        /\ lease' = clock + LeaseTtl /\ owner' = d
        /\ posted' \in SUBSET Commands /\ UNCHANGED <<status, handed, withheld, hellos, clock>>
    BY <1>1, <1>a DEF AcquireCommandDrainLease, after, TypeOK, rows
  <2> QED
    BY <2>1, <2>2, <2>3, WritesLease
<1>2. ASSUME NEW d \in Drainers, CountInFlight(d)
      PROVE  IInv'
  <2> DEFINE free == Ceiling - Cardinality(InStatus("inFlight"))
             release == [step |-> "release", heldUntil |-> drain[d].heldUntil]
             list == [step |-> "list", heldUntil |-> drain[d].heldUntil, free |-> free]
  <2>1. drain[d] # Idle /\ drain[d].heldUntil \in Nat
    BY <1>2, <1>a, DrainShape DEF CountInFlight, Idle
  <2>2. free \in Int
    <3>1. IsFiniteSet(Commands)
      BY FS_Interval DEF Commands
    <3>2. IsFiniteSet(InStatus("inFlight"))
      BY <3>1, FS_Subset, InStatus("inFlight") \subseteq Commands DEF InStatus
    <3> QED
      BY <3>2, FS_CardinalityType
  <2>3. CASE free <= 0
    <3>1. drain' = [drain EXCEPT ![d] = release] /\ UNCHANGED <<target, rows, clock>>
      BY <1>2, <1>a, <2>3 DEF CountInFlight, TypeOK
    <3>2. release \in [step: {"count", "release"}, heldUntil: Nat] /\ release.heldUntil = drain[d].heldUntil
      BY <2>1
    <3> QED
      BY <3>1, <3>2, <2>1, KeepsToken
  <2>4. CASE ~(free <= 0)
    <3>1. drain' = [drain EXCEPT ![d] = list] /\ UNCHANGED <<target, rows, clock>>
      BY <1>2, <1>a, <2>4 DEF CountInFlight, TypeOK
    <3>2. list \in [step: {"list"}, heldUntil: Nat, free: Nat] /\ list.heldUntil = drain[d].heldUntil
      BY <2>1, <2>2, <2>4
    <3> QED
      BY <3>1, <3>2, <2>1, KeepsToken
  <2> QED
    BY <2>3, <2>4
<1>3. ASSUME NEW d \in Drainers, ListQueued(d)
      PROVE  IInv'
  <2> DEFINE release == [step |-> "release", heldUntil |-> drain[d].heldUntil]
             renew == [step |-> "renew", heldUntil |-> drain[d].heldUntil,
                       batch |-> OldestQueued(drain[d].free)]
  <2>1. drain[d] # Idle /\ drain[d].heldUntil \in Nat
    BY <1>3, <1>a, DrainShape DEF ListQueued, Idle
  <2>2. release \in [step: {"count", "release"}, heldUntil: Nat] /\ release.heldUntil = drain[d].heldUntil
    BY <2>1
  <2>3. renew \in [step: {"renew"}, heldUntil: Nat, batch: SUBSET Commands]
        /\ renew.heldUntil = drain[d].heldUntil
    BY <2>1 DEF OldestQueued, Oldest, InStatus
  <2>4. \/ drain' = [drain EXCEPT ![d] = release]
        \/ drain' = [drain EXCEPT ![d] = renew]
    BY <1>3, <1>a DEF ListQueued, TypeOK
  <2>5. UNCHANGED <<target, rows, clock>>
    BY <1>3 DEF ListQueued
  <2> HIDE DEF release, renew
  <2> QED
    BY <2>1, <2>2, <2>3, <2>4, <2>5, KeepsToken
<1>4. ASSUME NEW d \in Drainers, RenewCommandDrainLease(d)
      PROVE  IInv'
  <2>1. drain[d] # Idle /\ drain[d].heldUntil \in Nat /\ drain[d].batch \in SUBSET Commands
    BY <1>4, <1>a, DrainShape DEF RenewCommandDrainLease, Idle
  <2>2. CASE lease = drain[d].heldUntil
    <3>1. \A e \in Holders \ {d} : drain[e].heldUntil <= clock
      <4> SUFFICES ASSUME NEW e \in Holders, e # d, drain[e].heldUntil > clock
                   PROVE  FALSE
        BY DrainShape, <1>a DEF Holders
      <4> QED
        BY <2>1, <2>2 DEF IInv, UnexpiredTokenIsLease, TokensDiffer, Holders
    <3> DEFINE after == [step |-> "dispatch", heldUntil |-> clock + LeaseTtl,
                         since |-> clock]
    <3>2. /\ after \in [step: {"dispatch"}, heldUntil: Nat, since: Nat]
          /\ after.heldUntil = clock + LeaseTtl /\ after.since = clock
      BY <1>a, <2>1
    <3>3. /\ drain' = [drain EXCEPT ![d] = after]
          /\ lease' = clock + LeaseTtl /\ owner' = d
          /\ posted' \in SUBSET Commands /\ UNCHANGED <<status, handed, withheld, hellos, clock>>
      BY <1>4, <1>a, <2>1, <2>2 DEF RenewCommandDrainLease, TypeOK
    <3> HIDE DEF after
    <3> QED
      BY <3>1, <3>2, <3>3, WritesLease
  <2>3. CASE lease # drain[d].heldUntil
    <3> DEFINE release == [step |-> "release", heldUntil |-> drain[d].heldUntil]
    <3>1. release \in [step: {"count", "release"}, heldUntil: Nat] /\ release.heldUntil = drain[d].heldUntil
      BY <2>1
    <3>2. drain' = [drain EXCEPT ![d] = release] /\ UNCHANGED <<target, rows, clock>>
      BY <1>4, <1>a, <2>3 DEF RenewCommandDrainLease, TypeOK, rows
    <3> HIDE DEF release
    <3> QED
      BY <3>1, <3>2, <2>1, KeepsToken
  <2> QED
    BY <2>2, <2>3
<1>5. ASSUME NEW d \in Drainers, DispatchBatchSettled(d)
      PROVE  IInv'
  <2> DEFINE release == [step |-> "release", heldUntil |-> drain[d].heldUntil]
  <2>1. drain[d] # Idle /\ drain[d].heldUntil \in Nat
    BY <1>5, <1>a, DrainShape DEF DispatchBatchSettled, Idle
  <2>2. release \in [step: {"count", "release"}, heldUntil: Nat] /\ release.heldUntil = drain[d].heldUntil
    BY <2>1
  <2>3. drain' = [drain EXCEPT ![d] = release] /\ UNCHANGED <<target, rows, clock>>
    BY <1>5, <1>a DEF DispatchBatchSettled, TypeOK
  <2> HIDE DEF release
  <2> QED
    BY <2>1, <2>2, <2>3, KeepsToken
<1>6. ASSUME NEW d \in Drainers, ReleaseCommandDrainLease(d) \/ CrashDrain(d)
      PROVE  IInv'
  <2>1. /\ drain[d] # Idle
        /\ drain' = [drain EXCEPT ![d] = Idle]
        /\ UNCHANGED <<rows, clock>>
        /\ \/ UNCHANGED target
           \/ lease = drain[d].heldUntil /\ lease' = NoLease /\ owner' = NoLease
    BY <1>6 DEF ReleaseCommandDrainLease, CrashDrain, Idle
  <2> QED
    BY <2>1, LeavesTarget
<1>7. ASSUME TypeOK', UNCHANGED <<target, drain, clock>>
      PROVE  IInv'
  BY <1>7 DEF IInv, LeaseBounded, UnexpiredTokenIsLease, TokensDiffer, OwnerHoldsToken,
     DispatchWithinLease, Holders, Dispatching, target
<1>8. ASSUME \/ \E c \in Commands :
                  RelayDelivers(c) \/ RelayLoses(c) \/ CommandAnswered(c) \/ CommandEnds(c)
             \/ HandleHello
             \/ \E h \in 1..MaxHellos : RequeueUndeliveredCommands(h)
      PROVE  IInv'
  <2>1. UNCHANGED <<target, drain, clock>>
    BY <1>8 DEF RelayDelivers, RelayLoses, CommandAnswered, CommandEnds, HandleHello,
       RequeueUndeliveredCommands
  <2>2. status' \in [Commands -> {"queued", "inFlight", "ended"}]
    BY <1>8, <1>a DEF RelayDelivers, RelayLoses, CommandAnswered, CommandEnds, HandleHello,
       RequeueUndeliveredCommands, TypeOK
  <2>3. /\ posted' \in SUBSET Commands /\ handed' \in SUBSET Commands
        /\ withheld' \in [1..MaxHellos -> SUBSET Commands] /\ hellos' \in 0..MaxHellos
    <3>1. Pending \subseteq Commands /\ Oldest(Ceiling, Pending) \subseteq Pending
      BY DEF Pending, Oldest, InStatus
    <3>2. CASE HandleHello
      <4>1. withheld' \in [1..MaxHellos -> SUBSET Commands] /\ hellos' \in 0..MaxHellos
        BY <3>1, <3>2, <1>a DEF HandleHello, TypeOK
      <4>2. posted' \in SUBSET Commands /\ handed' \in SUBSET Commands
        BY <3>1, <3>2, <1>a DEF HandleHello, TypeOK
      <4> QED
        BY <4>1, <4>2
    <3>3. CASE ~HandleHello
      <4>1. posted' \in SUBSET Commands /\ handed' \in SUBSET Commands /\ hellos' = hellos
        BY <3>3, <1>8, <1>a DEF RelayDelivers, RelayLoses, CommandAnswered, CommandEnds,
           RequeueUndeliveredCommands, TypeOK
      <4>2. \/ withheld' = withheld
            \/ \E h \in 1..MaxHellos, kept \in SUBSET Commands :
                 withheld' = [withheld EXCEPT ![h] = kept]
        BY <3>3, <1>8, <1>a DEF RelayDelivers, RelayLoses, CommandAnswered, CommandEnds,
           RequeueUndeliveredCommands, TypeOK
      <4>3. withheld' \in [1..MaxHellos -> SUBSET Commands]
        BY <4>2, <1>a DEF TypeOK
      <4>4. hellos' \in 0..MaxHellos
        BY <4>1, <1>a DEF TypeOK
      <4> QED
        BY <4>1, <4>3, <4>4
    <3> QED
      BY <3>2, <3>3
  <2>4. TypeOK'
    BY <2>1, <2>2, <2>3, <1>a DEF TypeOK, target
  <2> QED
    BY <2>1, <2>4, <1>7
<1>9. CASE Tick
  <2>1. TypeOK' /\ clock' = clock + 1 /\ UNCHANGED <<lease, owner, drain>>
    BY <1>9, <1>a DEF Tick, TypeOK, target, rows
  <2>2. \A e \in Holders : drain[e].heldUntil \in Nat
    BY <1>a, DrainShape DEF Holders
  <2>3. Holders' = Holders /\ Dispatching' = Dispatching
    BY <2>1 DEF Holders, Dispatching
  <2>4. LeaseBounded'
    BY <2>1, <2>2, <2>3, <1>a DEF IInv, LeaseBounded, TypeOK
  <2>5. UnexpiredTokenIsLease'
    BY <2>1, <2>2, <2>3, <1>a DEF IInv, UnexpiredTokenIsLease
  <2>6. DispatchWithinLease'
    <3> SUFFICES ASSUME NEW e \in Dispatching
                 PROVE  /\ drain[e].heldUntil = drain[e].since + LeaseTtl
                        /\ clock + 1 <= drain[e].since + DispatchBound
      BY <2>1, <2>3 DEF DispatchWithinLease
    <3>1. clock < drain[e].since + DispatchBound /\ drain[e].since \in Nat
      BY <1>9, <1>a, DrainShape DEF Tick, Dispatching
    <3> QED
      BY <3>1, <1>a DEF IInv, DispatchWithinLease
  <2> QED
    BY <2>1, <2>3, <2>4, <2>5, <2>6 DEF IInv, TokensDiffer, OwnerHoldsToken
<1>10. CASE UNCHANGED vars
  BY <1>10 DEF vars, target, rows, IInv, TypeOK, LeaseBounded, UnexpiredTokenIsLease, TokensDiffer,
     OwnerHoldsToken, DispatchWithinLease, Holders, Dispatching
<1> QED
  BY <1>1, <1>2, <1>3, <1>4, <1>5, <1>6, <1>8, <1>9, <1>10 DEF Next, DrainStep

LEMMA InitHolds == Init => IInv
BY DrainAssumption DEF Init, IInv, TypeOK, LeaseBounded, UnexpiredTokenIsLease, TokensDiffer,
   OwnerHoldsToken, DispatchWithinLease, Holders, Dispatching, Idle

(* The lease and the tokens stay related as IInv says, whatever the drains *)
(* do, crash included.                                                     *)
THEOREM InductiveInvariant == Spec => []IInv
BY InitHolds, StepKeepsIInv, PTL DEF Spec

(* Every variable keeps its type. *)
THEOREM TypeCorrect == Spec => []TypeOK
<1>1. IInv => TypeOK
  BY DEF IInv
<1> QED
  BY <1>1, InductiveInvariant, PTL

(* The renewal is enough: with any number of drains whose reads outlast    *)
(* their lease, no two ever dispatch at once.                              *)
THEOREM DispatchIsExclusive == Spec => []OneDispatcher
<1>1. IInv => OneDispatcher
  <2> SUFFICES ASSUME IInv, NEW d \in Dispatching, NEW e \in Dispatching
               PROVE  d = e
    BY DEF OneDispatcher
  <2>1. d \in Holders /\ e \in Holders
    BY DEF Dispatching, Holders, Idle
  <2>2. /\ drain[d].since \in Nat /\ drain[e].since \in Nat
        /\ drain[d].heldUntil \in Nat /\ drain[e].heldUntil \in Nat
    BY <2>1, DrainShape DEF IInv, Dispatching, Holders
  <2>3. drain[d].heldUntil > clock /\ drain[e].heldUntil > clock
    <3>1. /\ drain[d].heldUntil = drain[d].since + LeaseTtl /\ clock <= drain[d].since + DispatchBound
          /\ drain[e].heldUntil = drain[e].since + LeaseTtl /\ clock <= drain[e].since + DispatchBound
      BY DEF IInv, DispatchWithinLease
    <3>2. clock \in Nat
      BY DEF IInv, TypeOK
    <3> QED
      BY <2>2, <3>1, <3>2, DrainAssumption
  <2>4. drain[d].heldUntil = lease /\ drain[e].heldUntil = lease
    BY <2>1, <2>3 DEF IInv, UnexpiredTokenIsLease
  <2> QED
    BY <2>1, <2>4 DEF IInv, TokensDiffer
<1> QED
  BY <1>1, InductiveInvariant, PTL

(* A lease is cleared by the drain that wrote it and by no other, however  *)
(* late a drain that overran reaches its finally block.                    *)
THEOREM LeaseIsFreedByItsOwner == Spec => OnlyOwnerFreesLease
<1>1. IInv /\ [Next]_vars =>
        [lease # NoLease /\ lease' = NoLease =>
           drain[owner].step = "release" /\ drain'[owner] = Idle]_vars
  <2> SUFFICES ASSUME IInv, Next, lease # NoLease, lease' = NoLease
               PROVE  drain[owner].step = "release" /\ drain'[owner] = Idle
    BY DEF vars, target, rows
  <2>1. clock + LeaseTtl # NoLease
    BY DrainAssumption DEF IInv, TypeOK
  <2>2. PICK d \in Drainers : ReleaseCommandDrainLease(d)
    BY <2>1 DEF Next, DrainStep, AcquireCommandDrainLease, CountInFlight, ListQueued,
       RenewCommandDrainLease, DispatchBatchSettled, CrashDrain, RelayDelivers, RelayLoses,
       CommandAnswered, CommandEnds, HandleHello, RequeueUndeliveredCommands, Tick, target
  <2>3. d \in Holders /\ lease = drain[d].heldUntil
    BY <2>2 DEF ReleaseCommandDrainLease, Holders, Idle, target
  <2>4. owner = d
    BY <2>3 DEF IInv, OwnerHoldsToken
  <2> QED
    BY <2>2, <2>4 DEF ReleaseCommandDrainLease, IInv, TypeOK
<1> QED
  BY <1>1, InductiveInvariant, PTL DEF Spec, OnlyOwnerFreesLease

(***************************************************************************)
(* The overshoot of the ceiling.  What has ever been handed out is not a   *)
(* variable: the invariant says there is a set E that has it, which a      *)
(* drain extends by a batch and a reconnect by what it hands out.  Both    *)
(* take the oldest, so the set has with a command every older one, but     *)
(* that a reconnect skips legacy rows.                                     *)
(*                                                                         *)
(* A command of E returns to the queue only by a requeue that has begun    *)
(* (B has those) and has yet to reach it.  So commands are counted by how  *)
(* often they may be dispatched again: those that may be k times more are  *)
(* bounded, for every k, by a ceiling less than those that may be k - 1.   *)
(***************************************************************************)
OldestFirst(E) ==
  \A x \in E, y \in Commands : y < x /\ (y \notin Legacy \/ x \in Legacy) => y \in E

Live(E) == {c \in E : status[c] # "ended"}

(* The requeues of B that will still put c back, and with them the times c *)
(* may be listed.                                                          *)
Again(c, B) == {h \in B : c \in withheld[h]}
Returns(c, B) == Cardinality(Again(c, B))
Level(c, B) == Returns(c, B) + (IF status[c] = "queued" THEN 1 ELSE 0)

Returning(E, B, k) == {c \in Live(E) \ Legacy : Returns(c, B) >= k}
Waiting(E, B, k) == {c \in Live(E) \ Legacy : Level(c, B) >= k}

Levels(B) == 0..(Cardinality(B) + 1)
Bound(B, k) == (Cardinality(B) + 2 - k) * Ceiling

Fits(E, B) ==
  /\ B \subseteq 1..hellos
  /\ OldestFirst(E)
  /\ handed \cup posted \subseteq E
  /\ \A c \in Commands \ E : status[c] = "queued"
  /\ Cardinality(Live(E)) <= Bound(B, 0)
  /\ \A k \in Levels(B) : Cardinality(Waiting(E, B, k)) <= Bound(B, k)
  /\ Cardinality(E \cap Legacy) <= Ceiling

(* Listing may add n commands of any level: there is room for them.        *)
ReadFits(E, B, n) ==
  /\ n \in 1..Ceiling
  /\ \A k \in Levels(B) : Cardinality(Returning(E, B, k)) + n <= Bound(B, k)

(* The reads of the drain whose lease it is; no other will dispatch.       *)
ReadsFit(E, B) ==
  \A d \in Holders : drain[d].heldUntil = lease =>
    /\ drain[d].step = "list" => ReadFits(E, B, drain[d].free)
    /\ drain[d].step = "renew" => Fits(E \cup drain[d].batch, B)

RowsOk ==
  /\ \A c \in Legacy : status[c] = "queued"
  /\ \A h \in 1..MaxHellos : h > hellos => withheld[h] = {}

OvershootInv ==
  /\ RowsOk
  /\ \E E \in SUBSET Commands, B \in SUBSET (1..MaxHellos) : Fits(E, B) /\ ReadsFit(E, B)

(* Sets of commands are finite. *)
LEMMA Sizes ==
  ASSUME NEW S \in SUBSET Commands, NEW T \in SUBSET Commands
  PROVE  /\ IsFiniteSet(S) /\ Cardinality(S) \in Nat
         /\ S \subseteq T => Cardinality(S) <= Cardinality(T)
         /\ Cardinality(S \cup T) <= Cardinality(S) + Cardinality(T)
         /\ T \subseteq S => Cardinality(S \ T) = Cardinality(S) - Cardinality(T)
<1>1. IsFiniteSet(Commands)
  BY DrainAssumption, FS_Interval DEF Commands
<1>2. IsFiniteSet(S) /\ IsFiniteSet(T)
  BY <1>1, FS_Subset
<1>3. Cardinality(S) \in Nat /\ Cardinality(T) \in Nat
  BY <1>2, FS_CardinalityType
<1>4. S \subseteq T => Cardinality(S) <= Cardinality(T)
  BY <1>2, FS_Subset
<1>5. IsFiniteSet(S \cap T) /\ Cardinality(S \cap T) \in Nat
      /\ Cardinality(S \cup T) = Cardinality(S) + Cardinality(T) - Cardinality(S \cap T)
  BY <1>2, FS_Union, FS_Intersection, FS_CardinalityType
<1>6. Cardinality(S \ T) = Cardinality(S) - Cardinality(S \cap T)
  BY <1>2, FS_Difference
<1>7. T \subseteq S => Cardinality(S \cap T) = Cardinality(T)
  <2>1. T \subseteq S => S \cap T = T
    OBVIOUS
  <2> QED
    BY <2>1
<1>8. Cardinality(S \cup T) <= Cardinality(S) + Cardinality(T)
  BY <1>3, <1>5
<1> QED
  BY <1>2, <1>3, <1>4, <1>6, <1>7, <1>8

LEMMA LastOf ==
  ASSUME NEW S \in SUBSET Commands, S # {}
  PROVE  \E m \in S : \A c \in S : c <= m
<1> DEFINE T == {CommandCount - c : c \in S}
<1>0. CommandCount \in Nat /\ \A c \in S : c \in 1..CommandCount
  BY DrainAssumption DEF Commands
<1>1. T \subseteq Nat /\ T # {}
  BY <1>0
<1> HIDE DEF T
<1>2. PICK n \in T : \A m \in T : ~(<<m, n>> \in OpToRel(<, Nat))
  BY <1>1, NatLessThanWellFounded, WFMin
<1>3. \A m \in T : ~(m < n)
  BY <1>1, <1>2 DEF OpToRel
<1>4. PICK m \in S : n = CommandCount - m
  BY DEF T
<1>5. \A c \in S : CommandCount - c \in T
  BY DEF T
<1> QED
  BY <1>0, <1>3, <1>4, <1>5

(* The oldest of a set: with each the older ones, and no more than asked.  *)
Before(S, x) == {b \in S : b < x}

LEMMA OldestIs ==
  ASSUME NEW S \in SUBSET Commands, NEW n \in Nat
  PROVE  /\ Oldest(n, S) \in SUBSET S
         /\ \A x \in Oldest(n, S), y \in S : y < x => y \in Oldest(n, S)
         /\ Cardinality(Oldest(n, S)) <= n
<1> DEFINE O == Oldest(n, S)
<1>0. \A c \in S : c \in Int
  BY DEF Commands
<1>1. /\ O \in SUBSET S
      /\ \A x \in S : x \in O <=> Cardinality(Before(S, x)) < n
  BY DEF Oldest, Before
<1> HIDE DEF O
<1>2. \A x : Before(S, x) \in SUBSET Commands
  BY DEF Before
<1>3. ASSUME NEW x \in O, NEW y \in S, y < x
      PROVE  y \in O
  <2>1. Before(S, y) \subseteq Before(S, x)
    BY <1>0, <1>1, <1>3 DEF Before
  <2>2. /\ Cardinality(Before(S, y)) <= Cardinality(Before(S, x))
        /\ Cardinality(Before(S, y)) \in Nat /\ Cardinality(Before(S, x)) \in Nat
    BY <1>2, <2>1, Sizes
  <2> QED
    BY <1>1, <2>2
<1>4. Cardinality(O) <= n
  <2>1. CASE O = {}
    BY <2>1, FS_EmptySet
  <2>2. CASE O # {}
    <3>1. PICK m \in O : \A c \in O : c <= m
      BY <1>1, <2>2, LastOf
    <3>2. \A c \in O : c < m \/ c = m
      BY <1>0, <1>1, <3>1
    <3>3. O \subseteq Before(S, m) \cup {m} /\ {m} \in SUBSET Commands
      BY <1>1, <3>2 DEF Before
    <3>4. Cardinality(Before(S, m)) < n /\ Before(S, m) \in SUBSET Commands
      BY <1>1, <1>2
    <3>5. Cardinality({m}) = 1
      BY FS_Singleton
    <3>6. O \in SUBSET Commands /\ Before(S, m) \cup {m} \in SUBSET Commands
      BY <3>3, <3>4, <1>1
    <3>7. /\ Cardinality(O) <= Cardinality(Before(S, m) \cup {m})
          /\ Cardinality(O) \in Nat /\ Cardinality(Before(S, m) \cup {m}) \in Nat
      BY <3>3, <3>6, Sizes
    <3>8. /\ Cardinality(Before(S, m) \cup {m}) <= Cardinality(Before(S, m)) + 1
          /\ Cardinality(Before(S, m)) \in Nat
      BY <3>3, <3>4, <3>5, Sizes
    <3> QED
      BY <3>4, <3>7, <3>8
  <2> QED
    BY <2>1, <2>2
<1>5. QED
  BY <1>1, <1>3, <1>4 DEF O

LEMMA Product ==
  ASSUME NEW a \in Nat, NEW b \in Nat, a <= b
  PROVE  /\ a * Ceiling \in Nat /\ b * Ceiling \in Nat
         /\ a * Ceiling <= b * Ceiling
         /\ (a + 1) * Ceiling = a * Ceiling + Ceiling
         /\ a # 0 => Ceiling <= a * Ceiling
<1>1. Ceiling \in Nat \ {0}
  BY DrainAssumption
<1>2. PICK k \in Nat : b = a + k
  BY b - a \in Nat
<1>3. b * Ceiling = a * Ceiling + k * Ceiling /\ k * Ceiling \in Nat /\ a * Ceiling \in Nat
  BY <1>1, <1>2
<1>4. (a + 1) * Ceiling = a * Ceiling + Ceiling
  BY <1>1
<1>5. a # 0 => a * Ceiling = (a - 1) * Ceiling + Ceiling /\ (a - 1) * Ceiling \in Nat
  BY <1>1
<1> QED
  BY <1>1, <1>3, <1>4, <1>5

(* The bounds fall by a ceiling from each level to the next, down to one.  *)
LEMMA BoundIs ==
  ASSUME NEW B \in SUBSET (1..MaxHellos)
  PROVE  /\ IsFiniteSet(B) /\ Cardinality(B) \in Nat
         /\ \A k \in Levels(B) :
              /\ k \in Nat /\ Bound(B, k) \in Nat /\ Ceiling <= Bound(B, k)
              /\ k <= Cardinality(B) =>
                   k + 1 \in Levels(B) /\ Bound(B, k) = Bound(B, k + 1) + Ceiling
<1>1. IsFiniteSet(1..MaxHellos)
  BY DrainAssumption, FS_Interval
<1>2. IsFiniteSet(B) /\ Cardinality(B) \in Nat
  BY <1>1, FS_Subset, FS_CardinalityType
<1>3. ASSUME NEW k \in Levels(B)
      PROVE  /\ k \in Nat /\ Bound(B, k) \in Nat /\ Ceiling <= Bound(B, k)
             /\ k <= Cardinality(B) =>
                  k + 1 \in Levels(B) /\ Bound(B, k) = Bound(B, k + 1) + Ceiling
  <2> DEFINE m == Cardinality(B) + 1 - k
  <2>1. /\ k \in Nat /\ m \in Nat /\ m + 1 \in Nat \ {0} /\ Cardinality(B) + 2 - k = m + 1
        /\ Cardinality(B) + 2 - (k + 1) = m
        /\ k <= Cardinality(B) => k + 1 \in Levels(B)
    BY <1>2 DEF Levels
  <2>2. Bound(B, k) = (m + 1) * Ceiling /\ Bound(B, k + 1) = m * Ceiling
    BY <2>1 DEF Bound
  <2> HIDE DEF m
  <2>3. /\ (m + 1) * Ceiling \in Nat /\ Ceiling <= (m + 1) * Ceiling
        /\ (m + 1) * Ceiling = m * Ceiling + Ceiling
    BY <2>1, Product
  <2> QED
    BY <2>1, <2>2, <2>3
<1> QED
  BY <1>2, <1>3

(* A requeue that begins adds a level, and a ceiling to each bound.        *)
LEMMA BoundGrows ==
  ASSUME NEW B \in SUBSET (1..MaxHellos), NEW h \in 1..MaxHellos, h \notin B,
         NEW D, D = B \cup {h}
  PROVE  /\ D \in SUBSET (1..MaxHellos)
         /\ Bound(B, 0) <= Bound(D, 0)
         /\ \A k \in Levels(D) \ {0} : k - 1 \in Levels(B) /\ Bound(D, k) = Bound(B, k - 1)
         /\ 0 \in Levels(B)
<1>1. Cardinality(B) \in Nat /\ IsFiniteSet(B)
  BY BoundIs
<1>2. Cardinality(D) = Cardinality(B) + 1
  BY <1>1, FS_AddElement
<1>3. ASSUME NEW k \in Levels(D) \ {0}
      PROVE  k - 1 \in Levels(B) /\ Bound(D, k) = Bound(B, k - 1)
  <2>1. k - 1 \in Levels(B) /\ Cardinality(D) + 2 - k = Cardinality(B) + 2 - (k - 1)
    BY <1>1, <1>2 DEF Levels
  <2> QED
    BY <2>1 DEF Bound
<1>4. Bound(B, 0) <= Bound(D, 0)
  <2> DEFINE m == Cardinality(B) + 2
  <2>1. m \in Nat /\ m + 1 \in Nat /\ Bound(B, 0) = m * Ceiling /\ Bound(D, 0) = (m + 1) * Ceiling
    BY <1>1, <1>2 DEF Bound
  <2> HIDE DEF m
  <2> QED
    BY <2>1, Product
<1>5. 0 \in Levels(B) /\ D \in SUBSET (1..MaxHellos)
  BY <1>1 DEF Levels
<1> QED
  BY <1>3, <1>4, <1>5

LEMMA ReturnsIs ==
  ASSUME NEW B \in SUBSET (1..MaxHellos), NEW c
  PROVE  /\ IsFiniteSet(Again(c, B)) /\ Again(c, B) \subseteq B
         /\ Returns(c, B) \in Nat /\ Returns(c, B) <= Cardinality(B)
         /\ Level(c, B) \in {Returns(c, B), Returns(c, B) + 1}
         /\ Level(c, B) = Returns(c, B) + 1 <=> status[c] = "queued"
<1>1. Again(c, B) \subseteq B
  BY DEF Again
<1>2. IsFiniteSet(Again(c, B)) /\ Returns(c, B) \in Nat /\ Returns(c, B) <= Cardinality(B)
  BY <1>1, BoundIs, FS_Subset, FS_CardinalityType DEF Returns
<1> QED
  BY <1>1, <1>2 DEF Level

LEMMA LevelsAre ==
  ASSUME NEW B \in SUBSET (1..MaxHellos)
  PROVE  /\ \A c \in Commands : Returns(c, B) \in Nat /\ Level(c, B) \in Nat
         /\ \A c \in Commands : Returns(c, B)' \in Nat /\ Level(c, B)' \in Nat
<1>1. ASSUME NEW c \in Commands
      PROVE  Returns(c, B) \in Nat /\ Level(c, B) \in Nat
  <2>1. Returns(c, B) \in Nat
    BY ReturnsIs
  <2> QED
    BY <2>1 DEF Level
<1>2. ASSUME NEW c \in Commands
      PROVE  Returns(c, B)' \in Nat /\ Level(c, B)' \in Nat
  <2>1. Again(c, B)' \subseteq B
    BY DEF Again
  <2>2. Returns(c, B)' \in Nat
    BY <2>1, BoundIs, FS_Subset, FS_CardinalityType DEF Returns
  <2> QED
    BY <2>2 DEF Level
<1> QED
  BY <1>1, <1>2

(* No command returns more often than there are requeues.                  *)
LEMMA NeverMore ==
  ASSUME NEW F \in SUBSET Commands, NEW B \in SUBSET (1..MaxHellos),
         NEW k \in Nat, ~(k <= Cardinality(B))
  PROVE  Returning(F, B, k) = {}
<1> SUFFICES ASSUME NEW c \in Commands
             PROVE  ~(Returns(c, B) >= k)
  BY DEF Returning, Live
<1>1. Returns(c, B) \in Nat /\ Returns(c, B) <= Cardinality(B) /\ Cardinality(B) \in Nat
  BY ReturnsIs, BoundIs
<1> QED
  BY <1>1

(* A command that is not put back, or is by a requeue that has begun, is   *)
(* as often to be listed as before, or less.                               *)
LEMMA Falls ==
  ASSUME NEW B \in SUBSET (1..MaxHellos), NEW c,
         \A h \in B : c \in withheld'[h] => c \in withheld[h],
         status'[c] = "queued" =>
           status[c] = "queued" \/ \E h \in B : c \in withheld[h] /\ c \notin withheld'[h]
  PROVE  Returns(c, B)' <= Returns(c, B) /\ Level(c, B)' <= Level(c, B)
<1>1. /\ IsFiniteSet(Again(c, B)) /\ Returns(c, B) \in Nat
      /\ Again(c, B)' \subseteq Again(c, B)
  <2>1. Again(c, B)' \subseteq Again(c, B)
    BY DEF Again
  <2> QED
    BY <2>1, ReturnsIs
<1>2. /\ IsFiniteSet(Again(c, B)') /\ Returns(c, B)' \in Nat
      /\ Returns(c, B)' <= Returns(c, B)
  BY <1>1, FS_Subset, FS_CardinalityType DEF Returns
<1>3. CASE status'[c] = "queued" => status[c] = "queued"
  BY <1>1, <1>2, <1>3 DEF Level
<1>4. CASE ~(status'[c] = "queued" => status[c] = "queued")
  <2>1. PICK h \in B : c \in withheld[h] /\ c \notin withheld'[h]
    BY <1>4
  <2>2. h \in Again(c, B) /\ Again(c, B)' \subseteq Again(c, B) \ {h}
    BY <1>1, <2>1 DEF Again
  <2>3. IsFiniteSet(Again(c, B) \ {h}) /\ Cardinality(Again(c, B) \ {h}) = Returns(c, B) - 1
    BY <1>1, <2>2, FS_RemoveElement DEF Returns
  <2>4. Returns(c, B)' <= Returns(c, B) - 1
    BY <2>2, <2>3, FS_Subset DEF Returns
  <2> QED
    BY <1>1, <1>2, <2>4 DEF Level
<1> QED
  BY <1>3, <1>4

(* When a requeue begins, each of what it withheld is to be listed once    *)
(* more: what the first chunk puts back, at once.                          *)
LEMMA Rises ==
  ASSUME NEW B \in SUBSET (1..MaxHellos), NEW h \in 1..MaxHellos, h \notin B,
         NEW D, D = B \cup {h}, NEW c,
         \A g \in B : withheld'[g] = withheld[g],
         status'[c] = "queued" => status[c] = "queued" \/ c \notin withheld'[h]
  PROVE  Returns(c, D)' <= Returns(c, B) + 1 /\ Level(c, D)' <= Level(c, B) + 1
<1>1. /\ IsFiniteSet(Again(c, B)) /\ Returns(c, B) \in Nat /\ h \notin Again(c, B)
      /\ \/ Again(c, D)' = Again(c, B) \cup {h}
         \/ c \notin withheld'[h] /\ Again(c, D)' = Again(c, B)
  <2>1. h \notin Again(c, B)
    BY DEF Again
  <2>2. \/ Again(c, D)' = Again(c, B) \cup {h}
        \/ c \notin withheld'[h] /\ Again(c, D)' = Again(c, B)
    BY DEF Again
  <2> QED
    BY <2>1, <2>2, ReturnsIs
<1>2. Cardinality(Again(c, B) \cup {h}) = Returns(c, B) + 1
  BY <1>1, FS_AddElement DEF Returns
<1>3. \/ Returns(c, D)' = Returns(c, B) + 1
      \/ c \notin withheld'[h] /\ Returns(c, D)' = Returns(c, B)
  BY <1>1, <1>2 DEF Returns
<1>4. CASE Returns(c, D)' = Returns(c, B) + 1 /\ c \in withheld'[h]
  BY <1>1, <1>4 DEF Level
<1>5. CASE c \notin withheld'[h]
  <2>1. Again(c, D)' = Again(c, B)
    BY <1>5 DEF Again
  <2>2. Returns(c, D)' = Returns(c, B)
    BY <2>1 DEF Returns
  <2> QED
    BY <1>1, <2>2 DEF Level
<1> QED
  BY <1>3, <1>4, <1>5

(* A step that hands out nothing and adds to no level leaves room: answers *)
(* and ends, and the later chunks of a requeue.                            *)
LEMMA Shrinks ==
  ASSUME NEW F \in SUBSET Commands, NEW B \in SUBSET (1..MaxHellos), hellos' = hellos,
         handed' \cup posted' \subseteq handed \cup posted,
         \A c \in Commands : status[c] = "ended" => status'[c] = "ended",
         \A c \in Commands : Returns(c, B)' <= Returns(c, B) /\ Level(c, B)' <= Level(c, B),
         Fits(F, B) => \A c \in Commands \ F : status'[c] = status[c]
  PROVE  /\ Fits(F, B) => Fits(F, B)'
         /\ \A n \in Nat : ReadFits(F, B, n) => ReadFits(F, B, n)'
<1>1. Live(F)' \subseteq Live(F) /\ Live(F) \in SUBSET Commands
  BY DEF Live
<1>2. \A c \in Commands :
        /\ Returns(c, B) \in Nat /\ Level(c, B) \in Nat
        /\ Returns(c, B)' \in Nat /\ Level(c, B)' \in Nat
  BY LevelsAre
<1>3. ASSUME NEW k \in Levels(B)
      PROVE  /\ Cardinality(Waiting(F, B, k)') <= Cardinality(Waiting(F, B, k))
             /\ Cardinality(Returning(F, B, k)') <= Cardinality(Returning(F, B, k))
             /\ Cardinality(Waiting(F, B, k)) \in Nat /\ Cardinality(Waiting(F, B, k)') \in Nat
             /\ Cardinality(Returning(F, B, k)) \in Nat /\ Cardinality(Returning(F, B, k)') \in Nat
  <2>1. k \in Nat
    BY BoundIs
  <2>a. \A c \in Commands :
          /\ Returns(c, B)' >= k => Returns(c, B) >= k
          /\ Level(c, B)' >= k => Level(c, B) >= k
    BY <1>2, <2>1
  <2>2. Waiting(F, B, k)' \subseteq Waiting(F, B, k) /\ Waiting(F, B, k) \in SUBSET Commands
    BY <1>1, <2>a DEF Waiting
  <2>3. Returning(F, B, k)' \subseteq Returning(F, B, k) /\ Returning(F, B, k) \in SUBSET Commands
    BY <1>1, <2>a DEF Returning
  <2> QED
    BY <2>2, <2>3, Sizes
<1>4. Cardinality(Live(F)') <= Cardinality(Live(F))
      /\ Cardinality(Live(F)') \in Nat /\ Cardinality(Live(F)) \in Nat
  BY <1>1, Sizes
<1>5. 0 \in Levels(B) /\ \A k \in Levels(B) : Bound(B, k) \in Nat
  <2>1. Cardinality(B) \in Nat
    BY BoundIs
  <2>2. 0 \in Levels(B)
    BY <2>1 DEF Levels
  <2> QED
    BY <2>2, BoundIs
<1>6. ASSUME NEW n \in Nat, ReadFits(F, B, n)
      PROVE  ReadFits(F, B, n)'
  <2>1. n \in 1..Ceiling /\ \A k \in Levels(B) : Cardinality(Returning(F, B, k)) + n <= Bound(B, k)
    BY <1>6 DEF ReadFits
  <2>2. \A k \in Levels(B) : Cardinality(Returning(F, B, k)') + n <= Bound(B, k)
    BY <1>3, <1>5, <2>1
  <2> QED
    BY <2>1, <2>2 DEF ReadFits, Levels, Bound
<1>7. ASSUME Fits(F, B)
      PROVE  Fits(F, B)'
  <2>1. \A k \in Levels(B) : Cardinality(Waiting(F, B, k)') <= Bound(B, k)
    <3>1. \A k \in Levels(B) : Cardinality(Waiting(F, B, k)) <= Bound(B, k)
      BY <1>7 DEF Fits
    <3> QED
      BY <1>3, <1>5, <3>1
  <2>2. Cardinality(Live(F)') <= Bound(B, 0)
    <3>1. Cardinality(Live(F)) <= Bound(B, 0)
      BY <1>7 DEF Fits
    <3>2. Bound(B, 0) \in Nat
      BY <1>5
    <3> QED
      BY <1>4, <3>1, <3>2
  <2>3. /\ B \subseteq 1..hellos' /\ OldestFirst(F)
        /\ handed' \cup posted' \subseteq F
        /\ \A c \in Commands \ F : status'[c] = "queued"
        /\ Cardinality(F \cap Legacy) <= Ceiling
    BY <1>7 DEF Fits
  <2> QED
    BY <2>1, <2>2, <2>3 DEF Fits, OldestFirst, Levels, Bound
<1> QED
  BY <1>6, <1>7

(* A requeue that begins: what may be dispatched k times more could be     *)
(* k - 1 times before, so each level fits where the one below it did.      *)
LEMMA Begins ==
  ASSUME NEW F \in SUBSET Commands, NEW B \in SUBSET (1..MaxHellos),
         NEW h \in 1..MaxHellos, h \notin B, NEW D, D = B \cup {h}, h <= hellos,
         UNCHANGED <<handed, posted, hellos>>,
         \A c \in Commands : status[c] = "ended" => status'[c] = "ended",
         \A c \in Commands : Returns(c, D)' <= Returns(c, B) + 1 /\ Level(c, D)' <= Level(c, B) + 1,
         \A c \in Commands : status[c] = "queued" => status'[c] = "queued"
  PROVE  /\ Fits(F, B) => Fits(F, D)'
         /\ \A n \in Nat : ReadFits(F, B, n) => ReadFits(F, D, n)'
<1>1. Live(F)' \subseteq Live(F) /\ Live(F) \in SUBSET Commands
  BY DEF Live
<1>2. /\ D \in SUBSET (1..MaxHellos) /\ Bound(B, 0) <= Bound(D, 0) /\ 0 \in Levels(B)
      /\ \A k \in Levels(D) \ {0} : k - 1 \in Levels(B) /\ Bound(D, k) = Bound(B, k - 1)
  <2>1. D \in SUBSET (1..MaxHellos) /\ Bound(B, 0) <= Bound(D, 0) /\ 0 \in Levels(B)
    BY BoundGrows
  <2>2. \A k \in Levels(D) \ {0} : k - 1 \in Levels(B) /\ Bound(D, k) = Bound(B, k - 1)
    BY BoundGrows
  <2> QED
    BY <2>1, <2>2
<1>3. \A c \in Commands :
        /\ Returns(c, B) \in Nat /\ Level(c, B) \in Nat
        /\ Returns(c, D)' \in Nat /\ Level(c, D)' \in Nat
  BY <1>2, LevelsAre
<1>4. /\ \A k \in Levels(B) : k \in Nat /\ Bound(B, k) \in Nat
      /\ \A k \in Levels(D) : k \in Nat /\ Bound(D, k) \in Nat
  BY <1>2, BoundIs
<1>5. ASSUME NEW k \in Levels(D)
      PROVE  \E j \in Levels(B) :
               /\ Bound(B, j) <= Bound(D, k)
               /\ Cardinality(Waiting(F, D, k)') <= Cardinality(Waiting(F, B, j))
               /\ Cardinality(Returning(F, D, k)') <= Cardinality(Returning(F, B, j))
               /\ Cardinality(Waiting(F, B, j)) \in Nat /\ Cardinality(Waiting(F, D, k)') \in Nat
               /\ Cardinality(Returning(F, B, j)) \in Nat /\ Cardinality(Returning(F, D, k)') \in Nat
  <2>1. PICK j \in Levels(B) : Bound(B, j) <= Bound(D, k) /\ (j = k - 1 \/ (j = 0 /\ k = 0))
    <3>1. CASE k = 0
      BY <1>2, <3>1
    <3>2. CASE k # 0
      <4>1. k - 1 \in Levels(B) /\ Bound(D, k) = Bound(B, k - 1) /\ Bound(D, k) \in Nat
        BY <1>2, <1>4, <3>2
      <4> QED
        BY <4>1
    <3> QED
      BY <3>1, <3>2
  <2>2. k \in Nat /\ j \in Nat
    BY <1>4
  <2>a. \A c \in Commands :
          /\ Returns(c, D)' >= k => Returns(c, B) >= j
          /\ Level(c, D)' >= k => Level(c, B) >= j
    BY <1>3, <2>1, <2>2
  <2>3. Waiting(F, D, k)' \subseteq Waiting(F, B, j) /\ Waiting(F, B, j) \in SUBSET Commands
    BY <1>1, <2>a DEF Waiting
  <2>4. Returning(F, D, k)' \subseteq Returning(F, B, j) /\ Returning(F, B, j) \in SUBSET Commands
    BY <1>1, <2>a DEF Returning
  <2> QED
    BY <2>1, <2>3, <2>4, Sizes
<1>6. Cardinality(Live(F)') <= Cardinality(Live(F))
      /\ Cardinality(Live(F)') \in Nat /\ Cardinality(Live(F)) \in Nat
  BY <1>1, Sizes
<1>7. ASSUME NEW n \in Nat, ReadFits(F, B, n)
      PROVE  ReadFits(F, D, n)'
  <2>1. n \in 1..Ceiling /\ \A k \in Levels(B) : Cardinality(Returning(F, B, k)) + n <= Bound(B, k)
    BY <1>7 DEF ReadFits
  <2>2. \A k \in Levels(D) : Cardinality(Returning(F, D, k)') + n <= Bound(D, k)
    <3> SUFFICES ASSUME NEW k \in Levels(D)
                 PROVE  Cardinality(Returning(F, D, k)') + n <= Bound(D, k)
      OBVIOUS
    <3>1. PICK j \in Levels(B) :
            /\ Bound(B, j) <= Bound(D, k)
            /\ Cardinality(Returning(F, D, k)') <= Cardinality(Returning(F, B, j))
            /\ Cardinality(Returning(F, B, j)) \in Nat /\ Cardinality(Returning(F, D, k)') \in Nat
      BY <1>5
    <3>2. Cardinality(Returning(F, B, j)) + n <= Bound(B, j)
          /\ Bound(B, j) \in Nat /\ Bound(D, k) \in Nat
      BY <1>4, <2>1
    <3> QED
      BY <3>1, <3>2
  <2> QED
    BY <2>1, <2>2 DEF ReadFits, Levels, Bound
<1>8. ASSUME Fits(F, B)
      PROVE  Fits(F, D)'
  <2>1. \A k \in Levels(D) : Cardinality(Waiting(F, D, k)') <= Bound(D, k)
    <3> SUFFICES ASSUME NEW k \in Levels(D)
                 PROVE  Cardinality(Waiting(F, D, k)') <= Bound(D, k)
      OBVIOUS
    <3>1. PICK j \in Levels(B) :
            /\ Bound(B, j) <= Bound(D, k)
            /\ Cardinality(Waiting(F, D, k)') <= Cardinality(Waiting(F, B, j))
            /\ Cardinality(Waiting(F, B, j)) \in Nat /\ Cardinality(Waiting(F, D, k)') \in Nat
      BY <1>5
    <3>2. Cardinality(Waiting(F, B, j)) <= Bound(B, j)
          /\ Bound(B, j) \in Nat /\ Bound(D, k) \in Nat
      BY <1>4, <1>8 DEF Fits
    <3> QED
      BY <3>1, <3>2
  <2>2. Cardinality(Live(F)') <= Bound(D, 0)
    <3>1. Cardinality(Live(F)) <= Bound(B, 0)
      BY <1>8 DEF Fits
    <3>2. Bound(B, 0) \in Nat /\ Bound(D, 0) \in Nat
      <4>1. 0 \in Levels(D)
        BY <1>2, BoundIs DEF Levels
      <4> QED
        BY <1>2, <1>4, <4>1
    <3> QED
      BY <1>2, <1>6, <3>1, <3>2
  <2>3. D \subseteq 1..hellos'
    <3>1. B \subseteq 1..hellos
      BY <1>8 DEF Fits
    <3> QED
      BY <3>1
  <2>4. /\ OldestFirst(F)
        /\ handed' \cup posted' \subseteq F
        /\ \A c \in Commands \ F : status'[c] = "queued"
        /\ Cardinality(F \cap Legacy) <= Ceiling
    BY <1>8 DEF Fits
  <2> QED
    BY <2>1, <2>2, <2>3, <2>4 DEF Fits, OldestFirst, Levels, Bound
<1> QED
  BY <1>7, <1>8

(* A step of the rows: what the drains hold still fits.                    *)
LEMMA Carries ==
  ASSUME TypeOK, UNCHANGED <<target, drain>>,
         NEW E \in SUBSET Commands, NEW G \in SUBSET Commands,
         NEW B \in SUBSET (1..MaxHellos), NEW D \in SUBSET (1..MaxHellos), ReadsFit(E, B),
         \A F \in SUBSET Commands : Fits(E \cup F, B) => Fits(G \cup F, D)',
         \A n \in Nat : ReadFits(E, B, n) => ReadFits(G, D, n)'
  PROVE  ReadsFit(G, D)'
<1> SUFFICES ASSUME NEW d \in Holders, drain[d].heldUntil = lease
             PROVE  /\ drain[d].step = "list" => ReadFits(G, D, drain[d].free)'
                    /\ drain[d].step = "renew" => Fits(G \cup drain[d].batch, D)'
  BY DEF ReadsFit, Holders, target
<1>1. ASSUME drain[d].step = "list"
      PROVE  ReadFits(G, D, drain[d].free)'
  <2>1. PICK n \in Nat : n = drain[d].free
    BY <1>1, DrainShape DEF Holders
  <2>2. ReadFits(E, B, n)
    BY <1>1, <2>1 DEF ReadsFit
  <2>3. ReadFits(G, D, n)' /\ n = drain'[d].free
    BY <2>1, <2>2
  <2> QED
    BY <2>3 DEF ReadFits
<1>2. ASSUME drain[d].step = "renew"
      PROVE  Fits(G \cup drain[d].batch, D)'
  <2>1. PICK A \in SUBSET Commands : A = drain[d].batch
    BY <1>2, DrainShape DEF Holders
  <2>2. Fits(E \cup A, B)
    BY <1>2, <2>1 DEF ReadsFit
  <2>3. Fits(G \cup A, D)' /\ A = drain'[d].batch
    BY <2>1, <2>2
  <2> QED
    BY <2>3 DEF Fits, Live, Waiting, OldestFirst
<1> QED
  BY <1>1, <1>2

(* What a reconnect hands out fits, whatever drains have handed out: where *)
(* it adds anything it has every command of E that is pending.             *)
LEMMA HelloAdds ==
  ASSUME TypeOK, TypeOK', RowsOk, HandleHello,
         NEW H, H = Oldest(Ceiling, Pending),
         NEW F \in SUBSET Commands, NEW B \in SUBSET (1..MaxHellos),
         NEW G, G = F \cup H
  PROVE  /\ Fits(F, B) => Fits(G, B)'
         /\ Fits(F, B) => \A n \in Nat : ReadFits(F, B, n) => ReadFits(G, B, n)'
<1>1. /\ H \in SUBSET Pending /\ Cardinality(H) <= Ceiling
      /\ \A x \in H, y \in Pending : y < x => y \in H
      /\ Pending \in SUBSET Commands
  <2>1. Pending \in SUBSET Commands /\ Ceiling \in Nat
    BY DrainAssumption DEF Pending, InStatus
  <2> QED
    BY <2>1, OldestIs
<1>2. Pending = {c \in Commands \ Legacy : status[c] # "ended"}
  BY DEF Pending, InStatus, TypeOK
<1>3. /\ handed' = handed \cup H
      /\ UNCHANGED <<status, posted>>
      /\ hellos \in Nat /\ hellos' = hellos + 1
      /\ \A h \in 1..MaxHellos : h # hellos + 1 => withheld'[h] = withheld[h]
  BY DrainAssumption DEF HandleHello, TypeOK
<1>4. /\ H \in SUBSET Commands /\ H \cap Legacy = {} /\ G \in SUBSET Commands
      /\ G \cap Legacy = F \cap Legacy /\ F \cap Legacy \in SUBSET Commands
  BY <1>1, <1>2
<1> SUFFICES ASSUME Fits(F, B)
             PROVE  /\ Fits(G, B)'
                    /\ \A n \in Nat : ReadFits(F, B, n) => ReadFits(G, B, n)'
  OBVIOUS
<1>5. /\ OldestFirst(F) /\ B \subseteq 1..hellos /\ handed \cup posted \subseteq F
      /\ \A c \in Commands \ F : status[c] = "queued"
      /\ Cardinality(F \cap Legacy) <= Ceiling
  BY DEF Fits
<1>6. OldestFirst(G)
  <2> SUFFICES ASSUME NEW x \in G, NEW y \in Commands, y < x, y \notin Legacy \/ x \in Legacy,
                      y \notin F
               PROVE  y \in G
    BY DEF OldestFirst
  <2>1. x \notin F
    BY <1>5 DEF OldestFirst
  <2>2. x \in H /\ y \in Pending
    BY <1>2, <1>4, <1>5, <2>1
  <2> QED
    BY <1>1, <2>2
<1>7. /\ handed' \cup posted' \subseteq G
      /\ \A c \in Commands \ G : status'[c] = "queued"
      /\ B \subseteq 1..hellos'
      /\ Cardinality(G \cap Legacy) <= Ceiling
  <2>1. Cardinality(G \cap Legacy) <= Ceiling
    BY <1>4, <1>5, Zenon
  <2>2. handed' \cup posted' \subseteq G /\ \A c \in Commands \ G : status'[c] = "queued"
    BY <1>3, <1>5
  <2>3. B \subseteq 1..hellos'
    BY <1>3, <1>5
  <2> QED
    BY <2>1, <2>2, <2>3
<1>8. \A c \in Commands : Returns(c, B)' = Returns(c, B) /\ Level(c, B)' = Level(c, B)
  <2> SUFFICES ASSUME NEW c \in Commands
               PROVE  Returns(c, B)' = Returns(c, B) /\ Level(c, B)' = Level(c, B)
    OBVIOUS
  <2>1. \A h \in B : withheld'[h] = withheld[h]
    BY <1>3, <1>5
  <2>2. Again(c, B)' = Again(c, B)
    BY <2>1 DEF Again
  <2>3. Returns(c, B)' = Returns(c, B)
    BY <2>2 DEF Returns
  <2> QED
    BY <1>3, <2>3 DEF Level
<1>9. Live(G)' = Live(G) /\ Live(G) \in SUBSET Commands
  BY <1>3, <1>4 DEF Live
<1>10. \A k : /\ Waiting(G, B, k)' = Waiting(G, B, k) /\ Waiting(G, B, k) \in SUBSET Commands
              /\ Returning(G, B, k)' = Returning(G, B, k) /\ Returning(G, B, k) \in SUBSET Commands
  <2> SUFFICES ASSUME NEW k
               PROVE  /\ Waiting(G, B, k)' = Waiting(G, B, k) /\ Waiting(G, B, k) \in SUBSET Commands
                      /\ Returning(G, B, k)' = Returning(G, B, k)
                      /\ Returning(G, B, k) \in SUBSET Commands
    OBVIOUS
  <2>1. Waiting(G, B, k)' = Waiting(G, B, k) /\ Waiting(G, B, k) \in SUBSET Commands
    BY <1>8, <1>9 DEF Waiting
  <2>2. Returning(G, B, k)' = Returning(G, B, k) /\ Returning(G, B, k) \in SUBSET Commands
    BY <1>8, <1>9 DEF Returning
  <2> QED
    BY <2>1, <2>2
<1>11. CASE H \subseteq F
  <2>1. G = F
    BY <1>11
  <2>2. /\ Cardinality(Live(G)') <= Bound(B, 0)
        /\ \A k \in Levels(B) : Cardinality(Waiting(G, B, k)') <= Bound(B, k)
    BY <1>9, <1>10, <2>1 DEF Fits
  <2>3. Fits(G, B)'
    BY <1>6, <1>7, <2>2 DEF Fits, OldestFirst, Levels, Bound
  <2>4. ASSUME NEW n \in Nat, ReadFits(F, B, n)
        PROVE  ReadFits(G, B, n)'
    <3>1. /\ n \in 1..Ceiling
          /\ \A k \in Levels(B) : Cardinality(Returning(G, B, k)') + n <= Bound(B, k)
      BY <1>10, <2>1, <2>4 DEF ReadFits
    <3> QED
      BY <3>1 DEF ReadFits, Levels, Bound
  <2> QED
    BY <2>3, <2>4
<1>12. CASE ~(H \subseteq F)
  <2>1. PICK y \in H : y \notin F
    BY <1>12
  <2>2. \A x \in F : x \in Pending => x \in H
    <3> SUFFICES ASSUME NEW x \in F, x \in Pending
                 PROVE  x \in H
      OBVIOUS
    <3>1. ~(y < x)
      BY <1>1, <1>2, <1>5, <2>1 DEF OldestFirst
    <3>2. x \in Int /\ y \in Int /\ x # y
      BY <1>1, <2>1 DEF Commands
    <3> QED
      BY <1>1, <3>1, <3>2
  <2>3. Live(G) \subseteq H \cup (F \cap Legacy) /\ Live(G) \ Legacy \subseteq H
    BY <1>1, <1>2, <1>4, <2>2 DEF Live
  <2>4. Cardinality(H) \in Nat /\ Cardinality(H) <= Ceiling /\ Ceiling \in Nat
    BY <1>1, <1>4, Sizes, DrainAssumption
  <2>5. ASSUME NEW k \in Levels(B)
        PROVE  Cardinality(Waiting(G, B, k)') <= Bound(B, k)
    <3>1. Waiting(G, B, k) \subseteq H
      BY <2>3 DEF Waiting
    <3>2. Cardinality(Waiting(G, B, k)) <= Cardinality(H) /\ Cardinality(Waiting(G, B, k)) \in Nat
      BY <1>4, <1>10, <3>1, Sizes
    <3>3. Bound(B, k) \in Nat /\ Ceiling <= Bound(B, k)
      BY BoundIs
    <3>4. Cardinality(Waiting(G, B, k)) <= Bound(B, k)
      BY <2>4, <3>2, <3>3
    <3> QED
      BY <1>10, <3>4
  <2>6. Cardinality(Live(G)') <= Bound(B, 0)
    <3>1. H \cup (F \cap Legacy) \in SUBSET Commands
      BY <1>4
    <3>2. /\ Cardinality(Live(G)) <= Cardinality(H \cup (F \cap Legacy))
          /\ Cardinality(H \cup (F \cap Legacy)) \in Nat /\ Cardinality(Live(G)) \in Nat
      BY <1>9, <2>3, <3>1, Sizes
    <3>3. /\ Cardinality(H \cup (F \cap Legacy)) <= Cardinality(H) + Cardinality(F \cap Legacy)
          /\ Cardinality(F \cap Legacy) \in Nat
      BY <1>4, Sizes
    <3>4. Ceiling + Ceiling <= Bound(B, 0) /\ Bound(B, 0) \in Nat
      <4>1. Cardinality(B) \in Nat
        BY BoundIs
      <4>2. 0 \in Levels(B) /\ 0 <= Cardinality(B)
        BY <4>1 DEF Levels
      <4>3. 0 + 1 \in Levels(B) /\ Bound(B, 0) = Bound(B, 0 + 1) + Ceiling /\ Bound(B, 0) \in Nat
        BY <4>2, BoundIs
      <4>4. Ceiling <= Bound(B, 0 + 1) /\ Bound(B, 0 + 1) \in Nat
        BY <4>3, BoundIs
      <4> QED
        BY <2>4, <4>3, <4>4
    <3>5. Cardinality(Live(G)) <= Bound(B, 0)
      BY <1>5, <2>4, <3>2, <3>3, <3>4
    <3> QED
      BY <1>9, <3>5
  <2>7. Fits(G, B)'
    BY <1>6, <1>7, <2>5, <2>6 DEF Fits, OldestFirst, Levels, Bound
  <2>8. ASSUME NEW n \in Nat, ReadFits(F, B, n)
        PROVE  ReadFits(G, B, n)'
    <3>1. n \in 1..Ceiling
      BY <2>8 DEF ReadFits
    <3>2. ASSUME NEW k \in Levels(B)
          PROVE  Cardinality(Returning(G, B, k)') + n <= Bound(B, k)
      <4>1. /\ Cardinality(B) \in Nat /\ k \in Nat /\ k <= Cardinality(B) + 1
            /\ Bound(B, k) \in Nat /\ Ceiling <= Bound(B, k)
        BY BoundIs DEF Levels
      <4>2. CASE k <= Cardinality(B)
        <5>1. Returning(G, B, k) \subseteq H
          BY <2>3 DEF Returning
        <5>2. /\ Cardinality(Returning(G, B, k)) <= Cardinality(H)
              /\ Cardinality(Returning(G, B, k)) \in Nat
          BY <1>4, <1>10, <5>1, Sizes
        <5>3. k + 1 \in Levels(B) /\ Bound(B, k) = Bound(B, k + 1) + Ceiling
          BY <4>2, BoundIs
        <5>4. Ceiling <= Bound(B, k + 1) /\ Bound(B, k + 1) \in Nat
          BY <5>3, BoundIs
        <5>5. Cardinality(Returning(G, B, k)) + n <= Bound(B, k)
          BY <2>4, <3>1, <4>1, <5>2, <5>3, <5>4
        <5> QED
          BY <1>10, <5>5
      <4>3. CASE ~(k <= Cardinality(B))
        <5>1. Returning(G, B, k) = {}
          BY <1>4, <4>1, <4>3, NeverMore
        <5>2. Cardinality(Returning(G, B, k)) = 0
          BY <5>1, FS_EmptySet
        <5>3. Cardinality(Returning(G, B, k)) + n <= Bound(B, k)
          BY <2>4, <3>1, <4>1, <5>2
        <5> QED
          BY <1>10, <5>3
      <4> QED
        BY <4>2, <4>3
    <3> QED
      BY <3>1, <3>2 DEF ReadFits, Levels, Bound
  <2> QED
    BY <2>7, <2>8
<1> QED
  BY <1>11, <1>12

(* The free slots a drain has counted: what returns and is queued is one   *)
(* level up, where a ceiling less fits, and what is not runs.              *)
LEMMA CountFits ==
  ASSUME TypeOK, NEW E \in SUBSET Commands, NEW B \in SUBSET (1..MaxHellos), Fits(E, B),
         NEW n \in Nat \ {0}, n = Ceiling - Cardinality(InStatus("inFlight"))
  PROVE  ReadFits(E, B, n)
<1> DEFINE flight == InStatus("inFlight")
<1>1. flight \in SUBSET Commands /\ Cardinality(flight) \in Nat /\ Ceiling \in Nat \ {0}
  <2>1. flight \in SUBSET Commands
    BY DEF InStatus
  <2> QED
    BY <2>1, Sizes, DrainAssumption
<1>2. \A c \in Commands : status[c] \in {"queued", "ended"} \/ c \in flight
  BY DEF InStatus, TypeOK
<1>3. n = Ceiling - Cardinality(flight)
  OBVIOUS
<1> HIDE DEF flight
<1>4. n \in 1..Ceiling
  BY <1>1, <1>3
<1>5. ASSUME NEW k \in Levels(B)
      PROVE  Cardinality(Returning(E, B, k)) + n <= Bound(B, k)
  <2>1. /\ Cardinality(B) \in Nat /\ k \in Nat
        /\ Bound(B, k) \in Nat /\ Ceiling <= Bound(B, k)
    BY BoundIs
  <2>2. CASE k <= Cardinality(B)
    <3>1. k + 1 \in Levels(B) /\ Bound(B, k) = Bound(B, k + 1) + Ceiling
      BY <2>2, BoundIs
    <3>2. Cardinality(Waiting(E, B, k + 1)) <= Bound(B, k + 1) /\ Bound(B, k + 1) \in Nat
      <4>1. Bound(B, k + 1) \in Nat
        BY <3>1, BoundIs
      <4>2. Cardinality(Waiting(E, B, k + 1)) <= Bound(B, k + 1)
        BY <3>1 DEF Fits
      <4> QED
        BY <4>1, <4>2
    <3>3. Returning(E, B, k) \subseteq flight \cup Waiting(E, B, k + 1)
      <4> SUFFICES ASSUME NEW c \in Live(E) \ Legacy, Returns(c, B) >= k, c \notin flight
                   PROVE  Level(c, B) >= k + 1
        BY DEF Returning, Waiting
      <4>1. c \in Commands /\ status[c] = "queued"
        BY <1>2 DEF Live
      <4>2. Returns(c, B) \in Nat
        BY <4>1, LevelsAre
      <4> QED
        BY <2>1, <4>1, <4>2 DEF Level
    <3>4. /\ Returning(E, B, k) \in SUBSET Commands /\ Waiting(E, B, k + 1) \in SUBSET Commands
          /\ flight \cup Waiting(E, B, k + 1) \in SUBSET Commands
      BY <1>1 DEF Returning, Waiting, Live
    <3>5. /\ Cardinality(Returning(E, B, k)) <= Cardinality(flight \cup Waiting(E, B, k + 1))
          /\ Cardinality(flight \cup Waiting(E, B, k + 1)) \in Nat
          /\ Cardinality(Returning(E, B, k)) \in Nat
      BY <3>3, <3>4, Sizes
    <3>6. /\ Cardinality(flight \cup Waiting(E, B, k + 1))
                <= Cardinality(flight) + Cardinality(Waiting(E, B, k + 1))
          /\ Cardinality(Waiting(E, B, k + 1)) \in Nat
      BY <1>1, <3>4, Sizes
    <3> QED
      BY <1>1, <1>3, <2>1, <3>1, <3>2, <3>5, <3>6
  <2>3. CASE ~(k <= Cardinality(B))
    <3>1. Cardinality(Returning(E, B, k)) = 0
      BY <2>1, <2>3, NeverMore, FS_EmptySet
    <3> QED
      BY <1>1, <1>4, <2>1, <3>1
  <2> QED
    BY <2>2, <2>3
<1> QED
  BY <1>4, <1>5 DEF ReadFits

(* A batch that adds anything has every command of E that still waits and  *)
(* is older; what waits at a level and is not in the batch returns there.  *)
LEMMA BatchFits ==
  ASSUME TypeOK, RowsOk, NEW E \in SUBSET Commands, NEW B \in SUBSET (1..MaxHellos),
         Fits(E, B), NEW n \in Nat, ReadFits(E, B, n),
         NEW A, A = OldestQueued(n), NEW G, G = E \cup A
  PROVE  A \in SUBSET Commands /\ Fits(G, B)
<1> DEFINE queued == InStatus("queued")
<1>1. /\ A \in SUBSET queued /\ Cardinality(A) <= n
      /\ \A x \in A, y \in queued : y < x => y \in A
      /\ queued \in SUBSET Commands
  <2>1. queued \in SUBSET Commands
    BY DEF InStatus
  <2> QED
    BY <2>1, OldestIs DEF OldestQueued
<1>2. \A c \in Commands : c \in queued <=> status[c] = "queued"
  BY DEF InStatus
<1> HIDE DEF queued
<1>3. /\ A \in SUBSET Commands /\ G \in SUBSET Commands /\ A \cap Legacy \in SUBSET Commands
      /\ Live(G) \in SUBSET Commands
  BY <1>1 DEF Live
<1>4. /\ n <= Ceiling /\ Ceiling \in Nat
      /\ \A k \in Levels(B) : Cardinality(Returning(E, B, k)) + n <= Bound(B, k)
  BY DrainAssumption DEF ReadFits
<1>5. /\ OldestFirst(E) /\ B \subseteq 1..hellos /\ handed \cup posted \subseteq E
      /\ \A c \in Commands \ E : status[c] = "queued"
  BY DEF Fits
<1>6. OldestFirst(G)
  <2> SUFFICES ASSUME NEW x \in G, NEW y \in Commands, y < x, y \notin Legacy \/ x \in Legacy,
                      y \notin E
               PROVE  y \in G
    BY DEF OldestFirst
  <2>1. x \notin E
    BY <1>5 DEF OldestFirst
  <2>2. x \in A /\ y \in queued
    BY <1>2, <1>5, <2>1
  <2> QED
    BY <1>1, <2>2
<1>7. handed \cup posted \subseteq G /\ \A c \in Commands \ G : status[c] = "queued"
  BY <1>5
<1>8. CASE A \subseteq E
  <2>1. G = E
    BY <1>8
  <2> QED
    BY <1>3, <2>1
<1>9. CASE ~(A \subseteq E)
  <2>1. PICK y \in A : y \notin E
    BY <1>9
  <2>2. \A z \in A, x \in E : z \notin E /\ x \in queued /\ (x \in Legacy \/ z \notin Legacy) => x \in A
    <3> SUFFICES ASSUME NEW z \in A, z \notin E,
                        NEW x \in E, x \in queued, x \in Legacy \/ z \notin Legacy
                 PROVE  x \in A
      OBVIOUS
    <3>1. ~(z < x)
      BY <1>3, <1>5 DEF OldestFirst
    <3>2. x \in Int /\ z \in Int /\ x # z
      BY <1>3 DEF Commands
    <3> QED
      BY <1>1, <3>1, <3>2
  <2>3. E \cap Legacy \subseteq A
    BY <1>2, <2>1, <2>2 DEF RowsOk
  <2>4. /\ Cardinality(A \cap Legacy) <= Cardinality(A) /\ Cardinality(A) \in Nat
        /\ Cardinality(A \cap Legacy) \in Nat
    BY <1>3, Sizes
  <2>5. Cardinality(G \cap Legacy) <= Ceiling
    <3>1. G \cap Legacy = A \cap Legacy
      BY <2>3
    <3>2. Cardinality(G \cap Legacy) = Cardinality(A \cap Legacy)
      BY <3>1, Zenon
    <3>3. Cardinality(A \cap Legacy) <= Ceiling
      BY <1>1, <1>4, <2>4
    <3> QED
      BY <3>2, <3>3, Zenon
  <2>6. ASSUME NEW S \in SUBSET Commands, NEW k \in Levels(B), S \subseteq Returning(E, B, k) \cup A
        PROVE  Cardinality(S) <= Bound(B, k)
    <3>1. /\ Returning(E, B, k) \in SUBSET Commands
          /\ Returning(E, B, k) \cup A \in SUBSET Commands
      BY <1>3 DEF Returning, Live
    <3>2. /\ Cardinality(S) <= Cardinality(Returning(E, B, k) \cup A)
          /\ Cardinality(S) \in Nat /\ Cardinality(Returning(E, B, k) \cup A) \in Nat
      BY <2>6, <3>1, Sizes
    <3>3. /\ Cardinality(Returning(E, B, k) \cup A) <= Cardinality(Returning(E, B, k)) + Cardinality(A)
          /\ Cardinality(Returning(E, B, k)) \in Nat
      BY <1>3, <3>1, Sizes
    <3>4. Cardinality(Returning(E, B, k)) + n <= Bound(B, k) /\ Bound(B, k) \in Nat
      BY <1>4, BoundIs
    <3> QED
      BY <1>1, <2>4, <3>2, <3>3, <3>4
  <2>7. ASSUME NEW k \in Levels(B)
        PROVE  Cardinality(Waiting(G, B, k)) <= Bound(B, k)
    <3>1. CASE \E z \in A : z \notin E /\ z \notin Legacy
      <4>1. \A x \in E : x \in queued => x \in A
        BY <2>2, <3>1
      <4>2. Waiting(G, B, k) \subseteq Returning(E, B, k) \cup A
        <5> SUFFICES ASSUME NEW c \in Live(G) \ Legacy, Level(c, B) >= k, c \notin A
                     PROVE  c \in Live(E) \ Legacy /\ Returns(c, B) >= k
          BY DEF Returning, Waiting
        <5>1. c \in Live(E) /\ c \in Commands
          BY <1>3 DEF Live
        <5>2. status[c] # "queued"
          BY <1>2, <4>1, <5>1 DEF Live
        <5>3. Level(c, B) = Returns(c, B)
          <6>1. Returns(c, B) \in Nat
            BY <5>1, LevelsAre
          <6> QED
            BY <5>2, <6>1 DEF Level
        <5> QED
          BY <5>1, <5>3
      <4>3. Waiting(G, B, k) \in SUBSET Commands
        BY <1>3 DEF Waiting
      <4> QED
        BY <2>6, <4>2, <4>3
    <3>2. CASE ~\E z \in A : z \notin E /\ z \notin Legacy
      <4>1. Waiting(G, B, k) = Waiting(E, B, k)
        BY <3>2 DEF Waiting, Live
      <4> QED
        BY <4>1 DEF Fits
    <3> QED
      BY <3>1, <3>2
  <2>8. Cardinality(Live(G)) <= Bound(B, 0)
    <3>1. 0 \in Levels(B)
      <4>1. Cardinality(B) \in Nat
        BY BoundIs
      <4> QED
        BY <4>1 DEF Levels
    <3>2. Live(G) \subseteq Returning(E, B, 0) \cup A
      <4> SUFFICES ASSUME NEW c \in Live(E), c \notin A
                   PROVE  c \notin Legacy /\ Returns(c, B) >= 0
        BY DEF Live, Returning
      <4>1. c \in Commands /\ c \notin Legacy
        BY <2>3 DEF Live
      <4>2. Returns(c, B) \in Nat
        BY <4>1, LevelsAre
      <4> QED
        BY <4>1, <4>2
    <3> QED
      BY <1>3, <2>6, <3>1, <3>2
  <2> QED
    BY <1>3, <1>5, <1>6, <1>7, <2>5, <2>7, <2>8 DEF Fits
<1> QED
  BY <1>8, <1>9

(* One chunk of a requeue: what is put back is withheld no more.           *)
LEMMA RequeueIs ==
  ASSUME TypeOK, RowsOk, NEW h \in 1..MaxHellos, RequeueUndeliveredCommands(h)
  PROVE  /\ UNCHANGED <<target, drain, posted, handed, hellos>>
         /\ \A c \in Commands :
              \/ status'[c] = status[c]
              \/ /\ status[c] = "inFlight" /\ status'[c] = "queued"
                 /\ c \in withheld[h] /\ c \notin withheld'[h]
         /\ \A c \in Commands : status[c] = "queued" => status'[c] = "queued"
         /\ \A g \in 1..MaxHellos : withheld'[g] \subseteq withheld[g]
         /\ \A g \in 1..MaxHellos : g # h => withheld'[g] = withheld[g]
         /\ hellos \in Nat /\ h <= hellos
<1>1. PICK chunk \in SUBSET withheld[h] :
        /\ UNCHANGED <<target, drain, posted, handed, hellos>>
        /\ status' = [c \in Commands |->
             IF c \in chunk /\ status[c] = "inFlight" THEN "queued" ELSE status[c]]
        /\ withheld' = [withheld EXCEPT ![h] = @ \ chunk]
        /\ withheld[h] # {}
  BY DEF RequeueUndeliveredCommands, Oldest
<1>2. hellos \in Nat /\ h <= hellos
  BY <1>1, DrainAssumption DEF RowsOk, TypeOK
<1>3. /\ withheld'[h] = withheld[h] \ chunk
      /\ \A g \in 1..MaxHellos : g # h => withheld'[g] = withheld[g]
  BY <1>1 DEF TypeOK
<1>4. \A c \in Commands :
        \/ status'[c] = status[c]
        \/ /\ status[c] = "inFlight" /\ status'[c] = "queued"
           /\ c \in withheld[h] /\ c \notin withheld'[h]
  BY <1>1, <1>3
<1> QED
  BY <1>1, <1>2, <1>3, <1>4

LEMMA SameRows ==
  ASSUME UNCHANGED <<status, handed, withheld, hellos>>, NEW F \in SUBSET Commands,
         NEW B \in SUBSET (1..MaxHellos)
  PROVE  /\ Fits(F, B) /\ posted' \subseteq F => Fits(F, B)'
         /\ \A n \in Nat : ReadFits(F, B, n) => ReadFits(F, B, n)'
<1>1. Live(F)' = Live(F)
  BY DEF Live
<1>2. \A c : Returns(c, B)' = Returns(c, B) /\ Level(c, B)' = Level(c, B)
  BY DEF Returns, Level, Again
<1>3. \A k : Waiting(F, B, k)' = Waiting(F, B, k) /\ Returning(F, B, k)' = Returning(F, B, k)
  BY <1>1, <1>2 DEF Waiting, Returning
<1>4. ASSUME NEW n \in Nat, ReadFits(F, B, n)
      PROVE  ReadFits(F, B, n)'
  <2>1. /\ n \in 1..Ceiling
        /\ \A k \in Levels(B) : Cardinality(Returning(F, B, k)') + n <= Bound(B, k)
    BY <1>3, <1>4 DEF ReadFits
  <2> QED
    BY <2>1 DEF ReadFits, Levels, Bound
<1>5. ASSUME Fits(F, B), posted' \subseteq F
      PROVE  Fits(F, B)'
  <2>1. \A k \in Levels(B) : Cardinality(Waiting(F, B, k)') <= Bound(B, k)
    BY <1>3, <1>5 DEF Fits
  <2>2. /\ B \subseteq 1..hellos' /\ OldestFirst(F)
        /\ handed' \cup posted' \subseteq F
        /\ \A c \in Commands \ F : status'[c] = "queued"
        /\ Cardinality(Live(F)') <= Bound(B, 0)
        /\ Cardinality(F \cap Legacy) <= Ceiling
    BY <1>1, <1>5 DEF Fits
  <2> QED
    BY <2>1, <2>2 DEF Fits, OldestFirst, Levels, Bound
<1> QED
  BY <1>4, <1>5

(* A step of one drain: the reads of the others still fit.                 *)
LEMMA DrainCarries ==
  ASSUME IInv, IInv', UNCHANGED rows,
         NEW E \in SUBSET Commands, NEW B \in SUBSET (1..MaxHellos), Fits(E, B), ReadsFit(E, B),
         NEW d \in Drainers, \A e \in Drainers \ {d} : drain'[e] = drain[e],
         \/ lease' = lease
         \/ lease' = NoLease
         \/ drain'[d] # Idle /\ drain'[d].heldUntil = lease',
         drain'[d].step = "list" /\ drain'[d].heldUntil = lease' => ReadFits(E, B, drain'[d].free),
         drain'[d].step = "renew" /\ drain'[d].heldUntil = lease' => Fits(E \cup drain'[d].batch, B)
  PROVE  ReadsFit(E, B)'
<1> SUFFICES ASSUME NEW e \in Drainers, drain'[e] # Idle, drain'[e].heldUntil = lease'
             PROVE  /\ drain'[e].step = "list" => ReadFits(E, B, drain[e].free)'
                    /\ drain'[e].step = "renew" => Fits(E \cup drain[e].batch, B)'
  BY DEF ReadsFit, Holders
<1>1. /\ drain'[e].heldUntil \in Nat
      /\ drain'[e].step = "list" => drain'[e].free \in Nat
      /\ drain'[e].step = "renew" => drain'[e].batch \in SUBSET Commands
  BY DEF IInv, TypeOK, Idle
<1>2. /\ drain'[e].step = "list" => ReadFits(E, B, drain'[e].free)
      /\ drain'[e].step = "renew" => Fits(E \cup drain'[e].batch, B)
  <2>1. CASE e = d
    BY <2>1
  <2>2. CASE e # d
    <3>1. drain'[e] = drain[e] /\ e \in Holders
      BY <2>2 DEF Holders
    <3>2. lease' = lease
      <4>1. lease' # NoLease
        BY <1>1, DrainAssumption
      <4>2. ~(drain'[d] # Idle /\ drain'[d].heldUntil = lease')
        BY <2>2 DEF IInv, TokensDiffer, Holders
      <4> QED
        BY <4>1, <4>2
    <3> QED
      BY <3>1, <3>2 DEF ReadsFit
  <2> QED
    BY <2>1, <2>2
<1>3. UNCHANGED <<status, handed, posted, withheld, hellos>>
  BY DEF rows
<1>4. ASSUME drain'[e].step = "list"
      PROVE  ReadFits(E, B, drain[e].free)'
  <2>1. PICK n \in Nat : n = drain'[e].free
    BY <1>1, <1>4
  <2>2. ReadFits(E, B, n)'
    BY <1>2, <1>3, <1>4, <2>1, SameRows
  <2> QED
    BY <2>1, <2>2 DEF ReadFits
<1>5. ASSUME drain'[e].step = "renew"
      PROVE  Fits(E \cup drain[e].batch, B)'
  <2>1. PICK A \in SUBSET Commands : A = drain'[e].batch
    BY <1>1, <1>5
  <2>2. Fits(E \cup A, B) /\ posted' \subseteq E \cup A
    BY <1>2, <1>3, <1>5, <2>1 DEF Fits
  <2>3. Fits(E \cup A, B)'
    BY <1>3, <2>2, SameRows
  <2> QED
    BY <2>1, <2>3 DEF Fits, Live, Waiting, OldestFirst
<1> QED
  BY <1>4, <1>5

LEMMA RowsStep ==
  ASSUME TypeOK, TypeOK', RowsOk, [Next]_vars
  PROVE  RowsOk'
<1>1. UNCHANGED <<status, withheld, hellos>> => RowsOk'
  BY DEF RowsOk
<1>2. ASSUME NEW c \in Commands, CommandAnswered(c) \/ CommandEnds(c)
      PROVE  RowsOk'
  <2>1. /\ UNCHANGED <<withheld, hellos>>
        /\ \A l \in Commands : l \in Legacy => status'[l] = status[l]
    BY <1>2 DEF CommandAnswered, CommandEnds, RowsOk, TypeOK
  <2> QED
    BY <2>1, DrainAssumption DEF RowsOk
<1>3. CASE HandleHello
  BY <1>3, DrainAssumption DEF HandleHello, RowsOk, TypeOK
<1>4. ASSUME NEW h \in 1..MaxHellos, RequeueUndeliveredCommands(h)
      PROVE  RowsOk'
  <2>1. /\ hellos' = hellos /\ \A c \in Commands : status[c] = "queued" => status'[c] = "queued"
        /\ \A g \in 1..MaxHellos : withheld'[g] \subseteq withheld[g]
    BY <1>4, RequeueIs
  <2> QED
    BY <2>1, DrainAssumption DEF RowsOk
<1> QED
  BY <1>1, <1>2, <1>3, <1>4
  DEF Next, DrainStep, vars, rows, AcquireCommandDrainLease, CountInFlight, ListQueued,
      RenewCommandDrainLease, DispatchBatchSettled, ReleaseCommandDrainLease, CrashDrain,
      RelayDelivers, RelayLoses, Tick

(* A requeue, its first chunk or a later one.                              *)
LEMMA RequeueKeeps ==
  ASSUME TypeOK, TypeOK', RowsOk, NEW h \in 1..MaxHellos, RequeueUndeliveredCommands(h),
         NEW B \in SUBSET (1..MaxHellos), NEW F \in SUBSET Commands
  PROVE  /\ h \in B => /\ Fits(F, B) => Fits(F, B)'
                       /\ \A n \in Nat : ReadFits(F, B, n) => ReadFits(F, B, n)'
         /\ h \notin B => /\ Fits(F, B) => Fits(F, B \cup {h})'
                          /\ \A n \in Nat : ReadFits(F, B, n) => ReadFits(F, B \cup {h}, n)'
<1>1. /\ UNCHANGED <<posted, handed, hellos>>
      /\ \A c \in Commands :
           \/ status'[c] = status[c]
           \/ /\ status[c] = "inFlight" /\ status'[c] = "queued"
              /\ c \in withheld[h] /\ c \notin withheld'[h]
      /\ \A c \in Commands : status[c] = "queued" => status'[c] = "queued"
      /\ \A g \in 1..MaxHellos : withheld'[g] \subseteq withheld[g]
      /\ \A g \in 1..MaxHellos : g # h => withheld'[g] = withheld[g]
      /\ h <= hellos
  BY RequeueIs
<1>2. \A c \in Commands : status[c] = "ended" => status'[c] = "ended"
  BY <1>1
<1>3. ASSUME h \in B
      PROVE  /\ Fits(F, B) => Fits(F, B)'
             /\ \A n \in Nat : ReadFits(F, B, n) => ReadFits(F, B, n)'
  <2>1. ASSUME NEW c \in Commands
        PROVE  Returns(c, B)' <= Returns(c, B) /\ Level(c, B)' <= Level(c, B)
    <3>1. /\ \A g \in B : c \in withheld'[g] => c \in withheld[g]
          /\ status'[c] = "queued" =>
               status[c] = "queued" \/ \E g \in B : c \in withheld[g] /\ c \notin withheld'[g]
      BY <1>1, <1>3
    <3> QED
      BY <3>1, Falls
  <2>2. Fits(F, B) => \A c \in Commands \ F : status'[c] = status[c]
    BY <1>1 DEF Fits
  <2>3. hellos' = hellos /\ handed' \cup posted' \subseteq handed \cup posted
    BY <1>1
  <2> QED
    BY <1>2, <2>1, <2>2, <2>3, Shrinks
<1>4. ASSUME h \notin B
      PROVE  /\ Fits(F, B) => Fits(F, B \cup {h})'
             /\ \A n \in Nat : ReadFits(F, B, n) => ReadFits(F, B \cup {h}, n)'
  <2>1. PICK D \in SUBSET (1..MaxHellos) : D = B \cup {h}
    OBVIOUS
  <2>2. ASSUME NEW c \in Commands
        PROVE  Returns(c, D)' <= Returns(c, B) + 1 /\ Level(c, D)' <= Level(c, B) + 1
    <3>1. /\ \A g \in B : withheld'[g] = withheld[g]
          /\ status'[c] = "queued" => status[c] = "queued" \/ c \notin withheld'[h]
      BY <1>1, <1>4
    <3> QED
      BY <1>4, <2>1, <3>1, Rises
  <2>3. /\ Fits(F, B) => Fits(F, D)'
        /\ \A n \in Nat : ReadFits(F, B, n) => ReadFits(F, D, n)'
    BY <1>1, <1>2, <1>4, <2>1, <2>2, Begins
  <2> QED
    BY <2>1, <2>3
<1> QED
  BY <1>3, <1>4

(* Every step extends or keeps the set of what was handed out.             *)
LEMMA OvershootStep ==
  ASSUME IInv, OvershootInv, [Next]_vars
  PROVE  OvershootInv'
<1>1. TypeOK /\ TypeOK' /\ IInv' /\ RowsOk
  BY StepKeepsIInv DEF IInv, OvershootInv
<1>2. PICK E \in SUBSET Commands, B \in SUBSET (1..MaxHellos) : Fits(E, B) /\ ReadsFit(E, B)
  BY DEF OvershootInv
<1>3. RowsOk'
  BY <1>1, RowsStep
<1> DEFINE Kept == \E G \in SUBSET Commands, D \in SUBSET (1..MaxHellos) :
                     Fits(G, D)' /\ ReadsFit(G, D)'
<1>4. SUFFICES Kept
  BY <1>3 DEF OvershootInv
<1>5. ASSUME NEW d \in Drainers, DrainStep(d) \/ CrashDrain(d), UNCHANGED rows,
             drain'[d].step = "list" /\ drain'[d].heldUntil = lease' => ReadFits(E, B, drain'[d].free),
             drain'[d].step = "renew" /\ drain'[d].heldUntil = lease' => Fits(E \cup drain'[d].batch, B)
      PROVE  Kept
  <2>1. Fits(E, B)'
    <3>1. UNCHANGED <<status, handed, withheld, hellos>> /\ posted' \subseteq E
      BY <1>2, <1>5 DEF rows, Fits
    <3> QED
      BY <1>2, <3>1, SameRows
  <2>2. \A e \in Drainers \ {d} : drain'[e] = drain[e]
    BY <1>1, <1>5 DEF DrainStep, AcquireCommandDrainLease, CountInFlight, ListQueued,
       RenewCommandDrainLease, DispatchBatchSettled, ReleaseCommandDrainLease, CrashDrain, TypeOK
  <2>3. \/ lease' = lease
        \/ lease' = NoLease
        \/ drain'[d] # Idle /\ drain'[d].heldUntil = lease'
    BY <1>1, <1>5 DEF DrainStep, AcquireCommandDrainLease, CountInFlight, ListQueued,
       RenewCommandDrainLease, DispatchBatchSettled, ReleaseCommandDrainLease, CrashDrain, TypeOK,
       target, Idle
  <2>4. ReadsFit(E, B)'
    BY <1>1, <1>2, <1>5, <2>2, <2>3, DrainCarries
  <2> QED
    BY <2>1, <2>4
<1>6. ASSUME NEW d \in Drainers,
             \/ AcquireCommandDrainLease(d) \/ DispatchBatchSettled(d)
             \/ ReleaseCommandDrainLease(d) \/ CrashDrain(d)
      PROVE  Kept
  <2>1. UNCHANGED rows /\ drain'[d].step \notin {"list", "renew"}
    BY <1>1, <1>6 DEF AcquireCommandDrainLease, DispatchBatchSettled, ReleaseCommandDrainLease,
       CrashDrain, TypeOK, Idle
  <2> QED
    BY <1>5, <1>6, <2>1 DEF DrainStep
<1>7. ASSUME NEW d \in Drainers, CountInFlight(d)
      PROVE  Kept
  <2> DEFINE n == Ceiling - Cardinality(InStatus("inFlight"))
  <2>1. InStatus("inFlight") \in SUBSET Commands
    BY DEF InStatus
  <2>2. Cardinality(InStatus("inFlight")) \in Nat /\ Ceiling \in Nat
    BY <2>1, Sizes, DrainAssumption
  <2>3. /\ UNCHANGED rows
        /\ drain'[d].step = "release" \/ (drain'[d].step = "list" /\ drain'[d].free = n /\ ~(n <= 0))
    BY <1>1, <1>7 DEF CountInFlight, TypeOK
  <2>4. n \in Int
    BY <2>2
  <2>5. ~(n <= 0) => ReadFits(E, B, n)
    <3> SUFFICES ASSUME ~(n <= 0) PROVE ReadFits(E, B, n)
      OBVIOUS
    <3>1. PICK k \in Nat \ {0} : k = n
      BY <2>4
    <3> QED
      BY <1>1, <1>2, <3>1, CountFits
  <2> HIDE DEF n
  <2>6. drain'[d].step \in {"list", "release"} /\ (drain'[d].step = "list" => ReadFits(E, B, drain'[d].free))
    BY <2>3, <2>5
  <2> QED
    BY <1>5, <1>7, <2>3, <2>6 DEF DrainStep
<1>8. ASSUME NEW d \in Drainers, ListQueued(d)
      PROVE  Kept
  <2>1. PICK n \in Nat : n = drain[d].free /\ drain[d] # Idle /\ drain[d].step = "list"
    BY <1>1, <1>8, DrainShape DEF ListQueued, Idle
  <2>2. PICK A : A = OldestQueued(n)
    OBVIOUS
  <2>3. /\ UNCHANGED <<rows, target>>
        /\ drain'[d].heldUntil = drain[d].heldUntil
        /\ drain'[d].step = "release" \/ (drain'[d].step = "renew" /\ drain'[d].batch = A)
    BY <1>1, <1>8, <2>1, <2>2 DEF ListQueued, TypeOK
  <2>4. drain[d].heldUntil = lease => Fits(E \cup A, B)
    <3> SUFFICES ASSUME drain[d].heldUntil = lease PROVE Fits(E \cup A, B)
      OBVIOUS
    <3>1. ReadFits(E, B, n)
      BY <1>2, <2>1 DEF ReadsFit, Holders
    <3> QED
      BY <1>1, <1>2, <2>2, <3>1, BatchFits
  <2>5. lease' = lease /\ drain'[d].step # "list"
    BY <2>3 DEF target
  <2> QED
    BY <1>5, <1>8, <2>3, <2>4, <2>5 DEF DrainStep
<1>9. ASSUME NEW d \in Drainers, RenewCommandDrainLease(d)
      PROVE  Kept
  <2>1. CASE lease = drain[d].heldUntil
    <3>1. PICK A \in SUBSET Commands : A = drain[d].batch
      BY <1>1, <1>9, DrainShape DEF RenewCommandDrainLease
    <3>2. Fits(E \cup A, B) /\ d \in Holders
      BY <1>2, <1>9, <2>1, <3>1 DEF ReadsFit, Holders, RenewCommandDrainLease, Idle
    <3>3. /\ UNCHANGED <<status, handed, withheld, hellos>>
          /\ posted' = posted \cup A
          /\ drain'[d].step = "dispatch" /\ drain'[d].heldUntil = lease' /\ drain'[d] # Idle
      BY <1>1, <1>9, <2>1, <3>1 DEF RenewCommandDrainLease, TypeOK, Idle
    <3> DEFINE G == E \cup A
    <3>4. Fits(G, B)' /\ G \in SUBSET Commands
      <4>1. posted' \subseteq G /\ G \in SUBSET Commands
        BY <3>2, <3>3 DEF Fits
      <4> HIDE DEF G
      <4>2. Fits(G, B)
        BY <3>2 DEF G
      <4> QED
        BY <3>3, <4>1, <4>2, SameRows
    <3>5. ReadsFit(G, B)'
      <4> SUFFICES ASSUME NEW e \in Drainers, drain'[e] # Idle, drain'[e].heldUntil = lease'
                   PROVE  drain'[e].step = "dispatch"
        BY DEF ReadsFit, Holders
      <4>1. e = d
        BY <1>1, <3>3 DEF IInv, TokensDiffer, Holders
      <4> QED
        BY <3>3, <4>1
    <3> QED
      BY <3>4, <3>5
  <2>2. CASE lease # drain[d].heldUntil
    <3>1. UNCHANGED rows /\ drain'[d].step = "release"
      BY <1>1, <1>9, <2>2 DEF RenewCommandDrainLease, TypeOK, rows
    <3> QED
      BY <1>5, <1>9, <3>1 DEF DrainStep
  <2> QED
    BY <2>1, <2>2
<1>10. ASSUME NEW c \in Commands,
              RelayDelivers(c) \/ RelayLoses(c) \/ CommandAnswered(c) \/ CommandEnds(c)
       PROVE  Kept
  <2>1. /\ UNCHANGED <<target, drain, withheld, hellos>>
        /\ handed' \cup posted' \subseteq handed \cup posted
        /\ \A b \in Commands : b # c => status'[b] = status[b]
        /\ \A b \in Commands : status'[b] = "queued" => status[b] = "queued"
        /\ \A b \in Commands : status[b] = "ended" => status'[b] = "ended"
        /\ status' = status \/ c \in handed \/ status[c] # "queued"
    BY <1>1, <1>10 DEF RelayDelivers, RelayLoses, CommandAnswered, CommandEnds, TypeOK
  <2>2. \A b \in Commands : Returns(b, B)' <= Returns(b, B) /\ Level(b, B)' <= Level(b, B)
    BY <2>1, Falls
  <2>3. ASSUME NEW F \in SUBSET Commands
        PROVE  /\ Fits(F, B) => Fits(F, B)'
               /\ \A n \in Nat : ReadFits(F, B, n) => ReadFits(F, B, n)'
    <3>1. Fits(F, B) => \A b \in Commands \ F : status'[b] = status[b]
      BY <2>1 DEF Fits
    <3> QED
      BY <2>1, <2>2, <3>1, Shrinks
  <2>4. Fits(E, B)'
    BY <1>2, <2>3
  <2>5. ReadsFit(E, B)'
    <3>1. \A F \in SUBSET Commands : Fits(E \cup F, B) => Fits(E \cup F, B)'
      BY <2>3
    <3> QED
      BY <1>1, <1>2, <2>1, <2>3, <3>1, Carries
  <2> QED
    BY <2>4, <2>5
<1>11. ASSUME NEW h \in 1..MaxHellos, RequeueUndeliveredCommands(h)
       PROVE  Kept
  <2>1. UNCHANGED <<target, drain>>
    BY <1>11 DEF RequeueUndeliveredCommands
  <2>2. PICK D \in SUBSET (1..MaxHellos) : D = IF h \in B THEN B ELSE B \cup {h}
    OBVIOUS
  <2>3. ASSUME NEW F \in SUBSET Commands
        PROVE  /\ Fits(F, B) => Fits(F, D)'
               /\ \A n \in Nat : ReadFits(F, B, n) => ReadFits(F, D, n)'
    <3>1. CASE h \in B
      <4>1. D = B
        BY <2>2, <3>1
      <4>2. /\ Fits(F, B) => Fits(F, B)'
            /\ \A n \in Nat : ReadFits(F, B, n) => ReadFits(F, B, n)'
        BY <1>1, <1>11, <3>1, RequeueKeeps
      <4> QED
        BY <4>1, <4>2
    <3>2. CASE h \notin B
      <4>1. D = B \cup {h}
        BY <2>2, <3>2
      <4>2. /\ Fits(F, B) => Fits(F, B \cup {h})'
            /\ \A n \in Nat : ReadFits(F, B, n) => ReadFits(F, B \cup {h}, n)'
        BY <1>1, <1>11, <3>2, RequeueKeeps
      <4> QED
        BY <4>1, <4>2
    <3> QED
      BY <3>1, <3>2
  <2>4. Fits(E, D)'
    BY <1>2, <2>3
  <2>5. ReadsFit(E, D)'
    <3>1. \A F \in SUBSET Commands : Fits(E \cup F, B) => Fits(E \cup F, D)'
      BY <2>3
    <3> QED
      BY <1>1, <1>2, <2>1, <2>3, <3>1, Carries
  <2> QED
    BY <2>4, <2>5
<1>12. CASE HandleHello
  <2>1. PICK H : H = Oldest(Ceiling, Pending)
    OBVIOUS
  <2>2. H \in SUBSET Commands
    BY <2>1 DEF Oldest, Pending, InStatus
  <2>3. PICK G \in SUBSET Commands : G = E \cup H
    BY <1>2, <2>2
  <2>4. /\ Fits(G, B)'
        /\ \A n \in Nat : ReadFits(E, B, n) => ReadFits(G, B, n)'
    BY <1>1, <1>2, <1>12, <2>1, <2>3, HelloAdds
  <2>5. \A F \in SUBSET Commands : Fits(E \cup F, B) => Fits(G \cup F, B)'
    <3> SUFFICES ASSUME NEW F \in SUBSET Commands, Fits(E \cup F, B)
                 PROVE  Fits(G \cup F, B)'
      OBVIOUS
    <3>1. PICK K \in SUBSET Commands : K = E \cup F
      OBVIOUS
    <3>2. PICK M \in SUBSET Commands : M = K \cup H
      BY <2>2
    <3>3. Fits(M, B)'
      BY <1>1, <1>12, <2>1, <3>1, <3>2, HelloAdds
    <3>4. M = G \cup F
      BY <2>3, <3>1, <3>2
    <3> QED
      BY <3>3, <3>4
  <2>6. UNCHANGED <<target, drain>>
    BY <1>12 DEF HandleHello
  <2>7. ReadsFit(G, B)'
    BY <1>1, <1>2, <2>4, <2>5, <2>6, Carries
  <2> QED
    BY <2>4, <2>7
<1>13. CASE Tick \/ UNCHANGED vars
  <2>1. UNCHANGED <<target, drain, rows>>
    BY <1>13 DEF Tick, vars
  <2>2. UNCHANGED <<status, handed, posted, withheld, hellos>>
    BY <2>1 DEF rows
  <2>3. ASSUME NEW F \in SUBSET Commands
        PROVE  /\ Fits(F, B) => Fits(F, B)'
               /\ \A n \in Nat : ReadFits(F, B, n) => ReadFits(F, B, n)'
    <3>1. Fits(F, B) => posted' \subseteq F
      BY <2>2 DEF Fits
    <3> QED
      BY <2>2, <3>1, SameRows
  <2>4. Fits(E, B)'
    BY <1>2, <2>3
  <2>5. ReadsFit(E, B)'
    <3>1. \A F \in SUBSET Commands : Fits(E \cup F, B) => Fits(E \cup F, B)'
      BY <2>3
    <3> QED
      BY <1>1, <1>2, <2>1, <2>3, <3>1, Carries
  <2> QED
    BY <2>4, <2>5
<1> QED
  BY <1>6, <1>7, <1>8, <1>9, <1>10, <1>11, <1>12, <1>13 DEF Next, DrainStep

LEMMA OvershootInit == Init => OvershootInv
<1> SUFFICES ASSUME Init PROVE OvershootInv
  OBVIOUS
<1>1. RowsOk
  BY DrainAssumption DEF Init, RowsOk
<1>2. Holders = {} /\ Cardinality({}) = 0 /\ Ceiling \in Nat
  BY FS_EmptySet, DrainAssumption DEF Init, Holders
<1>3. PICK none \in SUBSET Commands : none = {}
  OBVIOUS
<1>4. PICK B \in SUBSET (1..MaxHellos) : B = {}
  OBVIOUS
<1>5. Live(none) = {} /\ none \cap Legacy = {} /\ \A k : Waiting(none, B, k) = {}
  BY <1>3 DEF Live, Waiting
<1>6. /\ Cardinality(Live(none)) = 0 /\ Cardinality(none \cap Legacy) = 0
      /\ \A k : Cardinality(Waiting(none, B, k)) = 0
  BY <1>2, <1>5
<1>7. Cardinality(Live(none)) <= Bound(B, 0)
      /\ \A k \in Levels(B) : Cardinality(Waiting(none, B, k)) <= Bound(B, k)
  <2>1. \A k \in Levels(B) : Bound(B, k) \in Nat
    BY BoundIs
  <2>2. 0 \in Levels(B)
    BY <1>2, <1>4 DEF Levels
  <2> QED
    BY <1>6, <2>1, <2>2
<1>8. OldestFirst(none) /\ B \subseteq 1..hellos
  BY <1>3, <1>4 DEF OldestFirst
<1>9. handed \cup posted \subseteq none /\ \A c \in Commands \ none : status[c] = "queued"
  BY <1>3 DEF Init
<1>10. Cardinality(none \cap Legacy) <= Ceiling
  BY <1>2, <1>6
<1>11. Fits(none, B)
  BY <1>7, <1>8, <1>9, <1>10 DEF Fits
<1>12. ReadsFit(none, B)
  BY <1>2 DEF ReadsFit
<1> QED
  BY <1>1, <1>11, <1>12 DEF OvershootInv

(* A desktop is handed at most two ceilings more than it ended, and one    *)
(* more for every reconnect, whatever is counted, listed, delivered late   *)
(* or put back, chunk by chunk.                                            *)
THEOREM OvershootIsBounded == Spec => []OvershootBounded
<1>1. IInv /\ OvershootInv /\ [Next]_vars => IInv' /\ OvershootInv'
  BY StepKeepsIInv, OvershootStep
<1>2. Init => IInv /\ OvershootInv
  BY InitHolds, OvershootInit
<1>3. IInv /\ OvershootInv => OvershootBounded
  <2> SUFFICES ASSUME TypeOK, NEW E \in SUBSET Commands, NEW B \in SUBSET (1..MaxHellos), Fits(E, B)
               PROVE  OvershootBounded
    BY DEF IInv, OvershootInv
  <2>1. Outstanding \subseteq Live(E) /\ Live(E) \in SUBSET Commands /\ Outstanding \in SUBSET Commands
    BY DEF Outstanding, Live, Fits
  <2>2. Cardinality(Outstanding) <= Cardinality(Live(E)) /\ Cardinality(Outstanding) \in Nat
        /\ Cardinality(Live(E)) \in Nat
    BY <2>1, Sizes
  <2>3. Cardinality(B) \in Nat /\ hellos \in Nat /\ Cardinality(B) <= hellos
    <3>1. hellos \in Nat
      BY DEF TypeOK
    <3>2. IsFiniteSet(1..hellos) /\ Cardinality(1..hellos) = hellos
      BY <3>1, FS_Interval
    <3>3. B \subseteq 1..hellos
      BY DEF Fits
    <3>4. Cardinality(B) <= Cardinality(1..hellos)
      BY <3>2, <3>3, FS_Subset
    <3>5. Cardinality(B) \in Nat
      BY BoundIs
    <3> QED
      BY <3>1, <3>2, <3>4, <3>5
  <2>4. Bound(B, 0) <= (2 + hellos) * Ceiling /\ Bound(B, 0) \in Nat /\ (2 + hellos) * Ceiling \in Nat
    <3> DEFINE m == Cardinality(B) + 2
               r == 2 + hellos
    <3>1. m \in Nat /\ r \in Nat /\ m <= r /\ Bound(B, 0) = m * Ceiling
      BY <2>3 DEF Bound
    <3> HIDE DEF m, r
    <3>2. m * Ceiling \in Nat /\ r * Ceiling \in Nat /\ m * Ceiling <= r * Ceiling
      BY <3>1, Product
    <3> QED
      BY <3>1, <3>2 DEF r
  <2>5. Cardinality(Live(E)) <= Bound(B, 0)
    BY DEF Fits
  <2> QED
    BY <2>2, <2>4, <2>5 DEF OvershootBounded
<1> QED
  BY <1>1, <1>2, <1>3, PTL DEF Spec
=============================================================================
