------------------------ MODULE ConnectionCounterProofs ------------------------
(***************************************************************************)
(* Theorems about ConnectionCounter for every number of instances and      *)
(* handshakes, every cap and every number of outages and crashes, checked  *)
(* by TLAPS: a count is never below the connections of an instance that is *)
(* alive, and what a crash leaves behind is under a key the sweep finds.   *)
(***************************************************************************)
EXTENDS ConnectionCounter, TLAPS, FiniteSetTheorems, WellFoundedInduction

(***************************************************************************)
(* The inductive invariant.  The field of a key lies between what has      *)
(* landed of the takes and has not been given back, and what is held:      *)
(* an increment on its way is held, and lands or is never counted.         *)
(***************************************************************************)
HasLanded(h, k) ==
  \/ conn[h] = "counted"
  \/ take[h].step = "total" /\ take[h].key = k
  \/ take[h].step # "none" /\ take[h].key = Org /\ k = User
Incrementing(h, k) == take[h].step = "incr" /\ take[h].key = k

Landed(i, k) == {h \in Handshakes : at[h] = i /\ HasLanded(h, k)}
InIncr(i, k) == {h \in Handshakes : at[h] = i /\ Incrementing(h, k)}

Sound(i) == Alive(i) /\ i \notin silent

CountsHold ==
  \A i \in Instances, k \in Keys : Sound(i) =>
    /\ gives[i][k] + unreleased[i][k] + Cardinality(Landed(i, k)) <= field[i][k]
    /\ field[i][k] + Cardinality(InIncr(i, k)) <= held[i][k]
    /\ held[i][k] > 0 => k \in keySet[i]

(* Each take in flight and each release still to come has a hold of its own, *)
(* whatever a sweep has erased of the field.                                 *)
HoldsCover ==
  \A i \in Instances, k \in Keys : Alive(i) =>
    gives[i][k] + unreleased[i][k] + Cardinality(Landed(i, k)) + Cardinality(InIncr(i, k))
      <= held[i][k]

(* An instance that is not alive takes nothing; a new one has no count.     *)
TakesOk ==
  /\ \A h \in Handshakes : take[h].step # "none" => Alive(at[h])
  /\ \A h \in Handshakes : conn[h] = "counted" => Alive(at[h])
  /\ \A h \in Handshakes : conn[h] \in {"new", "counted"} => take[h].step = "none"
  /\ \A i \in Instances : phase[i] = "new" =>
       field[i] = Zero /\ held[i] = Zero /\ lease[i] = "none"
  /\ \A i \in Instances : ~Alive(i) => gives[i] = Zero /\ unreleased[i] = Zero

(* Only instances that are gone are claimed and swept, those that crashed    *)
(* and those that were silent for a TTL: to an instance that has reached     *)
(* Redis for a full TTL, no other peer that is alive has lapsed.             *)
Gone == Crashed \cup silent

SweepsOk ==
  /\ \A j \in silent : phase[j] # "new"
  /\ \A i \in settled, j \in Instances :
       Alive(j) /\ j # i => lease[j] = "current" \/ j \in silent
  /\ \A i \in Instances :
       /\ claimed[i] \subseteq Gone
       /\ sweep[i].rest \subseteq Gone
       /\ sweep[i].step \in {"read", "fields", "set"} => sweep[i].of \in Gone

(* What the sweep of a crashed instance has still to erase is among the keys *)
(* it has read.                                                              *)
SweepsSee ==
  \A i \in Instances : sweep[i].step \in {"fields", "set"} /\ sweep[i].of \notin silent =>
    /\ \A k \in Keys : field[sweep[i].of][k] > 0 => k \in sweep[i].keys
    /\ sweep[i].step = "set" => sweep[i].keys = {}

IInv ==
  TypeOK /\ CountsHold /\ HoldsCover /\ TakesOk /\ SweepsOk /\ SweepsSee /\ FieldsAreFound

(***************************************************************************)
(* Counting                                                                *)
(***************************************************************************)
Bit(b) == IF b THEN 1 ELSE 0

(* Two finite sets that differ in one element at most.                      *)
LEMMA OneMoves ==
  ASSUME NEW S, NEW T, NEW h, IsFiniteSet(S), S \ {h} = T \ {h}
  PROVE  /\ Cardinality(S) \in Nat /\ Cardinality(T) \in Nat
         /\ Cardinality(T) = Cardinality(S) + Bit(h \in T) - Bit(h \in S)
<1> DEFINE R == S \ {h}
<1>1. IsFiniteSet(R) /\ Cardinality(R) \in Nat
  BY FS_Difference, FS_CardinalityType
<1>2. /\ IsFiniteSet(R \cup {h})
      /\ Cardinality(R \cup {h}) = Cardinality(R) + 1
  <2>1. h \notin R
    OBVIOUS
  <2> HIDE DEF R
  <2>2. QED BY <1>1, <2>1, FS_AddElement
<1>3. /\ h \in S => S = R \cup {h}
      /\ h \notin S => S = R
      /\ h \in T => T = R \cup {h}
      /\ h \notin T => T = R
  OBVIOUS
<1> HIDE DEF R
<1>4. Cardinality(S) = Cardinality(R) + Bit(h \in S)
  <2>1. CASE h \in S
    BY <1>1, <1>2, <1>3, <2>1 DEF Bit
  <2>2. CASE h \notin S
    BY <1>1, <1>2, <1>3, <2>2 DEF Bit
  <2>3. QED BY <2>1, <2>2
<1>5. Cardinality(T) = Cardinality(R) + Bit(h \in T)
  <2>1. CASE h \in T
    BY <1>1, <1>2, <1>3, <2>1 DEF Bit
  <2>2. CASE h \notin T
    BY <1>1, <1>2, <1>3, <2>2 DEF Bit
  <2>3. QED BY <2>1, <2>2
<1>6. Bit(h \in S) \in Nat /\ Bit(h \in T) \in Nat
  BY DEF Bit
<1>7. QED BY <1>1, <1>4, <1>6, <1>5

(* The handshakes counted are finitely many.                                *)
LEMMA CountsAreNumbers ==
  ASSUME NEW i \in Instances, NEW k \in Keys
  PROVE  /\ Cardinality(Landed(i, k)) \in Nat /\ Cardinality(InIncr(i, k)) \in Nat
         /\ Cardinality(Landed(i, k)') \in Nat /\ Cardinality(InIncr(i, k)') \in Nat
         /\ IsFiniteSet(Landed(i, k)) /\ IsFiniteSet(InIncr(i, k))
<1>1. /\ Landed(i, k) \subseteq Handshakes /\ InIncr(i, k) \subseteq Handshakes
      /\ Landed(i, k)' \subseteq Handshakes /\ InIncr(i, k)' \subseteq Handshakes
  BY DEF Landed, InIncr
<1>2. QED BY <1>1, FS_Subset, FS_CardinalityType, CounterAssumption

(* A step of one handshake moves the counts of its instance alone.          *)
LEMMA Moves ==
  ASSUME NEW h \in Handshakes, at' = at,
         \A g \in Handshakes \ {h} : take'[g] = take[g] /\ conn'[g] = conn[g],
         NEW i \in Instances, NEW k \in Keys
  PROVE  /\ i # at[h] => Landed(i, k)' = Landed(i, k) /\ InIncr(i, k)' = InIncr(i, k)
         /\ i = at[h] =>
              /\ Cardinality(Landed(i, k)')
                   = Cardinality(Landed(i, k)) + Bit(HasLanded(h, k)') - Bit(HasLanded(h, k))
              /\ Cardinality(InIncr(i, k)')
                   = Cardinality(InIncr(i, k)) + Bit(Incrementing(h, k)') - Bit(Incrementing(h, k))
<1>1. \A g \in Handshakes \ {h} :
        /\ g \in Landed(i, k)' <=> g \in Landed(i, k)
        /\ g \in InIncr(i, k)' <=> g \in InIncr(i, k)
  BY DEF Landed, InIncr, HasLanded, Incrementing
<1>2. CASE i # at[h]
  BY <1>1, <1>2 DEF Landed, InIncr
<1>3. CASE i = at[h]
  <2>1. /\ h \in Landed(i, k) <=> HasLanded(h, k)
        /\ h \in Landed(i, k)' <=> HasLanded(h, k)'
        /\ h \in InIncr(i, k) <=> Incrementing(h, k)
        /\ h \in InIncr(i, k)' <=> Incrementing(h, k)'
    BY <1>3 DEF Landed, InIncr
  <2>2. /\ Landed(i, k) \ {h} = Landed(i, k)' \ {h}
        /\ InIncr(i, k) \ {h} = InIncr(i, k)' \ {h}
    BY <1>1 DEF Landed, InIncr
  <2>3. /\ Cardinality(Landed(i, k)') = Cardinality(Landed(i, k))
             + Bit(h \in Landed(i, k)') - Bit(h \in Landed(i, k))
        /\ Cardinality(InIncr(i, k)') = Cardinality(InIncr(i, k))
             + Bit(h \in InIncr(i, k)') - Bit(h \in InIncr(i, k))
    BY <2>2, OneMoves, CountsAreNumbers
  <2>4. QED BY <1>3, <2>1, <2>3 DEF Bit
<1>4. QED BY <1>2, <1>3

(* A step that leaves every take and every socket alone moves no count.     *)
LEMMA Unmoved ==
  ASSUME at' = at, take' = take, conn' = conn, NEW i \in Instances, NEW k \in Keys
  PROVE  Landed(i, k)' = Landed(i, k) /\ InIncr(i, k)' = InIncr(i, k)
BY DEF Landed, InIncr, HasLanded, Incrementing

(***************************************************************************)
(* The steps                                                               *)
(***************************************************************************)

LEMMA InitHolds == Init => IInv
<1> SUFFICES ASSUME Init PROVE IInv
  OBVIOUS
<1> USE CounterAssumption
<1>1. TypeOK
  BY DEF Init, TypeOK, Zero, NoSweep, NotTaking, Keys
<1>2. TakesOk /\ SweepsOk /\ SweepsSee /\ FieldsAreFound
  BY <1>1 DEF Init, TypeOK, TakesOk, SweepsOk, SweepsSee, FieldsAreFound, Zero, NoSweep,
       NotTaking, Alive, Crashed, Gone, Keys
<1>3. CountsHold /\ HoldsCover
  BY DEF Init, CountsHold, HoldsCover, Sound, Alive
<1>4. QED BY <1>1, <1>2, <1>3 DEF IInv

(* A sweep begins with a claim, among the dead it is given.                  *)
LEMMA SweepOfOk ==
  ASSUME NEW dead \in SUBSET Instances
  PROVE  /\ SweepOf(dead).rest \subseteq dead
         /\ SweepOf(dead).step \in {"idle", "claim"}
         /\ SweepOf(dead) \in [of: Instances \cup {Nobody}, keys: SUBSET Keys,
              rest: SUBSET Instances, step: {"idle", "claim", "read", "fields", "set"}]
BY DEF SweepOf, NoSweep

(* Only instances that are gone are swept.                                   *)
LEMMA SweepsStep ==
  ASSUME TypeOK, TakesOk, SweepsOk, [Next]_vars
  PROVE  SweepsOk'
<1> USE CounterAssumption DEF SweepsOk, Alive
<1>1. phase' = phase /\ silent' = silent => Gone' = Gone
  BY DEF Gone, Crashed
<1>t. /\ claimed \in [Instances -> SUBSET Instances]
      /\ lease \in [Instances -> {"none", "current", "lapsed"}]
      /\ phase \in [Instances -> {"new", "alive", "crashed"}]
      /\ silent \in SUBSET Instances
      /\ sweep \in [Instances -> [of: Instances \cup {Nobody}, keys: SUBSET Keys,
                  rest: SUBSET Instances,
                  step: {"idle", "claim", "read", "fields", "set"}]]
  BY DEF TypeOK
<1>g. \A j \in Gone : j \in Instances /\ (phase[j] = "alive" => j \in silent)
  BY <1>t DEF Gone, Crashed
<1>2. CASE Admission
  <2> SUFFICES ASSUME UNCHANGED <<lease, phase, settled, silent, claimed, sweep>> PROVE SweepsOk'
    BY <1>2 DEF Admission, Admit, AdmitUncounted, Increment, TakeOrg, Admitted, Refused,
         AdmissionDeadline, TakeFails, Close, sweeper
  <2>1. QED BY <1>1
<1>3. CASE Release
  <2> SUFFICES ASSUME UNCHANGED <<lease, phase, settled, silent, claimed, sweep>> PROVE SweepsOk'
    BY <1>3 DEF Release, GiveLands, GiveFails, sweeper
  <2>1. QED BY <1>1
<1>4. CASE Heartbeat
  <2> PICK i \in Instances :
        \/ Start(i) \/ Beat(i) \/ BeatFails(i) \/ Settles(i) \/ Lapse(i)
        \/ SweepClaim(i) \/ SweepRead(i) \/ SweepField(i) \/ SweepSet(i) \/ SweepFails(i)
        \/ Crash(i)
    BY <1>4 DEF Heartbeat
  <2>1. CASE Start(i)
    <3>1. /\ UNCHANGED <<settled, silent, claimed, sweep>>
          /\ phase[i] = "new" /\ phase' = [phase EXCEPT ![i] = "alive"]
          /\ lease' = [lease EXCEPT ![i] = "current"]
      BY <2>1 DEF Start, sweeper
    <3>2. Gone' = Gone
      BY <1>t, <3>1 DEF Gone, Crashed
    <3>3. \A j \in silent : phase'[j] # "new"
      BY <1>t, <3>1
    <3>4. \A j \in Instances : phase'[j] = "alive" =>
            lease'[j] = "current" \/ (phase[j] = "alive" /\ lease'[j] = lease[j])
      BY <1>t, <3>1
    <3>5. QED BY <3>1, <3>2, <3>3, <3>4
  <2>2. CASE Beat(i)
    <3> DEFINE lapsed == {j \in Instances : j # i /\ lease[j] = "lapsed"}
               dead == (lapsed \cup claimed[i]) \ {i}
    <3>1. i \in settled => dead \subseteq Gone
      <4>1. i \in settled => \A j \in lapsed : phase[j] = "crashed" \/ j \in silent
        BY <1>t DEF TakesOk
      <4>2. QED BY <4>1 DEF Gone, Crashed
    <3>2. /\ UNCHANGED <<phase, settled, silent, claimed>>
          /\ lease' = [lease EXCEPT ![i] = "current"]
          /\ sweep' = sweep \/
               (i \in settled /\ sweep' = [sweep EXCEPT ![i] = SweepOf(dead)])
      BY <2>2 DEF Beat, sweeper
    <3>3. SweepOf(dead).rest \subseteq dead /\ SweepOf(dead).step \in {"idle", "claim"}
      <4>1. dead \in SUBSET Instances
        BY <1>t
      <4> HIDE DEF dead
      <4>2. QED BY <4>1, SweepOfOk
    <3> HIDE DEF dead
    <3>4. \A j \in Instances : lease[j] = "current" => lease'[j] = "current"
      BY <1>t, <3>2
    <3>5. \A j \in Instances :
            sweep'[j] = sweep[j] \/ (i \in settled /\ sweep'[j] = SweepOf(dead))
      BY <1>t, <3>2
    <3>6. \A a \in settled', j \in Instances :
            phase'[j] = "alive" /\ j # a => lease'[j] = "current" \/ j \in silent'
      <4>1. \A j \in Instances : j # i => lease'[j] = lease[j]
        BY <1>t, <3>2
      <4>2. lease'[i] = "current"
        BY <1>t, <3>2
      <4>3. QED BY <3>2, <4>1, <4>2
    <3>7. QED BY <1>1, <3>1, <3>2, <3>3, <3>5, <3>6
  <2>3. CASE BeatFails(i)
    BY <1>1, <2>3 DEF BeatFails
  <2>4. CASE Settles(i)
    <3> DEFINE missing == {j \in Instances : Alive(j) /\ lease[j] # "current"}
    <3>1. /\ UNCHANGED <<phase, lease, claimed, sweep>>
          /\ settled' = settled \cup {i} /\ silent' = silent \cup missing
      BY <2>4 DEF Settles
    <3>2. Gone \subseteq Gone'
      BY <3>1 DEF Gone, Crashed
    <3>3. \A j \in Instances : phase'[j] = "alive" => lease'[j] = "current" \/ j \in silent'
      BY <3>1
    <3>4. \A j \in silent' : phase'[j] # "new"
      BY <3>1
    <3>5. QED BY <3>1, <3>2, <3>3, <3>4
  <2>5. CASE Lapse(i)
    <3>1. /\ UNCHANGED <<phase, settled, claimed, sweep>>
          /\ lease' = [lease EXCEPT ![i] = "lapsed"]
          /\ silent' = silent \/ (Alive(i) /\ silent' = silent \cup {i})
          /\ Alive(i) /\ settled \ {i} # {} => i \in silent'
      BY <2>5 DEF Lapse
    <3>2. Gone \subseteq Gone'
      BY <3>1 DEF Gone, Crashed
    <3>3. \A a \in settled', j \in Instances :
            phase'[j] = "alive" /\ j # a => lease'[j] = "current" \/ j \in silent'
      <4>1. \A j \in Instances : j # i => lease'[j] = lease[j]
        BY <1>t, <3>1
      <4>2. QED BY <3>1, <4>1
    <3>4. \A j \in silent' : phase'[j] # "new"
      BY <3>1
    <3>5. QED BY <3>1, <3>2, <3>3, <3>4
  <2>6. CASE SweepClaim(i)
    <3>1. PICK d \in sweep[i].rest :
       IF d \in claimed[i] \/ lease[d] = "lapsed"
       THEN /\ sweep' = [sweep EXCEPT ![i] = [@ EXCEPT !.of = d, !.step = "read"]]
            /\ claimed' = [claimed EXCEPT ![i] = @ \cup {d}]
            /\ lease' = IF d \in claimed[i] THEN lease ELSE [lease EXCEPT ![d] = "none"]
       ELSE /\ sweep' = [sweep EXCEPT ![i] = SweepOf(sweep[i].rest \ {d})]
            /\ UNCHANGED <<claimed, lease>>
      BY <2>6 DEF SweepClaim
    <3>2. sweep[i].step = "claim" /\ UNCHANGED <<phase, settled, silent>>
      BY <2>6 DEF SweepClaim
    <3>3. d \in Gone
      BY <3>1
    <3>4. /\ claimed' = claimed \/ claimed' = [claimed EXCEPT ![i] = @ \cup {d}]
          /\ lease' = lease \/ lease' = [lease EXCEPT ![d] = "none"]
      BY <3>1
    <3>5. \A j \in Instances : claimed'[j] \subseteq Gone
      <4>1. \A j \in Instances : claimed'[j] \subseteq claimed[j] \cup {d}
        BY <1>t, <3>4
      <4>2. QED BY <3>3, <4>1
    <3>6. \A j \in Instances : Alive(j) => lease'[j] = lease[j] \/ j \in silent
      BY <1>t, <1>g, <3>3, <3>4
    <3>7. \A j \in Instances :
            /\ sweep'[j].rest \subseteq Gone
            /\ sweep'[j].step \in {"read", "fields", "set"} => sweep'[j].of \in Gone
      <4>1. \A j \in Instances : j # i => sweep'[j] = sweep[j]
        BY <3>1 DEF TypeOK
      <4>2. CASE d \in claimed[i] \/ lease[d] = "lapsed"
        <5>1. sweep'[i].rest = sweep[i].rest /\ sweep'[i].of = d
          <6>1. sweep'[i] = [sweep[i] EXCEPT !.of = d, !.step = "read"]
            BY <1>t, <3>1, <4>2
          <6>2. QED BY <1>t, <6>1
        <5>2. QED BY <3>3, <4>1, <5>1
      <4>3. CASE ~(d \in claimed[i] \/ lease[d] = "lapsed")
        <5>1. sweep'[i] = SweepOf(sweep[i].rest \ {d})
          BY <1>t, <3>1, <4>3
        <5>2. sweep'[i].rest \subseteq sweep[i].rest /\ sweep'[i].step \in {"idle", "claim"}
          BY <1>t, <5>1, SweepOfOk
        <5>3. QED BY <4>1, <5>2
      <4>4. QED BY <4>2, <4>3
    <3>8. QED BY <1>1, <3>2, <3>5, <3>6, <3>7
  <2>7. CASE SweepRead(i)
    BY <1>1, <2>7 DEF SweepRead, TypeOK
  <2>8. CASE SweepField(i)
    <3>1. \A j \in Instances :
            /\ sweep'[j].rest = sweep[j].rest
            /\ sweep'[j].of = sweep[j].of
            /\ sweep'[j].step \in {"read", "fields", "set"} =>
                                     sweep[j].step \in {"read", "fields", "set"}
      <4>1. CASE sweep[i].keys = {}
        BY <1>t, <2>8, <4>1 DEF SweepField
      <4>2. CASE sweep[i].keys # {}
        <5>1. PICK k \in sweep[i].keys : sweep' = [sweep EXCEPT ![i].keys = @ \ {k}]
          BY <2>8, <4>2 DEF SweepField
        <5>2. sweep[i].step = "fields"
          BY <2>8 DEF SweepField
        <5>3. QED BY <1>t, <5>1, <5>2
      <4>3. QED BY <4>1, <4>2
    <3>2. UNCHANGED <<phase, lease, settled, silent, claimed>>
      BY <2>8 DEF SweepField
    <3>3. ASSUME NEW j \in Instances
          PROVE  /\ sweep'[j].rest \subseteq Gone
                 /\ sweep'[j].step \in {"read", "fields", "set"} => sweep'[j].of \in Gone
      <4>1. /\ sweep[j].rest \subseteq Gone
            /\ sweep[j].step \in {"read", "fields", "set"} => sweep[j].of \in Gone
        OBVIOUS
      <4>2. /\ sweep'[j].rest = sweep[j].rest /\ sweep'[j].of = sweep[j].of
            /\ sweep'[j].step \in {"read", "fields", "set"} =>
                 sweep[j].step \in {"read", "fields", "set"}
        BY <3>1
      <4>3. QED BY ONLY <4>1, <4>2
    <3>4. QED BY <1>1, <3>2, <3>3
  <2>9. CASE SweepSet(i)
    <3>1. sweep'[i].rest \subseteq sweep[i].rest /\ sweep'[i].step \in {"idle", "claim"}
      BY <1>t, <2>9, SweepOfOk DEF SweepSet
    <3>2. \A j \in Instances : claimed'[j] \subseteq claimed[j] /\ (j # i => sweep'[j] = sweep[j])
      BY <2>9 DEF SweepSet, TypeOK
    <3>3. UNCHANGED <<phase, lease, settled, silent>>
      BY <2>9 DEF SweepSet
    <3>4. QED BY <1>1, <3>1, <3>2, <3>3
  <2>10. CASE SweepFails(i)
    BY <1>1, <2>10 DEF SweepFails, NoSweep, TypeOK
  <2>11. CASE Crash(i)
    <3>1. /\ UNCHANGED <<lease, silent>> /\ settled' \subseteq settled
          /\ phase' = [phase EXCEPT ![i] = "crashed"]
          /\ claimed' = [claimed EXCEPT ![i] = {}] /\ sweep' = [sweep EXCEPT ![i] = NoSweep]
      BY <2>11 DEF Crash
    <3>2. Gone \subseteq Gone'
      BY <1>t, <3>1 DEF Gone, Crashed
    <3>3. \A j \in Instances : phase'[j] = phase[j] \/ phase'[j] = "crashed"
      BY <1>t, <3>1
    <3>4. \A j \in Instances :
            /\ claimed'[j] = claimed[j] \/ claimed'[j] = {}
            /\ sweep'[j] = sweep[j] \/ sweep'[j] = NoSweep
      BY <1>t, <3>1
    <3>5. NoSweep.rest = {} /\ NoSweep.step = "idle"
      BY DEF NoSweep
    <3>6. \A j \in silent' : phase'[j] # "new"
      BY <1>t, <3>1, <3>3
    <3>7. \A a \in settled', j \in Instances :
            phase'[j] = "alive" /\ j # a => lease'[j] = "current" \/ j \in silent'
      BY <3>1, <3>3
    <3>8. QED BY <3>2, <3>4, <3>5, <3>6, <3>7
  <2>12. QED BY <2>1, <2>2, <2>3, <2>4, <2>5, <2>6, <2>7, <2>8, <2>9, <2>10, <2>11
<1>5. CASE Network
  BY <1>1, <1>5 DEF Network, Outage, Recover, sweeper
<1>6. CASE UNCHANGED vars
  BY <1>1, <1>6 DEF vars, sweeper
<1>7. QED BY <1>2, <1>3, <1>4, <1>5, <1>6 DEF Next

(* An instance that was silent stays so marked.                              *)
LEMMA SilentGrows ==
  ASSUME [Next]_vars
  PROVE  silent \subseteq silent'
<1>1. CASE Admission
  BY <1>1 DEF Admission, Admit, AdmitUncounted, Increment, TakeOrg, Admitted, Refused,
       AdmissionDeadline, TakeFails, Close, sweeper
<1>2. CASE Release
  BY <1>2 DEF Release, GiveLands, GiveFails, sweeper
<1>3. CASE Heartbeat
  BY <1>3 DEF Heartbeat, Start, Beat, BeatFails, Settles, Lapse, SweepClaim, SweepRead,
       SweepField, SweepSet, SweepFails, Crash, sweeper
<1>4. CASE Network \/ UNCHANGED vars
  BY <1>4 DEF Network, Outage, Recover, vars, sweeper
<1>5. QED BY <1>1, <1>2, <1>3, <1>4 DEF Next

(* What a step of one handshake leaves alone.                                *)
HandshakeStep(h) ==
  \/ Admit(h) \/ AdmitUncounted(h) \/ Increment(h) \/ TakeOrg(h) \/ Admitted(h)
  \/ Refused(h) \/ AdmissionDeadline(h) \/ TakeFails(h) \/ Close(h)

LEMMA OnlyOne ==
  ASSUME TypeOK, NEW h \in Handshakes, HandshakeStep(h)
  PROVE  /\ Alive(at[h])
         /\ UNCHANGED <<phase, lease, unreleased, settled, silent, claimed, sweep, at, outages>>
         /\ \A g \in Handshakes \ {h} : take'[g] = take[g] /\ conn'[g] = conn[g]
         /\ \A j \in Instances \ {at[h]} :
              /\ field'[j] = field[j] /\ keySet'[j] = keySet[j]
              /\ held'[j] = held[j] /\ gives'[j] = gives[j]
<1> USE DEF TypeOK, hash, memory, sweeper, Step, Hold, Given, Taken, NotTaking, Check
<1>1. CASE Admit(h)
  BY <1>1 DEF Admit
<1>2. CASE AdmitUncounted(h)
  BY <1>2 DEF AdmitUncounted
<1>3. CASE Increment(h)
  BY <1>3 DEF Increment
<1>4. CASE TakeOrg(h)
  BY <1>4 DEF TakeOrg
<1>5. CASE Admitted(h)
  <2>1. CASE take[h].late
    BY <1>5, <2>1 DEF Admitted
  <2>2. CASE ~take[h].late
    BY <1>5, <2>2 DEF Admitted
  <2>3. QED BY <2>1, <2>2
<1>6. CASE Refused(h)
  BY <1>6 DEF Refused
<1>7. CASE AdmissionDeadline(h)
  BY <1>7 DEF AdmissionDeadline
<1>8. CASE TakeFails(h)
  BY <1>8 DEF TakeFails
<1>9. CASE Close(h)
  BY <1>9 DEF Close
<1>10. QED
  BY <1>1, <1>2, <1>3, <1>4, <1>5, <1>6, <1>7, <1>8, <1>9 DEF HandshakeStep

(* An instance that is not alive takes nothing.                              *)
LEMMA TakesStep ==
  ASSUME TypeOK, TakesOk, SweepsOk, [Next]_vars
  PROVE  TakesOk'
<1> USE CounterAssumption DEF TakesOk
<1>1. CASE Admission
  <2>1. PICK h \in Handshakes : HandshakeStep(h)
    BY <1>1 DEF Admission, HandshakeStep
  <2>2. \A j \in Instances : ~Alive(j) =>
          field'[j] = field[j] /\ held'[j] = held[j] /\ gives'[j] = gives[j]
    BY <2>1, OnlyOne
  <2>3. UNCHANGED <<phase, lease, unreleased, at>> /\ Alive(at[h])
    BY <2>1, OnlyOne
  <2>4. \A g \in Handshakes \ {h} : take'[g] = take[g] /\ conn'[g] = conn[g]
    BY <2>1, OnlyOne
  <2>5. conn'[h] \in {"new", "counted"} => take'[h].step = "none"
    <3> USE DEF TypeOK, Step, Taken, NotTaking
    <3>1. CASE Admit(h)
      BY <3>1 DEF Admit
    <3>2. CASE AdmitUncounted(h)
      BY <3>2 DEF AdmitUncounted
    <3>3. CASE Increment(h)
      BY <3>3 DEF Increment
    <3>4. CASE TakeOrg(h)
      BY <3>4 DEF TakeOrg
    <3>5. CASE Admitted(h)
      BY <3>5 DEF Admitted
    <3>6. CASE Refused(h)
      BY <3>6 DEF Refused
    <3>7. CASE AdmissionDeadline(h)
      BY <3>7 DEF AdmissionDeadline
    <3>8. CASE TakeFails(h)
      BY <3>8 DEF TakeFails
    <3>9. CASE Close(h)
      BY <3>9 DEF Close
    <3>10. QED
      BY <2>1, <3>1, <3>2, <3>3, <3>4, <3>5, <3>6, <3>7, <3>8, <3>9 DEF HandshakeStep
  <2>6. QED BY <2>2, <2>3, <2>4, <2>5 DEF Alive
<1>2. CASE Release
  <2>1. PICK i \in Instances, k \in Keys : GiveLands(i, k) \/ GiveFails(i, k)
    BY <1>2 DEF Release
  <2>2. UNCHANGED <<phase, lease, take, conn, at>> /\ Alive(i)
    BY <2>1 DEF GiveLands, GiveFails, sockets
  <2>3. \A j \in Instances : j # i =>
          /\ field'[j] = field[j] /\ held'[j] = held[j]
          /\ gives'[j] = gives[j] /\ unreleased'[j] = unreleased[j]
    BY <2>1 DEF GiveLands, GiveFails, hash, TypeOK
  <2>4. QED BY <2>2, <2>3 DEF Alive
<1>3. CASE Heartbeat
  <2> PICK i \in Instances :
        \/ Start(i) \/ Beat(i) \/ BeatFails(i) \/ Settles(i) \/ Lapse(i)
        \/ SweepClaim(i) \/ SweepRead(i) \/ SweepField(i) \/ SweepSet(i) \/ SweepFails(i)
        \/ Crash(i)
    BY <1>3 DEF Heartbeat
  <2> USE DEF TypeOK, Alive, hash, memory, sweeper, sockets
  <2>1. CASE Start(i)
    BY <2>1 DEF Start
  <2>2. CASE Beat(i)
    BY <2>2 DEF Beat
  <2>3. CASE BeatFails(i) \/ Settles(i) \/ SweepRead(i) \/ SweepSet(i) \/ SweepFails(i)
    BY <2>3 DEF BeatFails, Settles, SweepRead, SweepSet, SweepFails
  <2>4. CASE Lapse(i)
    BY <2>4 DEF Lapse
  <2>5. CASE SweepClaim(i)
    <3>1. UNCHANGED <<field, held, gives, unreleased, phase, take, conn, at>>
      BY <2>5 DEF SweepClaim
    <3>2. lease' = lease \/ \E d \in Instances : lease' = [lease EXCEPT ![d] = "none"]
      BY <2>5 DEF SweepClaim
    <3>3. \A j \in Instances : lease[j] = "none" => lease'[j] = "none"
      BY <3>2
    <3>4. QED BY <3>1, <3>3
  <2>6. CASE SweepField(i)
    <3>1. sweep[i].of \in Instances /\ phase[sweep[i].of] # "new"
      BY <2>6 DEF SweepField, SweepsOk, Gone, Crashed
    <3>2. \A j \in Instances : j # sweep[i].of => field'[j] = field[j]
      BY <2>6, <3>1 DEF SweepField
    <3>3. UNCHANGED <<phase, lease, held, gives, unreleased, take, conn, at>>
      BY <2>6 DEF SweepField
    <3>4. QED BY <3>1, <3>2, <3>3
  <2>7. CASE Crash(i)
    BY <2>7 DEF Crash, NotTaking, Zero
  <2>8. QED BY <2>1, <2>2, <2>3, <2>4, <2>5, <2>6, <2>7
<1>4. CASE Network
  BY <1>4 DEF Network, Outage, Recover, hash, memory, sockets, Alive
<1>5. CASE UNCHANGED vars
  BY <1>5 DEF vars, hash, memory, sockets, Alive
<1>6. QED BY <1>1, <1>2, <1>3, <1>4, <1>5 DEF Next

(* The counts stay numbers.                                                  *)
Numbers ==
  /\ field \in [Instances -> [Keys -> Nat]] /\ held \in [Instances -> [Keys -> Nat]]
  /\ gives \in [Instances -> [Keys -> Nat]] /\ unreleased \in [Instances -> [Keys -> Nat]]

LEMMA NumbersStep ==
  ASSUME TypeOK, SweepsOk, [Next]_vars
  PROVE  Numbers'
<1> USE CounterAssumption DEF Numbers
<1>1. Numbers
  BY DEF TypeOK
<1>k. User \in Keys /\ Org \in Keys
  BY DEF Keys
<1>g. ASSUME NEW i \in Instances, NEW ks
      PROVE  Given(i, ks) \in [Instances -> [Keys -> Nat]]
  BY <1>1 DEF Given
<1>2. CASE Admission
  <2>1. PICK h \in Handshakes : HandshakeStep(h)
    BY <1>2 DEF Admission, HandshakeStep
  <2>2. at[h] \in Instances /\ take[h].key \in Keys
    BY DEF TypeOK
  <2> USE <1>1, <1>k, <1>g, <2>2 DEF hash, memory, Hold
  <2>3. CASE Admit(h)
    BY <2>3 DEF Admit
  <2>4. CASE AdmitUncounted(h)
    BY <2>4 DEF AdmitUncounted
  <2>5. CASE Increment(h)
    BY <2>5 DEF Increment
  <2>6. CASE TakeOrg(h)
    BY <2>6 DEF TakeOrg
  <2>7. CASE Admitted(h)
    BY <2>7 DEF Admitted
  <2>8. CASE Refused(h)
    BY <2>8 DEF Refused
  <2>9. CASE AdmissionDeadline(h)
    BY <2>9 DEF AdmissionDeadline
  <2>10. CASE TakeFails(h)
    <3>1. field' = field \/ field' = [field EXCEPT ![at[h]][take[h].key] = @ + 1]
      BY <2>10 DEF TakeFails
    <3>2. field' \in [Instances -> [Keys -> Nat]]
      <4>1. CASE field' = field
        BY <4>1
      <4>2. CASE field' = [field EXCEPT ![at[h]][take[h].key] = @ + 1]
        BY <4>2
      <4>3. QED BY <3>1, <4>1, <4>2
    <3>3. QED BY <2>10, <3>2 DEF TakeFails
  <2>11. CASE Close(h)
    BY <2>11 DEF Close
  <2>12. QED
    BY <2>1, <2>3, <2>4, <2>5, <2>6, <2>7, <2>8, <2>9, <2>10, <2>11 DEF HandshakeStep
<1>3. CASE Release
  <2>1. PICK i \in Instances, k \in Keys : GiveLands(i, k) \/ GiveFails(i, k)
    BY <1>3 DEF Release
  <2>2. gives[i][k] + unreleased[i][k] <= held[i][k]
    BY DEF TypeOK
  <2>3. CASE GiveLands(i, k)
    BY <1>1, <2>2, <2>3 DEF GiveLands
  <2>4. CASE GiveFails(i, k)
    BY <1>1, <2>4 DEF GiveFails, hash
  <2>5. QED BY <2>1, <2>3, <2>4
<1>4. CASE Heartbeat
  <2> PICK i \in Instances :
        \/ Start(i) \/ Beat(i) \/ BeatFails(i) \/ Settles(i) \/ Lapse(i)
        \/ SweepClaim(i) \/ SweepRead(i) \/ SweepField(i) \/ SweepSet(i) \/ SweepFails(i)
        \/ Crash(i)
    BY <1>4 DEF Heartbeat
  <2> USE <1>1 DEF hash, memory, Zero
  <2>1. CASE Start(i) \/ BeatFails(i) \/ Settles(i) \/ Lapse(i) \/ SweepClaim(i)
               \/ SweepRead(i) \/ SweepSet(i) \/ SweepFails(i)
    BY <2>1 DEF Start, BeatFails, Settles, Lapse, SweepClaim, SweepRead, SweepSet, SweepFails
  <2>2. CASE Beat(i)
    BY <2>2 DEF Beat
  <2>3. CASE SweepField(i)
    <3>1. sweep[i].of \in Instances /\ sweep[i].keys \subseteq Keys
      BY <2>3 DEF SweepField, SweepsOk, Gone, Crashed, TypeOK
    <3>2. field' = field \/ \E k \in Keys : field' = [field EXCEPT ![sweep[i].of][k] = 0]
      BY <2>3, <3>1 DEF SweepField
    <3>3. field' \in [Instances -> [Keys -> Nat]]
      <4>1. CASE field' = field
        BY <4>1
      <4>2. ASSUME NEW k \in Keys, field' = [field EXCEPT ![sweep[i].of][k] = 0]
            PROVE  field' \in [Instances -> [Keys -> Nat]]
        BY <3>1, <4>2
      <4>3. QED BY <3>2, <4>1, <4>2
    <3>4. QED BY <2>3, <3>3 DEF SweepField
  <2>4. CASE Crash(i)
    BY <2>4 DEF Crash
  <2>5. QED BY <2>1, <2>2, <2>3, <2>4
<1>5. CASE Network
  BY <1>1, <1>5 DEF Network, Outage, Recover, hash, memory
<1>6. CASE UNCHANGED vars
  BY <1>1, <1>6 DEF vars, hash, memory
<1>7. QED BY <1>2, <1>3, <1>4, <1>5, <1>6 DEF Next

(* Where both differences are kept, both bounds are.                         *)
LEMMA Balance ==
  ASSUME TypeOK, Numbers', CountsHold,
         NEW h \in Handshakes, at' = at, NEW k \in Keys,
         \A g \in Handshakes \ {h} : take'[g] = take[g] /\ conn'[g] = conn[g],
         Sound(at[h]),
         gives'[at[h]][k] + unreleased'[at[h]][k] + Bit(HasLanded(h, k)') + field[at[h]][k]
           <= gives[at[h]][k] + unreleased[at[h]][k] + Bit(HasLanded(h, k)) + field'[at[h]][k],
         field'[at[h]][k] + Bit(Incrementing(h, k)') + held[at[h]][k]
           <= field[at[h]][k] + Bit(Incrementing(h, k)) + held'[at[h]][k]
  PROVE  /\ gives'[at[h]][k] + unreleased'[at[h]][k] + Cardinality(Landed(at[h], k)')
              <= field'[at[h]][k]
         /\ field'[at[h]][k] + Cardinality(InIncr(at[h], k)') <= held'[at[h]][k]
<1> DEFINE i == at[h]
<1>1. i \in Instances
  BY DEF TypeOK
<1>2. /\ gives[i][k] \in Nat /\ unreleased[i][k] \in Nat /\ field[i][k] \in Nat
      /\ held[i][k] \in Nat
      /\ gives'[i][k] \in Nat /\ unreleased'[i][k] \in Nat /\ field'[i][k] \in Nat
      /\ held'[i][k] \in Nat
  BY <1>1 DEF TypeOK, Numbers
<1>3. /\ Cardinality(Landed(i, k)) \in Nat /\ Cardinality(InIncr(i, k)) \in Nat
      /\ Cardinality(Landed(i, k)') \in Nat /\ Cardinality(InIncr(i, k)') \in Nat
  BY <1>1, CountsAreNumbers
<1>4. /\ Cardinality(Landed(i, k)')
           = Cardinality(Landed(i, k)) + Bit(HasLanded(h, k)') - Bit(HasLanded(h, k))
      /\ Cardinality(InIncr(i, k)')
           = Cardinality(InIncr(i, k)) + Bit(Incrementing(h, k)') - Bit(Incrementing(h, k))
  BY <1>1, Moves
<1>5. /\ gives[i][k] + unreleased[i][k] + Cardinality(Landed(i, k)) <= field[i][k]
      /\ field[i][k] + Cardinality(InIncr(i, k)) <= held[i][k]
  BY <1>1 DEF CountsHold
<1>6. /\ Bit(HasLanded(h, k)') \in Nat /\ Bit(HasLanded(h, k)) \in Nat
      /\ Bit(Incrementing(h, k)') \in Nat /\ Bit(Incrementing(h, k)) \in Nat
  BY DEF Bit
<1> HIDE DEF i
<1>7. /\ gives'[i][k] + unreleased'[i][k] + Bit(HasLanded(h, k)') + field[i][k]
           <= gives[i][k] + unreleased[i][k] + Bit(HasLanded(h, k)) + field'[i][k]
      /\ field'[i][k] + Bit(Incrementing(h, k)') + held[i][k]
           <= field[i][k] + Bit(Incrementing(h, k)) + held'[i][k]
  BY DEF i
<1>8. /\ gives'[i][k] + unreleased'[i][k] + Cardinality(Landed(i, k)') <= field'[i][k]
      /\ field'[i][k] + Cardinality(InIncr(i, k)') <= held'[i][k]
  BY ONLY <1>2, <1>3, <1>4, <1>5, <1>6, <1>7
<1>9. QED BY <1>8 DEF i

(* How a step of a handshake moves the counts of its instance.               *)
LEMMA HandshakeMoves ==
  ASSUME TypeOK, Numbers', TakesOk, NEW h \in Handshakes, HandshakeStep(h), NEW k \in Keys
  PROVE  /\ gives'[at[h]][k] + unreleased'[at[h]][k] + Bit(HasLanded(h, k)') + field[at[h]][k]
              <= gives[at[h]][k] + unreleased[at[h]][k] + Bit(HasLanded(h, k)) + field'[at[h]][k]
         /\ field'[at[h]][k] + Bit(Incrementing(h, k)') + held[at[h]][k]
              <= field[at[h]][k] + Bit(Incrementing(h, k)) + held'[at[h]][k]
         /\ (held[at[h]][k] > 0 => k \in keySet[at[h]])
              => (held'[at[h]][k] > 0 => k \in keySet'[at[h]])
<1> USE CounterAssumption
<1> DEFINE i == at[h]
<1>1. /\ i \in Instances /\ Alive(i) /\ at' = at
      /\ \A g \in Handshakes \ {h} : take'[g] = take[g] /\ conn'[g] = conn[g]
      /\ unreleased' = unreleased
  BY OnlyOne DEF TypeOK
<1>2. /\ gives[i][k] \in Nat /\ unreleased[i][k] \in Nat /\ field[i][k] \in Nat
      /\ held[i][k] \in Nat
  BY <1>1 DEF TypeOK
<1>3. k = User \/ k = Org
  BY DEF Keys
<1>4. take[h].step \in {"none", "incr", "total"} /\ take[h].key \in {User, Org}
  BY DEF TypeOK, Keys
<1> USE <1>1, <1>2, <1>3, <1>4 DEF HasLanded, Incrementing, Bit, TypeOK, hash, memory,
        Step, Hold, Given, Taken, NotTaking, TakesOk
<1>5. CASE Admit(h)
  BY <1>5 DEF Admit
<1>6. CASE AdmitUncounted(h)
  BY <1>6 DEF AdmitUncounted
<1>7. CASE Increment(h)
  BY <1>7 DEF Increment
<1>8. CASE TakeOrg(h)
  BY <1>8 DEF TakeOrg
<1>9. CASE Admitted(h)
  BY <1>9 DEF Admitted
<1>10. CASE Refused(h)
  BY <1>10 DEF Refused
<1>11. CASE AdmissionDeadline(h)
  BY <1>11 DEF AdmissionDeadline
<1>12. CASE TakeFails(h)
  BY <1>12 DEF TakeFails
<1>13. CASE Close(h)
  BY <1>13 DEF Close
<1>14. QED
  BY <1>5, <1>6, <1>7, <1>8, <1>9, <1>10, <1>11, <1>12, <1>13 DEF HandshakeStep

(* The counts of the instance of a handshake that takes a step.              *)
LEMMA HandshakeCounts ==
  ASSUME TypeOK, Numbers', TakesOk, CountsHold, NEW h \in Handshakes, HandshakeStep(h),
         Sound(at[h]), NEW k \in Keys
  PROVE  /\ gives'[at[h]][k] + unreleased'[at[h]][k] + Cardinality(Landed(at[h], k)')
              <= field'[at[h]][k]
         /\ field'[at[h]][k] + Cardinality(InIncr(at[h], k)') <= held'[at[h]][k]
         /\ held'[at[h]][k] > 0 => k \in keySet'[at[h]]
<1>1. /\ at[h] \in Instances /\ at' = at
      /\ \A g \in Handshakes \ {h} : take'[g] = take[g] /\ conn'[g] = conn[g]
  BY OnlyOne DEF TypeOK
<1>2. held[at[h]][k] > 0 => k \in keySet[at[h]]
  BY <1>1 DEF CountsHold
<1>3. /\ gives'[at[h]][k] + unreleased'[at[h]][k] + Bit(HasLanded(h, k)') + field[at[h]][k]
           <= gives[at[h]][k] + unreleased[at[h]][k] + Bit(HasLanded(h, k)) + field'[at[h]][k]
      /\ field'[at[h]][k] + Bit(Incrementing(h, k)') + held[at[h]][k]
           <= field[at[h]][k] + Bit(Incrementing(h, k)) + held'[at[h]][k]
      /\ held'[at[h]][k] > 0 => k \in keySet'[at[h]]
  BY <1>2, HandshakeMoves
<1>4. QED BY <1>1, <1>3, Balance

LEMMA CountsStep ==
  ASSUME TypeOK, Numbers', TakesOk, SweepsOk, CountsHold, [Next]_vars
  PROVE  CountsHold'
<1> USE CounterAssumption
<1>1. Numbers
  BY DEF TypeOK, Numbers
<1>n. \A j \in Instances, k \in Keys :
        /\ Cardinality(Landed(j, k)) \in Nat /\ Cardinality(InIncr(j, k)) \in Nat
  BY CountsAreNumbers
<1>u. ASSUME UNCHANGED <<at, take, conn>>, NEW j \in Instances, NEW k \in Keys
      PROVE  Landed(j, k)' = Landed(j, k) /\ InIncr(j, k)' = InIncr(j, k)
  BY <1>u, Unmoved
<1>s. \A j \in Instances : Sound(j)' /\ Alive(j) => Sound(j)
  BY SilentGrows DEF Sound
<1>2. CASE Admission
  <2>1. PICK h \in Handshakes : HandshakeStep(h)
    BY <1>2 DEF Admission, HandshakeStep
  <2> SUFFICES ASSUME NEW j \in Instances, NEW k \in Keys, Sound(j)'
               PROVE  /\ gives'[j][k] + unreleased'[j][k] + Cardinality(Landed(j, k)')
                           <= field'[j][k]
                      /\ field'[j][k] + Cardinality(InIncr(j, k)') <= held'[j][k]
                      /\ held'[j][k] > 0 => k \in keySet'[j]
    BY DEF CountsHold
  <2>2. Sound(j)
    BY <1>s, <2>1, OnlyOne DEF Sound, Alive
  <2>3. CASE j = at[h]
    <3>1. at' = at
      BY <2>1, OnlyOne
    <3>2. QED BY <2>1, <2>2, <2>3, <3>1, HandshakeCounts
  <2>4. CASE j # at[h]
    <3>1. /\ unreleased' = unreleased
          /\ field'[j] = field[j] /\ keySet'[j] = keySet[j]
          /\ held'[j] = held[j] /\ gives'[j] = gives[j]
      BY <2>1, <2>4, OnlyOne
    <3>2. Landed(j, k)' = Landed(j, k) /\ InIncr(j, k)' = InIncr(j, k)
      BY <2>1, <2>4, OnlyOne, Moves
    <3>3. QED BY <2>2, <3>1, <3>2 DEF CountsHold
  <2>5. QED BY <2>3, <2>4
<1>3. CASE Release
  <2>1. PICK i \in Instances, q \in Keys : GiveLands(i, q) \/ GiveFails(i, q)
    BY <1>3 DEF Release
  <2>2. UNCHANGED <<at, take, conn, phase>> /\ Alive(i)
    BY <2>1 DEF GiveLands, GiveFails, sockets
  <2> SUFFICES ASSUME NEW j \in Instances, NEW k \in Keys, Sound(j)
               PROVE  /\ gives'[j][k] + unreleased'[j][k] + Cardinality(Landed(j, k))
                           <= field'[j][k]
                      /\ field'[j][k] + Cardinality(InIncr(j, k)) <= held'[j][k]
                      /\ held'[j][k] > 0 => k \in keySet'[j]
    BY <1>s, <1>u, <2>2 DEF CountsHold, Sound, Alive
  <2>3. /\ gives[j][k] + unreleased[j][k] + Cardinality(Landed(j, k)) <= field[j][k]
        /\ field[j][k] + Cardinality(InIncr(j, k)) <= held[j][k]
        /\ held[j][k] > 0 => k \in keySet[j]
    BY DEF CountsHold
  <2>4. CASE GiveLands(i, q)
    BY <1>1, <1>n, <2>3, <2>4 DEF GiveLands, Numbers, TypeOK
  <2>5. CASE GiveFails(i, q)
    BY <1>1, <1>n, <2>3, <2>5 DEF GiveFails, Numbers, hash
  <2>6. QED BY <2>1, <2>4, <2>5
<1>4. CASE Heartbeat
  <2> PICK i \in Instances :
        \/ Start(i) \/ Beat(i) \/ BeatFails(i) \/ Settles(i) \/ Lapse(i)
        \/ SweepClaim(i) \/ SweepRead(i) \/ SweepField(i) \/ SweepSet(i) \/ SweepFails(i)
        \/ Crash(i)
    BY <1>4 DEF Heartbeat
  <2>1. CASE Start(i)
    <3>1. /\ UNCHANGED <<at, take, conn, field, keySet, held, gives, unreleased>>
          /\ phase[i] = "new" /\ phase' = [phase EXCEPT ![i] = "alive"]
      BY <2>1 DEF Start, hash, sockets
    <3>2. \A k \in Keys : Landed(i, k) = {} /\ InIncr(i, k) = {}
      BY <3>1 DEF Landed, InIncr, HasLanded, Incrementing, TakesOk, Alive
    <3>3. \A k \in Keys : Cardinality(Landed(i, k)) = 0 /\ Cardinality(InIncr(i, k)) = 0
      BY <3>2, FS_EmptySet
    <3>4. field[i] = Zero /\ held[i] = Zero /\ gives[i] = Zero /\ unreleased[i] = Zero
      BY <3>1 DEF TakesOk, Alive
    <3>5. \A j \in Instances : Sound(j)' => Sound(j) \/ j = i
      <4>1. \A j \in Instances \ {i} : Alive(j)' => Alive(j)
        BY <3>1 DEF Alive, TypeOK
      <4>2. \A j \in Instances : Sound(j)' => Alive(j)'
        BY DEF Sound
      <4>3. QED BY <1>s, <4>1, <4>2
    <3>6. \A j \in Instances, k \in Keys : Sound(j)' =>
            /\ gives[j][k] + unreleased[j][k] + Cardinality(Landed(j, k)) <= field[j][k]
            /\ field[j][k] + Cardinality(InIncr(j, k)) <= held[j][k]
            /\ held[j][k] > 0 => k \in keySet[j]
      BY <3>3, <3>4, <3>5 DEF CountsHold, Zero
    <3>7. QED BY <1>u, <3>1, <3>6 DEF CountsHold
  <2>2. CASE Beat(i)
    <3>1. /\ UNCHANGED <<at, take, conn, field, keySet, held, phase>>
          /\ gives' = [gives EXCEPT ![i] = [k \in Keys |-> @[k] + unreleased[i][k]]]
          /\ unreleased' = [unreleased EXCEPT ![i] = Zero]
      BY <2>2 DEF Beat, hash, sockets
    <3>2. \A j \in Instances, k \in Keys :
            gives'[j][k] + unreleased'[j][k] = gives[j][k] + unreleased[j][k]
      BY <1>1, <3>1 DEF Numbers, Zero
    <3>3. \A j \in Instances : Sound(j)' => Sound(j)
      BY <1>s, <3>1 DEF Sound, Alive
    <3>4. QED BY <1>u, <3>1, <3>2, <3>3 DEF CountsHold
  <2>3. CASE BeatFails(i) \/ Settles(i) \/ Lapse(i) \/ SweepClaim(i) \/ SweepRead(i)
               \/ SweepFails(i)
    <3>1. UNCHANGED <<at, take, conn, field, keySet, held, gives, unreleased, phase>>
      BY <2>3 DEF BeatFails, Settles, Lapse, SweepClaim, SweepRead, SweepFails, hash,
           memory, sockets
    <3>2. \A j \in Instances : Sound(j)' => Sound(j)
      BY <1>s, <3>1 DEF Sound, Alive
    <3>3. QED BY <1>u, <3>1, <3>2 DEF CountsHold
  <2>4. CASE SweepField(i) \/ SweepSet(i)
    <3>1. UNCHANGED <<at, take, conn, held, gives, unreleased, phase>>
      BY <2>4 DEF SweepField, SweepSet, memory, sockets
    <3>2. sweep[i].of \in Instances /\ ~Sound(sweep[i].of)
      BY <2>4 DEF SweepField, SweepSet, SweepsOk, Gone, Crashed, Sound, Alive, TypeOK
    <3>3. \A j \in Instances : Sound(j) => field'[j] = field[j] /\ keySet'[j] = keySet[j]
      <4>1. CASE SweepSet(i)
        BY <3>2, <4>1 DEF SweepSet, TypeOK
      <4>2. CASE SweepField(i)
        BY <3>2, <4>2 DEF SweepField, TypeOK
      <4>3. QED BY <2>4, <4>1, <4>2
    <3>4. \A j \in Instances : Sound(j)' => Sound(j)
      BY <1>s, <3>1 DEF Sound, Alive
    <3>5. QED BY <1>u, <3>1, <3>3, <3>4 DEF CountsHold
  <2>5. CASE Crash(i)
    <3>1. /\ UNCHANGED <<at, field, keySet, silent>>
          /\ \A j \in Instances : Alive(j)' => Alive(j) /\ j # i
          /\ \A j \in Instances : j # i =>
               /\ held'[j] = held[j] /\ gives'[j] = gives[j] /\ unreleased'[j] = unreleased[j]
          /\ \A h \in Handshakes : at[h] # i => take'[h] = take[h] /\ conn'[h] = conn[h]
      BY <2>5 DEF Crash, hash, Alive, TypeOK
    <3>2. \A j \in Instances, k \in Keys : j # i =>
            Landed(j, k)' = Landed(j, k) /\ InIncr(j, k)' = InIncr(j, k)
      BY <3>1 DEF Landed, InIncr, HasLanded, Incrementing
    <3>3. \A j \in Instances : Sound(j)' => Sound(j) /\ j # i
      BY <3>1 DEF Sound
    <3>4. QED BY <3>1, <3>2, <3>3 DEF CountsHold
  <2>6. QED BY <2>1, <2>2, <2>3, <2>4, <2>5
<1>5. CASE Network \/ UNCHANGED vars
  <2>1. UNCHANGED <<at, take, conn, field, keySet, held, gives, unreleased, phase, silent>>
    BY <1>5 DEF Network, Outage, Recover, vars, hash, memory, sweeper, sockets
  <2>2. QED BY <1>u, <2>1 DEF CountsHold, Sound, Alive
<1>6. QED BY <1>2, <1>3, <1>4, <1>5 DEF Next

(* What is taken and not yet given back is held.                             *)
LEMMA HoldsStep ==
  ASSUME TypeOK, Numbers', TakesOk, HoldsCover, [Next]_vars
  PROVE  HoldsCover'
<1> USE CounterAssumption
<1>1. Numbers
  BY DEF TypeOK, Numbers
<1>n. \A j \in Instances, k \in Keys :
        /\ Cardinality(Landed(j, k)) \in Nat /\ Cardinality(InIncr(j, k)) \in Nat
        /\ Cardinality(Landed(j, k)') \in Nat /\ Cardinality(InIncr(j, k)') \in Nat
  BY CountsAreNumbers
<1>u. ASSUME UNCHANGED <<at, take, conn>>, NEW j \in Instances, NEW k \in Keys
      PROVE  Landed(j, k)' = Landed(j, k) /\ InIncr(j, k)' = InIncr(j, k)
  BY <1>u, Unmoved
<1>2. CASE Admission
  <2>1. PICK h \in Handshakes : HandshakeStep(h)
    BY <1>2 DEF Admission, HandshakeStep
  <2> SUFFICES ASSUME NEW j \in Instances, NEW k \in Keys, Alive(j)'
               PROVE  gives'[j][k] + unreleased'[j][k] + Cardinality(Landed(j, k)')
                        + Cardinality(InIncr(j, k)') <= held'[j][k]
    BY DEF HoldsCover
  <2>2. Alive(j) /\ at' = at
    BY <2>1, OnlyOne DEF Alive
  <2>3. gives[j][k] + unreleased[j][k] + Cardinality(Landed(j, k)) + Cardinality(InIncr(j, k))
          <= held[j][k]
    BY <2>2 DEF HoldsCover
  <2>4. CASE j = at[h]
    <3>1. /\ gives'[j][k] + unreleased'[j][k] + Bit(HasLanded(h, k)') + field[j][k]
               <= gives[j][k] + unreleased[j][k] + Bit(HasLanded(h, k)) + field'[j][k]
          /\ field'[j][k] + Bit(Incrementing(h, k)') + held[j][k]
               <= field[j][k] + Bit(Incrementing(h, k)) + held'[j][k]
      BY <2>1, <2>4, HandshakeMoves
    <3>2. /\ Cardinality(Landed(j, k)')
               = Cardinality(Landed(j, k)) + Bit(HasLanded(h, k)') - Bit(HasLanded(h, k))
          /\ Cardinality(InIncr(j, k)')
               = Cardinality(InIncr(j, k)) + Bit(Incrementing(h, k)') - Bit(Incrementing(h, k))
      BY <2>1, <2>2, <2>4, OnlyOne, Moves
    <3>3. /\ Bit(HasLanded(h, k)') \in Nat /\ Bit(HasLanded(h, k)) \in Nat
          /\ Bit(Incrementing(h, k)') \in Nat /\ Bit(Incrementing(h, k)) \in Nat
      BY DEF Bit
    <3>4. /\ gives[j][k] \in Nat /\ unreleased[j][k] \in Nat /\ field[j][k] \in Nat
          /\ held[j][k] \in Nat
          /\ gives'[j][k] \in Nat /\ unreleased'[j][k] \in Nat /\ field'[j][k] \in Nat
          /\ held'[j][k] \in Nat
      BY <1>1 DEF Numbers
    <3>5. /\ Cardinality(Landed(j, k)) \in Nat /\ Cardinality(InIncr(j, k)) \in Nat
          /\ Cardinality(Landed(j, k)') \in Nat /\ Cardinality(InIncr(j, k)') \in Nat
      BY <1>n
    <3>6. QED BY ONLY <2>3, <3>1, <3>2, <3>3, <3>4, <3>5
  <2>5. CASE j # at[h]
    <3>1. unreleased' = unreleased /\ held'[j] = held[j] /\ gives'[j] = gives[j]
      BY <2>1, <2>5, OnlyOne
    <3>2. Landed(j, k)' = Landed(j, k) /\ InIncr(j, k)' = InIncr(j, k)
      BY <2>1, <2>5, OnlyOne, Moves
    <3>3. QED BY <2>3, <3>1, <3>2
  <2>6. QED BY <2>4, <2>5
<1>3. CASE Release
  <2>1. PICK i \in Instances, q \in Keys : GiveLands(i, q) \/ GiveFails(i, q)
    BY <1>3 DEF Release
  <2>2. UNCHANGED <<at, take, conn, phase>> /\ Alive(i)
    BY <2>1 DEF GiveLands, GiveFails, sockets
  <2> SUFFICES ASSUME NEW j \in Instances, NEW k \in Keys, Alive(j)
               PROVE  gives'[j][k] + unreleased'[j][k] + Cardinality(Landed(j, k))
                        + Cardinality(InIncr(j, k)) <= held'[j][k]
    BY <1>u, <2>2 DEF HoldsCover, Alive
  <2>3. gives[j][k] + unreleased[j][k] + Cardinality(Landed(j, k)) + Cardinality(InIncr(j, k))
          <= held[j][k]
    BY DEF HoldsCover
  <2>4. CASE GiveLands(i, q)
    BY <1>1, <1>n, <2>3, <2>4 DEF GiveLands, Numbers, TypeOK
  <2>5. CASE GiveFails(i, q)
    BY <1>1, <1>n, <2>3, <2>5 DEF GiveFails, Numbers
  <2>6. QED BY <2>1, <2>4, <2>5
<1>4. CASE Heartbeat
  <2> PICK i \in Instances :
        \/ Start(i) \/ Beat(i) \/ BeatFails(i) \/ Settles(i) \/ Lapse(i)
        \/ SweepClaim(i) \/ SweepRead(i) \/ SweepField(i) \/ SweepSet(i) \/ SweepFails(i)
        \/ Crash(i)
    BY <1>4 DEF Heartbeat
  <2>1. CASE Start(i)
    <3>1. /\ UNCHANGED <<at, take, conn, held, gives, unreleased>>
          /\ phase[i] = "new" /\ phase' = [phase EXCEPT ![i] = "alive"]
      BY <2>1 DEF Start, sockets
    <3>2. \A k \in Keys : Landed(i, k) = {} /\ InIncr(i, k) = {}
      BY <3>1 DEF Landed, InIncr, HasLanded, Incrementing, TakesOk, Alive
    <3>3. \A k \in Keys : Cardinality(Landed(i, k)) = 0 /\ Cardinality(InIncr(i, k)) = 0
      BY <3>2, FS_EmptySet
    <3>4. held[i] = Zero /\ gives[i] = Zero /\ unreleased[i] = Zero
      BY <3>1 DEF TakesOk, Alive
    <3>5. \A j \in Instances : Alive(j)' => Alive(j) \/ j = i
      BY <3>1 DEF Alive, TypeOK
    <3>6. \A j \in Instances, k \in Keys : Alive(j)' =>
            gives[j][k] + unreleased[j][k] + Cardinality(Landed(j, k))
              + Cardinality(InIncr(j, k)) <= held[j][k]
      BY <3>3, <3>4, <3>5 DEF HoldsCover, Zero
    <3>7. QED BY <1>u, <3>1, <3>6 DEF HoldsCover
  <2>2. CASE Beat(i)
    <3>1. /\ UNCHANGED <<at, take, conn, held, phase>>
          /\ gives' = [gives EXCEPT ![i] = [k \in Keys |-> @[k] + unreleased[i][k]]]
          /\ unreleased' = [unreleased EXCEPT ![i] = Zero]
      BY <2>2 DEF Beat, sockets
    <3>2. \A j \in Instances, k \in Keys :
            gives'[j][k] + unreleased'[j][k] = gives[j][k] + unreleased[j][k]
      BY <1>1, <3>1 DEF Numbers, Zero
    <3>3. QED BY <1>u, <3>1, <3>2 DEF HoldsCover, Alive
  <2>3. CASE BeatFails(i) \/ Settles(i) \/ Lapse(i) \/ SweepClaim(i) \/ SweepRead(i)
               \/ SweepField(i) \/ SweepSet(i) \/ SweepFails(i)
    <3>1. UNCHANGED <<at, take, conn, held, gives, unreleased, phase>>
      BY <2>3 DEF BeatFails, Settles, Lapse, SweepClaim, SweepRead, SweepField, SweepSet,
           SweepFails, memory, sockets
    <3>2. QED BY <1>u, <3>1 DEF HoldsCover, Alive
  <2>4. CASE Crash(i)
    <3>1. /\ at' = at
          /\ \A j \in Instances : Alive(j)' => Alive(j) /\ j # i
          /\ \A j \in Instances : j # i =>
               /\ held'[j] = held[j] /\ gives'[j] = gives[j] /\ unreleased'[j] = unreleased[j]
          /\ \A h \in Handshakes : at[h] # i => take'[h] = take[h] /\ conn'[h] = conn[h]
      BY <2>4 DEF Crash, Alive, TypeOK
    <3>2. \A j \in Instances, k \in Keys : j # i =>
            Landed(j, k)' = Landed(j, k) /\ InIncr(j, k)' = InIncr(j, k)
      BY <3>1 DEF Landed, InIncr, HasLanded, Incrementing
    <3>3. QED BY <3>1, <3>2 DEF HoldsCover
  <2>5. QED BY <2>1, <2>2, <2>3, <2>4
<1>5. CASE Network \/ UNCHANGED vars
  <2>1. UNCHANGED <<at, take, conn, held, gives, unreleased, phase>>
    BY <1>5 DEF Network, Outage, Recover, vars, memory, sockets
  <2>2. QED BY <1>u, <2>1 DEF HoldsCover, Alive
<1>6. QED BY <1>2, <1>3, <1>4, <1>5 DEF Next

(* The steps of a sweep keep its record.                                     *)
SweepRecords == [of: Instances \cup {Nobody}, keys: SUBSET Keys, rest: SUBSET Instances,
                 step: {"idle", "claim", "read", "fields", "set"}]

LEMMA SweepTypes ==
  ASSUME NEW r \in SweepRecords
  PROVE  /\ \A d \in Instances : [r EXCEPT !.of = d, !.step = "read"] \in SweepRecords
         /\ \A ks \in SUBSET Keys : [r EXCEPT !.keys = ks, !.step = "fields"] \in SweepRecords
         /\ [r EXCEPT !.step = "set"] \in SweepRecords
         /\ \A k \in Keys : [r EXCEPT !.keys = @ \ {k}] \in SweepRecords
BY DEF SweepRecords

(* A take at its next step keeps its type.                                   *)
TakeRecords == [step: {"none", "incr", "total"}, key: Keys, late: BOOLEAN]

LEMMA StepType ==
  ASSUME take \in [Handshakes -> TakeRecords], NEW h \in Handshakes,
         NEW step \in {"none", "incr", "total"}, NEW key \in Keys, Step(h, step, key)
  PROVE  take' \in [Handshakes -> TakeRecords]
<1>1. PICK r : r = [[take[h] EXCEPT !.step = step] EXCEPT !.key = key]
  OBVIOUS
<1>2. r \in TakeRecords
  BY <1>1 DEF TakeRecords
<1>3. take' = [take EXCEPT ![h] = r]
  BY <1>1 DEF Step
<1>4. QED BY <1>2, <1>3

(* What is given back is held.                                               *)
LEMMA TypeStep ==
  ASSUME TypeOK, SweepsOk, Numbers', TakesOk', HoldsCover', [Next]_vars
  PROVE  TypeOK'
<1> USE CounterAssumption
<1>1. \A i \in Instances, k \in Keys : gives'[i][k] + unreleased'[i][k] <= held'[i][k]
  <2> SUFFICES ASSUME NEW i \in Instances, NEW k \in Keys
               PROVE  gives'[i][k] + unreleased'[i][k] <= held'[i][k]
    OBVIOUS
  <2>1. CASE Alive(i)'
    <3>1. /\ Cardinality(Landed(i, k)') \in Nat /\ Cardinality(InIncr(i, k)') \in Nat
      BY CountsAreNumbers
    <3>2. QED BY <2>1, <3>1 DEF HoldsCover, Numbers
  <2>2. CASE ~Alive(i)'
    BY <2>2 DEF TakesOk, Numbers, Zero
  <2>3. QED BY <2>1, <2>2
<1>2. /\ keySet' \in [Instances -> SUBSET Keys]
      /\ lease' \in [Instances -> {"none", "current", "lapsed"}]
      /\ phase' \in [Instances -> {"new", "alive", "crashed"}]
      /\ reachable' \in SUBSET Instances
      /\ live' \in [Instances -> SUBSET Instances]
      /\ settled' \in SUBSET Instances /\ silent' \in SUBSET Instances
      /\ claimed' \in [Instances -> SUBSET Instances]
      /\ sweep' \in [Instances -> SweepRecords]
      /\ at' \in [Handshakes -> Instances]
      /\ take' \in [Handshakes -> [step: {"none", "incr", "total"}, key: Keys, late: BOOLEAN]]
      /\ conn' \in [Handshakes -> {"new", "waiting", "counted", "uncounted", "refused", "closed"}]
      /\ unseen' \in SUBSET Handshakes
      /\ outages' \in 0..MaxOutages
  <2>1. CASE Admission
    <3>1. PICK h \in Handshakes : HandshakeStep(h)
      BY <2>1 DEF Admission, HandshakeStep
    <3>2. UNCHANGED <<phase, lease, settled, silent, claimed, sweep, at, outages, reachable, live>>
      BY <3>1, OnlyOne DEF HandshakeStep, Admit, AdmitUncounted, Increment, TakeOrg, Admitted,
         Refused, AdmissionDeadline, TakeFails, Close, memory
    <3> USE <3>2 DEF SweepRecords, TypeOK, Hold, Taken, NotTaking, Check, Keys, hash
    <3>3. CASE Admit(h)
      <4>1. Step(h, "incr", User) /\ User \in Keys /\ take \in [Handshakes -> TakeRecords]
        BY <3>3 DEF Admit, TakeRecords
      <4>2. take' \in [Handshakes -> TakeRecords]
        BY <4>1, StepType
      <4>3. conn' \in [Handshakes -> {"new", "waiting", "counted", "uncounted", "refused", "closed"}]
        BY <3>3 DEF Admit
      <4>4. keySet' \in [Instances -> SUBSET Keys] /\ unseen' \in SUBSET Handshakes
        BY <3>3 DEF Admit
      <4>5. QED BY <4>2, <4>3, <4>4 DEF TakeRecords
    <3>4. CASE AdmitUncounted(h)
      BY <3>4 DEF AdmitUncounted
    <3>5. CASE Increment(h)
      <4>1. Step(h, "total", take[h].key) /\ take[h].key \in Keys /\ take \in [Handshakes -> TakeRecords]
        BY <3>5 DEF Increment, TakeRecords
      <4>2. take' \in [Handshakes -> TakeRecords]
        BY <4>1, StepType
      <4>3. conn' \in [Handshakes -> {"new", "waiting", "counted", "uncounted", "refused", "closed"}]
        BY <3>5 DEF Increment
      <4>4. keySet' \in [Instances -> SUBSET Keys] /\ unseen' \in SUBSET Handshakes
        BY <3>5 DEF Increment
      <4>5. QED BY <4>2, <4>3, <4>4 DEF TakeRecords
    <3>6. CASE TakeOrg(h)
      <4>1. Step(h, "incr", Org) /\ Org \in Keys /\ take \in [Handshakes -> TakeRecords]
        BY <3>6 DEF TakeOrg, TakeRecords
      <4>2. take' \in [Handshakes -> TakeRecords]
        BY <4>1, StepType
      <4>3. conn' \in [Handshakes -> {"new", "waiting", "counted", "uncounted", "refused", "closed"}]
        BY <3>6 DEF TakeOrg
      <4>4. keySet' \in [Instances -> SUBSET Keys] /\ unseen' \in SUBSET Handshakes
        BY <3>6 DEF TakeOrg
      <4>5. QED BY <4>2, <4>3, <4>4 DEF TakeRecords
    <3>7. CASE Admitted(h)
      BY <3>7 DEF Admitted
    <3>8. CASE Refused(h)
      BY <3>8 DEF Refused
    <3>9. CASE AdmissionDeadline(h)
      <4>1. PICK r : r = [take[h] EXCEPT !.late = TRUE]
        OBVIOUS
      <4>2. take \in [Handshakes -> TakeRecords]
        BY DEF TakeRecords
      <4>t. \A x \in TakeRecords : [x EXCEPT !.late = TRUE] \in TakeRecords
        BY DEF TakeRecords
      <4>3. take' = [take EXCEPT ![h] = r]
        BY <3>9, <4>1 DEF AdmissionDeadline
      <4>4. take' \in [Handshakes -> TakeRecords]
        <5>1. r \in TakeRecords
          BY <4>1, <4>2, <4>t
        <5>2. QED BY <4>2, <4>3, <5>1
      <4>5. conn' \in [Handshakes -> {"new", "waiting", "counted", "uncounted", "refused", "closed"}]
        BY <3>9 DEF AdmissionDeadline
      <4>6. UNCHANGED <<keySet, unseen>>
        BY <3>9 DEF AdmissionDeadline
      <4>7. QED BY <4>4, <4>5, <4>6 DEF TakeRecords
    <3>10. CASE TakeFails(h)
      BY <3>10 DEF TakeFails
    <3>11. CASE Close(h)
      BY <3>11 DEF Close
    <3>12. QED
      BY <3>1, <3>3, <3>4, <3>5, <3>6, <3>7, <3>8, <3>9, <3>10, <3>11 DEF HandshakeStep
  <2>2. CASE Release
    <3>1. PICK i \in Instances, k \in Keys : GiveLands(i, k) \/ GiveFails(i, k)
      BY <2>2 DEF Release
    <3>2. CASE GiveLands(i, k)
      BY <3>2 DEF GiveLands, sweeper, sockets, TypeOK, SweepRecords
    <3>3. CASE GiveFails(i, k)
      BY <3>3 DEF GiveFails, hash, sweeper, sockets, TypeOK, SweepRecords
    <3>4. QED BY <3>1, <3>2, <3>3
  <2>3. CASE Heartbeat
    <3> PICK i \in Instances :
        \/ Start(i) \/ Beat(i) \/ BeatFails(i) \/ Settles(i) \/ Lapse(i)
        \/ SweepClaim(i) \/ SweepRead(i) \/ SweepField(i) \/ SweepSet(i) \/ SweepFails(i)
        \/ Crash(i)
      BY <2>3 DEF Heartbeat
    <3>t. /\ sweep \in [Instances -> SweepRecords]
          /\ claimed \in [Instances -> SUBSET Instances]
          /\ keySet \in [Instances -> SUBSET Keys]
          /\ lease \in [Instances -> {"none", "current", "lapsed"}]
      BY DEF TypeOK, SweepRecords
    <3>1. CASE Start(i)
      BY <3>t, <3>1 DEF Start, TypeOK, hash, sweeper, sockets
    <3>2. CASE Beat(i)
      <4> DEFINE lapsed == {j \in Instances : j # i /\ lease[j] = "lapsed"}
                 dead == (lapsed \cup claimed[i]) \ {i}
      <4>1. sweep' = sweep \/ sweep' = [sweep EXCEPT ![i] = SweepOf(dead)]
        BY <3>2 DEF Beat
      <4>2. dead \in SUBSET Instances
        BY <3>t
      <4> HIDE DEF dead
      <4>3. sweep' \in [Instances -> SweepRecords]
        <5>1. SweepOf(dead) \in SweepRecords
          BY <4>2, SweepOfOk DEF SweepRecords
        <5>2. [sweep EXCEPT ![i] = SweepOf(dead)] \in [Instances -> SweepRecords]
          BY <3>t, <5>1
        <5>3. QED BY <3>t, <4>1, <5>2
      <4>4. QED BY <3>2, <4>3 DEF Beat, TypeOK, hash, sockets
    <3>3. CASE BeatFails(i)
      BY <3>t, <3>3 DEF BeatFails, TypeOK, hash, memory, sweeper, sockets
    <3>4. CASE Settles(i)
      BY <3>t, <3>4 DEF Settles, TypeOK, hash, memory, sweeper, sockets
    <3>5. CASE Lapse(i)
      BY <3>t, <3>5 DEF Lapse, TypeOK, hash, memory, sweeper, sockets
    <3>6. CASE SweepClaim(i)
      <4>1. PICK d \in sweep[i].rest :
       IF d \in claimed[i] \/ lease[d] = "lapsed"
       THEN /\ sweep' = [sweep EXCEPT ![i] = [@ EXCEPT !.of = d, !.step = "read"]]
            /\ claimed' = [claimed EXCEPT ![i] = @ \cup {d}]
            /\ lease' = IF d \in claimed[i] THEN lease ELSE [lease EXCEPT ![d] = "none"]
       ELSE /\ sweep' = [sweep EXCEPT ![i] = SweepOf(sweep[i].rest \ {d})]
            /\ UNCHANGED <<claimed, lease>>
        BY <3>6 DEF SweepClaim
      <4>2. d \in Instances /\ sweep[i].rest \ {d} \in SUBSET Instances
        BY <3>t DEF SweepRecords
      <4>3. sweep' \in [Instances -> SweepRecords]
        <5>1. CASE d \in claimed[i] \/ lease[d] = "lapsed"
          <6>1. [sweep[i] EXCEPT !.of = d, !.step = "read"] \in SweepRecords
            BY <3>t, <4>2, SweepTypes
          <6>2. QED BY <3>t, <4>1, <5>1, <6>1
        <5>2. CASE ~(d \in claimed[i] \/ lease[d] = "lapsed")
          <6>1. SweepOf(sweep[i].rest \ {d}) \in SweepRecords
            BY <4>2, SweepOfOk DEF SweepRecords
          <6>2. QED BY <3>t, <4>1, <5>2, <6>1
        <5>3. QED BY <5>1, <5>2
      <4>4. /\ claimed' = claimed \/ claimed' = [claimed EXCEPT ![i] = @ \cup {d}]
            /\ lease' = lease \/ lease' = [lease EXCEPT ![d] = "none"]
        BY <4>1
      <4>5. /\ claimed' \in [Instances -> SUBSET Instances]
            /\ lease' \in [Instances -> {"none", "current", "lapsed"}]
        BY <3>t, <4>2, <4>4
      <4>6. QED BY <3>6, <4>3, <4>5 DEF SweepClaim, TypeOK, hash, memory, sockets
    <3>7. CASE SweepRead(i)
      <4>1. sweep[i].of \in Instances
        BY <3>7 DEF SweepRead, SweepsOk, Gone, Crashed, TypeOK
      <4>2. keySet[sweep[i].of] \in SUBSET Keys
        BY <3>t, <4>1
      <4>3. sweep' \in [Instances -> SweepRecords]
        <5>1. [sweep[i] EXCEPT !.keys = keySet[sweep[i].of], !.step = "fields"] \in SweepRecords
          BY <3>t, <4>2, SweepTypes
        <5>2. QED BY <3>t, <3>7, <5>1 DEF SweepRead
      <4>4. QED BY <3>7, <4>3 DEF SweepRead, TypeOK, hash, memory, sockets
    <3>8. CASE SweepField(i)
      <4>1. \/ sweep' = [sweep EXCEPT ![i].step = "set"]
            \/ \E k \in sweep[i].keys : sweep' = [sweep EXCEPT ![i].keys = @ \ {k}]
        BY <3>8 DEF SweepField
      <4>2. sweep[i].keys \subseteq Keys
        BY <3>t DEF SweepRecords
      <4>3. sweep' \in [Instances -> SweepRecords]
        BY <3>t, <4>1, <4>2 DEF SweepRecords
      <4>4. QED BY <3>8, <4>3 DEF SweepField, TypeOK, hash, memory, sockets
    <3>9. CASE SweepSet(i)
      <4>1. sweep[i].rest \ {sweep[i].of} \in SUBSET Instances
        BY <3>t DEF SweepRecords
      <4>2. sweep' \in [Instances -> SweepRecords]
        <5>1. SweepOf(sweep[i].rest \ {sweep[i].of}) \in SweepRecords
          BY <4>1, SweepOfOk DEF SweepRecords
        <5>2. QED BY <3>t, <3>9, <5>1 DEF SweepSet
      <4>3. QED BY <3>9, <4>2 DEF SweepSet, TypeOK, hash, memory, sockets
    <3>10. CASE SweepFails(i)
      <4>1. sweep' \in [Instances -> SweepRecords]
        BY <3>t, <3>10 DEF SweepFails, NoSweep, SweepRecords
      <4>2. QED BY <3>10, <4>1 DEF SweepFails, TypeOK, hash, memory, sockets
    <3>11. CASE Crash(i)
      <4>1. sweep' \in [Instances -> SweepRecords]
        BY <3>t, <3>11 DEF Crash, NoSweep, SweepRecords
      <4>2. QED BY <3>11, <4>1 DEF Crash, NotTaking, Keys, TypeOK, hash
    <3>12. QED
      BY <3>1, <3>2, <3>3, <3>4, <3>5, <3>6, <3>7, <3>8, <3>9, <3>10, <3>11
  <2>4. CASE Network
    <3>1. outages' \in 0..MaxOutages /\ reachable' \in SUBSET Instances
      BY <2>4 DEF Network, Outage, Recover, TypeOK
    <3>2. UNCHANGED <<hash, lease, phase, memory, sweeper, sockets>>
      BY <2>4 DEF Network, Outage, Recover
    <3>3. QED BY <3>1, <3>2 DEF hash, memory, sweeper, sockets, TypeOK, SweepRecords
  <2>5. CASE UNCHANGED vars
    BY <2>5 DEF vars, hash, memory, sweeper, sockets, TypeOK, SweepRecords
  <2>6. QED BY <2>1, <2>2, <2>3, <2>4, <2>5 DEF Next
<1>3. QED BY <1>1, <1>2 DEF TypeOK, Numbers, SweepRecords

(* Who is not alive is left alone by all but a sweep of it.                  *)
LEMMA DeadUntouched ==
  ASSUME TypeOK, [Next]_vars, NEW d \in Instances, ~Alive(d)
  PROVE  \/ field'[d] = field[d] /\ keySet'[d] = keySet[d]
         \/ \E i \in Instances : sweep[i].of = d /\ (SweepField(i) \/ SweepSet(i))
<1>1. CASE Admission
  <2>1. PICK h \in Handshakes : HandshakeStep(h)
    BY <1>1 DEF Admission, HandshakeStep
  <2>2. QED BY <2>1, OnlyOne
<1>2. CASE Release
  <2>1. PICK i \in Instances, k \in Keys : GiveLands(i, k) \/ GiveFails(i, k)
    BY <1>2 DEF Release
  <2>2. Alive(i)
    BY <2>1 DEF GiveLands, GiveFails
  <2>3. QED BY <2>1, <2>2 DEF GiveLands, GiveFails, hash, TypeOK
<1>3. CASE Heartbeat
  <2>1. PICK i \in Instances :
        \/ Start(i) \/ Beat(i) \/ BeatFails(i) \/ Settles(i) \/ Lapse(i)
        \/ SweepClaim(i) \/ SweepRead(i) \/ SweepField(i) \/ SweepSet(i) \/ SweepFails(i)
        \/ Crash(i)
    BY <1>3 DEF Heartbeat
  <2>2. CASE SweepField(i) /\ sweep[i].of # d
    <3>1. field' = field \/ \E k \in Keys : field' = [field EXCEPT ![sweep[i].of][k] = 0]
      BY <2>2 DEF SweepField, TypeOK
    <3>2. field'[d] = field[d]
      BY <2>2, <3>1 DEF TypeOK
    <3>3. QED BY <2>2, <3>2 DEF SweepField
  <2>3. CASE SweepSet(i) /\ sweep[i].of # d
    BY <2>3 DEF SweepSet, TypeOK
  <2>4. CASE Start(i) \/ Beat(i) \/ BeatFails(i) \/ Settles(i) \/ Lapse(i)
               \/ SweepClaim(i) \/ SweepRead(i) \/ SweepFails(i) \/ Crash(i)
    BY <2>4 DEF Start, Beat, BeatFails, Settles, Lapse, SweepClaim, SweepRead, SweepFails,
         Crash, hash
  <2>5. QED BY <2>1, <2>2, <2>3, <2>4
<1>4. CASE Network \/ UNCHANGED vars
  BY <1>4 DEF Network, Outage, Recover, vars, hash
<1>5. QED BY <1>1, <1>2, <1>3, <1>4 DEF Next

(* A step of a sweep is of an instance that is gone, and erases.             *)
LEMMA SweepErases ==
  ASSUME TypeOK, SweepsOk, NEW i \in Instances, SweepField(i) \/ SweepSet(i)
  PROVE  /\ sweep[i].of \in Gone /\ sweep[i].of \in Instances
         /\ \A d \in Instances, k \in Keys : field'[d][k] = field[d][k] \/ field'[d][k] = 0
<1>1. sweep[i].of \in Gone /\ sweep[i].of \in Instances
  BY DEF SweepField, SweepSet, SweepsOk, Gone, Crashed, TypeOK
<1>2. field' = field \/ \E k \in Keys : field' = [field EXCEPT ![sweep[i].of][k] = 0]
  BY DEF SweepField, SweepSet, TypeOK
<1>3. field \in [Instances -> [Keys -> Nat]]
  BY DEF TypeOK
<1>4. CASE field' = field
  BY <1>1, <1>4
<1>5. ASSUME NEW q \in Keys, field' = [field EXCEPT ![sweep[i].of][q] = 0]
      PROVE  \A d \in Instances, k \in Keys : field'[d][k] = field[d][k] \/ field'[d][k] = 0
  BY <1>1, <1>3, <1>5
<1>6. QED BY <1>1, <1>2, <1>4, <1>5

(* Every count is under a key of the instance's set.                         *)
LEMMA FoundStep ==
  ASSUME TypeOK, TypeOK', SweepsOk, SweepsSee, FieldsAreFound, TakesOk', CountsHold',
         [Next]_vars
  PROVE  FieldsAreFound'
<1> SUFFICES ASSUME NEW d \in Instances, d \notin silent', NEW k \in Keys, field'[d][k] > 0
             PROVE  k \in keySet'[d]
  BY DEF FieldsAreFound
<1>s. d \notin silent
  BY SilentGrows
<1>f. field[d][k] > 0 => k \in keySet[d]
  BY <1>s DEF FieldsAreFound
<1>n. field[d][k] \in Nat /\ field'[d][k] \in Nat /\ held'[d][k] \in Nat
  BY DEF TypeOK
<1>1. CASE Alive(d)'
  <2>1. Cardinality(InIncr(d, k)') \in Nat
    BY CountsAreNumbers
  <2>2. QED BY <1>1, <1>n, <2>1 DEF CountsHold, Sound
<1>2. CASE ~Alive(d) /\ ~Alive(d)'
  <2>1. CASE field'[d] = field[d] /\ keySet'[d] = keySet[d]
    BY <1>f, <2>1
  <2>2. CASE \E i \in Instances : sweep[i].of = d /\ (SweepField(i) \/ SweepSet(i))
    <3>1. PICK i \in Instances : sweep[i].of = d /\ (SweepField(i) \/ SweepSet(i))
      BY <2>2
    <3>2. field[d][k] > 0
      <4>1. field'[d][k] = field[d][k] \/ field'[d][k] = 0
        BY <3>1, SweepErases
      <4>2. QED BY <1>n, <4>1
    <3>3. SweepField(i)
      BY <1>s, <3>1, <3>2 DEF SweepSet, SweepsSee
    <3>4. keySet' = keySet
      BY <3>3 DEF SweepField
    <3>5. QED BY <1>f, <3>2, <3>4
  <2>3. QED BY <1>2, <2>1, <2>2, DeadUntouched
<1>3. CASE Alive(d) /\ ~Alive(d)'
  <2>1. Crash(d)
    <3>1. CASE Admission
      BY <1>3, <3>1, OnlyOne DEF Admission, HandshakeStep, Alive
    <3>2. CASE Heartbeat
      <4>1. PICK i \in Instances :
        \/ Start(i) \/ Beat(i) \/ BeatFails(i) \/ Settles(i) \/ Lapse(i)
        \/ SweepClaim(i) \/ SweepRead(i) \/ SweepField(i) \/ SweepSet(i) \/ SweepFails(i)
        \/ Crash(i)
        BY <3>2 DEF Heartbeat
      <4>2. CASE Start(i)
        BY <1>3, <4>2 DEF Start, Alive, TypeOK
      <4>3. CASE Crash(i)
        <5>1. d = i
          BY <1>3, <4>3 DEF Crash, Alive, TypeOK
        <5>2. QED BY <4>3, <5>1
      <4>4. CASE Beat(i) \/ BeatFails(i) \/ Settles(i) \/ Lapse(i) \/ SweepClaim(i)
                   \/ SweepRead(i) \/ SweepField(i) \/ SweepSet(i) \/ SweepFails(i)
        BY <1>3, <4>4 DEF Beat, BeatFails, Settles, Lapse, SweepClaim, SweepRead, SweepField,
             SweepSet, SweepFails, Alive
      <4>5. QED BY <4>1, <4>2, <4>3, <4>4
    <3>3. CASE Release \/ Network \/ UNCHANGED vars
      BY <1>3, <3>3 DEF Release, GiveLands, GiveFails, Network, Outage, Recover, vars, Alive
    <3>4. QED BY <3>1, <3>2, <3>3 DEF Next
  <2>2. QED BY <1>f, <2>1 DEF Crash, hash
<1>4. QED BY <1>1, <1>2, <1>3

(* What a sweep has still to erase is among what it has read.                *)
LEMMA SeeStep ==
  ASSUME TypeOK, TypeOK', SweepsOk, SweepsSee, FieldsAreFound, [Next]_vars
  PROVE  SweepsSee'
<1> SUFFICES ASSUME NEW i \in Instances, sweep'[i].step \in {"fields", "set"},
                    sweep'[i].of \notin silent'
             PROVE  /\ \A k \in Keys : field'[sweep'[i].of][k] > 0 => k \in sweep'[i].keys
                    /\ sweep'[i].step = "set" => sweep'[i].keys = {}
  BY DEF SweepsSee
<1>s. sweep'[i].of \notin silent
  BY SilentGrows
<1>1. CASE sweep'[i] = sweep[i]
  <2> DEFINE d == sweep[i].of
  <2>1. d \in Instances /\ ~Alive(d)
    BY <1>1, <1>s DEF SweepsOk, Gone, Crashed, Alive
  <2>2. \A k \in Keys : field[d][k] > 0 => k \in sweep[i].keys
    BY <1>1, <1>s DEF SweepsSee
  <2>3. \A k \in Keys : field'[d][k] > 0 => field[d][k] > 0
    <3>1. CASE field'[d] = field[d]
      BY <3>1
    <3>2. ASSUME NEW j \in Instances, SweepField(j) \/ SweepSet(j)
          PROVE  \A k \in Keys : field'[d][k] > 0 => field[d][k] > 0
      <4>1. \A k \in Keys : field'[d][k] = field[d][k] \/ field'[d][k] = 0
        BY <2>1, <3>2, SweepErases
      <4>2. QED BY <4>1
    <3>3. QED BY <2>1, <3>1, <3>2, DeadUntouched
  <2>4. QED BY <1>1, <1>s, <2>2, <2>3 DEF SweepsSee
<1>2. CASE SweepRead(i)
  <2>1. sweep'[i].of = sweep[i].of /\ sweep'[i].keys = keySet[sweep[i].of]
        /\ sweep'[i].step = "fields" /\ field' = field
    <3>1. sweep'[i] = [sweep[i] EXCEPT !.keys = keySet[sweep[i].of], !.step = "fields"]
      BY <1>2 DEF SweepRead, TypeOK
    <3>2. QED BY <1>2, <3>1 DEF SweepRead, hash, TypeOK
  <2>2. sweep[i].of \in Instances \ silent
    BY <1>2, <1>s, <2>1 DEF SweepRead, SweepsOk, Gone, Crashed
  <2>3. QED BY <2>1, <2>2 DEF FieldsAreFound
<1>3. CASE SweepField(i)
  <2>1. sweep[i].of \in Instances
    BY <1>3, SweepErases
  <2>o. sweep'[i].of = sweep[i].of
    <3>1. \/ sweep' = [sweep EXCEPT ![i].step = "set"]
          \/ \E k \in sweep[i].keys : sweep' = [sweep EXCEPT ![i].keys = @ \ {k}]
      BY <1>3 DEF SweepField
    <3>2. QED BY <3>1 DEF TypeOK
  <2>2. \A k \in Keys : field[sweep[i].of][k] > 0 => k \in sweep[i].keys
    BY <1>3, <1>s, <2>o DEF SweepField, SweepsSee
  <2>3. CASE sweep[i].keys = {}
    <3>1. field' = field /\ sweep' = [sweep EXCEPT ![i].step = "set"]
      BY <1>3, <2>3 DEF SweepField
    <3>2. sweep'[i].of = sweep[i].of /\ sweep'[i].keys = sweep[i].keys
      BY <3>1 DEF TypeOK
    <3>3. QED BY <2>2, <2>3, <3>1, <3>2
  <2>4. CASE sweep[i].keys # {}
    <3>1. PICK q \in sweep[i].keys :
            /\ field' = [field EXCEPT ![sweep[i].of][q] = 0]
            /\ sweep' = [sweep EXCEPT ![i].keys = @ \ {q}]
      BY <1>3, <2>4 DEF SweepField
    <3>2. sweep'[i].of = sweep[i].of /\ sweep'[i].keys = sweep[i].keys \ {q}
          /\ sweep'[i].step = "fields"
      BY <1>3, <3>1 DEF SweepField, TypeOK
    <3>3. \A k \in Keys : field'[sweep[i].of][k] > 0 => k # q /\ field[sweep[i].of][k] > 0
      BY <2>1, <3>1 DEF TypeOK
    <3>4. QED BY <2>2, <3>2, <3>3
  <2>5. QED BY <2>3, <2>4
<1>4. \/ sweep'[i] = sweep[i] \/ sweep'[i].step \in {"idle", "claim", "read"}
      \/ SweepRead(i) \/ SweepField(i)
  <2>1. CASE Admission
    BY <2>1, OnlyOne DEF Admission, HandshakeStep
  <2>2. CASE Release \/ Network \/ UNCHANGED vars
    BY <2>2 DEF Release, GiveLands, GiveFails, Network, Outage, Recover, vars, sweeper
  <2>3. CASE Heartbeat
    <3>1. PICK j \in Instances :
        \/ Start(j) \/ Beat(j) \/ BeatFails(j) \/ Settles(j) \/ Lapse(j)
        \/ SweepClaim(j) \/ SweepRead(j) \/ SweepField(j) \/ SweepSet(j) \/ SweepFails(j)
        \/ Crash(j)
      BY <2>3 DEF Heartbeat
    <3>2. CASE Start(j) \/ BeatFails(j) \/ Settles(j) \/ Lapse(j)
      BY <3>2 DEF Start, BeatFails, Settles, Lapse, sweeper
    <3>t. sweep \in [Instances -> SweepRecords]
      BY DEF TypeOK, SweepRecords
    <3>o. \A dead : SweepOf(dead).step \in {"idle", "claim"}
      BY DEF SweepOf, NoSweep
    <3>3. CASE Beat(j)
      <4>1. sweep' = sweep \/ \E dead : sweep' = [sweep EXCEPT ![j] = SweepOf(dead)]
        BY <3>3 DEF Beat
      <4>2. QED BY <3>t, <3>o, <4>1
    <3>4. CASE SweepClaim(j)
      <4>1. \/ \E d \in sweep[j].rest :
                 sweep' = [sweep EXCEPT ![j] = [@ EXCEPT !.of = d, !.step = "read"]]
            \/ \E dead : sweep' = [sweep EXCEPT ![j] = SweepOf(dead)]
        BY <3>4 DEF SweepClaim
      <4>2. ASSUME NEW d \in sweep[j].rest,
                   sweep' = [sweep EXCEPT ![j] = [@ EXCEPT !.of = d, !.step = "read"]]
            PROVE  sweep'[i] = sweep[i] \/ sweep'[i].step = "read"
        <5>1. sweep'[j] = [sweep[j] EXCEPT !.of = d, !.step = "read"]
          BY <3>t, <4>2
        <5>2. sweep'[j].step = "read"
          BY <3>t, <5>1 DEF SweepRecords
        <5>3. QED BY <3>t, <4>2, <5>2
      <4>3. CASE \E dead : sweep' = [sweep EXCEPT ![j] = SweepOf(dead)]
        BY <3>t, <3>o, <4>3
      <4>4. QED BY <4>1, <4>2, <4>3
    <3>5. CASE SweepRead(j) \/ SweepField(j)
      <4>1. j # i => sweep'[i] = sweep[i]
        <5>1. CASE SweepRead(j)
          BY <3>t, <5>1 DEF SweepRead
        <5>2. CASE SweepField(j)
          BY <3>t, <5>2 DEF SweepField
        <5>3. QED BY <3>5, <5>1, <5>2
      <4>2. QED BY <3>5, <4>1
    <3>6. CASE SweepSet(j) \/ SweepFails(j) \/ Crash(j)
      <4>1. \/ \E dead : sweep' = [sweep EXCEPT ![j] = SweepOf(dead)]
            \/ sweep' = [sweep EXCEPT ![j] = NoSweep]
        BY <3>6 DEF SweepSet, SweepFails, Crash
      <4>2. QED BY <3>t, <3>o, <4>1 DEF NoSweep
    <3>7. QED BY <3>1, <3>2, <3>3, <3>4, <3>5, <3>6
  <2>4. QED BY <2>1, <2>2, <2>3 DEF Next
<1>5. QED BY <1>1, <1>2, <1>3, <1>4

(***************************************************************************)
(* Sums of fields.  A fold is a function of the subsets of a set, chosen   *)
(* to satisfy its recursion: that there is one, and that it bounds what it *)
(* should, follow by least counterexamples.                                *)
(***************************************************************************)

(* A set of numbers that is not empty has a least.                           *)
LEMMA LeastOf ==
  ASSUME NEW T, T \subseteq Nat, T # {}
  PROVE  \E n \in T : \A m \in T : n <= m
<1>1. PICK n \in T : \A m \in T : ~(<<m, n>> \in OpToRel(<, Nat))
  BY NatLessThanWellFounded, WFMin
<1>2. \A m \in T : ~(m < n)
  BY <1>1 DEF OpToRel
<1>3. QED BY <1>2

(* The sum of the fields of a set, as a function of its subsets.             *)
FieldSum(S, k) == MapThenSumSet(LAMBDA j : field[j][k], S)
Pick(s) == CHOOSE x \in s : TRUE
SumsTo(F, k, S, n) ==
  \A s \in SUBSET S : Cardinality(s) <= n =>
    F[s] = IF s = {} THEN 0 ELSE field[Pick(s)][k] + F[s \ {Pick(s)}]

LEMMA Picked ==
  ASSUME NEW S, IsFiniteSet(S), NEW s \in SUBSET S
  PROVE  /\ IsFiniteSet(s) /\ Cardinality(s) \in Nat /\ Cardinality(s) <= Cardinality(S)
         /\ Cardinality(S) \in Nat
         /\ s = {} => Cardinality(s) = 0
         /\ s # {} => /\ Pick(s) \in s /\ s \ {Pick(s)} \in SUBSET S
                      /\ Cardinality(s \ {Pick(s)}) = Cardinality(s) - 1
                      /\ Cardinality(s \ {Pick(s)}) \in Nat
<1>1. /\ IsFiniteSet(s) /\ Cardinality(s) \in Nat /\ Cardinality(s) <= Cardinality(S)
      /\ Cardinality(S) \in Nat
  BY FS_Subset, FS_CardinalityType
<1>2. s = {} => Cardinality(s) = 0
  BY FS_EmptySet
<1>3. s # {} => Pick(s) \in s /\ s \ {Pick(s)} \in SUBSET S
  BY DEF Pick
<1>4. s # {} => /\ Cardinality(s \ {Pick(s)}) = Cardinality(s) - 1
                /\ Cardinality(s \ {Pick(s)}) \in Nat
  <2> SUFFICES ASSUME s # {}
               PROVE  /\ Cardinality(s \ {Pick(s)}) = Cardinality(s) - 1
                      /\ Cardinality(s \ {Pick(s)}) \in Nat
    OBVIOUS
  <2>1. Pick(s) \in s
    BY <1>3
  <2> HIDE DEF Pick
  <2>2. IsFiniteSet(s \ {Pick(s)}) /\ Cardinality(s \ {Pick(s)}) = Cardinality(s) - 1
    BY <1>1, <2>1, FS_RemoveElement
  <2>3. QED BY <2>2, FS_CardinalityType
<1>5. QED BY <1>1, <1>2, <1>3, <1>4


LEMMA SumsExist ==
  ASSUME NEW S, IsFiniteSet(S), NEW k
  PROVE  \A n \in Nat : \E F : F = [s \in SUBSET S |-> F[s]] /\ SumsTo(F, k, S, n)
<1> DEFINE Has(n) == \E F : F = [s \in SUBSET S |-> F[s]] /\ SumsTo(F, k, S, n)
           T == {n \in Nat : ~Has(n)}
<1>1. Has(0)
  <2> DEFINE F == [s \in SUBSET S |-> 0]
  <2>1. ASSUME NEW s \in SUBSET S, Cardinality(s) <= 0 PROVE s = {}
    <3>1. /\ Cardinality(s) \in Nat
          /\ s # {} => /\ Cardinality(s \ {Pick(s)}) = Cardinality(s) - 1
                       /\ Cardinality(s \ {Pick(s)}) \in Nat
      BY Picked
    <3>2. QED BY <2>1, <3>1
  <2>2. F = [s \in SUBSET S |-> F[s]] /\ SumsTo(F, k, S, 0)
    BY <2>1 DEF SumsTo
  <2>3. QED BY <2>2
<1>2. ASSUME NEW n \in Nat, Has(n) PROVE Has(n + 1)
  <2>1. PICK F : F = [s \in SUBSET S |-> F[s]] /\ SumsTo(F, k, S, n)
    BY <1>2
  <2> DEFINE G == [s \in SUBSET S |->
                     IF Cardinality(s) <= n THEN F[s] ELSE field[Pick(s)][k] + F[s \ {Pick(s)}]]
  <2>2. ASSUME NEW s \in SUBSET S, Cardinality(s) <= n + 1
        PROVE  G[s] = IF s = {} THEN 0 ELSE field[Pick(s)][k] + G[s \ {Pick(s)}]
    <3>1. CASE s = {}
      <4>1. Cardinality(s) <= n
        BY <3>1, FS_EmptySet
      <4>2. F[s] = 0
        BY <2>1, <3>1, <4>1 DEF SumsTo
      <4>3. QED BY <3>1, <4>1, <4>2
    <3>2. CASE s # {}
      <4>1. /\ s \ {Pick(s)} \in SUBSET S /\ Cardinality(s \ {Pick(s)}) <= n
            /\ Cardinality(s) \in Nat
        <5>1. /\ s \ {Pick(s)} \in SUBSET S /\ Cardinality(s) \in Nat
              /\ Cardinality(s \ {Pick(s)}) = Cardinality(s) - 1
          BY <3>2, Picked
        <5>2. QED BY <2>2, <5>1
      <4>2. G[s \ {Pick(s)}] = F[s \ {Pick(s)}]
        BY <4>1
      <4>3. Cardinality(s) <= n => F[s] = field[Pick(s)][k] + F[s \ {Pick(s)}]
        BY <2>1, <3>2 DEF SumsTo
      <4>4. G[s] = field[Pick(s)][k] + F[s \ {Pick(s)}]
        BY <4>3
      <4>5. QED BY <3>2, <4>2, <4>4
    <3>3. QED BY <3>1, <3>2
  <2>3. G = [s \in SUBSET S |-> G[s]] /\ SumsTo(G, k, S, n + 1)
    BY <2>2 DEF SumsTo
  <2>4. QED BY <2>3
<1> HIDE DEF Has
<1>3. T = {}
  <2> SUFFICES ASSUME T # {} PROVE FALSE
    OBVIOUS
  <2>1. PICK n \in T : \A m \in T : n <= m
    BY LeastOf
  <2>2. n # 0 /\ n - 1 \in Nat /\ n - 1 \notin T
    BY <1>1, <2>1
  <2>3. Has(n - 1) /\ (n - 1) + 1 = n
    BY <2>2
  <2>4. Has(n)
    BY <1>2, <2>2, <2>3
  <2>5. QED BY <2>4
<1>4. \A n \in Nat : Has(n)
  BY <1>3
<1>5. QED BY <1>4 DEF Has

Sums(F, S, k) ==
  \A s \in SUBSET S : F[s] = IF s = {} THEN 0 ELSE field[Pick(s)][k] + F[s \ {Pick(s)}]

LEMMA SumIsRecursive ==
  ASSUME NEW S, IsFiniteSet(S), NEW k
  PROVE  \E F : FieldSum(S, k) = F[S] /\ Sums(F, S, k)
<1> DEFINE F == CHOOSE F : F = [s \in SUBSET S |-> IF s = {} THEN 0
                   ELSE field[CHOOSE x \in s : TRUE][k] + F[s \ {CHOOSE x \in s : TRUE}]]
<1>1. FieldSum(S, k) = F[S]
  BY DEF FieldSum, MapThenSumSet, MapThenFoldSet
<1>2. PICK G : G = [s \in SUBSET S |-> G[s]] /\ SumsTo(G, k, S, Cardinality(S))
  BY SumsExist, FS_CardinalityType
<1>3. \A s \in SUBSET S : G[s] = IF s = {} THEN 0 ELSE field[Pick(s)][k] + G[s \ {Pick(s)}]
  BY <1>2, Picked DEF SumsTo
<1>4. G = [s \in SUBSET S |-> IF s = {} THEN 0
                   ELSE field[CHOOSE x \in s : TRUE][k] + G[s \ {CHOOSE x \in s : TRUE}]]
  BY <1>2, <1>3 DEF Pick
<1>5. F = [s \in SUBSET S |-> IF s = {} THEN 0
                   ELSE field[CHOOSE x \in s : TRUE][k] + F[s \ {CHOOSE x \in s : TRUE}]]
  BY <1>4
<1> HIDE DEF F
<1>6. \A s \in SUBSET S : F[s] = IF s = {} THEN 0 ELSE field[Pick(s)][k] + F[s \ {Pick(s)}]
  BY <1>5 DEF Pick
<1>7. QED BY <1>1, <1>6 DEF Sums

(* What is spread over a set of holders, none with more than its number, is  *)
(* no more than the sum of the numbers.                                      *)
LEMMA SumBounds ==
  ASSUME NEW S, IsFiniteSet(S), NEW k, NEW A, NEW U, IsFiniteSet(U),
         \A j \in S : field[j][k] \in Nat /\ A[j] \in SUBSET U /\ Cardinality(A[j]) <= field[j][k]
  PROVE  /\ FieldSum(S, k) \in Nat
         /\ Cardinality(UNION {A[j] : j \in S}) <= FieldSum(S, k)
<1>1. PICK F : FieldSum(S, k) = F[S] /\ Sums(F, S, k)
  BY SumIsRecursive
<1> DEFINE All(s) == UNION {A[j] : j \in s}
           Ok(s) == F[s] \in Nat /\ Cardinality(All(s)) <= F[s]
           T == {n \in Nat : \E s \in SUBSET S : Cardinality(s) = n /\ ~Ok(s)}
<1>2. Ok({})
  <2>1. All({}) = {}
    OBVIOUS
  <2>2. F[{}] = 0
    BY <1>1 DEF Sums
  <2>3. Cardinality(All({})) = 0
    BY <2>1, FS_EmptySet
  <2>4. QED BY <2>2, <2>3
<1>3. ASSUME NEW s \in SUBSET S, s # {}, Ok(s \ {Pick(s)}) PROVE Ok(s)
  <2> DEFINE x == Pick(s)
             r == s \ {x}
  <2>1. x \in s /\ r \in SUBSET S
    BY <1>3, Picked
  <2>2. F[s] = field[x][k] + F[r]
    BY <1>1, <1>3 DEF Sums
  <2>3. All(s) = A[x] \cup All(r)
    BY <2>1
  <2>4. A[x] \in SUBSET U /\ All(r) \in SUBSET U
    BY <2>1
  <2>5. IsFiniteSet(A[x]) /\ IsFiniteSet(All(r))
    BY <2>4, FS_Subset
  <2>6. /\ Cardinality(A[x] \cup All(r)) <= Cardinality(A[x]) + Cardinality(All(r))
        /\ Cardinality(A[x]) \in Nat /\ Cardinality(All(r)) \in Nat
        /\ Cardinality(A[x] \cup All(r)) \in Nat
    <3> HIDE DEF All
    <3>1. /\ IsFiniteSet(A[x] \cup All(r)) /\ IsFiniteSet(A[x] \cap All(r))
          /\ Cardinality(A[x] \cup All(r))
               = Cardinality(A[x]) + Cardinality(All(r)) - Cardinality(A[x] \cap All(r))
      BY <2>5, FS_Union, FS_Intersection
    <3>2. /\ Cardinality(A[x]) \in Nat /\ Cardinality(All(r)) \in Nat
          /\ Cardinality(A[x] \cap All(r)) \in Nat /\ Cardinality(A[x] \cup All(r)) \in Nat
      BY <2>5, <3>1, FS_CardinalityType
    <3>3. QED BY <3>1, <3>2
  <2>7. field[x][k] \in Nat /\ Cardinality(A[x]) <= field[x][k]
    BY <2>1
  <2>8. F[r] \in Nat /\ Cardinality(All(r)) <= F[r]
    BY <1>3
  <2>9. Cardinality(All(s)) = Cardinality(A[x] \cup All(r))
    BY <2>3
  <2> HIDE DEF All, r, x
  <2>10. F[s] \in Nat /\ Cardinality(All(s)) <= F[s]
    BY <2>2, <2>6, <2>7, <2>8, <2>9
  <2>11. QED BY <2>10
<1> HIDE DEF Ok
<1>4. T = {}
  <2> SUFFICES ASSUME T # {} PROVE FALSE
    OBVIOUS
  <2>1. PICK n \in T : \A m \in T : n <= m
    BY LeastOf
  <2>2. PICK s \in SUBSET S : Cardinality(s) = n /\ ~Ok(s)
    BY <2>1
  <2>3. s # {}
    BY <1>2, <2>2
  <2>4. /\ s \ {Pick(s)} \in SUBSET S /\ Cardinality(s \ {Pick(s)}) = n - 1
        /\ Cardinality(s \ {Pick(s)}) \in Nat
    BY <2>2, <2>3, Picked
  <2>5. ~Ok(s \ {Pick(s)})
    BY <1>3, <2>2, <2>3
  <2>6. n - 1 \in T
    BY <2>4, <2>5
  <2>7. QED BY <2>1, <2>6
<1>5. Ok(S)
  BY <1>4, FS_CardinalityType
<1>6. QED BY <1>1, <1>5 DEF Ok

(***************************************************************************)
(* The caps.  A handshake has passed a key once the total it read was      *)
(* within the cap and for as long as its count is not given back.          *)
(***************************************************************************)
Passed(h, k) == conn[h] = "counted" \/ (take[h].step # "none" /\ take[h].key = Org /\ k = User)
PassedSeen(k) == {h \in Handshakes : Passed(h, k) /\ h \notin unseen}
CapsHold == \A k \in Keys : Cardinality(PassedSeen(k)) <= Cap[k]

LEMMA PassedCounts ==
  ASSUME NEW k \in Keys
  PROVE  /\ IsFiniteSet(PassedSeen(k)) /\ IsFiniteSet(PassedSeen(k)')
         /\ PassedSeen(k)' \subseteq PassedSeen(k) =>
              Cardinality(PassedSeen(k)') <= Cardinality(PassedSeen(k))
<1>1. PassedSeen(k) \subseteq Handshakes /\ PassedSeen(k)' \subseteq Handshakes
  BY DEF PassedSeen
<1>2. IsFiniteSet(PassedSeen(k)) /\ IsFiniteSet(PassedSeen(k)')
  BY <1>1, FS_Subset, CounterAssumption
<1>3. QED BY <1>2, FS_Subset

(* A total read within the cap bounds the handshakes of the instances that   *)
(* were alive, if all of them were known.                                    *)
LEMMA WithinBounds ==
  ASSUME IInv, NEW h \in Handshakes, Within(h),
         \A j \in Instances : Alive(j) => j \in live[at[h]] /\ j \notin silent,
         NEW P, P \subseteq Handshakes, \A g \in P : HasLanded(g, take[h].key)
  PROVE  Cardinality(P) <= Cap[take[h].key]
<1> DEFINE i == at[h]
           k == take[h].key
           S == live[i] \cup {i}
           A == [j \in Instances |-> Landed(j, k)]
<1>1. i \in Instances /\ k \in Keys /\ S \subseteq Instances
  BY DEF IInv, TypeOK
<1>2. IsFiniteSet(S) /\ IsFiniteSet(Handshakes)
  BY <1>1, FS_Subset, CounterAssumption
<1>3. \A j \in S : field[j][k] \in Nat /\ A[j] \in SUBSET Handshakes
                     /\ Cardinality(A[j]) <= field[j][k]
  <2> SUFFICES ASSUME NEW j \in S
               PROVE  field[j][k] \in Nat /\ A[j] \in SUBSET Handshakes
                        /\ Cardinality(A[j]) <= field[j][k]
    OBVIOUS
  <2>1. j \in Instances /\ A[j] = Landed(j, k)
    BY <1>1
  <2>2. /\ field[j][k] \in Nat /\ gives[j][k] \in Nat /\ unreleased[j][k] \in Nat
        /\ Cardinality(Landed(j, k)) \in Nat
    BY <1>1, <2>1, CountsAreNumbers DEF IInv, TypeOK
  <2>3. Cardinality(Landed(j, k)) <= field[j][k]
    <3>1. CASE Alive(j)
      <4>1. gives[j][k] + unreleased[j][k] + Cardinality(Landed(j, k)) <= field[j][k]
        BY <1>1, <2>1, <3>1 DEF IInv, CountsHold, Sound
      <4>2. QED BY <2>2, <4>1
    <3>2. CASE ~Alive(j)
      <4>1. Landed(j, k) = {}
        BY <3>2 DEF IInv, TakesOk, Landed, HasLanded
      <4>2. Cardinality(Landed(j, k)) = 0
        BY <4>1, FS_EmptySet
      <4>3. QED BY <2>2, <4>2
    <3>3. QED BY <3>1, <3>2
  <2>4. QED BY <2>1, <2>2, <2>3 DEF Landed
<1>4. P \subseteq UNION {A[j] : j \in S}
  <2> SUFFICES ASSUME NEW g \in P PROVE \E j \in S : g \in A[j]
    OBVIOUS
  <2>1. Alive(at[g]) /\ at[g] \in Instances
    <3>1. conn[g] = "counted" \/ take[g].step # "none"
      BY DEF HasLanded
    <3>2. QED BY <3>1 DEF IInv, TakesOk, TypeOK
  <2>2. at[g] \in S
    BY <2>1
  <2>3. QED BY <2>1, <2>2 DEF Landed
<1>5. /\ FieldSum(S, k) \in Nat
      /\ Cardinality(UNION {A[j] : j \in S}) <= FieldSum(S, k)
  <2> HIDE DEF A, S, i, k
  <2>1. QED BY <1>2, <1>3, SumBounds
<1>6. UNION {A[j] : j \in S} \subseteq Handshakes
  BY <1>3
<1>7. Cardinality(P) <= Cardinality(UNION {A[j] : j \in S})
      /\ Cardinality(P) \in Nat /\ Cardinality(UNION {A[j] : j \in S}) \in Nat
  BY <1>2, <1>4, <1>6, FS_Subset, FS_CardinalityType
<1>8. FieldSum(S, k) <= Cap[k] /\ Cap[k] \in Nat
  BY <1>1, CounterAssumption DEF Within, LiveTotal, FieldSum
<1> HIDE DEF A, S, i, k
<1>9. Cardinality(P) <= Cap[k]
  BY <1>5, <1>7, <1>8
<1>10. QED BY <1>9 DEF k

(* Who joins those that have passed a key has read a total within its cap.   *)
LEMMA CapStep ==
  ASSUME IInv, CapsHold, [Next]_vars
  PROVE  CapsHold'
<1>c. ASSUME NEW k \in Keys,
             \/ PassedSeen(k)' \subseteq PassedSeen(k)
             \/ Cardinality(PassedSeen(k)') <= Cap[k]
      PROVE  Cardinality(PassedSeen(k)') <= Cap[k]
  <2>1. Cardinality(PassedSeen(k)) <= Cap[k]
    BY DEF CapsHold
  <2>2. /\ Cardinality(PassedSeen(k)) \in Nat /\ Cardinality(PassedSeen(k)') \in Nat
        /\ Cap[k] \in Nat
    BY PassedCounts, FS_CardinalityType, CounterAssumption
  <2>3. QED BY <1>c, <2>1, <2>2, PassedCounts
<1> SUFFICES ASSUME NEW k \in Keys
             PROVE  \/ PassedSeen(k)' \subseteq PassedSeen(k)
                    \/ Cardinality(PassedSeen(k)') <= Cap[k]
  BY <1>c DEF CapsHold
<1>1. TypeOK /\ TakesOk
  BY DEF IInv
<1>j. ASSUME NEW h \in Handshakes, HandshakeStep(h), Within(h), Check(h),
             take[h].step = "total", take[h].key = k
      PROVE  \/ PassedSeen(k)' \subseteq PassedSeen(k)
             \/ Cardinality(PassedSeen(k)') <= Cap[k]
  <2>1. \A g \in Handshakes \ {h} : Passed(g, k)' <=> Passed(g, k)
    BY <1>1, <1>j, OnlyOne DEF Passed
  <2>2. CASE \A j \in Instances : Alive(j) => j \in live[at[h]] /\ j \notin silent
    <3>1. \A g \in PassedSeen(k)' : HasLanded(g, k)
      <4>1. HasLanded(h, k)
        BY <1>j DEF HasLanded
      <4>2. \A g \in Handshakes : Passed(g, k) => HasLanded(g, k)
        BY DEF Passed, HasLanded
      <4>3. QED BY <2>1, <4>1, <4>2 DEF PassedSeen
    <3>2. PassedSeen(k)' \subseteq Handshakes
      BY DEF PassedSeen
    <3>3. QED BY <1>j, <2>2, <3>1, <3>2, WithinBounds
  <2>3. CASE ~\A j \in Instances : Alive(j) => j \in live[at[h]] /\ j \notin silent
    <3>1. unseen' = unseen \cup {h}
      BY <1>j, <2>3 DEF Check
    <3>2. QED BY <2>1, <3>1 DEF PassedSeen
  <2>4. QED BY <2>2, <2>3
<1>s. ASSUME unseen \subseteq unseen', \A g \in Handshakes : Passed(g, k)' => Passed(g, k)
      PROVE  PassedSeen(k)' \subseteq PassedSeen(k)
  BY <1>s DEF PassedSeen
<1>2. CASE Admission
  <2>1. PICK h \in Handshakes : HandshakeStep(h)
    BY <1>2 DEF Admission, HandshakeStep
  <2>2. \A g \in Handshakes \ {h} : Passed(g, k)' <=> Passed(g, k)
    BY <1>1, <2>1, OnlyOne DEF Passed
  <2> USE <1>1, <2>2 DEF TypeOK, Step, Taken, NotTaking, Passed, Keys
  <2>3. CASE Admit(h)
    BY <1>s, <2>3, CounterAssumption DEF Admit
  <2>4. CASE AdmitUncounted(h)
    BY <1>s, <2>4 DEF AdmitUncounted
  <2>5. CASE Increment(h)
    BY <1>s, <2>5 DEF Increment
  <2>6. CASE TakeOrg(h)
    <3>1. CASE k = User
      BY <1>j, <2>1, <2>6, <3>1 DEF TakeOrg
    <3>2. CASE k # User
      BY <1>s, <2>6, <3>2 DEF TakeOrg, Check
    <3>3. QED BY <3>1, <3>2
  <2>7. CASE Admitted(h)
    <3>1. CASE k = Org
      BY <1>j, <2>1, <2>7, <3>1 DEF Admitted
    <3>2. CASE k = User
      BY <1>s, <2>7, <3>2 DEF Admitted, Check
    <3>3. QED BY <3>1, <3>2
  <2>8. CASE Refused(h)
    BY <1>s, <2>8 DEF Refused
  <2>9. CASE AdmissionDeadline(h)
    BY <1>s, <2>9 DEF AdmissionDeadline
  <2>10. CASE TakeFails(h)
    BY <1>s, <2>10 DEF TakeFails
  <2>11. CASE Close(h)
    BY <1>s, <2>11 DEF Close
  <2>12. QED
    BY <2>1, <2>3, <2>4, <2>5, <2>6, <2>7, <2>8, <2>9, <2>10, <2>11 DEF HandshakeStep
<1>3. CASE Release
  BY <1>s, <1>3 DEF Release, GiveLands, GiveFails, sockets, Passed
<1>4. CASE Heartbeat
  <2>1. PICK i \in Instances :
        \/ Start(i) \/ Beat(i) \/ BeatFails(i) \/ Settles(i) \/ Lapse(i)
        \/ SweepClaim(i) \/ SweepRead(i) \/ SweepField(i) \/ SweepSet(i) \/ SweepFails(i)
        \/ Crash(i)
    BY <1>4 DEF Heartbeat
  <2>2. CASE Crash(i)
    <3>1. \A g \in Handshakes :
            \/ take'[g] = NotTaking /\ conn'[g] = "closed"
            \/ take'[g] = take[g] /\ conn'[g] = conn[g]
      BY <2>2 DEF Crash
    <3>2. QED BY <1>s, <2>2, <3>1 DEF Crash, Passed, NotTaking
  <2>3. CASE UNCHANGED sockets
    BY <1>s, <2>3 DEF sockets, Passed
  <2>4. QED
    BY <2>1, <2>2, <2>3 DEF Start, Beat, BeatFails, Settles, Lapse, SweepClaim, SweepRead,
       SweepField, SweepSet, SweepFails
<1>5. CASE Network \/ UNCHANGED vars
  BY <1>s, <1>5 DEF Network, Outage, Recover, vars, sockets, Passed
<1>6. QED BY <1>2, <1>3, <1>4, <1>5 DEF Next

(***************************************************************************)
(* The theorems                                                            *)
(***************************************************************************)

(* The bounds between which each field lies hold in every reachable state    *)
(* (connections.ts take, give, drop, sweep).                                 *)
THEOREM Inductive == Spec => []IInv
<1>1. Init => IInv
  BY InitHolds
<1>2. IInv /\ [Next]_vars => IInv'
  <2> SUFFICES ASSUME IInv, [Next]_vars PROVE IInv'
    OBVIOUS
  <2>1. TypeOK /\ CountsHold /\ HoldsCover /\ TakesOk /\ SweepsOk /\ SweepsSee /\ FieldsAreFound
    BY DEF IInv
  <2>2. SweepsOk'
    BY <2>1, SweepsStep
  <2>3. TakesOk'
    BY <2>1, TakesStep
  <2>4. Numbers'
    BY <2>1, NumbersStep
  <2>5. CountsHold'
    BY <2>1, <2>4, CountsStep
  <2>6. HoldsCover'
    BY <2>1, <2>4, HoldsStep
  <2>7. TypeOK'
    BY <2>1, <2>3, <2>4, <2>6, TypeStep
  <2>8. FieldsAreFound'
    BY <2>1, <2>3, <2>5, <2>7, FoundStep
  <2>9. SweepsSee'
    BY <2>1, <2>7, SeeStep
  <2>10. QED BY <2>2, <2>3, <2>5, <2>7, <2>8, <2>9, <2>6 DEF IInv
<1>3. QED BY <1>1, <1>2, PTL DEF Spec

(* Every variable keeps its type, and no more is given back than is held     *)
(* (connections.ts held).                                                    *)
THEOREM TypeCorrect == Spec => []TypeOK
<1>1. IInv => TypeOK
  BY DEF IInv
<1>2. QED BY <1>1, Inductive, PTL

(* A count that a crash leaves behind is under a key the sweep finds,        *)
(* whatever takes and releases of the key were in flight (connections.ts     *)
(* hold, drop), unless the instance was alive and silent for a TTL before.   *)
THEOREM CountsAreFound == Spec => []FieldsAreFound
<1>1. IInv => FieldsAreFound
  BY DEF IInv
<1>2. QED BY <1>1, Inductive, PTL

(* An instance that is alive is counted for all of its connections: no late  *)
(* take, retried release, outage or sweep takes a count from it              *)
(* (connections.ts give, sweep, reachableSince), unless its lease lapsed     *)
(* while a peer had reached Redis for a full TTL.                            *)
THEOREM AliveIsCounted == Spec => []NeverUndercounted
<1>1. IInv => NeverUndercounted
  <2> SUFFICES ASSUME IInv, NEW i \in Instances \ silent, NEW k \in Keys, Alive(i)
               PROVE  field[i][k] >= Counted(i, k)
    BY DEF NeverUndercounted
  <2> DEFINE C == {h \in Handshakes : at[h] = i /\ conn[h] = "counted"}
  <2>1. C \subseteq Landed(i, k)
    BY DEF Landed, HasLanded
  <2>2. /\ Cardinality(C) <= Cardinality(Landed(i, k))
        /\ Cardinality(C) \in Nat /\ Cardinality(Landed(i, k)) \in Nat
    BY <2>1, CountsAreNumbers, FS_Subset, FS_CardinalityType
  <2>3. gives[i][k] \in Nat /\ unreleased[i][k] \in Nat /\ field[i][k] \in Nat
    BY DEF IInv, TypeOK
  <2>4. gives[i][k] + unreleased[i][k] + Cardinality(Landed(i, k)) <= field[i][k]
    BY DEF IInv, CountsHold, Sound
  <2>5. Counted(i, k) = Cardinality(C)
    BY DEF Counted
  <2> HIDE DEF C
  <2>6. QED BY <2>2, <2>3, <2>4, <2>5
<1>2. QED BY <1>1, Inductive, PTL

(* The connections admitted by instances that knew of every instance alive,  *)
(* none of which had been silent, are never more than a cap, however many takes interleave: each increments *)
(* before it reads the total (connections.ts take).                          *)
THEOREM CapsAreKept == Spec => []CapHolds
<1>1. Init => CapsHold
  <2> SUFFICES ASSUME Init, NEW k \in Keys PROVE Cardinality(PassedSeen(k)) <= Cap[k]
    BY DEF CapsHold
  <2>1. PassedSeen(k) = {}
    BY DEF Init, PassedSeen, Passed, NotTaking
  <2>2. Cardinality(PassedSeen(k)) = 0
    BY <2>1, FS_EmptySet
  <2>3. QED BY <2>2, CounterAssumption
<1>2. IInv /\ CapsHold /\ [Next]_vars => CapsHold'
  BY CapStep
<1>3. CapsHold => CapHolds
  <2> SUFFICES ASSUME CapsHold, NEW k \in Keys
               PROVE  Cardinality({h \in Handshakes : conn[h] = "counted" /\ h \notin unseen}) <= Cap[k]
    BY DEF CapHolds
  <2> DEFINE C == {h \in Handshakes : conn[h] = "counted" /\ h \notin unseen}
  <2>1. C \subseteq PassedSeen(k)
    BY DEF PassedSeen, Passed
  <2>2. /\ Cardinality(C) <= Cardinality(PassedSeen(k))
        /\ Cardinality(C) \in Nat /\ Cardinality(PassedSeen(k)) \in Nat
    BY <2>1, PassedCounts, FS_Subset, FS_CardinalityType
  <2>3. Cardinality(PassedSeen(k)) <= Cap[k] /\ Cap[k] \in Nat
    BY CounterAssumption DEF CapsHold
  <2> HIDE DEF C
  <2>4. Cardinality(C) <= Cap[k]
    BY <2>2, <2>3
  <2>5. QED BY <2>4 DEF C
<1>4. QED BY <1>1, <1>2, <1>3, Inductive, PTL DEF Spec
=============================================================================
