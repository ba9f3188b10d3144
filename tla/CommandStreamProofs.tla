-------------------------- MODULE CommandStreamProofs --------------------------
(***************************************************************************)
(* Theorems about CommandStream for every number of runs, events, faults   *)
(* and pauses and every size of the buffers, checked by TLAPS: the stored  *)
(* log implements EventLog, and the desktop can always fill the gap.       *)
(***************************************************************************)
EXTENDS CommandStream, TLAPS, SequenceTheorems

(***************************************************************************)
(* The strengthening: whatever is on its way to the cloud was emitted by   *)
(* its run, and whatever is on its way back speaks of stored events only.  *)
(***************************************************************************)
Written == {event \in Events : event.sequence \in 1..emitted[event.run]}
Truthful == {frame \in Answers : frame.sequence <= Len(log)} \cup {Command}

WireIsWritten == up \in Seq(Written) /\ stray \in SUBSET Written

AnswersAreStored == down \in Seq(Truthful)

TrimmedIsStored == acked <= Len(log) /\ trimmed <= Len(log)

IInv == WireIsWritten /\ AnswersAreStored /\ TrimmedIsStored

(***************************************************************************)
(* Sequences                                                               *)
(***************************************************************************)

(* A list indexed from 1 is a sequence.                                    *)
LEMMA ListIsSeq ==
  ASSUME NEW S, NEW n \in Nat, NEW f \in [1..n -> S]
  PROVE  f \in Seq(S) /\ Len(f) = n
<1>1. f \in Seq(S)
  BY SeqDef
<1>2. DOMAIN f = 1..n /\ DOMAIN f = 1..Len(f) /\ Len(f) \in Nat
  BY <1>1, LenProperties
<1> QED
  BY <1>1, <1>2

(* A pair is a sequence, and so is nothing.                                *)
LEMMA PairIsSeq ==
  ASSUME NEW S, NEW a \in S, NEW b \in S
  PROVE  <<a, b>> \in Seq(S) /\ <<>> \in Seq(S)
OBVIOUS

(* The first elements of a sequence are a sequence.                        *)
LEMMA PrefixIsSeq ==
  ASSUME NEW S, NEW s \in Seq(S), NEW n \in Nat, n <= Len(s)
  PROVE  SubSeq(s, 1, n) \in Seq(S)
<1>1. \A i \in 1..n : s[i] \in S
  BY ElementOfSeq, LenProperties
<1> QED
  BY <1>1, SubSeqProperties

(***************************************************************************)
(* What Send, Above, Ingest and Answer produce                             *)
(***************************************************************************)

(* Send takes from what it is given, or nothing.                           *)
LEMMA SendKeeps ==
  ASSUME TypeOK, NEW S, up \in Seq(S), NEW events \in Seq(S), Send(events)
  PROVE  up' \in Seq(S) /\ (session = "down" => up' = up)
<1> DEFINE room == IF session = "hello" /\ Len(up) + Len(events) > MaxPending
                     THEN IF Len(up) < MaxPending THEN MaxPending - Len(up) ELSE 0
                     ELSE Len(events)
<1>1. Len(up) \in Nat /\ Len(events) \in Nat /\ MaxPending \in Nat
  BY StreamAssumption, LenProperties
<1>2. room \in Nat /\ room <= Len(events)
  BY <1>1
<1>3. SubSeq(events, 1, room) \in Seq(S)
  BY <1>2, PrefixIsSeq
<1>4. up' = up \/ up' = up \o SubSeq(events, 1, room)
  BY DEF Send
<1>5. up' \in Seq(S)
  BY <1>3, <1>4, ConcatProperties
<1> QED
  BY <1>5 DEF Send

(* What is replayed was emitted.                                           *)
LEMMA AboveIsWritten ==
  ASSUME TypeOK, state # "untracked", NEW from \in Nat
  PROVE  Above(from) \in Seq(Written)
<1> DEFINE base == IF from > trimmed THEN from ELSE trimmed
           n == IF Latest > base THEN Latest - base ELSE 0
<1>1. run \in Runs /\ Latest \in Nat /\ base \in Nat /\ n \in Nat
  BY DEF TypeOK, Latest
<1>2. \A i \in 1..n : Event(run, base + i, state = "terminal" /\ base + i = Latest) \in Written
  BY <1>1 DEF Event, Events, Written, Latest
<1>3. Above(from) \in [1..n -> Written]
  BY <1>2 DEF Above
<1> QED
  BY <1>1, <1>3, ListIsSeq

(* The gate stores the next number or nothing.                             *)
LEMMA IngestStores ==
  ASSUME TypeOK, NEW event \in Events, Ingest(event)
  PROVE  /\ log' \in Seq([run: Runs \cup {Cloud}, sequence: Nat])
         /\ row' \in {"queued", "taken", "ended"}
         /\ \/ log' = log
            \/ /\ event.sequence = Len(log) + 1
               /\ log' = Append(log, [run |-> event.run, sequence |-> Len(log) + 1])
         /\ Len(log') >= Len(log)
<1>1. log \in Seq([run: Runs \cup {Cloud}, sequence: Nat]) /\ Len(log) \in Nat
  BY LenProperties DEF TypeOK
<1>2. event.run \in Runs /\ event.sequence \in Nat
  BY DEF Events
<1>3. CASE event.sequence = Len(log) + 1
  <2> DEFINE entry == [run |-> event.run, sequence |-> event.sequence]
  <2>1. entry \in [run: Runs \cup {Cloud}, sequence: Nat]
    BY <1>2
  <2>2. log' = Append(log, entry) /\ row' \in {"queued", "taken", "ended"}
    BY <1>3 DEF Ingest, TypeOK
  <2> HIDE DEF entry
  <2>3. log' \in Seq([run: Runs \cup {Cloud}, sequence: Nat]) /\ Len(log') = Len(log) + 1
    BY <1>1, <2>1, <2>2, AppendProperties
  <2> QED
    BY <1>1, <1>3, <2>2, <2>3 DEF entry
<1>4. CASE event.sequence # Len(log) + 1
  BY <1>1, <1>4 DEF Ingest, cloud, TypeOK
<1> QED
  BY <1>3, <1>4

(* An answer given with the gate's decision speaks of stored events.       *)
LEMMA AnswerIsTruthful ==
  ASSUME TypeOK, NEW event \in Events, Ingest(event)
  PROVE  Answer(event) \in Answers /\ Answer(event).sequence <= Len(log')
<1>1. log \in Seq([run: Runs \cup {Cloud}, sequence: Nat]) /\ Len(log) \in Nat
  BY LenProperties DEF TypeOK
<1>2. event.run \in Runs /\ event.sequence \in Nat
  BY DEF Events
<1>3. event.sequence = Len(log) + 1 => Len(log') = Len(log) + 1
  <2> DEFINE entry == [run |-> event.run, sequence |-> event.sequence]
  <2>1. entry \in [run: Runs \cup {Cloud}, sequence: Nat]
    BY <1>2
  <2>2. event.sequence = Len(log) + 1 => log' = Append(log, entry)
    BY DEF Ingest
  <2> HIDE DEF entry
  <2> QED
    BY <1>1, <2>1, <2>2, AppendProperties
<1>4. Len(log') >= Len(log) /\ Len(log') \in Nat
  BY IngestStores, LenProperties
<1> QED
  BY <1>1, <1>2, <1>3, <1>4 DEF Answer, Answers

(***************************************************************************)
(* Type correctness                                                        *)
(***************************************************************************)

Frames == Answers \cup {Command}

(* A command is a frame and no answer.                                     *)
LEMMA FramesAreFrames == Command \in Frames /\ Command \notin Answers
  BY DEF Frames, Command, Answers

(* What the admission of a command leaves of the types.                    *)
LEMMA AdmitType ==
  ASSUME TypeOK, Written \subseteq Events, Admit
  PROVE  /\ run' \in 0..MaxRuns /\ state' \in {"untracked", "live", "terminal"}
         /\ state' # "untracked" => run' \in Runs
         /\ emitted' = emitted /\ trimmed' \in Nat /\ acked' \in Nat
         /\ up' \in Seq(Events) /\ (session = "down" => up' = up)
         /\ acks' \in SUBSET {"accepted", "rejected"}
<1> USE DEF TypeOK
<1>1. CASE paused
  BY <1>1 DEF Admit, desktop
<1>2. CASE ~paused /\ state # "untracked"
  <2>1. Above(0) \in Seq(Events)
    BY <1>2, AboveIsWritten, SeqMonotonic
  <2>2. up' = up \/ Send(Above(0))
    BY <1>2 DEF Admit
  <2>3. up' \in Seq(Events) /\ (session = "down" => up' = up)
    BY <2>1, <2>2, SendKeeps
  <2>4. acks' = acks \cup {"accepted"} /\ UNCHANGED <<run, state, emitted, trimmed, acked>>
    BY <1>2 DEF Admit, desktop
  <2> QED
    BY <1>2, <2>3, <2>4
<1>3. CASE ~paused /\ state = "untracked"
  <2>1. /\ run < MaxRuns /\ run' = run + 1
        /\ state' = "live" /\ trimmed' = 0 /\ acked' = 0
        /\ acks' = acks \cup {"accepted"}
        /\ emitted' = emitted /\ up' = up
    BY <1>3 DEF Admit
  <2>2. run' \in Runs /\ run' \in 0..MaxRuns
    BY <2>1, StreamAssumption DEF Runs
  <2> QED
    BY <2>1, <2>2
<1> QED
  BY <1>1, <1>2, <1>3

(* A step keeps the types.                                                 *)
LEMMA TypeStep ==
  ASSUME TypeOK, [Next]_vars
  PROVE  TypeOK'
<1>0. Written \subseteq Events
  BY DEF Written
<1>1. ASSUME NEW last \in BOOLEAN, Emit(last) PROVE TypeOK'
  <2> DEFINE ends == last \/ Latest - trimmed >= MaxBuffered
             event == Event(run, Latest + 1, ends)
  <2>1. run \in Runs /\ Latest \in Nat
    BY <1>1 DEF Emit, TypeOK, Latest
  <2>2. event \in Events
    BY <2>1 DEF Event, Events
  <2>3. <<event>> \in Seq(Events) /\ Send(<<event>>)
    BY <1>1, <2>2 DEF Emit
  <2>4. up' \in Seq(Events) /\ (session = "down" => up' = up)
    BY <2>3, SendKeeps DEF TypeOK
  <2>5. emitted' \in [Runs -> Nat] /\ state' \in {"untracked", "live", "terminal"}
    BY <1>1, <2>1 DEF Emit, TypeOK
  <2> QED
    BY <1>1, <2>1, <2>4, <2>5 DEF Emit, TypeOK, cloud
<1>2. CASE Receive
  <2> DEFINE frame == Head(down)
  <2>1. frame \in Frames /\ Tail(down) \in Seq(Frames)
    BY <1>2, HeadTailProperties DEF Receive, TypeOK, Frames
  <2>2. session # "down"
    BY <1>2 DEF Receive, TypeOK
  <2>3. CASE frame = Command /\ Admit
    BY <1>2, <2>1, <2>2, <2>3, <1>0, AdmitType DEF Receive, TypeOK, Frames, cloud
  <2>4. CASE frame # Command /\ Acknowledge(frame.sequence)
    <3>1. frame.sequence \in Nat
      BY <2>1, <2>4 DEF Frames, Answers
    <3> QED
      BY <1>2, <2>1, <2>2, <2>4, <3>1 DEF Receive, Acknowledge, TypeOK, Frames, cloud
  <2>5. CASE frame # Command /\ Resume(frame.sequence)
    <3>1. frame.sequence \in Nat
      BY <2>1, <2>5 DEF Frames, Answers
    <3>2. up' \in Seq(Events)
      <4>1. CASE state = "untracked"
        BY <2>5, <4>1 DEF Resume, TypeOK
      <4>2. CASE state # "untracked"
        <5>1. Above(frame.sequence) \in Seq(Events)
          BY <3>1, <4>2, <1>0, AboveIsWritten, SeqMonotonic
        <5>2. Send(Above(frame.sequence)) /\ up \in Seq(Events)
          BY <2>5, <4>2 DEF Resume, TypeOK
        <5> QED
          BY <5>1, <5>2, SendKeeps
      <4> QED
        BY <4>1, <4>2
    <3> QED
      BY <1>2, <2>1, <2>2, <2>5, <3>2 DEF Receive, Resume, TypeOK, Frames, desktop, cloud
  <2> QED
    BY <1>2, <2>3, <2>4, <2>5 DEF Receive
<1>3. CASE Forget
  BY <1>3 DEF Forget, TypeOK, wire, cloud
<1>4. ASSUME NEW to \in BOOLEAN, SetPaused(to) PROVE TypeOK'
  BY <1>4, StreamAssumption DEF SetPaused, TypeOK, desktop, wire, cloud
<1>5. CASE Connect
  BY <1>5 DEF Connect, TypeOK, desktop, cloud
<1>6. CASE Dropped /\ UNCHANGED <<paused, run, emitted, trimmed, acked, pauses>> /\ UNCHANGED cloud
           /\ state' \in {state, "untracked"} /\ faults' \in 0..MaxFaults
  <2>1. stray' \in SUBSET Events
    <3>1. \A i \in 1..Len(up) : up[i] \in Events
      BY ElementOfSeq DEF TypeOK
    <3> QED
      BY <1>6, <3>1 DEF Dropped, TypeOK
  <2> QED
    BY <1>6, <2>1 DEF Dropped, TypeOK, cloud
<1>7. CASE Disconnect
  BY <1>6, <1>7, StreamAssumption DEF Disconnect, TypeOK, desktop
<1>8. CASE IdleDisconnect
  BY <1>6, <1>8 DEF IdleDisconnect, TypeOK, desktop
<1>9. CASE Restart
  BY <1>6, <1>9 DEF Restart, TypeOK, desktop
<1>10. ASSUME NEW released \in BOOLEAN, HandleHello(released) PROVE TypeOK'
  <2>1. Len(log) \in Nat
    BY LenProperties DEF TypeOK
  <2>2. down' \in Seq(Frames)
    <3> DEFINE resume == [type |-> "resume", sequence |-> Len(log)]
    <3>1. resume \in Frames /\ Command \in Frames
      BY <2>1 DEF Frames, Answers
    <3>2. down' = <<resume, Command>> \/ down' = <<>>
      BY <1>10 DEF HandleHello
    <3> HIDE DEF resume
    <3> QED
      BY <3>1, <3>2, PairIsSeq
  <2> QED
    BY <1>10, <2>2 DEF HandleHello, TypeOK, desktop, Frames
<1>11. CASE Dispatch
  BY <1>11, FramesAreFrames, AppendProperties DEF Dispatch, TypeOK, desktop, cloud, Frames
<1>12. CASE Forward
  <2>1. Head(up) \in Events /\ Tail(up) \in Seq(Events)
    BY <1>12, HeadTailProperties DEF Forward, TypeOK
  <2>2. Ingest(Head(up))
    BY <1>12 DEF Forward
  <2>3. Answer(Head(up)) \in Frames
    BY <2>1, <2>2, AnswerIsTruthful DEF Frames
  <2>4. down' \in Seq(Frames)
    BY <1>12, <2>3, AppendProperties DEF Forward, TypeOK, Frames
  <2> QED
    BY <1>12, <2>1, <2>2, <2>4, IngestStores DEF Forward, TypeOK, desktop, Frames
<1>13. CASE ForwardFails
  <2>1. Head(up) \in Events /\ Tail(up) \in Seq(Events)
    BY <1>13, HeadTailProperties DEF ForwardFails, TypeOK
  <2> QED
    BY <1>13, <2>1, StreamAssumption DEF ForwardFails, TypeOK, desktop, cloud
<1>14. CASE StrayLands
  <2>1. PICK event \in stray : stray' = stray \ {event} /\ Ingest(event)
    BY <1>14 DEF StrayLands
  <2>2. event \in Events
    BY DEF TypeOK
  <2> QED
    BY <1>14, <2>1, <2>2, IngestStores DEF StrayLands, TypeOK, desktop
<1>15. CASE StrayLost
  BY <1>15 DEF StrayLost, TypeOK, desktop, cloud
<1>16. ASSUME NEW answer \in acks, AckLands(answer) PROVE TypeOK'
  <2> DEFINE entry == [run |-> Cloud, sequence |-> Len(log) + 1]
  <2>1. entry \in [run: Runs \cup {Cloud}, sequence: Nat]
    BY LenProperties DEF TypeOK
  <2>2. log' = log \/ log' = Append(log, entry)
    BY <1>16 DEF AckLands
  <2> HIDE DEF entry
  <2>3. log' \in Seq([run: Runs \cup {Cloud}, sequence: Nat])
    <3> DEFINE Entries == [run: Runs \cup {Cloud}, sequence: Nat]
    <3>1. log \in Seq(Entries) /\ entry \in Entries
      BY <2>1 DEF TypeOK
    <3> HIDE DEF Entries
    <3>2. log' \in Seq(Entries)
      BY <2>2, <3>1, AppendProperties
    <3> QED
      BY <3>2 DEF Entries
  <2> QED
    BY <1>16, <2>3 DEF AckLands, TypeOK, desktop
<1>17. ASSUME NEW answer \in acks, AckLost(answer) PROVE TypeOK'
  BY <1>17 DEF AckLost, TypeOK, desktop, cloud
<1>18. CASE UNCHANGED vars
  BY <1>18 DEF vars, TypeOK, desktop, wire, cloud
<1> QED
  BY <1>1, <1>2, <1>3, <1>4, <1>5, <1>7, <1>8, <1>9, <1>10, <1>11, <1>12, <1>13, <1>14,
     <1>15, <1>16, <1>17, <1>18 DEF Next

(* No handler leaves the types, and a socket that is down carries nothing. *)
THEOREM TypeCorrect == Spec => []TypeOK
<1>1. Init => TypeOK
  <2> SUFFICES ASSUME Init PROVE TypeOK
    OBVIOUS
  <2>1. run \in 0..MaxRuns /\ faults \in 0..MaxFaults /\ pauses \in 0..MaxPauses
    BY StreamAssumption DEF Init
  <2>2. /\ up \in Seq(Events) /\ down \in Seq(Answers \cup {Command})
        /\ log \in Seq([run: Runs \cup {Cloud}, sequence: Nat])
    BY DEF Init
  <2>3. emitted \in [Runs -> Nat] /\ stray \in SUBSET Events
    BY DEF Init
  <2> QED
    BY <2>1, <2>2, <2>3 DEF Init, TypeOK
<1>2. TypeOK /\ [Next]_vars => TypeOK'
  BY TypeStep
<1> QED
  BY <1>1, <1>2, PTL DEF Spec

(***************************************************************************)
(* What is on its way was emitted, what is answered or trimmed is stored   *)
(***************************************************************************)

(* Runs only emit more and the log only gains events.                      *)
LEMMA NothingIsUnwritten ==
  ASSUME TypeOK, [Next]_vars
  PROVE  /\ Written \subseteq Written'
         /\ Truthful \subseteq Truthful'
         /\ Len(log) \in Nat /\ Len(log') >= Len(log)
<1>0. Len(log) \in Nat
  BY LenProperties DEF TypeOK
<1>1. Len(log') >= Len(log)
  <2>1. CASE Forward
    <3>1. Head(up) \in Events
      BY <2>1, HeadTailProperties DEF Forward, TypeOK
    <3> QED
      BY <2>1, <3>1, IngestStores DEF Forward
  <2>2. CASE StrayLands
    BY <2>2, IngestStores DEF StrayLands, TypeOK
  <2>3. ASSUME NEW answer \in acks, AckLands(answer) PROVE Len(log') >= Len(log)
    <3> DEFINE entry == [run |-> Cloud, sequence |-> Len(log) + 1]
               Entries == [run: Runs \cup {Cloud}, sequence: Nat]
    <3>1. log \in Seq(Entries) /\ entry \in Entries
      BY <1>0 DEF TypeOK
    <3>2. log' = log \/ log' = Append(log, entry)
      BY <2>3 DEF AckLands
    <3> HIDE DEF entry, Entries
    <3> QED
      BY <1>0, <3>1, <3>2, AppendProperties
  <2>4. UNCHANGED log => Len(log') >= Len(log)
    BY <1>0
  <2> QED
    BY <2>1, <2>2, <2>3, <2>4
    DEF Next, Emit, Receive, Forget, SetPaused, Connect, Disconnect, IdleDisconnect, Restart,
        HandleHello, Dispatch, ForwardFails, StrayLost, AckLost, vars, cloud
<1>2. \A r \in Runs : emitted[r] \in Nat /\ emitted'[r] \in Nat /\ emitted'[r] >= emitted[r]
  <2>1. ASSUME NEW last \in BOOLEAN, Emit(last)
        PROVE  \A r \in Runs : emitted'[r] \in Nat /\ emitted'[r] >= emitted[r]
    BY <2>1 DEF Emit, TypeOK
  <2>2. emitted' = emitted \/ \E last \in BOOLEAN : Emit(last)
    BY DEF Next, Receive, Admit, Acknowledge, Resume, Forget, SetPaused, Connect, Disconnect,
           IdleDisconnect, Restart, HandleHello, Dispatch, Forward, ForwardFails, StrayLands,
           StrayLost, AckLands, AckLost, vars, desktop
  <2> QED
    BY <2>1, <2>2 DEF TypeOK
<1>3. Written \subseteq Written'
  BY <1>2 DEF Written, Events
<1>4. Truthful \subseteq Truthful'
  BY <1>0, <1>1 DEF Truthful, Answers
<1> QED
  BY <1>0, <1>1, <1>3, <1>4

(* What the desktop does with a frame about the events the cloud holds.    *)
LEMMA ReceiveKeeps ==
  ASSUME TypeOK, IInv, [Next]_vars, Receive
  PROVE  IInv'
<1> DEFINE frame == Head(down)
<1>1. /\ frame \in Truthful /\ Tail(down) \in Seq(Truthful)
      /\ Truthful \subseteq Truthful' /\ Written' = Written /\ Len(log) \in Nat
      /\ log' = log /\ stray' = stray /\ down' = Tail(down)
  <2>1. down \in Seq(Truthful) /\ down # <<>>
    BY DEF IInv, AnswersAreStored, Receive
  <2>2. emitted' = emitted /\ log' = log /\ stray' = stray /\ down' = Tail(down)
    BY DEF Receive, Admit, Acknowledge, Resume, desktop, cloud
  <2> QED
    BY <2>1, <2>2, HeadTailProperties, NothingIsUnwritten DEF Written
<1>2. AnswersAreStored'
  <2>1. Truthful' = Truthful
    BY <1>1 DEF Truthful
  <2> QED
    BY <1>1, <2>1 DEF AnswersAreStored
<1>3. frame # Command => frame.sequence \in Nat /\ frame.sequence <= Len(log)
  BY <1>1 DEF Truthful, Answers
<1>4. WireIsWritten'
  <2>1. ASSUME NEW from \in Nat, state # "untracked", Send(Above(from))
        PROVE  up' \in Seq(Written)
    <3>1. Above(from) \in Seq(Written) /\ up \in Seq(Written)
      BY <2>1, AboveIsWritten DEF IInv, WireIsWritten
    <3> QED
      BY <2>1, <3>1, SendKeeps
  <2>2. \/ up' = up
        \/ state # "untracked" /\ \E from \in Nat : Send(Above(from))
    <3>1. CASE frame = Command /\ Admit
      BY <3>1 DEF Admit
    <3>2. CASE frame # Command /\ Acknowledge(frame.sequence)
      BY <3>2 DEF Acknowledge
    <3>3. CASE frame # Command /\ Resume(frame.sequence)
      BY <1>3, <3>3 DEF Resume
    <3> QED
      BY <3>1, <3>2, <3>3 DEF Receive
  <2>3. up' \in Seq(Written)
    BY <2>1, <2>2 DEF IInv, WireIsWritten
  <2> QED
    BY <1>1, <2>3 DEF IInv, WireIsWritten
<1>5. TrimmedIsStored'
  <2>1. CASE frame = Command /\ Admit
    BY <1>1, <2>1 DEF Admit, desktop, IInv, TrimmedIsStored
  <2>2. CASE frame # Command /\ Acknowledge(frame.sequence)
    BY <1>1, <1>3, <2>2 DEF Acknowledge, IInv, TrimmedIsStored
  <2>3. CASE frame # Command /\ Resume(frame.sequence)
    BY <1>1, <2>3 DEF Resume, desktop, IInv, TrimmedIsStored
  <2> QED
    BY <2>1, <2>2, <2>3 DEF Receive
<1> QED
  BY <1>2, <1>4, <1>5 DEF IInv

(* Every step keeps the strengthening.                                     *)
THEOREM Inductive == Spec => []IInv
<1>1. Init => IInv
  <2> SUFFICES ASSUME Init PROVE IInv
    OBVIOUS
  <2>1. up \in Seq(Written) /\ down \in Seq(Truthful) /\ stray \in SUBSET Written
    BY DEF Init
  <2>2. Len(log) = 0
    BY DEF Init
  <2> QED
    BY <2>1, <2>2 DEF Init, IInv, WireIsWritten, AnswersAreStored, TrimmedIsStored
<1>2. TypeOK /\ IInv /\ [Next]_vars => IInv'
  <2> SUFFICES ASSUME TypeOK, IInv, [Next]_vars PROVE IInv'
    OBVIOUS
  <2>0. /\ Written \subseteq Written' /\ Truthful \subseteq Truthful' /\ Written \subseteq Events
        /\ Len(log) \in Nat /\ Len(log') \in Nat /\ Len(log') >= Len(log)
        /\ acked \in Nat /\ trimmed \in Nat
    <3>1. Len(log') \in Nat
      BY TypeStep, LenProperties DEF TypeOK
    <3> QED
      BY <3>1, NothingIsUnwritten DEF Written, TypeOK
  <2>a. (up' = up \/ up' = <<>>) /\ stray' \in SUBSET Written => WireIsWritten'
    <3>1. up \in Seq(Written') /\ <<>> \in Seq(Written')
      BY <2>0, SeqMonotonic, PairIsSeq DEF IInv, WireIsWritten
    <3> QED
      BY <2>0, <3>1 DEF WireIsWritten
  <2>b. down' = down \/ down' = <<>> => AnswersAreStored'
    <3>1. down \in Seq(Truthful') /\ <<>> \in Seq(Truthful')
      BY <2>0, SeqMonotonic, PairIsSeq DEF IInv, AnswersAreStored
    <3> QED
      BY <3>1 DEF AnswersAreStored
  <2>c. UNCHANGED <<acked, trimmed>> => TrimmedIsStored'
    BY <2>0 DEF IInv, TrimmedIsStored
  <2>d. stray \in SUBSET Written
    BY DEF IInv, WireIsWritten
  <2>1. ASSUME NEW last \in BOOLEAN, Emit(last) PROVE IInv'
    <3> DEFINE ends == last \/ Latest - trimmed >= MaxBuffered
               event == Event(run, Latest + 1, ends)
    <3>1. run \in Runs /\ Latest \in Nat /\ emitted'[run] = Latest + 1
      BY <2>1 DEF Emit, TypeOK, Latest
    <3>2. event \in Written'
      BY <3>1 DEF Event, Events, Written
    <3>3. <<event>> \in Seq(Written') /\ Send(<<event>>) /\ up \in Seq(Written')
      BY <2>0, <2>1, <3>2, SeqMonotonic DEF Emit, IInv, WireIsWritten
    <3>4. up' \in Seq(Written')
      BY <3>3, SendKeeps
    <3>5. WireIsWritten'
      BY <2>0, <2>1, <2>d, <3>4 DEF Emit, WireIsWritten
    <3> QED
      BY <2>1, <2>b, <2>c, <3>5 DEF Emit, IInv
  <2>2. CASE Receive
    BY <2>2, ReceiveKeeps
  <2>3. CASE Forget
    BY <2>3, <2>a, <2>b, <2>c, <2>d DEF Forget, wire, IInv
  <2>4. ASSUME NEW to \in BOOLEAN, SetPaused(to) PROVE IInv'
    BY <2>4, <2>a, <2>b, <2>c, <2>d DEF SetPaused, desktop, wire, IInv
  <2>5. CASE Connect
    BY <2>5, <2>a, <2>b, <2>c, <2>d DEF Connect, desktop, IInv
  <2>6. CASE Dropped /\ UNCHANGED <<acked, trimmed>>
    <3>1. \A i \in 1..Len(up) : up[i] \in Written
      BY ElementOfSeq DEF IInv, WireIsWritten
    <3>2. stray' \in SUBSET Written
      BY <2>6, <2>d, <3>1 DEF Dropped
    <3> QED
      BY <2>6, <2>a, <2>b, <2>c, <3>2 DEF Dropped, IInv
  <2>7. CASE Disconnect \/ IdleDisconnect \/ Restart
    BY <2>6, <2>7 DEF Disconnect, IdleDisconnect, Restart, desktop
  <2>8. ASSUME NEW released \in BOOLEAN, HandleHello(released) PROVE IInv'
    <3> DEFINE resume == [type |-> "resume", sequence |-> Len(log)]
    <3>1. resume \in Truthful' /\ Command \in Truthful'
      BY <2>0, <2>8 DEF HandleHello, Truthful, Answers
    <3>2. down' = <<resume, Command>> \/ down' = <<>>
      BY <2>8 DEF HandleHello
    <3> HIDE DEF resume
    <3>3. down' \in Seq(Truthful')
      BY <3>1, <3>2, PairIsSeq
    <3> QED
      BY <2>8, <2>a, <2>c, <2>d, <3>3 DEF HandleHello, desktop, AnswersAreStored, IInv
  <2>9. CASE Dispatch
    <3>1. Command \in Truthful /\ down \in Seq(Truthful)
      BY DEF Truthful, IInv, AnswersAreStored
    <3>2. down' \in Seq(Truthful)
      BY <2>9, <3>1, AppendProperties DEF Dispatch
    <3>3. AnswersAreStored'
      BY <2>0, <3>2, SeqMonotonic DEF AnswersAreStored
    <3> QED
      BY <2>9, <2>a, <2>c, <2>d, <3>3 DEF Dispatch, desktop, IInv
  <2>10. CASE Forward
    <3>1. Head(up) \in Written /\ Tail(up) \in Seq(Written)
      BY <2>10, HeadTailProperties DEF Forward, IInv, WireIsWritten
    <3>2. Answer(Head(up)) \in Truthful'
      BY <2>0, <2>10, <3>1, AnswerIsTruthful DEF Forward, Truthful
    <3>3. down \in Seq(Truthful')
      BY <2>0, SeqMonotonic DEF IInv, AnswersAreStored
    <3>4. AnswersAreStored'
      BY <2>10, <3>2, <3>3, AppendProperties DEF Forward, AnswersAreStored
    <3>5. WireIsWritten'
      BY <2>0, <2>10, <2>d, <3>1, SeqMonotonic DEF Forward, WireIsWritten
    <3> QED
      BY <2>10, <2>c, <3>4, <3>5 DEF Forward, desktop, IInv
  <2>11. CASE ForwardFails
    <3>1. Head(up) \in Written /\ Tail(up) \in Seq(Written)
      BY <2>11, HeadTailProperties DEF ForwardFails, IInv, WireIsWritten
    <3>2. WireIsWritten'
      BY <2>0, <2>11, <2>d, <3>1, SeqMonotonic DEF ForwardFails, WireIsWritten
    <3> QED
      BY <2>11, <2>b, <2>c, <3>2 DEF ForwardFails, desktop, IInv
  <2>12. CASE StrayLands \/ StrayLost
    <3>1. stray' \in SUBSET Written /\ UNCHANGED <<up, down, acked, trimmed>>
      BY <2>12, <2>d DEF StrayLands, StrayLost, desktop
    <3> QED
      BY <3>1, <2>a, <2>b, <2>c DEF IInv
  <2>13. ASSUME NEW answer \in acks, AckLands(answer) \/ AckLost(answer) PROVE IInv'
    BY <2>13, <2>a, <2>b, <2>c, <2>d DEF AckLands, AckLost, desktop, IInv
  <2>14. CASE UNCHANGED vars
    BY <2>14, <2>a, <2>b, <2>c, <2>d DEF vars, desktop, wire, IInv
  <2> QED
    BY <2>1, <2>2, <2>3, <2>4, <2>5, <2>7, <2>8, <2>9, <2>10, <2>11, <2>12, <2>13, <2>14 DEF Next
<1> QED
  BY <1>1, <1>2, TypeCorrect, PTL DEF Spec

(* An ack never trims what the cloud lacks: what it lacks is buffered.     *)
THEOREM CatchUp == Spec => []CloudCanCatchUp
<1>1. TypeOK /\ IInv => CloudCanCatchUp
  <2> SUFFICES ASSUME TypeOK, IInv, state # "untracked",
                      NEW n \in (Len(log) + 1)..Latest
               PROVE  n \in Buffered
    BY DEF CloudCanCatchUp
  <2>1. Len(log) \in Nat /\ Latest \in Nat /\ trimmed \in Nat /\ trimmed <= Len(log)
    BY LenProperties DEF TypeOK, Latest, IInv, TrimmedIsStored
  <2> QED
    BY <2>1 DEF Buffered
<1> QED
  BY <1>1, TypeCorrect, Inductive, PTL

(***************************************************************************)
(* The log is the ordered log                                              *)
(***************************************************************************)

(* A step leaves the log alone or adds the next number, of a run that has  *)
(* emitted it or of a rejection; only Emit writes.                         *)
LEMMA LogStep ==
  ASSUME TypeOK, IInv, [Next]_vars
  PROVE  \/ /\ log' = log
            /\ emitted' = emitted
         \/ /\ log' = log
            /\ state = "live"
            /\ emitted' = [emitted EXCEPT ![run] = @ + 1]
            /\ run' = run /\ run \in Runs
         \/ /\ emitted' = emitted /\ run' = run
            /\ \E r \in Runs :
                 /\ Len(log) < emitted[r]
                 /\ log' = Append(log, [run |-> r, sequence |-> Len(log) + 1])
         \/ /\ emitted' = emitted /\ run' = run
            /\ "rejected" \in acks
            /\ log' = Append(log, [run |-> Cloud, sequence |-> Len(log) + 1])
<1>0. Len(log) \in Nat
  BY LenProperties DEF TypeOK
<1>1. ASSUME NEW event \in Written, Ingest(event), UNCHANGED desktop
      PROVE  \/ log' = log /\ emitted' = emitted
             \/ /\ emitted' = emitted /\ run' = run
                /\ \E r \in Runs :
                     /\ Len(log) < emitted[r]
                     /\ log' = Append(log, [run |-> r, sequence |-> Len(log) + 1])
  <2>1. event \in Events /\ event.run \in Runs /\ emitted[event.run] \in Nat
        /\ event.sequence \in Nat /\ event.sequence <= emitted[event.run]
    BY DEF Written, Events, TypeOK
  <2>2. emitted' = emitted /\ run' = run
    BY <1>1 DEF desktop
  <2>3. \/ log' = log
        \/ /\ event.sequence = Len(log) + 1
           /\ log' = Append(log, [run |-> event.run, sequence |-> Len(log) + 1])
    BY <1>1, <2>1, IngestStores
  <2> QED
    BY <1>0, <2>1, <2>2, <2>3
<1>2. CASE Forward
  <2>1. Head(up) \in Written /\ Ingest(Head(up)) /\ UNCHANGED desktop
    BY <1>2, HeadTailProperties DEF Forward, IInv, WireIsWritten
  <2> QED
    BY <1>1, <2>1
<1>3. CASE StrayLands
  <2>1. PICK event \in stray : Ingest(event) /\ UNCHANGED desktop
    BY <1>3 DEF StrayLands
  <2>2. event \in Written
    BY DEF IInv, WireIsWritten
  <2> QED
    BY <1>1, <2>1, <2>2
<1>4. ASSUME NEW answer \in acks, AckLands(answer)
      PROVE  \/ log' = log /\ emitted' = emitted
             \/ /\ emitted' = emitted /\ run' = run
                /\ "rejected" \in acks
                /\ log' = Append(log, [run |-> Cloud, sequence |-> Len(log) + 1])
  BY <1>4 DEF AckLands, desktop
<1>5. ASSUME NEW last \in BOOLEAN, Emit(last)
      PROVE  /\ log' = log /\ state = "live"
             /\ emitted' = [emitted EXCEPT ![run] = @ + 1]
             /\ run' = run /\ run \in Runs
  BY <1>5 DEF Emit, cloud, TypeOK
<1>6. CASE Receive
  BY <1>6 DEF Receive, Admit, Acknowledge, Resume, desktop, cloud
<1> QED
  BY <1>2, <1>3, <1>4, <1>5, <1>6
  DEF Next, Forget, SetPaused, Connect, Disconnect, IdleDisconnect, Restart,
      HandleHello, Dispatch, ForwardFails, StrayLost, AckLost, vars, desktop, cloud

(* Over every loss, duplicate, replay, rerun and rejection the stored log  *)
(* takes, at each number, the event of that number some run has written.   *)
THEOREM Refinement == Spec => StreamIsOrderedLog
<1>1. Init => Abstract!Init
  BY DEF Init, Abstract!Init
<1>2. TypeOK /\ IInv /\ [Next]_vars => [Abstract!Next]_<<emitted, log>>
  <2> SUFFICES ASSUME TypeOK, IInv, [Next]_vars
               PROVE  Abstract!Next \/ UNCHANGED <<emitted, log>>
    OBVIOUS
  <2> QED
    BY LogStep DEF Abstract!Next, Abstract!Write, Abstract!Store, Abstract!Reject
<1> QED
  BY <1>1, <1>2, TypeCorrect, Inductive, PTL DEF Spec, StreamIsOrderedLog, Abstract!Spec

(***************************************************************************)
(* What an ordered log promises, and so the stream                         *)
(***************************************************************************)

(* The entry at a number has it, and a run that is its author wrote it.    *)
LogIsWritten ==
  \A k \in 1..Len(log) :
    /\ log[k].sequence = k
    /\ log[k].run # Cloud => log[k].run \in Runs /\ k <= emitted[log[k].run]

(* Every entry stays what it is.                                           *)
LogStays == \A k \in 1..Len(log) : k <= Len(log') /\ log'[k] = log[k]

LogEntries == [run: Runs \cup {Cloud}, sequence: Nat]
LogInv == emitted \in [Runs -> Nat] /\ log \in Seq(LogEntries) /\ LogIsWritten

LEMMA OneEntryMore ==
  ASSUME log \in Seq(LogEntries), NEW entry \in LogEntries, log' = Append(log, entry)
  PROVE  /\ log' \in Seq(LogEntries) /\ Len(log) \in Nat /\ Len(log') = Len(log) + 1
         /\ log'[Len(log) + 1] = entry /\ \A k \in 1..Len(log) : log'[k] = log[k]
  BY AppendProperties, LenProperties

(* A step of the ordered log adds one entry at most.                       *)
LEMMA OrderedLogStep ==
  ASSUME LogInv, [Abstract!Next]_<<emitted, log>>
  PROVE  LogInv' /\ LogStays
<1>1. Len(log) \in Nat
  BY LenProperties DEF LogInv
<1>2. CASE UNCHANGED <<emitted, log>>
  BY <1>1, <1>2 DEF LogInv, LogIsWritten, LogStays
<1>3. ASSUME NEW r \in Runs, Abstract!Write(r)
      PROVE  LogInv' /\ LogStays
  <2>1. log' = log /\ emitted' = [emitted EXCEPT ![r] = @ + 1]
    BY <1>3 DEF Abstract!Write
  <2>2. emitted' \in [Runs -> Nat] /\ \A q \in Runs : emitted[q] <= emitted'[q]
    BY <2>1 DEF LogInv
  <2>3. LogIsWritten'
    <3>1. ASSUME NEW k \in 1..Len(log), log[k].run # Cloud
          PROVE  log[k].run \in Runs /\ k <= emitted'[log[k].run]
      <4>1. log[k].run \in Runs /\ k <= emitted[log[k].run]
        BY <3>1 DEF LogInv, LogIsWritten
      <4>2. /\ emitted[log[k].run] \in Nat /\ emitted'[log[k].run] \in Nat
            /\ emitted[log[k].run] <= emitted'[log[k].run]
        BY <2>2, <4>1 DEF LogInv
      <4> QED
        BY <1>1, <4>1, <4>2
    <3> QED
      BY <2>1, <3>1 DEF LogInv, LogIsWritten
  <2> QED
    BY <1>1, <2>1, <2>2, <2>3 DEF LogInv, LogStays
<1>4. ASSUME NEW author \in Runs \cup {Cloud}, emitted' = emitted,
             log' = Append(log, [run |-> author, sequence |-> Len(log) + 1]),
             author # Cloud => Len(log) < emitted[author]
      PROVE  LogInv' /\ LogStays
  <2>1. PICK entry \in LogEntries : entry = [run |-> author, sequence |-> Len(log) + 1]
    <3>1. PICK n \in Nat : n = Len(log) + 1
      BY <1>1
    <3>2. [run |-> author, sequence |-> n] \in LogEntries
      BY DEF LogEntries
    <3> QED
      BY <3>1, <3>2
  <2>2. /\ log' \in Seq(LogEntries) /\ Len(log') = Len(log) + 1
        /\ log'[Len(log) + 1] = entry /\ \A k \in 1..Len(log) : log'[k] = log[k]
    BY <1>4, <2>1, OneEntryMore DEF LogInv
  <2>3. ASSUME NEW k \in 1..Len(log')
        PROVE  /\ log'[k].sequence = k
               /\ log'[k].run # Cloud => log'[k].run \in Runs /\ k <= emitted'[log'[k].run]
    <3>1. CASE k \in 1..Len(log)
      BY <1>4, <2>2, <3>1 DEF LogInv, LogIsWritten
    <3>2. CASE k = Len(log) + 1
      <4>1. author # Cloud => author \in Runs /\ emitted[author] \in Nat
        BY DEF LogInv
      <4> QED
        BY <1>1, <1>4, <2>1, <2>2, <3>2, <4>1
    <3> QED
      BY <1>1, <2>2, <3>1, <3>2
  <2> QED
    BY <1>1, <1>4, <2>2, <2>3 DEF LogInv, LogIsWritten, LogStays
<1>5. ASSUME NEW r \in Runs, Abstract!Store(r)
      PROVE  LogInv' /\ LogStays
  BY <1>4, <1>5 DEF Abstract!Store
<1>6. CASE Abstract!Reject
  BY <1>4, <1>6 DEF Abstract!Reject
<1> QED
  BY <1>2, <1>3, <1>5, <1>6 DEF Abstract!Next

LEMMA OrderedLog == StreamIsOrderedLog => []LogInv /\ [][LogStays]_log
<1>1. Abstract!Init => LogInv
  BY DEF Abstract!Init, LogInv, LogIsWritten
<1>2. LogInv /\ [Abstract!Next]_<<emitted, log>> => LogInv'
  BY OrderedLogStep
<1>3. LogInv /\ [Abstract!Next]_<<emitted, log>> => [LogStays]_log
  BY OrderedLogStep
<1> QED
  BY <1>1, <1>2, <1>3, PTL DEF StreamIsOrderedLog, Abstract!Spec

(* What an ordered log promises the stream keeps: the row's log has at     *)
(* each number an event of that number which its run has emitted, or the   *)
(* cloud's rejection (desktop-command-store.ts, ingestion).                *)
THEOREM LogIsTrue == Spec => []LogIsWritten
<1>1. LogInv => LogIsWritten
  BY DEF LogInv
<1> QED
  BY <1>1, Refinement, OrderedLog, PTL

(* No fault, replay, rerun or late answer changes or removes an event      *)
(* that was stored (desktop-command-store.ts, ingestion).                  *)
THEOREM StoredStays == Spec => [][LogStays]_log
BY Refinement, OrderedLog, PTL

(***************************************************************************)
(* What is acked is stored, for a command that runs once                   *)
(***************************************************************************)

(* Only the runs there have been emit; a stored event was emitted by its   *)
(* run; and a log without a pause has no rejection in it.                  *)
OnlyRunsEmit == \A r \in Runs : r > run => emitted[r] = 0

StoredWasEmitted ==
  \A i \in 1..Len(log) :
    \/ log[i].run = Cloud
    \/ log[i].run \in Runs /\ i <= emitted[log[i].run]

NoPauseNoRejection ==
  pauses = 0 => /\ ~paused /\ "rejected" \notin acks
                /\ \A i \in 1..Len(log) : log[i].run # Cloud

AuthorsInv == OnlyRunsEmit /\ StoredWasEmitted /\ NoPauseNoRejection

(* The authors of the stored events, over every step.                      *)
LEMMA Authors == Spec => []AuthorsInv
<1>1. Init => AuthorsInv
  BY DEF Init, AuthorsInv, OnlyRunsEmit, StoredWasEmitted, NoPauseNoRejection
<1>2. TypeOK /\ IInv /\ AuthorsInv /\ [Next]_vars => AuthorsInv'
  <2> SUFFICES ASSUME TypeOK, IInv, AuthorsInv, [Next]_vars PROVE AuthorsInv'
    OBVIOUS
  <2>0. /\ Len(log) \in Nat /\ run \in Int /\ Runs \subseteq Int
        /\ emitted \in [Runs -> Nat]
        /\ log \in Seq([run: Runs \cup {Cloud}, sequence: Nat])
    BY LenProperties DEF TypeOK, Runs
  <2>1. run' >= run
    <3>1. CASE Receive
      <4>1. run' = run \/ run' = run + 1
        BY <3>1 DEF Receive, Admit, Acknowledge, Resume, desktop
      <4> QED
        BY <2>0, <4>1
    <3>2. Receive \/ run' = run
      BY DEF Next, Emit, Forget, SetPaused, Connect, Disconnect, IdleDisconnect, Restart,
             HandleHello, Dispatch, Forward, ForwardFails, StrayLands, StrayLost, AckLands,
             AckLost, vars, desktop
    <3> QED
      BY <2>0, <3>1, <3>2
  <2>2. run' \in Int /\ emitted' \in [Runs -> Nat]
    BY TypeStep, StreamAssumption DEF TypeOK
  <2>3. OnlyRunsEmit'
    <3>1. \/ emitted' = emitted
          \/ emitted' = [emitted EXCEPT ![run] = @ + 1] /\ run' = run
      BY LogStep
    <3> QED
      BY <2>0, <2>1, <2>2, <3>1 DEF AuthorsInv, OnlyRunsEmit
  <2>4. ASSUME NEW author \in Runs \cup {Cloud},
               log' = Append(log, [run |-> author, sequence |-> Len(log) + 1])
        PROVE  /\ Len(log') = Len(log) + 1
               /\ \A i \in 1..Len(log) : log'[i] = log[i]
               /\ log'[Len(log) + 1].run = author
    <3> DEFINE Entries == [run: Runs \cup {Cloud}, sequence: Nat]
               entry == [run |-> author, sequence |-> Len(log) + 1]
    <3>1. log \in Seq(Entries) /\ entry \in Entries /\ entry.run = author
      BY <2>0
    <3>2. log' = Append(log, entry)
      BY <2>4
    <3> HIDE DEF Entries, entry
    <3> QED
      BY <2>0, <3>1, <3>2, AppendProperties
  <2>5. StoredWasEmitted'
    <3>1. CASE log' = log
      <4>1. \A r \in Runs : emitted'[r] >= emitted[r]
        BY <2>0, LogStep
      <4> QED
        <5> SUFFICES ASSUME NEW i \in 1..Len(log), log[i].run # Cloud
                     PROVE  log[i].run \in Runs /\ i <= emitted'[log[i].run]
          BY <3>1 DEF StoredWasEmitted
        <5>1. log[i].run \in Runs /\ i <= emitted[log[i].run]
          BY DEF AuthorsInv, StoredWasEmitted
        <5>2. \A r \in Runs : emitted[r] \in Nat /\ emitted'[r] \in Nat
          BY <2>0, <2>2
        <5>3. i \in Nat
          BY <2>0
        <5> QED
          BY <4>1, <5>1, <5>2, <5>3
    <3>2. ASSUME NEW r \in Runs, Len(log) < emitted[r], emitted' = emitted,
                 log' = Append(log, [run |-> r, sequence |-> Len(log) + 1])
          PROVE  StoredWasEmitted'
      BY <2>0, <2>4, <3>2 DEF AuthorsInv, StoredWasEmitted
    <3>3. CASE /\ emitted' = emitted
               /\ log' = Append(log, [run |-> Cloud, sequence |-> Len(log) + 1])
      BY <2>0, <2>4, <3>3 DEF AuthorsInv, StoredWasEmitted
    <3> QED
      BY <3>1, <3>2, <3>3, LogStep
  <2>6. NoPauseNoRejection'
    <3>0. \/ UNCHANGED <<paused, pauses>>
          \/ ~paused' /\ pauses' = pauses
          \/ pauses' = pauses + 1
      <4>1. ASSUME NEW to \in BOOLEAN, SetPaused(to)
            PROVE  (~paused' /\ pauses' = pauses) \/ pauses' = pauses + 1
        BY <4>1 DEF SetPaused
      <4> QED
        BY <4>1 DEF Next, Emit, Receive, Forget, Connect, Disconnect, IdleDisconnect,
             Restart, HandleHello, Dispatch, Forward, ForwardFails, StrayLands, StrayLost,
             AckLands, AckLost, vars
    <3>1. pauses' = 0 => pauses = 0 /\ (~paused' \/ paused' = paused)
      <4>1. pauses \in Nat
        BY StreamAssumption DEF TypeOK
      <4> QED
        BY <3>0, <4>1
    <3>2. SUFFICES ASSUME pauses' = 0, pauses = 0
                   PROVE  /\ ~paused' /\ "rejected" \notin acks'
                          /\ \A i \in 1..Len(log') : log'[i].run # Cloud
      BY <3>1 DEF NoPauseNoRejection
    <3>3. ~paused /\ "rejected" \notin acks /\ \A i \in 1..Len(log) : log[i].run # Cloud
      BY <3>2 DEF AuthorsInv, NoPauseNoRejection
    <3>4. ~paused'
      BY <3>1, <3>2, <3>3
    <3>5. "rejected" \notin acks'
      <4>1. CASE Receive
        BY <3>3, <4>1 DEF Receive, Admit, Acknowledge, Resume
      <4> QED
        BY <3>3, <4>1 DEF Next, Emit, Forget, SetPaused, Connect, Disconnect, IdleDisconnect,
             Restart, Dropped, HandleHello, Dispatch, Forward, ForwardFails, StrayLands,
             StrayLost, AckLands, AckLost, wire, vars
    <3>6. \A i \in 1..Len(log') : log'[i].run # Cloud
      <4>1. CASE log' = log
        BY <3>3, <4>1
      <4>2. ASSUME NEW r \in Runs,
                   log' = Append(log, [run |-> r, sequence |-> Len(log) + 1])
            PROVE  \A i \in 1..Len(log') : log'[i].run # Cloud
        BY <2>0, <2>4, <3>3, <4>2, StreamAssumption
      <4> QED
        BY <3>3, <4>1, <4>2, LogStep
    <3> QED
      BY <3>4, <3>5, <3>6
  <2> QED
    BY <2>3, <2>5, <2>6 DEF AuthorsInv
<1> QED
  BY <1>1, <1>2, TypeCorrect, Inductive, PTL DEF Spec

(* Over any number of runs, losses and pauses, an event the executor takes *)
(* as acked is stored at its number: as this run's or, where an earlier    *)
(* run or the rejection of a pause took the number first, as theirs.       *)
THEOREM AcksAreStored == Spec => []AckedIsStored
<1>1. TypeOK /\ IInv /\ AuthorsInv => AckedIsStored
  <2> SUFFICES ASSUME TypeOK, IInv, AuthorsInv, state # "untracked",
                      NEW n \in 1..acked, n <= Latest
               PROVE  /\ n <= Len(log)
                      /\ log[n].run \in 1..run \/ (log[n].run = Cloud /\ pauses > 0)
    BY DEF AckedIsStored
  <2>1. /\ Len(log) \in Nat /\ run \in Runs /\ acked \in Nat /\ n \in Nat
        /\ run \in Nat /\ pauses \in Nat /\ MaxRuns \in Nat
    BY LenProperties, StreamAssumption DEF TypeOK, Runs
  <2>2. n <= Len(log)
    BY <2>1 DEF IInv, TrimmedIsStored
  <2>3. CASE log[n].run = Cloud
    <3>1. pauses # 0
      BY <2>1, <2>2, <2>3 DEF AuthorsInv, NoPauseNoRejection
    <3> QED
      BY <2>1, <2>2, <2>3, <3>1
  <2>4. CASE log[n].run # Cloud
    <3>1. log[n].run \in Runs /\ emitted[log[n].run] >= n
      BY <2>1, <2>2, <2>4 DEF AuthorsInv, StoredWasEmitted, TypeOK
    <3>2. ~(log[n].run > run)
      <4>1. n >= 1 /\ \A r \in Runs : r > run => emitted[r] = 0
        BY <2>1 DEF AuthorsInv, OnlyRunsEmit
      <4>2. PICK r \in Runs : r = log[n].run /\ emitted[r] >= n
        BY <3>1
      <4>3. emitted[r] \in Nat
        BY DEF TypeOK
      <4>4. ~(r > run)
        BY <2>1, <4>1, <4>2, <4>3
      <4> QED
        BY <4>2, <4>4
    <3> QED
      BY <2>1, <2>2, <3>1, <3>2 DEF Runs
  <2> QED
    BY <2>3, <2>4
<1> QED
  BY <1>1, TypeCorrect, Inductive, Authors, PTL
=============================================================================
