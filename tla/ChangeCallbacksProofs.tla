------------------------- MODULE ChangeCallbacksProofs -------------------------
(***************************************************************************)
(* Theorems about ChangeCallbacks for any set of documents and any bounds, *)
(* checked by TLAPS: what the database holds is told, carried or logged,   *)
(* or was left unsaid by a store whose snapshot failed, and an id names    *)
(* one body.  Almost every action ends in Pump, from an intermediate       *)
(* queue.  So the invariant is a predicate of a queue, Good; every action  *)
(* is shown to reach a good queue that says what the last one said, and    *)
(* dropOverflow and Pump to lead from one to the next.                     *)
(***************************************************************************)
EXTENDS ChangeCallbacks, FiniteSetTheorems, WellFoundedInduction, TLAPS

Bodies == {body \in Callback : body.id > 0}
Items == {item \in Item : item.id > 0 /\ (item.successor.id = 0 => item.successor = NoSuccessor)}

(* The map has one entry per document, each with a place of its own.       *)
Mapped(entries) ==
  /\ entries \in SUBSET Items /\ IsFiniteSet(entries)
  /\ \A a, b \in entries : a.document = b.document => a = b
  /\ \A a, b \in entries : a.place = b.place => a = b
  /\ \A a \in entries : a.place > 0 /\ a.attempts <= Retries
  /\ \A a \in entries : a.attempts = 0 => a.successor = NoSuccessor

(* One send per document.  What waits beside it was never sent.            *)
Sending(entries, sending) ==
  /\ sending \in SUBSET Items /\ IsFiniteSet(sending) /\ Cardinality(sending) <= Concurrency
  /\ \A a, b \in sending : a.document = b.document => a = b
  /\ \A a \in sending : a.place = 0 /\ a.attempts \in 1..(Retries + 1)
  /\ \A a \in entries, b \in sending : a.document = b.document => a.attempts = 0

(* The ids of items and of their successors are different and were issued. *)
Issued(items, last) ==
  /\ \A a \in items : a.id <= last /\ a.successor.id <= last
  /\ \A a, b \in items : a.id = b.id => a = b
  /\ \A a, b \in items : a.successor.id # b.id
  /\ \A a, b \in items : a.successor.id = b.successor.id => a = b \/ a.successor.id = 0

(* The API has taken an id with one body, that of an item that was sent.   *)
Taken(items, taken, last) ==
  /\ taken \in SUBSET Bodies
  /\ \A r, s \in taken : r.id = s.id => r = s
  /\ \A r \in taken : r.id <= last
  /\ \A r \in taken, a \in items :
       r.id # a.successor.id /\ (r.id = a.id => a.attempts > 0 /\ r = Body(a))

Good(entries, sending, taken, last) ==
  /\ Mapped(entries)
  /\ Sending(entries, sending)
  /\ Issued(entries \cup sending, last)
  /\ Taken(entries \cup sending, taken, last)

(* The queue between two actions, where places are numbers of entries.     *)
Stable(taken) ==
  Good(pending, inFlight, taken, issued) /\ \A a \in pending : a.place <= MaxPending

(* What a store writes is kept until it lands, and is what it will say     *)
(* unless its snapshot failed.                                             *)
StoresOk ==
  \A d \in writing :
    /\ written[d] \subseteq Held(d)
    /\ d \notin failures => written[d] = snapshot[d]

Waiting == UNION {Held(d) : d \in Documents}

IInv == TypeOK /\ ToldIsStored /\ StoresOk /\ Stable(received)

(***************************************************************************)
(* Sets and their cardinalities                                            *)
(***************************************************************************)

(* The image of a finite set is finite and no larger.                      *)
LEMMA ImageIsSmaller ==
  ASSUME NEW S, IsFiniteSet(S), NEW f, DOMAIN f = S, f = [x \in S |-> f[x]]
  PROVE  /\ IsFiniteSet({f[x] : x \in S})
         /\ Cardinality({f[x] : x \in S}) <= Cardinality(S)
<1> DEFINE T == {f[x] : x \in S}
<1>1. f \in Surjection(S, T)
  BY DEF Surjection
<1> QED
  BY <1>1, FS_Surjection

(* Of a set with a key, those with at most n at or below them are n.  Among  *)
(* them, the one with the most at or below it has all the others there.     *)
LEMMA FirstFew ==
  ASSUME NEW S, IsFiniteSet(S), NEW key \in [S -> Int], NEW n \in Nat,
         NEW few, few = {x \in S : Cardinality({y \in S : key[y] <= key[x]}) <= n}
  PROVE  IsFiniteSet(few) /\ Cardinality(few) <= n
<1> DEFINE below(x) == {y \in S : key[y] <= key[x]}
           above(x) == n - Cardinality(below(x))
           R == {ss \in Nat \X Nat : ss[1] < ss[2]}
           T == {above(x) : x \in few}
<1>1. IsFiniteSet(few) /\ few \subseteq S
  BY FS_Subset
<1>2. ASSUME NEW x \in S
      PROVE  IsFiniteSet(below(x)) /\ Cardinality(below(x)) \in Nat
  BY FS_Subset, FS_CardinalityType
<1>3. \A x \in few : Cardinality(below(x)) <= n
  OBVIOUS
<1>4. CASE few = {}
  <2>1. Cardinality(few) = 0
    BY <1>4, FS_EmptySet
  <2> QED
    BY <1>1, <2>1
<1>5. CASE few # {}
  <2>1. IsWellFoundedOn(R, Nat)
    BY NatLessThanWellFounded DEF OpToRel
  <2> HIDE DEF below
  <2>2. T \subseteq Nat /\ T # {}
    <3>1. ASSUME NEW x \in few PROVE above(x) \in Nat
      <4>1. Cardinality(below(x)) \in Nat /\ Cardinality(below(x)) <= n
        BY <1>1, <1>2, <1>3
      <4> QED
        BY <4>1
    <3> QED
      BY <1>5, <3>1
  <2>3. PICK least \in T : \A y \in T : ~ (<<y, least>> \in R)
    BY <2>1, <2>2, WFMin
  <2>4. PICK m \in few : least = above(m)
    BY <2>3
  <2>5. ASSUME NEW x \in few PROVE x \in below(m)
    <3>1. above(x) \in Nat /\ above(m) \in Nat /\ ~ (above(x) < above(m))
      BY <2>2, <2>3, <2>4
    <3>2. Cardinality(below(x)) <= Cardinality(below(m))
      BY <1>1, <1>2, <3>1
    <3>3. SUFFICES ASSUME ~ (key[x] <= key[m]) PROVE FALSE
      BY <1>1 DEF below
    <3>4. key[x] \in Int /\ key[m] \in Int /\ key[m] < key[x] /\ x \in S /\ m \in S
      BY <1>1, <3>3
    <3>5. below(m) \in SUBSET below(x) /\ x \in below(x) /\ x \notin below(m)
      BY <3>4 DEF below
    <3>6. Cardinality(below(m)) <= Cardinality(below(x)) /\ below(x) # below(m)
      BY <1>2, <3>4, <3>5, FS_Subset
    <3>7. Cardinality(below(m)) # Cardinality(below(x))
      BY <1>2, <3>4, <3>5, <3>6, FS_Subset
    <3> QED
      BY <1>2, <3>2, <3>4, <3>6, <3>7
  <2>6. few \in SUBSET below(m) /\ m \in S
    BY <1>1, <2>5
  <2>7. Cardinality(few) <= Cardinality(below(m))
    BY <1>2, <2>6, FS_Subset
  <2> QED
    BY <1>1, <1>2, <1>3, <2>6, <2>7, FS_CardinalityType
<1> QED
  BY <1>4, <1>5

(* Renumbering gives each entry a place of its own, up to their number.    *)
LEMMA RenumberedIsOrdered ==
  ASSUME NEW entries \in SUBSET Item, IsFiniteSet(entries),
         \A a, b \in entries : a.place = b.place => a = b,
         NEW a \in entries
  PROVE  /\ Cardinality(UpTo(entries, a)) \in 1..Cardinality(entries)
         /\ \A b \in entries :
              Cardinality(UpTo(entries, a)) = Cardinality(UpTo(entries, b)) => a = b
<1>1. ASSUME NEW b \in entries
      PROVE  /\ IsFiniteSet(UpTo(entries, b)) /\ Cardinality(UpTo(entries, b)) \in Nat
             /\ Cardinality(UpTo(entries, b)) <= Cardinality(entries)
  BY FS_Subset, FS_CardinalityType DEF UpTo
<1>2. a \in UpTo(entries, a)
  BY DEF UpTo, Item
<1>3. Cardinality(UpTo(entries, a)) # 0
  BY <1>1, <1>2, FS_EmptySet
<1>4. ASSUME NEW x \in entries, NEW y \in entries, x.place < y.place
      PROVE  Cardinality(UpTo(entries, x)) # Cardinality(UpTo(entries, y))
  <2>1. UpTo(entries, x) \in SUBSET UpTo(entries, y)
    BY <1>4 DEF UpTo, Item
  <2>2. y \in UpTo(entries, y) /\ y \notin UpTo(entries, x)
    BY <1>4 DEF UpTo, Item
  <2> QED
    BY <1>1, <2>1, <2>2, FS_Subset
<1>5. ASSUME NEW b \in entries, a # b
      PROVE  Cardinality(UpTo(entries, a)) # Cardinality(UpTo(entries, b))
  <2>1. a.place < b.place \/ b.place < a.place
    BY <1>5 DEF Item
  <2> QED
    BY <1>4, <2>1
<1>6. Cardinality(entries) \in Nat
  BY FS_CardinalityType
<1> QED
  BY <1>1, <1>3, <1>5, <1>6

(***************************************************************************)
(* Items                                                                   *)
(***************************************************************************)

(* What an item is to the API: an item that is moved or sent stays it.     *)
Alike(x, a) ==
  /\ x.document = a.document /\ x.id = a.id /\ x.changes = a.changes
  /\ x.successor = a.successor

LEMMA PlacedItem ==
  ASSUME NEW a \in Items, NEW n \in Nat, NEW x, x = [a EXCEPT !.place = n]
  PROVE  /\ x \in Items /\ Alike(x, a)
         /\ x.place = n /\ x.attempts = a.attempts /\ x.waiting = a.waiting
  BY DEF Items, Item, Alike

LEMMA SentItem ==
  ASSUME NEW a \in Items
  PROVE  /\ Sent(a) \in Items /\ Alike(Sent(a), a)
         /\ Sent(a).place = 0 /\ Sent(a).attempts = a.attempts + 1
<1>1. PICK n \in Nat : n = a.attempts + 1
  BY DEF Items, Item
<1>2. PICK x : x = [a EXCEPT !.place = 0]
  OBVIOUS
<1>3. x \in Items /\ Alike(x, a) /\ x.place = 0 /\ x.attempts = a.attempts
  BY <1>2, PlacedItem
<1>4. Sent(a) = [x EXCEPT !.attempts = n]
  BY <1>1, <1>2 DEF Sent, Items, Item
<1>5. /\ Sent(a) \in Items /\ Alike(Sent(a), x)
      /\ Sent(a).place = x.place /\ Sent(a).attempts = n
  BY <1>3, <1>4 DEF Items, Item, Alike
<1> QED
  BY <1>1, <1>3, <1>5 DEF Alike

LEMMA AwakeItem ==
  ASSUME NEW a \in Items
  PROVE  /\ Awake(a) \in Items /\ Alike(Awake(a), a)
         /\ Awake(a).place = a.place /\ Awake(a).attempts = a.attempts
  BY DEF Awake, Items, Item, Alike

LEMMA Bounds ==
  MaxPending \in Nat /\ MaxPending > 0 /\ Concurrency \in Nat /\ Retries \in Nat
  BY CallbackAssumption

LEMMA NothingBehind ==
  NoSuccessor \in Callback /\ NoSuccessor.id = 0 /\ NoSuccessor.changes = {}
  BY DEF NoSuccessor, Callback

LEMMA FreshItem ==
  ASSUME NEW d \in Documents, NEW callback \in Bodies
  PROVE  /\ Fresh(d, callback) \in Items
         /\ Fresh(d, callback).document = d /\ Fresh(d, callback).place = Last
         /\ Fresh(d, callback).id = callback.id
         /\ Fresh(d, callback).changes = callback.changes
         /\ Fresh(d, callback).attempts = 0
         /\ Fresh(d, callback).successor = NoSuccessor
  BY CallbackAssumption, NothingBehind DEF Fresh, Items, Item, Bodies, Callback, Last

(* Less is said by items each of which says no more than one of the others. *)
LEMMA SaysNoMore ==
  ASSUME NEW new, NEW old, \A x \in new : \E a \in old : Says(x) \subseteq Says(a)
  PROVE  AllSaid(new) \subseteq AllSaid(old)
  BY DEF AllSaid

LEMMA AlikeSaysTheSame ==
  ASSUME NEW x, NEW a, Alike(x, a)
  PROVE  Says(x) = Says(a)
  BY DEF Alike, Says

(***************************************************************************)
(* Items that keep their ids: moved in the map, woken, sent                *)
(***************************************************************************)

LEMMA IdsKept ==
  ASSUME NEW old \in SUBSET Items, NEW new \in SUBSET Items, NEW taken, NEW last \in Nat,
         Issued(old, last), Taken(old, taken, last),
         \A x \in new : \E a \in old : Alike(x, a) /\ (a.attempts > 0 => x.attempts > 0),
         \A x, y \in new : x.id = y.id => x = y
  PROVE  Issued(new, last) /\ Taken(new, taken, last)
<1>1. ASSUME NEW x \in new
      PROVE  \E a \in old : /\ x.id = a.id /\ x.successor.id = a.successor.id
                            /\ Body(x) = Body(a) /\ (a.attempts > 0 => x.attempts > 0)
  BY DEF Alike, Body
<1>2. \A x \in new : x.id <= last /\ x.successor.id <= last
  BY <1>1 DEF Issued
<1>3. \A x, y \in new : x.successor.id # y.id
  BY <1>1 DEF Issued
<1>4. ASSUME NEW x \in new, NEW y \in new, x.successor.id = y.successor.id, x.successor.id # 0
      PROVE  x = y
  <2>1. PICK a \in old : x.id = a.id /\ x.successor.id = a.successor.id
    BY <1>1
  <2>2. PICK b \in old : y.id = b.id /\ y.successor.id = b.successor.id
    BY <1>1
  <2>3. a = b
    BY <1>4, <2>1, <2>2 DEF Issued
  <2> QED
    BY <2>1, <2>2, <2>3
<1>5. \A r \in taken, x \in new :
        r.id # x.successor.id /\ (r.id = x.id => x.attempts > 0 /\ r = Body(x))
  BY <1>1 DEF Taken
<1>6. Issued(new, last)
  BY <1>2, <1>3, <1>4 DEF Issued
<1> QED
  BY <1>5, <1>6 DEF Taken

LEMMA RenumberedIsMapped ==
  ASSUME NEW entries, Mapped(entries)
  PROVE  /\ Mapped(Renumbered(entries))
         /\ Cardinality(Renumbered(entries)) <= Cardinality(entries)
         /\ \A p \in Renumbered(entries) : p.place \in 1..Cardinality(entries)
         /\ \A p \in Renumbered(entries) :
              \E a \in entries : Alike(p, a) /\ p.attempts = a.attempts
         /\ \A a \in entries : \E p \in Renumbered(entries) : Alike(p, a)
<1> DEFINE number(a) == Cardinality(UpTo(entries, a))
           f == [a \in entries |-> [a EXCEPT !.place = number(a)]]
<1>1. entries \in SUBSET Items /\ entries \in SUBSET Item /\ IsFiniteSet(entries)
  BY DEF Mapped, Items
<1>2. \A a \in entries : number(a) \in 1..Cardinality(entries)
  BY <1>1, RenumberedIsOrdered DEF Mapped
<1>3. \A a, b \in entries : number(a) = number(b) => a = b
  BY <1>1, RenumberedIsOrdered DEF Mapped
<1>4. Cardinality(entries) \in Nat
  BY <1>1, FS_CardinalityType
<1>5. Renumbered(entries) = {f[a] : a \in entries}
  BY DEF Renumbered
<1> HIDE DEF number
<1>6. ASSUME NEW a \in entries
      PROVE  /\ f[a] \in Items /\ Alike(f[a], a)
             /\ f[a].place = number(a) /\ f[a].attempts = a.attempts
  BY <1>1, <1>2, <1>4, PlacedItem
<1>7. DOMAIN f = entries /\ f = [a \in entries |-> f[a]]
  OBVIOUS
<1> HIDE DEF f
<1>8. IsFiniteSet(Renumbered(entries)) /\ Cardinality(Renumbered(entries)) <= Cardinality(entries)
  BY <1>1, <1>5, <1>7, ImageIsSmaller
<1>9. \A p \in Renumbered(entries) : \E a \in entries : p = f[a]
  BY <1>5
<1>10. Mapped(Renumbered(entries))
  <2>1. \A p, q \in Renumbered(entries) : p.document = q.document => p = q
    BY <1>6, <1>9 DEF Mapped, Alike
  <2>2. \A p, q \in Renumbered(entries) : p.place = q.place => p = q
    BY <1>3, <1>6, <1>9
  <2>3. \A p \in Renumbered(entries) : p.place > 0 /\ p.attempts <= Retries
    BY <1>2, <1>4, <1>6, <1>9 DEF Mapped
  <2>4. \A p \in Renumbered(entries) : p.attempts = 0 => p.successor = NoSuccessor
    BY <1>6, <1>9 DEF Mapped, Alike
  <2>5. Renumbered(entries) \in SUBSET Items
    BY <1>6, <1>9
  <2> QED
    BY <1>8, <2>1, <2>2, <2>3, <2>4, <2>5 DEF Mapped
<1>11. \A p \in Renumbered(entries) : p.place \in 1..Cardinality(entries)
  BY <1>2, <1>6, <1>9
<1>12. \A p \in Renumbered(entries) : \E a \in entries : Alike(p, a) /\ p.attempts = a.attempts
  BY <1>6, <1>9
<1>13. \A a \in entries : \E p \in Renumbered(entries) : Alike(p, a)
  BY <1>5, <1>6
<1> QED
  BY <1>8, <1>10, <1>11, <1>12, <1>13

(***************************************************************************)
(* What every action ends in: dropOverflow, then pump                      *)
(***************************************************************************)

(* Fewer entries are as good.                                              *)
LEMMA FewerAreGood ==
  ASSUME NEW entries, NEW fewer \in SUBSET entries, NEW sending, NEW taken, NEW last \in Nat,
         Good(entries, sending, taken, last)
  PROVE  Good(fewer, sending, taken, last)
<1>1. Mapped(fewer)
  BY FS_Subset DEF Good, Mapped
<1>2. Sending(fewer, sending)
  BY DEF Good, Sending
<1>3. fewer \cup sending \subseteq entries \cup sending
  OBVIOUS
<1>4. Issued(fewer \cup sending, last)
  BY <1>3 DEF Good, Issued
<1>5. Taken(fewer \cup sending, taken, last)
  BY <1>3 DEF Good, Taken
<1> QED
  BY <1>1, <1>2, <1>4, <1>5 DEF Good

LEMMA KeptIsGood ==
  ASSUME NEW entries, NEW sending, NEW taken, NEW last \in Nat,
         Good(entries, sending, taken, last)
  PROVE  /\ Good(Kept(entries), sending, taken, last)
         /\ Cardinality(Kept(entries)) <= MaxPending
         /\ AllSaid(entries \cup sending) = AllSaid(Kept(entries) \cup sending) \cup Dropped(entries)
<1> DEFINE key == [a \in entries |-> 0 - a.place]
<1>1. entries \in SUBSET Items /\ IsFiniteSet(entries)
  BY DEF Good, Mapped
<1>2. \A a \in entries : a.place \in Nat
  BY <1>1 DEF Items, Item
<1>3. key \in [entries -> Int]
  BY <1>2
<1>4. ASSUME NEW a \in entries
      PROVE  {b \in entries : b.place >= a.place} = {b \in entries : key[b] <= key[a]}
  BY <1>2
<1>5. Kept(entries) = {a \in entries : Cardinality({b \in entries : key[b] <= key[a]}) <= MaxPending}
  BY <1>4 DEF Kept
<1> HIDE DEF key
<1>6. Cardinality(Kept(entries)) <= MaxPending
  BY <1>1, <1>3, <1>5, CallbackAssumption, FirstFew
<1>7. Good(Kept(entries), sending, taken, last)
  BY FewerAreGood DEF Kept
<1>8. AllSaid(entries \cup sending) = AllSaid(Kept(entries) \cup sending) \cup Dropped(entries)
  BY DEF AllSaid, Dropped, Kept
<1> QED
  BY <1>6, <1>7, <1>8

(* pump starts no more than there is room for, each for a document of which  *)
(* none is in flight.                                                        *)
LEMMA StartsFit ==
  ASSUME NEW entries, NEW sending, Mapped(entries), Sending(entries, sending)
  PROVE  LET starts == Starts(entries, sending) IN
         /\ starts \in SUBSET entries /\ IsFiniteSet(starts)
         /\ Cardinality(sending) + Cardinality(starts) <= Concurrency
         /\ \A a \in starts, b \in sending : a.document # b.document
<1> DEFINE ready == Ready(entries, sending)
           room == Concurrency - Cardinality(sending)
           starts == Starts(entries, sending)
           key == [a \in ready |-> a.place]
<1>1. IsFiniteSet(ready) /\ ready \in SUBSET entries
  BY FS_Subset DEF Ready, Mapped
<1>2. room \in Nat /\ Cardinality(sending) \in Nat
  BY CallbackAssumption, FS_CardinalityType DEF Sending
<1>3. key \in [ready -> Int]
  BY <1>1 DEF Mapped, Items, Item
<1>4. ASSUME NEW a \in ready
      PROVE  UpTo(ready, a) = {b \in ready : key[b] <= key[a]}
  BY DEF UpTo
<1>5. starts = {a \in ready : Cardinality({b \in ready : key[b] <= key[a]}) <= room}
  BY <1>4 DEF Starts
<1>6. IsFiniteSet(starts) /\ Cardinality(starts) <= room
  <2> HIDE DEF key, ready, room, starts
  <2> QED
    BY <1>1, <1>2, <1>3, <1>5, FirstFew
<1>7. Cardinality(starts) \in Nat
  BY <1>6, FS_CardinalityType
<1>8. \A a \in starts, b \in sending : a.document # b.document
  BY <1>5 DEF Ready, Of
<1>9. Cardinality(sending) + Cardinality(starts) <= Concurrency
  <2> HIDE DEF starts
  <2> QED
    BY <1>2, <1>6, <1>7, Bounds
<1>10. starts \in SUBSET entries
  BY <1>1, <1>5
<1> HIDE DEF starts
<1> QED
  BY <1>6, <1>8, <1>9, <1>10 DEF starts

Waits(entries, sending) == Renumbered(entries \ Starts(entries, sending))
Flies(entries, sending) == sending \cup {Sent(a) : a \in Starts(entries, sending)}

LEMMA PumpIsGood ==
  ASSUME NEW entries, NEW sending, NEW taken, NEW last \in Nat,
         Good(entries, sending, taken, last), Cardinality(entries) <= MaxPending
  PROVE  LET waits == Waits(entries, sending)
             flies == Flies(entries, sending)
         IN  /\ Good(waits, flies, taken, last)
             /\ Cardinality(waits) <= MaxPending
             /\ \A a \in waits : a.place <= MaxPending
             /\ AllSaid(waits \cup flies) = AllSaid(entries \cup sending)
<1> SUFFICES ASSUME NEW waits, waits = Renumbered(entries \ Starts(entries, sending)),
                    NEW flies, flies = sending \cup {Sent(a) : a \in Starts(entries, sending)}
             PROVE  /\ Good(waits, flies, taken, last)
                    /\ Cardinality(waits) <= MaxPending
                    /\ \A a \in waits : a.place <= MaxPending
                    /\ AllSaid(waits \cup flies) = AllSaid(entries \cup sending)
  BY DEF Waits, Flies
<1> DEFINE starts == Starts(entries, sending)
           rest == entries \ starts
           sent == {Sent(a) : a \in starts}
           f == [a \in starts |-> Sent(a)]
<1>1. Mapped(entries) /\ Sending(entries, sending)
  BY DEF Good
<1>2. /\ starts \in SUBSET entries /\ IsFiniteSet(starts)
      /\ Cardinality(sending) + Cardinality(starts) <= Concurrency
      /\ \A a \in starts, b \in sending : a.document # b.document
  BY <1>1, StartsFit
<1>3. entries \in SUBSET Items /\ IsFiniteSet(entries) /\ sending \in SUBSET Items /\ IsFiniteSet(sending)
  BY <1>1 DEF Mapped, Sending
<1> HIDE DEF starts
<1>4. Mapped(rest) /\ Cardinality(rest) <= Cardinality(entries) /\ Cardinality(rest) \in Nat
  <2>1. Good(rest, sending, taken, last)
    BY FewerAreGood
  <2>2. rest \in SUBSET entries
    OBVIOUS
  <2>3. Cardinality(rest) <= Cardinality(entries) /\ IsFiniteSet(rest)
    BY <1>3, <2>2, FS_Subset
  <2> QED
    BY <2>1, <2>3, FS_CardinalityType DEF Good
<1>5. Cardinality(entries) \in Nat
  BY <1>3, FS_CardinalityType
<1>6. waits = Renumbered(rest) /\ flies = sending \cup sent
  BY DEF starts
<1>7. /\ Mapped(waits) /\ Cardinality(waits) <= Cardinality(rest)
      /\ \A p \in waits : p.place \in 1..Cardinality(rest)
      /\ \A p \in waits : \E a \in rest : Alike(p, a) /\ p.attempts = a.attempts
      /\ \A a \in rest : \E p \in waits : Alike(p, a)
  <2> HIDE DEF rest
  <2> QED
    BY <1>4, <1>6, RenumberedIsMapped
<1>8. \A a \in starts : Sent(a) \in Items /\ Alike(Sent(a), a) /\ Sent(a).place = 0
                        /\ Sent(a).attempts = a.attempts + 1
  BY <1>2, <1>3, SentItem
<1>9. IsFiniteSet(flies) /\ Cardinality(flies) <= Concurrency
  <2>1. DOMAIN f = starts /\ f = [a \in starts |-> f[a]] /\ sent = {f[a] : a \in starts}
    OBVIOUS
  <2> HIDE DEF f, sent
  <2>2. IsFiniteSet(sent) /\ Cardinality(sent) <= Cardinality(starts)
    BY <1>2, <2>1, ImageIsSmaller
  <2>3. /\ IsFiniteSet(sending \cup sent)
        /\ Cardinality(sending \cup sent)
             = Cardinality(sending) + Cardinality(sent) - Cardinality(sending \cap sent)
    BY <1>3, <2>2, FS_Union
  <2>4. sending \cap sent \in SUBSET sent
    OBVIOUS
  <2>5. IsFiniteSet(sending \cap sent)
    BY <2>2, <2>4, FS_Subset
  <2>6. /\ Cardinality(sending) \in Nat /\ Cardinality(sent) \in Nat
        /\ Cardinality(starts) \in Nat /\ Cardinality(sending \cap sent) \in Nat
    BY <1>2, <1>3, <2>2, <2>5, FS_CardinalityType
  <2>7. Cardinality(sending \cup sent) <= Concurrency
    BY <1>2, <2>2, <2>3, <2>6, Bounds
  <2> QED
    BY <1>6, <2>3, <2>7
<1>10. \A x \in flies : x \in sending \/ \E a \in starts : x = Sent(a)
  BY <1>6
<1>11. Sending(waits, flies)
  <2>1. flies \in SUBSET Items
    BY <1>3, <1>8, <1>10
  <2>2. \A x, y \in flies : x.document = y.document => x = y
    BY <1>1, <1>2, <1>8, <1>10 DEF Sending, Mapped, Alike
  <2>3. ASSUME NEW x \in flies PROVE x.place = 0 /\ x.attempts \in 1..(Retries + 1)
    <3>1. CASE x \in sending
      BY <1>1, <3>1 DEF Sending
    <3>2. CASE x \notin sending
      <4>1. PICK a \in starts : x = Sent(a)
        BY <1>10, <3>2
      <4>2. a.attempts \in Nat /\ a.attempts <= Retries
        BY <1>1, <1>2, <1>3, <4>1 DEF Mapped, Items, Item
      <4> QED
        BY <1>8, <4>1, <4>2, CallbackAssumption
    <3> QED
      BY <3>1, <3>2
  <2>4. ASSUME NEW p \in waits, NEW x \in flies, p.document = x.document PROVE p.attempts = 0
    <3>1. PICK a \in rest : Alike(p, a) /\ p.attempts = a.attempts
      BY <1>7
    <3>2. a \in entries /\ a \notin starts /\ a.document = x.document
      BY <2>4, <3>1 DEF Alike
    <3>3. x \in sending
      <4>1. SUFFICES ASSUME NEW b \in starts, x = Sent(b) PROVE FALSE
        BY <1>10
      <4>2. a.document = b.document
        BY <1>8, <3>2, <4>1 DEF Alike
      <4> QED
        BY <1>1, <1>2, <3>2, <4>2 DEF Mapped
    <3> QED
      BY <1>1, <3>1, <3>2, <3>3 DEF Sending
  <2> QED
    BY <1>9, <2>1, <2>2, <2>3, <2>4 DEF Sending
<1>12. ASSUME NEW x \in waits \cup flies
       PROVE  \E a \in entries \cup sending :
                /\ Alike(x, a) /\ (a.attempts > 0 => x.attempts > 0)
                /\ x \in waits => a \in rest
                /\ x \notin waits => a \notin rest
  <2>1. CASE x \in waits
    BY <1>7, <2>1
  <2>2. CASE x \notin waits /\ x \in sending
    <3>1. x \notin entries
      BY <1>1, <2>2 DEF Sending, Mapped
    <3> QED
      BY <2>2, <3>1 DEF Alike
  <2>3. CASE x \notin waits /\ x \notin sending
    <3>1. PICK a \in starts : x = Sent(a)
      BY <1>10, <2>3
    <3>2. a \in entries /\ a \notin rest /\ a.attempts \in Nat
      BY <1>2, <1>3, <3>1 DEF Items, Item
    <3> QED
      BY <1>8, <2>3, <3>1, <3>2
  <2> QED
    BY <2>1, <2>2, <2>3
<1>13. ASSUME NEW x \in waits \cup flies, NEW y \in waits \cup flies, x.id = y.id
       PROVE  x = y
  <2>1. PICK a \in entries \cup sending :
          Alike(x, a) /\ (x \in waits => a \in rest) /\ (x \notin waits => a \notin rest)
    BY <1>12
  <2>2. PICK b \in entries \cup sending :
          Alike(y, b) /\ (y \in waits => b \in rest) /\ (y \notin waits => b \notin rest)
    BY <1>12
  <2>3. a = b
    BY <1>13, <2>1, <2>2 DEF Good, Issued, Alike
  <2>4. x.document = y.document
    BY <2>1, <2>2, <2>3 DEF Alike
  <2>5. (x \in waits /\ y \in waits) \/ (x \in flies /\ y \in flies)
    BY <2>1, <2>2, <2>3
  <2> QED
    BY <1>7, <1>11, <2>4, <2>5 DEF Mapped, Sending
<1>14. Issued(waits \cup flies, last) /\ Taken(waits \cup flies, taken, last)
  <2>1. waits \cup flies \in SUBSET Items /\ entries \cup sending \in SUBSET Items
    BY <1>3, <1>7, <1>11 DEF Mapped, Sending
  <2>2. Issued(entries \cup sending, last) /\ Taken(entries \cup sending, taken, last)
    BY DEF Good
  <2> QED
    BY <1>12, <1>13, <2>1, <2>2, IdsKept
<1>15. Good(waits, flies, taken, last)
  BY <1>7, <1>11, <1>14 DEF Good
<1>16. Cardinality(waits) <= MaxPending /\ \A a \in waits : a.place <= MaxPending
  <2>1. IsFiniteSet(waits) /\ Cardinality(waits) \in Nat
    BY <1>7, FS_CardinalityType DEF Mapped
  <2> HIDE DEF rest
  <2>2. Cardinality(rest) <= MaxPending
    BY <1>4, <1>5, Bounds
  <2>3. Cardinality(waits) <= MaxPending
    BY <1>4, <1>7, <2>1, <2>2, Bounds
  <2>4. ASSUME NEW a \in waits PROVE a.place <= MaxPending
    <3>1. a.place \in 1..Cardinality(rest) /\ Cardinality(rest) \in Nat
      BY <1>4, <1>7
    <3> QED
      BY <2>2, <3>1, Bounds
  <2> QED
    BY <2>3, <2>4
<1>17. AllSaid(waits \cup flies) \subseteq AllSaid(entries \cup sending)
  <2>1. \A x \in waits \cup flies : \E a \in entries \cup sending : Says(x) \subseteq Says(a)
    BY <1>12, AlikeSaysTheSame
  <2> QED
    BY <2>1, SaysNoMore
<1>18. AllSaid(entries \cup sending) \subseteq AllSaid(waits \cup flies)
  <2>1. ASSUME NEW a \in entries \cup sending
        PROVE  \E x \in waits \cup flies : Says(a) \subseteq Says(x)
    <3>1. CASE a \in rest
      BY <1>7, <3>1, AlikeSaysTheSame
    <3>2. CASE a \in starts
      BY <1>6, <1>8, <3>2, AlikeSaysTheSame
    <3>3. CASE a \in sending
      BY <1>6, <3>3
    <3> QED
      BY <3>1, <3>2, <3>3
  <2> QED
    BY <2>1, SaysNoMore
<1> QED
  BY <1>15, <1>16, <1>17, <1>18

(***************************************************************************)
(* What each action does before: one entry comes or is replaced            *)
(***************************************************************************)

(* The API may take an id when it is sent: with the body of that send.     *)
LEMMA TakenIsGood ==
  ASSUME NEW entries, NEW sending, NEW taken, NEW last \in Nat,
         Good(entries, sending, taken, last), NEW item \in sending
  PROVE  Good(entries, sending, taken \cup {Body(item)}, last)
<1>1. /\ item \in Items /\ item.attempts > 0
      /\ item.id = Body(item).id /\ Body(item) \in Bodies
  BY DEF Good, Sending, Items, Item, Body, Bodies, Callback
<1>2. \A a \in entries \cup sending : a.id = item.id => a = item
  BY DEF Good, Issued
<1>3. \A a \in entries \cup sending : a.successor.id # item.id
  BY DEF Good, Issued
<1>4. item.id <= last
  BY DEF Good, Issued
<1>5. \A r \in taken : r.id = item.id => r = Body(item)
  BY DEF Good, Taken
<1>6. Taken(entries \cup sending, taken \cup {Body(item)}, last)
  BY <1>1, <1>2, <1>3, <1>4, <1>5 DEF Good, Taken
<1> QED
  BY <1>6 DEF Good

LEMMA OneMore ==
  ASSUME NEW entries, NEW sending, NEW taken, NEW last \in Nat,
         Good(entries, sending, taken, last),
         NEW rest \in SUBSET entries, NEW flies \in SUBSET sending,
         NEW x \in Items, NEW n \in Nat, last <= n,
         \A a \in rest : a.document # x.document /\ a.place # x.place,
         x.place > 0, x.attempts <= Retries, x.attempts = 0 => x.successor = NoSuccessor,
         \A b \in flies : b.document = x.document => x.attempts = 0,
         x.id <= n, x.successor.id <= n, x.successor.id # x.id,
         \A a \in rest \cup flies :
           /\ a.id # x.id /\ a.id # x.successor.id /\ a.successor.id # x.id
           /\ a.successor.id = x.successor.id => x.successor.id = 0,
         \A r \in taken :
           r.id # x.successor.id /\ (r.id = x.id => x.attempts > 0 /\ r = Body(x))
  PROVE  Good(rest \cup {x}, flies, taken, n)
<1>1. /\ entries \in SUBSET Items /\ IsFiniteSet(entries)
      /\ sending \in SUBSET Items /\ IsFiniteSet(sending)
  BY DEF Good, Mapped, Sending
<1>2. Mapped(rest \cup {x})
  <2>1. IsFiniteSet(rest) /\ IsFiniteSet(rest \cup {x})
    BY <1>1, FS_Subset, FS_AddElement
  <2> QED
    BY <1>1, <2>1 DEF Good, Mapped
<1>3. Sending(rest \cup {x}, flies)
  <2>1. IsFiniteSet(flies) /\ Cardinality(flies) <= Cardinality(sending)
    BY <1>1, FS_Subset
  <2>2. Cardinality(flies) \in Nat /\ Cardinality(sending) \in Nat
    BY <1>1, <2>1, FS_CardinalityType
  <2>3. Cardinality(flies) <= Concurrency
    BY <2>1, <2>2, Bounds DEF Good, Sending
  <2>4. \A a \in rest \cup {x}, b \in flies : a.document = b.document => a.attempts = 0
    BY DEF Good, Sending
  <2> QED
    BY <1>1, <2>1, <2>3, <2>4 DEF Good, Sending
<1> DEFINE old == rest \cup flies
           all == (rest \cup {x}) \cup flies
<1>4. old \subseteq entries \cup sending /\ all = old \cup {x} /\ old \subseteq Items
  BY <1>1
<1>5. \A a \in old : a.id \in Nat /\ a.successor.id \in Nat
  BY <1>4 DEF Items, Item, Callback
<1> HIDE DEF old, all
<1>6. Issued(old, last)
  BY <1>4 DEF Good, Issued
<1>7. Issued(all, n)
  <2>1. \A a \in all : a.id <= n /\ a.successor.id <= n
    BY <1>4, <1>5, <1>6 DEF Issued
  <2>2. \A a, b \in all : a.id = b.id => a = b
    BY <1>4, <1>6 DEF Issued, old
  <2>3. \A a, b \in all : a.successor.id # b.id
    BY <1>4, <1>6 DEF Issued, old
  <2>4. \A a, b \in all : a.successor.id = b.successor.id => a = b \/ a.successor.id = 0
    BY <1>4, <1>6 DEF Issued, old
  <2> QED
    BY <2>1, <2>2, <2>3, <2>4 DEF Issued
<1>8. Taken(all, taken, n)
  <2>1. taken \in SUBSET Bodies /\ \A r, s \in taken : r.id = s.id => r = s
    BY DEF Good, Taken
  <2>2. \A r \in taken : r.id <= n
    BY <2>1 DEF Good, Taken, Bodies, Callback
  <2>3. \A r \in taken, a \in all :
          r.id # a.successor.id /\ (r.id = a.id => a.attempts > 0 /\ r = Body(a))
    BY <1>4 DEF Good, Taken
  <2> QED
    BY <2>1, <2>2, <2>3 DEF Taken
<1> QED
  BY <1>2, <1>3, <1>7, <1>8 DEF Good, all

LEMMA StableItems ==
  ASSUME NEW taken, Stable(taken)
  PROVE  /\ pending \in SUBSET Items /\ inFlight \in SUBSET Items
         /\ taken \in SUBSET Bodies
         /\ \A a \in pending : a.place < Last /\ a.place # 0
         /\ \A a \in inFlight : a.place = 0 /\ a.attempts > 0
         /\ Last > 0
<1>1. /\ pending \in SUBSET Items /\ inFlight \in SUBSET Items /\ taken \in SUBSET Bodies
  BY DEF Stable, Good, Mapped, Sending, Taken
<1>2. \A a \in pending : a.place < Last /\ a.place # 0
  BY <1>1, Bounds DEF Stable, Good, Mapped, Last, Items, Item
<1>3. \A a \in inFlight : a.place = 0 /\ a.attempts > 0
  BY <1>1 DEF Stable, Good, Sending, Items, Item
<1> QED
  BY <1>1, <1>2, <1>3, Bounds DEF Last

(* A document's entry, if it has one, is the only one.                     *)
LEMMA OneEntry ==
  ASSUME NEW taken, Stable(taken), NEW d, NEW older \in Of(pending, d)
  PROVE  /\ Of(pending, d) = {older} /\ older \in pending /\ older.document = d
         /\ Without(pending, d) = pending \ {older}
         /\ \A a \in pending \ {older} : a.document # d /\ a.place # older.place
  BY DEF Stable, Good, Mapped, Of, Without

(* enqueue: an entry of its own, merged into one that was not sent, or       *)
(* behind one that was.                                                      *)
LEMMA MergedItem ==
  ASSUME NEW older \in Items, NEW callback \in Bodies,
         older.attempts = 0 => older.successor = NoSuccessor
  PROVE  LET x == Merged(older, callback) IN
         /\ x \in Items /\ x.document = older.document /\ x.place = older.place
         /\ x.attempts = older.attempts
         /\ Says(x) = Says(older) \cup callback.changes
         /\ older.attempts = 0 => x.id = callback.id /\ x.successor = NoSuccessor
         /\ older.attempts # 0 =>
              x.id = older.id /\ x.successor.id = callback.id /\ Body(x) = Body(older)
<1>1. CASE older.attempts = 0
  <2>1. Merged(older, callback) =
          [older EXCEPT !.id = callback.id, !.changes = older.changes \cup callback.changes]
    BY <1>1 DEF Merged
  <2> QED
    BY <1>1, <2>1, NothingBehind DEF Items, Item, Bodies, Callback, Says
<1>2. CASE older.attempts # 0
  <2>1. PICK next : next = Merge(older.successor, callback)
    OBVIOUS
  <2>2. next \in Callback /\ next.id = callback.id
        /\ next.changes = older.successor.changes \cup callback.changes
    BY <2>1 DEF Merge, Items, Item, Bodies, Callback
  <2>3. Merged(older, callback) = [older EXCEPT !.successor = next]
    BY <1>2, <2>1 DEF Merged, Items, Item
  <2>4. callback.id > 0
    BY DEF Bodies
  <2>5. /\ Merged(older, callback) \in Items
        /\ Merged(older, callback).successor = next
        /\ Merged(older, callback).changes = older.changes
        /\ Merged(older, callback).id = older.id
        /\ Merged(older, callback).document = older.document
        /\ Merged(older, callback).place = older.place
        /\ Merged(older, callback).attempts = older.attempts
    BY <2>2, <2>3, <2>4 DEF Items, Item
  <2> QED
    BY <1>2, <2>2, <2>5 DEF Body, Says
<1> QED
  BY <1>1, <1>2

LEMMA EnqueuedIsGood ==
  ASSUME NEW taken, Stable(taken), issued \in Nat, NEW d \in Documents,
         NEW callback \in Callback, callback.id = issued + 1
  PROVE  /\ Good(Enqueued(d, callback), inFlight, taken, issued + 1)
         /\ AllSaid(Enqueued(d, callback) \cup inFlight)
              = AllSaid(pending \cup inFlight) \cup callback.changes
<1>1. callback \in Bodies
  BY DEF Bodies
<1>2. /\ pending \in SUBSET Items /\ inFlight \in SUBSET Items /\ taken \in SUBSET Bodies
      /\ \A a \in pending : a.place < Last /\ a.place # 0
      /\ Last > 0
  BY StableItems
<1>3. Good(pending, inFlight, taken, issued)
  BY DEF Stable
<1>4. \A a \in pending \cup inFlight :
        a.id \in Nat /\ a.successor.id \in Nat /\ a.id <= issued /\ a.successor.id <= issued
        /\ a.id # 0
  BY <1>2, <1>3 DEF Good, Issued, Items, Item, Callback
<1>5. \A r \in taken : r.id \in Nat /\ r.id <= issued /\ r.id # 0
  BY <1>2, <1>3 DEF Good, Taken, Bodies, Callback
<1>6. CASE Of(pending, d) = {}
  <2>1. PICK x : x = Fresh(d, callback)
    OBVIOUS
  <2>2. /\ x \in Items /\ x.document = d /\ x.place = Last /\ x.id = issued + 1
        /\ x.changes = callback.changes /\ x.attempts = 0 /\ x.successor = NoSuccessor
    BY <1>1, <2>1, FreshItem
  <2>3. \A a \in pending : a.document # x.document /\ a.place # x.place
    BY <1>2, <1>6, <2>2, Bounds DEF Of, Items, Item, Last
  <2>4. Good(pending \cup {x}, inFlight, taken, issued + 1)
    <3>1. x.place > 0 /\ x.attempts <= Retries
      BY <1>2, <2>2, Bounds
    <3>2. x.id = issued + 1 /\ x.successor.id = 0
      BY <2>2, NothingBehind
    <3>3. \A a \in pending \cup inFlight :
            /\ a.id # x.id /\ a.id # x.successor.id /\ a.successor.id # x.id
            /\ a.successor.id = x.successor.id => x.successor.id = 0
      BY <1>4, <3>2
    <3>4. \A r \in taken : r.id # x.successor.id /\ r.id # x.id
      BY <1>5, <3>2
    <3>5. issued + 1 \in Nat /\ issued <= issued + 1 /\ x.id <= issued + 1
          /\ x.successor.id <= issued + 1 /\ x.successor.id # x.id
      BY <3>2
    <3> QED
      BY <1>3, <2>2, <2>3, <3>1, <3>3, <3>4, <3>5, OneMore
  <2>5. Enqueued(d, callback) = pending \cup {x}
    BY <1>6, <2>1 DEF Enqueued
  <2>6. Says(x) = callback.changes
    BY <2>2, NothingBehind DEF Says
  <2>7. AllSaid((pending \cup {x}) \cup inFlight) = AllSaid(pending \cup inFlight) \cup Says(x)
    BY DEF AllSaid
  <2> QED
    BY <2>4, <2>5, <2>6, <2>7
<1>7. ASSUME NEW older \in Of(pending, d)
      PROVE  /\ Good(Enqueued(d, callback), inFlight, taken, issued + 1)
             /\ AllSaid(Enqueued(d, callback) \cup inFlight)
                  = AllSaid(pending \cup inFlight) \cup callback.changes
  <2>1. /\ Of(pending, d) = {older} /\ older \in pending /\ older.document = d
        /\ Without(pending, d) = pending \ {older}
        /\ \A a \in pending \ {older} : a.document # d /\ a.place # older.place
    BY OneEntry
  <2>2. PICK x : x = Merged(older, callback)
    OBVIOUS
  <2>3. PICK rest : rest = pending \ {older}
    OBVIOUS
  <2>4. /\ Enqueued(d, callback) = rest \cup {x}
        /\ rest \in SUBSET pending /\ pending = rest \cup {older}
    BY <2>3, <2>1, <2>2 DEF Enqueued
  <2>5. older \in Items /\ (older.attempts = 0 => older.successor = NoSuccessor)
        /\ older.place > 0 /\ older.attempts <= Retries
        /\ \A b \in inFlight : b.document = older.document => older.attempts = 0
    BY <1>3, <2>1 DEF Good, Mapped, Sending
  <2>6. /\ x \in Items /\ x.document = older.document /\ x.place = older.place
        /\ x.attempts = older.attempts
        /\ Says(x) = Says(older) \cup callback.changes
        /\ older.attempts = 0 => x.id = issued + 1 /\ x.successor = NoSuccessor
        /\ older.attempts # 0 =>
             x.id = older.id /\ x.successor.id = issued + 1 /\ Body(x) = Body(older)
    BY <1>1, <2>2, <2>5, MergedItem
  <2>7. \A a \in rest \cup inFlight :
          a.id # older.id /\ a.successor.id # older.id
    <3>1. \A a \in inFlight : a # older
      BY <2>5, StableItems
    <3> QED
      BY <1>3, <2>3, <2>1, <3>1 DEF Good, Issued
  <2>8. \A r \in taken : r.id = older.id => older.attempts > 0 /\ r = Body(older)
    BY <1>3, <2>1 DEF Good, Taken
  <2>9. \A a \in rest : a.document # x.document /\ a.place # x.place
    BY <2>3, <2>1, <2>6
  <2>10. \A b \in inFlight : b.document = x.document => x.attempts = 0
    BY <2>5, <2>6
  <2>11. x.place > 0 /\ x.attempts <= Retries /\ (x.attempts = 0 => x.successor = NoSuccessor)
    BY <2>5, <2>6
  <2>12. x \in Items /\ rest \in SUBSET pending /\ inFlight \in SUBSET inFlight
    BY <2>4, <2>6
  <2>13. ASSUME older.attempts = 0
         PROVE  Good(rest \cup {x}, inFlight, taken, issued + 1)
    <3>1. x.id = issued + 1 /\ x.successor.id = 0
      BY <2>6, <2>13, NothingBehind
    <3>2. \A a \in rest \cup inFlight :
            /\ a.id # x.id /\ a.id # x.successor.id /\ a.successor.id # x.id
            /\ a.successor.id = x.successor.id => x.successor.id = 0
      BY <1>4, <2>4, <3>1
    <3>3. \A r \in taken : r.id # x.successor.id /\ r.id # x.id
      BY <1>5, <3>1
    <3>4. issued + 1 \in Nat /\ issued <= issued + 1 /\ x.id <= issued + 1
          /\ x.successor.id <= issued + 1 /\ x.successor.id # x.id
      BY <3>1
    <3> QED
      BY <1>3, <2>12, <2>9, <2>10, <2>11, <3>2, <3>3, <3>4, OneMore
  <2>14. ASSUME older.attempts # 0
         PROVE  Good(rest \cup {x}, inFlight, taken, issued + 1)
    <3>1. /\ x.id = older.id /\ x.successor.id = issued + 1 /\ Body(x) = Body(older)
          /\ older.id <= issued /\ older.id \in Nat
      BY <1>4, <2>1, <2>6, <2>14
    <3>2. \A a \in rest \cup inFlight :
            /\ a.id # x.id /\ a.id # x.successor.id /\ a.successor.id # x.id
            /\ a.successor.id = x.successor.id => x.successor.id = 0
      BY <1>4, <2>4, <2>7, <3>1
    <3>3. \A r \in taken :
            r.id # x.successor.id /\ (r.id = x.id => x.attempts > 0 /\ r = Body(x))
      BY <1>5, <2>6, <2>8, <3>1
    <3>4. issued + 1 \in Nat /\ issued <= issued + 1 /\ x.id <= issued + 1
          /\ x.successor.id <= issued + 1 /\ x.successor.id # x.id
      BY <3>1
    <3> QED
      BY <1>3, <2>12, <2>9, <2>10, <2>11, <3>2, <3>3, <3>4, OneMore
  <2>15. AllSaid((rest \cup {x}) \cup inFlight)
           = AllSaid(pending \cup inFlight) \cup callback.changes
    <3>1. Says(x) = Says(older) \cup callback.changes
      BY <2>6
    <3>2. AllSaid((rest \cup {x}) \cup inFlight)
            = AllSaid((rest \cup {older}) \cup inFlight) \cup callback.changes
      BY <3>1 DEF AllSaid
    <3> QED
      BY <2>4, <3>2
  <2> QED
    BY <2>4, <2>13, <2>14, <2>15
<1> QED
  BY <1>6, <1>7

(* retry: the item that failed comes back, ahead of what came meanwhile.   *)
Again(item, behind) ==
  [item EXCEPT !.place = Last, !.waiting = TRUE, !.successor = behind]

LEMMA RetriedItem ==
  ASSUME NEW item \in Items, NEW behind \in Callback,
         behind.id = 0 => behind = NoSuccessor
  PROVE  LET x == Again(item, behind) IN
         /\ x \in Items /\ x.document = item.document /\ x.place = Last
         /\ x.id = item.id /\ x.changes = item.changes /\ x.attempts = item.attempts
         /\ x.successor = behind /\ Body(x) = Body(item)
<1>1. Last \in Nat
  BY Bounds DEF Last
<1> QED
  BY <1>1 DEF Again, Items, Item, Body

(* Of an item in flight: the others in flight, and what its document's      *)
(* entry is, if there is one.                                               *)
LEMMA InFlightItem ==
  ASSUME NEW taken, Stable(taken), NEW item \in inFlight
  PROVE  /\ item \in Items /\ item.attempts > 0
         /\ item.id <= issued /\ item.successor.id <= issued /\ item.successor.id # item.id
         /\ item.successor \in Callback
         /\ item.successor.id = 0 => item.successor = NoSuccessor
         /\ \A a \in pending \cup (inFlight \ {item}) :
              /\ a.id # item.id /\ a.id # item.successor.id /\ a.successor.id # item.id
              /\ a.successor.id = item.successor.id => item.successor.id = 0
         /\ \A b \in inFlight \ {item} : b.document # item.document
         /\ \A r \in taken : r.id # item.successor.id /\ (r.id = item.id => r = Body(item))
<1>1. /\ Good(pending, inFlight, taken, issued) /\ item \in Items /\ item.attempts > 0
      /\ \A a \in pending : a # item
  BY StableItems DEF Stable
<1>2. item.successor \in Callback /\ (item.successor.id = 0 => item.successor = NoSuccessor)
  BY <1>1 DEF Items, Item
<1>3. item.id <= issued /\ item.successor.id <= issued /\ item.successor.id # item.id
  BY <1>1 DEF Good, Issued
<1>4. \A a \in pending \cup (inFlight \ {item}) :
        /\ a.id # item.id /\ a.id # item.successor.id /\ a.successor.id # item.id
        /\ a.successor.id = item.successor.id => item.successor.id = 0
  BY <1>1 DEF Good, Issued
<1>5. \A b \in inFlight \ {item} : b.document # item.document
  BY <1>1 DEF Good, Sending
<1>6. \A r \in taken : r.id # item.successor.id /\ (r.id = item.id => r = Body(item))
  BY <1>1 DEF Good, Taken
<1> QED
  BY <1>1, <1>2, <1>3, <1>4, <1>5, <1>6

(* What was enqueued while an item was in flight was never sent.           *)
LEMMA NewerItem ==
  ASSUME NEW taken, Stable(taken), NEW item \in inFlight,
         NEW newer \in Of(pending, item.document)
  PROVE  /\ newer \in Items /\ newer.attempts = 0 /\ newer.successor = NoSuccessor
         /\ newer.place > 0 /\ newer.id <= issued /\ newer.id > 0 /\ newer.id # item.id
         /\ Says(newer) = newer.changes
         /\ \A a \in (pending \ {newer}) \cup inFlight :
              a.id # newer.id /\ a.successor.id # newer.id
         /\ \A r \in taken : r.id # newer.id
<1>1. /\ Good(pending, inFlight, taken, issued)
      /\ newer \in pending /\ newer.document = item.document
      /\ newer \in Items /\ newer.place > 0
  BY OneEntry DEF Stable, Good, Mapped
<1>2. newer.attempts = 0 /\ newer.successor = NoSuccessor
  BY <1>1 DEF Good, Mapped, Sending
<1>3. Says(newer) = newer.changes
  BY <1>1, <1>2, NothingBehind DEF Says, Items, Item
<1>4. \A a \in inFlight : a # newer
  BY <1>1, StableItems
<1>5. \A a \in (pending \ {newer}) \cup inFlight : a.id # newer.id /\ a.successor.id # newer.id
  BY <1>1, <1>4 DEF Good, Issued
<1>6. \A r \in taken : r.id # newer.id
  BY <1>1, <1>2 DEF Good, Taken
<1>7. newer.id <= issued /\ newer.id > 0
  BY <1>1 DEF Good, Issued, Items
<1> QED
  BY <1>1, <1>2, <1>3, <1>5, <1>6, <1>7

LEMMA RetriedIsGood ==
  ASSUME NEW taken, Stable(taken), issued \in Nat,
         NEW item \in inFlight, item.attempts <= Retries
  PROVE  /\ Good(Retried(item), inFlight \ {item}, taken, issued)
         /\ AllSaid(Retried(item) \cup (inFlight \ {item})) = AllSaid(pending \cup inFlight)
<1> DEFINE d == item.document
<1>1. PICK flies : flies = inFlight \ {item}
  OBVIOUS
<1>2. PICK behind : behind = Behind(item)
  OBVIOUS
<1>3. PICK x : x = Again(item, behind)
  OBVIOUS
<1>4. Retried(item) = Without(pending, d) \cup {x}
  BY <1>2, <1>3 DEF Retried, Again
<1>5. /\ item \in Items /\ item.attempts > 0
      /\ item.id <= issued /\ item.successor.id <= issued /\ item.successor.id # item.id
      /\ item.successor \in Callback
      /\ item.successor.id = 0 => item.successor = NoSuccessor
      /\ \A a \in pending \cup flies :
           /\ a.id # item.id /\ a.id # item.successor.id /\ a.successor.id # item.id
           /\ a.successor.id = item.successor.id => item.successor.id = 0
      /\ \A b \in flies : b.document # d
      /\ \A r \in taken : r.id # item.successor.id /\ (r.id = item.id => r = Body(item))
  BY <1>1, InFlightItem
<1>6. Good(pending, inFlight, taken, issued) /\ Last > 0
      /\ \A a \in pending : a.place < Last /\ a.place \in Nat
  BY StableItems DEF Stable, Items, Item
<1>7. flies \in SUBSET inFlight /\ inFlight = flies \cup {item}
  BY <1>1
<1>8. Last \in Nat
  BY Bounds DEF Last
<1>9. CASE Of(pending, d) = {}
  <2>1. behind = item.successor /\ behind \in Callback /\ (behind.id = 0 => behind = NoSuccessor)
    BY <1>2, <1>5, <1>9 DEF Behind
  <2>2. Without(pending, d) = pending /\ \A a \in pending : a.document # d
    BY <1>9 DEF Without, Of
  <2>3. /\ x \in Items /\ x.document = d /\ x.place = Last
        /\ x.id = item.id /\ x.changes = item.changes /\ x.attempts = item.attempts
        /\ x.successor = item.successor /\ Body(x) = Body(item)
    <3>1. item \in Items
      BY <1>5
    <3> QED
      BY <1>3, <2>1, <3>1, RetriedItem
  <2>4. \A a \in pending : a.document # x.document /\ a.place # x.place
    BY <1>6, <1>8, <2>2, <2>3
  <2>5. x.place > 0 /\ x.attempts <= Retries /\ x.attempts # 0
    BY <1>5, <1>6, <2>3
  <2>6. x.id <= issued /\ x.successor.id <= issued /\ x.successor.id # x.id
    BY <1>5, <2>3
  <2>7. \A a \in pending \cup flies :
          /\ a.id # x.id /\ a.id # x.successor.id /\ a.successor.id # x.id
          /\ a.successor.id = x.successor.id => x.successor.id = 0
    BY <1>5, <2>3
  <2>8. \A r \in taken :
          r.id # x.successor.id /\ (r.id = x.id => x.attempts > 0 /\ r = Body(x))
    BY <1>5, <2>3
  <2>9. \A b \in flies : b.document # x.document
    BY <1>5, <2>3
  <2>10. pending \in SUBSET pending /\ issued <= issued
    OBVIOUS
  <2>11. Good(pending \cup {x}, flies, taken, issued)
    BY <1>6, <1>7, <2>3, <2>4, <2>5, <2>6, <2>7, <2>8, <2>9, <2>10, OneMore
  <2>12. Says(x) = Says(item)
    BY <2>3 DEF Says
  <2>13. AllSaid((pending \cup {x}) \cup flies) = AllSaid(pending \cup (flies \cup {item}))
    BY <2>12 DEF AllSaid
  <2> QED
    BY <1>1, <1>4, <1>7, <2>2, <2>11, <2>13
<1>10. ASSUME NEW newer \in Of(pending, d)
      PROVE  /\ Good(Retried(item), flies, taken, issued)
             /\ AllSaid(Retried(item) \cup flies) = AllSaid(pending \cup inFlight)
  <2>1. /\ Of(pending, d) = {newer} /\ newer \in pending
        /\ Without(pending, d) = pending \ {newer}
        /\ \A a \in pending \ {newer} : a.document # d
    BY OneEntry
  <2>2. PICK rest : rest = pending \ {newer}
    OBVIOUS
  <2>3. rest \in SUBSET pending /\ pending = rest \cup {newer}
    BY <2>1, <2>2
  <2>4. /\ newer \in Items /\ newer.id <= issued /\ newer.id > 0 /\ newer.id # item.id
        /\ Says(newer) = newer.changes
        /\ \A a \in rest \cup inFlight : a.id # newer.id /\ a.successor.id # newer.id
        /\ \A r \in taken : r.id # newer.id
    BY <2>2, NewerItem
  <2>5. behind = Merge(item.successor, Body(newer))
    BY <1>2, <2>1 DEF Behind
  <2>6. /\ behind \in Callback /\ behind.id = newer.id
        /\ behind.changes = item.successor.changes \cup newer.changes
    BY <1>5, <2>4, <2>5 DEF Merge, Body, Callback, Items, Item
  <2>7. newer.id \in Nat /\ newer.id # 0
    BY <2>4 DEF Items, Item
  <2>8. /\ x \in Items /\ x.document = d /\ x.place = Last
        /\ x.id = item.id /\ x.changes = item.changes /\ x.attempts = item.attempts
        /\ x.successor = behind /\ Body(x) = Body(item)
    <3>1. item \in Items
      BY <1>5
    <3>2. behind \in Callback /\ (behind.id = 0 => behind = NoSuccessor)
      BY <2>6, <2>7
    <3> QED
      BY <1>3, <3>1, <3>2, RetriedItem
  <2>9. \A a \in rest : a.document # x.document /\ a.place # x.place
    BY <1>6, <1>8, <2>1, <2>2, <2>8
  <2>10. x.place > 0 /\ x.attempts <= Retries /\ x.attempts # 0
    BY <1>5, <1>6, <2>8
  <2>11. x.id <= issued /\ x.successor.id <= issued /\ x.successor.id # x.id
    BY <1>5, <2>4, <2>6, <2>8
  <2>12. \A a \in rest \cup flies :
           /\ a.id # x.id /\ a.id # x.successor.id /\ a.successor.id # x.id
           /\ a.successor.id = x.successor.id => x.successor.id = 0
    BY <1>5, <1>7, <2>3, <2>4, <2>6, <2>8
  <2>13. \A r \in taken :
           r.id # x.successor.id /\ (r.id = x.id => x.attempts > 0 /\ r = Body(x))
    BY <1>5, <2>4, <2>6, <2>8
  <2>14. \A b \in flies : b.document # x.document
    BY <1>5, <2>8
  <2>15. issued <= issued
    OBVIOUS
  <2>16. Good(rest \cup {x}, flies, taken, issued)
    BY <1>6, <1>7, <2>3, <2>8, <2>9, <2>10, <2>11, <2>12, <2>13, <2>14, <2>15, OneMore
  <2>17. Says(x) = Says(item) \cup Says(newer)
    BY <2>4, <2>6, <2>8 DEF Says
  <2>18. AllSaid((rest \cup {x}) \cup flies)
           = AllSaid((rest \cup {newer}) \cup (flies \cup {item}))
    BY <2>17 DEF AllSaid
  <2> QED
    BY <1>4, <1>7, <2>1, <2>2, <2>3, <2>16, <2>18
<1> QED
  BY <1>1, <1>9, <1>10

(* sendSuccessor: what came after a send goes out once the send has settled. *)
LEMMA LandedIsGood ==
  ASSUME NEW entries, NEW sending, NEW flies \in SUBSET sending, NEW taken, NEW last \in Nat,
         Good(entries, sending, taken, last)
  PROVE  Good(entries, flies, taken, last)
<1>1. sending \in SUBSET Items /\ IsFiniteSet(sending)
  BY DEF Good, Sending
<1>2. IsFiniteSet(flies) /\ Cardinality(flies) <= Cardinality(sending)
  BY <1>1, FS_Subset
<1>3. Cardinality(flies) \in Nat /\ Cardinality(sending) \in Nat
  BY <1>1, <1>2, FS_CardinalityType
<1>4. Cardinality(flies) <= Concurrency
  BY <1>2, <1>3, Bounds DEF Good, Sending
<1>5. Sending(entries, flies)
  BY <1>2, <1>4 DEF Good, Sending
<1>6. entries \cup flies \subseteq entries \cup sending
  OBVIOUS
<1>7. Issued(entries \cup flies, last) /\ Taken(entries \cup flies, taken, last)
  BY <1>6 DEF Good, Issued, Taken
<1> QED
  BY <1>5, <1>7 DEF Good

Fuller(newer, more) == [newer EXCEPT !.changes = @ \cup more]

LEMMA FullerItem ==
  ASSUME NEW newer \in Items, NEW more \in SUBSET Changes
  PROVE  LET x == Fuller(newer, more) IN
         /\ x \in Items /\ x.document = newer.document /\ x.place = newer.place
         /\ x.id = newer.id /\ x.attempts = newer.attempts
         /\ x.successor = newer.successor /\ Says(x) = Says(newer) \cup more
  BY DEF Fuller, Items, Item, Says

LEMMA SucceededIsGood ==
  ASSUME NEW taken, Stable(taken), issued \in Nat, NEW item \in inFlight
  PROVE  /\ Good(Succeeded(item), inFlight \ {item}, taken, issued)
         /\ AllSaid(Succeeded(item) \cup (inFlight \ {item})) \cup item.changes
              = AllSaid(pending \cup inFlight)
<1> DEFINE d == item.document
           after == item.successor
<1>1. PICK flies : flies = inFlight \ {item}
  OBVIOUS
<1>2. /\ item \in Items /\ item.id <= issued /\ after.id <= issued
      /\ after \in Callback /\ (after.id = 0 => after = NoSuccessor)
      /\ \A a \in pending \cup flies :
           /\ a.id # after.id
           /\ a.successor.id = after.id => after.id = 0
      /\ \A b \in flies : b.document # d
      /\ \A r \in taken : r.id # after.id
  BY <1>1, InFlightItem
<1>3. /\ Good(pending, inFlight, taken, issued) /\ pending \in SUBSET Items
      /\ Last > 0 /\ \A a \in pending : a.place < Last /\ a.place \in Nat
  BY StableItems DEF Stable, Items, Item
<1>4. flies \in SUBSET inFlight /\ inFlight = flies \cup {item}
  BY <1>1
<1>5. Last \in Nat
  BY Bounds DEF Last
<1>6. Good(pending, flies, taken, issued)
  BY <1>3, <1>4, LandedIsGood
<1>7. \A a \in pending \cup flies : a.id \in Nat /\ a.id # 0 /\ a.successor.id \in Nat
  <2>1. inFlight \in SUBSET Items
    BY StableItems
  <2> QED
    BY <1>3, <1>4, <2>1 DEF Items, Item, Callback
<1>8. \A r \in taken : r.id # 0
  BY StableItems DEF Bodies, Callback
<1>9. Says(item) = after.changes \cup item.changes
  BY DEF Says
<1>10. CASE after = NoSuccessor
  <2>1. Succeeded(item) = pending
    BY <1>10 DEF Succeeded
  <2>2. Says(item) = item.changes
    BY <1>9, <1>10, NothingBehind
  <2>3. AllSaid(pending \cup flies) \cup item.changes = AllSaid(pending \cup (flies \cup {item}))
    BY <2>2 DEF AllSaid
  <2> QED
    BY <1>1, <1>4, <1>6, <2>1, <2>3
<1>11. ASSUME after # NoSuccessor
       PROVE  after \in Bodies /\ after.id \in Nat /\ after.id # 0 /\ after.changes \in SUBSET Changes
  BY <1>2, <1>11 DEF Bodies, Callback
<1>12. CASE after # NoSuccessor /\ Of(pending, d) = {}
  <2>1. PICK x : x = Fresh(d, after)
    OBVIOUS
  <2>2. d \in Documents /\ after \in Bodies
    BY <1>2, <1>11, <1>12 DEF Items, Item
  <2>3. /\ x \in Items /\ x.document = d /\ x.place = Last /\ x.id = after.id
        /\ x.changes = after.changes /\ x.attempts = 0 /\ x.successor = NoSuccessor
    BY <2>1, <2>2, FreshItem
  <2>4. Succeeded(item) = pending \cup {x}
    BY <1>12, <2>1 DEF Succeeded
  <2>5. \A a \in pending : a.document # x.document /\ a.place # x.place
    BY <1>3, <1>5, <1>12, <2>3 DEF Of
  <2>6. x.place > 0 /\ x.attempts <= Retries /\ x.successor.id = 0
    BY <1>3, <2>3, Bounds, NothingBehind
  <2>7. x.id <= issued /\ x.successor.id <= issued /\ x.successor.id # x.id
    BY <1>2, <1>11, <1>12, <2>3, <2>6
  <2>8. \A a \in pending \cup flies :
          /\ a.id # x.id /\ a.id # x.successor.id /\ a.successor.id # x.id
          /\ a.successor.id = x.successor.id => x.successor.id = 0
    BY <1>2, <1>7, <1>11, <1>12, <2>3, <2>6
  <2>9. \A r \in taken : r.id # x.successor.id /\ r.id # x.id
    BY <1>2, <1>8, <2>3, <2>6
  <2>10. pending \in SUBSET pending /\ issued <= issued
    OBVIOUS
  <2>11. Good(pending \cup {x}, flies, taken, issued)
    BY <1>3, <1>4, <2>3, <2>5, <2>6, <2>7, <2>8, <2>9, <2>10, OneMore
  <2>12. Says(x) = after.changes
    BY <2>3, NothingBehind DEF Says
  <2>13. AllSaid((pending \cup {x}) \cup flies) \cup item.changes
           = AllSaid(pending \cup (flies \cup {item}))
    BY <1>9, <2>12 DEF AllSaid
  <2> QED
    BY <1>1, <1>4, <2>4, <2>11, <2>13
<1>13. ASSUME after # NoSuccessor, NEW newer \in Of(pending, d)
       PROVE  /\ Good(Succeeded(item), flies, taken, issued)
              /\ AllSaid(Succeeded(item) \cup flies) \cup item.changes
                   = AllSaid(pending \cup inFlight)
  <2>1. /\ Of(pending, d) = {newer} /\ newer \in pending
        /\ Without(pending, d) = pending \ {newer}
        /\ \A a \in pending \ {newer} : a.document # newer.document /\ a.place # newer.place
    BY OneEntry
  <2>2. PICK rest : rest = pending \ {newer}
    OBVIOUS
  <2>3. rest \in SUBSET pending /\ pending = rest \cup {newer}
    BY <2>1, <2>2
  <2>4. /\ newer \in Items /\ newer.attempts = 0 /\ newer.successor = NoSuccessor
        /\ newer.place > 0 /\ newer.id <= issued /\ newer.id > 0
        /\ \A a \in rest \cup inFlight : a.id # newer.id /\ a.successor.id # newer.id
        /\ \A r \in taken : r.id # newer.id
    BY <2>2, NewerItem
  <2>5. PICK x : x = Fuller(newer, after.changes)
    OBVIOUS
  <2>6. after.changes \in SUBSET Changes /\ newer \in Items
    BY <1>11, <1>13, <2>4
  <2>7. /\ x \in Items /\ x.document = newer.document /\ x.place = newer.place
        /\ x.id = newer.id /\ x.attempts = newer.attempts
        /\ x.successor = newer.successor /\ Says(x) = Says(newer) \cup after.changes
    BY <2>5, <2>6, FullerItem
  <2>8. Succeeded(item) = rest \cup {x}
    BY <1>13, <2>1, <2>2, <2>5 DEF Succeeded, Fuller
  <2>9. \A a \in rest : a.document # x.document /\ a.place # x.place
    BY <2>1, <2>2, <2>7
  <2>10. x.place > 0 /\ x.attempts <= Retries /\ x.attempts = 0 /\ x.successor = NoSuccessor
         /\ x.successor.id = 0
    BY <2>4, <2>7, Bounds, NothingBehind
  <2>11. x.id <= issued /\ x.successor.id <= issued /\ x.successor.id # x.id
    BY <2>4, <2>7, <2>10
  <2>12. \A a \in rest \cup flies :
           /\ a.id # x.id /\ a.id # x.successor.id /\ a.successor.id # x.id
           /\ a.successor.id = x.successor.id => x.successor.id = 0
    BY <1>4, <1>7, <2>3, <2>4, <2>7, <2>10
  <2>13. \A r \in taken : r.id # x.successor.id /\ r.id # x.id
    BY <1>8, <2>4, <2>7, <2>10
  <2>14. x \in Items /\ issued <= issued
    BY <2>7
  <2>15. Good(rest \cup {x}, flies, taken, issued)
    BY <1>3, <1>4, <2>3, <2>9, <2>10, <2>11, <2>12, <2>13, <2>14, OneMore
  <2>16. Says(x) = Says(newer) \cup after.changes
    BY <2>7
  <2>17. AllSaid((rest \cup {x}) \cup flies) \cup item.changes
           = AllSaid((rest \cup {newer}) \cup (flies \cup {item}))
    BY <1>9, <2>16 DEF AllSaid
  <2> QED
    BY <1>4, <2>3, <2>8, <2>15, <2>17
<1> QED
  BY <1>1, <1>10, <1>12, <1>13

(* Entries whose delay has passed, all of them at a flush.                 *)
Woken(entries, woken) == {IF a \in woken THEN Awake(a) ELSE a : a \in entries}

LEMMA WokenIsGood ==
  ASSUME NEW entries, NEW sending, NEW taken, NEW last \in Nat,
         Good(entries, sending, taken, last), NEW woken
  PROVE  LET awake == Woken(entries, woken)
         IN  /\ Good(awake, sending, taken, last)
             /\ Cardinality(awake) <= Cardinality(entries)
             /\ AllSaid(awake \cup sending) = AllSaid(entries \cup sending)
<1> SUFFICES ASSUME NEW awake, awake = {IF a \in woken THEN Awake(a) ELSE a : a \in entries}
             PROVE  /\ Good(awake, sending, taken, last)
                    /\ Cardinality(awake) <= Cardinality(entries)
                    /\ AllSaid(awake \cup sending) = AllSaid(entries \cup sending)
  BY DEF Woken
<1> DEFINE f == [a \in entries |-> IF a \in woken THEN Awake(a) ELSE a]
<1>1. Mapped(entries) /\ Sending(entries, sending)
  BY DEF Good
<1>2. entries \in SUBSET Items /\ IsFiniteSet(entries) /\ sending \in SUBSET Items
  BY <1>1 DEF Mapped, Sending
<1>3. ASSUME NEW a \in entries
      PROVE  /\ f[a] \in Items /\ Alike(f[a], a)
             /\ f[a].place = a.place /\ f[a].attempts = a.attempts
  BY <1>2, AwakeItem DEF Alike
<1>4. awake = {f[a] : a \in entries} /\ DOMAIN f = entries /\ f = [a \in entries |-> f[a]]
  OBVIOUS
<1> HIDE DEF f
<1>5. IsFiniteSet(awake) /\ Cardinality(awake) <= Cardinality(entries)
  BY <1>2, <1>4, ImageIsSmaller
<1>6. \A x \in awake : \E a \in entries : x = f[a]
  BY <1>4
<1>7. Mapped(awake)
  <2>1. awake \in SUBSET Items
    BY <1>3, <1>6
  <2>2. \A x, y \in awake : x.document = y.document => x = y
    BY <1>1, <1>3, <1>6 DEF Mapped, Alike
  <2>3. \A x, y \in awake : x.place = y.place => x = y
    BY <1>1, <1>3, <1>6 DEF Mapped
  <2>4. \A x \in awake : x.place > 0 /\ x.attempts <= Retries
    BY <1>1, <1>3, <1>6 DEF Mapped
  <2>5. \A x \in awake : x.attempts = 0 => x.successor = NoSuccessor
    BY <1>1, <1>3, <1>6 DEF Mapped, Alike
  <2> QED
    BY <1>5, <2>1, <2>2, <2>3, <2>4, <2>5 DEF Mapped
<1>8. Sending(awake, sending)
  <2>1. \A x \in awake, b \in sending : x.document = b.document => x.attempts = 0
    BY <1>1, <1>3, <1>6 DEF Sending, Alike
  <2> QED
    BY <1>1, <2>1 DEF Sending
<1>9. ASSUME NEW x \in awake \cup sending
      PROVE  \E a \in entries \cup sending : Alike(x, a) /\ x.place = a.place /\ x.attempts = a.attempts
  <2>1. CASE x \in awake
    BY <1>3, <1>6, <2>1
  <2>2. CASE x \in sending
    BY <2>2 DEF Alike
  <2> QED
    BY <2>1, <2>2
<1>10. ASSUME NEW x \in awake \cup sending, NEW y \in awake \cup sending, x.id = y.id
       PROVE  x = y
  <2>1. PICK a \in entries \cup sending : Alike(x, a) /\ x.place = a.place
    BY <1>9
  <2>2. PICK b \in entries \cup sending : Alike(y, b) /\ y.place = b.place
    BY <1>9
  <2>3. a = b
    BY <1>10, <2>1, <2>2 DEF Good, Issued, Alike
  <2>4. x.document = y.document /\ x.place = y.place
    BY <2>1, <2>2, <2>3 DEF Alike
  <2>5. (x \in awake /\ y \in awake) \/ (x \in sending /\ y \in sending)
    BY <1>7, <1>8, <2>4 DEF Mapped, Sending
  <2> QED
    BY <1>7, <1>8, <2>4, <2>5 DEF Mapped, Sending
<1>11. Issued(awake \cup sending, last) /\ Taken(awake \cup sending, taken, last)
  <2>1. awake \cup sending \in SUBSET Items /\ entries \cup sending \in SUBSET Items
    BY <1>2, <1>7 DEF Mapped
  <2>2. Issued(entries \cup sending, last) /\ Taken(entries \cup sending, taken, last)
    BY DEF Good
  <2>3. \A x \in awake \cup sending :
          \E a \in entries \cup sending : Alike(x, a) /\ (a.attempts > 0 => x.attempts > 0)
    BY <1>9
  <2> QED
    BY <1>10, <2>1, <2>2, <2>3, IdsKept
<1>12. AllSaid(awake \cup sending) \subseteq AllSaid(entries \cup sending)
  BY <1>9, AlikeSaysTheSame, SaysNoMore
<1>13. AllSaid(entries \cup sending) \subseteq AllSaid(awake \cup sending)
  <2>1. ASSUME NEW a \in entries \cup sending
        PROVE  \E x \in awake \cup sending : Says(a) \subseteq Says(x)
    <3>1. CASE a \in entries
      BY <1>3, <1>4, <3>1, AlikeSaysTheSame
    <3>2. CASE a \in sending
      BY <3>2
    <3> QED
      BY <3>1, <3>2
  <2> QED
    BY <2>1, SaysNoMore
<1> QED
  BY <1>5, <1>7, <1>8, <1>11, <1>12, <1>13 DEF Good

(***************************************************************************)
(* The actions                                                             *)
(***************************************************************************)

(* From a good queue with room, pump leads to a stable one.                *)
LEMMA PumpIsStable ==
  ASSUME NEW entries, NEW sending, issued' \in Nat,
         Good(entries, sending, received', issued'), Cardinality(entries) <= MaxPending,
         Pump(entries, sending)
  PROVE  /\ Stable(received)' /\ Cardinality(pending') <= MaxPending
         /\ AllSaid(pending' \cup inFlight') = AllSaid(entries \cup sending)
<1>1. PICK taken, last : taken = received' /\ last = issued'
  OBVIOUS
<1>2. last \in Nat /\ Good(entries, sending, taken, last)
  BY <1>1
<1>3. pending' = Waits(entries, sending) /\ inFlight' = Flies(entries, sending)
  BY DEF Pump, Waits, Flies
<1>4. LET waits == Waits(entries, sending)
          flies == Flies(entries, sending)
      IN  /\ Good(waits, flies, taken, last) /\ Cardinality(waits) <= MaxPending
          /\ \A a \in waits : a.place <= MaxPending
          /\ AllSaid(waits \cup flies) = AllSaid(entries \cup sending)
  BY <1>2, PumpIsGood
<1> QED
  BY <1>1, <1>3, <1>4 DEF Stable

(* The same after dropOverflow.                                            *)
LEMMA SettledIsStable ==
  ASSUME NEW entries, NEW sending, issued' \in Nat,
         Good(entries, sending, received', issued'), Pump(Kept(entries), sending)
  PROVE  /\ Stable(received)' /\ Cardinality(pending') <= MaxPending
         /\ AllSaid(pending' \cup inFlight') \cup Dropped(entries) = AllSaid(entries \cup sending)
<1>1. PICK taken, last : taken = received' /\ last = issued'
  OBVIOUS
<1>2. last \in Nat /\ Good(entries, sending, taken, last)
  BY <1>1
<1>3. /\ Good(Kept(entries), sending, taken, last) /\ Cardinality(Kept(entries)) <= MaxPending
      /\ AllSaid(entries \cup sending) = AllSaid(Kept(entries) \cup sending) \cup Dropped(entries)
  BY <1>2, KeptIsGood
<1>4. Good(Kept(entries), sending, received', issued')
  BY <1>1, <1>3
<1>5. /\ Stable(received)' /\ Cardinality(pending') <= MaxPending
      /\ AllSaid(pending' \cup inFlight') = AllSaid(Kept(entries) \cup sending)
  BY <1>3, <1>4, PumpIsStable
<1> QED
  BY <1>3, <1>5

LEMMA StableIsTyped ==
  ASSUME NEW taken, Stable(taken)
  PROVE  /\ pending \in SUBSET Item
         /\ \A a, b \in pending : a.document = b.document => a = b
         /\ inFlight \in SUBSET Item /\ Cardinality(inFlight) <= Concurrency
         /\ \A item \in inFlight : item.attempts \in 1..(Retries + 1)
         /\ taken \in SUBSET Callback
  BY DEF Stable, Good, Mapped, Sending, Taken, Items, Bodies

(* What TypeOK says beside what a stable queue does.                       *)
Typed ==
  /\ changed \in 0..MaxChanges
  /\ ledger \in [Documents -> SUBSET Changes]
  /\ snapshot \in [Documents -> SUBSET Changes]
  /\ failures \in SUBSET Documents /\ due \in SUBSET Documents
  /\ writing \in SUBSET Documents /\ tombstones \in SUBSET Documents
  /\ written \in [Documents -> SUBSET Changes]
  /\ unsaid \in SUBSET Changes /\ forgotten \in SUBSET Changes
  /\ persisted \in SUBSET Changes /\ logged \in SUBSET Changes
  /\ issued \in Nat
  /\ phase \in {"running", "flushing", "stopped"}
  /\ storeFailures \in 0..MaxStoreFailures /\ snapshotFailed \in 0..MaxSnapshotFailures

LEMMA TypedAndStable ==
  Typed /\ Stable(received) /\ Cardinality(pending) <= MaxPending => TypeOK
  BY StableIsTyped DEF Typed, TypeOK

LEMMA TypedAndStableNext ==
  ASSUME Typed', Stable(received)', Cardinality(pending') <= MaxPending
  PROVE  TypeOK'
<1>1. (Typed /\ Stable(received) /\ Cardinality(pending) <= MaxPending => TypeOK)'
  BY TypedAndStable, PTL
<1> QED
  BY <1>1

LEMMA Facts ==
  ASSUME IInv
  PROVE  /\ Typed /\ StoresOk
         /\ Stable(received) /\ Good(pending, inFlight, received, issued)
         /\ issued \in Nat /\ Cardinality(pending) <= MaxPending
         /\ AllSaid(pending \cup inFlight) \in SUBSET Changes
         /\ persisted \subseteq Reported \cup AllSaid(pending \cup inFlight) \cup logged \cup unsaid
         /\ Reported \cup AllSaid(pending \cup inFlight) \subseteq persisted
  BY DEF IInv, TypeOK, Typed, Stable, ToldIsStored, Told, Carried

(* What was told stays told, and a change a document no longer holds is    *)
(* told or forgotten.                                                      *)
LEMMA UnsaidIsKept ==
  ASSUME IInv, Told \subseteq Told', forgotten \subseteq forgotten',
         unsaid' \subseteq unsaid \cup Waiting,
         \A d \in Documents : Held(d) \subseteq Held(d)' \cup Told' \cup forgotten'
  PROVE  (unsaid \subseteq Told \cup forgotten \cup UNION {Held(d) : d \in Documents})'
<1>1. unsaid \subseteq Told \cup forgotten \cup Waiting
  BY DEF IInv, ToldIsStored, Waiting
<1>2. \A c \in Waiting : c \in Told' \cup forgotten' \cup UNION {Held(d)' : d \in Documents}
  BY DEF Waiting
<1> QED
  BY <1>1, <1>2

(* The queue works, and the documents are left as they are.                *)
LEMMA QueueTells ==
  ASSUME IInv, UNCHANGED documents, Reported \subseteq Reported',
         AllSaid(pending \cup inFlight) \cup logged \subseteq Reported' \cup Carried' \cup logged',
         Reported' \cup Carried' \subseteq persisted
  PROVE  ToldIsStored' /\ StoresOk'
<1>1. /\ ledger' = ledger /\ snapshot' = snapshot /\ failures' = failures
      /\ writing' = writing /\ written' = written /\ unsaid' = unsaid
      /\ forgotten' = forgotten /\ persisted' = persisted
  BY DEF documents, stores, history
<1>2. \A d \in Documents : Held(d)' = Held(d)
  BY <1>1 DEF Held
<1>3. Told \subseteq Told'
  BY DEF Told, Carried
<1>4. (unsaid \subseteq Told \cup forgotten \cup UNION {Held(d) : d \in Documents})'
  BY <1>1, <1>2, <1>3, UnsaidIsKept
<1>5. persisted' \subseteq Told' \cup unsaid'
  BY <1>1, <1>3, Facts DEF Told, Carried
<1>6. ToldIsStored'
  BY <1>1, <1>4, <1>5 DEF ToldIsStored
<1>7. StoresOk'
  BY <1>1, Facts DEF StoresOk, Held
<1> QED
  BY <1>6, <1>7

(* A document's action that says nothing.                                  *)
LEMMA QuietKeeps ==
  ASSUME IInv, Typed', StoresOk', UNCHANGED <<issued, queue, received>>,
         persisted \subseteq persisted', persisted' \subseteq persisted \cup unsaid',
         unsaid \subseteq unsaid', unsaid' \subseteq unsaid \cup Waiting,
         forgotten \subseteq forgotten',
         \A d \in Documents : Held(d) \subseteq Held(d)' \cup forgotten'
  PROVE  IInv'
<1>1. Stable(received)' /\ Cardinality(pending') <= MaxPending
  BY Facts DEF Stable, queue
<1>2. Reported' = Reported /\ Carried' = Carried /\ Told' = Told
  BY DEF Told, Reported, Carried, queue
<1>3. (unsaid \subseteq Told \cup forgotten \cup UNION {Held(d) : d \in Documents})'
  BY <1>2, UnsaidIsKept
<1>4. ToldIsStored'
  BY <1>2, <1>3 DEF IInv, ToldIsStored
<1> QED
  BY <1>1, <1>4, TypedAndStableNext DEF IInv

LEMMA HeldIsWaiting ==
  ASSUME NEW d \in Documents
  PROVE  Held(d) \subseteq Waiting
BY DEF Waiting

(* A store lands that says nothing: its snapshot failed, its document is   *)
(* deleted, or there is nothing to say.                                    *)
LEMMA SilentStoreKeeps ==
  ASSUME IInv, NEW d \in Documents, StoreLands(d),
         d \in failures \/ d \in tombstones \/ snapshot[d] = {}
  PROVE  IInv'
<1>1. /\ Typed /\ StoresOk /\ d \in writing
      /\ written[d] \in SUBSET Changes /\ snapshot[d] \in SUBSET Changes
      /\ written[d] \subseteq Held(d)
  BY Facts DEF StoreLands, Typed, StoresOk
<1>2. /\ writing' = writing \ {d} /\ written' = [written EXCEPT ![d] = {}]
      /\ persisted' = IF d \in tombstones THEN persisted ELSE persisted \cup written[d]
      /\ ledger' = ledger /\ UNCHANGED <<changed, due, tombstones, bounds, received, phase>>
      /\ UNCHANGED <<issued, queue>>
  BY DEF StoreLands, SayNothing, Say
<1>3. \/ /\ failures' = failures \ {d} /\ snapshot' = snapshot /\ forgotten' = forgotten
         /\ unsaid' = unsaid \cup (IF d \in tombstones THEN {} ELSE written[d])
      \/ /\ d \notin failures /\ failures' = failures /\ unsaid' = unsaid
         /\ snapshot' = [snapshot EXCEPT ![d] = {}] /\ forgotten' = forgotten \cup snapshot[d]
         /\ d \in tombstones \/ written[d] = {}
  BY <1>1 DEF StoreLands, SayNothing, Say, StoresOk
<1>4. Typed'
  BY <1>1, <1>2, <1>3 DEF Typed, bounds, queue
<1>5. StoresOk'
  BY <1>1, <1>2, <1>3 DEF StoresOk, Held, Typed
<1>6. \A e \in Documents : Held(e) \subseteq Held(e)' \cup forgotten'
  BY <1>1, <1>2, <1>3 DEF Held, Typed
<1>7. /\ persisted \subseteq persisted' /\ persisted' \subseteq persisted \cup unsaid'
      /\ unsaid \subseteq unsaid' /\ forgotten \subseteq forgotten'
  BY <1>2, <1>3
<1>8. unsaid' \subseteq unsaid \cup Waiting
  BY <1>1, <1>3, HeldIsWaiting
<1> QED
  BY <1>2, <1>4, <1>5, <1>6, <1>7, <1>8, QuietKeeps

(* A store lands and its snapshot is enqueued.                             *)
LEMMA SpokenStoreKeeps ==
  ASSUME IInv, NEW d \in Documents, StoreLands(d),
         d \notin failures, d \notin tombstones, snapshot[d] # {}
  PROVE  IInv'
<1>1. /\ Typed /\ StoresOk /\ snapshot[d] \in SUBSET Changes /\ written[d] = snapshot[d]
  BY Facts DEF StoreLands, Typed, StoresOk
<1>2. PICK callback : callback = [id |-> issued + 1, changes |-> snapshot[d]]
  OBVIOUS
<1>3. callback \in Callback /\ callback.id = issued + 1 /\ callback.changes = snapshot[d]
  BY <1>1, <1>2, Facts DEF Callback
<1>4. PICK entries, sending : entries = Enqueued(d, callback) /\ sending = inFlight
  OBVIOUS
<1>5. /\ Pump(Kept(entries), sending) /\ logged' = logged \cup Dropped(entries)
      /\ issued' = issued + 1
  BY <1>2, <1>4 DEF StoreLands, Say, Enqueue
<1>6. /\ writing' = writing \ {d} /\ written' = [written EXCEPT ![d] = {}]
      /\ persisted' = persisted \cup snapshot[d]
      /\ snapshot' = [snapshot EXCEPT ![d] = {}]
      /\ UNCHANGED <<ledger, failures, unsaid, forgotten>>
      /\ UNCHANGED <<changed, due, tombstones, bounds, received, phase>>
  BY <1>1 DEF StoreLands, Say
<1>7. /\ Good(Enqueued(d, callback), inFlight, received, issued + 1)
      /\ AllSaid(Enqueued(d, callback) \cup inFlight)
           = AllSaid(pending \cup inFlight) \cup callback.changes
  BY <1>3, Facts, EnqueuedIsGood
<1>8. Good(entries, sending, received', issued')
  BY <1>4, <1>5, <1>6, <1>7
<1>9. issued' \in Nat
  BY <1>5, Facts
<1>10. /\ Stable(received)' /\ Cardinality(pending') <= MaxPending
       /\ AllSaid(pending' \cup inFlight') \cup Dropped(entries) = AllSaid(entries \cup sending)
  BY <1>5, <1>8, <1>9, SettledIsStable
<1>11. AllSaid(entries \cup sending) = AllSaid(pending \cup inFlight) \cup snapshot[d]
  BY <1>3, <1>4, <1>7
<1>12. Typed'
  <2>1. Dropped(entries) \in SUBSET Changes
    BY <1>1, <1>10, <1>11, Facts
  <2> QED
    BY <1>1, <1>5, <1>6, <1>9, <2>1 DEF Typed, bounds
<1>13. StoresOk'
  BY <1>1, <1>6 DEF StoresOk, Held, Typed
<1>14. Reported' = Reported /\ Carried' = AllSaid(pending' \cup inFlight')
  BY <1>6 DEF Reported, Carried
<1>15. Told \subseteq Told' /\ snapshot[d] \subseteq Told'
  BY <1>5, <1>10, <1>11, <1>14 DEF Told, Carried
<1>16. \A e \in Documents : Held(e) \subseteq Held(e)' \cup Told'
  BY <1>1, <1>6, <1>15 DEF Held, Typed
<1>17. (unsaid \subseteq Told \cup forgotten \cup UNION {Held(e) : e \in Documents})'
  BY <1>6, <1>15, <1>16, UnsaidIsKept
<1>18. persisted' \subseteq Told' \cup unsaid'
  BY <1>6, <1>15, Facts DEF Told, Carried
<1>19. Reported' \cup Carried' \subseteq persisted'
  BY <1>6, <1>10, <1>11, <1>14, Facts
<1>20. ToldIsStored'
  BY <1>17, <1>18, <1>19 DEF ToldIsStored
<1> QED
  BY <1>10, <1>12, <1>13, <1>20, TypedAndStableNext DEF IInv

LEMMA StoreLandsKeeps ==
  ASSUME IInv, NEW d \in Documents, StoreLands(d)
  PROVE  IInv'
BY SilentStoreKeeps, SpokenStoreKeeps

(* A send settles: what it said is told, said again, or logged.            *)
LEMMA SettleKeeps ==
  ASSUME IInv, NEW item, item \in inFlight, NEW entries, NEW lost \in SUBSET Changes,
         received' \in {received, received \cup {Body(item)}},
         Settle(item, entries), logged' = logged \cup Dropped(entries) \cup lost,
         Good(entries, inFlight \ {item}, received', issued),
         AllSaid(entries \cup (inFlight \ {item})) \subseteq AllSaid(pending \cup inFlight),
         AllSaid(pending \cup inFlight)
           \subseteq AllSaid(entries \cup (inFlight \ {item})) \cup Reported' \cup lost
  PROVE  IInv'
<1>1. PICK sending : sending = inFlight \ {item}
  OBVIOUS
<1>2. Pump(Kept(entries), sending) /\ issued' = issued /\ persisted' = persisted
  BY <1>1 DEF Settle, documents
<1>3. issued' \in Nat
  BY <1>2, Facts
<1>4. Good(entries, sending, received', issued')
  BY <1>1, <1>2
<1>5. /\ Stable(received)' /\ Cardinality(pending') <= MaxPending
      /\ AllSaid(pending' \cup inFlight') \cup Dropped(entries) = AllSaid(entries \cup sending)
  BY <1>2, <1>3, <1>4, SettledIsStable
<1>6. Typed'
  <2>1. Dropped(entries) \in SUBSET Changes
    BY <1>1, <1>5, Facts
  <2> QED
    BY <1>3, <2>1, Facts DEF Settle, documents, stores, history, bounds, Typed
<1>7. Reported \subseteq Reported' /\ Reported' \subseteq Reported \cup item.changes
  BY DEF Reported, Body
<1>8. item.changes \subseteq AllSaid(pending \cup inFlight)
  BY DEF AllSaid, Says
<1>9. ToldIsStored' /\ StoresOk'
  <2>1. Carried' = AllSaid(pending' \cup inFlight')
    BY DEF Carried
  <2>2. AllSaid(pending \cup inFlight) \cup logged \subseteq Reported' \cup Carried' \cup logged'
    BY <1>1, <1>5, <2>1
  <2>3. Reported' \cup Carried' \subseteq persisted
    BY <1>1, <1>5, <1>7, <1>8, <2>1, Facts
  <2>4. UNCHANGED documents
    BY DEF Settle
  <2> QED
    BY <1>7, <2>2, <2>3, <2>4, QueueTells
<1> QED
  BY <1>5, <1>6, <1>9, TypedAndStableNext DEF IInv

(* A callback the API may have taken, when its send settles.               *)
LEMMA ToldIsStable ==
  ASSUME IInv, NEW item, item \in inFlight,
         NEW taken, taken \in {received, received \cup {Body(item)}}
  PROVE  Stable(taken) /\ issued \in Nat
<1>1. Good(pending, inFlight, received \cup {Body(item)}, issued)
  BY Facts, TakenIsGood
<1>2. \A a \in pending : a.place <= MaxPending
  BY Facts DEF Stable
<1> QED
  BY <1>1, <1>2, Facts DEF Stable

LEMMA DeliveredKeeps ==
  ASSUME IInv, Delivered
  PROVE  IInv'
<1>1. PICK item \in inFlight :
        /\ received' = received \cup {Body(item)}
        /\ Settle(item, Succeeded(item))
        /\ logged' = logged \cup Dropped(Succeeded(item))
  BY DEF Delivered
<1>2. PICK entries, taken : entries = Succeeded(item) /\ taken = received'
  OBVIOUS
<1>3. Stable(taken) /\ issued \in Nat
  BY <1>1, <1>2, ToldIsStable
<1>4. /\ Good(Succeeded(item), inFlight \ {item}, taken, issued)
      /\ AllSaid(Succeeded(item) \cup (inFlight \ {item})) \cup item.changes
           = AllSaid(pending \cup inFlight)
  BY <1>3, SucceededIsGood
<1>5. Good(entries, inFlight \ {item}, received', issued)
  BY <1>2, <1>4
<1>6. AllSaid(entries \cup (inFlight \ {item})) \cup item.changes = AllSaid(pending \cup inFlight)
  BY <1>2, <1>4
<1>7. item.changes \subseteq Reported'
  <2>1. Body(item) \in received' /\ Body(item).changes = item.changes
    BY <1>1 DEF Body
  <2> QED
    BY <2>1 DEF Reported
<1>8. PICK lost : lost = {}
  OBVIOUS
<1>9. /\ lost \in SUBSET Changes /\ Settle(item, entries)
      /\ logged' = logged \cup Dropped(entries) \cup lost
      /\ received' \in {received, received \cup {Body(item)}}
  BY <1>1, <1>2, <1>8
<1>10. /\ AllSaid(entries \cup (inFlight \ {item})) \subseteq AllSaid(pending \cup inFlight)
       /\ AllSaid(pending \cup inFlight)
            \subseteq AllSaid(entries \cup (inFlight \ {item})) \cup Reported' \cup lost
  BY <1>6, <1>7
<1> QED
  BY <1>5, <1>9, <1>10, SettleKeeps

(* A send that is given up: what it said is logged.                        *)
LEMMA GivenUpKeeps ==
  ASSUME IInv, NEW item, item \in inFlight,
         received' \in {received, received \cup {Body(item)}},
         Settle(item, Succeeded(item)),
         logged' = logged \cup Dropped(Succeeded(item)) \cup item.changes
  PROVE  IInv'
<1>1. PICK entries, taken, lost :
        entries = Succeeded(item) /\ taken = received' /\ lost = item.changes
  OBVIOUS
<1>2. Stable(taken) /\ issued \in Nat
  BY <1>1, ToldIsStable
<1>3. /\ Good(Succeeded(item), inFlight \ {item}, taken, issued)
      /\ AllSaid(Succeeded(item) \cup (inFlight \ {item})) \cup item.changes
           = AllSaid(pending \cup inFlight)
  BY <1>2, SucceededIsGood
<1>4. Good(entries, inFlight \ {item}, received', issued)
  BY <1>1, <1>3
<1>5. AllSaid(entries \cup (inFlight \ {item})) \cup lost = AllSaid(pending \cup inFlight)
  BY <1>1, <1>3
<1>6. lost \in SUBSET Changes
  BY <1>5, Facts
<1>7. Settle(item, entries) /\ logged' = logged \cup Dropped(entries) \cup lost
  BY <1>1
<1>8. /\ AllSaid(entries \cup (inFlight \ {item})) \subseteq AllSaid(pending \cup inFlight)
      /\ AllSaid(pending \cup inFlight)
           \subseteq AllSaid(entries \cup (inFlight \ {item})) \cup Reported' \cup lost
  BY <1>5
<1> QED
  BY <1>4, <1>6, <1>7, <1>8, SettleKeeps

LEMMA RefusedKeeps ==
  ASSUME IInv, Refused
  PROVE  IInv'
BY GivenUpKeeps DEF Refused

LEMMA SendFailsKeeps ==
  ASSUME IInv, SendFails
  PROVE  IInv'
<1>1. PICK item \in inFlight :
        LET entries == IF CanRetry(item) THEN Retried(item) ELSE Succeeded(item) IN
        /\ received' \in {received, received \cup {Body(item)}}
        /\ Settle(item, entries)
        /\ logged' = logged \cup Dropped(entries)
                      \cup (IF CanRetry(item) THEN {} ELSE item.changes)
  BY DEF SendFails
<1>2. CASE ~CanRetry(item)
  <2>1. /\ received' \in {received, received \cup {Body(item)}}
        /\ Settle(item, Succeeded(item))
        /\ logged' = logged \cup Dropped(Succeeded(item)) \cup item.changes
    BY <1>1, <1>2
  <2> QED
    BY <2>1, GivenUpKeeps
<1>3. CASE CanRetry(item)
  <2>1. PICK entries, taken, lost : entries = Retried(item) /\ taken = received' /\ lost = {}
    OBVIOUS
  <2>2. /\ received' \in {received, received \cup {Body(item)}}
        /\ Settle(item, entries) /\ logged' = logged \cup Dropped(entries) \cup lost
    BY <1>1, <1>3, <2>1
  <2>3. Stable(taken) /\ issued \in Nat
    BY <2>1, <2>2, ToldIsStable
  <2>4. item.attempts <= Retries
    BY <1>3 DEF CanRetry
  <2>5. /\ Good(Retried(item), inFlight \ {item}, taken, issued)
        /\ AllSaid(Retried(item) \cup (inFlight \ {item})) = AllSaid(pending \cup inFlight)
    BY <2>3, <2>4, RetriedIsGood
  <2>6. Good(entries, inFlight \ {item}, received', issued)
    BY <2>1, <2>5
  <2>7. AllSaid(entries \cup (inFlight \ {item})) = AllSaid(pending \cup inFlight)
    BY <2>1, <2>5
  <2>8. /\ AllSaid(entries \cup (inFlight \ {item})) \subseteq AllSaid(pending \cup inFlight)
        /\ AllSaid(pending \cup inFlight)
             \subseteq AllSaid(entries \cup (inFlight \ {item})) \cup Reported' \cup lost
    BY <2>7
  <2>9. lost \in SUBSET Changes
    BY <2>1
  <2> QED
    BY <2>2, <2>6, <2>8, <2>9, SettleKeeps
<1> QED
  BY <1>2, <1>3

(* Entries are woken and pump runs, with nothing else said or told.        *)
LEMMA WokenKeeps ==
  ASSUME IInv, NEW woken, Pump(Woken(pending, woken), inFlight), Typed',
         UNCHANGED documents, UNCHANGED <<issued, received, logged>>
  PROVE  IInv'
<1>1. PICK entries, sending : entries = Woken(pending, woken) /\ sending = inFlight
  OBVIOUS
<1>2. /\ Good(Woken(pending, woken), inFlight, received, issued)
      /\ Cardinality(Woken(pending, woken)) <= Cardinality(pending)
      /\ AllSaid(Woken(pending, woken) \cup inFlight) = AllSaid(pending \cup inFlight)
  BY Facts, WokenIsGood
<1>3. issued' \in Nat /\ Good(entries, sending, received', issued') /\ Pump(entries, sending)
  BY <1>1, <1>2, Facts
<1>4. Cardinality(entries) <= MaxPending
  <2>1. IsFiniteSet(entries) /\ IsFiniteSet(pending)
    BY <1>1, <1>2, Facts DEF Good, Mapped
  <2>2. Cardinality(entries) \in Nat /\ Cardinality(pending) \in Nat
    BY <2>1, FS_CardinalityType
  <2> QED
    BY <1>1, <1>2, <2>2, Facts, Bounds
<1>5. /\ Stable(received)' /\ Cardinality(pending') <= MaxPending
      /\ AllSaid(pending' \cup inFlight') = AllSaid(entries \cup sending)
  BY <1>3, <1>4, PumpIsStable
<1>6. ToldIsStored' /\ StoresOk'
  <2>1. Reported' = Reported /\ Carried' = AllSaid(pending \cup inFlight)
    BY <1>1, <1>2, <1>5 DEF Reported, Carried
  <2> QED
    BY <2>1, Facts, QueueTells
<1> QED
  BY <1>5, <1>6, TypedAndStableNext DEF IInv

LEMMA WakeKeeps ==
  ASSUME IInv, Wake
  PROVE  IInv'
<1>1. PICK item \in pending :
        /\ Pump((pending \ {item}) \cup {Awake(item)}, inFlight)
        /\ UNCHANGED <<documents, issued, received, logged, phase>>
  BY DEF Wake
<1>2. (pending \ {item}) \cup {Awake(item)} = Woken(pending, {item})
  BY DEF Woken
<1>3. Typed'
  BY <1>1, Facts DEF Typed, documents, stores, history, bounds
<1>4. Pump(Woken(pending, {item}), inFlight)
  BY <1>1, <1>2
<1> QED
  BY <1>1, <1>3, <1>4, WokenKeeps

LEMMA FlushKeeps ==
  ASSUME IInv, Flush
  PROVE  IInv'
<1>1. {Awake(item) : item \in pending} = Woken(pending, pending)
  BY DEF Woken
<1>2. Typed'
  BY Facts DEF Flush, Typed, documents, stores, history, bounds
<1>3. Pump(Woken(pending, pending), inFlight)
  BY <1>1 DEF Flush
<1> QED
  BY <1>2, <1>3, WokenKeeps DEF Flush

LEMMA FlushEndsKeeps ==
  ASSUME IInv, FlushEnds
  PROVE  IInv'
<1>1. /\ pending' = {} /\ inFlight' = {} /\ received' = received /\ issued' = issued
      /\ persisted' = persisted /\ logged' = logged \cup AllSaid(pending \cup inFlight)
  BY DEF FlushEnds, documents
<1>2. Good({}, inFlight, received, issued)
  BY Facts, FewerAreGood
<1>3. Good({}, {}, received, issued)
  BY <1>2, Facts, LandedIsGood
<1>4. Stable(received)' /\ Cardinality(pending') <= MaxPending
  BY <1>1, <1>3, FS_EmptySet, Bounds DEF Stable
<1>5. Typed'
  BY <1>1, Facts DEF FlushEnds, Typed, documents, stores, history, bounds
<1>6. ToldIsStored' /\ StoresOk'
  <2>1. Reported' = Reported /\ Carried' = {}
    BY <1>1 DEF Reported, Carried, AllSaid
  <2>2. UNCHANGED documents
    BY DEF FlushEnds
  <2> QED
    BY <1>1, <2>1, <2>2, Facts, QueueTells
<1> QED
  BY <1>4, <1>5, <1>6, TypedAndStableNext DEF IInv

LEMMA ChangeKeeps ==
  ASSUME IInv, NEW d \in Documents, Change(d)
  PROVE  IInv'
<1>1. Typed /\ StoresOk
  BY Facts
<1>2. changed + 1 \in Changes /\ changed' \in 0..MaxChanges
  BY <1>1, CallbackAssumption DEF Change, Typed, Changes
<1>3. Typed'
  BY <1>1, <1>2 DEF Change, Typed, queue, history, bounds
<1>4. StoresOk'
  BY <1>1 DEF Change, StoresOk, Held, Typed
<1>5. \A e \in Documents : Held(e) \subseteq Held(e)'
  BY <1>1 DEF Change, Held, Typed
<1> QED
  BY <1>3, <1>4, <1>5, QuietKeeps DEF Change, history

LEMMA StoreBeginsKeeps ==
  ASSUME IInv, NEW d \in Documents, StoreBegins(d)
  PROVE  IInv'
<1>1. Typed /\ StoresOk /\ Held(d) \in SUBSET Changes /\ d \notin writing
  BY Facts DEF StoreBegins, Typed, Held
<1>2. /\ due' = due \ {d} /\ writing' = writing \cup {d}
      /\ written' = [written EXCEPT ![d] = Held(d)]
      /\ UNCHANGED <<changed, persisted, tombstones, unsaid, forgotten, storeFailures,
                     issued, queue, received, phase>>
  BY DEF StoreBegins, history
<1>3. \/ /\ snapshot' = [snapshot EXCEPT ![d] = Held(d)] /\ ledger' = [ledger EXCEPT ![d] = {}]
         /\ UNCHANGED <<failures, snapshotFailed>>
      \/ /\ snapshotFailed' = snapshotFailed + 1 /\ snapshotFailed < MaxSnapshotFailures
         /\ failures' = failures \cup {d} /\ UNCHANGED <<ledger, snapshot>>
  BY DEF StoreBegins, TakeSnapshot
<1>4. Typed'
  BY <1>1, <1>2, <1>3, CallbackAssumption DEF Typed, queue
<1>5. \A e \in Documents : Held(e)' = Held(e)
  BY <1>1, <1>2, <1>3 DEF Held, Typed
<1>6. StoresOk'
  <2> SUFFICES ASSUME NEW e \in writing'
               PROVE  (written[e])' \subseteq Held(e)'
                      /\ (e \notin failures' => (written[e])' = (snapshot[e])')
    BY DEF StoresOk
  <2>1. CASE e = d
    BY <1>1, <1>2, <1>3, <1>5, <2>1 DEF Typed
  <2>2. CASE e # d
    BY <1>1, <1>2, <1>3, <1>5, <2>2 DEF Typed, StoresOk
  <2> QED
    BY <2>1, <2>2
<1> QED
  BY <1>2, <1>4, <1>5, <1>6, QuietKeeps

LEMMA StoreFailsKeeps ==
  ASSUME IInv, NEW d \in Documents, StoreFails(d)
  PROVE  IInv'
<1>1. Typed /\ StoresOk
  BY Facts
<1>2. storeFailures' \in 0..MaxStoreFailures
  BY <1>1, CallbackAssumption DEF StoreFails, Typed
<1>3. Typed'
  BY <1>1, <1>2 DEF StoreFails, Typed, queue, history
<1>4. StoresOk'
  BY <1>1 DEF StoreFails, StoresOk, Held, Typed
<1>5. \A e \in Documents : Held(e) \subseteq Held(e)'
  BY DEF StoreFails, Held
<1> QED
  BY <1>3, <1>4, <1>5, QuietKeeps DEF StoreFails, history

LEMMA UnloadKeeps ==
  ASSUME IInv, NEW d \in Documents, Unload(d)
  PROVE  IInv'
<1>1. Typed /\ StoresOk /\ Held(d) \in SUBSET Changes
  BY Facts DEF Typed, Held
<1>2. Typed'
  BY <1>1 DEF Unload, Typed, queue, bounds
<1>3. StoresOk'
  BY <1>1 DEF Unload, StoresOk, Held, Typed
<1>4. \A e \in Documents : Held(e) \subseteq Held(e)' \cup forgotten'
  BY <1>1 DEF Unload, Held, Typed
<1> QED
  BY <1>2, <1>3, <1>4, QuietKeeps DEF Unload

LEMMA DeleteKeeps ==
  ASSUME IInv, NEW d \in Documents, Delete(d)
  PROVE  IInv'
<1>1. Typed'
  BY Facts DEF Delete, Typed, queue, stores, history, bounds
<1>2. StoresOk'
  BY Facts DEF Delete, StoresOk, Held, stores
<1>3. \A e \in Documents : Held(e) \subseteq Held(e)'
  BY DEF Delete, Held
<1> QED
  BY <1>1, <1>2, <1>3, QuietKeeps DEF Delete, history

(***************************************************************************)
(* The theorems                                                            *)
(***************************************************************************)

LEMMA InitIsInvariant ==
  Init => IInv
<1> SUFFICES ASSUME Init PROVE IInv
  OBVIOUS
<1>1. IsFiniteSet({}) /\ Cardinality({}) = 0
  BY FS_EmptySet
<1>2. Typed
  BY CallbackAssumption DEF Init, Typed
<1>3. Good({}, {}, {}, 0)
  BY <1>1, Bounds DEF Good, Mapped, Sending, Issued, Taken
<1>4. Stable(received)
  BY <1>3 DEF Init, Stable
<1>5. TypeOK
  BY <1>1, <1>2, <1>4, Bounds, TypedAndStable DEF Init
<1>6. ToldIsStored
  BY DEF Init, ToldIsStored, Told, Reported, Carried, AllSaid
<1>7. StoresOk
  BY DEF Init, StoresOk
<1> QED
  BY <1>4, <1>5, <1>6, <1>7 DEF IInv

LEMMA NextKeeps ==
  IInv /\ [Next]_vars => IInv'
<1> SUFFICES ASSUME IInv, [Next]_vars PROVE IInv'
  OBVIOUS
<1>1. CASE UNCHANGED vars
  <2>1. UNCHANGED <<documents, issued, queue, received, phase>>
    BY <1>1 DEF vars
  <2>2. Typed'
    BY <2>1, Facts DEF documents, stores, history, bounds, queue, Typed
  <2>3. StoresOk'
    BY <2>1, Facts DEF documents, stores, StoresOk, Held
  <2>4. \A d \in Documents : Held(d) \subseteq Held(d)'
    BY <2>1 DEF documents, Held
  <2> QED
    BY <2>1, <2>2, <2>3, <2>4, QuietKeeps DEF documents, history
<1>2. ASSUME NEW d \in Documents, StoreLands(d)
      PROVE  IInv'
  BY <1>2, StoreLandsKeeps
<1>3. ASSUME NEW d \in Documents,
             Change(d) \/ StoreBegins(d) \/ StoreFails(d) \/ Unload(d) \/ Delete(d)
      PROVE  IInv'
  BY <1>3, ChangeKeeps, StoreBeginsKeeps, StoreFailsKeeps, UnloadKeeps, DeleteKeeps
<1> QED
  BY <1>1, <1>2, <1>3, DeliveredKeeps, SendFailsKeeps, RefusedKeeps, WakeKeeps,
     FlushKeeps, FlushEndsKeeps DEF Next

(* The invariant the rest follow from: the queue is stable between two     *)
(* actions, and what is stored is told, carried, logged or left unsaid     *)
(* (change-callback-queue.ts).                                             *)
THEOREM InductiveInvariant == Spec => []IInv
BY InitIsInvariant, NextKeeps, PTL DEF Spec

(* Every variable keeps its type, the map has at most maxPending entries,  *)
(* one per document, and no more than the concurrency are in flight        *)
(* (change-callback-queue.ts dropOverflow, pump).                          *)
THEOREM TypeCorrect == Spec => []TypeOK
<1>1. IInv => TypeOK
  BY DEF IInv
<1> QED
  BY <1>1, InductiveInvariant, PTL

(* No change the database holds is lost between the store and the API      *)
(* without a line in the log, but for one a store left unsaid because its  *)
(* snapshot failed: that one is told with the next store of its document,  *)
(* or forgotten when the document is unloaded or deleted first; and the    *)
(* API is told of no change the database does not hold                     *)
(* (change-callback-queue.ts, change-callback-extension.ts).               *)
THEOREM StoredIsTold == Spec => []ToldIsStored
<1>1. IInv => ToldIsStored
  BY DEF IInv
<1> QED
  BY <1>1, InductiveInvariant, PTL

(* An id that was sent names one body for good, however often it is        *)
(* retried and whatever is enqueued meanwhile; and a document has one      *)
(* callback in flight (change-callback-queue.ts Pending.successor).        *)
THEOREM IdsNameOneBody == Spec => []OneBodyPerId
<1>1. IInv => OneBodyPerId
  <2> SUFFICES ASSUME IInv PROVE OneBodyPerId
    OBVIOUS
  <2>1. Good(pending, inFlight, received, issued)
    BY Facts
  <2>2. \A a, b \in inFlight : a.id = b.id => a = b
    BY <2>1 DEF Good, Issued
  <2>3. \A r \in received, a \in inFlight : r.id = a.id => r = Body(a)
    BY <2>1 DEF Good, Taken
  <2>4. \A r, s \in received : r.id = s.id => r = s
    BY <2>1 DEF Good, Taken
  <2>5. \A a \in inFlight : Body(a).id = a.id
    BY DEF Body
  <2>6. \A a, b \in inFlight : a.document = b.document => a = b
    BY <2>1 DEF Good, Sending
  <2> QED
    BY <2>2, <2>3, <2>4, <2>5, <2>6 DEF OneBodyPerId
<1> QED
  BY <1>1, InductiveInvariant, PTL
=============================================================================
