---------------------------- MODULE ChangeCallbacks ----------------------------
(***************************************************************************)
(* What the document sync server (apps/doc-sync) tells the API of changes: *)
(* the ledger of changes and its snapshot at every store                   *)
(* (callbacks/change-ledger.ts, change-callback-extension.ts), and the     *)
(* queue that sends one callback at a time per document, retries it, and   *)
(* is flushed at shutdown (callbacks/change-callback-queue.ts).            *)
(*                                                                         *)
(* A callback is its id and the changes it stands for (the code keeps the  *)
(* sources, editors and window of them, and merges those).  Hocuspocus     *)
(* stores a document one store at a time, and keeps it loaded while its    *)
(* debouncer holds a store of it, the retry of a failed one included.      *)
(***************************************************************************)
EXTENDS Integers, FiniteSets

CONSTANTS
  Documents,
  MaxPending,    \* maxPending
  Concurrency,   \* CHANGE_CALLBACK_CONCURRENCY
  Retries,       \* the length of retryDelaysMs
  MaxChanges,    \* bound: changes, and so stores with something to say
  MaxStoreFailures, \* bound: stores that fail
  MaxSnapshotFailures  \* bound: snapshots that fail

Changes == 1..MaxChanges

ASSUME CallbackAssumption ==
  /\ MaxPending \in Nat \ {0} /\ Concurrency \in Nat \ {0} /\ Retries \in Nat
  /\ MaxChanges \in Nat /\ MaxStoreFailures \in Nat /\ MaxSnapshotFailures \in Nat

VARIABLES
  changed,    \* changes made so far
  ledger,     \* the ledger's entry of each document
  snapshot,   \* the snapshot of each document's last store
  failures,   \* snapshotFailures: the documents whose snapshot failed
  due,        \* the documents with a store in the debouncer
  writing,    \* the documents whose store is being written
  written,    \* the changes in the state each store writes
  persisted,  \* the changes the database holds
  tombstones, \* the deleted documents
  issued,     \* callback ids given so far
  pending,    \* the queue's map: its items, each with its place in insertion order
  inFlight,   \* the items being sent
  received,   \* the callbacks the API has taken
  logged,     \* the changes of callbacks logged as dropped or failed
  phase,      \* "running", "flushing" or "stopped"
  unsaid,     \* history: changes a store persisted and, its snapshot failed, said nothing of
  forgotten,  \* history: changes dropped with their document
  storeFailures, snapshotFailed

stores == <<failures, due, writing, written>>
history == <<unsaid, forgotten>>
bounds == <<storeFailures, snapshotFailed>>
documents == <<changed, ledger, snapshot, stores, persisted, tombstones, history, bounds>>
queue == <<pending, inFlight, logged>>
vars == <<documents, issued, queue, received, phase>>

Callback == [id: Nat, changes: SUBSET Changes]
NoSuccessor == [id |-> 0, changes |-> {}]
Item == [document: Documents, place: Nat, id: Nat, changes: SUBSET Changes,
         attempts: Nat, waiting: BOOLEAN, successor: Callback]

TypeOK ==
  /\ changed \in 0..MaxChanges
  /\ ledger \in [Documents -> SUBSET Changes]
  /\ snapshot \in [Documents -> SUBSET Changes]
  /\ failures \in SUBSET Documents /\ due \in SUBSET Documents
  /\ writing \in SUBSET Documents /\ tombstones \in SUBSET Documents
  /\ written \in [Documents -> SUBSET Changes]
  /\ unsaid \in SUBSET Changes /\ forgotten \in SUBSET Changes
  /\ persisted \in SUBSET Changes /\ logged \in SUBSET Changes
  /\ issued \in Nat
  /\ pending \in SUBSET Item /\ Cardinality(pending) <= MaxPending
  /\ \A a, b \in pending : a.document = b.document => a = b
  /\ inFlight \in SUBSET Item /\ Cardinality(inFlight) <= Concurrency
  /\ \A item \in inFlight : item.attempts \in 1..(Retries + 1)
  /\ received \in SUBSET Callback
  /\ phase \in {"running", "flushing", "stopped"}
  /\ storeFailures \in 0..MaxStoreFailures /\ snapshotFailed \in 0..MaxSnapshotFailures

Init ==
  /\ changed = 0
  /\ ledger = [d \in Documents |-> {}] /\ snapshot = [d \in Documents |-> {}]
  /\ failures = {} /\ due = {} /\ writing = {} /\ written = [d \in Documents |-> {}]
  /\ persisted = {} /\ tombstones = {} /\ unsaid = {} /\ forgotten = {}
  /\ issued = 0 /\ pending = {} /\ inFlight = {}
  /\ received = {} /\ logged = {}
  /\ phase = "running" /\ storeFailures = 0 /\ snapshotFailed = 0

-----------------------------------------------------------------------------
(* The queue.                                                               *)

(* A new entry comes last. *)
Last == MaxPending + 1
Fresh(d, callback) ==
  [document |-> d, place |-> Last, id |-> callback.id, changes |-> callback.changes,
   attempts |-> 0, waiting |-> FALSE, successor |-> NoSuccessor]

(* mergeCallbacks: the newer id, the changes of both. *)
Merge(older, newer) == [id |-> newer.id, changes |-> older.changes \cup newer.changes]
Body(item) == [id |-> item.id, changes |-> item.changes]
Says(item) == item.changes \cup item.successor.changes
AllSaid(items) == UNION {Says(item) : item \in items}

Of(entries, d) == {item \in entries : item.document = d}
Without(entries, d) == entries \ Of(entries, d)
UpTo(entries, item) == {other \in entries : other.place <= item.place}
Renumbered(entries) ==
  {[item EXCEPT !.place = Cardinality(UpTo(entries, item))] : item \in entries}

(* pump: the first items that are ready and whose document has none in       *)
(* flight are sent, up to the concurrency.                                   *)
Ready(entries, sending) ==
  {item \in entries : ~item.waiting /\ Of(sending, item.document) = {}}
Starts(entries, sending) ==
  LET ready == Ready(entries, sending)
      room == Concurrency - Cardinality(sending)
  IN {item \in ready : Cardinality(UpTo(ready, item)) <= room}
Sent(item) == [item EXCEPT !.place = 0, !.attempts = @ + 1]
Pump(entries, sending) ==
  /\ pending' = Renumbered(entries \ Starts(entries, sending))
  /\ inFlight' = sending \cup {Sent(item) : item \in Starts(entries, sending)}

(* Mutant: no bound on what is pending. *)
KeepAll(entries) == entries

(* dropOverflow: the oldest entries go. *)
Kept(entries) ==
  {item \in entries :
     Cardinality({later \in entries : later.place >= item.place}) <= MaxPending}
Dropped(entries) == AllSaid(entries \ Kept(entries))

(* Mutant: a callback that was sent is merged into as well. *)
MergedIntoSent(older, callback) == [older EXCEPT !.changes = @ \cup callback.changes]

(* Only a callback that was never sent is merged into. *)
Merged(older, callback) ==
  IF older.attempts = 0
  THEN [older EXCEPT !.id = callback.id, !.changes = @ \cup callback.changes]
  ELSE [older EXCEPT !.successor = Merge(@, callback)]

Enqueued(d, callback) ==
  IF Of(pending, d) = {} THEN pending \cup {Fresh(d, callback)}
  ELSE Without(pending, d) \cup {Merged(older, callback) : older \in Of(pending, d)}

Enqueue(d, callback) ==
  LET entries == Enqueued(d, callback)
  IN /\ Pump(Kept(entries), inFlight)
     /\ logged' = logged \cup Dropped(entries)

(* retry: what was enqueued meanwhile becomes the item's successor, and the  *)
(* item goes to the end.                                                     *)
Behind(item) ==
  LET newer == Of(pending, item.document) IN
  IF newer = {} THEN item.successor
  ELSE Merge(item.successor, Body(CHOOSE n \in newer : TRUE))
Retried(item) ==
  Without(pending, item.document) \cup
    {[item EXCEPT !.place = Last, !.waiting = TRUE, !.successor = Behind(item)]}

(* sendSuccessor: merged into what was enqueued meanwhile, or an entry. *)
Succeeded(item) ==
  LET d == item.document IN
  IF item.successor = NoSuccessor THEN pending
  ELSE IF Of(pending, d) = {} THEN pending \cup {Fresh(d, item.successor)}
  ELSE Without(pending, d) \cup
         {[newer EXCEPT !.changes = @ \cup item.successor.changes] : newer \in Of(pending, d)}

(* Mutant: the slot that came free is not used. *)
SettleWithoutPump(item, entries) ==
  /\ pending' = Renumbered(Kept(entries)) /\ inFlight' = inFlight \ {item}
  /\ UNCHANGED <<documents, issued, phase>>

(* deliver, once the send has settled. *)
Settle(item, entries) ==
  /\ Pump(Kept(entries), inFlight \ {item})
  /\ UNCHANGED <<documents, issued, phase>>

Delivered ==
  \E item \in inFlight :
    /\ received' = received \cup {Body(item)}
    /\ Settle(item, Succeeded(item))
    /\ logged' = logged \cup Dropped(Succeeded(item))

(* An error a retry may cure: the API may have taken the callback. *)
CanRetry(item) == phase # "flushing" /\ item.attempts <= Retries
SendFails ==
  \E item \in inFlight :
    LET entries == IF CanRetry(item) THEN Retried(item) ELSE Succeeded(item) IN
    /\ received' \in {received, received \cup {Body(item)}}
    /\ Settle(item, entries)
    /\ logged' = logged \cup Dropped(entries)
                  \cup (IF CanRetry(item) THEN {} ELSE item.changes)

(* A status in TERMINAL_CALLBACK_HTTP_STATUSES. *)
Refused ==
  \E item \in inFlight :
    /\ Settle(item, Succeeded(item))
    /\ logged' = logged \cup Dropped(Succeeded(item)) \cup item.changes
    /\ UNCHANGED received

(* The wake timer: an item's retry delay has passed. *)
Awake(item) == [item EXCEPT !.waiting = FALSE]
Wake ==
  \E item \in pending :
    /\ item.waiting
    /\ Pump((pending \ {item}) \cup {Awake(item)}, inFlight)
    /\ UNCHANGED <<documents, issued, received, logged, phase>>

-----------------------------------------------------------------------------
(* The documents.                                                           *)

Held(d) == ledger[d] \cup snapshot[d]

Change(d) ==
  /\ phase = "running" /\ d \notin tombstones /\ changed < MaxChanges
  /\ changed' = changed + 1
  /\ ledger' = [ledger EXCEPT ![d] = @ \cup {changed + 1}]
  /\ due' = due \cup {d}
  /\ UNCHANGED <<snapshot, failures, writing, written, persisted, tombstones, history, bounds,
                 issued, queue, received, phase>>

(* onStoreDocument: the ledger's entry joins the snapshot.  When the         *)
(* mentions cannot be read the failure is kept, and the entry too.           *)
TakeSnapshot(d) ==
  \/ /\ snapshot' = [snapshot EXCEPT ![d] = Held(d)]
     /\ ledger' = [ledger EXCEPT ![d] = {}]
     /\ UNCHANGED <<failures, snapshotFailed>>
  \/ /\ snapshotFailed < MaxSnapshotFailures
     /\ snapshotFailed' = snapshotFailed + 1
     /\ failures' = failures \cup {d}
     /\ UNCHANGED <<ledger, snapshot>>

(* onStoreDocument, then the state is encoded and the write begins: when the *)
(* debouncer fires, or a direct connection ends.  One with nothing to write  *)
(* and nothing to say is left out.                                           *)
StoreBegins(d) ==
  /\ phase = "running" /\ d \notin writing /\ (d \in due \/ Held(d) # {})
  /\ TakeSnapshot(d)
  /\ due' = due \ {d}
  /\ writing' = writing \cup {d}
  /\ written' = [written EXCEPT ![d] = Held(d)]
  /\ UNCHANGED <<changed, persisted, tombstones, history, storeFailures,
                 issued, queue, received, phase>>

(* Mutant: a failed snapshot is forgotten with its failure. *)
SayNothingAndForget(d) ==
  /\ failures' = failures \ {d}
  /\ snapshot' = [snapshot EXCEPT ![d] = {}] /\ ledger' = [ledger EXCEPT ![d] = {}]
  /\ unsaid' = unsaid \cup (IF d \in tombstones THEN {} ELSE written[d])
  /\ UNCHANGED <<forgotten, issued, queue>>

(* afterStoreDocument rejects with the failure of a snapshot, of this store  *)
(* or of one that failed before it; what it has not said it keeps.           *)
SayNothing(d) ==
  /\ failures' = failures \ {d}
  /\ unsaid' = unsaid \cup (IF d \in tombstones THEN {} ELSE written[d])
  /\ UNCHANGED <<ledger, snapshot, forgotten, issued, queue>>

(* afterStoreDocument enqueues one callback for the snapshot, if there is    *)
(* one; a deleted document's goes unsaid.                                    *)
Say(d) ==
  /\ snapshot' = [snapshot EXCEPT ![d] = {}]
  /\ UNCHANGED <<ledger, failures, unsaid>>
  /\ IF d \in tombstones \/ snapshot[d] = {}
     THEN forgotten' = forgotten \cup snapshot[d] /\ UNCHANGED <<issued, queue>>
     ELSE /\ issued' = issued + 1
          /\ Enqueue(d, [id |-> issued + 1, changes |-> snapshot[d]])
          /\ UNCHANGED forgotten

(* The write lands, if the document is not deleted, then afterStoreDocument. *)
StoreLands(d) ==
  /\ d \in writing
  /\ writing' = writing \ {d} /\ written' = [written EXCEPT ![d] = {}]
  /\ persisted' = IF d \in tombstones THEN persisted ELSE persisted \cup written[d]
  /\ IF d \in failures THEN SayNothing(d) ELSE Say(d)
  /\ UNCHANGED <<changed, due, tombstones, bounds, received, phase>>

(* No afterStoreDocument: the snapshot waits for the retry (storeOrRetryLater). *)
StoreFails(d) ==
  /\ d \in writing /\ storeFailures < MaxStoreFailures
  /\ writing' = writing \ {d} /\ written' = [written EXCEPT ![d] = {}]
  /\ due' = due \cup {d}
  /\ storeFailures' = storeFailures + 1
  /\ UNCHANGED <<changed, ledger, snapshot, failures, persisted, tombstones, history,
                 snapshotFailed, issued, queue, received, phase>>

(* afterUnloadDocument, once no connection and no store of it is left. *)
Unload(d) ==
  /\ phase = "running" /\ d \notin writing \cup due
  /\ Held(d) # {} \/ d \in failures
  /\ ledger' = [ledger EXCEPT ![d] = {}] /\ snapshot' = [snapshot EXCEPT ![d] = {}]
  /\ failures' = failures \ {d}
  /\ forgotten' = forgotten \cup Held(d)
  /\ UNCHANGED <<changed, due, writing, written, persisted, tombstones, unsaid, bounds,
                 issued, queue, received, phase>>

Delete(d) ==
  /\ phase = "running" /\ d \notin tombstones
  /\ tombstones' = tombstones \cup {d}
  /\ UNCHANGED <<changed, ledger, snapshot, stores, persisted, history, bounds,
                 issued, queue, received, phase>>

(* Shutdown: destroy has made the last stores and unloaded every document,   *)
(* then flush sends at once and retries no more.                             *)
Flush ==
  /\ phase = "running" /\ writing \cup due \cup failures = {}
  /\ \A d \in Documents : Held(d) = {}
  /\ phase' = "flushing"
  /\ Pump({Awake(item) : item \in pending}, inFlight)
  /\ UNCHANGED <<documents, issued, received, logged>>

(* Idle, or the deadline: what is left is logged, and the process exits.     *)
FlushEnds ==
  /\ phase = "flushing"
  /\ phase' = "stopped"
  /\ logged' = logged \cup AllSaid(pending \cup inFlight)
  /\ pending' = {} /\ inFlight' = {}
  /\ UNCHANGED <<documents, issued, received>>

Next ==
  \/ \E d \in Documents :
       \/ Change(d) \/ StoreBegins(d) \/ StoreLands(d) \/ StoreFails(d)
       \/ Unload(d) \/ Delete(d)
  \/ Delivered \/ SendFails \/ Refused \/ Wake \/ Flush \/ FlushEnds

Spec == Init /\ [][Next]_vars

(* A send settles, within its timeout, and a timer fires. *)
Fairness == WF_vars(Delivered \/ SendFails \/ Refused) /\ WF_vars(Wake)

FairSpec == Spec /\ Fairness

-----------------------------------------------------------------------------
Reported == UNION {callback.changes : callback \in received}
Carried == AllSaid(pending \cup inFlight)

Told == Reported \cup Carried \cup logged

(* A change the database holds is told to the API, on its way there, or      *)
(* logged, whatever was merged, retried, succeeded, overflowed or flushed    *)
(* (change-callback-queue.ts), but for a store whose snapshot failed, and    *)
(* what that one left unsaid waits for the next store of its document,       *)
(* unless the document is unloaded or deleted before                         *)
(* (change-callback-extension.ts); and the API is told of no other: a change *)
(* that came during a write waits for the next.                              *)
ToldIsStored ==
  /\ persisted \subseteq Told \cup unsaid
  /\ unsaid \subseteq Told \cup forgotten \cup UNION {Held(d) : d \in Documents}
  /\ Reported \cup Carried \subseteq persisted

(* Whatever was sent under an id is never sent under it with another body,   *)
(* and no document has two callbacks in flight                               *)
(* (change-callback-queue.ts Pending.successor, deliver).                    *)
OneBodyPerId ==
  /\ \A a, b \in received \cup {Body(item) : item \in inFlight} : a.id = b.id => a = b
  /\ \A a, b \in inFlight : a.document = b.document => a = b

(* Every change the database holds is told or logged in the end, but for     *)
(* those of a store whose snapshot failed.                                   *)
EveryChangeSettles ==
  \A c \in Changes : c \in persisted ~> c \in Reported \cup logged \cup unsaid
=============================================================================
