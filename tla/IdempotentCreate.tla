--------------------------- MODULE IdempotentCreate ---------------------------
(***************************************************************************)
(* Creating a command at most once per idempotency key: the create route   *)
(* (apps/api app/compute-targets/[id]/commands/route.ts), createCommand of *)
(* lib/desktop-command-store.ts, the look-ups of                           *)
(* lib/desktop-command-lookup.ts with their cache, one per API instance,   *)
(* and the unique indexes of the table.                                    *)
(*                                                                         *)
(* One compute target.  A request may stop at any step, as when its        *)
(* instance dies.  Signed requests, and only they, bring a command id      *)
(* (validateSignatureConsistency), and the target requires signing.  A row *)
(* leaves with its target only, so what a cache names is there.            *)
(***************************************************************************)
CONSTANTS
  Instances,          \* of the API
  Requests,
  Keys, NoKey,        \* idempotency keys
  Payloads,           \* what a request persists of its command
  ClientIds, NoId,    \* command ids a client brings
  Nothing             \* a key the cache does not hold, an id without a row

(* An unsigned request is given an id of its own. *)
Ids == ClientIds \cup Requests

Fingerprints == [payload: Payloads, key: Keys \cup {NoKey}]
CreateStatuses == {"queued", "running", "done", "expired"}
Rows ==
  [key: Keys \cup {NoKey}, fingerprint: Fingerprints,
   status: CreateStatuses]
Entries == [commandId: Ids, fingerprint: Fingerprints]

ASSUME CreateAssumption ==
  /\ NoKey \notin Keys /\ NoId \notin Ids
  /\ Nothing \notin Rows \cup Entries \cup CreateStatuses
  /\ ClientIds \cap Requests = {}

VARIABLES
  input,      \* each request: at an instance, a key, a payload, a command id
  step,       \* each request: what it does next
  command,    \* the id each request has got, or NoId
  answer,     \* what each request was answered, or "open"
  inserted,   \* the requests that inserted a row
  cache,      \* idempotencyCache of each instance: key to id and fingerprint
  rows,       \* desktop_commands: id to key, fingerprint and status
  handed,     \* the ids the relay has delivered to the desktop
  event       \* per id: the status an event being stored will write, or Nothing

request == <<step, command, answer, inserted>>
createVars == <<input, request, cache, rows, handed, event>>

CreateInit ==
  /\ input \in [Requests -> [at: Instances, key: Keys \cup {NoKey},
                  payload: Payloads, commandId: ClientIds \cup {NoId}]]
  /\ step = [r \in Requests |-> "begin"]
  /\ command = [r \in Requests |-> NoId]
  /\ answer = [r \in Requests |-> "open"]
  /\ inserted = {}
  /\ cache = [i \in Instances |-> [k \in Keys |-> Nothing]]
  /\ rows = [id \in Ids |-> Nothing]
  /\ handed = {}
  /\ event = [id \in Ids |-> Nothing]

-----------------------------------------------------------------------------
Key(r) == input[r].key
Keyed(r) == Key(r) # NoKey
Signed(r) == input[r].commandId # NoId

(* Mutant: the id, which differs between two attempts, is hashed as well. *)
FingerprintOfAttempt(r) ==
  [payload |-> input[r].payload, key |-> Key(r), attempt |-> input[r].commandId]

(* fingerprintCommand: of what is persisted, under the trimmed key. *)
Fingerprint(r) == [payload |-> input[r].payload, key |-> Key(r)]

Stored == {id \in Ids : rows[id] # Nothing}
UnderKey(r) == {id \in Stored : Keyed(r) /\ rows[id].key = Key(r)}
IsOver(id) == rows[id].status \in {"done", "expired"}

Go(r, next) == step' = [step EXCEPT ![r] = next]
Answer(r, with) == Go(r, "answered") /\ answer' = [answer EXCEPT ![r] = with]

(* rememberIdempotentCommand, and the cache line of resolveIdempotentCommand. *)
Remembered(r, id) ==
  IF Keyed(r)
  THEN [cache EXCEPT ![input[r].at][Key(r)] = [commandId |-> id, fingerprint |-> Fingerprint(r)]]
  ELSE cache

(* The command of an earlier request with the key, if it is the same one. *)
Resolve(r, id) ==
  IF rows[id].fingerprint = Fingerprint(r)
  THEN /\ command' = [command EXCEPT ![r] = id]
       /\ Go(r, "dispatch")
       /\ UNCHANGED answer
  ELSE Answer(r, "keyConflict") /\ UNCHANGED command

(* The look-up in the instance's cache. *)
Begin(r) ==
  LET cached == IF Keyed(r) THEN cache[input[r].at][Key(r)] ELSE Nothing IN
  /\ step[r] = "begin"
  /\ \/ ~Keyed(r) /\ Go(r, "insert") /\ UNCHANGED <<command, answer>>
     \/ Keyed(r) /\ cached = Nothing /\ Go(r, "byKey") /\ UNCHANGED <<command, answer>>
     \/ /\ cached # Nothing
        /\ IF cached.fingerprint # Fingerprint(r)
           THEN Answer(r, "keyConflict") /\ UNCHANGED command
           ELSE /\ command' = [command EXCEPT ![r] = cached.commandId]
                /\ Go(r, "dispatch")
                /\ UNCHANGED answer
  /\ UNCHANGED <<input, inserted, cache, rows, handed, event>>

FindByKey(r) ==
  /\ step[r] = "byKey"
  /\ \/ UnderKey(r) = {} /\ Go(r, "insert") /\ UNCHANGED <<command, answer, cache>>
     \/ \E id \in UnderKey(r) :
          /\ Resolve(r, id)
          /\ cache' = IF rows[id].fingerprint = Fingerprint(r) THEN Remembered(r, id) ELSE cache
  /\ UNCHANGED <<input, inserted, rows, handed, event>>

IdOf(r) == IF Signed(r) THEN input[r].commandId ELSE r

InsertRow(r) ==
  /\ rows' = [rows EXCEPT ![IdOf(r)] =
       [key |-> Key(r), fingerprint |-> Fingerprint(r), status |-> "queued"]]
  /\ command' = [command EXCEPT ![r] = IdOf(r)]
  /\ inserted' = inserted \cup {r}
  /\ cache' = Remembered(r, IdOf(r))
  /\ Go(r, "dispatch")
  /\ UNCHANGED <<input, answer, handed, event>>

(* Mutant: no unique index on the key. *)
InsertBesideKey(r) ==
  /\ step[r] = "insert"
  /\ IF IdOf(r) \in Stored
     THEN /\ IF Keyed(r) THEN Go(r, "recover") /\ UNCHANGED answer ELSE Answer(r, "idConflict")
          /\ UNCHANGED <<input, command, inserted, cache, rows, handed, event>>
     ELSE InsertRow(r)

(* The insert: P2002 when the key or the id is taken. *)
Insert(r) ==
  /\ step[r] = "insert"
  /\ IF UnderKey(r) # {} \/ IdOf(r) \in Stored
     THEN /\ IF Keyed(r) THEN Go(r, "recover") /\ UNCHANGED answer ELSE Answer(r, "idConflict")
          /\ UNCHANGED <<input, command, inserted, cache, rows, handed, event>>
     ELSE InsertRow(r)

(* recoverDuplicateCommand: no winner when it was the id that was taken. *)
Recover(r) ==
  /\ step[r] = "recover"
  /\ \/ UnderKey(r) = {} /\ Answer(r, "keyConflict") /\ UNCHANGED command
     \/ \E id \in UnderKey(r) : Resolve(r, id)
  /\ UNCHANGED <<input, inserted, cache, rows, handed, event>>

(* dispatchRelayCommandToRelay, of a deduplicated command too.  One that     *)
(* timed out has failed, and may have reached the desktop all the same.      *)
Dispatch(r) ==
  /\ step[r] = "dispatch"
  /\ \/ /\ handed' = handed \cup {command[r]}
        /\ Answer(r, "created")
     \/ /\ handed' \in {handed, handed \cup {command[r]}}
        /\ IF Signed(r) THEN Go(r, "expire") /\ UNCHANGED answer ELSE Answer(r, "created")
  /\ UNCHANGED <<input, command, inserted, cache, rows, event>>

(* expireUndeliveredSignedCommand: markCommandExpired, which leaves a        *)
(* command that is over, and the answer whatever it did.                     *)
Expire(r) ==
  /\ step[r] = "expire"
  /\ rows' = [rows EXCEPT ![command[r]].status = IF IsOver(command[r]) THEN @ ELSE "expired"]
  /\ Answer(r, "expired")
  /\ UNCHANGED <<input, command, inserted, cache, handed, event>>

(* An event of a command the desktop was handed (CommandRow has the detail): *)
(* the status it will write is resolved from the row as it is read, none for *)
(* a row that is over, and one event of a command is stored at a time.       *)
ReadEvent(id, to) ==
  /\ id \in handed /\ event[id] = Nothing
  /\ ~IsOver(id) /\ to # rows[id].status
  /\ event' = [event EXCEPT ![id] = to]
  /\ UNCHANGED <<input, request, cache, rows, handed>>

(* The update names the row by its id alone: one that has expired since it   *)
(* was read runs again, or is done.                                          *)
StoreEvent(id) ==
  /\ event[id] # Nothing
  /\ rows' = [rows EXCEPT ![id].status = event[id]]
  /\ event' = [event EXCEPT ![id] = Nothing]
  /\ UNCHANGED <<input, request, cache, handed>>

(* The transaction is rolled back with its instance. *)
LoseEvent(id) ==
  /\ event[id] # Nothing
  /\ event' = [event EXCEPT ![id] = Nothing]
  /\ UNCHANGED <<input, request, cache, rows, handed>>

(* BoundedMap makes room for another key, or the instance starts anew. *)
Evict(i, k) ==
  /\ cache[i][k] # Nothing
  /\ cache' = [cache EXCEPT ![i][k] = Nothing]
  /\ UNCHANGED <<input, request, rows, handed, event>>

CreateNext ==
  \/ \E r \in Requests :
       Begin(r) \/ FindByKey(r) \/ Insert(r) \/ Recover(r) \/ Dispatch(r) \/ Expire(r)
  \/ \E id \in Ids, to \in {"running", "done"} : ReadEvent(id, to)
  \/ \E id \in Ids : StoreEvent(id) \/ LoseEvent(id)
  \/ \E i \in Instances, k \in Keys : Evict(i, k)

CreateSpec == CreateInit /\ [][CreateNext]_createVars

-----------------------------------------------------------------------------
Succeeded == {r \in Requests : answer[r] \in {"created", "expired"}}

(* What requests are told of their commands holds, whatever caches and       *)
(* inserts interleaved: those of one key have one command, it is the one     *)
(* asked for, a request without a key has its own, no two inserted the same, *)
(* and a command said to have expired is over, unless the desktop was handed *)
(* it after all: then an event read before the expiry may open it again      *)
(* (createCommand, resolveIdempotentCommand, recoverDuplicateCommand,        *)
(* markCommandExpired).                                                      *)
AnswersHold ==
  /\ \A r, s \in Succeeded : (Keyed(r) /\ Key(r) = Key(s)) => command[r] = command[s]
  /\ \A r \in Succeeded :
       /\ rows[command[r]].fingerprint.payload = input[r].payload
       /\ rows[command[r]].key = Key(r)
       /\ Keyed(r) \/ r \in inserted
       /\ answer[r] = "expired" => (IsOver(command[r]) \/ command[r] \in handed)
  /\ \A r, s \in inserted : command[r] = command[s] => r = s

(* A request refused for its key or its id is in conflict: its key names     *)
(* another command, or its id is another request's.  Two attempts at one     *)
(* command never are, although ids and signatures differ between them        *)
(* (stripTransientCommandFields).                                            *)
ConflictIsReal ==
  \A r \in Requests : answer[r] \in {"keyConflict", "idConflict"} =>
    \/ \E id \in UnderKey(r) : rows[id].fingerprint.payload # input[r].payload
    \/ \E s \in inserted \ {r} : Signed(r) /\ command[s] = input[r].commandId
=============================================================================
