---------------------------- MODULE CommandService ----------------------------
(***************************************************************************)
(* DeviceCommandService.sendCommand and handleCommandReceipt on the        *)
(* production database adapter (PostgreSQL), one action per awaited call.  *)
(*                                                                         *)
(* sendCommand is an async function: at each await any other request, or a *)
(* receipt, may run.  Its "DB transaction" is four statements, each on a   *)
(* pooled connection of its own:                                           *)
(*     find (pre-check) ; find (recordCommand) ; insert ; insert (outbox)  *)
(* and the MQTT publish follows them.                                      *)
(***************************************************************************)
EXTENDS CommandWire

VARIABLES
    pc,         \* where each request's sendCommand stands
    replay,     \* the pre-check's isIdempotentReplay, per request
    found,      \* the record recordCommand returned, per request
    reply,      \* what the caller was answered, per request
    row,        \* device_commands: the request a row was inserted from
    status,     \* device_commands.status
    outbox,     \* ids of the rows of outbox
    audit,      \* ids of the DEVICE_COMMAND_DISPATCHED audit rows
    published   \* history: requests handed to the broker

serviceVars == <<pc, replay, found, reply, row, status, outbox, audit, published>>
storeVars == <<row, status, outbox, audit>>

None == "none"

Steps == {"idle", "precheck", "record", "insert", "outbox", "publish", "puback",
          "audit", "done", "lost"}
Replies == {"none", "EXPIRED", "REPLAY", "CREATED", "MQTT_ERROR", "ERROR"}
Statuses == {"absent", "CREATED"} \union ReceiptStatus

\* A snapshot of a device_commands row, as held by the JS caller.
Records == [id : Commands \union {None}, status : Statuses]
NoRecord == [id |-> None, status |-> "absent"]

\* The id is the primary key of a row of device_commands.
Exists(c) == status[c] # "absent"

\* Mutant: the look-up is by primary key instead of by idempotency key.
RowsWithKeyOf_ById(r) == {c \in Commands : Exists(c) /\ c = CommandOf[r]}

\* device_commands rows with the request's device and idempotency key.
RowsWithKeyOf(r) == {c \in Commands : Exists(c) /\ KeyOf[row[c]] = KeyOf[r]}

ServiceInit ==
    /\ pc = [r \in Requests |-> "idle"]
    /\ replay = [r \in Requests |-> FALSE]
    /\ found = [r \in Requests |-> NoRecord]
    /\ reply = [r \in Requests |-> "none"]
    /\ row = [c \in Commands |-> None]
    /\ status = [c \in Commands |-> "absent"]
    /\ outbox = {}
    /\ audit = {}
    /\ published = {}

\* The request leaves step `from` for step `to`.
Goto(r, from, to) ==
    /\ pc[r] = from
    /\ pc' = [pc EXCEPT ![r] = to]

\* The request leaves step `from` and its caller is answered `a`.
Answer(r, from, a) ==
    /\ Goto(r, from, "done")
    /\ reply' = [reply EXCEPT ![r] = a]

-----------------------------------------------------------------------------
(* sendCommand                                                             *)

\* Step 3: a request that has already expired is answered before any write.
RejectExpired(r) ==
    /\ r \in expired
    /\ Answer(r, "idle", "EXPIRED")
    /\ UNCHANGED <<replay, found, storeVars, published, wireVars>>

\* An authorized, well-formed, unexpired request enters the persistence steps.
Submit(r) ==
    /\ r \notin expired
    /\ Goto(r, "idle", "precheck")
    /\ UNCHANGED <<replay, found, reply, storeVars, published, wireVars>>

\* _persistCommandWithOutbox: const preExisting = await db.find(...)
PreCheck(r) ==
    /\ Goto(r, "precheck", "record")
    /\ replay' = [replay EXCEPT ![r] = RowsWithKeyOf(r) # {}]
    /\ UNCHANGED <<found, reply, storeVars, published, wireVars>>

\* recordCommand looks the key up again and returns existing[0] when there is
\* one; SELECT without ORDER BY may put any of several rows first.
RecordFinds(r) ==
    /\ Goto(r, "record", "outbox")
    /\ \E c \in RowsWithKeyOf(r) :
          found' = [found EXCEPT ![r] = [id |-> c, status |-> status[c]]]
    /\ UNCHANGED <<replay, reply, storeVars, published, wireVars>>

\* Mutant: the insert is not awaited, the flow goes straight on to the outbox.
RecordMisses_SkipsInsert(r) ==
    /\ RowsWithKeyOf(r) = {}
    /\ Goto(r, "record", "outbox")
    /\ UNCHANGED <<replay, found, reply, storeVars, published, wireVars>>

RecordMisses(r) ==
    /\ RowsWithKeyOf(r) = {}
    /\ Goto(r, "record", "insert")
    /\ UNCHANGED <<replay, found, reply, storeVars, published, wireVars>>

\* Mutant: publishes after the command row, without waiting for the outbox.
InsertCommand_PublishEarly(r) ==
    LET c == CommandOf[r] IN
    /\ ~Exists(c)
    /\ Goto(r, "insert", "publish")
    /\ row' = [row EXCEPT ![c] = r]
    /\ status' = [status EXCEPT ![c] = "CREATED"]
    /\ found' = [found EXCEPT ![r] = [id |-> c, status |-> "CREATED"]]
    /\ UNCHANGED <<replay, reply, outbox, audit, published, wireVars>>

\* INSERT INTO device_commands: the primary key is the commandId, and nothing
\* in the schema makes (device_id, idempotency_key) unique.
InsertCommand(r) ==
    LET c == CommandOf[r] IN
    /\ ~Exists(c)
    /\ Goto(r, "insert", "outbox")
    /\ row' = [row EXCEPT ![c] = r]
    /\ status' = [status EXCEPT ![c] = "CREATED"]
    /\ found' = [found EXCEPT ![r] = [id |-> c, status |-> "CREATED"]]
    /\ UNCHANGED <<replay, reply, outbox, audit, published, wireVars>>

\* Mutant: an upsert, which overwrites the row that holds the primary key.
InsertConflicts_Overwrites(r) ==
    LET c == CommandOf[r] IN
    /\ Exists(c)
    /\ Goto(r, "insert", "outbox")
    /\ row' = [row EXCEPT ![c] = r]
    /\ status' = [status EXCEPT ![c] = "CREATED"]
    /\ UNCHANGED <<replay, found, reply, outbox, audit, published, wireVars>>

\* The primary key is taken: the error leaves sendCommand (HTTP 500).
InsertConflicts(r) ==
    /\ Exists(CommandOf[r])
    /\ Answer(r, "insert", "ERROR")
    /\ UNCHANGED <<replay, found, storeVars, published, wireVars>>

\* outboxRepo.enqueue under the id outbox_cmd_<commandId>.  It runs for a
\* replay too, whose answer is the record recordCommand returned.
Enqueue(r) ==
    LET c == CommandOf[r] IN
    /\ c \notin outbox
    /\ outbox' = outbox \union {c}
    /\ IF replay[r] THEN Answer(r, "outbox", "REPLAY")
                    ELSE Goto(r, "outbox", "publish") /\ UNCHANGED reply
    /\ UNCHANGED <<replay, found, row, status, audit, published, wireVars>>

\* Mutant: every error of the outbox insert is swallowed.
EnqueueConflicts_Swallowed(r) ==
    /\ CommandOf[r] \in outbox
    /\ IF replay[r] THEN Answer(r, "outbox", "REPLAY")
                    ELSE Goto(r, "outbox", "publish") /\ UNCHANGED reply
    /\ UNCHANGED <<replay, found, storeVars, published, wireVars>>

\* A duplicate outbox id.  PostgreSQL reports "duplicate key value violates
\* unique constraint", which the handler's test for 'Unique constraint
\* violation' does not match, so the error is thrown on (HTTP 500).
EnqueueConflicts(r) ==
    /\ CommandOf[r] \in outbox
    /\ Answer(r, "outbox", "ERROR")
    /\ UNCHANGED <<replay, found, storeVars, published, wireVars>>

\* Step 6: mqttTransport.sendCommand hands the envelope to the MQTT client.
Publish(r) ==
    /\ Goto(r, "publish", "puback")
    /\ SendCommand(r)
    /\ published' = published \union {r}
    /\ UNCHANGED <<replay, found, reply, storeVars, toCloud, online, expired>>

\* No PUBACK when the backend's connection drops: mqtt.js sends it again.
Republish(r) ==
    /\ pc[r] = "puback"
    /\ Len(toDevice) < MaxInFlight
    /\ SendCommand(r)
    /\ UNCHANGED <<serviceVars, toCloud, online, expired>>

\* The publish is rejected (no transport, client closing): the caller is told
\* that the outbox will retry.
PublishFails(r) ==
    /\ \/ Answer(r, "publish", "MQTT_ERROR")
       \/ Answer(r, "puback", "MQTT_ERROR")
    /\ UNCHANGED <<replay, found, storeVars, published, wireVars>>

\* Mutant: waits for the device's receipt instead of the broker's PUBACK.
PubAck_AwaitsReceipt(r) ==
    /\ status[CommandOf[r]] # "CREATED"
    /\ Goto(r, "puback", "audit")
    /\ UNCHANGED <<replay, found, reply, storeVars, published, wireVars>>

\* The broker acknowledges.  The optimistic channel_state write that follows
\* is rejected by the CHECK on confidence ('COMMANDED' is not in its list)
\* and its error is caught, so only the audit row remains to be written.
PubAck(r) ==
    /\ Goto(r, "puback", "audit")
    /\ UNCHANGED <<replay, found, reply, storeVars, published, wireVars>>

\* auditRepo.log, its errors swallowed, and the answer.
Audit(r) ==
    /\ Answer(r, "audit", "CREATED")
    /\ audit' = audit \union {CommandOf[r]}
    /\ UNCHANGED <<replay, found, row, status, outbox, published, wireVars>>

-----------------------------------------------------------------------------
(* handleCommandReceipt: the callback is not awaited and each UPDATE takes a *)
(* pooled connection, so receipts are applied in any order.  The update is   *)
(* unconditional; one that names no row throws and is only logged.           *)
HandleReceipt(c, s) ==
    /\ TakeReceipt(c, s)
    /\ status' = IF Exists(c) THEN [status EXCEPT ![c] = s] ELSE status
    /\ UNCHANGED <<pc, replay, found, reply, row, outbox, audit, published,
                   toDevice, online, expired>>

\* The process dies: requests in progress get no answer, the MQTT client's
\* unacknowledged publishes are in memory and are lost with it.
Crash ==
    /\ pc' = [r \in Requests |->
                IF pc[r] \in {"idle", "done"} THEN pc[r] ELSE "lost"]
    /\ pc' # pc
    /\ UNCHANGED <<replay, found, reply, storeVars, published, wireVars>>

RequestStep(r) ==
    \/ RejectExpired(r) \/ Submit(r)
    \/ PreCheck(r)
    \/ RecordFinds(r) \/ RecordMisses(r)
    \/ InsertCommand(r) \/ InsertConflicts(r)
    \/ Enqueue(r) \/ EnqueueConflicts(r)
    \/ Publish(r) \/ Republish(r) \/ PublishFails(r) \/ PubAck(r)
    \/ Audit(r)

ServiceNext ==
    \/ \E r \in Requests : RequestStep(r)
    \/ \E x \in Receipts : HandleReceipt(x[1], x[2])
    \/ Crash

-----------------------------------------------------------------------------
(* The service alone, in front of a device that takes the commands in order *)
(* and sends whatever receipts it likes for commands that were published.   *)
(* CommandPipeline puts the real device in its place.                       *)

DeviceMoves ==
    /\ \/ toDevice # <<>> /\ toDevice' = Tail(toDevice)
       \/ UNCHANGED toDevice
    /\ \/ \E r \in published, s \in ReceiptStatus : SendReceipt(CommandOf[r], s)
       \/ UNCHANGED toCloud
    /\ UNCHANGED <<serviceVars, online, expired>>

Init == WireInit /\ ServiceInit

Next ==
    \/ ServiceNext
    \/ WireNext /\ UNCHANGED serviceVars
    \/ DeviceMoves

vars == <<serviceVars, wireVars>>

\* What the event loop, the database and the broker do for a request once it is
\* begun: every continuation runs, every statement and publish is acknowledged.
Progress(r) ==
    \/ PreCheck(r) \/ RecordFinds(r) \/ RecordMisses(r)
    \/ InsertCommand(r) \/ InsertConflicts(r)
    \/ Enqueue(r) \/ EnqueueConflicts(r)
    \/ Publish(r) \/ PubAck(r) \/ Audit(r)

Spec == Init /\ [][Next]_vars

FairSpec == Spec /\ \A r \in Requests : WF_vars(Progress(r))

-----------------------------------------------------------------------------
(* What the service promises.                                              *)

Typed ==
    /\ WireTypeOK
    /\ pc \in [Requests -> Steps]
    /\ replay \in [Requests -> BOOLEAN]
    /\ found \in [Requests -> Records]
    /\ reply \in [Requests -> Replies]
    /\ row \in [Commands -> Requests \union {None}]
    /\ status \in [Commands -> Statuses]
    /\ outbox \subseteq Commands
    /\ audit \subseteq Commands
    /\ published \subseteq Requests

\* Every variable has its type, a stored row came from a request, and a request
\* that is past recordCommand has in hand the record it returned.
TypeOK ==
    /\ Typed
    /\ \A c \in Commands : Exists(c) => row[c] \in Requests
    /\ \A r \in Requests : pc[r] \in {"outbox", "publish", "puback", "audit"} =>
          found[r].id \in Commands

\* No two requests hand the same command to the broker, however their steps
\* interleave: the primary key of outbox is the only thing that stops the
\* second one (device-command.service.js _persistCommandWithOutbox).
DispatchedOnce ==
    \A r1, r2 \in published : CommandOf[r1] = CommandOf[r2] => r1 = r2

\* "MQTT publish NEVER occurs before the DB transaction commits": what is
\* published has its outbox row, and a device_commands row with its key.
PublishedIsDurable ==
    \A r \in published :
        /\ CommandOf[r] \in outbox
        /\ \E c \in Commands : Exists(c) /\ KeyOf[row[c]] = KeyOf[r]

\* The clients make one commandId for each key.
KeyDeterminesCommand ==
    \A r1, r2 \in Requests : KeyOf[r1] = KeyOf[r2] => CommandOf[r1] = CommandOf[r2]

\* The same for the command's own row, which its receipt will look for.
\* It needs clients that never use one key for two commandIds.
PublishedIsRecorded ==
    \A r \in published : Exists(CommandOf[r])

\* A request the pre-check recognised as a replay is never answered an error.
ReplayAccepted ==
    \A r \in Requests : replay[r] => reply[r] # "ERROR"

\* A replay is answered with the record of its own key, and with a status that
\* record has had: CREATED, or one a receipt has put there since.
ReplayAnswersItsKey ==
    \A r \in Requests : reply[r] = "REPLAY" =>
        LET c == found[r].id IN
        /\ Exists(c) /\ KeyOf[row[c]] = KeyOf[r]
        /\ status[c] = "CREATED" => found[r].status = "CREATED"

\* A stored command keeps the request it was made from, and once a receipt has
\* given it a status no later request, retry or replay takes it back to CREATED.
NoRegression ==
    [][\A c \in Commands : Exists(c) =>
          /\ row'[c] = row[c]
          /\ status'[c] = "CREATED" => status[c] = "CREATED"]_vars

\* Every request that is begun is answered, or its process died.
EveryRequestAnswered ==
    \A r \in Requests : (pc[r] # "idle") ~> (pc[r] \in {"done", "lost"})

\* "Command persisted but MQTT dispatch failed -- outbox will retry".
OutboxRetries ==
    \A r \in Requests : (reply[r] = "MQTT_ERROR") ~> (r \in published)
=============================================================================
