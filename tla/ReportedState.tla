---------------------------- MODULE ReportedState ----------------------------
(***************************************************************************)
(* What the backend knows of one device with one relay: the ingestion      *)
(* service, DeviceStateRepository, the state cache in Redis and the stale  *)
(* detector.  The handlers of state reports, switch events, availability   *)
(* and telemetry each write the rows and the cache one await after         *)
(* another.  The device is registered; event rows, the outbox and what is  *)
(* published to the apps are left out.  So is the optimistic update of a   *)
(* command: PostgreSQL refuses its confidence, and the cache is not        *)
(* reached.                                                                *)
(***************************************************************************)
EXTENDS Naturals, Sequences, Handlers

CONSTANT Restarts   \* whether the server may restart

ASSUME StateAssumption == Restarts \in BOOLEAN

VARIABLES
  relay,        \* the device's relay, "on" or "off"
  connection,   \* device_state.connection_state, "none" without a row
  recent,       \* its last_seen_at is within the stale threshold
  reported,     \* channel_state.reported_state, "none" without a row
  cached,       \* power in the hash in Redis, "none" without one
  ingest,       \* the message each caller handles
  marking,      \* the detector has listed the device and not yet marked it
  markedLate,   \* history: a message came in between the two
  reportLost    \* history: a report was dropped that said something new

stateVars == <<relay, connection, recent, reported, cached, ingest, marking, markedLate,
               reportLost>>

Powers == {"on", "off"}
Connections == {"ONLINE", "OFFLINE", "STALE"}
IngestMemo(todo, power, word) == [todo |-> todo, power |-> power, word |-> word]
IngestIdle == IngestMemo(<<>>, "none", "none")

(* The awaits of each handler that write, in their order.                  *)
StateTodo == <<"cachePower", "connection", "channel">>
EventTodo == <<"channel", "connection", "cachePower">>
SeenTodo == <<"connection">>   \* availability and telemetry
Todos == {<<>>, StateTodo, EventTodo, SeenTodo}

StateTypeOK ==
  /\ relay \in Powers
  /\ connection \in Connections \cup {"none"} /\ recent \in BOOLEAN
  /\ reported \in Powers \cup {"none"}
  /\ cached \in Powers \cup {"none"}
  /\ \A c \in Callers :
       /\ \E todo \in Todos, done \in 0..3 :
            ingest[c].todo = [k \in 1..(Len(todo) - done) |-> todo[k + done]]
       /\ ingest[c].power \in Powers \cup {"none"}
       /\ ingest[c].word \in Powers \cup Connections \cup {"none"}
  /\ marking \in BOOLEAN /\ markedLate \in BOOLEAN /\ reportLost \in BOOLEAN

StateInit ==
  /\ relay \in Powers
  /\ connection = "none" /\ recent = FALSE /\ reported = "none" /\ cached = "none"
  /\ ingest = [c \in Callers |-> IngestIdle]
  /\ marking = FALSE /\ markedLate = FALSE /\ reportLost = FALSE

IngestIsIdle(c) == ingest[c].todo = <<>>

(* A message comes in.  word is the connection state it means, or what the *)
(* cache makes of its power.                                               *)
Handle(c, todo, power, word) ==
  /\ IngestIsIdle(c)
  /\ ingest' = [ingest EXCEPT ![c] = IngestMemo(todo, power, word)]

RowsStay == UNCHANGED <<connection, recent, reported, cached, marking, markedLate>>

(* A report carries reportedState; isDelta and updateDeviceState look for  *)
(* power, value or enabled, and take what is not there for off.            *)
PowerOfReport(power) == "off"

(* isDelta of a report, which has no field online. *)
IsDelta(power) == cached # PowerOfReport(power)

(* handleDeviceState drops a report without a delta.                       *)
HandleState(c) ==
  /\ IF IsDelta(relay)
     THEN /\ Handle(c, StateTodo, relay, PowerOfReport(relay))
          /\ UNCHANGED reportLost
     ELSE /\ IngestIsIdle(c) /\ UNCHANGED ingest
          /\ reportLost' = (reportLost \/
               (reported # relay /\ ~marking /\ \A d \in Callers : IngestIsIdle(d)))
  /\ RowsStay /\ UNCHANGED relay

(* A wall switch is pressed, and its event comes in: here power is there.  *)
HandleEvent(c) ==
  \E power \in Powers \ {relay} :
    /\ Handle(c, EventTodo, power, power)
    /\ relay' = power
    /\ RowsStay /\ UNCHANGED reportLost

(* The cache is told too, of a field that is not read here. *)
HandleAvailability(c) ==
  \E word \in {"ONLINE", "OFFLINE"} :
    /\ Handle(c, SeenTodo, "none", word)
    /\ RowsStay /\ UNCHANGED <<relay, reportLost>>

HandleTelemetry(c) ==
  /\ Handle(c, SeenTodo, "none", "ONLINE")
  /\ RowsStay /\ UNCHANGED <<relay, reportLost>>

\* What a handler has left to do after an await; the last ends it.
AfterAwait(m) == IF Len(m.todo) = 1 THEN IngestIdle ELSE [m EXCEPT !.todo = Tail(@)]

(* The next await of c is over.                                            *)
Await(c, step) ==
  /\ ingest[c].todo # <<>> /\ Head(ingest[c].todo) = step
  /\ ingest' = [ingest EXCEPT ![c] = AfterAwait(@)]
  /\ UNCHANGED <<relay, marking, reportLost>>

(* updateDeviceConnection: seen now, whatever the new state.               *)
UpdateConnection(c) ==
  /\ Await(c, "connection")
  /\ connection' = IF ingest[c].word = "OFFLINE" THEN "OFFLINE" ELSE "ONLINE"
  /\ recent' = TRUE
  /\ markedLate' = (markedLate \/ marking)
  /\ UNCHANGED <<reported, cached>>

UpdateChannel(c) ==
  /\ Await(c, "channel")
  /\ reported' = ingest[c].power
  /\ UNCHANGED <<connection, recent, cached, markedLate>>

CachePower(c) ==
  /\ Await(c, "cachePower")
  /\ cached' = ingest[c].word
  /\ UNCHANGED <<connection, recent, reported, markedLate>>

\* Mutant: when the device was seen is not asked for.
Detect_AnyAge ==
  /\ ~marking /\ connection = "ONLINE"
  /\ marking' = TRUE
  /\ UNCHANGED <<relay, connection, recent, reported, cached, ingest, markedLate, reportLost>>

(* The detector lists what is ONLINE and was not seen, then marks it.      *)
Detect ==
  /\ ~marking /\ connection = "ONLINE" /\ ~recent
  /\ marking' = TRUE
  /\ UNCHANGED <<relay, connection, recent, reported, cached, ingest, markedLate, reportLost>>

MarkStale ==
  /\ marking
  /\ marking' = FALSE /\ connection' = "STALE"
  /\ UNCHANGED <<relay, recent, reported, cached, ingest, markedLate, reportLost>>

(* 90 seconds go by for the row, or for the hash.                          *)
GrowsOld ==
  /\ recent /\ recent' = FALSE
  /\ UNCHANGED <<relay, connection, reported, cached, ingest, marking, markedLate, reportLost>>

CacheExpires ==
  /\ cached # "none" /\ cached' = "none"
  /\ UNCHANGED <<relay, connection, recent, reported, ingest, marking, markedLate, reportLost>>

(* The relay is switched by a command or a routine of the device.          *)
RelaySwitches ==
  /\ relay' \in Powers \ {relay}
  /\ UNCHANGED <<connection, recent, reported, cached, ingest, marking, markedLate, reportLost>>

(* The server starts again: handlers are lost, what was ONLINE is OFFLINE, *)
(* and the cache is emptied, unless that fails.                            *)
RestartIngestion ==
  /\ Restarts
  /\ connection' = IF connection = "ONLINE" THEN "OFFLINE" ELSE connection
  /\ cached' \in {cached, "none"}
  /\ ingest' = [c \in Callers |-> IngestIdle] /\ marking' = FALSE
  /\ UNCHANGED <<relay, recent, reported, markedLate, reportLost>>

StateMessage(c) ==
  \/ HandleState(c) \/ HandleEvent(c) \/ HandleAvailability(c) \/ HandleTelemetry(c)

StateStep(c) == UpdateConnection(c) \/ UpdateChannel(c) \/ CachePower(c)

StateNext ==
  \/ \E c \in Callers : StateMessage(c) \/ StateStep(c)
  \/ Detect \/ MarkStale \/ GrowsOld \/ CacheExpires \/ RelaySwitches \/ RestartIngestion

StateSpec == StateInit /\ [][StateNext]_stateVars

-----------------------------------------------------------------------------
(* A device is STALE only after a silence: one that has been seen lately   *)
(* is marked only when its message came between listing and marking.       *)
StaleWasSilent == (connection = "STALE" /\ recent) => markedLate

(* A report is dropped as a duplicate only if the row already says what it *)
(* says (while nothing else is under way).                                 *)
DroppedIsKnown == ~reportLost
=============================================================================
