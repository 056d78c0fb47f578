---------------------------- MODULE DeviceCommands ----------------------------
(***************************************************************************)
(* The command side of the switch firmware: the MQTT event handler of      *)
(* esp_mqtt_client_wrapper.c, eh_mqtt_parse_command and the idempotency    *)
(* ring of mqtt_protocol.c, and on_mqtt_command_received of main.c.  One   *)
(* task runs all of it, so commands are handled one at a time and in       *)
(* order; a reboot may fall between any two of its steps.                  *)
(*                                                                         *)
(* Of the routine engine only what a command sees is here: which routines  *)
(* the table holds and which are running.  EdgeDevice has the rest.        *)
(***************************************************************************)
EXTENDS CommandWire

CONSTANTS
    NumChannels,   \* EH_RELAY_CHANNEL_COUNT, also the client's channel_count
    RingSize,      \* EH_MQTT_IDEM_RING_SIZE
    RoutineIds,    \* routine ids commands may name
    RoutineSlots,  \* MAX_EDGE_ROUTINES
    ActionOf,      \* Requests -> Actions
    ChannelOf,     \* Requests -> channelIndex
    RoutineOf,     \* Requests -> the routineId the parser keeps, or NoRoutineId
    RoutineChannel,\* RoutineIds -> channel_index its upserts give it
    Clocks,        \* what the device's clock may show
    Reboots,       \* whether the device may reboot
    MaxActs        \* bound: how far the history counts a key's dispatches

Actions == {"setPowerOn", "setPowerOff", "emergencyStop", "stopRoutine",
            "upsertRoutine", "deleteRoutine", "otaUpdate", "unsupported"}

Channels == 1..NumChannels

\* The parser leaves the id empty when its buffer, of 37 bytes, is too short for
\* it; so are the ids of the routine table's empty slots.
NoRoutineId == "no id"

ASSUME DeviceAssumption ==
    /\ NumChannels \in Nat \ {0}
    /\ RingSize \in Nat \ {0}
    /\ RoutineSlots \in Nat
    /\ ActionOf \in [Requests -> Actions]
    /\ ChannelOf \in [Requests -> Nat]
    /\ \A r \in Requests :
          ActionOf[r] = "upsertRoutine" => RoutineOf[r] \in RoutineIds \union {NoRoutineId}
    /\ NoRoutineId \notin RoutineIds
    /\ RoutineChannel \in [RoutineIds -> Channels]
    /\ MaxActs \in Nat
    /\ Clocks \subseteq {"unset", "right", "off"}
    /\ Reboots \in BOOLEAN /\ (Reboots => Lossy)

VARIABLES
    relay,       \* s_relay_states
    routines,    \* ids in the routine table (RAM)
    running,     \* those whose runtime_state is RUNNING (RAM)
    ring,        \* idem_ctx: the last RingSize keys recorded, oldest first (RAM)
    task,        \* the step of the MQTT task: "idle" or a step of a command
    current,     \* the command being handled
    cursor,      \* emergencyStop: the next channel to switch off, 0 at first
    verdict,     \* the receipt it will be given
    sent,        \* history: receipts published
    acts,        \* history: how often each key was dispatched (up to MaxActs)
    misjudged    \* history: commands found expired by a clock that was off

deviceVars == <<relay, routines, running, ring, task, current, cursor,
                verdict, sent, acts, misjudged>>
boardVars == <<relay, routines, running>>
historyVars == <<sent, acts, misjudged>>

NoRequest == "no request"

\* The routine tables flash may hold.
Tables == {t \in SUBSET RoutineIds : IsFiniteSet(t) /\ Cardinality(t) <= RoutineSlots}

DeviceTypeOK ==
    /\ relay \in [Channels -> BOOLEAN]
    /\ routines \subseteq RoutineIds
    /\ running \subseteq routines
    /\ ring \in Seq(Keys) /\ Len(ring) <= RingSize
    /\ task \in {"idle", "dispatch", "receipt", "record"}
    /\ current \in Requests \union {NoRequest}
    /\ cursor \in 0..NumChannels + 1
    /\ verdict \in ReceiptStatus
    /\ sent \subseteq Receipts
    /\ acts \in [Keys -> 0..MaxActs]
    /\ misjudged \subseteq Commands

DeviceInit ==
    /\ relay = [ch \in Channels |-> FALSE]
    /\ routines = {}
    /\ running = {}
    /\ ring = <<>>
    /\ task = "idle"
    /\ current = NoRequest
    /\ cursor = 0
    /\ verdict = "APPLIED"
    /\ sent = {}
    /\ acts = [k \in Keys |-> 0]
    /\ misjudged = {}

-----------------------------------------------------------------------------
(* MQTT_EVENT_DATA                                                         *)

\* Actions whose channelIndex may be 0 for the firmware's parser.
IsDeviceAction(a) == a \in {"emergencyStop", "upsertRoutine", "deleteRoutine"}

Parses(r) ==
    /\ ChannelOf[r] <= NumChannels
    /\ IsDeviceAction(ActionOf[r]) \/ ChannelOf[r] > 0

\* Mutant: a device that does not know the time takes every command for expired.
ParsedExpired_NoClock(r, clock) ==
    \/ clock = "right" /\ r \in expired
    \/ clock \in {"off", "unset"}

\* What the parser may find of expiresAt, which every envelope has.  It compares
\* it with time(NULL): not at all while that has not been set since the power came
\* on, and to any effect when it is off, as a client on the LAN may set it to any
\* time at any moment.  SNTP sets it right again.
ParsedExpired(r, clock) ==
    \/ clock = "right" /\ r \in expired
    \/ clock = "off"

\* A clock that is off may also find an expired command in time.
ParsedInTime(r, clock) == clock = "off" \/ ~ParsedExpired(r, clock)

\* Mutant: the loop ends after the first slot.
IsDuplicate_Oldest(r) == ring # <<>> /\ ring[1] = KeyOf[r]

\* Mutant: slots are compared up to the slot's own length, without the active
\* flag, so a slot never written matches every key.
IsDuplicate_EmptySlot(r) ==
    Len(ring) < RingSize \/ \E i \in DOMAIN ring : ring[i] = KeyOf[r]

\* Mutant: the ring is never looked at.
IsDuplicate_Never(r) == FALSE

IsDuplicate(r) == \E i \in DOMAIN ring : ring[i] = KeyOf[r]

\* Mutant: the newest message is taken first.
TakeCommand_Newest(r) ==
    /\ task = "idle"
    /\ toDevice # <<>> /\ r = toDevice[Len(toDevice)]
    /\ toDevice' = SubSeq(toDevice, 1, Len(toDevice) - 1)

TakeCommand(r) ==
    /\ task = "idle"
    /\ toDevice # <<>> /\ r = Head(toDevice)
    /\ toDevice' = Tail(toDevice)

PublishReceipt(c, s) ==
    /\ SendReceipt(c, s)
    /\ sent' = sent \union {<<c, s>>}

\* A parse error is logged and the command dropped without a receipt.
DropMalformed(r) ==
    /\ TakeCommand(r)
    /\ ~Parses(r)
    /\ UNCHANGED <<deviceVars, toCloud, online, expired>>

\* Mutant: an expired command is dropped like a malformed one.
ReceiptExpired_Silent(r) ==
    /\ TakeCommand(r)
    /\ Parses(r) /\ \E clock \in Clocks : ParsedExpired(r, clock)
    /\ UNCHANGED <<deviceVars, toCloud, online, expired>>

\* Expiry is checked by the parser, before the ring is looked at.
ReceiptExpired(r) ==
    /\ TakeCommand(r)
    /\ Parses(r)
    /\ PublishReceipt(CommandOf[r], "EXPIRED")
    /\ \E clock \in Clocks :
          /\ ParsedExpired(r, clock)
          /\ misjudged' = IF clock = "off" THEN misjudged \union {CommandOf[r]}
                                           ELSE misjudged
    /\ UNCHANGED <<boardVars, ring, task, current, cursor, verdict, acts,
                   online, expired>>

\* A key of the ring is answered APPLIED without being dispatched.
ReceiptDuplicate(r) ==
    /\ TakeCommand(r)
    /\ Parses(r) /\ IsDuplicate(r) /\ \E clock \in Clocks : ParsedInTime(r, clock)
    /\ PublishReceipt(CommandOf[r], "APPLIED")
    /\ UNCHANGED <<boardVars, ring, task, current, cursor, verdict, acts,
                   misjudged, online, expired>>

\* on_command is called.
Dispatch(r) ==
    /\ TakeCommand(r)
    /\ Parses(r) /\ ~IsDuplicate(r) /\ \E clock \in Clocks : ParsedInTime(r, clock)
    /\ task' = "dispatch"
    /\ current' = r
    /\ acts' = [acts EXCEPT ![KeyOf[r]] = IF @ < MaxActs THEN @ + 1 ELSE @]
    /\ UNCHANGED <<boardVars, ring, cursor, verdict, sent, misjudged, toCloud,
                   online, expired>>

-----------------------------------------------------------------------------
(* on_mqtt_command_received                                                *)

\* The command's action is over; its receipt will say v.
Concludes(v) ==
    /\ task' = "receipt"
    /\ verdict' = v
    /\ cursor' = 0
    /\ UNCHANGED <<ring, current, historyVars, wireVars>>

Handling(a) == task = "dispatch" /\ current # NoRequest /\ ActionOf[current] = a

\* edge_routine_engine_emergency_stop: channel 0 means every channel.
StopRoutines(ch) ==
    running' = {i \in running : ch # 0 /\ RoutineChannel[i] # ch}

\* relay_manager_set_power
SetPower(ch, on) == relay' = [relay EXCEPT ![ch] = on]

\* emergencyStop disarms every routine, then walks the channels in order; each
\* set_power writes flash, so a routine may start or a reboot fall in between.
DisarmAll ==
    /\ Handling("emergencyStop")
    /\ cursor = 0
    /\ StopRoutines(0)
    /\ cursor' = 1
    /\ UNCHANGED <<relay, routines, ring, task, current, verdict,
                   historyVars, wireVars>>

SwitchOffNext ==
    /\ Handling("emergencyStop")
    /\ cursor \in Channels
    /\ SetPower(cursor, FALSE)
    /\ cursor' = cursor + 1
    /\ UNCHANGED <<routines, running, ring, task, current, verdict,
                   historyVars, wireVars>>

EmergencyStopped ==
    /\ Handling("emergencyStop")
    /\ cursor = NumChannels + 1
    /\ Concludes("APPLIED")
    /\ UNCHANGED boardVars

StopRoutine ==
    /\ Handling("stopRoutine")
    /\ StopRoutines(ChannelOf[current])
    /\ Concludes("APPLIED")
    /\ UNCHANGED <<relay, routines>>

\* An upsert resets the runtime state of its slot; a full table refuses a new id.
\* The table in RAM is changed also when its save to flash fails.
UpsertRoutine ==
    LET i == RoutineOf[current] IN
    /\ Handling("upsertRoutine")
    /\ IF /\ i # NoRoutineId
          /\ ChannelOf[current] \in Channels
          /\ i \in routines \/ Cardinality(routines) < RoutineSlots
       THEN /\ routines' = routines \union {i}
            /\ running' = running \ {i}
            /\ \E saved \in BOOLEAN : Concludes(IF saved THEN "APPLIED" ELSE "FAILED")
       ELSE Concludes("FAILED") /\ UNCHANGED <<routines, running>>
    /\ UNCHANGED relay

\* The empty id is found in an empty slot, whose removal changes nothing.
DeleteRoutine ==
    LET i == RoutineOf[current]
        isFound == \/ i \in routines
                   \/ i = NoRoutineId /\ Cardinality(routines) < RoutineSlots
    IN
    /\ Handling("deleteRoutine")
    /\ \E saved \in BOOLEAN : Concludes(IF isFound /\ saved THEN "APPLIED" ELSE "FAILED")
    /\ routines' = routines \ {i}
    /\ running' = running \ {i}
    /\ UNCHANGED relay

SwitchOn ==
    /\ Handling("setPowerOn")
    /\ SetPower(ChannelOf[current], TRUE)
    /\ Concludes("APPLIED")
    /\ UNCHANGED <<routines, running>>

\* Switching off aborts the routines of the channel first.
SwitchOff ==
    /\ Handling("setPowerOff")
    /\ StopRoutines(ChannelOf[current])
    /\ SetPower(ChannelOf[current], FALSE)
    /\ Concludes("APPLIED")
    /\ UNCHANGED routines

OtaUpdate ==
    /\ Handling("otaUpdate")
    /\ Concludes("APPLIED")
    /\ UNCHANGED boardVars

Unsupported ==
    /\ Handling("unsupported")
    /\ Concludes("FAILED")
    /\ UNCHANGED boardVars

Act ==
    \/ DisarmAll \/ SwitchOffNext \/ EmergencyStopped \/ StopRoutine
    \/ UpsertRoutine \/ DeleteRoutine
    \/ SwitchOn \/ SwitchOff \/ OtaUpdate \/ Unsupported

\* The handler publishes the receipt and returns to the event handler...
Receipt ==
    /\ task = "receipt"
    /\ task' = "record"
    /\ PublishReceipt(CommandOf[current], verdict)
    /\ UNCHANGED <<boardVars, ring, current, cursor, verdict, acts, misjudged,
                   toDevice, online, expired>>

\* Mutant: the write index never wraps.
RecordKey_NoWrap ==
    /\ task = "record"
    /\ task' = "idle"
    /\ current' = NoRequest
    /\ ring' = Append(ring, KeyOf[current])
    /\ verdict' = "APPLIED"
    /\ UNCHANGED <<boardVars, cursor, historyVars, wireVars>>

\* ...which then records the key, whatever the verdict was.
RecordKey ==
    /\ task = "record"
    /\ task' = "idle"
    /\ current' = NoRequest
    /\ ring' = LET longer == Append(ring, KeyOf[current])
               IN  IF Len(longer) > RingSize THEN Tail(longer) ELSE longer
    /\ verdict' = "APPLIED"
    /\ UNCHANGED <<boardVars, cursor, historyVars, wireVars>>

-----------------------------------------------------------------------------

\* The 1 s timer starts a routine, or its pulse ends.
RoutineStarts(i) ==
    /\ i \in routines
    /\ running' = running \union {i}
    /\ \E on \in BOOLEAN : SetPower(RoutineChannel[i], on)
    /\ UNCHANGED <<routines, ring, task, current, cursor, verdict,
                   historyVars, wireVars>>

RoutineEnds(i) ==
    /\ i \in running
    /\ running' = running \ {i}
    /\ \E on \in BOOLEAN : SetPower(RoutineChannel[i], on)
    /\ UNCHANGED <<routines, ring, task, current, cursor, verdict,
                   historyVars, wireVars>>

\* RAM is lost; relays and routines come back from flash, which holds what the
\* last save that did not fail put there (EdgeDevice has the saves).
Reboot ==
    /\ relay' \in [Channels -> BOOLEAN]
    /\ routines' \in Tables
    /\ running' = {}
    /\ ring' = <<>>
    /\ task' = "idle"
    /\ current' = NoRequest
    /\ online' = FALSE
    /\ toDevice' = <<>>
    /\ cursor' = 0
    /\ verdict' = "APPLIED"
    /\ UNCHANGED <<historyVars, toCloud, expired>>

MqttTask ==
    \/ \E r \in Requests :
          DropMalformed(r) \/ ReceiptExpired(r) \/ ReceiptDuplicate(r) \/ Dispatch(r)
    \/ Act
    \/ Receipt
    \/ RecordKey

DeviceNext ==
    \/ MqttTask
    \/ \E i \in RoutineIds : RoutineStarts(i) \/ RoutineEnds(i)
    \/ Reboots /\ Reboot

-----------------------------------------------------------------------------
(* The device alone, in front of a cloud that may publish any request at   *)
(* any time and as often as it likes.                                      *)

CloudSends(r) ==
    /\ online
    /\ Len(toDevice) < MaxInFlight
    /\ SendCommand(r)
    /\ UNCHANGED <<deviceVars, toCloud, online, expired>>

AloneInit == WireInit /\ DeviceInit

AloneNext ==
    \/ DeviceNext
    \/ WireNext /\ UNCHANGED deviceVars
    \/ \E r \in Requests : CloudSends(r)

AloneSpec == AloneInit /\ [][AloneNext]_<<deviceVars, wireVars>>

\* No key takes two slots of the ring, so it remembers as many commands as it
\* has slots (redelivery of a remembered command is not dispatched again).
RingDistinct == \A i, j \in DOMAIN ring : ring[i] = ring[j] => i = j

\* Upserts never overfill the routine table, whatever order they come in.
TableBounded == Cardinality(routines) <= RoutineSlots

\* The firmware's two tables, of keys and of routines, are never overfilled nor
\* hold an entry twice, whatever is sent to it and in any order.
TablesHold == RingDistinct /\ TableBounded

\* While the device stays up, however often the broker redelivers a command,
\* its key is dispatched once (the ring has room for every key).
DispatchedOncePerKey == \A k \in Keys : acts[k] <= 1

=============================================================================
