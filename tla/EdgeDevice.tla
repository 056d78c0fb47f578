------------------------------ MODULE EdgeDevice ------------------------------
(***************************************************************************)
(* The switch firmware's relays and scheduled routines, as shared by four  *)
(* FreeRTOS tasks: the 1 s timer of edge_routine_engine.c, the task of the *)
(* wall switches, the local HTTP server and the MQTT client.  Nothing of   *)
(* what they share is locked, and switching a relay writes flash, which    *)
(* takes milliseconds, so the tasks interleave inside every handler.       *)
(*                                                                         *)
(* A handler is a job: the sequence of operations it still has to do on    *)
(* shared state.  Its first operation is one step, which may put further   *)
(* operations before the rest.                                             *)
(*                                                                         *)
(* The routines are the enabled ones triggered by schedule; no code starts *)
(* a routine of the other trigger types.  A routine stands for its slot.   *)
(***************************************************************************)
EXTENDS Naturals, Integers, Sequences, FiniteSets

CONSTANTS
    NumChannels,   \* EH_RELAY_CHANNEL_COUNT
    NumRoutines,   \* slots of s_routines in use
    Configs,       \* what an upsert may say: [channel, power, toggle, duration, minute]
    Minutes,       \* minutes of the week the clock may show
    Width,         \* bits of remaining_sec (32 in the firmware)
    MaxBusy        \* bound: requests in progress besides the timer's

Channels == 1..NumChannels
Routines == 1..NumRoutines

ASSUME EdgeAssumption ==
    /\ NumChannels \in Nat \ {0}
    /\ NumRoutines \in Nat
    /\ Width \in Nat \ {0}
    /\ 2^Width \in Nat \ {0}    \* which follows, but provers know nothing of powers
    /\ MaxBusy \in Nat
    /\ Configs \subseteq [channel : Channels, power : BOOLEAN, toggle : BOOLEAN,
                          duration : 0..2^Width - 1, minute : Minutes]

VARIABLES
    relay,      \* s_relay_states
    pin,        \* the level of the relay's GPIO
    relayNvs,   \* the relay's key in flash
    table,      \* s_routines: the configuration in each slot
    tableNvs,   \* the routine blob in flash
    state,      \* runtime_state
    remaining,  \* remaining_sec
    last,       \* last_triggered_min
    minute,     \* the minute the timer's last tick read from the clock
    synced,     \* what it read of s_is_time_synced
    job,        \* what each task still has to do
    torn,       \* history: relays, or the table, two tasks wrote at once
    unsaved,    \* history: those whose last write to flash failed
    overwritten,\* history: routines rewritten as the timer was marking them RUNNING
    revoked,    \* history: routines a stop was to end, not triggered since
    fired       \* history: routines triggered since a tick saw another minute

relayVars == <<relay, pin, relayNvs>>
tableVars == <<table, tableNvs>>
runtimeVars == <<state, remaining, last>>
clockVars == <<minute, synced>>
historyVars == <<torn, unsaved, overwritten, revoked, fired>>
vars == <<relayVars, tableVars, runtimeVars, clockVars, job, historyVars>>

Empty == [channel |-> 0, power |-> FALSE, toggle |-> FALSE, duration |-> 0, minute |-> 0]
Unarmed == 255
Table == 0    \* among the relays in torn and unsaved: the routine table
Tasks == {"timer", "switch", "lan", "mqtt"}
States == {"IDLE", "RUNNING", "COMPLETED", "STOPPED"}
Tables == [Routines -> Configs \union {Empty}]

Ops ==
    [op : {"stop"}, ch : 0..NumChannels]
    \union [op : {"toggle"}, ch : Channels]
    \union [op : {"set", "pin", "nvs"}, ch : Channels, on : BOOLEAN]
    \union [op : {"save"}]
    \union [op : {"write"}, blob : Tables]
    \union [op : {"count", "dec", "complete", "due", "run", "mark"}, i : Routines]
    \union [op : {"arm"}, i : Routines, sec : 1..2^Width - 1]

On(op, ch) == [op |-> op, ch |-> ch]
Power(op, ch, on) == [op |-> op, ch |-> ch, on |-> on]
Slot(op, i) == [op |-> op, i |-> i]

Init ==
    /\ relay = [ch \in Channels |-> FALSE]
    /\ pin = relay
    /\ relayNvs = relay
    /\ table = [i \in Routines |-> Empty]
    /\ tableNvs = table
    /\ state = [i \in Routines |-> "IDLE"]
    /\ remaining = [i \in Routines |-> 0]
    /\ last = [i \in Routines |-> Unarmed]
    /\ minute \in Minutes
    /\ synced = FALSE
    /\ job = [t \in Tasks |-> <<>>]
    /\ torn = {}
    /\ unsaved = {}
    /\ overwritten = {}
    /\ revoked = {}
    /\ fired = {}

-----------------------------------------------------------------------------
(* Jobs                                                                    *)

\* An idle task begins a handler.
Begin(t, ops) ==
    /\ job[t] = <<>>
    /\ t = "timer" \/ Cardinality({u \in Tasks \ {"timer"} : job[u] # <<>>}) < MaxBusy
    /\ job' = [job EXCEPT ![t] = ops]

Doing(t, op) == job[t] # <<>> /\ Head(job[t]).op = op

\* The task's operation is done; ops come before the rest of its handler.
Then(t, ops) == job' = [job EXCEPT ![t] = ops \o Tail(@)]

Pending(t) == {job[t][n] : n \in DOMAIN job[t]}

\* What is still to be written for a relay, and for the table.
WritesRelay(t, ch) == \E o \in Pending(t) : o.op \in {"pin", "nvs"} /\ o.ch = ch
WritesTable(t) == \E o \in Pending(t) : o.op \in {"save", "write"}

\* The timer is setting the routine's remaining_sec, or its runtime_state.
Marking(i) ==
    /\ job["timer"] # <<>>
    /\ Head(job["timer"]).op \in {"arm", "mark"}
    /\ Head(job["timer"]).i = i

\* The timer has triggered the routine and not marked it RUNNING yet, or has
\* counted it down and not marked it COMPLETED yet.
Starting(i) == Slot("run", i) \in Pending("timer") \/ Marking(i)
Completing(i) == Slot("complete", i) \in Pending("timer")

-----------------------------------------------------------------------------
(* relay_manager.c                                                         *)

\* relay_manager_set_power: nothing to do when the state says so already.
Set(t) ==
    LET ch == Head(job[t]).ch
        on == Head(job[t]).on
    IN
    /\ Doing(t, "set")
    /\ IF relay[ch] = on
       THEN Then(t, <<>>) /\ UNCHANGED <<relay, torn>>
       ELSE /\ relay' = [relay EXCEPT ![ch] = on]
            /\ Then(t, <<Power("pin", ch, on), Power("nvs", ch, on)>>)
            /\ torn' = IF \E u \in Tasks \ {t} : WritesRelay(u, ch)
                       THEN torn \union {ch} ELSE torn
    /\ UNCHANGED <<pin, relayNvs, tableVars, runtimeVars, clockVars, unsaved, overwritten,
                   revoked, fired>>

WritePin(t) ==
    /\ Doing(t, "pin")
    /\ pin' = [pin EXCEPT ![Head(job[t]).ch] = Head(job[t]).on]
    /\ Then(t, <<>>)
    /\ UNCHANGED <<relay, relayNvs, tableVars, runtimeVars, clockVars, historyVars>>

\* save_channel_state_nvs: a failure is logged, and forgotten.
WriteNvs(t) ==
    LET ch == Head(job[t]).ch
        on == Head(job[t]).on
    IN
    /\ Doing(t, "nvs")
    /\ \/ /\ relayNvs' = [relayNvs EXCEPT ![ch] = on]
          /\ unsaved' = unsaved \ {ch}
       \/ /\ UNCHANGED relayNvs
          /\ unsaved' = unsaved \union {ch}
    /\ Then(t, <<>>)
    /\ UNCHANGED <<relay, pin, tableVars, runtimeVars, clockVars, torn, overwritten,
                   revoked, fired>>

\* relay_manager_toggle_power reads the state and calls set_power.
Toggle(t) ==
    LET ch == Head(job[t]).ch IN
    /\ Doing(t, "toggle")
    /\ Then(t, <<Power("set", ch, ~relay[ch])>>)
    /\ UNCHANGED <<relayVars, tableVars, runtimeVars, clockVars, historyVars>>

-----------------------------------------------------------------------------
(* edge_routine_engine.c                                                   *)

\* edge_routine_engine_emergency_stop, all in RAM; channel 0 is every channel.
Stop(t) ==
    LET ch == Head(job[t]).ch
        hit == {i \in Routines : table[i] # Empty
                                   /\ (ch = 0 \/ table[i].channel = ch)}
        ended == {i \in hit : state[i] = "RUNNING"}
    IN
    /\ Doing(t, "stop")
    /\ state' = [i \in Routines |-> IF i \in ended THEN "STOPPED" ELSE state[i]]
    /\ remaining' = [i \in Routines |-> IF i \in ended THEN 0 ELSE remaining[i]]
    /\ revoked' = revoked \union ended \union {i \in hit : Starting(i)}
    /\ Then(t, <<>>)
    /\ UNCHANGED <<relayVars, tableVars, last, clockVars, torn, unsaved, overwritten,
                   fired>>

\* routine_tick_timer_cb reads the clock, which SNTP or a LAN client may have
\* set to any time, then looks at every slot in turn.
Tick ==
    /\ Begin("timer", [i \in Routines |-> Slot("count", i)])
    /\ minute' \in Minutes
    /\ synced' \in {synced, TRUE}
    /\ UNCHANGED <<relayVars, tableVars, runtimeVars, historyVars>>

\* Mutant: a routine in its last second is not counted down.
Count_OffByOne ==
    LET i == Head(job["timer"]).i IN
    /\ Doing("timer", "count")
    /\ Then("timer",
            IF table[i] = Empty THEN <<>>
            ELSE IF state[i] = "RUNNING" /\ remaining[i] > 1
                 THEN <<Slot("dec", i), Slot("due", i)>>
                 ELSE <<Slot("due", i)>>)
    /\ UNCHANGED <<relayVars, tableVars, runtimeVars, clockVars, historyVars>>

\* The test before the decrement; another task may come between the two.
Count ==
    LET i == Head(job["timer"]).i IN
    /\ Doing("timer", "count")
    /\ Then("timer",
            IF table[i] = Empty THEN <<>>
            ELSE IF state[i] = "RUNNING" /\ remaining[i] > 0
                 THEN <<Slot("dec", i), Slot("due", i)>>
                 ELSE <<Slot("due", i)>>)
    /\ UNCHANGED <<relayVars, tableVars, runtimeVars, clockVars, historyVars>>

\* The relay operation a routine's start (or, reversed, its end) asks for.
Actuate(i, reversed) ==
    IF table[i] = Empty THEN <<>>
    ELSE IF table[i].toggle THEN <<On("toggle", table[i].channel)>>
    ELSE <<Power("set", table[i].channel, table[i].power # reversed)>>

\* Mutant: the counter is signed.
Dec_Signed ==
    LET i == Head(job["timer"]).i IN
    /\ Doing("timer", "dec")
    /\ remaining' = [remaining EXCEPT ![i] = @ - 1]
    /\ Then("timer", IF remaining'[i] = 0
                     THEN Append(Actuate(i, TRUE), Slot("complete", i))
                     ELSE <<>>)
    /\ UNCHANGED <<relayVars, tableVars, state, last, clockVars, historyVars>>

\* remaining_sec is unsigned: a stop since the test makes it wrap.
Dec ==
    LET i == Head(job["timer"]).i IN
    /\ Doing("timer", "dec")
    /\ remaining' = [remaining EXCEPT ![i] = (@ - 1) % 2^Width]
    /\ Then("timer", IF remaining'[i] = 0
                     THEN Append(Actuate(i, TRUE), Slot("complete", i))
                     ELSE <<>>)
    /\ UNCHANGED <<relayVars, tableVars, state, last, clockVars, historyVars>>

Complete ==
    LET i == Head(job["timer"]).i IN
    /\ Doing("timer", "complete")
    /\ state' = [state EXCEPT ![i] = "COMPLETED"]
    /\ Then("timer", <<>>)
    /\ UNCHANGED <<relayVars, tableVars, remaining, last, clockVars, historyVars>>

\* The schedule's minute has come, and it was not triggered in it yet.
IsDue(i) ==
    /\ minute = table[i].minute
    /\ last[i] # minute
    /\ state[i] # "RUNNING"

\* start_routine looks the id up and switches the relay; Run follows.
Trigger(i) ==
    /\ IsDue(i)
    /\ last' = [last EXCEPT ![i] = minute]
    /\ fired' = fired \union {i}
    /\ revoked' = revoked \ {i}
    /\ overwritten' = overwritten \ {i}
    /\ Then("timer", Append(Actuate(i, FALSE), Slot("run", i)))
    /\ UNCHANGED state

\* Mutant: the routine is re-armed as soon as it is over.
Disarm_Early(i) ==
    /\ ~IsDue(i)
    /\ last' = [last EXCEPT ![i] = IF @ = table[i].minute /\ state[i] # "RUNNING"
                                   THEN Unarmed ELSE @]
    /\ state' = [state EXCEPT ![i] = IF @ \in {"COMPLETED", "STOPPED"} THEN "IDLE" ELSE @]
    /\ fired' = IF minute # table[i].minute THEN fired \ {i} ELSE fired
    /\ Then("timer", <<>>)
    /\ UNCHANGED <<revoked, overwritten>>

\* In any other minute the routine is armed again for the next time.
Disarm(i) ==
    /\ ~IsDue(i)
    /\ IF minute = table[i].minute
       THEN UNCHANGED <<last, state, fired>>
       ELSE /\ last' = [last EXCEPT ![i] = IF @ = table[i].minute THEN Unarmed ELSE @]
            /\ state' = [state EXCEPT
                  ![i] = IF @ \in {"COMPLETED", "STOPPED"} THEN "IDLE" ELSE @]
            /\ fired' = fired \ {i}
    /\ Then("timer", <<>>)
    /\ UNCHANGED <<revoked, overwritten>>

\* Schedules are held until the clock has been set.
Due ==
    LET i == Head(job["timer"]).i IN
    /\ Doing("timer", "due")
    /\ IF synced /\ table[i] # Empty
       THEN Trigger(i) \/ Disarm(i)
       ELSE Then("timer", <<>>) /\ UNCHANGED <<last, state, fired, revoked, overwritten>>
    /\ UNCHANGED <<relayVars, tableVars, remaining, clockVars, torn, unsaved>>

\* Mutant: the routine's time is not set.
Arm_Unset ==
    /\ Doing("timer", "arm")
    /\ Then("timer", <<Slot("mark", Head(job["timer"]).i)>>)
    /\ UNCHANGED <<relayVars, tableVars, runtimeVars, clockVars, historyVars>>

\* The second half of start_routine, after the flash write of the relay: what it
\* reads of the duration is written to remaining_sec, and then the state, and
\* another task may come in between.
Run ==
    LET i == Head(job["timer"]).i
        duration == IF table[i] = Empty THEN 0 ELSE table[i].duration
    IN
    /\ Doing("timer", "run")
    /\ IF duration > 0
       THEN /\ Then("timer", <<[op |-> "arm", i |-> i, sec |-> duration]>>)
            /\ UNCHANGED state
       ELSE /\ Then("timer", <<>>)
            /\ state' = [state EXCEPT ![i] = "COMPLETED"]
    /\ UNCHANGED <<relayVars, tableVars, remaining, last, clockVars, historyVars>>

Arm ==
    LET i == Head(job["timer"]).i IN
    /\ Doing("timer", "arm")
    /\ remaining' = [remaining EXCEPT ![i] = Head(job["timer"]).sec]
    /\ Then("timer", <<Slot("mark", i)>>)
    /\ UNCHANGED <<relayVars, tableVars, state, last, clockVars, historyVars>>

Mark ==
    LET i == Head(job["timer"]).i IN
    /\ Doing("timer", "mark")
    /\ state' = [state EXCEPT ![i] = "RUNNING"]
    /\ Then("timer", <<>>)
    /\ UNCHANGED <<relayVars, tableVars, remaining, last, clockVars, historyVars>>

\* save_table_to_nvs_wear_leveled copies the table, then writes the copy.
Save(t) ==
    /\ Doing(t, "save")
    /\ Then(t, <<[op |-> "write", blob |-> table]>>)
    /\ UNCHANGED <<relayVars, tableVars, runtimeVars, clockVars, historyVars>>

\* A failed write is told to whoever asked, and the table in RAM stays.
WriteTable(t) ==
    /\ Doing(t, "write")
    /\ \/ /\ tableNvs' = Head(job[t]).blob
          /\ unsaved' = unsaved \ {Table}
       \/ /\ UNCHANGED tableNvs
          /\ unsaved' = unsaved \union {Table}
    /\ Then(t, <<>>)
    /\ UNCHANGED <<relayVars, table, runtimeVars, clockVars, torn, overwritten, revoked,
                   fired>>

\* upsert_routine and delete_routine: the slot is rewritten, its runtime reset,
\* and the table saved.
Rewrite(t, i, slot, ops) ==
    /\ Begin(t, ops)
    /\ table' = [table EXCEPT ![i] = slot]
    /\ state' = [state EXCEPT ![i] = "IDLE"]
    /\ remaining' = [remaining EXCEPT ![i] = 0]
    /\ last' = [last EXCEPT ![i] = Unarmed]
    /\ torn' = IF \E u \in Tasks \ {t} : WritesTable(u)
               THEN torn \union {Table} ELSE torn
    /\ overwritten' = IF Marking(i) THEN overwritten \union {i} ELSE overwritten \ {i}
    /\ revoked' = revoked \ {i}
    /\ fired' = fired \ {i}
    /\ UNCHANGED <<relayVars, tableNvs, clockVars, unsaved>>

-----------------------------------------------------------------------------
(* What the tasks are asked to do                                          *)

Unchanged ==
    UNCHANGED <<relayVars, tableVars, runtimeVars, clockVars, historyVars>>

\* on_physical_switch_toggled
Press(ch) ==
    /\ Begin("switch", <<On("stop", ch), On("toggle", ch)>>)
    /\ Unchanged

\* POST /api/v1/control, and setPower over MQTT: off disarms, on does not.
Control(t, ch, on) ==
    /\ Begin(t, IF on THEN <<Power("set", ch, on)>>
                      ELSE <<On("stop", ch), Power("set", ch, on)>>)
    /\ Unchanged

ControlToggle(ch) == Begin("lan", <<On("toggle", ch)>>) /\ Unchanged

\* POST /api/v1/routines/stop, and stopRoutine over MQTT.
StopRoutines(t, ch) ==
    /\ ch = 0 => t = "lan"
    /\ Begin(t, <<On("stop", ch)>>)
    /\ Unchanged

\* emergencyStop over MQTT
EmergencyStop ==
    /\ Begin("mqtt", <<On("stop", 0)>> \o [ch \in Channels |-> Power("set", ch, FALSE)])
    /\ Unchanged

\* An upsert over MQTT cannot make a toggle routine.
Upsert(t, i, c) ==
    /\ t = "mqtt" => ~c.toggle
    /\ Rewrite(t, i, c, <<[op |-> "save"]>>)

\* Mutant: the table is not saved after a delete.
Delete_Unsaved(t, i) == table[i] # Empty /\ Rewrite(t, i, Empty, <<>>)

Delete(t, i) == table[i] # Empty /\ Rewrite(t, i, Empty, <<[op |-> "save"]>>)

\* RAM is lost; relay_manager_init and load_table_from_nvs read flash.
Reboot ==
    /\ relay' = relayNvs
    /\ pin' = relayNvs
    /\ table' = tableNvs
    /\ state' = [i \in Routines |-> "IDLE"]
    /\ remaining' = [i \in Routines |-> 0]
    /\ last' = [i \in Routines |-> Unarmed]
    /\ synced' = FALSE
    /\ job' = [t \in Tasks |-> <<>>]
    /\ torn' = {}
    /\ unsaved' = {}
    /\ overwritten' = {}
    /\ revoked' = {}
    /\ fired' = {}
    /\ UNCHANGED <<relayNvs, tableNvs, minute>>

Step(t) ==
    \/ Set(t) \/ WritePin(t) \/ WriteNvs(t) \/ Toggle(t)
    \/ Stop(t)
    \/ Save(t) \/ WriteTable(t)
    \/ t = "timer" /\ (Count \/ Dec \/ Complete \/ Due \/ Run \/ Arm \/ Mark)

Asked ==
    \/ \E ch \in Channels : Press(ch) \/ ControlToggle(ch)
    \/ \E t \in {"lan", "mqtt"} :
          \/ \E ch \in Channels, on \in BOOLEAN : Control(t, ch, on)
          \/ \E ch \in 0..NumChannels : StopRoutines(t, ch)
          \/ \E i \in Routines : Delete(t, i) \/ \E c \in Configs : Upsert(t, i, c)
    \/ EmergencyStop

Next ==
    \/ Tick
    \/ \E t \in Tasks : Step(t)
    \/ Asked
    \/ Reboot

\* The timer fires every second and its callback runs to its end.
Spec ==
    /\ Init /\ [][Next]_vars
    /\ WF_vars(Tick) /\ WF_vars(Step("timer"))

-----------------------------------------------------------------------------

EdgeTypeOK ==
    /\ relay \in [Channels -> BOOLEAN]
    /\ pin \in [Channels -> BOOLEAN]
    /\ relayNvs \in [Channels -> BOOLEAN]
    /\ table \in Tables /\ tableNvs \in Tables
    /\ state \in [Routines -> States]
    /\ remaining \in [Routines -> 0..2^Width - 1]
    /\ last \in [Routines -> Minutes \union {Unarmed}]
    /\ minute \in Minutes /\ synced \in BOOLEAN
    /\ job \in [Tasks -> Seq(Ops)]
    /\ torn \subseteq Channels \union {Table}
    /\ unsaved \subseteq Channels \union {Table}
    /\ overwritten \subseteq Routines
    /\ revoked \subseteq Routines /\ fired \subseteq Routines

\* When no write of it is pending, a relay's pin and its key in flash say what
\* s_relay_states says, and the blob in flash what the table says, so a reboot
\* changes nothing.  Two tasks that wrote the same thing at once spoil it, and so
\* does a write to flash that failed, until the next one: it is never repeated,
\* and set_power to the state the relay has writes nothing.
StoresAgree ==
    /\ \A ch \in Channels \ torn :
          (\A t \in Tasks : ~WritesRelay(t, ch))
             => pin[ch] = relay[ch] /\ (ch \in unsaved \/ relayNvs[ch] = relay[ch])
    /\ (Table \notin torn \union unsaved /\ \A t \in Tasks : ~WritesTable(t))
          => tableNvs = table

\* A RUNNING routine has time left, and no more than its duration, unless the
\* timer is ending it: stops, the wrap of the counter, and upserts but one never
\* leave one that will not end in time.  The exception is an upsert, or delete,
\* between the last two assignments of start_routine: the slot is then RUNNING
\* with the time of the routine it held, or with none.
RunningCounts ==
    \A i \in Routines \ overwritten : state[i] = "RUNNING" =>
        Completing(i) \/ remaining[i] \in 1..table[i].duration

\* A routine is triggered once in its minute, unless it is upserted or the
\* device reboots in between.
FiresOncePerMinute ==
    [][\A i \in Routines : (last'[i] # last[i] /\ last'[i] # Unarmed)
          => i \notin fired]_vars

\* What is started ends: a RUNNING routine does not stay RUNNING, but for one
\* that was rewritten while it was being marked so.
PulseEnds ==
    \A i \in Routines :
        (state[i] = "RUNNING" /\ i \notin overwritten)
            ~> (state[i] # "RUNNING" \/ i \in overwritten)

\* "Immediately disarms and stops running routines": what a stop, or a press of
\* the wall switch, ends stays ended until it is triggered again.
StopDisarms == \A i \in revoked : state[i] # "RUNNING"
=============================================================================
