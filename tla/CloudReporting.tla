---------------------------- MODULE CloudReporting ----------------------------
(***************************************************************************)
(* How a device tells the cloud the state of its relays: main.c and the    *)
(* MQTT client under it.  A change arms a settling timer; when it expires, *)
(* the relays are compared with what was last published by it, and         *)
(* published if they differ.  The heartbeat and a new connection publish   *)
(* without a comparison.  The three are tasks of their own and take no     *)
(* lock.  Who switches a relay is left open, and so is what a backend      *)
(* makes of a report (module ReportedState).                               *)
(***************************************************************************)
EXTENDS Naturals, Sequences

CONSTANTS
  Channels,   \* relays of the device
  MaxOutbox   \* bound: messages the MQTT client holds

ASSUME ReportingAssumption == MaxOutbox \in Nat \ {0}

VARIABLES
  lit,         \* s_relay_states: the relays that are on
  changing,    \* relays whose new state is set and not yet called back
  armed,       \* the settling timer runs
  lastSent,    \* s_last_cloud_published_state; {} until s_has_last_..., then {lit}
  online,      \* the client is connected
  task,        \* each task: what it has still to read, and what it has read
  outbox,      \* the client's messages, in order
  cloud,       \* the last state that reached the broker, {} if none has
  disturbed,   \* history: the tasks whose reading overlaps a change or another's
  doubt        \* history: the last one published was disturbed

reportVars == <<lit, changing, armed, lastSent, online, task, outbox, cloud, disturbed, doubt>>

Tasks == {"settling", "heartbeat", "connection"}
TaskMemo(pc, todo, seen) == [pc |-> pc, todo |-> todo, seen |-> seen]
TaskIdle == TaskMemo("idle", {}, {})

ReportTypeOK ==
  /\ lit \subseteq Channels /\ changing \subseteq Channels
  /\ armed \in BOOLEAN /\ online \in BOOLEAN /\ doubt \in BOOLEAN
  /\ lastSent \subseteq SUBSET Channels /\ cloud \subseteq SUBSET Channels
  /\ task \in [Tasks -> [pc : {"idle", "read", "publish"}, todo : SUBSET Channels,
                         seen : SUBSET Channels]]
  /\ outbox \in Seq(SUBSET Channels) /\ Len(outbox) <= MaxOutbox
  /\ disturbed \subseteq Tasks

ReportInit ==
  /\ lit \in SUBSET Channels
  /\ changing = {} /\ armed = FALSE /\ lastSent = {} /\ online = FALSE
  /\ task = [k \in Tasks |-> TaskIdle]
  /\ outbox = <<>> /\ cloud = {}
  /\ disturbed = {} /\ doubt = FALSE

Busy == {k \in Tasks : task[k].pc # "idle"}
Unsettled == armed \/ changing # {}

TaskGoto(k, from, m) == task[k].pc = from /\ task' = [task EXCEPT ![k] = m]

(* relay_manager_set_power: the state first, the callback after the flash. *)
SwitchRelay(ch) ==
  /\ ch \notin changing
  /\ lit' = IF ch \in lit THEN lit \ {ch} ELSE lit \cup {ch}
  /\ changing' = changing \cup {ch}
  /\ disturbed' = Busy
  /\ UNCHANGED <<armed, lastSent, online, task, outbox, cloud, doubt>>

(* on_relay_state_changed arms the timer afresh. *)
ArmTimer(ch) ==
  /\ ch \in changing
  /\ changing' = changing \ {ch} /\ armed' = TRUE
  /\ UNCHANGED <<lit, lastSent, online, task, outbox, cloud, disturbed, doubt>>

(* A task begins to read the relays. *)
BeginReading(k) ==
  /\ TaskGoto(k, "idle", TaskMemo("read", Channels, {}))
  /\ disturbed' = IF Busy # {} THEN Busy \cup {k}
                  ELSE IF changing # {} \/ armed' THEN {k} ELSE {}

TimerExpires ==
  /\ armed /\ armed' = FALSE
  /\ BeginReading("settling")
  /\ UNCHANGED <<lit, changing, lastSent, online, outbox, cloud, doubt>>

Heartbeat ==
  /\ online
  /\ UNCHANGED <<lit, changing, armed, lastSent, online, outbox, cloud, doubt>>
  /\ BeginReading("heartbeat")

\* Mutant: nothing is published on a connection.
Connected_Silent ==
  /\ ~online /\ online' = TRUE
  /\ UNCHANGED <<lit, changing, armed, lastSent, task, outbox, cloud, disturbed, doubt>>

(* on_mqtt_connected *)
Connected ==
  /\ ~online /\ online' = TRUE
  /\ UNCHANGED <<lit, changing, armed, lastSent, outbox, cloud, doubt>>
  /\ BeginReading("connection")

(* The relays are read one by one. *)
ReadRelay(k) ==
  \E ch \in task[k].todo :
    /\ TaskGoto(k, "read", [task[k] EXCEPT !.todo = @ \ {ch}, !.seen = @ \cup ({ch} \cap lit),
                              !.pc = IF task[k].todo = {ch} THEN "publish" ELSE "read"])
    /\ UNCHANGED <<lit, changing, armed, lastSent, online, outbox, cloud, disturbed, doubt>>

(* What a finished reading says of the cloud's copy: it is as good as the  *)
(* reading, if it is published.                                            *)
Finish(k, publishes) ==
  /\ TaskGoto(k, "publish", TaskIdle)
  /\ disturbed' = disturbed \ {k}
  /\ IF publishes
     THEN /\ Len(outbox) < MaxOutbox
          /\ outbox' = Append(outbox, task[k].seen)
          /\ doubt' = (k \in disturbed)
     ELSE outbox' = outbox /\ doubt' = doubt
  /\ UNCHANGED <<lit, changing, armed, online, cloud>>

(* on_cloud_settled_timer_expired: what is compared is noted as published  *)
(* before the client is asked whether it is connected.                     *)
Settle ==
  LET changed == lastSent # {task["settling"].seen}
  IN  /\ Finish("settling", changed /\ online)
      /\ lastSent' = {task["settling"].seen}

PublishState(k) ==
  /\ k # "settling"
  /\ Finish(k, TRUE)
  /\ UNCHANGED lastSent

(* QoS 1: a message whose acknowledgement is lost is sent again. *)
Deliver ==
  /\ online /\ outbox # <<>>
  /\ cloud' = {Head(outbox)}
  /\ outbox' \in {outbox, Tail(outbox)}
  /\ UNCHANGED <<lit, changing, armed, lastSent, online, task, disturbed, doubt>>

(* What the client holds then is sent with the next connection, or expires.*)
Disconnected ==
  /\ online /\ online' = FALSE
  /\ outbox' \in {outbox, <<>>}
  /\ UNCHANGED <<lit, changing, armed, lastSent, task, cloud, disturbed, doubt>>

(* The relays are restored from flash, whatever of a change was saved.     *)
DeviceReboots ==
  /\ \E unsaved \in SUBSET changing : lit' = (lit \ unsaved) \cup (unsaved \ lit)
  /\ changing' = {} /\ armed' = FALSE /\ lastSent' = {} /\ online' = FALSE
  /\ task' = [k \in Tasks |-> TaskIdle] /\ outbox' = <<>>
  /\ disturbed' = {} /\ doubt' = FALSE
  /\ UNCHANGED cloud

ReportNext ==
  \/ \E ch \in Channels : SwitchRelay(ch) \/ ArmTimer(ch)
  \/ TimerExpires \/ Heartbeat \/ Connected
  \/ \E k \in Tasks : ReadRelay(k) \/ PublishState(k)
  \/ Settle \/ Deliver \/ Disconnected \/ DeviceReboots

ReportSpec == ReportInit /\ [][ReportNext]_reportVars

-----------------------------------------------------------------------------
(* When the device is connected and nothing is under way, the broker has   *)
(* the state of the relays, whatever connections were lost and however     *)
(* often a relay was switched; unless the last report was read while they  *)
(* were being switched or another task was reading.  One that was, and     *)
(* whose change was undone before the timer expired, stays until the next  *)
(* heartbeat: the timer compares with its own last report.                 *)
CloudIsCurrent ==
  (online /\ Busy = {} /\ ~Unsettled /\ outbox = <<>> /\ ~doubt) => cloud = {lit}
=============================================================================
