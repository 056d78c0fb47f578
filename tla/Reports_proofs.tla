---------------------------- MODULE Reports_proofs ----------------------------
(***************************************************************************)
(* Proofs about CloudReporting, for every set of relays and length of the  *)
(* client's queue, and about ReportedState and EnergyTelemetry, for every  *)
(* set of callers.                                                         *)
(*                                                                         *)
(* The device's three tasks take no lock.  The invariant says what each of *)
(* them may rely on: a reading that nothing disturbed is the relays, the   *)
(* settling timer runs again after every change, and the last message on   *)
(* its way is what the timer compares with.  The energy's says how much    *)
(* the aggregate and the handlers at work on it may amount to: no more     *)
(* than had been consumed when the reading held was taken, and just its    *)
(* total when nothing overlapped or restarted.                             *)
(***************************************************************************)
EXTENDS CloudReporting, ReportedState, EnergyTelemetry, Integers, SequenceTheorems, TLAPS

\* The last state published, whether the broker has it already or not.
Latest == IF outbox = <<>> THEN cloud ELSE {outbox[Len(outbox)]}

\* Who is done reading has nothing left to read.
ReadAll == \A k \in Tasks : task[k].pc = "publish" => task[k].todo = {}

\* An undisturbed reading is of the relays as they are, and the only one.
ReadingIsTrue ==
    \A k \in Busy \ disturbed :
      task[k].seen = lit \ task[k].todo /\ Busy = {k} /\ ~Unsettled

\* What the timer compares with is the relays as they are, or it will run again.
SettlingIsTrue ==
    ~Unsettled => IF task["settling"].pc = "idle" THEN lastSent \subseteq {lit}
                  ELSE task["settling"].seen = lit \ task["settling"].todo

\* What is on its way to the broker is what the timer compares with.
PublishedIsTrue ==
    (online /\ task["connection"].pc = "idle" /\ ~doubt) =>
      /\ lastSent \subseteq Latest
      /\ (~Unsettled /\ task["settling"].pc = "idle") => Latest = {lit}

CloudInv ==
    /\ ReportTypeOK /\ (\A x, y \in cloud : x = y)
    /\ ReadAll /\ ReadingIsTrue /\ SettlingIsTrue /\ PublishedIsTrue

USE ReportingAssumption DEF ReportingAssumption

-----------------------------------------------------------------------------
(* The device's reports                                                    *)

TaskMemos == [pc : {"idle", "read", "publish"}, todo : SUBSET Channels, seen : SUBSET Channels]

LEMMA TaskIdleTyped == TaskIdle \in TaskMemos /\ TaskIdle.pc = "idle"
  BY DEF TaskIdle, TaskMemo, TaskMemos

LEMMA TaskGotoTyped ==
  ASSUME ReportTypeOK, NEW k \in Tasks, NEW p, NEW m \in TaskMemos, TaskGoto(k, p, m)
  PROVE  /\ task' \in [Tasks -> TaskMemos] /\ task'[k] = m /\ task[k].pc = p
         /\ \A j \in Tasks \ {k} : task'[j] = task[j]
  BY DEF ReportTypeOK, TaskGoto, TaskMemos

LEMMA CloudInit == ReportInit => CloudInv
<1> SUFFICES ASSUME ReportInit
             PROVE  CloudInv
  OBVIOUS
<1>1. \A k \in Tasks : task[k] = TaskIdle
  BY DEF ReportInit
<1>2. ReportTypeOK
  <2>1. task \in [Tasks -> TaskMemos]
    BY TaskIdleTyped DEF ReportInit
  <2>2. outbox \in Seq(SUBSET Channels) /\ Len(outbox) <= MaxOutbox
    BY DEF ReportInit
  <2> QED
    BY <2>1, <2>2 DEF ReportInit, ReportTypeOK, TaskMemos
<1>3. Busy = {}
  BY <1>1, TaskIdleTyped DEF Busy
<1>4. ReadAll /\ ReadingIsTrue
  BY <1>1, <1>3, TaskIdleTyped DEF ReadAll, ReadingIsTrue
<1>5. SettlingIsTrue /\ PublishedIsTrue
  BY <1>1, TaskIdleTyped DEF ReportInit, SettlingIsTrue, PublishedIsTrue, Tasks
<1> QED
  BY <1>2, <1>4, <1>5 DEF ReportInit, CloudInv

LEMMA SwitchKeeps ==
  ASSUME CloudInv, NEW ch \in Channels, SwitchRelay(ch) \/ ArmTimer(ch)
  PROVE  CloudInv'
<1>1. /\ lit' \subseteq Channels /\ changing' \subseteq Channels /\ armed' \in BOOLEAN
      /\ UNCHANGED <<lastSent, online, task, outbox, cloud, doubt>> /\ Unsettled'
      /\ Unsettled \/ disturbed' = Busy
      /\ disturbed' \in {disturbed, Busy} /\ (disturbed' = Busy \/ Unsettled)
  BY DEF SwitchRelay, ArmTimer, CloudInv, ReportTypeOK, Unsettled
<1>2. ReportTypeOK'
  BY <1>1 DEF CloudInv, ReportTypeOK, Busy
<1>3. Busy' = Busy /\ Latest' = Latest
  BY <1>1 DEF Busy, Latest
<1>4. ReadAll' /\ SettlingIsTrue'
  BY <1>1 DEF CloudInv, ReadAll, SettlingIsTrue
<1>5. Busy \ disturbed' = {}
  BY <1>1 DEF CloudInv, ReadingIsTrue
<1>6. ReadingIsTrue'
  BY <1>3, <1>5 DEF ReadingIsTrue
<1>7. PublishedIsTrue'
  BY <1>1, <1>3 DEF CloudInv, PublishedIsTrue
<1> QED
  BY <1>1, <1>2, <1>4, <1>6, <1>7 DEF CloudInv

\* A task begins to read; the timer's is the only one that settles anything.
LEMMA BeginKeeps ==
  ASSUME CloudInv, NEW k \in Tasks, BeginReading(k),
         UNCHANGED <<lit, changing, lastSent, outbox, cloud, doubt>>,
         armed' \in BOOLEAN, online' \in BOOLEAN,
         armed' = armed \/ k = "settling",
         k = "settling" => armed /\ armed' = FALSE,
         online' = online \/ k = "connection"
  PROVE  CloudInv'
<1> DEFINE m == TaskMemo("read", Channels, {})
<1>1. m \in TaskMemos /\ m.pc = "read" /\ m.todo = Channels /\ m.seen = {}
  BY DEF TaskMemo, TaskMemos
<1>2. /\ task' \in [Tasks -> TaskMemos] /\ task'[k] = m /\ task[k].pc = "idle"
      /\ \A j \in Tasks \ {k} : task'[j] = task[j]
  BY <1>1, TaskGotoTyped DEF BeginReading, CloudInv
<1> HIDE DEF m
<1>3. Busy' = Busy \cup {k} /\ k \notin Busy /\ Busy \subseteq Tasks
  BY <1>1, <1>2 DEF Busy
<1>4. /\ disturbed' \subseteq Tasks
      /\ Busy # {} => Busy' \subseteq disturbed'
      /\ (changing # {} \/ armed') => Busy' \subseteq disturbed'
  BY <1>3 DEF BeginReading
<1>5. ReportTypeOK'
  BY <1>2, <1>4 DEF CloudInv, ReportTypeOK, TaskMemos
<1>6. ReadAll'
  BY <1>1, <1>2 DEF CloudInv, ReadAll
<1>7. lit \subseteq Channels
  BY DEF CloudInv, ReportTypeOK
<1>8. ReadingIsTrue'
  <2> SUFFICES ASSUME NEW j \in Busy' \ disturbed'
               PROVE  task'[j].seen = lit \ task'[j].todo /\ Busy' = {j} /\ ~Unsettled'
    BY DEF ReadingIsTrue
  <2>1. Busy = {} /\ j = k /\ changing = {} /\ ~armed'
    BY <1>3, <1>4
  <2> QED
    BY <1>1, <1>2, <1>3, <1>7, <2>1 DEF Unsettled
<1>9. SettlingIsTrue'
  <2>1. CASE k = "settling"
    BY <1>1, <1>2, <1>7, <2>1 DEF SettlingIsTrue
  <2>2. CASE k # "settling"
    <3>1. task'["settling"] = task["settling"] /\ Unsettled' = Unsettled
      BY <1>2, <2>2 DEF Tasks, Unsettled
    <3> QED
      BY <3>1 DEF CloudInv, SettlingIsTrue
  <2> QED
    BY <2>1, <2>2
<1>10. PublishedIsTrue'
  <2>1. Latest' = Latest
    BY DEF Latest
  <2>2. CASE k = "connection"
    BY <1>1, <1>2, <2>2 DEF PublishedIsTrue
  <2>3. CASE k = "settling"
    <3>1. task'["connection"] = task["connection"] /\ task'["settling"].pc = "read"
      BY <1>1, <1>2, <2>3 DEF Tasks
    <3> QED
      BY <2>1, <2>3, <3>1 DEF CloudInv, PublishedIsTrue
  <2>4. CASE k = "heartbeat"
    <3>1. /\ task'["connection"] = task["connection"] /\ task'["settling"] = task["settling"]
          /\ Unsettled' = Unsettled
      BY <1>2, <2>4 DEF Tasks, Unsettled
    <3> QED
      BY <2>1, <2>4, <3>1 DEF CloudInv, PublishedIsTrue
  <2> QED
    BY <2>2, <2>3, <2>4 DEF Tasks
<1> QED
  BY <1>5, <1>6, <1>8, <1>9, <1>10 DEF CloudInv

LEMMA ReadKeeps ==
  ASSUME CloudInv, NEW k \in Tasks, ReadRelay(k)
  PROVE  CloudInv'
<1>1. PICK ch \in task[k].todo :
        TaskGoto(k, "read", [task[k] EXCEPT !.todo = @ \ {ch}, !.seen = @ \cup ({ch} \cap lit),
                               !.pc = IF task[k].todo = {ch} THEN "publish" ELSE "read"])
  BY DEF ReadRelay
<1>2. UNCHANGED <<lit, changing, armed, lastSent, online, outbox, cloud, disturbed, doubt>>
  BY DEF ReadRelay
<1> DEFINE m == [task[k] EXCEPT !.todo = @ \ {ch}, !.seen = @ \cup ({ch} \cap lit),
                   !.pc = IF task[k].todo = {ch} THEN "publish" ELSE "read"]
<1>3. /\ m \in TaskMemos /\ m.todo = task[k].todo \ {ch}
      /\ m.seen = task[k].seen \cup ({ch} \cap lit)
      /\ m.pc = IF task[k].todo = {ch} THEN "publish" ELSE "read"
  BY DEF CloudInv, ReportTypeOK, TaskMemos
<1>4. /\ task' \in [Tasks -> TaskMemos] /\ task'[k] = m /\ task[k].pc = "read"
      /\ \A j \in Tasks \ {k} : task'[j] = task[j]
  BY <1>1, <1>3, TaskGotoTyped DEF CloudInv
<1> HIDE DEF m
<1>5. ReportTypeOK'
  BY <1>2, <1>4 DEF CloudInv, ReportTypeOK, TaskMemos
<1>6. Busy' = Busy
  BY <1>3, <1>4 DEF Busy
<1>7. ReadAll'
  BY <1>3, <1>4 DEF CloudInv, ReadAll
<1>8. task[k].seen = lit \ task[k].todo => m.seen = lit \ m.todo
  BY <1>3
<1>9. ReadingIsTrue'
  BY <1>2, <1>4, <1>6, <1>8 DEF CloudInv, ReadingIsTrue, Busy, Unsettled
<1>10. SettlingIsTrue'
  <2>1. \A j \in Tasks : task'[j].pc = "idle" <=> task[j].pc = "idle"
    BY <1>3, <1>4
  <2>2. task["settling"].seen = lit \ task["settling"].todo =>
          task'["settling"].seen = lit \ task'["settling"].todo
    BY <1>4, <1>8 DEF Tasks
  <2> QED
    BY <1>2, <2>1, <2>2 DEF CloudInv, SettlingIsTrue, Unsettled, Tasks
<1>11. PublishedIsTrue'
  <2>1. \A j \in Tasks : task'[j].pc = "idle" <=> task[j].pc = "idle"
    BY <1>3, <1>4
  <2> QED
    BY <1>2, <2>1 DEF CloudInv, PublishedIsTrue, Unsettled, Latest, Tasks
<1> QED
  BY <1>2, <1>5, <1>7, <1>9, <1>10, <1>11 DEF CloudInv

\* What every end of a task does; what was published is then the latest.
LEMMA Finished ==
  ASSUME CloudInv, NEW k \in Tasks, NEW yes \in BOOLEAN, Finish(k, yes),
         lastSent' \subseteq SUBSET Channels
  PROVE  /\ ReportTypeOK' /\ ReadAll' /\ ReadingIsTrue'
         /\ task'[k].pc = "idle" /\ \A j \in Tasks \ {k} : task'[j] = task[j]
         /\ UNCHANGED <<lit, changing, armed, online, cloud>> /\ Unsettled' = Unsettled
         /\ task[k].pc = "publish" /\ task[k].todo = {} /\ task[k].seen \in SUBSET Channels
         /\ yes => Latest' = {task[k].seen} /\ doubt' = (k \in disturbed)
         /\ ~yes => Latest' = Latest /\ doubt' = doubt
<1>1. /\ task' \in [Tasks -> TaskMemos] /\ task'[k] = TaskIdle /\ task[k].pc = "publish"
      /\ \A j \in Tasks \ {k} : task'[j] = task[j]
  BY TaskGotoTyped, TaskIdleTyped DEF Finish, CloudInv
<1>2. task[k].todo = {} /\ task[k].seen \in SUBSET Channels
  BY <1>1 DEF CloudInv, ReadAll, ReportTypeOK
<1>3. /\ disturbed' = disturbed \ {k} /\ UNCHANGED <<lit, changing, armed, online, cloud>>
      /\ doubt' \in BOOLEAN /\ Unsettled' = Unsettled
  <2>1. doubt \in BOOLEAN /\ (k \in disturbed) \in BOOLEAN
    BY DEF CloudInv, ReportTypeOK
  <2>2. doubt' = (k \in disturbed) \/ doubt' = doubt
    BY DEF Finish
  <2>3. doubt' \in BOOLEAN
    BY <2>1, <2>2
  <2> QED
    BY <2>3 DEF Finish, Unsettled
<1>4. /\ outbox' \in Seq(SUBSET Channels) /\ Len(outbox') <= MaxOutbox
      /\ yes => Latest' = {task[k].seen} /\ doubt' = (k \in disturbed)
      /\ ~yes => Latest' = Latest /\ doubt' = doubt
  <2>1. outbox \in Seq(SUBSET Channels) /\ Len(outbox) \in Nat /\ Len(outbox) <= MaxOutbox
    BY DEF CloudInv, ReportTypeOK
  <2>2. CASE yes
    <3>1. /\ Len(outbox) < MaxOutbox /\ outbox' = Append(outbox, task[k].seen)
          /\ doubt' = (k \in disturbed)
      BY <2>2 DEF Finish
    <3>2. /\ outbox' \in Seq(SUBSET Channels) /\ Len(outbox') = Len(outbox) + 1
          /\ outbox'[Len(outbox')] = task[k].seen
      BY <1>2, <2>1, <3>1
    <3> QED
      BY <2>1, <2>2, <3>1, <3>2 DEF Latest
  <2>3. CASE ~yes
    BY <1>3, <2>1, <2>3 DEF Finish, Latest
  <2> QED
    BY <2>2, <2>3
<1>5. ReportTypeOK'
  BY <1>1, <1>3, <1>4 DEF CloudInv, ReportTypeOK, TaskMemos
<1>6. ReadAll'
  BY <1>1, TaskIdleTyped DEF CloudInv, ReadAll
<1>7. Busy' = Busy \ {k} /\ k \in Busy
  BY <1>1, TaskIdleTyped DEF Busy
<1>8. ReadingIsTrue'
  BY <1>3, <1>7 DEF CloudInv, ReadingIsTrue
<1> QED
  BY <1>1, <1>2, <1>3, <1>4, <1>5, <1>6, <1>8, TaskIdleTyped

LEMMA SettleKeeps ==
  ASSUME CloudInv, Settle
  PROVE  CloudInv'
<1> DEFINE now == task["settling"].seen
           yes == (lastSent # {now}) /\ online
<1>1. "settling" \in Tasks /\ "connection" \in Tasks
  BY DEF Tasks
<1>2. yes \in BOOLEAN /\ Finish("settling", yes) /\ lastSent' = {now}
  BY DEF Settle, CloudInv, ReportTypeOK
<1>3. now \in SUBSET Channels
  BY <1>1 DEF CloudInv, ReportTypeOK
<1>4. lastSent' \subseteq SUBSET Channels
  BY <1>2, <1>3
<1> HIDE DEF yes
<1>5. /\ ReportTypeOK' /\ ReadAll' /\ ReadingIsTrue'
      /\ task'["settling"].pc = "idle" /\ task'["connection"] = task["connection"]
      /\ UNCHANGED <<lit, changing, armed, online, cloud>> /\ Unsettled' = Unsettled
      /\ task["settling"].pc = "publish" /\ task["settling"].todo = {}
      /\ yes => Latest' = {now} /\ doubt' = ("settling" \in disturbed)
      /\ ~yes => Latest' = Latest /\ doubt' = doubt
  BY <1>1, <1>2, <1>4, Finished
<1>6. ~Unsettled => now = lit
  BY <1>5 DEF CloudInv, SettlingIsTrue
<1>7. SettlingIsTrue'
  BY <1>2, <1>5, <1>6 DEF SettlingIsTrue
<1>8. PublishedIsTrue'
  <2> SUFFICES ASSUME online, task["connection"].pc = "idle", ~doubt'
               PROVE  {now} \subseteq Latest' /\ (~Unsettled => Latest' = {lit})
    BY <1>2, <1>5 DEF PublishedIsTrue
  <2>1. CASE yes
    BY <1>5, <1>6, <2>1
  <2>2. CASE ~yes
    <3>1. lastSent = {now} /\ Latest' = Latest /\ ~doubt
      BY <1>5, <2>2 DEF yes
    <3>2. now \in Latest
      BY <3>1 DEF CloudInv, PublishedIsTrue
    <3>3. Latest = {now}
      BY <3>2 DEF Latest, CloudInv
    <3> QED
      BY <1>6, <3>1, <3>3
  <2> QED
    BY <2>1, <2>2
<1> QED
  BY <1>5, <1>7, <1>8 DEF CloudInv

LEMMA PublishKeeps ==
  ASSUME CloudInv, NEW k \in Tasks, PublishState(k)
  PROVE  CloudInv'
<1>1. "settling" \in Tasks \ {k} /\ "connection" \in Tasks /\ lastSent' = lastSent
  BY DEF Tasks, PublishState
<1>2. Finish(k, TRUE) /\ lastSent' \subseteq SUBSET Channels
  BY <1>1 DEF PublishState, CloudInv, ReportTypeOK
<1>3. /\ ReportTypeOK' /\ ReadAll' /\ ReadingIsTrue'
      /\ \A j \in Tasks \ {k} : task'[j] = task[j]
      /\ UNCHANGED <<lit, changing, armed, online, cloud>> /\ Unsettled' = Unsettled
      /\ task[k].pc = "publish" /\ task[k].todo = {} /\ task[k].seen \in SUBSET Channels
      /\ Latest' = {task[k].seen} /\ doubt' = (k \in disturbed)
  BY <1>2, Finished
<1>4. task'["settling"] = task["settling"]
  BY <1>1, <1>3
<1>5. SettlingIsTrue'
  BY <1>1, <1>3, <1>4 DEF CloudInv, SettlingIsTrue
<1>6. PublishedIsTrue'
  <2> SUFFICES ASSUME ~doubt'
               PROVE  lastSent \subseteq Latest' /\ Latest' = {lit}
    BY <1>1, <1>3 DEF PublishedIsTrue
  <2>1. k \in Busy \ disturbed
    BY <1>3 DEF Busy
  <2>2. task[k].seen = lit /\ Busy = {k} /\ ~Unsettled
    BY <1>3, <2>1, lit \ {} = lit DEF CloudInv, ReadingIsTrue
  <2>3. task["settling"].pc = "idle"
    BY <1>1, <2>2 DEF Busy
  <2> QED
    BY <1>3, <2>2, <2>3 DEF CloudInv, SettlingIsTrue
<1> QED
  BY <1>3, <1>5, <1>6 DEF CloudInv

LEMMA DeliverKeeps ==
  ASSUME CloudInv, Deliver
  PROVE  CloudInv'
<1>1. /\ outbox # <<>> /\ cloud' = {Head(outbox)} /\ outbox' \in {outbox, Tail(outbox)}
      /\ UNCHANGED <<lit, changing, armed, lastSent, online, task, disturbed, doubt>>
  BY DEF Deliver
<1>2. outbox \in Seq(SUBSET Channels) /\ Len(outbox) \in Nat /\ Len(outbox) <= MaxOutbox
  BY DEF CloudInv, ReportTypeOK
<1>3. /\ Head(outbox) = outbox[1] /\ Head(outbox) \in SUBSET Channels /\ Len(outbox) >= 1
      /\ Tail(outbox) \in Seq(SUBSET Channels) /\ Len(Tail(outbox)) = Len(outbox) - 1
      /\ \A i \in 1..(Len(outbox) - 1) : Tail(outbox)[i] = outbox[i + 1]
  BY <1>1, <1>2
<1>4. ReportTypeOK'
  BY SMTT(30), <1>1, <1>2, <1>3 DEF CloudInv, ReportTypeOK
<1>5. Latest' = Latest
  <2>1. CASE outbox' = outbox
    BY <1>1, <2>1 DEF Latest
  <2>2. CASE outbox' = Tail(outbox)
    <3>1. CASE Len(outbox) = 1
      <4>1. outbox' = <<>>
        BY <1>3, <2>2, <3>1
      <4> QED
        BY <1>1, <1>3, <3>1, <4>1 DEF Latest
    <3>2. CASE Len(outbox) > 1
      <4>1. outbox' # <<>> /\ Len(outbox') = Len(outbox) - 1
        BY <1>2, <1>3, <2>2, <3>2
      <4>2. outbox'[Len(outbox')] = outbox[Len(outbox)]
        BY <1>2, <1>3, <2>2, <3>2, <4>1
      <4> QED
        BY <1>1, <4>1, <4>2 DEF Latest
    <3> QED
      BY <1>2, <1>3, <3>1, <3>2
  <2> QED
    BY <1>1, <2>1, <2>2
<1>6. ReadAll' /\ ReadingIsTrue' /\ SettlingIsTrue'
  BY <1>1 DEF CloudInv, ReadAll, ReadingIsTrue, SettlingIsTrue, Busy, Unsettled
<1>7. PublishedIsTrue'
  BY <1>1, <1>5 DEF CloudInv, PublishedIsTrue, Unsettled
<1> QED
  BY <1>1, <1>4, <1>6, <1>7 DEF CloudInv

LEMMA CloudNextKeeps == CloudInv /\ [ReportNext]_reportVars => CloudInv'
<1> SUFFICES ASSUME CloudInv, [ReportNext]_reportVars
             PROVE  CloudInv'
  OBVIOUS
<1>1. CASE TimerExpires
  BY <1>1, BeginKeeps DEF TimerExpires, Tasks, CloudInv, ReportTypeOK
<1>2. CASE Heartbeat
  BY <1>2, BeginKeeps DEF Heartbeat, Tasks, CloudInv, ReportTypeOK
<1>3. CASE Connected
  BY <1>3, BeginKeeps DEF Connected, Tasks, CloudInv, ReportTypeOK
<1>4. CASE Disconnected
  <2>1. /\ ~online' /\ outbox' \in {outbox, <<>>}
        /\ UNCHANGED <<lit, changing, armed, lastSent, task, cloud, disturbed, doubt>>
    BY <1>4 DEF Disconnected, CloudInv, ReportTypeOK
  <2>2. outbox' \in Seq(SUBSET Channels) /\ Len(outbox') <= MaxOutbox
    <3>1. <<>> \in Seq(SUBSET Channels) /\ Len(<<>>) <= MaxOutbox
      OBVIOUS
    <3> QED
      BY <2>1, <3>1 DEF CloudInv, ReportTypeOK
  <2>3. ReportTypeOK'
    BY <1>4, <2>1, <2>2 DEF CloudInv, ReportTypeOK, Disconnected
  <2>4. ReadAll' /\ ReadingIsTrue' /\ SettlingIsTrue'
    BY <2>1 DEF CloudInv, ReadAll, ReadingIsTrue, SettlingIsTrue, Busy, Unsettled
  <2> QED
    BY <2>1, <2>3, <2>4 DEF CloudInv, PublishedIsTrue
<1>5. CASE DeviceReboots
  <2>1. /\ lit' \subseteq Channels /\ changing' = {} /\ armed' = FALSE /\ lastSent' = {}
        /\ online' = FALSE /\ outbox' = <<>> /\ disturbed' = {} /\ doubt' = FALSE
        /\ task' = [k \in Tasks |-> TaskIdle] /\ UNCHANGED cloud
    BY <1>5 DEF DeviceReboots, CloudInv, ReportTypeOK
  <2>2. /\ task' \in [Tasks -> TaskMemos] /\ \A k \in Tasks : task'[k].pc = "idle"
    BY <2>1, TaskIdleTyped
  <2>3. outbox' \in Seq(SUBSET Channels) /\ Len(outbox') <= MaxOutbox
    BY <2>1
  <2>4. ReportTypeOK'
    BY <2>1, <2>2, <2>3 DEF CloudInv, ReportTypeOK, TaskMemos
  <2>5. Busy' = {}
    BY <2>2 DEF Busy
  <2>6. ReadAll' /\ ReadingIsTrue'
    BY <2>2, <2>5 DEF ReadAll, ReadingIsTrue
  <2>7. SettlingIsTrue' /\ PublishedIsTrue'
    BY <2>1, <2>2 DEF SettlingIsTrue, PublishedIsTrue, Tasks
  <2> QED
    BY <2>1, <2>4, <2>6, <2>7 DEF CloudInv
<1>6. CASE UNCHANGED reportVars
  BY <1>6 DEF reportVars, CloudInv, ReportTypeOK, ReadAll, ReadingIsTrue, SettlingIsTrue,
              PublishedIsTrue, Busy, Unsettled, Latest
<1> QED
  BY <1>1, <1>2, <1>3, <1>4, <1>5, <1>6, SwitchKeeps, ReadKeeps, PublishKeeps, SettleKeeps,
     DeliverKeeps DEF ReportNext

\* Every reachable state of the device's reporting is well typed.
THEOREM ReportsTyped == ReportSpec => []ReportTypeOK
  BY CloudInit, CloudNextKeeps, PTL DEF ReportSpec, CloudInv

\* Connected and at rest, the broker has the relays, whatever connections, timers and
\* heartbeats came before; unless the last report was read while they were switched.
THEOREM CloudIsCurrentAlways == ReportSpec => []CloudIsCurrent
<1>1. CloudInv => CloudIsCurrent
  <2> SUFFICES ASSUME CloudInv, online, Busy = {}, ~Unsettled, outbox = <<>>, ~doubt
               PROVE  cloud = {lit}
    BY DEF CloudIsCurrent
  <2>1. task["connection"].pc = "idle" /\ task["settling"].pc = "idle"
    BY DEF Busy, Tasks
  <2> QED
    BY <2>1 DEF CloudInv, PublishedIsTrue, Latest
<1> QED
  BY <1>1, CloudInit, CloudNextKeeps, PTL DEF ReportSpec

-----------------------------------------------------------------------------
(* What the backend knows                                                  *)

\* A device that has been seen lately is being marked only if its message came late.
MarkingWasSilent == (marking /\ recent) => markedLate

SilentInv == StaleWasSilent /\ MarkingWasSilent

LEMMA SilentInit == StateInit => SilentInv
  BY DEF StateInit, SilentInv, StaleWasSilent, MarkingWasSilent

LEMMA SilentNextKeeps == SilentInv /\ [StateNext]_stateVars => SilentInv'
<1> SUFFICES ASSUME SilentInv, [StateNext]_stateVars
             PROVE  SilentInv'
  OBVIOUS
<1> USE DEF SilentInv, StaleWasSilent, MarkingWasSilent
<1>1. ASSUME NEW c \in Callers, StateMessage(c)
      PROVE  SilentInv'
  BY <1>1 DEF StateMessage, HandleState, HandleEvent, HandleAvailability, HandleTelemetry,
              RowsStay
<1>2. ASSUME NEW c \in Callers, UpdateConnection(c)
      PROVE  SilentInv'
  BY <1>2 DEF UpdateConnection, Await
<1>3. ASSUME NEW c \in Callers, UpdateChannel(c) \/ CachePower(c)
      PROVE  SilentInv'
  BY <1>3 DEF UpdateChannel, CachePower, Await
<1>4. CASE Detect
  BY <1>4 DEF Detect
<1>5. CASE MarkStale
  BY <1>5 DEF MarkStale
<1>6. CASE GrowsOld \/ CacheExpires \/ RelaySwitches
  BY <1>6 DEF GrowsOld, CacheExpires, RelaySwitches
<1>7. CASE RestartIngestion
  BY <1>7 DEF RestartIngestion
<1>8. CASE UNCHANGED stateVars
  BY <1>8 DEF stateVars
<1> QED
  BY <1>1, <1>2, <1>3, <1>4, <1>5, <1>6, <1>7, <1>8 DEF StateNext, StateStep

\* A device is STALE only after a silence, or when its message came between the
\* detector's listing and its marking.
THEOREM StaleWasSilentAlways == StateSpec => []StaleWasSilent
  BY SilentInit, SilentNextKeeps, PTL DEF StateSpec, SilentInv

\* What is left of a handler's awaits after some of them.
StillToDo(todo, done) == [k \in 1..(Len(todo) - done) |-> todo[k + done]]

\* A handler's memo keeps its shape: a rest of one of the lists of awaits.
MemoFits(m) ==
    \E todo \in Todos, done \in 0..3, power \in Powers \union {"none"},
       word \in Powers \union Connections \union {"none"} :
      m = IngestMemo(StillToDo(todo, done), power, word)

IngestFits ==
    /\ ingest = [c \in Callers |-> ingest[c]]
    /\ \A c \in Callers : MemoFits(ingest[c])

RowsTyped ==
    /\ relay \in Powers
    /\ connection \in Connections \union {"none"} /\ recent \in BOOLEAN
    /\ reported \in Powers \union {"none"} /\ cached \in Powers \union {"none"}
    /\ marking \in BOOLEAN /\ markedLate \in BOOLEAN /\ reportLost \in BOOLEAN

\* Who writes the channel's row has a power to write, and who writes the hash a word that is one.
WritesPower ==
    \A c \in Callers : \A k \in 1..Len(ingest[c].todo) :
      /\ ingest[c].todo[k] = "channel" => ingest[c].power \in Powers
      /\ ingest[c].todo[k] = "cachePower" => ingest[c].word \in Powers

StateInv == RowsTyped /\ IngestFits /\ WritesPower

\* The awaits that write.
Awaits == {"cachePower", "connection", "channel"}

LEMMA TodosTyped == \A todo \in Todos : todo \in Seq(Awaits) /\ Len(todo) \in 0..3
<1>1. <<>> \in Seq(Awaits) /\ Len(<<>>) = 0
  OBVIOUS
<1>2. StateTodo \in Seq(Awaits) /\ Len(StateTodo) = 3
  BY DEF StateTodo, Awaits
<1>3. EventTodo \in Seq(Awaits) /\ Len(EventTodo) = 3
  BY DEF EventTodo, Awaits
<1>4. SeenTodo \in Seq(Awaits) /\ Len(SeenTodo) = 1
  BY DEF SeenTodo, Awaits
<1>5. 0 \in 0..3 /\ 1 \in 0..3 /\ 3 \in 0..3
  OBVIOUS
<1> SUFFICES ASSUME NEW todo \in Todos
             PROVE  todo \in Seq(Awaits) /\ Len(todo) \in 0..3
  OBVIOUS
<1>6. todo = <<>> \/ todo = StateTodo \/ todo = EventTodo \/ todo = SeenTodo
  BY DEF Todos
<1> QED
  BY <1>1, <1>2, <1>3, <1>4, <1>5, <1>6

LEMMA FreshFits ==
  ASSUME NEW todo \in Todos, NEW power \in Powers \union {"none"},
         NEW word \in Powers \union Connections \union {"none"}
  PROVE  MemoFits(IngestMemo(todo, power, word))
<1>1. todo \in Seq(Awaits)
  BY TodosTyped
<1>2. StillToDo(todo, 0) = todo
  <2>1. \A k \in 1..Len(todo) : k + 0 = k
    OBVIOUS
  <2>2. todo = [k \in 1..Len(todo) |-> todo[k]]
    BY <1>1
  <2> QED
    BY <1>1, <2>1, <2>2 DEF StillToDo
<1> QED
  BY <1>2 DEF MemoFits

LEMMA IdleFits == MemoFits(IngestIdle)
  BY FreshFits DEF IngestIdle, Todos

LEMMA TailFits ==
  ASSUME NEW m, MemoFits(m), m.todo # <<>>
  PROVE  /\ m.todo \in Seq(Awaits) /\ Head(m.todo) = m.todo[1] /\ Len(m.todo) >= 1
         /\ MemoFits([m EXCEPT !.todo = Tail(m.todo)])
         /\ [m EXCEPT !.todo = Tail(m.todo)].power = m.power
         /\ [m EXCEPT !.todo = Tail(m.todo)].word = m.word
         /\ [m EXCEPT !.todo = Tail(m.todo)].todo = Tail(m.todo)
<1>1. PICK todo \in Todos, done \in 0..3, power \in Powers \union {"none"},
           word \in Powers \union Connections \union {"none"} :
        m = IngestMemo(StillToDo(todo, done), power, word)
  BY DEF MemoFits
<1>2. m.todo = StillToDo(todo, done) /\ m = [todo |-> m.todo, power |-> power, word |-> word]
  BY <1>1 DEF IngestMemo
<1>3. todo \in Seq(Awaits) /\ Len(todo) \in 0..3
  BY TodosTyped
<1>4. done \in 0..3 /\ Len(todo) - done > 0
  BY <1>1, <1>2, <1>3 DEF StillToDo
<1>5. m.todo \in Seq(Awaits) /\ Len(m.todo) = Len(todo) - done
  <2>1. \A k \in 1..(Len(todo) - done) : k + done \in 1..Len(todo) /\ todo[k + done] \in Awaits
    BY <1>3, <1>4
  <2>2. m.todo \in [1..(Len(todo) - done) -> Awaits] /\ Len(todo) - done \in Nat
    BY <1>2, <1>3, <1>4, <2>1 DEF StillToDo
  <2> QED
    BY <2>2
<1>6. Tail(m.todo) = StillToDo(todo, done + 1)
  <2>1. /\ Tail(m.todo) = [k \in 1..(Len(todo) - done - 1) |-> m.todo[k + 1]]
    BY <1>3, <1>4, <1>5
  <2>2. \A k \in 1..(Len(todo) - done - 1) : m.todo[k + 1] = todo[k + (done + 1)]
    <3> SUFFICES ASSUME NEW k \in 1..(Len(todo) - done - 1)
                 PROVE  m.todo[k + 1] = todo[k + (done + 1)]
      OBVIOUS
    <3>1. k + 1 \in 1..(Len(todo) - done) /\ (k + 1) + done = k + (done + 1)
      BY <1>3, <1>4
    <3>2. \A i \in 1..(Len(todo) - done) : m.todo[i] = todo[i + done]
      BY <1>2 DEF StillToDo
    <3> QED
      BY <3>1, <3>2
  <2>3. Len(todo) - done - 1 = Len(todo) - (done + 1)
    BY <1>3, <1>4
  <2> QED
    BY <2>1, <2>2, <2>3 DEF StillToDo
<1>7. done + 1 \in 0..3
  <2>1. \A n, k \in 0..3 : n - k > 0 => k + 1 \in 0..3
    OBVIOUS
  <2> QED
    BY <1>3, <1>4, <2>1
<1>8. [m EXCEPT !.todo = Tail(m.todo)] = IngestMemo(StillToDo(todo, done + 1), power, word)
  <2> DEFINE tail == Tail(m.todo)
             gone == StillToDo(todo, done + 1)
  <2>1. tail = gone
    BY <1>6
  <2> HIDE DEF tail, gone
  <2>2. [m EXCEPT !.todo = tail] = [todo |-> gone, power |-> power, word |-> word]
    BY <1>2, <2>1
  <2> QED
    BY <2>2 DEF IngestMemo, tail, gone
<1>9. MemoFits([m EXCEPT !.todo = Tail(m.todo)])
  BY <1>7, <1>8 DEF MemoFits
<1>10. m.power = power /\ m.word = word
  BY <1>1 DEF IngestMemo
<1> QED
  BY <1>4, <1>5, <1>6, <1>8, <1>9, <1>10 DEF IngestMemo

LEMMA HandleFits ==
  ASSUME StateInv, NEW c \in Callers, NEW todo \in Todos, NEW power \in Powers \union {"none"},
         NEW word \in Powers \union Connections \union {"none"}, Handle(c, todo, power, word),
         todo \in {StateTodo, EventTodo} => power \in Powers /\ word \in Powers
  PROVE  IngestFits' /\ WritesPower'
<1> DEFINE m == IngestMemo(todo, power, word)
<1>1. MemoFits(m) /\ m.todo = todo /\ m.power = power /\ m.word = word
  BY FreshFits DEF IngestMemo
<1>2. todo \in {<<>>, SeenTodo} => \A k \in 1..Len(todo) : todo[k] \notin {"channel", "cachePower"}
  BY DEF SeenTodo, Awaits
<1> HIDE DEF m
<1>3. ingest' = [ingest EXCEPT ![c] = m]
  BY DEF Handle, m
<1>4. ingest'[c] = m /\ \A d \in Callers \ {c} : ingest'[d] = ingest[d]
  BY <1>3 DEF StateInv, IngestFits
<1>5. IngestFits'
  BY <1>1, <1>3, <1>4 DEF StateInv, IngestFits
<1>6. WritesPower'
  BY <1>1, <1>2, <1>4 DEF StateInv, WritesPower, Todos
<1> QED
  BY <1>5, <1>6

LEMMA AwaitFits ==
  ASSUME StateInv, NEW c \in Callers, NEW step, Await(c, step)
  PROVE  /\ IngestFits' /\ WritesPower'
         /\ step = "channel" => ingest[c].power \in Powers
         /\ step = "cachePower" => ingest[c].word \in Powers
<1> DEFINE m == ingest[c]
           rest == [m EXCEPT !.todo = Tail(m.todo)]
           after == AfterAwait(m)
<1>1. MemoFits(m) /\ m.todo # <<>> /\ Head(m.todo) = step
  BY DEF Await, StateInv, IngestFits
<1>2. /\ m.todo \in Seq(Awaits) /\ Head(m.todo) = m.todo[1] /\ Len(m.todo) >= 1
      /\ MemoFits(rest) /\ rest.power = m.power /\ rest.word = m.word /\ rest.todo = Tail(m.todo)
  BY <1>1, TailFits
<1>3. IngestIdle.todo = <<>>
  BY DEF IngestIdle, IngestMemo
<1>4. \A k \in 1..Len(Tail(m.todo)) : k + 1 \in 1..Len(m.todo) /\ Tail(m.todo)[k] = m.todo[k + 1]
  BY <1>2
<1>5. \A k \in 1..Len(m.todo) :
        /\ m.todo[k] = "channel" => m.power \in Powers
        /\ m.todo[k] = "cachePower" => m.word \in Powers
  BY DEF StateInv, WritesPower
<1>6. \A k \in 1..Len(after.todo) :
        /\ after.todo[k] = "channel" => after.power \in Powers
        /\ after.todo[k] = "cachePower" => after.word \in Powers
  <2>1. CASE Len(m.todo) = 1
    BY <1>3, <2>1 DEF AfterAwait
  <2>2. CASE Len(m.todo) # 1
    <3>1. after = rest
      BY <2>2 DEF AfterAwait
    <3> HIDE DEF after, rest
    <3>2. after.todo = Tail(m.todo) /\ after.power = m.power /\ after.word = m.word
      BY <1>2, <3>1
    <3> HIDE DEF m
    <3> QED
      BY <1>4, <1>5, <3>2
  <2> QED
    BY <2>1, <2>2
<1>7. MemoFits(after)
  BY <1>2, IdleFits DEF AfterAwait
<1>8. ingest' = [ingest EXCEPT ![c] = after]
  BY DEF Await, AfterAwait
<1> HIDE DEF after
<1>9. ingest'[c] = after /\ \A d \in Callers \ {c} : ingest'[d] = ingest[d]
  BY <1>8 DEF StateInv, IngestFits
<1>10. IngestFits'
  BY <1>7, <1>8, <1>9 DEF StateInv, IngestFits
<1>11. WritesPower'
  BY <1>6, <1>9 DEF StateInv, WritesPower
<1>12. (step = "channel" => m.power \in Powers) /\ (step = "cachePower" => m.word \in Powers)
  BY <1>1, <1>2, <1>5
<1> QED
  BY <1>10, <1>11, <1>12

LEMMA StateStarts == StateInit => StateInv
<1> SUFFICES ASSUME StateInit
             PROVE  StateInv
  OBVIOUS
<1>1. RowsTyped
  BY DEF StateInit, RowsTyped
<1>2. \A c \in Callers : ingest[c] = IngestIdle
  BY DEF StateInit
<1>3. IngestFits
  BY <1>2, IdleFits DEF StateInit, IngestFits
<1>4. WritesPower
  BY <1>2 DEF WritesPower, IngestIdle, IngestMemo
<1> QED
  BY <1>1, <1>3, <1>4 DEF StateInv

LEMMA StateKeeps ==
  ASSUME StateInv, [StateNext]_stateVars
  PROVE  StateInv'
<1>0. /\ RowsTyped
      /\ StateTodo \in Todos /\ EventTodo \in Todos /\ SeenTodo \in Todos
  BY DEF StateInv, Todos
<1>1. ASSUME NEW c \in Callers, StateMessage(c)
      PROVE  StateInv'
  <2>1. CASE HandleState(c)
    <3>1. CASE IsDelta(relay)
      <4>1. Handle(c, StateTodo, relay, "off") /\ RowsStay /\ UNCHANGED <<relay, reportLost>>
        BY <2>1, <3>1 DEF HandleState, PowerOfReport
      <4>2. RowsTyped'
        BY <1>0, <4>1 DEF RowsTyped, RowsStay
      <4> QED
        BY <1>0, <4>1, <4>2, HandleFits DEF RowsTyped, Powers, StateInv
    <3>2. CASE ~IsDelta(relay)
      <4>1. RowsTyped'
        BY <1>0, <2>1, <3>2 DEF HandleState, RowsTyped, RowsStay
      <4>2. ingest' = ingest
        BY <2>1, <3>2 DEF HandleState
      <4> QED
        BY <4>1, <4>2 DEF StateInv, IngestFits, WritesPower
    <3> QED
      BY <3>1, <3>2
  <2>2. CASE HandleEvent(c)
    <3>1. PICK power \in Powers \ {relay} :
            Handle(c, EventTodo, power, power) /\ relay' = power /\ RowsStay /\ UNCHANGED reportLost
      BY <2>2 DEF HandleEvent
    <3>2. RowsTyped'
      BY <1>0, <3>1 DEF RowsTyped, RowsStay
    <3> QED
      BY <1>0, <3>1, <3>2, HandleFits DEF StateInv
  <2>3. CASE HandleAvailability(c) \/ HandleTelemetry(c)
    <3>1. PICK word \in Connections :
            Handle(c, SeenTodo, "none", word) /\ RowsStay /\ UNCHANGED <<relay, reportLost>>
      BY <2>3 DEF HandleAvailability, HandleTelemetry, Connections
    <3>2. RowsTyped'
      BY <1>0, <3>1 DEF RowsTyped, RowsStay
    <3>3. SeenTodo \notin {StateTodo, EventTodo}
      BY DEF SeenTodo, StateTodo, EventTodo
    <3> QED
      BY <1>0, <3>1, <3>2, <3>3, HandleFits DEF StateInv
  <2> QED
    BY <1>1, <2>1, <2>2, <2>3 DEF StateMessage
<1>2. ASSUME NEW c \in Callers, UpdateConnection(c)
      PROVE  StateInv'
  <2>1. RowsTyped'
    BY <1>0, <1>2 DEF UpdateConnection, Await, RowsTyped, Connections
  <2> QED
    BY <1>2, <2>1, AwaitFits DEF UpdateConnection, StateInv
<1>3. ASSUME NEW c \in Callers, UpdateChannel(c)
      PROVE  StateInv'
  <2>1. IngestFits' /\ WritesPower' /\ ingest[c].power \in Powers
    BY <1>3, AwaitFits DEF UpdateChannel
  <2>2. RowsTyped'
    BY <1>0, <1>3, <2>1 DEF UpdateChannel, Await, RowsTyped
  <2> QED
    BY <2>1, <2>2 DEF StateInv
<1>4. ASSUME NEW c \in Callers, CachePower(c)
      PROVE  StateInv'
  <2>1. IngestFits' /\ WritesPower' /\ ingest[c].word \in Powers
    BY <1>4, AwaitFits DEF CachePower
  <2>2. RowsTyped'
    BY <1>0, <1>4, <2>1 DEF CachePower, Await, RowsTyped
  <2> QED
    BY <2>1, <2>2 DEF StateInv
<1>5. CASE Detect \/ MarkStale \/ GrowsOld \/ CacheExpires \/ RelaySwitches
  <2>1. ingest' = ingest
    BY <1>5 DEF Detect, MarkStale, GrowsOld, CacheExpires, RelaySwitches
  <2>2. RowsTyped'
    BY <1>0, <1>5 DEF Detect, MarkStale, GrowsOld, CacheExpires, RelaySwitches, RowsTyped,
                      Connections
  <2> QED
    BY <2>1, <2>2 DEF StateInv, IngestFits, WritesPower
<1>6. CASE RestartIngestion
  <2>1. \A c \in Callers : ingest'[c] = IngestIdle
    BY <1>6 DEF RestartIngestion
  <2>2. RowsTyped'
    BY <1>0, <1>6 DEF RestartIngestion, RowsTyped, Connections
  <2>3. IngestFits'
    BY <1>6, <2>1, IdleFits DEF RestartIngestion, IngestFits
  <2>4. WritesPower'
    BY <2>1 DEF WritesPower, IngestIdle, IngestMemo
  <2> QED
    BY <2>2, <2>3, <2>4 DEF StateInv
<1>7. CASE UNCHANGED stateVars
  BY <1>7 DEF stateVars, StateInv, RowsTyped, IngestFits, WritesPower
<1> QED
  BY <1>1, <1>2, <1>3, <1>4, <1>5, <1>6, <1>7 DEF StateNext, StateStep

\* What the backend keeps of a device has its type, and a handler still to write a
\* power has one: the rows and the hash are never given another word.
THEOREM StateTypeCorrect == StateSpec => []StateTypeOK
<1>1. StateInv => StateTypeOK
  <2> SUFFICES ASSUME StateInv, NEW c \in Callers
               PROVE  /\ \E todo \in Todos, done \in 0..3 :
                           ingest[c].todo = [k \in 1..(Len(todo) - done) |-> todo[k + done]]
                      /\ ingest[c].power \in Powers \union {"none"}
                      /\ ingest[c].word \in Powers \union Connections \union {"none"}
    BY DEF StateInv, RowsTyped, StateTypeOK
  <2>1. PICK todo \in Todos, done \in 0..3, power \in Powers \union {"none"},
             word \in Powers \union Connections \union {"none"} :
          ingest[c] = IngestMemo(StillToDo(todo, done), power, word)
    BY DEF StateInv, IngestFits, MemoFits
  <2> QED
    BY <2>1 DEF IngestMemo, StillToDo
<1>2. StateInv /\ [StateNext]_stateVars => StateInv'
  BY StateKeeps
<1> QED
  BY <1>1, <1>2, StateStarts, PTL DEF StateSpec

-----------------------------------------------------------------------------
(* What readings add to the aggregate                                      *)

\* total gives every set of callers the sum of what w gives each of them.  (Sums are
\* not computed but carried along: what a step changes of one caller changes them.)
IsTotal(total, w) ==
    /\ total \in [SUBSET Callers -> Nat]
    /\ total[{}] = 0
    /\ \A T \in SUBSET Callers : total[T] = total[{c \in T : w[c] # 0}]
    /\ \A T \in SUBSET Callers : \A c \in Callers \ T : total[T \union {c}] = total[T] + w[c]

\* What a handler's memo still has to bring to the aggregate: energy, and a sample.
DueOf(m) == IF m.pc \in {"bucket", "add"} THEN m.delta ELSE 0
DueSample(m) == IF m.pc \in {"bucket", "add"} THEN 1 ELSE 0
Owed == [c \in Callers |-> DueOf(energyCall[c])]
OwedSamples == [c \in Callers |-> DueSample(energyCall[c])]

\* The readings the backend goes by.
Known == {held} \union {energyCall[c].r :
                           c \in {d \in Callers : energyCall[d].pc \in {"seen", "store"}}}

\* What had been consumed when the meter last began.
Before == consumed - meter.total

\* Number 0 is no reading.
HeldFits ==
    /\ held.seq = 0 => held.total = 0
    /\ \A c \in Callers : energyCall[c].pc \in {"seen", "store"} => energyCall[c].r.seq >= 1

\* Readings of one run of the meter grow with their numbers.
ReadingsInOrder ==
    ~meterReset =>
      /\ \A r \in Known \union air : r.seq <= meter.seq /\ r.total <= meter.total
      /\ \A r1, r2 \in Known \union air : r1.seq < r2.seq => r1.total <= r2.total

\* A reading that is being stored was reckoned from the one held.
StoreFits ==
    ~forked => \A c \in Callers : energyCall[c].pc = "store" =>
      /\ energyCall[c].r.seq > held.seq
      /\ energyCall[c].delta = IF energyCall[c].r.total < held.total THEN 0
                               ELSE energyCall[c].r.total - held.total
      /\ \A d \in Callers : energyCall[d].pc = "store" => d = c

\* What is on its way is of this run of the meter.
AirFits ==
    /\ consumed >= meter.total
    /\ \A a \in air : a.seq <= meter.seq /\ a.total <= meter.total
    /\ \A a, b \in air : a.seq < b.seq => a.total <= b.total

\* K[n] is what had been consumed when the reading numbered n was taken, or less.
KnownFits(K) ==
    \A r \in Known :
      /\ r.seq <= lastSeq /\ K[r.seq] <= consumed
      /\ \/ K[r.seq] <= Before
         \/ /\ K[r.seq] = Before + r.total /\ r.seq <= meter.seq /\ r.total <= meter.total
            /\ \A a \in air : a.seq > r.seq => a.total >= r.total

KnownGrow(K) ==
    \A r1, r2 \in Known : r1.seq < r2.seq =>
      /\ K[r1.seq] <= K[r2.seq]
      /\ K[r1.seq] + r2.total <= K[r2.seq] + r1.total

\* The aggregate and what is still to be added stay below what the reading held stands for.
EnergyFits(K) ==
    \E total : /\ IsTotal(total, Owed)
              /\ bucket.energy + total[Callers] <= K[held.seq]
              /\ \A c \in Callers : energyCall[c].pc = "add" =>
                   energyCall[c].seen.energy + total[Callers] <= K[held.seq]

NoneInvented ==
    (~forked /\ ~restarted /\ ~outlived) =>
      /\ AirFits
      /\ \E K \in [Seqs -> Nat] : KnownFits(K) /\ KnownGrow(K) /\ EnergyFits(K)

\* One update at a time has read the aggregate as it is.
OneAdds ==
    \A c \in Callers : energyCall[c].pc = "add" =>
      energyCall[c].seen = bucket /\ \A d \in Callers : energyCall[d].pc = "add" => d = c

NoneMissing ==
    (~forked /\ ~overtaken /\ ~unadded /\ ~restarted /\ ~meterReset) =>
      /\ OneAdds
      /\ \E total : IsTotal(total, Owed) /\ bucket.energy + total[Callers] = held.total
      /\ \E total : IsTotal(total, OwedSamples) /\ bucket.samples + total[Callers] = rows

EnergyInv == EnergyTypeOK /\ HeldFits /\ ReadingsInOrder /\ StoreFits /\ NoneInvented /\ NoneMissing

USE EnergyAssumption

-----------------------------------------------------------------------------
(* What readings add                                                       *)

\* Changing what one caller is given changes the sum over all by as much.
LEMMA TotalChanges ==
  ASSUME NEW w \in [Callers -> Nat], NEW total, IsTotal(total, w),
         NEW c \in Callers, NEW n \in Nat
  PROVE  \E after : /\ IsTotal(after, [w EXCEPT ![c] = n])
                    /\ after[Callers] = total[Callers] - w[c] + n
                    /\ total[Callers] >= w[c]
<1> DEFINE given == [w EXCEPT ![c] = n]
           after == [T \in SUBSET Callers |-> IF c \in T THEN total[T] - w[c] + n ELSE total[T]]
<1>1. given \in [Callers -> Nat] /\ given[c] = n /\ \A d \in Callers \ {c} : given[d] = w[d]
  OBVIOUS
<1>2. total \in [SUBSET Callers -> Nat] /\ w[c] \in Nat
  BY DEF IsTotal
<1>3. ASSUME NEW T \in SUBSET Callers, c \in T
      PROVE  total[T] >= w[c] /\ total[T] = total[T \ {c}] + w[c]
  <2>1. T \ {c} \in SUBSET Callers /\ c \in Callers \ (T \ {c}) /\ (T \ {c}) \union {c} = T
    BY <1>3
  <2>2. total[(T \ {c}) \union {c}] = total[T \ {c}] + w[c]
    BY <2>1 DEF IsTotal
  <2>3. total[T \ {c}] \in Nat
    BY <1>2, <2>1
  <2>4. total[T] = total[T \ {c}] + w[c]
    <3> HIDE DEF given, after
    <3> QED  BY <2>1, <2>2
  <2>5. w[c] \in Nat
    BY <1>2
  <2> QED
    <3> HIDE DEF given, after
    <3> QED  BY <2>3, <2>4, <2>5
<1>4. after \in [SUBSET Callers -> Nat]
  <2> SUFFICES ASSUME NEW T \in SUBSET Callers
               PROVE  (IF c \in T THEN total[T] - w[c] + n ELSE total[T]) \in Nat
    OBVIOUS
  <2>1. CASE c \in T
    <3>1. total[T] >= w[c] /\ total[T] \in Nat /\ w[c] \in Nat
      BY <1>2, <1>3, <2>1
    <3> QED
      BY <2>1, <3>1
  <2> QED
    BY <1>2, <2>1
<1>5. after[{}] = 0
  BY DEF IsTotal
<1>6. ASSUME NEW T \in SUBSET Callers, NEW d \in Callers \ T
      PROVE  after[T \union {d}] = after[T] + given[d]
  <2>1. T \union {d} \in SUBSET Callers /\ total[T \union {d}] = total[T] + w[d]
    BY DEF IsTotal
  <2>2. total[T] \in Nat /\ w[d] \in Nat
    BY <1>2
  <2>3. CASE d = c
    BY <1>1, <1>2, <2>1, <2>2, <2>3
  <2>4. CASE d # c
    BY <1>1, <1>2, <2>1, <2>2, <2>4
  <2> QED
    BY <2>3, <2>4
<1>7. ASSUME NEW T \in SUBSET Callers
      PROVE  after[T] = after[{d \in T : given[d] # 0}]
  <2> DEFINE U == {d \in T : w[d] # 0}
             V == {d \in T : given[d] # 0}
  <2>1. U \in SUBSET Callers /\ V \in SUBSET Callers /\ total[T] = total[U] /\ total[U] \in Nat
        /\ total[V] \in Nat /\ total[T] \in Nat
    BY <1>2 DEF IsTotal
  <2>2. \A d \in T \ {c} : d \in U <=> d \in V
    BY <1>1
  <2>3. V \ {c} = U \ {c}
    BY <2>2
  <2>4. c \in V <=> (c \in T /\ n # 0)
    BY <1>1
  <2>5. c \in U <=> (c \in T /\ w[c] # 0)
    OBVIOUS
  <2> HIDE DEF U, V
  <2>6. /\ c \in U => total[U] = total[U \ {c}] + w[c]
        /\ c \in V => total[V] = total[V \ {c}] + w[c]
        /\ c \notin U => U = U \ {c}
        /\ c \notin V => V = V \ {c}
    BY <1>3, <2>1
  <2>7. total[U \ {c}] \in Nat
    BY <1>2, <2>1
  <2>8. after[T] = (IF c \in T THEN total[T] - w[c] + n ELSE total[T])
        /\ after[V] = (IF c \in V THEN total[V] - w[c] + n ELSE total[V])
    BY <2>1
  <2> HIDE DEF after
  <2>9. CASE c \in T
    <3>1. total[U] = total[V \ {c}] + w[c]
      <4>1. c \in U => total[U] = total[V \ {c}] + w[c]
        BY <2>3, <2>6
      <4>2. c \notin U => w[c] = 0 /\ total[U] = total[V \ {c}]
        BY <2>3, <2>5, <2>6, <2>9
      <4>3. total[V \ {c}] \in Nat
        BY <2>3, <2>7
      <4> QED
        BY <4>1, <4>2, <4>3
    <3>2. after[V] = total[V \ {c}] + n
      <4>1. c \in V => total[V] = total[V \ {c}] + w[c] /\ after[V] = total[V] - w[c] + n
        BY <2>6, <2>8
      <4>2. c \notin V => n = 0 /\ after[V] = total[V \ {c}]
        BY <2>4, <2>6, <2>8, <2>9
      <4>3. total[V \ {c}] \in Nat /\ w[c] \in Nat
        BY <1>2, <2>3, <2>7
      <4> QED
        BY <4>1, <4>2, <4>3
    <3>3. after[T] = total[T] - w[c] + n /\ total[T] = total[U]
      BY <2>1, <2>8, <2>9
    <3>4. total[V \ {c}] \in Nat /\ w[c] \in Nat
      BY <1>2, <2>3, <2>7
    <3> QED
      BY <3>1, <3>2, <3>3, <3>4 DEF V
  <2>10. CASE c \notin T
    <3>1. c \notin U /\ c \notin V
      BY <2>10 DEF U, V
    <3>2. U = V
      BY <2>3, <2>6, <3>1
    <3> QED
      BY <2>1, <2>8, <2>10, <3>1, <3>2 DEF V
  <2> QED
    BY <2>9, <2>10 DEF V
<1>8. IsTotal(after, given)
  <2> HIDE DEF after, given
  <2> QED
    BY <1>4, <1>5, <1>6, <1>7 DEF IsTotal
<1>9. after[Callers] = total[Callers] - w[c] + n /\ total[Callers] >= w[c]
  BY <1>3
<1> QED
  BY <1>8, <1>9

\* With nothing given to anybody the sum is nothing.
LEMMA NothingInTotal ==
  ASSUME NEW w \in [Callers -> Nat], \A c \in Callers : w[c] = 0
  PROVE  /\ \E total : IsTotal(total, w)
         /\ \A total : IsTotal(total, w) => total[Callers] = 0
<1> DEFINE none == [T \in SUBSET Callers |-> 0]
<1>1. IsTotal(none, w)
  <2>1. none \in [SUBSET Callers -> Nat] /\ \A T \in SUBSET Callers : none[T] = 0
    OBVIOUS
  <2> HIDE DEF none
  <2>2. \A T \in SUBSET Callers : {c \in T : w[c] # 0} \in SUBSET Callers
    OBVIOUS
  <2>3. \A T \in SUBSET Callers : \A c \in Callers \ T : none[T \union {c}] = none[T] + w[c]
    <3> SUFFICES ASSUME NEW T \in SUBSET Callers, NEW c \in Callers \ T
                 PROVE  none[T \union {c}] = none[T] + w[c]
      OBVIOUS
    <3>1. T \union {c} \in SUBSET Callers /\ w[c] = 0
      OBVIOUS
    <3> QED
      BY <2>1, <3>1
  <2>4. \A T \in SUBSET Callers : none[T] = none[{c \in T : w[c] # 0}]
    BY <2>1, <2>2
  <2>5. none[{}] = 0
    BY <2>1
  <2> QED
    BY <2>1, <2>3, <2>4, <2>5 DEF IsTotal
<1>2. ASSUME NEW total, IsTotal(total, w)
      PROVE  total[Callers] = 0
  <2>1. {c \in Callers : w[c] # 0} = {}
    OBVIOUS
  <2> QED
    BY <1>2, <2>1 DEF IsTotal
<1>3. \E total : IsTotal(total, w)
  BY <1>1
<1> QED
  BY <1>2, <1>3

EnergyMemos == [pc : {"idle", "seen", "store", "bucket", "add"}, r : MeterReadings,
                delta : Totals, seen : [energy : Nat, samples : Nat]]

LEMMA EnergyIdleTyped ==
  /\ NoReading \in MeterReadings /\ NoBucket \in [energy : Nat, samples : Nat]
  /\ EnergyIdle \in EnergyMemos /\ EnergyIdle.pc = "idle"
BY DEF NoReading, NoBucket, EnergyIdle, EnergyMemo, EnergyMemos, MeterReadings, Seqs, Totals,
       EnergyAssumption

\* One caller's step changes what that caller owes, and the sums by as much.
LEMMA MemoMoves ==
  ASSUME EnergyTypeOK, NEW c \in Callers, NEW from, NEW m \in EnergyMemos, EnergyGoto(c, from, m)
  PROVE  /\ energyCall' \in [Callers -> EnergyMemos]
         /\ energyCall[c].pc = from /\ energyCall'[c] = m
         /\ \A d \in Callers \ {c} : energyCall'[d] = energyCall[d]
         /\ meter' = meter /\ consumed' = consumed /\ restarted' = restarted
         /\ meterReset' = meterReset /\ outlived' = outlived
BY DEF EnergyTypeOK, EnergyMemos, EnergyGoto

LEMMA OwedMoves ==
  ASSUME EnergyTypeOK, NEW c \in Callers, NEW from, NEW m \in EnergyMemos, EnergyGoto(c, from, m)
  PROVE  /\ \A total : IsTotal(total, Owed) =>
               /\ total[Callers] \in Nat /\ total[Callers] >= DueOf(energyCall[c])
               /\ \E after : /\ IsTotal(after, Owed') /\ after[Callers] \in Nat
                             /\ after[Callers] = total[Callers] - DueOf(energyCall[c]) + DueOf(m)
         /\ \A total : IsTotal(total, OwedSamples) =>
               /\ total[Callers] \in Nat /\ total[Callers] >= DueSample(energyCall[c])
               /\ \E after : /\ IsTotal(after, OwedSamples') /\ after[Callers] \in Nat
                             /\ after[Callers] = total[Callers] - DueSample(energyCall[c])
                                                + DueSample(m)
         /\ DueOf(energyCall[c]) \in Nat /\ DueOf(m) \in Nat
<1>1. energyCall \in [Callers -> EnergyMemos]
  BY DEF EnergyTypeOK, EnergyMemos
<1>2. \A k \in EnergyMemos : DueOf(k) \in Nat /\ DueSample(k) \in Nat
  BY DEF EnergyMemos, DueOf, DueSample, Totals
<1>3. Owed \in [Callers -> Nat] /\ OwedSamples \in [Callers -> Nat]
  BY <1>1, <1>2 DEF Owed, OwedSamples
<1>4. /\ Owed' = [Owed EXCEPT ![c] = DueOf(m)]
      /\ OwedSamples' = [OwedSamples EXCEPT ![c] = DueSample(m)]
  BY <1>1, MemoMoves DEF Owed, OwedSamples
<1>5. Owed[c] = DueOf(energyCall[c]) /\ OwedSamples[c] = DueSample(energyCall[c])
  BY DEF Owed, OwedSamples
<1>6. \A total, w : IsTotal(total, w) => total[Callers] \in Nat
  BY DEF IsTotal
<1>7. ASSUME NEW total, IsTotal(total, Owed)
      PROVE  /\ total[Callers] \in Nat /\ total[Callers] >= DueOf(energyCall[c])
             /\ \E after : /\ IsTotal(after, Owed') /\ after[Callers] \in Nat
                           /\ after[Callers] = total[Callers] - DueOf(energyCall[c]) + DueOf(m)
  <2>1. PICK after : /\ IsTotal(after, [Owed EXCEPT ![c] = DueOf(m)])
                     /\ after[Callers] = total[Callers] - Owed[c] + DueOf(m)
                     /\ total[Callers] >= Owed[c]
    BY <1>1, <1>2, <1>3, <1>7, TotalChanges
  <2> QED
    BY <1>4, <1>5, <1>6, <1>7, <2>1
<1>8. ASSUME NEW total, IsTotal(total, OwedSamples)
      PROVE  /\ total[Callers] \in Nat /\ total[Callers] >= DueSample(energyCall[c])
             /\ \E after : /\ IsTotal(after, OwedSamples') /\ after[Callers] \in Nat
                           /\ after[Callers] = total[Callers] - DueSample(energyCall[c])
                                              + DueSample(m)
  <2>1. PICK after : /\ IsTotal(after, [OwedSamples EXCEPT ![c] = DueSample(m)])
                     /\ after[Callers] = total[Callers] - OwedSamples[c] + DueSample(m)
                     /\ total[Callers] >= OwedSamples[c]
    BY <1>1, <1>2, <1>3, <1>8, TotalChanges
  <2> QED
    BY <1>4, <1>5, <1>6, <1>8, <2>1
<1> QED
  BY <1>1, <1>2, <1>7, <1>8

LEMMA EnergyNumbers ==
  ASSUME EnergyTypeOK
  PROVE  /\ \A r \in MeterReadings : r.seq \in Nat /\ r.total \in Nat /\ r.seq \in Seqs
         /\ Known \subseteq MeterReadings /\ air \subseteq MeterReadings
         /\ held \in Known /\ held \in MeterReadings /\ meter \in MeterReadings
         /\ lastSeq \in Nat /\ consumed \in Nat /\ rows \in Nat
         /\ bucket.energy \in Nat /\ bucket.samples \in Nat
         /\ \A c \in Callers :
              /\ energyCall[c] \in EnergyMemos /\ energyCall[c].r \in MeterReadings
              /\ energyCall[c].delta \in Nat /\ energyCall[c].delta \in Totals
              /\ energyCall[c].seen.energy \in Nat /\ energyCall[c].seen.samples \in Nat
              /\ energyCall[c].seen \in [energy : Nat, samples : Nat]
              /\ energyCall[c].pc \in {"seen", "store"} => energyCall[c].r \in Known
<1>1. \A r \in MeterReadings : r.seq \in Nat /\ r.total \in Nat /\ r.seq \in Seqs
  BY DEF MeterReadings, Seqs, Totals
<1>2. \A c \in Callers : energyCall[c] \in EnergyMemos
  BY DEF EnergyTypeOK, EnergyMemos
<1>3. \A k \in EnergyMemos : k.r \in MeterReadings /\ k.delta \in Nat /\ k.delta \in Totals
        /\ k.seen.energy \in Nat /\ k.seen.samples \in Nat
                /\ k.seen \in [energy : Nat, samples : Nat]
  BY DEF EnergyMemos, Totals
<1>4. Known \subseteq MeterReadings
  BY <1>2, <1>3 DEF Known, EnergyTypeOK
<1>5. \A c \in Callers : energyCall[c].pc \in {"seen", "store"} => energyCall[c].r \in Known
  BY DEF Known
<1>6. /\ held \in Known /\ held \in MeterReadings /\ meter \in MeterReadings
      /\ lastSeq \in Nat /\ consumed \in Nat /\ rows \in Nat
      /\ bucket.energy \in Nat /\ bucket.samples \in Nat /\ air \subseteq MeterReadings
  BY DEF Known, EnergyTypeOK, Seqs
<1> QED
  BY <1>1, <1>2, <1>3, <1>4, <1>5, <1>6

\* The backend goes by no reading but those it went by and the one c now has.
LEMMA KnownMoves ==
  ASSUME EnergyTypeOK, NEW c \in Callers, NEW from, NEW m \in EnergyMemos, EnergyGoto(c, from, m),
         NEW X, held' \in X, Known \subseteq X, m.pc \in {"seen", "store"} => m.r \in X
  PROVE  Known' \subseteq X
<1> SUFFICES ASSUME NEW d \in Callers, energyCall'[d].pc \in {"seen", "store"}
             PROVE  energyCall'[d].r \in X
  BY DEF Known
<1> QED
  BY MemoMoves DEF Known

LEMMA OrderStays ==
  ASSUME EnergyTypeOK, ReadingsInOrder, Known' \subseteq Known \union air, air' \subseteq air,
         meter' = meter, meterReset' = meterReset
  PROVE  ReadingsInOrder'
BY DEF ReadingsInOrder

LEMMA HeldStays ==
  ASSUME EnergyTypeOK, HeldFits, NEW c \in Callers, NEW from, NEW m \in EnergyMemos,
         EnergyGoto(c, from, m), held'.seq = 0 => held'.total = 0,
         m.pc \in {"seen", "store"} => m.r.seq >= 1
  PROVE  HeldFits'
<1>1. \A d \in Callers : energyCall'[d].pc \in {"seen", "store"} => energyCall'[d].r.seq >= 1
  BY MemoMoves DEF HeldFits
<1> QED
  BY <1>1 DEF HeldFits

LEMMA FitsStay ==
  ASSUME EnergyTypeOK, NEW K \in [Seqs -> Nat], KnownFits(K), KnownGrow(K),
         Known' \subseteq Known, air' \subseteq air, meter' = meter, consumed' = consumed,
         lastSeq' \in Nat, lastSeq' >= lastSeq
  PROVE  KnownFits(K)' /\ KnownGrow(K)'
<1>1. KnownGrow(K)'
  BY DEF KnownGrow
<1>2. Before' = Before
  BY DEF Before
<1>3. KnownFits(K)'
  <2> SUFFICES ASSUME NEW r \in Known'
               PROVE  /\ r.seq <= lastSeq' /\ K[r.seq] <= consumed'
                      /\ \/ K[r.seq] <= Before'
                         \/ /\ K[r.seq] = Before' + r.total
                            /\ r.seq <= meter'.seq /\ r.total <= meter'.total
                            /\ \A a \in air' : a.seq > r.seq => a.total >= r.total
    BY DEF KnownFits
  <2>1. r \in Known /\ r.seq \in Nat /\ lastSeq \in Nat
    BY EnergyNumbers
  <2> QED
    BY <1>2, <2>1 DEF KnownFits
<1> QED
  BY <1>1, <1>3

-----------------------------------------------------------------------------
(* The device's steps                                                      *)

LEMMA BackendKnown ==
  ASSUME BackendStays
  PROVE  /\ Known' = Known /\ Owed' = Owed /\ OwedSamples' = OwedSamples
         /\ HeldFits => HeldFits'
         /\ StoreFits => StoreFits'
         /\ \A K : EnergyFits(K) => EnergyFits(K)'
         /\ OneAdds => OneAdds'
BY DEF BackendStays, Known, Owed, OwedSamples, HeldFits, StoreFits, EnergyFits, OneAdds

LEMMA DeviceMissesNone ==
  ASSUME BackendStays, NoneMissing, meterReset => meterReset'
  PROVE  NoneMissing'
BY BackendKnown DEF BackendStays, NoneMissing

LEMMA MeterKeeps ==
  ASSUME EnergyInv, Meter
  PROVE  EnergyInv'
<1> USE DEF EnergyInv
<1>1. PICK used \in 0..1 :
        /\ meter.total + used <= MaxEnergy /\ meter.seq < MaxReadings
        /\ meter' = [seq |-> meter.seq + 1, total |-> meter.total + used]
        /\ air' = air \union {meter'} /\ consumed' = consumed + used
        /\ UNCHANGED <<faults, meterReset, outlived>> /\ BackendStays
  BY DEF Meter
<1>2. /\ meter'.seq = meter.seq + 1 /\ meter'.total = meter.total + used
      /\ meter.seq \in Nat /\ meter.total \in Nat /\ used \in 0..1 /\ consumed \in Nat
  BY <1>1, EnergyNumbers
<1>3. meter' \in MeterReadings /\ consumed' \in Nat
  BY <1>1, <1>2 DEF MeterReadings, Seqs, Totals, EnergyAssumption
<1>4. EnergyTypeOK'
  BY <1>1, <1>3 DEF EnergyTypeOK, BackendStays
<1>5. \A r \in Known \union air : r.seq \in Nat /\ r.total \in Nat
  BY EnergyNumbers
<1>6. ReadingsInOrder'
  <2> SUFFICES ASSUME ~meterReset
               PROVE  /\ \A r \in Known \union air' : r.seq <= meter'.seq /\ r.total <= meter'.total
                      /\ \A r1, r2 \in Known \union air' : r1.seq < r2.seq => r1.total <= r2.total
    BY <1>1, BackendKnown DEF ReadingsInOrder
  <2>1. \A r \in Known \union air : r.seq <= meter.seq /\ r.total <= meter.total
    BY DEF ReadingsInOrder
  <2> QED
    BY <1>1, <1>2, <1>5, <2>1 DEF ReadingsInOrder
<1>7. NoneInvented'
  <2> SUFFICES ASSUME ~forked, ~restarted, ~outlived
               PROVE  /\ AirFits'
                      /\ \E K \in [Seqs -> Nat] : (KnownFits(K) /\ KnownGrow(K) /\ EnergyFits(K))'
    BY <1>1 DEF NoneInvented, BackendStays
  <2>1. PICK K \in [Seqs -> Nat] : KnownFits(K) /\ KnownGrow(K) /\ EnergyFits(K)
    BY DEF NoneInvented
  <2>2. AirFits
    BY DEF NoneInvented
  <2>3. AirFits'
    BY <1>1, <1>2, <1>5, <2>2 DEF AirFits
  <2>4. Before' = Before
    BY <1>1, <1>2 DEF Before
  <2>5. KnownFits(K)'
    <3> SUFFICES ASSUME NEW r \in Known
                 PROVE  /\ r.seq <= lastSeq /\ K[r.seq] <= consumed'
                        /\ \/ K[r.seq] <= Before
                           \/ /\ K[r.seq] = Before + r.total
                              /\ r.seq <= meter'.seq /\ r.total <= meter'.total
                              /\ \A a \in air' : a.seq > r.seq => a.total >= r.total
      BY <1>1, <2>4, BackendKnown DEF KnownFits, BackendStays
    <3>1. K[r.seq] \in Nat
      BY EnergyNumbers
    <3>2. r.seq <= meter.seq /\ r.total <= meter.total =>
            r.seq <= meter'.seq /\ r.total <= meter'.total
      BY <1>2, <1>5
    <3>3. r.total <= meter.total /\ (\A a \in air : a.seq > r.seq => a.total >= r.total) =>
            \A a \in air' : a.seq > r.seq => a.total >= r.total
      BY <1>1, <1>2, <1>5
    <3>4. K[r.seq] <= consumed => K[r.seq] <= consumed'
      BY <1>1, <1>2, <3>1
    <3> QED
      BY <2>1, <3>2, <3>3, <3>4 DEF KnownFits
  <2>6. KnownGrow(K)' /\ EnergyFits(K)'
    BY <1>1, <2>1, BackendKnown DEF KnownGrow
  <2> QED
    BY <2>3, <2>5, <2>6
<1> QED
  BY <1>1, <1>4, <1>6, <1>7, BackendKnown, DeviceMissesNone

LEMMA MeterRestartsKeeps ==
  ASSUME EnergyInv, MeterRestarts
  PROVE  EnergyInv'
<1> USE DEF EnergyInv
<1>1. EnergyTypeOK'
  BY EnergyIdleTyped DEF EnergyTypeOK, MeterRestarts, BackendStays, EnergyAssumption
<1>2. ReadingsInOrder'
  BY DEF MeterRestarts, ReadingsInOrder
<1>3. NoneInvented'
  <2> SUFFICES ASSUME ~forked, ~restarted, ~outlived, air = {}
               PROVE  /\ AirFits'
                      /\ \E K \in [Seqs -> Nat] : (KnownFits(K) /\ KnownGrow(K) /\ EnergyFits(K))'
    BY DEF NoneInvented, BackendStays, MeterRestarts
  <2>1. PICK K \in [Seqs -> Nat] : KnownFits(K) /\ KnownGrow(K) /\ EnergyFits(K)
    BY DEF NoneInvented
  <2>2. meter'.total = 0 /\ consumed' = consumed /\ consumed \in Nat /\ air' = {}
    BY EnergyNumbers DEF MeterRestarts, NoReading
  <2>3. AirFits' /\ Before' = consumed
    BY <2>2 DEF AirFits, Before
  <2>4. BackendStays
    BY DEF MeterRestarts
  <2>5. KnownFits(K)'
    BY <2>1, <2>2, <2>3, <2>4, BackendKnown DEF KnownFits, BackendStays
  <2>6. KnownGrow(K)' /\ EnergyFits(K)'
    BY <2>1, <2>4, BackendKnown DEF KnownGrow
  <2> QED
    BY <2>3, <2>5, <2>6
<1> QED
  BY <1>1, <1>2, <1>3, BackendKnown, DeviceMissesNone DEF MeterRestarts

LEMMA ReadingLostKeeps ==
  ASSUME EnergyInv, ReadingLost
  PROVE  EnergyInv'
<1> USE DEF EnergyInv
<1>1. /\ air' \subseteq air /\ BackendStays
      /\ UNCHANGED <<meter, faults, consumed, meterReset, outlived>>
  BY DEF ReadingLost
<1>2. EnergyTypeOK'
  BY <1>1 DEF EnergyTypeOK, BackendStays
<1>3. ReadingsInOrder'
  BY <1>1, BackendKnown, OrderStays
<1>4. NoneInvented'
  <2> SUFFICES ASSUME ~forked, ~restarted, ~outlived
               PROVE  /\ AirFits'
                      /\ \E K \in [Seqs -> Nat] : (KnownFits(K) /\ KnownGrow(K) /\ EnergyFits(K))'
    BY <1>1 DEF NoneInvented, BackendStays
  <2>1. PICK K \in [Seqs -> Nat] : KnownFits(K) /\ KnownGrow(K) /\ EnergyFits(K)
    BY DEF NoneInvented
  <2>2. AirFits'
    BY <1>1 DEF AirFits, NoneInvented
  <2>3. lastSeq' = lastSeq /\ lastSeq \in Nat
    BY <1>1, EnergyNumbers DEF BackendStays
  <2>4. KnownFits(K)' /\ KnownGrow(K)'
    BY <1>1, <2>1, <2>3, BackendKnown, FitsStay
  <2> QED
    BY <1>1, <2>1, <2>2, <2>4, BackendKnown
<1> QED
  BY <1>1, <1>2, <1>3, <1>4, BackendKnown, DeviceMissesNone

-----------------------------------------------------------------------------
(* The backend's steps                                                     *)

LEMMA InventsNone ==
  ASSUME EnergyInv, NEW c \in Callers, NEW from, NEW m \in EnergyMemos, EnergyGoto(c, from, m),
         Known' \subseteq Known, air' \subseteq air, lastSeq' = lastSeq, forked => forked',
         ~forked' => \A K \in [Seqs -> Nat] :
           KnownFits(K) /\ KnownGrow(K) /\ EnergyFits(K) => EnergyFits(K)'
  PROVE  NoneInvented'
<1> USE DEF EnergyInv
<1>1. UNCHANGED <<meter, consumed, restarted, meterReset, outlived>>
  BY DEF EnergyGoto
<1> SUFFICES ASSUME ~forked', ~restarted, ~outlived
             PROVE  /\ AirFits'
                    /\ \E K \in [Seqs -> Nat] : (KnownFits(K) /\ KnownGrow(K) /\ EnergyFits(K))'
  BY <1>1 DEF NoneInvented
<1>2. PICK K \in [Seqs -> Nat] : KnownFits(K) /\ KnownGrow(K) /\ EnergyFits(K)
  BY DEF NoneInvented
<1>3. AirFits'
  BY <1>1 DEF AirFits, NoneInvented
<1>4. KnownFits(K)' /\ KnownGrow(K)'
  BY <1>1, <1>2, EnergyNumbers, FitsStay
<1> QED
  BY <1>2, <1>3, <1>4

\* A step that is not on its way to the aggregate leaves what is counted.
LEMMA CountStays ==
  ASSUME EnergyTypeOK, NEW c \in Callers, NEW from, NEW m \in EnergyMemos, EnergyGoto(c, from, m),
         m.pc \in {"idle", "seen", "store"}, held' = held, bucket' = bucket,
         NEW K \in [Seqs -> Nat], EnergyFits(K)
  PROVE  EnergyFits(K)'
<1>1. PICK total : /\ IsTotal(total, Owed)
                   /\ bucket.energy + total[Callers] <= K[held.seq]
                   /\ \A d \in Callers : energyCall[d].pc = "add" =>
                        energyCall[d].seen.energy + total[Callers] <= K[held.seq]
  BY DEF EnergyFits
<1>2. PICK after : /\ IsTotal(after, Owed') /\ after[Callers] \in Nat
                   /\ after[Callers] = total[Callers] - DueOf(energyCall[c]) + DueOf(m)
  BY <1>1, OwedMoves
<1>3. DueOf(m) = 0 /\ total[Callers] \in Nat /\ DueOf(energyCall[c]) \in Nat
  BY <1>1, OwedMoves DEF DueOf
<1>4. after[Callers] <= total[Callers]
  BY <1>2, <1>3
<1>5. K[held.seq] \in Nat /\ bucket.energy \in Nat
      /\ \A d \in Callers : energyCall[d].seen.energy \in Nat
  BY EnergyNumbers
<1>6. bucket'.energy + after[Callers] <= K[held'.seq]
  BY <1>1, <1>2, <1>3, <1>4, <1>5
<1>7. ASSUME NEW d \in Callers, energyCall'[d].pc = "add"
      PROVE  energyCall'[d].seen.energy + after[Callers] <= K[held'.seq]
  <2>1. d # c /\ energyCall'[d] = energyCall[d]
    BY <1>7, MemoMoves
  <2>2. energyCall[d].seen.energy + total[Callers] <= K[held.seq]
    BY <1>1, <1>7, <2>1
  <2> QED
    BY <1>2, <1>3, <1>4, <1>5, <2>1, <2>2
<1> QED
  BY <1>2, <1>6, <1>7 DEF EnergyFits

LEMMA MissesNone ==
  ASSUME EnergyTypeOK, NoneMissing,
         NEW c \in Callers, NEW from \in {"idle", "seen", "store"}, NEW m \in EnergyMemos,
         EnergyGoto(c, from, m), m.pc \in {"idle", "seen", "store"},
         UNCHANGED <<held, bucket, rows, overtaken, unadded>>, forked => forked'
  PROVE  NoneMissing'
<1>1. UNCHANGED <<restarted, meterReset>>
  BY DEF EnergyGoto
<1> SUFFICES ASSUME ~forked, ~overtaken, ~unadded, ~restarted, ~meterReset
             PROVE  /\ OneAdds'
                    /\ \E total : IsTotal(total, Owed')
                            /\ bucket.energy + total[Callers] = held.total
                    /\ \E total : IsTotal(total, OwedSamples')
                            /\ bucket.samples + total[Callers] = rows
  BY <1>1 DEF NoneMissing
<1>2. OneAdds'
  BY MemoMoves DEF NoneMissing, OneAdds
<1>3. /\ DueOf(m) = 0 /\ DueSample(m) = 0
      /\ DueOf(energyCall[c]) = 0 /\ DueSample(energyCall[c]) = 0
  BY MemoMoves DEF DueOf, DueSample
<1>4. PICK total : IsTotal(total, Owed) /\ bucket.energy + total[Callers] = held.total
  BY DEF NoneMissing
<1>5. PICK after : IsTotal(after, Owed') /\ after[Callers] = total[Callers] - 0 + 0
  BY <1>3, <1>4, OwedMoves
<1>6. PICK count : IsTotal(count, OwedSamples) /\ bucket.samples + count[Callers] = rows
  BY DEF NoneMissing
<1>7. PICK then : IsTotal(then, OwedSamples') /\ then[Callers] = count[Callers] - 0 + 0
  BY <1>3, <1>6, OwedMoves
<1>8. total[Callers] \in Nat /\ count[Callers] \in Nat
  BY <1>4, <1>6, OwedMoves
<1>9. after[Callers] = total[Callers] /\ then[Callers] = count[Callers]
  BY <1>5, <1>7, <1>8
<1> QED
  BY <1>2, <1>4, <1>5, <1>6, <1>7, <1>9

LEMMA StoreFitsStays ==
  ASSUME EnergyTypeOK, StoreFits, NEW c \in Callers, NEW from, NEW m \in EnergyMemos,
         EnergyGoto(c, from, m), m.pc # "store", held' = held, forked => forked'
  PROVE  StoreFits'
BY MemoMoves DEF StoreFits

LEMMA ArriveKeeps ==
  ASSUME EnergyInv, NEW c \in Callers, Arrive(c)
  PROVE  EnergyInv'
<1> USE DEF EnergyInv
<1>1. PICK a \in air :
        /\ air' = air \ {a}
        /\ IF a.seq > lastSeq
           THEN EnergyGoto(c, "idle", EnergyMemo("seen", a, 0, NoBucket)) /\ lastSeq' = a.seq
           ELSE EnergyGoto(c, "idle", EnergyIdle) /\ UNCHANGED lastSeq
        /\ UNCHANGED <<held, bucket, rows, faults, forked, overtaken, unadded>>
  BY DEF Arrive
<1>2. a \in MeterReadings /\ a.seq \in Nat /\ a.total \in Nat /\ a.seq \in Seqs /\ lastSeq \in Nat
  BY EnergyNumbers
<1>3. air' \subseteq air
  BY <1>1
<1> DEFINE m == IF a.seq > lastSeq THEN EnergyMemo("seen", a, 0, NoBucket) ELSE EnergyIdle
<1>4. /\ m \in EnergyMemos /\ EnergyGoto(c, "idle", m) /\ m.pc \in {"idle", "seen"}
      /\ m.pc = "seen" => m.r = a /\ a.seq > lastSeq
  BY <1>1, <1>2, EnergyIdleTyped DEF EnergyMemo, EnergyMemos, Totals, EnergyAssumption
<1> HIDE DEF m
<1>5. UNCHANGED <<meter, consumed, restarted, meterReset, outlived>>
  BY <1>4 DEF EnergyGoto
<1>6. EnergyTypeOK'
  <2>1. lastSeq' \in Seqs
    BY <1>1, <1>2 DEF EnergyTypeOK
  <2>2. energyCall' \in [Callers -> EnergyMemos]
    BY <1>4, MemoMoves
  <2> QED
    BY <1>1, <1>5, <2>1, <2>2 DEF EnergyTypeOK, EnergyMemos
<1>7. HeldFits'
  BY <1>1, <1>2, <1>4, HeldStays DEF HeldFits
<1>8. Known' \subseteq Known \union {a}
  <2>1. held' \in Known \union {a} /\ Known \subseteq Known \union {a}
    BY <1>1, EnergyNumbers
  <2>2. m.pc \in {"seen", "store"} => m.r \in Known \union {a}
    BY <1>4
  <2> QED
    BY <1>4, <2>1, <2>2, KnownMoves
<1>9. ReadingsInOrder'
  BY <1>1, <1>5, <1>8, OrderStays
<1>10. StoreFits'
  BY <1>1, <1>4, StoreFitsStays
<1>11. NoneMissing'
  BY <1>1, <1>4, MissesNone
<1>12. CASE a.seq <= lastSeq
  <2>1. m.pc = "idle" /\ lastSeq' = lastSeq
    BY <1>1, <1>2, <1>4, <1>12
  <2>2. Known' \subseteq Known
    BY <1>1, <1>4, <2>1, EnergyNumbers, KnownMoves
  <2>3. NoneInvented'
    BY <1>1, <1>3, <1>4, <2>1, <2>2, InventsNone, CountStays
  <2> QED
    BY <1>6, <1>7, <1>9, <1>10, <1>11, <2>3
<1>13. CASE a.seq > lastSeq
  <2>1. lastSeq' = a.seq
    BY <1>1, <1>13
  <2>2. NoneInvented'
    <3> SUFFICES ASSUME ~forked, ~restarted, ~outlived
                 PROVE  /\ AirFits'
                        /\ \E K \in [Seqs -> Nat] : (KnownFits(K) /\ KnownGrow(K) /\ EnergyFits(K))'
      BY <1>1, <1>5 DEF NoneInvented
    <3>1. PICK J \in [Seqs -> Nat] : KnownFits(J) /\ KnownGrow(J) /\ EnergyFits(J)
      BY DEF NoneInvented
    <3>2. AirFits
      BY DEF NoneInvented
    <3>3. AirFits'
      BY <1>3, <1>5, <3>2 DEF AirFits
    <3>4. Before \in Nat /\ Before' = Before /\ Before + a.total <= consumed
          /\ Before + a.total \in Nat
          /\ a.seq <= meter.seq /\ a.total <= meter.total
          /\ \A b \in air : b.seq > a.seq => b.total >= a.total
      BY <1>2, <1>5, <3>2, EnergyNumbers DEF AirFits, Before
    <3>5. PICK K : K = [J EXCEPT ![a.seq] = Before + a.total]
      OBVIOUS
    <3>6. K \in [Seqs -> Nat] /\ K[a.seq] = Before + a.total
          /\ \A n \in Seqs \ {a.seq} : K[n] = J[n]
      BY <1>2, <3>4, <3>5
    <3>7. \A r \in Known : r.seq < a.seq /\ r.seq \in Seqs /\ r.seq \in Nat /\ r.total \in Nat
          /\ J[r.seq] \in Nat
      BY <1>2, <1>13, <3>1, EnergyNumbers DEF KnownFits
    <3>8. \A r \in Known : K[r.seq] = J[r.seq]
      BY <1>2, <3>6, <3>7
    <3>9. KnownFits(K)'
      <4> SUFFICES ASSUME NEW r \in Known \union {a}
                   PROVE  /\ r.seq <= a.seq /\ K[r.seq] <= consumed
                          /\ \/ K[r.seq] <= Before
                             \/ /\ K[r.seq] = Before + r.total
                                /\ r.seq <= meter.seq /\ r.total <= meter.total
                                /\ \A b \in air : b.seq > r.seq => b.total >= r.total
        BY <1>3, <1>5, <1>8, <2>1, <3>4 DEF KnownFits
      <4>1. CASE r = a
        BY <1>2, <3>4, <3>6, <4>1
      <4>2. CASE r \in Known
        BY <1>2, <3>1, <3>7, <3>8, <4>2 DEF KnownFits
      <4> QED
        BY <4>1, <4>2
    <3>10. KnownGrow(K)'
      <4> SUFFICES ASSUME NEW r1 \in Known \union {a}, NEW r2 \in Known \union {a}, r1.seq < r2.seq
                   PROVE  K[r1.seq] <= K[r2.seq] /\ K[r1.seq] + r2.total <= K[r2.seq] + r1.total
        BY <1>8 DEF KnownGrow
      <4>1. CASE r1 \in Known /\ r2 \in Known
        BY <3>1, <3>8, <4>1 DEF KnownGrow
      <4>2. CASE r1 \in Known /\ r2 = a
        <5>1. \/ J[r1.seq] <= Before
              \/ J[r1.seq] = Before + r1.total /\ a.total >= r1.total
          BY <1>1, <1>2, <3>1, <3>7, <4>2 DEF KnownFits
        <5>2. K[r1.seq] = J[r1.seq] /\ K[r2.seq] = Before + a.total /\ J[r1.seq] \in Nat
              /\ r1.total \in Nat
          BY <3>6, <3>7, <3>8, <4>2
        <5> QED
          BY <1>2, <3>4, <4>2, <5>1, <5>2
      <4>3. CASE r1 = a
        BY <1>2, <3>7, <4>3
      <4> QED
        BY <4>1, <4>2, <4>3
    <3>11. K[held.seq] = J[held.seq]
      BY <3>8, EnergyNumbers
    <3>12. EnergyFits(K)
      BY <3>1, <3>11 DEF EnergyFits
    <3>13. EnergyFits(K)'
      BY <1>1, <1>4, <3>6, <3>12, CountStays
    <3> QED
      BY <3>3, <3>6, <3>9, <3>10, <3>13
  <2> QED
    BY <1>6, <1>7, <1>9, <1>10, <1>11, <2>2
<1> QED
  BY <1>2, <1>12, <1>13

LEMMA ReckonKeeps ==
  ASSUME EnergyInv, NEW c \in Callers, Reckon(c)
  PROVE  EnergyInv'
<1> USE DEF EnergyInv
<1> DEFINE r == energyCall[c].r
           dropped == held.seq # 0 /\ r.seq <= held.seq
           m == IF dropped THEN EnergyIdle ELSE EnergyMemo("store", r, Delta(r.total), NoBucket)
<1>1. /\ EnergyGoto(c, "seen", m)
      /\ forked' = (forked \/ \E d \in Callers \ {c} : energyCall[d].pc = "store")
      /\ UNCHANGED <<air, lastSeq, held, bucket, rows, faults, overtaken, unadded>>
  BY DEF Reckon
<1>2. energyCall[c].pc = "seen"
  BY <1>1 DEF EnergyGoto
<1>3. /\ r \in Known /\ r \in MeterReadings /\ r.seq \in Nat /\ r.total \in Nat /\ r.seq >= 1
      /\ held.total \in Nat /\ held.seq \in Nat
  BY <1>2, EnergyNumbers DEF HeldFits
<1>4. Delta(r.total) = IF r.total < held.total THEN 0 ELSE r.total - held.total
  BY <1>3 DEF Delta, HeldFits
<1>5. Delta(r.total) \in Totals
  BY <1>3, <1>4 DEF MeterReadings, Totals, EnergyAssumption
<1>6. m \in EnergyMemos
  BY <1>3, <1>5, EnergyIdleTyped DEF EnergyMemo, EnergyMemos
<1>7. /\ m.pc \in {"idle", "store"}
      /\ m.pc = "store" => m.r = r /\ m.delta = Delta(r.total) /\ r.seq > held.seq
  BY <1>3, EnergyIdleTyped DEF EnergyMemo
<1> HIDE DEF m
<1>8. energyCall' \in [Callers -> EnergyMemos] /\ energyCall'[c] = m
      /\ \A d \in Callers \ {c} : energyCall'[d] = energyCall[d]
  BY <1>1, <1>6, MemoMoves
<1>9. EnergyTypeOK'
  BY <1>1, <1>8 DEF EnergyTypeOK, EnergyMemos, EnergyGoto
<1>10. HeldFits'
  BY <1>1, <1>3, <1>6, <1>7, HeldStays DEF HeldFits
<1>11. Known' \subseteq Known
  <2>1. held' \in Known /\ (m.pc \in {"seen", "store"} => m.r \in Known)
    BY <1>1, <1>3, <1>7, EnergyNumbers
  <2> QED
    BY <1>1, <1>6, <2>1, KnownMoves
<1>12. ReadingsInOrder'
  BY <1>1, <1>11, OrderStays DEF EnergyGoto
<1>13. StoreFits'
  <2> SUFFICES ASSUME ~forked', NEW e \in Callers, energyCall'[e].pc = "store"
               PROVE  /\ energyCall'[e].r.seq > held.seq
                      /\ energyCall'[e].delta = IF energyCall'[e].r.total < held.total THEN 0
                                                ELSE energyCall'[e].r.total - held.total
                      /\ \A d \in Callers : energyCall'[d].pc = "store" => d = e
    BY <1>1 DEF StoreFits
  <2>1. \A d \in Callers \ {c} : energyCall'[d].pc # "store"
    BY <1>1, <1>8
  <2> QED
    BY <1>4, <1>7, <1>8, <2>1
<1>14. NoneInvented'
  BY <1>1, <1>6, <1>7, <1>11, InventsNone, CountStays
<1>15. NoneMissing'
  BY <1>1, <1>6, <1>7, MissesNone
<1> QED
  BY <1>9, <1>10, <1>12, <1>13, <1>14, <1>15

LEMMA StoreThrowsKeeps ==
  ASSUME EnergyInv, NEW c \in Callers, StoreThrows(c)
  PROVE  EnergyInv'
<1> USE DEF EnergyInv
<1>1. /\ faults < MaxFaults /\ faults' = faults + 1
      /\ EnergyGoto(c, "store", EnergyIdle)
      /\ UNCHANGED <<air, lastSeq, held, bucket, rows, forked, overtaken, unadded>>
  BY DEF StoreThrows
<1>2. energyCall' \in [Callers -> EnergyMemos]
  BY <1>1, EnergyIdleTyped, MemoMoves
<1>3. EnergyTypeOK'
  BY <1>1, <1>2 DEF EnergyTypeOK, EnergyMemos, EnergyGoto, EnergyAssumption
<1>4. HeldFits'
  BY <1>1, EnergyIdleTyped, HeldStays DEF HeldFits
<1>5. Known' \subseteq Known
  BY <1>1, EnergyIdleTyped, EnergyNumbers, KnownMoves
<1>6. ReadingsInOrder'
  BY <1>1, <1>5, OrderStays DEF EnergyGoto
<1>7. StoreFits'
  BY <1>1, EnergyIdleTyped, StoreFitsStays
<1>8. NoneInvented'
  BY <1>1, <1>5, EnergyIdleTyped, InventsNone, CountStays
<1>9. NoneMissing'
  BY <1>1, EnergyIdleTyped, MissesNone
<1> QED
  BY <1>3, <1>4, <1>6, <1>7, <1>8, <1>9

LEMMA AddThrowsKeeps ==
  ASSUME EnergyInv, NEW c \in Callers, AddThrows(c)
  PROVE  EnergyInv'
<1> USE DEF EnergyInv
<1>1. /\ faults < MaxFaults /\ faults' = faults + 1
      /\ EnergyGoto(c, "add", EnergyIdle) /\ unadded'
      /\ UNCHANGED <<air, lastSeq, held, bucket, rows, forked, overtaken>>
  BY DEF AddThrows
<1>2. energyCall' \in [Callers -> EnergyMemos]
  BY <1>1, EnergyIdleTyped, MemoMoves
<1>3. EnergyTypeOK'
  BY <1>1, <1>2 DEF EnergyTypeOK, EnergyMemos, EnergyGoto, EnergyAssumption, AddThrows
<1>4. HeldFits'
  BY <1>1, EnergyIdleTyped, HeldStays DEF HeldFits
<1>5. Known' \subseteq Known
  BY <1>1, EnergyIdleTyped, EnergyNumbers, KnownMoves
<1>6. ReadingsInOrder'
  BY <1>1, <1>5, OrderStays DEF EnergyGoto
<1>7. StoreFits'
  BY <1>1, EnergyIdleTyped, StoreFitsStays
<1>8. NoneInvented'
  BY <1>1, <1>5, EnergyIdleTyped, InventsNone, CountStays
<1>9. NoneMissing'
  BY <1>1 DEF NoneMissing
<1> QED
  BY <1>3, <1>4, <1>6, <1>7, <1>8, <1>9

LEMMA RestartKeeps ==
  ASSUME EnergyInv, RestartEnergy
  PROVE  EnergyInv'
<1> USE DEF EnergyInv
<1>1. /\ energyCall' = [c \in Callers |-> EnergyIdle] /\ held' = NoReading /\ lastSeq' = 0
      /\ restarted' /\ meter' = meter /\ air' = air /\ meterReset' = meterReset
  BY DEF RestartEnergy
<1>2. \A c \in Callers : energyCall'[c].pc = "idle"
  BY <1>1, EnergyIdleTyped
<1>3. EnergyTypeOK'
  <2>1. energyCall' \in [Callers -> EnergyMemos]
    BY <1>1, EnergyIdleTyped
  <2> QED
    BY <1>1, <2>1, EnergyIdleTyped
    DEF EnergyTypeOK, EnergyMemos, EnergyAssumption, RestartEnergy, Seqs
<1>4. Known' = {NoReading} /\ NoReading.seq = 0 /\ NoReading.total = 0
  BY <1>1, <1>2 DEF Known, NoReading
<1>5. HeldFits' /\ StoreFits'
  BY <1>1, <1>2, <1>4 DEF HeldFits, StoreFits
<1>6. ReadingsInOrder'
  <2>1. \A r \in air : r.seq \in Nat /\ r.total \in Nat
    BY EnergyNumbers
  <2>2. meter.seq \in Nat /\ meter.total \in Nat
    BY EnergyNumbers
  <2> QED
    BY <1>1, <1>4, <2>1, <2>2 DEF ReadingsInOrder
<1>7. NoneInvented' /\ NoneMissing'
  BY <1>1 DEF NoneInvented, NoneMissing
<1> QED
  BY <1>3, <1>5, <1>6, <1>7

LEMMA StoreReadingKeeps ==
  ASSUME EnergyInv, NEW c \in Callers, StoreReading(c)
  PROVE  EnergyInv'
<1> USE DEF EnergyInv
<1> DEFINE m == [energyCall[c] EXCEPT !.pc = "bucket"]
           r == energyCall[c].r
<1>1. /\ EnergyGoto(c, "store", m) /\ rows' = rows + 1 /\ held' = r
      /\ UNCHANGED <<air, lastSeq, bucket, faults, forked, overtaken, unadded>>
  BY DEF StoreReading
<1>2. energyCall[c].pc = "store"
  BY <1>1 DEF EnergyGoto
<1>3. /\ m \in EnergyMemos /\ m.pc = "bucket" /\ m.delta = energyCall[c].delta
  BY EnergyNumbers DEF EnergyMemos
<1> HIDE DEF m
<1>4. /\ r \in Known /\ r \in MeterReadings /\ r.seq \in Nat /\ r.total \in Nat /\ r.seq >= 1
      /\ held.total \in Nat /\ held.seq \in Nat /\ r.seq \in Seqs /\ held.seq \in Seqs
      /\ energyCall[c].delta \in Nat
  BY <1>2, EnergyNumbers DEF HeldFits
<1>5. energyCall' \in [Callers -> EnergyMemos] /\ energyCall'[c] = m
      /\ \A d \in Callers \ {c} : energyCall'[d] = energyCall[d]
  BY <1>1, <1>3, MemoMoves
<1>6. EnergyTypeOK'
  BY <1>1, <1>4, <1>5, EnergyNumbers DEF EnergyTypeOK, EnergyMemos, EnergyGoto
<1>7. HeldFits'
  BY <1>1, <1>3, <1>4, HeldStays
<1>8. Known' \subseteq Known
  BY <1>1, <1>3, <1>4, KnownMoves
<1>9. ReadingsInOrder'
  BY <1>1, <1>8, OrderStays DEF EnergyGoto
<1>10. StoreFits'
  <2> SUFFICES ASSUME ~forked, NEW e \in Callers, energyCall'[e].pc = "store"
               PROVE  FALSE
    BY <1>1 DEF StoreFits
  <2> QED
    BY <1>2, <1>3, <1>5 DEF StoreFits
<1>11. ~forked => r.seq > held.seq /\ energyCall[c].delta = IF r.total < held.total THEN 0
                                                            ELSE r.total - held.total
  BY <1>2 DEF StoreFits
<1>12. DueOf(energyCall[c]) = 0 /\ DueOf(m) = energyCall[c].delta
       /\ DueSample(energyCall[c]) = 0 /\ DueSample(m) = 1
  BY <1>2, <1>3 DEF DueOf, DueSample
<1>13. NoneInvented'
  <2> SUFFICES ASSUME ~forked, NEW K \in [Seqs -> Nat], KnownFits(K), KnownGrow(K), EnergyFits(K)
               PROVE  EnergyFits(K)'
    BY <1>1, <1>3, <1>8, InventsNone
  <2>1. PICK total : /\ IsTotal(total, Owed)
                     /\ bucket.energy + total[Callers] <= K[held.seq]
                     /\ \A d \in Callers : energyCall[d].pc = "add" =>
                          energyCall[d].seen.energy + total[Callers] <= K[held.seq]
    BY DEF EnergyFits
  <2>2. PICK after : IsTotal(after, Owed') /\ after[Callers] \in Nat
                     /\ after[Callers] = total[Callers] - 0 + energyCall[c].delta
    BY <1>1, <1>3, <1>12, <2>1, OwedMoves
  <2>3. total[Callers] \in Nat
    BY <1>1, <1>3, <2>1, OwedMoves
  <2>4. K[held.seq] <= K[r.seq] /\ K[held.seq] + r.total <= K[r.seq] + held.total
        /\ K[held.seq] \in Nat /\ K[r.seq] \in Nat
    BY <1>4, <1>11, EnergyNumbers DEF KnownGrow
  <2>5. K[held.seq] + energyCall[c].delta <= K[r.seq]
    BY <1>4, <1>11, <2>4
  <2>6. ASSUME NEW n \in Nat, n + total[Callers] <= K[held.seq]
        PROVE  n + after[Callers] <= K[r.seq]
    BY <1>4, <2>2, <2>3, <2>4, <2>5, <2>6
  <2>7. bucket'.energy + after[Callers] <= K[held'.seq]
    BY <1>1, <2>1, <2>6, EnergyNumbers
  <2>8. ASSUME NEW d \in Callers, energyCall'[d].pc = "add"
        PROVE  energyCall'[d].seen.energy + after[Callers] <= K[held'.seq]
    <3>1. energyCall'[d] = energyCall[d]
      BY <1>3, <1>5, <2>8
    <3>2. energyCall[d].seen.energy \in Nat
          /\ energyCall[d].seen.energy + total[Callers] <= K[held.seq]
      BY <2>1, <2>8, <3>1, EnergyNumbers
    <3> QED
      BY <1>1, <2>6, <3>1, <3>2
  <2> QED
    BY <2>2, <2>7, <2>8 DEF EnergyFits
<1>14. NoneMissing'
  <2>1. UNCHANGED <<restarted, meterReset>>
    BY <1>1 DEF EnergyGoto
  <2> SUFFICES ASSUME ~forked, ~overtaken, ~unadded, ~restarted, ~meterReset
               PROVE  /\ OneAdds'
                      /\ \E total : IsTotal(total, Owed')
                              /\ bucket.energy + total[Callers] = r.total
                      /\ \E total : IsTotal(total, OwedSamples')
                              /\ bucket.samples + total[Callers] = rows + 1
    BY <1>1, <2>1 DEF NoneMissing
  <2>2. OneAdds'
    BY <1>1, <1>3, <1>5 DEF NoneMissing, OneAdds
  <2>3. energyCall[c].delta = r.total - held.total
    <3>1. held.total <= r.total
      BY <1>4, <1>11, EnergyNumbers DEF ReadingsInOrder
    <3> QED
      BY <1>4, <1>11, <3>1
  <2>4. PICK total : IsTotal(total, Owed) /\ bucket.energy + total[Callers] = held.total
    BY DEF NoneMissing
  <2>5. PICK after : IsTotal(after, Owed')
        /\ after[Callers] = total[Callers] - 0 + energyCall[c].delta
    BY <1>1, <1>3, <1>12, <2>4, OwedMoves
  <2>6. PICK count : IsTotal(count, OwedSamples) /\ bucket.samples + count[Callers] = rows
    BY DEF NoneMissing
  <2>7. PICK then : IsTotal(then, OwedSamples') /\ then[Callers] = count[Callers] - 0 + 1
    BY <1>1, <1>3, <1>12, <2>6, OwedMoves
  <2>8. total[Callers] \in Nat /\ count[Callers] \in Nat /\ bucket.energy \in Nat
        /\ bucket.samples \in Nat
    BY <1>1, <1>3, <2>4, <2>6, OwedMoves, EnergyNumbers
  <2>9. bucket.energy + after[Callers] = r.total
    BY <1>4, <2>3, <2>4, <2>5, <2>8
  <2>10. bucket.samples + then[Callers] = rows + 1
    BY <2>6, <2>7, <2>8
  <2> QED
    BY <2>2, <2>5, <2>7, <2>9, <2>10
<1> QED
  BY <1>6, <1>7, <1>9, <1>10, <1>13, <1>14

LEMMA ReadBucketKeeps ==
  ASSUME EnergyInv, NEW c \in Callers, ReadBucket(c)
  PROVE  EnergyInv'
<1> USE DEF EnergyInv
<1> DEFINE m == [energyCall[c] EXCEPT !.pc = "add", !.seen = bucket]
<1>1. /\ EnergyGoto(c, "bucket", m)
      /\ overtaken' = (overtaken \/ \E d \in Callers : energyCall[d].pc = "add")
      /\ UNCHANGED <<air, lastSeq, held, bucket, rows, faults, forked, unadded>>
  BY DEF ReadBucket
<1>2. energyCall[c].pc = "bucket"
  BY <1>1 DEF EnergyGoto
<1>3. /\ m \in EnergyMemos /\ m.pc = "add" /\ m.seen = bucket /\ m.delta = energyCall[c].delta
  BY EnergyNumbers DEF EnergyMemos, EnergyTypeOK
<1> HIDE DEF m
<1>4. energyCall' \in [Callers -> EnergyMemos] /\ energyCall'[c] = m
      /\ \A d \in Callers \ {c} : energyCall'[d] = energyCall[d]
  BY <1>1, <1>3, MemoMoves
<1>5. EnergyTypeOK'
  BY <1>1, <1>4 DEF EnergyTypeOK, EnergyMemos, EnergyGoto
<1>6. HeldFits'
  BY <1>1, <1>3, HeldStays DEF HeldFits
<1>7. Known' \subseteq Known
  BY <1>1, <1>3, EnergyNumbers, KnownMoves
<1>8. ReadingsInOrder'
  BY <1>1, <1>7, OrderStays DEF EnergyGoto
<1>9. StoreFits'
  BY <1>1, <1>3, StoreFitsStays
<1>10. Owed' = Owed /\ OwedSamples' = OwedSamples
  <2>1. \A d \in Callers : DueOf(energyCall'[d]) = DueOf(energyCall[d])
                           /\ DueSample(energyCall'[d]) = DueSample(energyCall[d])
    BY <1>2, <1>3, <1>4 DEF DueOf, DueSample
  <2> QED
    BY <2>1 DEF Owed, OwedSamples
<1>11. NoneInvented'
  <2> SUFFICES ASSUME NEW K \in [Seqs -> Nat], EnergyFits(K)
               PROVE  EnergyFits(K)'
    BY <1>1, <1>3, <1>7, InventsNone
  <2> QED
    BY <1>1, <1>3, <1>4, <1>10 DEF EnergyFits
<1>12. NoneMissing'
  <2>1. UNCHANGED <<restarted, meterReset>>
    BY <1>1 DEF EnergyGoto
  <2> SUFFICES ASSUME ~forked, ~overtaken', ~unadded, ~restarted, ~meterReset
               PROVE  OneAdds'
    BY <1>1, <1>10, <2>1 DEF NoneMissing
  <2> QED
    BY <1>1, <1>3, <1>4 DEF OneAdds
<1> QED
  BY <1>5, <1>6, <1>8, <1>9, <1>11, <1>12

LEMMA AddToBucketKeeps ==
  ASSUME EnergyInv, NEW c \in Callers, AddToBucket(c)
  PROVE  EnergyInv'
<1> USE DEF EnergyInv
<1> DEFINE m == energyCall[c]
<1>1. /\ EnergyGoto(c, "add", EnergyIdle)
      /\ bucket' = [energy |-> m.seen.energy + m.delta, samples |-> m.seen.samples + 1]
      /\ UNCHANGED <<air, lastSeq, held, rows, faults, forked, overtaken, unadded>>
  BY DEF AddToBucket
<1>2. m.pc = "add"
  BY <1>1 DEF EnergyGoto
<1>3. /\ m.delta \in Nat /\ m.seen.energy \in Nat /\ m.seen.samples \in Nat
      /\ bucket'.energy = m.seen.energy + m.delta /\ bucket'.samples = m.seen.samples + 1
      /\ bucket.energy \in Nat /\ bucket.samples \in Nat
  BY <1>1, EnergyNumbers
<1>4. energyCall' \in [Callers -> EnergyMemos] /\ energyCall'[c] = EnergyIdle
      /\ \A d \in Callers \ {c} : energyCall'[d] = energyCall[d]
  BY <1>1, EnergyIdleTyped, MemoMoves
<1>5. EnergyTypeOK'
  <2>1. bucket' \in [energy : Nat, samples : Nat]
    BY <1>1, <1>3
  <2> QED
    BY <1>1, <1>4, <2>1 DEF EnergyTypeOK, EnergyMemos, EnergyGoto
<1>6. HeldFits'
  BY <1>1, EnergyIdleTyped, HeldStays DEF HeldFits
<1>7. Known' \subseteq Known
  BY <1>1, EnergyIdleTyped, EnergyNumbers, KnownMoves
<1>8. ReadingsInOrder'
  BY <1>1, <1>7, OrderStays DEF EnergyGoto
<1>9. StoreFits'
  BY <1>1, EnergyIdleTyped, StoreFitsStays
<1>10. DueOf(m) = m.delta /\ DueSample(m) = 1 /\ DueOf(EnergyIdle) = 0 /\ DueSample(EnergyIdle) = 0
  BY <1>2, EnergyIdleTyped DEF DueOf, DueSample
<1>11. NoneInvented'
  <2> SUFFICES ASSUME ~forked, NEW K \in [Seqs -> Nat], KnownFits(K), KnownGrow(K), EnergyFits(K)
               PROVE  EnergyFits(K)'
    BY <1>1, <1>7, EnergyIdleTyped, InventsNone
  <2>1. PICK total : /\ IsTotal(total, Owed)
                     /\ bucket.energy + total[Callers] <= K[held.seq]
                     /\ \A d \in Callers : energyCall[d].pc = "add" =>
                          energyCall[d].seen.energy + total[Callers] <= K[held.seq]
    BY DEF EnergyFits
  <2>2. PICK after : IsTotal(after, Owed') /\ after[Callers] \in Nat
                     /\ after[Callers] = total[Callers] - m.delta + 0
    BY <1>1, <1>10, <2>1, EnergyIdleTyped, OwedMoves
  <2>3. total[Callers] \in Nat /\ K[held.seq] \in Nat
    BY <1>1, <2>1, EnergyIdleTyped, OwedMoves, EnergyNumbers
  <2>4. m.seen.energy + total[Callers] <= K[held.seq]
    BY <1>2, <2>1
  <2>5. bucket'.energy + after[Callers] <= K[held'.seq]
    BY <1>1, <1>3, <2>2, <2>3, <2>4
  <2>6. ASSUME NEW d \in Callers, energyCall'[d].pc = "add"
        PROVE  energyCall'[d].seen.energy + after[Callers] <= K[held'.seq]
    <3>1. energyCall'[d] = energyCall[d]
      BY <1>4, <2>6, EnergyIdleTyped
    <3>2. energyCall[d].seen.energy \in Nat
          /\ energyCall[d].seen.energy + total[Callers] <= K[held.seq]
      BY <2>1, <2>6, <3>1, EnergyNumbers
    <3> QED
      BY <1>1, <1>3, <2>2, <2>3, <3>1, <3>2
  <2> QED
    BY <2>2, <2>5, <2>6 DEF EnergyFits
<1>12. NoneMissing'
  <2>1. UNCHANGED <<restarted, meterReset>>
    BY <1>1 DEF EnergyGoto
  <2> SUFFICES ASSUME ~forked, ~overtaken, ~unadded, ~restarted, ~meterReset
               PROVE  /\ OneAdds'
                      /\ \E total : IsTotal(total, Owed')
                              /\ bucket'.energy + total[Callers] = held.total
                      /\ \E total : IsTotal(total, OwedSamples')
                              /\ bucket'.samples + total[Callers] = rows
    BY <1>1, <2>1 DEF NoneMissing
  <2>2. m.seen = bucket /\ \A d \in Callers : energyCall[d].pc = "add" => d = c
    BY <1>2 DEF NoneMissing, OneAdds
  <2>3. OneAdds'
    BY <1>4, <2>2, EnergyIdleTyped DEF OneAdds
  <2>4. PICK total : IsTotal(total, Owed) /\ bucket.energy + total[Callers] = held.total
    BY DEF NoneMissing
  <2>5. PICK after : IsTotal(after, Owed') /\ after[Callers] = total[Callers] - m.delta + 0
    BY <1>1, <1>10, <2>4, EnergyIdleTyped, OwedMoves
  <2>6. PICK count : IsTotal(count, OwedSamples) /\ bucket.samples + count[Callers] = rows
    BY DEF NoneMissing
  <2>7. PICK then : IsTotal(then, OwedSamples') /\ then[Callers] = count[Callers] - 1 + 0
    BY <1>1, <1>10, <2>6, EnergyIdleTyped, OwedMoves
  <2>8. total[Callers] \in Nat /\ count[Callers] \in Nat
    BY <1>1, <2>4, <2>6, EnergyIdleTyped, OwedMoves
  <2>9. bucket'.energy + after[Callers] = held.total
    BY <1>3, <2>2, <2>4, <2>5, <2>8
  <2>10. bucket'.samples + then[Callers] = rows
    <3>1. bucket'.samples = bucket.samples + 1 /\ then[Callers] = count[Callers] - 1
      BY <1>3, <2>2, <2>7, <2>8
    <3> QED
      BY <1>3, <2>6, <2>8, <3>1
  <2> QED
    BY <2>3, <2>5, <2>7, <2>9, <2>10
<1> QED
  BY <1>5, <1>6, <1>8, <1>9, <1>11, <1>12

LEMMA EnergyStart == EnergyInit => EnergyInv
<1> SUFFICES ASSUME EnergyInit
             PROVE  EnergyInv
  OBVIOUS
<1>1. \A c \in Callers : energyCall[c] = EnergyIdle /\ energyCall[c].pc = "idle"
  BY EnergyIdleTyped DEF EnergyInit
<1>2. NoReading.seq = 0 /\ NoReading.total = 0 /\ NoBucket.energy = 0 /\ NoBucket.samples = 0
  BY DEF NoReading, NoBucket
<1>3. EnergyTypeOK
  <2>1. energyCall \in [Callers -> EnergyMemos] /\ lastSeq \in Seqs
    BY EnergyIdleTyped DEF EnergyInit, Seqs, EnergyAssumption
  <2>2. /\ meter \in MeterReadings /\ air \subseteq MeterReadings /\ held \in MeterReadings
        /\ bucket \in [energy : Nat, samples : Nat] /\ rows \in Nat /\ consumed \in Nat
        /\ faults \in 0..MaxFaults
    BY EnergyIdleTyped DEF EnergyInit, EnergyAssumption
  <2>3. {forked, overtaken, unadded, restarted, meterReset, outlived} \subseteq BOOLEAN
    BY DEF EnergyInit
  <2> QED
    BY <2>1, <2>2, <2>3 DEF EnergyTypeOK, EnergyMemos
<1>4. Known = {NoReading}
  BY <1>1 DEF Known, EnergyInit
<1>5. HeldFits /\ StoreFits
  BY <1>1, <1>2 DEF HeldFits, StoreFits, EnergyInit
<1>6. ReadingsInOrder
  BY <1>2, <1>4 DEF ReadingsInOrder, EnergyInit
<1>7. /\ Owed \in [Callers -> Nat] /\ \A c \in Callers : Owed[c] = 0
      /\ OwedSamples \in [Callers -> Nat] /\ \A c \in Callers : OwedSamples[c] = 0
  BY <1>1 DEF Owed, OwedSamples, DueOf, DueSample
<1>8. (\E total : IsTotal(total, Owed) /\ total[Callers] = 0)
      /\ (\E total : IsTotal(total, OwedSamples) /\ total[Callers] = 0)
  BY <1>7, NothingInTotal
<1>9. NoneInvented
  <2>1. PICK K : K = [n \in Seqs |-> 0]
    OBVIOUS
  <2>2. K \in [Seqs -> Nat] /\ K[0] = 0
    BY <2>1 DEF Seqs, EnergyAssumption
  <2>3. Before = 0 /\ AirFits
    BY <1>2 DEF Before, AirFits, EnergyInit
  <2>4. KnownFits(K)
    BY <1>2, <1>4, <2>2, <2>3 DEF KnownFits, EnergyInit
  <2>5. KnownGrow(K)
    BY <1>2, <1>4, <2>2 DEF KnownGrow
  <2>6. EnergyFits(K)
    BY <1>1, <1>2, <1>8, <2>2 DEF EnergyFits, EnergyInit
  <2> QED
    BY <2>2, <2>3, <2>4, <2>5, <2>6 DEF NoneInvented
<1>10. NoneMissing
  BY <1>1, <1>2, <1>8 DEF NoneMissing, OneAdds, EnergyInit
<1> QED
  BY <1>3, <1>5, <1>6, <1>9, <1>10 DEF EnergyInv

LEMMA EnergyKeeps ==
  ASSUME EnergyInv, [EnergyNext]_energyVars
  PROVE  EnergyInv'
<1>1. CASE EnergyNext
  <2>1. CASE \E c \in Callers : EnergyStep(c)
    BY <2>1, ArriveKeeps, ReckonKeeps, StoreReadingKeeps, StoreThrowsKeeps, ReadBucketKeeps,
       AddToBucketKeeps, AddThrowsKeeps DEF EnergyStep
  <2>2. CASE Meter \/ MeterRestarts \/ ReadingLost \/ RestartEnergy
    BY <2>2, MeterKeeps, MeterRestartsKeeps, ReadingLostKeeps, RestartKeeps
  <2> QED
    BY <1>1, <2>1, <2>2 DEF EnergyNext
<1>2. CASE UNCHANGED energyVars
  <2>1. UNCHANGED <<meter, air, lastSeq, held, bucket, rows, energyCall, faults, consumed, forked,
                    overtaken, unadded, restarted, meterReset, outlived>>
    BY <1>2 DEF energyVars
  <2>2. Known' = Known /\ Owed' = Owed /\ OwedSamples' = OwedSamples /\ Before' = Before
    BY <2>1 DEF Known, Owed, OwedSamples, Before
  <2>3. EnergyTypeOK' /\ HeldFits' /\ StoreFits' /\ ReadingsInOrder'
    BY <2>1, <2>2 DEF EnergyInv, EnergyTypeOK, HeldFits, StoreFits, ReadingsInOrder
  <2>4. \A K : (KnownFits(K) => KnownFits(K)') /\ (KnownGrow(K) => KnownGrow(K)')
              /\ (EnergyFits(K) => EnergyFits(K)')
    BY <2>1, <2>2 DEF KnownFits, KnownGrow, EnergyFits
  <2>5. NoneInvented'
    BY <2>1, <2>4 DEF EnergyInv, NoneInvented, AirFits
  <2>6. NoneMissing'
    BY <2>1, <2>2 DEF EnergyInv, NoneMissing, OneAdds
  <2> QED
    BY <2>3, <2>5, <2>6 DEF EnergyInv
<1> QED
  BY <1>1, <1>2

LEMMA EnergyIsCounted == EnergyInv => EnergyCounted
<1> SUFFICES ASSUME EnergyInv
             PROVE  EnergyCounted
  OBVIOUS
<1> USE DEF EnergyInv
<1>1. NotOvercounted
  <2> SUFFICES ASSUME ~forked, ~restarted, ~outlived
               PROVE  bucket.energy <= consumed
    BY DEF NotOvercounted
  <2>1. PICK K \in [Seqs -> Nat] : KnownFits(K) /\ KnownGrow(K) /\ EnergyFits(K)
    BY DEF NoneInvented
  <2>2. PICK total : IsTotal(total, Owed) /\ bucket.energy + total[Callers] <= K[held.seq]
    BY <2>1 DEF EnergyFits
  <2>3. total[Callers] \in Nat
    BY <2>2 DEF IsTotal
  <2>4. K[held.seq] <= consumed /\ K[held.seq] \in Nat
    BY <2>1, EnergyNumbers DEF KnownFits
  <2> QED
    BY <2>2, <2>3, <2>4, EnergyNumbers
<1>2. CaughtUp
  <2> SUFFICES ASSUME ~forked, ~overtaken, ~unadded, ~restarted, ~meterReset,
                      \A c \in Callers : energyCall[c].pc \notin {"bucket", "add"}
               PROVE  bucket = [energy |-> held.total, samples |-> rows]
    BY DEF CaughtUp
  <2>1. /\ Owed \in [Callers -> Nat] /\ \A c \in Callers : Owed[c] = 0
        /\ OwedSamples \in [Callers -> Nat] /\ \A c \in Callers : OwedSamples[c] = 0
    BY DEF Owed, OwedSamples, DueOf, DueSample
  <2>2. /\ \A total : IsTotal(total, Owed) => total[Callers] = 0
        /\ \A total : IsTotal(total, OwedSamples) => total[Callers] = 0
    BY <2>1, NothingInTotal
  <2>3. bucket.energy + 0 = held.total /\ bucket.samples + 0 = rows
    BY <2>2 DEF NoneMissing
  <2>4. bucket.energy = held.total /\ bucket.samples = rows
    BY <2>3, EnergyNumbers
  <2>5. bucket \in [energy : Nat, samples : Nat]
    BY DEF EnergyTypeOK
  <2> QED
    BY <2>4, <2>5
<1> QED
  BY <1>1, <1>2 DEF EnergyCounted

\* EnergyInv holds of every state: what is counted and still to be counted never
\* passes what the reading held stands for (DeviceEventTelemetryIngestionService).
THEOREM EnergyInvariant == EnergySpec => []EnergyInv
<1>1. EnergyInv /\ [EnergyNext]_energyVars => EnergyInv'
  BY EnergyKeeps
<1> QED
  BY <1>1, EnergyStart, PTL DEF EnergySpec

\* The state of the meter, the readings and the aggregate has its type.
THEOREM EnergyTypeCorrect == EnergySpec => []EnergyTypeOK
<1>1. EnergyInv => EnergyTypeOK
  BY DEF EnergyInv
<1> QED
  BY <1>1, EnergyInvariant, PTL

\* The aggregate counts no energy that was not consumed, and, when nothing restarted
\* or overlapped, all of what the reading held stands for (EnergyService.ingestTelemetry
\* and _updateAggregates).
THEOREM EnergyCountedAlways == EnergySpec => []EnergyCounted
BY EnergyIsCounted, EnergyInvariant, PTL
=============================================================================
