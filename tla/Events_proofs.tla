----------------------------- MODULE Events_proofs -----------------------------
(***************************************************************************)
(* Proofs about Automations, for every set of callers, about Scheduler,    *)
(* for every set of ticks, and about Notifications, for every number of    *)
(* events, tokens and attempts.                                            *)
(***************************************************************************)
EXTENDS Automations, Scheduler, Notifications, Integers, FiniteSetTheorems, TLAPS

-----------------------------------------------------------------------------
(* The rule and its triggers                                               *)

AutoMemos == [pc : {"idle", "evaluate"}, manual : BOOLEAN, seen : BOOLEAN]

Evaluating == {c \in Callers : autoCall[c].pc = "evaluate"}

\* Until triggers overlap, the one being evaluated has read the state as it is.
TriggerReads ==
    /\ \A c, d \in Evaluating : c = d
    /\ \A c \in Evaluating : /\ autoCall[c].seen = triggered
                             /\ ~autoCall[c].manual => ~cooling

\* Until triggers overlap, the process holds a rule back for what happened to it,
\* and for all of it unless it has forgotten.
StateIsTrue ==
    /\ triggered => waiting
    /\ cooling => hot
    /\ ~forgotten => (waiting => triggered) /\ (hot => cooling)

AutoInv ==
    /\ AutoTypeOK /\ autoCall \in [Callers -> AutoMemos]
    /\ ~overlapped => ~doubled /\ TriggerReads /\ StateIsTrue

LEMMA AutoIdleTyped == AutoIdle \in AutoMemos /\ AutoIdle.pc = "idle"
  BY DEF AutoIdle, AutoMemo, AutoMemos

LEMMA AutoStarts == AutoInit => AutoInv
  BY AutoIdleTyped DEF AutoInit, AutoInv, AutoTypeOK, AutoMemos, TriggerReads, StateIsTrue,
                       Evaluating

\* A step that begins and ends no trigger and reads none of the state it changes.
LEMMA QuietKeeps ==
  ASSUME AutoInv, AutoTypeOK',
         UNCHANGED <<autoCall, triggered, cooling, waiting, hot, doubled, overlapped, forgotten>>
  PROVE  AutoInv'
  BY DEF AutoInv, TriggerReads, StateIsTrue, Evaluating

LEMMA RuleKeeps ==
  ASSUME AutoInv, CreateAutomation \/ EditAutomation \/ DeleteAutomation \/ PowerChanges
  PROVE  AutoInv'
<1>1. AutoTypeOK'
  BY DEF AutoInv, AutoTypeOK, CreateAutomation, EditAutomation, DeleteAutomation, PowerChanges,
         RunStays, RuleStays, Readings
<1>2. UNCHANGED <<autoCall, triggered, cooling, waiting, hot, doubled, overlapped, forgotten>>
  BY DEF CreateAutomation, EditAutomation, DeleteAutomation, PowerChanges, RunStays
<1> QED
  BY <1>1, <1>2, QuietKeeps

\* What a trigger makes of its memo.
LEMMA AutoMoves ==
  ASSUME AutoInv, NEW c \in Callers, NEW m \in AutoMemos,
         autoCall' = [autoCall EXCEPT ![c] = m]
  PROVE  /\ autoCall' \in [Callers -> AutoMemos] /\ autoCall'[c] = m
         /\ \A d \in Callers \ {c} : autoCall'[d] = autoCall[d]
  BY DEF AutoInv

LEMMA BeginRunKeeps ==
  ASSUME AutoInv, NEW c \in Callers, BeginRun(c)
  PROVE  AutoInv'
<1>1. PICK manual \in BOOLEAN :
        /\ manual \/ ~cooling
        /\ autoCall' = [autoCall EXCEPT ![c] = AutoMemo("evaluate", manual, triggered)]
        /\ overlapped' = (overlapped \/ \E d \in Callers : autoCall[d].pc = "evaluate")
  BY DEF BeginRun
<1>2. UNCHANGED <<rule, enabled, power, triggered, cooling, waiting, hot, doubled, forgotten>>
  BY DEF BeginRun, RuleStays
<1> DEFINE m == AutoMemo("evaluate", manual, triggered)
<1>3. m \in AutoMemos /\ m.pc = "evaluate" /\ m.manual = manual /\ m.seen = triggered
  BY DEF AutoMemo, AutoMemos, AutoInv, AutoTypeOK
<1> HIDE DEF m
<1>4. /\ autoCall' \in [Callers -> AutoMemos] /\ autoCall'[c] = m
      /\ \A d \in Callers \ {c} : autoCall'[d] = autoCall[d]
  BY <1>1, <1>3, AutoMoves DEF m
<1>5. overlapped' \in BOOLEAN
  BY <1>1 DEF AutoInv, AutoTypeOK
<1>6. AutoTypeOK'
  BY <1>2, <1>4, <1>5 DEF AutoInv, AutoTypeOK, AutoMemos
<1>7. ~overlapped' => ~doubled' /\ TriggerReads' /\ StateIsTrue'
  <2> SUFFICES ASSUME ~overlapped'
               PROVE  ~doubled' /\ TriggerReads' /\ StateIsTrue'
    OBVIOUS
  <2>1. ~overlapped /\ Evaluating = {}
    BY <1>1 DEF Evaluating
  <2>2. Evaluating' = {c}
    BY <1>3, <1>4, <2>1 DEF Evaluating
  <2>3. TriggerReads'
    BY <1>1, <1>2, <1>3, <1>4, <2>2 DEF TriggerReads
  <2> QED
    BY <1>2, <2>1, <2>3 DEF AutoInv, StateIsTrue
<1> QED
  BY <1>4, <1>6, <1>7 DEF AutoInv

LEMMA EvaluateKeeps ==
  ASSUME AutoInv, NEW c \in Callers, Evaluate(c)
  PROVE  AutoInv'
<1> DEFINE m == autoCall[c]
           sharers == {d \in Callers \ {c} : Recovers(m) /\ autoCall[d].pc = "evaluate"}
<1>1. PICK reset \in SUBSET sharers :
        autoCall' = [d \in Callers |->
          IF d = c THEN AutoIdle
          ELSE IF d \in reset THEN [autoCall[d] EXCEPT !.seen = FALSE] ELSE autoCall[d]]
  BY DEF Evaluate
<1>2. /\ m.pc = "evaluate" /\ m \in AutoMemos
      /\ triggered' = (Fires(m) \/ (triggered /\ ~Recovers(m)))
      /\ cooling' = (Fires(m) \/ (cooling /\ ~Recovers(m)))
      /\ waiting' = (Fires(m) \/ (waiting /\ (m.manual \/ power # "low")))
      /\ hot' = (Fires(m) \/ hot)
      /\ doubled' = (doubled \/ (Fires(m) /\ ~m.manual /\ (waiting \/ hot) /\ ~forgotten))
      /\ forgotten' = (forgotten /\ ~Fires(m))
      /\ UNCHANGED <<rule, enabled, power, overlapped>>
  BY DEF Evaluate, Witness, RuleStays, AutoInv
<1>3. autoCall' \in [Callers -> AutoMemos]
  <2>1. \A d \in Callers : [autoCall[d] EXCEPT !.seen = FALSE] \in AutoMemos
    BY DEF AutoInv, AutoMemos
  <2> HIDE DEF m, sharers
  <2> QED
    BY <1>1, <2>1, AutoIdleTyped DEF AutoInv
<1>4. AutoTypeOK'
  BY <1>2, <1>3 DEF AutoInv, AutoTypeOK, AutoMemos, Fires
<1>5. ~overlapped' => ~doubled' /\ TriggerReads' /\ StateIsTrue'
  <2> SUFFICES ASSUME ~overlapped
               PROVE  ~doubled' /\ TriggerReads' /\ StateIsTrue'
    BY <1>2
  <2>1. ~doubled /\ StateIsTrue /\ Evaluating = {c}
        /\ m.seen = triggered /\ (~m.manual => ~cooling)
    BY <1>2 DEF AutoInv, TriggerReads, Evaluating
  \* One that fires had found the rule neither triggered nor, unless asked for,
  \* cooling.
  <2>2. ~doubled'
    BY <1>2, <2>1 DEF StateIsTrue, Fires, Holds
  <2>3. TriggerReads'
    <3>1. \A d \in Callers \ {c} : autoCall[d].pc # "evaluate"
      BY <2>1 DEF Evaluating
    <3>2. sharers = {}
      BY <3>1
    <3>3. \A d \in Callers : autoCall'[d].pc # "evaluate"
      <4> HIDE DEF m, sharers
      <4> QED
        BY <1>1, <3>1, <3>2, AutoIdleTyped
    <3> QED
      BY <3>3 DEF TriggerReads, Evaluating
  <2>4. StateIsTrue'
    BY <1>2, <2>1 DEF StateIsTrue, Fires, Holds, Recovers
  <2> QED
    BY <2>2, <2>3, <2>4
<1> QED
  BY <1>3, <1>4, <1>5 DEF AutoInv

LEMMA FailKeeps ==
  ASSUME AutoInv, NEW c \in Callers, FailAutomation(c)
  PROVE  AutoInv'
<1>1. /\ autoCall' \in [Callers -> AutoMemos] /\ autoCall'[c] = AutoIdle
      /\ \A d \in Callers \ {c} : autoCall'[d] = autoCall[d]
  BY AutoMoves, AutoIdleTyped DEF FailAutomation
<1>2. UNCHANGED <<rule, enabled, power, triggered, cooling, waiting, hot, doubled, overlapped,
                  forgotten>>
  BY DEF FailAutomation, RuleStays
<1>3. AutoTypeOK'
  BY <1>1, <1>2 DEF AutoInv, AutoTypeOK, AutoMemos
<1>4. Evaluating' \subseteq Evaluating /\ \A d \in Evaluating' : autoCall'[d] = autoCall[d]
  BY <1>1, AutoIdleTyped DEF Evaluating
<1> QED
  BY <1>1, <1>2, <1>3, <1>4 DEF AutoInv, TriggerReads, StateIsTrue

LEMMA CooldownKeeps ==
  ASSUME AutoInv, CooldownEnds
  PROVE  AutoInv'
<1>1. AutoTypeOK'
  BY DEF AutoInv, AutoTypeOK, CooldownEnds, RuleStays
<1> QED
  BY <1>1 DEF AutoInv, CooldownEnds, TriggerReads, StateIsTrue, Evaluating

\* What the process forgets, it has forgotten.
LEMMA AutoRestartKeeps ==
  ASSUME AutoInv, RestartAutomations
  PROVE  AutoInv'
<1>1. autoCall' \in [Callers -> AutoMemos] /\ \A c \in Callers : autoCall'[c].pc = "idle"
  BY AutoIdleTyped DEF RestartAutomations
<1>2. /\ triggered' = FALSE /\ cooling' = FALSE
      /\ forgotten' = (forgotten \/ waiting \/ hot)
      /\ UNCHANGED <<rule, enabled, power, waiting, hot, doubled, overlapped>>
  BY DEF RestartAutomations, RuleStays
<1>3. AutoTypeOK'
  BY <1>1, <1>2 DEF AutoInv, AutoTypeOK, AutoMemos
<1>4. Evaluating' = {}
  BY <1>1 DEF Evaluating
<1> QED
  BY <1>1, <1>2, <1>3, <1>4 DEF AutoInv, TriggerReads, StateIsTrue

LEMMA AutoSteps == AutoInv /\ [AutoNext]_autoVars => AutoInv'
<1> SUFFICES ASSUME AutoInv, [AutoNext]_autoVars
             PROVE  AutoInv'
  OBVIOUS
<1>1. CASE UNCHANGED autoVars
  <2>1. AutoTypeOK'
    BY <1>1 DEF autoVars, AutoInv, AutoTypeOK
  <2> QED
    BY <1>1, <2>1, QuietKeeps DEF autoVars
<1> QED
  BY <1>1, RuleKeeps, BeginRunKeeps, EvaluateKeeps, FailKeeps, CooldownKeeps, AutoRestartKeeps
     DEF AutoNext

THEOREM AutoInvariant == AutoSpec => []AutoInv
  BY AutoStarts, AutoSteps, PTL DEF AutoSpec

\* The rule, its triggers and what the process remembers of it keep to their types.
THEOREM RulesTyped == AutoSpec => []AutoTypeOK
<1>1. AutoInv => AutoTypeOK
  BY DEF AutoInv
<1> QED
  BY <1>1, AutoInvariant, PTL

\* A trigger does not fire a rule that is cooling down or has not recovered since it
\* fired, unless triggers have overlapped or a restart has made the process forget
\* that it fired: the state in RAM lags behind what happened only then.
THEOREM NotFiredTwiceAlways == AutoSpec => []NotFiredTwice
<1>1. AutoInv => NotFiredTwice
  BY DEF AutoInv, AutoTypeOK, NotFiredTwice
<1> QED
  BY <1>1, AutoInvariant, PTL

\* Restarts or not, a rule is held back only while it has fired and not been found
\* recovered, or fired within the cooldown, unless triggers have overlapped.
THEOREM HeldForAReasonAlways == AutoSpec => []HeldForAReason
<1>1. AutoInv => HeldForAReason
  BY DEF AutoInv, AutoTypeOK, StateIsTrue, HeldForAReason
<1> QED
  BY <1>1, AutoInvariant, PTL

-----------------------------------------------------------------------------
(* The schedule and its ticks                                              *)

LEMMA Remainder ==
  ASSUME NEW t \in Nat, NEW n \in Nat \ {0}
  PROVE  /\ t % n \in 0..(n - 1) /\ t \div n \in Nat
         /\ t = n * (t \div n) + (t % n)
<1> DEFINE q == t \div n
           s == t % n
<1>1. s = t - n * q
  BY SMTT(20)
<1>2. s \in 0..(n - 1) /\ q \in Int
  OBVIOUS
<1> HIDE DEF q, s
<1>3. q >= 0
  <2> SUFFICES ASSUME q <= -1
               PROVE  FALSE
    BY <1>2
  <2>1. n * q <= -n
    BY <1>2
  <2> QED
    BY <1>1, <1>2, <2>1
<1>4. t = n * q + s
  BY <1>1, <1>2
<1>5. q \in Nat
  BY <1>2, <1>3
<1> QED
  BY <1>2, <1>4, <1>5 DEF q, s

LEMMA RemainderIs ==
  ASSUME NEW q \in Nat, NEW n \in Nat \ {0}, NEW r \in 0..(n - 1)
  PROVE  (n * q + r) % n = r
  BY SMTT(20)

\* Within a day there is a minute at the time of day.
LEMMA NextRunIs ==
  ASSUME NEW tod \in DayTimes, NEW t \in 0..MaxTime
  PROVE  \E u \in Times : NextRun(tod, t) = {u} /\ u % DayLength = tod
<1> DEFINE q == t \div DayLength
           s == t % DayLength
           within == (t + 1)..(t + DayLength)
<1>1. DayLength \in Nat \ {0} /\ tod \in 0..(DayLength - 1) /\ t \in Nat
      /\ MaxTime \in Nat /\ t <= MaxTime
  BY ScheduleAssumption DEF ScheduleAssumption, DayTimes
<1>2. q \in Nat /\ s \in 0..(DayLength - 1) /\ t = DayLength * q + s
  BY <1>1, Remainder
<1> HIDE DEF q, s
<1>3. \E u \in within : u % DayLength = tod
  <2>1. CASE tod > s
    <3>1. (DayLength * q + tod) % DayLength = tod
      BY <1>1, <1>2, RemainderIs
    <3>2. DayLength * q + tod \in within
      BY <1>1, <1>2, <2>1
    <3> QED
      BY <3>1, <3>2
  <2>2. CASE tod <= s
    <3>1. (DayLength * (q + 1) + tod) % DayLength = tod
      BY <1>1, <1>2, RemainderIs
    <3>2. DayLength * (q + 1) + tod \in within
      BY <1>1, <1>2, <2>2
    <3> QED
      BY <3>1, <3>2
  <2> QED
    BY <1>1, <1>2, <2>1, <2>2
<1>4. within \subseteq Times
  BY <1>1 DEF Times
<1> QED
  BY <1>3, <1>4 DEF NextRun

AtMostOne(S) == \A x, y \in S : x = y

LEMMA AtMostOneCard ==
  ASSUME NEW S, AtMostOne(S)
  PROVE  Cardinality(S) <= 1
<1>1. CASE S = {}
  BY <1>1, FS_EmptySet
<1>2. CASE S # {}
  <2>1. PICK x \in S : S = {x}
    BY <1>2 DEF AtMostOne
  <2>2. Cardinality({x}) = 1
    BY FS_Singleton
  <2> QED
    BY <2>1, <2>2
<1> QED
  BY <1>1, <1>2

TickPhases == {"idle", "due", "overdue", "run", "advance", "auto", "end"}
TickMemos == [pc : TickPhases, asOf : 0..MaxTime, due : SUBSET SchedRows]
Holding == {"overdue", "run", "advance"}

\* The schedule: its next run is at most one, at its time of day, and there,
\* until what the run may be wrong for has come about.
RowFits ==
    /\ AtMostOne(sched.next)
    /\ ~sched.there => sched = NoSched
    /\ (~spoilt /\ sched.there /\ sched.daily) => sched.next # {}
    /\ TimeKept

\* What a tick has read of the schedule's time and type is still so.
ReadsFit ==
    /\ (changes = 0 /\ ~sched.there) => \A k \in Tickers : tick[k].due = {}
    /\ \A k \in Tickers :
         /\ AtMostOne(tick[k].due)
         /\ tick[k].pc \in Holding => tick[k].due # {}
         /\ \A row \in tick[k].due :
              /\ AtMostOne(row.next) /\ row.next # {}
              /\ (~spoilt /\ sched.there) => row.daily = sched.daily /\ row.tod = sched.tod

EditMemos == [pc : {"idle", "write"}, tod : SUBSET DayTimes, daily : SUBSET BOOLEAN,
              next : SUBSET Times, seen : DayTimes]

\* An update is about to write a run, at the time it asks for or, if it asks for
\* none, at the one it has read.
EditsFit ==
    /\ edit \in [Callers -> EditMemos]
    /\ \A c \in Callers :
         /\ AtMostOne(edit[c].next)
         /\ edit[c].pc = "write" =>
              /\ edit[c].next # {}
              /\ \A t \in edit[c].next : t % DayLength = Given(edit[c].tod, edit[c].seen)

\* One tick holds the schedule.
OneHolds ==
    \A k, j \in Tickers : (tick[k].pc \in Holding /\ tick[j].pc \in Holding) => k = j

\* Until the keys are forgotten, what was run is among them, and what is about
\* to be run is among them too, and was not run before.
KeysKept ==
    ~forgot =>
      /\ ~firedTwice /\ fired \subseteq keys
      /\ \A k \in Tickers : tick[k].pc = "run" =>
           \A row \in tick[k].due : \A at \in row.next : <<"schedule", at>> \in keys \ fired

SchedInv == SchedTypeOK /\ tick \in [Tickers -> TickMemos] /\ RowFits /\ ReadsFit /\ EditsFit
            /\ OneHolds /\ KeysKept

LEMMA NoSchedTyped ==
  NoSched \in SchedRows /\ NoSched.next = {} /\ ~NoSched.there /\ ~NoSched.on /\ ~NoSched.daily
<1>1. 0 \in DayTimes
  BY ScheduleAssumption DEF ScheduleAssumption, DayTimes
<1> QED
  BY <1>1 DEF NoSched, SchedRows

LEMMA TickIdleTyped == TickIdle \in TickMemos /\ TickIdle.pc = "idle" /\ TickIdle.due = {}
  BY ScheduleAssumption DEF ScheduleAssumption, TickIdle, TickMemos, TickPhases

LEMMA NoEditTyped == NoEdit \in EditMemos /\ NoEdit.pc = "idle" /\ NoEdit.next = {}
<1>1. 0 \in DayTimes
  BY ScheduleAssumption DEF ScheduleAssumption, DayTimes
<1> QED
  BY <1>1 DEF NoEdit, EditMemos

LEMMA TickGotoTyped ==
  ASSUME SchedInv, NEW k \in Tickers, NEW p, NEW t \in TickMemos, TickGoto(k, p, t)
  PROVE  /\ tick' \in [Tickers -> TickMemos] /\ tick'[k] = t /\ tick[k].pc = p
         /\ \A j \in Tickers \ {k} : tick'[j] = tick[j]
  BY DEF SchedInv, TickGoto

\* The type invariant, put together from the memos and a next run that is one.
LEMMA SchedTypedBy ==
  ASSUME tick' \in [Tickers -> TickMemos], clock' \in 0..MaxTime, changes' \in 0..MaxChanges,
         sched' \in SchedRows, AtMostOne(sched'.next), keys' \subseteq RunKeys,
         fired' \subseteq RunKeys, EditsFit',
         {locked', firedTwice', forgot', spoilt'} \subseteq BOOLEAN,
         \A k \in Tickers : tick'[k].pc \in Holding => locked'
  PROVE  SchedTypeOK'
<1>1. Cardinality(sched'.next) <= 1
  BY AtMostOneCard
<1>2. ASSUME NEW c \in Callers
      PROVE  /\ edit'[c].pc \in {"idle", "write"} /\ edit'[c].seen \in DayTimes
             /\ edit'[c].tod \subseteq DayTimes /\ edit'[c].daily \subseteq BOOLEAN
             /\ edit'[c].next \subseteq Times /\ Cardinality(edit'[c].next) <= 1
  <2>1. edit'[c] \in EditMemos /\ AtMostOne(edit'[c].next)
    BY DEF EditsFit
  <2>2. Cardinality(edit'[c].next) <= 1
    BY <2>1, AtMostOneCard
  <2> QED
    BY <2>1, <2>2 DEF EditMemos
<1>3. \A k \in Tickers : tick'[k] \in TickMemos
  OBVIOUS
<1> QED
  BY <1>1, <1>2, <1>3 DEF SchedTypeOK, TickMemos, TickPhases, Holding

\* A step that no update takes.
LEMMA SchedTyped ==
  ASSUME SchedInv, edit' = edit,
         tick' \in [Tickers -> TickMemos], clock' \in 0..MaxTime, changes' \in 0..MaxChanges,
         sched' \in SchedRows, AtMostOne(sched'.next), keys' \subseteq RunKeys,
         fired' \subseteq RunKeys,
         {locked', firedTwice', forgot', spoilt'} \subseteq BOOLEAN,
         \A k \in Tickers : tick'[k].pc \in Holding => locked'
  PROVE  SchedTypeOK' /\ EditsFit'
<1>1. EditsFit'
  BY DEF SchedInv, EditsFit
<1> QED
  BY <1>1, SchedTypedBy

LEMMA SchedStarts == SchedInit => SchedInv
<1> SUFFICES ASSUME SchedInit
             PROVE  SchedInv
  OBVIOUS
<1>1. /\ tick \in [Tickers -> TickMemos]
      /\ \A k \in Tickers : tick[k].pc = "idle" /\ tick[k].due = {}
  BY TickIdleTyped DEF SchedInit
<1>2. sched \in SchedRows /\ sched.next = {} /\ ~sched.there /\ sched = NoSched
  BY NoSchedTyped DEF SchedInit
<1>3. AtMostOne(sched.next)
  BY <1>2 DEF AtMostOne
<1>4. /\ clock \in 0..MaxTime /\ changes \in 0..MaxChanges /\ keys = {} /\ fired = {}
      /\ locked = FALSE /\ firedTwice = FALSE /\ forgot = FALSE /\ spoilt = FALSE
  BY ScheduleAssumption DEF ScheduleAssumption, SchedInit
<1>5. EditsFit
  BY NoEditTyped DEF SchedInit, EditsFit, AtMostOne
<1>6. SchedTypeOK
  <2>1. Cardinality(sched.next) <= 1
    BY <1>3, AtMostOneCard
  <2>2. \A c \in Callers : Cardinality(edit[c].next) <= 1
    BY <1>5, AtMostOneCard DEF EditsFit
  <2>3. \A c \in Callers :
          /\ edit[c].pc \in {"idle", "write"} /\ edit[c].seen \in DayTimes
          /\ edit[c].tod \subseteq DayTimes /\ edit[c].daily \subseteq BOOLEAN
          /\ edit[c].next \subseteq Times
    BY <1>5 DEF EditsFit, EditMemos
  <2> QED
    BY <1>1, <1>2, <1>4, <2>1, <2>2, <2>3 DEF SchedTypeOK, TickMemos, TickPhases
<1> QED
  BY <1>1, <1>2, <1>3, <1>4, <1>5, <1>6
     DEF SchedInv, RowFits, ReadsFit, OneHolds, KeysKept, TimeKept, Holding, AtMostOne

\* What a user does: no tick moves.
LEMMA ChangeKeeps ==
  ASSUME SchedInv, UNCHANGED <<clock, tick, locked, keys, fired, firedTwice, forgot>>,
         changes' \in 0..MaxChanges, changes # 0 => changes' # 0,
         sched' \in SchedRows, spoilt' \in BOOLEAN, RowFits', EditsFit',
         ~sched'.there => changes' # 0 \/ ~sched.there,
         (~spoilt' /\ sched'.there) =>
           \/ \A k \in Tickers : tick[k].due = {}
           \/ ~spoilt /\ sched.there /\ sched'.daily = sched.daily /\ sched'.tod = sched.tod
  PROVE  SchedInv'
<1>1. SchedTypeOK'
  BY SchedTypedBy DEF SchedInv, SchedTypeOK, RowFits, Holding
<1>2. ReadsFit'
  BY DEF SchedInv, ReadsFit
<1>3. OneHolds' /\ KeysKept'
  BY DEF SchedInv, OneHolds, KeysKept
<1> QED
  BY <1>1, <1>2, <1>3 DEF SchedInv

LEMMA AskedTyped ==
  ASSUME NEW S, NEW x \in Asked(S), NEW old \in S
  PROVE  x \subseteq S /\ Given(x, old) \in S
  BY DEF Asked, Given

LEMMA UpdateKeeps ==
  ASSUME SchedInv, NEW c \in Callers, UpdateSchedule(c)
  PROVE  SchedInv'
<1>1. PICK tod \in Asked(DayTimes), daily \in Asked(BOOLEAN \ {sched.daily}) :
        edit' = [edit EXCEPT ![c] = [pc |-> "write", tod |-> tod, daily |-> daily,
                                     next |-> NextRun(Given(tod, sched.tod), clock),
                                     seen |-> sched.tod]]
  BY DEF UpdateSchedule
<1>2. /\ UNCHANGED <<clock, tick, locked, keys, fired, firedTwice, forgot, sched, spoilt>>
      /\ changes' \in 0..MaxChanges /\ changes' # 0
  BY ScheduleAssumption
     DEF ScheduleAssumption, UpdateSchedule, UserAsks, SchedInv, SchedTypeOK
<1>3. sched \in SchedRows /\ clock \in 0..MaxTime /\ sched.tod \in DayTimes
  BY DEF SchedInv, SchedTypeOK, SchedRows
<1>4. /\ tod \subseteq DayTimes /\ daily \subseteq BOOLEAN
      /\ Given(tod, sched.tod) \in DayTimes
  BY <1>3, AskedTyped DEF Asked
<1>5. PICK u \in Times : /\ NextRun(Given(tod, sched.tod), clock) = {u}
                         /\ u % DayLength = Given(tod, sched.tod)
  BY <1>3, <1>4, NextRunIs
<1> DEFINE m == [pc |-> "write", tod |-> tod, daily |-> daily, next |-> {u}, seen |-> sched.tod]
<1>6. m \in EditMemos /\ m.next = {u} /\ m.tod = tod /\ m.seen = sched.tod
  BY <1>3, <1>4 DEF EditMemos
<1>7. edit' = [edit EXCEPT ![c] = m]
  BY <1>1, <1>5
<1> HIDE DEF m
<1>8. EditsFit'
  <2>1. /\ edit' \in [Callers -> EditMemos] /\ edit'[c] = m
        /\ \A d \in Callers \ {c} : edit'[d] = edit[d]
    BY <1>6, <1>7 DEF SchedInv, EditsFit
  <2>2. AtMostOne(m.next) /\ m.next # {}
        /\ \A t \in m.next : t % DayLength = Given(m.tod, m.seen)
    BY <1>5, <1>6 DEF AtMostOne
  <2> QED
    BY <2>1, <2>2 DEF SchedInv, EditsFit
<1>9. RowFits'
  BY <1>2 DEF SchedInv, RowFits, TimeKept
<1> QED
  BY <1>2, <1>3, <1>8, <1>9, ChangeKeeps DEF SchedInv, SchedTypeOK

\* The run an update writes is at the time the row has from it, unless the row it
\* was reckoned by had another.
LEMMA WriteKeeps ==
  ASSUME SchedInv, NEW c \in Callers, WriteUpdate(c)
  PROVE  SchedInv'
<1> DEFINE m == edit[c]
<1>1. /\ m \in EditMemos /\ AtMostOne(m.next) /\ m.next # {} /\ sched \in SchedRows
      /\ \A t \in m.next : t % DayLength = Given(m.tod, m.seen)
      /\ changes \in 0..MaxChanges /\ spoilt \in BOOLEAN
  BY DEF WriteUpdate, SchedInv, SchedTypeOK, EditsFit
<1>2. /\ edit' = [edit EXCEPT ![c] = NoEdit]
      /\ UNCHANGED <<clock, tick, locked, keys, fired, firedTwice, forgot, changes>>
  BY DEF WriteUpdate
<1>3. EditsFit'
  <2>1. /\ edit' \in [Callers -> EditMemos] /\ edit'[c] = NoEdit
        /\ \A d \in Callers \ {c} : edit'[d] = edit[d]
    BY <1>2, NoEditTyped DEF SchedInv, EditsFit
  <2> QED
    BY <2>1, NoEditTyped DEF SchedInv, EditsFit, AtMostOne
<1>4. CASE sched.there
  <2>1. /\ sched' = [sched EXCEPT !.tod = Given(m.tod, @), !.daily = Given(m.daily, @),
                                  !.next = m.next]
        /\ spoilt' = (Held \/ (m.tod = {} /\ m.seen # sched.tod))
    BY <1>4 DEF WriteUpdate
  <2> HIDE DEF m
  <2>2. Given(m.tod, sched.tod) \in DayTimes /\ Given(m.daily, sched.daily) \in BOOLEAN
    BY <1>1 DEF EditMemos, SchedRows, Given
  <2>3. /\ sched' \in SchedRows /\ sched'.there /\ sched'.next = m.next
        /\ sched'.tod = Given(m.tod, sched.tod)
    BY <1>1, <1>4, <2>1, <2>2 DEF SchedRows, EditMemos
  <2>4. ~spoilt' => Given(m.tod, m.seen) = Given(m.tod, sched.tod)
    <3>1. CASE m.tod = {}
      BY <2>1, <3>1
    <3>2. CASE m.tod # {}
      BY <3>2 DEF Given
    <3> QED
      BY <3>1, <3>2
  <2>5. ~spoilt' => \A k \in Tickers : tick[k].due = {}
    BY <2>1 DEF Held
  <2>6. spoilt' \in BOOLEAN
    BY <2>1
  <2>7. RowFits'
    BY <1>1, <2>3, <2>4 DEF RowFits, TimeKept
  <2> QED
    BY <1>1, <1>2, <1>3, <1>4, <2>3, <2>5, <2>6, <2>7, ChangeKeeps
<1>5. CASE ~sched.there
  <2>1. UNCHANGED <<sched, spoilt>>
    BY <1>5 DEF WriteUpdate
  <2>2. RowFits'
    BY <2>1 DEF SchedInv, RowFits, TimeKept
  <2> QED
    BY <1>1, <1>2, <1>3, <1>5, <2>1, <2>2, ChangeKeeps
<1> QED
  BY <1>4, <1>5

LEMMA UserKeeps ==
  ASSUME SchedInv, CreateSchedule \/ PatchSchedule \/ ToggleSchedule \/ DeleteSchedule
  PROVE  SchedInv'
<1>0. sched \in SchedRows /\ clock \in 0..MaxTime /\ AtMostOne(sched.next) /\ spoilt \in BOOLEAN
  BY DEF SchedInv, SchedTypeOK, RowFits
<1>1. /\ UNCHANGED <<clock, tick, locked, keys, fired, firedTwice, forgot, edit>>
      /\ changes' \in 0..MaxChanges /\ changes' # 0
  <2>1. UserAsks /\ edit' = edit
    BY DEF CreateSchedule, PatchSchedule, ToggleSchedule, DeleteSchedule
  <2> QED
    BY <2>1, ScheduleAssumption DEF ScheduleAssumption, UserAsks, SchedInv, SchedTypeOK
<1>2. EditsFit'
  BY <1>1 DEF SchedInv, EditsFit
<1>3. CASE CreateSchedule
  <2>1. PICK daily \in BOOLEAN, tod \in DayTimes :
          /\ sched = NoSched /\ changes = 0 /\ spoilt' = spoilt
          /\ sched' = [there |-> TRUE, on |-> TRUE, daily |-> daily, tod |-> tod,
                       next |-> NextRun(tod, clock)]
    BY <1>3 DEF CreateSchedule
  <2>2. PICK u \in Times : NextRun(tod, clock) = {u} /\ u % DayLength = tod
    BY <1>0, NextRunIs
  <2>3. /\ sched' \in SchedRows /\ sched'.next = {u} /\ sched'.there /\ sched'.tod = tod
    BY <2>1, <2>2 DEF SchedRows
  <2>4. \A k \in Tickers : tick[k].due = {}
    BY <2>1, NoSchedTyped DEF SchedInv, ReadsFit
  <2>5. RowFits'
    BY <2>2, <2>3 DEF RowFits, TimeKept, AtMostOne
  <2> QED
    BY <1>0, <1>1, <1>2, <2>1, <2>3, <2>4, <2>5, ChangeKeeps
<1>4. CASE PatchSchedule
  <2>1. PICK tod \in DayTimes, daily \in BOOLEAN, next \in {sched.next} \cup Asked({clock}) :
          /\ sched' = [sched EXCEPT !.tod = tod, !.daily = daily, !.next = next]
          /\ spoilt' = TRUE /\ sched.there
    BY <1>4 DEF PatchSchedule
  <2>2. next \subseteq Times /\ AtMostOne(next)
    <3>1. clock \in Times
      BY <1>0, ScheduleAssumption DEF ScheduleAssumption, Times
    <3>2. next = sched.next \/ next = {} \/ next = {clock}
      BY DEF Asked
    <3> QED
      BY <1>0, <3>1, <3>2 DEF SchedRows, AtMostOne
  <2>3. sched' \in SchedRows /\ sched'.there /\ sched'.next = next
    BY <1>0, <2>1, <2>2 DEF SchedRows
  <2>4. RowFits'
    BY <2>1, <2>2, <2>3 DEF RowFits, TimeKept
  <2> QED
    BY <1>0, <1>1, <1>2, <2>1, <2>3, <2>4, ChangeKeeps
<1>5. CASE ToggleSchedule
  <2>1. /\ sched' \in SchedRows /\ sched'.next = sched.next /\ sched.there /\ sched'.there
        /\ sched'.daily = sched.daily /\ sched'.tod = sched.tod /\ spoilt' = spoilt
    BY <1>0, <1>5 DEF SchedRows, ToggleSchedule
  <2>2. RowFits'
    BY <2>1 DEF SchedInv, RowFits, TimeKept
  <2> QED
    BY <1>0, <1>1, <1>2, <2>1, <2>2, ChangeKeeps
<1>6. CASE DeleteSchedule
  <2>1. sched' = NoSched /\ spoilt' = spoilt
    BY <1>6 DEF DeleteSchedule
  <2>2. RowFits'
    BY <2>1, NoSchedTyped DEF RowFits, TimeKept, AtMostOne
  <2> QED
    BY <1>0, <1>1, <1>2, <2>1, <2>2, NoSchedTyped, ChangeKeeps
<1> QED
  BY <1>3, <1>4, <1>5, <1>6

\* A tick that has read nothing more, and holds the schedule if it did before.
LEMMA TickKeepsReads ==
  ASSUME SchedInv, NEW k \in Tickers, UNCHANGED <<sched, changes, spoilt>>,
         \A j \in Tickers \ {k} : tick'[j] = tick[j],
         tick'[k].due \subseteq tick[k].due, tick'[k].pc \in Holding => tick'[k].due # {}
  PROVE  ReadsFit'
  BY DEF SchedInv, ReadsFit, AtMostOne

LEMMA BeginTickKeeps ==
  ASSUME SchedInv, NEW k \in Tickers, BeginTick(k)
  PROVE  SchedInv'
<1> DEFINE t == [pc |-> "due", asOf |-> clock,
                 due |-> {row \in {sched} : row.on /\ \E u \in row.next : u <= clock}]
<1>1. t \in TickMemos /\ t.pc \notin Holding /\ t.pc # "run" /\ TickGoto(k, "idle", t)
  BY DEF BeginTick, SchedInv, SchedTypeOK, TickMemos, TickPhases, Holding
<1>2. t.due \subseteq {sched} /\ (t.due # {} => sched.on /\ sched.next # {})
  OBVIOUS
<1> HIDE DEF t
<1>3. /\ tick' \in [Tickers -> TickMemos] /\ tick'[k] = t
      /\ \A j \in Tickers \ {k} : tick'[j] = tick[j]
  BY <1>1, TickGotoTyped
<1>4. UNCHANGED <<clock, sched, locked, keys, fired, firedTwice, forgot, edit, spoilt, changes>>
  BY DEF BeginTick
<1>5. SchedTypeOK' /\ EditsFit'
  BY <1>1, <1>3, <1>4, SchedTyped DEF SchedInv, SchedTypeOK, RowFits, Holding
<1>6. RowFits'
  BY <1>4 DEF SchedInv, RowFits, TimeKept
<1>7. ReadsFit'
  <2>1. ~sched.there => t.due = {}
    BY <1>2, NoSchedTyped DEF SchedInv, RowFits
  <2>2. AtMostOne(t.due) /\ \A row \in t.due : row = sched /\ AtMostOne(row.next) /\ row.next # {}
    BY <1>2 DEF AtMostOne, SchedInv, RowFits
  <2> QED
    BY <1>1, <1>3, <1>4, <2>1, <2>2 DEF SchedInv, ReadsFit
<1>8. OneHolds' /\ KeysKept'
  BY <1>1, <1>3, <1>4 DEF SchedInv, OneHolds, KeysKept
<1> QED
  BY <1>3, <1>5, <1>6, <1>7, <1>8 DEF SchedInv

LEMMA TakeKeeps ==
  ASSUME SchedInv, NEW k \in Tickers, TakeDue(k)
  PROVE  SchedInv'
<1> DEFINE row == CHOOSE r \in tick[k].due : TRUE
           at == CHOOSE t \in row.next : TRUE
           key == <<"schedule", at>>
           skip == tick[k].due = {} \/ locked
           late == ~skip /\ at + Late < tick[k].asOf
           runs == ~skip /\ ~late /\ ~HasRun(key)
           t == IF late THEN [tick[k] EXCEPT !.pc = "overdue"]
                ELSE IF runs THEN [tick[k] EXCEPT !.pc = "run"]
                ELSE [tick[k] EXCEPT !.pc = "auto", !.due = {}]
<1>1. /\ TickGoto(k, "due", t) /\ locked' = (locked \/ late \/ runs)
      /\ keys' = IF runs THEN keys \cup {key} ELSE keys
      /\ UNCHANGED <<clock, sched, fired, firedTwice, forgot, edit, spoilt, changes>>
  BY DEF TakeDue
<1>2. tick[k] \in TickMemos /\ AtMostOne(tick[k].due)
      /\ \A r \in tick[k].due : AtMostOne(r.next) /\ r.next # {}
  BY DEF SchedInv, ReadsFit
<1>3. ~skip => /\ row \in tick[k].due /\ (\A r \in tick[k].due : r = row)
               /\ at \in row.next /\ (\A u \in row.next : u = at) /\ ~locked
               /\ row \in SchedRows
  BY <1>2 DEF AtMostOne, TickMemos
<1>4. runs => key \in RunKeys /\ key \notin keys
  <2> HIDE DEF row, at, skip, late
  <2>1. runs => ~skip /\ key \notin keys
    BY DEF HasRun
  <2>2. ~skip => at \in Times
    BY <1>3 DEF SchedRows
  <2> QED
    BY <2>1, <2>2 DEF RunKeys
<1>5. /\ late => t.pc = "overdue" /\ t.due = tick[k].due
      /\ runs => t.pc = "run" /\ t.due = tick[k].due
      /\ (~late /\ ~runs) => t.pc = "auto" /\ t.due = {}
      /\ t \in TickMemos
  BY <1>2 DEF TickMemos, TickPhases
<1>6. late => ~runs /\ ~skip
  OBVIOUS
<1>7. runs => ~skip
  OBVIOUS
<1> HIDE DEF row, at, key, skip, late, runs, t
<1>8. /\ tick' \in [Tickers -> TickMemos] /\ tick'[k] = t /\ tick[k].pc = "due"
      /\ \A j \in Tickers \ {k} : tick'[j] = tick[j]
  BY <1>1, <1>5, TickGotoTyped
<1>9. t.pc \in Holding => /\ late \/ runs
                        /\ t.due = tick[k].due /\ t.due # {} /\ ~locked
  BY <1>3, <1>5, <1>6, <1>7 DEF Holding
<1>10. locked' \in BOOLEAN /\ (locked => locked')
  <2>1. locked \in BOOLEAN /\ (late \in BOOLEAN) /\ (runs \in BOOLEAN)
    BY DEF SchedInv, SchedTypeOK, late, runs
  <2> QED
    BY <1>1, <2>1
<1>11. \A j \in Tickers : tick[j].pc \in Holding => locked
  BY DEF SchedInv, SchedTypeOK, Holding
<1>12. \A j \in Tickers : tick'[j].pc \in Holding => locked'
  BY <1>1, <1>8, <1>9, <1>10, <1>11
<1>13. keys' \subseteq RunKeys
  BY <1>1, <1>4 DEF SchedInv, SchedTypeOK
<1>14. SchedTypeOK' /\ EditsFit'
  BY <1>1, <1>8, <1>10, <1>12, <1>13, SchedTyped DEF SchedInv, SchedTypeOK, RowFits
<1>15. RowFits'
  BY <1>1 DEF SchedInv, RowFits, TimeKept
<1>16. ReadsFit'
  BY <1>1, <1>5, <1>8, <1>9, TickKeepsReads
<1>17. OneHolds'
  BY <1>8, <1>9, <1>11 DEF SchedInv, OneHolds
<1>18. KeysKept'
  <2> SUFFICES ASSUME ~forgot
               PROVE  /\ fired \subseteq keys'
                      /\ \A j \in Tickers : tick'[j].pc = "run" =>
                           \A r \in tick'[j].due : \A u \in r.next :
                             <<"schedule", u>> \in keys' \ fired
    BY <1>1 DEF SchedInv, KeysKept
  <2>1. fired \subseteq keys /\ keys \subseteq keys'
    BY <1>1 DEF SchedInv, KeysKept
  <2>2. ASSUME NEW j \in Tickers \ {k}, tick'[j].pc = "run",
               NEW r \in tick'[j].due, NEW u \in r.next
        PROVE  <<"schedule", u>> \in keys' \ fired
    BY <1>8, <2>1, <2>2 DEF SchedInv, KeysKept
  <2>3. ASSUME tick'[k].pc = "run", NEW r \in tick'[k].due, NEW u \in r.next
        PROVE  <<"schedule", u>> \in keys' \ fired
    <3>1. runs
      BY <1>5, <1>8, <2>3
    <3>2. r = row /\ u = at
      BY <1>3, <1>5, <1>7, <1>8, <3>1
    <3>3. key \in keys' /\ key \notin fired
      BY <1>1, <1>4, <2>1, <3>1
    <3> QED
      BY <3>2, <3>3 DEF key
  <2> QED
    BY <2>1, <2>2, <2>3
<1> QED
  BY <1>8, <1>14, <1>15, <1>16, <1>17, <1>18 DEF SchedInv

\* The tick that holds the schedule lets it go.
LEMMA LeaveFrees ==
  ASSUME SchedInv, NEW k \in Tickers, NEW p \in Holding, Leave(k, p)
  PROVE  /\ tick' \in [Tickers -> TickMemos] /\ tick[k].pc = p
         /\ tick'[k].pc = "auto" /\ tick'[k].due = {} /\ locked' = FALSE
         /\ \A j \in Tickers \ {k} : tick'[j] = tick[j]
         /\ \A j \in Tickers : tick'[j].pc \notin Holding
<1> DEFINE t == [tick[k] EXCEPT !.pc = "auto", !.due = {}]
<1>1. t \in TickMemos /\ t.pc = "auto" /\ t.due = {}
  BY DEF SchedInv, TickMemos, TickPhases
<1>2. /\ tick' \in [Tickers -> TickMemos] /\ tick'[k] = t /\ tick[k].pc = p
      /\ \A j \in Tickers \ {k} : tick'[j] = tick[j]
  BY <1>1, TickGotoTyped DEF Leave
<1> HIDE DEF t
<1>3. \A j \in Tickers : tick'[j].pc \notin Holding
  BY <1>1, <1>2 DEF SchedInv, OneHolds, Holding
<1> QED
  BY <1>1, <1>2, <1>3 DEF Leave

LEMMA GiveUpKeeps ==
  ASSUME SchedInv, NEW k \in Tickers, GiveUp(k)
  PROVE  SchedInv'
<1>1. /\ tick' \in [Tickers -> TickMemos] /\ tick'[k].pc = "auto" /\ tick'[k].due = {}
      /\ locked' = FALSE /\ (\A j \in Tickers \ {k} : tick'[j] = tick[j])
      /\ \A j \in Tickers : tick'[j].pc \notin Holding
  BY LeaveFrees DEF GiveUp, Holding
<1>2. /\ sched' = [sched EXCEPT !.next = {}] /\ spoilt' = TRUE
      /\ UNCHANGED <<clock, keys, fired, firedTwice, forgot, edit, changes>>
  BY DEF GiveUp
<1>3. /\ sched' \in SchedRows /\ sched'.next = {} /\ sched'.there = sched.there
      /\ sched'.daily = sched.daily /\ sched'.tod = sched.tod /\ sched'.on = sched.on
  BY <1>2 DEF SchedInv, SchedTypeOK, SchedRows
<1>4. ~sched.there => sched' = NoSched
  <2> SUFFICES ASSUME ~sched.there
               PROVE  sched' = sched /\ sched = NoSched
    OBVIOUS
  <2>1. sched = NoSched
    BY DEF SchedInv, RowFits
  <2> QED
    BY <1>2, <2>1 DEF NoSched
<1>5. AtMostOne(sched'.next)
  BY <1>3 DEF AtMostOne
<1>6. SchedTypeOK' /\ EditsFit'
  BY <1>1, <1>2, <1>3, <1>5, SchedTyped DEF SchedInv, SchedTypeOK
<1>7. RowFits'
  BY <1>2, <1>3, <1>4, <1>5 DEF RowFits, TimeKept
<1>8. ReadsFit'
  BY <1>1, <1>2, <1>3 DEF SchedInv, ReadsFit, AtMostOne
<1>9. OneHolds' /\ KeysKept'
  BY <1>1, <1>2 DEF SchedInv, OneHolds, KeysKept, Holding
<1> QED
  BY <1>1, <1>6, <1>7, <1>8, <1>9 DEF SchedInv

LEMMA RunKeeps ==
  ASSUME SchedInv, NEW k \in Tickers, Run(k)
  PROVE  SchedInv'
<1> DEFINE t == [tick[k] EXCEPT !.pc = "advance"]
<1>1. t \in TickMemos /\ t.pc = "advance" /\ t.due = tick[k].due
  BY DEF SchedInv, TickMemos, TickPhases
<1>2. /\ tick' \in [Tickers -> TickMemos] /\ tick'[k] = t /\ tick[k].pc = "run"
      /\ \A j \in Tickers \ {k} : tick'[j] = tick[j]
  BY <1>1, TickGotoTyped DEF Run
<1> HIDE DEF t
<1>3. PICK row \in tick[k].due : \E at \in row.next : Fire(<<"schedule", at>>)
  BY DEF Run
<1>4. PICK at \in row.next : Fire(<<"schedule", at>>)
  BY <1>3
<1>5. UNCHANGED <<clock, sched, locked, keys, forgot, edit, spoilt, changes>>
  BY DEF Run
<1>6. <<"schedule", at>> \in RunKeys
  BY DEF SchedInv, TickMemos, SchedRows, RunKeys
<1>7. fired' \subseteq RunKeys /\ firedTwice' \in BOOLEAN
  BY <1>4, <1>6 DEF Fire, SchedInv, SchedTypeOK
<1>8. \A j \in Tickers : tick'[j].pc \in Holding <=> tick[j].pc \in Holding
  BY <1>1, <1>2 DEF Holding
<1>9. SchedTypeOK' /\ EditsFit'
  BY <1>2, <1>5, <1>7, <1>8, SchedTyped DEF SchedInv, SchedTypeOK, RowFits, Holding
<1>10. RowFits'
  BY <1>5 DEF SchedInv, RowFits, TimeKept
<1>11. ReadsFit'
  BY <1>1, <1>2, <1>5, TickKeepsReads
<1>12. OneHolds'
  BY <1>8 DEF SchedInv, OneHolds
<1>13. KeysKept'
  <2> SUFFICES ASSUME ~forgot
               PROVE  /\ ~firedTwice' /\ fired' \subseteq keys
                      /\ \A j \in Tickers : tick'[j].pc # "run"
    BY <1>5 DEF KeysKept
  <2>1. /\ ~firedTwice /\ fired \subseteq keys /\ <<"schedule", at>> \in keys \ fired
    BY <1>2, <1>4 DEF SchedInv, KeysKept
  <2>2. \A j \in Tickers : tick'[j].pc # "run"
    BY <1>1, <1>2 DEF SchedInv, OneHolds, Holding
  <2> QED
    BY <1>4, <2>1, <2>2 DEF Fire
<1> QED
  BY <1>2, <1>9, <1>10, <1>11, <1>12, <1>13 DEF SchedInv

LEMMA RunThrowsKeeps ==
  ASSUME SchedInv, NEW k \in Tickers, RunThrows(k)
  PROVE  SchedInv'
<1>1. /\ tick' \in [Tickers -> TickMemos] /\ tick'[k].pc = "auto" /\ tick'[k].due = {}
      /\ locked' = FALSE /\ (\A j \in Tickers \ {k} : tick'[j] = tick[j])
      /\ \A j \in Tickers : tick'[j].pc \notin Holding
  BY LeaveFrees DEF RunThrows, Holding
<1>2. /\ UNCHANGED <<clock, sched, keys, fired, firedTwice, forgot, edit, spoilt>>
      /\ changes' \in 0..MaxChanges /\ changes' # 0
  BY ScheduleAssumption DEF ScheduleAssumption, RunThrows, SchedInv, SchedTypeOK
<1>3. SchedTypeOK' /\ EditsFit'
  BY <1>1, <1>2, SchedTyped DEF SchedInv, SchedTypeOK, RowFits
<1>4. RowFits'
  BY <1>2 DEF SchedInv, RowFits, TimeKept
<1>5. ReadsFit'
  BY <1>1, <1>2 DEF SchedInv, ReadsFit, AtMostOne
<1>6. OneHolds' /\ KeysKept'
  BY <1>1, <1>2 DEF SchedInv, OneHolds, KeysKept, Holding
<1> QED
  BY <1>1, <1>3, <1>4, <1>5, <1>6 DEF SchedInv

LEMMA AdvanceKeeps ==
  ASSUME SchedInv, NEW k \in Tickers, Advance(k)
  PROVE  SchedInv'
<1>1. /\ tick' \in [Tickers -> TickMemos] /\ tick'[k].pc = "auto" /\ tick'[k].due = {}
      /\ locked' = FALSE /\ (\A j \in Tickers \ {k} : tick'[j] = tick[j])
      /\ \A j \in Tickers : tick'[j].pc \notin Holding
  BY LeaveFrees DEF Advance, Holding
<1>2. PICK row \in tick[k].due :
        sched' = IF ~sched.there THEN sched
                 ELSE IF row.daily THEN [sched EXCEPT !.next = NextRun(row.tod, tick[k].asOf)]
                 ELSE [sched EXCEPT !.on = FALSE, !.next = {}]
  BY DEF Advance
<1>3. UNCHANGED <<clock, keys, fired, firedTwice, forgot, edit, spoilt, changes>>
  BY DEF Advance
<1>4. row \in SchedRows /\ tick[k].asOf \in 0..MaxTime /\ sched \in SchedRows
  BY DEF SchedInv, SchedTypeOK, TickMemos
<1>5. (~spoilt /\ sched.there) => row.daily = sched.daily /\ row.tod = sched.tod
  BY DEF SchedInv, ReadsFit
<1>6. /\ sched' \in SchedRows /\ sched'.there = sched.there /\ sched'.daily = sched.daily
      /\ sched'.tod = sched.tod /\ AtMostOne(sched'.next)
      /\ ~sched.there => sched' = sched
      /\ (~spoilt /\ sched.there /\ sched.daily) => sched'.next # {}
      /\ (~spoilt /\ sched.there) => \A t \in sched'.next : t % DayLength = sched.tod
  <2>1. CASE ~sched.there
    BY <1>2, <1>4, <2>1 DEF SchedInv, RowFits
  <2>2. CASE sched.there /\ row.daily
    <3>1. row.tod \in DayTimes
      BY <1>4 DEF SchedRows
    <3>2. PICK u \in Times :
            NextRun(row.tod, tick[k].asOf) = {u} /\ u % DayLength = row.tod
      BY <1>4, <3>1, NextRunIs
    <3>3. sched' = [sched EXCEPT !.next = {u}]
      BY <1>2, <2>2, <3>2
    <3>4. /\ sched' \in SchedRows /\ sched'.there = sched.there /\ sched'.daily = sched.daily
          /\ sched'.tod = sched.tod /\ sched'.next = {u}
      BY <1>4, <3>3 DEF SchedRows
    <3> QED
      BY <1>5, <2>2, <3>2, <3>4 DEF AtMostOne
  <2>3. CASE sched.there /\ ~row.daily
    <3>1. sched' = [sched EXCEPT !.on = FALSE, !.next = {}]
      BY <1>2, <2>3
    <3>2. /\ sched' \in SchedRows /\ sched'.there = sched.there /\ sched'.daily = sched.daily
          /\ sched'.tod = sched.tod /\ sched'.next = {}
      BY <1>4, <3>1 DEF SchedRows
    <3> QED
      BY <1>5, <2>3, <3>2 DEF AtMostOne
  <2> QED
    BY <2>1, <2>2, <2>3
<1>7. SchedTypeOK' /\ EditsFit'
  BY <1>1, <1>3, <1>6, SchedTyped DEF SchedInv, SchedTypeOK
<1>8. RowFits'
  <2>1. CASE sched.there
    BY <1>3, <1>6, <2>1 DEF RowFits, TimeKept
  <2>2. CASE ~sched.there
    BY <1>3, <1>6, <2>2 DEF SchedInv, RowFits, TimeKept
  <2> QED
    BY <2>1, <2>2
<1>9. ReadsFit'
  BY <1>1, <1>3, <1>6 DEF SchedInv, ReadsFit, AtMostOne
<1>10. OneHolds' /\ KeysKept'
  BY <1>1, <1>3 DEF SchedInv, OneHolds, KeysKept, Holding
<1> QED
  BY <1>1, <1>7, <1>8, <1>9, <1>10 DEF SchedInv

LEMMA RunAutomationKeeps ==
  ASSUME SchedInv, NEW k \in Tickers, RunAutomation(k)
  PROVE  SchedInv'
<1> DEFINE t == [tick[k] EXCEPT !.pc = "end"]
           key == <<"automation", tick[k].asOf>>
           runs == tick[k].asOf % DayLength = AutoTime /\ ~HasRun(key)
<1>1. t \in TickMemos /\ t.pc = "end" /\ t.due = tick[k].due
  BY DEF SchedInv, TickMemos, TickPhases
<1>2. /\ tick' \in [Tickers -> TickMemos] /\ tick'[k] = t /\ tick[k].pc = "auto"
      /\ \A j \in Tickers \ {k} : tick'[j] = tick[j]
  BY <1>1, TickGotoTyped DEF RunAutomation
<1>3. /\ keys' = IF runs THEN keys \cup {key} ELSE keys
      /\ IF runs THEN Fire(key) ELSE UNCHANGED <<fired, firedTwice>>
      /\ UNCHANGED <<clock, sched, locked, forgot, edit, spoilt, changes>>
  BY DEF RunAutomation
<1>4. key \in RunKeys
  BY ScheduleAssumption DEF ScheduleAssumption, SchedInv, TickMemos, RunKeys, Times
<1>5. runs => key \notin keys
  BY DEF HasRun
<1>6. \A u : key # <<"schedule", u>>
  OBVIOUS
<1> HIDE DEF t, key, runs
<1>7. /\ keys' \in {keys, keys \cup {key}} /\ fired' \in {fired, fired \cup {key}}
      /\ key \in fired' \ fired => key \in keys'
      /\ firedTwice' => firedTwice \/ (key \in fired /\ key \notin keys)
  BY <1>3, <1>5 DEF Fire
<1>8. firedTwice' \in BOOLEAN
  BY <1>3 DEF Fire, SchedInv, SchedTypeOK
<1>9. keys' \subseteq RunKeys /\ fired' \subseteq RunKeys
  BY <1>4, <1>7 DEF SchedInv, SchedTypeOK
<1>10. \A j \in Tickers : tick'[j].pc \in Holding <=> tick[j].pc \in Holding
  BY <1>1, <1>2 DEF Holding
<1>11. SchedTypeOK' /\ EditsFit'
  BY <1>2, <1>3, <1>8, <1>9, <1>10, SchedTyped DEF SchedInv, SchedTypeOK, RowFits, Holding
<1>12. RowFits'
  BY <1>3 DEF SchedInv, RowFits, TimeKept
<1>13. ReadsFit'
  BY <1>1, <1>2, <1>3, TickKeepsReads DEF Holding
<1>14. OneHolds'
  BY <1>10 DEF SchedInv, OneHolds
<1>15. KeysKept'
  <2>1. \A j \in Tickers : tick'[j].pc = "run" =>
          tick[j].pc = "run" /\ tick'[j].due = tick[j].due
    BY <1>1, <1>2
  <2> SUFFICES ASSUME ~forgot
               PROVE  /\ ~firedTwice' /\ fired' \subseteq keys'
                      /\ \A j \in Tickers : tick'[j].pc = "run" =>
                           \A r \in tick'[j].due : \A u \in r.next :
                             <<"schedule", u>> \in keys' \ fired'
    BY <1>3 DEF KeysKept
  <2>2. /\ ~firedTwice /\ fired \subseteq keys
        /\ \A j \in Tickers : tick[j].pc = "run" =>
             \A r \in tick[j].due : \A u \in r.next : <<"schedule", u>> \in keys \ fired
    BY DEF SchedInv, KeysKept
  <2> QED
    BY <1>6, <1>7, <2>1, <2>2
<1> QED
  BY <1>2, <1>11, <1>12, <1>13, <1>14, <1>15 DEF SchedInv

LEMMA EndTickKeeps ==
  ASSUME SchedInv, NEW k \in Tickers, EndTick(k)
  PROVE  SchedInv'
<1>1. /\ tick' \in [Tickers -> TickMemos] /\ tick'[k] = TickIdle /\ tick[k].pc = "end"
      /\ \A j \in Tickers \ {k} : tick'[j] = tick[j]
  BY TickGotoTyped, TickIdleTyped DEF EndTick
<1>2. /\ UNCHANGED <<clock, sched, locked, fired, firedTwice, edit, spoilt, changes>>
      /\ keys' \in {keys, {}} /\ forgot' \in BOOLEAN /\ (~forgot' => ~forgot /\ keys' = keys)
  BY DEF EndTick, SchedInv, SchedTypeOK
<1>3. \A j \in Tickers : tick'[j].pc \in Holding <=> tick[j].pc \in Holding
  BY <1>1, TickIdleTyped DEF Holding
<1>4. SchedTypeOK' /\ EditsFit'
  BY <1>1, <1>2, <1>3, SchedTyped DEF SchedInv, SchedTypeOK, RowFits, Holding
<1>5. RowFits'
  BY <1>2 DEF SchedInv, RowFits, TimeKept
<1>6. ReadsFit'
  BY <1>1, <1>2, TickIdleTyped, TickKeepsReads DEF Holding
<1>7. OneHolds'
  BY <1>3 DEF SchedInv, OneHolds
<1>8. \A j \in Tickers : tick'[j].pc = "run" => tick'[j] = tick[j]
  BY <1>1, TickIdleTyped
<1>9. KeysKept'
  BY <1>2, <1>8 DEF SchedInv, KeysKept
<1> QED
  BY <1>1, <1>4, <1>5, <1>6, <1>7, <1>9 DEF SchedInv

LEMMA ClockKeeps ==
  ASSUME SchedInv, Passes
  PROVE  SchedInv'
<1>1. /\ UNCHANGED <<sched, tick, locked, keys, fired, firedTwice, forgot, edit, spoilt,
                     changes>>
      /\ clock' \in 0..MaxTime
  BY ScheduleAssumption DEF ScheduleAssumption, Passes, SchedInv, SchedTypeOK
<1>2. SchedTypeOK' /\ EditsFit'
  BY <1>1, SchedTyped DEF SchedInv, SchedTypeOK, RowFits, Holding
<1> QED
  BY <1>1, <1>2 DEF SchedInv, RowFits, TimeKept, ReadsFit, OneHolds, KeysKept

LEMMA SchedulerRestartKeeps ==
  ASSUME SchedInv, RestartScheduler
  PROVE  SchedInv'
<1>1. /\ tick' \in [Tickers -> TickMemos]
      /\ \A k \in Tickers : tick'[k].pc = "idle" /\ tick'[k].due = {}
  BY TickIdleTyped DEF RestartScheduler
<1>2. /\ locked' = FALSE /\ keys' = {} /\ fired' = {} /\ firedTwice' = FALSE /\ forgot' = FALSE
      /\ UNCHANGED <<clock, sched, spoilt>> /\ changes' \in 0..MaxChanges
      /\ edit' = [c \in Callers |-> NoEdit]
  BY ScheduleAssumption DEF ScheduleAssumption, RestartScheduler, SchedInv, SchedTypeOK
<1>3. \A k \in Tickers : tick'[k].pc \notin Holding
  BY <1>1 DEF Holding
<1>4. EditsFit'
  BY <1>2, NoEditTyped DEF EditsFit, AtMostOne
<1>5. SchedTypeOK'
  BY <1>1, <1>2, <1>3, <1>4, SchedTypedBy DEF SchedInv, SchedTypeOK, RowFits
<1>6. RowFits'
  BY <1>2 DEF SchedInv, RowFits, TimeKept
<1> QED
  BY <1>1, <1>2, <1>3, <1>4, <1>5, <1>6 DEF SchedInv, ReadsFit, OneHolds, KeysKept, AtMostOne

LEMMA SchedSteps == SchedInv /\ [SchedNext]_schedVars => SchedInv'
<1> SUFFICES ASSUME SchedInv, [SchedNext]_schedVars
             PROVE  SchedInv'
  OBVIOUS
<1>1. ASSUME NEW k \in Tickers, TickStep(k)
      PROVE  SchedInv'
  BY <1>1, BeginTickKeeps, TakeKeeps, GiveUpKeeps, RunKeeps, RunThrowsKeeps, AdvanceKeeps,
     RunAutomationKeeps, EndTickKeeps DEF TickStep
<1>2. CASE UNCHANGED schedVars
  BY <1>2 DEF schedVars, SchedInv, SchedTypeOK, RowFits, TimeKept, ReadsFit, EditsFit, OneHolds,
              KeysKept
<1> QED
  BY <1>1, <1>2, UpdateKeeps, WriteKeeps, UserKeeps, ClockKeeps, SchedulerRestartKeeps
     DEF SchedNext

THEOREM SchedInvariant == SchedSpec => []SchedInv
  BY SchedStarts, SchedSteps, PTL DEF SchedSpec

(* The schedule and its ticks keep to their types: a tick that runs, gives *)
(* up or moves the schedule on has it locked, and there is one next run.   *)
THEOREM SchedulesTyped == SchedSpec => []SchedTypeOK
<1>1. SchedInv => SchedTypeOK
  BY DEF SchedInv
<1> QED
  BY <1>1, SchedInvariant, PTL

(* However ticks overlap, fail and are cut by restarts, a process starts   *)
(* each due run once, until it forgets its keys.                           *)
THEOREM FiredOnceAlways == SchedSpec => []FiredOnce
<1>1. SchedInv => FiredOnce
  BY DEF SchedInv, KeysKept, FiredOnce
<1> QED
  BY <1>1, SchedInvariant, PTL

(* An enabled daily schedule keeps a next run, at its time of day, until a *)
(* run is given up, a patch writes the time without the run or the run     *)
(* itself, or an update meets a tick that has read the row, or another     *)
(* change of its time; the next update that meets neither puts it right.   *)
THEOREM ScheduleKeptAlways == SchedSpec => []ScheduleKept
<1>1. SchedInv => ScheduleKept
  BY DEF SchedInv, RowFits, ScheduleKept, StillScheduled
<1> QED
  BY <1>1, SchedInvariant, PTL
-----------------------------------------------------------------------------
(* Notifications and their deliveries                                      *)

\* Of identifiers given in order the next is none that was given.
LEMMA NextIsFresh ==
  ASSUME NEW limit \in Nat, NEW S \in SUBSET (1..limit),
         \A x \in S, y \in 1..limit : y < x => y \in S,
         NEW k \in 1..limit, k = Cardinality(S) + 1
  PROVE  k \notin S /\ \A y \in 1..limit : y < k => y \in S
<1>1. IsFiniteSet(1..limit)
  BY FS_Interval
<1>2. IsFiniteSet(S) /\ Cardinality(S) \in Nat
  BY <1>1, FS_Subset, FS_CardinalityType
<1>3. k \notin S
  <2> SUFFICES ASSUME k \in S
               PROVE  FALSE
    OBVIOUS
  <2>1. 1..k \in SUBSET S
    OBVIOUS
  <2>2. Cardinality(1..k) <= Cardinality(S)
    BY <1>2, <2>1, FS_Subset
  <2>3. Cardinality(1..k) = k
    <3>1. k \in Int /\ k >= 1
      OBVIOUS
    <3>2. \A b \in Int : Cardinality(1..b) = IF 1 > b THEN 0 ELSE b - 1 + 1
      BY FS_Interval
    <3> QED
      BY <3>1, <3>2
  <2> QED
    BY <1>2, <2>2, <2>3
<1>4. ASSUME NEW y \in 1..limit, y < k, y \notin S
      PROVE  FALSE
  <2>1. S \in SUBSET (1..(y - 1))
    <3> SUFFICES ASSUME NEW x \in S
                 PROVE  x < y
      OBVIOUS
    <3> QED
      BY <1>4
  <2>2. IsFiniteSet(1..(y - 1)) /\ Cardinality(1..(y - 1)) = y - 1
    <3>1. y - 1 \in Int /\ y - 1 >= 0
      OBVIOUS
    <3>2. \A b \in Int : Cardinality(1..b) = IF 1 > b THEN 0 ELSE b - 1 + 1
      BY FS_Interval
    <3>3. \A b \in Int : IsFiniteSet(1..b)
      BY FS_Interval
    <3>4. Cardinality(1..(y - 1)) = IF 1 > y - 1 THEN 0 ELSE (y - 1) - 1 + 1
      BY <3>1, <3>2
    <3> QED
      BY <3>1, <3>3, <3>4
  <2>3. Cardinality(S) <= y - 1
    BY <2>1, <2>2, FS_Subset
  <2> QED
    BY <1>2, <1>4, <2>3
<1> QED
  BY <1>3, <1>4

NoteMemos == [pc : {"idle", "find", "insert", "tokens", "enqueue", "release"},
              key : SUBSET Events, word : {"none", "DEFERRED", "DELIVERED"},
              n : 0..MaxNotes, toks : SUBSET PushTokens, rows : SUBSET Notes]
WorkerMemos == [pc : {"idle", "pick", "send", "answer", "note", "failed", "catch"},
                batch : SUBSET Deliveries, d : 0..MaxDeliveries, seen : 0..MaxAttempts,
                result : {"none", "ok", "invalid", "refused", "thrown"}]
NoteRows == [status : {"none", "DEFERRED", "DELIVERED", "FAILED"}, key : SUBSET Events]
ItemRows == [status : {"none"} \cup Waiting \cup Final, n : 0..MaxNotes,
             t : SUBSET PushTokens, attempts : 0..MaxAttempts]

Used == {n \in Notes : note[n].key # {}}
Queued == {d \in Deliveries : queue[d].n # 0}

\* A row has its key, and a delivery its notification: if the delivery is gone,
\* so is that.
RowsFit ==
    /\ \A n \in Notes : note[n].status # "none" => n \in Used
    /\ \A n \in Used, m \in Notes : m < n => m \in Used
    /\ \A d \in Queued, e \in Deliveries : e < d => e \in Queued
    /\ \A d \in Queued : /\ queue[d].n \in Used
                         /\ queue[d].status = "none" => note[queue[d].n].status = "none"
    /\ \A c \in Dispatchers : noteCall[c].pc \in {"find", "insert"} => noteCall[c].key # {}

\* A notification fails by a delivery that has spent its attempts.
FailedFits ==
    \A n \in Notes : note[n].status = "FAILED" =>
      \E d \in Deliveries : queue[d].n = n /\ queue[d].status = "DEAD_LETTER"

Open == Waiting \cup {"none"}

\* What the record of any delivery says happened.
Happened(item, tried, pushed, isCut) ==
    /\ item.attempts <= tried
    /\ item.status = "SENT" => pushed >= 1
    /\ item.status = "DEAD_LETTER" => tried >= MaxAttempts
    /\ ~isCut => pushed <= 1 /\ tried <= MaxAttempts

\* A delivery the worker is not on.
Rests(item, tried, pushed, isCut) ==
    /\ item.n = 0 => item.status = "none" /\ tried = 0 /\ pushed = 0
    /\ item.status \in Waiting =>
         /\ item.attempts < MaxAttempts
         /\ ~isCut => pushed = 0 /\ tried = item.attempts

HasAsked(w) == w.pc \in {"answer", "note", "catch"} \/ (w.pc = "failed" /\ w.result # "none")

\* The delivery the worker is on.
Works(w, item, tried, pushed, isCut) ==
    /\ item.n # 0 /\ w.seen <= tried
    /\ item.status \in Waiting => item.attempts < MaxAttempts
    /\ w.pc \in {"send", "answer", "failed"} => item.status \in Open
    /\ w.pc = "send" => /\ w.result = "none" /\ w.seen < MaxAttempts
                        /\ w.seen = item.attempts
                        /\ ~isCut => tried = w.seen /\ pushed = 0
    /\ HasAsked(w) =>
         /\ w.seen < MaxAttempts /\ w.seen + 1 <= tried
         /\ w.result = "ok" => pushed >= 1
         /\ ~isCut => tried = w.seen + 1 /\ (w.result # "ok" => pushed = 0)
    /\ (w.pc = "note" /\ w.result = "ok") => item.status \in {"SENT", "none"}
    /\ (w.pc = "note" /\ w.result # "ok") =>
         item.status \in {"DEAD_LETTER", "none"} /\ w.seen + 1 >= MaxAttempts
    /\ w.pc = "catch" => /\ ~isCut => w.result # "ok"
                         /\ item.status = "DEAD_LETTER" => w.seen + 1 >= MaxAttempts

WorkerFits ==
    /\ worker.d = 0 <=> worker.pc \in {"idle", "pick"}
    /\ worker.d = 0 => worker.result = "none"
    /\ worker.d \in worker.batch \cup {0}
    /\ \A d \in worker.batch : d \in Queued /\ (d # worker.d => queue[d].status \in Open)

DeliveriesFit ==
    /\ \A d \in Deliveries : Happened(queue[d], tries[d], pushes[d], d \in cut)
    /\ \A d \in Deliveries \ {worker.d} : Rests(queue[d], tries[d], pushes[d], d \in cut)
    /\ worker.d # 0 => Works(worker, queue[worker.d], tries[worker.d], pushes[worker.d],
                             worker.d \in cut)

NoteInv == NoteTypeOK /\ RowsFit /\ FailedFits /\ WorkerFits /\ DeliveriesFit

LEMMA NoteTyped ==
  NoteTypeOK <=>
    /\ note \in [Notes -> NoteRows] /\ queue \in [Deliveries -> ItemRows]
    /\ active \subseteq PushTokens /\ lately \subseteq Events /\ quiet \in BOOLEAN
    /\ noteCall \in [Dispatchers -> NoteMemos] /\ worker \in WorkerMemos
    /\ notDue \subseteq Deliveries /\ cut \subseteq Deliveries
    /\ pushes \in [Deliveries -> Nat] /\ tries \in [Deliveries -> Nat] /\ cuts \in 0..MaxCuts
  BY DEF NoteTypeOK, NoteRows, ItemRows, NoteMemos, WorkerMemos

LEMMA NoteMemoTyped ==
  /\ NoteIdle \in NoteMemos /\ NoteIdle.pc = "idle"
  /\ WorkerIdle \in WorkerMemos /\ WorkerIdle.pc = "idle" /\ WorkerIdle.d = 0
  /\ WorkerIdle.batch = {} /\ WorkerIdle.result = "none"
  BY NoticeAssumption DEF NoticeAssumption, NoteIdle, NoteMemo, NoteMemos, WorkerIdle, WorkerMemos

LEMMA AfterNoteTyped ==
  ASSUME NEW m \in NoteMemos, NEW n \in Notes
  PROVE  AfterNote(m, n) \in NoteMemos /\ AfterNote(m, n).pc \in {"idle", "tokens"}
<1> DEFINE k == [m EXCEPT !.pc = "tokens", !.n = n]
<1>1. n \in 0..MaxNotes
  BY DEF Notes
<1>2. k \in NoteMemos /\ k.pc = "tokens"
  BY <1>1 DEF NoteMemos
<1>3. AfterNote(m, n) = IF m.word = "DEFERRED" THEN NoteIdle ELSE k
  BY DEF AfterNote
<1> QED
  BY <1>2, <1>3, NoteMemoTyped

LEMMA NoteStarts == NoteInit => NoteInv
<1> SUFFICES ASSUME NoteInit
             PROVE  NoteInv
  OBVIOUS
<1>1. NoNote \in NoteRows /\ NoItem \in ItemRows /\ NoNote.key = {} /\ NoNote.status = "none"
      /\ NoItem.n = 0 /\ NoItem.status = "none" /\ NoItem.attempts = 0
  BY NoticeAssumption DEF NoticeAssumption, NoNote, NoItem, NoteRows, ItemRows
<1>2. /\ note \in [Notes -> NoteRows] /\ (\A n \in Notes : note[n] = NoNote)
      /\ queue \in [Deliveries -> ItemRows] /\ (\A d \in Deliveries : queue[d] = NoItem)
      /\ noteCall \in [Dispatchers -> NoteMemos] /\ (\A c \in Dispatchers : noteCall[c] = NoteIdle)
      /\ worker = WorkerIdle
      /\ pushes \in [Deliveries -> Nat] /\ tries \in [Deliveries -> Nat]
      /\ \A d \in Deliveries : pushes[d] = 0 /\ tries[d] = 0
  BY <1>1, NoteMemoTyped DEF NoteInit
<1>3. NoteTypeOK
  BY <1>2, NoteTyped, NoteMemoTyped, NoticeAssumption DEF NoteInit, NoticeAssumption
<1>4. RowsFit /\ FailedFits
  BY <1>1, <1>2, NoteMemoTyped DEF RowsFit, FailedFits, Used, Queued
<1>5. WorkerFits
  BY <1>2, NoteMemoTyped DEF WorkerFits
<1>6. DeliveriesFit
  BY <1>1, <1>2, NoteMemoTyped, NoticeAssumption
     DEF DeliveriesFit, Happened, Rests, Waiting, NoticeAssumption
<1> QED
  BY <1>3, <1>4, <1>5, <1>6 DEF NoteInv

\* What leaves the worker and the deliveries alone.
LEMMA QueueUntouched ==
  ASSUME NoteInv, WorkerStays, queue' = queue
  PROVE  WorkerFits' /\ DeliveriesFit' /\ Queued' = Queued
<1>1. Queued' = Queued
  BY DEF Queued
<1> QED
  BY <1>1 DEF NoteInv, WorkerStays, WorkerFits, DeliveriesFit

LEMMA NoteGotoTyped ==
  ASSUME NoteInv, NEW c \in Dispatchers, NEW p, NEW m \in NoteMemos, NoteGoto(c, p, m)
  PROVE  /\ noteCall' \in [Dispatchers -> NoteMemos] /\ noteCall'[c] = m /\ noteCall[c].pc = p
         /\ (\A d \in Dispatchers \ {c} : noteCall'[d] = noteCall[d]) /\ WorkerStays
  BY NoteTyped DEF NoteInv, NoteGoto

\* A step of a dispatcher that writes no row.
LEMMA DispatchKeeps ==
  ASSUME NoteInv, NEW c \in Dispatchers, NEW p, NEW m \in NoteMemos, NoteGoto(c, p, m),
         m.pc \in {"find", "insert"} => m.key # {},
         UNCHANGED <<note, queue, active, quiet>>, lately' \subseteq Events
  PROVE  NoteInv'
<1>1. /\ noteCall' \in [Dispatchers -> NoteMemos] /\ noteCall'[c] = m
      /\ (\A d \in Dispatchers \ {c} : noteCall'[d] = noteCall[d]) /\ WorkerStays
  BY NoteGotoTyped
<1>2. NoteTypeOK'
  BY <1>1 DEF NoteInv, NoteTypeOK, WorkerStays, NoteMemos
<1>3. Used' = Used /\ Queued' = Queued
  BY DEF Used, Queued
<1>4. RowsFit' /\ FailedFits'
  BY <1>1, <1>3 DEF NoteInv, RowsFit, FailedFits
<1> QED
  BY <1>1, <1>2, <1>4, QueueUntouched DEF NoteInv
LEMMA EventKeeps ==
  ASSUME NoteInv, NEW c \in Dispatchers, NEW k \in Events, BeginEvent(c, k)
  PROVE  NoteInv'
<1>0. lately \subseteq Events
  BY DEF NoteInv, NoteTypeOK
<1>1. PICK word \in {"DEFERRED", "DELIVERED"} :
        NoteGoto(c, "idle", NoteMemo("find", {k}, word, 0, {}, {}))
  BY DEF BeginEvent
<1> DEFINE m == NoteMemo("find", {k}, word, 0, {}, {})
<1>2. m \in NoteMemos /\ m.key # {}
  BY NoticeAssumption DEF NoticeAssumption, NoteMemo, NoteMemos
<1>3. UNCHANGED <<note, queue, active, quiet>> /\ lately' \subseteq Events
  BY <1>0 DEF BeginEvent
<1> HIDE DEF m
<1> QED
  BY <1>1, <1>2, <1>3, DispatchKeeps DEF m

LEMMA QuietDispatchKeeps ==
  ASSUME NoteInv, NEW c \in Dispatchers, FindNote(c) \/ FindTokens(c) \/ BeginRelease(c)
  PROVE  NoteInv'
<1>0. noteCall[c] \in NoteMemos /\ active \subseteq PushTokens /\ lately \subseteq Events
  BY NoteTyped DEF NoteInv
<1>1. CASE FindNote(c)
  <2>1. UNCHANGED <<note, queue, active, lately, quiet>>
    BY <1>1 DEF FindNote
  <2>2. noteCall[c].pc = "find"
    BY <1>1 DEF FindNote, NoteGoto
  <2>3. noteCall[c].key # {}
    BY <2>2 DEF NoteInv, RowsFit
  <2>4. CASE NoteGoto(c, "find", [noteCall[c] EXCEPT !.pc = "insert"])
    <3> DEFINE m == [noteCall[c] EXCEPT !.pc = "insert"]
    <3>1. m \in NoteMemos /\ m.key # {}
      BY <1>0, <2>3 DEF NoteMemos
    <3> QED
      BY <1>0, <2>1, <2>4, <3>1, DispatchKeeps
  <2>5. CASE \E n \in Notes : NoteGoto(c, "find", AfterNote(noteCall[c], n))
    <3>1. PICK n \in Notes : NoteGoto(c, "find", AfterNote(noteCall[c], n))
      BY <2>5
    <3> DEFINE m == AfterNote(noteCall[c], n)
    <3>2. m \in NoteMemos /\ m.pc \in {"idle", "tokens"}
      BY <1>0, AfterNoteTyped
    <3> HIDE DEF m
    <3>3. NoteGoto(c, "find", m) /\ (m.pc \in {"find", "insert"} => m.key # {})
      BY <3>1, <3>2 DEF m
    <3> QED
      BY <1>0, <2>1, <3>2, <3>3, DispatchKeeps
  <2> QED
    BY <1>1, <2>4, <2>5 DEF FindNote
<1>2. CASE FindTokens(c)
  <2> DEFINE m == [noteCall[c] EXCEPT !.pc = "enqueue", !.toks = active]
  <2>1. m \in NoteMemos /\ m.pc = "enqueue"
    BY <1>0 DEF NoteMemos
  <2>2. NoteGoto(c, "tokens", m) /\ UNCHANGED <<note, queue, active, lately, quiet>>
    BY <1>2 DEF FindTokens
  <2> HIDE DEF m
  <2> QED
    BY <1>0, <2>1, <2>2, DispatchKeeps
<1>3. CASE BeginRelease(c)
  <2> DEFINE m == NoteMemo("release", {}, "DELIVERED", 0, {},
                           {n \in Notes : note[n].status = "DEFERRED"})
  <2>1. m \in NoteMemos /\ m.pc = "release"
    BY NoticeAssumption DEF NoticeAssumption, NoteMemo, NoteMemos
  <2>2. NoteGoto(c, "idle", m) /\ UNCHANGED <<note, queue, active, lately, quiet>>
    BY <1>3 DEF BeginRelease
  <2> HIDE DEF m
  <2> QED
    BY <1>0, <2>1, <2>2, DispatchKeeps
<1> QED
  BY <1>1, <1>2, <1>3

LEMMA InsertKeeps ==
  ASSUME NoteInv, NEW c \in Dispatchers, InsertNote(c)
  PROVE  NoteInv'
<1>1. PICK n \in Notes :
        /\ FreshNote(n)
        /\ NoteGoto(c, "insert", AfterNote(noteCall[c], n))
        /\ note' = [note EXCEPT ![n] = [status |-> noteCall[c].word, key |-> noteCall[c].key]]
        /\ UNCHANGED <<queue, active, lately, quiet>>
  BY DEF InsertNote
<1>2. noteCall[c] \in NoteMemos /\ note \in [Notes -> NoteRows]
  BY NoteTyped DEF NoteInv
<1> DEFINE m == AfterNote(noteCall[c], n)
<1>3. m \in NoteMemos /\ m.pc \in {"idle", "tokens"}
  BY <1>2, AfterNoteTyped
<1>4. NoteGoto(c, "insert", m)
  BY <1>1
<1> HIDE DEF m
<1>5. /\ noteCall' \in [Dispatchers -> NoteMemos] /\ noteCall'[c] = m
      /\ noteCall[c].pc = "insert" /\ WorkerStays
      /\ \A d \in Dispatchers \ {c} : noteCall'[d] = noteCall[d]
  BY <1>3, <1>4, NoteGotoTyped
<1>6. /\ note' \in [Notes -> NoteRows] /\ note'[n].key # {} /\ note'[n].status # "FAILED"
      /\ \A o \in Notes \ {n} : note'[o] = note[o]
  <2>1. noteCall[c].key # {}
    BY <1>5 DEF NoteInv, RowsFit
  <2> QED
    BY <1>1, <1>2, <2>1 DEF NoteRows, NoteMemos
<1>7. n \notin Used /\ \A o \in Notes : o < n => o \in Used
  <2>1. MaxNotes \in Nat /\ Used \in SUBSET (1..MaxNotes) /\ n \in 1..MaxNotes
    BY NoticeAssumption DEF NoticeAssumption, Used, Notes
  <2>2. \A x \in Used, y \in 1..MaxNotes : y < x => y \in Used
    BY DEF NoteInv, RowsFit, Notes
  <2>3. n = Cardinality(Used) + 1
    BY <1>1 DEF FreshNote, Used
  <2> QED
    BY <2>1, <2>2, <2>3, NextIsFresh DEF Notes
<1>8. Used' = Used \cup {n} /\ Queued' = Queued
  BY <1>1, <1>6 DEF Used, Queued
<1>9. NoteTypeOK'
  BY <1>1, <1>5, <1>6 DEF NoteInv, NoteTypeOK, WorkerStays, NoteMemos, NoteRows
<1>10. RowsFit'
  <2>1. \A o \in Notes : note'[o].status # "none" => o \in Used'
    BY <1>6, <1>8 DEF NoteInv, RowsFit
  <2>2. \A o \in Used', p \in Notes : p < o => p \in Used'
    BY <1>7, <1>8 DEF NoteInv, RowsFit
  <2>3. \A d \in Queued : queue[d].n # n
    BY <1>7 DEF NoteInv, RowsFit
  <2>4. \A d \in Queued : queue[d].n \in Notes
    BY DEF NoteInv, RowsFit, Used
  <2>5. \A d \in Queued : /\ queue[d].n \in Used'
                          /\ queue[d].status = "none" => note'[queue[d].n].status = "none"
    BY <1>6, <1>8, <2>3, <2>4 DEF NoteInv, RowsFit
  <2> QED
    BY <1>1, <1>3, <1>5, <1>8, <2>1, <2>2, <2>5 DEF NoteInv, RowsFit
<1>11. FailedFits'
  BY <1>1, <1>6 DEF NoteInv, FailedFits
<1> QED
  BY <1>1, <1>5, <1>9, <1>10, <1>11, QueueUntouched DEF NoteInv

LEMMA EnqueueKeeps ==
  ASSUME NoteInv, NEW c \in Dispatchers, Enqueue(c)
  PROVE  NoteInv'
<1>0. noteCall[c] \in NoteMemos /\ lately \subseteq Events /\ queue \in [Deliveries -> ItemRows]
  BY NoteTyped DEF NoteInv
<1> DEFINE m == noteCall[c]
<1>1. CASE /\ NoteGoto(c, "enqueue", IF m.rows = {} THEN NoteIdle
                                     ELSE [m EXCEPT !.pc = "release", !.toks = {}])
           /\ UNCHANGED <<note, queue, active, lately, quiet>>
  <2> DEFINE end == IF m.rows = {} THEN NoteIdle ELSE [m EXCEPT !.pc = "release", !.toks = {}]
  <2>1. end \in NoteMemos /\ end.pc \in {"idle", "release"}
    BY <1>0, NoteMemoTyped DEF NoteMemos
  <2>2. NoteGoto(c, "enqueue", end)
    BY <1>1
  <2> HIDE DEF end
  <2> QED
    BY <1>0, <1>1, <2>1, <2>2, DispatchKeeps
<1>2. CASE \E t \in m.toks, d \in Deliveries :
             /\ Exists(m.n) /\ FreshDelivery(d)
             /\ NoteGoto(c, "enqueue", [m EXCEPT !.toks = @ \ {t}])
             /\ queue' = [queue EXCEPT ![d] = [status |-> "PENDING", n |-> m.n, t |-> {t},
                                               attempts |-> 0]]
             /\ UNCHANGED <<note, active, lately, quiet>>
  <2>1. PICK t \in m.toks, d \in Deliveries :
             /\ Exists(m.n) /\ FreshDelivery(d)
             /\ NoteGoto(c, "enqueue", [m EXCEPT !.toks = @ \ {t}])
             /\ queue' = [queue EXCEPT ![d] = [status |-> "PENDING", n |-> m.n, t |-> {t},
                                               attempts |-> 0]]
             /\ UNCHANGED <<note, active, lately, quiet>>
    BY <1>2
  <2> DEFINE k == [m EXCEPT !.toks = @ \ {t}]
             item == [status |-> "PENDING", n |-> m.n, t |-> {t}, attempts |-> 0]
  <2>2. k \in NoteMemos /\ k.pc = m.pc /\ k.key = m.key /\ item \in ItemRows
    BY SMTT(30), <1>0, NoticeAssumption DEF NoticeAssumption, NoteMemos, ItemRows, Waiting
  <2>3. item.status = "PENDING" /\ item.attempts = 0 /\ item.n = m.n /\ m.n \in Notes
    BY <1>0, <2>1 DEF Exists, NoteMemos, Notes
  <2>4. NoteGoto(c, "enqueue", k) /\ queue' = [queue EXCEPT ![d] = item]
    BY <2>1
  <2> HIDE DEF k, item
  <2>5. /\ noteCall' \in [Dispatchers -> NoteMemos] /\ noteCall'[c] = k
        /\ noteCall[c].pc = "enqueue" /\ WorkerStays
        /\ \A e \in Dispatchers \ {c} : noteCall'[e] = noteCall[e]
    BY <2>2, <2>4, NoteGotoTyped
  <2>6. /\ queue' \in [Deliveries -> ItemRows] /\ queue'[d] = item
        /\ \A e \in Deliveries \ {d} : queue'[e] = queue[e]
    BY <1>0, <2>2, <2>4
  <2>7. d \notin Queued /\ \A e \in Deliveries : e < d => e \in Queued
    <3>1. /\ MaxDeliveries \in Nat /\ Queued \in SUBSET (1..MaxDeliveries)
          /\ d \in 1..MaxDeliveries
      BY NoticeAssumption DEF NoticeAssumption, Queued, Deliveries
    <3>2. \A x \in Queued, y \in 1..MaxDeliveries : y < x => y \in Queued
      BY DEF NoteInv, RowsFit, Deliveries
    <3>3. d = Cardinality(Queued) + 1
      BY <2>1 DEF FreshDelivery, Queued
    <3> QED
      BY <3>1, <3>2, <3>3, NextIsFresh DEF Deliveries
  <2>8. Queued' = Queued \cup {d} /\ Used' = Used
    BY <2>1, <2>3, <2>6 DEF Queued, Used, Notes
  <2>9. NoteTypeOK'
    BY <2>1, <2>5, <2>6 DEF NoteInv, NoteTypeOK, WorkerStays, NoteMemos, ItemRows
  <2>10. RowsFit'
    <3>1. m.n \in Used
      BY <2>1, <2>3 DEF NoteInv, RowsFit, Exists
    <3>2. ASSUME NEW e \in Queued'
          PROVE  /\ queue'[e].n \in Used
                 /\ queue'[e].status = "none" => note[queue'[e].n].status = "none"
      <4>1. CASE e = d
        BY <2>3, <2>6, <3>1, <4>1
      <4>2. CASE e # d
        <5>1. e \in Queued /\ queue'[e] = queue[e]
          BY <2>6, <2>8, <4>2 DEF Queued
        <5> QED
          BY <5>1 DEF NoteInv, RowsFit
      <4> QED
        BY <4>1, <4>2
    <3>3. \A e \in Queued', f \in Deliveries : f < e => f \in Queued'
      BY <2>7, <2>8 DEF NoteInv, RowsFit
    <3> QED
      BY <2>1, <2>2, <2>5, <2>8, <3>2, <3>3 DEF NoteInv, RowsFit
  <2>11. d # worker.d /\ d \notin worker.batch
    BY <2>7 DEF NoteInv, WorkerFits, Deliveries
  <2>12. FailedFits'
    <3>1. queue[d].status # "DEAD_LETTER"
      BY <2>7, <2>11 DEF NoteInv, DeliveriesFit, Rests, Queued
    <3> QED
      BY <2>1, <2>6, <3>1 DEF NoteInv, FailedFits
  <2>13. WorkerFits'
    BY <2>5, <2>6, <2>8, <2>11 DEF NoteInv, WorkerFits, WorkerStays, Queued
  <2>14. DeliveriesFit'
    <3>1. tries[d] = 0 /\ pushes[d] = 0
      BY <2>7, <2>11 DEF NoteInv, DeliveriesFit, Rests, Queued
    <3>2. Happened(item, 0, 0, d \in cut) /\ Rests(item, 0, 0, d \in cut)
      BY <2>3, NoticeAssumption DEF NoticeAssumption, Happened, Rests, Notes
    <3>3. /\ queue'[worker.d] = queue[worker.d] \/ worker.d = 0
      BY <2>6, <2>11 DEF NoteInv, NoteTypeOK, Deliveries
    <3> QED
      BY <2>5, <2>6, <2>11, <3>1, <3>2, <3>3 DEF NoteInv, DeliveriesFit, WorkerStays
  <2> QED
    BY <2>9, <2>10, <2>12, <2>13, <2>14 DEF NoteInv
<1> QED
  BY <1>1, <1>2 DEF Enqueue

\* What changes of notifications is the status of those that are there.
LEMMA RenamedKeeps ==
  ASSUME NoteInv, note' \in [Notes -> NoteRows], \A n \in Notes : note'[n].key = note[n].key,
         \A n \in Notes : note[n].status = "none" => note'[n].status = "none",
         Queued' = Queued, \A d \in Queued : queue'[d].n = queue[d].n,
         \A d \in Queued : queue'[d].status = "none" => queue[d].status = "none",
         \A c \in Dispatchers :
           noteCall'[c].pc \in {"find", "insert"} => noteCall'[c] = noteCall[c]
  PROVE  RowsFit'
<1>1. Used' = Used
  BY DEF Used
<1>2. \A n \in Notes : note'[n].status # "none" => n \in Used
  BY DEF NoteInv, RowsFit
<1>3. \A d \in Queued : queue[d].n \in Notes
  BY DEF NoteInv, RowsFit, Used
<1> QED
  BY <1>1, <1>2, <1>3 DEF NoteInv, RowsFit

LEMMA ReleaseKeeps ==
  ASSUME NoteInv, NEW c \in Dispatchers, Release(c)
  PROVE  NoteInv'
<1>0. noteCall[c] \in NoteMemos /\ active \subseteq PushTokens /\ note \in [Notes -> NoteRows]
  BY NoteTyped DEF NoteInv
<1>1. PICK n \in noteCall[c].rows :
        /\ NoteGoto(c, "release", [noteCall[c] EXCEPT !.pc = "enqueue", !.n = n,
                                     !.rows = @ \ {n}, !.toks = active])
        /\ note' = IF Exists(n) THEN [note EXCEPT ![n].status = "DELIVERED"] ELSE note
        /\ UNCHANGED <<queue, active, lately, quiet>>
  BY DEF Release
<1> DEFINE m == [noteCall[c] EXCEPT !.pc = "enqueue", !.n = n, !.rows = @ \ {n},
                                    !.toks = active]
<1>2. n \in Notes /\ m \in NoteMemos /\ m.pc = "enqueue"
  <2>1. n \in Notes
    BY <1>0 DEF NoteMemos
  <2>2. n \in 0..MaxNotes
    BY <2>1 DEF Notes
  <2> QED
    BY <1>0, <2>1, <2>2 DEF NoteMemos
<1>3. NoteGoto(c, "release", m)
  BY <1>1
<1> HIDE DEF m
<1>4. /\ noteCall' \in [Dispatchers -> NoteMemos] /\ noteCall'[c].pc = "enqueue" /\ WorkerStays
      /\ \A e \in Dispatchers \ {c} : noteCall'[e] = noteCall[e]
  BY <1>2, <1>3, NoteGotoTyped
<1>5. /\ note' \in [Notes -> NoteRows] /\ (\A o \in Notes : note'[o].key = note[o].key)
      /\ \A o \in Notes : note'[o].status = note[o].status
                            \/ (note'[o].status = "DELIVERED" /\ note[o].status # "none")
  BY <1>0, <1>1, <1>2 DEF Exists, NoteRows
<1>6. NoteTypeOK'
  BY <1>1, <1>4, <1>5 DEF NoteInv, NoteTypeOK, WorkerStays, NoteMemos, NoteRows
<1>7. Queued' = Queued
  BY <1>1 DEF Queued
<1>8. RowsFit'
  BY <1>1, <1>4, <1>5, <1>7, RenamedKeeps
<1>9. FailedFits'
  BY <1>1, <1>5 DEF NoteInv, FailedFits
<1> QED
  BY <1>1, <1>4, <1>6, <1>8, <1>9, QueueUntouched DEF NoteInv

LEMMA DeleteNoteKeeps ==
  ASSUME NoteInv, NEW n \in Notes, DeleteNote(n)
  PROVE  NoteInv'
<1>0. note \in [Notes -> NoteRows] /\ queue \in [Deliveries -> ItemRows]
  BY NoteTyped DEF NoteInv
<1>1. /\ note' = [note EXCEPT ![n].status = "none"]
      /\ queue' = [d \in Deliveries |-> IF queue[d].n = n THEN [queue[d] EXCEPT !.status = "none"]
                                        ELSE queue[d]]
      /\ UNCHANGED <<active, lately, quiet, noteCall>> /\ WorkerStays
  BY DEF DeleteNote
<1>2. /\ note' \in [Notes -> NoteRows] /\ note'[n].status = "none" /\ note'[n].key = note[n].key
      /\ \A o \in Notes \ {n} : note'[o] = note[o]
  BY <1>0, <1>1 DEF NoteRows
<1>3. /\ queue' \in [Deliveries -> ItemRows]
      /\ \A d \in Deliveries : /\ queue'[d].n = queue[d].n
                               /\ queue'[d].attempts = queue[d].attempts
                               /\ queue[d].n = n => queue'[d].status = "none"
                               /\ queue[d].n # n => queue'[d] = queue[d]
  BY <1>0, <1>1 DEF ItemRows
<1>4. NoteTypeOK'
  BY <1>1, <1>2, <1>3 DEF NoteInv, NoteTypeOK, WorkerStays, NoteRows, ItemRows
<1>5. Queued' = Queued /\ Used' = Used
  BY <1>2, <1>3 DEF Queued, Used
<1>6. RowsFit'
  <2>1. \A d \in Queued : d \in Deliveries /\ queue[d].n \in Used /\ queue[d].n \in Notes
    BY DEF NoteInv, RowsFit, Queued, Used
  <2>2. \A d \in Queued : queue'[d].status = "none" => note'[queue'[d].n].status = "none"
    BY <1>2, <1>3, <2>1 DEF NoteInv, RowsFit
  <2>3. \A o \in Notes : note'[o].status # "none" => o \in Used
    BY <1>2 DEF NoteInv, RowsFit
  <2> QED
    BY SMTT(30), <1>1, <1>3, <1>5, <2>1, <2>2, <2>3 DEF NoteInv, RowsFit
<1>7. FailedFits'
  <2> SUFFICES ASSUME NEW o \in Notes, note'[o].status = "FAILED"
               PROVE  \E d \in Deliveries : queue'[d].n = o /\ queue'[d].status = "DEAD_LETTER"
    BY DEF FailedFits
  <2>1. o # n /\ note[o].status = "FAILED"
    BY <1>2
  <2>2. PICK d \in Deliveries : queue[d].n = o /\ queue[d].status = "DEAD_LETTER"
    BY <2>1 DEF NoteInv, FailedFits
  <2>3. queue'[d] = queue[d]
    BY <1>3, <2>1, <2>2
  <2> QED
    BY <2>2, <2>3
<1>8. \A d \in Deliveries : queue'[d].status \in {"none", queue[d].status}
  BY <1>3
<1>9. WorkerFits'
  <2>1. \A d \in worker.batch : d \in Deliveries
    BY DEF NoteInv, WorkerFits, Queued
  <2> QED
    BY <1>1, <1>5, <1>8, <2>1 DEF NoteInv, WorkerFits, WorkerStays, Open
<1>10. DeliveriesFit'
  <2>1. \A d \in Deliveries : Happened(queue'[d], tries[d], pushes[d], d \in cut)
    BY <1>3, <1>8 DEF NoteInv, DeliveriesFit, Happened
  <2>2. \A d \in Deliveries \ {worker.d} : Rests(queue'[d], tries[d], pushes[d], d \in cut)
    BY <1>3, <1>8 DEF NoteInv, DeliveriesFit, Rests, Waiting
  <2>3. worker.d # 0 => Works(worker, queue'[worker.d], tries[worker.d], pushes[worker.d],
                              worker.d \in cut)
    <3> SUFFICES ASSUME worker.d # 0
                 PROVE  Works(worker, queue'[worker.d], tries[worker.d], pushes[worker.d],
                              worker.d \in cut)
      OBVIOUS
    <3>1. worker.d \in Deliveries
      BY DEF NoteInv, NoteTypeOK, Deliveries
    <3>2. Works(worker, queue[worker.d], tries[worker.d], pushes[worker.d], worker.d \in cut)
      BY DEF NoteInv, DeliveriesFit
    <3> QED
      BY <1>3, <1>8, <3>1, <3>2 DEF Works, Open, Waiting
  <2> QED
    BY <1>1, <2>1, <2>2, <2>3 DEF DeliveriesFit, WorkerStays
<1> QED
  BY <1>4, <1>6, <1>7, <1>9, <1>10 DEF NoteInv

LEMMA SettingsKeep ==
  ASSUME NoteInv, (\E t \in PushTokens : SetToken(t)) \/ ToggleQuiet
                    \/ (\E d \in Deliveries : BackoffEnds(d))
  PROVE  NoteInv'
<1>1. /\ UNCHANGED <<note, queue, lately, noteCall, worker, pushes, tries, cut, cuts>>
      /\ active' \subseteq PushTokens /\ quiet' \in BOOLEAN /\ notDue' \subseteq Deliveries
  BY DEF SetToken, ToggleQuiet, BackoffEnds, WorkerStays, NoteInv, NoteTypeOK
<1>2. NoteTypeOK'
  BY <1>1 DEF NoteInv, NoteTypeOK
<1>3. Used' = Used /\ Queued' = Queued
  BY <1>1 DEF Used, Queued
<1> QED
  BY <1>1, <1>2, <1>3 DEF NoteInv, RowsFit, FailedFits, WorkerFits, DeliveriesFit
-----------------------------------------------------------------------------
(* The delivery worker                                                     *)

LEMMA AtWork ==
  ASSUME NoteInv, worker.d # 0
  PROVE  /\ worker.d \in Deliveries /\ worker.d \in Queued /\ Item = queue[worker.d]
         /\ Item \in ItemRows /\ worker \in WorkerMemos /\ NextItem \in WorkerMemos
         /\ NextItem.pc = "pick" /\ NextItem.d = 0 /\ NextItem.result = "none"
         /\ NextItem.batch = worker.batch \ {worker.d}
         /\ tries[worker.d] \in Nat /\ pushes[worker.d] \in Nat
         /\ Happened(Item, tries[worker.d], pushes[worker.d], worker.d \in cut)
         /\ Works(worker, Item, tries[worker.d], pushes[worker.d], worker.d \in cut)
<1>1. worker \in WorkerMemos /\ queue \in [Deliveries -> ItemRows]
  BY NoteTyped DEF NoteInv
<1>2. worker.d \in Deliveries /\ Item = queue[worker.d]
  BY <1>1 DEF WorkerMemos, Deliveries, Item
<1>3. worker.d \in worker.batch /\ worker.d \in Queued
  BY DEF NoteInv, WorkerFits
<1>4. /\ NextItem \in WorkerMemos /\ NextItem.pc = "pick" /\ NextItem.d = 0
      /\ NextItem.batch = worker.batch \ {worker.d} /\ NextItem.result = "none"
  <2>1. 0 \in 0..MaxDeliveries /\ 0 \in 0..MaxAttempts
    BY NoticeAssumption DEF NoticeAssumption
  <2> QED
    BY <1>1, <2>1 DEF NextItem, WorkerMemos
<1> QED
  BY <1>1, <1>2, <1>3, <1>4 DEF NoteInv, NoteTypeOK, DeliveriesFit

\* The worker is done with a delivery, or ends its tick.
LEMMA ItemDone ==
  ASSUME NoteInv, NEW from, worker.d # 0, Work(from, WorkerIdle) \/ Work(from, NextItem),
         NEW item \in ItemRows, queue' = [queue EXCEPT ![worker.d] = item],
         item.n = Item.n, item.status = "none" => Item.status = "none",
         Item.status = "DEAD_LETTER" => item.status = "DEAD_LETTER",
         Happened(item, tries[worker.d], pushes[worker.d], worker.d \in cut),
         Rests(item, tries[worker.d], pushes[worker.d], worker.d \in cut),
         note' = note, active' = active, notDue' \subseteq Deliveries,
         UNCHANGED <<pushes, tries, cut, cuts>>
  PROVE  NoteInv'
<1>1. /\ worker.d \in Deliveries /\ worker.d \in Queued /\ Item = queue[worker.d]
      /\ NextItem \in WorkerMemos /\ NextItem.pc = "pick" /\ NextItem.d = 0
      /\ NextItem.result = "none" /\ NextItem.batch = worker.batch \ {worker.d}
  BY AtWork
<1>2. /\ worker' \in WorkerMemos /\ worker'.pc \in {"idle", "pick"} /\ worker'.d = 0
      /\ worker'.result = "none" /\ worker'.batch \subseteq worker.batch \ {worker.d}
      /\ UNCHANGED <<lately, quiet, noteCall>>
  BY <1>1, NoteMemoTyped DEF Work
<1>3. /\ queue' \in [Deliveries -> ItemRows] /\ queue'[worker.d] = item
      /\ \A d \in Deliveries \ {worker.d} : queue'[d] = queue[d]
  BY <1>1, NoteTyped DEF NoteInv
<1>4. NoteTypeOK'
  BY <1>2, <1>3 DEF NoteInv, NoteTypeOK, ItemRows, WorkerMemos
<1>5. Queued' = Queued /\ \A d \in Queued : queue'[d].n = queue[d].n
  BY <1>1, <1>3 DEF Queued
<1>6. \A d \in Queued : queue'[d].status = "none" => queue[d].status = "none"
  BY <1>1, <1>3 DEF Queued
<1>7. note' \in [Notes -> NoteRows]
  BY NoteTyped DEF NoteInv
<1>8. RowsFit'
  BY <1>2, <1>5, <1>6, <1>7, RenamedKeeps
<1>9. FailedFits'
  BY <1>1, <1>3 DEF NoteInv, FailedFits
<1>10. WorkerFits'
  BY <1>2, <1>3, <1>5 DEF NoteInv, WorkerFits, Queued
<1>11. DeliveriesFit'
  <2>1. 0 \notin Deliveries
    BY DEF Deliveries
  <2> QED
    BY <1>1, <1>2, <1>3, <2>1 DEF NoteInv, DeliveriesFit
<1> QED
  BY <1>4, <1>8, <1>9, <1>10, <1>11 DEF NoteInv

\* The worker goes on with its delivery.
LEMMA ItemGoesOn ==
  ASSUME NoteInv, worker.d # 0, NEW w \in WorkerMemos, worker' = w, w.d = worker.d,
         w.batch = worker.batch, w.pc \notin {"idle", "pick"},
         NEW item \in ItemRows, queue' = [queue EXCEPT ![worker.d] = item],
         item.n = Item.n, item.status = "none" => Item.status = "none",
         Item.status = "DEAD_LETTER" => item.status = "DEAD_LETTER",
         tries' \in [Deliveries -> Nat], pushes' \in [Deliveries -> Nat],
         \A d \in Deliveries \ {worker.d} : tries'[d] = tries[d] /\ pushes'[d] = pushes[d],
         cut' \in {cut, cut \cup {worker.d}}, cuts' \in 0..MaxCuts,
         Happened(item, tries'[worker.d], pushes'[worker.d], worker.d \in cut'),
         Works(w, item, tries'[worker.d], pushes'[worker.d], worker.d \in cut'),
         UNCHANGED <<note, lately, quiet, noteCall>>, active' \subseteq PushTokens,
         notDue' \subseteq Deliveries
  PROVE  NoteInv'
<1>1. worker.d \in Deliveries /\ worker.d \in Queued /\ Item = queue[worker.d]
  BY AtWork
<1>2. /\ queue' \in [Deliveries -> ItemRows] /\ queue'[worker.d] = item
      /\ \A d \in Deliveries \ {worker.d} : queue'[d] = queue[d]
  BY <1>1, NoteTyped DEF NoteInv
<1>3. cut' \subseteq Deliveries /\ \A d \in Deliveries \ {worker.d} : d \in cut' <=> d \in cut
  BY <1>1 DEF NoteInv, NoteTypeOK
<1>4. NoteTypeOK'
  BY <1>2, <1>3 DEF NoteInv, NoteTypeOK, ItemRows, WorkerMemos
<1>5. Queued' = Queued /\ \A d \in Queued : queue'[d].n = queue[d].n
  BY <1>1, <1>2 DEF Queued
<1>6. \A d \in Queued : queue'[d].status = "none" => queue[d].status = "none"
  BY <1>1, <1>2 DEF Queued
<1>7. note' \in [Notes -> NoteRows]
  BY NoteTyped DEF NoteInv
<1>8. RowsFit'
  BY <1>5, <1>6, <1>7, RenamedKeeps
<1>9. FailedFits'
  BY <1>1, <1>2 DEF NoteInv, FailedFits
<1>10. WorkerFits'
  BY <1>2, <1>5 DEF NoteInv, WorkerFits, Queued
<1>11. DeliveriesFit'
  BY <1>1, <1>2, <1>3 DEF NoteInv, DeliveriesFit
<1> QED
  BY <1>4, <1>8, <1>9, <1>10, <1>11 DEF NoteInv

LEMMA TickKeeps ==
  ASSUME NoteInv, Tick
  PROVE  NoteInv'
<1> DEFINE due == {d \in Deliveries \ notDue : queue[d].status \in Waiting}
           w == [WorkerIdle EXCEPT !.pc = "pick", !.batch = due]
<1>1. /\ Work("idle", w) /\ UNCHANGED <<note, queue, active, notDue, pushes, tries, cut, cuts>>
  BY DEF Tick
<1>2. w \in WorkerMemos /\ w.pc = "pick" /\ w.d = 0 /\ w.batch = due /\ w.result = "none"
  BY NoteMemoTyped DEF WorkerMemos
<1> HIDE DEF w
<1>3. /\ worker' = w /\ worker.d = 0 /\ worker.pc = "idle"
      /\ UNCHANGED <<lately, quiet, noteCall>>
  BY <1>1 DEF Work, NoteInv, WorkerFits
<1>4. NoteTypeOK'
  BY <1>1, <1>2, <1>3 DEF NoteInv, NoteTypeOK, WorkerMemos
<1>5. Used' = Used /\ Queued' = Queued
  BY <1>1 DEF Used, Queued
<1>6. \A d \in due : d \in Queued /\ queue[d].status \in Open
  BY <1>3 DEF NoteInv, DeliveriesFit, Rests, Queued, Open, Waiting, Deliveries
<1>7. WorkerFits'
  BY <1>1, <1>2, <1>3, <1>5, <1>6 DEF WorkerFits
<1>8. DeliveriesFit'
  BY <1>1, <1>2, <1>3 DEF NoteInv, DeliveriesFit
<1> QED
  BY <1>1, <1>3, <1>4, <1>5, <1>7, <1>8 DEF NoteInv, RowsFit, FailedFits

LEMMA PickKeeps ==
  ASSUME NoteInv, Pick
  PROVE  NoteInv'
<1>0. worker \in WorkerMemos /\ worker.pc = "pick" /\ worker.d = 0 /\ worker.result = "none"
  BY NoteTyped DEF Pick, Work, NoteInv, WorkerFits
<1>1. UNCHANGED <<note, queue, active, notDue, pushes, tries, cut, cuts, lately, quiet, noteCall>>
  BY DEF Pick, Work
<1>2. Used' = Used /\ Queued' = Queued
  BY <1>1 DEF Used, Queued
<1>3. RowsFit' /\ FailedFits'
  BY <1>1, <1>2 DEF NoteInv, RowsFit, FailedFits
<1>4. CASE worker' = WorkerIdle
  <2>1. NoteTypeOK'
    BY <1>1, <1>4, NoteMemoTyped DEF NoteInv, NoteTypeOK, WorkerMemos
  <2>2. WorkerFits' /\ DeliveriesFit'
    BY <1>0, <1>1, <1>4, NoteMemoTyped DEF NoteInv, WorkerFits, DeliveriesFit
  <2> QED
    BY <1>3, <2>1, <2>2 DEF NoteInv
<1>5. ASSUME NEW d \in worker.batch,
             worker' = [worker EXCEPT !.d = d, !.seen = queue[d].attempts,
                 !.pc = IF Exists(queue[d].n) /\ queue[d].t \subseteq active THEN "send"
                        ELSE "failed"]
      PROVE  NoteInv'
  <2>1. d \in Queued /\ d \in Deliveries /\ queue[d] \in ItemRows /\ queue[d].status \in Open
    BY <1>0, NoteTyped DEF NoteInv, WorkerFits, Queued, Deliveries
  <2>2. /\ worker' \in WorkerMemos /\ worker'.d = d /\ worker'.seen = queue[d].attempts
        /\ worker'.batch = worker.batch /\ worker'.result = "none"
        /\ worker'.pc \in {"send", "failed"} /\ (worker'.pc = "send" => Exists(queue[d].n))
    <3>1. d \in 0..MaxDeliveries /\ queue[d].attempts \in 0..MaxAttempts
      BY <2>1 DEF Deliveries, ItemRows
    <3> QED
      BY <1>0, <1>5, <3>1 DEF WorkerMemos
  <2>3. NoteTypeOK'
    BY <1>1, <2>2 DEF NoteInv, NoteTypeOK, WorkerMemos
  <2>4. d # 0
    BY <2>1 DEF Deliveries
  <2>5. WorkerFits'
    <3>1. \A e \in worker.batch : e \in Queued /\ e # 0
      BY DEF NoteInv, WorkerFits, Queued, Deliveries
    <3> QED
      BY <1>0, <1>1, <1>2, <2>1, <2>2, <2>4, <3>1 DEF NoteInv, WorkerFits
  <2>6. worker'.pc = "send" => queue[d].status \in Waiting
    BY <2>1, <2>2 DEF NoteInv, RowsFit, Exists, Open
  <2>7. Rests(queue[d], tries[d], pushes[d], d \in cut)
        /\ Happened(queue[d], tries[d], pushes[d], d \in cut)
    BY <1>0, <2>1, <2>4 DEF NoteInv, DeliveriesFit
  <2>8. Works(worker', queue[d], tries[d], pushes[d], d \in cut)
    BY <2>1, <2>2, <2>6, <2>7 DEF Works, Rests, Happened, HasAsked, Queued
  <2>9. DeliveriesFit'
    BY <1>0, <1>1, <2>2, <2>8 DEF NoteInv, DeliveriesFit, Deliveries
  <2> QED
    BY <1>3, <2>3, <2>5, <2>9 DEF NoteInv
<1> QED
  BY <1>4, <1>5 DEF Pick, Work

LEMMA SendPushKeeps ==
  ASSUME NoteInv, SendPush
  PROVE  NoteInv'
<1>1. PICK result \in {"ok", "invalid", "refused", "thrown"}, accepted \in BOOLEAN :
        /\ result = "ok" => accepted
        /\ result \in {"invalid", "refused"} => ~accepted
        /\ result = "thrown" /\ accepted => cuts < MaxCuts
        /\ Work("send", [worker EXCEPT !.result = result,
                           !.pc = CASE result = "invalid" -> "failed"
                                    [] result = "thrown" -> "catch"
                                    [] OTHER -> "answer"])
        /\ tries' = [tries EXCEPT ![worker.d] = @ + 1]
        /\ pushes' = [pushes EXCEPT ![worker.d] = IF accepted THEN @ + 1 ELSE @]
        /\ IF result = "thrown" /\ accepted
           THEN cut' = cut \cup {worker.d} /\ cuts' = cuts + 1 ELSE UNCHANGED <<cut, cuts>>
        /\ active' = IF result = "invalid" THEN active \ Item.t ELSE active
        /\ UNCHANGED <<note, queue, notDue>>
  BY DEF SendPush
<1>2. worker.pc = "send" /\ worker.d # 0 /\ UNCHANGED <<lately, quiet, noteCall>>
  BY <1>1 DEF Work, NoteInv, WorkerFits
<1>3. /\ worker.d \in Deliveries /\ Item = queue[worker.d] /\ Item \in ItemRows
      /\ worker \in WorkerMemos /\ tries[worker.d] \in Nat /\ pushes[worker.d] \in Nat
      /\ Happened(Item, tries[worker.d], pushes[worker.d], worker.d \in cut)
      /\ Works(worker, Item, tries[worker.d], pushes[worker.d], worker.d \in cut)
  BY <1>2, AtWork
<1> DEFINE w == [worker EXCEPT !.result = result,
                   !.pc = CASE result = "invalid" -> "failed"
                            [] result = "thrown" -> "catch"
                            [] OTHER -> "answer"]
<1>4. /\ w \in WorkerMemos /\ w.d = worker.d /\ w.batch = worker.batch /\ w.seen = worker.seen
      /\ w.result = result
      /\ result = "invalid" => w.pc = "failed"
      /\ result = "thrown" => w.pc = "catch"
      /\ result \in {"ok", "refused"} => w.pc = "answer"
  BY <1>3 DEF WorkerMemos
<1>5. worker' = w
  BY <1>1 DEF Work
<1> HIDE DEF w
<1>6. /\ queue' = [queue EXCEPT ![worker.d] = Item]
      /\ cut' \in {cut, cut \cup {worker.d}} /\ cuts' \in 0..MaxCuts
      /\ active' \subseteq PushTokens /\ notDue' \subseteq Deliveries
  <2>1. queue' = [queue EXCEPT ![worker.d] = Item]
    BY <1>1, <1>3 DEF NoteInv, NoteTypeOK
  <2>2. cuts \in 0..MaxCuts /\ active \subseteq PushTokens /\ notDue \subseteq Deliveries
    BY DEF NoteInv, NoteTypeOK
  <2>3. MaxCuts \in Nat
    BY NoticeAssumption DEF NoticeAssumption
  <2>4. cuts' \in 0..MaxCuts
    BY <1>1, <2>2, <2>3
  <2> QED
    BY <1>1, <2>1, <2>2, <2>4
<1>7. /\ tries' \in [Deliveries -> Nat] /\ pushes' \in [Deliveries -> Nat]
      /\ \A d \in Deliveries \ {worker.d} : tries'[d] = tries[d] /\ pushes'[d] = pushes[d]
      /\ tries'[worker.d] = tries[worker.d] + 1
      /\ pushes'[worker.d] = IF accepted THEN pushes[worker.d] + 1 ELSE pushes[worker.d]
  BY <1>1, <1>3 DEF NoteInv, NoteTypeOK
<1>8. MaxAttempts \in Nat /\ worker.seen \in Nat /\ Item.attempts \in Nat
  BY <1>3, NoticeAssumption DEF NoticeAssumption, WorkerMemos, ItemRows
<1>9. /\ worker.d \in cut => worker.d \in cut'
      /\ worker.d \notin cut' => worker.d \notin cut /\ (accepted => result = "ok")
  BY <1>1
<1>10. Happened(Item, tries'[worker.d], pushes'[worker.d], worker.d \in cut')
  BY <1>2, <1>3, <1>7, <1>8, <1>9 DEF Happened, Works
<1>11. Works(w, Item, tries'[worker.d], pushes'[worker.d], worker.d \in cut')
  BY <1>1, <1>2, <1>3, <1>4, <1>7, <1>8, <1>9 DEF Works, HasAsked, Open, Waiting
<1>12. w.pc \notin {"idle", "pick"}
  BY <1>4
<1> QED
  BY <1>1, <1>2, <1>3, <1>4, <1>5, <1>6, <1>7, <1>10, <1>11, <1>12, ItemGoesOn

\* What a write of the delivery's row makes of it.
LEMMA ItemSet ==
  ASSUME NoteInv, worker.d # 0, NEW status \in {"none"} \cup Waiting \cup Final,
         NEW attempts \in 0..MaxAttempts, SetItem(status, attempts)
  PROVE  \E item \in ItemRows :
           /\ queue' = [queue EXCEPT ![worker.d] = item]
           /\ item.n = Item.n /\ item.status = status /\ item.attempts = attempts
<1> DEFINE item == [queue[worker.d] EXCEPT !.status = status, !.attempts = attempts]
<1>1. worker.d \in Deliveries /\ Item = queue[worker.d] /\ Item \in ItemRows
  BY AtWork
<1>2. queue' = [queue EXCEPT ![worker.d] = item]
  BY <1>1 DEF SetItem
<1>3. /\ item \in ItemRows /\ item.n = Item.n /\ item.status = status
      /\ item.attempts = attempts
  BY <1>1 DEF ItemRows
<1> QED
  BY <1>2, <1>3

\* A delivery that is gone ends the tick.
LEMMA GoneKeeps ==
  ASSUME NoteInv, NEW from, worker.d # 0, Item.status = "none", Work(from, WorkerIdle),
         UNCHANGED <<note, queue, active, notDue, pushes, tries, cut, cuts>>
  PROVE  NoteInv'
<1>1. /\ worker.d \in Deliveries /\ Item = queue[worker.d] /\ Item \in ItemRows
      /\ Happened(Item, tries[worker.d], pushes[worker.d], worker.d \in cut)
      /\ Works(worker, Item, tries[worker.d], pushes[worker.d], worker.d \in cut)
  BY AtWork
<1>2. queue' = [queue EXCEPT ![worker.d] = Item]
  BY <1>1 DEF NoteInv, NoteTypeOK
<1>3. Rests(Item, tries[worker.d], pushes[worker.d], worker.d \in cut)
  BY <1>1 DEF Rests, Works, Waiting
<1>4. notDue' \subseteq Deliveries
  BY DEF NoteInv, NoteTypeOK
<1> QED
  BY <1>1, <1>2, <1>3, <1>4, ItemDone

LEMMA WriteFailedKeeps ==
  ASSUME NoteInv, WriteFailed
  PROVE  NoteInv'
<1>1. worker.pc = "failed" /\ worker.d # 0
  BY DEF WriteFailed, Work, NoteInv, WorkerFits
<1>2. UNCHANGED <<note, active, notDue, pushes, tries, cut, cuts>>
  BY DEF WriteFailed
<1>3. CASE Item.status = "none"
  BY <1>1, <1>2, <1>3, GoneKeeps DEF WriteFailed
<1>4. CASE Item.status # "none"
  <2> DEFINE attempts == IF worker.result = "none" THEN worker.seen ELSE worker.seen + 1
  <2>1. Work("failed", NextItem) /\ SetItem("FAILED", attempts)
    BY <1>4 DEF WriteFailed
  <2>2. /\ worker \in WorkerMemos /\ tries[worker.d] \in Nat /\ pushes[worker.d] \in Nat
        /\ Happened(Item, tries[worker.d], pushes[worker.d], worker.d \in cut)
        /\ Works(worker, Item, tries[worker.d], pushes[worker.d], worker.d \in cut)
    BY <1>1, AtWork
  <2>3. MaxAttempts \in Nat /\ worker.seen \in 0..MaxAttempts
    BY <2>2, NoticeAssumption DEF NoticeAssumption, WorkerMemos
  <2>4. attempts \in 0..MaxAttempts /\ attempts <= tries[worker.d]
    BY <1>1, <2>2, <2>3 DEF Works, HasAsked
  <2> HIDE DEF attempts
  <2>5. PICK item \in ItemRows :
          /\ queue' = [queue EXCEPT ![worker.d] = item]
          /\ item.n = Item.n /\ item.status = "FAILED" /\ item.attempts = attempts
    BY <1>1, <2>1, <2>4, ItemSet DEF Final
  <2>6. /\ Happened(item, tries[worker.d], pushes[worker.d], worker.d \in cut)
        /\ Rests(item, tries[worker.d], pushes[worker.d], worker.d \in cut)
    BY <2>2, <2>4, <2>5 DEF Happened, Rests, Works, Waiting
  <2>7. Item.status # "DEAD_LETTER" /\ notDue' \subseteq Deliveries
    BY <1>1, <1>2, <2>2 DEF Works, Open, Waiting, NoteInv, NoteTypeOK
  <2> QED
    BY <1>1, <1>2, <2>1, <2>5, <2>6, <2>7, ItemDone
<1> QED
  BY <1>3, <1>4

LEMMA WriteAnswerKeeps ==
  ASSUME NoteInv, WriteAnswer
  PROVE  NoteInv'
<1>1. worker.pc = "answer" /\ worker.d # 0 /\ UNCHANGED <<lately, quiet, noteCall>>
  BY DEF WriteAnswer, Work, NoteInv, WorkerFits
<1>2. UNCHANGED <<note, active, pushes, tries, cut, cuts>>
  BY DEF WriteAnswer
<1>3. CASE Item.status = "none"
  BY <1>1, <1>2, <1>3, GoneKeeps DEF WriteAnswer
<1>4. CASE Item.status # "none"
  <2> DEFINE status == IF worker.result = "ok" THEN "SENT" ELSE Retry
             w == [worker EXCEPT !.pc = "note"]
  <2>1. /\ Work("answer", IF status = "RETRYING" THEN NextItem ELSE w)
        /\ SetItem(status, worker.seen + 1)
        /\ notDue' \in {notDue, notDue \cup {worker.d}}
    BY <1>4 DEF WriteAnswer
  <2>2. /\ worker \in WorkerMemos /\ tries[worker.d] \in Nat /\ pushes[worker.d] \in Nat
        /\ worker.d \in Deliveries
        /\ Happened(Item, tries[worker.d], pushes[worker.d], worker.d \in cut)
        /\ Works(worker, Item, tries[worker.d], pushes[worker.d], worker.d \in cut)
    BY <1>1, AtWork
  <2>3. /\ MaxAttempts \in Nat /\ worker.seen \in 0..MaxAttempts
    BY <2>2, NoticeAssumption DEF NoticeAssumption, WorkerMemos
  <2>4. /\ worker.seen < MaxAttempts /\ worker.seen + 1 <= tries[worker.d]
        /\ worker.result = "ok" => pushes[worker.d] >= 1
        /\ worker.d \notin cut => /\ tries[worker.d] = worker.seen + 1
                                  /\ worker.result # "ok" => pushes[worker.d] = 0
        /\ Item.status \in Open /\ Item.n # 0
    BY <1>1, <2>2 DEF Works, HasAsked
  <2>5. /\ status \in {"SENT", "DEAD_LETTER", "RETRYING"}
        /\ status = "SENT" <=> worker.result = "ok"
        /\ status = "DEAD_LETTER" => worker.seen + 1 >= MaxAttempts
        /\ status = "RETRYING" => worker.seen + 1 < MaxAttempts
    BY <2>3 DEF Retry, Exhausted
  <2> HIDE DEF status
  <2>6. PICK item \in ItemRows :
          /\ queue' = [queue EXCEPT ![worker.d] = item]
          /\ item.n = Item.n /\ item.status = status /\ item.attempts = worker.seen + 1
    <3>1. status \in {"none"} \cup Waiting \cup Final /\ worker.seen + 1 \in 0..MaxAttempts
      BY <2>3, <2>4, <2>5 DEF Waiting, Final
    <3> QED
      BY <1>1, <2>1, <3>1, ItemSet
  <2>7. Happened(item, tries[worker.d], pushes[worker.d], worker.d \in cut)
    BY <2>2, <2>3, <2>4, <2>5, <2>6 DEF Happened
  <2>8. Item.status # "DEAD_LETTER" /\ item.status # "none" /\ notDue' \subseteq Deliveries
    BY <2>1, <2>2, <2>4, <2>5, <2>6 DEF Open, Waiting, NoteInv, NoteTypeOK
  <2>9. CASE status = "RETRYING"
    <3>1. Rests(item, tries[worker.d], pushes[worker.d], worker.d \in cut)
      BY <2>4, <2>5, <2>6, <2>9 DEF Rests
    <3> QED
      BY <1>1, <1>2, <2>1, <2>6, <2>7, <2>8, <2>9, <3>1, ItemDone
  <2>10. CASE status # "RETRYING"
    <3>1. w \in WorkerMemos /\ w.pc = "note" /\ w.d = worker.d /\ w.batch = worker.batch
          /\ w.seen = worker.seen /\ w.result = worker.result
      BY <2>2 DEF WorkerMemos
    <3>2. worker' = w
      BY <2>1, <2>10 DEF Work
    <3> HIDE DEF w
    <3>3. Works(w, item, tries[worker.d], pushes[worker.d], worker.d \in cut)
      BY <2>2, <2>3, <2>4, <2>5, <2>6, <2>10, <3>1 DEF Works, HasAsked, Waiting
    <3>4. /\ tries' \in [Deliveries -> Nat] /\ pushes' \in [Deliveries -> Nat]
          /\ cuts' \in 0..MaxCuts /\ active' \subseteq PushTokens
      BY <1>2 DEF NoteInv, NoteTypeOK
    <3> QED
      BY <1>1, <1>2, <2>6, <2>7, <2>8, <3>1, <3>2, <3>3, <3>4, ItemGoesOn
  <2> QED
    BY <2>9, <2>10
<1> QED
  BY <1>3, <1>4

LEMMA WriteNoteKeeps ==
  ASSUME NoteInv, WriteNote
  PROVE  NoteInv'
<1> DEFINE n == Item.n
           word == IF worker.result = "ok" THEN "DELIVERED" ELSE "FAILED"
<1>1. worker.pc = "note" /\ worker.d # 0 /\ UNCHANGED <<lately, quiet, noteCall>>
  BY DEF WriteNote, Work, NoteInv, WorkerFits
<1>2. /\ UNCHANGED <<queue, active, notDue, pushes, tries, cut, cuts>>
      /\ worker' \in {NextItem, WorkerIdle}
      /\ note' = IF ~Exists(n) THEN note ELSE [note EXCEPT ![n].status = word]
  BY DEF WriteNote, Work
<1>3. /\ worker.d \in Deliveries /\ worker.d \in Queued /\ Item = queue[worker.d]
      /\ Item \in ItemRows /\ NextItem \in WorkerMemos /\ NextItem.pc = "pick"
      /\ NextItem.d = 0 /\ NextItem.result = "none"
      /\ NextItem.batch = worker.batch \ {worker.d}
      /\ Happened(Item, tries[worker.d], pushes[worker.d], worker.d \in cut)
      /\ Works(worker, Item, tries[worker.d], pushes[worker.d], worker.d \in cut)
  BY <1>1, AtWork
<1>4. /\ worker' \in WorkerMemos /\ worker'.pc \in {"idle", "pick"} /\ worker'.d = 0
      /\ worker'.result = "none" /\ worker'.batch \subseteq worker.batch \ {worker.d}
  BY <1>2, <1>3, NoteMemoTyped
<1>5. n \in Notes
  BY <1>3 DEF NoteInv, RowsFit, Used
<1>6. word = "FAILED" /\ Exists(n) => Item.status = "DEAD_LETTER"
  <2>1. Exists(n) => Item.status # "none"
    BY <1>3 DEF NoteInv, RowsFit, Exists
  <2> QED
    BY <1>1, <1>3, <2>1 DEF Works
<1>7. /\ note' \in [Notes -> NoteRows] /\ (\A o \in Notes : note'[o].key = note[o].key)
      /\ \A o \in Notes : note[o].status = "none" => note'[o].status = "none"
      /\ \A o \in Notes \ {n} : note'[o] = note[o]
      /\ note'[n].status = "FAILED" => note[n].status = "FAILED" \/ Item.status = "DEAD_LETTER"
  <2>1. note \in [Notes -> NoteRows]
    BY NoteTyped DEF NoteInv
  <2>2. CASE Exists(n)
    BY <1>2, <1>5, <1>6, <2>1, <2>2 DEF Exists, NoteRows
  <2>3. CASE ~Exists(n)
    BY <1>2, <2>1, <2>3
  <2> QED
    BY <2>2, <2>3
<1> HIDE DEF word
<1>8. Queued' = Queued
  BY <1>2 DEF Queued
<1>9. RowsFit'
  BY <1>1, <1>2, <1>7, <1>8, RenamedKeeps
<1>10. FailedFits'
  BY <1>2, <1>3, <1>5, <1>7 DEF NoteInv, FailedFits
<1>11. NoteTypeOK'
  BY <1>1, <1>2, <1>4, <1>7 DEF NoteInv, NoteTypeOK, NoteRows, WorkerMemos
<1>12. WorkerFits'
  BY <1>2, <1>4, <1>8 DEF NoteInv, WorkerFits
<1>13. Rests(Item, tries[worker.d], pushes[worker.d], worker.d \in cut)
  BY <1>1, <1>3 DEF Works, Rests, Waiting
<1>14. DeliveriesFit'
  <2>1. 0 \notin Deliveries
    BY DEF Deliveries
  <2> QED
    BY <1>2, <1>3, <1>4, <1>13, <2>1 DEF NoteInv, DeliveriesFit
<1> QED
  BY <1>9, <1>10, <1>11, <1>12, <1>14 DEF NoteInv

LEMMA ThrowKeeps ==
  ASSUME NoteInv, WriteThrows
  PROVE  NoteInv'
<1> DEFINE w == [worker EXCEPT !.pc = "catch"]
<1>1. /\ worker.pc \in {"answer", "note", "failed"} /\ worker.result # "none"
      /\ worker.d # 0 /\ worker' = w
      /\ cut' = cut \cup {worker.d} /\ cuts < MaxCuts /\ cuts' = cuts + 1
      /\ UNCHANGED <<note, queue, active, notDue, pushes, tries, lately, quiet, noteCall>>
  BY DEF WriteThrows, Work, NoteInv, WorkerFits
<1>2. /\ worker.d \in Deliveries /\ Item = queue[worker.d] /\ Item \in ItemRows
      /\ worker \in WorkerMemos /\ tries[worker.d] \in Nat /\ pushes[worker.d] \in Nat
      /\ Happened(Item, tries[worker.d], pushes[worker.d], worker.d \in cut)
      /\ Works(worker, Item, tries[worker.d], pushes[worker.d], worker.d \in cut)
  BY <1>1, AtWork
<1>3. /\ w \in WorkerMemos /\ w.pc = "catch" /\ w.d = worker.d /\ w.batch = worker.batch
      /\ w.seen = worker.seen /\ w.result = worker.result
  BY <1>2 DEF WorkerMemos
<1> HIDE DEF w
<1>4. /\ queue' = [queue EXCEPT ![worker.d] = Item] /\ cuts' \in 0..MaxCuts
      /\ tries' \in [Deliveries -> Nat] /\ pushes' \in [Deliveries -> Nat]
      /\ active' \subseteq PushTokens /\ notDue' \subseteq Deliveries
  BY <1>1, <1>2, NoticeAssumption DEF NoticeAssumption, NoteInv, NoteTypeOK
<1>5. Happened(Item, tries[worker.d], pushes[worker.d], worker.d \in cut')
  BY <1>1, <1>2 DEF Happened
<1>6. Works(w, Item, tries[worker.d], pushes[worker.d], worker.d \in cut')
  <2>1. HasAsked(worker)
    BY <1>1 DEF HasAsked
  <2>2. Item.status = "DEAD_LETTER" => worker.seen + 1 >= MaxAttempts
    BY <1>1, <1>2 DEF Works, Open, Waiting
  <2> QED
    BY <1>1, <1>2, <1>3, <2>1, <2>2 DEF Works, HasAsked
<1> QED
  BY <1>1, <1>2, <1>3, <1>4, <1>5, <1>6, ItemGoesOn

LEMMA CatchKeeps ==
  ASSUME NoteInv, Catch
  PROVE  NoteInv'
<1>1. worker.pc = "catch" /\ worker.d # 0
  BY DEF Catch, Work, NoteInv, WorkerFits
<1>2. UNCHANGED <<note, active, pushes, tries, cut, cuts>>
  BY DEF Catch
<1>3. CASE Item.status = "none"
  BY <1>1, <1>2, <1>3, GoneKeeps DEF Catch
<1>4. CASE Item.status # "none"
  <2>1. /\ Work("catch", NextItem) /\ SetItem(Retry, worker.seen + 1)
        /\ notDue' \in {notDue, notDue \cup {worker.d}}
    BY <1>4 DEF Catch
  <2>2. /\ worker \in WorkerMemos /\ tries[worker.d] \in Nat /\ pushes[worker.d] \in Nat
        /\ worker.d \in Deliveries
        /\ Happened(Item, tries[worker.d], pushes[worker.d], worker.d \in cut)
        /\ Works(worker, Item, tries[worker.d], pushes[worker.d], worker.d \in cut)
    BY <1>1, AtWork
  <2>3. MaxAttempts \in Nat /\ worker.seen \in 0..MaxAttempts
    BY <2>2, NoticeAssumption DEF NoticeAssumption, WorkerMemos
  <2>4. /\ worker.seen < MaxAttempts /\ worker.seen + 1 <= tries[worker.d]
        /\ worker.d \notin cut => /\ tries[worker.d] = worker.seen + 1
                                  /\ pushes[worker.d] = 0
        /\ Item.status = "DEAD_LETTER" => worker.seen + 1 >= MaxAttempts
        /\ Item.n # 0
    BY <1>1, <2>2 DEF Works, HasAsked
  <2>5. /\ Retry \in {"DEAD_LETTER", "RETRYING"}
        /\ Retry = "DEAD_LETTER" <=> worker.seen + 1 >= MaxAttempts
    BY <2>3 DEF Retry, Exhausted
  <2>6. PICK item \in ItemRows :
          /\ queue' = [queue EXCEPT ![worker.d] = item]
          /\ item.n = Item.n /\ item.status = Retry /\ item.attempts = worker.seen + 1
    <3>1. Retry \in {"none"} \cup Waiting \cup Final /\ worker.seen + 1 \in 0..MaxAttempts
      BY <2>3, <2>4, <2>5 DEF Waiting, Final
    <3> QED
      BY <1>1, <2>1, <3>1, ItemSet
  <2>7. Happened(item, tries[worker.d], pushes[worker.d], worker.d \in cut)
    BY <2>2, <2>3, <2>4, <2>5, <2>6 DEF Happened
  <2>8. Rests(item, tries[worker.d], pushes[worker.d], worker.d \in cut)
    BY <2>3, <2>4, <2>5, <2>6 DEF Rests, Waiting
  <2>9. /\ Item.status = "DEAD_LETTER" => item.status = "DEAD_LETTER"
        /\ item.status # "none" /\ notDue' \subseteq Deliveries
    BY <2>1, <2>2, <2>4, <2>5, <2>6 DEF NoteInv, NoteTypeOK
  <2> QED
    BY <1>1, <1>2, <2>1, <2>6, <2>7, <2>8, <2>9, ItemDone
<1> QED
  BY <1>3, <1>4

LEMMA NoteRestartKeeps ==
  ASSUME NoteInv, Restart
  PROVE  NoteInv'
<1>1. /\ cuts < MaxCuts /\ cuts' = cuts + 1
      /\ noteCall' = [c \in Dispatchers |-> NoteIdle] /\ lately' = {} /\ worker' = WorkerIdle
      /\ cut' = cut \cup {d \in {worker.d} : d # 0 /\ worker.pc # "send"}
      /\ UNCHANGED <<note, queue, active, quiet, notDue, pushes, tries>>
  BY DEF Restart
<1>2. /\ noteCall' \in [Dispatchers -> NoteMemos] /\ \A c \in Dispatchers : noteCall'[c].pc = "idle"
      /\ worker' \in WorkerMemos /\ worker'.pc = "idle" /\ worker'.d = 0 /\ worker'.batch = {}
      /\ worker'.result = "none"
  BY <1>1, NoteMemoTyped
<1>3. worker.d = 0 \/ worker.d \in Deliveries
  BY AtWork
<1>4. cut' \subseteq Deliveries /\ \A d \in Deliveries \ {worker.d} : d \in cut' <=> d \in cut
  BY <1>1, <1>3 DEF NoteInv, NoteTypeOK
<1>5. cuts' \in 0..MaxCuts
  BY <1>1, NoticeAssumption DEF NoticeAssumption, NoteInv, NoteTypeOK
<1>6. NoteTypeOK'
  BY <1>1, <1>2, <1>4, <1>5 DEF NoteInv, NoteTypeOK, NoteMemos, WorkerMemos
<1>7. Used' = Used /\ Queued' = Queued
  BY <1>1 DEF Used, Queued
<1>8. RowsFit' /\ FailedFits'
  BY <1>1, <1>2, <1>7 DEF NoteInv, RowsFit, FailedFits
<1>9. WorkerFits'
  BY <1>2 DEF WorkerFits
<1>10. DeliveriesFit'
  <2>1. 0 \notin Deliveries
    BY DEF Deliveries
  <2>2. CASE worker.d = 0
    BY <1>1, <1>2, <2>1, <2>2 DEF NoteInv, DeliveriesFit
  <2>3. CASE worker.d # 0
    <3>1. /\ Item = queue[worker.d]
          /\ Happened(Item, tries[worker.d], pushes[worker.d], worker.d \in cut)
          /\ Works(worker, Item, tries[worker.d], pushes[worker.d], worker.d \in cut)
      BY <2>3, AtWork
    <3>2. worker.d \in cut => worker.d \in cut'
      BY <1>1
    <3>3. Happened(Item, tries[worker.d], pushes[worker.d], worker.d \in cut')
      BY <3>1, <3>2 DEF Happened
    <3>4. worker.d \notin cut' => worker.d \notin cut /\ worker.pc = "send"
      BY <1>1, <2>3
    <3>5. Rests(Item, tries[worker.d], pushes[worker.d], worker.d \in cut')
      BY <3>1, <3>4 DEF Rests, Works
    <3> QED
      BY <1>1, <1>2, <1>4, <2>1, <3>1, <3>3, <3>5 DEF NoteInv, DeliveriesFit
  <2> QED
    BY <2>2, <2>3
<1> QED
  BY <1>6, <1>8, <1>9, <1>10 DEF NoteInv

LEMMA NoteSteps == NoteInv /\ [NoteNext]_noteVars => NoteInv'
<1> SUFFICES ASSUME NoteInv, [NoteNext]_noteVars
             PROVE  NoteInv'
  OBVIOUS
<1>1. ASSUME NEW c \in Dispatchers, NoteRequest(c) \/ NoteStep(c)
      PROVE  NoteInv'
  <2>1. CASE FindNote(c) \/ FindTokens(c) \/ BeginRelease(c)
    BY <2>1, QuietDispatchKeeps
  <2>2. CASE \E k \in Events : BeginEvent(c, k)
    BY <2>2, EventKeeps
  <2> QED
    BY <1>1, <2>1, <2>2, InsertKeeps, EnqueueKeeps, ReleaseKeeps DEF NoteRequest, NoteStep
<1>2. CASE WorkerStep \/ WriteThrows \/ Restart
  BY <1>2, TickKeeps, PickKeeps, SendPushKeeps, WriteFailedKeeps, WriteAnswerKeeps, WriteNoteKeeps,
     CatchKeeps, ThrowKeeps, NoteRestartKeeps DEF WorkerStep
<1>3. CASE UNCHANGED noteVars
  <2>1. Used' = Used /\ Queued' = Queued
    BY <1>3 DEF noteVars, Used, Queued
  <2> QED
    BY <1>3, <2>1 DEF noteVars, NoteInv, NoteTypeOK, RowsFit, FailedFits, WorkerFits,
                      DeliveriesFit
<1> QED
  BY <1>1, <1>2, <1>3, DeleteNoteKeeps, SettingsKeep DEF NoteNext

THEOREM NoteInvariant == NoteSpec => []NoteInv
  BY NoteStarts, NoteSteps, PTL DEF NoteSpec

(* Rows, deliveries, handlers and the worker keep to their types.          *)
THEOREM NoticesTyped == NoteSpec => []NoteTypeOK
<1>1. NoteInv => NoteTypeOK
  BY DEF NoteInv
<1> QED
  BY <1>1, NoteInvariant, PTL

(* Whatever restarts and fails, a delivery reaches the phone once and      *)
(* spends at most its attempts, unless an interruption met it half-way.    *)
THEOREM PushedOnceAlways == NoteSpec => []PushedOnce
<1>1. NoteInv => PushedOnce
  BY DEF NoteInv, DeliveriesFit, Happened, PushedOnce
<1> QED
  BY <1>1, NoteInvariant, PTL

(* Even then, what is recorded of a delivery or a notification happened.   *)
THEOREM RecordIsTrueAlways == NoteSpec => []RecordIsTrue
<1>1. NoteInv => RecordIsTrue
  BY DEF NoteInv, DeliveriesFit, Happened, FailedFits, RecordIsTrue
<1> QED
  BY <1>1, NoteInvariant, PTL
=============================================================================
