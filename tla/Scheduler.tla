------------------------------- MODULE Scheduler -------------------------------
(***************************************************************************)
(* One schedule and one time-based automation, and the worker that runs    *)
(* them: ScheduleService, ScheduleRepository, AutomationSchedulerWorker.   *)
(* The worker ticks on an interval and does not wait for its last tick, so *)
(* ticks overlap; what it has locked and executed it keeps in RAM.  Time   *)
(* is a clock in minutes, DayLength of them to a day; a time of day is one *)
(* of them, and every day counts.  The times are those of the in-memory    *)
(* adapter, ISO strings; names and time zones are left out.                *)
(***************************************************************************)
EXTENDS Naturals, FiniteSets, Handlers

CONSTANTS
  Tickers,     \* ticks that may be under way at a time
  DayLength,   \* minutes of a day
  Late,        \* a run overdue by more is not made up for (two minutes in the code)
  KeyLimit,    \* executed keys kept before they are all forgotten (10000 in the code)
  AutoTime,    \* the minute of the day the automation is for
  MaxTime,     \* bound: the clock
  MaxChanges   \* bound: changes by users, failed runs and restarts

ASSUME ScheduleAssumption ==
  /\ DayLength \in Nat \ {0} /\ AutoTime \in 0..(DayLength - 1)
  /\ Late \in Nat /\ KeyLimit \in Nat /\ MaxTime \in Nat /\ MaxChanges \in Nat

VARIABLES
  clock,
  sched,       \* the row of schedules: next is a set of at most one time
  tick,        \* what each tick is at, and the due rows it has read
  locked,      \* _lockedScheduleIds holds the schedule
  keys,        \* _executedIdempotencyKeys
  fired,       \* history: the runs started since the process was
  firedTwice,  \* history: one was started again
  forgot,      \* history: the keys have been forgotten since the process started
  edit,        \* the update each caller is about to write
  spoilt,      \* history: what the next run may be wrong for has come about
  changes

schedVars == <<clock, sched, tick, locked, keys, fired, firedTwice, forgot, edit, spoilt,
               changes>>

DayTimes == 0..(DayLength - 1)
Times == 0..(MaxTime + DayLength)
RunKeys == {"schedule", "automation"} \X Times
NoSched == [there |-> FALSE, on |-> FALSE, daily |-> FALSE, tod |-> 0, next |-> {}]
TickIdle == [pc |-> "idle", asOf |-> 0, due |-> {}]
NoEdit == [pc |-> "idle", tod |-> {}, daily |-> {}, next |-> {}, seen |-> 0]
SchedRows == [there : BOOLEAN, on : BOOLEAN, daily : BOOLEAN, tod : DayTimes, next : SUBSET Times]

SchedTypeOK ==
  /\ clock \in 0..MaxTime /\ changes \in 0..MaxChanges
  /\ sched \in SchedRows /\ Cardinality(sched.next) <= 1
  /\ \A k \in Tickers :
       /\ tick[k].pc \in {"idle", "due", "overdue", "run", "advance", "auto", "end"}
       /\ tick[k].asOf \in 0..MaxTime /\ tick[k].due \subseteq SchedRows
       /\ tick[k].pc \in {"overdue", "run", "advance"} => locked
  /\ keys \subseteq RunKeys /\ fired \subseteq RunKeys
  /\ {locked, firedTwice, forgot, spoilt} \subseteq BOOLEAN
  /\ \A c \in Callers :
       /\ edit[c].pc \in {"idle", "write"} /\ edit[c].seen \in DayTimes
       /\ edit[c].tod \subseteq DayTimes /\ edit[c].daily \subseteq BOOLEAN
       /\ edit[c].next \subseteq Times /\ Cardinality(edit[c].next) <= 1

SchedInit ==
  /\ clock = 0 /\ sched = NoSched
  /\ tick = [k \in Tickers |-> TickIdle]
  /\ locked = FALSE /\ keys = {} /\ fired = {} /\ changes = 0
  /\ firedTwice = FALSE /\ forgot = FALSE /\ spoilt = FALSE
  /\ edit = [c \in Callers |-> NoEdit]

(* calculateNextRun: the first time after t that is at the time of day.    *)
NextRun(tod, t) == {CHOOSE u \in (t + 1)..(t + DayLength) : u % DayLength = tod}

Fire(key) == fired' = fired \cup {key} /\ firedTwice' = (firedTwice \/ key \in fired)

(* What users ask for. *)
UserAsks ==
  /\ changes < MaxChanges /\ changes' = changes + 1
  /\ UNCHANGED <<clock, tick, locked, keys, fired, firedTwice, forgot>>

CreateSchedule ==
  \E daily \in BOOLEAN, tod \in DayTimes :
    /\ sched = NoSched /\ changes = 0 /\ UserAsks
    /\ sched' = [there |-> TRUE, on |-> TRUE, daily |-> daily, tod |-> tod,
                 next |-> NextRun(tod, clock)]
    /\ UNCHANGED <<edit, spoilt>>

(* updateSchedule reads the row and reckons the next run, when the body    *)
(* names the time, the type (here, another one) or the days in camelCase:  *)
(* by what it asks for, and by the row where it does not.                  *)
Asked(S) == {{}} \cup {{x} : x \in S}
Given(asked, old) == IF asked = {} THEN old ELSE CHOOSE x \in asked : TRUE

\* Mutant: the next run is not reckoned again.
UpdateSchedule_SameRun(c) ==
  \E tod \in Asked(DayTimes), daily \in Asked(BOOLEAN \ {sched.daily}) :
    /\ sched.there /\ edit[c] = NoEdit /\ UserAsks
    /\ edit' = [edit EXCEPT ![c] = [pc |-> "write", tod |-> tod, daily |-> daily,
                                   next |-> sched.next, seen |-> sched.tod]]
    /\ UNCHANGED <<sched, spoilt>>

UpdateSchedule(c) ==
  \E tod \in Asked(DayTimes), daily \in Asked(BOOLEAN \ {sched.daily}) :
    /\ sched.there /\ edit[c] = NoEdit /\ UserAsks
    /\ edit' = [edit EXCEPT ![c] = [pc |-> "write", tod |-> tod, daily |-> daily,
                                   next |-> NextRun(Given(tod, sched.tod), clock),
                                   seen |-> sched.tod]]
    /\ UNCHANGED <<sched, spoilt>>

(* ... and then writes what was asked for and the run it reckoned; a row   *)
(* deleted meanwhile stays so.  A tick that has read the row as it was may *)
(* still move it on by the old time, and the run may have been reckoned by *)
(* a time the row no longer has.                                           *)
Held == \E k \in Tickers : tick[k].due # {}

WriteUpdate(c) ==
  LET m == edit[c]
  IN  /\ m.pc = "write" /\ edit' = [edit EXCEPT ![c] = NoEdit]
      /\ IF sched.there
         THEN /\ sched' = [sched EXCEPT !.tod = Given(m.tod, @), !.daily = Given(m.daily, @),
                                        !.next = m.next]
              /\ spoilt' = (Held \/ (m.tod = {} /\ m.seen # sched.tod))
         ELSE UNCHANGED <<sched, spoilt>>
      /\ UNCHANGED <<clock, tick, locked, keys, fired, firedTwice, forgot, changes>>

(* The body goes to the repository as it came: in snake_case the time and  *)
(* the type are written without a new run, and in either the run itself,   *)
(* as it is given (here, to be due at once) or to none.                    *)
PatchSchedule ==
  \E tod \in DayTimes, daily \in BOOLEAN,
     next \in {sched.next} \cup Asked({clock}) :
    /\ sched.there /\ UserAsks
    /\ sched' = [sched EXCEPT !.tod = tod, !.daily = daily, !.next = next]
    /\ sched' # sched /\ spoilt' = TRUE
    /\ UNCHANGED edit

(* The other requests write nothing they have read. *)
ToggleSchedule ==
  /\ sched.there /\ UserAsks
  /\ sched' = [sched EXCEPT !.on = ~@]
  /\ UNCHANGED <<edit, spoilt>>

DeleteSchedule ==
  /\ sched.there /\ UserAsks
  /\ sched' = NoSched
  /\ UNCHANGED <<edit, spoilt>>

TickGoto(k, from, t) == tick[k].pc = from /\ tick' = [tick EXCEPT ![k] = t]

(* A tick reads the schedules that are due. *)
BeginTick(k) ==
  /\ TickGoto(k, "idle", [pc |-> "due", asOf |-> clock,
       due |-> {row \in {sched} : row.on /\ \E t \in row.next : t <= clock}])
  /\ UNCHANGED <<clock, sched, locked, keys, fired, firedTwice, forgot, edit, spoilt, changes>>

\* Mutant: the keys are not looked at.
HasRun_Never(key) == FALSE

HasRun(key) == key \in keys

(* A locked schedule is passed over, one overdue too long is given up, one *)
(* whose key is known has been run.                                        *)
TakeDue(k) ==
  LET row == CHOOSE r \in tick[k].due : TRUE
      at == CHOOSE t \in row.next : TRUE
      key == <<"schedule", at>>
      skip == tick[k].due = {} \/ locked
      late == ~skip /\ at + Late < tick[k].asOf
      runs == ~skip /\ ~late /\ ~HasRun(key)
  IN  /\ TickGoto(k, "due", IF late THEN [tick[k] EXCEPT !.pc = "overdue"]
                            ELSE IF runs THEN [tick[k] EXCEPT !.pc = "run"]
                            ELSE [tick[k] EXCEPT !.pc = "auto", !.due = {}])
      /\ locked' = (locked \/ late \/ runs)
      /\ keys' = IF runs THEN keys \cup {key} ELSE keys
      /\ UNCHANGED <<clock, sched, fired, firedTwice, forgot, edit, spoilt, changes>>

Leave(k, from) ==
  /\ TickGoto(k, from, [tick[k] EXCEPT !.pc = "auto", !.due = {}])
  /\ locked' = FALSE

GiveUp(k) ==
  /\ Leave(k, "overdue")
  /\ sched' = [sched EXCEPT !.next = {}]
  /\ spoilt' = TRUE
  /\ UNCHANGED <<clock, keys, fired, firedTwice, forgot, edit, changes>>

(* executeDueSchedule runs the automation or the scene ... *)
Run(k) ==
  /\ TickGoto(k, "run", [tick[k] EXCEPT !.pc = "advance"])
  /\ \E row \in tick[k].due : \E at \in row.next : Fire(<<"schedule", at>>)
  /\ UNCHANGED <<clock, sched, locked, keys, forgot, edit, spoilt, changes>>

(* ... which may throw, and the schedule is left as it was ... *)
RunThrows(k) ==
  /\ changes < MaxChanges /\ changes' = changes + 1
  /\ Leave(k, "run")
  /\ UNCHANGED <<clock, sched, keys, fired, firedTwice, forgot, edit, spoilt>>

(* ... and moves the schedule on, by the row the tick has read.            *)
Advance(k) ==
  /\ Leave(k, "advance")
  /\ \E row \in tick[k].due :
       sched' = IF ~sched.there THEN sched
                ELSE IF row.daily THEN [sched EXCEPT !.next = NextRun(row.tod, tick[k].asOf)]
                ELSE [sched EXCEPT !.on = FALSE, !.next = {}]
  /\ UNCHANGED <<clock, keys, fired, firedTwice, forgot, edit, spoilt, changes>>

(* The automation runs in the minute it is for. *)
RunAutomation(k) ==
  LET key == <<"automation", tick[k].asOf>>
      runs == tick[k].asOf % DayLength = AutoTime /\ ~HasRun(key)
  IN  /\ TickGoto(k, "auto", [tick[k] EXCEPT !.pc = "end"])
      /\ keys' = IF runs THEN keys \cup {key} ELSE keys
      /\ IF runs THEN Fire(key) ELSE UNCHANGED <<fired, firedTwice>>
      /\ UNCHANGED <<clock, sched, locked, forgot, edit, spoilt, changes>>

EndTick(k) ==
  LET full == Cardinality(keys) > KeyLimit
  IN  /\ TickGoto(k, "end", TickIdle)
      /\ keys' = IF full THEN {} ELSE keys
      /\ forgot' = (forgot \/ full)
      /\ UNCHANGED <<clock, sched, locked, fired, firedTwice, edit, spoilt, changes>>

Passes ==
  /\ clock < MaxTime /\ clock' = clock + 1
  /\ UNCHANGED <<sched, tick, locked, keys, fired, firedTwice, forgot, edit, spoilt, changes>>

RestartScheduler ==
  /\ changes < MaxChanges /\ changes' = changes + 1
  /\ tick' = [k \in Tickers |-> TickIdle]
  /\ locked' = FALSE /\ keys' = {} /\ fired' = {} /\ firedTwice' = FALSE /\ forgot' = FALSE
  /\ edit' = [c \in Callers |-> NoEdit]
  /\ UNCHANGED <<clock, sched, spoilt>>

TickStep(k) ==
  \/ BeginTick(k) \/ TakeDue(k) \/ GiveUp(k) \/ Run(k) \/ RunThrows(k) \/ Advance(k)
  \/ RunAutomation(k) \/ EndTick(k)

SchedNext ==
  \/ \E k \in Tickers : TickStep(k)
  \/ \E c \in Callers : UpdateSchedule(c) \/ WriteUpdate(c)
  \/ CreateSchedule \/ PatchSchedule \/ ToggleSchedule \/ DeleteSchedule
  \/ Passes \/ RestartScheduler

SchedSpec == SchedInit /\ [][SchedNext]_schedVars

-----------------------------------------------------------------------------
(* However ticks overlap, the process starts each due run once, until it   *)
(* forgets the keys of those it has run.                                   *)
FiredOnce == firedTwice => forgot

(* What a schedule loses its run to: one overdue by more than the limit is *)
(* given up, and the schedule stays enabled without one; a patch writes    *)
(* the time without the run, or the run without the time; and an update    *)
(* meets a tick that has read the row, or another change of the time.  An  *)
(* update that meets neither puts the schedule right again.  Otherwise an  *)
(* enabled daily schedule has a next run ...                               *)
StillScheduled ==
  (sched.there /\ sched.on /\ sched.daily /\ sched.next = {}) => spoilt

(* ... and it is at the schedule's time of day. *)
TimeKept == ~spoilt => \A t \in sched.next : t % DayLength = sched.tod

(* A schedule keeps the run its owner has asked for.                       *)
ScheduleKept == StillScheduled /\ TimeKept
=============================================================================
