------------------------------ MODULE Automations ------------------------------
(***************************************************************************)
(* One automation rule that the backend runs itself: AutomationService and *)
(* AutomationRepository.  What guards it, a hysteresis state and the time  *)
(* it fired last, is kept in RAM.  A caller is a trigger being evaluated.  *)
(* Of the conditions there is one, a power reading; what the actions do,   *)
(* loops of scenes, the log and the events published are left out.  The    *)
(* rules classified as EDGE are too: their routines have ids longer than   *)
(* the device stores, so every routine command of theirs is refused.  An   *)
(* edit turns the rule on or off; the scope, thresholds and cooldown of    *)
(* its trigger stay.                                                       *)
(***************************************************************************)
EXTENDS Naturals, Handlers

VARIABLES
  rule,        \* the row of automations
  enabled,     \* its is_enabled
  autoCall,    \* what each trigger is in
  power,       \* the reading, against the threshold and the recovery threshold
  triggered,   \* hysteresis state: the rule has fired and not recovered
  cooling,     \* hysteresis state: less than cooldownSeconds have passed since it fired
  waiting,     \* history: the rule has fired, and no trigger has found it recovered since
  hot,         \* history: less than cooldownSeconds have passed since it fired
  doubled,     \* history: a trigger fired the rule while it was waiting or hot and not forgotten
  overlapped,  \* history: a trigger came while another was being evaluated
  forgotten    \* history: the process restarted since the rule fired, waiting or hot

autoVars == <<rule, enabled, autoCall, power, triggered, cooling, waiting, hot, doubled,
              overlapped, forgotten>>

Readings == {"low", "middle", "high"}   \* below recovery, above it, above the threshold

AutoMemo(pc, manual, seen) == [pc |-> pc, manual |-> manual, seen |-> seen]
AutoIdle == AutoMemo("idle", FALSE, FALSE)

AutoTypeOK ==
  /\ rule \in {"none", "live", "deleted"}
  /\ autoCall \in [Callers -> [pc : {"idle", "evaluate"}, manual : BOOLEAN, seen : BOOLEAN]]
  /\ power \in Readings
  /\ {enabled, triggered, cooling, waiting, hot, doubled, overlapped, forgotten} \subseteq BOOLEAN

AutoInit ==
  /\ rule = "none" /\ enabled = FALSE
  /\ autoCall = [c \in Callers |-> AutoIdle]
  /\ power \in Readings /\ triggered = FALSE /\ cooling = FALSE /\ waiting = FALSE /\ hot = FALSE
  /\ doubled = FALSE /\ overlapped = FALSE /\ forgotten = FALSE

RuleStays == UNCHANGED <<rule, enabled>>
RunStays ==
  UNCHANGED <<autoCall, power, triggered, cooling, waiting, hot, doubled, overlapped, forgotten>>

CreateAutomation ==
  /\ rule = "none" /\ rule' = "live"
  /\ enabled' \in BOOLEAN
  /\ RunStays

(* updateAutomation, toggleAutomation and deleteAutomation read the rule   *)
(* first, but write only what they are asked to.                           *)
EditAutomation ==
  /\ rule = "live" /\ enabled' \in BOOLEAN
  /\ UNCHANGED rule /\ RunStays

DeleteAutomation ==
  /\ rule = "live" /\ rule' = "deleted"
  /\ enabled' = FALSE /\ RunStays

\* Mutant: the hysteresis state is not read.
BeginRun_NoState(c) ==
  \E manual \in BOOLEAN :
    /\ rule = "live" /\ autoCall[c] = AutoIdle
    /\ manual \/ (enabled /\ ~cooling)
    /\ autoCall' = [autoCall EXCEPT ![c] = AutoMemo("evaluate", manual, FALSE)]
    /\ overlapped' = (overlapped \/ \E d \in Callers : autoCall[d].pc = "evaluate")
    /\ RuleStays /\ UNCHANGED <<power, triggered, cooling, waiting, hot, doubled, forgotten>>

(* runAutomation: a trigger of a disabled rule, or within the cooldown,    *)
(* ends here; the hysteresis state it goes by is the one it finds here.    *)
BeginRun(c) ==
  \E manual \in BOOLEAN :
    /\ rule = "live" /\ autoCall[c] = AutoIdle
    /\ manual \/ (enabled /\ ~cooling)
    /\ autoCall' = [autoCall EXCEPT ![c] = AutoMemo("evaluate", manual, triggered)]
    /\ overlapped' = (overlapped \/ \E d \in Callers : autoCall[d].pc = "evaluate")
    /\ RuleStays /\ UNCHANGED <<power, triggered, cooling, waiting, hot, doubled, forgotten>>

(* The condition is evaluated, whatever became of the rule meanwhile.  One *)
(* that has fired waits for the recovery, and recovering resets the object *)
(* found at the beginning and writes it back, with the time it held; other *)
(* triggers may have found the same object.                                *)
Holds(m) == ~m.manual /\ m.seen /\ power # "low"
Recovers(m) == ~m.manual /\ m.seen /\ power = "low"
Fires(m) == ~Holds(m) /\ power = "high"

\* What really happened to the rule, whatever the process remembers of it.
Witness(m) ==
  /\ waiting' = (Fires(m) \/ (waiting /\ (m.manual \/ power # "low")))
  /\ hot' = (Fires(m) \/ hot)
  /\ doubled' = (doubled \/ (Fires(m) /\ ~m.manual /\ (waiting \/ hot) /\ ~forgotten))
  /\ forgotten' = (forgotten /\ ~Fires(m))

\* Mutant: recovering leaves the rule as it was.
Evaluate_Stuck(c) ==
  LET m == autoCall[c]
  IN  /\ m.pc = "evaluate" /\ autoCall' = [autoCall EXCEPT ![c] = AutoIdle]
      /\ triggered' = (Fires(m) \/ triggered) /\ cooling' = (Fires(m) \/ cooling)
      /\ Witness(m) /\ RuleStays /\ UNCHANGED <<power, overlapped>>

Evaluate(c) ==
  LET m == autoCall[c]
      sharers == {d \in Callers \ {c} : Recovers(m) /\ autoCall[d].pc = "evaluate"}
  IN  /\ m.pc = "evaluate"
      /\ \E reset \in SUBSET sharers :
           autoCall' = [d \in Callers |->
             IF d = c THEN AutoIdle
             ELSE IF d \in reset THEN [autoCall[d] EXCEPT !.seen = FALSE] ELSE autoCall[d]]
      /\ triggered' = (Fires(m) \/ (triggered /\ ~Recovers(m)))
      /\ cooling' = (Fires(m) \/ (cooling /\ ~Recovers(m)))
      /\ Witness(m) /\ RuleStays /\ UNCHANGED <<power, overlapped>>

(* A database call fails, and the trigger ends there. *)
FailAutomation(c) ==
  /\ autoCall[c].pc # "idle"
  /\ autoCall' = [autoCall EXCEPT ![c] = AutoIdle]
  /\ RuleStays
  /\ UNCHANGED <<power, triggered, cooling, waiting, hot, doubled, overlapped, forgotten>>

CooldownEnds ==
  /\ hot /\ hot' = FALSE /\ cooling' = FALSE
  /\ RuleStays /\ UNCHANGED <<autoCall, power, triggered, waiting, doubled, overlapped, forgotten>>

PowerChanges ==
  /\ power' \in Readings \ {power}
  /\ RuleStays
  /\ UNCHANGED <<autoCall, triggered, cooling, waiting, hot, doubled, overlapped, forgotten>>

(* Neither the state nor the time is restored. *)
RestartAutomations ==
  /\ autoCall' = [c \in Callers |-> AutoIdle]
  /\ triggered' = FALSE /\ cooling' = FALSE
  /\ forgotten' = (forgotten \/ waiting \/ hot)
  /\ RuleStays /\ UNCHANGED <<power, waiting, hot, doubled, overlapped>>

AutoNext ==
  \/ \E c \in Callers : BeginRun(c) \/ Evaluate(c) \/ FailAutomation(c)
  \/ CreateAutomation \/ EditAutomation \/ DeleteAutomation
  \/ CooldownEnds \/ PowerChanges \/ RestartAutomations

AutoSpec == AutoInit /\ [][AutoNext]_autoVars

-----------------------------------------------------------------------------
(* A trigger does not fire a rule that is cooling down or has not recovered*)
(* since it fired, unless triggers have overlapped, or the process has     *)
(* restarted and has forgotten that the rule fired, until it fires again.  *)
NotFiredTwice == doubled => overlapped

(* A rule is held back only for a reason: one whose state says that it has *)
(* fired did, and has not been found recovered since, or triggers have     *)
(* overlapped.  Otherwise it would wait for a recovery that is past.       *)
HeldForAReason == (triggered /\ ~waiting) \/ (cooling /\ ~hot) => overlapped
=============================================================================
