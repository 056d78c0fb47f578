------------------------------ MODULE OtaRollout ------------------------------
(***************************************************************************)
(* One rollout campaign: OtaRolloutService, OtaRolloutPolicyService and    *)
(* their repositories.  A campaign sends its release to its devices in     *)
(* batches; what was sent is kept in RAM, the statistics in one JSON       *)
(* column that every handler reads and writes back whole.  Module          *)
(* OtaOperations has the update of one device; here it starts or throws.   *)
(* The release stays published, every device is in the cohort, and one     *)
(* that is not eligible for another reason than its version is offline.    *)
(* The reports come from callers of the service's handlers: any of them,   *)
(* of any device, at any time, and again.                                  *)
(* Audit rows, notifications and the fleet's state columns are left out.   *)
(***************************************************************************)
EXTENDS Naturals, FiniteSets

CONSTANTS
  Admins,            \* requests to the campaign that are handled at a time
  Devices,           \* device ids of the campaign's product
  BatchSize, MaxConcurrency,
  ThresholdCount, ThresholdPercent,   \* failures that pause the campaign
  MaxReports         \* bound: reports to the campaign, and restarts

ASSUME RolloutAssumption ==
  /\ IsFiniteSet(Devices) /\ BatchSize \in Nat \ {0} /\ MaxConcurrency \in Nat \ {0}
  /\ ThresholdCount \in Nat \ {0} /\ ThresholdPercent \in 1..100
  /\ MaxReports \in Nat

VARIABLES
  campaign,    \* rollout_state
  stats,       \* statistics_json
  current,     \* the devices whose version is the campaign's
  dispatched,  \* _dispatchedDeviceIds of the campaign (RAM)
  otaCall,     \* the request each caller is in
  reports,     \* reports and restarts so far
  inFlight,    \* history: the devices sent a command whose end was not reported
  refused,     \* history: slots of updates that did not start, or were sent again
  strays,      \* history: ends reported of devices that were not in flight
  failures,    \* history: failures reported, other than of a rollback
  otaRaced,    \* history: requests overlapped, or one was cut
  resumed      \* history: the campaign was set running in spite of too many failures

otaVars == <<campaign, stats, current, dispatched, otaCall, reports, inFlight,
             refused, strays, failures, otaRaced, resumed>>

CampaignStates == {"DRAFT", "RUNNING", "PAUSED", "COMPLETED", "CANCELLED",
                   "FAILED_THRESHOLD_PAUSED", "ROLLING_BACK"}
ReportKinds == {"installed", "booted", "healthy", "failed", "rolledBack"}
Ends == {"installed", "failed", "rolledBack"}

(* LEGAL_TRANSITIONS, among the states some operation writes. *)
Legal ==
  [DRAFT |-> {"RUNNING", "CANCELLED"},
   RUNNING |-> {"PAUSED", "COMPLETED", "CANCELLED", "FAILED_THRESHOLD_PAUSED", "ROLLING_BACK"},
   PAUSED |-> {"RUNNING", "CANCELLED", "ROLLING_BACK"},
   FAILED_THRESHOLD_PAUSED |-> {"PAUSED", "RUNNING", "CANCELLED", "ROLLING_BACK"},
   ROLLING_BACK |-> {"FAILED_THRESHOLD_PAUSED", "CANCELLED"},
   COMPLETED |-> {"ROLLING_BACK"},
   CANCELLED |-> {}]

NoStats == [inProgress |-> 0, installed |-> 0, failed |-> 0, verified |-> 0, targeted |-> 0]
OtaMemo(pc, word, seen) ==
  [pc |-> pc, word |-> word, seen |-> seen, back |-> FALSE, todo |-> {}, d |-> {}, n |-> 0]
OtaIdle == OtaMemo("idle", "none", NoStats)

StatRows == [inProgress : Nat, installed : Nat, failed : Nat, verified : Nat,
             targeted : 0..Cardinality(Devices)]

OtaTypeOK ==
  /\ campaign \in CampaignStates /\ stats \in StatRows
  /\ current \subseteq Devices /\ dispatched \subseteq Devices /\ inFlight \subseteq Devices
  /\ otaCall \in [Admins -> [pc : {"idle", "select", "send", "count", "change", "report"},
                              word : CampaignStates \cup ReportKinds \cup {"none"},
                              seen : StatRows, back : BOOLEAN, todo : SUBSET Devices,
                              d : SUBSET Devices, n : 0..Cardinality(Devices)]]
  /\ reports \in 0..MaxReports /\ refused \in Nat /\ strays \in 0..MaxReports
  /\ failures \in 0..MaxReports
  /\ otaRaced \in BOOLEAN /\ resumed \in BOOLEAN

OtaInit ==
  /\ campaign = "DRAFT" /\ stats = NoStats
  /\ current = {} /\ dispatched = {} /\ inFlight = {}
  /\ otaCall = [c \in Admins |-> OtaIdle]
  /\ reports = 0 /\ refused = 0 /\ strays = 0 /\ failures = 0
  /\ otaRaced = FALSE /\ resumed = FALSE

OtaBegin(c, m) ==
  /\ otaCall[c].pc = "idle"
  /\ otaCall' = [otaCall EXCEPT ![c] = m]
  /\ otaRaced' = (otaRaced \/ \E d \in Admins : otaCall[d].pc # "idle")

OtaResume(c, from, m) ==
  /\ otaCall[c].pc = from
  /\ otaCall' = [otaCall EXCEPT ![c] = m]

CampaignStays == UNCHANGED <<campaign, stats, reports, strays, failures, resumed>>
DevicesStay == UNCHANGED <<current, dispatched, inFlight, refused>>

(* evaluateFailureThreshold. *)
Exceeded(s) ==
  /\ s.failed >= ThresholdCount
  /\ s.failed * 100 >= ThresholdPercent * (s.failed + s.installed + s.verified)

(* startRollout, pauseRollout, resumeRollout, cancelRollout and            *)
(* initiateRollback read the state, then write the next one.               *)
BeginChangeState(c, word) ==
  /\ word \in Legal[campaign]
  /\ OtaBegin(c, OtaMemo("change", word, NoStats))
  /\ CampaignStays /\ DevicesStay

ChangeState(c) ==
  LET word == otaCall[c].word
  IN  /\ OtaResume(c, "change", OtaIdle)
      /\ campaign' = word
      /\ resumed' = (resumed \/ (word = "RUNNING" /\ Exceeded(stats)))
      /\ UNCHANGED <<stats, reports, strays, failures, otaRaced>> /\ DevicesStay

(* executeBatch reads the campaign and its release, evaluates the devices  *)
(* one after another, and picks; it then goes through its batch.           *)
BeginBatch(c) ==
  /\ campaign \in {"RUNNING", "ROLLING_BACK"}
  /\ OtaBegin(c, OtaMemo("select", "none", stats))
  /\ CampaignStays /\ DevicesStay

AtMost(a, b) == IF a < b THEN a ELSE b

(* getNextBatch: how many of the pending devices are taken. *)
BatchRoom(active, pending) ==
  AtMost(BatchSize, AtMost(IF active < MaxConcurrency THEN MaxConcurrency - active ELSE 0,
                           Cardinality(pending)))

(* The next device is marked as it is taken; after the last, the counting. *)
NextDevice(c, from, m) ==
  \/ /\ m.todo = {}
     /\ OtaResume(c, from, [m EXCEPT !.pc = "count", !.d = {}])
     /\ UNCHANGED dispatched
  \/ \E d \in m.todo :
       /\ OtaResume(c, from, [m EXCEPT !.pc = "send", !.todo = @ \ {d}, !.d = {d}, !.n = @ + 1])
       /\ dispatched' = dispatched \cup {d}

SelectBatch(c) ==
  \E eligible \in SUBSET (Devices \ current) :
    LET pending == eligible \ dispatched
    IN  \E todo \in SUBSET pending :
          /\ Cardinality(todo) = BatchRoom(otaCall[c].seen.inProgress, pending)
          /\ NextDevice(c, "select", [otaCall[c] EXCEPT !.todo = todo,
                                         !.seen.targeted = Cardinality(eligible)])
          /\ UNCHANGED <<current, inFlight, refused, otaRaced>> /\ CampaignStays

(* The release that was read is sent, in a rollback too.                   *)
SendUpdate(c) ==
  /\ NextDevice(c, "send", otaCall[c])
  /\ inFlight' = inFlight \cup otaCall[c].d
  /\ refused' = refused + Cardinality(inFlight \cap otaCall[c].d)
  /\ UNCHANGED <<current, otaRaced>> /\ CampaignStays

(* initiateOta throws; the batch records it and goes on.                   *)
SendThrows(c) ==
  /\ NextDevice(c, "send", otaCall[c])
  /\ refused' = refused + 1
  /\ UNCHANGED <<current, inFlight, otaRaced>> /\ CampaignStays

\* Mutant: the batch is not added to what is in progress.
CountBatch_NotAdded(c) ==
  /\ OtaResume(c, "count", OtaIdle)
  /\ stats' = otaCall[c].seen
  /\ UNCHANGED <<campaign, reports, strays, failures, resumed, otaRaced>> /\ DevicesStay

CountBatch(c) ==
  /\ OtaResume(c, "count", OtaIdle)
  /\ stats' = [otaCall[c].seen EXCEPT !.inProgress = @ + otaCall[c].n]
  /\ UNCHANGED <<campaign, reports, strays, failures, resumed, otaRaced>> /\ DevicesStay

(* The handlers of the campaign record the device, read the campaign, and  *)
(* write its statistics back.  Nobody asks whether the device was sent an  *)
(* update, or has reported its end before.                                 *)
BeginReport(c, d, kind) ==
  /\ reports < MaxReports /\ reports' = reports + 1
  /\ OtaBegin(c, [OtaMemo("report", kind, stats) EXCEPT !.back = campaign = "RUNNING"])
  /\ IF kind \in Ends
     THEN /\ inFlight' = inFlight \ {d}
          /\ strays' = IF d \in inFlight THEN strays ELSE strays + 1
     ELSE UNCHANGED <<inFlight, strays>>
  /\ failures' = IF kind = "failed" THEN failures + 1 ELSE failures
  /\ current' = IF kind = "installed" THEN current \cup {d} ELSE current
  /\ UNCHANGED <<campaign, stats, resumed, dispatched, refused>>

\* Mutant: the counter is not kept from going below zero.
Less_Negative(n) == n - 1

Less(n) == IF n = 0 THEN 0 ELSE n - 1

Counted(s, kind) ==
  CASE kind = "installed" -> [s EXCEPT !.inProgress = Less(@), !.installed = @ + 1]
    [] kind = "failed" -> [s EXCEPT !.inProgress = Less(@), !.failed = @ + 1]
    [] kind = "rolledBack" -> [s EXCEPT !.inProgress = Less(@)]
    [] kind = "healthy" -> [s EXCEPT !.verified = @ + 1]
    [] kind = "booted" -> s

(* A failure may pause a campaign that was found RUNNING; the last health  *)
(* check completes one in any state.                                       *)
StateAfter(m, s) ==
  CASE m.word \in {"failed", "rolledBack"} /\ m.back /\ Exceeded(s) -> "FAILED_THRESHOLD_PAUSED"
    [] m.word = "healthy" /\ s.verified >= s.targeted /\ s.targeted > 0 -> "COMPLETED"
    [] OTHER -> campaign

CountReport(c) ==
  LET m == otaCall[c]
      s == Counted(m.seen, m.word)
  IN  /\ OtaResume(c, "report", OtaIdle)
      /\ stats' = s
      /\ campaign' = StateAfter(m, s)
      /\ UNCHANGED <<reports, strays, failures, resumed, otaRaced>> /\ DevicesStay

(* The process restarts: handlers and the list of the dispatched are lost. *)
RestartRollout ==
  /\ reports < MaxReports /\ reports' = reports + 1
  /\ dispatched' = {}
  /\ otaCall' = [c \in Admins |-> OtaIdle]
  /\ otaRaced' = (otaRaced \/ \E c \in Admins : otaCall[c].pc # "idle")
  /\ UNCHANGED <<campaign, stats, strays, failures, resumed, current, inFlight, refused>>

OtaRequest(c) ==
  \/ \E word \in {"RUNNING", "PAUSED", "CANCELLED", "ROLLING_BACK"} : BeginChangeState(c, word)
  \/ BeginBatch(c)
  \/ \E d \in Devices, kind \in ReportKinds : BeginReport(c, d, kind)

OtaStep(c) ==
  \/ ChangeState(c) \/ SelectBatch(c) \/ SendUpdate(c) \/ SendThrows(c) \/ CountBatch(c)
  \/ CountReport(c)

OtaNext == RestartRollout \/ \E c \in Admins : OtaRequest(c) \/ OtaStep(c)

OtaSpec == OtaInit /\ [][OtaNext]_otaVars

-----------------------------------------------------------------------------
OtaQuiet == ~otaRaced /\ \A c \in Admins : otaCall[c].pc = "idle"

(* The statistics count what happened: the slots in use are the devices at *)
(* work and those of updates that never started or were sent again, which  *)
(* are kept for good, less at most one for each end that was reported      *)
(* again or of a device that was sent nothing; every failure is counted.   *)
(* Not so once two requests have overlapped, or one was cut.               *)
StatsAreTrue ==
  OtaQuiet => /\ stats.inProgress <= Cardinality(inFlight) + refused
              /\ Cardinality(inFlight) + refused <= stats.inProgress + strays
              /\ stats.failed = failures

(* No more devices are updated at a time than the campaign allows, and one *)
(* more for each of those reports.                                         *)
InFlightBounded == ~otaRaced => Cardinality(inFlight) <= MaxConcurrency + strays

(* Too many failures leave no campaign running, unless someone starts or   *)
(* resumes it with them.                                                   *)
ThresholdPauses == (OtaQuiet /\ ~resumed /\ campaign = "RUNNING") => ~Exceeded(stats)

(* A campaign keeps step with its devices.                                 *)
RolloutInStep == StatsAreTrue /\ InFlightBounded /\ ThresholdPauses
=============================================================================
