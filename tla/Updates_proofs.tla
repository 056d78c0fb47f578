---------------------------- MODULE Updates_proofs ----------------------------
(***************************************************************************)
(* Proofs about OtaOperations, for every number of operations and set of   *)
(* callers, and about OtaRollout, for every set of devices, batch size,    *)
(* concurrency and threshold.                                              *)
(*                                                                         *)
(* An initiation that has passed the look for an active operation is, if   *)
(* no other has, the only one to create one, and what is active by then    *)
(* was posted to be.  A campaign is followed from one request to the       *)
(* next: what its batch or report has done so far is the difference        *)
(* between the statistics and the devices, give or take the ends that were *)
(* reported of devices at no work.                                         *)
(***************************************************************************)
EXTENDS OtaOperations, OtaRollout, FiniteSetTheorems, TLAPS

OpMemos == [pc : {"idle", "create", "send", "version"}, o : 0..MaxOps, version : OtaVersions]

Creating == {c \in Callers : opCall[c].pc = "create"}
Recording == {c \in Callers : opCall[c].pc = "version"}

\* One initiation creates an operation at a time, when none is active but what was
\* made so again.
OneCreates ==
    ~initRaced =>
      /\ \A c, d \in Creating : c = d
      /\ Creating # {} => \A o \in OpIds : otaOps[o] = "active" => o \in reactivated

\* One report of a success is before its write, and it is the last.
OneRecords ==
    ~versionLost =>
      /\ \A c, d \in Recording : c = d
      /\ \A c \in Recording : opCall[c].version = told

OpInv == OpTypeOK /\ OneCreates /\ OneActive /\ OneRecords /\ VersionFollows

USE OperationAssumption, RolloutAssumption DEF OperationAssumption, RolloutAssumption

-----------------------------------------------------------------------------
(* The updates of one device                                               *)

LEMMA OpMemoTyped ==
  ASSUME NEW p \in {"idle", "create", "send", "version"}, NEW o \in 0..MaxOps,
         NEW version \in OtaVersions
  PROVE  /\ OpMemo(p, o, version) \in OpMemos /\ OpMemo(p, o, version).pc = p
         /\ OpMemo(p, o, version).version = version
  BY DEF OpMemo, OpMemos

LEMMA OpIdleTyped == OpIdle \in OpMemos /\ OpIdle.pc = "idle"
  BY OpMemoTyped DEF OpIdle, OtaVersions

LEMMA OpGotoTyped ==
  ASSUME OpInv, NEW c \in Callers, NEW p, NEW m \in OpMemos, OpGoto(c, p, m)
  PROVE  /\ opCall' \in [Callers -> OpMemos] /\ opCall'[c] = m /\ opCall[c].pc = p
         /\ \A d \in Callers \ {c} : opCall'[d] = opCall[d]
  BY DEF OpInv, OpTypeOK, OpGoto, OpMemos

LEMMA OpInit_ == OpInit => OpInv
<1> SUFFICES ASSUME OpInit
             PROVE  OpInv
  OBVIOUS
<1>1. OpTypeOK
  BY OpIdleTyped DEF OpInit, OpTypeOK, OpMemos, OtaVersions
<1>2. Creating = {} /\ Recording = {}
  BY OpIdleTyped DEF OpInit, Creating, Recording
<1> QED
  BY <1>1, <1>2 DEF OpInit, OpInv, OneCreates, OneActive, OneRecords, VersionFollows

\* A request that creates and records nothing.
LEMMA OpQuietKeeps ==
  ASSUME OpInv, opCall' \in [Callers -> OpMemos], UNCHANGED <<otaOps, firmware, told, reactivated>>,
         Creating' \subseteq Creating, Recording' = Recording,
         \A c \in Recording : opCall'[c] = opCall[c],
         initRaced' = initRaced, versionLost' = versionLost
  PROVE  OpInv'
<1>1. OpTypeOK' /\ OneCreates' /\ OneActive'
  BY DEF OpInv, OpTypeOK, OpMemos, OneCreates, OneActive
<1>2. OneRecords' /\ VersionFollows'
  BY DEF OpInv, OneRecords, VersionFollows, Recording
<1> QED
  BY <1>1, <1>2 DEF OpInv

LEMMA CheckActiveKeeps ==
  ASSUME OpInv, NEW c \in Callers, CheckActive(c)
  PROVE  OpInv'
<1> DEFINE m == OpMemo("create", 0, "old")
<1>1. m \in OpMemos /\ m.pc = "create"
  BY OpMemoTyped DEF OtaVersions
<1>2. /\ opCall' \in [Callers -> OpMemos] /\ opCall'[c] = m /\ opCall[c].pc = "idle"
      /\ \A d \in Callers \ {c} : opCall'[d] = opCall[d]
  BY <1>1, OpGotoTyped DEF CheckActive
<1> HIDE DEF m
<1>3. /\ ~HasActive /\ UNCHANGED <<otaOps, firmware, told, reactivated, versionLost>>
      /\ initRaced' = (initRaced \/ \E d \in Callers \ {c} : opCall[d].pc = "create")
  BY DEF CheckActive
<1>4. /\ Recording' = Recording /\ Creating' = Creating \cup {c}
      /\ \A d \in Recording : opCall'[d] = opCall[d]
  BY <1>1, <1>2 DEF Recording, Creating
<1>5. initRaced' \in BOOLEAN /\ (~initRaced' => ~initRaced /\ Creating' = {c})
  BY <1>3, <1>4 DEF OpInv, OpTypeOK, Creating
<1>6. OpTypeOK'
  BY <1>2, <1>3, <1>5 DEF OpInv, OpTypeOK, OpMemos
<1>7. OneCreates' /\ OneActive'
  BY <1>3, <1>5 DEF OpInv, OneCreates, OneActive, HasActive
<1>8. OneRecords' /\ VersionFollows'
  BY <1>3, <1>4 DEF OpInv, OneRecords, VersionFollows, Recording
<1> QED
  BY <1>6, <1>7, <1>8 DEF OpInv

LEMMA CreateKeeps ==
  ASSUME OpInv, NEW c \in Callers, CreateOperation(c)
  PROVE  OpInv'
<1>1. PICK o \in OpIds :
        /\ otaOps[o] = "none" /\ OpGoto(c, "create", OpMemo("send", o, "old"))
        /\ otaOps' = [otaOps EXCEPT ![o] = "active"]
  BY DEF CreateOperation
<1>2. UNCHANGED <<firmware, told, initRaced, reactivated, versionLost>>
  BY DEF CreateOperation
<1> DEFINE m == OpMemo("send", o, "old")
<1>3. m \in OpMemos /\ m.pc = "send"
  BY OpMemoTyped DEF OtaVersions, OpIds
<1>4. /\ opCall' \in [Callers -> OpMemos] /\ opCall'[c] = m /\ opCall[c].pc = "create"
      /\ \A d \in Callers \ {c} : opCall'[d] = opCall[d]
  BY <1>1, <1>3, OpGotoTyped
<1> HIDE DEF m
<1>5. /\ otaOps' \in [OpIds -> {"none", "active", "ended"}] /\ otaOps'[o] = "active"
      /\ \A p \in OpIds \ {o} : otaOps'[p] = otaOps[p]
  BY <1>1 DEF OpInv, OpTypeOK
<1>6. /\ c \in Creating /\ Creating' = Creating \ {c} /\ Recording' = Recording
      /\ \A d \in Recording : opCall'[d] = opCall[d]
  BY <1>3, <1>4 DEF Creating, Recording
<1>7. OpTypeOK'
  BY <1>2, <1>4, <1>5 DEF OpInv, OpTypeOK, OpMemos
\* No other initiation is about to create, and o is the only active operation that
\* was not made so again.
<1>8. OneCreates' /\ OneActive'
  BY <1>2, <1>5, <1>6 DEF OpInv, OneCreates, OneActive
<1>9. OneRecords' /\ VersionFollows'
  BY <1>2, <1>6 DEF OpInv, OneRecords, VersionFollows, Recording
<1> QED
  BY <1>7, <1>8, <1>9 DEF OpInv

LEMMA SendKeeps ==
  ASSUME OpInv, NEW c \in Callers, SendOta(c)
  PROVE  OpInv'
<1>1. /\ opCall' \in [Callers -> OpMemos] /\ opCall'[c] = OpIdle /\ opCall[c].pc = "send"
      /\ \A d \in Callers \ {c} : opCall'[d] = opCall[d]
  BY OpIdleTyped, OpGotoTyped DEF SendOta
<1>2. UNCHANGED <<otaOps, firmware, told, initRaced, reactivated, versionLost>>
  BY DEF SendOta
<1>3. /\ Creating' \subseteq Creating /\ Recording' = Recording
      /\ \A d \in Recording : opCall'[d] = opCall[d]
  BY <1>1, OpIdleTyped DEF Creating, Recording
<1> QED
  BY <1>1, <1>2, <1>3, OpQuietKeeps

\* What an operation becomes does not matter to the initiations and the records,
\* when it is active only if made so again.
LEMMA StageKeeps ==
  ASSUME OpInv, NEW o \in OpIds, NEW stage \in {"active", "ended"},
         otaOps' = [otaOps EXCEPT ![o] = stage], reactivated' \subseteq OpIds,
         \A p \in OpIds \ {o} : p \in reactivated' <=> p \in reactivated,
         stage = "active" => o \in reactivated',
         initRaced' = initRaced, Creating' \subseteq Creating
  PROVE  /\ otaOps' \in [OpIds -> {"none", "active", "ended"}]
         /\ OneCreates' /\ OneActive'
<1>1. /\ otaOps' \in [OpIds -> {"none", "active", "ended"}] /\ otaOps'[o] = stage
      /\ \A p \in OpIds \ {o} : otaOps'[p] = otaOps[p]
  BY DEF OpInv, OpTypeOK
<1>2. OneCreates'
  BY <1>1 DEF OpInv, OneCreates
<1>3. OneActive'
  BY <1>1 DEF OpInv, OneActive
<1> QED
  BY <1>1, <1>2, <1>3

LEMMA ReportSuccessKeeps ==
  ASSUME OpInv, NEW c \in Callers, ReportSuccess(c)
  PROVE  OpInv'
<1>1. PICK o \in OpIds, version \in OtaVersions, named \in BOOLEAN :
        /\ OpGoto(c, "idle", IF named THEN OpMemo("version", o, version) ELSE OpIdle)
        /\ otaOps' = [otaOps EXCEPT ![o] = "ended"]
        /\ told' = IF named THEN version ELSE told
        /\ reactivated' = reactivated \ {o}
        /\ versionLost' = IF named THEN \E d \in Callers : opCall[d].pc = "version"
                          ELSE versionLost
  BY DEF ReportSuccess
<1>2. UNCHANGED <<firmware, initRaced>>
  BY DEF ReportSuccess
<1> DEFINE m == IF named THEN OpMemo("version", o, version) ELSE OpIdle
<1>3. m \in OpMemos /\ (named => m.pc = "version" /\ m.version = version)
      /\ (~named => m.pc = "idle")
  BY OpMemoTyped, OpIdleTyped DEF OpIds
<1>4. /\ opCall' \in [Callers -> OpMemos] /\ opCall'[c] = m /\ opCall[c].pc = "idle"
      /\ \A d \in Callers \ {c} : opCall'[d] = opCall[d]
  BY <1>1, <1>3, OpGotoTyped
<1> HIDE DEF m
<1>5. /\ Creating' \subseteq Creating
      /\ Recording' = IF named THEN Recording \cup {c} ELSE Recording
      /\ c \notin Recording
  BY <1>3, <1>4 DEF Creating, Recording
<1>6. otaOps' \in [OpIds -> {"none", "active", "ended"}] /\ OneCreates' /\ OneActive'
  <2>1. reactivated' \subseteq OpIds
        /\ \A p \in OpIds \ {o} : p \in reactivated' <=> p \in reactivated
    BY <1>1 DEF OpInv, OpTypeOK
  <2> QED
    BY <1>1, <1>2, <1>5, <2>1, StageKeeps
<1>7. told' \in OtaVersions /\ reactivated' \subseteq OpIds /\ versionLost' \in BOOLEAN
  BY <1>1 DEF OpInv, OpTypeOK
<1>8. OpTypeOK'
  BY <1>2, <1>4, <1>6, <1>7 DEF OpInv, OpTypeOK, OpMemos
<1>9. OneRecords' /\ VersionFollows'
  <2>1. CASE named
    <3>1. ~versionLost' => Recording = {}
      BY <1>1, <2>1 DEF Recording
    <3> QED
      BY <1>1, <1>3, <1>4, <1>5, <2>1, <3>1 DEF OneRecords, VersionFollows
  <2>2. CASE ~named
    <3>1. UNCHANGED <<told, versionLost, firmware>>
      BY <1>1, <1>2, <2>2
    <3>2. Recording' = Recording
      BY <1>5, <2>2
    <3>3. \A d \in Recording : opCall'[d] = opCall[d]
      BY <1>4, <1>5 DEF Recording
    <3> QED
      BY <3>1, <3>2, <3>3 DEF OpInv, OneRecords, VersionFollows, Recording
  <2> QED
    BY <2>1, <2>2
<1> QED
  BY <1>6, <1>8, <1>9 DEF OpInv

LEMMA WriteVersionKeeps ==
  ASSUME OpInv, NEW c \in Callers, WriteVersion(c)
  PROVE  OpInv'
<1>1. /\ opCall' \in [Callers -> OpMemos] /\ opCall'[c] = OpIdle /\ opCall[c].pc = "version"
      /\ \A d \in Callers \ {c} : opCall'[d] = opCall[d]
  BY OpIdleTyped, OpGotoTyped DEF WriteVersion
<1>2. /\ firmware' = opCall[c].version
      /\ UNCHANGED <<otaOps, told, initRaced, reactivated, versionLost>>
  BY DEF WriteVersion
<1>3. /\ Creating' = Creating /\ c \in Recording /\ Recording' = Recording \ {c}
  BY <1>1, OpIdleTyped DEF Creating, Recording
<1>4. OpTypeOK'
  BY <1>1, <1>2 DEF OpInv, OpTypeOK, OpMemos
<1>5. OneCreates' /\ OneActive'
  BY <1>2, <1>3 DEF OpInv, OneCreates, OneActive
<1>6. OneRecords' /\ VersionFollows'
  BY <1>1, <1>2, <1>3 DEF OpInv, OneRecords, VersionFollows
<1> QED
  BY <1>4, <1>5, <1>6 DEF OpInv

LEMMA PostKeeps ==
  ASSUME OpInv, NEW o \in OpIds, ReportFailure(o) \/ LateProgress(o)
  PROVE  OpInv'
<1>1. PICK stage \in {"active", "ended"} :
        /\ otaOps' = [otaOps EXCEPT ![o] = stage] /\ reactivated' \subseteq OpIds
        /\ \A p \in OpIds \ {o} : p \in reactivated' <=> p \in reactivated
        /\ stage = "active" => o \in reactivated'
  BY DEF ReportFailure, LateProgress, OpInv, OpTypeOK
<1>2. UNCHANGED <<firmware, opCall, told, initRaced, versionLost, Creating>>
  BY DEF ReportFailure, LateProgress, Creating
<1>3. otaOps' \in [OpIds -> {"none", "active", "ended"}] /\ OneCreates' /\ OneActive'
  BY <1>1, <1>2, StageKeeps
<1> QED
  BY <1>1, <1>2, <1>3 DEF OpInv, OpTypeOK, OneRecords, VersionFollows, Recording

LEMMA CutOperationKeeps ==
  ASSUME OpInv, NEW c \in Callers, CutOperation(c)
  PROVE  OpInv'
<1>1. /\ opCall' \in [Callers -> OpMemos] /\ opCall'[c] = OpIdle
      /\ \A d \in Callers \ {c} : opCall'[d] = opCall[d]
  BY OpIdleTyped DEF CutOperation, OpInv, OpTypeOK, OpMemos
<1>2. /\ versionLost' = (versionLost \/ opCall[c].pc = "version")
      /\ UNCHANGED <<otaOps, firmware, told, initRaced, reactivated>>
  BY DEF CutOperation
<1>3. /\ Creating' \subseteq Creating /\ Recording' \subseteq Recording
      /\ \A d \in Recording' : opCall'[d] = opCall[d]
      /\ ~versionLost' => Recording' = Recording
  BY <1>1, <1>2, OpIdleTyped DEF Creating, Recording
<1>4. OpTypeOK'
  BY <1>1, <1>2 DEF OpInv, OpTypeOK, OpMemos
<1>5. OneCreates' /\ OneActive'
  BY <1>2, <1>3 DEF OpInv, OneCreates, OneActive
<1>6. OneRecords' /\ VersionFollows'
  BY <1>2, <1>3 DEF OpInv, OneRecords, VersionFollows, Recording
<1> QED
  BY <1>4, <1>5, <1>6 DEF OpInv

LEMMA OpNextKeeps == OpInv /\ [OpNext]_opVars => OpInv'
<1> SUFFICES ASSUME OpInv, [OpNext]_opVars
             PROVE  OpInv'
  OBVIOUS
<1>1. CASE UNCHANGED opVars
  BY <1>1 DEF opVars, OpInv, OpTypeOK, OneCreates, OneActive, OneRecords, VersionFollows,
              Creating, Recording
<1> QED
  BY <1>1, CheckActiveKeeps, CreateKeeps, SendKeeps, ReportSuccessKeeps, WriteVersionKeeps,
     CutOperationKeeps, PostKeeps DEF OpNext, OpStep

\* Every reachable state of a device's updates is well typed.
THEOREM OperationsTyped == OpSpec => []OpTypeOK
  BY OpInit_, OpNextKeeps, PTL DEF OpSpec, OpInv

\* Whatever restarts, lost commands, repeated and late reports come between, a device
\* has one active operation at a time, besides those that progress made active again
\* and unless two initiations passed the look for one; and the recorded version is the
\* one the last report of a success named, unless that was cut or overlapped another.
THEOREM OneUpdateAlways == OpSpec => []OneUpdate
<1>1. OpInv => OneUpdate
  BY DEF OpInv, OneUpdate
<1> QED
  BY <1>1, OpInit_, OpNextKeeps, PTL DEF OpSpec

-----------------------------------------------------------------------------
(* A rollout campaign                                                      *)

OtaMemos == [pc : {"idle", "select", "send", "count", "change", "report"},
             word : CampaignStates \cup ReportKinds \cup {"none"},
             seen : StatRows, back : BOOLEAN, todo : SUBSET Devices,
             d : SUBSET Devices, n : 0..Cardinality(Devices)]

\* What a request remembers fits what it is about to do.
Fits(m) ==
    /\ m.pc = "report" => m.word \in ReportKinds
    /\ m.pc = "change" => m.word \in CampaignStates \ {"DRAFT"}
    /\ m.n + Cardinality(m.todo) <= Cardinality(Devices)
    /\ m.pc = "select" => m.n = 0
    /\ m.pc = "send" => m.n > 0 /\ \E x \in Devices : m.d = {x}

\* The slots in use the statistics will show when the request has written them:
\* those a batch has used so far, and without the one a report frees.
Due(m, s) == IF m.pc = "send" THEN s.inProgress + m.n - 1
             ELSE IF m.pc = "count" THEN s.inProgress + m.n
             ELSE IF m.pc = "report" /\ m.word \in Ends THEN Less(s.inProgress)
             ELSE s.inProgress

\* That is how many there are, but for an end reported of a device at no work.
Covers(shown, used, extra) == shown <= used /\ used <= shown + extra

FailedAhead(m) == IF m.pc = "report" /\ m.word = "failed" THEN 1 ELSE 0

SameCounts(s, t) ==
    s.inProgress = t.inProgress /\ s.installed = t.installed /\ s.failed = t.failed
    /\ s.verified = t.verified

\* A batch stays within the campaign's limit.
BatchFits(m, s) ==
    m.n + Cardinality(m.todo) > 0 =>
      s.inProgress + m.n + Cardinality(m.todo) <= MaxConcurrency

\* What the only request may rely on, when s are the statistics, used the slots in use,
\* extra the ends of devices at no work, failed the failures reported and state the
\* campaign's.
Trusts(m, s, used, extra, failed, state) ==
    /\ Covers(Due(m, s), used, extra) /\ failed = s.failed + FailedAhead(m)
    /\ m.pc \in {"select", "send", "count", "report"} => SameCounts(m.seen, s)
    /\ m.pc = "report" => m.back = (state = "RUNNING")
    /\ m.pc \in {"send", "count"} => BatchFits(m, s)

SlotsUsed == Cardinality(inFlight) + refused

AloneTrusts ==
    ~otaRaced =>
      /\ \A c, d \in Admins : otaCall[c].pc # "idle" /\ otaCall[d].pc # "idle" => c = d
      /\ (\A c \in Admins : otaCall[c].pc = "idle") =>
           Covers(stats.inProgress, SlotsUsed, strays) /\ stats.failed = failures
      /\ \A c \in Admins : otaCall[c].pc # "idle" =>
           Trusts(otaCall[c], stats, SlotsUsed, strays, failures, campaign)

ThresholdKept == (~otaRaced /\ ~resumed /\ campaign = "RUNNING") => ~Exceeded(stats)

OtaInv ==
    /\ OtaTypeOK /\ failures <= reports /\ strays <= reports /\ \A c \in Admins : Fits(otaCall[c])
    /\ AloneTrusts /\ InFlightBounded /\ ThresholdKept

LEMMA DevicesFinite ==
  /\ Cardinality(Devices) \in Nat /\ Cardinality({}) = 0
  /\ \A S \in SUBSET Devices : /\ IsFiniteSet(S) /\ Cardinality(S) \in Nat
                               /\ Cardinality(S) <= Cardinality(Devices)
  BY FS_CardinalityType, FS_EmptySet, FS_Subset

LEMMA RowsAreTyped ==
  /\ NoStats \in StatRows /\ OtaIdle \in OtaMemos /\ OtaIdle.pc = "idle" /\ Fits(OtaIdle)
  /\ \A m \in OtaMemos : /\ FailedAhead(m) \in {0, 1}
                         /\ \A s \in StatRows : Due(m, s) \in Int
<1>1. NoStats \in StatRows
  BY DevicesFinite DEF NoStats, StatRows
<1>2. OtaIdle \in OtaMemos /\ OtaIdle.pc = "idle" /\ OtaIdle.n = 0 /\ OtaIdle.todo = {}
  BY <1>1, DevicesFinite DEF OtaIdle, OtaMemo, OtaMemos
<1>3. Fits(OtaIdle)
  BY <1>2, DevicesFinite DEF Fits
<1>4. ASSUME NEW m \in OtaMemos
      PROVE  FailedAhead(m) \in {0, 1} /\ \A s \in StatRows : Due(m, s) \in Int
  <2>1. m.n \in Nat
    BY DevicesFinite DEF OtaMemos
  <2> QED
    BY <2>1 DEF Due, FailedAhead, Less, StatRows
<1> QED
  BY <1>1, <1>2, <1>3, <1>4

LEMMA OtaInit_ == OtaInit => OtaInv
<1> SUFFICES ASSUME OtaInit
             PROVE  OtaInv
  OBVIOUS
<1>1. \A c \in Admins : otaCall[c] = OtaIdle
  BY DEF OtaInit
<1>2. stats.inProgress = 0 /\ stats.failed = 0 /\ inFlight = {} /\ refused = 0 /\ failures = 0
      /\ strays = 0
  BY DEF OtaInit, NoStats
<1>3. OtaTypeOK
  <2>1. otaCall \in [Admins -> OtaMemos] /\ stats \in StatRows
    BY RowsAreTyped DEF OtaInit
  <2> QED
    <3>1. /\ reports \in 0..MaxReports /\ failures \in 0..MaxReports /\ refused \in Nat
          /\ strays \in 0..MaxReports
      BY DEF OtaInit
    <3>2. /\ campaign \in CampaignStates /\ otaRaced \in BOOLEAN /\ resumed \in BOOLEAN
          /\ current = {} /\ dispatched = {} /\ inFlight = {}
      BY DEF OtaInit, CampaignStates
    <3> QED
      BY <2>1, <3>1, <3>2, Zenon DEF OtaTypeOK, OtaMemos
<1>4. SlotsUsed = 0
  BY <1>2, DevicesFinite DEF SlotsUsed
<1>5. AloneTrusts
  BY <1>1, <1>2, <1>4, RowsAreTyped DEF AloneTrusts, Covers
<1>6. InFlightBounded /\ ThresholdKept
  BY <1>2, DevicesFinite DEF OtaInit, InFlightBounded, ThresholdKept
<1> QED
  BY <1>1, <1>3, <1>5, <1>6, RowsAreTyped DEF OtaInit, OtaInv

\* A request of c has come one step further, to m.
LEMMA OtaMoves ==
  ASSUME OtaInv, NEW c \in Admins, NEW m \in OtaMemos,
         otaCall' = [otaCall EXCEPT ![c] = m], Fits(m),
         campaign' \in CampaignStates, stats' \in StatRows, current' \subseteq Devices,
         dispatched' \subseteq Devices, inFlight' \subseteq Devices, reports' \in 0..MaxReports,
         refused' \in Nat, failures' \in Nat, failures' <= reports', strays' \in Nat,
         strays' <= reports',
         otaRaced' \in BOOLEAN, resumed' \in BOOLEAN,
         ~otaRaced' => ~otaRaced /\ \A d \in Admins \ {c} : otaCall[d].pc = "idle",
         ~otaRaced' => Trusts(m, stats', SlotsUsed', strays', failures', campaign'),
         InFlightBounded', ThresholdKept'
  PROVE  OtaInv'
<1>1. /\ otaCall' \in [Admins -> OtaMemos] /\ otaCall'[c] = m
      /\ \A d \in Admins \ {c} : otaCall'[d] = otaCall[d]
  BY DEF OtaInv, OtaTypeOK, OtaMemos
<1>2. reports' \in Nat /\ reports' <= MaxReports
  OBVIOUS
<1>3. failures' \in 0..MaxReports /\ strays' \in 0..MaxReports
  BY <1>2
<1>4. OtaTypeOK'
  BY <1>1, <1>3 DEF OtaInv, OtaTypeOK, OtaMemos, StatRows
<1>5. \A d \in Admins : Fits(otaCall[d])'
  BY <1>1 DEF OtaInv, Fits
<1>6. ASSUME ~otaRaced'
      PROVE  /\ \A d, e \in Admins : otaCall'[d].pc # "idle" /\ otaCall'[e].pc # "idle" => d = e
             /\ (\A d \in Admins : otaCall'[d].pc = "idle") =>
                  Covers(stats'.inProgress, SlotsUsed', strays') /\ stats'.failed = failures'
             /\ \A d \in Admins : otaCall'[d].pc # "idle" =>
                  Trusts(otaCall'[d], stats', SlotsUsed', strays', failures', campaign')
  <2>1. \A d \in Admins : otaCall'[d].pc # "idle" => d = c /\ otaCall'[d] = m
    BY <1>1, <1>6
  <2>2. m.pc = "idle" =>
          Covers(stats'.inProgress, SlotsUsed', strays') /\ stats'.failed = failures'
    <3>1. stats'.inProgress \in Int /\ stats'.failed \in Int
      BY DEF StatRows
    <3> QED
      BY <1>6, <3>1 DEF Trusts, Due, FailedAhead
  <2> QED
    BY <1>1, <1>6, <2>1, <2>2
<1>7. AloneTrusts'
  BY <1>6 DEF AloneTrusts, Trusts, Covers, SlotsUsed
<1> QED
  BY <1>4, <1>5, <1>7 DEF OtaInv

\* The next device of a batch, when what was sent so far is accounted for.
LEMMA NextDeviceKeeps ==
  ASSUME OtaInv, NEW c \in Admins, NEW p, p # "idle", NEW m \in OtaMemos, NextDevice(c, p, m),
         m.n + Cardinality(m.todo) <= Cardinality(Devices),
         UNCHANGED <<campaign, stats, current, reports, strays, failures, otaRaced, resumed>>,
         inFlight' \subseteq Devices, refused' \in Nat,
         ~otaRaced => /\ SameCounts(m.seen, stats) /\ failures = stats.failed
                      /\ Covers(stats.inProgress + m.n, SlotsUsed', strays)
                      /\ BatchFits(m, stats)
                      /\ Cardinality(inFlight') <= MaxConcurrency + strays
  PROVE  OtaInv'
<1>1. /\ m.n \in Nat /\ m.todo \subseteq Devices /\ m.seen \in StatRows
      /\ Cardinality(m.todo) \in Nat /\ Cardinality(Devices) \in Nat
  BY DevicesFinite DEF OtaMemos
<1>2. /\ campaign \in CampaignStates /\ stats \in StatRows /\ current \subseteq Devices
      /\ dispatched \subseteq Devices /\ reports \in 0..MaxReports /\ failures \in Nat
      /\ otaRaced \in BOOLEAN /\ resumed \in BOOLEAN /\ failures <= reports
      /\ strays \in Nat /\ strays <= reports
  BY DEF OtaInv, OtaTypeOK
<1>3. ASSUME otaCall[c].pc # "idle", ~otaRaced
      PROVE  \A d \in Admins \ {c} : otaCall[d].pc = "idle"
  BY <1>3 DEF OtaInv, AloneTrusts
<1>4. InFlightBounded' /\ ThresholdKept'
  BY DEF OtaInv, InFlightBounded, ThresholdKept, Exceeded
<1>5. CASE m.todo = {} /\ OtaResume(c, p, [m EXCEPT !.pc = "count", !.d = {}])
           /\ UNCHANGED dispatched
  <2> DEFINE k == [m EXCEPT !.pc = "count", !.d = {}]
  <2>1. k \in OtaMemos /\ k.pc = "count" /\ k.n = m.n /\ k.todo = m.todo /\ k.seen = m.seen
    BY DEF OtaMemos
  <2>2. otaCall[c].pc = p /\ otaCall' = [otaCall EXCEPT ![c] = k]
    BY <1>5 DEF OtaResume
  <2> HIDE DEF k
  <2>3. Fits(k)
    BY <2>1 DEF Fits
  <2>4. ~otaRaced => Trusts(k, stats, SlotsUsed', strays, failures, campaign)
    BY <1>2, <2>1 DEF Trusts, Due, FailedAhead, BatchFits, StatRows
  <2> QED
    BY <1>2, <1>3, <1>4, <1>5, <2>1, <2>2, <2>3, <2>4, OtaMoves
<1>6. ASSUME NEW d \in m.todo,
             OtaResume(c, p, [m EXCEPT !.pc = "send", !.todo = @ \ {d}, !.d = {d}, !.n = @ + 1]),
             dispatched' = dispatched \cup {d}
      PROVE  OtaInv'
  <2> DEFINE k == [m EXCEPT !.pc = "send", !.todo = @ \ {d}, !.d = {d}, !.n = @ + 1]
  <2>1. Cardinality(m.todo \ {d}) = Cardinality(m.todo) - 1 /\ Cardinality(m.todo) > 0
    <3>1. IsFiniteSet(m.todo)
      BY <1>1, DevicesFinite
    <3>2. Cardinality(m.todo \ {d}) = Cardinality(m.todo) - 1
      BY <3>1, <1>6, FS_RemoveElement
    <3>3. Cardinality(m.todo) # 0
      BY <3>1, <1>6, FS_EmptySet
    <3> QED
      BY <1>1, <3>2, <3>3
  <2>2. m.n + 1 \in 0..Cardinality(Devices)
    BY <1>1, <2>1
  <2>3. /\ k \in OtaMemos /\ k.pc = "send" /\ k.n = m.n + 1 /\ k.todo = m.todo \ {d}
        /\ k.seen = m.seen /\ k.d = {d}
    BY <1>1, <2>2 DEF OtaMemos
  <2>4. otaCall[c].pc = p /\ otaCall' = [otaCall EXCEPT ![c] = k]
    BY <1>6 DEF OtaResume
  <2> HIDE DEF k
  <2>5. k.n + Cardinality(k.todo) = m.n + Cardinality(m.todo)
    BY <1>1, <2>1, <2>3
  <2>6. Fits(k)
    BY <1>1, <2>3, <2>5 DEF Fits
  <2>7. BatchFits(m, stats) => BatchFits(k, stats)
    <3>1. stats.inProgress \in Nat
      BY <1>2 DEF StatRows
    <3> QED
      BY <1>1, <2>1, <2>3, <3>1 DEF BatchFits
  <2>8. ~otaRaced => Trusts(k, stats, SlotsUsed', strays, failures, campaign)
    BY <1>1, <1>2, <2>3, <2>7 DEF Trusts, Due, FailedAhead, StatRows
  <2>9. dispatched' \subseteq Devices
    BY <1>1, <1>2, <1>6
  <2> QED
    BY <1>2, <1>3, <1>4, <2>3, <2>4, <2>6, <2>8, <2>9, OtaMoves
<1> QED
  BY <1>5, <1>6 DEF NextDevice

\* A larger total is no worse.
LEMMA Diluted ==
  ASSUME NEW s \in StatRows, NEW t \in StatRows, t.failed = s.failed,
         t.installed + t.verified >= s.installed + s.verified, Exceeded(t)
  PROVE  Exceeded(s)
<1> DEFINE a == s.failed + s.installed + s.verified
           b == t.failed + t.installed + t.verified
<1>1. a \in Nat /\ b \in Nat /\ b >= a /\ ThresholdPercent \in Nat
  BY DEF StatRows
<1>2. t.failed >= ThresholdCount /\ t.failed * 100 >= ThresholdPercent * b
  BY DEF Exceeded
<1> HIDE DEF a, b
<1>3. PICK k \in Nat : b = a + k
  <2>1. b - a \in Nat /\ b = a + (b - a)
    BY <1>1
  <2> QED
    BY <2>1
<1>4. ThresholdPercent * b = ThresholdPercent * a + ThresholdPercent * k
  BY <1>1, <1>3
<1>5. ThresholdPercent * k \in Nat /\ ThresholdPercent * a \in Nat
  BY <1>1, <1>3
<1>6. s.failed * 100 >= ThresholdPercent * a
  <2>1. s.failed * 100 \in Nat
    BY DEF StatRows
  <2> QED
    BY <1>2, <1>4, <1>5, <2>1
<1> QED
  BY <1>2, <1>6 DEF Exceeded, a

\* A request begins; nothing is written yet.
LEMMA BeginsKeep ==
  ASSUME OtaInv, NEW c \in Admins, NEW word \in CampaignStates \ {"DRAFT"},
         BeginChangeState(c, word) \/ BeginBatch(c)
  PROVE  OtaInv'
<1>1. UNCHANGED <<campaign, stats, reports, strays, failures, resumed, current, dispatched,
                  inFlight,
                  refused>>
  BY DEF BeginChangeState, BeginBatch, CampaignStays, DevicesStay
<1>2. PICK m \in {OtaMemo("change", word, NoStats), OtaMemo("select", "none", stats)} :
        OtaBegin(c, m)
  BY DEF BeginChangeState, BeginBatch
<1>3. /\ stats \in StatRows /\ failures \in Nat /\ refused \in Nat /\ strays \in Nat
      /\ otaRaced \in BOOLEAN
  BY DEF OtaInv, OtaTypeOK
<1>4. /\ m \in OtaMemos /\ m.pc \in {"change", "select"} /\ m.n = 0 /\ m.todo = {}
      /\ (m.pc = "select" => m.seen = stats) /\ (m.pc = "change" => m.word = word)
  <2>1. CASE m = OtaMemo("change", word, NoStats)
    <3>1. m \in OtaMemos
      BY <2>1, RowsAreTyped, DevicesFinite DEF OtaMemo, OtaMemos
    <3> QED
      BY <2>1, <3>1 DEF OtaMemo
  <2>2. CASE m = OtaMemo("select", "none", stats)
    <3>1. m \in OtaMemos
      BY <1>3, <2>2, DevicesFinite DEF OtaMemo, OtaMemos
    <3> QED
      BY <2>2, <3>1 DEF OtaMemo
  <2> QED
    BY <2>1, <2>2
<1>5. /\ otaCall' = [otaCall EXCEPT ![c] = m] /\ otaRaced' \in BOOLEAN
      /\ ~otaRaced' => ~otaRaced /\ \A d \in Admins : otaCall[d].pc = "idle"
  BY <1>2, <1>3 DEF OtaBegin
<1>6. Fits(m)
  BY <1>4, DevicesFinite DEF Fits
<1>7. SlotsUsed' = SlotsUsed /\ InFlightBounded' /\ ThresholdKept'
  BY <1>1, <1>5 DEF SlotsUsed, OtaInv, InFlightBounded, ThresholdKept, Exceeded
<1>8. ~otaRaced' => Trusts(m, stats, SlotsUsed, strays, failures, campaign)
  <2>1. ~otaRaced' => Covers(stats.inProgress, SlotsUsed, strays) /\ stats.failed = failures
    BY <1>5 DEF OtaInv, AloneTrusts
  <2> QED
    BY <1>2, <1>3, <1>4, <2>1 DEF Trusts, Due, FailedAhead, SameCounts, StatRows
<1> QED
  BY <1>1, <1>3, <1>4, <1>5, <1>6, <1>7, <1>8, OtaMoves DEF OtaInv, OtaTypeOK

LEMMA BeginReportKeeps ==
  ASSUME OtaInv, NEW c \in Admins, NEW d \in Devices, NEW kind \in ReportKinds,
         BeginReport(c, d, kind)
  PROVE  OtaInv'
<1> DEFINE ends == kind \in Ends
           m == [OtaMemo("report", kind, stats) EXCEPT !.back = campaign = "RUNNING"]
<1>1. /\ reports < MaxReports /\ reports' = reports + 1 /\ OtaBegin(c, m)
      /\ inFlight' = IF ends THEN inFlight \ {d} ELSE inFlight
      /\ strays' = IF ends /\ d \notin inFlight THEN strays + 1 ELSE strays
      /\ failures' = IF kind = "failed" THEN failures + 1 ELSE failures
      /\ current' = IF kind = "installed" THEN current \cup {d} ELSE current
      /\ UNCHANGED <<campaign, stats, resumed, dispatched, refused>>
  BY DEF BeginReport
<1>2. /\ stats \in StatRows /\ failures \in Nat /\ refused \in Nat /\ otaRaced \in BOOLEAN
      /\ reports \in 0..MaxReports /\ failures <= reports /\ inFlight \subseteq Devices
      /\ current \subseteq Devices /\ dispatched \subseteq Devices /\ resumed \in BOOLEAN
      /\ campaign \in CampaignStates /\ strays \in Nat /\ strays <= reports
  BY DEF OtaInv, OtaTypeOK
<1>3. OtaMemo("report", kind, stats) \in OtaMemos
  BY <1>2, DevicesFinite DEF OtaMemo, OtaMemos
<1>4. /\ m \in OtaMemos /\ m.pc = "report" /\ m.word = kind /\ m.seen = stats
      /\ m.back = (campaign = "RUNNING") /\ m.n = 0 /\ m.todo = {}
  BY <1>3 DEF OtaMemo, OtaMemos
<1> HIDE DEF m
<1>5. /\ otaCall' = [otaCall EXCEPT ![c] = m] /\ otaRaced' \in BOOLEAN
      /\ ~otaRaced' => ~otaRaced /\ \A e \in Admins : otaCall[e].pc = "idle"
  BY <1>1, <1>2 DEF OtaBegin
<1>6. Fits(m)
  BY <1>4, DevicesFinite DEF Fits
\* A device at work leaves a slot; of any other, one more end is counted.
<1>7. /\ Cardinality(inFlight) \in Nat /\ inFlight' \subseteq inFlight
      /\ Cardinality(inFlight') = IF ends /\ d \in inFlight THEN Cardinality(inFlight) - 1
                                  ELSE Cardinality(inFlight)
      /\ Cardinality(inFlight') \in Nat
  <2>1. Cardinality(inFlight) \in Nat /\ IsFiniteSet(inFlight)
    BY <1>2, DevicesFinite
  <2>2. inFlight' \subseteq inFlight /\ Cardinality(inFlight') \in Nat
    BY <1>1, <1>2, DevicesFinite
  <2>3. CASE ends /\ d \in inFlight
    BY <1>1, <2>1, <2>2, <2>3, FS_RemoveElement
  <2>4. CASE ~(ends /\ d \in inFlight)
    <3>1. inFlight' = inFlight
      BY <1>1, <2>4
    <3> QED
      BY <2>1, <2>4, <3>1
  <2> QED
    BY <2>3, <2>4
<1>8. ~otaRaced' => Trusts(m, stats, SlotsUsed', strays', failures', campaign)
  <2> SUFFICES ASSUME ~otaRaced'
               PROVE  Trusts(m, stats, SlotsUsed', strays', failures', campaign)
    OBVIOUS
  <2>1. Covers(stats.inProgress, SlotsUsed, strays) /\ stats.failed = failures
    BY <1>5 DEF OtaInv, AloneTrusts
  <2>2. /\ SlotsUsed = Cardinality(inFlight) + refused
        /\ SlotsUsed' = Cardinality(inFlight') + refused
    BY <1>1 DEF SlotsUsed
  <2>3. stats.inProgress \in Nat
    BY <1>2 DEF StatRows
  <2>4. Covers(Due(m, stats), SlotsUsed', strays')
    <3>1. CASE ends
      <4>1. Due(m, stats) = Less(stats.inProgress)
        BY <1>4, <3>1 DEF Due
      <4> QED
        BY <1>1, <1>2, <1>7, <2>1, <2>2, <2>3, <3>1, <4>1 DEF Covers, Less
    <3>2. CASE ~ends
      <4>1. Due(m, stats) = stats.inProgress
        BY <1>4, <3>2 DEF Due
      <4> QED
        BY <1>1, <1>7, <2>1, <2>2, <3>2, <4>1
    <3> QED
      BY <3>1, <3>2
  <2>5. failures' = stats.failed + FailedAhead(m)
    BY <1>1, <1>2, <1>4, <2>1 DEF FailedAhead
  <2> QED
    BY <1>4, <2>4, <2>5 DEF Trusts, SameCounts
<1>9. InFlightBounded' /\ ThresholdKept'
  <2>1. strays' >= strays
    BY <1>1, <1>2
  <2>2. InFlightBounded'
    BY <1>1, <1>2, <1>5, <1>7, <2>1 DEF OtaInv, InFlightBounded
  <2> QED
    BY <1>1, <1>5, <2>2 DEF OtaInv, ThresholdKept, Exceeded
<1>10. /\ failures' \in Nat /\ reports' \in 0..MaxReports /\ failures' <= reports'
       /\ strays' \in Nat /\ strays' <= reports'
  BY <1>1, <1>2
<1>11. inFlight' \subseteq Devices /\ current' \subseteq Devices
  BY <1>1, <1>2
<1> QED
  BY <1>1, <1>2, <1>4, <1>5, <1>6, <1>8, <1>9, <1>10, <1>11, OtaMoves

LEMMA BatchKeeps ==
  ASSUME OtaInv, NEW c \in Admins, SelectBatch(c) \/ SendUpdate(c) \/ SendThrows(c)
  PROVE  OtaInv'
<1> DEFINE m == otaCall[c]
<1>1. /\ m \in OtaMemos /\ Fits(m) /\ stats \in StatRows /\ refused \in Nat
      /\ inFlight \subseteq Devices /\ dispatched \subseteq Devices
  BY DEF OtaInv, OtaTypeOK, OtaMemos
<1>0. strays \in Nat /\ stats.inProgress \in Nat /\ SlotsUsed \in Nat
  BY <1>1, DevicesFinite DEF OtaInv, OtaTypeOK, StatRows, SlotsUsed
<1>2. /\ m.n \in Nat /\ m.todo \subseteq Devices /\ Cardinality(m.todo) \in Nat
      /\ m.seen \in StatRows /\ m.d \subseteq Devices
      /\ Cardinality(Devices) \in Nat /\ Cardinality(inFlight) \in Nat
      /\ m.n + Cardinality(m.todo) <= Cardinality(Devices)
  BY <1>1, DevicesFinite DEF OtaMemos, Fits
<1>3. (~otaRaced /\ m.pc # "idle") =>
        /\ Trusts(m, stats, SlotsUsed, strays, failures, campaign)
        /\ Cardinality(inFlight) <= MaxConcurrency + strays
  BY DEF OtaInv, AloneTrusts, InFlightBounded
<1>4. CASE SelectBatch(c)
  <2>1. PICK eligible \in SUBSET (Devices \ current), todo \in SUBSET Devices :
          /\ todo \subseteq eligible \ dispatched
          /\ Cardinality(todo) = BatchRoom(m.seen.inProgress, eligible \ dispatched)
          /\ NextDevice(c, "select", [m EXCEPT !.todo = todo,
                                        !.seen.targeted = Cardinality(eligible)])
          /\ UNCHANGED <<current, inFlight, refused, otaRaced>> /\ CampaignStays
    BY <1>4 DEF SelectBatch
  <2> DEFINE k == [m EXCEPT !.todo = todo, !.seen.targeted = Cardinality(eligible)]
  <2>2. m.pc = "select" /\ m.n = 0
    BY <1>1, <2>1 DEF NextDevice, OtaResume, Fits
  <2>3. eligible \in SUBSET Devices /\ todo \in SUBSET Devices
    BY <2>1
  <2>4. /\ Cardinality(eligible) \in 0..Cardinality(Devices)
        /\ Cardinality(todo) \in Nat /\ Cardinality(todo) <= Cardinality(Devices)
        /\ Cardinality(eligible \ dispatched) \in Nat
    <3>1. eligible \ dispatched \in SUBSET Devices
      BY <2>3
    <3> QED
      BY <1>2, <2>3, <3>1, DevicesFinite
  <2>5. [m.seen EXCEPT !.targeted = Cardinality(eligible)] \in StatRows
    BY <1>2, <2>4 DEF StatRows
  <2>6. k = [m EXCEPT !.todo = todo, !.seen = [m.seen EXCEPT !.targeted = Cardinality(eligible)]]
    BY <1>1 DEF OtaMemos
  <2>7. /\ k \in OtaMemos /\ k.n = 0 /\ k.todo = todo
        /\ k.seen = [m.seen EXCEPT !.targeted = Cardinality(eligible)]
    BY <1>1, <2>2, <2>3, <2>5, <2>6 DEF OtaMemos
  <2>8. SameCounts(k.seen, m.seen)
    BY <1>2, <2>7 DEF SameCounts, StatRows
  <2> HIDE DEF k
  <2>9. UNCHANGED <<campaign, stats, current, reports, strays, failures, otaRaced, resumed,
                    inFlight,
                    refused>>
    BY <2>1 DEF CampaignStays
  <2>10. ~otaRaced => /\ SameCounts(k.seen, stats) /\ failures = stats.failed
                      /\ Covers(stats.inProgress + k.n, SlotsUsed, strays)
                      /\ Cardinality(inFlight) <= MaxConcurrency + strays
    BY <1>0, <1>1, <1>3, <2>2, <2>7, <2>8 DEF Trusts, Due, FailedAhead, SameCounts, StatRows
  <2>11. ~otaRaced => BatchFits(k, stats)
    <3>1. m.seen.inProgress \in Nat
      BY <1>2 DEF StatRows
    <3>2. Cardinality(todo) > 0 => m.seen.inProgress + Cardinality(todo) <= MaxConcurrency
      BY <2>1, <2>4, <3>1 DEF BatchRoom, AtMost
    <3>3. ~otaRaced => stats.inProgress = m.seen.inProgress
      BY <1>3, <2>2 DEF Trusts, SameCounts
    <3> QED
      BY <2>4, <2>7, <3>1, <3>2, <3>3 DEF BatchFits
  <2>12. SlotsUsed' = SlotsUsed /\ NextDevice(c, "select", k)
    BY <2>1, <2>9 DEF SlotsUsed, k
  <2> QED
    BY <1>1, <2>4, <2>7, <2>9, <2>10, <2>11, <2>12, NextDeviceKeeps
<1>5. ASSUME m.pc = "send", NextDevice(c, "send", m),
             UNCHANGED <<campaign, stats, current, reports, strays, failures, otaRaced, resumed>>,
             inFlight' \subseteq Devices, refused' \in Nat,
             Cardinality(inFlight') + refused' = SlotsUsed + 1
      PROVE  OtaInv'
  <2>1. m.n > 0 /\ Cardinality(inFlight') \in Nat
    BY <1>1, <1>5, DevicesFinite DEF Fits
  <2>2. SlotsUsed' = SlotsUsed + 1
    BY <1>5 DEF SlotsUsed
  <2>3. ~otaRaced => /\ SameCounts(m.seen, stats) /\ failures = stats.failed
                     /\ Covers(stats.inProgress + m.n, SlotsUsed', strays)
                     /\ BatchFits(m, stats)
    BY <1>0, <1>1, <1>2, <1>3, <1>5, <2>2 DEF Trusts, Due, FailedAhead, Covers, StatRows
  <2>4. ~otaRaced => Cardinality(inFlight') <= MaxConcurrency + strays
    BY <1>0, <1>2, <1>5, <2>1, <2>2, <2>3 DEF BatchFits, Covers
  <2> QED
    BY <1>1, <1>2, <1>5, <2>3, <2>4, NextDeviceKeeps
<1>6. CASE SendUpdate(c)
  <2>1. /\ NextDevice(c, "send", m) /\ inFlight' = inFlight \cup m.d
        /\ refused' = refused + Cardinality(inFlight \cap m.d)
        /\ UNCHANGED <<campaign, stats, current, reports, strays, failures, otaRaced, resumed>>
    BY <1>6 DEF SendUpdate, CampaignStays
  <2>2. m.pc = "send"
    BY <2>1 DEF NextDevice, OtaResume
  <2>3. PICK x \in Devices : m.d = {x}
    BY <1>1, <2>2 DEF Fits
  <2>4. IsFiniteSet(inFlight)
    BY <1>1, DevicesFinite
  <2>5. /\ Cardinality(inFlight \cap m.d) = IF x \in inFlight THEN 1 ELSE 0
        /\ Cardinality(inFlight \cup m.d) = IF x \in inFlight THEN Cardinality(inFlight)
                                            ELSE Cardinality(inFlight) + 1
    <3>1. inFlight \cap m.d = IF x \in inFlight THEN {x} ELSE {}
      BY <2>3
    <3>2. Cardinality({x}) = 1 /\ Cardinality({}) = 0
      BY FS_Singleton, FS_EmptySet
    <3>3. Cardinality(inFlight \cup {x}) = IF x \in inFlight THEN Cardinality(inFlight)
                                           ELSE Cardinality(inFlight) + 1
      BY <2>4, FS_AddElement
    <3> QED
      BY <2>3, <3>1, <3>2, <3>3
  <2>6. refused' \in Nat /\ Cardinality(inFlight') + refused' = SlotsUsed + 1
    BY <1>1, <1>2, <2>1, <2>5 DEF SlotsUsed
  <2>7. inFlight' \subseteq Devices
    BY <1>1, <2>1, <2>3
  <2> QED
    BY <1>5, <2>1, <2>2, <2>6, <2>7
<1>7. CASE SendThrows(c)
  <2>1. /\ NextDevice(c, "send", m) /\ refused' = refused + 1
        /\ UNCHANGED <<campaign, stats, current, reports, strays, failures, otaRaced, resumed,
                       inFlight>>
    BY <1>7 DEF SendThrows, CampaignStays
  <2>2. m.pc = "send"
    BY <2>1 DEF NextDevice, OtaResume
  <2>3. refused' \in Nat /\ Cardinality(inFlight') + refused' = SlotsUsed + 1
    BY <1>1, <1>2, <2>1 DEF SlotsUsed
  <2>4. inFlight' \subseteq Devices
    BY <1>1, <2>1
  <2> QED
    BY <1>5, <2>1, <2>2, <2>3, <2>4
<1> QED
  BY <1>4, <1>6, <1>7

\* A request ends with its write.
LEMMA EndsKeep ==
  ASSUME OtaInv, NEW c \in Admins, ChangeState(c) \/ CountBatch(c) \/ CountReport(c)
  PROVE  OtaInv'
<1> DEFINE m == otaCall[c]
<1>1. /\ m \in OtaMemos /\ Fits(m) /\ stats \in StatRows /\ refused \in Nat
      /\ campaign \in CampaignStates /\ current \subseteq Devices /\ dispatched \subseteq Devices
      /\ inFlight \subseteq Devices /\ reports \in 0..MaxReports /\ failures \in Nat
      /\ failures <= reports /\ otaRaced \in BOOLEAN /\ resumed \in BOOLEAN
  BY DEF OtaInv, OtaTypeOK, OtaMemos
<1>2. m.seen \in StatRows /\ m.n \in Nat /\ SlotsUsed \in Nat
  BY <1>1, DevicesFinite DEF OtaMemos, SlotsUsed
<1>3. (~otaRaced /\ m.pc # "idle") =>
        /\ Trusts(m, stats, SlotsUsed, strays, failures, campaign)
        /\ \A d \in Admins \ {c} : otaCall[d].pc = "idle"
  BY DEF OtaInv, AloneTrusts
<1>4. ~otaRaced /\ ~resumed /\ campaign = "RUNNING" => ~Exceeded(stats)
  BY DEF OtaInv, ThresholdKept
<1>5. OtaIdle \in OtaMemos /\ Fits(OtaIdle) /\ OtaIdle.pc = "idle"
  BY RowsAreTyped
<1>6. ASSUME m.pc # "idle", otaCall' = [otaCall EXCEPT ![c] = OtaIdle],
             UNCHANGED <<current, dispatched, inFlight, refused, reports, strays, failures,
                         otaRaced>>,
             campaign' \in CampaignStates, stats' \in StatRows, resumed' \in BOOLEAN,
             ~otaRaced => Covers(stats'.inProgress, SlotsUsed, strays) /\ stats'.failed = failures,
             ~otaRaced /\ ~resumed' /\ campaign' = "RUNNING" => ~Exceeded(stats')
      PROVE  OtaInv'
  <2>1. SlotsUsed' = SlotsUsed
    BY <1>6 DEF SlotsUsed
  <2>2. ~otaRaced' => Trusts(OtaIdle, stats', SlotsUsed', strays', failures', campaign')
    BY <1>1, <1>2, <1>5, <1>6, <2>1 DEF Trusts, Due, FailedAhead, StatRows
  <2>3. InFlightBounded' /\ ThresholdKept'
    BY <1>6 DEF OtaInv, InFlightBounded, ThresholdKept, Exceeded
  <2>4. failures' \in Nat /\ failures' <= reports' /\ reports' \in 0..MaxReports
        /\ refused' \in Nat /\ otaRaced' \in BOOLEAN
    BY <1>1, <1>6
  <2>5. strays' \in Nat /\ strays' <= reports'
    BY <1>6 DEF OtaInv, OtaTypeOK
  <2>6. current' \subseteq Devices /\ dispatched' \subseteq Devices /\ inFlight' \subseteq Devices
    BY <1>1, <1>6
  <2>7. ~otaRaced' => ~otaRaced /\ \A d \in Admins \ {c} : otaCall[d].pc = "idle"
    BY <1>3, <1>6
  <2> QED
    BY <1>5, <1>6, <2>2, <2>3, <2>4, <2>5, <2>6, <2>7, OtaMoves
<1>7. CASE ChangeState(c)
  <2>1. /\ m.pc = "change" /\ otaCall' = [otaCall EXCEPT ![c] = OtaIdle] /\ campaign' = m.word
        /\ resumed' = (resumed \/ (m.word = "RUNNING" /\ Exceeded(stats)))
        /\ UNCHANGED <<stats, reports, strays, failures, otaRaced, current, dispatched, inFlight,
                       refused>>
    BY <1>7 DEF ChangeState, OtaResume, DevicesStay
  <2>2. m.word \in CampaignStates \ {"DRAFT"} /\ resumed' \in BOOLEAN
    BY <1>1, <2>1 DEF Fits
  <2>3. ~otaRaced => Covers(stats.inProgress, SlotsUsed, strays) /\ stats.failed = failures
    BY <1>1, <1>2, <1>3, <2>1 DEF Trusts, Due, FailedAhead, StatRows
  <2>4. ~otaRaced /\ ~resumed' /\ campaign' = "RUNNING" => ~Exceeded(stats)
    BY <2>1
  <2> QED
    BY <1>1, <1>6, <2>1, <2>2, <2>3, <2>4
<1>8. CASE CountBatch(c)
  <2>1. /\ m.pc = "count" /\ otaCall' = [otaCall EXCEPT ![c] = OtaIdle]
        /\ stats' = [m.seen EXCEPT !.inProgress = @ + m.n]
        /\ UNCHANGED <<campaign, reports, strays, failures, resumed, otaRaced, current, dispatched,
                       inFlight, refused>>
    BY <1>8 DEF CountBatch, OtaResume, DevicesStay
  <2>2. /\ stats' \in StatRows /\ stats'.inProgress = m.seen.inProgress + m.n
        /\ stats'.failed = m.seen.failed /\ stats'.installed = m.seen.installed
        /\ stats'.verified = m.seen.verified
    BY <1>2, <2>1 DEF StatRows
  <2>3. ~otaRaced => /\ SameCounts(m.seen, stats) /\ failures = stats.failed
                     /\ Covers(stats.inProgress + m.n, SlotsUsed, strays)
    BY <1>1, <1>3, <2>1 DEF Trusts, Due, FailedAhead, StatRows
  <2>4. Exceeded(stats') => Exceeded(m.seen)
    BY <2>2 DEF Exceeded
  <2>5. ~otaRaced => (Exceeded(m.seen) <=> Exceeded(stats))
    BY <2>3 DEF Exceeded, SameCounts
  <2> QED
    BY <1>1, <1>4, <1>6, <2>1, <2>2, <2>3, <2>4, <2>5 DEF SameCounts
<1>9. CASE CountReport(c)
  <2> DEFINE s == Counted(m.seen, m.word)
  <2>1. /\ m.pc = "report" /\ otaCall' = [otaCall EXCEPT ![c] = OtaIdle] /\ stats' = s
        /\ campaign' = StateAfter(m, s)
        /\ UNCHANGED <<reports, strays, failures, resumed, otaRaced, current, dispatched, inFlight,
                       refused>>
    BY <1>9 DEF CountReport, OtaResume, DevicesStay
  <2>2. m.word \in ReportKinds
    BY <1>1, <2>1 DEF Fits
  <2>3. ~otaRaced => /\ SameCounts(m.seen, stats) /\ m.back = (campaign = "RUNNING")
                     /\ Covers(Due(m, stats), SlotsUsed, strays)
                     /\ failures = stats.failed + FailedAhead(m)
    BY <1>3, <2>1 DEF Trusts
  <2>4. m.seen.inProgress \in Nat /\ Less(m.seen.inProgress) \in Nat
    BY <1>2 DEF StatRows, Less
  <2>5. /\ s \in StatRows /\ s.failed = m.seen.failed + FailedAhead(m)
        /\ s.installed + s.verified >= m.seen.installed + m.seen.verified
        /\ s.inProgress = IF m.word \in Ends THEN Less(m.seen.inProgress)
                          ELSE m.seen.inProgress
    <3>1. CASE m.word = "installed"
      <4>1. s = [inProgress |-> Less(m.seen.inProgress), installed |-> m.seen.installed + 1,
                 failed |-> m.seen.failed, verified |-> m.seen.verified,
                 targeted |-> m.seen.targeted]
        BY <1>2, <3>1 DEF Counted, StatRows
      <4> HIDE DEF s
      <4>2. s \in StatRows
        BY <1>2, <2>4, <4>1 DEF StatRows
      <4>3. FailedAhead(m) = 0
        BY <2>1, <3>1 DEF FailedAhead
      <4> QED
        BY <1>2, <3>1, <4>1, <4>2, <4>3 DEF StatRows, Ends
    <3>2. CASE m.word = "failed"
      <4>1. s = [inProgress |-> Less(m.seen.inProgress), installed |-> m.seen.installed,
                 failed |-> m.seen.failed + 1, verified |-> m.seen.verified,
                 targeted |-> m.seen.targeted]
        BY <1>2, <3>2 DEF Counted, StatRows
      <4> HIDE DEF s
      <4>2. s \in StatRows
        BY <1>2, <2>4, <4>1 DEF StatRows
      <4>3. FailedAhead(m) = 1
        BY <2>1, <3>2 DEF FailedAhead
      <4> QED
        BY <1>2, <3>2, <4>1, <4>2, <4>3 DEF StatRows, Ends
    <3>3. CASE m.word = "healthy"
      BY <1>2, <2>1, <2>4, <3>3 DEF Counted, StatRows, FailedAhead, Ends
    <3>4. CASE m.word = "booted"
      BY <1>2, <2>1, <2>4, <3>4 DEF Counted, StatRows, FailedAhead, Ends
    <3>5. CASE m.word = "rolledBack"
      <4>1. s = [inProgress |-> Less(m.seen.inProgress), installed |-> m.seen.installed,
                 failed |-> m.seen.failed, verified |-> m.seen.verified,
                 targeted |-> m.seen.targeted]
        BY <1>2, <3>5 DEF Counted, StatRows
      <4> HIDE DEF s
      <4>2. s \in StatRows
        BY <1>2, <2>4, <4>1 DEF StatRows
      <4>3. FailedAhead(m) = 0
        BY <2>1, <3>5 DEF FailedAhead
      <4> QED
        BY <1>2, <3>5, <4>1, <4>2, <4>3 DEF StatRows, Ends
    <3> QED
      BY <2>2, <3>1, <3>2, <3>3, <3>4, <3>5 DEF ReportKinds
  <2>6. ~otaRaced => Covers(s.inProgress, SlotsUsed, strays) /\ s.failed = failures
    <3>1. ~otaRaced => s.inProgress = Due(m, stats) /\ s.failed = failures
      BY <2>1, <2>3, <2>5 DEF Due, SameCounts
    <3> QED
      BY <2>3, <3>1
  <2>7. /\ campaign' \in CampaignStates
        /\ campaign' = campaign \/ campaign' \in {"FAILED_THRESHOLD_PAUSED", "COMPLETED"}
        /\ (m.word \in {"failed", "rolledBack"} /\ m.back /\ Exceeded(s)) =>
             campaign' = "FAILED_THRESHOLD_PAUSED"
    BY <1>1, <2>1 DEF StateAfter, CampaignStates
  <2>8. ASSUME ~otaRaced, ~resumed, campaign' = "RUNNING"
        PROVE  ~Exceeded(s)
    <3>1. campaign = "RUNNING" /\ ~Exceeded(stats) /\ m.back
      BY <1>4, <2>3, <2>7, <2>8
    <3>2. CASE m.word \in {"failed", "rolledBack"}
      BY <2>7, <2>8, <3>1, <3>2
    <3>3. CASE m.word \notin {"failed", "rolledBack"}
      <4>1. s.failed = stats.failed /\ s.installed + s.verified >= stats.installed + stats.verified
        BY <1>1, <2>3, <2>5, <2>8, <3>3 DEF FailedAhead, SameCounts, StatRows
      <4> QED
        BY <1>1, <2>5, <3>1, <4>1, Diluted
    <3> QED
      BY <3>2, <3>3
  <2> HIDE DEF s
  <2> QED
    BY <1>1, <1>6, <2>1, <2>5, <2>6, <2>7, <2>8
<1> QED
  BY <1>7, <1>8, <1>9

LEMMA OtaNextKeeps == OtaInv /\ [OtaNext]_otaVars => OtaInv'
<1> SUFFICES ASSUME OtaInv, [OtaNext]_otaVars
             PROVE  OtaInv'
  OBVIOUS
<1>1. ASSUME NEW c \in Admins, OtaRequest(c)
      PROVE  OtaInv'
  <2>1. {"RUNNING", "PAUSED", "CANCELLED", "ROLLING_BACK"} \subseteq CampaignStates \ {"DRAFT"}
    BY DEF CampaignStates
  <2>2. CASE BeginBatch(c)
    <3>1. "RUNNING" \in CampaignStates \ {"DRAFT"}
      BY <2>1
    <3> QED
      BY <2>2, <3>1, BeginsKeep
  <2> QED
    BY <1>1, <2>1, <2>2, BeginsKeep, BeginReportKeeps DEF OtaRequest
<1>2. ASSUME NEW c \in Admins, OtaStep(c)
      PROVE  OtaInv'
  BY <1>2, BatchKeeps, EndsKeep DEF OtaStep
<1>3. CASE RestartRollout
  <2>1. /\ reports < MaxReports /\ reports' = reports + 1 /\ dispatched' = {}
        /\ otaCall' = [c \in Admins |-> OtaIdle]
        /\ otaRaced' = (otaRaced \/ \E c \in Admins : otaCall[c].pc # "idle")
        /\ UNCHANGED <<campaign, stats, strays, failures, resumed, current, inFlight, refused>>
    BY <1>3 DEF RestartRollout
  <2>2. /\ otaCall' \in [Admins -> OtaMemos] /\ (\A c \in Admins : otaCall'[c] = OtaIdle)
        /\ OtaIdle.pc = "idle" /\ Fits(OtaIdle)
    BY <2>1, RowsAreTyped
  <2>3. /\ reports' \in 0..MaxReports /\ failures <= reports' /\ strays <= reports'
        /\ otaRaced' \in BOOLEAN
    BY <2>1 DEF OtaInv, OtaTypeOK
  <2>4. OtaTypeOK'
    BY <2>1, <2>2, <2>3 DEF OtaInv, OtaTypeOK, OtaMemos
  <2>5. ~otaRaced' => ~otaRaced /\ \A c \in Admins : otaCall[c].pc = "idle"
    BY <2>1 DEF OtaInv, OtaTypeOK
  <2>6. AloneTrusts'
    BY <2>1, <2>2, <2>5 DEF OtaInv, AloneTrusts, SlotsUsed
  <2>7. InFlightBounded' /\ ThresholdKept'
    BY <2>1, <2>5 DEF OtaInv, InFlightBounded, ThresholdKept, Exceeded
  <2>8. \A c \in Admins : Fits(otaCall[c])'
    BY <2>2 DEF Fits
  <2> QED
    BY <2>1, <2>3, <2>4, <2>6, <2>7, <2>8 DEF OtaInv
<1>4. CASE UNCHANGED otaVars
  BY <1>4 DEF otaVars, OtaInv, OtaTypeOK, Fits, AloneTrusts, Trusts, SlotsUsed,
              InFlightBounded, ThresholdKept, Exceeded
<1> QED
  BY <1>1, <1>2, <1>3, <1>4 DEF OtaNext

\* Every reachable state of a campaign is well typed.
THEOREM CampaignsTyped == OtaSpec => []OtaTypeOK
  BY OtaInit_, OtaNextKeeps, PTL DEF OtaSpec, OtaInv

\* Unless two requests overlapped or one was cut, the statistics are what happened and no
\* more devices than allowed are updated at once, up to one slot for each end reported
\* again or of a device at no work; and too many failures leave no campaign running that
\* nobody set to with them.
THEOREM RolloutInStepAlways == OtaSpec => []RolloutInStep
<1>1. OtaInv => StatsAreTrue
  BY DEF OtaInv, AloneTrusts, Covers, StatsAreTrue, OtaQuiet, SlotsUsed
<1>2. OtaInv => ThresholdPauses
  BY DEF OtaInv, ThresholdKept, ThresholdPauses, OtaQuiet
<1>3. OtaInv => RolloutInStep
  BY <1>1, <1>2 DEF OtaInv, RolloutInStep
<1> QED
  BY <1>3, OtaInit_, OtaNextKeeps, PTL DEF OtaSpec
=============================================================================
