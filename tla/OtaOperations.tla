---------------------------- MODULE OtaOperations ----------------------------
(***************************************************************************)
(* The firmware updates of one device, as the backend keeps them:          *)
(* OtaService and OtaOperationRepository.  An update is an ota_operation,  *)
(* created after a look for an active one; then its command is sent.  The  *)
(* firmware acknowledges the command and does nothing more, so what is     *)
(* heard of an operation, its progress and its end, are posts of HTTP      *)
(* clients: of any operation that was created, at any time, and again.     *)
(* Nothing else ends one.  Of the stages there are two, active and ended;  *)
(* the checks of the release and of the device's home and trust precede,   *)
(* notifications and logs are left out.                                    *)
(***************************************************************************)
EXTENDS Naturals, Handlers

CONSTANT MaxOps   \* bound: operations created; they are 1, 2, ...

ASSUME OperationAssumption == MaxOps \in Nat

VARIABLES
  otaOps,      \* the status of each ota_operation
  firmware,    \* devices.firmware_version
  opCall,      \* the request or report each caller is in
  told,        \* history: the version the last report of a success named
  initRaced,   \* history: two initiations passed the look for an active operation
  reactivated, \* history: operations whose progress was posted after their last end
  versionLost  \* history: the last report of a success was cut, or overlapped another

opVars == <<otaOps, firmware, opCall, told, initRaced, reactivated, versionLost>>

OpIds == 1..MaxOps
OtaVersions == {"old", "new"}
OpMemo(pc, o, version) == [pc |-> pc, o |-> o, version |-> version]
OpIdle == OpMemo("idle", 0, "old")

OpTypeOK ==
  /\ otaOps \in [OpIds -> {"none", "active", "ended"}]
  /\ firmware \in OtaVersions /\ told \in OtaVersions
  /\ opCall \in [Callers -> [pc : {"idle", "create", "send", "version"}, o : 0..MaxOps,
                             version : OtaVersions]]
  /\ reactivated \subseteq OpIds /\ initRaced \in BOOLEAN /\ versionLost \in BOOLEAN

OpInit ==
  /\ otaOps = [o \in OpIds |-> "none"]
  /\ firmware = "old" /\ told = "old"
  /\ opCall = [c \in Callers |-> OpIdle]
  /\ initRaced = FALSE /\ reactivated = {} /\ versionLost = FALSE

OpGoto(c, from, m) ==
  /\ opCall[c].pc = from
  /\ opCall' = [opCall EXCEPT ![c] = m]

\* Mutant: an active operation is not found.
HasActive_Never == FALSE

(* findActiveByDeviceId *)
HasActive == \E o \in OpIds : otaOps[o] = "active"

(* initiateOta refuses while there is an active operation ... *)
CheckActive(c) ==
  /\ ~HasActive
  /\ OpGoto(c, "idle", OpMemo("create", 0, "old"))
  /\ initRaced' = (initRaced \/ \E d \in Callers \ {c} : opCall[d].pc = "create")
  /\ UNCHANGED <<otaOps, firmware, told, reactivated, versionLost>>

(* ... and creates one otherwise, whatever has been created meanwhile. *)
CreateOperation(c) ==
  \E o \in OpIds :
    /\ otaOps[o] = "none" /\ \A p \in 1..(o - 1) : otaOps[p] # "none"
    /\ OpGoto(c, "create", OpMemo("send", o, "old"))
    /\ otaOps' = [otaOps EXCEPT ![o] = "active"]
    /\ UNCHANGED <<firmware, told, initRaced, reactivated, versionLost>>

(* Whether sendCommand throws, or its command is lost, or acknowledged by  *)
(* the device: the operation stays as it was created.                      *)
SendOta(c) ==
  /\ OpGoto(c, "send", OpIdle)
  /\ UNCHANGED <<otaOps, firmware, told, initRaced, reactivated, versionLost>>

(* handleOtaSuccess writes the end over whatever is there, and after       *)
(* another await the version, when the report names one.                   *)
ReportSuccess(c) ==
  \E o \in OpIds, version \in OtaVersions, named \in BOOLEAN :
    /\ otaOps[o] # "none"
    /\ OpGoto(c, "idle", IF named THEN OpMemo("version", o, version) ELSE OpIdle)
    /\ otaOps' = [otaOps EXCEPT ![o] = "ended"]
    /\ told' = IF named THEN version ELSE told
    /\ reactivated' = reactivated \ {o}
    /\ versionLost' = IF named THEN \E d \in Callers : opCall[d].pc = "version" ELSE versionLost
    /\ UNCHANGED <<firmware, initRaced>>

WriteVersion(c) ==
  /\ OpGoto(c, "version", OpIdle)
  /\ firmware' = opCall[c].version
  /\ UNCHANGED <<otaOps, told, initRaced, reactivated, versionLost>>

(* handleOtaFailure *)
ReportFailure(o) ==
  /\ otaOps[o] = "active"
  /\ otaOps' = [otaOps EXCEPT ![o] = "ended"]
  /\ reactivated' = reactivated \ {o}
  /\ UNCHANGED <<firmware, opCall, told, initRaced, versionLost>>

(* handleOtaProgress: the stage of one that has ended becomes active again.*)
LateProgress(o) ==
  /\ otaOps[o] = "ended"
  /\ otaOps' = [otaOps EXCEPT ![o] = "active"]
  /\ reactivated' = reactivated \cup {o}
  /\ UNCHANGED <<firmware, opCall, told, initRaced, versionLost>>

(* The process restarts or a statement fails, and the request ends there.  *)
CutOperation(c) ==
  /\ opCall[c].pc # "idle"
  /\ opCall' = [opCall EXCEPT ![c] = OpIdle]
  /\ versionLost' = (versionLost \/ opCall[c].pc = "version")
  /\ UNCHANGED <<otaOps, firmware, told, initRaced, reactivated>>

OpStep(c) ==
  \/ CheckActive(c) \/ CreateOperation(c) \/ SendOta(c)
  \/ ReportSuccess(c) \/ WriteVersion(c) \/ CutOperation(c)

OpNext ==
  \/ \E c \in Callers : OpStep(c)
  \/ \E o \in OpIds : ReportFailure(o) \/ LateProgress(o)

OpSpec == OpInit /\ [][OpNext]_opVars

-----------------------------------------------------------------------------
(* A device has one active operation at a time, whatever restarts, lost    *)
(* commands and repeated reports come between, besides those that were     *)
(* made active again by progress posted after their end: unless two        *)
(* initiations both passed the look for one.                               *)
OneActive ==
  ~initRaced =>
    \A o, p \in OpIds \ reactivated : (otaOps[o] = "active" /\ otaOps[p] = "active") => o = p

(* The recorded version is the one the last report of a success named,     *)
(* unless that was cut or overlapped another: the version is written apart *)
(* from the end of the operation, and after it.                            *)
VersionFollows ==
  (~versionLost /\ \A c \in Callers : opCall[c].pc # "version") => firmware = told

(* A device is at one update at a time, and what is recorded follows it.   *)
OneUpdate == OneActive /\ VersionFollows
=============================================================================
