---------------------------- MODULE Backend_proofs ----------------------------
(***************************************************************************)
(* MCBackend composes the services of the backend and the reports of a     *)
(* device, which share no state.  Here its specification is shown to imply *)
(* the one of every component, so that each theorem about a component      *)
(* holds of the composition that is run.                                   *)
(***************************************************************************)
EXTENDS MCBackend, Accounts_proofs, Devices_proofs, Events_proofs, Reports_proofs,
        Updates_proofs

\* Where all variables stay, so do those of each component.
LEMMA AllRest ==
  ASSUME UNCHANGED backendVars
  PROVE  /\ UNCHANGED homeVars
         /\ UNCHANGED tokenVars
         /\ UNCHANGED commVars
         /\ UNCHANGED claimVars
         /\ UNCHANGED noteVars
         /\ UNCHANGED schedVars
         /\ UNCHANGED autoVars
         /\ UNCHANGED otaVars
         /\ UNCHANGED opVars
         /\ UNCHANGED energyVars
         /\ UNCHANGED stateVars
         /\ UNCHANGED reportVars
         /\ UNCHANGED trustVars
         /\ UNCHANGED bleVars
  BY DEF backendVars

LEMMA HomePart == BackendSpec => HomeSpec
<1>1. BackendInit => HomeInit
  BY DEF BackendInit
<1>2. [BackendNext]_backendVars => [HomeNext]_homeVars
  <2>1. ASSUME NEW p, Rest(p), p # "home"
        PROVE  UNCHANGED homeVars
    BY <2>1 DEF Rest
  <2> QED
    BY <2>1, AllRest DEF BackendNext
<1> QED
  BY <1>1, <1>2, PTL DEF BackendSpec, HomeSpec

LEMMA TokenPart == BackendSpec => TokenSpec
<1>1. BackendInit => TokenInit
  BY DEF BackendInit
<1>2. [BackendNext]_backendVars => [TokenNext]_tokenVars
  <2>1. ASSUME NEW p, Rest(p), p # "tokens"
        PROVE  UNCHANGED tokenVars
    BY <2>1 DEF Rest
  <2> QED
    BY <2>1, AllRest DEF BackendNext
<1> QED
  BY <1>1, <1>2, PTL DEF BackendSpec, TokenSpec

LEMMA CommPart == BackendSpec => CommSpec
<1>1. BackendInit => CommInit
  BY DEF BackendInit
<1>2. [BackendNext]_backendVars => [CommNext]_commVars
  <2>1. ASSUME NEW p, Rest(p), p # "commissioning"
        PROVE  UNCHANGED commVars
    BY <2>1 DEF Rest
  <2> QED
    BY <2>1, AllRest DEF BackendNext
<1> QED
  BY <1>1, <1>2, PTL DEF BackendSpec, CommSpec

LEMMA ClaimPart == BackendSpec => ClaimSpec
<1>1. BackendInit => ClaimInit
  BY DEF BackendInit
<1>2. [BackendNext]_backendVars => [ClaimNext]_claimVars
  <2>1. ASSUME NEW p, Rest(p), p # "claims"
        PROVE  UNCHANGED claimVars
    BY <2>1 DEF Rest
  <2> QED
    BY <2>1, AllRest DEF BackendNext
<1> QED
  BY <1>1, <1>2, PTL DEF BackendSpec, ClaimSpec

LEMMA NotePart == BackendSpec => NoteSpec
<1>1. BackendInit => NoteInit
  BY DEF BackendInit
<1>2. [BackendNext]_backendVars => [NoteNext]_noteVars
  <2>1. ASSUME NEW p, Rest(p), p # "notifications"
        PROVE  UNCHANGED noteVars
    BY <2>1 DEF Rest
  <2> QED
    BY <2>1, AllRest DEF BackendNext
<1> QED
  BY <1>1, <1>2, PTL DEF BackendSpec, NoteSpec

LEMMA SchedPart == BackendSpec => SchedSpec
<1>1. BackendInit => SchedInit
  BY DEF BackendInit
<1>2. [BackendNext]_backendVars => [SchedNext]_schedVars
  <2>1. ASSUME NEW p, Rest(p), p # "scheduler"
        PROVE  UNCHANGED schedVars
    BY <2>1 DEF Rest
  <2> QED
    BY <2>1, AllRest DEF BackendNext
<1> QED
  BY <1>1, <1>2, PTL DEF BackendSpec, SchedSpec

LEMMA AutoPart == BackendSpec => AutoSpec
<1>1. BackendInit => AutoInit
  BY DEF BackendInit
<1>2. [BackendNext]_backendVars => [AutoNext]_autoVars
  <2>1. ASSUME NEW p, Rest(p), p # "automations"
        PROVE  UNCHANGED autoVars
    BY <2>1 DEF Rest
  <2> QED
    BY <2>1, AllRest DEF BackendNext
<1> QED
  BY <1>1, <1>2, PTL DEF BackendSpec, AutoSpec

LEMMA OtaPart == BackendSpec => OtaSpec
<1>1. BackendInit => OtaInit
  BY DEF BackendInit
<1>2. [BackendNext]_backendVars => [OtaNext]_otaVars
  <2>1. ASSUME NEW p, Rest(p), p # "rollout"
        PROVE  UNCHANGED otaVars
    BY <2>1 DEF Rest
  <2> QED
    BY <2>1, AllRest DEF BackendNext
<1> QED
  BY <1>1, <1>2, PTL DEF BackendSpec, OtaSpec

LEMMA OpPart == BackendSpec => OpSpec
<1>1. BackendInit => OpInit
  BY DEF BackendInit
<1>2. [BackendNext]_backendVars => [OpNext]_opVars
  <2>1. ASSUME NEW p, Rest(p), p # "operations"
        PROVE  UNCHANGED opVars
    BY <2>1 DEF Rest
  <2> QED
    BY <2>1, AllRest DEF BackendNext
<1> QED
  BY <1>1, <1>2, PTL DEF BackendSpec, OpSpec

LEMMA EnergyPart == BackendSpec => EnergySpec
<1>1. BackendInit => EnergyInit
  BY DEF BackendInit
<1>2. [BackendNext]_backendVars => [EnergyNext]_energyVars
  <2>1. ASSUME NEW p, Rest(p), p # "energy"
        PROVE  UNCHANGED energyVars
    BY <2>1 DEF Rest
  <2> QED
    BY <2>1, AllRest DEF BackendNext
<1> QED
  BY <1>1, <1>2, PTL DEF BackendSpec, EnergySpec

LEMMA StatePart == BackendSpec => StateSpec
<1>1. BackendInit => StateInit
  BY DEF BackendInit
<1>2. [BackendNext]_backendVars => [StateNext]_stateVars
  <2>1. ASSUME NEW p, Rest(p), p # "state"
        PROVE  UNCHANGED stateVars
    BY <2>1 DEF Rest
  <2> QED
    BY <2>1, AllRest DEF BackendNext
<1> QED
  BY <1>1, <1>2, PTL DEF BackendSpec, StateSpec

LEMMA ReportPart == BackendSpec => ReportSpec
<1>1. BackendInit => ReportInit
  BY DEF BackendInit
<1>2. [BackendNext]_backendVars => [ReportNext]_reportVars
  <2>1. ASSUME NEW p, Rest(p), p # "reports"
        PROVE  UNCHANGED reportVars
    BY <2>1 DEF Rest
  <2> QED
    BY <2>1, AllRest DEF BackendNext
<1> QED
  BY <1>1, <1>2, PTL DEF BackendSpec, ReportSpec

LEMMA TrustPart == BackendSpec => TrustSpec
<1>1. BackendInit => TrustInit
  BY DEF BackendInit
<1>2. [BackendNext]_backendVars => [TrustNext]_trustVars
  <2>1. ASSUME NEW p, Rest(p), p # "trust"
        PROVE  UNCHANGED trustVars
    BY <2>1 DEF Rest
  <2> QED
    BY <2>1, AllRest DEF BackendNext
<1> QED
  BY <1>1, <1>2, PTL DEF BackendSpec, TrustSpec

LEMMA BlePart == BackendSpec => BleSpec
<1>1. BackendInit => BleInit
  BY DEF BackendInit
<1>2. [BackendNext]_backendVars => [BleNext]_bleVars
  <2>1. ASSUME NEW p, Rest(p), p # "provisioning"
        PROVE  UNCHANGED bleVars
    BY <2>1 DEF Rest
  <2> QED
    BY <2>1, AllRest DEF BackendNext
<1> QED
  BY <1>1, <1>2, PTL DEF BackendSpec, BleSpec

(* The composition is one of every component: what its theorems say of a        *)
(* component holds also of the requests of the backend run together.            *)
THEOREM BackendImplementsParts ==
  BackendSpec => /\ HomeSpec
                 /\ TokenSpec
                 /\ CommSpec
                 /\ ClaimSpec
                 /\ NoteSpec
                 /\ SchedSpec
                 /\ AutoSpec
                 /\ OtaSpec
                 /\ OpSpec
                 /\ EnergySpec
                 /\ StateSpec
                 /\ ReportSpec
                 /\ TrustSpec
                 /\ BleSpec
  BY HomePart, TokenPart, CommPart, ClaimPart, NotePart, SchedPart, AutoPart, OtaPart, OpPart,
      EnergyPart, StatePart, ReportPart, TrustPart, BlePart

(* Whatever part of the backend runs, its variables and the memory of its       *)
(* requests keep to their types, at every await where a restart may end them.   *)
THEOREM BackendTypeCorrect == BackendSpec => []BackendTypeOK
<1>1. (HomeTypeOK /\ TokenTypeOK /\ CommTypeOK /\ ClaimTypeOK /\ NoteTypeOK /\ SchedTypeOK /\
       AutoTypeOK /\ OtaTypeOK /\ OpTypeOK /\ EnergyTypeOK /\ StateTypeOK /\ ReportTypeOK /\
       TrustTypeOK /\ BleTypeOK) => BackendTypeOK
  BY DEF BackendTypeOK
<1> QED
  BY <1>1, BackendImplementsParts, HomeTypedAlways, SessionsTyped, SessionsAreTyped,
      ClaimsAreTyped, NoticesTyped, SchedulesTyped, RulesTyped, CampaignsTyped,
      OperationsTyped, EnergyTypeCorrect, StateTypeCorrect, ReportsTyped, TrustTyped,
      BleTypeCorrect, PTL
=============================================================================
