------------------------------- MODULE MCBackend -------------------------------
(***************************************************************************)
(* The backend's services, and the reports of a device, on small           *)
(* instances, for TLC.  The components share no state, so a behaviour of   *)
(* this module is one of a single component, the part; the others rest at  *)
(* one of their initial states.                                            *)
(***************************************************************************)
EXTENDS HomeAccess, RefreshTokens, Commissioning, DeviceClaims, Notifications, Scheduler,
        Automations, OtaRollout, OtaOperations, EnergyTelemetry, ReportedState,
        CloudReporting, DeviceTrust, BleProvisioning, TLC

CONSTANTS c1, c2, u1, u2, i1, h1, h2, r1, k1, t1, d1, d2, d3, a1, w1, w2,
          p1, p2, n1, n2

MCCallers == {c1, c2}

(* Two users, one invitation, from the first to the second.                *)
MCUsers == {u1, u2}
MCInvites == {i1}
MCInviterOf == [i \in MCInvites |-> u1]
MCInviteeOf == [i \in MCInvites |-> u2]
MCInviteRole == [i \in MCInvites |-> "MEMBER"]

(* Two homes, and a room of the first.                                     *)
MCHomes == {h1, h2}
MCRooms == {r1}
MCRoomHome == [r \in MCRooms |-> h1]

MCDispatchers == {w1}
MCEvents == {k1}
MCCritical == {}
MCPushTokens == {t1}
MCTickers == {w1, w2}
MCAdmins == {a1}
MCDevices == {d1, d2, d3}
MCChannels == {1}

(* Two phones, one of which has scanned the code; a network that suits the *)
(* device and one whose name is too long.                                  *)
MCPhones == {p1, p2}
MCScanned == {p1}
MCNetworks == {n1, n2}
MCUnfit == {n2}

VARIABLE part
backendVars == <<part, homeVars, tokenVars, commVars, claimVars, noteVars, schedVars, autoVars,
                 otaVars, opVars, energyVars, stateVars, reportVars,
                 trustVars, bleVars>>

BackendInit ==
  /\ part \in {"home", "tokens", "commissioning", "claims", "notifications", "scheduler",
                "automations", "rollout", "operations", "energy", "state",
                "reports", "trust", "provisioning"}
  /\ HomeInit /\ TokenInit /\ CommInit /\ ClaimInit /\ NoteInit /\ SchedInit
  /\ AutoInit /\ OtaInit /\ OpInit /\ EnergyInit /\ StateInit /\ ReportInit
  /\ TrustInit /\ BleInit
  /\ quiet \/ part = "notifications"
  /\ power = "low" \/ part = "automations"
  /\ relay = "on" \/ part = "state"
  /\ lit = {} \/ part = "reports"
  /\ stored \/ part = "trust"

(* The part is p, and the other components stay. *)
Rest(p) ==
  /\ part = p /\ UNCHANGED part
  /\ IF p = "home" THEN TRUE ELSE UNCHANGED homeVars
  /\ IF p = "tokens" THEN TRUE ELSE UNCHANGED tokenVars
  /\ IF p = "commissioning" THEN TRUE ELSE UNCHANGED commVars
  /\ IF p = "claims" THEN TRUE ELSE UNCHANGED claimVars
  /\ IF p = "notifications" THEN TRUE ELSE UNCHANGED noteVars
  /\ IF p = "scheduler" THEN TRUE ELSE UNCHANGED schedVars
  /\ IF p = "automations" THEN TRUE ELSE UNCHANGED autoVars
  /\ IF p = "rollout" THEN TRUE ELSE UNCHANGED otaVars
  /\ IF p = "operations" THEN TRUE ELSE UNCHANGED opVars
  /\ IF p = "energy" THEN TRUE ELSE UNCHANGED energyVars
  /\ IF p = "state" THEN TRUE ELSE UNCHANGED stateVars
  /\ IF p = "reports" THEN TRUE ELSE UNCHANGED reportVars
  /\ IF p = "trust" THEN TRUE ELSE UNCHANGED trustVars
  /\ IF p = "provisioning" THEN TRUE ELSE UNCHANGED bleVars

BackendNext ==
  \/ Rest("home") /\ HomeNext
  \/ Rest("tokens") /\ TokenNext
  \/ Rest("commissioning") /\ CommNext
  \/ Rest("claims") /\ ClaimNext
  \/ Rest("notifications") /\ NoteNext
  \/ Rest("scheduler") /\ SchedNext
  \/ Rest("automations") /\ AutoNext
  \/ Rest("rollout") /\ OtaNext
  \/ Rest("operations") /\ OpNext
  \/ Rest("energy") /\ EnergyNext
  \/ Rest("state") /\ StateNext
  \/ Rest("reports") /\ ReportNext
  \/ Rest("trust") /\ TrustNext
  \/ Rest("provisioning") /\ BleNext

(* What tells the states of a part from one another.  Two callers are      *)
(* alike, and so are two ticks: no variable but their own names them, so   *)
(* the two things they are at matter, and not who is at which.  So are the *)
(* devices of a campaign: how many of them stand alike is what matters.    *)
(* The time of a tick that ends, and what an update read of a time it was  *)
(* given itself, are not looked at again.                                  *)
(* When a deleted token was issued and whether it had expired is asked by  *)
(* nobody; of the exceptions a property makes, which only histories say,   *)
(* it only matters that there is one.                                      *)
Both(call) == {call[c] : c \in DOMAIN call}

AtTick(k) == IF tick[k].pc = "end" THEN [tick[k] EXCEPT !.asOf = 0] ELSE tick[k]
AtEdit(c) == IF edit[c].tod = {} THEN edit[c] ELSE [edit[c] EXCEPT !.seen = 0]

Standing(d) ==
  <<d \in current, d \in dispatched, d \in inFlight,
    {<<d \in otaCall[c].todo, d \in otaCall[c].d>> : c \in Admins}>>
Standings == {Standing(d) : d \in Devices}

MCView ==
  <<part,
    CASE part = "home" ->
           <<ownerId, role, account, invite, lateInvites, joined, Both(homeCall), homeRaced,
             selfNamed \/ halfGone>>
      [] part = "tokens" ->
           <<registered, password, live, expired \cap live, issued,
             [t \in live |-> issuedAt[t]], spent, spentTwice, shared, survivors \cap live,
             Both(authCall)>>
      [] part = "commissioning" ->
           <<session, lateSessions, Both(commCall), proved, endedUnder, reopened,
             createdTogether>>
      [] part = "claims" ->
           <<auth, rooms, evidence, Both(claimCall), claimRaced, strayRoom, shown, unproven>>
      [] part = "notifications" ->
           <<note, queue, active, lately, quiet, noteCall, worker, notDue, cut, cuts,
             [d \in Deliveries |-> IF d \in cut THEN <<pushes[d] > 0, tries[d] >= MaxAttempts>>
                                   ELSE <<pushes[d], tries[d]>>]>>
      [] part = "scheduler" ->
           <<clock, sched, {AtTick(k) : k \in Tickers}, locked, keys, forgot,
             IF forgot THEN <<>> ELSE <<fired, firedTwice>>, {AtEdit(c) : c \in Callers},
             spoilt, changes>>
      [] part = "automations" ->
           <<rule, enabled, Both(autoCall), power, triggered, cooling, waiting, hot, doubled,
             overlapped, forgotten>>
      [] part = "rollout" ->
           <<campaign, stats, reports, otaRaced,
             {[otaCall[c] EXCEPT !.todo = {}, !.d = {}] : c \in Admins},
             [x \in Standings |-> Cardinality({d \in Devices : Standing(d) = x})],
             IF otaRaced THEN <<>> ELSE <<refused, strays, failures, resumed>>>>
      [] part = "operations" ->
           <<otaOps, firmware, Both(opCall), told, initRaced, reactivated,
             versionLost>>
      [] part = "energy" ->
           <<meter, air, lastSeq, held, bucket, Both(energyCall), faults,
             IF forked \/ restarted \/ outlived THEN <<>> ELSE <<consumed>>,
             IF forked \/ overtaken \/ unadded \/ restarted \/ meterReset THEN <<>>
             ELSE <<rows>>>>
      [] part = "state" ->
           <<relay, connection, recent, reported, cached, Both(ingest), marking, markedLate,
             reportLost>>
      [] part = "reports" -> reportVars
      [] part = "trust" ->
           <<trust, stored, revokedUnder, unrevoked /\ ~revokedUnder, begunTogether,
             endedTogether, revokedOpen, revived \ revokedOpen,
             IF begunTogether
             THEN <<[r \in LedgerRows |-> ledger[r].status],
                    {IF m.pc = "create" THEN [m EXCEPT !.rec = 0] ELSE m : m \in Both(trustCall)}>>
             ELSE <<ledger, Both(trustCall)>>>>
      [] part = "provisioning" -> bleVars>>

BackendSpec == BackendInit /\ [][BackendNext]_backendVars

-----------------------------------------------------------------------------
(* The state of every component keeps its types.                           *)
BackendTypeOK ==
  /\ part = "home" => HomeTypeOK
  /\ part = "tokens" => TokenTypeOK
  /\ part = "commissioning" => CommTypeOK
  /\ part = "claims" => ClaimTypeOK
  /\ part = "notifications" => NoteTypeOK
  /\ part = "scheduler" => SchedTypeOK
  /\ part = "automations" => AutoTypeOK
  /\ part = "rollout" => OtaTypeOK
  /\ part = "operations" => OpTypeOK
  /\ part = "energy" => EnergyTypeOK
  /\ part = "state" => StateTypeOK
  /\ part = "reports" => ReportTypeOK
  /\ part = "trust" => TrustTypeOK
  /\ part = "provisioning" => BleTypeOK
=============================================================================
