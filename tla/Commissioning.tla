---------------------------- MODULE Commissioning ----------------------------
(***************************************************************************)
(* The commissioning sessions of one device: ProvisioningService and       *)
(* ProvisioningSessionRepository.  Each operation reads its session,       *)
(* decides, and after an await writes a status whatever the row has become *)
(* meanwhile.  Challenges, credentials and certificates are left out: a    *)
(* request that reaches an operation has passed the checks on its body.    *)
(* Nothing in the backend writes the status ABORTED.                       *)
(***************************************************************************)
EXTENDS Naturals, FiniteSets, Handlers

CONSTANT MaxSessions   \* bound: sessions created; they are 1, 2, ...

ASSUME SessionAssumption == MaxSessions \in Nat

VARIABLES
  session,        \* status of each session, "none" before its row exists
  lateSessions,   \* the sessions past their expires_at
  commCall,       \* the request each caller is in
  proved,         \* history: the sessions that were AUTHENTICATED at some time
  endedUnder,     \* history: sessions that ended while a request held them
  reopened,       \* history: sessions taken out of their end
  createdTogether \* history: two creations overlapped

commVars == <<session, lateSessions, commCall, proved, endedUnder, reopened, createdTogether>>

Sessions == 1..MaxSessions
SessionStatuses == {"none", "CREATED", "AUTHENTICATED", "PROVISIONED", "COMPLETED", "EXPIRED"}
Ended == {"COMPLETED", "EXPIRED"}
Proving == {"AUTHENTICATED", "PROVISIONED"}
ActiveSessions == {s \in Sessions : session[s] \in {"CREATED"} \cup Proving}

CommMemo(pc, s, word, rows) == [pc |-> pc, s |-> s, word |-> word, rows |-> rows]
CommIdle == CommMemo("idle", {}, "none", {})

CommTypeOK ==
  /\ session \in [Sessions -> SessionStatuses]
  /\ lateSessions \subseteq Sessions /\ proved \subseteq Sessions
  /\ endedUnder \subseteq Sessions /\ reopened \subseteq Sessions
  /\ createdTogether \in BOOLEAN
  /\ commCall \in [Callers -> [pc : {"idle", "supersede", "write"}, s : SUBSET Sessions,
                               word : SessionStatuses, rows : SUBSET Sessions]]

CommInit ==
  /\ session = [s \in Sessions |-> "none"]
  /\ lateSessions = {} /\ proved = {} /\ endedUnder = {} /\ reopened = {}
  /\ createdTogether = FALSE
  /\ commCall = [c \in Callers |-> CommIdle]

CommGoto(c, from, m) ==
  /\ commCall[c].pc = from
  /\ commCall' = [commCall EXCEPT ![c] = m]

(* The row of s takes a status, while other requests may hold s.           *)
SetSession(c, s, word) ==
  LET ends == word \in Ended
      held == \E d \in Callers \ {c} : commCall[d].pc = "write" /\ s \in commCall[d].s
  IN  /\ session' = [session EXCEPT ![s] = word]
      /\ proved' = proved \cup {t \in {s} : word = "AUTHENTICATED"}
      /\ endedUnder' = endedUnder \cup {t \in {s} : ends /\ held}
      /\ reopened' = reopened \cup
           {t \in {s} : session[s] \in Ended /\ word \notin {session[s], "EXPIRED"}}

SessionsStay == UNCHANGED <<session, lateSessions, proved, endedUnder, reopened>>

(* createSession: a device has one active session, so those it lists are   *)
(* expired one by one before the next is inserted.                         *)
BeginSession(c) ==
  /\ CommGoto(c, "idle", CommMemo("supersede", {}, "none", ActiveSessions))
  /\ createdTogether' = (createdTogether \/ \E d \in Callers : commCall[d].pc = "supersede")
  /\ SessionsStay

Supersede(c) ==
  \E s \in commCall[c].rows :
    /\ CommGoto(c, "supersede", [commCall[c] EXCEPT !.rows = @ \ {s}])
    /\ SetSession(c, s, "EXPIRED")
    /\ UNCHANGED <<lateSessions, createdTogether>>

InsertSession(c) ==
  \E s \in Sessions :
    /\ commCall[c].rows = {}
    /\ session[s] = "none" /\ \A t \in 1..(s - 1) : session[t] # "none"
    /\ CommGoto(c, "supersede", CommIdle)
    /\ SetSession(c, s, "CREATED")
    /\ UNCHANGED <<lateSessions, createdTogether>>

(* An operation on session s has read it and will write the status word. *)
BeginWrite(c, s, word) ==
  /\ session[s] # "none"
  /\ CommGoto(c, "idle", CommMemo("write", {s}, word, {}))
  /\ SessionsStay /\ UNCHANGED createdTogether

BeginAuthenticate(c, s) ==
  \/ (session[s] = "EXPIRED" \/ s \in lateSessions) /\ BeginWrite(c, s, "EXPIRED")
  \/ /\ session[s] \notin Ended /\ s \notin lateSessions
     /\ BeginWrite(c, s, "AUTHENTICATED")

\* Mutant: a session that has not ended is enough.
BeginProvision_Unproven(c, s) ==
  /\ s \notin lateSessions /\ session[s] \notin Ended
  /\ BeginWrite(c, s, "PROVISIONED")

BeginProvision(c, s) ==
  \/ s \in lateSessions /\ BeginWrite(c, s, "EXPIRED")
  \/ /\ s \notin lateSessions /\ session[s] = "AUTHENTICATED"
     /\ BeginWrite(c, s, "PROVISIONED")

BeginConfirm(c, s) ==
  \/ s \in lateSessions /\ BeginWrite(c, s, "EXPIRED")
  \/ /\ s \notin lateSessions /\ session[s] \in Proving
     /\ BeginWrite(c, s, "COMPLETED")

(* completeRegistration does not look at the clock. *)
BeginComplete(c, s) == session[s] \in Proving /\ BeginWrite(c, s, "COMPLETED")

WriteStatus(c) ==
  \E s \in commCall[c].s :
    /\ CommGoto(c, "write", CommIdle)
    /\ SetSession(c, s, commCall[c].word)
    /\ UNCHANGED <<lateSessions, createdTogether>>

(* The process restarts or a statement fails, and the request ends there.  *)
CutSession(c) ==
  /\ commCall[c].pc # "idle"
  /\ commCall' = [commCall EXCEPT ![c] = CommIdle]
  /\ SessionsStay /\ UNCHANGED createdTogether

SessionExpires(s) ==
  /\ session[s] # "none" /\ s \notin lateSessions
  /\ lateSessions' = lateSessions \cup {s}
  /\ UNCHANGED <<session, commCall, proved, endedUnder, reopened, createdTogether>>

CommRequest(c) ==
  \/ BeginSession(c)
  \/ \E s \in Sessions : BeginAuthenticate(c, s) \/ BeginProvision(c, s) \/ BeginConfirm(c, s)
                         \/ BeginComplete(c, s)

CommStep(c) == Supersede(c) \/ InsertSession(c) \/ WriteStatus(c)

CommNext ==
  \/ \E c \in Callers : CommRequest(c) \/ CommStep(c) \/ CutSession(c)
  \/ \E s \in Sessions : SessionExpires(s)

CommSpec == CommInit /\ [][CommNext]_commVars

-----------------------------------------------------------------------------
(* Credentials are accepted and a registration is completed only for a     *)
(* session that was authenticated, whatever else ran in between.           *)
ProvisionedWasProved ==
  \A s \in Sessions : session[s] \in Proving \cup {"COMPLETED"} => s \in proved

(* A session that has ended is opened or completed again only by a request *)
(* that had read it before the end: an end nobody overlapped is for good.  *)
ReopenedWasHeld == reopened \subseteq endedUnder

(* A device has one active commissioning session at a time, as long as no  *)
(* two creations overlap and no stale write reopens a superseded one.      *)
OneActiveSession ==
  (~createdTogether /\ reopened = {}) => Cardinality(ActiveSessions) <= 1

(* What a commissioning session must keep, however operations interleave.  *)
SessionKept == ProvisionedWasProved /\ ReopenedWasHeld /\ OneActiveSession
=============================================================================
