---------------------------- MODULE Devices_proofs ----------------------------
(***************************************************************************)
(* Proofs about Commissioning, for every number of sessions, about         *)
(* DeviceClaims, for every set of homes and rooms, and about DeviceTrust,  *)
(* for any number of rotations; all for every set of callers.  Last about  *)
(* BleProvisioning, for every set of phones and networks, any length of a  *)
(* reply and of the queue, and any number of sessions.                     *)
(*                                                                         *)
(* A request reads, waits and writes.  What makes the properties true is   *)
(* therefore an invariant about the requests that wait: what the one about *)
(* to write may rely on, and what has been noted of it otherwise.          *)
(***************************************************************************)
EXTENDS Commissioning, DeviceClaims, DeviceTrust, BleProvisioning, Integers, FiniteSetTheorems,
        SequenceTheorems, TLAPS

\* A request that will write the outcome of a proof is of a session that was proved.
WritesAreProved ==
    \A c \in Callers :
      commCall[c].word \in {"PROVISIONED", "COMPLETED"} => commCall[c].s \subseteq proved

\* One that holds an ended session either ends it too, or held it before.
HoldersOfEnded ==
    \A c \in Callers : \A s \in commCall[c].s :
      (commCall[c].pc = "write" /\ session[s] \in Ended) =>
        commCall[c].word = "EXPIRED" \/ s \in endedUnder

\* A creation that overlaps no other has listed what is active.
OneCreation ==
    ~createdTogether =>
      /\ \A c, d \in Callers :
           commCall[c].pc = "supersede" /\ commCall[d].pc = "supersede" => c = d
      /\ reopened = {} =>
           \A c \in Callers :
             commCall[c].pc = "supersede" => ActiveSessions \subseteq commCall[c].rows

\* OneActiveSession without counting.
AtMostOneActive ==
    (~createdTogether /\ reopened = {}) => \A s, t \in ActiveSessions : s = t

\* What a request holds exists; a creation holds no session of its own.
HeldExists ==
    \A c \in Callers :
      /\ \A s \in commCall[c].s \cup commCall[c].rows : session[s] # "none"
      /\ commCall[c].pc = "write" =>
           commCall[c].word \in {"AUTHENTICATED", "PROVISIONED", "COMPLETED", "EXPIRED"}
      /\ commCall[c].pc = "supersede" => commCall[c].s = {} /\ commCall[c].word = "none"

CommInv ==
    /\ CommTypeOK /\ HeldExists
    /\ ProvisionedWasProved /\ WritesAreProved
    /\ ReopenedWasHeld /\ HoldersOfEnded
    /\ OneCreation /\ AtMostOneActive

USE SessionAssumption, ClaimAssumption DEF SessionAssumption, ClaimAssumption

-----------------------------------------------------------------------------
(* Commissioning                                                           *)

CommMemos == [pc : {"idle", "supersede", "write"}, s : SUBSET Sessions,
              word : SessionStatuses, rows : SUBSET Sessions]

LEMMA CommGotoTyped ==
  ASSUME CommTypeOK, NEW c \in Callers, NEW p, NEW m \in CommMemos, CommGoto(c, p, m)
  PROVE  /\ commCall' \in [Callers -> CommMemos]
         /\ commCall'[c] = m /\ commCall[c].pc = p
         /\ \A d \in Callers \ {c} : commCall'[d] = commCall[d]
  BY DEF CommTypeOK, CommGoto, CommMemos

LEMMA SetSessionTyped ==
  ASSUME CommTypeOK, NEW c \in Callers, NEW s \in Sessions, NEW w \in SessionStatuses,
         SetSession(c, s, w)
  PROVE  /\ session' \in [Sessions -> SessionStatuses]
         /\ session'[s] = w /\ \A t \in Sessions \ {s} : session'[t] = session[t]
         /\ proved' = IF w = "AUTHENTICATED" THEN proved \cup {s} ELSE proved
         /\ proved' \subseteq Sessions
         /\ endedUnder \subseteq endedUnder' /\ endedUnder' \subseteq Sessions
         /\ reopened' \in {reopened, reopened \cup {s}}
  BY DEF CommTypeOK, SetSession

LEMMA CommInit_ == CommInit => CommInv
<1> SUFFICES ASSUME CommInit
             PROVE  CommInv
  OBVIOUS
<1>1. CommIdle \in CommMemos /\ CommIdle.pc = "idle" /\ CommIdle.s = {} /\ CommIdle.rows = {}
      /\ CommIdle.word = "none"
  BY DEF CommIdle, CommMemo, CommMemos, SessionStatuses
<1>2. \A c \in Callers : commCall[c] = CommIdle
  BY DEF CommInit
<1>3. CommTypeOK
  BY <1>1 DEF CommInit, CommTypeOK, CommMemos, SessionStatuses
<1>4. ActiveSessions = {}
  BY DEF CommInit, ActiveSessions, Proving
<1>5. ProvisionedWasProved /\ ReopenedWasHeld
  BY DEF CommInit, ProvisionedWasProved, ReopenedWasHeld, Proving
<1>6. HeldExists /\ WritesAreProved /\ HoldersOfEnded
  BY <1>1, <1>2 DEF HeldExists, WritesAreProved, HoldersOfEnded
<1>7. OneCreation /\ AtMostOneActive
  BY <1>1, <1>2, <1>4 DEF OneCreation, AtMostOneActive
<1> QED
  BY <1>3, <1>5, <1>6, <1>7 DEF CommInv

\* A request on a session has read it; no row changes.
LEMMA CommReads ==
  ASSUME CommInv, NEW c \in Callers, NEW s \in Sessions,
         NEW w \in {"AUTHENTICATED", "PROVISIONED", "COMPLETED", "EXPIRED"},
         BeginWrite(c, s, w),
         w \in {"PROVISIONED", "COMPLETED"} => session[s] \in Proving,
         w = "AUTHENTICATED" => session[s] \notin Ended
  PROVE  CommInv'
<1>1. CommMemo("write", {s}, w, {}) \in CommMemos
  BY DEF CommMemo, CommMemos, SessionStatuses
<1>2. /\ commCall' \in [Callers -> CommMemos]
      /\ commCall'[c] = CommMemo("write", {s}, w, {}) /\ commCall[c].pc = "idle"
      /\ \A d \in Callers \ {c} : commCall'[d] = commCall[d]
  BY <1>1, CommGotoTyped DEF BeginWrite, CommInv
<1>3. /\ UNCHANGED <<session, lateSessions, proved, endedUnder, reopened, createdTogether>>
      /\ session[s] # "none"
  BY DEF BeginWrite, SessionsStay
<1>4. /\ commCall'[c].pc = "write" /\ commCall'[c].s = {s} /\ commCall'[c].word = w
      /\ commCall'[c].rows = {}
  BY <1>2 DEF CommMemo
<1>5. CommTypeOK'
  BY <1>2, <1>3 DEF CommInv, CommTypeOK, CommMemos
<1>6. HeldExists'
  BY <1>2, <1>3, <1>4 DEF CommInv, HeldExists
<1>7. ProvisionedWasProved' /\ ReopenedWasHeld'
  BY <1>3 DEF CommInv, ProvisionedWasProved, ReopenedWasHeld
<1>8. WritesAreProved'
  <2>1. w \in {"PROVISIONED", "COMPLETED"} => s \in proved
    BY DEF CommInv, ProvisionedWasProved
  <2> QED
    BY <1>2, <1>3, <1>4, <2>1 DEF CommInv, WritesAreProved
<1>9. HoldersOfEnded'
  <2>1. session[s] \in Ended => w = "EXPIRED"
    BY DEF Ended, Proving
  <2> QED
    BY <1>2, <1>3, <1>4, <2>1 DEF CommInv, HoldersOfEnded
<1>10. OneCreation' /\ AtMostOneActive'
  BY <1>2, <1>3, <1>4 DEF CommInv, OneCreation, AtMostOneActive, ActiveSessions
<1> QED
  BY <1>5, <1>6, <1>7, <1>8, <1>9, <1>10 DEF CommInv

LEMMA CommRequests ==
  ASSUME CommInv, NEW c \in Callers, CommRequest(c)
  PROVE  CommInv'
<1>1. CASE BeginSession(c)
  <2>1. ActiveSessions \in SUBSET Sessions
    BY DEF ActiveSessions
  <2>2. CommMemo("supersede", {}, "none", ActiveSessions) \in CommMemos
    BY <2>1 DEF CommMemo, CommMemos, SessionStatuses
  <2>3. /\ commCall' \in [Callers -> CommMemos]
        /\ commCall'[c] = CommMemo("supersede", {}, "none", ActiveSessions)
        /\ \A d \in Callers \ {c} : commCall'[d] = commCall[d]
    BY <1>1, <2>2, CommGotoTyped DEF BeginSession, CommInv
  <2>4. UNCHANGED <<session, lateSessions, proved, endedUnder, reopened>>
    BY <1>1 DEF BeginSession, SessionsStay
  <2>5. /\ commCall'[c].pc = "supersede" /\ commCall'[c].s = {}
        /\ commCall'[c].rows = ActiveSessions /\ commCall'[c].word = "none"
    BY <2>3 DEF CommMemo
  <2>6. /\ createdTogether' \in BOOLEAN
        /\ ~createdTogether' => /\ ~createdTogether
                               /\ \A d \in Callers : commCall[d].pc # "supersede"
    BY <1>1 DEF BeginSession, CommInv, CommTypeOK
  <2>7. CommTypeOK'
    BY <2>3, <2>4, <2>6 DEF CommInv, CommTypeOK, CommMemos
  <2>8. HeldExists'
    BY <2>3, <2>4, <2>5 DEF CommInv, HeldExists, ActiveSessions, Proving
  <2>9. ProvisionedWasProved' /\ ReopenedWasHeld'
    BY <2>4 DEF CommInv, ProvisionedWasProved, ReopenedWasHeld
  <2>10. WritesAreProved' /\ HoldersOfEnded'
    BY <2>3, <2>4, <2>5 DEF CommInv, WritesAreProved, HoldersOfEnded
  <2>11. ActiveSessions' = ActiveSessions
    BY <2>4 DEF ActiveSessions
  <2>12. OneCreation' /\ AtMostOneActive'
    BY <2>3, <2>4, <2>5, <2>6, <2>11 DEF CommInv, OneCreation, AtMostOneActive
  <2> QED
    BY <2>7, <2>8, <2>9, <2>10, <2>12 DEF CommInv
<1>2. ASSUME NEW s \in Sessions, BeginAuthenticate(c, s)
      PROVE  CommInv'
  BY <1>2, CommReads DEF BeginAuthenticate
<1>3. ASSUME NEW s \in Sessions, BeginProvision(c, s)
      PROVE  CommInv'
  BY <1>3, CommReads DEF BeginProvision, Proving
<1>4. ASSUME NEW s \in Sessions, BeginConfirm(c, s)
      PROVE  CommInv'
  BY <1>4, CommReads DEF BeginConfirm
<1>5. ASSUME NEW s \in Sessions, BeginComplete(c, s)
      PROVE  CommInv'
  BY <1>5, CommReads DEF BeginComplete
<1> QED
  BY <1>1, <1>2, <1>3, <1>4, <1>5 DEF CommRequest

\* A row takes a status.  What c remembers next holds no more than before.
LEMMA CommWrites ==
  ASSUME CommInv, NEW c \in Callers, NEW s \in Sessions, NEW w \in SessionStatuses,
         NEW p, NEW m \in CommMemos, CommGoto(c, p, m), SetSession(c, s, w),
         UNCHANGED <<lateSessions, createdTogether>>,
         w # "none", m.s = {}, m.pc # "write", m.rows \subseteq commCall[c].rows,
         m.word = "none",
         w \in {"PROVISIONED", "COMPLETED"} => s \in proved,
         (session[s] \in Ended /\ w # "EXPIRED") => s \in endedUnder,
         m.pc = "supersede" =>
           p = "supersede" /\ w = "EXPIRED" /\ commCall[c].rows \subseteq m.rows \cup {s},
         w = "CREATED" => p = "supersede" /\ commCall[c].rows = {} /\ m.pc = "idle",
         session[s] = "none" => w = "CREATED"
  PROVE  CommInv'
<1>1. /\ commCall' \in [Callers -> CommMemos]
      /\ commCall'[c] = m /\ commCall[c].pc = p
      /\ \A d \in Callers \ {c} : commCall'[d] = commCall[d]
  BY CommGotoTyped DEF CommInv
<1>2. /\ session' \in [Sessions -> SessionStatuses]
      /\ session'[s] = w /\ \A t \in Sessions \ {s} : session'[t] = session[t]
      /\ proved' = IF w = "AUTHENTICATED" THEN proved \cup {s} ELSE proved
      /\ proved' \subseteq Sessions
      /\ endedUnder \subseteq endedUnder' /\ endedUnder' \subseteq Sessions
      /\ reopened' \in {reopened, reopened \cup {s}}
  BY SetSessionTyped DEF CommInv
<1>3. CommTypeOK'
  BY <1>1, <1>2 DEF CommInv, CommTypeOK, CommMemos
<1>4. HeldExists'
  <2>1. \A d \in Callers : commCall[d].s \cup commCall[d].rows \subseteq Sessions
    BY DEF CommInv, CommTypeOK
  <2> QED
    BY <1>1, <1>2, <2>1 DEF CommInv, HeldExists
<1>5. ProvisionedWasProved'
  BY <1>2 DEF CommInv, ProvisionedWasProved, Proving
<1>6. WritesAreProved'
  BY <1>1, <1>2 DEF CommInv, WritesAreProved
<1>7. ReopenedWasHeld'
  <2>1. s \in reopened' \ reopened => session[s] \in Ended /\ w # "EXPIRED"
    BY DEF SetSession
  <2> QED
    BY <1>2, <2>1 DEF CommInv, ReopenedWasHeld
<1>8. HoldersOfEnded'
  <2> SUFFICES ASSUME NEW d \in Callers, NEW t \in commCall'[d].s, commCall'[d].pc = "write",
                      session'[t] \in Ended
               PROVE  commCall'[d].word = "EXPIRED" \/ t \in endedUnder'
    BY DEF HoldersOfEnded
  <2>1. d # c /\ commCall'[d] = commCall[d] /\ t \in Sessions
    BY <1>1, <1>3 DEF CommTypeOK
  <2>2. CASE t # s
    BY <1>2, <2>1, <2>2 DEF CommInv, HoldersOfEnded
  <2>3. CASE t = s
    BY <1>2, <2>1, <2>3 DEF SetSession
  <2> QED
    BY <2>2, <2>3
<1>9. ASSUME ~createdTogether', reopened' = {}
      PROVE  /\ \A d \in Callers :
                  commCall'[d].pc = "supersede" => ActiveSessions' \subseteq commCall'[d].rows
             /\ \A t, u \in ActiveSessions' : t = u
  <2>1. ~createdTogether /\ reopened = {}
    BY <1>2, <1>9
  <2>2. session[s] \in Ended => w \in {session[s], "EXPIRED"}
    BY <1>9 DEF SetSession
  <2>3. CASE w = "CREATED"
    <3>1. ActiveSessions = {} /\ \A d \in Callers : commCall'[d].pc # "supersede"
      BY <1>1, <2>1, <2>3 DEF CommInv, OneCreation
    <3>2. ActiveSessions' \subseteq {s}
      BY <1>2, <3>1 DEF ActiveSessions
    <3> QED
      BY <3>1, <3>2
  <2>4. CASE w # "CREATED"
    <3>1. ActiveSessions' \subseteq ActiveSessions
      BY <1>2, <2>2, <2>4 DEF ActiveSessions, Proving, Ended, SessionStatuses, CommInv, CommTypeOK
    <3>2. m.pc = "supersede" => s \notin ActiveSessions'
      BY <1>2 DEF ActiveSessions, Proving
    <3>3. \A d \in Callers :
            commCall'[d].pc = "supersede" => ActiveSessions' \subseteq commCall'[d].rows
      BY <1>1, <2>1, <3>1, <3>2 DEF CommInv, OneCreation
    <3> QED
      BY <2>1, <3>1, <3>3 DEF CommInv, AtMostOneActive
  <2> QED
    BY <2>3, <2>4
<1>10. OneCreation'
  BY <1>1, <1>9 DEF CommInv, OneCreation
<1>11. AtMostOneActive'
  BY <1>9 DEF AtMostOneActive
<1> QED
  BY <1>3, <1>4, <1>5, <1>6, <1>7, <1>8, <1>10, <1>11 DEF CommInv

LEMMA CommSteps ==
  ASSUME CommInv, NEW c \in Callers, CommStep(c)
  PROVE  CommInv'
<1>1. commCall[c] \in CommMemos
  BY DEF CommInv, CommTypeOK, CommMemos
<1>2. CommIdle \in CommMemos /\ CommIdle.pc = "idle" /\ CommIdle.s = {} /\ CommIdle.rows = {}
      /\ CommIdle.word = "none"
  BY DEF CommIdle, CommMemo, CommMemos, SessionStatuses
<1>3. {"EXPIRED", "CREATED", "none"} \subseteq SessionStatuses
  BY DEF SessionStatuses
<1>4. CASE WriteStatus(c)
  <2>1. PICK s \in commCall[c].s :
          CommGoto(c, "write", CommIdle) /\ SetSession(c, s, commCall[c].word)
          /\ UNCHANGED <<lateSessions, createdTogether>>
    BY <1>4 DEF WriteStatus
  <2>2. s \in Sessions /\ commCall[c].word \in SessionStatuses
    BY <1>1 DEF CommMemos
  <2>3. commCall[c].pc = "write" /\ session[s] # "none"
        /\ commCall[c].word \in {"AUTHENTICATED", "PROVISIONED", "COMPLETED", "EXPIRED"}
    BY <2>1 DEF CommGoto, CommInv, HeldExists
  <2>4. commCall[c].word \in {"PROVISIONED", "COMPLETED"} => s \in proved
    BY DEF CommInv, WritesAreProved
  <2>5. (session[s] \in Ended /\ commCall[c].word # "EXPIRED") => s \in endedUnder
    BY <2>3 DEF CommInv, HoldersOfEnded
  <2> QED
    BY <1>2, <2>1, <2>2, <2>3, <2>4, <2>5, CommWrites
<1>5. CASE Supersede(c)
  <2>1. PICK s \in commCall[c].rows :
          CommGoto(c, "supersede", [commCall[c] EXCEPT !.rows = @ \ {s}])
          /\ SetSession(c, s, "EXPIRED") /\ UNCHANGED <<lateSessions, createdTogether>>
    BY <1>5 DEF Supersede
  <2> DEFINE m == [commCall[c] EXCEPT !.rows = @ \ {s}]
  <2>2. commCall[c].pc = "supersede" /\ s \in Sessions
    BY <1>1, <2>1 DEF CommGoto, CommMemos
  <2>3. /\ m \in CommMemos /\ m.pc = "supersede" /\ m.rows = commCall[c].rows \ {s}
        /\ m.s = commCall[c].s /\ m.word = commCall[c].word
    BY <1>1, <2>2 DEF CommMemos
  <2>4. commCall[c].s = {} /\ commCall[c].word = "none" /\ session[s] # "none"
    BY <2>1, <2>2 DEF CommInv, HeldExists
  <2> HIDE DEF m
  <2> QED
    BY <1>3, <2>1, <2>2, <2>3, <2>4, CommWrites DEF m
<1>6. CASE InsertSession(c)
  <2>1. PICK s \in Sessions :
          /\ commCall[c].rows = {} /\ session[s] = "none"
          /\ CommGoto(c, "supersede", CommIdle) /\ SetSession(c, s, "CREATED")
          /\ UNCHANGED <<lateSessions, createdTogether>>
    BY <1>6 DEF InsertSession
  <2>2. session[s] \notin Ended
    BY <2>1 DEF Ended
  <2> QED
    BY <1>2, <1>3, <2>1, <2>2, CommWrites
<1> QED
  BY <1>4, <1>5, <1>6 DEF CommStep

LEMMA CommNextKeeps == CommInv /\ [CommNext]_commVars => CommInv'
<1> SUFFICES ASSUME CommInv, [CommNext]_commVars
             PROVE  CommInv'
  OBVIOUS
<1>1. ASSUME UNCHANGED <<session, commCall, proved, endedUnder, reopened, createdTogether>>,
             lateSessions' \subseteq Sessions
      PROVE  CommInv'
  BY <1>1 DEF CommInv, CommTypeOK, HeldExists, ProvisionedWasProved, WritesAreProved,
              ReopenedWasHeld, HoldersOfEnded, OneCreation, AtMostOneActive, ActiveSessions
<1>2. ASSUME NEW s \in Sessions, SessionExpires(s)
      PROVE  CommInv'
  BY <1>1, <1>2 DEF SessionExpires, CommInv, CommTypeOK
<1>3. CASE UNCHANGED commVars
  BY <1>1, <1>3 DEF commVars, CommInv, CommTypeOK
\* A request that is cut short holds nothing any more.
<1>4. ASSUME NEW c \in Callers, CutSession(c)
      PROVE  CommInv'
  <2>1. CommIdle \in CommMemos /\ CommIdle.pc = "idle"
        /\ CommIdle.s = {} /\ CommIdle.rows = {}
    BY DEF CommIdle, CommMemo, CommMemos, SessionStatuses
  <2>2. commCall \in [Callers -> CommMemos]
    BY DEF CommInv, CommTypeOK, CommMemos
  <2>3. /\ commCall' \in [Callers -> CommMemos]
        /\ \A d \in Callers : commCall'[d] \in {commCall[d], CommIdle}
    BY <1>4, <2>1, <2>2 DEF CutSession
  <2>4. UNCHANGED <<session, lateSessions, proved, endedUnder, reopened, createdTogether>>
    BY <1>4 DEF CutSession, SessionsStay
  <2>5. CommTypeOK'
    BY <2>3, <2>4 DEF CommInv, CommTypeOK, CommMemos
  <2>6. HeldExists' /\ WritesAreProved' /\ HoldersOfEnded'
    BY <2>1, <2>3, <2>4 DEF CommInv, HeldExists, WritesAreProved, HoldersOfEnded
  <2>7. ProvisionedWasProved' /\ ReopenedWasHeld'
    BY <2>4 DEF CommInv, ProvisionedWasProved, ReopenedWasHeld
  <2>8. OneCreation' /\ AtMostOneActive'
    BY <2>1, <2>3, <2>4 DEF CommInv, OneCreation, AtMostOneActive, ActiveSessions
  <2> QED
    BY <2>5, <2>6, <2>7, <2>8 DEF CommInv
<1> QED
  BY <1>2, <1>3, <1>4, CommRequests, CommSteps DEF CommNext

LEMMA AtMostOneCounted == CommTypeOK /\ AtMostOneActive => OneActiveSession
<1> SUFFICES ASSUME AtMostOneActive, ~createdTogether, reopened = {}
             PROVE  Cardinality(ActiveSessions) <= 1
  BY DEF OneActiveSession
<1>1. CASE ActiveSessions = {}
  BY <1>1, FS_EmptySet
<1>2. CASE ActiveSessions # {}
  <2>1. PICK s : ActiveSessions = {s}
    BY <1>2 DEF AtMostOneActive
  <2> QED
    BY <2>1, FS_Singleton
<1> QED
  BY <1>1, <1>2

\* Every reachable state of the commissioning sessions is well typed.
THEOREM SessionsAreTyped == CommSpec => []CommTypeOK
  BY CommInit_, CommNextKeeps, PTL DEF CommSpec, CommInv

\* Credentials are accepted only on a session that was authenticated; an end that
\* nobody overlapped is for good; and a device has one active session, unless two
\* creations overlap or a stale write reopens one.
THEOREM SessionKeptAlways == CommSpec => []SessionKept
<1>1. CommInv => SessionKept
  BY AtMostOneCounted DEF CommInv, SessionKept
<1> QED
  BY <1>1, CommInit_, CommNextKeeps, PTL DEF CommSpec

-----------------------------------------------------------------------------
(* The claims of a device                                                  *)

ClaimMemos == [pc : ClaimPhases, home : HomesOrNone, room : RoomsOrNone, named : BOOLEAN]

\* A request for a home names one.
Names(m) ==
    m.pc \in {"evidence", "assign", "take", "insert", "update", "move"} => m.home \in Homes

\* What a request that is alone may rely on when it goes on, with this row, the rooms
\* there are, and whether the session was ever proved.
Relies(m, row, live, proof) ==
    /\ m.pc # "update"
    /\ m.pc \in {"take", "insert", "move"} =>
         m.room = "none" \/ (m.room \in live /\ RoomHome[m.room] = m.home)
    /\ m.pc = "set" => m.home = row.home
    /\ (m.pc = "assign" /\ m.named) => proof \/ row.home # "none"
    /\ m.pc = "take" => row.home = "none"
    /\ (m.pc \in {"take", "insert"} /\ m.named) => proof

AloneRelies ==
    ~claimRaced =>
      /\ \A c, d \in Callers : claimCall[c].pc # "idle" /\ claimCall[d].pc # "idle" => c = d
      /\ \A c \in Callers : Relies(claimCall[c], auth, rooms, shown)

ClaimInv ==
    /\ ClaimTypeOK /\ (evidence = "proved" => shown)
    /\ \A c \in Callers : Names(claimCall[c])
    /\ AloneRelies /\ RoomInHome /\ ClaimedOnEvidence

LEMMA ClaimRowsTyped ==
  /\ NoRow \in [home : HomesOrNone, room : RoomsOrNone] /\ NoRow.home = "none"
  /\ ClaimIdle \in ClaimMemos /\ ClaimIdle.pc = "idle"
  /\ \A m \in ClaimMemos : \A row, live, proof :
       m.pc = "idle" => Relies(m, row, live, proof) /\ Names(m)
<1>1. NoRow \in [home : HomesOrNone, room : RoomsOrNone] /\ NoRow.home = "none"
  BY DEF NoRow, HomesOrNone, RoomsOrNone
<1>2. ClaimIdle \in ClaimMemos /\ ClaimIdle.pc = "idle"
  BY DEF ClaimIdle, ClaimMemo, ClaimMemos, ClaimPhases, HomesOrNone, RoomsOrNone
<1> QED
  BY <1>1, <1>2 DEF Relies, Names, ClaimMemos

LEMMA ClaimInit_ == ClaimInit => ClaimInv
<1> SUFFICES ASSUME ClaimInit
             PROVE  ClaimInv
  OBVIOUS
<1>1. \A c \in Callers : claimCall[c] = ClaimIdle
  BY DEF ClaimInit
<1>2. ClaimTypeOK
  BY ClaimRowsTyped DEF ClaimInit, ClaimTypeOK, ClaimMemos
<1>3. AloneRelies
  BY <1>1, ClaimRowsTyped DEF AloneRelies
<1>4. RoomInHome /\ ClaimedOnEvidence
  BY DEF ClaimInit, NoRow, RoomInHome, ClaimedOnEvidence
<1> QED
  BY <1>1, <1>2, <1>3, <1>4, ClaimRowsTyped DEF ClaimInit, ClaimInv

\* A request has read and goes on to wait; the row stays.
LEMMA ClaimBegins ==
  ASSUME ClaimInv, NEW c \in Callers, NEW m \in ClaimMemos, ClaimBegin(c, m),
         Names(m), ~claimRaced => Relies(m, auth, rooms, shown)
  PROVE  ClaimInv'
<1>1. /\ claimCall' \in [Callers -> ClaimMemos] /\ claimCall'[c] = m
      /\ \A d \in Callers \ {c} : claimCall'[d] = claimCall[d]
  BY DEF ClaimBegin, ClaimInv, ClaimTypeOK, ClaimMemos
<1>2. /\ claimRaced' \in BOOLEAN
      /\ ~claimRaced' => ~claimRaced /\ \A d \in Callers : claimCall[d].pc = "idle"
  BY DEF ClaimBegin, ClaimInv, ClaimTypeOK
<1>3. UNCHANGED <<auth, rooms, evidence, strayRoom, shown, unproven>>
  BY DEF ClaimBegin
<1>4. ClaimTypeOK'
  BY <1>1, <1>2, <1>3 DEF ClaimInv, ClaimTypeOK, ClaimMemos
<1>5. \A d \in Callers : Names(claimCall'[d])
  BY <1>1 DEF ClaimInv
<1>6. ASSUME ~claimRaced'
      PROVE  /\ \A d, e \in Callers :
                  claimCall'[d].pc # "idle" /\ claimCall'[e].pc # "idle" => d = e
             /\ \A d \in Callers : Relies(claimCall'[d], auth, rooms, shown)
  BY <1>1, <1>2, <1>6 DEF ClaimInv, AloneRelies
<1>7. AloneRelies'
  BY <1>3, <1>6 DEF AloneRelies, Relies
<1>8. RoomInHome' /\ ClaimedOnEvidence'
  BY <1>2, <1>3 DEF ClaimInv, RoomInHome, ClaimedOnEvidence
<1> QED
  BY <1>3, <1>4, <1>5, <1>7, <1>8 DEF ClaimInv, Names

LEMMA ClaimRequests ==
  ASSUME ClaimInv, NEW c \in Callers, ClaimRequest(c)
  PROVE  ClaimInv'
<1>1. auth.home \in HomesOrNone /\ auth.room \in RoomsOrNone /\ rooms \subseteq Rooms
  BY DEF ClaimInv, ClaimTypeOK
<1>2. \A p \in ClaimPhases, h \in HomesOrNone, r \in RoomsOrNone, named \in BOOLEAN :
        /\ ClaimMemo(p, h, r, named) \in ClaimMemos /\ ClaimMemo(p, h, r, named).pc = p
        /\ ClaimMemo(p, h, r, named).home = h /\ ClaimMemo(p, h, r, named).room = r
        /\ ClaimMemo(p, h, r, named).named = named
  BY DEF ClaimMemo, ClaimMemos
<1>3. CASE BeginClaim(c)
  <2>1. PICK h \in Homes, r \in RoomsOrNone, named \in BOOLEAN :
          IF auth.home = h
          THEN /\ r \notin {"none", auth.room} /\ ~named
               /\ ClaimBegin(c, ClaimMemo("set", h, r, FALSE))
          ELSE ClaimBegin(c, ClaimMemo(IF named /\ auth.home = "none" THEN "evidence"
                                       ELSE "assign", h, r, named))
    BY <1>3 DEF BeginClaim
  <2>2. CASE auth.home = h
    <3> DEFINE m == ClaimMemo("set", h, r, FALSE)
    <3>1. m \in ClaimMemos /\ m.pc = "set" /\ m.home = auth.home
      BY <2>2 DEF ClaimMemo, ClaimMemos, ClaimPhases, HomesOrNone
    <3>2. Names(m) /\ Relies(m, auth, rooms, shown)
      BY <3>1 DEF Names, Relies
    <3> QED
      BY <2>1, <2>2, <3>1, <3>2, ClaimBegins
  <2>3. CASE auth.home # h
    <3> DEFINE p == IF named /\ auth.home = "none" THEN "evidence" ELSE "assign"
               m == ClaimMemo(p, h, r, named)
    <3>1. m \in ClaimMemos /\ m.pc = p /\ m.home = h /\ m.named = named
      BY DEF ClaimMemo, ClaimMemos, ClaimPhases, HomesOrNone
    <3>2. Names(m) /\ Relies(m, auth, rooms, shown)
      BY <3>1 DEF Names, Relies
    <3> QED
      BY <2>1, <2>3, <3>1, <3>2, ClaimBegins
  <2> QED
    BY <2>2, <2>3
<1>4. CASE BeginMoveRoom(c)
  <2>1. PICK r \in RoomsOrNone : ClaimBegin(c, ClaimMemo("set", auth.home, r, FALSE))
    BY <1>4 DEF BeginMoveRoom
  <2> DEFINE m == ClaimMemo("set", auth.home, r, FALSE)
  <2>2. m \in ClaimMemos /\ m.pc = "set" /\ m.home = auth.home
    BY <1>1 DEF ClaimMemo, ClaimMemos, ClaimPhases
  <2>3. Names(m) /\ Relies(m, auth, rooms, shown)
    BY <2>2 DEF Names, Relies
  <2> QED
    BY <2>1, <2>2, <2>3, ClaimBegins
<1>5. CASE BeginMoveHome(c)
  <2>1. PICK h \in Homes, r \in RoomsOrNone :
          RoomFits(r, h) /\ ClaimBegin(c, ClaimMemo("move", h, r, FALSE))
    BY <1>5 DEF BeginMoveHome
  <2> DEFINE m == ClaimMemo("move", h, r, FALSE)
  <2>2. m \in ClaimMemos /\ m.pc = "move" /\ m.home = h /\ m.room = r
    BY DEF ClaimMemo, ClaimMemos, ClaimPhases, HomesOrNone
  <2>3. Names(m) /\ Relies(m, auth, rooms, shown)
    BY <2>1, <2>2 DEF Names, Relies, RoomFits
  <2> QED
    BY <2>1, <2>2, <2>3, ClaimBegins
<1>6. CASE BeginRemoveAuth(c)
  <2> DEFINE m == ClaimMemo("remove", auth.home, "none", FALSE)
  <2>1. m \in ClaimMemos /\ m.pc = "remove"
    BY <1>1 DEF ClaimMemo, ClaimMemos, ClaimPhases, RoomsOrNone
  <2>2. Names(m) /\ Relies(m, auth, rooms, shown)
    BY <2>1 DEF Names, Relies
  <2> QED
    BY <1>6, <2>1, <2>2, ClaimBegins DEF BeginRemoveAuth
<1>7. CASE BeginDeleteRoom(c)
  <2>1. PICK r \in rooms :
          ClaimBegin(c, ClaimMemo(IF auth.room = r /\ auth.home = RoomHome[r] THEN "unroom"
                                  ELSE "droproom", RoomHome[r], r, FALSE))
    BY <1>7 DEF BeginDeleteRoom
  <2> DEFINE p == IF auth.room = r /\ auth.home = RoomHome[r] THEN "unroom" ELSE "droproom"
             m == ClaimMemo(p, RoomHome[r], r, FALSE)
  <2>2. r \in Rooms /\ RoomHome[r] \in Homes
    BY <1>1
  <2>3. m \in ClaimMemos /\ m.pc = p
    BY <2>2 DEF ClaimMemo, ClaimMemos, ClaimPhases, HomesOrNone, RoomsOrNone
  <2>4. Names(m) /\ Relies(m, auth, rooms, shown)
    BY <2>3 DEF Names, Relies
  <2> QED
    BY <2>1, <2>3, <2>4, ClaimBegins
<1> QED
  BY <1>3, <1>4, <1>5, <1>6, <1>7 DEF ClaimRequest

\* A request goes on.  When it is alone, it alone relies on the row.
LEMMA ClaimResumes ==
  ASSUME ClaimInv, NEW c \in Callers, NEW p, p # "idle", NEW m \in ClaimMemos,
         ClaimResume(c, p, m),
         auth' \in [home : HomesOrNone, room : RoomsOrNone],
         auth'.home = "none" => auth' = NoRow,
         rooms' \subseteq Rooms, strayRoom' \in BOOLEAN, unproven' \in BOOLEAN,
         Names(m), (~claimRaced /\ m.pc # "idle") => Relies(m, auth', rooms', shown),
         (~claimRaced /\ ~strayRoom') => auth'.room = "none" \/ RoomHome[auth'.room] = auth'.home,
         unproven' => claimRaced
  PROVE  ClaimInv'
<1>1. /\ claimCall' \in [Callers -> ClaimMemos] /\ claimCall'[c] = m /\ claimCall[c].pc = p
      /\ \A d \in Callers \ {c} : claimCall'[d] = claimCall[d]
  BY DEF ClaimResume, ClaimInv, ClaimTypeOK, ClaimMemos
<1>2. UNCHANGED <<claimRaced, evidence, shown>>
  BY DEF ClaimResume
<1>3. ClaimTypeOK'
  BY <1>1, <1>2 DEF ClaimInv, ClaimTypeOK, ClaimMemos
<1>4. ASSUME ~claimRaced
      PROVE  /\ \A d, e \in Callers :
                  claimCall'[d].pc # "idle" /\ claimCall'[e].pc # "idle" => d = e
             /\ \A d \in Callers : Relies(claimCall'[d], auth', rooms', shown)
  <2>1. \A d \in Callers \ {c} : claimCall'[d].pc = "idle"
    BY <1>1, <1>4 DEF ClaimInv, AloneRelies
  <2>2. \A d \in Callers : claimCall'[d] \in ClaimMemos
    BY <1>1
  <2> QED
    BY <1>1, <1>4, <2>1, <2>2, ClaimRowsTyped
<1>6. AloneRelies'
  BY <1>2, <1>4 DEF AloneRelies, Relies
<1>7. \A d \in Callers : Names(claimCall'[d])
  BY <1>1 DEF ClaimInv
<1>5. RoomInHome' /\ ClaimedOnEvidence'
  BY <1>2 DEF RoomInHome, ClaimedOnEvidence
<1> QED
  BY <1>2, <1>3, <1>5, <1>6, <1>7 DEF ClaimInv, Names

LEMMA ClaimSteps ==
  ASSUME ClaimInv, NEW c \in Callers, ClaimStep(c)
  PROVE  ClaimInv'
<1> DEFINE m == claimCall[c]
<1>1. /\ m \in ClaimMemos /\ auth \in [home : HomesOrNone, room : RoomsOrNone]
      /\ (auth.home = "none" => auth = NoRow) /\ rooms \subseteq Rooms
      /\ strayRoom \in BOOLEAN /\ unproven \in BOOLEAN
  BY DEF ClaimInv, ClaimTypeOK, ClaimMemos
<1>2. Names(m) /\ (~claimRaced => Relies(m, auth, rooms, shown))
  BY DEF ClaimInv, AloneRelies
<1>3. /\ evidence = "proved" => shown
      /\ unproven => claimRaced
      /\ (~claimRaced /\ ~strayRoom) => auth.room = "none" \/ RoomHome[auth.room] = auth.home
  BY DEF ClaimInv, ClaimedOnEvidence, RoomInHome
<1>4. /\ ClaimIdle \in ClaimMemos /\ ClaimIdle.pc = "idle"
      /\ NoRow \in [home : HomesOrNone, room : RoomsOrNone]
      /\ NoRow.home = "none" /\ NoRow.room = "none"
  BY ClaimRowsTyped DEF NoRow
<1>5. \A p \in ClaimPhases :
        LET n == [m EXCEPT !.pc = p]
        IN  /\ n \in ClaimMemos /\ n.pc = p /\ n.home = m.home /\ n.room = m.room
            /\ n.named = m.named
  BY <1>1 DEF ClaimMemos
<1> HIDE DEF m
<1>6. ASSUME NEW p, p # "idle", NEW n \in ClaimMemos, ClaimResume(c, p, n),
             UNCHANGED <<auth, rooms, strayRoom, unproven>>,
             Names(n), (~claimRaced /\ n.pc # "idle") => Relies(n, auth, rooms, shown)
      PROVE  ClaimInv'
  BY <1>1, <1>3, <1>6, ClaimResumes
<1>7. ASSUME NEW p, p # "idle", ClaimResume(c, p, ClaimIdle),
             auth' \in [home : HomesOrNone, room : RoomsOrNone],
             auth'.home = "none" => auth' = NoRow,
             rooms' \subseteq Rooms, strayRoom' \in BOOLEAN, unproven' \in BOOLEAN,
             (~claimRaced /\ ~strayRoom') =>
               auth'.room = "none" \/ RoomHome[auth'.room] = auth'.home,
             unproven' => claimRaced
      PROVE  ClaimInv'
  BY <1>4, <1>7, ClaimRowsTyped, ClaimResumes
<1>8. CASE CheckEvidence(c)
  <2> DEFINE n == IF evidence = "proved" THEN [m EXCEPT !.pc = "assign"] ELSE ClaimIdle
  <2>1. n \in ClaimMemos
    BY <1>4, <1>5 DEF ClaimPhases
  <2>2. n.pc # "idle" => n.pc = "assign" /\ shown
    BY <1>3, <1>4, <1>5 DEF ClaimPhases
  <2>3. Names(n) /\ (n.pc # "idle" => Relies(n, auth, rooms, shown))
    <3>1. m.pc = "evidence" /\ (n.pc # "idle" => n.home = m.home)
      BY <1>4, <1>5, <1>8 DEF CheckEvidence, ClaimResume, m, ClaimPhases
    <3> QED
      BY <1>2, <2>1, <2>2, <3>1, ClaimRowsTyped DEF Relies, Names
  <2>4. ClaimResume(c, "evidence", n) /\ UNCHANGED <<auth, rooms, strayRoom, unproven>>
    BY <1>8 DEF CheckEvidence, m
  <2> HIDE DEF n
  <2> QED
    BY <1>6, <2>1, <2>3, <2>4
<1>9. CASE Assign(c)
  <2> DEFINE n == IF auth.home = "none" /\ RoomFits(m.room, m.home)
                  THEN [m EXCEPT !.pc = "take"] ELSE ClaimIdle
  <2>1. n \in ClaimMemos
    BY <1>4, <1>5 DEF ClaimPhases
  <2>2. ClaimResume(c, "assign", n) /\ UNCHANGED <<auth, rooms, strayRoom, unproven>>
    BY <1>9 DEF Assign, m
  <2>3. ASSUME n.pc # "idle"
        PROVE  Names(n) /\ (~claimRaced => Relies(n, auth, rooms, shown))
    <3>1. /\ auth.home = "none" /\ RoomFits(m.room, m.home) /\ n.pc = "take"
          /\ n.home = m.home /\ n.room = m.room /\ n.named = m.named
      BY <1>4, <1>5, <2>3 DEF ClaimPhases
    <3>2. m.pc = "assign" /\ m.home \in Homes
      BY <1>2, <2>2 DEF ClaimResume, m, Names
    <3>3. ~claimRaced => (m.named => shown)
      BY <1>2, <3>1, <3>2 DEF Relies
    <3> QED
      BY <3>1, <3>2, <3>3 DEF Relies, Names, RoomFits
  <2> HIDE DEF n
  <2> QED
    BY <1>6, <2>1, <2>2, <2>3, ClaimRowsTyped
<1>10. CASE Take(c)
  <2> DEFINE n == IF ~RoomFits(m.room, m.home) \/ auth.home = m.home THEN ClaimIdle
                  ELSE IF auth.home = "none" THEN [m EXCEPT !.pc = "insert"]
                  ELSE [m EXCEPT !.pc = "update",
                                 !.room = IF m.room = "none" THEN auth.room ELSE m.room]
  <2>1. ClaimResume(c, "take", n) /\ UNCHANGED <<auth, rooms, strayRoom, unproven>>
    BY <1>10 DEF Take, m
  <2>2. n \in ClaimMemos
    <3>1. ClaimIdle \in ClaimMemos /\ [m EXCEPT !.pc = "insert"] \in ClaimMemos
      BY <1>4, <1>5 DEF ClaimPhases
    <3>2. [m EXCEPT !.pc = "update",
                    !.room = IF m.room = "none" THEN auth.room ELSE m.room] \in ClaimMemos
      BY <1>1 DEF ClaimMemos, ClaimPhases
    <3> QED
      BY <3>1, <3>2
  <2>3. m.pc = "take" /\ m.home \in Homes
    BY <1>2, <2>1 DEF ClaimResume, m, Names
  <2>4. n.pc # "idle" => RoomFits(m.room, m.home) /\ n.home = m.home
    <3>1. CASE ~RoomFits(m.room, m.home)
      BY <1>4, <3>1
    <3>2. CASE RoomFits(m.room, m.home)
      BY <1>1, <1>4, <3>2 DEF ClaimMemos
    <3> QED
      BY <3>1, <3>2
  <2>5. Names(n)
    BY <2>2, <2>3, <2>4, ClaimRowsTyped DEF Names
  <2>6. ASSUME ~claimRaced, n.pc # "idle"
        PROVE  Relies(n, auth, rooms, shown)
    <3>1. auth.home = "none" /\ RoomFits(m.room, m.home) /\ (m.named => shown)
      BY <1>2, <2>3, <2>4, <2>6 DEF Relies
    <3>2. n = [m EXCEPT !.pc = "insert"]
      BY <2>3, <3>1
    <3> HIDE DEF n
    <3>3. /\ n.pc = "insert" /\ n.home = m.home /\ n.room = m.room /\ n.named = m.named
      BY <1>1, <3>2 DEF ClaimMemos
    <3> QED
      BY <3>1, <3>3 DEF Relies, RoomFits
  <2> HIDE DEF n
  <2> QED
    BY <1>6, <2>1, <2>2, <2>5, <2>6
<1>11. CASE TakeInsert(c)
  <2> DEFINE ok == auth.home = "none" /\ m.room \in rooms \cup {"none"}
  <2>1. /\ ClaimResume(c, "insert", ClaimIdle)
        /\ auth' = IF ok THEN [home |-> m.home, room |-> m.room] ELSE auth
        /\ unproven' = (unproven \/ (ok /\ m.named /\ ~shown))
        /\ UNCHANGED <<rooms, strayRoom>> /\ m.pc = "insert"
    BY <1>11 DEF TakeInsert, ClaimResume, m
  <2>2. m.home \in Homes /\ m.room \in RoomsOrNone
    BY <1>1, <1>2, <2>1 DEF ClaimMemos, Names
  <2>3. ~claimRaced => RoomFits(m.room, m.home) /\ (m.named => shown)
    BY <1>2, <2>1 DEF Relies, RoomFits
  <2>4. [home |-> m.home, room |-> m.room] \in [home : HomesOrNone, room : RoomsOrNone]
    BY <2>2 DEF HomesOrNone
  <2>5. CASE ok
    <3>1. /\ auth' \in [home : HomesOrNone, room : RoomsOrNone]
          /\ auth'.home = m.home /\ auth'.room = m.room
      BY <2>1, <2>4, <2>5
    <3>2. ~claimRaced => auth'.room = "none" \/ RoomHome[auth'.room] = auth'.home
      BY <2>3, <3>1 DEF RoomFits
    <3>3. unproven' \in BOOLEAN /\ (unproven' => claimRaced)
      BY <1>1, <1>3, <2>1, <2>3
    <3> QED
      BY <1>1, <1>7, <2>1, <2>2, <3>1, <3>2, <3>3
  <2>6. CASE ~ok
    <3>1. auth' = auth /\ unproven' = unproven
      BY <1>1, <2>1, <2>6
    <3> QED
      BY <1>1, <1>3, <1>7, <2>1, <3>1
  <2> QED
    BY <2>5, <2>6
<1>12. CASE TakeUpdate(c)
  <2>1. /\ ClaimResume(c, "update", ClaimIdle) /\ m.pc = "update"
        /\ WriteAuth(IF auth.home = "none" THEN NoRow ELSE [home |-> m.home, room |-> m.room])
        /\ UNCHANGED <<rooms, strayRoom, unproven>>
    BY <1>12 DEF TakeUpdate, ClaimResume, m
  <2>2. m.home \in Homes /\ m.home \in HomesOrNone /\ m.room \in RoomsOrNone
    BY <1>1, <1>2, <2>1 DEF ClaimMemos, Names
  <2>3. claimRaced
    BY <1>2, <2>1 DEF Relies
  <2> QED
    BY <1>1, <1>3, <1>4, <1>7, <2>1, <2>2, <2>3 DEF WriteAuth
<1>13. CASE SetRoom(c)
  <2>1. /\ ClaimResume(c, "set", ClaimIdle) /\ m.pc = "set"
        /\ WriteAuth(IF auth.home = "none" THEN NoRow ELSE [auth EXCEPT !.room = m.room])
        /\ strayRoom' = (strayRoom \/ (m.room # "none" /\ RoomHome[m.room] # m.home))
        /\ UNCHANGED <<rooms, unproven>>
    BY <1>13 DEF SetRoom, ClaimResume, m
  <2>2. m.room \in RoomsOrNone
    BY <1>1 DEF ClaimMemos
  <2>3. ~claimRaced => m.home = auth.home
    BY <1>2, <2>1 DEF Relies
  <2>4. /\ [auth EXCEPT !.room = m.room] \in [home : HomesOrNone, room : RoomsOrNone]
        /\ [auth EXCEPT !.room = m.room].home = auth.home
        /\ [auth EXCEPT !.room = m.room].room = m.room
    BY <1>1, <2>2
  <2> QED
    BY <1>1, <1>3, <1>4, <1>7, <2>1, <2>3, <2>4 DEF WriteAuth
<1>14. CASE MoveHome(c)
  <2>1. /\ ClaimResume(c, "move", ClaimIdle) /\ m.pc = "move"
        /\ WriteAuth(IF auth.home = "none" THEN NoRow ELSE [home |-> m.home, room |-> m.room])
        /\ UNCHANGED <<rooms, strayRoom, unproven>>
    BY <1>14 DEF MoveHome, ClaimResume, m
  <2>2. m.home \in Homes /\ m.home \in HomesOrNone /\ m.room \in RoomsOrNone
    BY <1>1, <1>2, <2>1 DEF ClaimMemos, Names
  <2>3. ~claimRaced => RoomFits(m.room, m.home)
    BY <1>2, <2>1 DEF Relies, RoomFits
  <2> QED
    BY <1>1, <1>3, <1>4, <1>7, <2>1, <2>2, <2>3 DEF WriteAuth, RoomFits
<1>15. CASE RemoveAuth(c)
  BY <1>1, <1>3, <1>4, <1>7, <1>15 DEF RemoveAuth
<1>16. CASE Unroom(c)
  <2> DEFINE n == IF auth.home = "none" THEN ClaimIdle ELSE [m EXCEPT !.pc = "droproom"]
  <2>1. /\ ClaimResume(c, "unroom", n) /\ auth' = [auth EXCEPT !.room = "none"]
        /\ UNCHANGED <<rooms, strayRoom, unproven>>
    BY <1>16 DEF Unroom, m
  <2>2. n \in ClaimMemos /\ (n.pc # "idle" => n.pc = "droproom")
    BY <1>4, <1>5 DEF ClaimPhases
  <2>3. Names(n) /\ (n.pc # "idle" => Relies(n, auth', rooms', shown))
    BY <2>2 DEF Relies, Names, ClaimMemos
  <2>4. /\ auth' \in [home : HomesOrNone, room : RoomsOrNone]
        /\ auth'.room = "none" /\ (auth'.home = "none" => auth' = NoRow)
    BY <1>1, <1>4, <2>1 DEF RoomsOrNone, NoRow
  <2> HIDE DEF n
  <2> QED
    BY <1>1, <1>3, <2>1, <2>2, <2>3, <2>4, ClaimResumes
<1>17. CASE DropRoom(c)
  <2>1. /\ ClaimResume(c, "droproom", ClaimIdle)
        /\ rooms' \subseteq Rooms /\ UNCHANGED <<strayRoom, unproven>>
        /\ auth' = [auth EXCEPT !.room = IF @ = m.room THEN "none" ELSE @]
    BY <1>1, <1>17 DEF DropRoom, m
  <2>2. /\ auth' \in [home : HomesOrNone, room : RoomsOrNone]
        /\ auth'.home = auth.home /\ auth'.room \in {auth.room, "none"}
        /\ auth'.home = "none" => auth' = NoRow
    BY <1>1, <1>4, <2>1 DEF RoomsOrNone, NoRow
  <2> QED
    BY <1>3, <1>1, <1>7, <2>1, <2>2
<1> QED
  BY <1>8, <1>9, <1>10, <1>11, <1>12, <1>13, <1>14, <1>15, <1>16, <1>17 DEF ClaimStep

LEMMA ClaimNextKeeps == ClaimInv /\ [ClaimNext]_claimVars => ClaimInv'
<1> SUFFICES ASSUME ClaimInv, [ClaimNext]_claimVars
             PROVE  ClaimInv'
  OBVIOUS
<1>1. ASSUME UNCHANGED <<auth, rooms, claimCall, claimRaced, strayRoom, unproven>>,
             shown => shown', shown' \in BOOLEAN, evidence' \in {"open", "proved", "over"},
             evidence' = "proved" => shown'
      PROVE  ClaimInv'
  <2>1. ClaimTypeOK'
    BY <1>1 DEF ClaimInv, ClaimTypeOK
  <2>2. \A c \in Callers : Relies(claimCall[c], auth, rooms, shown) =>
                             Relies(claimCall[c], auth, rooms, shown)'
    BY <1>1 DEF Relies
  <2>3. AloneRelies'
    BY <1>1, <2>2 DEF ClaimInv, AloneRelies
  <2>4. RoomInHome' /\ ClaimedOnEvidence'
    BY <1>1 DEF ClaimInv, RoomInHome, ClaimedOnEvidence
  <2> QED
    BY <1>1, <2>1, <2>3, <2>4 DEF ClaimInv, Names
<1>2. CASE EvidenceMoves
  BY <1>1, <1>2 DEF EvidenceMoves, ClaimInv, ClaimTypeOK
<1>3. CASE UNCHANGED claimVars
  BY <1>1, <1>3 DEF claimVars, ClaimInv, ClaimTypeOK
\* A request that is cut short remembers nothing any more.
<1>4. ASSUME NEW c \in Callers, CutClaim(c)
      PROVE  ClaimInv'
  <2>1. ClaimIdle \in ClaimMemos /\ ClaimIdle.pc = "idle" /\ Names(ClaimIdle)
    BY ClaimRowsTyped
  <2>2. ClaimResume(c, claimCall[c].pc, ClaimIdle) /\ claimCall[c].pc # "idle"
        /\ UNCHANGED <<auth, rooms, strayRoom, unproven>>
    BY <1>4 DEF CutClaim
  <2>3. /\ auth \in [home : HomesOrNone, room : RoomsOrNone]
        /\ (auth.home = "none" => auth = NoRow) /\ rooms \subseteq Rooms
        /\ strayRoom \in BOOLEAN /\ unproven \in BOOLEAN
    BY DEF ClaimInv, ClaimTypeOK
  <2>4. /\ (~claimRaced /\ ~strayRoom) =>
             auth.room = "none" \/ RoomHome[auth.room] = auth.home
        /\ unproven => claimRaced
    BY DEF ClaimInv, RoomInHome, ClaimedOnEvidence
  <2> QED
    BY <2>1, <2>2, <2>3, <2>4, ClaimResumes
<1> QED
  BY <1>2, <1>3, <1>4, ClaimRequests, ClaimSteps DEF ClaimNext

\* Every reachable state of the device's row and of the claims on it is well typed.
THEOREM ClaimsAreTyped == ClaimSpec => []ClaimTypeOK
  BY ClaimInit_, ClaimNextKeeps, PTL DEF ClaimSpec, ClaimInv

\* Without overlapping requests a device is in a room of its home (unless its home has
\* claimed it again into another's), and taken on a session only once that was proved.
THEOREM DevicePlacedAlways == ClaimSpec => []DevicePlaced
<1>1. ClaimInv => DevicePlaced
  BY DEF ClaimInv, DevicePlaced
<1> QED
  BY <1>1, ClaimInit_, ClaimNextKeeps, PTL DEF ClaimSpec

\* Without overlapping requests a device changes home only by a move or after a removal.
THEOREM NoTakeoverAlways == ClaimSpec => NoTakeover
<1> DEFINE Moved == \E c \in Callers : claimCall[c].pc = "move" /\ claimCall'[c].pc = "idle"
           Taken == ~claimRaced' /\ auth.home # "none" /\ auth'.home \notin {auth.home, "none"}
<1>1. ASSUME ClaimInv, ClaimNext, Taken
      PROVE  Moved
  <2>1. /\ auth \in [home : HomesOrNone, room : RoomsOrNone] /\ NoRow.home = "none"
        /\ claimCall \in [Callers -> ClaimMemos] /\ ClaimIdle.pc = "idle"
    BY <1>1, ClaimRowsTyped DEF ClaimInv, ClaimTypeOK, ClaimMemos
  <2>2. auth' # auth
    BY <1>1
  <2>3. PICK c \in Callers : ClaimStep(c)
    BY <1>1, <2>2 DEF ClaimNext, EvidenceMoves, ClaimRequest, BeginClaim, BeginMoveRoom,
           BeginMoveHome, BeginRemoveAuth, BeginDeleteRoom, ClaimBegin, CutClaim
  <2>4. ~CheckEvidence(c) /\ ~Assign(c) /\ ~Take(c)
    BY <2>2 DEF CheckEvidence, Assign, Take
  <2>5. ~TakeInsert(c) /\ ~RemoveAuth(c)
    BY <1>1, <2>1 DEF TakeInsert, RemoveAuth
  <2>6. ~Unroom(c) /\ ~DropRoom(c)
    BY <1>1, <2>1 DEF Unroom, DropRoom
  <2>7. ~SetRoom(c)
    BY <1>1, <2>1 DEF SetRoom, WriteAuth
  <2>8. ~TakeUpdate(c)
    <3>1. SUFFICES ASSUME ClaimResume(c, "update", ClaimIdle)
                   PROVE  FALSE
      BY DEF TakeUpdate
    <3>2. ~claimRaced /\ claimCall[c].pc = "update"
      BY <1>1, <3>1 DEF ClaimResume
    <3> QED
      BY <1>1, <3>2 DEF ClaimInv, AloneRelies, Relies
  <2>9. MoveHome(c)
    BY <2>3, <2>4, <2>5, <2>6, <2>7, <2>8 DEF ClaimStep
  <2> QED
    BY <2>1, <2>9 DEF MoveHome, ClaimResume
<1>2. ClaimInv /\ [ClaimNext]_claimVars => [Taken => Moved]_claimVars
  BY <1>1
<1> QED
  BY <1>2, ClaimInit_, ClaimNextKeeps, PTL DEF ClaimSpec, NoTakeover

-----------------------------------------------------------------------------
(* DeviceTrust                                                             *)

TrustMemos == [pc : TrustPhases, to : TrustStates \cup {"none"}, knew : BOOLEAN, rec : Nat,
               rest : SUBSET Nat]

\* A request that is to write over a revocation it has not seen is noted as such.
BlindIsNoted ==
  (trust = "REVOKED" /\ \E c \in Callers : IsBlind(trustCall[c])) => revokedUnder

\* One rotation is begun at a time, when none is pending, and its number is free.
OneIsBegun ==
  ~begunTogether =>
    /\ \A c, d \in Callers : Rotating(trustCall[c]) /\ Rotating(trustCall[d]) => c = d
    /\ \A c \in Callers : Rotating(trustCall[c]) => Having("ROTATION_PENDING") = {}
    /\ \A c \in Callers : trustCall[c].pc = "create" =>
         \A r \in LedgerRows : ledger[r].gen < trustCall[c].rec

\* The generations are 1 .. k, so that k is the highest; the one taken is one more at most.
Generations == {ledger[r].gen : r \in LedgerRows}
CountedTo(k) ==
  /\ Generations = 1 .. k
  /\ \A c \in Callers : trustCall[c].pc = "create" => trustCall[c].rec \in 1 .. (k + 1)
GenerationsCount == \E k \in Nat : CountedTo(k)

\* One confirmation is under way at a time, and it has listed what is confirmed.
OneIsEnding ==
  ~endedTogether =>
    /\ \A c, d \in Callers : Confirming(trustCall[c]) /\ Confirming(trustCall[d]) => c = d
    /\ \A c \in Callers : trustCall[c].pc = "rotate" =>
         Having("CONFIRMED") \subseteq trustCall[c].rest \cup {trustCall[c].rec}

\* A revoked record that a confirmation is to write was revoked under it.
HeldOpen ==
  \A c \in Callers : \A r \in LedgerRows :
    /\ ledger[r].status = "REVOKED"
    /\ \/ Confirming(trustCall[c]) /\ r = trustCall[c].rec
       \/ trustCall[c].pc = "rotate" /\ r \in trustCall[c].rest
    => r \in revokedOpen

TrustInv ==
  /\ TrustTypeOK /\ BlindIsNoted /\ OneIsBegun /\ GenerationsCount /\ OneIsEnding /\ HeldOpen
  /\ TrustKept

\* The next generation is one above the highest.
LEMMA NextGenerationIs ==
  ASSUME NEW k \in Nat, Generations = 1 .. k
  PROVE  NextGeneration = k + 1
<1> DEFINE S == {0} \cup Generations
<1>1. k \in S /\ \A s \in S : k >= s
  OBVIOUS
<1>2. Max(S) = k
  <2>1. S \subseteq Nat
    OBVIOUS
  <2>2. Max(S) \in S /\ \A s \in S : Max(S) >= s
    BY <1>1 DEF Max
  <2>3. Max(S) >= k /\ k >= Max(S) /\ Max(S) \in Nat
    BY <1>1, <2>1, <2>2
  <2> QED
    BY <2>3
<1>3. NextGeneration = Max(S) + 1
  BY DEF NextGeneration, Generations
<1> QED
  BY <1>2, <1>3

LEMMA ElementIn == \A S : \A q \in Seq(S) : \A i \in 1 .. Len(q) : q[i] \in S
  OBVIOUS

LEMMA TrustMemosFit ==
  /\ TrustIdle \in TrustMemos /\ TrustIdle.pc = "idle" /\ TrustIdle.rest = {}
  /\ TrustTypeOK => trustCall \in [Callers -> TrustMemos]
  BY DEF TrustIdle, TrustMemo, TrustMemos, TrustPhases, TrustTypeOK

LEMMA TrustInit_ == TrustInit => TrustInv
<1> SUFFICES ASSUME TrustInit
             PROVE  TrustInv
  OBVIOUS
<1>1. /\ ledger = <<>> /\ Len(ledger) = 0 /\ LedgerRows = {} /\ trust = "none"
      /\ \A c \in Callers : trustCall[c] = TrustIdle
  BY DEF TrustInit, LedgerRows
<1>2. TrustIdle \in TrustMemos /\ TrustIdle.pc = "idle" /\ TrustIdle.rest = {}
  BY TrustMemosFit
<1>3. TrustTypeOK
  <2>1. trustCall \in [Callers -> TrustMemos]
    BY <1>2 DEF TrustInit
  <2>2. \A c \in Callers : /\ trustCall[c].rest \subseteq LedgerRows
                          /\ trustCall[c].pc \notin {"others", "rotate"}
    BY <1>1, <1>2
  <2>3. ledger \in Seq([status : RotationStates, gen : Nat])
    BY <1>1
  <2> QED
    BY <1>1, <2>1, <2>2, <2>3 DEF TrustInit, TrustTypeOK, TrustMemos
<1>4. BlindIsNoted /\ OneIsBegun /\ OneIsEnding /\ HeldOpen
  BY <1>1, <1>2 DEF BlindIsNoted, OneIsBegun, OneIsEnding, HeldOpen, Rotating, Confirming
<1>5. GenerationsCount
  <2>1. Generations = 1 .. 0
    BY <1>1 DEF Generations
  <2>2. CountedTo(0)
    BY <1>1, <1>2, <2>1 DEF CountedTo
  <2> QED
    BY <2>2 DEF GenerationsCount
<1>6. TrustKept
  BY <1>1 DEF TrustInit, TrustKept, RevokedStays, OnePending, OneConfirmed, RevokedRecordStays,
              Having
<1> QED
  BY <1>3, <1>4, <1>5, <1>6 DEF TrustInv

\* A request goes on to m; no row changes.
LEMMA TrustReads ==
  ASSUME TrustInv, NEW c \in Callers, NEW p, NEW m \in TrustMemos, TrustGoes(c, p, m),
         UNCHANGED <<trust, ledger, revokedUnder, unrevoked, revokedOpen, revived>>,
         begunTogether' \in BOOLEAN, begunTogether => begunTogether',
         endedTogether' \in BOOLEAN, endedTogether => endedTogether',
         m.rest \subseteq LedgerRows,
         Confirming(m) => m.rec \in LedgerRows,
         IsBlind(m) => trust # "REVOKED" \/ IsBlind(trustCall[c]),
         Rotating(m) /\ ~begunTogether' =>
           /\ Having("ROTATION_PENDING") = {}
           /\ \A d \in Callers \ {c} : ~Rotating(trustCall[d]),
         m.pc = "create" => m.rec = NextGeneration,
         Confirming(m) /\ ~endedTogether' => \A d \in Callers \ {c} : ~Confirming(trustCall[d]),
         m.pc = "rotate" => Having("CONFIRMED") \subseteq m.rest \cup {m.rec},
         \A r \in LedgerRows :
           /\ ledger[r].status = "REVOKED"
           /\ (Confirming(m) /\ r = m.rec) \/ (m.pc = "rotate" /\ r \in m.rest)
           => r \in revokedOpen
  PROVE  TrustInv'
<1>1. /\ trustCall' \in [Callers -> TrustMemos] /\ stored' = stored
      /\ trustCall'[c] = m /\ \A d \in Callers \ {c} : trustCall'[d] = trustCall[d]
  BY TrustMemosFit DEF TrustInv, TrustGoes
<1>2. LedgerRows' = LedgerRows /\ Generations' = Generations
      /\ \A x \in RotationStates : Having(x)' = Having(x)
  BY DEF LedgerRows, Generations, Having
<1>3. TrustTypeOK'
  BY <1>1, <1>2 DEF TrustInv, TrustTypeOK, TrustMemos, Confirming
<1>4. BlindIsNoted'
  BY <1>1 DEF TrustInv, BlindIsNoted
<1>5. GenerationsCount'
  <2>1. PICK k \in Nat : CountedTo(k)
    BY DEF TrustInv, GenerationsCount
  <2>2. m.pc = "create" => m.rec = k + 1
    BY <2>1, NextGenerationIs DEF CountedTo
  <2>3. \A d \in Callers : trustCall'[d].pc = "create" => trustCall'[d].rec \in 1 .. (k + 1)
    BY <1>1, <2>1, <2>2 DEF CountedTo
  <2>4. CountedTo(k)'
    BY <1>2, <2>1, <2>3 DEF CountedTo
  <2> QED
    BY <2>4 DEF GenerationsCount
<1>6. OneIsBegun'
  <2>1. m.pc = "create" => \A r \in LedgerRows : ledger[r].gen < m.rec
    <3>1. PICK k \in Nat : CountedTo(k)
      BY DEF TrustInv, GenerationsCount
    <3>2. \A r \in LedgerRows : ledger[r].gen \in 1 .. k
      BY <3>1 DEF CountedTo, Generations
    <3> QED
      BY <3>1, <3>2, NextGenerationIs DEF CountedTo
  <2>2. "ROTATION_PENDING" \in RotationStates
    BY DEF RotationStates
  <2> QED
    BY <1>1, <1>2, <2>1, <2>2 DEF TrustInv, OneIsBegun, Rotating
<1>7. OneIsEnding'
  <2>1. "CONFIRMED" \in RotationStates
    BY DEF RotationStates
  <2> QED
    BY <1>1, <1>2, <2>1 DEF TrustInv, OneIsEnding, Confirming
<1>8. HeldOpen'
  BY <1>1, <1>2 DEF TrustInv, HeldOpen, Confirming
<1>9. TrustKept'
  BY <1>2 DEF TrustInv, TrustKept, RevokedStays, OnePending, OneConfirmed, RevokedRecordStays,
              RotationStates
<1> QED
  BY <1>3, <1>4, <1>5, <1>6, <1>7, <1>8, <1>9 DEF TrustInv

LEMMA TrustWrites ==
  ASSUME TrustInv, NEW c \in Callers, WriteTrust(c)
  PROVE  TrustInv'
<1> DEFINE old == trustCall[c]
           ok == old.pc = "update" \/ trust = "none"
           m == IF ok /\ old.to = "REVOKED" /\ ~stored THEN [old EXCEPT !.pc = "list"]
                ELSE TrustIdle
<1>1. old \in TrustMemos /\ m \in TrustMemos /\ old.pc \in {"update", "insert"}
      /\ m.pc \in {"list", "idle"} /\ m.rest \subseteq LedgerRows
  BY TrustMemosFit DEF TrustInv, TrustTypeOK, TrustMemos, TrustPhases, WriteTrust
<1>2. /\ trustCall' \in [Callers -> TrustMemos] /\ stored' = stored
      /\ trustCall'[c] = m /\ \A d \in Callers \ {c} : trustCall'[d] = trustCall[d]
  <2>1. TrustGoes(c, old.pc, m)
    BY DEF WriteTrust
  <2> HIDE DEF m, ok
  <2> QED
    BY <1>1, <2>1, TrustMemosFit DEF TrustInv, TrustGoes
<1>3. UNCHANGED <<ledger, begunTogether, endedTogether, revokedOpen, revived>>
  BY DEF WriteTrust, LedgerRests
<1>4. /\ trust' = IF ok THEN old.to ELSE trust
      /\ revokedUnder' = (revokedUnder \/ (ok /\ old.to = "REVOKED"
                                              /\ \E d \in Callers : IsBlind(trustCall[d])))
      /\ unrevoked' = (unrevoked \/ (ok /\ trust = "REVOKED" /\ IsBlind(old)))
  BY DEF WriteTrust
<1>5. LedgerRows' = LedgerRows /\ Generations' = Generations
      /\ \A x \in RotationStates : Having(x)' = Having(x)
  BY <1>3 DEF LedgerRows, Generations, Having
<1> HIDE DEF m, ok
<1>6. TrustTypeOK'
  <2>1. trust' \in TrustStates \cup {"none"} /\ revokedUnder' \in BOOLEAN
        /\ unrevoked' \in BOOLEAN
    BY <1>1, <1>4 DEF TrustInv, TrustTypeOK, TrustMemos
  <2> QED
    BY <1>1, <1>2, <1>3, <1>5, <2>1 DEF TrustInv, TrustTypeOK, TrustMemos
<1>7. BlindIsNoted'
  <2>1. \A d \in Callers : IsBlind(trustCall'[d]) => d # c /\ IsBlind(trustCall[d])
    BY <1>1, <1>2 DEF IsBlind
  <2>2. ASSUME trust' = "REVOKED", NEW d \in Callers, IsBlind(trustCall[d])
        PROVE  revokedUnder'
    BY <1>4, <2>2 DEF TrustInv, BlindIsNoted
  <2> QED
    BY <2>1, <2>2 DEF BlindIsNoted
<1>8. RevokedStays'
  <2>1. trust = "REVOKED" /\ IsBlind(old) => revokedUnder
    BY DEF TrustInv, BlindIsNoted
  <2> QED
    BY <1>4, <2>1 DEF TrustInv, TrustKept, RevokedStays
<1>9. GenerationsCount'
  <2>1. PICK k \in Nat : CountedTo(k)
    BY DEF TrustInv, GenerationsCount
  <2>2. CountedTo(k)'
    BY <1>1, <1>2, <1>5, <2>1 DEF CountedTo
  <2> QED
    BY <2>2 DEF GenerationsCount
<1>10. OneIsBegun' /\ OneIsEnding' /\ HeldOpen'
  BY <1>1, <1>2, <1>3, <1>5 DEF TrustInv, OneIsBegun, OneIsEnding, HeldOpen, Rotating, Confirming,
                               RotationStates
<1>11. TrustKept'
  BY <1>3, <1>5, <1>8 DEF TrustInv, TrustKept, OnePending, OneConfirmed, RevokedRecordStays,
                         RotationStates
<1> QED
  BY <1>6, <1>7, <1>9, <1>10, <1>11 DEF TrustInv

\* A record takes a status, and the request that wrote it goes on to m.
LEMMA RecordTakes ==
  ASSUME TrustInv, NEW c \in Callers, NEW p, NEW m \in TrustMemos, TrustGoes(c, p, m),
         NEW r \in LedgerRows, NEW w \in {"REVOKED", "ROTATED", "CONFIRMED"},
         ledger' = [ledger EXCEPT ![r].status = w],
         UNCHANGED <<trust, revokedUnder, unrevoked, begunTogether, endedTogether>>,
         revokedOpen \subseteq revokedOpen', revokedOpen' \subseteq LedgerRows,
         revived' \subseteq LedgerRows, revived' \subseteq revokedOpen',
         m.pc \in {"idle", "close", "rotate"},
         m.pc = "rotate" => trustCall[c].pc = "rotate" /\ m.rec = trustCall[c].rec
                            /\ trustCall[c].rest \subseteq m.rest \cup {r} /\ w = "ROTATED",
         m.rest \subseteq trustCall[c].rest,
         w = "CONFIRMED" => trustCall[c].pc = "rotate" /\ trustCall[c].rest = {}
                            /\ trustCall[c].rec = r /\ m.pc = "idle",
         w = "REVOKED" => \A d \in Callers :
           \/ Confirming(trustCall[d]) /\ r = trustCall[d].rec
           \/ trustCall[d].pc = "rotate" /\ r \in trustCall[d].rest
           => r \in revokedOpen'
  PROVE  TrustInv'
<1>1. /\ trustCall' \in [Callers -> TrustMemos] /\ stored' = stored
      /\ trustCall'[c] = m /\ \A d \in Callers \ {c} : trustCall'[d] = trustCall[d]
  BY TrustMemosFit DEF TrustInv, TrustGoes
<1>2. /\ ledger' \in Seq([status : RotationStates, gen : Nat]) /\ Len(ledger') = Len(ledger)
      /\ LedgerRows' = LedgerRows
      /\ ledger'[r].status = w /\ ledger'[r].gen = ledger[r].gen
      /\ \A q \in LedgerRows \ {r} : ledger'[q] = ledger[q]
  <2> DEFINE Row == [status : RotationStates, gen : Nat]
             row == [ledger[r] EXCEPT !.status = w]
  <2>1. ledger \in Seq(Row) /\ r \in 1 .. Len(ledger)
    BY DEF TrustInv, TrustTypeOK, LedgerRows
  <2>2. ledger' = [ledger EXCEPT ![r] = row]
    OBVIOUS
  <2>3. row \in Row /\ row.status = w /\ row.gen = ledger[r].gen
    <3>1. ledger[r] \in Row
      <4> HIDE DEF Row
      <4> QED
        BY <2>1, ElementIn
    <3> QED
      BY <3>1 DEF RotationStates
  <2> HIDE DEF Row, row
  <2>4. /\ ledger' \in Seq(Row) /\ Len(ledger') = Len(ledger) /\ ledger'[r] = row
        /\ \A q \in 1 .. Len(ledger) \ {r} : ledger'[q] = ledger[q]
    BY <2>1, <2>2, <2>3
  <2> QED
    BY <2>3, <2>4 DEF LedgerRows, Row
<1>3. \A q \in LedgerRows : ledger'[q].gen = ledger[q].gen
  BY <1>2
<1>4. Generations' = Generations
  BY <1>2, <1>3 DEF Generations
<1>5. Having("ROTATION_PENDING")' \subseteq Having("ROTATION_PENDING")
  BY <1>2 DEF Having
<1>6. Having("CONFIRMED")' \subseteq
        IF w = "CONFIRMED" THEN Having("CONFIRMED") \cup {r} ELSE Having("CONFIRMED") \ {r}
  BY <1>2 DEF Having
<1>7. TrustTypeOK'
  <2>1. \A d \in Callers :
          /\ trustCall'[d].rest \subseteq LedgerRows
          /\ trustCall'[d].pc \in {"others", "rotate"} => trustCall'[d].rec \in LedgerRows
    BY <1>1 DEF TrustInv, TrustTypeOK
  <2> QED
    BY <1>1, <1>2, <2>1 DEF TrustInv, TrustTypeOK, TrustMemos
<1>8. BlindIsNoted'
  BY <1>1 DEF TrustInv, BlindIsNoted, IsBlind
<1>9. GenerationsCount'
  <2>1. PICK k \in Nat : CountedTo(k)
    BY DEF TrustInv, GenerationsCount
  <2>2. CountedTo(k)'
    BY <1>1, <1>4, <2>1 DEF CountedTo
  <2> QED
    BY <2>2 DEF GenerationsCount
<1>10. OneIsBegun'
  <2>1. OneIsBegun
    BY DEF TrustInv
  <2>2. LedgerRows' = LedgerRows /\ begunTogether' = begunTogether
    BY <1>1, <1>2
  <2>3. \A d \in Callers :
          /\ Rotating(trustCall'[d]) => Rotating(trustCall[d])
          /\ trustCall'[d].pc = "create" =>
               trustCall[d].pc = "create" /\ trustCall'[d].rec = trustCall[d].rec
    BY <1>1 DEF Rotating
  <2> QED
    BY <1>3, <1>5, <2>1, <2>2, <2>3 DEF OneIsBegun
<1>11. ASSUME ~endedTogether'
       PROVE  /\ \A d, e \in Callers :
                   Confirming(trustCall'[d]) /\ Confirming(trustCall'[e]) => d = e
              /\ \A d \in Callers : trustCall'[d].pc = "rotate" =>
                   Having("CONFIRMED")' \subseteq trustCall'[d].rest \cup {trustCall'[d].rec}
              /\ \A q, s \in Having("CONFIRMED")' : q = s
  <2>1. /\ \A d, e \in Callers :
             Confirming(trustCall[d]) /\ Confirming(trustCall[e]) => d = e
        /\ \A d \in Callers : trustCall[d].pc = "rotate" =>
             Having("CONFIRMED") \subseteq trustCall[d].rest \cup {trustCall[d].rec}
        /\ \A q, s \in Having("CONFIRMED") : q = s
    BY <1>11 DEF TrustInv, OneIsEnding, TrustKept, OneConfirmed
  <2>2. Confirming(m) => Confirming(trustCall[c])
    BY DEF Confirming
  <2>3. CASE w = "CONFIRMED"
    <3>1. Having("CONFIRMED") \subseteq {r}
      BY <2>1, <2>3
    <3>2. \A d \in Callers : ~Confirming(trustCall'[d])
      BY <1>1, <2>1, <2>3 DEF Confirming
    <3> QED
      BY <1>6, <3>1, <3>2 DEF Confirming
  <2>4. CASE w # "CONFIRMED"
    <3>1. Having("CONFIRMED")' \subseteq Having("CONFIRMED") \ {r}
      BY <1>6, <2>4
    <3>2. \A d \in Callers : trustCall'[d].pc = "rotate" =>
             Having("CONFIRMED")' \subseteq trustCall'[d].rest \cup {trustCall'[d].rec}
      BY <1>1, <2>1, <3>1
    <3> QED
      BY <1>1, <2>1, <2>2, <3>1, <3>2
  <2> QED
    BY <2>3, <2>4
<1>12. OneIsEnding' /\ OneConfirmed'
  BY <1>11 DEF OneIsEnding, OneConfirmed
<1>13. HeldOpen'
  <2> SUFFICES ASSUME NEW d \in Callers, NEW q \in LedgerRows, ledger'[q].status = "REVOKED",
                      \/ Confirming(trustCall'[d]) /\ q = trustCall'[d].rec
                      \/ trustCall'[d].pc = "rotate" /\ q \in trustCall'[d].rest
               PROVE  q \in revokedOpen'
    BY <1>2 DEF HeldOpen
  <2>1. \/ Confirming(trustCall[d]) /\ q = trustCall[d].rec
        \/ trustCall[d].pc = "rotate" /\ q \in trustCall[d].rest
    BY <1>1 DEF Confirming
  <2> QED
    BY <1>2, <2>1 DEF TrustInv, HeldOpen
<1>14. TrustKept'
  <2>1. OnePending'
    BY <1>2, <1>3, <1>5 DEF TrustInv, TrustKept, OnePending
  <2> QED
    BY <1>12, <2>1 DEF TrustInv, TrustKept, RevokedStays, RevokedRecordStays
<1> QED
  BY <1>7, <1>8, <1>9, <1>10, <1>12, <1>13, <1>14 DEF TrustInv

LEMMA RecordsWritten ==
  ASSUME TrustInv, NEW c \in Callers,
         RevokeRecord(c) \/ RotateOther(c) \/ ConfirmRecord(c)
  PROVE  TrustInv'
<1> DEFINE old == trustCall[c]
<1>1. old \in TrustMemos /\ old.rest \subseteq LedgerRows
      /\ (old.pc = "rotate" => old.rec \in LedgerRows)
      /\ TrustIdle \in TrustMemos /\ TrustIdle.pc = "idle" /\ TrustIdle.rest = {}
  BY TrustMemosFit DEF TrustInv, TrustTypeOK
<1>2. \A r : LET m == [old EXCEPT !.rest = @ \ {r}]
             IN  m \in TrustMemos /\ m.pc = old.pc /\ m.rec = old.rec /\ m.rest = old.rest \ {r}
  BY <1>1 DEF TrustMemos
<1>3. revokedOpen \subseteq LedgerRows /\ revived \subseteq LedgerRows
      /\ revived \subseteq revokedOpen
  BY DEF TrustInv, TrustTypeOK, TrustKept, RevokedRecordStays
<1>4. CASE RevokeRecord(c)
  <2>1. PICK r \in old.rest :
          /\ TrustGoes(c, "close", [old EXCEPT !.rest = @ \ {r}])
          /\ ledger' = [ledger EXCEPT ![r].status = "REVOKED"]
          /\ revokedOpen' = IF \E d \in Callers : \/ trustCall[d].pc \in {"others", "rotate"}
                                                    /\ r = trustCall[d].rec
                                                  \/ trustCall[d].pc = "rotate"
                                                    /\ r \in trustCall[d].rest
                            THEN revokedOpen \cup {r} ELSE revokedOpen
          /\ UNCHANGED <<trust, revokedUnder, unrevoked, begunTogether, endedTogether, revived>>
    BY <1>4 DEF RevokeRecord, TrustRests
  <2> DEFINE m == [old EXCEPT !.rest = @ \ {r}]
  <2>2. m \in TrustMemos /\ m.pc = "close" /\ m.rest \subseteq old.rest
    BY <1>2, <2>1 DEF TrustGoes
  <2>3. r \in LedgerRows /\ revokedOpen \subseteq revokedOpen' /\ revokedOpen' \subseteq LedgerRows
    BY <1>1, <1>3, <2>1
  <2>4. \A d \in Callers :
          \/ Confirming(trustCall[d]) /\ r = trustCall[d].rec
          \/ trustCall[d].pc = "rotate" /\ r \in trustCall[d].rest
          => r \in revokedOpen'
    BY <2>1 DEF Confirming
  <2> HIDE DEF m
  <2> QED
    BY <1>3, <2>1, <2>2, <2>3, <2>4, RecordTakes DEF m
<1>5. ASSUME NEW r \in LedgerRows, NEW w \in {"ROTATED", "CONFIRMED"}, WriteRecord(r, w),
             old.pc = "rotate", r = old.rec \/ r \in old.rest
      PROVE  /\ ledger' = [ledger EXCEPT ![r].status = w]
             /\ UNCHANGED <<trust, revokedUnder, unrevoked, begunTogether, endedTogether,
                            revokedOpen>>
             /\ revived' \subseteq LedgerRows /\ revived' \subseteq revokedOpen'
  <2>1. ledger[r].status = "REVOKED" => r \in revokedOpen
    BY <1>5 DEF TrustInv, HeldOpen, Confirming
  <2> QED
    BY <1>3, <1>5, <2>1 DEF WriteRecord, TrustRests
<1>6. CASE RotateOther(c)
  <2>1. PICK r \in old.rest : /\ TrustGoes(c, "rotate", [old EXCEPT !.rest = @ \ {r}])
                              /\ WriteRecord(r, "ROTATED")
    BY <1>6 DEF RotateOther
  <2> DEFINE m == [old EXCEPT !.rest = @ \ {r}]
  <2>2. m \in TrustMemos /\ m.pc = "rotate" /\ m.rec = old.rec /\ m.rest \subseteq old.rest
        /\ old.rest \subseteq m.rest \cup {r} /\ r \in LedgerRows /\ old.pc = "rotate"
    BY <1>1, <1>2, <2>1 DEF TrustGoes
  <2> HIDE DEF m
  <2> QED
    BY <1>3, <1>5, <2>1, <2>2, RecordTakes DEF m
<1>7. CASE ConfirmRecord(c)
  <2>1. /\ old.rest = {} /\ old.pc = "rotate" /\ TrustGoes(c, "rotate", TrustIdle)
        /\ WriteRecord(old.rec, "CONFIRMED")
    BY <1>7 DEF ConfirmRecord, TrustGoes
  <2> HIDE DEF old
  <2> QED
    BY <1>1, <1>3, <1>5, <2>1, RecordTakes DEF old
<1> QED
  BY <1>4, <1>6, <1>7

LEMMA RotationCreated ==
  ASSUME TrustInv, NEW c \in Callers, CreateRotation(c)
  PROVE  TrustInv'
<1> DEFINE new == [status |-> "ROTATION_PENDING", gen |-> trustCall[c].rec]
           n == Len(ledger) + 1
<1>1. /\ trustCall' \in [Callers -> TrustMemos] /\ stored' = stored
      /\ trustCall'[c] = TrustIdle /\ \A d \in Callers \ {c} : trustCall'[d] = trustCall[d]
      /\ trustCall[c].pc = "create" /\ trustCall[c].rec \in Nat
      /\ TrustIdle.pc = "idle" /\ TrustIdle.rest = {}
  BY TrustMemosFit DEF TrustInv, CreateRotation, TrustGoes, TrustMemos
<1>2. UNCHANGED <<trust, revokedUnder, unrevoked, begunTogether, endedTogether, revokedOpen,
                  revived>>
  BY DEF CreateRotation, TrustRests
<1>3. /\ ledger' \in Seq([status : RotationStates, gen : Nat]) /\ LedgerRows' = 1 .. n
      /\ ledger'[n] = new /\ \A r \in LedgerRows : ledger'[r] = ledger[r]
      /\ LedgerRows = 1 .. (n - 1) /\ n \in Nat
  <2>1. new \in [status : RotationStates, gen : Nat]
    BY <1>1 DEF RotationStates
  <2>2. ledger' = Append(ledger, new) /\ ledger \in Seq([status : RotationStates, gen : Nat])
    BY DEF CreateRotation, TrustInv, TrustTypeOK
  <2> HIDE DEF new
  <2> QED
    BY <2>1, <2>2 DEF LedgerRows
<1>4. LedgerRows' = LedgerRows \cup {n} /\ n \notin LedgerRows
  BY <1>3
<1>5. /\ Having("ROTATION_PENDING")' = Having("ROTATION_PENDING") \cup {n}
      /\ Having("CONFIRMED")' = Having("CONFIRMED")
      /\ ledger'[n].status = "ROTATION_PENDING" /\ ledger'[n].gen = trustCall[c].rec
  <2>1. ledger'[n].status = "ROTATION_PENDING" /\ ledger'[n].gen = trustCall[c].rec
    BY <1>3
  <2>2. Having("ROTATION_PENDING")' = Having("ROTATION_PENDING") \cup {n}
    BY <1>3, <1>4, <2>1 DEF Having
  <2>3. Having("CONFIRMED")' = Having("CONFIRMED")
    BY <1>3, <1>4, <2>1 DEF Having
  <2> QED
    BY <2>1, <2>2, <2>3
<1> HIDE DEF new, n
<1>6. TrustTypeOK'
  BY <1>1, <1>2, <1>3, <1>4 DEF TrustInv, TrustTypeOK, TrustMemos
<1>7. BlindIsNoted'
  BY <1>1, <1>2 DEF TrustInv, BlindIsNoted, IsBlind
<1>8. GenerationsCount'
  <2>1. PICK k \in Nat : CountedTo(k)
    BY DEF TrustInv, GenerationsCount
  <2>2. Generations' = (1 .. k) \cup {trustCall[c].rec}
    BY ZenonT(40), <1>3, <1>4, <1>5, <2>1 DEF CountedTo, Generations
  <2>3. PICK j \in Nat : j >= k /\ Generations' = 1 .. j
    <3>1. trustCall[c].rec \in 1 .. (k + 1)
      BY <1>1, <2>1 DEF CountedTo
    <3>2. CASE trustCall[c].rec = k + 1
      BY <2>2, <3>2
    <3>3. CASE trustCall[c].rec \in 1 .. k
      BY <2>2, <3>3
    <3> QED
      BY <3>1, <3>2, <3>3
  <2>4. \A d \in Callers : trustCall'[d].pc = "create" => trustCall'[d].rec \in 1 .. (j + 1)
    BY <1>1, <2>1, <2>3 DEF CountedTo
  <2>5. CountedTo(j)'
    BY <2>3, <2>4 DEF CountedTo
  <2> QED
    BY <2>5 DEF GenerationsCount
<1>9. OneIsBegun' /\ OnePending'
  <2> SUFFICES ASSUME ~begunTogether
               PROVE  OneIsBegun' /\ OnePending'
    BY <1>2 DEF OneIsBegun, OnePending
  <2>1. /\ \A d \in Callers \ {c} : ~Rotating(trustCall[d])
        /\ Having("ROTATION_PENDING") = {}
        /\ \A r \in LedgerRows : ledger[r].gen < trustCall[c].rec
        /\ \A r, s \in LedgerRows : ledger[r].gen = ledger[s].gen => r = s
    BY <1>1 DEF TrustInv, OneIsBegun, Rotating, TrustKept, OnePending
  <2>2. \A d \in Callers : ~Rotating(trustCall'[d])
    BY <1>1, <2>1 DEF Rotating
  <2>3. \A r \in LedgerRows : ledger[r].gen \in Nat /\ ledger[r].gen # trustCall[c].rec
    <3>1. \A r \in LedgerRows : ledger[r] \in [status : RotationStates, gen : Nat]
      BY ElementIn DEF TrustInv, TrustTypeOK, LedgerRows
    <3> QED
      BY <1>1, <2>1, <3>1
  <2>4. \A r, s \in LedgerRows' : ledger'[r].gen = ledger'[s].gen => r = s
    BY <1>3, <1>4, <1>5, <2>1, <2>3
  <2>5. OneIsBegun'
    BY <2>2 DEF OneIsBegun, Rotating
  <2> QED
    BY <1>5, <2>1, <2>4, <2>5 DEF OnePending
<1>10. OneIsEnding' /\ OneConfirmed'
  BY <1>1, <1>2, <1>5 DEF TrustInv, OneIsEnding, TrustKept, OneConfirmed, Confirming
<1>11. HeldOpen'
  BY <1>1, <1>2, <1>3, <1>4, <1>5 DEF TrustInv, HeldOpen, Confirming
<1>12. TrustKept'
  BY <1>2, <1>9, <1>10 DEF TrustInv, TrustKept, RevokedStays, RevokedRecordStays
<1> QED
  BY <1>6, <1>7, <1>8, <1>9, <1>10, <1>11, <1>12 DEF TrustInv

LEMMA TrustRequests ==
  ASSUME TrustInv, NEW c \in Callers, TrustRequest(c)
  PROVE  TrustInv'
<1>1. /\ begunTogether \in BOOLEAN /\ endedTogether \in BOOLEAN
      /\ trustCall[c] \in TrustMemos /\ trustCall[c].rest \subseteq LedgerRows
  BY TrustMemosFit DEF TrustInv, TrustTypeOK
<1>2. ASSUME NEW p, NEW m \in TrustMemos, TrustGoes(c, p, m), TrustRests, LedgerRests,
             m.pc \in {"idle", "find", "update", "insert", "list", "close"},
             m.rest \subseteq LedgerRows,
             IsBlind(m) => trust # "REVOKED" \/ IsBlind(trustCall[c])
      PROVE  TrustInv'
  BY <1>1, <1>2, TrustReads DEF TrustRests, LedgerRests, Rotating, Confirming
<1>3. ASSUME NEW to \in TrustStates, NEW knew \in BOOLEAN
      PROVE  LET m == TrustMemo("find", to, knew, 0, {})
             IN  m \in TrustMemos /\ m.pc = "find" /\ m.rest = {} /\ m.to = to /\ m.knew = knew
  BY DEF TrustMemo, TrustMemos, TrustPhases
<1>4. {"QUARANTINED", "FACTORY_RESET", "REVOKED", "TRUSTED"} \subseteq TrustStates
  BY DEF TrustStates
<1>5. CASE BeginQuarantine(c)
  BY <1>2, <1>3, <1>4, <1>5 DEF BeginQuarantine
<1>6. CASE BeginReset(c)
  BY <1>2, <1>3, <1>4, <1>6 DEF BeginReset
<1>7. CASE BeginRevocation(c)
  <2>1. ~IsBlind(TrustMemo("find", "REVOKED", FALSE, 0, {}))
    BY <1>3, <1>4 DEF IsBlind
  <2> QED
    BY <1>2, <1>3, <1>4, <1>7, <2>1 DEF BeginRevocation
<1>8. CASE BeginRestore(c)
  <2> DEFINE m == TrustMemo("find", "TRUSTED", trust = "REVOKED", 0, {})
  <2>1. m \in TrustMemos /\ m.pc = "find" /\ m.rest = {} /\ m.knew = (trust = "REVOKED")
    BY <1>3, <1>4
  <2>2. IsBlind(m) => trust # "REVOKED"
    BY <2>1 DEF IsBlind
  <2>3. TrustGoes(c, "idle", m) /\ TrustRests /\ LedgerRests
    BY <1>8 DEF BeginRestore
  <2> HIDE DEF m
  <2> QED
    BY <1>2, <2>1, <2>2, <2>3
<1>9. CASE FindTrust(c)
  <2> DEFINE m == [trustCall[c] EXCEPT !.pc = IF trust = "none" THEN "insert" ELSE "update"]
  <2>1. /\ m \in TrustMemos /\ m.pc \in {"insert", "update"} /\ m.rest = trustCall[c].rest
        /\ m.to = trustCall[c].to /\ m.knew = trustCall[c].knew
    BY <1>1 DEF TrustMemos, TrustPhases
  <2>2. TrustGoes(c, "find", m) /\ TrustRests /\ LedgerRests /\ trustCall[c].pc = "find"
    BY <1>9 DEF FindTrust, TrustGoes
  <2>3. IsBlind(m) => IsBlind(trustCall[c])
    BY <2>1, <2>2 DEF IsBlind
  <2> HIDE DEF m
  <2> QED
    BY <1>1, <1>2, <2>1, <2>2, <2>3
<1>10. CASE ListLedger(c)
  <2> DEFINE m == [trustCall[c] EXCEPT !.pc = "close",
                     !.rest = Having("CONFIRMED") \cup Having("ROTATION_PENDING")]
  <2>1. Having("CONFIRMED") \cup Having("ROTATION_PENDING") \subseteq LedgerRows
        /\ LedgerRows \subseteq Nat
    BY DEF Having, LedgerRows
  <2>2. m \in TrustMemos /\ m.pc = "close" /\ m.rest \subseteq LedgerRows
    BY <1>1, <2>1 DEF TrustMemos, TrustPhases
  <2>3. TrustGoes(c, "list", m) /\ TrustRests /\ LedgerRests
    BY <1>10 DEF ListLedger
  <2>4. ~IsBlind(m)
    BY <2>2 DEF IsBlind
  <2> HIDE DEF m
  <2> QED
    BY <1>2, <2>2, <2>3, <2>4
<1>11. CASE RevokeEnds(c)
  <2>1. ~IsBlind(TrustIdle)
    BY TrustMemosFit DEF IsBlind
  <2> QED
    BY <1>2, <1>11, <2>1, TrustMemosFit DEF RevokeEnds
<1> QED
  BY <1>5, <1>6, <1>7, <1>8, <1>9, <1>10, <1>11, TrustWrites, RecordsWritten DEF TrustRequest

LEMMA RotationRequests ==
  ASSUME TrustInv, NEW c \in Callers, RotationRequest(c)
  PROVE  TrustInv'
<1>1. /\ begunTogether \in BOOLEAN /\ endedTogether \in BOOLEAN
      /\ trustCall[c] \in TrustMemos /\ trustCall[c].rest \subseteq LedgerRows
  BY TrustMemosFit DEF TrustInv, TrustTypeOK
<1>2. CASE BeginRotation(c)
  <2> DEFINE m == TrustMemo("number", "none", FALSE, 0, {})
  <2>1. m \in TrustMemos /\ m.pc = "number" /\ m.rest = {}
    BY DEF TrustMemo, TrustMemos, TrustPhases
  <2>2. ~IsBlind(m) /\ ~Confirming(m)
    BY <2>1 DEF IsBlind, Confirming
  <2> HIDE DEF m
  <2>3. TrustGoes(c, "idle", m) /\ TrustRests /\ Having("ROTATION_PENDING") = {}
        /\ begunTogether' = (begunTogether \/ \E d \in Callers : Rotating(trustCall[d]))
        /\ UNCHANGED <<ledger, endedTogether, revokedOpen, revived>>
    BY <1>2 DEF BeginRotation, m
  <2> QED
    BY <1>1, <2>1, <2>2, <2>3, TrustReads DEF TrustRests
<1>3. CASE NumberRotation(c)
  <2> DEFINE m == [trustCall[c] EXCEPT !.pc = "create", !.rec = NextGeneration]
  <2>1. NextGeneration \in Nat
    BY NextGenerationIs DEF TrustInv, GenerationsCount, CountedTo
  <2>2. /\ m \in TrustMemos /\ m.pc = "create" /\ m.rest = trustCall[c].rest
        /\ m.rec = NextGeneration
    BY <1>1, <2>1 DEF TrustMemos, TrustPhases
  <2>3. TrustGoes(c, "number", m) /\ TrustRests /\ LedgerRests /\ Rotating(trustCall[c])
    BY <1>3 DEF NumberRotation, TrustGoes, Rotating
  <2>4. ~IsBlind(m) /\ ~Confirming(m)
    BY <2>2 DEF IsBlind, Confirming
  <2>5. ~begunTogether => /\ Having("ROTATION_PENDING") = {}
                          /\ \A d \in Callers \ {c} : ~Rotating(trustCall[d])
    BY <2>3 DEF TrustInv, OneIsBegun
  <2> HIDE DEF m
  <2> QED
    BY <1>1, <2>2, <2>3, <2>4, <2>5, TrustReads DEF TrustRests, LedgerRests
<1>4. CASE BeginConfirmation(c)
  <2>1. PICK r \in Having("ROTATION_PENDING") :
          /\ TrustGoes(c, "idle", TrustMemo("others", "none", FALSE, r, {})) /\ TrustRests
          /\ endedTogether' = (endedTogether \/ \E d \in Callers : Confirming(trustCall[d]))
          /\ UNCHANGED <<ledger, begunTogether, revokedOpen, revived>>
    BY <1>4 DEF BeginConfirmation
  <2> DEFINE m == TrustMemo("others", "none", FALSE, r, {})
  <2>2. r \in LedgerRows /\ r \in Nat /\ ledger[r].status # "REVOKED"
    BY DEF Having, LedgerRows
  <2>3. m \in TrustMemos /\ m.pc = "others" /\ m.rest = {} /\ m.rec = r
    BY <2>2 DEF TrustMemo, TrustMemos, TrustPhases
  <2>4. ~IsBlind(m) /\ ~Rotating(m)
    BY <2>3 DEF IsBlind, Rotating
  <2>5. TrustGoes(c, "idle", m)
    BY <2>1
  <2> HIDE DEF m
  <2> QED
    BY <1>1, <2>1, <2>2, <2>3, <2>4, <2>5, TrustReads DEF TrustRests
<1>5. CASE ListOthers(c)
  <2> DEFINE old == trustCall[c]
             m == [old EXCEPT !.pc = "rotate", !.rest = Having("CONFIRMED") \ {old.rec}]
  <2>1. TrustGoes(c, "others", m) /\ TrustRests /\ LedgerRests /\ old.pc = "others"
    BY <1>5 DEF ListOthers, TrustGoes
  <2>2. Having("CONFIRMED") \subseteq LedgerRows /\ LedgerRows \subseteq Nat
        /\ \A r \in Having("CONFIRMED") : ledger[r].status # "REVOKED"
    BY DEF Having, LedgerRows
  <2>3. /\ m \in TrustMemos /\ m.pc = "rotate" /\ m.rec = old.rec
        /\ m.rest = Having("CONFIRMED") \ {old.rec}
    BY <1>1, <2>2 DEF TrustMemos, TrustPhases
  <2>4. old.rec \in LedgerRows /\ Confirming(old)
    BY <2>1 DEF TrustInv, TrustTypeOK, Confirming
  <2>5. ~IsBlind(m) /\ ~Rotating(m)
    BY <2>3 DEF IsBlind, Rotating
  <2>6. ~endedTogether => \A d \in Callers \ {c} : ~Confirming(trustCall[d])
    BY <2>4 DEF TrustInv, OneIsEnding
  <2>7. ledger[old.rec].status = "REVOKED" => old.rec \in revokedOpen
    BY <2>4 DEF TrustInv, HeldOpen
  <2> HIDE DEF m, old
  <2> QED
    BY <1>1, <2>1, <2>2, <2>3, <2>4, <2>5, <2>6, <2>7, TrustReads DEF TrustRests, LedgerRests, old
<1> QED
  BY <1>2, <1>3, <1>4, <1>5, RotationCreated, RecordsWritten DEF RotationRequest

LEMMA TrustNextKeeps == TrustInv /\ [TrustNext]_trustVars => TrustInv'
<1> SUFFICES ASSUME TrustInv, [TrustNext]_trustVars
             PROVE  TrustInv'
  OBVIOUS
<1>1. CASE UNCHANGED trustVars
  <2>1. UNCHANGED <<LedgerRows, Generations>> /\ \A x \in RotationStates : Having(x)' = Having(x)
    BY <1>1 DEF trustVars, LedgerRows, Generations, Having
  <2>2. GenerationsCount'
    <3>1. PICK k \in Nat : CountedTo(k)
      BY DEF TrustInv, GenerationsCount
    <3>2. CountedTo(k)'
      BY <1>1, <2>1, <3>1 DEF trustVars, CountedTo
    <3> QED
      BY <3>2 DEF GenerationsCount
  <2>3. TrustTypeOK' /\ BlindIsNoted' /\ HeldOpen'
    BY <1>1, <2>1 DEF trustVars, TrustInv, TrustTypeOK, BlindIsNoted, HeldOpen
  <2>4. OneIsBegun' /\ OneIsEnding'
    BY <1>1, <2>1 DEF trustVars, TrustInv, OneIsBegun, OneIsEnding, RotationStates
  <2>5. TrustKept'
    BY <1>1, <2>1 DEF trustVars, TrustInv, TrustKept, RevokedStays, OnePending, OneConfirmed,
                      RevokedRecordStays, RotationStates
  <2> QED
    BY <2>2, <2>3, <2>4, <2>5 DEF TrustInv
\* A request that is cut short holds nothing any more.
<1>2. ASSUME NEW c \in Callers, CutTrust(c)
      PROVE  TrustInv'
  <2>1. /\ TrustIdle \in TrustMemos /\ TrustIdle.rest = {} /\ TrustIdle.pc = "idle"
        /\ ~Rotating(TrustIdle) /\ ~Confirming(TrustIdle) /\ ~IsBlind(TrustIdle)
    BY TrustMemosFit DEF TrustIdle, TrustMemo, Rotating, Confirming, IsBlind
  <2>2. TrustGoes(c, trustCall[c].pc, TrustIdle)
        /\ UNCHANGED <<trust, ledger, revokedUnder, unrevoked, revokedOpen, revived,
                       begunTogether, endedTogether>>
    BY <1>2 DEF CutTrust, TrustRests, LedgerRests
  <2>3. begunTogether \in BOOLEAN /\ endedTogether \in BOOLEAN
    BY DEF TrustInv, TrustTypeOK
  <2> QED
    BY <2>1, <2>2, <2>3, TrustReads
<1>3. CASE TrustNext
  BY <1>2, <1>3, TrustRequests, RotationRequests DEF TrustNext
<1> QED
  BY <1>1, <1>3

\* The trust of a device, its ledger of credentials and the requests about them keep
\* their types.
THEOREM TrustTyped == TrustSpec => []TrustTypeOK
<1>1. TrustInv => TrustTypeOK
  BY DEF TrustInv
<1> QED
  BY <1>1, TrustInit_, TrustNextKeeps, PTL DEF TrustSpec

\* A revocation ends only by a restoration that saw it, unless it met a request that was
\* to write; one credential is pending and one confirmed at most, with a generation of its
\* own, unless two rotations were begun, or confirmed, at once; and a revoked credential
\* comes back only with a confirmation it fell into.
THEOREM TrustKeptAlways == TrustSpec => []TrustKept
<1>1. TrustInv => TrustKept
  BY DEF TrustInv
<1> QED
  BY <1>1, TrustInit_, TrustNextKeeps, PTL DEF TrustSpec

-----------------------------------------------------------------------------
(* A device is given its Wi-Fi                                             *)

\* What is proved, applied or stored is of a session begun, in which the secret was
\* proved; so is a reply to a proof.  A reply to credentials is one frame.
SessionsFit ==
    /\ \A s \in proven : s <= hellos
    /\ hand.authed => hand.key \in proven
    /\ host.at # "idle" => host.sid \in proven
    /\ \A t \in taken : t.sid \in proven
    /\ \A i \in 1..Len(txQueue) :
         /\ txQueue[i].reply.kind = "auth" => txQueue[i].reply.sid \in proven
         /\ txQueue[i].reply.kind = "wifi" => txQueue[i].index = 0

\* A page holds a key only of a proved session, and what accepts its credentials is
\* of those it sent.
PageFits(w) ==
    /\ w.sid <= hellos
    /\ w.at \in {"hello", "auth", "wifi"} => w.net \in Networks
    /\ w.got.kind = "auth" => w.got.sid \in proven
    /\ w.at = "wifi" => w.keyed
    /\ (w.keyed /\ ~w.alone) => w.sid \in proven
    /\ (w.at = "wifi" /\ ~w.alone /\ w.got.kind = "wifi" /\ w.got.ok) =>
         [sid |-> w.sid, net |-> w.net] \in taken
    /\ (w.at = "wait" /\ ~w.alone) => [sid |-> w.sid, net |-> w.net] \in taken

\* The reply to the proof of the page's own session is the last thing in the queue.
AuthIsLast(w) ==
    /\ \A i \in 1..Len(txQueue) :
         (txQueue[i].reply.kind = "auth" /\ txQueue[i].reply.sid = w.sid) =>
           /\ w.at # "hello" /\ (w.at = "auth" => w.written)
           /\ txQueue[i].index = Parts - 1 => i = Len(txQueue)
    /\ (w.got.kind = "auth" /\ w.got.sid = w.sid) =>
         w.at = "auth" /\ w.written /\ txQueue = <<>>

\* A page with a key finds the queue empty, up to the reply to its own credentials.
KeyedIsQuiet(w) ==
    w.keyed =>
      /\ w.at \notin {"hello", "auth"}
      /\ w.got # NoReply => w.at = "wifi" /\ w.written /\ txQueue = <<>>
      /\ txQueue # <<>> =>
           /\ txPosted /\ w.at = "wifi" /\ w.written /\ w.got = NoReply
           /\ Len(txQueue) = 1 /\ txQueue[1].reply.kind = "wifi"
           /\ txQueue[1].reply.ok => [sid |-> w.sid, net |-> w.net] \in taken

\* The host task applies what the page at the other end of the link has asked for.
Applied(w) ==
    host.at # "idle" =>
      /\ w.at = "wifi" /\ w.written /\ w.got = NoReply /\ w.sid = host.sid /\ w.net = host.net
      /\ txQueue = <<>>
      /\ host.at \in {"start", "end"} => [sid |-> host.sid, net |-> host.net] \in taken

LinkedFits(w) == ~w.alone /\ AuthIsLast(w) /\ KeyedIsQuiet(w) /\ Applied(w)

\* Between its two writes the flash has the new SSID, or was erased.
FlashFits == host.at = "pass" => flash.ssid \in {host.net, "none"}

BleInv ==
    /\ BleTypeOK /\ SessionsFit
    /\ \A p \in Phones : PageFits(page[p]) /\ (link = p => LinkedFits(page[p]))
    /\ link = "none" => host.at = "idle" /\ txQueue = <<>>
    /\ FlashFits /\ FlashIsWhole /\ OnlineIsTold

USE BleAssumption DEF BleAssumption

HostMemos == [at : {"idle", "ssid", "pass", "start", "end"}, net : Networks \union {"none"},
              sid : SessionIds]
Credentials == [ssid : Networks \union {"none"}, pass : Networks \union {"none"}]

LEMMA BleConstants ==
  /\ NoReply \in Replies /\ NoReply.kind = "none"
  /\ Reply("garbled", 0, FALSE) \in Replies /\ 0 \in SessionIds
  /\ NewPage \in Pages /\ HostIdle \in HostMemos /\ HostIdle.at = "idle" /\ Nowhere \in Credentials
  /\ Nowhere.ssid = "none"
  /\ NewPage.at = "idle" /\ NewPage.got = NoReply /\ NewPage.sid = 0 /\ ~NewPage.keyed
  /\ ~NewPage.alone
  /\ \A p \in Phones : p # "none"
<1>1. 0 \in SessionIds
  BY DEF SessionIds
<1>2. NoReply \in Replies /\ NoReply.kind = "none"
  BY <1>1 DEF NoReply, Reply, Replies, Exchanges
<1>3. Reply("garbled", 0, FALSE) \in Replies
  BY <1>1 DEF Reply, Replies
<1>4. NewPage \in Pages
  BY <1>1, <1>2 DEF NewPage, Pages
<1>5. HostIdle \in HostMemos /\ HostIdle.at = "idle" /\ Nowhere \in Credentials
      /\ Nowhere.ssid = "none"
  BY <1>1 DEF HostIdle, HostMemos, Nowhere, Credentials
<1> QED
  BY <1>1, <1>2, <1>3, <1>4, <1>5 DEF NewPage

LEMMA SessionNumbers ==
  ASSUME BleTypeOK
  PROVE  /\ SessionIds \subseteq Nat /\ hellos \in Nat /\ hellos \in SessionIds
         /\ \A p \in Phones : page[p] \in Pages /\ page[p].sid \in Nat /\ page[p].got \in Replies
                              /\ page[p].sid \in SessionIds
  BY DEF BleTypeOK, SessionIds, Pages

\* Any page but p stays as it is.
LEMMA Gone ==
  ASSUME BleTypeOK, NEW p \in Phones, NEW w \in Pages, Goes(p, w)
  PROVE  /\ page' \in [Phones -> Pages] /\ page'[p] = w
         /\ \A q \in Phones \ {p} : page'[q] = page[q]
  BY DEF BleTypeOK, Goes

-----------------------------------------------------------------------------
(* Steps of a page                                                         *)

OnlyPage == /\ UNCHANGED <<inbox, link, advertising, prov, hand, host>>
            /\ UNCHANGED txVars /\ UNCHANGED wifiVars /\ UNCHANGED noteVarsBle

LEMMA PageMoves ==
  ASSUME BleInv, NEW p \in Phones, NEW w \in Pages, Goes(p, w), OnlyPage,
         hellos' \in {hellos, hellos + 1}, hellos' \in SessionIds,
         hellos' = hellos => PageFits(w), w.sid <= hellos',
         hellos' # hellos => w.got = NoReply /\ w.at = "hello" /\ w.net \in Networks /\ ~w.keyed,
         link = p => LinkedFits(w)
  PROVE  BleInv'
<1>1. /\ page' \in [Phones -> Pages] /\ page'[p] = w
      /\ \A q \in Phones \ {p} : page'[q] = page[q]
  BY Gone DEF BleInv
<1>2. UNCHANGED <<inbox, link, advertising, prov, hand, host, txQueue, txPosted, flash, station,
                  wifi, proven, taken, latest, torn, already>>
  BY DEF OnlyPage, txVars, wifiVars, noteVarsBle
<1>3. hellos <= hellos' /\ hellos \in Nat /\ hellos' \in Nat
  BY SessionNumbers DEF BleInv
<1>4. BleTypeOK'
  BY <1>1, <1>2 DEF BleInv, BleTypeOK
<1>5. SessionsFit'
  <2>1. \A s \in proven : s \in Nat /\ s <= hellos'
    BY <1>3, SessionNumbers DEF BleInv, SessionsFit, BleTypeOK
  <2> QED
    BY <1>2, <2>1 DEF BleInv, SessionsFit
<1>6. ASSUME NEW q \in Phones
      PROVE  PageFits(page[q])' /\ (link' = q => LinkedFits(page[q])')
  <2>1. CASE q = p
    <3>1. PageFits(w)'
      BY <1>2, BleConstants DEF PageFits
    <3>2. link' = p => LinkedFits(w)'
      BY <1>2 DEF LinkedFits, AuthIsLast, KeyedIsQuiet, Applied
    <3> QED
      BY <1>1, <2>1, <3>1, <3>2 DEF PageFits, LinkedFits, AuthIsLast, KeyedIsQuiet, Applied
  <2>2. CASE q # p
    <3>1. page'[q] = page[q] /\ page[q].sid \in Nat
      BY <1>1, <2>2, SessionNumbers DEF BleInv
    <3>2. PageFits(page[q]) /\ (link = q => LinkedFits(page[q]))
      BY DEF BleInv
    <3>3. page[q].sid <= hellos'
      BY <1>3, <3>1, <3>2 DEF PageFits
    <3>4. PageFits(page[q])'
      BY <1>2, <3>1, <3>2, <3>3 DEF PageFits
    <3>5. link' = q => LinkedFits(page[q])'
      BY <1>2, <3>1, <3>2 DEF LinkedFits, AuthIsLast, KeyedIsQuiet, Applied
    <3> QED
      BY <3>4, <3>5
  <2> QED
    BY <2>1, <2>2
<1> QED
  BY <1>2, <1>4, <1>5, <1>6 DEF BleInv, FlashFits, FlashIsWhole, OnlineIsTold

\* What RunFails leaves of a page.
Failed(p, found) ==
  [page[p] EXCEPT !.at = IF found THEN "done" ELSE "idle", !.written = FALSE,
                  !.got = NoReply, !.keyed = page[p].keyed /\ link = p]

LEMMA FailedPageFits ==
  ASSUME BleInv, NEW p \in Phones, NEW found \in BOOLEAN,
         link = p => host.at = "idle" /\ (page[p].keyed => txQueue = <<>>)
  PROVE  /\ Failed(p, found) \in Pages /\ PageFits(Failed(p, found))
         /\ link = p => LinkedFits(Failed(p, found))
<1> DEFINE w == page[p]
           f == Failed(p, found)
<1>1. w \in Pages /\ PageFits(w) /\ (link = p => LinkedFits(w))
  BY SessionNumbers DEF BleInv
<1>2. /\ f \in Pages /\ f.at \in {"done", "idle"} /\ f.got = NoReply /\ f.sid = w.sid
      /\ f.keyed = (w.keyed /\ link = p) /\ f.alone = w.alone
  <2>1. PICK at \in {"done", "idle"} : at = IF found THEN "done" ELSE "idle"
    OBVIOUS
  <2>2. PICK keyed \in BOOLEAN : keyed = (w.keyed /\ link = p)
    OBVIOUS
  <2>3. f = [w EXCEPT !.at = at, !.written = FALSE, !.got = NoReply, !.keyed = keyed]
    BY <2>1, <2>2 DEF Failed
  <2> HIDE DEF f, w
  <2>4. f \in Pages /\ f.at = at /\ f.keyed = keyed
    BY <1>1, <2>3, BleConstants DEF Pages
  <2>5. f.got = NoReply /\ f.sid = w.sid /\ f.alone = w.alone
    BY <1>1, <2>3 DEF Pages
  <2> QED
    BY <2>2, <2>4, <2>5
<1> HIDE DEF f, w
<1>3. PageFits(f)
  BY <1>1, <1>2, BleConstants DEF PageFits
<1>4. ASSUME link = p
      PROVE  LinkedFits(f)
  <2>1. AuthIsLast(f)
    BY <1>1, <1>2, <1>4, BleConstants DEF LinkedFits, AuthIsLast
  <2>2. KeyedIsQuiet(f) /\ Applied(f)
    BY <1>1, <1>2, <1>4, BleConstants DEF KeyedIsQuiet, Applied, w
  <2> QED
    BY <1>1, <1>2, <1>4, <2>1, <2>2 DEF LinkedFits
<1> QED
  BY <1>2, <1>3, <1>4 DEF f

LEMMA RunFailsKeeps ==
  ASSUME BleInv, NEW p \in Phones, RunFails(p), OnlyPage, hellos' = hellos,
         link = p => host.at = "idle" /\ (page[p].keyed => txQueue = <<>>)
  PROVE  BleInv'
<1>1. PICK found \in BOOLEAN : Goes(p, Failed(p, found))
  BY DEF RunFails, Failed
<1>2. /\ Failed(p, found) \in Pages /\ PageFits(Failed(p, found))
      /\ link = p => LinkedFits(Failed(p, found))
  BY FailedPageFits
<1>3. PICK w \in Pages : w = Failed(p, found)
  BY <1>2
<1>4. hellos \in SessionIds /\ w.sid <= hellos
  BY <1>2, <1>3, SessionNumbers DEF BleInv, PageFits
<1> QED
  BY <1>1, <1>2, <1>3, <1>4, PageMoves

LEMMA StartProvisioningKeeps ==
  ASSUME BleInv, NEW p \in Phones, NEW n \in Networks, StartProvisioning(p, n)
  PROVE  BleInv'
<1>0. page[p].at = "idle" /\ link = p /\ OnlyPage
  BY DEF StartProvisioning, OnlyPage
<1>1. page[p] \in Pages /\ PageFits(page[p]) /\ LinkedFits(page[p]) /\ hellos \in SessionIds
      /\ hellos \in Nat /\ page[p].sid \in Nat
  BY <1>0, SessionNumbers DEF BleInv
<1>2. CASE Goes(p, [page[p] EXCEPT !.at = "done"]) /\ UNCHANGED hellos
  <2>1. PICK w : w = [page[p] EXCEPT !.at = "done"]
    OBVIOUS
  <2>2. /\ w \in Pages /\ w.at = "done" /\ w.got = page[p].got /\ w.sid = page[p].sid
        /\ w.keyed = page[p].keyed /\ w.alone = page[p].alone
    BY <1>1, <2>1 DEF Pages
  <2>3. PageFits(w)
    BY <1>1, <2>2 DEF PageFits
  <2>4. LinkedFits(w)
    BY <1>0, <1>1, <2>2 DEF LinkedFits, AuthIsLast, KeyedIsQuiet, Applied
  <2> QED
    BY <1>0, <1>1, <1>2, <2>1, <2>2, <2>3, <2>4, PageMoves DEF PageFits
<1>3. CASE page[p].keyed /\ Goes(p, [page[p] EXCEPT !.at = "wifi", !.net = n]) /\ UNCHANGED hellos
  <2>1. PICK w : w = [page[p] EXCEPT !.at = "wifi", !.net = n]
    OBVIOUS
  <2>2. /\ w \in Pages /\ w.at = "wifi" /\ w.net = n /\ w.got = page[p].got /\ w.sid = page[p].sid
        /\ w.keyed = page[p].keyed /\ w.alone = page[p].alone
    BY <1>1, <2>1 DEF Pages, Exchanges
  <2>3. page[p].got = NoReply /\ txQueue = <<>> /\ NoReply.kind = "none"
    BY <1>0, <1>1, <1>3, BleConstants DEF LinkedFits, KeyedIsQuiet
  <2>4. PageFits(w)
    BY <1>1, <1>3, <2>2, <2>3 DEF PageFits
  <2>5. LinkedFits(w)
    BY <1>0, <1>1, <2>2, <2>3 DEF LinkedFits, AuthIsLast, KeyedIsQuiet, Applied
  <2> QED
    BY <1>0, <1>1, <1>3, <2>1, <2>2, <2>4, <2>5, PageMoves DEF PageFits
<1>4. CASE /\ ~page[p].keyed /\ hellos < MaxHellos /\ hellos' = hellos + 1
           /\ Goes(p, [NewPage EXCEPT !.at = "hello", !.sid = hellos + 1, !.net = n])
  <2>1. PICK w : w = [NewPage EXCEPT !.at = "hello", !.sid = hellos + 1, !.net = n]
    OBVIOUS
  <2>2. hellos + 1 \in SessionIds
    BY <1>1, <1>4 DEF SessionIds
  <2>3. /\ w \in Pages /\ w.at = "hello" /\ w.got = NoReply /\ w.sid = hellos + 1 /\ w.net = n
        /\ ~w.keyed /\ ~w.alone
    BY <2>1, <2>2, BleConstants DEF Pages, Exchanges
  <2>4. \A i \in 1..Len(txQueue) : txQueue[i].reply.kind = "auth" => txQueue[i].reply.sid # w.sid
    <3>1. \A s \in proven : s \in Nat /\ s <= hellos
      BY SessionNumbers DEF BleInv, SessionsFit, BleTypeOK
    <3> QED
      BY <1>1, <2>3, <3>1 DEF BleInv, SessionsFit
  <2>5. LinkedFits(w)
    <3>1. host.at = "idle"
      BY <1>0, <1>1 DEF LinkedFits, Applied
    <3> QED
      BY <2>3, <2>4, <3>1, BleConstants DEF LinkedFits, AuthIsLast, KeyedIsQuiet, Applied
  <2>6. hellos' # hellos /\ w.sid <= hellos' /\ hellos' \in SessionIds
    BY <1>1, <1>4, <2>2, <2>3
  <2> QED
    BY <1>0, <1>4, <2>1, <2>3, <2>5, <2>6, PageMoves
<1> QED
  BY <1>2, <1>3, <1>4 DEF StartProvisioning

LEMMA TakeReplyKeeps ==
  ASSUME BleInv, NEW p \in Phones, TakeReply(p)
  PROVE  BleInv'
<1>0. page[p].written /\ page[p].got # NoReply /\ OnlyPage /\ hellos' = hellos
  BY DEF TakeReply, OnlyPage
<1>1. /\ page[p] \in Pages /\ PageFits(page[p]) /\ (link = p => LinkedFits(page[p]))
      /\ hellos \in SessionIds /\ page[p].got \in Replies
  BY SessionNumbers DEF BleInv
<1>2. link = p => host.at = "idle" /\ (page[p].keyed => txQueue = <<>>)
  BY <1>0, <1>1 DEF LinkedFits, KeyedIsQuiet, Applied
<1>3. CASE RunFails(p)
  BY <1>0, <1>2, <1>3, RunFailsKeeps
<1>4. ASSUME page[p].at = "hello",
             Goes(p, [page[p] EXCEPT !.at = "auth", !.chal = page[p].got.sid, !.written = FALSE,
                                     !.got = NoReply])
      PROVE  BleInv'
  <2>1. PICK w : w = [page[p] EXCEPT !.at = "auth", !.chal = page[p].got.sid, !.written = FALSE,
                                     !.got = NoReply]
    OBVIOUS
  <2>2. /\ w \in Pages /\ w.at = "auth" /\ w.got = NoReply
        /\ w.net = page[p].net /\ w.sid = page[p].sid
        /\ w.keyed = page[p].keyed /\ w.alone = page[p].alone
    BY <1>1, <2>1, BleConstants DEF Pages, Exchanges, Replies
  <2>3. PageFits(w)
    BY <1>1, <1>4, <2>2, BleConstants DEF PageFits
  <2>4. ASSUME link = p
        PROVE  LinkedFits(w)
    <3>1. AuthIsLast(w)
      BY <1>1, <1>4, <2>2, <2>4, BleConstants DEF LinkedFits, AuthIsLast
    <3>2. ~page[p].keyed
      BY <1>1, <1>4, <2>4 DEF LinkedFits, KeyedIsQuiet
    <3> QED
      BY <1>1, <1>2, <2>2, <2>4, <3>1, <3>2 DEF LinkedFits, KeyedIsQuiet, Applied
  <2> QED
    BY <1>0, <1>1, <1>4, <2>1, <2>2, <2>3, <2>4, PageMoves DEF PageFits
<1>5. ASSUME page[p].at = "auth", page[p].got.kind = "auth", Convinced(p),
             Goes(p, [page[p] EXCEPT !.at = "wifi", !.keyed = TRUE, !.written = FALSE,
                                     !.got = NoReply])
      PROVE  BleInv'
  <2>1. PICK w : w = [page[p] EXCEPT !.at = "wifi", !.keyed = TRUE, !.written = FALSE,
                                     !.got = NoReply]
    OBVIOUS
  <2>2. /\ w \in Pages /\ w.at = "wifi" /\ w.got = NoReply
        /\ w.net = page[p].net /\ w.sid = page[p].sid
        /\ w.keyed /\ w.alone = page[p].alone
    BY <1>1, <2>1, BleConstants DEF Pages, Exchanges
  <2>3. w.sid \in proven
    BY <1>1, <1>5, <2>2 DEF PageFits, Convinced
  <2>4. PageFits(w)
    BY <1>1, <1>5, <2>2, <2>3, BleConstants DEF PageFits
  <2>5. ASSUME link = p
        PROVE  LinkedFits(w)
    <3>1. txQueue = <<>>
      BY <1>1, <1>5, <2>5 DEF LinkedFits, AuthIsLast, Convinced
    <3> QED
      BY <1>1, <1>2, <2>2, <2>5, <3>1, BleConstants
      DEF LinkedFits, AuthIsLast, KeyedIsQuiet, Applied
  <2> QED
    BY <1>0, <1>1, <1>5, <2>1, <2>2, <2>4, <2>5, PageMoves DEF PageFits
<1>6. ASSUME page[p].at = "wifi", page[p].got.kind = "wifi", page[p].got.ok,
             Goes(p, [page[p] EXCEPT !.at = "wait", !.written = FALSE, !.got = NoReply])
      PROVE  BleInv'
  <2>1. PICK w : w = [page[p] EXCEPT !.at = "wait", !.written = FALSE, !.got = NoReply]
    OBVIOUS
  <2>2. /\ w \in Pages /\ w.at = "wait" /\ w.got = NoReply /\ w.sid = page[p].sid
        /\ w.net = page[p].net /\ w.keyed = page[p].keyed /\ w.alone = page[p].alone
    BY <1>1, <2>1, BleConstants DEF Pages
  <2>3. PageFits(w)
    BY <1>1, <1>6, <2>2, BleConstants DEF PageFits
  <2>4. ASSUME link = p
        PROVE  LinkedFits(w)
    <3>1. txQueue = <<>>
      BY <1>1, <1>2, <1>6, <2>4 DEF PageFits
    <3> QED
      BY <1>1, <1>2, <2>2, <2>4, <3>1, BleConstants
      DEF LinkedFits, AuthIsLast, KeyedIsQuiet, Applied
  <2> QED
    BY <1>0, <1>1, <1>6, <2>1, <2>2, <2>3, <2>4, PageMoves DEF PageFits
<1> QED
  BY <1>3, <1>4, <1>5, <1>6 DEF TakeReply

LEMMA TimeOutKeeps ==
  ASSUME BleInv, NEW p \in Phones, TimeOut(p)
  PROVE  BleInv'
<1>1. /\ page[p].at \in Exchanges /\ page[p].written /\ page[p].got = NoReply
      /\ link # p \/ (~txPosted /\ host.at = "idle")
      /\ RunFails(p) /\ OnlyPage /\ hellos' = hellos
  BY DEF TimeOut, OnlyPage
<1>2. link = p => host.at = "idle" /\ (page[p].keyed => txQueue = <<>>)
  BY <1>1 DEF BleInv, LinkedFits, KeyedIsQuiet
<1> QED
  BY <1>1, <1>2, RunFailsKeeps

LEMMA LinkIsGoneKeeps ==
  ASSUME BleInv, NEW p \in Phones, LinkIsGone(p)
  PROVE  BleInv'
<1>1. page[p].at \in Exchanges /\ link # p /\ OnlyPage /\ hellos' = hellos
  BY DEF LinkIsGone, OnlyPage
<1>2. page[p] \in Pages /\ PageFits(page[p]) /\ hellos \in SessionIds
  BY SessionNumbers DEF BleInv
<1>3. CASE RunFails(p)
  BY <1>1, <1>3, RunFailsKeeps
<1>4. ASSUME page[p].at = "auth",
             Goes(p, [page[p] EXCEPT !.at = "wifi", !.keyed = TRUE, !.alone = TRUE])
      PROVE  BleInv'
  <2>1. PICK w : w = [page[p] EXCEPT !.at = "wifi", !.keyed = TRUE, !.alone = TRUE]
    OBVIOUS
  <2>2. w \in Pages /\ w.at = "wifi" /\ w.got = page[p].got /\ w.sid = page[p].sid
        /\ w.keyed /\ w.alone /\ w.net = page[p].net
    BY <1>2, <2>1 DEF Pages, Exchanges
  <2>3. PageFits(w)
    BY <1>2, <1>4, <2>2 DEF PageFits
  <2> QED
    BY <1>1, <1>2, <1>4, <2>1, <2>2, <2>3, PageMoves DEF PageFits
<1>5. ASSUME Goes(p, [page[p] EXCEPT !.at = "wait", !.alone = TRUE])
      PROVE  BleInv'
  <2>1. PICK w : w = [page[p] EXCEPT !.at = "wait", !.alone = TRUE]
    OBVIOUS
  <2>2. w \in Pages /\ w.at = "wait" /\ w.got = page[p].got /\ w.sid = page[p].sid /\ w.alone
    BY <1>2, <2>1 DEF Pages
  <2>3. PageFits(w)
    BY <1>2, <2>2 DEF PageFits
  <2> QED
    BY <1>1, <1>2, <1>5, <2>1, <2>2, <2>3, PageMoves DEF PageFits
<1> QED
  BY <1>3, <1>4, <1>5 DEF LinkIsGone

LEMMA WaitEndsKeeps ==
  ASSUME BleInv, NEW p \in Phones, WaitEnds(p)
  PROVE  BleInv'
<1>1. page[p].at = "wait" /\ OnlyPage /\ hellos' = hellos
  BY DEF WaitEnds, OnlyPage
<1>2. /\ page[p] \in Pages /\ PageFits(page[p]) /\ (link = p => LinkedFits(page[p]))
      /\ hellos \in SessionIds
  BY SessionNumbers DEF BleInv
<1>3. CASE RunFails(p)
  <2>1. link = p => host.at = "idle" /\ (page[p].keyed => txQueue = <<>>)
    BY <1>1, <1>2 DEF LinkedFits, KeyedIsQuiet, Applied
  <2> QED
    BY <1>1, <1>3, <2>1, RunFailsKeeps
<1>4. ASSUME Goes(p, [page[p] EXCEPT !.at = "done"])
      PROVE  BleInv'
  <2>1. PICK w : w = [page[p] EXCEPT !.at = "done"]
    OBVIOUS
  <2>2. /\ w \in Pages /\ w.at = "done" /\ w.got = page[p].got /\ w.sid = page[p].sid
        /\ w.keyed = page[p].keyed /\ w.alone = page[p].alone
    BY <1>2, <2>1 DEF Pages
  <2>3. PageFits(w)
    BY <1>2, <2>2 DEF PageFits
  <2>4. link = p => LinkedFits(w)
    BY <1>1, <1>2, <2>2 DEF LinkedFits, AuthIsLast, KeyedIsQuiet, Applied
  <2> QED
    BY <1>1, <1>2, <1>4, <2>1, <2>2, <2>3, <2>4, PageMoves DEF PageFits
<1> QED
  BY <1>3, <1>4 DEF WaitEnds

-----------------------------------------------------------------------------
(* The host task's steps                                                   *)

LEMMA FrameTypes ==
  /\ \A f \in Frames : f.reply \in Replies /\ f.index \in 0..(Parts - 1) /\ f.index \in Nat
  /\ \A r \in Replies : FramesOf(r.kind) \in 1..Parts
  /\ FramesOf("wifi") = 1 /\ FramesOf("auth") = Parts /\ FramesOf("hello") = Parts
  BY DEF Frames, FramesOf

\* The queue keeps what waits in it, and takes the frames of the reply there is room for.
LEMMA ReplyQueued ==
  ASSUME BleTypeOK, NEW r \in Replies, Queue(r)
  PROVE  /\ txQueue' \in Seq(Frames) /\ Len(txQueue') <= QueueSize /\ txPosted'
         /\ Len(txQueue') <= Len(txQueue) + FramesOf(r.kind)
         /\ \A i \in 1..Len(txQueue') :
              \/ i \in 1..Len(txQueue) /\ txQueue'[i] = txQueue[i]
              \/ /\ i > Len(txQueue) /\ txQueue'[i].reply = r
                 /\ txQueue'[i].index = i - Len(txQueue) - 1
<1> DEFINE n == FramesOf(r.kind)
           frames == [i \in 1..n |-> [reply |-> r, index |-> i - 1]]
           all == txQueue \o frames
<1>1. n \in Nat /\ n >= 1 /\ n <= Parts
  BY FrameTypes
<1>2. \A i \in 1..n : [reply |-> r, index |-> i - 1] \in Frames
  BY <1>1 DEF Frames
<1>3. /\ frames \in Seq(Frames) /\ Len(frames) = n
      /\ \A i \in 1..n : frames[i] = [reply |-> r, index |-> i - 1]
  <2>1. frames \in [1..n -> Frames] /\ \A i \in 1..n : frames[i] = [reply |-> r, index |-> i - 1]
    BY <1>2
  <2> HIDE DEF frames, n
  <2> QED
    BY <1>1, <2>1
<1>4. txQueue \in Seq(Frames) /\ Len(txQueue) \in Nat /\ Len(txQueue) <= QueueSize
  BY DEF BleTypeOK
<1> HIDE DEF frames, n
<1>5. /\ all \in Seq(Frames) /\ Len(all) = Len(txQueue) + n
      /\ \A i \in 1..Len(all) : all[i] = IF i <= Len(txQueue) THEN txQueue[i]
                                         ELSE frames[i - Len(txQueue)]
  <2>1. frames \in Seq(Frames) /\ Len(frames) = n
    BY <1>3
  <2>2. txQueue \in Seq(Frames)
    BY <1>4
  <2>3. /\ all \in Seq(Frames) /\ Len(all) = Len(txQueue) + Len(frames)
        /\ \A i \in 1..Len(txQueue) + Len(frames) :
             all[i] = IF i <= Len(txQueue) THEN txQueue[i] ELSE frames[i - Len(txQueue)]
    BY ONLY <2>1, <2>2, ConcatProperties
  <2> HIDE DEF all
  <2> QED
    BY <2>1, <2>3
<1>6. txQueue' = Fitting(all) /\ txPosted'
  BY DEF Queue, frames, n
<1> HIDE DEF all
<1>7. /\ txQueue' \in Seq(Frames) /\ Len(txQueue') <= QueueSize /\ Len(txQueue') <= Len(all)
      /\ \A i \in 1..Len(txQueue') : txQueue'[i] = all[i]
  <2>1. CASE Len(all) <= QueueSize
    BY <1>5, <1>6, <2>1 DEF Fitting
  <2>2. CASE Len(all) > QueueSize
    <3>1. txQueue' = SubSeq(all, 1, QueueSize)
      BY <1>1, <1>4, <1>5, <1>6, <2>2 DEF Fitting
    <3> QED
      BY <1>1, <1>4, <1>5, <2>2, <3>1
  <2> QED
    BY <1>1, <1>4, <1>5, <2>1, <2>2
<1>8. ASSUME NEW i \in 1..Len(txQueue')
      PROVE  \/ i \in 1..Len(txQueue) /\ txQueue'[i] = txQueue[i]
             \/ /\ i > Len(txQueue) /\ txQueue'[i].reply = r
                /\ txQueue'[i].index = i - Len(txQueue) - 1
  <2>1. i \in 1..Len(all) /\ txQueue'[i] = all[i]
    BY <1>1, <1>4, <1>5, <1>7
  <2>2. CASE i <= Len(txQueue)
    BY <1>4, <1>5, <2>1, <2>2
  <2>3. CASE i > Len(txQueue)
    <3>1. i - Len(txQueue) \in 1..n
      BY <1>1, <1>4, <1>5, <2>1, <2>3
    <3>2. txQueue'[i] = [reply |-> r, index |-> (i - Len(txQueue)) - 1]
      BY <1>3, <1>4, <1>5, <2>1, <2>3, <3>1
    <3> QED
      BY <2>3, <3>2
  <2> QED
    BY <1>4, <2>2, <2>3
<1> QED
  BY <1>5, <1>6, <1>7, <1>8 DEF n

\* A request of the page at the other end of the link changes that page only.
LEMMA HostMoves ==
  ASSUME BleInv, NEW p \in Phones, link = p, NEW w \in Pages, Goes(p, w),
         UNCHANGED <<inbox, link, advertising, hellos, flash, station, wifi, taken, latest, torn,
                     already>>,
         txQueue' \in Seq(Frames), Len(txQueue') <= QueueSize, txPosted' \in BOOLEAN,
         prov' \in {"NEW", "COMMISSIONING", "AUTHENTICATED", "CONNECTING", "ACTIVE", "FAILED"},
         prov' = "CONNECTING" => prov = "CONNECTING",
         hand' \in [sid : SessionIds, authed : BOOLEAN, key : SessionIds],
         host' \in HostMemos, host'.at # "pass", host.at # "pass",
         proven \subseteq proven', proven' \in SUBSET SessionIds,
         SessionsFit', PageFits(w)', LinkedFits(w)'
  PROVE  BleInv'
<1>1. /\ page' \in [Phones -> Pages] /\ page'[p] = w
      /\ \A q \in Phones \ {p} : page'[q] = page[q]
  BY Gone DEF BleInv
<1>2. BleTypeOK'
  BY <1>1 DEF BleInv, BleTypeOK, HostMemos
<1>3. ASSUME NEW q \in Phones
      PROVE  PageFits(page[q])' /\ (link' = q => LinkedFits(page[q])')
  <2>1. CASE q = p
    BY <1>1, <2>1 DEF PageFits, LinkedFits, AuthIsLast, KeyedIsQuiet, Applied
  <2>2. CASE q # p
    <3>1. page'[q] = page[q] /\ PageFits(page[q]) /\ link' # q
      BY <1>1, <2>2 DEF BleInv
    <3> QED
      BY <3>1 DEF PageFits
  <2> QED
    BY <2>1, <2>2
<1>4. link' # "none"
  BY BleConstants
<1>5. FlashFits' /\ FlashIsWhole' /\ OnlineIsTold'
  BY DEF BleInv, FlashFits, FlashIsWhole, OnlineIsTold
<1> QED
  BY <1>2, <1>3, <1>4, <1>5 DEF BleInv

\* The page that has written a request, and where it waits.
LEMMA Written ==
  ASSUME BleInv, NEW p \in Phones, link = p
  PROVE  /\ page[p] \in Pages /\ PageFits(page[p]) /\ LinkedFits(page[p])
         /\ [page[p] EXCEPT !.written = TRUE] \in Pages
         /\ \A w \in Pages : w = [page[p] EXCEPT !.written = TRUE] =>
              /\ w.written /\ w.at = page[p].at /\ w.got = page[p].got /\ w.sid = page[p].sid
              /\ w.net = page[p].net /\ w.keyed = page[p].keyed /\ w.alone = page[p].alone
              /\ w.chal = page[p].chal
  BY SessionNumbers DEF BleInv, Pages

LEMMA HandleHelloKeeps ==
  ASSUME BleInv, NEW p \in Phones, HandleHello(p)
  PROVE  BleInv'
<1> DEFINE r == Reply("hello", page[p].sid, TRUE)
<1>1. /\ page[p].at = "hello" /\ link = p /\ host.at = "idle" /\ host' = host
      /\ UNCHANGED <<inbox, link, advertising, hellos, flash, station, wifi, proven, taken, latest,
                     torn, already>>
      /\ hand' = [hand EXCEPT !.sid = page[p].sid] /\ prov' = "COMMISSIONING"
      /\ Goes(p, [page[p] EXCEPT !.written = TRUE]) /\ Queue(r)
  BY DEF HandleHello, Writes, Answers, wifiVars, noteVarsBle
<1>2. PICK w \in Pages : w = [page[p] EXCEPT !.written = TRUE]
  BY <1>1, Written
<1>3. /\ w.written /\ w.at = "hello" /\ w.got = page[p].got /\ w.sid = page[p].sid
      /\ w.net = page[p].net /\ w.keyed = page[p].keyed /\ w.alone = page[p].alone
      /\ PageFits(page[p]) /\ LinkedFits(page[p]) /\ page[p] \in Pages
  BY <1>1, <1>2, Written
<1>4. ~w.keyed /\ ~w.alone
  BY <1>1, <1>3 DEF LinkedFits, KeyedIsQuiet
<1>5. r \in Replies /\ r.kind = "hello" /\ page[p].sid \in SessionIds
  BY SessionNumbers DEF BleInv, Reply, Replies, Exchanges
<1> HIDE DEF r
<1>6. /\ txQueue' \in Seq(Frames) /\ Len(txQueue') <= QueueSize /\ txPosted'
      /\ \A i \in 1..Len(txQueue') : \/ i \in 1..Len(txQueue) /\ txQueue'[i] = txQueue[i]
                                   \/ txQueue'[i].reply = r
  <2> USE DEF BleInv
  <2> QED
    BY <1>1, <1>5, ReplyQueued
<1>7. hand' \in [sid : SessionIds, authed : BOOLEAN, key : SessionIds]
      /\ hand'.authed = hand.authed /\ hand'.key = hand.key
  BY <1>1, <1>5 DEF BleInv, BleTypeOK
<1>8. SessionsFit'
  BY <1>1, <1>5, <1>6, <1>7 DEF BleInv, SessionsFit
<1>9. PageFits(w)'
  BY <1>1, <1>3, <1>4 DEF PageFits
<1>10. LinkedFits(w)'
  <2>1. \A i \in 1..Len(txQueue') :
          ~(txQueue'[i].reply.kind = "auth" /\ txQueue'[i].reply.sid = w.sid)
    BY <1>1, <1>3, <1>5, <1>6 DEF LinkedFits, AuthIsLast
  <2>2. ~(w.got.kind = "auth" /\ w.got.sid = w.sid)
    BY <1>1, <1>3 DEF LinkedFits, AuthIsLast
  <2> QED
    BY <1>1, <1>4, <2>1, <2>2 DEF LinkedFits, AuthIsLast, KeyedIsQuiet, Applied
<1>11. host' \in HostMemos /\ proven' \in SUBSET SessionIds
  BY <1>1 DEF BleInv, BleTypeOK, HostMemos
<1> QED
  BY <1>1, <1>2, <1>6, <1>7, <1>8, <1>9, <1>10, <1>11, HostMoves

LEMMA HandleAuthKeeps ==
  ASSUME BleInv, NEW p \in Phones, HandleAuth(p)
  PROVE  BleInv'
<1>1. /\ page[p].at = "auth" /\ ~page[p].written /\ link = p /\ host.at = "idle" /\ host' = host
      /\ UNCHANGED <<inbox, link, advertising, hellos, flash, station, wifi, taken, latest, torn,
                     already>>
  BY DEF HandleAuth, Writes, wifiVars
<1>2. PageFits(page[p]) /\ LinkedFits(page[p]) /\ page[p] \in Pages /\ ~page[p].keyed
  BY <1>1, Written DEF LinkedFits, KeyedIsQuiet
<1>3. host' \in HostMemos /\ proven \in SUBSET SessionIds
      /\ hand \in [sid : SessionIds, authed : BOOLEAN, key : SessionIds]
      /\ txQueue \in Seq(Frames) /\ Len(txQueue) <= QueueSize /\ txPosted \in BOOLEAN
      /\ prov \in {"NEW", "COMMISSIONING", "AUTHENTICATED", "CONNECTING", "ACTIVE", "FAILED"}
  BY <1>1 DEF BleInv, BleTypeOK, HostMemos
<1>4. CASE Refuses(p) /\ UNCHANGED <<hand, proven>> /\ prov' \in {prov, "FAILED"}
  <2>1. PICK found \in BOOLEAN : Goes(p, Failed(p, found))
    BY <1>4 DEF Refuses, RunFails, Failed
  <2>2. PICK w \in Pages : w = Failed(p, found) /\ PageFits(w) /\ LinkedFits(w)
    BY <1>1, <1>2, FailedPageFits
  <2>3. UNCHANGED <<txQueue, txPosted>>
    BY <1>4 DEF Refuses, txVars
  <2>4. SessionsFit' /\ PageFits(w)' /\ LinkedFits(w)'
    BY <1>1, <1>4, <2>2, <2>3
    DEF BleInv, SessionsFit, PageFits, LinkedFits, AuthIsLast, KeyedIsQuiet, Applied
  <2> QED
    BY <1>1, <1>3, <1>4, <2>1, <2>2, <2>3, <2>4, HostMoves
<1>5. ASSUME ProofFits(p), hand' = [hand EXCEPT !.authed = TRUE, !.key = hand.sid],
             prov' = "AUTHENTICATED", proven' = proven \union {hand.sid},
             Answers(p, Reply("auth", hand.sid, TRUE))
      PROVE  BleInv'
  <2> DEFINE r == Reply("auth", hand.sid, TRUE)
  <2>1. PICK w \in Pages : w = [page[p] EXCEPT !.written = TRUE]
    BY <1>1, Written
  <2>2. /\ w.written /\ w.at = "auth" /\ w.got = page[p].got /\ w.sid = page[p].sid
        /\ w.net = page[p].net /\ w.keyed = page[p].keyed /\ w.alone = page[p].alone
    BY <1>1, <2>1, Written
  <2>3. r \in Replies /\ r.kind = "auth" /\ r.sid = hand.sid /\ hand.sid \in SessionIds
    BY <1>3 DEF Reply, Replies, Exchanges
  <2>4. Queue(r) /\ Goes(p, w) /\ hand.sid = page[p].sid
    BY <1>5, <2>1 DEF Answers, ProofFits
  <2> HIDE DEF r
  <2>5. /\ txQueue' \in Seq(Frames) /\ Len(txQueue') <= QueueSize /\ txPosted'
        /\ Len(txQueue') <= Len(txQueue) + Parts
        /\ \A i \in 1..Len(txQueue') :
             \/ i \in 1..Len(txQueue) /\ txQueue'[i] = txQueue[i]
             \/ txQueue'[i].reply = r /\ txQueue'[i].index = i - Len(txQueue) - 1
    BY <2>3, <2>4, ReplyQueued, FrameTypes DEF BleInv
  <2>6. hand' \in [sid : SessionIds, authed : BOOLEAN, key : SessionIds]
        /\ hand'.key = hand.sid /\ hand'.authed
    BY <1>3, <1>5, <2>3
  <2>7. SessionsFit'
    <3>1. \A s \in proven' : s <= hellos'
      BY <1>1, <1>2, <1>5, <2>4 DEF BleInv, SessionsFit, PageFits
    <3>2. \A i \in 1..Len(txQueue') :
            /\ txQueue'[i].reply.kind = "auth" => txQueue'[i].reply.sid \in proven'
            /\ txQueue'[i].reply.kind = "wifi" => txQueue'[i].index = 0
      BY <1>5, <2>3, <2>5 DEF BleInv, SessionsFit
    <3> QED
      BY <1>1, <1>5, <2>6, <3>1, <3>2 DEF BleInv, SessionsFit
  <2>8. PageFits(w)'
    BY <1>1, <1>2, <1>5, <2>2 DEF PageFits
  <2>9. LinkedFits(w)'
    <3>1. ~(w.got.kind = "auth" /\ w.got.sid = w.sid)
      BY <1>1, <1>2, <2>2 DEF LinkedFits, AuthIsLast
    <3>2. ASSUME NEW i \in 1..Len(txQueue'), txQueue'[i].reply.kind = "auth",
                 txQueue'[i].reply.sid = w.sid, txQueue'[i].index = Parts - 1
          PROVE  i = Len(txQueue')
      <4>1. ~(i \in 1..Len(txQueue) /\ txQueue'[i] = txQueue[i])
        BY <1>1, <1>2, <2>2, <3>2 DEF LinkedFits, AuthIsLast
      <4>2. Parts - 1 = i - Len(txQueue) - 1
        BY <2>5, <3>2, <4>1
      <4>3. Len(txQueue) \in Nat /\ Len(txQueue') \in Nat /\ Parts \in Nat /\ i <= Len(txQueue')
        BY <1>3, <2>5
      <4> QED
        BY <2>5, <4>2, <4>3
    <3> QED
      BY <1>1, <1>2, <2>2, <3>1, <3>2 DEF LinkedFits, AuthIsLast, KeyedIsQuiet, Applied
  <2> QED
    BY <1>1, <1>3, <1>5, <2>3, <2>4, <2>5, <2>6, <2>7, <2>8, <2>9, HostMoves
<1> QED
  BY <1>3, <1>4, <1>5 DEF HandleAuth

LEMMA HandleWifiKeeps ==
  ASSUME BleInv, NEW p \in Phones, HandleWifi(p)
  PROVE  BleInv'
<1>1. /\ page[p].at = "wifi" /\ ~page[p].written /\ link = p /\ host.at = "idle"
      /\ UNCHANGED <<inbox, link, advertising, hellos, hand, flash, station, wifi, proven, taken,
                     latest, torn, already>>
  BY DEF HandleWifi, Writes, wifiVars, noteVarsBle
<1>2. PageFits(page[p]) /\ LinkedFits(page[p]) /\ page[p] \in Pages
  BY <1>1, Written
<1>3. page[p].keyed /\ ~page[p].alone /\ txQueue = <<>> /\ page[p].got = NoReply
  BY <1>1, <1>2 DEF PageFits, LinkedFits, KeyedIsQuiet
<1>4. /\ host \in HostMemos /\ proven \in SUBSET SessionIds
      /\ hand \in [sid : SessionIds, authed : BOOLEAN, key : SessionIds]
      /\ txQueue \in Seq(Frames) /\ Len(txQueue) <= QueueSize /\ txPosted \in BOOLEAN
      /\ prov \in {"NEW", "COMMISSIONING", "AUTHENTICATED", "CONNECTING", "ACTIVE", "FAILED"}
  BY DEF BleInv, BleTypeOK, HostMemos
<1>5. CASE Refuses(p) /\ host' = host /\ prov' \in {prov, "FAILED"}
  <2>1. PICK found \in BOOLEAN : Goes(p, Failed(p, found))
    BY <1>5 DEF Refuses, RunFails, Failed
  <2>2. PICK w \in Pages : w = Failed(p, found) /\ PageFits(w) /\ LinkedFits(w)
    BY <1>1, <1>3, FailedPageFits
  <2>3. UNCHANGED <<txQueue, txPosted>>
    BY <1>5 DEF Refuses, txVars
  <2>4. SessionsFit' /\ PageFits(w)' /\ LinkedFits(w)'
    BY <1>1, <1>5, <2>2, <2>3
    DEF BleInv, SessionsFit, PageFits, LinkedFits, AuthIsLast, KeyedIsQuiet, Applied
  <2> QED
    BY <1>1, <1>4, <1>5, <2>1, <2>2, <2>3, <2>4, HostMoves
<1>6. PICK w \in Pages : w = [page[p] EXCEPT !.written = TRUE]
  BY <1>1, Written
<1>7. /\ w.written /\ w.at = "wifi" /\ w.got = NoReply /\ w.sid = page[p].sid
      /\ w.net = page[p].net /\ w.keyed /\ ~w.alone
  BY <1>1, <1>3, <1>6, Written
<1>8. PageFits(w)'
  BY <1>1, <1>2, <1>3, <1>7, BleConstants DEF PageFits
<1>9. ASSUME prov' = "FAILED", Answers(p, Reply("wifi", hand.sid, FALSE)), host' = host
      PROVE  BleInv'
  <2> DEFINE r == Reply("wifi", hand.sid, FALSE)
  <2>1. r \in Replies /\ r.kind = "wifi" /\ ~r.ok
    BY <1>4 DEF Reply, Replies, Exchanges
  <2>2. Queue(r) /\ Goes(p, w)
    BY <1>6, <1>9 DEF Answers
  <2> HIDE DEF r
  <2>3. /\ txQueue' \in Seq(Frames) /\ Len(txQueue') <= QueueSize /\ txPosted'
        /\ Len(txQueue') <= 1
        /\ \A i \in 1..Len(txQueue') : txQueue'[i].reply = r /\ txQueue'[i].index = i - 1
    <3>1. Len(txQueue) = 0
      BY <1>3
    <3>2. \A i \in 1..Len(txQueue') :
            \/ i \in 1..Len(txQueue) /\ txQueue'[i] = txQueue[i]
            \/ /\ i > Len(txQueue) /\ txQueue'[i].reply = r
               /\ txQueue'[i].index = i - Len(txQueue) - 1
      BY <2>1, <2>2, ReplyQueued DEF BleInv
    <3>3. /\ txQueue' \in Seq(Frames) /\ Len(txQueue') <= QueueSize /\ txPosted'
          /\ Len(txQueue') <= Len(txQueue) + 1
      BY <2>1, <2>2, ReplyQueued, FrameTypes DEF BleInv
    <3> QED
      BY <3>1, <3>2, <3>3
  <2>4. SessionsFit'
    BY <1>1, <1>9, <2>1, <2>3 DEF BleInv, SessionsFit
  <2>5. LinkedFits(w)'
    <3>1. txQueue' # <<>> => Len(txQueue') = 1
      <4>1. Len(txQueue') \in Nat /\ (Len(txQueue') = 0 => txQueue' = <<>>)
        BY <2>3, EmptySeq
      <4>2. Len(txQueue') <= 1
        BY <2>3
      <4>3. \A n \in Nat : n <= 1 => n = 0 \/ n = 1
        OBVIOUS
      <4> QED
        BY <4>1, <4>2, <4>3
    <3>2. txQueue' # <<>> => txQueue'[1].reply = r
      BY <2>3, <3>1
    <3> QED
      BY <1>1, <1>7, <1>9, <2>1, <2>3, <3>1, <3>2, BleConstants
      DEF LinkedFits, AuthIsLast, KeyedIsQuiet, Applied
  <2> QED
    BY <1>1, <1>4, <1>8, <1>9, <2>2, <2>3, <2>4, <2>5, HostMoves
<1>10. ASSUME TakesWifi, Decrypts(p), UNCHANGED prov, UNCHANGED txVars,
              host' = [at |-> "ssid", net |-> page[p].net, sid |-> hand.sid],
              Goes(p, [page[p] EXCEPT !.written = TRUE])
       PROVE  BleInv'
  <2>1. UNCHANGED <<txQueue, txPosted>>
    BY <1>10 DEF txVars
  <2>2. /\ host' \in HostMemos /\ host'.at = "ssid" /\ host'.net = w.net /\ host'.sid = w.sid
        /\ host'.sid \in proven
    <3>1. hand.sid = page[p].sid /\ hand.sid \in proven
      BY <1>10 DEF Decrypts, TakesWifi, BleInv, SessionsFit
    <3> QED
      BY <1>2, <1>4, <1>7, <1>10, <3>1 DEF HostMemos, Pages
  <2>3. SessionsFit'
    BY <1>1, <2>1, <2>2 DEF BleInv, SessionsFit
  <2>4. LinkedFits(w)'
    BY <1>3, <1>7, <2>1, <2>2, BleConstants DEF LinkedFits, AuthIsLast, KeyedIsQuiet, Applied
  <2> QED
    BY <1>1, <1>4, <1>6, <1>8, <1>10, <2>1, <2>2, <2>3, <2>4, HostMoves
<1> QED
  BY <1>4, <1>5, <1>9, <1>10 DEF HandleWifi

\* Steps that leave the pages, the link and the queue.
LEMMA PagesStay ==
  ASSUME BleInv, UNCHANGED <<page, link, txQueue, txPosted, hellos, proven>>,
         taken \subseteq taken',
         \A w \in Pages : Applied(w) => Applied(w)'
  PROVE  \A p \in Phones : PageFits(page[p])' /\ (link' = p => LinkedFits(page[p])')
<1> SUFFICES ASSUME NEW p \in Phones
             PROVE  PageFits(page[p])' /\ (link' = p => LinkedFits(page[p])')
  OBVIOUS
<1>1. PICK w \in Pages : w = page[p] /\ PageFits(w) /\ (link = p => LinkedFits(w))
  BY SessionNumbers DEF BleInv
<1>2. page'[p] = w
  BY <1>1
<1>3. PageFits(w)'
  BY <1>1 DEF PageFits
<1>4. link = p => LinkedFits(w)'
  BY <1>1 DEF LinkedFits, AuthIsLast, KeyedIsQuiet
<1>5. PageFits(page[p])'
  BY <1>2, <1>3 DEF PageFits
<1>6. link' = p => LinkedFits(page[p])'
  BY <1>2, <1>4 DEF LinkedFits, AuthIsLast, KeyedIsQuiet, Applied
<1> QED
  BY <1>5, <1>6

\* What the host task applies is of a proved session, and of the page at the other end.
LEMMA AppliesFits ==
  ASSUME BleInv, host.at # "idle"
  PROVE  /\ host \in HostMemos /\ host.net \in Networks /\ host.sid \in proven
         /\ txQueue = <<>> /\ link \in Phones /\ link # "none"
         /\ page[link] \in Pages /\ PageFits(page[link]) /\ LinkedFits(page[link])
         /\ Applied(page[link])
<1>1. link \in Phones /\ link # "none" /\ host \in HostMemos /\ host.sid \in proven
  BY BleConstants DEF BleInv, BleTypeOK, SessionsFit, HostMemos
<1>2. /\ page[link] \in Pages /\ PageFits(page[link]) /\ LinkedFits(page[link])
      /\ Applied(page[link])
  BY <1>1, SessionNumbers DEF BleInv, LinkedFits
<1> QED
  BY <1>1, <1>2 DEF Applied, PageFits

LEMMA StoreSsidKeeps ==
  ASSUME BleInv, StoreSsid
  PROVE  BleInv'
<1>1. /\ host.at = "ssid" /\ host' = [host EXCEPT !.at = "pass"]
      /\ flash' = [flash EXCEPT !.ssid = host.net]
      /\ UNCHANGED <<page, inbox, link, advertising, prov, hand, station, wifi, hellos, txQueue,
                     txPosted, proven, taken, latest, torn, already>>
  BY DEF StoreSsid, Applies, txVars, noteVarsBle
<1>2. host \in HostMemos /\ host.net \in Networks /\ host.sid \in proven /\ link # "none"
  BY <1>1, AppliesFits
<1>3. /\ host' \in HostMemos /\ host'.at = "pass" /\ host'.net = host.net
      /\ host'.sid = host.sid
  BY <1>1, <1>2 DEF HostMemos
<1>4. flash' \in Credentials /\ flash'.ssid = host.net
  BY <1>1, <1>2 DEF BleInv, BleTypeOK, Credentials
<1>5. BleTypeOK'
  BY <1>1, <1>3, <1>4 DEF BleInv, BleTypeOK, HostMemos, Credentials
<1>6. \A p \in Phones : PageFits(page[p])' /\ (link' = p => LinkedFits(page[p])')
  <2>1. \A w \in Pages : Applied(w) => Applied(w)'
    BY <1>1, <1>3 DEF Applied
  <2> QED
    BY <1>1, <2>1, PagesStay
<1>7. SessionsFit' /\ FlashFits' /\ FlashIsWhole' /\ OnlineIsTold'
  BY <1>1, <1>2, <1>3, <1>4 DEF BleInv, SessionsFit, FlashFits, FlashIsWhole, OnlineIsTold
<1> QED
  BY <1>1, <1>2, <1>5, <1>6, <1>7 DEF BleInv

LEMMA StorePassKeeps ==
  ASSUME BleInv, StorePass
  PROVE  BleInv'
<1> DEFINE t == [sid |-> host.sid, net |-> host.net]
<1>1. /\ host.at = "pass" /\ host' = [host EXCEPT !.at = "start"]
      /\ flash' = [flash EXCEPT !.pass = host.net]
      /\ taken' = taken \union {t} /\ latest' = host.net /\ torn' = FALSE
      /\ UNCHANGED <<page, inbox, link, advertising, prov, hand, station, wifi, hellos, txQueue,
                     txPosted, proven, already>>
  BY DEF StorePass, Applies, txVars
<1>2. host \in HostMemos /\ host.net \in Networks /\ host.sid \in proven /\ link # "none"
  BY <1>1, AppliesFits
<1>3. /\ host' \in HostMemos /\ host'.at = "start" /\ host'.net = host.net
      /\ host'.sid = host.sid
  BY <1>1, <1>2 DEF HostMemos
<1>4. flash' \in Credentials /\ flash'.ssid = flash.ssid /\ flash'.pass = host.net
  BY <1>1, <1>2 DEF BleInv, BleTypeOK, Credentials
<1>5. t \in [sid : SessionIds, net : Networks] /\ t.sid \in proven /\ t \in taken'
      /\ t = [sid |-> host'.sid, net |-> host'.net]
  BY <1>1, <1>2, <1>3 DEF HostMemos
<1> HIDE DEF t
<1>6. BleTypeOK'
  <2>1. taken' \in SUBSET [sid : SessionIds, net : Networks]
    BY <1>1, <1>5 DEF BleInv, BleTypeOK
  <2>2. /\ host' \in HostMemos /\ flash' \in Credentials
        /\ latest' \in Networks \union {"none"} /\ torn' \in BOOLEAN
    BY <1>1, <1>2, <1>3, <1>4
  <2>3. UNCHANGED <<page, inbox, link, advertising, prov, hand, station, wifi, hellos, txQueue,
                    txPosted, proven, already>>
    BY <1>1
  <2> QED
    BY <2>1, <2>2, <2>3 DEF BleInv, BleTypeOK, HostMemos, Credentials
<1>7. \A p \in Phones : PageFits(page[p])' /\ (link' = p => LinkedFits(page[p])')
  <2>1. \A w \in Pages : Applied(w) => Applied(w)'
    BY <1>1, <1>3, <1>5 DEF Applied
  <2> QED
    BY <1>1, <2>1, PagesStay
<1>8. SessionsFit'
  BY <1>1, <1>2, <1>3, <1>5 DEF BleInv, SessionsFit
<1>9. FlashFits' /\ FlashIsWhole' /\ OnlineIsTold'
  BY <1>1, <1>2, <1>3, <1>4 DEF BleInv, FlashFits, FlashIsWhole, OnlineIsTold
<1> QED
  BY <1>1, <1>2, <1>6, <1>7, <1>8, <1>9 DEF BleInv

LEMMA StartWifiKeeps ==
  ASSUME BleInv, StartWifi
  PROVE  BleInv'
<1>1. /\ host.at = "start" /\ host' = [host EXCEPT !.at = "end"]
      /\ station' \in {[ssid |-> host.net, pass |-> host.net], station}
      /\ wifi' \in {wifi, "trying"}
      /\ UNCHANGED <<page, inbox, link, advertising, prov, hand, flash, hellos, txQueue,
                     txPosted, proven, taken, latest, torn, already>>
  BY DEF StartWifi, Applies, txVars, noteVarsBle
<1>2. host \in HostMemos /\ host.net \in Networks /\ host.sid \in proven /\ link # "none"
  BY <1>1, AppliesFits
<1>3. /\ host' \in HostMemos /\ host'.at = "end" /\ host'.net = host.net
      /\ host'.sid = host.sid
  BY <1>1, <1>2 DEF HostMemos
<1>4. station' \in Credentials
  BY <1>1, <1>2 DEF BleInv, BleTypeOK, Credentials
<1>5. BleTypeOK'
  BY <1>1, <1>3, <1>4 DEF BleInv, BleTypeOK, HostMemos, Credentials
<1>6. \A p \in Phones : PageFits(page[p])' /\ (link' = p => LinkedFits(page[p])')
  <2>1. \A w \in Pages : Applied(w) => Applied(w)'
    BY <1>1, <1>3 DEF Applied
  <2> QED
    BY <1>1, <2>1, PagesStay
<1>7. SessionsFit' /\ FlashFits' /\ FlashIsWhole' /\ OnlineIsTold'
  BY <1>1, <1>2, <1>3 DEF BleInv, SessionsFit, FlashFits, FlashIsWhole, OnlineIsTold
<1> QED
  BY <1>1, <1>2, <1>5, <1>6, <1>7 DEF BleInv

LEMMA WifiTakenKeeps ==
  ASSUME BleInv, WifiTaken
  PROVE  BleInv'
<1> DEFINE r == Reply("wifi", host.sid, TRUE)
<1>1. /\ host.at = "end" /\ host' = HostIdle /\ prov' = "CONNECTING" /\ already' = (wifi = "up")
      /\ Queue(r)
      /\ UNCHANGED <<page, inbox, link, advertising, hand, flash, station, wifi, hellos, proven,
                     taken, latest, torn>>
  BY DEF WifiTaken, wifiVars
<1>2. /\ host \in HostMemos /\ host.sid \in proven /\ link # "none" /\ link \in Phones
      /\ txQueue = <<>>
  BY <1>1, AppliesFits
<1>3. r \in Replies /\ r.kind = "wifi"
  BY <1>2 DEF Reply, Replies, Exchanges, HostMemos
<1> HIDE DEF r
<1>4. /\ txQueue' \in Seq(Frames) /\ Len(txQueue') <= QueueSize /\ txPosted'
      /\ Len(txQueue') <= 1 /\ Len(txQueue') \in Nat
      /\ \A i \in 1..Len(txQueue') : txQueue'[i].reply = r /\ txQueue'[i].index = i - 1
  <2>1. Len(txQueue) = 0
    BY <1>2
  <2>2. /\ txQueue' \in Seq(Frames) /\ Len(txQueue') <= QueueSize /\ txPosted'
        /\ Len(txQueue') <= Len(txQueue) + 1
        /\ \A i \in 1..Len(txQueue') :
             \/ i \in 1..Len(txQueue) /\ txQueue'[i] = txQueue[i]
             \/ /\ i > Len(txQueue) /\ txQueue'[i].reply = r
                /\ txQueue'[i].index = i - Len(txQueue) - 1
    BY <1>1, <1>3, ReplyQueued, FrameTypes DEF BleInv
  <2> QED
    BY <2>1, <2>2
<1>5. BleTypeOK'
  BY <1>1, <1>4, BleConstants DEF BleInv, BleTypeOK, HostMemos
<1>6. SessionsFit'
  BY <1>1, <1>3, <1>4, BleConstants DEF BleInv, SessionsFit
<1>7. ASSUME NEW p \in Phones
      PROVE  PageFits(page[p])' /\ (link' = p => LinkedFits(page[p])')
  <2>1. PICK w \in Pages : w = page[p] /\ PageFits(w) /\ (link = p => LinkedFits(w))
    BY SessionNumbers DEF BleInv
  <2>2. page'[p] = w
    BY <1>1, <2>1
  <2>3. PageFits(w)'
    BY <1>1, <2>1 DEF PageFits
  <2>4. ASSUME link = p
        PROVE  LinkedFits(w)'
    <3>1. /\ w.at = "wifi" /\ w.written /\ w.got = NoReply /\ w.keyed /\ ~w.alone
          /\ [sid |-> w.sid, net |-> w.net] \in taken
      BY <1>1, <2>1, <2>4 DEF LinkedFits, Applied, PageFits
    <3>2. txQueue' # <<>> => Len(txQueue') = 1 /\ txQueue'[1].reply = r
      <4>1. Len(txQueue') = 0 => txQueue' = <<>>
        BY <1>4, EmptySeq
      <4>2. \A n \in Nat : n <= 1 => n = 0 \/ n = 1
        OBVIOUS
      <4>3. txQueue' # <<>> => Len(txQueue') = 1
        BY <1>4, <4>1, <4>2
      <4>4. Len(txQueue') = 1 => txQueue'[1].reply = r
        BY <1>4
      <4> QED
        BY <4>3, <4>4
    <3>3. AuthIsLast(w)'
      BY <1>3, <1>4, <3>1, BleConstants DEF AuthIsLast
    <3>4. KeyedIsQuiet(w)'
      BY <1>1, <1>3, <1>4, <3>1, <3>2 DEF KeyedIsQuiet
    <3> QED
      BY <1>1, <3>1, <3>3, <3>4, BleConstants DEF LinkedFits, Applied
  <2>5. PageFits(page[p])'
    BY <2>2, <2>3 DEF PageFits
  <2>6. link' = p => LinkedFits(page[p])'
    BY <1>1, <2>2, <2>4 DEF LinkedFits, AuthIsLast, KeyedIsQuiet, Applied
  <2> QED
    BY <2>5, <2>6
<1>8. FlashFits' /\ FlashIsWhole' /\ OnlineIsTold'
  BY <1>1, BleConstants DEF BleInv, FlashFits, FlashIsWhole, OnlineIsTold
<1> QED
  BY <1>1, <1>2, <1>5, <1>6, <1>7, <1>8 DEF BleInv

\* The frames joined end with the last one received, and are as many as its place says.
LEMMA JoinedFits ==
  ASSUME BleTypeOK, NEW f \in Frames
  PROVE  /\ Joined(f) \in Seq(Frames)
         /\ Joined(f) # <<>> => Len(Joined(f)) = f.index + 1 /\ Joined(f)[f.index + 1] = f
<1>1. inbox \in Seq(Frames) /\ f.index \in Nat
  BY FrameTypes DEF BleTypeOK
<1>2. CASE f.index = 0
  <2>1. Joined(f) = <<f>>
    BY <1>2 DEF Joined
  <2> QED
    BY <1>2, <2>1
<1>3. CASE f.index # 0 /\ Joined(f) = <<>>
  BY <1>3
<1>4. CASE f.index # 0 /\ Joined(f) # <<>>
  <2>1. Joined(f) = Append(inbox, f) /\ f.index = Len(inbox)
    BY <1>4 DEF Joined
  <2> QED
    BY <1>1, <2>1
<1> QED
  BY <1>2, <1>3, <1>4

LEMMA WholeReplyFits ==
  ASSUME NEW frames \in Seq(Frames), NEW n \in 1..Len(frames)
  PROVE  /\ WholeReply(frames) \in {frames[n].reply, Reply("garbled", 0, FALSE)}
         /\ WholeReply(frames) \in Replies
<1>1. frames[1] \in Frames /\ frames[n] \in Frames /\ 1 \in 1..Len(frames)
  OBVIOUS
<1>2. WholeReply(frames) \in {frames[n].reply, Reply("garbled", 0, FALSE)}
  BY <1>1 DEF WholeReply
<1> QED
  BY <1>1, <1>2, FrameTypes, BleConstants

\* What a frame received makes of the reply of the page at the other end.
LEMMA Received ==
  ASSUME BleInv, NEW f \in Frames, Receive(f), f.reply.kind = "wifi" => f.index = 0
  PROVE  /\ inbox' \in Seq(Frames) /\ Len(inbox') < Parts
         /\ \/ page' = page
            \/ /\ link \in Phones
               /\ page[link].at \in Exchanges /\ page[link].got = NoReply
               /\ \E g \in Replies :
                    /\ g \in {f.reply, Reply("garbled", 0, FALSE)}
                    /\ f.index + 1 = FramesOf(f.reply.kind)
                    /\ Goes(link, [page[link] EXCEPT !.got = g])
<1> DEFINE all == Joined(f)
<1>1. /\ all \in Seq(Frames) /\ f.index \in Nat /\ f.index <= Parts - 1 /\ f.reply \in Replies
      /\ all # <<>> => Len(all) = f.index + 1 /\ all[f.index + 1] = f
      /\ link \in Phones \union {"none"} /\ page \in [Phones -> Pages]
  BY JoinedFits, FrameTypes DEF BleInv, BleTypeOK
<1>2. CASE all # <<>> /\ Len(all) = FramesOf(f.reply.kind)
  <2>1. inbox' = <<>>
    BY <1>2 DEF Receive
  <2>2. inbox' \in Seq(Frames) /\ Len(inbox') < Parts
    BY <2>1
  <2>3. CASE page' = page
    BY <2>2, <2>3
  <2>4. CASE page' # page
    <3>1. page' = [page EXCEPT ![link].got = IF page[link].at \in Exchanges /\ @ = NoReply
                                             THEN WholeReply(all) ELSE @]
      BY <1>2 DEF Receive
    <3>2. link \in Phones
      BY <1>1, <2>4, <3>1, BleConstants
    <3>3. page[link].at \in Exchanges /\ page[link].got = NoReply
      BY <1>1, <2>4, <3>1, <3>2 DEF Pages
    <3>4. page' = [page EXCEPT ![link] = [page[link] EXCEPT !.got = WholeReply(all)]]
      BY <1>1, <3>1, <3>2, <3>3
    <3>5. f.index + 1 \in 1..Len(all)
      BY <1>1, <1>2
    <3> HIDE DEF all
    <3>6. /\ WholeReply(all) \in {f.reply, Reply("garbled", 0, FALSE)}
          /\ WholeReply(all) \in Replies
      BY <1>1, <1>2, <3>5, WholeReplyFits
    <3> QED
      BY <1>1, <1>2, <2>2, <3>2, <3>3, <3>4, <3>6 DEF Goes
  <2> QED
    BY <2>3, <2>4
<1>3. CASE ~(all # <<>> /\ Len(all) = FramesOf(f.reply.kind))
  <2>1. inbox' = all /\ page' = page
    BY <1>3 DEF Receive
  <2>2. CASE all = <<>>
    BY <1>1, <2>1, <2>2
  <2>3. CASE all # <<>>
    <3>1. Len(all) = f.index + 1 /\ f.index + 1 # FramesOf(f.reply.kind)
      BY <1>1, <1>3, <2>3
    <3>2. f.index + 1 # Parts
      BY <3>1 DEF FramesOf
    <3> QED
      BY <1>1, <2>1, <3>1, <3>2
  <2> QED
    BY <2>2, <2>3
<1> QED
  BY <1>2, <1>3

\* Without its first frame the queue holds what it held, one place nearer.
LEMMA QueueTail ==
  ASSUME BleTypeOK, txQueue # <<>>
  PROVE  /\ Head(txQueue) \in Frames /\ Head(txQueue) = txQueue[1] /\ 1 \in 1..Len(txQueue)
         /\ Tail(txQueue) \in Seq(Frames) /\ Len(Tail(txQueue)) = Len(txQueue) - 1
         /\ Len(txQueue) \in Nat
         /\ \A i \in 1..Len(Tail(txQueue)) : /\ i + 1 \in 1..Len(txQueue)
                                            /\ Tail(txQueue)[i] = txQueue[i + 1]
         /\ Len(txQueue) = 1 => Tail(txQueue) = <<>>
<1>1. txQueue \in Seq(Frames) /\ Len(txQueue) \in Nat /\ Len(txQueue) # 0
  BY EmptySeq DEF BleTypeOK
<1>2. /\ Tail(txQueue) \in Seq(Frames) /\ Len(Tail(txQueue)) = Len(txQueue) - 1
      /\ Head(txQueue) = txQueue[1] /\ 1 \in 1..Len(txQueue)
      /\ \A i \in 1..Len(Tail(txQueue)) : Tail(txQueue)[i] = txQueue[i + 1]
  BY <1>1
<1>3. Len(Tail(txQueue)) = 0 => Tail(txQueue) = <<>>
  BY <1>2, EmptySeq
<1>4. \A i \in 1..Len(Tail(txQueue)) : i + 1 \in 1..Len(txQueue)
  BY <1>1, <1>2
<1> QED
  BY <1>1, <1>2, <1>3, <1>4

SentFrame ==
    /\ txPosted /\ host.at = "idle" /\ txQueue # <<>>
    /\ UNCHANGED <<link, advertising, prov, hand, host, flash, station, wifi, hellos, proven,
                   taken, latest, torn, already>>
    /\ txQueue' = Tail(txQueue) /\ txPosted' \in BOOLEAN
    /\ inbox' \in Seq(Frames) /\ Len(inbox') < Parts

LEMMA SentFits ==
  ASSUME BleInv, SentFrame, page' \in [Phones -> Pages],
         \A p \in Phones : PageFits(page[p])' /\ (link' = p => LinkedFits(page[p])')
  PROVE  BleInv'
<1>1. BleTypeOK'
  BY QueueTail DEF BleInv, BleTypeOK, SentFrame
<1>2. SessionsFit'
  <2>1. \A i \in 1..Len(txQueue') : i + 1 \in 1..Len(txQueue) /\ txQueue'[i] = txQueue[i + 1]
    BY QueueTail DEF BleInv, SentFrame
  <2> QED
    BY <2>1 DEF BleInv, SessionsFit, SentFrame
<1>3. FlashFits' /\ FlashIsWhole' /\ OnlineIsTold'
  BY DEF BleInv, FlashFits, FlashIsWhole, OnlineIsTold, SentFrame
<1> QED
  BY <1>1, <1>2, <1>3 DEF BleInv, SentFrame

\* A frame sent leaves a page that fits as it was, or with the reply it completes.
LEMMA SentLeaves ==
  ASSUME BleInv, SentFrame, NEW w \in Pages, LinkedFits(w)
  PROVE  LinkedFits(w)'
<1>1. /\ Tail(txQueue) = txQueue' /\ Len(txQueue') = Len(txQueue) - 1 /\ Len(txQueue) \in Nat
      /\ \A i \in 1..Len(txQueue') : i + 1 \in 1..Len(txQueue) /\ txQueue'[i] = txQueue[i + 1]
      /\ Len(txQueue) = 1 => txQueue' = <<>>
      /\ txQueue # <<>> /\ host.at = "idle" /\ host' = host /\ taken' = taken
  BY QueueTail DEF BleInv, SentFrame
<1>2. AuthIsLast(w)'
  <2>1. \A i \in 1..Len(txQueue') : i + 1 = Len(txQueue) => i = Len(txQueue')
    BY <1>1
  <2> QED
    BY <1>1, <2>1 DEF LinkedFits, AuthIsLast
<1>3. KeyedIsQuiet(w)'
  BY <1>1 DEF LinkedFits, KeyedIsQuiet
<1> QED
  BY <1>1, <1>2, <1>3 DEF LinkedFits, Applied

LEMMA SentCompletes ==
  ASSUME BleInv, SentFrame, NEW w \in Pages, LinkedFits(w), PageFits(w),
         w.at \in Exchanges, w.got = NoReply,
         NEW g \in Replies, g \in {Head(txQueue).reply, Reply("garbled", 0, FALSE)},
         Head(txQueue).index + 1 = FramesOf(Head(txQueue).reply.kind),
         NEW x \in Pages, x = [w EXCEPT !.got = g]
  PROVE  PageFits(x)' /\ LinkedFits(x)'
<1> DEFINE f == Head(txQueue)
<1>1. /\ Tail(txQueue) = txQueue' /\ Len(txQueue') = Len(txQueue) - 1 /\ Len(txQueue) \in Nat
      /\ Len(txQueue) = 1 => txQueue' = <<>>
      /\ txQueue # <<>> /\ host.at = "idle" /\ host' = host /\ taken' = taken /\ proven' = proven
      /\ hellos' = hellos /\ f = txQueue[1] /\ 1 \in 1..Len(txQueue) /\ f \in Frames
  BY QueueTail DEF BleInv, SentFrame
<1>2. /\ x.at = w.at /\ x.written = w.written /\ x.got = g /\ x.sid = w.sid /\ x.net = w.net
      /\ x.keyed = w.keyed /\ x.alone = w.alone
  BY DEF Pages
<1>3. g = f.reply \/ g.kind = "garbled"
  BY DEF Reply
<1> HIDE DEF f
<1>4. g.kind = "auth" => g.sid \in proven
  BY <1>1, <1>3 DEF BleInv, SessionsFit
<1>5. LinkedFits(w)'
  BY SentLeaves
<1>6. w.keyed => /\ w.at = "wifi" /\ w.written /\ txQueue' = <<>> /\ f.reply.kind = "wifi"
                 /\ f.reply.ok => [sid |-> w.sid, net |-> w.net] \in taken
  BY <1>1 DEF LinkedFits, KeyedIsQuiet
<1>7. PageFits(x)'
  BY <1>1, <1>2, <1>3, <1>4, <1>6 DEF PageFits, Exchanges
<1>8. AuthIsLast(x)'
  <2>1. ASSUME g.kind = "auth", g.sid = w.sid
        PROVE  w.at = "auth" /\ w.written /\ txQueue' = <<>>
    <3>1. f.reply = g /\ f.index + 1 = Parts
      BY <1>3, <2>1 DEF f, FramesOf
    <3>2. f.index \in Nat
      BY <1>1, FrameTypes
    <3>3. f.index = Parts - 1
      BY <3>1, <3>2
    <3>4. 1 = Len(txQueue) /\ w.at # "hello" /\ (w.at = "auth" => w.written)
      BY <1>1, <2>1, <3>1, <3>3 DEF LinkedFits, AuthIsLast
    <3>5. ~w.keyed
      BY <1>6, <2>1, <3>1
    <3> QED
      BY <1>1, <3>4, <3>5 DEF PageFits, Exchanges
  <2> QED
    BY <1>2, <1>5, <2>1 DEF LinkedFits, AuthIsLast
<1>9. KeyedIsQuiet(x)'
  BY <1>2, <1>6, <1>5 DEF LinkedFits, KeyedIsQuiet
<1> QED
  BY <1>1, <1>2, <1>5, <1>7, <1>8, <1>9 DEF LinkedFits, Applied

LEMMA SendFrameKeeps ==
  ASSUME BleInv, SendFrame
  PROVE  BleInv'
<1>1. /\ txPosted /\ host.at = "idle"
      /\ UNCHANGED <<link, advertising, prov, hand, host, flash, station, wifi, hellos, proven,
                     taken, latest, torn, already>>
  BY DEF SendFrame, wifiVars, noteVarsBle
<1>2. CASE txQueue = <<>>
  <2>1. txPosted' = FALSE /\ UNCHANGED <<txQueue, page, inbox>>
    BY <1>2 DEF SendFrame
  <2>2. ASSUME NEW p \in Phones
        PROVE  PageFits(page[p])' /\ (link' = p => LinkedFits(page[p])')
    <3>1. PageFits(page[p]) /\ (link = p => LinkedFits(page[p]))
      BY DEF BleInv
    <3>2. PageFits(page[p])'
      BY <1>1, <2>1, <3>1 DEF PageFits
    <3>3. link' = p => LinkedFits(page[p])'
      BY <1>1, <1>2, <2>1, <3>1 DEF LinkedFits, AuthIsLast, KeyedIsQuiet, Applied
    <3> QED
      BY <3>2, <3>3
  <2>3. BleTypeOK'
    <3>1. txPosted' \in BOOLEAN
      BY <2>1
    <3>2. UNCHANGED <<txQueue, page, inbox>>
      BY <2>1
    <3> QED
      BY <1>1, <3>1, <3>2 DEF BleInv, BleTypeOK
  <2>4. SessionsFit' /\ FlashFits' /\ FlashIsWhole' /\ OnlineIsTold'
    BY <1>1, <2>1 DEF BleInv, SessionsFit, FlashFits, FlashIsWhole, OnlineIsTold
  <2> QED
    BY <1>1, <2>1, <2>2, <2>3, <2>4 DEF BleInv
<1>3. CASE txQueue # <<>>
  <2> DEFINE f == Head(txQueue)
  <2>1. /\ txQueue' = Tail(txQueue)
        /\ \/ Receive(f) /\ txPosted' = (Tail(txQueue) # <<>>)
           \/ txPosted' \in {FALSE, Tail(txQueue) # <<>>} /\ UNCHANGED <<page, inbox>>
    BY <1>3 DEF SendFrame
  <2>2. f \in Frames /\ (f.reply.kind = "wifi" => f.index = 0)
    BY <1>3, QueueTail DEF BleInv, SessionsFit
  <2>3. page \in [Phones -> Pages] /\ inbox \in Seq(Frames) /\ Len(inbox) < Parts
    BY DEF BleInv, BleTypeOK
  <2>4. \/ Receive(f)
        \/ UNCHANGED <<page, inbox>>
    BY <2>1
  <2> HIDE DEF f
  <2>5. inbox' \in Seq(Frames) /\ Len(inbox') < Parts
    BY <2>2, <2>3, <2>4, Received
  <2>6. SentFrame
    <3>1. txPosted' \in BOOLEAN
      BY <2>1
    <3> QED
      BY <1>1, <1>3, <2>1, <2>5, <3>1 DEF SentFrame
  <2>7. CASE page' = page
    <3>1. ASSUME NEW p \in Phones
          PROVE  PageFits(page[p])' /\ (link' = p => LinkedFits(page[p])')
      <4>1. PICK w \in Pages : w = page[p] /\ PageFits(w) /\ (link = p => LinkedFits(w))
        BY SessionNumbers DEF BleInv
      <4>2. page'[p] = w /\ PageFits(w)' /\ (link = p => LinkedFits(w)')
        BY <1>1, <2>6, <2>7, <4>1, SentLeaves DEF PageFits
      <4>3. PageFits(page[p])'
        BY <4>2 DEF PageFits
      <4>4. link' = p => LinkedFits(page[p])'
        BY <1>1, <4>2 DEF LinkedFits, AuthIsLast, KeyedIsQuiet, Applied
      <4> QED
        BY <4>3, <4>4
    <3> QED
      BY <2>3, <2>6, <2>7, <3>1, SentFits
  <2>8. CASE page' # page
    <3>1. Receive(f)
      BY <2>4, <2>8
    <3>2. /\ link \in Phones /\ page[link].at \in Exchanges /\ page[link].got = NoReply
          /\ \E g \in Replies : /\ g \in {f.reply, Reply("garbled", 0, FALSE)}
                                /\ f.index + 1 = FramesOf(f.reply.kind)
                                /\ Goes(link, [page[link] EXCEPT !.got = g])
      BY <2>2, <2>8, <3>1, Received
    <3>3. PICK q \in Phones : q = link
      BY <3>2
    <3>4. PICK g \in Replies : /\ g \in {f.reply, Reply("garbled", 0, FALSE)}
                               /\ f.index + 1 = FramesOf(f.reply.kind)
                               /\ Goes(q, [page[q] EXCEPT !.got = g])
      BY <3>2, <3>3
    <3>5. PICK w \in Pages : /\ w = page[q] /\ PageFits(w) /\ LinkedFits(w)
                             /\ w.at \in Exchanges /\ w.got = NoReply
      BY <3>2, <3>3, SessionNumbers DEF BleInv
    <3>6. PICK x \in Pages : x = [w EXCEPT !.got = g]
      BY DEF Pages
    <3>7. PageFits(x)' /\ LinkedFits(x)'
      BY <2>6, <3>4, <3>5, <3>6, SentCompletes DEF f
    <3>8. /\ page' \in [Phones -> Pages] /\ page'[q] = x
          /\ \A p \in Phones \ {q} : page'[p] = page[p]
      BY <3>4, <3>5, <3>6, Gone DEF BleInv
    <3>9. ASSUME NEW p \in Phones
          PROVE  PageFits(page[p])' /\ (link' = p => LinkedFits(page[p])')
      <4>1. CASE p = q
        BY <3>7, <3>8, <4>1 DEF PageFits, LinkedFits, AuthIsLast, KeyedIsQuiet, Applied
      <4>2. CASE p # q
        <5>1. page'[p] = page[p] /\ PageFits(page[p]) /\ link' # p
          BY <1>1, <3>3, <3>8, <4>2 DEF BleInv
        <5> QED
          BY <1>1, <5>1 DEF PageFits
      <4> QED
        BY <4>1, <4>2
    <3> QED
      BY <2>6, <3>8, <3>9, SentFits
  <2> QED
    BY <2>7, <2>8
<1> QED
  BY <1>2, <1>3

-----------------------------------------------------------------------------
(* The link, the other tasks                                               *)

LEMMA ConnectKeeps ==
  ASSUME BleInv, NEW p \in Phones, Connect(p)
  PROVE  BleInv'
<1>1. /\ link = "none" /\ link' = p /\ advertising' = FALSE /\ inbox' = <<>> /\ Goes(p, NewPage)
      /\ UNCHANGED <<prov, hand, host, txQueue, txPosted, flash, station, wifi, hellos, proven,
                     taken, latest, torn, already>>
  BY DEF Connect, txVars, wifiVars, noteVarsBle
<1>2. host.at = "idle" /\ txQueue = <<>>
  BY <1>1 DEF BleInv
<1>3. PICK w \in Pages : w = NewPage
  BY BleConstants
<1>4. /\ page' \in [Phones -> Pages] /\ page'[p] = w
      /\ \A q \in Phones \ {p} : page'[q] = page[q]
  BY <1>1, <1>3, Gone DEF BleInv
<1>5. BleTypeOK'
  <2>1. /\ advertising' \in BOOLEAN
        /\ inbox' \in Seq(Frames) /\ Len(inbox') < Parts
        /\ link' \in Phones \union {"none"}
    <3>1. advertising' \in BOOLEAN
      BY <1>1
    <3>2. inbox' = <<>> /\ link' = p
      BY <1>1
    <3> QED
      BY <3>1, <3>2
  <2>2. /\ page' \in [Phones -> Pages]
        /\ UNCHANGED <<prov, hand, host, txQueue, txPosted, flash, station, wifi, hellos, proven,
                       taken, latest, torn, already>>
    BY <1>1, <1>4
  <2> QED
    BY <2>1, <2>2 DEF BleInv, BleTypeOK
<1>6. PageFits(w)' /\ LinkedFits(w)'
  <2>1. hellos \in Nat /\ w.at = "idle" /\ w.got.kind = "none" /\ w.sid = 0 /\ ~w.keyed /\ ~w.alone
    BY <1>3, BleConstants, SessionNumbers DEF BleInv
  <2> QED
    BY <1>1, <1>2, <2>1 DEF PageFits, LinkedFits, AuthIsLast, KeyedIsQuiet, Applied
<1>7. ASSUME NEW q \in Phones
      PROVE  PageFits(page[q])' /\ (link' = q => LinkedFits(page[q])')
  <2>1. CASE q = p
    BY <1>4, <1>6, <2>1 DEF PageFits, LinkedFits, AuthIsLast, KeyedIsQuiet, Applied
  <2>2. CASE q # p
    <3>1. page'[q] = page[q] /\ PageFits(page[q]) /\ link' # q
      BY <1>1, <1>4, <2>2 DEF BleInv
    <3> QED
      BY <1>1, <3>1 DEF PageFits
  <2> QED
    BY <2>1, <2>2
<1>8. SessionsFit' /\ FlashFits' /\ FlashIsWhole' /\ OnlineIsTold'
  BY <1>1 DEF BleInv, SessionsFit, FlashFits, FlashIsWhole, OnlineIsTold
<1> QED
  BY <1>1, <1>5, <1>7, <1>8, BleConstants DEF BleInv

\* Steps that end the link, or leave it with the host task and the pages.
LEMMA OthersKeep ==
  ASSUME BleInv, UNCHANGED <<page, hellos, proven, taken>>,
         \/ link' = "none" /\ host'.at = "idle" /\ txQueue' = <<>>
         \/ UNCHANGED <<link, host, txQueue, txPosted>>
  PROVE  /\ \A p \in Phones : PageFits(page[p])' /\ (link' = p => LinkedFits(page[p])')
         /\ link' = "none" => host'.at = "idle" /\ txQueue' = <<>>
<1>1. CASE link' = "none" /\ host'.at = "idle" /\ txQueue' = <<>>
  <2>1. ASSUME NEW p \in Phones
        PROVE  PageFits(page[p])' /\ link' # p
    BY <1>1, BleConstants DEF BleInv, PageFits
  <2> QED
    BY <1>1, <2>1
<1>2. CASE UNCHANGED <<link, host, txQueue, txPosted>>
  <2>1. \A w \in Pages : Applied(w) => Applied(w)'
    BY <1>2 DEF Applied
  <2> QED
    BY <1>2, <2>1, PagesStay DEF BleInv
<1> QED
  BY <1>1, <1>2

LEMMA DisconnectKeeps ==
  ASSUME BleInv, Disconnect
  PROVE  BleInv'
<1>1. /\ host.at = "idle" /\ link' = "none" /\ advertising' \in BOOLEAN /\ txQueue' = <<>>
      /\ inbox' = <<>>
      /\ UNCHANGED <<page, prov, hand, host, txPosted, flash, station, wifi, hellos, proven, taken,
                     latest, torn, already>>
  BY DEF Disconnect, wifiVars, noteVarsBle
<1>2. BleTypeOK'
  BY <1>1 DEF BleInv, BleTypeOK
<1>3. SessionsFit' /\ FlashFits' /\ FlashIsWhole' /\ OnlineIsTold'
  BY <1>1 DEF BleInv, SessionsFit, FlashFits, FlashIsWhole, OnlineIsTold
<1> QED
  BY <1>1, <1>2, <1>3, OthersKeep DEF BleInv

LEMMA WifiMovesKeeps ==
  ASSUME BleInv, WifiConnects \/ WifiDrops
  PROVE  BleInv'
<1>1. /\ \/ wifi' = "up" /\ prov' = "ACTIVE"
         \/ wifi' = "trying" /\ prov' = prov
      /\ UNCHANGED <<page, inbox, link, advertising, hand, host, flash, station, hellos, txQueue,
                     txPosted, proven, taken, latest, torn, already>>
  BY DEF WifiConnects, WifiDrops, txVars, noteVarsBle
<1>2. BleTypeOK'
  BY <1>1 DEF BleInv, BleTypeOK
<1>3. SessionsFit' /\ FlashFits' /\ FlashIsWhole' /\ OnlineIsTold'
  BY <1>1 DEF BleInv, SessionsFit, FlashFits, FlashIsWhole, OnlineIsTold
<1> QED
  BY <1>1, <1>2, <1>3, OthersKeep DEF BleInv

LEMMA EraseCredentialsKeeps ==
  ASSUME BleInv, EraseCredentials
  PROVE  BleInv'
<1>1. /\ flash' = Nowhere /\ latest' = "none" /\ torn' = FALSE
      /\ UNCHANGED <<page, inbox, link, advertising, prov, hand, host, station, wifi, hellos,
                     txQueue, txPosted, proven, taken, already>>
  BY DEF EraseCredentials, txVars
<1>2. BleTypeOK'
  <2>1. flash' \in Credentials /\ latest' \in Networks \union {"none"} /\ torn' \in BOOLEAN
    BY <1>1, BleConstants
  <2>2. UNCHANGED <<page, inbox, link, advertising, prov, hand, host, station, wifi, hellos,
                    txQueue, txPosted, proven, taken, already>>
    BY <1>1
  <2> QED
    BY <2>1, <2>2 DEF BleInv, BleTypeOK, Credentials
<1>3. SessionsFit' /\ FlashFits' /\ FlashIsWhole' /\ OnlineIsTold'
  BY <1>1, BleConstants DEF BleInv, SessionsFit, FlashFits, FlashIsWhole, OnlineIsTold
<1> QED
  BY <1>1, <1>2, <1>3, OthersKeep DEF BleInv

LEMMA RebootKeeps ==
  ASSUME BleInv, Reboot
  PROVE  BleInv'
<1>1. /\ link' = "none" /\ advertising' \in BOOLEAN /\ prov' = "NEW"
      /\ hand' = [sid |-> 0, authed |-> FALSE, key |-> 0] /\ host' = HostIdle
      /\ txQueue' = <<>> /\ txPosted' = FALSE /\ inbox' = <<>>
      /\ station' \in {Nowhere, flash} /\ wifi' \in {"off", "trying"}
      /\ torn' = (torn \/ host.at = "pass") /\ already' = FALSE
      /\ UNCHANGED <<page, flash, hellos, proven, taken, latest>>
  BY DEF Reboot
<1>2. BleTypeOK'
  <2>1. torn' \in BOOLEAN /\ station' \in Credentials
    BY <1>1, BleConstants DEF BleInv, BleTypeOK, Credentials
  <2>2. /\ txPosted' \in BOOLEAN /\ already' \in BOOLEAN /\ txQueue' \in Seq(Frames)
        /\ Len(txQueue') <= QueueSize /\ inbox' \in Seq(Frames) /\ Len(inbox') < Parts
    <3>1. txPosted' \in BOOLEAN /\ already' \in BOOLEAN
      BY <1>1
    <3>2. txQueue' = <<>> /\ inbox' = <<>>
      BY <1>1
    <3> QED
      BY <3>1, <3>2
  <2>3. hand' \in [sid : SessionIds, authed : BOOLEAN, key : SessionIds]
    BY <1>1, BleConstants
  <2>4. /\ link' = "none" /\ advertising' \in BOOLEAN /\ prov' = "NEW" /\ host' = HostIdle
        /\ wifi' \in {"off", "trying"}
        /\ UNCHANGED <<page, flash, hellos, proven, taken, latest>>
    BY <1>1
  <2> QED
    BY <2>1, <2>2, <2>3, <2>4, BleConstants
    DEF BleInv, BleTypeOK, Credentials, HostMemos
<1>3. SessionsFit' /\ FlashFits' /\ FlashIsWhole' /\ OnlineIsTold'
  <2>1. host'.at = "idle" /\ ~hand'.authed /\ Len(txQueue') = 0
    BY <1>1, BleConstants
  <2>2. SessionsFit' /\ FlashFits'
    BY <1>1, <2>1, BleConstants DEF BleInv, SessionsFit, FlashFits
  <2>3. FlashIsWhole'
    <3>1. ~torn' => ~torn /\ host.at # "pass"
      BY <1>1
    <3>2. UNCHANGED <<flash, latest>>
      BY <1>1
    <3> QED
      BY <3>1, <3>2 DEF BleInv, FlashIsWhole
  <2>4. OnlineIsTold'
    BY <1>1 DEF OnlineIsTold
  <2> QED
    BY <2>2, <2>3, <2>4
<1> QED
  BY <1>1, <1>2, <1>3, OthersKeep, BleConstants DEF BleInv

-----------------------------------------------------------------------------
(* The invariant of provisioning                                           *)

LEMMA BleStart == BleInit => BleInv
<1> SUFFICES ASSUME BleInit
             PROVE  BleInv
  OBVIOUS
<1> USE DEF BleInit
<1>1. BleTypeOK
  <2>1. /\ page \in [Phones -> Pages] /\ host \in HostMemos /\ hellos \in SessionIds
        /\ flash \in Credentials /\ station \in Credentials
    BY BleConstants
  <2>2. /\ advertising \in BOOLEAN /\ txPosted \in BOOLEAN /\ torn \in BOOLEAN
        /\ already \in BOOLEAN
    OBVIOUS
  <2>3. hand \in [sid : SessionIds, authed : BOOLEAN, key : SessionIds]
    BY BleConstants
  <2>4. /\ inbox = <<>> /\ link = "none" /\ prov = "NEW" /\ txQueue = <<>> /\ wifi = "off"
        /\ proven = {} /\ taken = {} /\ latest = "none"
    OBVIOUS
  <2> HIDE DEF BleInit
  <2> QED
    BY <2>1, <2>2, <2>3, <2>4 DEF BleTypeOK, Credentials, HostMemos
<1>2. ASSUME NEW p \in Phones
      PROVE  PageFits(page[p]) /\ link # p
  BY BleConstants DEF PageFits
<1>3. SessionsFit /\ FlashFits /\ FlashIsWhole /\ OnlineIsTold
  BY BleConstants DEF SessionsFit, FlashFits, FlashIsWhole, OnlineIsTold
<1> QED
  BY <1>1, <1>2, <1>3, BleConstants DEF BleInv

LEMMA BleKeeps == BleInv /\ [BleNext]_bleVars => BleInv'
<1> SUFFICES ASSUME BleInv, [BleNext]_bleVars
             PROVE  BleInv'
  OBVIOUS
<1>1. ASSUME NEW p \in Phones, PageNext(p)
      PROVE  BleInv'
  BY <1>1, StartProvisioningKeeps, TakeReplyKeeps, TimeOutKeeps, LinkIsGoneKeeps, WaitEndsKeeps
  DEF PageNext
<1>2. ASSUME NEW p \in Phones, HostNext(p)
      PROVE  BleInv'
  BY <1>2, HandleHelloKeeps, HandleAuthKeeps, HandleWifiKeeps, ConnectKeeps DEF HostNext
<1>3. CASE StoreSsid \/ StorePass \/ StartWifi \/ WifiTaken \/ SendFrame \/ Disconnect
  BY <1>3, StoreSsidKeeps, StorePassKeeps, StartWifiKeeps, WifiTakenKeeps, SendFrameKeeps,
     DisconnectKeeps
<1>4. CASE WifiConnects \/ WifiDrops \/ EraseCredentials \/ Reboot
  BY <1>4, WifiMovesKeeps, EraseCredentialsKeeps, RebootKeeps
<1>5. CASE UNCHANGED bleVars
  <2>1. UNCHANGED <<page, inbox, link, advertising, prov, hand, host, txQueue, txPosted, flash,
                    station, wifi, hellos, proven, taken, latest, torn, already>>
    BY <1>5 DEF bleVars
  <2>2. BleTypeOK' /\ SessionsFit'
    BY <2>1 DEF BleInv, BleTypeOK, SessionsFit
  <2>3. FlashFits' /\ FlashIsWhole' /\ OnlineIsTold'
    BY <2>1 DEF BleInv, FlashFits, FlashIsWhole, OnlineIsTold
  <2> QED
    BY <2>1, <2>2, <2>3, OthersKeep DEF BleInv
<1> QED
  BY <1>1, <1>2, <1>3, <1>4, <1>5 DEF BleNext

(* The invariant of the provisioning of Wi-Fi holds always: whatever frames are *)
(* lost, whenever the link breaks or the device restarts, and however late a    *)
(* reply is taken.                                                              *)
THEOREM BleInvariant == BleSpec => []BleInv
<1> QED
  BY BleStart, BleKeeps, PTL DEF BleSpec

(* The variables of the page and of the firmware keep to their types; so the    *)
(* queue of frames never holds more than QueueSize (eh_prov1.c's s_tx_queue).   *)
THEOREM BleTypeCorrect == BleSpec => []BleTypeOK
<1>1. BleInv => BleTypeOK
  BY DEF BleInv
<1> QED
  BY <1>1, BleInvariant, PTL

(* Page and device agree about what was provisioned: an accepted page's         *)
(* credentials were stored in a session that proved the secret, SSID and        *)
(* password belong together, and a device that is online says so.               *)
THEOREM ProvisionedAlways == BleSpec => []Provisioned
<1>1. BleInv => Provisioned
  <2> SUFFICES ASSUME BleInv
               PROVE  Provisioned
    OBVIOUS
  <2>1. AckIsTrue /\ KeyIsShared
    BY DEF BleInv, PageFits, SessionsFit, AckIsTrue, KeyIsShared
  <2> QED
    BY <2>1 DEF BleInv, Provisioned
<1> QED
  BY <1>1, BleInvariant, PTL
=============================================================================
