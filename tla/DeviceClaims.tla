----------------------------- MODULE DeviceClaims -----------------------------
(***************************************************************************)
(* The home and room of one device: DeviceClaimService, the assignments of *)
(* DeviceService, RoomService.deleteRoom and DeviceRepository.  A claim    *)
(* reads the authorization three times (service, service, repository)      *)
(* before it writes; every other operation reads it once.  Of the          *)
(* commissioning session a claim may name as its evidence only what a      *)
(* claim sees is kept; module Commissioning has the rest.  The homes stay; *)
(* names, labels and audit rows are left out.                              *)
(***************************************************************************)
EXTENDS Handlers

CONSTANTS
  Homes,     \* home ids
  Rooms,     \* room ids
  RoomHome   \* the home a room belongs to

ASSUME ClaimAssumption == RoomHome \in [Rooms -> Homes] /\ "none" \notin Homes \cup Rooms

VARIABLES
  auth,        \* the row of device_authorizations: home "none" without one
  rooms,       \* the rooms that exist
  evidence,    \* the session: "open", "proved" once authenticated, "over" when expired
  claimCall,   \* the request each caller is in
  claimRaced,  \* history: some request began before another had ended
  strayRoom,   \* history: a repeated claim brought a room of another home
  shown,       \* history: the session has been authenticated
  unproven     \* history: a claim on the session took the device before that

claimVars == <<auth, rooms, evidence, claimCall, claimRaced, strayRoom, shown, unproven>>

NoRow == [home |-> "none", room |-> "none"]
HomesOrNone == Homes \cup {"none"}
RoomsOrNone == Rooms \cup {"none"}
ClaimPhases == {"idle", "evidence", "assign", "take", "insert", "update", "set", "move",
                "remove", "unroom", "droproom"}

ClaimMemo(pc, home, room, named) == [pc |-> pc, home |-> home, room |-> room, named |-> named]
ClaimIdle == ClaimMemo("idle", "none", "none", FALSE)

ClaimTypeOK ==
  /\ auth \in [home : HomesOrNone, room : RoomsOrNone] /\ (auth.home = "none" => auth = NoRow)
  /\ rooms \subseteq Rooms
  /\ claimCall \in [Callers -> [pc : ClaimPhases, home : HomesOrNone, room : RoomsOrNone,
                                named : BOOLEAN]]
  /\ evidence \in {"open", "proved", "over"}
  /\ claimRaced \in BOOLEAN /\ strayRoom \in BOOLEAN /\ shown \in BOOLEAN
  /\ unproven \in BOOLEAN

ClaimInit ==
  /\ auth = NoRow /\ rooms = Rooms /\ evidence = "open"
  /\ claimCall = [c \in Callers |-> ClaimIdle]
  /\ claimRaced = FALSE /\ strayRoom = FALSE /\ shown = FALSE /\ unproven = FALSE

ClaimBegin(c, m) ==
  /\ claimCall[c].pc = "idle"
  /\ claimCall' = [claimCall EXCEPT ![c] = m]
  /\ claimRaced' = (claimRaced \/ \E d \in Callers : claimCall[d].pc # "idle")
  /\ UNCHANGED <<auth, rooms, evidence, strayRoom, shown, unproven>>

ClaimResume(c, from, m) ==
  /\ claimCall[c].pc = from
  /\ claimCall' = [claimCall EXCEPT ![c] = m]
  /\ UNCHANGED <<claimRaced, evidence, shown>>

(* A room that is offered with a home must exist and belong to it. *)
RoomFits(r, h) == r = "none" \/ (r \in rooms /\ RoomHome[r] = h)

(* The row is written, unless a foreign key refuses a room that is gone. *)
WriteAuth(row) == auth' = IF row.room \in rooms \cup {"none"} THEN row ELSE auth

(* claimDevice: claimed by this home already, only the room is updated,    *)
(* whichever room it is; else the evidence is asked for, if a session is   *)
(* named and nobody has the device.                                        *)
BeginClaim(c) ==
  \E h \in Homes, r \in RoomsOrNone, named \in BOOLEAN :
    IF auth.home = h
    THEN /\ r \notin {"none", auth.room} /\ ~named
         /\ ClaimBegin(c, ClaimMemo("set", h, r, FALSE))
    ELSE ClaimBegin(c, ClaimMemo(IF named /\ auth.home = "none" THEN "evidence" ELSE "assign",
                                 h, r, named))

\* Mutant: a session that is still open will do.
CheckEvidence_Open(c) ==
  /\ ClaimResume(c, "evidence", IF evidence # "over" THEN [claimCall[c] EXCEPT !.pc = "assign"]
                                ELSE ClaimIdle)
  /\ UNCHANGED <<auth, rooms, strayRoom, unproven>>

CheckEvidence(c) ==
  /\ ClaimResume(c, "evidence", IF evidence = "proved" THEN [claimCall[c] EXCEPT !.pc = "assign"]
                                ELSE ClaimIdle)
  /\ UNCHANGED <<auth, rooms, strayRoom, unproven>>

\* Mutant: whether the device is in a home is left to the repository.
Assign_Unchecked(c) ==
  /\ ClaimResume(c, "assign", [claimCall[c] EXCEPT !.pc = "take"])
  /\ UNCHANGED <<auth, rooms, strayRoom, unproven>>

(* assignDeviceToHome refuses a device that is in a home. *)
Assign(c) ==
  LET m == claimCall[c]
  IN  /\ ClaimResume(c, "assign", IF auth.home = "none" /\ RoomFits(m.room, m.home)
                                  THEN [m EXCEPT !.pc = "take"] ELSE ClaimIdle)
      /\ UNCHANGED <<auth, rooms, strayRoom, unproven>>

(* DeviceRepository.claimDevice looks once more, and does not refuse: it   *)
(* updates the row of another home.                                        *)
Take(c) ==
  LET m == claimCall[c]
  IN  /\ ClaimResume(c, "take",
           IF ~RoomFits(m.room, m.home) \/ auth.home = m.home THEN ClaimIdle
           ELSE IF auth.home = "none" THEN [m EXCEPT !.pc = "insert"]
           ELSE [m EXCEPT !.pc = "update",
                          !.room = IF m.room = "none" THEN auth.room ELSE m.room])
      /\ UNCHANGED <<auth, rooms, strayRoom, unproven>>

TakeInsert(c) ==
  LET m == claimCall[c]
      ok == auth.home = "none" /\ m.room \in rooms \cup {"none"}
  IN  /\ ClaimResume(c, "insert", ClaimIdle)
      /\ auth' = IF ok THEN [home |-> m.home, room |-> m.room] ELSE auth
      /\ unproven' = (unproven \/ (ok /\ m.named /\ ~shown))
      /\ UNCHANGED <<rooms, strayRoom>>

TakeUpdate(c) ==
  LET m == claimCall[c]
  IN  /\ ClaimResume(c, "update", ClaimIdle)
      /\ WriteAuth(IF auth.home = "none" THEN NoRow ELSE [home |-> m.home, room |-> m.room])
      /\ UNCHANGED <<rooms, strayRoom, unproven>>

BeginMoveRoom(c) ==
  \E r \in RoomsOrNone :
    /\ auth.home # "none" /\ RoomFits(r, auth.home)
    /\ ClaimBegin(c, ClaimMemo("set", auth.home, r, FALSE))

(* updateDeviceAuthorization with a room, of a claim or a move; home is    *)
(* the one the request was about.                                          *)
SetRoom(c) ==
  LET m == claimCall[c]
      r == m.room
  IN  /\ ClaimResume(c, "set", ClaimIdle)
      /\ WriteAuth(IF auth.home = "none" THEN NoRow ELSE [auth EXCEPT !.room = r])
      /\ strayRoom' = (strayRoom \/ (r # "none" /\ RoomHome[r] # m.home))
      /\ UNCHANGED <<rooms, unproven>>

BeginMoveHome(c) ==
  \E h \in Homes, r \in RoomsOrNone :
    /\ auth.home # "none" /\ RoomFits(r, h)
    /\ ClaimBegin(c, ClaimMemo("move", h, r, FALSE))

MoveHome(c) ==
  /\ ClaimResume(c, "move", ClaimIdle)
  /\ WriteAuth(IF auth.home = "none" THEN NoRow
               ELSE [home |-> claimCall[c].home, room |-> claimCall[c].room])
  /\ UNCHANGED <<rooms, strayRoom, unproven>>

(* unclaimDevice, removeDeviceFromHome, and a network or factory reset. *)
BeginRemoveAuth(c) ==
  /\ auth.home # "none"
  /\ ClaimBegin(c, ClaimMemo("remove", auth.home, "none", FALSE))

RemoveAuth(c) ==
  /\ ClaimResume(c, "remove", ClaimIdle)
  /\ auth' = NoRow
  /\ UNCHANGED <<rooms, strayRoom, unproven>>

(* deleteRoom takes the devices it lists out of the room, one by one and   *)
(* wherever they are by then, and deletes it; the foreign key does the rest.*)
BeginDeleteRoom(c) ==
  \E r \in rooms :
    ClaimBegin(c, ClaimMemo(IF auth.room = r /\ auth.home = RoomHome[r] THEN "unroom"
                            ELSE "droproom", RoomHome[r], r, FALSE))

Unroom(c) ==
  /\ ClaimResume(c, "unroom", IF auth.home = "none" THEN ClaimIdle
                              ELSE [claimCall[c] EXCEPT !.pc = "droproom"])
  /\ auth' = [auth EXCEPT !.room = "none"]
  /\ UNCHANGED <<rooms, strayRoom, unproven>>

DropRoom(c) ==
  /\ ClaimResume(c, "droproom", ClaimIdle)
  /\ rooms' = rooms \ {claimCall[c].room}
  /\ auth' = [auth EXCEPT !.room = IF @ = claimCall[c].room THEN "none" ELSE @]
  /\ UNCHANGED <<strayRoom, unproven>>

(* The process restarts or a statement fails, and the request ends there.  *)
CutClaim(c) ==
  /\ claimCall[c].pc # "idle"
  /\ ClaimResume(c, claimCall[c].pc, ClaimIdle)
  /\ UNCHANGED <<auth, rooms, strayRoom, unproven>>

ClaimRequest(c) ==
  \/ BeginClaim(c) \/ BeginMoveRoom(c) \/ BeginMoveHome(c) \/ BeginRemoveAuth(c)
  \/ BeginDeleteRoom(c)

ClaimStep(c) ==
  \/ CheckEvidence(c) \/ Assign(c) \/ Take(c) \/ TakeInsert(c) \/ TakeUpdate(c) \/ SetRoom(c)
  \/ MoveHome(c) \/ RemoveAuth(c) \/ Unroom(c) \/ DropRoom(c)

(* Commissioning goes on: the session is authenticated, or expires. *)
EvidenceMoves ==
  /\ evidence' \in {"proved", "over"} /\ evidence # "over" /\ evidence' # evidence
  /\ shown' = (shown \/ evidence' = "proved")
  /\ UNCHANGED <<auth, rooms, claimCall, claimRaced, strayRoom, unproven>>

ClaimNext ==
  EvidenceMoves \/ \E c \in Callers : ClaimRequest(c) \/ ClaimStep(c) \/ CutClaim(c)

ClaimSpec == ClaimInit /\ [][ClaimNext]_claimVars

-----------------------------------------------------------------------------
(* A device is in a room of its home, as long as no two requests overlap   *)
(* and no home claims its own device again into a room of another.         *)
RoomInHome ==
  (~claimRaced /\ ~strayRoom /\ auth.room # "none") => RoomHome[auth.room] = auth.home

(* Claiming does not take a device away from the home that has it: without *)
(* overlapping requests its home changes only by a move or after a removal.*)
NoTakeover ==
  [][(~claimRaced' /\ auth.home # "none" /\ auth'.home \notin {auth.home, "none"}) =>
       \E c \in Callers : claimCall[c].pc = "move" /\ claimCall'[c].pc = "idle"]_claimVars

(* A claim that names a commissioning session takes the device only on a   *)
(* session that was authenticated, whatever becomes of the session, unless *)
(* claims overlap (a device in a home needs no evidence, and may leave it).*)
ClaimedOnEvidence == unproven => claimRaced

(* A device is where a check has allowed it to be: in a room of its home,  *)
(* and in a home on evidence that was good.                                *)
DevicePlaced == RoomInHome /\ ClaimedOnEvidence
=============================================================================
