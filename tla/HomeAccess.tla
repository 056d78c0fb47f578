------------------------------ MODULE HomeAccess ------------------------------
(***************************************************************************)
(* One home, its members and the invitations to it: HomeService,           *)
(* InvitationService, AuthService.deleteAccount and the repositories under *)
(* them, on PostgreSQL.  A request is a Caller; every await of a handler   *)
(* that separates a read from the write it decides is a step, so requests  *)
(* interleave there.  A repository method that reads a row and then writes *)
(* it under a constraint that refuses what the read refuses is one step.   *)
(* Who may send a request is checked before the handler runs; here anyone  *)
(* may, which only adds behaviours.  Names, addresses and audit rows are   *)
(* left out.                                                               *)
(***************************************************************************)
EXTENDS Handlers

CONSTANTS
  Users,          \* user ids, registered at the start
  Invites,        \* invitation ids, each created once at most
  InviterOf, InviteeOf,   \* the users an invitation is from and to
  InviteRole      \* the role an invitation offers

(* CHECKs of home_memberships and home_invitations; MEMBER stands for GUEST too. *)
MemberRoles == {"OWNER", "ADMIN", "MEMBER"}
InviteRoles == {"ADMIN", "MEMBER", "VIEWER"}

ASSUME HomeAssumption ==
  /\ InviterOf \in [Invites -> Users] /\ InviteeOf \in [Invites -> Users]
  /\ InviteRole \in [Invites -> InviteRoles]
  /\ "unborn" \notin Users /\ "deleted" \notin Users

VARIABLES
  ownerId,   \* homes.owner_id; "unborn" or "deleted" when there is no row
  role,      \* the member's role, "none" without a membership row
  account,   \* the users that have an account
  invite,    \* status of the invitation, "none" without a row
  lateInvites,   \* the invitations whose expires_at has passed
  joined,    \* history: the invitations by which someone became a member
  homeCall,  \* the request each caller is in
  homeRaced, \* history: some request began before another had ended
  selfNamed, \* history: an owner has named itself the new owner, nobody having raced
  halfGone   \* history: a deletion of the home was cut short, nobody having raced

homeVars == <<ownerId, role, account, invite, lateInvites, joined, homeCall, homeRaced,
              selfNamed, halfGone>>

InviteStatuses == {"none", "PENDING", "ACCEPTED", "REJECTED", "REVOKED", "EXPIRED"}
HomePhases == {"idle", "remove", "role", "owner", "promote", "demote", "others", "drop",
               "purge", "home", "user", "join", "close"}

(* What a request remembers across an await: whom it is about, the user it *)
(* acts for, the role or status it will write, its invitation, and the     *)
(* rows it has listed.                                                     *)
HomeMemo(pc, u, v, word, i, rows) ==
  [pc |-> pc, u |-> u, v |-> v, word |-> word, i |-> i, rows |-> rows]
HomeIdle == HomeMemo("idle", {}, {}, "none", {}, {})

HomeTypeOK ==
  /\ ownerId \in Users \cup {"unborn", "deleted"}
  /\ role \in [Users -> MemberRoles \cup {"none"}]
  /\ account \subseteq Users
  /\ invite \in [Invites -> InviteStatuses]
  /\ lateInvites \subseteq Invites /\ joined \subseteq Invites
  /\ homeCall \in [Callers -> [pc : HomePhases, u : SUBSET Users, v : SUBSET Users,
                              word : MemberRoles \cup InviteRoles \cup InviteStatuses,
                              i : SUBSET Invites, rows : SUBSET Users]]
  /\ homeRaced \in BOOLEAN /\ selfNamed \in BOOLEAN /\ halfGone \in BOOLEAN

HomeInit ==
  /\ ownerId = "unborn"
  /\ role = [u \in Users |-> "none"]
  /\ account = Users
  /\ invite = [i \in Invites |-> "none"]
  /\ lateInvites = {} /\ joined = {}
  /\ homeCall = [c \in Callers |-> HomeIdle]
  /\ homeRaced = FALSE /\ selfNamed = FALSE /\ halfGone = FALSE

HomeExists == ownerId \in Users
Members == {u \in Users : role[u] # "none"}
Owners == {u \in Users : role[u] = "OWNER"}

(* A request begins, and remembers m at its first await.                   *)
HomeBegin(c, m) ==
  /\ homeCall[c].pc = "idle"
  /\ homeCall' = [homeCall EXCEPT ![c] = m]
  /\ homeRaced' = (homeRaced \/ \E d \in Callers : homeCall[d].pc # "idle")
  /\ selfNamed' = (~homeRaced' /\ (selfNamed \/ (m.pc = "owner" /\ m.u = m.v)))
  /\ halfGone' = (~homeRaced' /\ halfGone)
  /\ UNCHANGED lateInvites

(* A request resumes after an await, and remembers m at the next. *)
HomeResume(c, pc, m) ==
  /\ homeCall[c].pc = pc
  /\ homeCall' = [homeCall EXCEPT ![c] = m]
  /\ UNCHANGED <<lateInvites, homeRaced, selfNamed, halfGone>>

(* INSERT into home_memberships: UNIQUE (home_id, user_id), the foreign    *)
(* keys, and the CHECK on the role.                                        *)
CanJoin(u, r) == HomeExists /\ u \in account /\ role[u] = "none" /\ r \in MemberRoles

CreateHome(c) ==
  \E u \in account :
    /\ ownerId = "unborn"
    /\ HomeBegin(c, HomeIdle)
    /\ ownerId' = u /\ role' = [role EXCEPT ![u] = "OWNER"]
    /\ UNCHANGED <<account, invite, joined>>

AddHomeMember(c) ==
  \E u \in Users, r \in MemberRoles :
    /\ CanJoin(u, r)
    /\ HomeBegin(c, HomeIdle)
    /\ role' = [role EXCEPT ![u] = r]
    /\ UNCHANGED <<ownerId, account, invite, joined>>

\* Mutant: the last owner is not looked for.
SoleOwner_Never(u) == FALSE

SoleOwner(u) == Owners = {u}

(* removeHomeMember and leaveHome: list the members, then delete the row. *)
BeginRemove(c) ==
  \E u \in Members :
    /\ ~SoleOwner(u)
    /\ HomeBegin(c, HomeMemo("remove", {u}, {}, "none", {}, {}))
    /\ UNCHANGED <<ownerId, role, account, invite, joined>>

RemoveMember(c) ==
  /\ HomeResume(c, "remove", HomeIdle)
  /\ role' = [u \in Users |-> IF u \in homeCall[c].u THEN "none" ELSE role[u]]
  /\ UNCHANGED <<ownerId, account, invite, joined>>

BeginRole(c) ==
  \E u \in Members, r \in MemberRoles :
    /\ SoleOwner(u) => r = "OWNER"
    /\ HomeBegin(c, HomeMemo("role", {u}, {}, r, {}, {}))
    /\ UNCHANGED <<ownerId, role, account, invite, joined>>

(* updateMembershipRole throws without a row and changes nothing. *)
SetRole(us, r) ==
  role' = [u \in Users |-> IF u \in us /\ role[u] # "none" THEN r ELSE role[u]]

UpdateRole(c) ==
  /\ HomeResume(c, "role", HomeIdle)
  /\ SetRole(homeCall[c].u, homeCall[c].word)
  /\ UNCHANGED <<ownerId, account, invite, joined>>

(* transferOwnership: three updates; one that throws is the last.  Nothing *)
(* keeps an owner from naming itself, and being demoted last.              *)
BeginTransfer(c) ==
  \E new \in Members :
    /\ HomeExists
    /\ HomeBegin(c, HomeMemo("owner", {new}, {ownerId}, "none", {}, {}))
    /\ UNCHANGED <<ownerId, role, account, invite, joined>>

TransferOwner(c) ==
  LET ok == HomeExists /\ homeCall[c].u \subseteq account
  IN  /\ HomeResume(c, "owner", IF ok THEN [homeCall[c] EXCEPT !.pc = "promote"] ELSE HomeIdle)
      /\ ownerId' \in IF ok THEN homeCall[c].u ELSE {ownerId}
      /\ UNCHANGED <<role, account, invite, joined>>

TransferPromote(c) ==
  /\ HomeResume(c, "promote", IF homeCall[c].u \subseteq Members
                          THEN [homeCall[c] EXCEPT !.pc = "demote"] ELSE HomeIdle)
  /\ SetRole(homeCall[c].u, "OWNER")
  /\ UNCHANGED <<ownerId, account, invite, joined>>

TransferDemote(c) ==
  /\ HomeResume(c, "demote", HomeIdle)
  /\ SetRole(homeCall[c].v, "ADMIN")
  /\ UNCHANGED <<ownerId, account, invite, joined>>

(* deleteHome lists the members, deletes their rows and the invitations',  *)
(* and then the home, whose foreign keys take what has come since.         *)
BeginDeleteHome(c) ==
  /\ HomeExists
  /\ HomeBegin(c, HomeMemo("purge", {}, {}, "none", {}, Members))
  /\ UNCHANGED <<ownerId, role, account, invite, joined>>

PurgeMember(c) ==
  \E u \in homeCall[c].rows :
    /\ HomeResume(c, "purge", [homeCall[c] EXCEPT !.rows = @ \ {u}])
    /\ role' = [role EXCEPT ![u] = "none"]
    /\ UNCHANGED <<ownerId, account, invite, joined>>

PurgeInvites(c) ==
  /\ homeCall[c].rows = {}
  /\ HomeResume(c, "purge", [homeCall[c] EXCEPT !.pc = "home"])
  /\ invite' = [i \in Invites |-> "none"]
  /\ UNCHANGED <<ownerId, role, account, joined>>

(* The home goes, and an account deletion goes on with the user. *)
DropHome(c) ==
  /\ HomeResume(c, "home", IF homeCall[c].v = {} THEN HomeIdle
                           ELSE [homeCall[c] EXCEPT !.pc = "user"])
  /\ ownerId' = IF HomeExists THEN "deleted" ELSE ownerId
  /\ role' = [u \in Users |-> "none"]
  /\ invite' = [i \in Invites |-> "none"]
  /\ UNCHANGED <<account, joined>>

(* deleteAccount: what it does first depends on the membership it reads. *)
BeginDeleteAccount(c) ==
  \E u \in account :
    /\ HomeBegin(c, HomeMemo(CASE role[u] = "none" -> "user" [] role[u] = "OWNER" -> "others"
                       [] OTHER -> "drop", {}, {u}, "none", {}, {}))
    /\ UNCHANGED <<ownerId, role, account, invite, joined>>

(* The sole owner of a home others belong to must keep its account. *)
CheckOthers(c) ==
  /\ HomeResume(c, "others", IF Members \subseteq homeCall[c].v /\ HomeExists
                         THEN [homeCall[c] EXCEPT !.pc = "purge", !.rows = Members] ELSE HomeIdle)
  /\ UNCHANGED <<ownerId, role, account, invite, joined>>

DropMembership(c) ==
  /\ HomeResume(c, "drop", IF homeCall[c].v \subseteq Members
                       THEN [homeCall[c] EXCEPT !.pc = "user"] ELSE HomeIdle)
  /\ role' = [u \in Users |-> IF u \in homeCall[c].v THEN "none" ELSE role[u]]
  /\ UNCHANGED <<ownerId, account, invite, joined>>

(* homes.owner_id is ON DELETE RESTRICT; memberships and the invitations   *)
(* the user sent go with it.                                               *)
DeleteUser(c) ==
  LET gone == IF ownerId \in homeCall[c].v THEN {} ELSE homeCall[c].v
  IN  /\ HomeResume(c, "user", HomeIdle)
      /\ account' = account \ gone
      /\ role' = [u \in Users |-> IF u \in gone THEN "none" ELSE role[u]]
      /\ invite' = [i \in Invites |-> IF InviterOf[i] \in gone THEN "none" ELSE invite[i]]
      /\ UNCHANGED <<ownerId, joined>>

(* One invitation may be pending per home and address; a member gets none. *)
CreateInvitation(c, i) ==
  /\ HomeExists /\ InviterOf[i] \in account
  /\ invite[i] = "none" /\ i \notin lateInvites /\ i \notin joined
  /\ role[InviteeOf[i]] = "none"
  /\ ~\E j \in Invites : InviteeOf[j] = InviteeOf[i] /\ invite[j] = "PENDING"
  /\ HomeBegin(c, HomeIdle)
  /\ invite' = [invite EXCEPT ![i] = "PENDING"]
  /\ UNCHANGED <<ownerId, role, account, joined>>

ExpiresAt(i) ==
  /\ invite[i] = "PENDING" /\ i \notin lateInvites
  /\ lateInvites' = lateInvites \cup {i}
  /\ UNCHANGED <<ownerId, role, account, invite, joined, homeCall, homeRaced, selfNamed,
                 halfGone>>

\* Mutant: the status of the row is not asked for.
BeginAccept_AnyStatus(c, i) ==
  /\ invite[i] # "none" /\ InviteeOf[i] \in account
  /\ HomeBegin(c, HomeMemo("join", {InviteeOf[i]}, {}, InviteRole[i], {i}, {}))
  /\ UNCHANGED <<ownerId, role, account, invite, joined>>

(* acceptInvitation reads the row once: it must be pending; when late it  *)
(* goes to EXPIRED and nobody joins.                                       *)
BeginAccept(c, i) ==
  /\ invite[i] = "PENDING" /\ InviteeOf[i] \in account
  /\ HomeBegin(c, IF i \in lateInvites THEN HomeMemo("close", {}, {}, "EXPIRED", {i}, {})
              ELSE HomeMemo("join", {InviteeOf[i]}, {}, InviteRole[i], {i}, {}))
  /\ UNCHANGED <<ownerId, role, account, invite, joined>>

AcceptJoin(c) ==
  \E i \in homeCall[c].i :
    LET ok == CanJoin(InviteeOf[i], InviteRole[i])
    IN  /\ HomeResume(c, "join", IF ok THEN HomeMemo("close", {}, {}, "ACCEPTED", {i}, {})
                                 ELSE HomeIdle)
        /\ role' = IF ok THEN [role EXCEPT ![InviteeOf[i]] = InviteRole[i]] ELSE role
        /\ joined' = IF ok THEN joined \cup {i} ELSE joined
        /\ UNCHANGED <<ownerId, account, invite>>

BeginReject(c, i) ==
  /\ invite[i] = "PENDING"
  /\ HomeBegin(c, HomeMemo("close", {}, {}, "REJECTED", {i}, {}))
  /\ UNCHANGED <<ownerId, role, account, invite, joined>>

BeginRevoke(c, i) ==
  /\ invite[i] # "none"
  /\ HomeBegin(c, HomeMemo("close", {}, {}, "REVOKED", {i}, {}))
  /\ UNCHANGED <<ownerId, role, account, invite, joined>>

(* updateStatus writes whatever the row's status has become; it throws     *)
(* when the row is gone.                                                   *)
UpdateStatus(c) ==
  /\ HomeResume(c, "close", HomeIdle)
  /\ invite' = [i \in Invites |-> IF i \in homeCall[c].i /\ invite[i] # "none"
                                  THEN homeCall[c].word ELSE invite[i]]
  /\ UNCHANGED <<ownerId, role, account, joined>>

(* The process restarts or a statement fails, and the request ends there;  *)
(* a home whose members are deleted stays, without them.                   *)
CutHome(c) ==
  /\ homeCall[c].pc # "idle"
  /\ homeCall' = [homeCall EXCEPT ![c] = HomeIdle]
  /\ halfGone' = (halfGone \/ (~homeRaced /\ homeCall[c].pc \in {"purge", "home"}))
  /\ UNCHANGED <<ownerId, role, account, invite, lateInvites, joined, homeRaced, selfNamed>>

HomeCall(c) ==
  \/ CreateHome(c) \/ AddHomeMember(c) \/ BeginRemove(c) \/ BeginRole(c)
  \/ BeginTransfer(c) \/ BeginDeleteHome(c) \/ BeginDeleteAccount(c)
  \/ \E i \in Invites : CreateInvitation(c, i) \/ BeginAccept(c, i) \/ BeginReject(c, i)
                        \/ BeginRevoke(c, i)

HomeStep(c) ==
  \/ RemoveMember(c) \/ UpdateRole(c) \/ TransferOwner(c) \/ TransferPromote(c)
  \/ TransferDemote(c) \/ PurgeMember(c) \/ PurgeInvites(c) \/ DropHome(c)
  \/ CheckOthers(c) \/ DropMembership(c) \/ DeleteUser(c) \/ AcceptJoin(c) \/ UpdateStatus(c)

HomeNext ==
  \/ \E c \in Callers : HomeCall(c) \/ HomeStep(c) \/ CutHome(c)
  \/ \E i \in Invites : ExpiresAt(i)

HomeSpec == HomeInit /\ [][HomeNext]_homeVars

-----------------------------------------------------------------------------
(* HomeService refuses to demote, remove or let go the last OWNER, each in *)
(* its own way; a home that exists keeps one between requests, as long as  *)
(* no request began before another had ended, no owner has transferred the *)
(* home to itself, and no deletion was cut short.                          *)
OwnerKept ==
  (~homeRaced /\ ~selfNamed /\ ~halfGone /\ HomeExists
     /\ \A c \in Callers : homeCall[c].pc = "idle") => Owners # {}

(* An invitation is marked ACCEPTED only after its invitee has been made a *)
(* member, whatever else was done to it meanwhile.                         *)
AcceptedMeansJoined ==
  \A i \in Invites : invite[i] = "ACCEPTED" => i \in joined

(* An offer closed before anyone took it brings nobody in later: a person  *)
(* joins only through a request that found the invitation open, so without *)
(* overlapping requests REJECTED, REVOKED and EXPIRED are for good.        *)
ClosedIsClosed ==
  [][\A i \in Invites :
       (invite[i] \in {"REJECTED", "REVOKED", "EXPIRED"} /\ ~homeRaced) =>
         /\ i \in joined' => i \in joined
         /\ invite'[i] \in {"REJECTED", "REVOKED", "EXPIRED", "none"}]_homeVars
=============================================================================
