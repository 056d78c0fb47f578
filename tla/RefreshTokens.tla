---------------------------- MODULE RefreshTokens ----------------------------
(***************************************************************************)
(* The sessions of one account: AuthService and RefreshTokenRepository on  *)
(* PostgreSQL, in production mode.  A session is a row of refresh_tokens,  *)
(* looked up by the hash of a token its client holds; refresh spends the   *)
(* row and inserts the next.  Each database call is a step of its own, so  *)
(* requests interleave between them.  The passwords are the versions 0, 1, *)
(* ... that changePassword writes; hashing, JWTs, profiles and the rate    *)
(* limit of the router are left out.                                       *)
(***************************************************************************)
EXTENDS Naturals, Handlers

CONSTANTS
  MaxTokens,     \* bound: refresh tokens ever issued
  MaxPasswords   \* bound: changes of the password

ASSUME TokenAssumption == MaxTokens \in Nat /\ MaxPasswords \in Nat

VARIABLES
  registered,  \* the users row exists
  password,    \* the password it holds
  live,        \* the rows of refresh_tokens
  expired,     \* the tokens whose expires_at has passed
  issued,      \* how many tokens there have been; they are 1, 2, ...
  issuedAt,    \* history: the password the row was inserted on the strength of
  spent,       \* history: the tokens that have bought a successor
  spentTwice,  \* history: ... and another one
  shared,      \* history: the tokens two refreshes held at a time
  survivors,   \* history: tokens of an earlier password that the change did not revoke
  authCall     \* the request each caller is in

tokenVars == <<registered, password, live, expired, issued, issuedAt, spent, spentTwice,
               shared, survivors, authCall>>

Tokens == 1..MaxTokens
AuthPhases == {"idle", "insert", "drop", "delete", "user", "reissue", "password", "list",
               "revoke", "purge", "account"}

\* What a request remembers: the token it found, the rows it listed, the password it
\* verified or its token was issued on.
AuthMemo(pc, token, rows, at) == [pc |-> pc, token |-> token, rows |-> rows, at |-> at]
AuthIdle == AuthMemo("idle", {}, {}, 0)

TokenTypeOK ==
  /\ registered \in BOOLEAN /\ password \in 0..MaxPasswords
  /\ live \subseteq 1..issued /\ issued \in 0..MaxTokens
  /\ expired \subseteq Tokens /\ issuedAt \in [Tokens -> 0..MaxPasswords]
  /\ spent \subseteq Tokens /\ spentTwice \subseteq spent /\ shared \subseteq Tokens
  /\ survivors \subseteq Tokens
  /\ authCall \in [Callers -> [pc : AuthPhases, token : SUBSET Tokens,
                               rows : SUBSET Tokens, at : 0..MaxPasswords]]

TokenInit ==
  /\ registered = FALSE /\ password = 0
  /\ live = {} /\ expired = {} /\ issued = 0
  /\ issuedAt = [t \in Tokens |-> 0]
  /\ spent = {} /\ spentTwice = {} /\ shared = {} /\ survivors = {}
  /\ authCall = [c \in Callers |-> AuthIdle]

AuthMove(c, from, m) ==
  /\ authCall[c].pc = from
  /\ authCall' = [authCall EXCEPT ![c] = m]

AuthGoto(c, from, m) == AuthMove(c, from, m) /\ UNCHANGED survivors

Untouched == UNCHANGED <<registered, password, live, issued, issuedAt, spent, spentTwice, shared>>

(* INSERT into users, where the address is UNIQUE.  Without a profile row  *)
(* the account would be taken back, which only a failing database causes.  *)
Register(c) ==
  /\ ~registered /\ issued = 0
  /\ AuthGoto(c, "idle", AuthIdle)
  /\ registered' = TRUE
  /\ UNCHANGED <<password, live, expired, issued, issuedAt, spent, spentTwice, shared>>

(* login reads the user and verifies the password against that row. *)
BeginLogin(c) ==
  /\ registered
  /\ AuthGoto(c, "idle", AuthMemo("insert", {}, {}, password))
  /\ Untouched /\ UNCHANGED expired

(* createToken: the foreign key refuses a user that is gone.  Nobody asks  *)
(* whether the password, or the session, is still good: a row inserted     *)
(* after a change has listed the user's tokens outlives it.                *)
InsertToken(c) ==
  IF registered
  THEN /\ issued < MaxTokens
       /\ issued' = issued + 1
       /\ live' = live \cup {issued'}
       /\ issuedAt' = [issuedAt EXCEPT ![issued'] = authCall[c].at]
       /\ survivors' = IF /\ authCall[c].at # password
                         /\ \A d \in Callers : authCall[d].pc # "list"
                      THEN survivors \cup {issued'} ELSE survivors
  ELSE UNCHANGED <<issued, live, issuedAt, survivors>>

Login(c) ==
  /\ AuthMove(c, "insert", AuthIdle)
  /\ InsertToken(c)
  /\ UNCHANGED <<registered, password, expired, spent, spentTwice, shared>>

(* refresh finds the row, or refuses; when it has expired it is deleted    *)
(* and refused too.                                                        *)
BeginRefresh(c, t) ==
  /\ t \in live
  /\ AuthGoto(c, "idle", AuthMemo(IF t \in expired THEN "drop" ELSE "delete", {t}, {},
                               issuedAt[t]))
  /\ shared' = shared \cup {u \in {t} : \E d \in Callers \ {c} :
                   authCall[d].pc \in {"delete", "user", "reissue"} /\ t \in authCall[d].token}
  /\ UNCHANGED <<registered, password, live, expired, issued, issuedAt, spent, spentTwice>>

\* Mutant: the old token is kept.
RefreshDelete_Kept(c) ==
  /\ AuthGoto(c, "delete", [authCall[c] EXCEPT !.pc = "user"])
  /\ Untouched /\ UNCHANGED expired

(* deleteToken does not say whether there still was a row to delete. *)
RefreshDelete(c) ==
  /\ AuthGoto(c, "delete", [authCall[c] EXCEPT !.pc = "user"])
  /\ live' = live \ authCall[c].token
  /\ UNCHANGED <<registered, password, expired, issued, issuedAt, spent, spentTwice, shared>>

RefreshFindUser(c) ==
  /\ AuthGoto(c, "user", IF registered THEN [authCall[c] EXCEPT !.pc = "reissue"] ELSE AuthIdle)
  /\ Untouched /\ UNCHANGED expired

RefreshInsert(c) ==
  /\ AuthMove(c, "reissue", AuthIdle)
  /\ InsertToken(c)
  /\ spent' = IF registered THEN spent \cup authCall[c].token ELSE spent
  /\ spentTwice' = IF registered THEN spentTwice \cup (spent \cap authCall[c].token)
                   ELSE spentTwice
  /\ UNCHANGED <<registered, password, expired, shared>>

(* logout and revokeSession find the row, then delete it; so does the      *)
(* refresh of an expired token.                                            *)
BeginLogout(c, t) ==
  /\ t \in live
  /\ AuthGoto(c, "idle", AuthMemo("drop", {t}, {}, 0))
  /\ Untouched /\ UNCHANGED expired

DropToken(c) ==
  /\ AuthGoto(c, "drop", AuthIdle)
  /\ live' = live \ authCall[c].token
  /\ UNCHANGED <<registered, password, expired, issued, issuedAt, spent, spentTwice, shared>>

(* changePassword verifies the old password, writes the new one, lists the *)
(* user's tokens and deletes each.  The update throws without a user.      *)
BeginChange(c) ==
  /\ registered
  /\ AuthGoto(c, "idle", AuthMemo("password", {}, {}, 0))
  /\ Untouched /\ UNCHANGED expired

UpdatePassword(c) ==
  /\ password < MaxPasswords
  /\ AuthGoto(c, "password", IF registered THEN AuthMemo("list", {}, {}, 0) ELSE AuthIdle)
  /\ password' = IF registered THEN password + 1 ELSE password
  /\ UNCHANGED <<registered, live, expired, issued, issuedAt, spent, spentTwice, shared>>

ListTokens(c) ==
  /\ AuthGoto(c, "list", AuthMemo("revoke", {}, live, 0))
  /\ Untouched /\ UNCHANGED expired

RevokeListed(c) ==
  /\ LET t == {CHOOSE u \in authCall[c].rows : TRUE}
     IN  IF authCall[c].rows = {} THEN AuthGoto(c, "revoke", AuthIdle) /\ UNCHANGED live
         ELSE /\ AuthGoto(c, "revoke", [authCall[c] EXCEPT !.rows = @ \ t])
              /\ live' = live \ t
  /\ UNCHANGED <<registered, password, expired, issued, issuedAt, spent, spentTwice, shared>>

(* deleteAccount verifies the password; deleteUser lists and deletes the   *)
(* tokens and then the user, whose foreign keys take those since inserted. *)
BeginDelete(c) ==
  /\ registered
  /\ AuthGoto(c, "idle", AuthMemo("purge", {}, {}, 0))
  /\ Untouched /\ UNCHANGED expired

PurgeTokens(c) ==
  /\ AuthGoto(c, "purge", AuthMemo("account", {}, {}, 0))
  /\ live' = {}
  /\ UNCHANGED <<registered, password, expired, issued, issuedAt, spent, spentTwice, shared>>

DeleteUserRow(c) ==
  /\ AuthGoto(c, "account", AuthIdle)
  /\ registered' = FALSE /\ live' = {}
  /\ UNCHANGED <<password, expired, issued, issuedAt, spent, spentTwice, shared>>

(* The process restarts or a statement fails, and the request ends there:  *)
(* a change of password that has not ended every session leaves the rest.  *)
CutAuth(c) ==
  /\ authCall[c].pc # "idle"
  /\ authCall' = [authCall EXCEPT ![c] = AuthIdle]
  /\ survivors' = IF authCall[c].pc \in {"list", "revoke"}
                  THEN survivors \cup {t \in live : issuedAt[t] # password} ELSE survivors
  /\ Untouched /\ UNCHANGED expired

TokenExpires(t) ==
  /\ t \in live \ expired
  /\ expired' = expired \cup {t}
  /\ Untouched /\ UNCHANGED <<authCall, survivors>>

AuthRequest(c) ==
  \/ Register(c) \/ BeginLogin(c) \/ BeginChange(c) \/ BeginDelete(c)
  \/ \E t \in live : BeginRefresh(c, t) \/ BeginLogout(c, t)

AuthStep(c) ==
  \/ Login(c) \/ RefreshDelete(c) \/ RefreshFindUser(c) \/ RefreshInsert(c) \/ DropToken(c)
  \/ UpdatePassword(c) \/ ListTokens(c) \/ RevokeListed(c) \/ PurgeTokens(c) \/ DeleteUserRow(c)

TokenNext ==
  \/ \E c \in Callers : AuthRequest(c) \/ AuthStep(c) \/ CutAuth(c)
  \/ \E t \in live : TokenExpires(t)

TokenSpec == TokenInit /\ [][TokenNext]_tokenVars

-----------------------------------------------------------------------------
(* Rotation is single-use: a token that has bought a successor is gone     *)
(* from the table, and it buys another only when two refreshes held it at  *)
(* a time, both having found it before either deleted it.                  *)
SingleUse == spent \cap live = {} /\ spentTwice \subseteq shared

(* A change of password ends the other sessions: once it is done, no row   *)
(* inserted on the strength of an earlier password is left, whatever       *)
(* logins, refreshes and other changes went on meanwhile.  The exceptions  *)
(* are the rows an interrupted change did not get to, and those of a login *)
(* that had verified the earlier password, or a refresh that had found its *)
(* token, and inserted only after the last change listed the rows.         *)
OldSessionsEnd ==
  (\A c \in Callers : authCall[c].pc \notin {"list", "revoke"}) =>
    \A t \in live \ survivors : issuedAt[t] = password

(* A session lasts as long as it should and no longer: its token is used   *)
(* once, and it ends with the password it was begun under.                 *)
SessionsHold == SingleUse /\ OldSessionsEnd
=============================================================================
