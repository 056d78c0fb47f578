--------------------------- MODULE Accounts_proofs ---------------------------
(***************************************************************************)
(* Proofs about RefreshTokens, for every set of callers, any number of     *)
(* tokens and of passwords, and about HomeAccess, for every set of users   *)
(* and of invitations, from anyone to anyone, with any roles.              *)
(*                                                                         *)
(* SingleUse is not inductive: whether a token buys twice is decided when  *)
(* a request finds it, several steps before.  RotationInv says of every    *)
(* request on its way what may have become of its token meanwhile.         *)
(* Neither is OwnerKept: OwnersStay says of the one request under way who  *)
(* is still an owner and must stay one.                                    *)
(***************************************************************************)
EXTENDS RefreshTokens, HomeAccess, TLAPS

\* The steps of a refresh after its token was found.
Refreshing == {"delete", "user", "reissue"}
HoldsToken(c, t) == authCall[c].pc \in Refreshing /\ t \in authCall[c].token

\* Requests speak of tokens there have been.
TokensAreIssued ==
    /\ spent \subseteq 1..issued
    /\ \A c \in Callers : authCall[c].token \subseteq 1..issued

\* What is about to buy a successor is no longer in the table.
DeletedIsGone ==
    /\ spent \cap live = {}
    /\ \A c \in Callers :
         authCall[c].pc \in {"user", "reissue"} => authCall[c].token \cap live = {}

\* Two requests that hold a token overlapped; so did one that holds a spent one
\* with the request that spent it.
HeldTwiceIsShared ==
    /\ spentTwice \subseteq shared
    /\ \A c \in Callers, t \in Tokens : HoldsToken(c, t) /\ t \in spent => t \in shared
    /\ \A c, d \in Callers, t \in Tokens :
         c # d /\ HoldsToken(c, t) /\ HoldsToken(d, t) => t \in shared

RotationInv == TokenTypeOK /\ TokensAreIssued /\ DeletedIsGone /\ HeldTwiceIsShared

\* While no change of password is between its update and its list, every row of
\* an earlier password is on the list of one, or was left by one cut short, or
\* inserted too late for any list.
OldIsListed ==
    (\A c \in Callers : authCall[c].pc # "list") =>
      \A t \in live : \/ issuedAt[t] = password \/ t \in survivors
                      \/ \E c \in Callers : authCall[c].pc = "revoke" /\ t \in authCall[c].rows

USE TokenAssumption DEF TokenAssumption

-----------------------------------------------------------------------------
(* Type correctness                                                        *)

\* What a request may remember.
AuthMemos == [pc : AuthPhases, token : SUBSET Tokens, rows : SUBSET Tokens,
              at : 0..MaxPasswords]

LEMMA TokenTypeInit == TokenInit => TokenTypeOK
<1> SUFFICES ASSUME TokenInit
             PROVE  TokenTypeOK
  OBVIOUS
<1>1. AuthIdle \in AuthMemos
  BY DEF AuthIdle, AuthMemo, AuthMemos, AuthPhases
<1>2. authCall \in [Callers -> AuthMemos]
  BY <1>1 DEF TokenInit
<1>3. issuedAt \in [Tokens -> 0..MaxPasswords]
  BY DEF TokenInit
<1>4. live \subseteq 1..issued /\ issued \in 0..MaxTokens /\ password \in 0..MaxPasswords
  BY DEF TokenInit
<1> QED
  BY <1>2, <1>3, <1>4 DEF TokenInit, TokenTypeOK, AuthMemos

LEMMA InsertTokenTyped ==
  ASSUME TokenTypeOK, NEW c \in Callers, InsertToken(c), password' = password
  PROVE  /\ live' \subseteq 1..issued' /\ issued' \in 0..MaxTokens /\ issued <= issued'
         /\ issuedAt' \in [Tokens -> 0..MaxPasswords]
         /\ survivors \subseteq survivors' /\ survivors' \subseteq Tokens
<1>1. CASE registered
  <2>1. issued' = issued + 1 /\ issued' \in 0..MaxTokens
    BY <1>1 DEF TokenTypeOK, InsertToken
  <2>2. live' \subseteq 1..issued'
    <3>1. live' = live \cup {issued'} /\ live \subseteq 1..issued /\ issued \in Nat
      BY <1>1 DEF TokenTypeOK, InsertToken
    <3> QED
      BY <2>1, <3>1
  <2>3. issuedAt' \in [Tokens -> 0..MaxPasswords]
    BY <1>1, <2>1 DEF TokenTypeOK, InsertToken, Tokens
  <2>4. survivors \subseteq survivors' /\ survivors' \subseteq Tokens
    <3>1. issued' \in Tokens /\ survivors \subseteq Tokens
      BY <1>1, <2>1 DEF TokenTypeOK, InsertToken, Tokens
    <3>2. survivors' \in {survivors, survivors \cup {issued'}}
      BY <1>1 DEF InsertToken
    <3> QED
      BY <3>1, <3>2
  <2> QED
    BY <2>1, <2>2, <2>3, <2>4 DEF TokenTypeOK
<1>2. CASE ~registered
  <2>1. UNCHANGED <<issued, live, issuedAt, survivors>>
    BY <1>2 DEF InsertToken
  <2> QED
    BY <2>1 DEF TokenTypeOK
<1> QED
  BY <1>1, <1>2

LEMMA AuthMoveTyped ==
  ASSUME TokenTypeOK, NEW c \in Callers, NEW from, NEW m \in AuthMemos, AuthMove(c, from, m)
  PROVE  authCall' \in [Callers -> AuthMemos]
  BY DEF TokenTypeOK, AuthMove, AuthMemos

\* Whatever a request does, what it remembers next is a memo.
LEMMA AuthCallTyped ==
  ASSUME TokenTypeOK, NEW c \in Callers, AuthRequest(c) \/ AuthStep(c)
  PROVE  authCall' \in [Callers -> AuthMemos]
<1>1. authCall[c] \in AuthMemos /\ AuthIdle \in AuthMemos
  BY DEF TokenTypeOK, AuthMemos, AuthIdle, AuthMemo, AuthPhases
<1>2. live \subseteq Tokens
  BY DEF TokenTypeOK, Tokens
<1>3. \A p \in AuthPhases, t \in SUBSET Tokens, r \in SUBSET Tokens, a \in 0..MaxPasswords :
        AuthMemo(p, t, r, a) \in AuthMemos
  BY DEF AuthMemo, AuthMemos
<1>4. /\ \A p \in AuthPhases : [authCall[c] EXCEPT !.pc = p] \in AuthMemos
      /\ \A t : [authCall[c] EXCEPT !.rows = @ \ t] \in AuthMemos
  BY <1>1 DEF AuthMemos
<1>5. {"idle", "insert", "drop", "delete", "user", "reissue", "password", "list", "revoke",
       "purge", "account"} = AuthPhases
  BY DEF AuthPhases
<1>0. 0 \in 0..MaxPasswords /\ password \in 0..MaxPasswords
      /\ \A t \in Tokens : issuedAt[t] \in 0..MaxPasswords
  BY DEF TokenTypeOK
<1> USE DEF AuthGoto
<1>6. CASE AuthRequest(c)
  <2>1. \E m \in AuthMemos : \E from : AuthMove(c, from, m)
    <3>1. CASE Register(c)
      BY <1>1, <3>1 DEF Register
    <3>2. CASE BeginLogin(c) \/ BeginChange(c) \/ BeginDelete(c)
      BY <1>0, <1>3, <1>5, <3>2 DEF BeginLogin, BeginChange, BeginDelete
    <3>3. ASSUME NEW t \in live, BeginRefresh(c, t) \/ BeginLogout(c, t)
          PROVE  \E m \in AuthMemos : \E from : AuthMove(c, from, m)
      BY <1>0, <1>2, <1>3, <1>5, <3>3 DEF BeginRefresh, BeginLogout
    <3> QED
      BY <1>6, <3>1, <3>2, <3>3 DEF AuthRequest
  <2> QED
    BY <2>1, AuthMoveTyped
<1>7. CASE AuthStep(c)
  <2>1. \E m \in AuthMemos : \E from : AuthMove(c, from, m)
    <3>1. CASE Login(c) \/ RefreshInsert(c) \/ DropToken(c) \/ DeleteUserRow(c)
      BY <1>1, <3>1 DEF Login, RefreshInsert, DropToken, DeleteUserRow
    <3>2. CASE RefreshDelete(c) \/ RefreshFindUser(c)
      BY <1>1, <1>4, <1>5, <3>2 DEF RefreshDelete, RefreshFindUser
    <3>3. CASE UpdatePassword(c) \/ ListTokens(c) \/ PurgeTokens(c)
      BY <1>0, <1>1, <1>2, <1>3, <1>5, <3>3 DEF UpdatePassword, ListTokens, PurgeTokens
    <3>4. CASE RevokeListed(c)
      BY <1>1, <1>4, <3>4 DEF RevokeListed
    <3> QED
      BY <1>7, <3>1, <3>2, <3>3, <3>4 DEF AuthStep
  <2> QED
    BY <2>1, AuthMoveTyped
<1> QED
  BY <1>6, <1>7

LEMMA TokenTypeStep == TokenTypeOK /\ [TokenNext]_tokenVars => TokenTypeOK'
<1> SUFFICES ASSUME TokenTypeOK, [TokenNext]_tokenVars
             PROVE  TokenTypeOK'
  OBVIOUS
<1>1. ASSUME NEW c \in Callers, AuthRequest(c) \/ AuthStep(c)
      PROVE  TokenTypeOK'
  <2>1. authCall' \in [Callers -> AuthMemos]
    BY <1>1, AuthCallTyped
  <2> USE DEF AuthGoto
  <2>2. CASE Login(c)
    BY <2>1, <2>2, InsertTokenTyped DEF Login, TokenTypeOK, AuthMemos
  <2>3. CASE RefreshInsert(c)
    <3>1. spent' \subseteq Tokens /\ spentTwice' \subseteq spent'
      BY <2>3 DEF RefreshInsert, TokenTypeOK
    <3> QED
      BY <2>1, <2>3, <3>1, InsertTokenTyped DEF RefreshInsert, TokenTypeOK, AuthMemos
  <2>4. CASE UpdatePassword(c)
    <3>1. password' \in 0..MaxPasswords
      BY <2>4 DEF UpdatePassword, TokenTypeOK
    <3> QED
      BY <2>1, <2>4, <3>1 DEF UpdatePassword, TokenTypeOK, AuthMemos
  <2>5. CASE RevokeListed(c)
    <3>1. live' \subseteq live
      BY <2>5 DEF RevokeListed
    <3> QED
      BY <2>1, <2>5, <3>1 DEF RevokeListed, TokenTypeOK, AuthMemos
  <2>6. CASE RefreshDelete(c) \/ DropToken(c) \/ PurgeTokens(c)
    BY <2>1, <2>6 DEF RefreshDelete, DropToken, PurgeTokens, TokenTypeOK, AuthMemos
  <2>7. CASE DeleteUserRow(c)
    BY <2>1, <2>7 DEF DeleteUserRow, TokenTypeOK, AuthMemos
  <2>8. CASE RefreshFindUser(c) \/ ListTokens(c) \/ BeginLogin(c) \/ BeginChange(c)
             \/ BeginDelete(c)
    BY <2>1, <2>8 DEF RefreshFindUser, ListTokens, BeginLogin, BeginChange, BeginDelete,
                      Untouched, TokenTypeOK, AuthMemos
  <2>9. CASE Register(c)
    BY <2>1, <2>9 DEF Register, TokenTypeOK, AuthMemos
  <2>10. ASSUME NEW t \in live, BeginRefresh(c, t) \/ BeginLogout(c, t)
         PROVE  TokenTypeOK'
    <3>1. shared' \subseteq Tokens
      <4>1. t \in Tokens
        BY DEF TokenTypeOK, Tokens
      <4> QED
        BY <2>10, <4>1 DEF BeginRefresh, BeginLogout, Untouched, TokenTypeOK
    <3> QED
      BY <2>1, <2>10, <3>1 DEF BeginRefresh, BeginLogout, Untouched, TokenTypeOK, AuthMemos
  <2> QED
    BY <1>1, <2>2, <2>3, <2>4, <2>5, <2>6, <2>7, <2>8, <2>9, <2>10 DEF AuthRequest, AuthStep
<1>2. ASSUME NEW t \in live, TokenExpires(t)
      PROVE  TokenTypeOK'
  BY <1>2 DEF TokenExpires, Untouched, TokenTypeOK, Tokens
<1>3. CASE UNCHANGED tokenVars
  BY <1>3 DEF tokenVars, TokenTypeOK
<1>4. ASSUME NEW c \in Callers, CutAuth(c)
      PROVE  TokenTypeOK'
  <2>1. AuthIdle \in AuthMemos
    BY DEF AuthIdle, AuthMemo, AuthMemos, AuthPhases
  <2>2. authCall' \in [Callers -> AuthMemos]
    BY <1>4, <2>1 DEF CutAuth, TokenTypeOK, AuthMemos
  <2>3. survivors' \subseteq Tokens
    <3>1. live \subseteq Tokens
      BY DEF TokenTypeOK, Tokens
    <3>2. survivors' \subseteq survivors \cup live
      BY <1>4 DEF CutAuth
    <3> QED
      BY <3>1, <3>2 DEF TokenTypeOK
  <2> QED
    BY <1>4, <2>2, <2>3 DEF CutAuth, Untouched, TokenTypeOK, AuthMemos
<1> QED
  BY <1>1, <1>2, <1>3, <1>4 DEF TokenNext

\* Every reachable state of the sessions is well typed: the rows are tokens that
\* were issued, and requests speak of tokens only.
THEOREM SessionsTyped == TokenSpec => []TokenTypeOK
  BY TokenTypeInit, TokenTypeStep, PTL DEF TokenSpec

-----------------------------------------------------------------------------
(* SingleUse                                                               *)

LEMMA RotationInit == TokenInit => RotationInv
<1> SUFFICES ASSUME TokenInit
             PROVE  RotationInv
  OBVIOUS
<1>1. \A c \in Callers : authCall[c].pc = "idle" /\ authCall[c].token = {}
  BY DEF TokenInit, AuthIdle, AuthMemo
<1> QED
  BY <1>1, TokenTypeInit DEF TokenInit, RotationInv, TokensAreIssued, DeletedIsGone,
                             HeldTwiceIsShared, HoldsToken, Refreshing

\* A request that begins takes a token that is there, if any; what it holds is
\* then shared with whoever holds it too.
LEMMA RequestRotates ==
  ASSUME RotationInv, TokenTypeOK', NEW c \in Callers, AuthRequest(c)
  PROVE  RotationInv'
<1>1. UNCHANGED <<live, issued, spent, spentTwice>>
  BY DEF AuthRequest, Register, BeginLogin, BeginChange, BeginDelete, BeginRefresh,
         BeginLogout, Untouched
<1>2. \A d \in Callers \ {c} : authCall'[d] = authCall[d]
  BY DEF AuthRequest, Register, BeginLogin, BeginChange, BeginDelete, BeginRefresh,
         BeginLogout, AuthGoto, AuthMove, RotationInv, TokenTypeOK
<1>3. CASE ~\E t \in live : BeginRefresh(c, t) \/ BeginLogout(c, t)
  <2>1. authCall'[c].pc \notin Refreshing /\ authCall'[c].token = {} /\ shared' = shared
    BY <1>3 DEF AuthRequest, Register, BeginLogin, BeginChange, BeginDelete, AuthGoto, AuthMove,
                AuthIdle, AuthMemo, RotationInv, TokenTypeOK, Refreshing, Untouched
  <2> QED
    BY <1>1, <1>2, <2>1 DEF RotationInv, TokensAreIssued, DeletedIsGone, HeldTwiceIsShared,
                            HoldsToken, Refreshing
<1>4. ASSUME NEW t \in live, BeginLogout(c, t)
      PROVE  RotationInv'
  <2>1. authCall'[c].pc \notin Refreshing /\ authCall'[c].token = {t} /\ shared' = shared
    BY <1>4 DEF BeginLogout, AuthGoto, AuthMove, AuthMemo, RotationInv, TokenTypeOK,
                Refreshing, Untouched
  <2> QED
    BY <1>1, <1>2, <2>1 DEF RotationInv, TokensAreIssued, DeletedIsGone, HeldTwiceIsShared,
                            HoldsToken, Refreshing, TokenTypeOK
<1>5. ASSUME NEW t \in live, BeginRefresh(c, t)
      PROVE  RotationInv'
  <2>1. authCall'[c].pc \in {"drop", "delete"} /\ authCall'[c].token = {t}
    BY <1>5 DEF BeginRefresh, AuthGoto, AuthMove, AuthMemo, RotationInv, TokenTypeOK
  <2>2. shared \subseteq shared'
        /\ \A d \in Callers \ {c} : HoldsToken(d, t) => t \in shared'
    BY <1>5 DEF BeginRefresh, HoldsToken, Refreshing
  <2>3. TokensAreIssued'
    BY <1>1, <1>2, <2>1 DEF RotationInv, TokensAreIssued, TokenTypeOK
  <2>4. DeletedIsGone'
    BY <1>1, <1>2, <2>1 DEF RotationInv, DeletedIsGone
  <2>5. t \notin spent
    BY DEF RotationInv, DeletedIsGone
  <2>6. HeldTwiceIsShared'
    <3>1. spentTwice' \subseteq shared'
      BY <1>1, <2>2 DEF RotationInv, HeldTwiceIsShared
    <3>2. ASSUME NEW d \in Callers, NEW u \in Tokens, HoldsToken(d, u)', u \in spent'
          PROVE  u \in shared'
      BY <1>1, <1>2, <2>1, <2>2, <2>5, <3>2 DEF RotationInv, HeldTwiceIsShared, HoldsToken
    <3>3. ASSUME NEW d \in Callers, NEW e \in Callers, NEW u \in Tokens, d # e,
                 HoldsToken(d, u)', HoldsToken(e, u)'
          PROVE  u \in shared'
      BY <1>2, <2>1, <2>2, <3>3 DEF RotationInv, HeldTwiceIsShared, HoldsToken
    <3> QED
      BY <3>1, <3>2, <3>3 DEF HeldTwiceIsShared
  <2> QED
    BY <2>3, <2>4, <2>6 DEF RotationInv
<1> QED
  BY <1>3, <1>4, <1>5 DEF AuthRequest

\* A row leaves; no refresh holds more than it did, and one that has deleted its
\* token has it gone.
LEMMA DeletionRotates ==
  ASSUME RotationInv, TokenTypeOK', NEW c \in Callers,
         UNCHANGED <<issued, spent, spentTwice, shared>>, live' \subseteq live,
         \A d \in Callers \ {c} : authCall'[d] = authCall[d],
         authCall'[c].token \subseteq authCall[c].token,
         authCall'[c].pc \in Refreshing => authCall[c].pc \in Refreshing,
         authCall'[c].pc \in {"user", "reissue"} => authCall'[c].token \cap live' = {}
  PROVE  RotationInv'
<1>1. \A d \in Callers, t \in Tokens : HoldsToken(d, t)' => HoldsToken(d, t)
  BY DEF HoldsToken
<1>2. TokensAreIssued'
  BY DEF RotationInv, TokensAreIssued
<1>3. DeletedIsGone'
  BY DEF RotationInv, DeletedIsGone
<1>4. HeldTwiceIsShared'
  BY <1>1 DEF RotationInv, HeldTwiceIsShared
<1> QED
  BY <1>2, <1>3, <1>4 DEF RotationInv

LEMMA StepRotates ==
  ASSUME RotationInv, TokenTypeOK', NEW c \in Callers, AuthStep(c)
  PROVE  RotationInv'
<1> USE DEF AuthGoto, AuthMove, AuthMemo, AuthIdle
<1>0. authCall \in [Callers -> AuthMemos] /\ authCall[c] \in AuthMemos
  BY DEF RotationInv, TokenTypeOK, AuthMemos
<1>1. CASE RefreshDelete(c) \/ RefreshFindUser(c)
  <2>1. authCall'[c].token \in {authCall[c].token, {}}
        /\ authCall[c].pc \in Refreshing
        /\ \A d \in Callers \ {c} : authCall'[d] = authCall[d]
    BY <1>0, <1>1 DEF RefreshDelete, RefreshFindUser, AuthMemos, Refreshing
  <2>2. live' \subseteq live /\ UNCHANGED <<issued, spent, spentTwice, shared>>
    BY <1>1 DEF RefreshDelete, RefreshFindUser, Untouched
  <2>3. authCall'[c].token \cap live' = {}
    BY <1>0, <1>1, <2>1, <2>2 DEF RefreshDelete, RefreshFindUser, RotationInv, DeletedIsGone
  <2> QED
    BY <2>1, <2>2, <2>3, DeletionRotates
<1>2. CASE DropToken(c) \/ UpdatePassword(c) \/ ListTokens(c) \/ RevokeListed(c)
           \/ PurgeTokens(c) \/ DeleteUserRow(c)
  <2>1. /\ authCall'[c].token \subseteq authCall[c].token
        /\ authCall'[c].pc \notin Refreshing
    BY <1>0, <1>2 DEF DropToken, UpdatePassword, ListTokens, RevokeListed, PurgeTokens,
                      DeleteUserRow, AuthMemos, Refreshing
  <2>2. \A d \in Callers \ {c} : authCall'[d] = authCall[d]
    BY <1>0, <1>2 DEF DropToken, UpdatePassword, ListTokens, RevokeListed, PurgeTokens,
                      DeleteUserRow
  <2>3. live' \subseteq live /\ UNCHANGED <<issued, spent, spentTwice, shared>>
    BY <1>2 DEF DropToken, UpdatePassword, ListTokens, RevokeListed, PurgeTokens,
                DeleteUserRow, Untouched
  <2> QED
    BY <2>1, <2>2, <2>3, DeletionRotates DEF Refreshing
<1>3. CASE Login(c) \/ RefreshInsert(c)
  <2>1. /\ authCall'[c].pc = "idle" /\ authCall'[c].token = {}
        /\ \A d \in Callers \ {c} : authCall'[d] = authCall[d]
    BY <1>0, <1>3 DEF Login, RefreshInsert
  <2>2. /\ shared' = shared /\ password' = password
        /\ issued' \in Nat /\ issued <= issued'
        /\ live' \subseteq live \cup {issued'}
        /\ live' # live => issued < issued'
    BY <1>3 DEF Login, RefreshInsert, InsertToken, RotationInv, TokenTypeOK
  <2>3. /\ spent' \subseteq spent \cup authCall[c].token
        /\ spentTwice' \subseteq spentTwice \cup (spent \cap authCall[c].token)
        /\ (spent' # spent \/ spentTwice' # spentTwice) => authCall[c].pc = "reissue"
    BY <1>3 DEF Login, RefreshInsert
  <2>4. 1..issued \subseteq 1..issued' /\ (issued < issued' => issued' \notin 1..issued)
    BY <2>2 DEF RotationInv, TokenTypeOK
  <2>5. TokensAreIssued'
    BY <2>1, <2>3, <2>4 DEF RotationInv, TokensAreIssued
  <2>6. DeletedIsGone'
    <3>1. spent \cup authCall[c].token \subseteq 1..issued
      BY DEF RotationInv, TokensAreIssued
    <3>2. spent' \cap live' = {}
      BY <2>2, <2>3, <2>4, <3>1 DEF RotationInv, DeletedIsGone
    <3>3. \A d \in Callers \ {c} :
            authCall[d].pc \in {"user", "reissue"} => authCall[d].token \cap live' = {}
      BY <2>2, <2>4 DEF RotationInv, DeletedIsGone, TokensAreIssued
    <3> QED
      BY <2>1, <3>2, <3>3 DEF DeletedIsGone
  <2>7. HeldTwiceIsShared'
    <3>1. \A d \in Callers, t \in Tokens : HoldsToken(d, t)' => d # c /\ HoldsToken(d, t)
      BY <2>1 DEF HoldsToken, Refreshing
    <3>2. \A t \in Tokens : t \in spent' \ spent => HoldsToken(c, t)
      BY <2>3 DEF HoldsToken, Refreshing
    <3>3. spentTwice' \subseteq shared'
      BY <2>2, <2>3 DEF RotationInv, HeldTwiceIsShared, HoldsToken, Refreshing, TokenTypeOK
    <3> QED
      BY <2>2, <3>1, <3>2, <3>3 DEF RotationInv, HeldTwiceIsShared
  <2> QED
    BY <2>5, <2>6, <2>7 DEF RotationInv
<1> QED
  BY <1>1, <1>2, <1>3 DEF AuthStep

LEMMA RotationStep == RotationInv /\ [TokenNext]_tokenVars => RotationInv'
<1> SUFFICES ASSUME RotationInv, [TokenNext]_tokenVars
             PROVE  RotationInv'
  OBVIOUS
<1>1. TokenTypeOK'
  BY TokenTypeStep DEF RotationInv
<1>2. CASE UNCHANGED <<live, issued, spent, spentTwice, shared, authCall>>
  BY <1>1, <1>2 DEF RotationInv, TokensAreIssued, DeletedIsGone, HeldTwiceIsShared, HoldsToken
<1>3. ASSUME NEW t \in live, TokenExpires(t)
      PROVE  RotationInv'
  BY <1>2, <1>3 DEF TokenExpires, Untouched
\* A request that is cut short holds nothing any more.
<1>4. ASSUME NEW c \in Callers, CutAuth(c)
      PROVE  RotationInv'
  <2>1. /\ \A d \in Callers \ {c} : authCall'[d] = authCall[d]
        /\ authCall'[c].pc = "idle" /\ authCall'[c].token = {}
    BY <1>4 DEF CutAuth, RotationInv, TokenTypeOK, AuthIdle, AuthMemo
  <2>2. UNCHANGED <<live, issued, spent, spentTwice, shared>>
    BY <1>4 DEF CutAuth, Untouched
  <2> QED
    BY <1>1, <2>1, <2>2, DeletionRotates DEF Refreshing
<1> QED
  BY <1>1, <1>2, <1>3, <1>4, RequestRotates, StepRotates DEF TokenNext, tokenVars

\* A refresh token that has bought a successor is gone from the table, and it
\* buys another only when two refreshes found it before either deleted it.
THEOREM SingleUseAlways == TokenSpec => []SingleUse
<1>1. RotationInv => SingleUse
  BY DEF RotationInv, DeletedIsGone, HeldTwiceIsShared, SingleUse
<1> QED
  BY <1>1, RotationInit, RotationStep, PTL DEF TokenSpec

-----------------------------------------------------------------------------
(* OldSessionsEnd                                                          *)

LEMMA OldIsListedStep ==
  TokenTypeOK /\ OldIsListed /\ [TokenNext]_tokenVars => OldIsListed'
<1> SUFFICES ASSUME TokenTypeOK, OldIsListed, [TokenNext]_tokenVars,
                    \A c \in Callers : authCall'[c].pc # "list"
             PROVE  \A t \in live' :
                      \/ issuedAt'[t] = password' \/ t \in survivors'
                      \/ \E c \in Callers : authCall'[c].pc = "revoke" /\ t \in authCall'[c].rows
  BY DEF OldIsListed
<1> USE DEF AuthGoto, AuthMove, AuthMemo, AuthIdle
<1>0. authCall \in [Callers -> AuthMemos]
  BY DEF TokenTypeOK, AuthMemos
\* A step that lists nothing and keeps who revokes what keeps the lists complete.
<1>1. ASSUME NEW c \in Callers, authCall[c].pc \notin {"list", "revoke"},
             \A d \in Callers \ {c} : authCall'[d] = authCall[d],
             password' = password, survivors \subseteq survivors',
             \A t \in live' : \/ t \in live /\ issuedAt'[t] = issuedAt[t]
                              \/ t \in survivors' \/ issuedAt'[t] = password
      PROVE  \A t \in live' :
               \/ issuedAt'[t] = password' \/ t \in survivors'
               \/ \E d \in Callers : authCall'[d].pc = "revoke" /\ t \in authCall'[d].rows
  <2>1. \A d \in Callers : authCall[d].pc # "list"
    BY <1>1
  <2> QED
    BY <1>1, <2>1 DEF OldIsListed
<1>2. ASSUME NEW c \in Callers, AuthRequest(c)
      PROVE  \A t \in live' :
               \/ issuedAt'[t] = password' \/ t \in survivors'
               \/ \E d \in Callers : authCall'[d].pc = "revoke" /\ t \in authCall'[d].rows
  <2>1. /\ UNCHANGED <<live, issuedAt, password, survivors>> /\ authCall[c].pc = "idle"
        /\ \A d \in Callers \ {c} : authCall'[d] = authCall[d]
    BY <1>0, <1>2 DEF AuthRequest, Register, BeginLogin, BeginChange, BeginDelete, BeginRefresh,
                      BeginLogout, Untouched
  <2> QED
    BY <1>1, <2>1
<1>3. ASSUME NEW c \in Callers, AuthStep(c)
      PROVE  \A t \in live' :
               \/ issuedAt'[t] = password' \/ t \in survivors'
               \/ \E d \in Callers : authCall'[d].pc = "revoke" /\ t \in authCall'[d].rows
  <2>0. \A d \in Callers \ {c} : authCall'[d] = authCall[d]
    BY <1>0, <1>3 DEF AuthStep, Login, RefreshDelete, RefreshFindUser, RefreshInsert, DropToken,
                      UpdatePassword, ListTokens, RevokeListed, PurgeTokens, DeleteUserRow
  \* Nobody is about to list: a token of an earlier password counts as a survivor.
  <2>1. CASE Login(c) \/ RefreshInsert(c)
    <3>1. password' = password /\ authCall[c].pc \notin {"list", "revoke"} /\ InsertToken(c)
      BY <2>1 DEF Login, RefreshInsert
    <3>2. \A d \in Callers : authCall[d].pc # "list"
      BY <2>0, <3>1
    <3>3. \A t \in live' : \/ (t \in live /\ issuedAt'[t] = issuedAt[t])
                           \/ t \in survivors' \/ issuedAt'[t] = password
      <4>1. CASE registered
        <5>1. /\ issued < MaxTokens /\ issued' = issued + 1 /\ live' = live \cup {issued'}
              /\ issuedAt' = [issuedAt EXCEPT ![issued'] = authCall[c].at]
              /\ authCall[c].at # password => issued' \in survivors'
          BY <3>1, <3>2, <4>1 DEF InsertToken
        <5>2. issued' \in Tokens /\ issued' \notin live
          BY <5>1 DEF TokenTypeOK, Tokens
        <5>3. issuedAt'[issued'] = authCall[c].at
              /\ \A t \in live : issuedAt'[t] = issuedAt[t]
          BY <5>1, <5>2 DEF TokenTypeOK, Tokens
        <5> QED
          BY <5>1, <5>3
      <4>2. CASE ~registered
        BY <3>1, <4>2 DEF InsertToken
      <4> QED
        BY <4>1, <4>2
    <3>4. survivors \subseteq survivors'
      BY <3>1, InsertTokenTyped
    <3> QED
      BY <1>1, <2>0, <3>1, <3>3, <3>4
  <2>2. CASE RefreshDelete(c) \/ RefreshFindUser(c) \/ DropToken(c) \/ PurgeTokens(c)
             \/ DeleteUserRow(c)
    <3>1. /\ authCall[c].pc \notin {"list", "revoke"}
          /\ UNCHANGED <<issuedAt, password, survivors>> /\ live' \subseteq live
      BY <2>2 DEF RefreshDelete, RefreshFindUser, DropToken, PurgeTokens, DeleteUserRow, Untouched
    <3> QED
      BY <1>1, <2>0, <3>1
  <2>3. CASE UpdatePassword(c)
    <3>1. registered => authCall'[c].pc = "list"
      BY <1>0, <2>3 DEF UpdatePassword
    <3>2. UNCHANGED <<live, issuedAt, password, survivors>> /\ authCall[c].pc = "password"
      BY <2>3, <3>1 DEF UpdatePassword
    <3> QED
      BY <1>1, <2>0, <3>2
  <2>4. CASE ListTokens(c)
    BY <1>0, <2>4 DEF ListTokens, Untouched
  <2>5. CASE RevokeListed(c)
    <3> DEFINE u == CHOOSE v \in authCall[c].rows : TRUE
    <3>1. UNCHANGED <<issuedAt, password, survivors>> /\ authCall[c].pc = "revoke"
      BY <2>5 DEF RevokeListed
    <3>2. \A d \in Callers : authCall[d].pc # "list"
      BY <2>0, <3>1
    <3>3. CASE authCall[c].rows = {}
      BY <2>0, <2>5, <3>1, <3>2, <3>3 DEF RevokeListed, OldIsListed
    <3>4. CASE authCall[c].rows # {}
      <4>1. /\ live' = live \ {u}
            /\ authCall'[c].pc = "revoke" /\ authCall'[c].rows = authCall[c].rows \ {u}
        BY <1>0, <2>5, <3>4 DEF RevokeListed, AuthMemos
      <4> QED
        BY <2>0, <3>1, <3>2, <4>1 DEF OldIsListed
    <3> QED
      BY <3>3, <3>4
  <2> QED
    BY <1>3, <2>1, <2>2, <2>3, <2>4, <2>5 DEF AuthStep
<1>4. ASSUME NEW t \in live, TokenExpires(t)
      PROVE  UNCHANGED <<live, issuedAt, password, survivors, authCall>>
  BY <1>4 DEF TokenExpires, Untouched
<1>5. CASE UNCHANGED <<live, issuedAt, password, survivors, authCall>>
  BY <1>5 DEF OldIsListed
\* A change cut short hands what it had not revoked to the survivors.
<1>6. ASSUME NEW c \in Callers, CutAuth(c)
      PROVE  \A t \in live' :
               \/ issuedAt'[t] = password' \/ t \in survivors'
               \/ \E d \in Callers : authCall'[d].pc = "revoke" /\ t \in authCall'[d].rows
  <2>1. /\ UNCHANGED <<live, issuedAt, password>> /\ survivors \subseteq survivors'
        /\ \A d \in Callers \ {c} : authCall'[d] = authCall[d]
    BY <1>0, <1>6 DEF CutAuth, Untouched
  <2>2. CASE authCall[c].pc \in {"list", "revoke"}
    BY <1>6, <2>1, <2>2 DEF CutAuth
  <2>3. CASE authCall[c].pc \notin {"list", "revoke"}
    <3>1. \A d \in Callers : authCall[d].pc # "list"
      BY <2>1, <2>3
    <3> QED
      BY <2>1, <2>3, <3>1 DEF OldIsListed
  <2> QED
    BY <2>2, <2>3
<1> QED
  BY <1>2, <1>3, <1>4, <1>5, <1>6 DEF TokenNext, tokenVars

\* Once every change of password is done, no row is left that was inserted on the
\* strength of an earlier one, but for those an interrupted change did not get to
\* and those of a login or a refresh that had read the user, or its token, before
\* and inserted after the last change had listed the rows.
THEOREM OldSessionsEndAlways == TokenSpec => []OldSessionsEnd
<1>1. TokenInit => OldIsListed
  BY DEF TokenInit, OldIsListed
<1>2. OldIsListed => OldSessionsEnd
  BY DEF OldIsListed, OldSessionsEnd
<1> QED
  BY <1>1, <1>2, TokenTypeInit, TokenTypeStep, OldIsListedStep, PTL DEF TokenSpec

\* A session lasts as long as it should and no longer: its token is used once, and
\* once every change of password is done it is of the present one, unless an
\* interrupted change left it or a request under way inserted it too late.
THEOREM SessionsHoldAlways == TokenSpec => []SessionsHold
<1>1. SingleUse /\ OldSessionsEnd => SessionsHold
  BY DEF SessionsHold
<1> QED
  BY <1>1, SingleUseAlways, OldSessionsEndAlways, PTL

-----------------------------------------------------------------------------
(* Homes: type correctness                                                 *)

HomeWords == MemberRoles \cup InviteRoles \cup InviteStatuses
HomeMemos == [pc : HomePhases, u : SUBSET Users, v : SUBSET Users, word : HomeWords,
              i : SUBSET Invites, rows : SUBSET Users]

\* What the requests do to the rows, as one formula each.
HomeBegins(c) == \E m \in HomeMemos : HomeBegin(c, m)
HomeResumes(c) == \E m \in HomeMemos, p \in HomePhases \ {"idle"} : HomeResume(c, p, m)

LEMMA HomeMemoTyped ==
  /\ HomeIdle \in HomeMemos
  /\ \A p \in HomePhases, u \in SUBSET Users, v \in SUBSET Users, w \in HomeWords,
        i \in SUBSET Invites, r \in SUBSET Users : HomeMemo(p, u, v, w, i, r) \in HomeMemos
  /\ \A m \in HomeMemos, p \in HomePhases : [m EXCEPT !.pc = p] \in HomeMemos
  /\ \A m \in HomeMemos : \A r : [m EXCEPT !.rows = @ \ r] \in HomeMemos
  /\ \A m \in HomeMemos, p \in HomePhases, r \in SUBSET Users :
        [m EXCEPT !.pc = p, !.rows = r] \in HomeMemos
<1>1. "idle" \in HomePhases /\ "none" \in HomeWords
  BY DEF HomePhases, HomeWords, InviteStatuses
<1> QED
  BY <1>1 DEF HomeMemo, HomeMemos, HomeIdle

LEMMA HomePhaseNames ==
  /\ HomePhases = {"idle", "remove", "role", "owner", "promote", "demote", "others", "drop",
                   "purge", "home", "user", "join", "close"}
  /\ {"none", "OWNER", "ADMIN", "MEMBER", "ACCEPTED", "REJECTED", "REVOKED", "EXPIRED"}
       \subseteq HomeWords
  /\ MemberRoles \subseteq HomeWords /\ InviteRoles \subseteq HomeWords
  BY DEF HomePhases, HomeWords, MemberRoles, InviteStatuses

LEMMA HomeCallBegins ==
  ASSUME HomeTypeOK, NEW c \in Callers, HomeCall(c)
  PROVE  HomeBegins(c)
<1> USE HomePhaseNames, HomeMemoTyped DEF HomeBegins
<1>1. CASE CreateHome(c) \/ AddHomeMember(c)
  BY <1>1 DEF CreateHome, AddHomeMember
<1>2. CASE BeginRemove(c)
  BY <1>2 DEF BeginRemove, Members
<1>3. CASE BeginRole(c)
  BY <1>3 DEF BeginRole, Members
<1>4. CASE BeginTransfer(c)
  BY <1>4 DEF BeginTransfer, Members, HomeExists
<1>5. CASE BeginDeleteHome(c)
  BY <1>5 DEF BeginDeleteHome, Members
<1>6. CASE BeginDeleteAccount(c)
  BY <1>6 DEF BeginDeleteAccount, HomeTypeOK
<1>7. ASSUME NEW i \in Invites, CreateInvitation(c, i) \/ BeginReject(c, i) \/ BeginRevoke(c, i)
      PROVE  HomeBegins(c)
  BY <1>7 DEF CreateInvitation, BeginReject, BeginRevoke
<1>8. ASSUME NEW i \in Invites, BeginAccept(c, i)
      PROVE  HomeBegins(c)
  <2>1. InviteeOf[i] \in Users
    BY HomeAssumption DEF HomeAssumption
  <2>2. CASE i \in lateInvites
    BY <1>8, <2>2 DEF BeginAccept
  <2>3. CASE i \notin lateInvites
    <3>1. InviteRole[i] \in HomeWords
      BY HomeAssumption DEF HomeAssumption
    <3> QED
      BY <1>8, <2>1, <2>3, <3>1 DEF BeginAccept
  <2> QED
    BY <2>2, <2>3
<1> QED
  BY <1>1, <1>2, <1>3, <1>4, <1>5, <1>6, <1>7, <1>8 DEF HomeCall

LEMMA HomeStepResumes ==
  ASSUME HomeTypeOK, NEW c \in Callers, HomeStep(c)
  PROVE  HomeResumes(c)
<1>1. homeCall[c] \in HomeMemos
  BY DEF HomeTypeOK, HomeMemos, HomeWords
<1>0. Members \subseteq Users
  BY DEF Members
<1> USE HomePhaseNames, HomeMemoTyped DEF HomeResumes
<1>2. CASE RemoveMember(c) \/ UpdateRole(c) \/ TransferDemote(c) \/ DeleteUser(c)
           \/ UpdateStatus(c)
  BY <1>2 DEF RemoveMember, UpdateRole, TransferDemote, DeleteUser, UpdateStatus
<1>3. CASE TransferOwner(c) \/ TransferPromote(c) \/ DropMembership(c)
  BY <1>1, <1>3 DEF TransferOwner, TransferPromote, DropMembership
<1>4. CASE PurgeMember(c) \/ PurgeInvites(c) \/ DropHome(c)
  BY <1>1, <1>4 DEF PurgeMember, PurgeInvites, DropHome
<1>5. CASE CheckOthers(c)
  BY <1>0, <1>1, <1>5 DEF CheckOthers
<1>6. CASE AcceptJoin(c)
  <2>0. homeCall[c].i \subseteq Invites
    BY <1>1 DEF HomeMemos
  <2>1. PICK i \in homeCall[c].i :
          HomeResume(c, "join", IF CanJoin(InviteeOf[i], InviteRole[i])
                                THEN HomeMemo("close", {}, {}, "ACCEPTED", {i}, {}) ELSE HomeIdle)
    BY <1>6 DEF AcceptJoin
  <2>2. i \in Invites
    BY <2>0, <2>1
  <2> QED
    BY <2>1, <2>2
<1> QED
  BY <1>2, <1>3, <1>4, <1>5, <1>6 DEF HomeStep

\* The request's own record, and every other request's, after a step of one.
LEMMA HomeCallTyped ==
  ASSUME HomeTypeOK, NEW c \in Callers, HomeBegins(c) \/ HomeResumes(c)
  PROVE  /\ homeCall' \in [Callers -> HomeMemos]
         /\ \A d \in Callers \ {c} : homeCall'[d] = homeCall[d]
         /\ lateInvites' = lateInvites
         /\ homeRaced' \in BOOLEAN /\ selfNamed' \in BOOLEAN /\ halfGone' \in BOOLEAN
<1>1. homeCall \in [Callers -> HomeMemos]
  BY DEF HomeTypeOK, HomeMemos, HomeWords
<1>2. homeRaced \in BOOLEAN /\ selfNamed \in BOOLEAN /\ halfGone \in BOOLEAN
  BY DEF HomeTypeOK
<1>3. CASE HomeBegins(c)
  <2>1. PICK m \in HomeMemos : HomeBegin(c, m)
    BY <1>3 DEF HomeBegins
  <2>2. homeRaced' \in BOOLEAN
    BY <1>2, <2>1 DEF HomeBegin
  <2>3. selfNamed' \in BOOLEAN
    BY <1>2, <2>1 DEF HomeBegin
  <2>4. halfGone' \in BOOLEAN
    BY <1>2, <2>1, <2>2 DEF HomeBegin
  <2> QED
    BY <1>1, <2>1, <2>2, <2>3, <2>4 DEF HomeBegin
<1>4. CASE HomeResumes(c)
  BY <1>1, <1>2, <1>4 DEF HomeResumes, HomeResume
<1> QED
  BY <1>3, <1>4

LEMMA SetRoleTyped ==
  ASSUME HomeTypeOK, NEW us, NEW r \in MemberRoles, SetRole(us, r)
  PROVE  role' \in [Users -> MemberRoles \cup {"none"}]
  BY DEF HomeTypeOK, SetRole

LEMMA HomeTypeInit == HomeInit => HomeTypeOK
<1> SUFFICES ASSUME HomeInit
             PROVE  HomeTypeOK
  OBVIOUS
<1>1. homeCall \in [Callers -> HomeMemos]
  BY HomeMemoTyped DEF HomeInit
<1> QED
  BY <1>1 DEF HomeInit, HomeTypeOK, HomeMemos, HomeWords, InviteStatuses

\* What "role" and "close" requests are about to write.
WordsFit ==
    \A c \in Callers :
        /\ homeCall[c].pc = "role" => homeCall[c].word \in MemberRoles
        /\ homeCall[c].pc = "close" =>
             homeCall[c].word \in {"ACCEPTED", "REJECTED", "REVOKED", "EXPIRED"}

HomeTyped == HomeTypeOK /\ WordsFit

\* A record that is neither of a new role nor of a status keeps WordsFit.
LEMMA WordsFitStep ==
  ASSUME HomeTypeOK, WordsFit, NEW c \in Callers,
         \/ HomeCall(c)
         \/ HomeStep(c)
  PROVE  WordsFit'
<1>0. homeCall \in [Callers -> HomeMemos]
  BY DEF HomeTypeOK, HomeMemos, HomeWords
<1>1. \A d \in Callers \ {c} : homeCall'[d] = homeCall[d]
  BY HomeCallBegins, HomeStepResumes, HomeCallTyped
<1> SUFFICES /\ homeCall'[c].pc = "role" => homeCall'[c].word \in MemberRoles
             /\ homeCall'[c].pc = "close" =>
                  homeCall'[c].word \in {"ACCEPTED", "REJECTED", "REVOKED", "EXPIRED"}
  BY <1>1 DEF WordsFit
<1> USE DEF HomeMemo, HomeIdle
<1>2. ASSUME NEW m, HomeBegin(c, m)
      PROVE  homeCall'[c] = m
  BY <1>0, <1>2 DEF HomeBegin
<1>3. ASSUME NEW m, NEW p, HomeResume(c, p, m)
      PROVE  homeCall'[c] = m
  BY <1>0, <1>3 DEF HomeResume
<1>4. CASE CreateHome(c) \/ AddHomeMember(c)
  BY <1>2, <1>4 DEF CreateHome, AddHomeMember
<1>5. CASE BeginRemove(c) \/ BeginTransfer(c) \/ BeginDeleteHome(c)
  <2>1. CASE BeginRemove(c)
    BY <1>2, <2>1 DEF BeginRemove
  <2>2. CASE BeginTransfer(c)
    BY <1>2, <2>2 DEF BeginTransfer
  <2>3. CASE BeginDeleteHome(c)
    BY <1>2, <2>3 DEF BeginDeleteHome
  <2> QED
    BY <1>5, <2>1, <2>2, <2>3
<1>6. CASE BeginRole(c)
  BY <1>2, <1>6 DEF BeginRole
<1>7. CASE BeginDeleteAccount(c)
  BY <1>2, <1>7 DEF BeginDeleteAccount
<1>8. ASSUME NEW i \in Invites,
             CreateInvitation(c, i) \/ BeginReject(c, i) \/ BeginRevoke(c, i) \/ BeginAccept(c, i)
      PROVE  homeCall'[c].pc # "role" /\ (homeCall'[c].pc = "close" =>
               homeCall'[c].word \in {"ACCEPTED", "REJECTED", "REVOKED", "EXPIRED"})
  BY <1>2, <1>8 DEF CreateInvitation, BeginReject, BeginRevoke, BeginAccept
<1>9. CASE RemoveMember(c) \/ UpdateRole(c) \/ TransferDemote(c) \/ DeleteUser(c)
           \/ UpdateStatus(c)
  BY <1>3, <1>9 DEF RemoveMember, UpdateRole, TransferDemote, DeleteUser, UpdateStatus
<1>10. CASE TransferOwner(c) \/ TransferPromote(c) \/ DropMembership(c)
  BY <1>0, <1>3, <1>10 DEF TransferOwner, TransferPromote, DropMembership, HomeMemos
<1>11. CASE PurgeMember(c) \/ PurgeInvites(c) \/ DropHome(c) \/ CheckOthers(c)
  <2>1. \A q : [homeCall[c] EXCEPT !.rows = q].pc = homeCall[c].pc
    BY <1>0 DEF HomeMemos
  <2>2. CASE PurgeMember(c)
    BY <1>0, <1>3, <2>1, <2>2 DEF PurgeMember, HomeMemos, HomeResume
  <2>3. CASE PurgeInvites(c) \/ DropHome(c) \/ CheckOthers(c)
    <3>1. CASE PurgeInvites(c)
      BY <1>0, <1>3, <3>1 DEF PurgeInvites, HomeMemos
    <3>2. CASE DropHome(c)
      BY <1>0, <1>3, <3>2 DEF DropHome, HomeMemos
    <3>3. CASE CheckOthers(c)
      <4>1. CASE Members \subseteq homeCall[c].v /\ HomeExists
        <5>1. homeCall'[c] = [homeCall[c] EXCEPT !.pc = "purge", !.rows = Members]
          BY <1>0, <3>3, <4>1 DEF CheckOthers, HomeResume
        <5>2. homeCall'[c].pc = "purge"
          BY <1>0, <5>1 DEF HomeMemos
        <5> QED
          BY <5>2
      <4>2. CASE ~(Members \subseteq homeCall[c].v /\ HomeExists)
        BY <1>3, <3>3, <4>2 DEF CheckOthers
      <4> QED
        BY <4>1, <4>2
    <3> QED
      BY <2>3, <3>1, <3>2, <3>3
  <2> QED
    BY <1>11, <2>2, <2>3
<1>12. CASE AcceptJoin(c)
  BY <1>3, <1>12 DEF AcceptJoin
<1> QED
  BY <1>4, <1>5, <1>6, <1>7, <1>8, <1>9, <1>10, <1>11, <1>12 DEF HomeCall, HomeStep

LEMMA HomeTypeStep == HomeTyped /\ [HomeNext]_homeVars => HomeTyped'
<1> SUFFICES ASSUME HomeTyped, [HomeNext]_homeVars
             PROVE  HomeTyped'
  OBVIOUS
<1> USE DEF HomeTyped
<1>0. USE DEF HomeTypeOK
<1>1. ASSUME NEW c \in Callers, HomeCall(c) \/ HomeStep(c)
      PROVE  HomeTyped'
  <2>0. WordsFit'
    BY <1>1, WordsFitStep
  <2>1. HomeBegins(c) \/ HomeResumes(c)
    BY <1>1, HomeCallBegins, HomeStepResumes
  <2>2. /\ homeCall' \in [Callers -> HomeMemos] /\ lateInvites' \subseteq Invites
        /\ homeRaced' \in BOOLEAN /\ selfNamed' \in BOOLEAN /\ halfGone' \in BOOLEAN
    BY <2>1, HomeCallTyped
  <2>3. SUFFICES /\ ownerId' \in Users \cup {"unborn", "deleted"}
                 /\ role' \in [Users -> MemberRoles \cup {"none"}]
                 /\ account' \subseteq Users
                 /\ invite' \in [Invites -> InviteStatuses]
                 /\ joined' \subseteq Invites
    BY <2>0, <2>2 DEF HomeMemos, HomeWords
  <2>4. homeCall[c] \in HomeMemos
    BY DEF HomeMemos, HomeWords
  <2>5. CASE CreateHome(c)
    BY <2>5 DEF CreateHome, MemberRoles
  <2>6. CASE AddHomeMember(c)
    BY <2>6 DEF AddHomeMember
  <2>7. CASE BeginRemove(c) \/ BeginRole(c) \/ BeginTransfer(c) \/ BeginDeleteHome(c)
             \/ BeginDeleteAccount(c) \/ CheckOthers(c)
    BY <2>7 DEF BeginRemove, BeginRole, BeginTransfer, BeginDeleteHome, BeginDeleteAccount,
                CheckOthers
  <2>8. ASSUME NEW i \in Invites,
               CreateInvitation(c, i) \/ BeginReject(c, i) \/ BeginRevoke(c, i) \/ BeginAccept(c, i)
        PROVE  /\ UNCHANGED <<ownerId, role, account, joined>>
               /\ invite' \in [Invites -> InviteStatuses]
    BY <2>8 DEF CreateInvitation, BeginReject, BeginRevoke, BeginAccept, InviteStatuses
  <2>9. CASE RemoveMember(c) \/ DropMembership(c) \/ PurgeMember(c)
    BY <2>9 DEF RemoveMember, DropMembership, PurgeMember
  <2>10. CASE UpdateRole(c)
    BY <2>10, SetRoleTyped DEF UpdateRole, HomeResume, WordsFit
  <2>11. CASE TransferOwner(c)
    BY <2>4, <2>11 DEF TransferOwner, HomeMemos
  <2>12. CASE TransferPromote(c) \/ TransferDemote(c)
    BY <2>12, SetRoleTyped DEF TransferPromote, TransferDemote, MemberRoles
  <2>13. CASE PurgeInvites(c)
    BY <2>13 DEF PurgeInvites, InviteStatuses
  <2>14. CASE DropHome(c)
    BY <2>14 DEF DropHome, InviteStatuses
  <2>15. CASE DeleteUser(c)
    BY <2>15 DEF DeleteUser, InviteStatuses
  <2>16. CASE AcceptJoin(c)
    <3>1. PICK i \in homeCall[c].i :
            LET ok == CanJoin(InviteeOf[i], InviteRole[i])
            IN  /\ role' = IF ok THEN [role EXCEPT ![InviteeOf[i]] = InviteRole[i]] ELSE role
                /\ joined' = IF ok THEN joined \cup {i} ELSE joined
                /\ UNCHANGED <<ownerId, account, invite>>
      BY <2>16 DEF AcceptJoin
    <3>2. i \in Invites
      BY <2>4 DEF HomeMemos
    <3> QED
      BY <3>1, <3>2 DEF CanJoin
  <2>17. CASE UpdateStatus(c)
    <3>1. homeCall[c].word \in InviteStatuses
      BY <2>17 DEF UpdateStatus, HomeResume, WordsFit, InviteStatuses
    <3> QED
      BY <2>17, <3>1 DEF UpdateStatus
  <2> QED
    BY <1>1, <2>5, <2>6, <2>7, <2>8, <2>9, <2>10, <2>11, <2>12, <2>13, <2>14, <2>15, <2>16, <2>17
       DEF HomeCall, HomeStep
<1>2. ASSUME NEW i \in Invites, ExpiresAt(i)
      PROVE  HomeTyped'
  BY <1>2 DEF ExpiresAt, WordsFit
<1>3. CASE UNCHANGED homeVars
  BY <1>3 DEF homeVars, WordsFit
<1>4. ASSUME NEW c \in Callers, CutHome(c)
      PROVE  HomeTyped'
  <2>1. homeCall \in [Callers -> HomeMemos] /\ HomeIdle \in HomeMemos
    BY HomeMemoTyped DEF HomeMemos, HomeWords
  <2>2. homeCall' \in [Callers -> HomeMemos]
    BY <1>4, <2>1 DEF CutHome
  <2>3. \A d \in Callers : homeCall'[d] \in {homeCall[d], HomeIdle}
    BY <1>4, <2>1 DEF CutHome
  <2>4. WordsFit'
    BY <2>3 DEF WordsFit, HomeIdle, HomeMemo
  <2>5. halfGone' \in BOOLEAN
    BY <1>4 DEF CutHome
  <2> QED
    BY <1>4, <2>2, <2>4, <2>5 DEF CutHome, HomeMemos, HomeWords
<1> QED
  BY <1>1, <1>2, <1>3, <1>4 DEF HomeNext

\* Every reachable state of a home, its members and invitations is well typed: a
\* member has a role of memberships, never the VIEWER an invitation may offer.
THEOREM HomeTypedAlways == HomeSpec => []HomeTypeOK
<1>1. HomeInit => HomeTyped
  BY HomeTypeInit DEF HomeTyped, WordsFit, HomeInit, HomeIdle, HomeMemo
<1> QED
  BY <1>1, HomeTypeStep, PTL DEF HomeSpec, HomeTyped

-----------------------------------------------------------------------------
(* Homes: who overlaps whom                                                *)

\* Until two requests have overlapped, one at most is under way.
OneRequest ==
    ~homeRaced => \A c, d \in Callers :
                    c # d => homeCall[c].pc = "idle" \/ homeCall[d].pc = "idle"

\* After a step of c that nobody's step overlapped, the others are idle, and were.
LEMMA AloneInHome ==
  ASSUME HomeTypeOK, OneRequest, NEW c \in Callers, HomeBegins(c) \/ HomeResumes(c)
  PROVE  /\ OneRequest'
         /\ ~homeRaced' => /\ ~homeRaced
                           /\ \A d \in Callers \ {c} :
                                homeCall'[d] = homeCall[d] /\ homeCall[d].pc = "idle"
<1>1. \A d \in Callers \ {c} : homeCall'[d] = homeCall[d]
  BY HomeCallTyped
<1>2. CASE HomeBegins(c)
  <2>1. ~homeRaced' => ~homeRaced /\ \A d \in Callers : homeCall[d].pc = "idle"
    BY <1>2 DEF HomeBegins, HomeBegin
  <2> QED
    BY <1>1, <2>1 DEF OneRequest
<1>3. CASE HomeResumes(c)
  <2>1. homeRaced' = homeRaced
    BY <1>3 DEF HomeResumes, HomeResume
  <2>2. homeCall[c].pc # "idle"
    BY <1>3 DEF HomeResumes, HomeResume
  <2> QED
    BY <1>1, <2>1, <2>2 DEF OneRequest
<1> QED
  BY <1>2, <1>3

-----------------------------------------------------------------------------
(* Invitations                                                             *)

\* A request about to write ACCEPTED has made its invitee a member.
AcceptedIsJoined ==
    /\ AcceptedMeansJoined
    /\ \A c \in Callers :
         homeCall[c].pc = "close" /\ homeCall[c].word = "ACCEPTED" => homeCall[c].i \subseteq joined

\* What an acceptance nobody overlaps has found PENDING still is.
OpenWhileAccepted ==
    ~homeRaced =>
      \A c \in Callers : \A i \in homeCall[c].i :
        \/ homeCall[c].pc = "join"
        \/ homeCall[c].pc = "close" /\ homeCall[c].word = "ACCEPTED"
        => invite[i] = "PENDING"

InvitesInv == HomeTyped /\ OneRequest /\ AcceptedIsJoined /\ OpenWhileAccepted

Closed == {"REJECTED", "REVOKED", "EXPIRED"}

\* ClosedIsClosed of one step.
StaysClosed ==
    \A i \in Invites :
      (invite[i] \in Closed /\ ~homeRaced) =>
        (i \in joined' => i \in joined) /\ invite'[i] \in Closed \cup {"none"}

\* A step that neither accepts nor closes: the statuses stay, become none, or
\* PENDING from none.
LEMMA InvitesStay ==
  ASSUME InvitesInv, HomeTyped', NEW c \in Callers, HomeBegins(c) \/ HomeResumes(c),
         joined' = joined,
         homeCall'[c].pc = "close" => homeCall'[c].word # "ACCEPTED",
         homeCall'[c].pc = "join" => \A i \in homeCall'[c].i : invite'[i] = "PENDING",
         \A i \in Invites : \/ invite'[i] \in {invite[i], "none"}
                            \/ invite[i] = "none" /\ invite'[i] = "PENDING"
  PROVE  InvitesInv' /\ StaysClosed
<1>1. /\ OneRequest'
      /\ ~homeRaced' => /\ ~homeRaced
                        /\ \A d \in Callers \ {c} :
                             homeCall'[d] = homeCall[d] /\ homeCall[d].pc = "idle"
  BY AloneInHome DEF InvitesInv, HomeTyped
<1>2. \A d \in Callers \ {c} : homeCall'[d] = homeCall[d]
  BY HomeCallTyped DEF InvitesInv, HomeTyped
<1>3. AcceptedIsJoined'
  <2>1. AcceptedMeansJoined'
    BY DEF InvitesInv, AcceptedIsJoined, AcceptedMeansJoined
  <2>2. ~(homeCall'[c].pc = "close" /\ homeCall'[c].word = "ACCEPTED")
    OBVIOUS
  <2> QED
    BY <1>2, <2>1, <2>2 DEF InvitesInv, AcceptedIsJoined
<1>4. OpenWhileAccepted'
  <2>1. ~(homeCall'[c].pc = "close" /\ homeCall'[c].word = "ACCEPTED")
    OBVIOUS
  <2>2. homeCall'[c].pc = "join" => \A i \in homeCall'[c].i : invite'[i] = "PENDING"
    OBVIOUS
  <2> QED
    BY <1>1, <2>1, <2>2 DEF OpenWhileAccepted
<1>5. StaysClosed
  BY DEF StaysClosed, Closed
<1> QED
  BY <1>1, <1>3, <1>4, <1>5 DEF InvitesInv

LEMMA InvitesStep == InvitesInv /\ [HomeNext]_homeVars => InvitesInv' /\ StaysClosed
<1> SUFFICES ASSUME InvitesInv, [HomeNext]_homeVars
             PROVE  InvitesInv' /\ StaysClosed
  OBVIOUS
<1>0. HomeTyped'
  BY HomeTypeStep DEF InvitesInv
<1>1. homeCall \in [Callers -> HomeMemos]
  BY DEF InvitesInv, HomeTyped, HomeTypeOK, HomeMemos, HomeWords
<1>2. ASSUME NEW c \in Callers, HomeCall(c) \/ HomeStep(c)
      PROVE  InvitesInv' /\ StaysClosed
  <2>0. HomeBegins(c) \/ HomeResumes(c)
    BY <1>2, HomeCallBegins, HomeStepResumes DEF InvitesInv, HomeTyped
  <2>1. ASSUME NEW m, HomeBegin(c, m)
        PROVE  homeCall'[c] = m /\ homeCall[c].pc = "idle"
    BY <1>1, <2>1 DEF HomeBegin
  <2>2. ASSUME NEW m, NEW p, HomeResume(c, p, m)
        PROVE  homeCall'[c] = m /\ homeCall[c].pc = p
    BY <1>1, <2>2 DEF HomeResume
  <2>3. CASE \/ CreateHome(c) \/ AddHomeMember(c) \/ BeginRemove(c) \/ BeginRole(c)
             \/ BeginTransfer(c) \/ BeginDeleteHome(c) \/ BeginDeleteAccount(c)
    <3>1. UNCHANGED <<invite, joined>>
      BY <2>3 DEF CreateHome, AddHomeMember, BeginRemove, BeginRole, BeginTransfer,
                  BeginDeleteHome, BeginDeleteAccount
    <3>2. homeCall'[c].pc \notin {"join", "close"}
      <4> USE DEF HomeMemo, HomeIdle
      <4>1. CASE CreateHome(c) \/ AddHomeMember(c)
        BY <2>1, <4>1 DEF CreateHome, AddHomeMember
      <4>2. CASE BeginRemove(c)
        BY <2>1, <4>2 DEF BeginRemove
      <4>3. CASE BeginRole(c)
        BY <2>1, <4>3 DEF BeginRole
      <4>4. CASE BeginTransfer(c)
        BY <2>1, <4>4 DEF BeginTransfer
      <4>5. CASE BeginDeleteHome(c)
        BY <2>1, <4>5 DEF BeginDeleteHome
      <4>6. CASE BeginDeleteAccount(c)
        BY <2>1, <4>6 DEF BeginDeleteAccount
      <4> QED
        BY <2>3, <4>1, <4>2, <4>3, <4>4, <4>5, <4>6
    <3> QED
      BY <1>0, <2>0, <3>1, <3>2, InvitesStay
  <2>4. ASSUME NEW i \in Invites, CreateInvitation(c, i)
        PROVE  InvitesInv' /\ StaysClosed
    <3>1. homeCall'[c] = HomeIdle /\ homeCall[c].pc = "idle" /\ joined' = joined
          /\ invite[i] = "none" /\ invite' = [invite EXCEPT ![i] = "PENDING"]
      BY <2>1, <2>4 DEF CreateInvitation
    <3>2. invite \in [Invites -> InviteStatuses]
      BY DEF InvitesInv, HomeTyped, HomeTypeOK
    <3> QED
      BY <1>0, <2>0, <3>1, <3>2, InvitesStay DEF HomeIdle, HomeMemo
  <2>5. ASSUME NEW i \in Invites, BeginAccept(c, i)
        PROVE  InvitesInv' /\ StaysClosed
    <3>1. UNCHANGED <<invite, joined>> /\ homeCall[c].pc = "idle" /\ invite[i] = "PENDING"
      BY <2>1, <2>5 DEF BeginAccept
    <3>2. CASE i \in lateInvites
      <4>1. homeCall'[c].pc = "close" /\ homeCall'[c].word = "EXPIRED"
        BY <2>1, <2>5, <3>2 DEF BeginAccept, HomeMemo
      <4> QED
        BY <1>0, <2>0, <3>1, <4>1, InvitesStay
    <3>3. CASE i \notin lateInvites
      <4>1. homeCall'[c].pc = "join" /\ homeCall'[c].i = {i}
        BY <2>1, <2>5, <3>3 DEF BeginAccept, HomeMemo
      <4> QED
        BY <1>0, <2>0, <3>1, <4>1, InvitesStay
    <3> QED
      BY <3>2, <3>3
  <2>6. ASSUME NEW i \in Invites, BeginReject(c, i) \/ BeginRevoke(c, i)
        PROVE  InvitesInv' /\ StaysClosed
    <3>1. UNCHANGED <<invite, joined>> /\ homeCall[c].pc = "idle"
      BY <2>1, <2>6 DEF BeginReject, BeginRevoke
    <3>2. homeCall'[c].pc = "close" /\ homeCall'[c].word # "ACCEPTED"
      BY <2>1, <2>6 DEF BeginReject, BeginRevoke, HomeMemo
    <3> QED
      BY <1>0, <2>0, <3>1, <3>2, InvitesStay
  <2>7. CASE \/ RemoveMember(c) \/ UpdateRole(c) \/ TransferOwner(c) \/ TransferPromote(c)
             \/ TransferDemote(c) \/ PurgeMember(c) \/ PurgeInvites(c) \/ DropHome(c)
             \/ CheckOthers(c) \/ DropMembership(c) \/ DeleteUser(c)
    <3>1. homeCall[c].pc \notin {"join", "close"} /\ joined' = joined
      BY <2>7 DEF RemoveMember, UpdateRole, TransferOwner, TransferPromote, TransferDemote,
                  PurgeMember, PurgeInvites, DropHome, CheckOthers, DropMembership, DeleteUser,
                  HomeResume
    <3>2. \A i \in Invites : invite'[i] \in {invite[i], "none"}
      BY <2>7 DEF RemoveMember, UpdateRole, TransferOwner, TransferPromote, TransferDemote,
                  PurgeMember, PurgeInvites, DropHome, CheckOthers, DropMembership, DeleteUser
    <3>3. homeCall'[c].pc \notin {"join", "close"}
      <4>1. homeCall[c] \in HomeMemos /\ HomeIdle.pc = "idle"
        BY <1>1 DEF HomeIdle, HomeMemo
      <4>3. CASE RemoveMember(c) \/ UpdateRole(c) \/ TransferDemote(c) \/ DeleteUser(c)
        BY <2>2, <4>1, <4>3 DEF RemoveMember, UpdateRole, TransferDemote, DeleteUser
      <4>4. CASE TransferOwner(c)
        <5>1. homeCall'[c] \in {[homeCall[c] EXCEPT !.pc = "promote"], HomeIdle}
          BY <1>1, <4>4 DEF TransferOwner, HomeResume
        <5> QED
          BY <4>1, <5>1 DEF HomeMemos
      <4>5. CASE TransferPromote(c)
        <5>1. homeCall'[c] \in {[homeCall[c] EXCEPT !.pc = "demote"], HomeIdle}
          BY <1>1, <4>5 DEF TransferPromote, HomeResume
        <5> QED
          BY <4>1, <5>1 DEF HomeMemos
      <4>6. CASE PurgeMember(c)
        BY <1>1, <4>1, <4>6 DEF PurgeMember, HomeResume, HomeMemos
      <4>7. CASE PurgeInvites(c)
        <5>1. homeCall'[c] \in {[homeCall[c] EXCEPT !.pc = "home"], HomeIdle}
          BY <1>1, <4>7 DEF PurgeInvites, HomeResume
        <5> QED
          BY <4>1, <5>1 DEF HomeMemos
      <4>8. CASE DropHome(c)
        <5>1. homeCall'[c] \in {[homeCall[c] EXCEPT !.pc = "user"], HomeIdle}
          BY <1>1, <4>8 DEF DropHome, HomeResume
        <5> QED
          BY <4>1, <5>1 DEF HomeMemos
      <4>9. CASE CheckOthers(c)
        <5>1. CASE Members \subseteq homeCall[c].v /\ HomeExists
          <6>1. homeCall'[c] = [homeCall[c] EXCEPT !.pc = "purge", !.rows = Members]
            BY <1>1, <4>9, <5>1 DEF CheckOthers, HomeResume
          <6> QED
            BY <4>1, <6>1 DEF HomeMemos
        <5>2. CASE ~(Members \subseteq homeCall[c].v /\ HomeExists)
          BY <2>2, <4>1, <4>9, <5>2 DEF CheckOthers
        <5> QED
          BY <5>1, <5>2
      <4>10. CASE DropMembership(c)
        <5>1. homeCall'[c] \in {[homeCall[c] EXCEPT !.pc = "user"], HomeIdle}
          BY <1>1, <4>10 DEF DropMembership, HomeResume
        <5> QED
          BY <4>1, <5>1 DEF HomeMemos
      <4> QED
        BY <2>7, <4>3, <4>4, <4>5, <4>6, <4>7, <4>8, <4>9, <4>10
    <3> QED
      BY <1>0, <2>0, <3>1, <3>2, <3>3, InvitesStay
  <2>8. CASE AcceptJoin(c)
    <3>1. PICK i \in homeCall[c].i :
            LET ok == CanJoin(InviteeOf[i], InviteRole[i])
            IN  /\ HomeResume(c, "join", IF ok THEN HomeMemo("close", {}, {}, "ACCEPTED", {i}, {})
                                         ELSE HomeIdle)
                /\ joined' = IF ok THEN joined \cup {i} ELSE joined
                /\ invite' = invite
      BY <2>8 DEF AcceptJoin
    <3>2. CASE ~CanJoin(InviteeOf[i], InviteRole[i])
      <4>1. homeCall'[c] = HomeIdle /\ joined' = joined /\ homeCall[c].pc = "join"
        BY <2>2, <3>1, <3>2
      <4>2. homeCall'[c].pc = "idle"
        BY <4>1 DEF HomeIdle, HomeMemo
      <4> QED
        BY <1>0, <2>0, <3>1, <4>1, <4>2, InvitesStay
    <3>3. CASE CanJoin(InviteeOf[i], InviteRole[i])
      <4>1. /\ homeCall'[c] = HomeMemo("close", {}, {}, "ACCEPTED", {i}, {})
            /\ homeCall[c].pc = "join" /\ joined' = joined \cup {i} /\ invite' = invite
        BY <2>2, <3>1, <3>3
      <4>2. homeCall'[c].pc = "close" /\ homeCall'[c].i = {i}
        BY <4>1 DEF HomeMemo
      <4>3. \A d \in Callers \ {c} : homeCall'[d] = homeCall[d]
        BY <2>0, HomeCallTyped DEF InvitesInv, HomeTyped
      <4>4. /\ OneRequest'
            /\ ~homeRaced' => ~homeRaced /\ \A d \in Callers \ {c} : homeCall'[d].pc = "idle"
        BY <2>0, AloneInHome DEF InvitesInv, HomeTyped
      <4>5. ~homeRaced => invite[i] = "PENDING"
        BY <3>1, <4>1 DEF InvitesInv, OpenWhileAccepted
      <4>6. AcceptedIsJoined'
        BY <4>1, <4>2, <4>3 DEF InvitesInv, AcceptedIsJoined, AcceptedMeansJoined
      <4>7. OpenWhileAccepted'
        BY <4>1, <4>2, <4>4, <4>5 DEF OpenWhileAccepted
      <4>8. StaysClosed
        BY <4>1, <4>5 DEF StaysClosed, Closed
      <4> QED
        BY <1>0, <4>4, <4>6, <4>7, <4>8 DEF InvitesInv
    <3> QED
      BY <3>2, <3>3
  <2>9. CASE UpdateStatus(c)
    <3>1. /\ homeCall'[c] = HomeIdle /\ homeCall[c].pc = "close" /\ joined' = joined
          /\ invite' = [i \in Invites |-> IF i \in homeCall[c].i /\ invite[i] # "none"
                                          THEN homeCall[c].word ELSE invite[i]]
      BY <2>2, <2>9 DEF UpdateStatus
    <3>2. homeCall'[c].pc = "idle"
      BY <3>1 DEF HomeIdle, HomeMemo
    <3>3. \A d \in Callers \ {c} : homeCall'[d] = homeCall[d]
      BY <2>0, HomeCallTyped DEF InvitesInv, HomeTyped
    <3>4. /\ OneRequest'
          /\ ~homeRaced' => ~homeRaced /\ \A d \in Callers \ {c} : homeCall'[d].pc = "idle"
      BY <2>0, AloneInHome DEF InvitesInv, HomeTyped
    <3>5. homeCall[c].word \in {"ACCEPTED"} \cup Closed
      BY <3>1 DEF InvitesInv, HomeTyped, WordsFit, Closed
    <3>6. AcceptedIsJoined'
      BY <3>1, <3>2, <3>3 DEF InvitesInv, AcceptedIsJoined, AcceptedMeansJoined
    <3>7. OpenWhileAccepted'
      BY <3>2, <3>4 DEF OpenWhileAccepted
    <3>8. StaysClosed
      BY <3>1, <3>5 DEF StaysClosed, Closed, InvitesInv, OpenWhileAccepted
    <3> QED
      BY <1>0, <3>4, <3>6, <3>7, <3>8 DEF InvitesInv
  <2> QED
    BY <1>2, <2>3, <2>4, <2>5, <2>6, <2>7, <2>8, <2>9 DEF HomeCall, HomeStep
<1>3. CASE UNCHANGED <<invite, joined, homeCall, homeRaced>>
  <2>1. OneRequest' /\ AcceptedIsJoined' /\ OpenWhileAccepted'
    BY <1>3 DEF InvitesInv, OneRequest, AcceptedIsJoined, AcceptedMeansJoined, OpenWhileAccepted
  <2>2. StaysClosed
    BY <1>3 DEF StaysClosed
  <2> QED
    BY <1>0, <2>1, <2>2 DEF InvitesInv
<1>4. ASSUME NEW i \in Invites, ExpiresAt(i)
      PROVE  UNCHANGED <<invite, joined, homeCall, homeRaced>>
  BY <1>4 DEF ExpiresAt
\* A request that is cut short writes nothing more.
<1>5. ASSUME NEW c \in Callers, CutHome(c)
      PROVE  InvitesInv' /\ StaysClosed
  <2>1. UNCHANGED <<invite, joined, homeRaced>>
    BY <1>5 DEF CutHome
  <2>2. \A d \in Callers : homeCall'[d] = homeCall[d] \/ homeCall'[d].pc = "idle"
    BY <1>1, <1>5 DEF CutHome, HomeIdle, HomeMemo
  <2>3. OneRequest'
    BY <2>1, <2>2 DEF InvitesInv, OneRequest
  <2>4. AcceptedIsJoined'
    BY <2>1, <2>2 DEF InvitesInv, AcceptedIsJoined, AcceptedMeansJoined
  <2>5. OpenWhileAccepted'
    BY <2>1, <2>2 DEF InvitesInv, OpenWhileAccepted
  <2>6. StaysClosed
    BY <2>1 DEF StaysClosed
  <2> QED
    BY <1>0, <2>3, <2>4, <2>5, <2>6 DEF InvitesInv
<1> QED
  BY <1>2, <1>3, <1>4, <1>5 DEF HomeNext, homeVars

LEMMA InvitesInit == HomeInit => InvitesInv
<1> SUFFICES ASSUME HomeInit
             PROVE  InvitesInv
  OBVIOUS
<1>1. \A c \in Callers : homeCall[c].pc = "idle"
  BY DEF HomeInit, HomeIdle, HomeMemo
<1>2. HomeTyped
  BY <1>1, HomeTypeInit DEF HomeTyped, WordsFit
<1> QED
  BY <1>1, <1>2 DEF HomeInit, InvitesInv, OneRequest, AcceptedIsJoined, AcceptedMeansJoined,
                    OpenWhileAccepted

\* An invitation is marked ACCEPTED only after its invitee was made a member.
THEOREM AcceptedMeansJoinedAlways == HomeSpec => []AcceptedMeansJoined
<1>1. InvitesInv => AcceptedMeansJoined
  BY DEF InvitesInv, AcceptedIsJoined
<1> QED
  BY <1>1, InvitesInit, InvitesStep, PTL DEF HomeSpec

\* Without overlapping requests an invitation that was rejected, revoked or has
\* expired brings nobody in, and stays closed.
THEOREM ClosedIsClosedAlways == HomeSpec => ClosedIsClosed
<1>1. StaysClosed =>
        [\A i \in Invites :
           (invite[i] \in {"REJECTED", "REVOKED", "EXPIRED"} /\ ~homeRaced) =>
             /\ i \in joined' => i \in joined
             /\ invite'[i] \in {"REJECTED", "REVOKED", "EXPIRED", "none"}]_homeVars
  BY DEF StaysClosed, Closed
<1> QED
  BY <1>1, InvitesInit, InvitesStep, PTL DEF HomeSpec, ClosedIsClosed

-----------------------------------------------------------------------------
(* OwnerKept                                                               *)

\* Whatever the request c does next, an owner is left.
KeepsOwner(c) ==
    LET m == homeCall[c]
    IN  /\ m.pc \in {"others", "owner", "promote", "role", "join", "close"} => Owners # {}
        /\ m.pc \in {"remove", "drop", "user"} => Owners \ (m.u \cup m.v) # {}
        /\ m.pc = "role" /\ m.word # "OWNER" => Owners \ m.u # {}
        /\ m.pc \in {"owner", "promote"} => m.u # {} /\ m.u \cap m.v = {}
        /\ m.pc = "demote" => (Owners \cap m.u) \ m.v # {}

OwnersStay ==
    (~homeRaced /\ ~selfNamed /\ ~halfGone /\ HomeExists) =>
      /\ \A c \in Callers : KeepsOwner(c)
      /\ (\A c \in Callers : homeCall[c].pc = "idle") => Owners # {}

OwnersInv == HomeTyped /\ OneRequest /\ OwnersStay

\* What a step of c that nobody overlaps must establish.
LEMMA OwnersStayBy ==
  ASSUME OwnersInv, HomeTyped', NEW c \in Callers, HomeBegins(c) \/ HomeResumes(c),
         (~homeRaced' /\ ~selfNamed' /\ ~halfGone' /\ HomeExists') =>
            KeepsOwner(c)' /\ (homeCall'[c].pc = "idle" => Owners' # {})
  PROVE  OwnersInv'
<1>1. /\ OneRequest'
      /\ ~homeRaced' => /\ ~homeRaced
                        /\ \A d \in Callers \ {c} :
                             homeCall'[d] = homeCall[d] /\ homeCall[d].pc = "idle"
  BY AloneInHome DEF OwnersInv, HomeTyped
<1>2. ASSUME NEW d \in Callers, homeCall'[d].pc = "idle"
      PROVE  KeepsOwner(d)'
  BY <1>2 DEF KeepsOwner
<1>3. OwnersStay'
  BY <1>1, <1>2 DEF OwnersStay
<1> QED
  BY <1>1, <1>3 DEF OwnersInv

\* Before a request that overlaps no other begins, an owner is there.
LEMMA OwnersBefore ==
  ASSUME OwnersInv, NEW c \in Callers, NEW m, HomeBegin(c, m),
         ~homeRaced', ~selfNamed', ~halfGone', HomeExists
  PROVE  /\ Owners # {} /\ homeCall'[c] = m
         /\ m.pc = "owner" => m.u # m.v
<1>1. homeCall \in [Callers -> HomeMemos]
  BY DEF OwnersInv, HomeTyped, HomeTypeOK, HomeMemos, HomeWords
<1>2. ~homeRaced /\ ~selfNamed /\ ~halfGone /\ \A d \in Callers : homeCall[d].pc = "idle"
  BY DEF HomeBegin
<1> QED
  BY <1>1, <1>2 DEF HomeBegin, OwnersInv, OwnersStay

\* While one is under way alone, it keeps an owner.
LEMMA OwnersDuring ==
  ASSUME OwnersInv, NEW c \in Callers, NEW p, NEW m, HomeResume(c, p, m),
         ~homeRaced', ~selfNamed', ~halfGone', HomeExists
  PROVE  KeepsOwner(c) /\ homeCall'[c] = m /\ homeCall[c].pc = p
<1>1. homeCall \in [Callers -> HomeMemos]
  BY DEF OwnersInv, HomeTyped, HomeTypeOK, HomeMemos, HomeWords
<1> QED
  BY <1>1 DEF HomeResume, OwnersInv, OwnersStay

LEMMA OwnersCall ==
  ASSUME OwnersInv, HomeTyped', NEW c \in Callers, HomeCall(c)
  PROVE  OwnersInv'
<1>0. HomeBegins(c) \/ HomeResumes(c)
  BY HomeCallBegins DEF OwnersInv, HomeTyped
<1>1. role \in [Users -> MemberRoles \cup {"none"}]
  BY DEF OwnersInv, HomeTyped, HomeTypeOK
<1> USE DEF HomeMemo, HomeIdle
<1>2. SUFFICES ASSUME ~homeRaced', ~selfNamed', ~halfGone', HomeExists'
               PROVE  KeepsOwner(c)' /\ (homeCall'[c].pc = "idle" => Owners' # {})
  BY <1>0, OwnersStayBy
<1>3. CASE CreateHome(c)
  <2>1. PICK u \in account : role' = [role EXCEPT ![u] = "OWNER"] /\ HomeBegin(c, HomeIdle)
    BY <1>3 DEF CreateHome
  <2>2. u \in Users
    BY <2>1 DEF OwnersInv, HomeTyped, HomeTypeOK
  <2>3. u \in Owners'
    BY <1>1, <2>1, <2>2 DEF Owners
  <2>4. homeCall'[c].pc = "idle"
    BY <2>1 DEF HomeBegin, OwnersInv, HomeTyped, HomeTypeOK
  <2> QED
    BY <2>3, <2>4 DEF KeepsOwner
<1>4. CASE ~CreateHome(c)
  <2>0. ownerId' = ownerId
    BY <1>4 DEF HomeCall, AddHomeMember, BeginRemove, BeginRole, BeginTransfer, BeginDeleteHome,
                BeginDeleteAccount, CreateInvitation, BeginAccept, BeginReject, BeginRevoke
  <2>1. HomeExists
    BY <1>2, <2>0 DEF HomeExists
  <2>2. CASE AddHomeMember(c)
    <3>1. PICK u \in Users, r \in MemberRoles :
            /\ role[u] = "none" /\ role' = [role EXCEPT ![u] = r] /\ HomeBegin(c, HomeIdle)
      BY <2>2 DEF AddHomeMember, CanJoin
    <3>2. Owners \subseteq Owners'
      BY <1>1, <3>1 DEF Owners
    <3>3. Owners # {} /\ homeCall'[c].pc = "idle"
      BY <1>2, <2>1, <3>1, OwnersBefore
    <3> QED
      BY <3>2, <3>3 DEF KeepsOwner
  <2>3. CASE ~AddHomeMember(c)
    <3>0. Owners' = Owners
      BY <1>4, <2>3
         DEF HomeCall, BeginRemove, BeginRole, BeginTransfer, BeginDeleteHome,
             BeginDeleteAccount, CreateInvitation, BeginAccept, BeginReject, BeginRevoke, Owners
    <3>1. CASE BeginRemove(c)
      <4>1. PICK u \in Members : ~SoleOwner(u)
                                 /\ HomeBegin(c, HomeMemo("remove", {u}, {}, "none", {}, {}))
        BY <3>1 DEF BeginRemove
      <4>2. Owners # {} /\ homeCall'[c] = HomeMemo("remove", {u}, {}, "none", {}, {})
        BY <1>2, <2>1, <4>1, OwnersBefore
      <4>3. Owners \ {u} # {}
        BY <4>1, <4>2 DEF SoleOwner
      <4> QED
        BY <3>0, <4>2, <4>3 DEF KeepsOwner
    <3>2. CASE BeginRole(c)
      <4>1. PICK u \in Members, r \in MemberRoles :
              (SoleOwner(u) => r = "OWNER") /\ HomeBegin(c, HomeMemo("role", {u}, {}, r, {}, {}))
        BY <3>2 DEF BeginRole
      <4>2. Owners # {} /\ homeCall'[c] = HomeMemo("role", {u}, {}, r, {}, {})
        BY <1>2, <2>1, <4>1, OwnersBefore
      <4>3. r # "OWNER" => Owners \ {u} # {}
        BY <4>1, <4>2 DEF SoleOwner
      <4> QED
        BY <3>0, <4>2, <4>3 DEF KeepsOwner
    <3>3. CASE BeginTransfer(c)
      <4>1. PICK new \in Members : HomeBegin(c, HomeMemo("owner", {new}, {ownerId}, "none", {}, {}))
        BY <3>3 DEF BeginTransfer
      <4>2. Owners # {} /\ homeCall'[c] = HomeMemo("owner", {new}, {ownerId}, "none", {}, {})
            /\ new # ownerId
        BY <1>2, <2>1, <4>1, OwnersBefore
      <4>3. {new} \cap {ownerId} = {}
        BY <4>2
      <4> QED
        BY <3>0, <4>2, <4>3 DEF KeepsOwner
    <3>4. CASE BeginDeleteHome(c)
      <4>1. homeCall'[c] = HomeMemo("purge", {}, {}, "none", {}, Members)
        BY <1>2, <2>1, <3>4, OwnersBefore DEF BeginDeleteHome
      <4> QED
        BY <4>1 DEF KeepsOwner
    <3>5. CASE BeginDeleteAccount(c)
      <4>1. PICK u \in account :
              HomeBegin(c, HomeMemo(CASE role[u] = "none" -> "user" [] role[u] = "OWNER" -> "others"
                                    [] OTHER -> "drop", {}, {u}, "none", {}, {}))
        BY <3>5 DEF BeginDeleteAccount
      <4> DEFINE p == CASE role[u] = "none" -> "user" [] role[u] = "OWNER" -> "others"
                      [] OTHER -> "drop"
      <4>2. Owners # {} /\ homeCall'[c] = HomeMemo(p, {}, {u}, "none", {}, {})
        BY <1>2, <2>1, <4>1, OwnersBefore
      <4>3. p \in {"user", "others", "drop"} /\ (p # "others" => role[u] # "OWNER")
        OBVIOUS
      <4>4. p # "others" => Owners \ {u} = Owners
        BY <4>3 DEF Owners
      <4> HIDE DEF p
      <4> QED
        BY <3>0, <4>2, <4>3, <4>4 DEF KeepsOwner
    <3>6. ASSUME NEW i \in Invites,
                 CreateInvitation(c, i) \/ BeginAccept(c, i) \/ BeginReject(c, i)
                   \/ BeginRevoke(c, i)
          PROVE  KeepsOwner(c)' /\ (homeCall'[c].pc = "idle" => Owners' # {})
      <4>1. \E m : HomeBegin(c, m) /\ m.pc \in {"idle", "join", "close"}
        <5>1. CASE CreateInvitation(c, i)
          BY <5>1 DEF CreateInvitation
        <5>2. CASE BeginAccept(c, i)
          <6>1. CASE i \in lateInvites
            BY <5>2, <6>1 DEF BeginAccept
          <6>2. CASE i \notin lateInvites
            BY <5>2, <6>2 DEF BeginAccept
          <6> QED
            BY <6>1, <6>2
        <5>3. CASE BeginReject(c, i)
          BY <5>3 DEF BeginReject
        <5>4. CASE BeginRevoke(c, i)
          BY <5>4 DEF BeginRevoke
        <5> QED
          BY <3>6, <5>1, <5>2, <5>3, <5>4
      <4>2. Owners # {} /\ homeCall'[c].pc \in {"idle", "join", "close"}
        BY <1>2, <2>1, <4>1, OwnersBefore
      <4> QED
        BY <3>0, <4>2 DEF KeepsOwner
    <3> QED
      BY <1>4, <2>3, <3>1, <3>2, <3>3, <3>4, <3>5, <3>6 DEF HomeCall
  <2> QED
    BY <2>2, <2>3
<1> QED
  BY <1>3, <1>4

LEMMA OwnersResume ==
  ASSUME OwnersInv, HomeTyped', NEW c \in Callers, HomeStep(c)
  PROVE  OwnersInv'
<1>0. HomeBegins(c) \/ HomeResumes(c)
  BY HomeStepResumes DEF OwnersInv, HomeTyped
<1>1. /\ role \in [Users -> MemberRoles \cup {"none"}] /\ homeCall[c] \in HomeMemos
      /\ HomeIdle.pc = "idle"
  BY DEF OwnersInv, HomeTyped, HomeTypeOK, HomeMemos, HomeWords, HomeIdle, HomeMemo
<1>2. SUFFICES ASSUME ~homeRaced', ~selfNamed', ~halfGone', HomeExists'
               PROVE  KeepsOwner(c)' /\ (homeCall'[c].pc = "idle" => Owners' # {})
  BY <1>0, OwnersStayBy
\* A request that ends leaves an owner.
<1>3. ASSUME homeCall'[c] = HomeIdle, Owners' # {}
      PROVE  KeepsOwner(c)' /\ (homeCall'[c].pc = "idle" => Owners' # {})
  BY <1>1, <1>3 DEF KeepsOwner
<1>4. CASE DropHome(c)
  <2>1. ~HomeExists'
    BY <1>4, HomeAssumption DEF DropHome, HomeExists, HomeAssumption
  <2> QED
    BY <1>2, <2>1
<1>5. CASE ~DropHome(c)
  <2>1. HomeExists
    BY <1>2, <1>5 DEF HomeStep, RemoveMember, UpdateRole, TransferOwner, TransferPromote,
       TransferDemote, PurgeMember, PurgeInvites, CheckOthers, DropMembership, DeleteUser,
       AcceptJoin, UpdateStatus, HomeExists
  <2>2. ASSUME NEW p, NEW m, HomeResume(c, p, m)
        PROVE  KeepsOwner(c) /\ homeCall'[c] = m /\ homeCall[c].pc = p
    BY <1>2, <2>1, <2>2, OwnersDuring
  <2>3. CASE RemoveMember(c)
    <3>1. homeCall'[c] = HomeIdle /\ Owners \ (homeCall[c].u \cup homeCall[c].v) # {}
      BY <2>2, <2>3 DEF RemoveMember, KeepsOwner
    <3>2. Owners \ homeCall[c].u \subseteq Owners'
      BY <2>3 DEF RemoveMember, Owners
    <3> QED
      BY <1>3, <3>1, <3>2
  <2>4. CASE UpdateRole(c)
    <3>1. /\ homeCall'[c] = HomeIdle /\ Owners # {}
          /\ homeCall[c].word # "OWNER" => Owners \ homeCall[c].u # {}
      BY <2>2, <2>4 DEF UpdateRole, KeepsOwner
    <3>2. Owners \ homeCall[c].u \subseteq Owners'
          /\ (homeCall[c].word = "OWNER" => Owners \subseteq Owners')
      BY <2>4 DEF UpdateRole, SetRole, Owners
    <3> QED
      BY <1>3, <3>1, <3>2
  <2>5. CASE TransferOwner(c)
    <3>1. PICK m \in {[homeCall[c] EXCEPT !.pc = "promote"], HomeIdle} : HomeResume(c, "owner", m)
      BY <2>5 DEF TransferOwner
    <3>2. KeepsOwner(c) /\ homeCall'[c] = m /\ homeCall[c].pc = "owner"
      BY <2>2, <3>1
    <3>3. /\ Owners # {} /\ Owners' = Owners
          /\ homeCall[c].u # {} /\ homeCall[c].u \cap homeCall[c].v = {}
      BY <2>5, <3>2 DEF KeepsOwner, TransferOwner, Owners
    <3>4. CASE m = HomeIdle
      BY <1>3, <3>2, <3>3, <3>4
    <3>5. CASE m = [homeCall[c] EXCEPT !.pc = "promote"]
      <4>1. m.pc = "promote" /\ m.u = homeCall[c].u /\ m.v = homeCall[c].v
        BY <1>1, <3>5 DEF HomeMemos
      <4> QED
        BY <3>2, <3>3, <4>1 DEF KeepsOwner
    <3> QED
      BY <3>1, <3>4, <3>5
  <2>6. CASE TransferPromote(c)
    <3>1. Owners \subseteq Owners' /\ homeCall[c].u \cap Members \subseteq Owners'
      BY <2>6 DEF TransferPromote, SetRole, Owners, Members
    <3>2. CASE ~(homeCall[c].u \subseteq Members)
      <4>1. homeCall'[c] = HomeIdle /\ KeepsOwner(c) /\ homeCall[c].pc = "promote"
        BY <2>2, <2>6, <3>2 DEF TransferPromote
      <4>2. Owners # {}
        BY <4>1 DEF KeepsOwner
      <4> QED
        BY <1>3, <3>1, <4>1, <4>2
    <3>3. CASE homeCall[c].u \subseteq Members
      <4>1. /\ homeCall'[c] = [homeCall[c] EXCEPT !.pc = "demote"]
            /\ KeepsOwner(c) /\ homeCall[c].pc = "promote"
        BY <2>2, <2>6, <3>3 DEF TransferPromote
      <4>2. homeCall'[c].pc = "demote" /\ homeCall'[c].u = homeCall[c].u
            /\ homeCall'[c].v = homeCall[c].v
        BY <1>1, <4>1 DEF HomeMemos
      <4>3. homeCall[c].u # {} /\ homeCall[c].u \cap homeCall[c].v = {}
        BY <4>1 DEF KeepsOwner
      <4> QED
        BY <3>1, <3>3, <4>2, <4>3 DEF KeepsOwner
    <3> QED
      BY <3>2, <3>3
  <2>7. CASE TransferDemote(c)
    <3>1. homeCall'[c] = HomeIdle /\ (Owners \cap homeCall[c].u) \ homeCall[c].v # {}
      BY <2>2, <2>7 DEF TransferDemote, KeepsOwner
    <3>2. Owners \ homeCall[c].v \subseteq Owners'
      BY <2>7 DEF TransferDemote, SetRole, Owners
    <3> QED
      BY <1>3, <3>1, <3>2
  <2>8. CASE PurgeMember(c) \/ PurgeInvites(c)
    <3>1. homeCall'[c].pc \in {"purge", "home"}
      <4>1. CASE PurgeMember(c)
        <5>1. PICK u : HomeResume(c, "purge", [homeCall[c] EXCEPT !.rows = @ \ {u}])
          BY <4>1 DEF PurgeMember
        <5>2. homeCall'[c] = [homeCall[c] EXCEPT !.rows = @ \ {u}] /\ homeCall[c].pc = "purge"
          BY <2>2, <5>1
        <5> QED
          BY <1>1, <5>2 DEF HomeMemos
      <4>2. CASE PurgeInvites(c)
        <5>1. homeCall'[c] = [homeCall[c] EXCEPT !.pc = "home"]
          BY <2>2, <4>2 DEF PurgeInvites
        <5> QED
          BY <1>1, <5>1 DEF HomeMemos
      <4> QED
        BY <2>8, <4>1, <4>2
    <3> QED
      BY <3>1 DEF KeepsOwner
  <2>9. CASE CheckOthers(c)
    <3>1. PICK m \in {[homeCall[c] EXCEPT !.pc = "purge", !.rows = Members], HomeIdle} :
            HomeResume(c, "others", m)
      BY <2>9 DEF CheckOthers
    <3>2. KeepsOwner(c) /\ homeCall'[c] = m /\ homeCall[c].pc = "others"
      BY <2>2, <3>1
    <3>3. Owners' # {}
      BY <2>9, <3>2 DEF KeepsOwner, CheckOthers, Owners
    <3>4. CASE m = [homeCall[c] EXCEPT !.pc = "purge", !.rows = Members]
      <4>1. m.pc = "purge"
        BY <1>1, <3>4 DEF HomeMemos
      <4> QED
        BY <3>2, <4>1 DEF KeepsOwner
    <3> QED
      BY <1>3, <3>1, <3>2, <3>3, <3>4
  <2>10. CASE DropMembership(c)
    <3>1. PICK m \in {[homeCall[c] EXCEPT !.pc = "user"], HomeIdle} : HomeResume(c, "drop", m)
      BY <2>10 DEF DropMembership
    <3>2. KeepsOwner(c) /\ homeCall'[c] = m /\ homeCall[c].pc = "drop"
      BY <2>2, <3>1
    <3>3. Owners \ (homeCall[c].u \cup homeCall[c].v) # {}
      BY <3>2 DEF KeepsOwner
    <3>4. Owners \ homeCall[c].v \subseteq Owners'
      BY <2>10 DEF DropMembership, Owners
    <3>5. CASE m = [homeCall[c] EXCEPT !.pc = "user"]
      <4>1. m.pc = "user" /\ m.u = homeCall[c].u /\ m.v = homeCall[c].v
        BY <1>1, <3>5 DEF HomeMemos
      <4> QED
        BY <3>2, <3>3, <3>4, <4>1 DEF KeepsOwner
    <3> QED
      BY <1>3, <3>1, <3>2, <3>3, <3>4, <3>5
  <2>11. CASE DeleteUser(c)
    <3>1. homeCall'[c] = HomeIdle /\ Owners \ (homeCall[c].u \cup homeCall[c].v) # {}
      BY <2>2, <2>11 DEF DeleteUser, KeepsOwner
    <3>2. Owners \ homeCall[c].v \subseteq Owners'
      BY <2>11 DEF DeleteUser, Owners
    <3> QED
      BY <1>3, <3>1, <3>2
  <2>12. CASE AcceptJoin(c)
    <3>1. PICK i \in homeCall[c].i :
            LET ok == CanJoin(InviteeOf[i], InviteRole[i])
            IN  /\ HomeResume(c, "join", IF ok THEN HomeMemo("close", {}, {}, "ACCEPTED", {i}, {})
                                         ELSE HomeIdle)
                /\ role' = IF ok THEN [role EXCEPT ![InviteeOf[i]] = InviteRole[i]] ELSE role
      BY <2>12 DEF AcceptJoin
    <3>2. PICK m \in {HomeMemo("close", {}, {}, "ACCEPTED", {i}, {}), HomeIdle} :
            HomeResume(c, "join", m)
      BY <3>1
    <3>3. KeepsOwner(c) /\ homeCall'[c] = m /\ homeCall[c].pc = "join"
      BY <2>2, <3>2
    <3>4. Owners # {}
      BY <3>3 DEF KeepsOwner
    <3>5. Owners \subseteq Owners'
      BY <1>1, <3>1 DEF Owners, CanJoin
    <3>6. m.pc \in {"close", "idle"}
      BY <3>2 DEF HomeMemo, HomeIdle
    <3> QED
      BY <3>3, <3>4, <3>5, <3>6 DEF KeepsOwner
  <2>13. CASE UpdateStatus(c)
    <3>1. homeCall'[c] = HomeIdle /\ Owners # {}
      BY <2>2, <2>13 DEF UpdateStatus, KeepsOwner
    <3>2. Owners' = Owners
      BY <2>13 DEF UpdateStatus, Owners
    <3> QED
      BY <1>3, <3>1, <3>2
  <2> QED
    BY <1>5, <2>3, <2>4, <2>5, <2>6, <2>7, <2>8, <2>9, <2>10, <2>11, <2>12, <2>13 DEF HomeStep
<1> QED
  BY <1>4, <1>5

\* A home that exists keeps an owner between requests, unless requests have
\* overlapped, an owner has transferred it to itself, or a deletion was cut short.
THEOREM OwnerKeptAlways == HomeSpec => []OwnerKept
<1>1. HomeInit => OwnersInv
  BY InvitesInit, HomeAssumption
     DEF InvitesInv, OwnersInv, OwnersStay, HomeInit, HomeExists, HomeAssumption
<1>2. OwnersInv /\ [HomeNext]_homeVars => OwnersInv'
  <2> SUFFICES ASSUME OwnersInv, [HomeNext]_homeVars
               PROVE  OwnersInv'
    OBVIOUS
  <2>1. HomeTyped'
    BY HomeTypeStep DEF OwnersInv
  <2>2. CASE UNCHANGED <<ownerId, role, homeCall, homeRaced, selfNamed, halfGone>>
    <3>1. OneRequest' /\ OwnersStay'
      BY <2>2 DEF OwnersInv, OneRequest, OwnersStay, KeepsOwner, Owners, HomeExists
    <3> QED
      BY <2>1, <3>1 DEF OwnersInv
  <2>3. ASSUME NEW i \in Invites, ExpiresAt(i)
        PROVE  UNCHANGED <<ownerId, role, homeCall, homeRaced, selfNamed, halfGone>>
    BY <2>3 DEF ExpiresAt
  \* Cut short anywhere but in a deletion of the home, a request leaves an owner.
  <2>4. ASSUME NEW c \in Callers, CutHome(c)
        PROVE  OwnersInv'
    <3>1. homeCall \in [Callers -> HomeMemos]
      BY DEF OwnersInv, HomeTyped, HomeTypeOK, HomeMemos, HomeWords
    <3>2. \A d \in Callers : homeCall'[d] = homeCall[d] \/ homeCall'[d].pc = "idle"
      BY <2>4, <3>1 DEF CutHome, HomeIdle, HomeMemo
    <3>3. UNCHANGED <<ownerId, role, homeRaced, selfNamed>>
      BY <2>4 DEF CutHome
    <3>4. OneRequest'
      BY <3>2, <3>3 DEF OwnersInv, OneRequest
    <3>5. OwnersStay'
      <4>1. SUFFICES ASSUME ~homeRaced, ~selfNamed, ~halfGone', HomeExists
                     PROVE  (\A d \in Callers : KeepsOwner(d)') /\ Owners' # {}
        BY <3>3 DEF OwnersStay, HomeExists
      <4>2. ~halfGone /\ homeCall[c].pc \notin {"purge", "home", "idle"}
        BY <2>4, <4>1 DEF CutHome
      <4>3. \A d \in Callers : KeepsOwner(d)
        BY <4>1, <4>2 DEF OwnersInv, OwnersStay
      <4>4. homeCall[c].pc \in HomePhases
        BY <3>1 DEF HomeMemos
      <4>5. Owners # {}
        BY <4>2, <4>3, <4>4 DEF KeepsOwner, HomePhases
      <4>6. Owners' = Owners
        BY <3>3 DEF Owners
      <4>7. ASSUME NEW d \in Callers
            PROVE  KeepsOwner(d)'
        BY <3>2, <4>3, <4>6 DEF KeepsOwner
      <4> QED
        BY <4>5, <4>6, <4>7
    <3> QED
      BY <2>1, <3>4, <3>5 DEF OwnersInv
  <2> QED
    BY <2>1, <2>2, <2>3, <2>4, OwnersCall, OwnersResume DEF HomeNext, homeVars
<1>3. OwnersInv => OwnerKept
  BY DEF OwnersInv, OwnersStay, OwnerKept
<1> QED
  BY <1>1, <1>2, <1>3, PTL DEF HomeSpec
=============================================================================
