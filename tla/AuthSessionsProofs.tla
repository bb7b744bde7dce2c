------------------------- MODULE AuthSessionsProofs -------------------------
(***************************************************************************)
(* What AuthSessions promises, for any number of requests, sessions and    *)
(* tokens.  Every step of a request changes its own record of handler; the *)
(* lemma Keeps reduces the type invariant to that record and to the rows.  *)
(***************************************************************************)
EXTENDS AuthSessions, FiniteSetTheorems, TLAPS

Raisers == {"create_user", "change_commit", "reset_commit"}
Raising == {p \in Api : handler[p].at \in Raisers}

RowTypes ==
  /\ password \in 0..MaxPasswords
  /\ verified \in BOOLEAN
  /\ session \in [Sessions -> SessionStates]
  /\ token \in [Kinds -> [Tokens -> TokenStates]]
  /\ proof \in [Sessions -> 0..MaxPasswords]
  /\ root \in [Sessions -> 0..MaxSessions]
  /\ uses \in [Tokens -> Nat]

\* Each request that will raise the password has room to do so.
Typed ==
  /\ RowTypes
  /\ handler \in [Api -> AuthHandler]
  /\ password + Cardinality(Raising) <= MaxPasswords

LEMMA HandlerFields ==
  ASSUME NEW h \in AuthHandler
  PROVE  /\ h.at = "open_session" => h.proof \in 1..MaxPasswords /\ h.registers \in BOOLEAN
         /\ h.at \in {"refresh_commit", "revoke_commit"} => h.session \in Sessions
         /\ h.at \in {"reset_commit", "confirm_commit"} => h.token \in Tokens
         /\ h.at \in {"issue_consume", "issue_create"} =>
              h.kind \in Kinds /\ h.granted \in Sessions \cup {None}
         /\ h.at = "issue_create" => h.old \in SUBSET Tokens
<1>1. CASE h = Idle
  BY <1>1 DEF Idle
<1>2. CASE h \in [at: {"create_user", "change_commit"}]
  BY <1>2
<1>3. CASE h \in [at: {"open_session"}, proof: 1..MaxPasswords, registers: BOOLEAN]
  BY <1>3
<1>4. CASE h \in [at: {"refresh_commit", "revoke_commit"}, session: Sessions]
  BY <1>4
<1>5. CASE h \in [at: {"reset_commit", "confirm_commit"}, token: Tokens]
  BY <1>5
<1>6. CASE h \in [at: {"issue_consume"}, kind: Kinds, granted: Sessions \cup {None}]
  BY <1>6
<1>7. CASE h \in [at: {"issue_create"}, kind: Kinds, granted: Sessions \cup {None},
                  old: SUBSET Tokens]
  BY <1>7
<1>8. CASE h \in [at: {"reply"}, granted: Sessions \cup {None}]
  BY <1>8
<1> QED
  BY <1>1, <1>2, <1>3, <1>4, <1>5, <1>6, <1>7, <1>8 DEF AuthHandler

LEMMA RaisingFinite ==
  ASSUME AuthAssumption
  PROVE  IsFiniteSet(Raising) /\ Cardinality(Raising) \in Nat
<1>1. Raising \in SUBSET Api
  BY DEF Raising
<1> QED
  BY <1>1, FS_Subset, FS_CardinalityType DEF AuthAssumption

\* A step that does not begin a change of the password.
LEMMA Keeps ==
  ASSUME AuthAssumption, Typed, RowTypes',
         NEW p \in Api, NEW h \in AuthHandler, handler' = [handler EXCEPT ![p] = h],
         h.at \notin Raisers,
         password' = password \/ (p \in Raising /\ password' <= password + 1)
  PROVE  Typed'
<1>1. handler' \in [Api -> AuthHandler]
  BY DEF Typed
<1>2. Raising' = Raising \ {p}
  BY DEF Typed, Raising
<1>3. Cardinality(Raising') = IF p \in Raising THEN Cardinality(Raising) - 1
                              ELSE Cardinality(Raising)
  BY <1>2, RaisingFinite, FS_RemoveElement
<1>4. password \in Nat /\ password' \in Nat /\ MaxPasswords \in Nat
  BY DEF Typed, RowTypes, AuthAssumption
<1>5. password' + Cardinality(Raising') <= MaxPasswords
  BY <1>3, <1>4, RaisingFinite DEF Typed
<1> QED
  BY <1>1, <1>5 DEF Typed

\* A step that begins one.
LEMMA Raises ==
  ASSUME AuthAssumption, Typed, UNCHANGED authVars, RoomForPassword,
         NEW p \in Api, NEW h \in AuthHandler, handler' = [handler EXCEPT ![p] = h]
  PROVE  Typed'
<1>1. handler' \in [Api -> AuthHandler]
  BY DEF Typed
<1>2. Raising' \in SUBSET (Raising \cup {p}) /\ IsFiniteSet(Raising \cup {p})
  BY RaisingFinite, FS_AddElement DEF Typed, Raising
<1>3. Cardinality(Raising') <= Cardinality(Raising \cup {p})
  BY <1>2, FS_Subset
<1>4. Cardinality(Raising \cup {p}) = IF p \in Raising THEN Cardinality(Raising)
                                      ELSE Cardinality(Raising) + 1
  BY RaisingFinite, FS_AddElement
<1>5. IsFiniteSet(Raising') /\ Cardinality(Raising') \in Nat
  BY <1>2, FS_Subset, FS_CardinalityType
<1>6. password + Cardinality(Raising) < MaxPasswords
  BY DEF RoomForPassword, Pending, Raising, Raisers
<1>7. password \in Nat /\ MaxPasswords \in Nat /\ password' = password
  BY DEF Typed, RowTypes, AuthAssumption, authVars, account
<1>8. Cardinality(Raising \cup {p}) \in Nat
  BY <1>2, FS_CardinalityType
<1>9. password' + Cardinality(Raising') <= MaxPasswords
  BY <1>3, <1>4, <1>5, <1>6, <1>7, <1>8, RaisingFinite
<1>10. RowTypes'
  BY DEF Typed, RowTypes, authVars, account, sessions
<1> QED
  BY <1>1, <1>9, <1>10 DEF Typed

LEMMA RepliesTyped ==
  /\ Idle \in AuthHandler /\ Idle.at \notin Raisers
  /\ Replying(None) \in AuthHandler /\ Replying(None).at \notin Raisers
  /\ \A s \in Sessions : Replying(s) \in AuthHandler /\ Replying(s).at \notin Raisers
BY DEF Idle, Replying, AuthHandler, Raisers

\* A step of a request that leaves the rows alone and raises nothing.
LEMMA Waits ==
  ASSUME AuthAssumption, Typed, UNCHANGED authVars,
         NEW p \in Api, NEW h \in AuthHandler, handler' = [handler EXCEPT ![p] = h],
         h.at \notin Raisers
  PROVE  Typed'
<1>1. RowTypes' /\ password' = password
  BY DEF Typed, RowTypes, authVars, account, sessions
<1> QED
  BY <1>1, Keeps

LEMMA SessionRequestTyped ==
  ASSUME AuthAssumption, Typed, NEW p \in Api, SessionRequest(p)
  PROVE  Typed'
<1>1. CASE RegisterBegin(p)
  <2>1. [at |-> "create_user"] \in AuthHandler
    BY DEF AuthHandler
  <2> QED
    BY <1>1, <2>1, Raises DEF RegisterBegin, Begin, Suspend
<1>2. CASE LoginBegin(p)
  <2> DEFINE h == [at |-> "open_session", proof |-> password, registers |-> FALSE]
  <2>1. password \in 1..MaxPasswords
    BY <1>2 DEF LoginBegin, Known, Typed, RowTypes, AuthAssumption
  <2>2. h \in AuthHandler /\ h.at \notin Raisers
    BY <2>1 DEF AuthHandler, Raisers
  <2>3. handler' = [handler EXCEPT ![p] = h] /\ UNCHANGED authVars
    BY <1>2 DEF LoginBegin, Begin, Suspend
  <2> HIDE DEF h
  <2> QED
    BY <2>2, <2>3, Waits
<1>3. CASE ChangeBegin(p)
  <2>1. [at |-> "change_commit"] \in AuthHandler
    BY DEF AuthHandler
  <2> QED
    BY <1>3, <2>1, Raises DEF ChangeBegin, Begin, Suspend
<1>4. ASSUME NEW s \in Sessions, RefreshBegin(p, s) \/ LogoutBegin(p, s) \/ RevokeBegin(p, s)
      PROVE  Typed'
  <2> DEFINE h(a) == [at |-> a, session |-> s]
  <2>1. \A a \in {"refresh_commit", "revoke_commit"} : h(a) \in AuthHandler /\ h(a).at \notin Raisers
    BY DEF AuthHandler, Raisers
  <2>2. UNCHANGED authVars /\ \/ handler' = [handler EXCEPT ![p] = Replying(None)]
                              \/ handler' = [handler EXCEPT ![p] = h("refresh_commit")]
                              \/ handler' = [handler EXCEPT ![p] = h("revoke_commit")]
    BY <1>4 DEF RefreshBegin, LogoutBegin, RevokeBegin, Begin, Suspend
  <2> HIDE DEF h
  <2> QED
    BY <2>1, <2>2, Waits, RepliesTyped
<1> QED
  BY <1>1, <1>2, <1>3, <1>4 DEF SessionRequest

LEMMA TokenRequestTyped ==
  ASSUME AuthAssumption, Typed, NEW p \in Api, NEW k \in Kinds, TokenRequest(p, k)
  PROVE  Typed'
<1>1. ASSUME NEW kind \in Kinds, Issue(p, kind)
      PROVE  Typed'
  <2> DEFINE h == [at |-> "issue_consume", kind |-> kind, granted |-> None]
  <2>1. h \in AuthHandler /\ h.at \notin Raisers
    BY DEF AuthHandler, Raisers
  <2>2. handler' = [handler EXCEPT ![p] = h] /\ UNCHANGED authVars
    BY <1>1 DEF Issue, Begin, Suspend
  <2> HIDE DEF h
  <2> QED
    BY <2>1, <2>2, Waits
<1>2. ASSUME NEW t \in Tokens, ResetBegin(p, t)
      PROVE  Typed'
  <2>1. [at |-> "reset_commit", token |-> t] \in AuthHandler
    BY DEF AuthHandler
  <2> QED
    BY <1>2, <2>1, Raises DEF ResetBegin, Begin, Suspend
<1>3. ASSUME NEW t \in Tokens, ConfirmBegin(p, t)
      PROVE  Typed'
  <2> DEFINE h == [at |-> "confirm_commit", token |-> t]
  <2>1. h \in AuthHandler /\ h.at \notin Raisers
    BY DEF AuthHandler, Raisers
  <2>2. handler' = [handler EXCEPT ![p] = h] /\ UNCHANGED authVars
    BY <1>3 DEF ConfirmBegin, Begin, Suspend
  <2> HIDE DEF h
  <2> QED
    BY <2>1, <2>2, Waits
<1>4. "reset" \in Kinds /\ "verify" \in Kinds
  BY DEF Kinds
<1> QED
  BY <1>1, <1>2, <1>3, <1>4 DEF TokenRequest, RequestPasswordReset, RequestEmailVerification

LEMMA ConsumedTyped ==
  ASSUME RowTypes, NEW k \in Kinds, NEW old
  PROVE  Consumed(k, old) \in [Kinds -> [Tokens -> TokenStates]]
<1>1. [t \in Tokens |-> IF t \in old /\ token[k][t] # "none" THEN "consumed" ELSE token[k][t]]
        \in [Tokens -> TokenStates]
  BY DEF RowTypes, TokenStates
<1> QED
  BY <1>1 DEF RowTypes, Consumed

LEMMA AuthStepTyped ==
  ASSUME AuthAssumption, Typed, NEW p \in Api, AuthStep(p)
  PROVE  Typed'
<1> USE DEF Suspend, At
<1>0. RowTypes /\ handler[p] \in AuthHandler
  BY DEF Typed
<1>1. CASE CreateUser(p)
  <2>1. p \in Raising /\ password \in Nat /\ MaxPasswords \in Nat
    BY <1>1, <1>0 DEF CreateUser, Raising, Raisers, AuthAssumption, RowTypes
  <2>2. Cardinality(Raising) >= 1
    <3>1. Raising # {}
      BY <2>1
    <3> QED
      BY <3>1, RaisingFinite, FS_EmptySet
  <2>3. 1 \in 1..MaxPasswords
    BY <2>1, <2>2, RaisingFinite DEF Typed
  <2> DEFINE h == [at |-> "open_session", proof |-> 1, registers |-> TRUE]
  <2>4. h \in AuthHandler /\ h.at \notin Raisers
    BY <2>3 DEF AuthHandler, Raisers
  <2>5. password' = password \/ (password = 0 /\ password' = 1)
    BY <1>1 DEF CreateUser, Known
  <2>6. RowTypes'
    BY <1>0, <1>1, <2>3, <2>5 DEF CreateUser, RowTypes, sessions
  <2>7. handler' = [handler EXCEPT ![p] = h] \/ handler' = [handler EXCEPT ![p] = Replying(None)]
    BY <1>1 DEF CreateUser
  <2>8. password' = password \/ (p \in Raising /\ password' <= password + 1)
    BY <2>1, <2>5
  <2> HIDE DEF h
  <2> QED
    BY <2>4, <2>6, <2>7, <2>8, Keeps, RepliesTyped
<1>2. CASE OpenSession(p)
  <2>1. handler[p].proof \in 0..MaxPasswords
    BY <1>0, <1>2, HandlerFields DEF OpenSession, AuthAssumption
  <2>2. PICK s \in Sessions :
          /\ session' = [session EXCEPT ![s] = "live"]
          /\ proof' = [proof EXCEPT ![s] = handler[p].proof]
          /\ root' = [root EXCEPT ![s] = s]
          /\ handler' = [handler EXCEPT ![p] =
               IF handler[p].registers
               THEN [at |-> "issue_consume", kind |-> "verify", granted |-> s]
               ELSE Replying(s)]
    BY <1>2 DEF OpenSession
  <2>3. s \in 0..MaxSessions
    BY DEF Sessions, AuthAssumption
  <2>4. RowTypes' /\ password' = password
    BY <1>0, <1>2, <2>1, <2>2, <2>3 DEF OpenSession, RowTypes, SessionStates, account
  <2> DEFINE h == IF handler[p].registers
                  THEN [at |-> "issue_consume", kind |-> "verify", granted |-> s]
                  ELSE Replying(s)
  <2>5. h \in AuthHandler /\ h.at \notin Raisers
    BY RepliesTyped DEF AuthHandler, Raisers, Kinds
  <2>6. handler' = [handler EXCEPT ![p] = h]
    BY <2>2
  <2> HIDE DEF h
  <2> QED
    BY <2>4, <2>5, <2>6, Keeps
<1>3. CASE RefreshCommit(p)
  <2>1. handler[p].session \in Sessions
    BY <1>0, <1>3, HandlerFields DEF RefreshCommit
  <2>2. PICK s \in Sessions :
          /\ session' = [session EXCEPT ![handler[p].session] = "revoked", ![s] = "live"]
          /\ proof' = [proof EXCEPT ![s] = proof[handler[p].session]]
          /\ root' = [root EXCEPT ![s] = root[handler[p].session]]
          /\ handler' = [handler EXCEPT ![p] = Replying(s)]
    BY <1>3 DEF RefreshCommit
  <2>3. RowTypes' /\ password' = password
    BY <1>0, <1>3, <2>1, <2>2 DEF RefreshCommit, RowTypes, SessionStates, account
  <2> QED
    BY <2>2, <2>3, Keeps, RepliesTyped
<1>4. CASE RevokeCommit(p)
  <2>1. RowTypes' /\ password' = password
    BY <1>0, <1>4, HandlerFields DEF RevokeCommit, RowTypes, SessionStates, account
  <2>2. handler' = [handler EXCEPT ![p] = Replying(None)]
    BY <1>4 DEF RevokeCommit
  <2> QED
    BY <2>1, <2>2, Keeps, RepliesTyped
<1>5. CASE ChangeCommit(p) \/ ResetCommit(p)
  <2>1. p \in Raising /\ password' = password + 1 /\ password \in Nat /\ MaxPasswords \in Nat
    BY <1>0, <1>5 DEF ChangeCommit, ResetCommit, Raising, Raisers, RowTypes, AuthAssumption
  <2>2. Cardinality(Raising) >= 1
    <3>1. Raising # {}
      BY <2>1
    <3> QED
      BY <3>1, RaisingFinite, FS_EmptySet
  <2>3. password' \in 0..MaxPasswords
    BY <2>1, <2>2, RaisingFinite DEF Typed
  <2>4. AllRevoked \in [Sessions -> SessionStates]
    BY DEF AllRevoked, SessionStates
  <2>5. Consumed("reset", Tokens) \in [Kinds -> [Tokens -> TokenStates]]
    BY <1>0, ConsumedTyped DEF Kinds
  <2>6. uses' \in [Tokens -> Nat]
    BY <1>0, <1>5, HandlerFields DEF ChangeCommit, ResetCommit, RowTypes
  <2>7. RowTypes'
    BY <1>0, <1>5, <2>3, <2>4, <2>5, <2>6 DEF ChangeCommit, ResetCommit, RowTypes
  <2>8. handler' = [handler EXCEPT ![p] = Replying(None)]
    BY <1>5 DEF ChangeCommit, ResetCommit
  <2>9. password' <= password + 1
    BY <2>1
  <2> QED
    BY <2>1, <2>7, <2>8, <2>9, Keeps, RepliesTyped
<1>6. CASE IssueConsume(p)
  <2> DEFINE h == [at |-> "issue_create", kind |-> handler[p].kind,
                   granted |-> handler[p].granted, old |-> Open(handler[p].kind)]
  <2>1. h \in AuthHandler /\ h.at \notin Raisers
    BY <1>0, <1>6, HandlerFields DEF IssueConsume, AuthHandler, Raisers, Open
  <2>2. handler' = [handler EXCEPT ![p] = h] /\ UNCHANGED authVars
    BY <1>6 DEF IssueConsume
  <2> HIDE DEF h
  <2> QED
    BY <2>1, <2>2, Waits
<1>7. CASE IssueCreate(p)
  <2>1. handler[p].kind \in Kinds /\ handler[p].granted \in Sessions \cup {None}
    BY <1>0, <1>7, HandlerFields DEF IssueCreate
  <2>2. PICK t \in Tokens : token' =
          [Consumed(handler[p].kind, handler[p].old) EXCEPT ![handler[p].kind][t] = "open"]
    BY <1>7 DEF IssueCreate
  <2>3. Consumed(handler[p].kind, handler[p].old) \in [Kinds -> [Tokens -> TokenStates]]
    BY <1>0, <2>1, ConsumedTyped
  <2>4. token' \in [Kinds -> [Tokens -> TokenStates]]
    BY <2>1, <2>2, <2>3 DEF TokenStates
  <2>5. RowTypes' /\ password' = password
    BY <1>0, <1>7, <2>4 DEF IssueCreate, RowTypes, account, sessions
  <2>6. \/ handler' = [handler EXCEPT ![p] = Replying(handler[p].granted)]
        \/ handler' = [handler EXCEPT ![p] = Replying(None)]
    BY <1>7 DEF IssueCreate
  <2> QED
    BY <2>1, <2>5, <2>6, Keeps, RepliesTyped
<1>8. CASE ConfirmCommit(p)
  <2>1. Consumed("verify", Tokens) \in [Kinds -> [Tokens -> TokenStates]]
    BY <1>0, ConsumedTyped DEF Kinds
  <2>2. RowTypes' /\ password' = password
    BY <1>0, <1>8, <2>1 DEF ConfirmCommit, RowTypes, sessions
  <2>3. handler' = [handler EXCEPT ![p] = Replying(None)]
    BY <1>8 DEF ConfirmCommit
  <2> QED
    BY <2>2, <2>3, Keeps, RepliesTyped
<1> QED
  BY <1>1, <1>2, <1>3, <1>4, <1>5, <1>6, <1>7, <1>8 DEF AuthStep

\* A step of the clock or of staff that runs no request changes no handler.
LEMMA RowsOnly ==
  ASSUME Typed, RowTypes', UNCHANGED <<password, handler>>
  PROVE  Typed'
BY DEF Typed, Raising

LEMMA NextTyped ==
  ASSUME AuthAssumption, Typed, [AuthNext]_<<authVars, handler>>
  PROVE  Typed'
<1>1. ASSUME NEW p \in Api, Reply(p)
      PROVE  Typed'
  BY <1>1, Waits, RepliesTyped DEF Reply, Finish, Suspend
<1>2. CASE RevokeUserSessions
  <2>1. RowTypes'
    BY <1>2 DEF RevokeUserSessions, Typed, RowTypes, SessionStates, account
  <2> QED
    BY <1>2, <2>1, RowsOnly DEF RevokeUserSessions, account
<1>3. ASSUME NEW s \in Sessions, ExpireSession(s)
      PROVE  Typed'
  <2>1. RowTypes'
    BY <1>3 DEF ExpireSession, Typed, RowTypes, SessionStates, account
  <2> QED
    BY <1>3, <2>1, RowsOnly DEF ExpireSession, account
<1>4. ASSUME NEW k \in Kinds, NEW t \in Tokens, ExpireToken(k, t)
      PROVE  Typed'
  <2>1. RowTypes'
    BY <1>4 DEF ExpireToken, Typed, RowTypes, TokenStates, account, sessions
  <2> QED
    BY <1>4, <2>1, RowsOnly DEF ExpireToken, account
<1>5. CASE UNCHANGED <<authVars, handler>>
  <2>1. RowTypes'
    BY <1>5 DEF Typed, RowTypes, authVars, account, sessions
  <2> QED
    BY <1>5, <2>1, RowsOnly DEF authVars, account
<1> QED
  BY <1>1, <1>2, <1>3, <1>4, <1>5, SessionRequestTyped, TokenRequestTyped, AuthStepTyped
     DEF AuthNext

LEMMA InitTyped ==
  ASSUME AuthAssumption, AuthInit
  PROVE  Typed
<1>0. verified \in BOOLEAN
  BY Zenon DEF AuthInit, AuthRowsInit
<1>1. RowTypes
  BY <1>0 DEF AuthInit, AuthRowsInit, RowTypes, SessionStates, TokenStates, AuthAssumption
<1>2. handler \in [Api -> AuthHandler]
  BY RepliesTyped DEF AuthInit, HandlersIdle
<1>3. Raising = {}
  BY DEF AuthInit, HandlersIdle, Raising, Raisers, Idle
<1>4. password + Cardinality(Raising) <= MaxPasswords
  BY <1>3, FS_EmptySet DEF AuthInit, AuthRowsInit, AuthAssumption
<1> QED
  BY <1>1, <1>2, <1>4 DEF Typed

\* Every variable keeps a value of its type; in particular the account never
\* has more passwords than its requests have room for.
THEOREM AccountTypes == AuthSpec => []AuthTypeOK
<1>1. Typed => AuthTypeOK
  BY DEF Typed, RowTypes, AuthTypeOK, HandlersWithin
<1> QED
  BY <1>1, InitTyped, NextTyped, AuthAssumption, PTL DEF AuthSpec

-----------------------------------------------------------------------------
\* A session that has been revoked is never usable again: no step, however
\* late, writes another state over it.
THEOREM RevocationLasts == AuthSpec => RevokedForGood
<1> DEFINE Lasts == \A s \in Sessions : session[s] = "revoked" => session'[s] = "revoked"
<1>1. ASSUME Typed, [AuthNext]_<<authVars, handler>>
      PROVE  [Lasts]_session
  <2> USE <1>1 DEF Typed, RowTypes
  <2>1. ASSUME NEW p \in Api, SessionRequest(p) \/ Reply(p)
        PROVE  session' = session
    BY <2>1 DEF SessionRequest, RegisterBegin, LoginBegin, ChangeBegin, RefreshBegin,
                LogoutBegin, RevokeBegin, Reply, authVars, sessions
  <2>2. ASSUME NEW p \in Api, NEW k \in Kinds, TokenRequest(p, k)
        PROVE  session' = session
    BY <2>2 DEF TokenRequest, RequestPasswordReset, RequestEmailVerification, Issue,
                ResetBegin, ConfirmBegin, authVars, sessions
  <2>3. ASSUME NEW p \in Api, AuthStep(p)
        PROVE  Lasts
    <3>1. CASE OpenSession(p)
      BY <3>1 DEF OpenSession, IsNext
    <3>2. CASE RefreshCommit(p)
      <4>1. handler[p].session \in Sessions
        BY <3>2, HandlerFields DEF RefreshCommit, At
      <4> QED
        BY <3>2, <4>1 DEF RefreshCommit, IsNext
    <3>3. CASE RevokeCommit(p)
      <4>1. handler[p].session \in Sessions
        BY <3>3, HandlerFields DEF RevokeCommit, At
      <4> QED
        BY <3>3, <4>1 DEF RevokeCommit
    <3>4. CASE ChangeCommit(p) \/ ResetCommit(p)
      BY <3>4 DEF ChangeCommit, ResetCommit, AllRevoked
    <3>5. CASE CreateUser(p) \/ IssueConsume(p) \/ IssueCreate(p) \/ ConfirmCommit(p)
      BY <3>5 DEF CreateUser, IssueConsume, IssueCreate, ConfirmCommit, authVars, sessions
    <3> QED
      BY <2>3, <3>1, <3>2, <3>3, <3>4, <3>5 DEF AuthStep
  <2>4. CASE RevokeUserSessions \/ \E s \in Sessions : ExpireSession(s)
    BY <2>4 DEF RevokeUserSessions, ExpireSession
  <2>5. CASE \E k \in Kinds, t \in Tokens : ExpireToken(k, t)
    BY <2>5 DEF ExpireToken, sessions
  <2>6. CASE UNCHANGED <<authVars, handler>>
    BY <2>6 DEF authVars, sessions
  <2> QED
    BY <2>1, <2>2, <2>3, <2>4, <2>5, <2>6 DEF AuthNext
<1> QED
  BY <1>1, InitTyped, NextTyped, AuthAssumption, PTL DEF AuthSpec, RevokedForGood

-----------------------------------------------------------------------------
(* Stragglers.  A login that was checked with an earlier password may still *)
(* open a session (Late), and a refresh may renew one (Renewing).  Each     *)
(* login that stale sessions descend from can be blamed on a request of its *)
(* own, and none on the request that changed the password: whoever is       *)
(* blamed was in flight at that moment.                                     *)

Late(p) == handler[p].at = "open_session" /\ handler[p].proof < password
Renewing(p) == handler[p].at = "refresh_commit" /\ proof[handler[p].session] < password

Stray(r) ==
  \/ \E s \in Sessions : session[s] = "live" /\ proof[s] < password /\ root[s] = r
  \/ \E p \in Api : Renewing(p) /\ root[handler[p].session] = r

\* blame maps the roots of stray sessions to requests, changer has changed the password.
Blames(blame, changer) ==
  /\ \A r1, r2 \in Sessions :
       Stray(r1) /\ Stray(r2) /\ blame[r1] = blame[r2] => r1 = r2
  /\ \A r \in Sessions : Stray(r) => blame[r] # changer
  /\ \A p \in Api : Late(p) => p # changer /\ \A r \in Sessions : Stray(r) => blame[r] # p

Writers == {"refresh_commit", "revoke_commit"}

SessionsOK ==
  /\ \A s \in Sessions : session[s] # "none" =>
       proof[s] # 0 /\ root[s] \in Sessions /\ session[root[s]] # "none"
  /\ \A p \in Api : handler[p].at \in Writers => session[handler[p].session] # "none"
  /\ \E blame \in [Sessions -> Api], changer \in Api : Blames(blame, changer)

\* A request that begins checks the password, or finds the session live.
Checked(h) ==
  /\ h.at = "open_session" => h.proof = password
  /\ h.at = "refresh_commit" => session[h.session] = "live"
  /\ h.at \in Writers => h.session \in Sessions /\ session[h.session] # "none"

\* A step that opens no session and changes no password.
LEMMA NoNewStrays ==
  ASSUME AuthAssumption, Typed, SessionsOK, UNCHANGED <<password, proof, root>>,
         \A s \in Sessions : \/ session'[s] = session[s]
                             \/ session[s] # "none" /\ session'[s] \in {"revoked", "expired"},
         \A p \in Api : handler'[p] = handler[p] \/ Checked(handler'[p])
  PROVE  SessionsOK'
<1>1. \A p \in Api : handler[p].at \in Writers => handler[p].session \in Sessions
  BY HandlerFields DEF Typed, Writers
<1>2. \A p \in Api : Late(p)' => Late(p)
  <2>1. password < password <=> FALSE
    BY DEF Typed, RowTypes
  <2> QED
    BY <2>1 DEF Late, Checked, Writers
<1>3. \A r \in Sessions : Stray(r)' => Stray(r)
  BY DEF Stray, Renewing, Checked, Writers
<1>4. \A s \in Sessions : session'[s] # "none" <=> session[s] # "none"
  OBVIOUS
<1>5. \A s \in Sessions : session'[s] # "none" =>
        proof'[s] # 0 /\ root'[s] \in Sessions /\ session'[root'[s]] # "none"
  BY <1>4 DEF SessionsOK, Writers
<1>6. \A p \in Api : handler'[p].at \in Writers => session'[handler'[p].session] # "none"
  BY <1>1, <1>4 DEF SessionsOK, Checked, Writers
<1>7. ASSUME NEW blame \in [Sessions -> Api], NEW changer \in Api, Blames(blame, changer)
      PROVE  Blames(blame, changer)'
  BY <1>2, <1>3, <1>7 DEF Blames
<1> QED
  BY <1>5, <1>6, <1>7 DEF SessionsOK, Writers

LEMMA AccountCreated ==
  ASSUME AuthAssumption, Typed, SessionsOK, NEW p \in Api, CreateUser(p)
  PROVE  SessionsOK'
<1>1. CASE Known
  BY <1>1, NoNewStrays
     DEF CreateUser, Suspend, Checked, Writers, Typed, RowTypes, sessions, Replying
<1>2. CASE ~Known
  <2>1. /\ password' = 1 /\ UNCHANGED <<session, proof, root>>
        /\ handler' = [handler EXCEPT ![p] =
             [at |-> "open_session", proof |-> 1, registers |-> TRUE]]
    BY <1>2 DEF CreateUser, Suspend, sessions
  <2>2. \A q \in Api : /\ handler[q].at = "open_session" => handler[q].proof \in 1..MaxPasswords
                       /\ handler[q].at \in Writers => handler[q].session \in Sessions
    BY HandlerFields DEF Typed, Writers
  <2>3. \A q \in Api : ~Late(q)' /\ ~Renewing(q)'
    BY <2>1, <2>2 DEF Late, Renewing, SessionsOK, Writers, Typed, RowTypes
  <2>4. \A r \in Sessions : ~Stray(r)'
    BY <2>1, <2>3 DEF Stray, SessionsOK, Writers, Typed, RowTypes
  <2>5. Blames([r \in Sessions |-> p], p)'
    BY <2>3, <2>4 DEF Blames
  <2>6. \E blame \in [Sessions -> Api], changer \in Api : Blames(blame, changer)'
    BY <2>5
  <2>7. \A q \in Api : handler'[q].at \in Writers => session'[handler'[q].session] # "none"
    BY <2>1 DEF SessionsOK, Writers, Typed
  <2> QED
    BY <2>1, <2>6, <2>7 DEF SessionsOK, Writers
<1> QED
  BY <1>1, <1>2

LEMMA SessionOpened ==
  ASSUME AuthAssumption, Typed, SessionsOK, NEW p \in Api, OpenSession(p)
  PROVE  SessionsOK'
<1>1. handler[p].at = "open_session" /\ handler[p].proof \in 1..MaxPasswords
  BY HandlerFields DEF OpenSession, At, Typed
<1>2. PICK s \in Sessions :
        /\ IsNext(s)
        /\ session' = [session EXCEPT ![s] = "live"]
        /\ proof' = [proof EXCEPT ![s] = handler[p].proof]
        /\ root' = [root EXCEPT ![s] = s]
  BY DEF OpenSession
<1>3. session[s] = "none" /\ password' = password
  BY <1>2 DEF IsNext, OpenSession, account
<1>4. handler' \in [Api -> AuthHandler] /\ handler'[p].at \notin {"open_session"} \cup Writers
      /\ \A q \in Api \ {p} : handler'[q] = handler[q]
  <2>1. handler' \in [Api -> AuthHandler]
    BY AuthStepTyped DEF AuthStep, Typed
  <2> QED
    BY <2>1 DEF OpenSession, Suspend, Typed, Replying, Writers
<1>5. \A q \in Api : handler[q].at \in Writers =>
        handler[q].session \in Sessions /\ handler[q].session # s
  BY <1>3, HandlerFields DEF Typed, SessionsOK, Writers, Writers
<1>6. \A q \in Api : Late(q)' => q # p /\ Late(q)
  BY <1>3, <1>4 DEF Late
<1>7. \A q \in Api : Renewing(q)' => q # p /\ Renewing(q)
                                     /\ root'[handler'[q].session] = root[handler[q].session]
  BY <1>2, <1>3, <1>4, <1>5 DEF Renewing, Writers, Typed, RowTypes
<1>8. ~Stray(s)
  BY <1>3, <1>5 DEF Stray, Renewing, SessionsOK, Writers
<1>9. ASSUME NEW r \in Sessions, Stray(r)'
      PROVE  (r = s /\ Late(p)) \/ (r # s /\ Stray(r))
  <2>1. CASE \E q \in Api : Renewing(q)' /\ root'[handler'[q].session] = r
    BY <1>7, <1>8, <2>1 DEF Stray
  <2>2. CASE \E x \in Sessions : session'[x] = "live" /\ proof'[x] < password' /\ root'[x] = r
    <3>1. PICK x \in Sessions : session'[x] = "live" /\ proof'[x] < password' /\ root'[x] = r
      BY <2>2
    <3>2. CASE x = s
      BY <1>1, <1>2, <1>3, <3>1, <3>2 DEF Late, Typed, RowTypes
    <3>3. CASE x # s
      BY <1>2, <1>3, <1>8, <3>1, <3>3 DEF Stray, Typed, RowTypes
    <3> QED BY <3>2, <3>3
  <2> QED BY <1>9, <2>1, <2>2 DEF Stray
<1>10. PICK blame \in [Sessions -> Api], changer \in Api : Blames(blame, changer)
  BY DEF SessionsOK, Writers
<1>11. PICK b \in [Sessions -> Api] : b = [blame EXCEPT ![s] = p]
  OBVIOUS
<1>12. Blames(b, changer)'
  <2>1. \A r1, r2 \in Sessions : Stray(r1)' /\ Stray(r2)' /\ b[r1] = b[r2] => r1 = r2
    BY <1>9, <1>10, <1>11 DEF Blames
  <2>2. \A r \in Sessions : Stray(r)' => b[r] # changer
    BY <1>9, <1>10, <1>11 DEF Blames
  <2>3. \A q \in Api : Late(q)' => q # changer /\ \A r \in Sessions : Stray(r)' => b[r] # q
    BY <1>6, <1>9, <1>10, <1>11 DEF Blames
  <2> QED BY <2>1, <2>2, <2>3 DEF Blames
<1>13. \A x \in Sessions : session'[x] # "none" =>
         proof'[x] # 0 /\ root'[x] \in Sessions /\ session'[root'[x]] # "none"
  BY <1>1, <1>2, <1>3 DEF SessionsOK, Writers, Typed, RowTypes
<1>14. \A q \in Api : handler'[q].at \in Writers => session'[handler'[q].session] # "none"
  BY <1>2, <1>4, <1>5 DEF SessionsOK, Writers, Typed, RowTypes
<1> QED
  BY <1>12, <1>13, <1>14 DEF SessionsOK, Writers

LEMMA SessionRotated ==
  ASSUME AuthAssumption, Typed, SessionsOK, NEW p \in Api, RefreshCommit(p)
  PROVE  SessionsOK'
<1> DEFINE old == handler[p].session
<1>1. handler[p].at = "refresh_commit" /\ old \in Sessions /\ session[old] # "none"
  BY HandlerFields DEF RefreshCommit, At, Typed, SessionsOK, Writers
<1>2. PICK s \in Sessions :
        /\ IsNext(s)
        /\ session' = [session EXCEPT ![old] = "revoked", ![s] = "live"]
        /\ proof' = [proof EXCEPT ![s] = proof[old]]
        /\ root' = [root EXCEPT ![s] = root[old]]
        /\ handler' = [handler EXCEPT ![p] = Replying(s)]
  BY DEF RefreshCommit, Suspend
<1>3. session[s] = "none" /\ s # old /\ password' = password
  BY <1>1, <1>2 DEF IsNext, RefreshCommit, account
<1>4. handler'[p].at = "reply" /\ \A q \in Api \ {p} : handler'[q] = handler[q]
  BY <1>2 DEF Typed, Replying
<1>5. \A q \in Api : handler[q].at \in Writers =>
        handler[q].session \in Sessions /\ handler[q].session # s
  BY <1>3, HandlerFields DEF Typed, SessionsOK, Writers, Writers
<1>6. \A q \in Api : Late(q)' => Late(q)
  BY <1>3, <1>4 DEF Late
<1>7. \A q \in Api : Renewing(q)' => Renewing(q)
                                     /\ root'[handler'[q].session] = root[handler[q].session]
  BY <1>2, <1>3, <1>4, <1>5 DEF Renewing, Writers, Typed, RowTypes
<1>8. ASSUME NEW r \in Sessions, Stray(r)'
      PROVE  Stray(r)
  <2>1. CASE \E q \in Api : Renewing(q)' /\ root'[handler'[q].session] = r
    BY <1>7, <2>1 DEF Stray
  <2>2. CASE \E x \in Sessions : session'[x] = "live" /\ proof'[x] < password' /\ root'[x] = r
    <3>1. PICK x \in Sessions : session'[x] = "live" /\ proof'[x] < password' /\ root'[x] = r
      BY <2>2
    <3>2. CASE x = s
      BY <1>1, <1>2, <1>3, <3>1, <3>2 DEF Stray, Renewing, Writers, Typed, RowTypes
    <3>3. CASE x # s
      BY <1>1, <1>2, <1>3, <3>1, <3>3 DEF Stray, Typed, RowTypes
    <3> QED BY <3>2, <3>3
  <2> QED BY <1>8, <2>1, <2>2 DEF Stray
<1>9. PICK blame \in [Sessions -> Api], changer \in Api : Blames(blame, changer)
  BY DEF SessionsOK, Writers
<1>10. Blames(blame, changer)'
  BY <1>6, <1>8, <1>9 DEF Blames
<1>11. \A x \in Sessions : session'[x] # "none" <=> x = s \/ session[x] # "none"
  BY <1>1, <1>2, <1>3 DEF Typed, RowTypes
<1>12. \A x \in Sessions : session'[x] # "none" =>
         proof'[x] # 0 /\ root'[x] \in Sessions /\ session'[root'[x]] # "none"
  BY <1>1, <1>2, <1>3, <1>11 DEF SessionsOK, Writers, Typed, RowTypes
<1>13. \A q \in Api : handler'[q].at \in Writers => session'[handler'[q].session] # "none"
  BY <1>4, <1>5, <1>11 DEF SessionsOK, Writers
<1> QED
  BY <1>10, <1>12, <1>13 DEF SessionsOK, Writers

\* The request that changes the password cannot be blamed: it has opened nothing.
LEMMA PasswordSet ==
  ASSUME AuthAssumption, Typed, SessionsOK, NEW c \in Api, ChangeCommit(c) \/ ResetCommit(c)
  PROVE  SessionsOK'
<1>1. handler[c].at \in {"change_commit", "reset_commit"} /\ session' = AllRevoked
      /\ UNCHANGED <<proof, root>> /\ handler' = [handler EXCEPT ![c] = Replying(None)]
  BY DEF ChangeCommit, ResetCommit, At, Suspend
<1>2. handler'[c].at = "reply" /\ \A q \in Api \ {c} : handler'[q] = handler[q]
  BY <1>1 DEF Typed, Replying
<1>3. \A s \in Sessions : /\ session'[s] \in {"none", "revoked"}
                          /\ session'[s] # "none" <=> session[s] # "none"
  BY <1>1 DEF AllRevoked
<1> DEFINE Renews(q, r) == q # c /\ handler[q].at = "refresh_commit" /\ root[handler[q].session] = r
<1>4. ASSUME NEW r \in Sessions, Stray(r)'
      PROVE  \E q \in Api : Renews(q, r)
  BY <1>1, <1>2, <1>3, <1>4 DEF Stray, Renewing, Writers
<1>5. PICK b \in [Sessions -> Api] :
        b = [r \in Sessions |-> IF \E q \in Api : Renews(q, r)
                                THEN CHOOSE q \in Api : Renews(q, r) ELSE c]
  OBVIOUS
<1>6. ASSUME NEW r \in Sessions, Stray(r)'
      PROVE  Renews(b[r], r)
  BY <1>4, <1>5, <1>6
<1>7. Blames(b, c)'
  <2>1. \A r1, r2 \in Sessions : Stray(r1)' /\ Stray(r2)' /\ b[r1] = b[r2] => r1 = r2
    BY <1>6
  <2>2. \A r \in Sessions : Stray(r)' => b[r] # c
    BY <1>6
  <2>3. \A q \in Api : Late(q)' => q # c /\ handler[q].at = "open_session"
    BY <1>2 DEF Late
  <2>4. \A q \in Api : Late(q)' => q # c /\ \A r \in Sessions : Stray(r)' => b[r] # q
    BY <1>6, <2>3
  <2> QED BY <2>1, <2>2, <2>4 DEF Blames
<1>8. \A q \in Api : handler[q].at \in Writers => handler[q].session \in Sessions
  BY HandlerFields DEF Typed, Writers
<1>9. \A q \in Api : handler'[q].at \in Writers => session'[handler'[q].session] # "none"
  BY <1>2, <1>3, <1>8 DEF SessionsOK, Writers
<1>10. \A s \in Sessions : session'[s] # "none" =>
         proof'[s] # 0 /\ root'[s] \in Sessions /\ session'[root'[s]] # "none"
  BY <1>1, <1>3 DEF SessionsOK, Writers
<1>11. \E blame \in [Sessions -> Api], changer \in Api : Blames(blame, changer)'
  BY <1>7
<1> QED
  BY <1>9, <1>10, <1>11 DEF SessionsOK, Writers

LEMMA NextSessionsOK ==
  ASSUME AuthAssumption, Typed, SessionsOK, [AuthNext]_<<authVars, handler>>
  PROVE  SessionsOK'
<1> USE DEF Typed, RowTypes
<1>1. ASSUME NEW p \in Api, SessionRequest(p)
      PROVE  SessionsOK'
  <2>1. UNCHANGED <<password, session, proof, root>>
    BY <1>1 DEF SessionRequest, RegisterBegin, LoginBegin, ChangeBegin, RefreshBegin,
                LogoutBegin, RevokeBegin, authVars, sessions, account
  <2>2. \A q \in Api : handler'[q] = handler[q] \/ Checked(handler'[q])
    <3>1. CASE RegisterBegin(p) \/ LoginBegin(p) \/ ChangeBegin(p)
      BY <3>1 DEF RegisterBegin, LoginBegin, ChangeBegin, Begin, Suspend, Checked, Writers
    <3>2. CASE \E s \in Sessions : RefreshBegin(p, s)
      BY <3>2 DEF RefreshBegin, Begin, Suspend, Checked, Writers, Usable, Replying
    <3>3. CASE \E s \in Sessions : LogoutBegin(p, s) \/ RevokeBegin(p, s)
      BY <3>3 DEF LogoutBegin, RevokeBegin, Begin, Suspend, Checked, Writers, Replying
    <3> QED BY <1>1, <3>1, <3>2, <3>3 DEF SessionRequest
  <2> QED BY <2>1, <2>2, NoNewStrays
<1>2. ASSUME NEW p \in Api, NEW k \in Kinds, TokenRequest(p, k)
      PROVE  SessionsOK'
  <2>1. UNCHANGED <<password, session, proof, root>>
    BY <1>2 DEF TokenRequest, RequestPasswordReset, RequestEmailVerification, Issue,
                ResetBegin, ConfirmBegin, authVars, sessions, account
  <2>2. \A q \in Api : handler'[q] = handler[q] \/ Checked(handler'[q])
    BY <1>2 DEF TokenRequest, RequestPasswordReset, RequestEmailVerification, Issue,
                ResetBegin, ConfirmBegin, Begin, Suspend, Checked, Writers
  <2> QED BY <2>1, <2>2, NoNewStrays
<1>3. ASSUME NEW p \in Api, RevokeCommit(p) \/ IssueConsume(p) \/ IssueCreate(p)
                            \/ ConfirmCommit(p) \/ Reply(p)
      PROVE  SessionsOK'
  <2>1. UNCHANGED <<password, proof, root>>
    BY <1>3 DEF RevokeCommit, IssueConsume, IssueCreate, ConfirmCommit, Reply,
                authVars, sessions, account
  <2>2. \A q \in Api : handler'[q] = handler[q] \/ Checked(handler'[q])
    BY <1>3 DEF RevokeCommit, IssueConsume, IssueCreate, ConfirmCommit, Reply, Finish,
                Suspend, Checked, Writers, Replying, Idle
  <2>3. CASE RevokeCommit(p)
    <3>1. PICK s \in Sessions : session[s] # "none" /\ session' = [session EXCEPT ![s] = "revoked"]
      BY <2>3, HandlerFields DEF RevokeCommit, At, SessionsOK, Writers
    <3> QED
      BY <2>1, <2>2, <3>1, NoNewStrays
  <2>4. CASE ~RevokeCommit(p)
    <3>1. session' = session
      BY <1>3, <2>4 DEF IssueConsume, IssueCreate, ConfirmCommit, Reply, authVars, sessions
    <3> QED
      BY <2>1, <2>2, <3>1, NoNewStrays
  <2> QED BY <2>3, <2>4
<1>4. CASE RevokeUserSessions
  BY <1>4, NoNewStrays DEF RevokeUserSessions, account
<1>5. ASSUME NEW s \in Sessions, ExpireSession(s)
      PROVE  SessionsOK'
  BY <1>5, NoNewStrays DEF ExpireSession, account
<1>6. CASE \E k \in Kinds, t \in Tokens : ExpireToken(k, t)
  BY <1>6, NoNewStrays DEF ExpireToken, account, sessions
<1>7. CASE UNCHANGED <<authVars, handler>>
  BY <1>7, NoNewStrays DEF authVars, account, sessions
<1> QED
  BY <1>1, <1>2, <1>3, <1>4, <1>5, <1>6, <1>7,
     AccountCreated, SessionOpened, SessionRotated, PasswordSet DEF AuthNext, AuthStep

LEMMA InitSessionsOK ==
  ASSUME AuthAssumption, AuthInit
  PROVE  SessionsOK
<1>1. PICK c \in Api : TRUE
  BY DEF AuthAssumption
<1>2. \A p \in Api : ~Late(p) /\ ~Renewing(p) /\ handler[p].at \notin Writers
  BY DEF AuthInit, HandlersIdle, Idle, Late, Renewing, Writers
<1>3. \A s \in Sessions : session[s] = "none"
  BY DEF AuthInit, AuthRowsInit
<1>4. PICK b \in [Sessions -> Api] : b = [r \in Sessions |-> c]
  OBVIOUS
<1>5. Blames(b, c)
  BY <1>2, <1>3 DEF Blames, Stray
<1> QED
  BY <1>2, <1>3, <1>5 DEF SessionsOK

\* The requests to blame are others than the one that changed the password.
LEMMA StraysBounded ==
  ASSUME AuthAssumption, Typed, SessionsOK
  PROVE  StragglersBounded
<1> DEFINE Roots == {root[s] : s \in Stale}
<1>1. PICK blame \in [Sessions -> Api], changer \in Api : Blames(blame, changer)
  BY DEF SessionsOK
<1>2. \A r \in Roots : r \in Sessions /\ Stray(r)
  BY DEF SessionsOK, Stale, Live, Stray
<1>3. PICK g \in [Roots -> Api \ {changer}] : \A r \in Roots : g[r] = blame[r]
  <2>1. \A r \in Roots : blame[r] \in Api \ {changer}
    BY <1>1, <1>2 DEF Blames
  <2> HIDE DEF Roots
  <2>2. [r \in Roots |-> blame[r]] \in [Roots -> Api \ {changer}]
    BY <2>1
  <2> QED BY <2>2
<1>4. g \in Injection(Roots, Api \ {changer})
  <2>1. \A r1, r2 \in Roots : g[r1] = g[r2] => r1 = r2
    BY <1>1, <1>2, <1>3 DEF Blames
  <2> HIDE DEF Roots
  <2> QED BY <1>3, <2>1 DEF Injection, IsInjective
<1>5. IsFiniteSet(Api \ {changer}) /\ Cardinality(Api \ {changer}) = Cardinality(Api) - 1
  BY FS_RemoveElement DEF AuthAssumption
<1> HIDE DEF Roots
<1>6. IsFiniteSet(Roots) /\ Cardinality(Roots) <= Cardinality(Api) - 1
  BY <1>4, <1>5, FS_Injection
<1>7. Cardinality(Roots) \in Nat /\ Cardinality(Api) \in Nat
  BY <1>6, FS_CardinalityType DEF AuthAssumption
<1>8. Cardinality(Roots) < Cardinality(Api)
  BY <1>6, <1>7
<1> QED
  BY <1>8 DEF StragglersBounded, Roots

\* After a change of the password, the sessions opened with an earlier one
\* descend from fewer logins than there are requests.
THEOREM FewStragglers == AuthSpec => []StragglersBounded
BY InitTyped, NextTyped, InitSessionsOK, NextSessionsOK, StraysBounded, AuthAssumption, PTL
   DEF AuthSpec

-----------------------------------------------------------------------------
(* Links.  A reset token counts its uses and the requests that are about to *)
(* use it: none join them after the first use, which consumes the token.    *)
(* An open token is attributed to the request that created it: a request    *)
(* has consumed what it created before, so it has at most one open token.   *)

Using(t) == {p \in Api : handler[p].at = "reset_commit" /\ handler[p].token = t}

Attributes(creator, k) ==
  /\ \A t1, t2 \in Tokens :
       token[k][t1] = "open" /\ token[k][t2] = "open" /\ creator[t1] = creator[t2] => t1 = t2
  /\ \A p \in Api, t \in Tokens :
       /\ token[k][t] = "open" /\ creator[t] = p
       /\ handler[p].at = "issue_create" /\ handler[p].kind = k
       => t \in handler[p].old

UsesOK ==
  /\ \A p \in Api : handler[p].at = "reset_commit" => token["reset"][handler[p].token] # "none"
  /\ \A t \in Tokens : uses[t] # 0 => token["reset"][t] = "consumed"
  /\ \A t \in Tokens : uses[t] + Cardinality(Using(t)) <= Cardinality(Api)

LinksOK ==
  /\ UsesOK
  /\ \A k \in Kinds : \E creator \in [Tokens -> Api] : Attributes(creator, k)

\* A request that begins finds its reset token open, or sees all open tokens.
Sees(h) ==
  /\ h.at = "reset_commit" => h.token \in Tokens /\ token["reset"][h.token] = "open"
  /\ h.at = "issue_create" => Open(h.kind) \subseteq h.old

\* Tokens are only ever closed.
Closing ==
  \A k \in Kinds, t \in Tokens :
    \/ token'[k][t] = token[k][t]
    \/ token[k][t] \in {"open", "expired"} /\ token'[k][t] \in {"expired", "consumed"}

LEMMA UsingFinite ==
  ASSUME AuthAssumption, NEW t
  PROVE  /\ IsFiniteSet(Using(t)) /\ Cardinality(Using(t)) \in Nat
         /\ Cardinality(Api) \in Nat /\ Cardinality(Using(t)) <= Cardinality(Api)
<1>1. Using(t) \in SUBSET Api
  BY DEF Using
<1> QED
  BY <1>1, FS_Subset, FS_CardinalityType DEF AuthAssumption

LEMMA NothingOpened ==
  ASSUME AuthAssumption, Typed, LinksOK, UNCHANGED uses, Closing,
         \A p \in Api : handler'[p] = handler[p] \/ Sees(handler'[p])
  PROVE  LinksOK'
<1>0. "reset" \in Kinds
  BY DEF Kinds
<1>1. \A p \in Api : handler[p].at = "reset_commit" => handler[p].token \in Tokens
  BY HandlerFields DEF Typed
<1>2. \A p \in Api : handler'[p].at = "reset_commit" => token'["reset"][handler'[p].token] # "none"
  BY <1>0, <1>1 DEF LinksOK, UsesOK, Sees, Closing
<1>3. \A t \in Tokens : uses'[t] # 0 => token'["reset"][t] = "consumed"
  BY <1>0 DEF LinksOK, UsesOK, Closing
<1>4. ASSUME NEW t \in Tokens
      PROVE  uses'[t] + Cardinality(Using(t)') <= Cardinality(Api)
  <2>1. Using(t)' \in SUBSET Api
    BY DEF Using
  <2>2. Cardinality(Using(t)') \in Nat /\ Cardinality(Using(t)') <= Cardinality(Api)
    BY <2>1, FS_Subset, FS_CardinalityType DEF AuthAssumption
  <2>3. CASE uses[t] = 0
    BY <2>2, <2>3, UsingFinite
  <2>4. CASE uses[t] # 0
    <3>1. token["reset"][t] = "consumed"
      BY <2>4 DEF LinksOK, UsesOK
    <3>2. Using(t)' \in SUBSET Using(t)
      BY <3>1 DEF Using, Sees
    <3>3. Cardinality(Using(t)') <= Cardinality(Using(t))
      BY <3>2, UsingFinite, FS_Subset
    <3>4. uses[t] + Cardinality(Using(t)) <= Cardinality(Api)
      BY DEF LinksOK, UsesOK
    <3>5. uses[t] \in Nat
      BY DEF Typed, RowTypes
    <3> QED
      BY <2>2, <3>3, <3>4, <3>5, UsingFinite
  <2> QED BY <2>3, <2>4
<1>5. UsesOK'
  BY <1>2, <1>3, <1>4 DEF UsesOK
<1>6. ASSUME NEW k \in Kinds, NEW creator \in [Tokens -> Api], Attributes(creator, k)
      PROVE  Attributes(creator, k)'
  <2>1. \A t \in Tokens : token'[k][t] = "open" => token[k][t] = "open"
    BY DEF Closing
  <2>2. \A p \in Api, t \in Tokens :
          /\ token'[k][t] = "open" /\ creator[t] = p
          /\ handler'[p].at = "issue_create" /\ handler'[p].kind = k
          => t \in handler'[p].old
    BY <1>6, <2>1 DEF Attributes, Sees, Open
  <2> QED
    BY <1>6, <2>1, <2>2 DEF Attributes
<1> QED
  BY <1>5, <1>6 DEF LinksOK

\* The first of the requests with a token consumes it; the others still use it.
LEMMA TokenUsed ==
  ASSUME AuthAssumption, Typed, LinksOK, NEW p \in Api, ResetCommit(p)
  PROVE  LinksOK'
<1> DEFINE t == handler[p].token
<1>0. "reset" \in Kinds
  BY DEF Kinds
<1>1. handler[p].at = "reset_commit" /\ t \in Tokens /\ token["reset"][t] # "none"
  BY HandlerFields DEF ResetCommit, At, Typed, LinksOK, UsesOK
<1>2. /\ token' = Consumed("reset", Tokens) /\ uses' = [uses EXCEPT ![t] = @ + 1]
      /\ handler' = [handler EXCEPT ![p] = Replying(None)]
  BY DEF ResetCommit, Suspend
<1>3. handler'[p].at = "reply" /\ \A q \in Api \ {p} : handler'[q] = handler[q]
  BY <1>2 DEF Typed, Replying
<1>4. /\ \A x \in Tokens : token'["reset"][x] = IF token["reset"][x] # "none" THEN "consumed" ELSE "none"
      /\ \A x \in Tokens : token'["verify"][x] = token["verify"][x]
  BY <1>0, <1>2 DEF Consumed, Typed, RowTypes, Kinds
<1>5. \A q \in Api : handler'[q].at = "reset_commit" => token'["reset"][handler'[q].token] # "none"
  <2>1. \A q \in Api : handler[q].at = "reset_commit" => handler[q].token \in Tokens
    BY HandlerFields DEF Typed
  <2> QED
    BY <1>3, <1>4, <2>1 DEF LinksOK, UsesOK
<1>6. \A x \in Tokens : uses'[x] # 0 => token'["reset"][x] = "consumed"
  BY <1>1, <1>2, <1>4 DEF LinksOK, UsesOK, Typed, RowTypes
<1>7. ASSUME NEW x \in Tokens
      PROVE  uses'[x] + Cardinality(Using(x)') <= Cardinality(Api)
  <2>1. uses[x] + Cardinality(Using(x)) <= Cardinality(Api) /\ uses[x] \in Nat
    BY DEF LinksOK, UsesOK, Typed, RowTypes
  <2>2. Using(x)' = Using(x) \ {p}
    BY <1>3 DEF Using
  <2>3. Cardinality(Using(x)') = IF p \in Using(x) THEN Cardinality(Using(x)) - 1
                                 ELSE Cardinality(Using(x))
    BY <2>2, UsingFinite, FS_RemoveElement
  <2>4. p \in Using(x) <=> x = t
    BY <1>1 DEF Using
  <2>5. uses'[x] = IF x = t THEN uses[x] + 1 ELSE uses[x]
    BY <1>1, <1>2 DEF Typed, RowTypes
  <2> QED
    BY <2>1, <2>3, <2>4, <2>5, UsingFinite
<1>8. UsesOK'
  BY <1>5, <1>6, <1>7 DEF UsesOK
<1>9. ASSUME NEW k \in Kinds, NEW creator \in [Tokens -> Api], Attributes(creator, k)
      PROVE  Attributes(creator, k)'
  <2>1. \A x \in Tokens : token'[k][x] = "open" => token[k][x] = "open"
    BY <1>4 DEF Kinds
  <2> QED
    BY <1>3, <1>9, <2>1 DEF Attributes
<1> QED
  BY <1>8, <1>9 DEF LinksOK

\* The token that a request creates is the only open one it has created.
LEMMA TokenCreated ==
  ASSUME AuthAssumption, Typed, LinksOK, NEW p \in Api, IssueCreate(p)
  PROVE  LinksOK'
<1>0. handler[p].at = "issue_create" /\ handler[p].kind \in Kinds /\ handler[p].old \in SUBSET Tokens
  BY HandlerFields DEF IssueCreate, At, Typed
<1>1. PICK kind \in Kinds, old \in SUBSET Tokens :
        handler[p].at = "issue_create" /\ kind = handler[p].kind /\ old = handler[p].old
  BY <1>0
<1>2. PICK t \in Tokens : /\ token[kind][t] = "none"
                          /\ token' = [Consumed(kind, old) EXCEPT ![kind][t] = "open"]
  BY <1>1 DEF IssueCreate, IsNextToken
<1>3. /\ \A x \in Tokens : token'[kind][x] =
           CASE x = t -> "open"
             [] x # t /\ x \in old /\ token[kind][x] # "none" -> "consumed"
             [] OTHER -> token[kind][x]
      /\ \A k \in Kinds \ {kind} : token'[k] = token[k]
  BY <1>1, <1>2 DEF Consumed, Typed, RowTypes
<1>4. handler'[p].at = "reply" /\ \A q \in Api \ {p} : handler'[q] = handler[q]
  BY DEF IssueCreate, Suspend, Typed, Replying
<1>5. uses' = uses /\ Kinds = {"reset", "verify"}
  BY DEF IssueCreate, Kinds
<1>6. \A x \in Tokens : /\ token["reset"][x] # "none" => token'["reset"][x] # "none"
                        /\ token["reset"][x] = "consumed" => token'["reset"][x] = "consumed"
  BY <1>1, <1>2, <1>3, <1>5
<1>7. UsesOK'
  <2>1. \A q \in Api : handler'[q].at = "reset_commit" => token'["reset"][handler'[q].token] # "none"
    <3>1. \A q \in Api : handler[q].at = "reset_commit" => handler[q].token \in Tokens
      BY HandlerFields DEF Typed
    <3> QED
      BY <1>4, <1>6, <3>1 DEF LinksOK, UsesOK
  <2>2. \A x \in Tokens : uses'[x] # 0 => token'["reset"][x] = "consumed"
    BY <1>5, <1>6 DEF LinksOK, UsesOK
  <2>3. \A x \in Tokens : Using(x)' = Using(x)
    BY <1>1, <1>4 DEF Using
  <2>4. \A x \in Tokens : uses'[x] + Cardinality(Using(x)') <= Cardinality(Api)
    BY <1>5, <2>3 DEF LinksOK, UsesOK
  <2> QED BY <2>1, <2>2, <2>4 DEF UsesOK
<1>8. ASSUME NEW k \in Kinds \ {kind}, NEW creator \in [Tokens -> Api], Attributes(creator, k)
      PROVE  Attributes(creator, k)'
  BY <1>3, <1>4, <1>8 DEF Attributes
<1>9. \E creator \in [Tokens -> Api] : Attributes(creator, kind)'
  <2>1. PICK creator \in [Tokens -> Api] : Attributes(creator, kind)
    BY <1>1 DEF LinksOK
  <2>2. PICK c \in [Tokens -> Api] : c = [creator EXCEPT ![t] = p]
    OBVIOUS
  <2>3. \A x \in Tokens : token'[kind][x] = "open" =>
          x = t \/ (x # t /\ x \notin old /\ token[kind][x] = "open")
    BY <1>2, <1>3
  <2>4. \A x \in Tokens : token'[kind][x] = "open" /\ x # t => creator[x] # p /\ c[x] = creator[x]
    BY <1>1, <2>1, <2>2, <2>3 DEF Attributes
  <2>5. \A x, y \in Tokens :
          token'[kind][x] = "open" /\ token'[kind][y] = "open" /\ c[x] = c[y] => x = y
    BY <2>1, <2>2, <2>3, <2>4 DEF Attributes
  <2>6. \A q \in Api, x \in Tokens :
          /\ token'[kind][x] = "open" /\ c[x] = q
          /\ handler'[q].at = "issue_create" /\ handler'[q].kind = kind
          => x \in handler'[q].old
    <3> SUFFICES ASSUME NEW q \in Api, NEW x \in Tokens,
                        token'[kind][x] = "open" /\ c[x] = q,
                        handler'[q].at = "issue_create" /\ handler'[q].kind = kind
                 PROVE  x \in handler'[q].old
      OBVIOUS
    <3>1. q # p /\ handler'[q] = handler[q]
      BY <1>4
    <3>2. x # t
      BY <2>2, <3>1
    <3> QED
      BY <2>1, <2>3, <2>4, <3>1, <3>2 DEF Attributes
  <2> QED
    BY <2>5, <2>6 DEF Attributes
<1> QED
  BY <1>7, <1>8, <1>9 DEF LinksOK

LEMMA NextLinksOK ==
  ASSUME AuthAssumption, Typed, LinksOK, [AuthNext]_<<authVars, handler>>
  PROVE  LinksOK'
<1> USE DEF Typed, RowTypes
<1>1. ASSUME NEW p \in Api, SessionRequest(p) \/ Reply(p)
      PROVE  LinksOK'
  <2>1. uses' = uses /\ Closing
    BY <1>1 DEF SessionRequest, RegisterBegin, LoginBegin, ChangeBegin, RefreshBegin,
                LogoutBegin, RevokeBegin, Reply, Closing, authVars
  <2>2. \A q \in Api : handler'[q] = handler[q] \/ Sees(handler'[q])
    <3>1. CASE RegisterBegin(p) \/ LoginBegin(p) \/ ChangeBegin(p) \/ Reply(p)
      BY <3>1 DEF RegisterBegin, LoginBegin, ChangeBegin, Reply, Begin, Finish, Suspend, Sees, Idle
    <3>2. CASE \E s \in Sessions : RefreshBegin(p, s) \/ LogoutBegin(p, s) \/ RevokeBegin(p, s)
      BY <3>2 DEF RefreshBegin, LogoutBegin, RevokeBegin, Begin, Suspend, Sees, Replying
    <3> QED BY <1>1, <3>1, <3>2 DEF SessionRequest
  <2> QED BY <2>1, <2>2, NothingOpened
<1>2. ASSUME NEW p \in Api, NEW k \in Kinds, TokenRequest(p, k)
      PROVE  LinksOK'
  <2>1. uses' = uses /\ Closing
    BY <1>2 DEF TokenRequest, RequestPasswordReset, RequestEmailVerification, Issue,
                ResetBegin, ConfirmBegin, Closing, authVars
  <2>2. \A q \in Api : handler'[q] = handler[q] \/ Sees(handler'[q])
    BY <1>2 DEF TokenRequest, RequestPasswordReset, RequestEmailVerification, Issue,
                ResetBegin, ConfirmBegin, Begin, Suspend, Sees
  <2> QED BY <2>1, <2>2, NothingOpened
<1>3. ASSUME NEW p \in Api,
             CreateUser(p) \/ OpenSession(p) \/ RefreshCommit(p) \/ RevokeCommit(p)
      PROVE  LinksOK'
  <2>1. uses' = uses /\ Closing
    BY <1>3 DEF CreateUser, OpenSession, RefreshCommit, RevokeCommit, Closing
  <2>2. \A q \in Api : handler'[q] = handler[q] \/ Sees(handler'[q])
    BY <1>3 DEF CreateUser, OpenSession, RefreshCommit, RevokeCommit, Suspend, Sees, Replying
  <2> QED BY <2>1, <2>2, NothingOpened
<1>4. ASSUME NEW p \in Api, ChangeCommit(p) \/ ConfirmCommit(p)
      PROVE  LinksOK'
  <2>1. uses' = uses /\ \E k \in Kinds : token' = Consumed(k, Tokens)
    BY <1>4 DEF ChangeCommit, ConfirmCommit, Kinds
  <2>2. Closing
    BY <2>1 DEF Closing, Consumed, TokenStates
  <2>3. \A q \in Api : handler'[q] = handler[q] \/ Sees(handler'[q])
    BY <1>4 DEF ChangeCommit, ConfirmCommit, Suspend, Sees, Replying
  <2> QED BY <2>1, <2>2, <2>3, NothingOpened
<1>5. ASSUME NEW p \in Api, IssueConsume(p)
      PROVE  LinksOK'
  <2>1. UNCHANGED <<uses, token>>
    BY <1>5 DEF IssueConsume, authVars
  <2>2. \A q \in Api : handler'[q] = handler[q] \/ Sees(handler'[q])
    BY <1>5 DEF IssueConsume, Suspend, Sees
  <2> QED BY <2>1, <2>2, NothingOpened DEF Closing
<1>6. CASE RevokeUserSessions \/ \E s \in Sessions : ExpireSession(s)
  BY <1>6, NothingOpened DEF RevokeUserSessions, ExpireSession, Closing
<1>7. CASE \E k \in Kinds, t \in Tokens : ExpireToken(k, t)
  BY <1>7, NothingOpened DEF ExpireToken, Closing
<1>8. CASE UNCHANGED <<authVars, handler>>
  BY <1>8, NothingOpened DEF authVars, Closing
<1> QED
  BY <1>1, <1>2, <1>3, <1>4, <1>5, <1>6, <1>7, <1>8, TokenUsed, TokenCreated
     DEF AuthNext, AuthStep

LEMMA InitLinksOK ==
  ASSUME AuthAssumption, AuthInit
  PROVE  LinksOK
<1>1. PICK p \in Api : TRUE
  BY DEF AuthAssumption
<1>2. /\ \A q \in Api : handler[q].at = "idle"
      /\ \A k \in Kinds, t \in Tokens : token[k][t] = "none"
      /\ \A t \in Tokens : uses[t] = 0
  BY DEF AuthInit, AuthRowsInit, HandlersIdle, Idle
<1>3. UsesOK
  BY <1>2, UsingFinite DEF UsesOK
<1>4. PICK c \in [Tokens -> Api] : c = [t \in Tokens |-> p]
  OBVIOUS
<1>5. \A k \in Kinds : Attributes(c, k)
  BY <1>2 DEF Attributes
<1> QED
  BY <1>3, <1>5 DEF LinksOK

LEMMA LinksCounted ==
  ASSUME AuthAssumption, Typed, LinksOK
  PROVE  LinksBounded
<1>1. \A t \in Tokens : uses[t] <= Cardinality(Api)
  BY UsingFinite DEF LinksOK, UsesOK, Typed, RowTypes
<1>2. ASSUME NEW k \in Kinds
      PROVE  Cardinality({t \in Tokens : token[k][t] = "open"}) <= Cardinality(Api)
  <2> DEFINE O == {t \in Tokens : token[k][t] = "open"}
  <2>1. PICK creator \in [Tokens -> Api] : Attributes(creator, k)
    BY DEF LinksOK
  <2>2. PICK g \in [O -> Api] : \A t \in O : g[t] = creator[t]
    <3>1. [t \in O |-> creator[t]] \in [O -> Api]
      OBVIOUS
    <3> QED BY <3>1
  <2>3. \A t1, t2 \in O : g[t1] = g[t2] => t1 = t2
    BY <2>1, <2>2 DEF Attributes
  <2> HIDE DEF O
  <2>4. g \in Injection(O, Api)
    BY <2>2, <2>3 DEF Injection, IsInjective
  <2>5. Cardinality(O) <= Cardinality(Api)
    BY <2>4, FS_Injection DEF AuthAssumption
  <2> QED
    BY <2>5 DEF O
<1> QED
  BY <1>1, <1>2 DEF LinksBounded

\* A reset link sets the password at most once for each request that may run
\* at the same time, and no more links of a kind are open than those requests.
THEOREM LinksSpent == AuthSpec => []LinksBounded
BY InitTyped, NextTyped, InitLinksOK, NextLinksOK, LinksCounted, AuthAssumption, PTL
   DEF AuthSpec
=============================================================================
