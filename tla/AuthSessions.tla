---------------------------- MODULE AuthSessions ----------------------------
(***************************************************************************)
(* One account: its password, refresh sessions and the single-use tokens   *)
(* for password resets and e-mail verification, with every handler of      *)
(* auth.service and admin.service that writes them.  A handler checks rows *)
(* and writes later by id; password hashing alone keeps it suspended for   *)
(* long.                                                                   *)
(***************************************************************************)
EXTENDS Handlers, Naturals, FiniteSets

CONSTANTS
  MaxPasswords,  \* bound: passwords the account has had
  MaxSessions,   \* bound: rows of refreshSession
  MaxTokens      \* bound: tokens of each kind

ASSUME AuthAssumption ==
  /\ Api # {} /\ IsFiniteSet(Api)
  /\ MaxPasswords \in Nat /\ MaxSessions \in Nat /\ MaxTokens \in Nat

VARIABLES
  password,  \* how many passwords the account has had; 0: not registered
  verified,  \* user.emailVerifiedAt is set
  session,   \* the refresh sessions, in order of creation
  token,     \* passwordResetToken and emailVerificationToken
  proof,     \* history: the password that a session was opened with
  root,      \* history: the login that a session descends from
  uses       \* history: how often a reset token has set a password

account == <<password, verified>>
sessions == <<session, proof, root>>
authVars == <<account, sessions, token, uses>>

Sessions == 1..MaxSessions
Tokens == 1..MaxTokens
Kinds == {"reset", "verify"}
SessionStates == {"none", "live", "expired", "revoked"}
TokenStates == {"none", "open", "expired", "consumed"}

\* proof:  the password that was checked;  session, token: to be written by id;
\* old: tokens to be consumed;  granted: the session in the response.
AuthHandler ==
  {Idle}
  \cup [at: {"create_user", "change_commit"}]
  \cup [at: {"open_session"}, proof: 1..MaxPasswords, registers: BOOLEAN]
  \cup [at: {"refresh_commit", "revoke_commit"}, session: Sessions]
  \cup [at: {"reset_commit", "confirm_commit"}, token: Tokens]
  \cup [at: {"issue_consume"}, kind: Kinds, granted: Sessions \cup {None}]
  \cup [at: {"issue_create"}, kind: Kinds, granted: Sessions \cup {None}, old: SUBSET Tokens]
  \cup [at: {"reply"}, granted: Sessions \cup {None}]

AuthTypeOK ==
  /\ password \in 0..MaxPasswords
  /\ verified \in BOOLEAN
  /\ session \in [Sessions -> SessionStates]
  /\ token \in [Kinds -> [Tokens -> TokenStates]]
  /\ proof \in [Sessions -> 0..MaxPasswords]
  /\ root \in [Sessions -> 0..MaxSessions]
  /\ uses \in [Tokens -> Nat]
  /\ HandlersWithin(AuthHandler)

AuthRowsInit ==
  /\ password = 0
  /\ verified = FALSE
  /\ session = [s \in Sessions |-> "none"]
  /\ token = [k \in Kinds |-> [t \in Tokens |-> "none"]]
  /\ proof = [s \in Sessions |-> 0]
  /\ root = [s \in Sessions |-> 0]
  /\ uses = [t \in Tokens |-> 0]

AuthInit == AuthRowsInit /\ HandlersIdle

\* findActiveUserFromRequest, or the lookup by e-mail: there is an account.
Known == password # 0

Replying(s) == [at |-> "reply", granted |-> s]
Pending(points) == Cardinality({p \in Api : handler[p].at \in points})

\* Bounds: requests begin only while their rows are left.
RoomForSession ==
  Cardinality({s \in Sessions : session[s] # "none"})
    + Pending({"create_user", "open_session", "refresh_commit"}) < MaxSessions
RoomForToken(k) ==
  Cardinality({t \in Tokens : token[k][t] # "none"})
    + Pending({"create_user", "open_session", "issue_consume", "issue_create"}) < MaxTokens
RoomForPassword ==
  password + Pending({"create_user", "change_commit", "reset_commit"}) < MaxPasswords

IsNext(s) == session[s] = "none" /\ \A x \in Sessions : session[x] = "none" => s <= x
IsNextToken(k, t) == token[k][t] = "none" /\ \A x \in Tokens : token[k][x] = "none" => t <= x

\* updateMany where revokedAt is null.
AllRevoked == [s \in Sessions |-> IF session[s] = "none" THEN "none" ELSE "revoked"]

\* updateMany where consumedAt is null: all tokens of a kind.
Consumed(k, old) ==
  [token EXCEPT ![k] = [t \in Tokens |-> IF t \in old /\ token[k][t] # "none"
                                           THEN "consumed" ELSE token[k][t]]]
-----------------------------------------------------------------------------
(* Registration and login                                                  *)

RegisterBegin(p) ==
  /\ ~Known
  /\ RoomForSession /\ RoomForPassword /\ RoomForToken("verify")
  /\ Begin(p, [at |-> "create_user"])
  /\ UNCHANGED authVars

\* The e-mail address is unique: the second of two registrations fails here.
CreateUser(p) ==
  /\ At(p, "create_user")
  /\ IF Known
     THEN Suspend(p, Replying(None)) /\ UNCHANGED password
     ELSE /\ password' = 1
          /\ Suspend(p, [at |-> "open_session", proof |-> 1, registers |-> TRUE])
  /\ UNCHANGED <<verified, sessions, token, uses>>

\* The password is checked against the row that was read; what a wrong
\* password does is in LoginLimits.
LoginBegin(p) ==
  /\ Known /\ RoomForSession
  /\ Begin(p, [at |-> "open_session", proof |-> password, registers |-> FALSE])
  /\ UNCHANGED authVars

OpenSession(p) ==
  /\ At(p, "open_session")
  /\ \E s \in Sessions :
       /\ IsNext(s)
       /\ session' = [session EXCEPT ![s] = "live"]
       /\ proof' = [proof EXCEPT ![s] = handler[p].proof]
       /\ root' = [root EXCEPT ![s] = s]
       /\ Suspend(p, IF handler[p].registers
                     THEN [at |-> "issue_consume", kind |-> "verify", granted |-> s]
                     ELSE Replying(s))
  /\ UNCHANGED <<account, token, uses>>

-----------------------------------------------------------------------------
(* Refresh sessions                                                        *)

\* assertRefreshSessionIsUsable
Usable(s) == session[s] = "live"

RefreshBegin(p, s) ==
  /\ session[s] # "none" /\ RoomForSession
  /\ Begin(p, IF Usable(s) THEN [at |-> "refresh_commit", session |-> s] ELSE Replying(None))
  /\ UNCHANGED authVars

\* Mutant (MCAccounts): a refresh renews its row.
RenewSession(p) ==
  /\ At(p, "refresh_commit")
  /\ session' = [session EXCEPT ![handler[p].session] = "live"]
  /\ Suspend(p, Replying(handler[p].session))
  /\ UNCHANGED <<account, proof, root, token, uses>>

\* Rotation: the old row is updated by its id, whatever it has become.
RefreshCommit(p) ==
  LET old == handler[p].session IN
  /\ At(p, "refresh_commit")
  /\ \E s \in Sessions :
       /\ IsNext(s)
       /\ session' = [session EXCEPT ![old] = "revoked", ![s] = "live"]
       /\ proof' = [proof EXCEPT ![s] = proof[old]]
       /\ root' = [root EXCEPT ![s] = root[old]]
       /\ Suspend(p, Replying(s))
  /\ UNCHANGED <<account, token, uses>>

\* Only a live session is revoked; an expired token is answered with 401.
LogoutBegin(p, s) ==
  /\ session[s] # "none"
  /\ Begin(p, IF Usable(s) THEN [at |-> "revoke_commit", session |-> s] ELSE Replying(None))
  /\ UNCHANGED authVars

\* revokeAuthSession, by staff
RevokeBegin(p, s) ==
  /\ session[s] \in {"live", "expired"}
  /\ Begin(p, [at |-> "revoke_commit", session |-> s])
  /\ UNCHANGED authVars

RevokeCommit(p) ==
  /\ At(p, "revoke_commit")
  /\ session' = [session EXCEPT ![handler[p].session] = "revoked"]
  /\ Suspend(p, Replying(None))
  /\ UNCHANGED <<account, proof, root, token, uses>>

\* One updateMany of the sessions that are neither revoked nor expired.
RevokeUserSessions ==
  /\ Known
  /\ session' = [s \in Sessions |-> IF session[s] = "live" THEN "revoked" ELSE session[s]]
  /\ UNCHANGED <<account, proof, root, token, uses, handler>>

-----------------------------------------------------------------------------
(* Passwords                                                               *)

ChangeBegin(p) ==
  /\ Known /\ RoomForPassword
  /\ Begin(p, [at |-> "change_commit"])
  /\ UNCHANGED authVars

\* Mutant (MCAccounts): a password is changed and the sessions go on.
ChangeKeepsSessions(p) ==
  /\ At(p, "change_commit")
  /\ password' = password + 1
  /\ token' = Consumed("reset", Tokens)
  /\ Suspend(p, Replying(None))
  /\ UNCHANGED <<verified, sessions, uses>>

ChangeCommit(p) ==
  /\ At(p, "change_commit")
  /\ password' = password + 1
  /\ session' = AllRevoked
  /\ token' = Consumed("reset", Tokens)
  /\ Suspend(p, Replying(None))
  /\ UNCHANGED <<verified, proof, root, uses>>

ResetBegin(p, t) ==
  /\ token["reset"][t] = "open" /\ RoomForPassword
  /\ Begin(p, [at |-> "reset_commit", token |-> t])
  /\ UNCHANGED authVars

\* Mutant (MCAccounts): a reset leaves its token open.
ResetKeepsToken(p) ==
  LET t == handler[p].token IN
  /\ At(p, "reset_commit")
  /\ password' = password + 1
  /\ session' = AllRevoked
  /\ uses' = [uses EXCEPT ![t] = @ + 1]
  /\ Suspend(p, Replying(None))
  /\ UNCHANGED <<verified, token, proof, root>>

ResetCommit(p) ==
  LET t == handler[p].token IN
  /\ At(p, "reset_commit")
  /\ password' = password + 1
  /\ session' = AllRevoked
  /\ token' = Consumed("reset", Tokens)
  /\ uses' = [uses EXCEPT ![t] = @ + 1]
  /\ Suspend(p, Replying(None))
  /\ UNCHANGED <<verified, proof, root>>

-----------------------------------------------------------------------------
(* Single-use tokens                                                       *)

Issue(p, k) ==
  /\ RoomForToken(k)
  /\ Begin(p, [at |-> "issue_consume", kind |-> k, granted |-> None])
  /\ UNCHANGED authVars

\* An unknown address gets the same answer and no token.
RequestPasswordReset(p) == Known /\ Issue(p, "reset")

\* Nothing is issued for an address that is verified.
RequestEmailVerification(p) == Known /\ ~verified /\ Issue(p, "verify")

\* The tokens that the first statement of the transaction sees.
Open(k) == {t \in Tokens : token[k][t] \in {"open", "expired"}}

\* The transaction consumes the tokens that its first statement sees and
\* creates one: under READ COMMITTED it does not see one created meanwhile.
\* Then the mail is sent (MailDelivery); the request fails if it cannot be.
IssueConsume(p) ==
  LET h == handler[p] IN
  /\ At(p, "issue_consume")
  /\ Suspend(p, [at |-> "issue_create", kind |-> h.kind, granted |-> h.granted,
                 old |-> Open(h.kind)])
  /\ UNCHANGED authVars

IssueCreate(p) ==
  LET h == handler[p] IN
  /\ At(p, "issue_create")
  /\ \E t \in Tokens :
       /\ IsNextToken(h.kind, t)
       /\ token' = [Consumed(h.kind, h.old) EXCEPT ![h.kind][t] = "open"]
  /\ Suspend(p, Replying(h.granted)) \/ Suspend(p, Replying(None))
  /\ UNCHANGED <<account, sessions, uses>>

\* assertEmailVerificationTokenIsUsable
Confirmable(t) == token["verify"][t] = "open" /\ ~verified

ConfirmBegin(p, t) ==
  /\ Confirmable(t)
  /\ Begin(p, [at |-> "confirm_commit", token |-> t])
  /\ UNCHANGED authVars

ConfirmCommit(p) ==
  /\ At(p, "confirm_commit")
  /\ verified' = TRUE
  /\ token' = Consumed("verify", Tokens)
  /\ Suspend(p, Replying(None))
  /\ UNCHANGED <<password, sessions, uses>>

-----------------------------------------------------------------------------
\* Thirty days, sixty or thirty minutes pass.
ExpireSession(s) ==
  /\ session[s] = "live"
  /\ session' = [session EXCEPT ![s] = "expired"]
  /\ UNCHANGED <<account, proof, root, token, uses, handler>>

ExpireToken(k, t) ==
  /\ token[k][t] = "open"
  /\ token' = [token EXCEPT ![k][t] = "expired"]
  /\ UNCHANGED <<account, sessions, uses, handler>>

Reply(p) == At(p, "reply") /\ Finish(p) /\ UNCHANGED authVars

SessionRequest(p) ==
  \/ RegisterBegin(p) \/ LoginBegin(p) \/ ChangeBegin(p)
  \/ \E s \in Sessions : RefreshBegin(p, s) \/ LogoutBegin(p, s) \/ RevokeBegin(p, s)

TokenRequest(p, k) ==
  \/ k = "reset" /\ (RequestPasswordReset(p) \/ \E t \in Tokens : ResetBegin(p, t))
  \/ k = "verify" /\ (RequestEmailVerification(p) \/ \E t \in Tokens : ConfirmBegin(p, t))

AuthStep(p) ==
  \/ CreateUser(p) \/ OpenSession(p) \/ RefreshCommit(p) \/ RevokeCommit(p)
  \/ ChangeCommit(p) \/ ResetCommit(p)
  \/ IssueConsume(p) \/ IssueCreate(p) \/ ConfirmCommit(p)

AuthNext ==
  \/ \E p \in Api : SessionRequest(p) \/ AuthStep(p) \/ Reply(p)
  \/ \E p \in Api, k \in Kinds : TokenRequest(p, k)
  \/ RevokeUserSessions
  \/ \E s \in Sessions : ExpireSession(s)
  \/ \E k \in Kinds, t \in Tokens : ExpireToken(k, t)

AuthSpec == AuthInit /\ [][AuthNext]_<<authVars, handler>>
-----------------------------------------------------------------------------
(* Properties                                                              *)

Live == {s \in Sessions : session[s] = "live"}
Stale == {s \in Live : proof[s] < password}

\* A change or reset of the password ends every session.  What survives was
\* written by a request in flight at that moment: the sessions opened with an
\* earlier password descend from fewer logins than there are requests, however
\* often they are refreshed afterwards.
StragglersBounded == Stale # {} => Cardinality({root[s] : s \in Stale}) < Cardinality(Api)

\* A reset link sets the password once for each request that read it before
\* the first of them committed, and never again; and however many links are
\* asked for at the same time, no more of a kind are open than there are
\* requests: each one closes what it sees.
LinksBounded ==
  /\ \A t \in Tokens : uses[t] <= Cardinality(Api)
  /\ \A k \in Kinds : Cardinality({t \in Tokens : token[k][t] = "open"}) <= Cardinality(Api)

\* A session that has been revoked, by rotation, logout, staff or a change of
\* the password, is never usable again, whatever late writes still come.
RevokedForGood ==
  [][\A s \in Sessions : session[s] = "revoked" => session'[s] = "revoked"]_session
=============================================================================
