------------------------------ MODULE WebClient ------------------------------
(***************************************************************************)
(* The tabs of one browser.  They share the refresh token in localStorage; *)
(* each keeps its own access token and its own promise of a silent         *)
(* refresh.  Their calls are handlers of AuthSessions; an answer may be    *)
(* lost, or come after the user has done something else.  Beside the tabs, *)
(* another device changes or resets the password and staff revoke sessions.*)
(***************************************************************************)
EXTENDS AuthSessions

CONSTANT Tabs

ASSUME BrowserAssumption == None \notin Sessions \cup Api

VARIABLES
  stored,  \* localStorage fh_refresh
  tab,     \* authStore and the calls of each tab
  clean,   \* history: no answer was lost, no two calls of the browser overlapped
  withdrawn  \* history: sessions ended by a new password or by somebody else

clientVars == <<stored, tab, clean, withdrawn>>

\* silent: calls of attemptRefresh, one while the promise is kept;
\* call, what: the call of authApi that the user waits for.  A logout with an
\* expired token ("leaving") is refused, and then waits for attemptRefresh ("left").
Whats == {"none", "boot", "login", "logout", "change", "leaving", "refused", "left"}
Tab == [signedIn: BOOLEAN, fresh: BOOLEAN, silent: SUBSET Api,
        call: Api \cup {None}, what: Whats]

ClientTypeOK ==
  /\ stored \in Sessions \cup {None}
  /\ tab \in [Tabs -> Tab]
  /\ clean \in BOOLEAN
  /\ withdrawn \in SUBSET Sessions

Blank == [signedIn |-> FALSE, fresh |-> FALSE, silent |-> {}, call |-> None, what |-> "none"]

ClientInit == stored = None /\ tab = [t \in Tabs |-> Blank] /\ clean = TRUE /\ withdrawn = {}

Calls(t) == tab[t].silent \cup ({tab[t].call} \ {None})
Orphan(p) == \A t \in Tabs : p \notin Calls(t)
Quiet(t) == Calls(t) = {}

\* A call that begins while another one of the browser is under way.
Overlap(t, mine) == mine # {} \/ \E o \in Tabs \ {t} : ~Quiet(o)

SetTab(t, r) == tab' = [tab EXCEPT ![t] = r]

\* authStore.clearSession; setSession or setAccessToken with the token stored.
Cleared(r) == [r EXCEPT !.signedIn = FALSE, !.fresh = FALSE,
                        !.what = IF @ \in {"refused", "left"} THEN "none" ELSE @]
Granted(r) == [r EXCEPT !.signedIn = TRUE, !.fresh = TRUE]

\* The answer r of call p, or a network error, which the callers treat alike.
Receive(p, r) ==
  \/ At(p, "reply") /\ r = handler[p].granted /\ Finish(p) /\ clean' = clean
  \/ r = None /\ clean' = FALSE /\ UNCHANGED handler
-----------------------------------------------------------------------------
\* bootstrap: a page that loads spends the stored token before it renders.
Load(t) ==
  /\ IF stored = None
     THEN SetTab(t, Blank) /\ UNCHANGED <<authVars, handler>>
     ELSE \E p \in Api :
            /\ RefreshBegin(p, stored)
            /\ SetTab(t, [Blank EXCEPT !.call = p, !.what = "boot"])
  /\ clean' = (clean /\ ~Overlap(t, Calls(t)))
  /\ UNCHANGED <<stored, withdrawn>>

\* LoginPage and RegisterPage, which RedirectIfAuth hides once signed in.
SignIn(t) ==
  /\ ~tab[t].signedIn /\ tab[t].what = "none"
  /\ \E p \in Api :
       /\ LoginBegin(p) \/ RegisterBegin(p)
       /\ SetTab(t, [tab[t] EXCEPT !.call = p, !.what = "login"])
  /\ clean' = (clean /\ ~Overlap(t, Calls(t)))
  /\ UNCHANGED <<stored, withdrawn>>

\* The call of a logout does not ask for the token to be fresh.
LogOut(t) ==
  /\ tab[t].signedIn /\ tab[t].what = "none"
  /\ IF stored = None
     THEN SetTab(t, Cleared(tab[t])) /\ UNCHANGED <<authVars, handler>>
     ELSE \E p \in Api :
            /\ LogoutBegin(p, stored)
            /\ SetTab(t, [tab[t] EXCEPT !.call = p,
                           !.what = IF session[stored] = "expired" THEN "leaving" ELSE "logout"])
  /\ clean' = (clean /\ ~Overlap(t, Calls(t)))
  /\ UNCHANGED <<stored, withdrawn>>

\* ProfilePage: the server ends all sessions, and the page clears its own.
ChangePassword(t) ==
  /\ tab[t].signedIn /\ tab[t].fresh /\ tab[t].what = "none"
  /\ \E p \in Api :
       /\ ChangeBegin(p)
       /\ SetTab(t, [tab[t] EXCEPT !.call = p, !.what = "change"])
  /\ clean' = (clean /\ ~Overlap(t, Calls(t)))
  /\ UNCHANGED <<stored, withdrawn>>

\* The answer of the server: to authApi.refresh, login and register with a session;
\* a login without one says so and leaves the store as it is.  A logout that is
\* answered 401 goes on to attemptRefresh.
Answered(t) ==
  LET p == tab[t].call
      what == tab[t].what
      r == [tab[t] EXCEPT !.call = None, !.what = "none"]
  IN
  /\ p # None /\ At(p, "reply") /\ Finish(p)
  /\ LET s == handler[p].granted IN
     \/ s # None /\ SetTab(t, Granted(r)) /\ stored' = s
     \/ s = None /\ what = "login" /\ SetTab(t, r) /\ UNCHANGED stored
     \/ /\ s = None /\ what = "leaving" /\ UNCHANGED stored
        /\ SetTab(t, [r EXCEPT !.what = IF tab[t].silent = {} THEN "refused" ELSE "left"])
     \/ s = None /\ what \notin {"login", "leaving"} /\ SetTab(t, Cleared(r)) /\ stored' = None
  /\ UNCHANGED <<authVars, clean, withdrawn>>

\* A network error instead: a refresh and a logout clear the store all the same.
Lost(t) ==
  LET r == [tab[t] EXCEPT !.call = None, !.what = "none"] IN
  /\ tab[t].call # None
  /\ IF tab[t].what \in {"login", "change"}
     THEN SetTab(t, r) /\ UNCHANGED stored
     ELSE SetTab(t, Cleared(r)) /\ stored' = None
  /\ clean' = FALSE
  /\ UNCHANGED <<authVars, handler, withdrawn>>

\* Fifteen minutes pass, or a request is answered 401 for a wrong password.
AccessExpires(t) ==
  /\ tab[t].fresh
  /\ SetTab(t, [tab[t] EXCEPT !.fresh = FALSE])
  /\ UNCHANGED <<authVars, handler, stored, clean, withdrawn>>

\* Mutant: every 401 spends the stored token, without the shared promise.
RefreshEach(t) ==
  /\ tab[t].signedIn /\ ~tab[t].fresh
  /\ stored # None
  /\ \E p \in Api :
       RefreshBegin(p, stored) /\ SetTab(t, [tab[t] EXCEPT !.silent = @ \cup {p}])
  /\ clean' = (clean /\ ~Overlap(t, Calls(t) \ tab[t].silent))
  /\ UNCHANGED <<stored, withdrawn>>

\* attemptRefresh after a 401, unless the promise of another 401 is pending.
Refresh(t) ==
  /\ (tab[t].signedIn /\ ~tab[t].fresh) \/ tab[t].what = "refused"
  /\ tab[t].silent = {}
  /\ IF stored = None
     THEN SetTab(t, Cleared(tab[t])) /\ clean' = clean /\ UNCHANGED <<authVars, handler>>
     ELSE /\ \E p \in Api :
               /\ RefreshBegin(p, stored)
               /\ SetTab(t, [tab[t] EXCEPT !.silent = @ \cup {p},
                              !.what = IF @ = "refused" THEN "left" ELSE @])
          /\ clean' = (clean /\ ~Overlap(t, Calls(t)))
  /\ UNCHANGED <<stored, withdrawn>>

\* Success stores the token for whoever is signed in by now; failure clears.
Refreshed(t, p) ==
  LET r == [tab[t] EXCEPT !.silent = @ \ {p}] IN
  /\ p \in tab[t].silent
  /\ \E s \in Sessions \cup {None} :
       /\ Receive(p, s)
       /\ IF s # None THEN SetTab(t, [r EXCEPT !.fresh = TRUE]) /\ stored' = s
                      ELSE SetTab(t, Cleared(r)) /\ stored' = None
  /\ UNCHANGED <<authVars, withdrawn>>

\* The logout is sent once more, with the token that was refused, and then clears.
Left(t) ==
  /\ tab[t].what = "left" /\ tab[t].silent = {}
  /\ SetTab(t, Cleared(tab[t])) /\ stored' = None
  /\ clean' = (clean /\ ~Overlap(t, Calls(t)))
  /\ UNCHANGED <<authVars, handler, withdrawn>>

\* Steps of handlers: a new password and the revocations of others end sessions,
\* a rotation and the logout of a tab only what the tab has given up.
HandlerStep(p) ==
  /\ AuthStep(p)
  /\ withdrawn' =
       IF handler[p].at \in {"change_commit", "reset_commit"} \/ (At(p, "revoke_commit") /\ Orphan(p))
       THEN withdrawn \cup {s \in Sessions : session[s] # "revoked" /\ session'[s] = "revoked"}
       ELSE withdrawn

\* Another device of the user, and staff.
Elsewhere ==
  \/ /\ \E p \in Api :
          ChangeBegin(p) \/ TokenRequest(p, "reset") \/ \E s \in Sessions : RevokeBegin(p, s)
     /\ UNCHANGED withdrawn
  \/ RevokeUserSessions /\ withdrawn' = withdrawn \cup Live

ClientNext ==
  \/ \E t \in Tabs : Load(t) \/ SignIn(t) \/ LogOut(t) \/ ChangePassword(t) \/ Answered(t)
                       \/ Lost(t) \/ AccessExpires(t) \/ Refresh(t) \/ Left(t)
  \/ \E t \in Tabs, p \in Api : Refreshed(t, p)
  \/ /\ \/ \E p \in Api : HandlerStep(p)
        \/ Elsewhere
        \/ /\ \E p \in Api : Orphan(p) /\ Reply(p)
           /\ UNCHANGED withdrawn
        \/ (\E s \in Sessions : ExpireSession(s)) /\ UNCHANGED withdrawn
     /\ UNCHANGED <<stored, tab, clean>>

ClientSpec ==
  AuthInit /\ ClientInit /\ [][ClientNext]_<<authVars, handler, clientVars>>
-----------------------------------------------------------------------------
(* Properties                                                              *)

SignedIn(r) == r.signedIn \/ r.what = "boot"

\* While the calls of a browser do not overlap and no answer is lost, the user
\* stays signed in until a logout in some tab, the end of the thirty days, a new
\* password, or the end of the session by somebody else: several requests of a
\* page that fail with 401 together spend one token.
KeptSignedIn ==
  [][\A t \in Tabs :
       (clean' /\ SignedIn(tab[t]) /\ ~SignedIn(tab'[t])) =>
         \/ tab[t].what \in {"logout", "left", "change"}
         \/ stored = None
         \/ session[stored] = "expired" \/ stored \in withdrawn]_<<authVars, handler, clientVars>>
=============================================================================
