----------------------------- MODULE MCAccounts -----------------------------
(* Instances for TLC of the modules about accounts and visitors: sessions, *)
(* links sent by mail, tabs, counters of attempts, mails, links to fonts.  *)
(* Each behaviour is one of the part that is chosen at the start; the      *)
(* other parts stand still.                                                *)
EXTENDS WebClient, LoginLimits, MailDelivery, VisitorLinks, TLC

CONSTANTS a1, a2, t1, t2, n1, m1, m2, s1, s2

VARIABLE part

vars == <<part, authVars, handler, clientVars, limitVars, mailVars, visitVars>>

Init ==
  /\ part \in {"sessions", "browser", "limits", "mail", "visitors"} \cup Kinds
  /\ AuthInit /\ ClientInit /\ LimitsInit /\ MailInit /\ VisitInit
  /\ part = "mail" \/ setup = [queue |-> TRUE, smtp |-> TRUE]
  /\ part = "visitors" \/ preset = CHOOSE s \in Faces : TRUE

\* The sessions of an account whose password is changed once.
OnSessions ==
  /\ part = "sessions"
  /\ \/ \E p \in Api : RegisterBegin(p) \/ LoginBegin(p) \/ (password = 1 /\ ChangeBegin(p))
     \/ \E p \in Api, s \in Sessions : RefreshBegin(p, s) \/ LogoutBegin(p, s) \/ RevokeBegin(p, s)
     \/ \E p \in Api : AuthStep(p) \/ Reply(p)
     \/ RevokeUserSessions
     \/ \E s \in Sessions : ExpireSession(s)
  /\ UNCHANGED <<clientVars, limitVars, mailVars, visitVars>>

\* The links of one kind.
OnTokens(k) ==
  /\ part = k
  /\ \/ \E p \in Api : RegisterBegin(p) \/ TokenRequest(p, k) \/ AuthStep(p) \/ Reply(p)
     \/ \E t \in Tokens : ExpireToken(k, t)
  /\ UNCHANGED <<clientVars, limitVars, mailVars, visitVars>>

\* Two sessions, one new password (not by a link, which ends sessions like any
\* other), one session that expires, and one request of others at a time until one
\* has ended sessions; followed until calls overlap or an answer is lost, since
\* KeptSignedIn says nothing of what comes then.
OnBrowser ==
  /\ part = "browser" /\ clean /\ ClientNext
  /\ password' <= 2
  /\ \A p \in Api : At(p, "idle") => ~(handler'[p].at = "issue_consume")
  /\ Cardinality({s \in Sessions : session'[s] # "none"}) <= 2
  /\ Cardinality({s \in Sessions : session'[s] = "expired"}) <= 1
  /\ Elsewhere /\ tab' = tab => withdrawn = {} /\ \A p \in Api : Orphan(p) => At(p, "idle")
  /\ UNCHANGED <<limitVars, mailVars, visitVars>>

OnLimits ==
  /\ part = "limits" /\ LimitsNext
  /\ UNCHANGED <<authVars, handler, clientVars, mailVars, visitVars>>

OnMail ==
  /\ part = "mail" /\ MailNext
  /\ UNCHANGED <<authVars, handler, clientVars, limitVars, visitVars>>

\* One visitor: visitors do not meet.
OnVisits ==
  /\ part = "visitors" /\ VisitNext
  /\ handler'[a2] = handler[a2]
  /\ UNCHANGED <<authVars, clientVars, limitVars, mailVars>>

Next ==
  /\ part' = part
  /\ OnSessions \/ OnBrowser \/ OnLimits \/ OnMail \/ OnVisits \/ \E k \in Kinds : OnTokens(k)

Spec == Init /\ [][Next]_vars /\ LimitsFairness /\ MailFairness /\ VisitFairness
=============================================================================
