----------------------------- MODULE AuditTrail -----------------------------
(***************************************************************************)
(* The audit events of authentication and the refresh sessions, and the    *)
(* pages of them that staff read, newest first.  A page is a count and a   *)
(* query that run at the same time; rows are added between the two and     *)
(* between the pages, and sessions leave the list of the active ones.  The *)
(* query orders by createdAt alone: rows of one createdAt come in any      *)
(* order, and in another one on the next page.                             *)
(***************************************************************************)
EXTENDS Naturals, FiniteSets, Handlers

CONSTANTS
  MaxAudit,   \* bound: createdAt 1..MaxAudit of rows
  Twins,      \* ids that tell rows of one createdAt apart; their number is a bound
  AuditSize   \* pageSize

ASSUME AuditAssumption ==
  MaxAudit \in Nat /\ AuditSize \in Nat \ {0} /\ IsFiniteSet(Twins)

VARIABLES
  listing,  \* which of the two lists is read
  trail,    \* its rows: events, or sessions in a status
  left,     \* sessions that are in that status no more
  torn      \* history: readers for whom a row came between count and query, or left

auditVars == <<listing, trail, left, torn>>
Stamped == (1..MaxAudit) \X Twins  \* <<createdAt, id>>
Reads(p) == At(p, "audit_read")

AuditInit == listing \in {"events", "sessions"} /\ trail = {} /\ left = {} /\ torn = {}

\* recordAuthAuditEvent, createRefreshSession; a row may be committed after a
\* later one, and the failure to record an event is swallowed.
RecordEvent(r) ==
  /\ r \in Stamped \ (trail \cup left)
  /\ trail' = trail \cup {r}
  /\ torn' = torn \cup {p \in Api : Reads(p) /\ handler[p].todo = {"rows"}}
  /\ UNCHANGED <<handler, listing, left>>

\* An active session is revoked or expires; no event ever goes.
EndSession(r) ==
  /\ listing = "sessions" /\ r \in trail
  /\ trail' = trail \ {r} /\ left' = left \cup {r}
  /\ torn' = torn \cup {p \in Api : Reads(p)}
  /\ UNCHANGED <<handler, listing>>

\* first: the rows at the time of the first page.
AuditBegin(p) ==
  /\ Begin(p, [at |-> "audit_read", page |-> 1, todo |-> {"count", "rows"}, total |-> 0,
               rows |-> {}, seen |-> {}, first |-> trail])
  /\ torn' = torn \ {p}
  /\ UNCHANGED <<listing, trail, left>>

\* Mutant (MCLibrary): pages counted from zero.
SkipFromZero(page) == page * AuditSize

Skipped(page) == (page - 1) * AuditSize

AuditCount(p) ==
  /\ Reads(p) /\ "count" \in handler[p].todo
  /\ Suspend(p, [handler[p] EXCEPT !.todo = @ \ {"count"}, !.total = Cardinality(trail)])
  /\ UNCHANGED auditVars

\* orderBy createdAt desc: no row comes before a newer one.
NoneNewer(older, newer) == \A x \in older, y \in newer : x[1] <= y[1]

\* The query passes over the earlier rows and returns the next.
AuditRows(p) ==
  LET skip == Skipped(handler[p].page) IN
  /\ Reads(p) /\ "rows" \in handler[p].todo
  /\ \E earlier \in SUBSET trail : \E rows \in SUBSET (trail \ earlier) :
       /\ NoneNewer(trail \ earlier, earlier)
       /\ NoneNewer(trail \ (earlier \cup rows), rows)
       /\ \/ Cardinality(earlier) = skip
          \/ Cardinality(earlier) < skip /\ earlier = trail
       /\ \/ Cardinality(rows) = AuditSize
          \/ Cardinality(rows) < AuditSize /\ earlier \cup rows = trail
       /\ Suspend(p, [handler[p] EXCEPT !.todo = @ \ {"rows"}, !.rows = rows])
  /\ UNCHANGED auditVars

\* Both have been read: the reader goes on while totalPages says so.
AuditPage(p) ==
  LET h == handler[p]
      more == h.page * AuditSize < h.total IN
  /\ Reads(p) /\ h.todo = {}
  /\ Suspend(p, [h EXCEPT !.seen = @ \cup h.rows, !.rows = {}, !.total = 0,
                          !.at = IF more THEN @ ELSE "audited",
                          !.page = IF more THEN @ + 1 ELSE @,
                          !.todo = IF more THEN {"count", "rows"} ELSE {}])
  /\ UNCHANGED auditVars

AuditEnd(p) == At(p, "audited") /\ Finish(p) /\ UNCHANGED auditVars

AuditNext ==
  \/ \E r \in Stamped : RecordEvent(r) \/ EndSession(r)
  \/ \E p \in Api : AuditBegin(p) \/ AuditCount(p) \/ AuditRows(p) \/ AuditPage(p) \/ AuditEnd(p)

AuditSpec == HandlersIdle /\ AuditInit /\ [][AuditNext]_<<auditVars, handler>>

AuditTypeOK ==
  /\ listing \in {"events", "sessions"}
  /\ trail \subseteq Stamped /\ left \subseteq Stamped /\ torn \subseteq Api
  /\ \A p \in Api : handler[p].at \in {"idle", "audit_read", "audited"}

\* Whoever reads the trail to its last page has seen every row that was there
\* at the beginning, however many were added meanwhile, unless one came between
\* the count and the query of a page, or left the list.  Only a row whose
\* createdAt another row shares can be lost otherwise, and never all of them.
AuditComplete ==
  \A p \in Api \ torn : At(p, "audited") =>
    \A r \in handler[p].first : \E s \in handler[p].seen : s[1] = r[1]
=============================================================================
