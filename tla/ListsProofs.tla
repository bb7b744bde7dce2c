----------------------------- MODULE ListsProofs -----------------------------
(***************************************************************************)
(* Theorems about what people are shown, page by page: what the audit log  *)
(* tells the two sides of a review (ReviewReports), the audit trail and    *)
(* the list of sessions (AuditTrail), the public catalogue and a search in *)
(* it (CatalogueReads).  A row's place is the number of rows before it;    *)
(* what a page is, and what a reader still has to find, is said by these   *)
(* ranks.                                                                  *)
(***************************************************************************)
EXTENDS ReviewReports, AuditTrail, CatalogueReads, FiniteSetTheorems, SequenceTheorems,
        WellFoundedInduction, TLAPS

-----------------------------------------------------------------------------
(* Rows in an order, and pages of them.                                    *)

LEMMA LowerRanks ==
  ASSUME NEW S, S \subseteq Nat, IsFiniteSet(S), NEW x \in S, NEW z \in S, x < z
  PROVE  Cardinality({y \in S : y < x}) < Cardinality({y \in S : y < z})
<1> DEFINE Low(a) == {y \in S : y < a}
<1>1. \A a : IsFiniteSet(Low(a))
  <2> SUFFICES ASSUME NEW a PROVE IsFiniteSet(Low(a))
    OBVIOUS
  <2>1. Low(a) \in SUBSET S
    OBVIOUS
  <2> QED BY <2>1, FS_Subset
<1>2. \A a : Cardinality(Low(a)) \in Nat
  BY <1>1, FS_CardinalityType
<1>3. Low(x) \in SUBSET Low(z) /\ x \in Low(z) /\ x \notin Low(x)
  <2>1. \A y \in S : ~(y < y) /\ (y < x => y < z)
    <3> SUFFICES ASSUME NEW y \in S PROVE ~(y < y) /\ (y < x => y < z)
      OBVIOUS
    <3>1. x \in Nat /\ y \in Nat /\ z \in Nat
      OBVIOUS
    <3> QED BY <3>1
  <2> QED BY <2>1
<1>4. /\ Cardinality(Low(x)) <= Cardinality(Low(z))
      /\ Cardinality(Low(x)) # Cardinality(Low(z))
  BY <1>1, <1>3, FS_Subset
<1> HIDE DEF Low
<1>5. Cardinality(Low(x)) < Cardinality(Low(z))
  BY <1>2, <1>4
<1> QED BY <1>5 DEF Low

LEMMA RanksDiffer ==
  ASSUME NEW S, S \subseteq Nat, IsFiniteSet(S), NEW x \in S, NEW z \in S,
         Cardinality({y \in S : y < x}) = Cardinality({y \in S : y < z})
  PROVE  x = z
<1> DEFINE Low(a) == {y \in S : y < a}
<1>1. \A a : Low(a) \in SUBSET S
  OBVIOUS
<1>2. \A a : Cardinality(Low(a)) \in Nat
  BY <1>1, FS_Subset, FS_CardinalityType
<1>3. \A a, b \in S : a < b => Cardinality(Low(a)) < Cardinality(Low(b))
  BY LowerRanks
<1>4. Cardinality(Low(x)) = Cardinality(Low(z))
  OBVIOUS
<1> HIDE DEF Low
<1>5. ~(x < z) /\ ~(z < x)
  BY <1>2, <1>3, <1>4
<1> QED BY <1>5

\* A row of rank k is the one at k.
LEMMA AscendingAt ==
  ASSUME NEW S, S \subseteq Nat, IsFiniteSet(S), NEW x \in S, NEW k \in Nat,
         k = Cardinality({y \in S : y < x}) + 1
  PROVE  k \in 1..Cardinality(S) /\ Ascending(S)[k] = x
<1> DEFINE Low(a) == {y \in S : y < a}
<1>0. Low(x) \in SUBSET S /\ x \notin Low(x) /\ x \in S
  OBVIOUS
<1>1. /\ Cardinality(Low(x)) \in Nat /\ Cardinality(S) \in Nat
      /\ Cardinality(Low(x)) <= Cardinality(S) /\ Cardinality(Low(x)) # Cardinality(S)
  BY <1>0, FS_Subset, FS_CardinalityType
<1>2. k \in 1..Cardinality(S)
  BY <1>1
<1>3. \A z \in S : Cardinality(Low(z)) = k - 1 => z = x
  <2> SUFFICES ASSUME NEW z \in S, Cardinality(Low(z)) = k - 1 PROVE z = x
    OBVIOUS
  <2>1. Cardinality(Low(z)) = Cardinality(Low(x))
    BY <1>1
  <2> QED BY <2>1, RanksDiffer
<1>4. Cardinality(Low(x)) = k - 1
  BY <1>1
<1>5. (CHOOSE z \in S : Cardinality(Low(z)) = k - 1) = x
  BY <1>3, <1>4
<1>6. Ascending(S)[k] = CHOOSE z \in S : Cardinality(Low(z)) = k - 1
  BY <1>2 DEF Ascending
<1> QED BY <1>2, <1>5, <1>6

\* Every position has a row.
LEMMA AscendingRows ==
  ASSUME NEW S, S \subseteq Nat, IsFiniteSet(S)
  PROVE  /\ Cardinality(S) \in Nat /\ DOMAIN Ascending(S) = 1..Cardinality(S)
         /\ \A k \in 1..Cardinality(S) :
              Ascending(S)[k] \in S /\ Cardinality({y \in S : y < Ascending(S)[k]}) = k - 1
<1> DEFINE Low(a) == {y \in S : y < a}
           At1(x) == Cardinality(Low(x)) + 1
           rank == [x \in S |-> At1(x)]
<1>0. Cardinality(S) \in Nat
  BY FS_CardinalityType
<1>1. \A x \in S : At1(x) \in 1..Cardinality(S)
  <2> SUFFICES ASSUME NEW x \in S PROVE At1(x) \in 1..Cardinality(S)
    OBVIOUS
  <2>1. Low(x) \in SUBSET S
    OBVIOUS
  <2>2. At1(x) \in Nat
    BY <2>1, FS_Subset, FS_CardinalityType
  <2> QED BY <2>2, AscendingAt
<1>2. \A x, z \in S : At1(x) = At1(z) => x = z
  <2> SUFFICES ASSUME NEW x \in S, NEW z \in S, At1(x) = At1(z) PROVE x = z
    OBVIOUS
  <2>1. Cardinality(Low(x)) \in Nat /\ Cardinality(Low(z)) \in Nat
    BY FS_Subset, FS_CardinalityType
  <2>2. Cardinality(Low(x)) = Cardinality(Low(z))
    BY <2>1
  <2> QED BY <2>2, RanksDiffer
<1>3. rank \in Injection(S, 1..Cardinality(S))
  BY <1>1, <1>2 DEF Injection, IsInjective
<1>4. IsFiniteSet(1..Cardinality(S)) /\ Cardinality(1..Cardinality(S)) = Cardinality(S)
  BY <1>0, FS_Interval
<1>5. rank \in Surjection(S, 1..Cardinality(S))
  BY <1>3, <1>4, FS_Injection
<1>6. ASSUME NEW k \in 1..Cardinality(S)
      PROVE  Ascending(S)[k] \in S /\ Cardinality({y \in S : y < Ascending(S)[k]}) = k - 1
  <2>1. PICK x \in S : At1(x) = k
    BY <1>5 DEF Surjection
  <2>2. Cardinality(Low(x)) \in Nat
    <3>1. Low(x) \in SUBSET S
      OBVIOUS
    <3> QED BY <3>1, FS_Subset, FS_CardinalityType
  <2>3. k \in Nat /\ k = Cardinality({y \in S : y < x}) + 1
    BY <1>0, <2>1
  <2>4. Ascending(S)[k] = x
    BY <2>3, AscendingAt
  <2> QED BY <2>2, <2>3, <2>4
<1>7. DOMAIN Ascending(S) = 1..Cardinality(S)
  BY DEF Ascending
<1> QED BY <1>0, <1>6, <1>7

\* The rows of a page are those at its places.
LEMMA PageHas ==
  ASSUME NEW s, NEW m \in Int, NEW n \in Int, NEW k \in m..n
  PROVE  s[k] \in ToSet(SubSeq(s, m, n))
<1> DEFINE T == {s[i] : i \in m..n}
           sub == SubSeq(s, m, n)
<1>1. /\ sub \in Seq(T) /\ Len(sub) = n - m + 1
      /\ \A i \in 1..(n - m + 1) : sub[i] = s[m + i - 1]
  BY SubSeqProperties
<1>2. k - m + 1 \in 1..(n - m + 1) /\ m + (k - m + 1) - 1 = k
  OBVIOUS
<1>3. sub[k - m + 1] = s[k]
  BY <1>1, <1>2
<1>4. DOMAIN sub = 1..Len(sub)
  BY <1>1
<1> HIDE DEF sub
<1>5. s[k] \in ToSet(sub)
  BY <1>1, <1>2, <1>3, <1>4 DEF ToSet
<1> QED BY <1>5 DEF sub

\* Two pages in a row.
LEMMA Joined ==
  ASSUME NEW S, NEW s \in Seq(S), NEW t \in Seq(S)
  PROVE  /\ s \o t \in Seq(S) /\ Len(s \o t) = Len(s) + Len(t)
         /\ ToSet(s \o t) = ToSet(s) \cup ToSet(t)
<1>1. /\ s \o t \in Seq(S) /\ Len(s \o t) = Len(s) + Len(t)
      /\ \A i \in 1..(Len(s) + Len(t)) :
           (s \o t)[i] = IF i <= Len(s) THEN s[i] ELSE t[i - Len(s)]
  BY ConcatProperties
<1>2. /\ DOMAIN s = 1..Len(s) /\ DOMAIN t = 1..Len(t) /\ Len(s) \in Nat /\ Len(t) \in Nat
      /\ DOMAIN (s \o t) = 1..(Len(s) + Len(t))
  BY <1>1
<1> DEFINE u == s \o t
<1> HIDE DEF u
<1>3. \A i \in 1..Len(s) : i \in DOMAIN u /\ u[i] = s[i]
  BY <1>1, <1>2 DEF u
<1>4. \A i \in 1..Len(t) : Len(s) + i \in DOMAIN u /\ u[Len(s) + i] = t[i]
  <2> SUFFICES ASSUME NEW i \in 1..Len(t)
               PROVE Len(s) + i \in DOMAIN u /\ u[Len(s) + i] = t[i]
    OBVIOUS
  <2>1. /\ Len(s) + i \in 1..(Len(s) + Len(t)) /\ ~(Len(s) + i <= Len(s))
        /\ Len(s) + i - Len(s) = i
    BY <1>2
  <2> QED BY <1>1, <1>2, <2>1 DEF u
<1>5. \A i \in DOMAIN u : u[i] \in ToSet(s) \cup ToSet(t)
  <2> SUFFICES ASSUME NEW i \in DOMAIN u PROVE u[i] \in ToSet(s) \cup ToSet(t)
    OBVIOUS
  <2>1. CASE i <= Len(s)
    BY <1>1, <1>2, <2>1 DEF u, ToSet
  <2>2. CASE ~(i <= Len(s))
    <3>1. i - Len(s) \in 1..Len(t) /\ u[i] = t[i - Len(s)]
      BY <1>1, <1>2, <2>2 DEF u
    <3> QED BY <1>2, <3>1 DEF ToSet
  <2> QED BY <2>1, <2>2
<1>6. ToSet(u) = ToSet(s) \cup ToSet(t)
  BY <1>2, <1>3, <1>4, <1>5 DEF ToSet
<1> QED BY <1>1, <1>6 DEF u

LEMMA AtSome ==
  ASSUME NEW S, NEW s \in Seq(S), NEW x \in ToSet(s)
  PROVE  \E i \in 1..Len(s) : s[i] = x
<1>1. DOMAIN s = 1..Len(s)
  OBVIOUS
<1> QED BY <1>1 DEF ToSet

\* As many values as there are positions, when no two are the same.
LEMMA CountTo ==
  ASSUME NEW s, NEW n \in Nat, \A i, j \in 1..n : i # j => s[i] # s[j]
  PROVE  Cardinality({s[j] : j \in 1..n}) = n
<1> DEFINE f == [j \in 1..n |-> s[j]]
           T == {s[j] : j \in 1..n}
<1>1. f \in Bijection(1..n, T)
  BY DEF Bijection, Injection, Surjection, IsInjective
<1>2. IsFiniteSet(1..n) /\ Cardinality(1..n) = n
  BY FS_Interval
<1>3. ExistsBijection(1..n, T)
  BY <1>1 DEF ExistsBijection
<1> QED BY <1>2, <1>3, FS_Bijection

-----------------------------------------------------------------------------
(* What the audit log tells the two sides of a review.                     *)

(* The invariant.                                                          *)

\* A handler that is about to submit or decide has looked at the time earlier.
Awake(h) ==
  \/ h = Idle
  \/ h \in [at: {"submission"}, now: 0..Len(events)]
  \/ h \in [at: {"decision"}, action: DecisionActions, issues: SUBSET Issue,
            now: 0..Len(events)]

RowsTyped ==
  /\ stage \in Stages
  /\ files \in [Files -> {"none", "processing", "completed", "failed"}]
  /\ staffFiles \subseteq Files
  /\ target \in {"ready_for_submission", "needs_review"}
  /\ events \in Seq(Event) /\ Len(events) <= MaxEvents
  /\ submittedAt \in 0..Len(events) \cup {None}
  /\ reviewedAt \in 0..Len(events) \cup {None}
  /\ reviewedBy \in Api \cup {None} /\ crossed \in BOOLEAN

HandlersTyped ==
  /\ DOMAIN handler = Api
  /\ handler = [p \in Api |-> handler[p]]
  /\ \A p \in Api : Awake(handler[p])

\* Events, and decisions that are about to be written, point at files that are there.
PointsAtFiles ==
  /\ \A n \in 1..Len(events) : \A f \in Files :
       f \in events[n].issues \cup events[n].files => files[f] # "none"
  /\ \A p \in Api : handler[p].at = "decision" =>
       \A f \in handler[p].issues \cap Files : files[f] # "none"

\* A failure has its event, and so has a submission; a request for changes is the
\* latest event as long as its contributor has not begun to act on it.
EventsExplain ==
  /\ (stage = "processing_failed" \/ \E f \in Files : files[f] = "failed") =>
       \E n \in 1..Len(events) : events[n].action = "processing_failed"
  /\ stage = "changes_requested" =>
       events # <<>> /\ events[Len(events)].action = "request_changes"
  /\ (\E n \in 1..Len(events) : events[n].action = "submitted") => submittedAt # None

\* Behind a decided status there is a decision of its reviewer, later than the
\* time that the reviewer has noted; that is later than the submission unless
\* one of them was overtaken.
DecisionStands ==
  Decided =>
    /\ reviewedBy \in Api /\ reviewedAt \in Nat
    /\ \E n \in 1..Len(events) :
         /\ n > reviewedAt /\ events[n].action \in DecisionActions
         /\ StageOf(events[n].action) = stage /\ events[n].by = reviewedBy
    /\ ~crossed /\ submittedAt # None => reviewedAt >= submittedAt

ReportsInv == RowsTyped /\ HandlersTyped /\ PointsAtFiles /\ EventsExplain /\ DecisionStands

-----------------------------------------------------------------------------
(* What is common to the steps.                                            *)

LEMMA Appended ==
  ASSUME events \in Seq(Event), NEW e \in Event, events' = Append(events, e)
  PROVE  /\ events' \in Seq(Event) /\ Len(events) \in Nat /\ Len(events') = Len(events) + 1
         /\ \A n \in 1..Len(events) : events'[n] = events[n]
         /\ events'[Len(events)+1] = e /\ events' # <<>>
OBVIOUS

\* Handlers that rest stay awake, since events are never taken back.
LEMMA StillAwake ==
  ASSUME RowsTyped, events' \in Seq(Event), Len(events') >= Len(events), NEW h, Awake(h)
  PROVE  Awake(h)'
<1>1. 0..Len(events) \subseteq 0..Len(events')
  BY DEF RowsTyped
<1> QED BY <1>1 DEF Awake

LEMMA HandlersRest ==
  ASSUME RowsTyped, HandlersTyped, events' \in Seq(Event), Len(events') >= Len(events),
         UNCHANGED handler
  PROVE  HandlersTyped'
<1>1. \A p \in Api : Awake(handler[p])'
  <2> TAKE p \in Api
  <2>1. Awake(handler[p])
    BY DEF HandlersTyped
  <2>2. PICK h : h = handler[p]
    OBVIOUS
  <2>3. Awake(h)'
    BY <2>1, <2>2, StillAwake
  <2> QED BY <2>2, <2>3 DEF Awake
<1> QED BY <1>1 DEF HandlersTyped

LEMMA HandlersMove ==
  ASSUME RowsTyped, HandlersTyped, events' \in Seq(Event), Len(events') >= Len(events),
         NEW p \in Api, NEW h, Suspend(p, h), Awake(h)'
  PROVE  /\ HandlersTyped'
         /\ \A q \in Api : handler'[q] = IF q = p THEN h ELSE handler[q]
<1>1. /\ DOMAIN handler' = Api /\ handler' = [q \in Api |-> handler'[q]]
      /\ \A q \in Api : handler'[q] = IF q = p THEN h ELSE handler[q]
  BY DEF HandlersTyped, Suspend
<1>2. \A q \in Api : Awake(handler[q])'
  <2> TAKE q \in Api
  <2>1. CASE q = p
    BY <1>1, <2>1 DEF Awake
  <2>2. CASE q # p
    <3>1. Awake(handler[q])
      BY DEF HandlersTyped
    <3>2. PICK g : g = handler[q]
      OBVIOUS
    <3>3. Awake(g)'
      BY <3>1, <3>2, StillAwake
    <3> QED BY <1>1, <2>2, <3>2, <3>3 DEF Awake
  <2> QED BY <2>1, <2>2
<1> QED BY <1>1, <1>2 DEF HandlersTyped

\* The events only grow, and so do the files that are there.
Kept ==
  /\ events' \in Seq(Event) /\ Len(events') >= Len(events) /\ Len(events) \in Nat
  /\ \A n \in 1..Len(events) : n \in 1..Len(events') /\ events'[n] = events[n]
  /\ \A f \in Files : files[f] # "none" => files'[f] # "none"

LEMMA QuietKeeps ==
  ASSUME RowsTyped, UNCHANGED events, \A f \in Files : files[f] # "none" => files'[f] # "none"
  PROVE  Kept
BY DEF RowsTyped, Kept

LEMMA RecordKeeps ==
  ASSUME RowsTyped, NEW e \in Event, events' = Append(events, e),
         \A f \in Files : files[f] # "none" => files'[f] # "none"
  PROVE  /\ Kept /\ Len(events') = Len(events) + 1 /\ events'[Len(events)+1] = e
         /\ events' # <<>>
<1>1. events \in Seq(Event)
  BY DEF RowsTyped
<1>2. /\ events' \in Seq(Event) /\ Len(events) \in Nat /\ Len(events') = Len(events) + 1
      /\ \A n \in 1..Len(events) : events'[n] = events[n]
      /\ events'[Len(events)+1] = e /\ events' # <<>>
  BY <1>1, Appended
<1> QED BY <1>2 DEF Kept

LEMMA PointsStay ==
  ASSUME PointsAtFiles, Kept, UNCHANGED events,
         \A q \in Api : handler'[q].at = "decision" =>
           handler'[q] = handler[q] \/ \A f \in handler'[q].issues \cap Files : files'[f] # "none"
  PROVE  PointsAtFiles'
<1>1. \A q \in Api : handler'[q].at = "decision" =>
        \A f \in handler'[q].issues \cap Files : files'[f] # "none"
  BY DEF PointsAtFiles, Kept
<1>2. \A n \in 1..Len(events') : \A f \in Files :
        f \in events'[n].issues \cup events'[n].files => files'[f] # "none"
  BY DEF PointsAtFiles, Kept
<1> QED BY <1>1, <1>2 DEF PointsAtFiles

LEMMA PointsAdded ==
  ASSUME PointsAtFiles, Kept, NEW e \in Event,
         Len(events') = Len(events) + 1, events'[Len(events)+1] = e,
         \A f \in Files : f \in e.issues \cup e.files => files'[f] # "none",
         \A q \in Api : handler'[q].at = "decision" => handler'[q] = handler[q]
  PROVE  PointsAtFiles'
<1>1. \A q \in Api : handler'[q].at = "decision" =>
        \A f \in handler'[q].issues \cap Files : files'[f] # "none"
  BY DEF PointsAtFiles, Kept
<1>2. ASSUME NEW n \in 1..Len(events'), NEW f \in Files,
             f \in events'[n].issues \cup events'[n].files
      PROVE  files'[f] # "none"
  <2>1. CASE n \in 1..Len(events)
    BY <1>2, <2>1 DEF PointsAtFiles, Kept
  <2>2. CASE n = Len(events) + 1
    BY <1>2, <2>2
  <2> QED BY <2>1, <2>2 DEF Kept
<1> QED BY <1>1, <1>2 DEF PointsAtFiles

LEMMA DecisionKept ==
  ASSUME DecisionStands, Kept, Decided' => stage' = stage,
         UNCHANGED <<reviewedBy, reviewedAt>>, crossed => crossed',
         Decided' => UNCHANGED submittedAt
  PROVE  DecisionStands'
<1> SUFFICES ASSUME Decided' PROVE
      /\ reviewedBy' \in Api /\ reviewedAt' \in Nat
      /\ \E n \in 1..Len(events') :
           /\ n > reviewedAt' /\ events'[n].action \in DecisionActions
           /\ StageOf(events'[n].action) = stage' /\ events'[n].by = reviewedBy'
      /\ ~crossed' /\ submittedAt' # None => reviewedAt' >= submittedAt'
  BY DEF DecisionStands, StageOf
<1>1. Decided
  BY DEF Decided
<1>2. PICK n \in 1..Len(events) :
         /\ n > reviewedAt /\ events[n].action \in DecisionActions
         /\ StageOf(events[n].action) = stage /\ events[n].by = reviewedBy
  BY <1>1 DEF DecisionStands
<1>3. n \in 1..Len(events') /\ events'[n] = events[n]
  BY DEF Kept
<1>4. /\ reviewedBy \in Api /\ reviewedAt \in Nat
      /\ ~crossed /\ submittedAt # None => reviewedAt >= submittedAt
  BY <1>1 DEF DecisionStands
<1>5. StageOf(events'[n].action) = stage'
  BY <1>2, <1>3
<1> QED BY <1>2, <1>3, <1>4, <1>5

-----------------------------------------------------------------------------
(* The steps, one by one.                                                  *)

LEMMA CompleteStep ==
  ASSUME ReportsAssumption, ReportsInv, NEW p \in Api, NEW f \in Files, CompleteFile(p, f)
  PROVE  ReportsInv'
<1>1. RowsTyped'
  BY DEF ReportsInv, RowsTyped, CompleteFile, Stages
<1>2. Kept
  BY QuietKeeps DEF ReportsInv, RowsTyped, CompleteFile
<1>3. HandlersTyped'
  BY <1>2, HandlersRest DEF ReportsInv, CompleteFile, Kept
<1>4. PointsAtFiles'
  BY <1>2, PointsStay DEF ReportsInv, CompleteFile
<1>5. EventsExplain'
  BY DEF ReportsInv, RowsTyped, EventsExplain, CompleteFile
<1>6. DecisionStands'
  BY <1>2, DecisionKept DEF ReportsInv, CompleteFile, Decided
<1> QED BY <1>1, <1>3, <1>4, <1>5, <1>6 DEF ReportsInv

LEMMA SettleStep ==
  ASSUME ReportsAssumption, ReportsInv, NEW f \in Files, SettleFile(f)
  PROVE  ReportsInv'
<1>0. stage' \in {"processing_failed", "processing", target}
  BY DEF SettleFile
<1>1. RowsTyped'
  BY <1>0 DEF ReportsInv, RowsTyped, SettleFile, Stages
<1>2. Kept
  BY QuietKeeps DEF ReportsInv, RowsTyped, SettleFile
<1>3. HandlersTyped'
  BY <1>2, HandlersRest DEF ReportsInv, SettleFile, Kept
<1>4. PointsAtFiles'
  BY <1>2, PointsStay DEF ReportsInv, SettleFile
<1>5. EventsExplain'
  <2>1. \A g \in Files : files'[g] = "failed" => files[g] = "failed"
    BY DEF ReportsInv, RowsTyped, SettleFile
  <2>2. stage' = "processing_failed" => \E g \in Files : files[g] = "failed"
    BY DEF ReportsInv, RowsTyped, SettleFile
  <2>3. stage' # "changes_requested"
    BY <1>0 DEF ReportsInv, RowsTyped
  <2>4. UNCHANGED <<events, submittedAt>>
    BY DEF SettleFile
  <2> QED BY <2>1, <2>2, <2>3, <2>4 DEF ReportsInv, EventsExplain
<1>6. DecisionStands'
  BY <1>0, <1>2, DecisionKept DEF ReportsInv, SettleFile, Decided, RowsTyped
<1> QED BY <1>1, <1>3, <1>4, <1>5, <1>6 DEF ReportsInv

LEMMA FailStep ==
  ASSUME ReportsAssumption, ReportsInv, NEW f \in Files, FailFile(f)
  PROVE  ReportsInv'
<1>1. PICK e : e = [action |-> "processing_failed", by |-> None, issues |-> {}, files |-> {f}]
  OBVIOUS
<1>2. e \in Event /\ e.action = "processing_failed" /\ e.issues \cup e.files = {f}
  BY <1>1 DEF Event, Actions
<1>3. events' = Append(events, e) /\ Len(events) < MaxEvents
  BY <1>1 DEF FailFile, Record, ReportsRoom
<1>4. Kept /\ Len(events') = Len(events) + 1 /\ events'[Len(events)+1] = e /\ events' # <<>>
  BY <1>2, <1>3, RecordKeeps DEF ReportsInv, RowsTyped, FailFile
<1>5. RowsTyped'
  BY <1>3, <1>4 DEF ReportsInv, RowsTyped, FailFile, Stages, Kept, ReportsAssumption
<1>6. HandlersTyped'
  BY <1>4, HandlersRest DEF ReportsInv, FailFile, Kept
<1>7. PointsAtFiles'
  BY <1>2, <1>4, PointsAdded DEF ReportsInv, RowsTyped, FailFile
<1>8. EventsExplain'
  <2>1. Len(events)+1 \in 1..Len(events') /\ events'[Len(events)+1].action = "processing_failed"
    BY <1>2, <1>4 DEF Kept
  <2>2. stage' = "processing_failed" /\ UNCHANGED submittedAt
    BY DEF FailFile
  <2>3. ASSUME NEW n \in 1..Len(events'), events'[n].action = "submitted"
        PROVE  n \in 1..Len(events) /\ events[n].action = "submitted"
    BY <1>2, <1>4, <2>3 DEF Kept
  <2> QED BY <2>1, <2>2, <2>3 DEF ReportsInv, EventsExplain
<1>9. DecisionStands'
  BY <1>4, DecisionKept DEF ReportsInv, FailFile, Decided
<1> QED BY <1>5, <1>6, <1>7, <1>8, <1>9 DEF ReportsInv

LEMMA DirectStep ==
  ASSUME ReportsAssumption, ReportsInv, NEW p \in Api, NEW f \in Files, DirectFile(p, f)
  PROVE  ReportsInv'
<1>1. PICK e : e = [action |-> "metadata_updated", by |-> p, issues |-> {}, files |-> {f}]
  OBVIOUS
<1>2. e \in Event /\ e.action = "metadata_updated" /\ e.issues \cup e.files = {f}
  BY <1>1 DEF Event, Actions
<1>3. events' = Append(events, e) /\ Len(events) < MaxEvents
  BY <1>1 DEF DirectFile, Record, ReportsRoom
<1>4. Kept /\ Len(events') = Len(events) + 1 /\ events'[Len(events)+1] = e /\ events' # <<>>
  BY <1>2, <1>3, RecordKeeps DEF ReportsInv, RowsTyped, DirectFile
<1>5. RowsTyped'
  BY <1>3, <1>4 DEF ReportsInv, RowsTyped, DirectFile, Stages, Kept, ReportsAssumption
<1>6. HandlersTyped'
  BY <1>4, HandlersRest DEF ReportsInv, DirectFile, Kept
<1>7. PointsAtFiles'
  BY <1>2, <1>4, PointsAdded DEF ReportsInv, RowsTyped, DirectFile
<1>8. EventsExplain'
  <2>1. stage' = "processing" /\ UNCHANGED submittedAt
    BY DEF DirectFile
  <2>2. \A g \in Files : files'[g] = "failed" => files[g] = "failed"
    BY DEF ReportsInv, RowsTyped, DirectFile
  <2>3. \A n \in 1..Len(events) : n \in 1..Len(events') /\ events'[n] = events[n]
    BY <1>4 DEF Kept
  <2>4. ASSUME NEW n \in 1..Len(events'), events'[n].action = "submitted"
        PROVE  n \in 1..Len(events) /\ events[n].action = "submitted"
    BY <1>2, <1>4, <2>4 DEF Kept
  <2> QED BY <2>1, <2>2, <2>3, <2>4 DEF ReportsInv, EventsExplain
<1>9. DecisionStands'
  BY <1>4, DecisionKept DEF ReportsInv, DirectFile, Decided
<1> QED BY <1>5, <1>6, <1>7, <1>8, <1>9 DEF ReportsInv

LEMMA ReprocessStep ==
  ASSUME ReportsAssumption, ReportsInv, NEW p \in Api, ReprocessFiles(p)
  PROVE  ReportsInv'
<1>0. PICK some : some = {f \in Files : files[f] \in {"completed", "processing"}}
  OBVIOUS
<1>1. PICK e : e = [action |-> "reprocessed", by |-> p, issues |-> {}, files |-> some]
  OBVIOUS
<1>2. e \in Event /\ e.action = "reprocessed" /\ e.issues \cup e.files = some
  BY <1>0, <1>1 DEF Event, Actions
<1>3. events' = Append(events, e) /\ Len(events) < MaxEvents
  BY <1>0, <1>1 DEF ReprocessFiles, Record, ReportsRoom
<1>4. /\ files' = [f \in Files |-> IF f \in some THEN "processing" ELSE files[f]]
      /\ stage' = "processing" /\ target' \in {"ready_for_submission", "needs_review"}
      /\ UNCHANGED <<handler, staffFiles, submittedAt, reviewedAt, reviewedBy, crossed>>
  BY <1>0 DEF ReprocessFiles
<1>5. Kept /\ Len(events') = Len(events) + 1 /\ events'[Len(events)+1] = e /\ events' # <<>>
  BY <1>2, <1>3, <1>4, RecordKeeps DEF ReportsInv, RowsTyped
<1>6. RowsTyped'
  BY <1>3, <1>4, <1>5 DEF ReportsInv, RowsTyped, Stages, Kept, ReportsAssumption
<1>7. HandlersTyped'
  BY <1>4, <1>5, HandlersRest DEF ReportsInv, Kept
<1>8. PointsAtFiles'
  BY <1>0, <1>2, <1>4, <1>5, PointsAdded DEF ReportsInv, RowsTyped
<1>9. EventsExplain'
  <2>1. \A f \in Files : files'[f] = "failed" => files[f] = "failed"
    BY <1>4
  <2>2. \A n \in 1..Len(events) : n \in 1..Len(events') /\ events'[n] = events[n]
    BY <1>5 DEF Kept
  <2>3. ASSUME NEW n \in 1..Len(events'), events'[n].action = "submitted"
        PROVE  n \in 1..Len(events) /\ events[n].action = "submitted"
    BY <1>2, <1>5, <2>3 DEF Kept
  <2> QED BY <1>4, <2>1, <2>2, <2>3 DEF ReportsInv, EventsExplain
<1>10. DecisionStands'
  BY <1>4, <1>5, DecisionKept DEF ReportsInv, Decided
<1> QED BY <1>6, <1>7, <1>8, <1>9, <1>10 DEF ReportsInv

LEMMA SubmissionBeginStep ==
  ASSUME ReportsAssumption, ReportsInv, NEW p \in Api, SubmissionBegin(p)
  PROVE  ReportsInv'
<1>1. PICK h : h = [at |-> "submission", now |-> Len(events)]
  OBVIOUS
<1>2. Kept /\ UNCHANGED reportVars
  BY QuietKeeps DEF ReportsInv, SubmissionBegin, reportVars
<1>3. Suspend(p, h) /\ h.at = "submission" /\ Len(events) \in Nat
  BY <1>1, <1>2 DEF SubmissionBegin, Begin, Kept
<1>4. Awake(h)'
  BY <1>1, <1>2, <1>3 DEF Awake, reportVars
<1>5. /\ HandlersTyped'
      /\ \A q \in Api : handler'[q] = IF q = p THEN h ELSE handler[q]
  BY <1>2, <1>3, <1>4, HandlersMove DEF ReportsInv, Kept
<1>6. PointsAtFiles'
  BY <1>2, <1>3, <1>5, PointsStay DEF ReportsInv, reportVars
<1>7. RowsTyped' /\ EventsExplain' /\ DecisionStands'
  BY <1>2 DEF ReportsInv, reportVars, RowsTyped, EventsExplain, DecisionStands, Decided, StageOf
<1> QED BY <1>5, <1>6, <1>7 DEF ReportsInv

LEMMA DecisionBeginStep ==
  ASSUME ReportsAssumption, ReportsInv, NEW p \in Api, DecisionBegin(p)
  PROVE  ReportsInv'
<1>1. PICK action \in DecisionActions, raw \in {{}} \cup {{i} : i \in Raw} :
         Suspend(p, [at |-> "decision", action |-> action, issues |-> Normalized(raw),
                     now |-> Len(events)])
  BY DEF DecisionBegin, Begin
<1>2. PICK issues : issues = Normalized(raw)
  OBVIOUS
<1>3. issues \in SUBSET Issue /\ \A f \in issues \cap Files : files[f] # "none"
  BY <1>1, <1>2 DEF Normalized, Raw, Issue
<1>4. PICK h : h = [at |-> "decision", action |-> action, issues |-> issues,
                    now |-> Len(events)]
  OBVIOUS
<1>5. Kept /\ UNCHANGED reportVars
  BY QuietKeeps DEF ReportsInv, DecisionBegin, reportVars
<1>6. Suspend(p, h) /\ h.issues = issues /\ Len(events) \in Nat
  BY <1>1, <1>2, <1>4, <1>5 DEF Kept
<1>7. Awake(h)'
  <2>1. h \in [at: {"decision"}, action: DecisionActions, issues: SUBSET Issue,
               now: 0..Len(events')]
    BY <1>1, <1>3, <1>4, <1>5, <1>6 DEF reportVars
  <2> QED BY <2>1 DEF Awake
<1>8. /\ HandlersTyped'
      /\ \A q \in Api : handler'[q] = IF q = p THEN h ELSE handler[q]
  BY <1>5, <1>6, <1>7, HandlersMove DEF ReportsInv, Kept
<1>9. PointsAtFiles'
  BY <1>3, <1>5, <1>6, <1>8, PointsStay DEF ReportsInv, reportVars
<1>10. RowsTyped' /\ EventsExplain' /\ DecisionStands'
  BY <1>5 DEF ReportsInv, reportVars, RowsTyped, EventsExplain, DecisionStands, Decided, StageOf
<1> QED BY <1>8, <1>9, <1>10 DEF ReportsInv

LEMMA SubmissionSaveStep ==
  ASSUME ReportsAssumption, ReportsInv, NEW p \in Api, SubmissionSave(p)
  PROVE  ReportsInv'
<1>1. PICK e : e = [action |-> "submitted", by |-> None, issues |-> {}, files |-> {}]
  OBVIOUS
<1>2. e \in Event /\ e.action = "submitted" /\ e.issues \cup e.files = {}
  BY <1>1 DEF Event, Actions
<1>3. events' = Append(events, e) /\ Len(events) < MaxEvents
  BY <1>1 DEF SubmissionSave, Record, ReportsRoom
<1>4. Kept /\ Len(events') = Len(events) + 1 /\ events'[Len(events)+1] = e /\ events' # <<>>
  BY <1>2, <1>3, RecordKeeps DEF ReportsInv, RowsTyped, SubmissionSave
<1>5. submittedAt' \in 0..Len(events)
  <2>1. Awake(handler[p]) /\ handler[p].at = "submission" /\ submittedAt' = handler[p].now
    BY DEF ReportsInv, HandlersTyped, SubmissionSave, At
  <2> QED BY <2>1 DEF Awake, Idle
<1>6. RowsTyped'
  <2>1. crossed' \in BOOLEAN
    BY Zenon DEF SubmissionSave
  <2> QED BY <1>3, <1>4, <1>5, <2>1
          DEF ReportsInv, RowsTyped, SubmissionSave, Stages, Kept, ReportsAssumption
<1>7. Suspend(p, Idle) /\ Idle.at = "idle"
  BY DEF SubmissionSave, Finish, Idle
<1>8. /\ HandlersTyped'
      /\ \A q \in Api : handler'[q] = IF q = p THEN Idle ELSE handler[q]
  <2>1. PICK h : h = Idle
    OBVIOUS
  <2>2. Awake(h)'
    BY <2>1 DEF Awake
  <2> QED BY <1>4, <1>7, <2>1, <2>2, HandlersMove DEF ReportsInv, Kept
<1>9. PointsAtFiles'
  BY <1>2, <1>4, <1>7, <1>8, PointsAdded DEF ReportsInv
<1>10. EventsExplain'
  <2>1. submittedAt' # None
    BY <1>5 DEF ReportsAssumption
  <2> QED BY <2>1, <1>2, <1>4 DEF ReportsInv, RowsTyped, EventsExplain, SubmissionSave, Kept
<1>11. DecisionStands'
  BY DEF SubmissionSave, DecisionStands, Decided
<1> QED BY <1>6, <1>8, <1>9, <1>10, <1>11 DEF ReportsInv

LEMMA DecisionSaveStep ==
  ASSUME ReportsAssumption, ReportsInv, NEW p \in Api, DecisionSave(p)
  PROVE  ReportsInv'
<1>0. PICK h : h = handler[p]
  OBVIOUS
<1>1. /\ h.action \in DecisionActions /\ h.issues \in SUBSET Issue /\ h.now \in 0..Len(events)
      /\ \A f \in h.issues \cap Files : files[f] # "none"
  <2>1. Awake(h) /\ h.at = "decision"
    BY <1>0 DEF ReportsInv, HandlersTyped, DecisionSave, At
  <2>2. h \in [at: {"decision"}, action: DecisionActions, issues: SUBSET Issue,
               now: 0..Len(events)]
    BY <2>1 DEF Awake, Idle
  <2> QED BY <1>0, <2>1, <2>2 DEF ReportsInv, PointsAtFiles
<1>2. PICK e : e = [action |-> h.action, by |-> p, issues |-> h.issues, files |-> {}]
  OBVIOUS
<1>3. /\ e \in Event /\ e.action = h.action /\ e.by = p
      /\ e.issues \cup e.files = h.issues
  BY <1>1, <1>2 DEF Event, Actions
<1>4. /\ events' = Append(events, e) /\ Len(events) < MaxEvents
      /\ stage' = StageOf(h.action) /\ reviewedAt' = h.now /\ reviewedBy' = p
      /\ UNCHANGED <<files, staffFiles, target, submittedAt>>
      /\ ~crossed' => h.now = Len(events)
  BY <1>0, <1>2 DEF DecisionSave, Record, ReportsRoom
<1>5. Kept /\ Len(events') = Len(events) + 1 /\ events'[Len(events)+1] = e /\ events' # <<>>
  BY <1>3, <1>4, RecordKeeps DEF ReportsInv, RowsTyped
<1>6. stage' \in {"approved", "rejected", "changes_requested"}
  BY <1>1, <1>4 DEF StageOf, DecisionActions
<1>7. RowsTyped'
  <2>1. crossed' \in BOOLEAN
    BY Zenon DEF DecisionSave
  <2> QED BY <1>1, <1>4, <1>5, <1>6, <2>1
          DEF ReportsInv, RowsTyped, Stages, Kept, ReportsAssumption
<1>8. Suspend(p, Idle) /\ Idle.at = "idle"
  BY DEF DecisionSave, Finish, Idle
<1>9. /\ HandlersTyped'
      /\ \A q \in Api : handler'[q] = IF q = p THEN Idle ELSE handler[q]
  <2>1. PICK g : g = Idle
    OBVIOUS
  <2>2. Awake(g)'
    BY <2>1 DEF Awake
  <2> QED BY <1>5, <1>8, <2>1, <2>2, HandlersMove DEF ReportsInv, Kept
<1>10. PointsAtFiles'
  BY <1>1, <1>3, <1>4, <1>5, <1>8, <1>9, PointsAdded DEF ReportsInv
<1>11. EventsExplain'
  <2>1. stage' = "changes_requested" => h.action = "request_changes"
    BY <1>1, <1>4 DEF StageOf, DecisionActions
  <2> QED BY <2>1, <1>1, <1>3, <1>4, <1>5, <1>6
          DEF ReportsInv, RowsTyped, EventsExplain, Kept, DecisionActions
<1>12. DecisionStands'
  <2>1. Len(events') \in 1..Len(events') /\ Len(events') > reviewedAt' /\ reviewedAt' \in Nat
    BY <1>1, <1>4, <1>5 DEF Kept
  <2>2. /\ events'[Len(events')].action \in DecisionActions
        /\ StageOf(events'[Len(events')].action) = stage'
        /\ events'[Len(events')].by = reviewedBy'
    BY <1>1, <1>3, <1>4, <1>5
  <2>3. ~crossed' /\ submittedAt' # None => reviewedAt' >= submittedAt'
    BY <1>1, <1>4 DEF ReportsInv, RowsTyped
  <2> QED BY <1>4, <2>1, <2>2, <2>3 DEF DecisionStands
<1> QED BY <1>7, <1>9, <1>10, <1>11, <1>12 DEF ReportsInv

LEMMA ReportsStep ==
  ASSUME ReportsAssumption, ReportsInv, [ReportsNext]_<<reportVars, handler>>
  PROVE  ReportsInv'
<1>1. CASE UNCHANGED <<reportVars, handler>>
  BY <1>1 DEF ReportsInv, RowsTyped, HandlersTyped, Awake, PointsAtFiles, EventsExplain,
              DecisionStands, Decided, StageOf, reportVars
<1>2. CASE ReportsNext
  BY <1>2, CompleteStep, DirectStep, ReprocessStep, SubmissionBeginStep, SubmissionSaveStep,
     DecisionBeginStep, DecisionSaveStep, SettleStep, FailStep DEF ReportsNext
<1> QED BY <1>1, <1>2

LEMMA ReportsStart ==
  ASSUME ReportsAssumption, HandlersIdle, ReportsInit
  PROVE  ReportsInv
<1>1. RowsTyped
  <2>1. <<>> \in Seq(Event) /\ Len(<<>>) = 0
    OBVIOUS
  <2>2. events = <<>> /\ crossed \in BOOLEAN
    BY Zenon DEF ReportsInit
  <2> QED BY <2>1, <2>2 DEF ReportsAssumption, ReportsInit, RowsTyped, Stages
<1>2. HandlersTyped
  BY DEF HandlersIdle, HandlersTyped, Awake
<1>3. PointsAtFiles
  <2>1. \A p \in Api : handler[p].at = "idle"
    BY DEF HandlersIdle, Idle
  <2> QED BY <2>1 DEF ReportsInit, PointsAtFiles
<1>4. EventsExplain
  BY DEF ReportsInit, EventsExplain
<1>5. DecisionStands
  BY DEF ReportsInit, DecisionStands, Decided
<1> QED BY <1>1, <1>2, <1>3, <1>4, <1>5 DEF ReportsInv

LEMMA ReportsInvariant == ReportsSpec => []ReportsInv
<1>1. HandlersIdle /\ ReportsInit => ReportsInv
  BY ReportsStart, ReportsAssumption
<1>2. ReportsInv /\ [ReportsNext]_<<reportVars, handler>> => ReportsInv'
  BY ReportsStep, ReportsAssumption
<1> QED BY <1>1, <1>2, PTL DEF ReportsSpec

-----------------------------------------------------------------------------
(* What follows for the reports.                                           *)

LEMMA LeastNatural ==
  ASSUME NEW S, S \subseteq Nat, S # {}
  PROVE  \E least \in S : \A n \in S : least <= n
<1>1. PICK least \in S : \A n \in S : <<n, least>> \notin OpToRel(<, Nat)
  BY WFMin, NatLessThanWellFounded
<1>2. \A n \in S : ~(n < least)
  BY <1>1 DEF OpToRel
<1>3. \A n \in S : least <= n
  BY <1>2
<1> QED BY <1>3

LEMMA GreatestNatural ==
  ASSUME NEW S, NEW N \in Nat, S \subseteq 1..N, S # {}
  PROVE  \E greatest \in S : \A n \in S : n <= greatest
<1> DEFINE T == {N - n : n \in S}
<1>1. T \subseteq Nat /\ T # {}
  <2>1. \A n \in S : N - n \in Nat
    OBVIOUS
  <2> QED BY <2>1
<1>2. PICK least \in T : \A m \in T : least <= m
  BY <1>1, LeastNatural
<1>3. PICK greatest \in S : least = N - greatest
  OBVIOUS
<1>4. \A n \in S : N - greatest <= N - n
  BY <1>2, <1>3
<1> QED BY <1>4

\* Latest finds the last of the events of some kinds.
LEMMA LatestIs ==
  ASSUME events \in Seq(Event), NEW actions, NEW n \in 1..Len(events),
         events[n].action \in actions
  PROVE  /\ Latest(actions) \in 1..Len(events) /\ Latest(actions) >= n
         /\ events[Latest(actions)].action \in actions
<1> DEFINE at == {m \in 1..Len(events) : events[m].action \in actions}
<1>1. n \in at /\ at \subseteq 1..Len(events) /\ Len(events) \in Nat
  OBVIOUS
<1>2. \E m \in at : \A k \in at : k <= m
  BY <1>1, GreatestNatural
<1>3. Latest(actions) = CHOOSE m \in at : \A k \in at : k <= m
  BY <1>1 DEF Latest
<1>4. Latest(actions) \in at /\ \A k \in at : k <= Latest(actions)
  BY <1>2, <1>3
<1> QED BY <1>1, <1>4

LEMMA LatestIsOne ==
  ASSUME events \in Seq(Event), NEW actions, Latest(actions) # 0
  PROVE  Latest(actions) \in 1..Len(events) /\ events[Latest(actions)].action \in actions
<1> DEFINE at == {m \in 1..Len(events) : events[m].action \in actions}
<1>1. PICK n \in 1..Len(events) : events[n].action \in actions
  BY DEF Latest
<1> QED BY <1>1, LatestIs

\* A request for changes or a failure that is the latest event opens its issues.
LEMMA IssuesOpen ==
  ASSUME ReportsAssumption, ReportsInv, events # <<>>,
         LatestAction \in {"request_changes", "processing_failed"}
  PROVE  Resolutions # {} /\ \A r \in Resolutions : r.status = "open"
<1>1. events \in Seq(Event) /\ Len(events) \in 1..Len(events)
  BY DEF ReportsInv, RowsTyped
<1>2. ActionableFeedback = Len(events)
  BY <1>1, LatestIs DEF ActionableFeedback, LatestAction
<1>3. ContributorFeedback = Len(events)
  BY <1>1, LatestIs DEF ContributorFeedback, LatestAction
<1>4. ~Resubmitted
  BY <1>1, <1>2 DEF Resubmitted, LaterSubmissions
<1>5. ShownIssues(ActionableFeedback) # {}
  BY DEF ShownIssues
<1>6. Resolutions = {[issue |-> i, status |-> "open"] : i \in ShownIssues(ActionableFeedback)}
  BY <1>1, <1>2, <1>3, <1>4 DEF Resolutions, LatestAction
<1>7. \A r \in Resolutions : r.status = "open"
  BY <1>6
<1>8. Resolutions # {}
  <2>1. PICK i : i \in ShownIssues(ActionableFeedback)
    BY <1>5
  <2>2. [issue |-> i, status |-> "open"] \in Resolutions
    BY <1>6, <2>1
  <2> QED BY <2>2
<1> QED BY <1>7, <1>8

\* A submission that is the latest event of one in review closes them.
LEMMA IssuesClose ==
  ASSUME ReportsAssumption, ReportsInv, events # <<>>,
         stage = "needs_review", LatestAction = "submitted"
  PROVE  /\ Phase = "awaiting_staff" /\ LastResubmitted # None /\ ActionItems = {}
         /\ \A r \in Resolutions : r.status = "resubmitted"
<1>1. events \in Seq(Event) /\ Len(events) \in 1..Len(events)
  BY DEF ReportsInv, RowsTyped
<1>2. LastResubmitted # None /\ (ActionableFeedback # 0 => Resubmitted)
  <2>1. CASE ActionableFeedback = 0
    BY <1>1, <2>1 DEF LastResubmitted, ReportsInv, EventsExplain, LatestAction
  <2>2. CASE ActionableFeedback # 0
    <3>1. /\ ActionableFeedback \in 1..Len(events)
          /\ events[ActionableFeedback].action \in {"request_changes", "processing_failed"}
      BY <1>1, <2>2, LatestIsOne DEF ActionableFeedback
    <3>2. Len(events) \in LaterSubmissions
      BY <1>1, <3>1 DEF LaterSubmissions, LatestAction
    <3>3. LaterSubmissions \subseteq Nat
      BY DEF LaterSubmissions
    <3>4. \E n \in LaterSubmissions : \A m \in LaterSubmissions : n <= m
      BY <3>2, <3>3, LeastNatural
    <3>5. LastResubmitted \in LaterSubmissions
      BY <2>2, <3>2, <3>4 DEF LastResubmitted, Resubmitted
    <3> QED BY <3>2, <3>3, <3>5 DEF Resubmitted, ReportsAssumption
  <2> QED BY <2>1, <2>2
<1>3. ~AwaitsContributor
  BY DEF AwaitsContributor
<1>4. Phase = "awaiting_staff"
  BY <1>2, <1>3 DEF Phase
<1>5. \A r \in Resolutions : r.status = "resubmitted"
  BY <1>2, <1>3 DEF Resolutions
<1> QED BY <1>2, <1>3, <1>4, <1>5 DEF ActionItems

\* Issues are open from the feedback that raises them to the next submission, and
\* no longer (buildContributorIssueResolutions, mapContributorReviewPhase).
THEOREM IssuesAreFollowed == ReportsSpec => []IssuesFollowEvents
<1>1. ReportsInv => IssuesFollowEvents
  BY IssuesOpen, IssuesClose, ReportsAssumption DEF IssuesFollowEvents
<1> QED BY <1>1, ReportsInvariant, PTL

-----------------------------------------------------------------------------
(* Turnaround.                                                             *)

LEMMA Credited ==
  ASSUME ReportsAssumption, ReportsInv, Counted
  PROVE  TurnaroundSound
<1>0. Decided /\ submittedAt # None /\ Len(events) \in Nat
  BY DEF Counted, ReportsInv, RowsTyped
<1>1. PICK n \in 1..Len(events) :
         /\ n > reviewedAt /\ events[n].action \in DecisionActions
         /\ StageOf(events[n].action) = stage /\ events[n].by = reviewedBy
  BY <1>0 DEF ReportsInv, DecisionStands
<1>2. /\ reviewedBy \in Api /\ reviewedAt \in Nat
      /\ ~crossed => reviewedAt >= submittedAt
  BY <1>0 DEF ReportsInv, DecisionStands
<1>3. \E action \in DecisionActions :
        StageOf(action) = stage /\ reviewedBy # None /\ DecisionCount(reviewedBy, action) > 0
  <2> DEFINE action == events[n].action
             found == {m \in 1..Len(events) : events[m].action = action /\ events[m].by = reviewedBy}
  <2>1. n \in found /\ found \subseteq 1..Len(events)
    BY <1>1
  <2>2. IsFiniteSet(found)
    <3>1. IsFiniteSet(1..Len(events))
      BY <1>0, FS_Interval
    <3> QED BY <2>1, <3>1, FS_Subset
  <2>3. Cardinality(found) \in Nat /\ Cardinality(found) # 0
    BY <2>1, <2>2, FS_CardinalityType, FS_EmptySet
  <2>4. DecisionCount(reviewedBy, action) > 0
    BY <2>3 DEF DecisionCount
  <2> QED BY <1>1, <1>2, <2>4 DEF ReportsAssumption
<1>4. ASSUME NEW since \in 0..MaxEvents, NEW status \in {"approved", "rejected"},
             SummaryCounts(status, since)
      PROVE  History([NoQuery EXCEPT !.action = status, !.from = since + 1]) # {}
  <2>1. PICK query : query = [NoQuery EXCEPT !.action = status, !.from = since + 1]
    OBVIOUS
  <2>2. /\ query.action = status /\ query.from = since + 1
        /\ query.kind = None /\ query.issue = None /\ query.to = None
    BY <2>1 DEF NoQuery
  <2>3. stage = status /\ reviewedAt >= since
    BY <1>4 DEF SummaryCounts
  <2>4. events[n].action = status
    BY <1>1, <2>3 DEF StageOf, DecisionActions
  <2>5. n >= since + 1
    BY <1>1, <1>2, <2>3
  <2>6. n \in History(query)
    BY <1>1, <2>2, <2>4, <2>5 DEF History
  <2> QED BY <2>1, <2>6
<1> QED BY <1>2, <1>3, <1>4 DEF TurnaroundSound

\* The turnaround of a decided submission is credited to the reviewer of a decision
\* that the history has, and is not negative unless a step was overtaken
\* (getReviewAnalytics, getReviewSummary).
THEOREM TurnaroundCredited == ReportsSpec => []TurnaroundSound
<1>1. ReportsInv => TurnaroundSound
  <2>1. ~Counted => TurnaroundSound
    BY DEF TurnaroundSound
  <2> QED BY <2>1, Credited, ReportsAssumption
<1> QED BY <1>1, ReportsInvariant, PTL

-----------------------------------------------------------------------------
(* Feedback.                                                               *)

\* A contributor who is asked to act has an event that asks.
LEMMA SomethingAsked ==
  ASSUME ReportsAssumption, ReportsInv, AwaitsContributor
  PROVE  /\ ContributorFeedback \in 1..Len(events)
         /\ stage = "changes_requested" =>
              ContributorFeedback = Len(events) /\ events[Len(events)].action = "request_changes"
<1> DEFINE kinds == {"request_changes", "rejected", "processing_failed"}
<1>1. events \in Seq(Event)
  BY DEF ReportsInv, RowsTyped
<1>2. CASE stage = "changes_requested"
  <2>1. Len(events) \in 1..Len(events) /\ events[Len(events)].action = "request_changes"
    BY <1>1, <1>2 DEF ReportsInv, EventsExplain
  <2>2. Latest(kinds) \in 1..Len(events) /\ Latest(kinds) >= Len(events)
    BY <1>1, <2>1, LatestIs
  <2> QED BY <1>1, <2>1, <2>2 DEF ContributorFeedback
<1>3. CASE stage = "processing_failed"
  <2>1. PICK n \in 1..Len(events) : events[n].action = "processing_failed"
    BY <1>3 DEF ReportsInv, EventsExplain
  <2>2. Latest(kinds) \in 1..Len(events)
    BY <1>1, <2>1, LatestIs
  <2> QED BY <1>3, <2>2 DEF ContributorFeedback
<1> QED BY <1>2, <1>3 DEF AwaitsContributor

\* What an event says concerns the submission or files that are there, at which
\* it points.
LEMMA IssuesArePlaced ==
  ASSUME ReportsAssumption, ReportsInv, NEW n \in 1..Len(events), NEW i \in ShownIssues(n)
  PROVE  /\ i \in Issue
         /\ i \in Files => files[i] # "none" /\ i \in Targets(events[n])
<1>1. events[n] \in Event
  BY DEF ReportsInv, RowsTyped
<1>2. /\ events[n].issues \subseteq Issue /\ events[n].files \subseteq Files
      /\ \A f \in Files : f \in events[n].issues \cup events[n].files => files[f] # "none"
  BY <1>1 DEF Event, ReportsInv, PointsAtFiles
<1>3. CASE IssuesOf(events[n]) = {}
  BY <1>3 DEF ShownIssues, Issue, ReportsAssumption
<1>4. CASE i \in IssuesOf(events[n])
  <2>1. CASE events[n].issues # {}
    BY <1>2, <1>4, <2>1 DEF IssuesOf, Targets
  <2>2. CASE events[n].issues = {}
    BY <1>2, <1>4, <2>2 DEF IssuesOf, Targets, Issue
  <2> QED BY <2>1, <2>2
<1> QED BY <1>3, <1>4 DEF ShownIssues

\* The history of the feedback since a request for changes that is the latest
\* event is this one request, on the first page.
LEMMA FoundInHistory ==
  ASSUME ReportsAssumption, ReportsInv, events # <<>>,
         events[Len(events)].action = "request_changes"
  PROVE  \E page \in 1..MaxEvents :
           Len(events) \in ToSet(HistoryPage([NoQuery EXCEPT !.kind = "feedback",
                                                             !.from = Len(events)], page, 1))
<1>1. PICK n : n = Len(events)
  OBVIOUS
<1>2. n \in 1..Len(events) /\ n \in Nat /\ 1 \in 1..MaxEvents
  BY <1>1 DEF ReportsInv, RowsTyped, ReportsAssumption
<1>3. PICK query : query = [NoQuery EXCEPT !.kind = "feedback", !.from = n]
  OBVIOUS
<1>4. /\ query.action = None /\ query.kind = "feedback" /\ query.issue = None
      /\ query.from = n /\ query.to = None
  BY <1>3 DEF NoQuery
<1>5. History(query) = {n}
  <2>1. Kind(events[n].action) = "feedback"
    BY <1>1 DEF Kind
  <2>2. \A m \in 1..Len(events) : m >= n => m = n
    BY <1>1, <1>2
  <2> QED BY <1>2, <1>4, <2>1, <2>2 DEF History, ReportsAssumption
<1>6. IsFiniteSet({n}) /\ Cardinality({n}) = 1 /\ Cardinality({}) = 0
  BY FS_Singleton, FS_EmptySet
<1>7. Ascending({n})[1] = n
  <2>1. {m \in {n} : m < n} = {}
    BY <1>2
  <2>2. Cardinality({m \in {n} : m < n}) = 0
    BY <1>6, <2>1, Zenon
  <2>3. 1 = Cardinality({m \in {n} : m < n}) + 1
    BY <2>2
  <2> QED BY <1>2, <1>6, <2>3, AscendingAt
<1>8. PICK s : s = Ascending({n})
  OBVIOUS
<1>9. HistoryPage(query, 1, 1) = SubSeq(s, 1, 1)
  BY <1>5, <1>6, <1>8 DEF HistoryPage
<1>10. s[1] \in ToSet(SubSeq(s, 1, 1))
  <2>1. 1 \in Int /\ 1 \in 1..1
    OBVIOUS
  <2> QED BY <2>1, PageHas
<1>11. n \in ToSet(HistoryPage(query, 1, 1))
  BY <1>7, <1>8, <1>9, <1>10
<1> QED BY <1>1, <1>2, <1>3, <1>11

LEMMA ToldWhatToDo ==
  ASSUME ReportsAssumption, ReportsInv, AwaitsContributor
  PROVE  FeedbackExplains
<1>1. /\ ContributorFeedback \in 1..Len(events)
      /\ stage = "changes_requested" =>
           ContributorFeedback = Len(events) /\ events[Len(events)].action = "request_changes"
  BY SomethingAsked
<1>2. PICK n : n = ContributorFeedback
  OBVIOUS
<1>3. n \in 1..Len(events) /\ n # 0 /\ events # <<>>
  BY <1>1, <1>2 DEF ReportsInv, RowsTyped
<1>4. ActionItems = {[event |-> n, issue |-> i] : i \in ShownIssues(n)}
  BY <1>2, <1>3 DEF ActionItems
<1>5. ActionItems # {}
  <2>1. PICK i : i \in ShownIssues(n)
    BY DEF ShownIssues
  <2>2. [event |-> n, issue |-> i] \in ActionItems
    BY <1>4, <2>1
  <2> QED BY <2>2
<1>6. ASSUME NEW item \in ActionItems
      PROVE  /\ item.event = n /\ item.issue \in Issue
             /\ item.issue \in Files =>
                  files[item.issue] # "none" /\ item.issue \in Targets(events[item.event])
  <2>1. PICK i \in ShownIssues(n) : item = [event |-> n, issue |-> i]
    BY <1>4
  <2>2. item.event = n /\ item.issue = i
    BY <2>1
  <2> QED BY <1>3, <2>2, IssuesArePlaced
<1>7. stage = "changes_requested" =>
        \E page \in 1..MaxEvents :
          n \in ToSet(HistoryPage([NoQuery EXCEPT !.kind = "feedback", !.from = n], page, 1))
  BY <1>1, <1>2, <1>3, FoundInHistory
<1>8. \A item \in ActionItems : stage = "changes_requested" =>
        /\ events[item.event].action = "request_changes"
        /\ \E page \in 1..MaxEvents :
             item.event \in ToSet(HistoryPage([NoQuery EXCEPT !.kind = "feedback",
                                                              !.from = item.event], page, 1))
  BY <1>1, <1>2, <1>6, <1>7
<1> QED BY <1>5, <1>6, <1>8 DEF FeedbackExplains

\* A contributor who is asked to act is told what to do, and staff find the event
\* behind it (buildContributorReviewActionItems, getReviewHistory).
THEOREM FeedbackIsExplained == ReportsSpec => []FeedbackExplains
<1>1. ReportsInv => FeedbackExplains
  <2>1. ~AwaitsContributor => FeedbackExplains
    BY DEF FeedbackExplains
  <2> QED BY <2>1, ToldWhatToDo, ReportsAssumption
<1> QED BY <1>1, ReportsInvariant, PTL

\* Every variable keeps its type.
THEOREM ReportsTyped == ReportsSpec => []ReportsTypeOK
<1>1. ReportsInv => ReportsTypeOK
  <2> SUFFICES ASSUME ReportsInv PROVE ReportsTypeOK
    OBVIOUS
  <2>1. Len(events) \in Nat /\ 0..Len(events) \subseteq 0..MaxEvents
    BY ReportsAssumption DEF ReportsInv, RowsTyped, ReportsAssumption
  <2>2. \A p \in Api : handler[p] \in ReportHandlers
    BY <2>1 DEF ReportsInv, HandlersTyped, Awake, ReportHandlers
  <2>3. \A n \in 1..Len(events) : events[n] \in Event
    BY DEF ReportsInv, RowsTyped
  <2>4. HandlersWithin(ReportHandlers)
    BY <2>2 DEF ReportsInv, HandlersTyped, HandlersWithin
  <2> QED BY <2>1, <2>3, <2>4 DEF ReportsInv, RowsTyped, ReportsTypeOK
<1> QED BY <1>1, ReportsInvariant, PTL

-----------------------------------------------------------------------------
(* The pages of the audit trail.                                           *)

\* How many rows come before those of this time.
Newer(t) == Cardinality({y \in trail : y[1] > t})

\* Rows of the first list of whose time none has been got.
Missing(first, got) == {x \in first : \A s \in got : s[1] # x[1]}

IsReader(h) ==
  /\ h = [at |-> h.at, page |-> h.page, todo |-> h.todo, total |-> h.total,
          rows |-> h.rows, seen |-> h.seen, first |-> h.first]
  /\ h.at \in {"audit_read", "audited"}
  /\ h.page \in Nat \ {0} /\ h.todo \in SUBSET {"count", "rows"} /\ h.total \in Nat

\* What a reader who goes on has still to find lies behind the pages read so far;
\* while there is any of it the total, once counted, calls for another page.
Ahead(h) ==
  /\ h.at = "audited" => Missing(h.first, h.seen) = {}
  /\ h.at = "audit_read" =>
       /\ h.first \subseteq trail
       /\ "rows" \in h.todo => \A x \in Missing(h.first, h.seen) : Newer(x[1]) >= Skipped(h.page)
       /\ h.todo = {"rows"} => h.total = Cardinality(trail)
       /\ "rows" \notin h.todo =>
            \A x \in Missing(h.first, h.seen \cup h.rows) :
              /\ Newer(x[1]) >= h.page * AuditSize
              /\ "count" \notin h.todo => h.total > h.page * AuditSize

AuditInv ==
  /\ listing \in {"events", "sessions"}
  /\ trail \subseteq Stamped /\ left \subseteq Stamped /\ torn \subseteq Api
  /\ handler = [p \in Api |-> handler[p]]
  /\ \A p \in Api : handler[p] = Idle \/ IsReader(handler[p])
  /\ \A p \in Api \ torn : handler[p] # Idle => Ahead(handler[p])

-----------------------------------------------------------------------------
LEMMA StampedFinite ==
  ASSUME AuditAssumption
  PROVE  IsFiniteSet(Stamped) /\ \A x \in Stamped : x[1] \in Nat
<1>1. IsFiniteSet(1..MaxAudit)
  BY FS_Interval DEF AuditAssumption
<1>2. IsFiniteSet((1..MaxAudit) \X Twins)
  BY <1>1, FS_Product DEF AuditAssumption
<1> QED BY <1>2 DEF Stamped

LEMMA TrailFinite ==
  ASSUME AuditAssumption, trail \subseteq Stamped
  PROVE  /\ IsFiniteSet(trail) /\ Cardinality(trail) \in Nat
         /\ \A x \in trail : x[1] \in Nat
<1> QED BY StampedFinite, FS_Subset, FS_CardinalityType

\* The rows newer than a row are not all.
LEMMA NewerIs ==
  ASSUME AuditAssumption, trail \subseteq Stamped, NEW x \in trail
  PROVE  Newer(x[1]) \in Nat /\ Newer(x[1]) < Cardinality(trail)
<1>1. IsFiniteSet(trail) /\ Cardinality(trail) \in Nat /\ x[1] \in Nat
  BY TrailFinite
<1>2. PICK above : above = {y \in trail : y[1] > x[1]}
  OBVIOUS
<1>3. above \in SUBSET trail /\ x \notin above
  BY <1>1, <1>2
<1>4. /\ IsFiniteSet(above) /\ Cardinality(above) \in Nat
      /\ Cardinality(above) <= Cardinality(trail) /\ Cardinality(above) # Cardinality(trail)
  BY <1>1, <1>3, FS_Subset, FS_CardinalityType
<1> QED BY <1>1, <1>2, <1>4 DEF Newer

\* New rows push the others back.
LEMMA NewerGrows ==
  ASSUME AuditAssumption, trail' \subseteq Stamped, trail \subseteq trail', NEW t
  PROVE  Newer(t) \in Nat /\ Newer(t)' \in Nat /\ Newer(t)' >= Newer(t)
<1>1. IsFiniteSet(trail')
  BY StampedFinite, FS_Subset
<1>2. {y \in trail : y[1] > t} \in SUBSET {y \in trail' : y[1] > t}
  OBVIOUS
<1>3. IsFiniteSet({y \in trail' : y[1] > t})
  <2>1. {y \in trail' : y[1] > t} \in SUBSET trail'
    OBVIOUS
  <2> QED BY <1>1, <2>1, FS_Subset
<1> QED BY <1>2, <1>3, FS_Subset, FS_CardinalityType DEF Newer

\* Of a row that the pages before did not bring, and that has no row of its time on
\* this page, the whole page is newer.
LEMMA PageIsNewer ==
  ASSUME AuditAssumption, trail \subseteq Stamped, NEW skip \in Nat,
         NEW earlier \in SUBSET trail, NEW rows \in SUBSET (trail \ earlier),
         NoneNewer(trail \ earlier, earlier), NoneNewer(trail \ (earlier \cup rows), rows),
         Cardinality(earlier) = skip \/ (Cardinality(earlier) < skip /\ earlier = trail),
         \/ Cardinality(rows) = AuditSize
         \/ Cardinality(rows) < AuditSize /\ earlier \cup rows = trail,
         NEW x \in trail, Newer(x[1]) >= skip, \A s \in rows : s[1] # x[1]
  PROVE  Newer(x[1]) >= skip + AuditSize
<1>1. IsFiniteSet(trail) /\ Cardinality(trail) \in Nat /\ \A y \in trail : y[1] \in Nat
  BY TrailFinite
<1>2. PICK above : above = {y \in trail : y[1] > x[1]}
  OBVIOUS
<1>3. Newer(x[1]) = Cardinality(above) /\ above \in SUBSET trail
  BY <1>2 DEF Newer
<1>4. /\ IsFiniteSet(above) /\ IsFiniteSet(earlier) /\ IsFiniteSet(rows)
      /\ IsFiniteSet(earlier \cup rows)
  <2>1. earlier \in SUBSET trail /\ rows \in SUBSET trail /\ earlier \cup rows \in SUBSET trail
    OBVIOUS
  <2> QED BY <1>1, <1>3, <2>1, FS_Subset
<1>5. /\ Cardinality(above) \in Nat /\ Cardinality(earlier) \in Nat
      /\ Cardinality(rows) \in Nat
  BY <1>4, FS_CardinalityType
<1>6. \A y \in earlier : y[1] > x[1]
  <2> SUFFICES ASSUME NEW y \in earlier, ~(y[1] > x[1]) PROVE FALSE
    OBVIOUS
  <2>1. above \in SUBSET earlier
    BY <1>1, <1>2 DEF NoneNewer
  <2>2. y \notin above
    BY <1>2
  <2>3. Cardinality(above) <= Cardinality(earlier) /\ Cardinality(above) # Cardinality(earlier)
    BY <1>4, <2>1, <2>2, FS_Subset
  <2> QED BY <1>3, <1>5, <2>3
<1>7. x \notin earlier /\ x \notin rows
  BY <1>1, <1>6
<1>8. Cardinality(earlier) = skip /\ Cardinality(rows) = AuditSize
  BY <1>7
<1>9. earlier \cup rows \in SUBSET above
  <2>1. \A y \in rows : y[1] > x[1]
    BY <1>1, <1>7 DEF NoneNewer
  <2> QED BY <1>2, <1>6, <2>1
<1>10. Cardinality(earlier \cup rows) = skip + AuditSize
  <2>1. earlier \cap rows = {}
    OBVIOUS
  <2>2. Cardinality(earlier \cap rows) = 0
    BY <2>1, FS_EmptySet
  <2>3. Cardinality(earlier \cup rows)
          = Cardinality(earlier) + Cardinality(rows) - Cardinality(earlier \cap rows)
    BY <1>4, FS_Union
  <2> QED BY <1>8, <2>2, <2>3 DEF AuditAssumption
<1>11. Cardinality(earlier \cup rows) <= Cardinality(above)
  BY <1>4, <1>9, FS_Subset
<1> QED BY <1>3, <1>10, <1>11

LEMMA SkippedIs ==
  ASSUME AuditAssumption, NEW page \in Nat \ {0}
  PROVE  /\ Skipped(page) \in Nat /\ Skipped(page) + AuditSize = page * AuditSize
         /\ Skipped(page + 1) = page * AuditSize /\ page * AuditSize \in Nat
<1>1. PICK n \in Nat : page = n + 1
  <2>1. page - 1 \in Nat /\ page = (page - 1) + 1
    OBVIOUS
  <2> QED BY <2>1
<1>2. (n + 1) * AuditSize = n * AuditSize + AuditSize /\ n * AuditSize \in Nat
  BY DEF AuditAssumption
<1>3. page - 1 = n /\ page + 1 - 1 = page
  BY <1>1
<1> QED BY <1>1, <1>2, <1>3 DEF Skipped, AuditAssumption

-----------------------------------------------------------------------------
LEMMA ReaderMoves ==
  ASSUME AuditInv, NEW p \in Api, NEW h, Suspend(p, h), h = Idle \/ IsReader(h)
  PROVE  /\ handler' = [q \in Api |-> handler'[q]]
         /\ \A q \in Api : handler'[q] = IF q = p THEN h ELSE handler[q]
         /\ \A q \in Api : handler'[q] = Idle \/ IsReader(handler'[q])
<1>1. /\ handler' = [q \in Api |-> handler'[q]]
      /\ \A q \in Api : handler'[q] = IF q = p THEN h ELSE handler[q]
  BY DEF AuditInv, Suspend
<1>2. \A q \in Api : handler[q] = Idle \/ IsReader(handler[q])
  BY DEF AuditInv
<1> HIDE DEF IsReader
<1> QED BY <1>1, <1>2

\* A step of a reader's own; the lists rest.
LEMMA OwnStep ==
  ASSUME AuditInv, NEW p \in Api, NEW h, Suspend(p, h), h = Idle \/ IsReader(h),
         UNCHANGED <<listing, trail, left>>, torn' = torn \/ torn' = torn \ {p},
         h # Idle => (p \notin torn' => Ahead(h))
  PROVE  AuditInv'
<1>1. /\ handler' = [q \in Api |-> handler'[q]]
      /\ \A q \in Api : handler'[q] = IF q = p THEN h ELSE handler[q]
      /\ \A q \in Api : handler'[q] = Idle \/ IsReader(handler'[q])
  BY ReaderMoves
<1>2. ASSUME NEW q \in Api \ torn', handler'[q] # Idle
      PROVE  Ahead(handler[q])' 
  <2>1. CASE q = p
    <3>1. Ahead(h)
      BY <1>1, <1>2, <2>1
    <3> QED BY <1>1, <2>1, <3>1 DEF Ahead, Newer, Missing
  <2>2. CASE q # p
    <3>1. Ahead(handler[q]) /\ handler'[q] = handler[q]
      BY <1>1, <1>2, <2>2 DEF AuditInv
    <3> QED BY <3>1 DEF Ahead, Newer, Missing
  <2> QED BY <2>1, <2>2
<1>3. /\ listing' \in {"events", "sessions"}
      /\ trail' \subseteq Stamped /\ left' \subseteq Stamped' /\ torn' \subseteq Api
  BY DEF AuditInv, Stamped
<1>4. Stamped' = Stamped
  BY DEF Stamped
<1> QED BY <1>1, <1>2, <1>3, <1>4 DEF AuditInv, IsReader

LEMMA RecordStep ==
  ASSUME AuditAssumption, AuditInv, NEW r \in Stamped, RecordEvent(r)
  PROVE  AuditInv'
<1>1. /\ trail' = trail \cup {r} /\ trail' \subseteq Stamped /\ UNCHANGED <<handler, listing, left>>
      /\ torn' = torn \cup {p \in Api : Reads(p) /\ handler[p].todo = {"rows"}}
  BY DEF RecordEvent, AuditInv
<1>2. ASSUME NEW q \in Api \ torn', handler'[q] # Idle
      PROVE  Ahead(handler[q])'
  <2>1. PICK h : h = handler[q]
    OBVIOUS
  <2>2. Ahead(h) /\ IsReader(h)
    BY <1>1, <1>2, <2>1 DEF AuditInv
  <2>3. h.at = "audit_read" => h.todo # {"rows"}
    BY <1>1, <1>2, <2>1 DEF Reads, At
  <2>4. \A t : Newer(t) \in Nat /\ Newer(t)' \in Nat /\ Newer(t)' >= Newer(t)
    BY <1>1, NewerGrows
  <2>5. Skipped(h.page) \in Nat /\ h.page * AuditSize \in Nat
    BY <2>2, SkippedIs DEF IsReader
  <2>6. CASE h.at = "audited"
    BY <1>1, <2>1, <2>2, <2>6 DEF Ahead
  <2>7. CASE h.at = "audit_read"
    <3>1. h.first \subseteq trail'
      BY <1>1, <2>2, <2>7 DEF Ahead
    <3>2. "rows" \in h.todo => \A x \in Missing(h.first, h.seen) : Newer(x[1])' >= Skipped(h.page)
      BY <2>2, <2>4, <2>5, <2>7 DEF Ahead
    <3>3. "rows" \notin h.todo =>
            \A x \in Missing(h.first, h.seen \cup h.rows) :
              /\ Newer(x[1])' >= h.page * AuditSize
              /\ "count" \notin h.todo => h.total > h.page * AuditSize
      BY <2>2, <2>4, <2>5, <2>7 DEF Ahead
    <3>4. Ahead(h)'
      BY <2>3, <2>7, <3>1, <3>2, <3>3 DEF Ahead, Newer, Missing, Skipped
    <3> QED BY <1>1, <2>1, <3>4 DEF Ahead, Newer, Missing, Skipped
  <2> QED BY <2>2, <2>6, <2>7 DEF IsReader
<1> QED BY <1>1, <1>2 DEF AuditInv, IsReader, Stamped

LEMMA EndStep ==
  ASSUME AuditAssumption, AuditInv, NEW r \in Stamped, EndSession(r)
  PROVE  AuditInv'
<1>1. /\ trail' = trail \ {r} /\ left' = left \cup {r} /\ UNCHANGED <<handler, listing>>
      /\ torn' = torn \cup {p \in Api : Reads(p)}
  BY DEF EndSession
<1>2. ASSUME NEW q \in Api \ torn', handler'[q] # Idle
      PROVE  Ahead(handler[q])'
  <2>1. Ahead(handler[q]) /\ handler[q].at = "audited"
    BY <1>1, <1>2 DEF AuditInv, Reads, At, IsReader
  <2> QED BY <1>1, <2>1 DEF Ahead, Missing
<1> QED BY <1>1, <1>2 DEF AuditInv, IsReader, Stamped

LEMMA AuditBeginStep ==
  ASSUME AuditAssumption, AuditInv, NEW p \in Api, AuditBegin(p)
  PROVE  AuditInv'
<1>1. PICK h : h = [at |-> "audit_read", page |-> 1, todo |-> {"count", "rows"}, total |-> 0,
                    rows |-> {}, seen |-> {}, first |-> trail]
  OBVIOUS
<1>2. /\ h.at = "audit_read" /\ h.page = 1 /\ h.todo = {"count", "rows"} /\ h.total = 0
      /\ h.rows = {} /\ h.seen = {} /\ h.first = trail
  BY <1>1
<1>3. IsReader(h)
  BY <1>1, <1>2 DEF IsReader
<1>4. Ahead(h)
  <2>1. \A x \in trail : Newer(x[1]) \in Nat
    BY NewerIs DEF AuditInv
  <2>2. Skipped(1) = 0
    BY DEF Skipped, AuditAssumption
  <2>3. \A x \in Missing(h.first, h.seen) : Newer(x[1]) >= Skipped(h.page)
    BY <1>2, <2>1, <2>2 DEF Missing
  <2>4. "rows" \in h.todo /\ h.todo # {"rows"} /\ h.at # "audited"
    BY <1>2
  <2>5. h.first \subseteq trail
    BY <1>2
  <2> QED BY <2>3, <2>4, <2>5 DEF Ahead
<1>5. /\ Suspend(p, h) /\ torn' = torn \ {p} /\ UNCHANGED <<listing, trail, left>>
  BY <1>1 DEF AuditBegin, Begin
<1> QED BY <1>3, <1>4, <1>5, OwnStep

LEMMA AuditCountStep ==
  ASSUME AuditAssumption, AuditInv, NEW p \in Api, AuditCount(p)
  PROVE  AuditInv'
<1>1. PICK g : g = handler[p]
  OBVIOUS
<1>2. IsReader(g) /\ g.at = "audit_read" /\ "count" \in g.todo
  BY <1>1 DEF AuditCount, Reads, At, AuditInv, Idle
<1>3. PICK h : h = [g EXCEPT !.todo = @ \ {"count"}, !.total = Cardinality(trail)]
  OBVIOUS
<1>4. Cardinality(trail) \in Nat /\ trail \subseteq Stamped
  BY TrailFinite DEF AuditInv
<1>5. /\ h.at = g.at /\ h.page = g.page /\ h.todo = g.todo \ {"count"}
      /\ h.total = Cardinality(trail) /\ h.rows = g.rows /\ h.seen = g.seen /\ h.first = g.first
      /\ h = [at |-> h.at, page |-> h.page, todo |-> h.todo, total |-> h.total,
              rows |-> h.rows, seen |-> h.seen, first |-> h.first]
  BY <1>2, <1>3 DEF IsReader
<1>6. IsReader(h)
  BY <1>2, <1>4, <1>5 DEF IsReader
<1>7. p \notin torn => Ahead(h)
  <2> SUFFICES ASSUME p \notin torn PROVE Ahead(h)
    OBVIOUS
  <2>1. Ahead(g)
    BY <1>1, <1>2 DEF AuditInv, Idle
  <2>2. g.page * AuditSize \in Nat
    BY <1>2, SkippedIs DEF IsReader
  <2>3. \A x \in trail : Newer(x[1]) \in Nat /\ Newer(x[1]) < Cardinality(trail)
    BY <1>4, NewerIs
  <2>4. \A x \in g.first : Newer(x[1]) >= g.page * AuditSize => h.total > g.page * AuditSize
    BY <1>2, <1>4, <1>5, <2>1, <2>2, <2>3 DEF Ahead
  <2> QED BY <1>2, <1>5, <2>1, <2>4 DEF Ahead, Missing
<1>8. Suspend(p, h) /\ UNCHANGED auditVars
  BY <1>1, <1>3 DEF AuditCount
<1> QED BY <1>6, <1>7, <1>8, OwnStep DEF auditVars

LEMMA AuditRowsStep ==
  ASSUME AuditAssumption, AuditInv, NEW p \in Api, AuditRows(p)
  PROVE  AuditInv'
<1>1. PICK g : g = handler[p]
  OBVIOUS
<1>2. IsReader(g) /\ g.at = "audit_read" /\ "rows" \in g.todo
  BY <1>1 DEF AuditRows, Reads, At, AuditInv, Idle
<1>3. PICK skip : skip = Skipped(g.page)
  OBVIOUS
<1>4. Cardinality(trail) \in Nat /\ trail \subseteq Stamped
  BY TrailFinite DEF AuditInv
<1>5. skip \in Nat /\ skip + AuditSize = g.page * AuditSize /\ g.page * AuditSize \in Nat
  BY <1>2, <1>3, SkippedIs DEF IsReader
<1>6. PICK earlier \in SUBSET trail : \E rows \in SUBSET (trail \ earlier) :
        /\ NoneNewer(trail \ earlier, earlier)
        /\ NoneNewer(trail \ (earlier \cup rows), rows)
        /\ Cardinality(earlier) = skip \/ (Cardinality(earlier) < skip /\ earlier = trail)
        /\ \/ Cardinality(rows) = AuditSize
           \/ Cardinality(rows) < AuditSize /\ earlier \cup rows = trail
        /\ Suspend(p, [g EXCEPT !.todo = @ \ {"rows"}, !.rows = rows])
  BY <1>1, <1>3 DEF AuditRows
<1>7. PICK rows \in SUBSET (trail \ earlier) :
        /\ NoneNewer(trail \ earlier, earlier)
        /\ NoneNewer(trail \ (earlier \cup rows), rows)
        /\ Cardinality(earlier) = skip \/ (Cardinality(earlier) < skip /\ earlier = trail)
        /\ \/ Cardinality(rows) = AuditSize
           \/ Cardinality(rows) < AuditSize /\ earlier \cup rows = trail
        /\ Suspend(p, [g EXCEPT !.todo = @ \ {"rows"}, !.rows = rows])
  BY <1>6
<1>9. PICK h : h = [g EXCEPT !.todo = @ \ {"rows"}, !.rows = rows]
  OBVIOUS
<1>10. /\ h.at = g.at /\ h.page = g.page /\ h.todo = g.todo \ {"rows"}
       /\ h.total = g.total /\ h.rows = rows /\ h.seen = g.seen /\ h.first = g.first
       /\ h = [at |-> h.at, page |-> h.page, todo |-> h.todo, total |-> h.total,
               rows |-> h.rows, seen |-> h.seen, first |-> h.first]
  BY <1>2, <1>9 DEF IsReader
<1>11. IsReader(h)
  BY <1>2, <1>10 DEF IsReader
<1>12. p \notin torn => Ahead(h)
  <2> SUFFICES ASSUME p \notin torn PROVE Ahead(h)
    OBVIOUS
  <2>0. Ahead(g)
    BY <1>1, <1>2 DEF AuditInv, Idle
  <2>1. Ahead(g) /\ g.first \subseteq trail
    BY <1>2, <2>0 DEF Ahead
  <2>2. ASSUME NEW x \in Missing(g.first, g.seen \cup rows)
        PROVE  /\ Newer(x[1]) >= g.page * AuditSize
               /\ Cardinality(trail) > g.page * AuditSize
    <3>1. x \in trail /\ x \in Missing(g.first, g.seen) /\ \A s \in rows : s[1] # x[1]
      BY <2>1 DEF Missing
    <3>2. /\ Newer(x[1]) \in Nat /\ Newer(x[1]) < Cardinality(trail)
          /\ Newer(x[1]) >= skip
      BY <1>2, <1>3, <1>4, <2>1, <3>1, NewerIs DEF Ahead
    <3>3. Newer(x[1]) >= skip + AuditSize
      BY <1>4, <1>5, <1>7, <3>1, <3>2, PageIsNewer
    <3> QED BY <1>4, <1>5, <3>2, <3>3
  <2>3. "count" \notin h.todo => g.todo = {"rows"}
    BY <1>2, <1>10 DEF IsReader
  <2>4. "count" \notin h.todo => h.total = Cardinality(trail)
    BY <1>2, <1>10, <2>1, <2>3 DEF Ahead
  <2> QED BY <1>2, <1>10, <2>1, <2>2, <2>4 DEF Ahead
<1>13. Suspend(p, h) /\ UNCHANGED auditVars
  BY <1>7, <1>9 DEF AuditRows
<1> QED BY <1>11, <1>12, <1>13, OwnStep DEF auditVars

LEMMA AuditPageStep ==
  ASSUME AuditAssumption, AuditInv, NEW p \in Api, AuditPage(p)
  PROVE  AuditInv'
<1>1. PICK g : g = handler[p]
  OBVIOUS
<1>2. IsReader(g) /\ g.at = "audit_read" /\ g.todo = {}
  BY <1>1 DEF AuditPage, Reads, At, AuditInv, Idle
<1>3. PICK more \in BOOLEAN : more <=> g.page * AuditSize < g.total
  OBVIOUS
<1>4. PICK h : h = [g EXCEPT !.seen = @ \cup g.rows, !.rows = {}, !.total = 0,
                             !.at = IF more THEN @ ELSE "audited",
                             !.page = IF more THEN @ + 1 ELSE @,
                             !.todo = IF more THEN {"count", "rows"} ELSE {}]
  OBVIOUS
<1>5. /\ h.at = (IF more THEN g.at ELSE "audited")
      /\ h.page = (IF more THEN g.page + 1 ELSE g.page)
      /\ h.todo = (IF more THEN {"count", "rows"} ELSE {})
      /\ h.total = 0 /\ h.seen = g.seen \cup g.rows /\ h.first = g.first
      /\ h = [at |-> h.at, page |-> h.page, todo |-> h.todo, total |-> h.total,
              rows |-> h.rows, seen |-> h.seen, first |-> h.first]
  BY <1>2, <1>4 DEF IsReader
<1>6. IsReader(h)
  <2>1. h.page \in Nat \ {0}
    BY <1>2, <1>5 DEF IsReader
  <2> QED BY <1>2, <1>5, <2>1 DEF IsReader
<1>7. p \notin torn => Ahead(h)
  <2> SUFFICES ASSUME p \notin torn PROVE Ahead(h)
    OBVIOUS
  <2>1. Ahead(g)
    BY <1>1, <1>2 DEF AuditInv, Idle
  <2>2. /\ g.first \subseteq trail
        /\ \A x \in Missing(g.first, g.seen \cup g.rows) :
             Newer(x[1]) >= g.page * AuditSize /\ g.total > g.page * AuditSize
    BY <1>2, <2>1 DEF Ahead
  <2>3. CASE more
    <3>1. Skipped(h.page) = g.page * AuditSize
      BY <1>2, <1>5, <2>3, SkippedIs DEF IsReader
    <3>2. "rows" \in h.todo /\ h.todo # {"rows"} /\ h.at # "audited"
      BY <1>2, <1>5, <2>3
    <3>3. \A x \in Missing(h.first, h.seen) : Newer(x[1]) >= Skipped(h.page)
      BY <1>5, <2>2, <3>1
    <3> QED BY <1>5, <2>2, <3>2, <3>3 DEF Ahead
  <2>4. CASE ~more
    <3>1. g.total \in Nat /\ g.page * AuditSize \in Nat
      BY <1>2, SkippedIs DEF IsReader
    <3>2. ~(g.total > g.page * AuditSize)
      BY <1>3, <2>4, <3>1
    <3>3. h.at = "audited" /\ Missing(h.first, h.seen) = {}
      BY <1>5, <2>2, <2>4, <3>2
    <3> QED BY <3>3 DEF Ahead
  <2> QED BY <2>3, <2>4
<1>8. Suspend(p, h) /\ UNCHANGED auditVars
  BY <1>1, <1>3, <1>4 DEF AuditPage
<1> QED BY <1>6, <1>7, <1>8, OwnStep DEF auditVars

LEMMA AuditEndStep ==
  ASSUME AuditAssumption, AuditInv, NEW p \in Api, AuditEnd(p)
  PROVE  AuditInv'
<1>1. PICK h : h = Idle
  OBVIOUS
<1>2. Suspend(p, h) /\ UNCHANGED auditVars
  BY <1>1 DEF AuditEnd, Finish
<1> QED BY <1>1, <1>2, OwnStep DEF auditVars

LEMMA AuditInvariant == AuditSpec => []AuditInv
<1>1. HandlersIdle /\ AuditInit => AuditInv
  <2> SUFFICES ASSUME HandlersIdle, AuditInit PROVE AuditInv
    OBVIOUS
  <2>1. handler = [p \in Api |-> handler[p]] /\ \A p \in Api : handler[p] = Idle
    BY DEF HandlersIdle
  <2> QED BY <2>1 DEF AuditInit, AuditInv
<1>2. AuditInv /\ [AuditNext]_<<auditVars, handler>> => AuditInv'
  <2> SUFFICES ASSUME AuditInv, [AuditNext]_<<auditVars, handler>> PROVE AuditInv'
    OBVIOUS
  <2>1. CASE UNCHANGED <<auditVars, handler>>
    <3>1. \A p \in Api : Ahead(handler[p])' <=> Ahead(handler[p])
      BY <2>1 DEF auditVars, Ahead, Newer, Missing, Skipped
    <3> QED BY <2>1, <3>1 DEF auditVars, AuditInv, IsReader, Stamped
  <2>2. CASE AuditNext
    BY <2>2, AuditAssumption, RecordStep, EndStep, AuditBeginStep, AuditCountStep,
       AuditRowsStep, AuditPageStep, AuditEndStep DEF AuditNext
  <2> QED BY <2>1, <2>2
<1> QED BY <1>1, <1>2, PTL DEF AuditSpec

\* Whoever reads the audit trail to its last page has seen all that was there at the
\* beginning, however it grew, but for rows of one time (listAuthAuditEvents,
\* listAuthSessions).
THEOREM AuditPagesComplete == AuditSpec => []AuditComplete
<1>1. AuditInv => AuditComplete
  BY DEF AuditInv, AuditComplete, Ahead, Missing, At, Idle
<1> QED BY <1>1, AuditInvariant, PTL

\* Every variable keeps its type.
THEOREM AuditTyped == AuditSpec => []AuditTypeOK
<1>1. AuditInv => AuditTypeOK
  BY DEF AuditInv, AuditTypeOK, IsReader, Idle
<1> QED BY <1>1, AuditInvariant, PTL

-----------------------------------------------------------------------------
(* The pages of the public catalogue and of a search.                      *)

Skip(page) == (page - 1) * PageSize

\* Up to where the pages reach, this one included.
Reach(page, total) == IF page * PageSize < total THEN page * PageSize ELSE total

LEMMA Skips ==
  ASSUME ReadsAssumption, NEW page \in Nat \ {0}
  PROVE  /\ Skip(page) \in Nat /\ Skip(page) + PageSize = page * PageSize
         /\ Skip(page + 1) = page * PageSize /\ page * PageSize \in Nat
<1>1. PICK n \in Nat : page = n + 1
  <2>1. page - 1 \in Nat /\ page = (page - 1) + 1
    OBVIOUS
  <2> QED BY <2>1
<1>2. (n + 1) * PageSize = n * PageSize + PageSize /\ n * PageSize \in Nat
  BY DEF ReadsAssumption
<1>3. page - 1 = n /\ page + 1 - 1 = page
  BY <1>1
<1> QED BY <1>1, <1>2, <1>3 DEF Skip, ReadsAssumption

\* A page lies between the pages before it and the end of the list.
LEMMA Reaches ==
  ASSUME ReadsAssumption, NEW page \in Nat \ {0}, NEW total \in Nat, Skip(page) <= total
  PROVE  /\ Skip(page) \in Nat /\ Reach(page, total) \in Nat
         /\ Skip(page) <= Reach(page, total) /\ Reach(page, total) <= total
<1>1. PICK m \in Nat : m = page * PageSize
  BY Skips
<1>2. Skip(page) \in Nat /\ Skip(page) + PageSize = m /\ PageSize \in Nat
  BY <1>1, Skips DEF ReadsAssumption
<1>3. Reach(page, total) = IF m < total THEN m ELSE total
  BY <1>1 DEF Reach
<1> QED BY <1>2, <1>3

LEMMA PageIs ==
  ASSUME ReadsAssumption, NEW S, NEW s \in Seq(S), NEW page \in Nat \ {0},
         Skip(page) <= Len(s)
  PROVE  /\ PageOf(s, page) \in Seq(S)
         /\ Len(PageOf(s, page)) = Reach(page, Len(s)) - Skip(page)
         /\ \A j \in 1..Len(PageOf(s, page)) :
              Skip(page) + j \in 1..Len(s) /\ PageOf(s, page)[j] = s[Skip(page) + j]
         /\ ToSet(PageOf(s, page)) = {s[i] : i \in (Skip(page) + 1)..Reach(page, Len(s))}
<1>1. /\ Skip(page) \in Nat /\ Skip(page) + PageSize = page * PageSize
      /\ page * PageSize \in Nat /\ Len(s) \in Nat /\ PageSize \in Nat
  BY Skips DEF ReadsAssumption
<1>2. PICK skip \in Nat : skip = Skip(page)
  BY <1>1
<1>3. PICK last \in Nat : last = Reach(page, Len(s))
  BY <1>1 DEF Reach
<1>4. skip <= last /\ last <= Len(s)
  BY <1>1, <1>2, <1>3 DEF Reach
<1>5. PageOf(s, page) = SubSeq(s, skip + 1, last)
  <2>1. (IF Len(s) - skip < PageSize THEN Len(s) ELSE skip + PageSize) = last
    BY <1>1, <1>2, <1>3 DEF Reach
  <2> QED BY <1>2, <2>1 DEF PageOf, Skip
<1> DEFINE sub == SubSeq(s, skip + 1, last)
<1>6. /\ sub \in Seq(S) /\ Len(sub) = last - skip
      /\ \A i \in 1..(last - skip) : sub[i] = s[skip + i]
  <2>1. \A i \in (skip + 1)..last : s[i] \in S
    BY <1>1, <1>4
  <2>2. skip + 1 \in Int /\ last \in Int
    OBVIOUS
  <2>3. /\ sub \in Seq(S) /\ Len(sub) = IF skip + 1 <= last THEN last - (skip + 1) + 1 ELSE 0
        /\ \A i \in 1..(last - (skip + 1) + 1) : sub[i] = s[skip + 1 + i - 1]
    BY <2>1, <2>2, SubSeqProperties
  <2>4. Len(sub) = last - skip
    BY <1>4, <2>3
  <2> HIDE DEF sub
  <2>5. ASSUME NEW i \in 1..(last - skip) PROVE sub[i] = s[skip + i]
    <3>1. i \in 1..(last - (skip + 1) + 1) /\ skip + 1 + i - 1 = skip + i
      OBVIOUS
    <3>2. sub[i] = s[skip + 1 + i - 1]
      BY <2>3, <3>1
    <3> QED BY <3>1, <3>2
  <2> QED BY <2>3, <2>4, <2>5
<1>7. DOMAIN sub = 1..Len(sub)
  BY <1>6
<1> HIDE DEF sub
<1>8. \A j \in 1..Len(sub) : skip + j \in 1..Len(s) /\ sub[j] = s[skip + j]
  BY <1>4, <1>6
<1>9. ToSet(sub) = {s[i] : i \in (skip + 1)..last}
  <2>1. \A j \in 1..Len(sub) : skip + j \in (skip + 1)..last
    BY <1>6
  <2>2. \A i \in (skip + 1)..last : i - skip \in 1..Len(sub) /\ sub[i - skip] = s[i]
    <3> SUFFICES ASSUME NEW i \in (skip + 1)..last
                 PROVE i - skip \in 1..Len(sub) /\ sub[i - skip] = s[i]
      OBVIOUS
    <3>1. i - skip \in 1..Len(sub) /\ skip + (i - skip) = i
      BY <1>6
    <3> QED BY <1>8, <3>1
  <2>3. \A x \in ToSet(sub) : x \in {s[i] : i \in (skip + 1)..last}
    BY <1>7, <1>8, <2>1 DEF ToSet
  <2>4. \A x \in {s[i] : i \in (skip + 1)..last} : x \in ToSet(sub)
    BY <1>7, <2>2 DEF ToSet
  <2> QED BY <2>3, <2>4
<1> QED BY <1>2, <1>3, <1>5, <1>6, <1>8, <1>9 DEF sub

-----------------------------------------------------------------------------
(* The catalogue cat and the index idx, as a visitor finds them.           *)

Approved(cat) == {f \in Fonts : cat[f].approved}
Matches(cat, publisher) == {f \in Approved(cat) : publisher # None => cat[f].publisher = publisher}
Offered(cat) == {cat[f].publisher : f \in Approved(cat)}

Sooner(cat, f, g) ==
  \/ cat[f].published > cat[g].published
  \/ cat[f].published = cat[g].published /\ f >= g

\* How many families of M come before this one, and how many hits.
Rank(cat, M, f) == Cardinality({g \in M : g # f /\ Sooner(cat, g, f)})
HitRank(idx, f) == Cardinality({g \in idx : g < f})

\* The families of a rank below n.
Top(cat, M, n) == {f \in M : Rank(cat, M, f) < n}
TopHits(cat, idx, n) == {f \in idx \cap Approved(cat) : HitRank(idx, f) < n}

LEMMA AsRead ==
  /\ Public = Approved(shop) /\ OfferedPublishers = Offered(shop)
  /\ \A publisher : Matching(publisher) = Matches(shop, publisher)
  /\ \A f, g : Before(f, g) <=> Sooner(shop, f, g)
<1>1. Public = Approved(shop)
  BY DEF Public, Approved
<1>2. \A publisher : Matching(publisher) = Matches(shop, publisher)
  BY <1>1 DEF Matching, Matches
<1>3. OfferedPublishers = Offered(shop)
  BY <1>1 DEF OfferedPublishers, Offered
<1>4. \A f, g : Before(f, g) <=> Sooner(shop, f, g)
  BY DEF Before, Sooner
<1> QED BY <1>1, <1>2, <1>3, <1>4

\* Whatever the query returns has a row of rank k at k + 1.
LEMMA ResultRanks ==
  ASSUME ReadsAssumption, shop \in [Fonts -> Font], NEW M, M \subseteq Fonts,
         NEW s \in Results(M)
  PROVE  /\ s \in Seq(M) /\ Len(s) = Cardinality(M) /\ Len(s) \in Nat
         /\ \A i \in 1..Len(s) : Rank(shop, M, s[i]) = i - 1
         /\ M = ToSet(s)
<1>1. IsFiniteSet(M) /\ Cardinality(M) \in Nat
  BY FS_Subset, FS_CardinalityType DEF ReadsAssumption
<1>2. /\ s \in [1..Cardinality(M) -> M]
      /\ \A i, j \in 1..Cardinality(M) : i # j => s[i] # s[j]
      /\ \A i, j \in 1..Len(s) : i <= j => Before(s[i], s[j])
  BY DEF Results, SetToSeqs
<1>3. s \in Seq(M) /\ Len(s) = Cardinality(M)
  BY <1>1, <1>2
<1>4. \A f \in M : \E i \in 1..Len(s) : f = s[i]
  <2>1. s \in Injection(1..Cardinality(M), M)
    BY <1>2 DEF Injection, IsInjective
  <2>2. Cardinality(1..Cardinality(M)) = Cardinality(M)
    BY <1>1, FS_Interval
  <2>3. s \in Surjection(1..Cardinality(M), M)
    BY <1>1, <2>1, <2>2, FS_Injection
  <2> QED BY <1>3, <2>3 DEF Surjection
<1>5. \A f, g \in M : Before(f, g) /\ Before(g, f) => f = g
  <2> SUFFICES ASSUME NEW f \in M, NEW g \in M, Before(f, g), Before(g, f) PROVE f = g
    OBVIOUS
  <2>1. f \in Nat /\ g \in Nat /\ shop[f].published \in Nat /\ shop[g].published \in Nat
    BY DEF ReadsAssumption, Font
  <2> QED BY <2>1 DEF Before
<1>6. ASSUME NEW i \in 1..Len(s)
      PROVE  Rank(shop, M, s[i]) = i - 1
  <2>1. {g \in M : g # s[i] /\ Sooner(shop, g, s[i])} = {s[j] : j \in 1..(i - 1)}
    <3>1. ASSUME NEW j \in 1..(i - 1)
          PROVE  s[j] \in M /\ s[j] # s[i] /\ Before(s[j], s[i])
      <4>1. j \in 1..Len(s) /\ j # i /\ j <= i
        OBVIOUS
      <4> QED BY <1>2, <1>3, <4>1
    <3>2. ASSUME NEW g \in M, g # s[i], Before(g, s[i])
          PROVE  \E j \in 1..(i - 1) : g = s[j]
      <4>1. PICK j \in 1..Len(s) : g = s[j]
        BY <1>4
      <4>2. ~(i <= j)
        <5> SUFFICES ASSUME i <= j PROVE FALSE
          OBVIOUS
        <5>1. Before(s[i], g)
          BY <1>2, <4>1
        <5>2. s[i] \in M
          BY <1>2, <1>3
        <5> QED BY <1>5, <3>2, <5>1, <5>2
      <4> QED BY <4>1, <4>2
    <3> QED BY <3>1, <3>2, AsRead
  <2>2. \A j, k \in 1..(i - 1) : j # k => s[j] # s[k]
    <3>1. \A j \in 1..(i - 1) : j \in 1..Cardinality(M)
      BY <1>1, <1>3
    <3> QED BY <1>2, <3>1
  <2>3. i - 1 \in Nat
    OBVIOUS
  <2> QED BY <2>1, <2>2, <2>3, CountTo DEF Rank
<1>7. M = ToSet(s)
  <2>1. DOMAIN s = 1..Len(s) /\ \A i \in 1..Len(s) : s[i] \in M
    BY <1>3
  <2> QED BY <1>4, <2>1 DEF ToSet
<1> QED BY <1>1, <1>3, <1>6, <1>7

\* The families behind some hits, each once.
LEMMA FetchedIs ==
  ASSUME shop \in [Fonts -> Font], NEW ids \in Seq(Fonts)
  PROVE  /\ Fetched(ids) \in Seq(Fonts)
         /\ ToSet(Fetched(ids)) = ToSet(ids) \cap Public
         /\ IsInjective(ids) => Len(Fetched(ids)) = Cardinality(ToSet(Fetched(ids)))
<1>1. DOMAIN ids = 1..Len(ids) /\ Len(ids) \in Nat
  OBVIOUS
<1> DEFINE stay == {i \in DOMAIN ids : shop[ids[i]].approved}
           n == Cardinality(stay)
           found == [k \in 1..n |-> ids[Ascending(stay)[k]]]
<1>2. IsFiniteSet(stay) /\ stay \subseteq Nat
  <2>1. IsFiniteSet(1..Len(ids)) /\ stay \in SUBSET (1..Len(ids))
    BY <1>1, FS_Interval
  <2> QED BY <2>1, FS_Subset
<1>3. /\ n \in Nat
      /\ \A k \in 1..n : /\ Ascending(stay)[k] \in stay
                         /\ Cardinality({y \in stay : y < Ascending(stay)[k]}) = k - 1
  BY <1>2, AscendingRows
<1>4. \A i \in stay : \E k \in 1..n : Ascending(stay)[k] = i
  <2> SUFFICES ASSUME NEW i \in stay PROVE \E k \in 1..n : Ascending(stay)[k] = i
    OBVIOUS
  <2>1. {y \in stay : y < i} \in SUBSET stay
    OBVIOUS
  <2> HIDE DEF stay
  <2>2. Cardinality({y \in stay : y < i}) \in Nat
    BY <1>2, <2>1, FS_Subset, FS_CardinalityType
  <2>3. PICK c \in Nat : c = Cardinality({y \in stay : y < i})
    BY <2>2
  <2> DEFINE k == c + 1
  <2>4. k \in Nat /\ k = Cardinality({y \in stay : y < i}) + 1
    BY <2>3
  <2> HIDE DEF k
  <2>5. k \in 1..n /\ Ascending(stay)[k] = i
    BY <1>2, <2>4, AscendingAt
  <2> QED BY <2>5
<1>5. Fetched(ids) = found
  BY DEF Fetched
<1>6. \A i \in stay : i \in 1..Len(ids) /\ ids[i] \in Fonts /\ ids[i] \in Public
  BY <1>1 DEF Public
<1>7. \A i \in 1..Len(ids) : ids[i] \in Public => i \in stay
  BY <1>1 DEF Public
<1> HIDE DEF stay, n
<1>8. found \in Seq(Fonts) /\ Len(found) = n /\ DOMAIN found = 1..n
  <2>1. \A k \in 1..n : ids[Ascending(stay)[k]] \in Fonts
    BY <1>3, <1>6
  <2> QED BY <1>3, <2>1
<1>9. ToSet(found) = ToSet(ids) \cap Public
  <2>1. \A k \in 1..n : found[k] = ids[Ascending(stay)[k]]
    OBVIOUS
  <2> HIDE DEF found
  <2>2. \A x \in ToSet(found) : x \in ToSet(ids) /\ x \in Public
    BY <1>1, <1>3, <1>6, <1>8, <2>1 DEF ToSet
  <2>3. ASSUME NEW x \in ToSet(ids), x \in Public PROVE x \in ToSet(found)
    <3>1. PICK i \in 1..Len(ids) : x = ids[i]
      BY <1>1 DEF ToSet
    <3>2. PICK k \in 1..n : Ascending(stay)[k] = i
      BY <1>4, <1>7, <2>3, <3>1
    <3> QED BY <1>8, <2>1, <3>1, <3>2 DEF ToSet
  <2> QED BY <2>2, <2>3
<1>10. ASSUME IsInjective(ids)
       PROVE  Len(found) = Cardinality(ToSet(found))
  <2>1. \A k \in 1..n : found[k] = ids[Ascending(stay)[k]]
    OBVIOUS
  <2>2. \A k, l \in 1..n : k # l => Ascending(stay)[k] # Ascending(stay)[l]
    <3> SUFFICES ASSUME NEW k \in 1..n, NEW l \in 1..n,
                        Ascending(stay)[k] = Ascending(stay)[l]
                 PROVE  k = l
      OBVIOUS
    <3>1. k - 1 = l - 1
      BY <1>3
    <3> QED BY <1>3, <3>1
  <2>3. \A k, l \in 1..n : k # l => found[k] # found[l]
    <3> SUFFICES ASSUME NEW k \in 1..n, NEW l \in 1..n, k # l PROVE found[k] # found[l]
      OBVIOUS
    <3>1. /\ Ascending(stay)[k] \in 1..Len(ids) /\ Ascending(stay)[l] \in 1..Len(ids)
          /\ Ascending(stay)[k] # Ascending(stay)[l]
      BY <1>3, <1>6, <2>2
    <3>2. ids[Ascending(stay)[k]] # ids[Ascending(stay)[l]]
      BY <1>1, <1>10, <3>1 DEF IsInjective
    <3> QED BY <2>1, <3>2
  <2> HIDE DEF found
  <2>4. ToSet(found) = {found[k] : k \in 1..n}
    BY <1>8 DEF ToSet
  <2> QED BY <1>3, <1>8, <2>3, <2>4, CountTo
<1> QED BY <1>5, <1>8, <1>9, <1>10

-----------------------------------------------------------------------------
IsVisit(h) ==
  /\ h = [at |-> h.at, page |-> h.page, publisher |-> h.publisher, seen |-> h.seen,
          total |-> h.total]
  /\ h.at \in {"count", "rows", "browsed"}
  /\ h.page \in Nat \ {0} /\ h.seen \in Seq(Fonts) /\ h.total \in Nat

IsOffer(h) == h = [at |-> h.at, offered |-> h.offered] /\ h.at = "filters"

IsSearch(h) ==
  /\ h = [at |-> h.at, page |-> h.page, ids |-> h.ids, total |-> h.total, seen |-> h.seen]
  /\ h.at \in {"ask", "fetch", "searched"}
  /\ h.page \in Nat \ {0} /\ h.ids \in Seq(Fonts) /\ h.seen \in Seq(Fonts) /\ h.total \in Nat

IsRead(h) == h = Idle \/ IsVisit(h) \/ IsOffer(h) \/ IsSearch(h)

\* As long as nothing moves, what has been seen are the first so many rows.
BrowseFollows(h, M, cat) ==
  /\ h.at \in {"count", "rows"} =>
       /\ Skip(h.page) <= Cardinality(M)
       /\ Len(h.seen) = Skip(h.page)
       /\ ToSet(h.seen) = Top(cat, M, Skip(h.page))
  /\ h.at = "rows" => h.total = Cardinality(M)
  /\ h.at = "browsed" => ToSet(h.seen) = M /\ Len(h.seen) = Cardinality(M)
  /\ h.publisher # None => M # {}

SearchFollows(h, cat, idx) ==
  /\ h.at \in {"ask", "fetch"} =>
       /\ Skip(h.page) <= Cardinality(idx)
       /\ ToSet(h.seen) = TopHits(cat, idx, Skip(h.page))
       /\ Len(h.seen) = Cardinality(ToSet(h.seen))
  /\ h.at = "fetch" => h.ids = PageOf(Ascending(idx), h.page) /\ h.total = Cardinality(idx)
  /\ h.at = "searched" =>
       ToSet(h.seen) = idx \cap Approved(cat) /\ Len(h.seen) = Cardinality(ToSet(h.seen))

Follows(h, cat, idx) ==
  /\ IsVisit(h) => BrowseFollows(h, Matches(cat, h.publisher), cat)
  /\ IsOffer(h) => h.offered = Offered(cat)
  /\ IsSearch(h) => SearchFollows(h, cat, idx)

ReadsInv ==
  /\ shop \in [Fonts -> Font] /\ hits \subseteq Fonts /\ moved \subseteq Api
  /\ handler = [p \in Api |-> handler[p]]
  /\ \A p \in Api : IsRead(handler[p])
  /\ \A p \in Api \ moved : Follows(handler[p], shop, hits)

-----------------------------------------------------------------------------
\* A change of the catalogue or the index concerns whoever reads.
LEMMA MoveStep ==
  ASSUME ReadsAssumption, ReadsInv, NEW f \in Fonts, Publish(f) \/ Retire(f) \/ Reindex(f)
  PROVE  ReadsInv'
<1>1. /\ moved' = Api /\ UNCHANGED handler
  BY DEF Publish, Retire, Reindex
<1>2. hits' \subseteq Fonts
  BY DEF Publish, Retire, Reindex, ReadsInv
<1>3. shop' \in [Fonts -> Font]
  <2>1. CASE Publish(f)
    <3>1. PICK t \in 1..MaxTime :
            shop' = [shop EXCEPT ![f].approved = TRUE, ![f].published = t]
      BY <2>1 DEF Publish
    <3>2. shop \in [Fonts -> Font] /\ shop[f] \in Font
      BY DEF ReadsInv
    <3>3. DOMAIN shop' = Fonts
      BY <3>1, <3>2
    <3>4. \A g \in Fonts : g # f => shop'[g] = shop[g]
      BY <3>1, <3>2
    <3>5. shop' = [[shop EXCEPT ![f] = [@ EXCEPT !.approved = TRUE]]
                     EXCEPT ![f] = [@ EXCEPT !.published = t]]
      BY <3>1
    <3>6. shop'[f] = [[shop[f] EXCEPT !.approved = TRUE] EXCEPT !.published = t]
      BY <3>2, <3>5
    <3>7. t \in 0..MaxTime
      BY DEF ReadsAssumption
    <3>8. shop'[f] \in Font
      BY <3>2, <3>6, <3>7 DEF Font
    <3>9. shop' = [g \in Fonts |-> shop'[g]]
      BY <3>1, <3>2
    <3> QED BY <3>2, <3>4, <3>8, <3>9
  <2>2. CASE Retire(f)
    <3>1. [shop[f] EXCEPT !.approved = FALSE] \in Font
      BY DEF ReadsInv, Font
    <3> QED BY <2>2, <3>1 DEF ReadsInv, Retire
  <2>3. CASE Reindex(f)
    BY <2>3 DEF ReadsInv, Reindex
  <2> QED BY <2>1, <2>2, <2>3
<1>4. \A q \in Api : IsRead(handler'[q])
  BY <1>1 DEF ReadsInv
<1>5. \A q \in Api : IsRead(handler[q])'
  BY <1>4 DEF IsRead, IsVisit, IsOffer, IsSearch
<1> QED BY <1>1, <1>2, <1>3, <1>5 DEF ReadsInv

\* A step of a reader; the catalogue and the index rest.
LEMMA ReadStep ==
  ASSUME ReadsInv, NEW p \in Api, NEW h, Suspend(p, h), IsRead(h),
         UNCHANGED <<shop, hits>>, moved' = moved \/ moved' = moved \ {p},
         p \notin moved' => Follows(h, shop, hits)
  PROVE  ReadsInv'
<1>1. /\ handler' = [q \in Api |-> handler'[q]]
      /\ \A q \in Api : handler'[q] = IF q = p THEN h ELSE handler[q]
  BY DEF ReadsInv, Suspend
<1>2. \A q \in Api : IsRead(handler[q])
  BY DEF ReadsInv
<1>3. \A q \in Api : IsRead(handler'[q])
  <2> HIDE DEF IsRead
  <2> QED BY <1>1, <1>2
<1>4. ASSUME NEW q \in Api \ moved'
      PROVE  Follows(handler'[q], shop', hits')
  <2>1. CASE q = p
    BY <1>1, <1>4, <2>1
  <2>2. CASE q # p
    BY <1>1, <1>4, <2>2 DEF ReadsInv
  <2> QED BY <2>1, <2>2
<1>5. shop' \in [Fonts -> Font] /\ hits' \subseteq Fonts /\ moved' \subseteq Api
  BY DEF ReadsInv
<1>6. \A q \in Api : IsRead(handler[q])'
  BY <1>3 DEF IsRead, IsVisit, IsOffer, IsSearch
<1> QED BY <1>1, <1>4, <1>5, <1>6 DEF ReadsInv

LEMMA MatchesIs ==
  ASSUME ReadsAssumption, NEW cat, NEW publisher
  PROVE  /\ Matches(cat, publisher) \subseteq Fonts
         /\ IsFiniteSet(Matches(cat, publisher)) /\ Cardinality(Matches(cat, publisher)) \in Nat
<1>1. Matches(cat, publisher) \in SUBSET Fonts
  BY DEF Matches, Approved
<1> QED BY <1>1, FS_Subset, FS_CardinalityType DEF ReadsAssumption

LEMMA RanksIn ==
  ASSUME ReadsAssumption, NEW cat, NEW M, M \subseteq Fonts, NEW f
  PROVE  Rank(cat, M, f) \in Nat
<1>1. {g \in M : g # f /\ Sooner(cat, g, f)} \in SUBSET Fonts
  OBVIOUS
<1> QED BY <1>1, FS_Subset, FS_CardinalityType DEF Rank, ReadsAssumption

LEMMA HitRanksIn ==
  ASSUME ReadsAssumption, NEW idx, idx \subseteq Fonts, NEW f
  PROVE  HitRank(idx, f) \in Nat
<1>1. {g \in idx : g < f} \in SUBSET Fonts
  OBVIOUS
<1> QED BY <1>1, FS_Subset, FS_CardinalityType DEF HitRank, ReadsAssumption

LEMMA NoneSeen ==
  ASSUME ReadsAssumption, NEW cat, NEW M, M \subseteq Fonts
  PROVE  /\ Top(cat, M, 0) = {} /\ TopHits(cat, M, 0) = {} /\ ToSet(<<>>) = {} /\ Skip(1) = 0
         /\ Len(<<>>) = 0 /\ Cardinality({}) = 0 /\ Cardinality(M) \in Nat
<1>1. \A f \in M : ~(Rank(cat, M, f) < 0) /\ ~(HitRank(M, f) < 0)
  <2> TAKE f \in M
  <2>1. Rank(cat, M, f) \in Nat /\ HitRank(M, f) \in Nat
    BY RanksIn, HitRanksIn
  <2> QED BY <2>1
<1>2. Top(cat, M, 0) = {} /\ TopHits(cat, M, 0) = {}
  BY <1>1 DEF Top, TopHits
<1>3. ToSet(<<>>) = {}
  BY DEF ToSet
<1>4. Skip(1) = 0
  BY DEF Skip, ReadsAssumption
<1>5. M \in SUBSET Fonts
  OBVIOUS
<1> QED BY <1>2, <1>3, <1>4, <1>5, FS_EmptySet, FS_Subset, FS_CardinalityType
        DEF ReadsAssumption

\* The first page, of all families or of a publisher that has some.
LEMMA VisitFollows ==
  ASSUME ReadsAssumption, NEW publisher
  PROVE  /\ IsRead(Visit(publisher))
         /\ (publisher # None => Matches(shop, publisher) # {}) =>
              Follows(Visit(publisher), shop, hits)
<1>1. PICK h : h = [at |-> "count", page |-> 1, publisher |-> publisher, seen |-> <<>>,
                    total |-> 0]
  OBVIOUS
<1>2. /\ h.at = "count" /\ h.page = 1 /\ h.publisher = publisher /\ h.seen = <<>> /\ h.total = 0
  BY <1>1
<1>3. IsVisit(h)
  BY <1>1, <1>2 DEF IsVisit
<1>4. PICK M : M = Matches(shop, publisher)
  OBVIOUS
<1>5. M \subseteq Fonts
  BY <1>4, MatchesIs
<1>6. ASSUME publisher # None => M # {} PROVE BrowseFollows(h, M, shop)
  <2>1. h.at # "rows" /\ h.at # "browsed"
    BY <1>2
  <2>2. Top(shop, M, 0) = {} /\ ToSet(<<>>) = {} /\ Skip(1) = 0 /\ Len(<<>>) = 0
        /\ Cardinality(M) \in Nat
    BY <1>5, NoneSeen
  <2>3. /\ Skip(h.page) <= Cardinality(M) /\ Len(h.seen) = Skip(h.page)
        /\ ToSet(h.seen) = Top(shop, M, Skip(h.page))
    <3>1. Skip(h.page) = 0 /\ 0 <= Cardinality(M)
      BY <1>2, <2>2
    <3>2. Len(h.seen) = 0
      BY <1>2, <2>2
    <3>3. ToSet(h.seen) = {}
      BY <1>2, <2>2
    <3>4. Top(shop, M, Skip(h.page)) = {}
      BY <2>2, <3>1
    <3> QED BY <3>1, <3>2, <3>3, <3>4
  <2>4. h.publisher # None => M # {}
    BY <1>2, <1>6
  <2> QED BY <2>1, <2>3, <2>4 DEF BrowseFollows
<1>7. ~IsOffer(h) /\ ~IsSearch(h)
  BY <1>2 DEF IsOffer, IsSearch
<1>8. (publisher # None => M # {}) => Follows(h, shop, hits)
  BY <1>2, <1>4, <1>6, <1>7 DEF Follows
<1>9. IsRead(h)
  BY <1>3 DEF IsRead
<1> QED BY <1>1, <1>4, <1>8, <1>9 DEF Visit

LEMMA AtRead ==
  ASSUME ReadsInv, NEW p \in Api
  PROVE  /\ At(p, "count") \/ At(p, "rows") \/ At(p, "browsed") => IsVisit(handler[p])
         /\ At(p, "filters") => IsOffer(handler[p])
         /\ At(p, "ask") \/ At(p, "fetch") \/ At(p, "searched") => IsSearch(handler[p])
<1>1. IsRead(handler[p])
  BY DEF ReadsInv
<1> QED BY <1>1 DEF IsRead, IsVisit, IsOffer, IsSearch, At, Idle

LEMMA OneKind ==
  ASSUME NEW h
  PROVE  /\ IsVisit(h) => ~IsOffer(h) /\ ~IsSearch(h)
         /\ IsOffer(h) => ~IsVisit(h) /\ ~IsSearch(h)
         /\ IsSearch(h) => ~IsVisit(h) /\ ~IsOffer(h)
         /\ h = Idle => ~IsVisit(h) /\ ~IsOffer(h) /\ ~IsSearch(h)
BY DEF IsVisit, IsOffer, IsSearch, Idle

-----------------------------------------------------------------------------
(* The steps of a visitor.                                                 *)

LEMMA BrowseBeginStep ==
  ASSUME ReadsAssumption, ReadsInv, NEW p \in Api, BrowseBegin(p)
  PROVE  ReadsInv'
<1>1. PICK h : h = Visit(None)
  OBVIOUS
<1>2. IsRead(h) /\ Follows(h, shop, hits)
  BY <1>1, VisitFollows
<1>3. Suspend(p, h) /\ moved' = moved \ {p} /\ UNCHANGED <<shop, hits>>
  BY <1>1 DEF BrowseBegin, Begin
<1> QED BY <1>2, <1>3, ReadStep

LEMMA BrowseCountStep ==
  ASSUME ReadsAssumption, ReadsInv, NEW p \in Api, BrowseCount(p)
  PROVE  ReadsInv'
<1>1. PICK g : g = handler[p]
  OBVIOUS
<1>2. IsVisit(g) /\ g.at = "count"
  BY <1>1, AtRead DEF BrowseCount, At
<1>3. PICK M : M = Matches(shop, g.publisher)
  OBVIOUS
<1>4. Cardinality(M) \in Nat /\ Matching(g.publisher) = M
  BY <1>3, MatchesIs, AsRead
<1>5. PICK h : h = [g EXCEPT !.at = "rows", !.total = Cardinality(M)]
  OBVIOUS
<1>6. /\ h.at = "rows" /\ h.page = g.page /\ h.publisher = g.publisher /\ h.seen = g.seen
      /\ h.total = Cardinality(M)
      /\ h = [at |-> h.at, page |-> h.page, publisher |-> h.publisher, seen |-> h.seen,
              total |-> h.total]
  BY <1>2, <1>5 DEF IsVisit
<1>7. IsVisit(h)
  BY <1>2, <1>4, <1>6 DEF IsVisit
<1>8. p \notin moved => Follows(h, shop, hits)
  <2> SUFFICES ASSUME p \notin moved PROVE Follows(h, shop, hits)
    OBVIOUS
  <2>1. BrowseFollows(g, M, shop)
    BY <1>1, <1>2, <1>3 DEF ReadsInv, Follows
  <2>2. BrowseFollows(h, M, shop)
    BY <1>2, <1>6, <2>1 DEF BrowseFollows
  <2> QED BY <1>3, <1>6, <1>7, <2>2, OneKind DEF Follows
<1>9. Suspend(p, h) /\ UNCHANGED <<shop, hits, moved>>
  BY <1>1, <1>4, <1>5 DEF BrowseCount, readVars
<1> QED BY <1>7, <1>8, <1>9, ReadStep DEF IsRead

\* Also of a page that lies behind the last row.
LEMMA PageOfType ==
  ASSUME ReadsAssumption, NEW S, NEW s \in Seq(S), NEW page \in Nat \ {0}
  PROVE  PageOf(s, page) \in Seq(S)
<1>1. Skip(page) \in Nat /\ Len(s) \in Nat
  <2>1. Skip(page) \in Nat
    BY Skips
  <2>2. Len(s) \in Nat
    OBVIOUS
  <2> QED BY <2>1, <2>2
<1>2. PICK last \in Nat : /\ last <= Len(s)
                          /\ PageOf(s, page) = SubSeq(s, Skip(page) + 1, last)
  <2>1. CASE Len(s) - Skip(page) < PageSize
    BY <1>1, <2>1 DEF PageOf, Skip
  <2>2. CASE ~(Len(s) - Skip(page) < PageSize)
    <3>1. Skip(page) + PageSize \in Nat /\ Skip(page) + PageSize <= Len(s)
      BY <1>1, <2>2 DEF ReadsAssumption
    <3>2. PageOf(s, page) = SubSeq(s, Skip(page) + 1, Skip(page) + PageSize)
      BY <2>2 DEF PageOf, Skip
    <3> QED BY <3>1, <3>2
  <2> QED BY <2>1, <2>2
<1>3. \A i \in (Skip(page) + 1)..last : s[i] \in S
  BY <1>1, <1>2
<1>4. Skip(page) + 1 \in Int /\ last \in Int
  BY <1>1
<1> QED BY <1>2, <1>3, <1>4, SubSeqProperties

\* The page on top of those before.
LEMMA NextPage ==
  ASSUME ReadsAssumption, shop \in [Fonts -> Font], NEW M, M \subseteq Fonts,
         NEW s \in Results(M), NEW seen \in Seq(Fonts), NEW page \in Nat \ {0},
         Skip(page) <= Cardinality(M), Len(seen) = Skip(page),
         ToSet(seen) = Top(shop, M, Skip(page))
  PROVE  LET more == seen \o PageOf(s, page)
             to == Reach(page, Cardinality(M)) IN
         Len(more) = to /\ ToSet(more) = Top(shop, M, to)
<1>1. /\ s \in Seq(M) /\ Len(s) = Cardinality(M) /\ Len(s) \in Nat
      /\ \A i \in 1..Len(s) : Rank(shop, M, s[i]) = i - 1
      /\ M = ToSet(s)
  BY ResultRanks
<1>2. PICK page1 : page1 = PageOf(s, page)
  OBVIOUS
<1>3. PICK skip \in Nat : skip = Skip(page)
  BY Skips
<1>4. PICK to \in Nat : to = Reach(page, Cardinality(M))
  BY <1>1, Skips DEF Reach
<1>5. skip <= to /\ to <= Len(s)
  BY <1>1, <1>3, <1>4, Reaches
<1>6. /\ page1 \in Seq(M) /\ Len(page1) = to - skip
      /\ ToSet(page1) = {s[i] : i \in (skip + 1)..to}
  <2>1. s \in Seq(M) /\ Len(s) = Cardinality(M)
    BY <1>1
  <2>2. to = Reach(page, Len(s))
    BY <1>4, <2>1, Zenon
  <2>3. Skip(page) <= Len(s)
    BY <2>1
  <2>4. /\ PageOf(s, page) \in Seq(M)
        /\ Len(PageOf(s, page)) = Reach(page, Len(s)) - Skip(page)
        /\ ToSet(PageOf(s, page)) = {s[i] : i \in (Skip(page) + 1)..Reach(page, Len(s))}
    BY <2>1, <2>3, PageIs
  <2> QED BY <1>2, <1>3, <2>2, <2>4, Zenon
<1>7. page1 \in Seq(Fonts)
  BY <1>6, SeqMonotonic
<1>8. /\ Len(seen \o page1) = to
      /\ ToSet(seen \o page1) = Top(shop, M, skip) \cup {s[i] : i \in (skip + 1)..to}
  <2>1. /\ Len(seen \o page1) = Len(seen) + Len(page1)
        /\ ToSet(seen \o page1) = ToSet(seen) \cup ToSet(page1)
    BY <1>7, Joined
  <2>2. Len(seen) + Len(page1) = to
    BY <1>3, <1>5, <1>6
  <2> QED BY <1>3, <1>6, <2>1, <2>2
<1>9. {s[i] : i \in (skip + 1)..to} = {f \in M : skip <= Rank(shop, M, f) /\ Rank(shop, M, f) < to}
  <2>1. ASSUME NEW i \in (skip + 1)..to
        PROVE  s[i] \in M /\ skip <= Rank(shop, M, s[i]) /\ Rank(shop, M, s[i]) < to
    <3>1. i \in 1..Len(s)
      BY <1>1, <1>5
    <3> QED BY <1>1, <3>1
  <2>2. ASSUME NEW f \in M, skip <= Rank(shop, M, f), Rank(shop, M, f) < to
        PROVE  \E i \in (skip + 1)..to : f = s[i]
    <3>1. PICK i \in 1..Len(s) : s[i] = f
      <4>1. s \in Seq(M) /\ f \in ToSet(s)
        BY <1>1
      <4> QED BY <4>1, AtSome
    <3>2. Rank(shop, M, f) = i - 1
      BY <1>1, <3>1
    <3>3. i \in (skip + 1)..to
      BY <1>1, <2>2, <3>2
    <3> QED BY <3>1, <3>3
  <2> QED BY <2>1, <2>2
<1>10. Top(shop, M, skip) \cup {f \in M : skip <= Rank(shop, M, f) /\ Rank(shop, M, f) < to}
         = Top(shop, M, to)
  <2>1. \A f \in M : Rank(shop, M, f) \in Nat
    BY RanksIn
  <2>2. \A f \in M : Rank(shop, M, f) < skip \/ (skip <= Rank(shop, M, f) /\ Rank(shop, M, f) < to)
                       <=> Rank(shop, M, f) < to
    BY <1>5, <2>1
  <2> QED BY <2>2 DEF Top
<1> QED BY <1>2, <1>4, <1>8, <1>9, <1>10

LEMMA TopIsAll ==
  ASSUME ReadsAssumption, shop \in [Fonts -> Font], NEW M, M \subseteq Fonts,
         NEW s \in Results(M)
  PROVE  Top(shop, M, Cardinality(M)) = M
<1>1. /\ s \in Seq(M) /\ Len(s) = Cardinality(M) /\ Len(s) \in Nat
      /\ \A i \in 1..Len(s) : Rank(shop, M, s[i]) = i - 1
      /\ M = ToSet(s)
  BY ResultRanks
<1>2. \A f \in M : Rank(shop, M, f) < Cardinality(M)
  <2> TAKE f \in M
  <2>1. PICK i \in 1..Len(s) : s[i] = f
    <3>1. s \in Seq(M) /\ f \in ToSet(s)
      BY <1>1
    <3> QED BY <3>1, AtSome
  <2>2. Rank(shop, M, f) = i - 1
    BY <1>1, <2>1
  <2> QED BY <1>1, <2>2
<1> QED BY <1>2 DEF Top

LEMMA BrowseRowsStep ==
  ASSUME ReadsAssumption, ReadsInv, NEW p \in Api, BrowseRows(p)
  PROVE  ReadsInv'
<1>1. PICK g : g = handler[p]
  OBVIOUS
<1>2. IsVisit(g) /\ g.at = "rows"
  BY <1>1, AtRead DEF BrowseRows, At
<1>3. PICK M : M = Matches(shop, g.publisher)
  OBVIOUS
<1>4. M \subseteq Fonts /\ Cardinality(M) \in Nat /\ Matching(g.publisher) = M
  BY <1>3, MatchesIs, AsRead
<1>5. PICK hasNext \in BOOLEAN : hasNext <=> g.page * PageSize < g.total
  OBVIOUS
<1>6. PICK s \in Results(M) :
        Suspend(p, [g EXCEPT !.at = IF hasNext THEN "count" ELSE "browsed",
                             !.page = IF hasNext THEN @ + 1 ELSE @,
                             !.seen = @ \o PageOf(s, g.page)])
  BY <1>1, <1>4, <1>5 DEF BrowseRows
<1>7. shop \in [Fonts -> Font]
  BY DEF ReadsInv
<1>8. g.page \in Nat \ {0} /\ g.seen \in Seq(Fonts) /\ g.total \in Nat
  BY <1>2 DEF IsVisit
<1>9. PICK more : more = g.seen \o PageOf(s, g.page)
  OBVIOUS
<1>10. more \in Seq(Fonts)
  <2>1. s \in Seq(M)
    BY <1>4, <1>7, ResultRanks
  <2>2. s \in Seq(Fonts)
    BY <1>4, <2>1, SeqMonotonic
  <2>3. PageOf(s, g.page) \in Seq(Fonts)
    BY <1>8, <2>2, PageOfType
  <2> QED BY <1>8, <1>9, <2>3, Joined
<1>11. PICK h : h = [g EXCEPT !.at = IF hasNext THEN "count" ELSE "browsed",
                              !.page = IF hasNext THEN @ + 1 ELSE @, !.seen = more]
  OBVIOUS
<1>12. /\ h.at = (IF hasNext THEN "count" ELSE "browsed")
       /\ h.page = (IF hasNext THEN g.page + 1 ELSE g.page)
       /\ h.publisher = g.publisher /\ h.seen = more /\ h.total = g.total
       /\ h = [at |-> h.at, page |-> h.page, publisher |-> h.publisher, seen |-> h.seen,
               total |-> h.total]
  BY <1>2, <1>11 DEF IsVisit
<1>13. IsVisit(h)
  <2>1. h.page \in Nat \ {0}
    BY <1>8, <1>12
  <2>2. h.at \in {"count", "rows", "browsed"}
    BY <1>12
  <2> QED BY <1>8, <1>10, <1>12, <2>1, <2>2 DEF IsVisit
<1>14. p \notin moved => Follows(h, shop, hits)
  <2> SUFFICES ASSUME p \notin moved PROVE Follows(h, shop, hits)
    OBVIOUS
  <2>1. BrowseFollows(g, M, shop)
    BY <1>1, <1>2, <1>3 DEF ReadsInv, Follows
  <2>2. /\ Skip(g.page) <= Cardinality(M) /\ Len(g.seen) = Skip(g.page)
        /\ ToSet(g.seen) = Top(shop, M, Skip(g.page))
        /\ g.total = Cardinality(M) /\ (g.publisher # None => M # {})
    BY <1>2, <2>1 DEF BrowseFollows
  <2>3. PICK to : to = Reach(g.page, Cardinality(M))
    OBVIOUS
  <2>4. Len(more) = to /\ ToSet(more) = Top(shop, M, to)
    BY <1>4, <1>7, <1>8, <1>9, <2>2, <2>3, NextPage
  <2>5. CASE hasNext
    <3>1. g.page * PageSize < Cardinality(M) /\ Skip(h.page) = g.page * PageSize
      BY <1>5, <1>8, <1>12, <2>2, <2>5, Skips
    <3>2. to = Skip(h.page) /\ Skip(h.page) <= Cardinality(M)
      <4>1. g.page * PageSize \in Nat
        BY <1>8, Skips
      <4> QED BY <1>4, <2>3, <3>1, <4>1 DEF Reach
    <3>3. h.at = "count"
      BY <1>12, <2>5
    <3>4. BrowseFollows(h, M, shop)
      BY <1>12, <2>2, <2>4, <3>2, <3>3 DEF BrowseFollows
    <3> QED BY <1>3, <1>12, <1>13, <3>4, OneKind DEF Follows
  <2>6. CASE ~hasNext
    <3>1. to = Cardinality(M)
      BY <1>5, <2>2, <2>3, <2>6 DEF Reach
    <3>2. Top(shop, M, Cardinality(M)) = M
      BY <1>4, <1>7, TopIsAll
    <3>3. h.at = "browsed"
      BY <1>12, <2>6
    <3>4. BrowseFollows(h, M, shop)
      BY <1>12, <2>2, <2>4, <3>1, <3>2, <3>3 DEF BrowseFollows
    <3> QED BY <1>3, <1>12, <1>13, <3>4, OneKind DEF Follows
  <2> QED BY <2>5, <2>6
<1>15. Suspend(p, h) /\ UNCHANGED <<shop, hits, moved>>
  BY <1>6, <1>9, <1>11 DEF BrowseRows, readVars
<1> QED BY <1>13, <1>14, <1>15, ReadStep DEF IsRead

LEMMA ReadEnds ==
  ASSUME ReadsAssumption, ReadsInv, NEW p \in Api, Finish(p), UNCHANGED readVars
  PROVE  ReadsInv'
<1>1. PICK h : h = Idle
  OBVIOUS
<1>2. IsRead(h) /\ Follows(h, shop, hits)
  BY <1>1, OneKind DEF IsRead, Follows
<1>3. Suspend(p, h) /\ UNCHANGED <<shop, hits, moved>>
  BY <1>1 DEF Finish, readVars
<1> QED BY <1>2, <1>3, ReadStep

LEMMA ReadFiltersStep ==
  ASSUME ReadsAssumption, ReadsInv, NEW p \in Api, ReadFilters(p)
  PROVE  ReadsInv'
<1>1. PICK h : h = [at |-> "filters", offered |-> OfferedPublishers]
  OBVIOUS
<1>2. IsOffer(h) /\ h.offered = Offered(shop)
  BY <1>1, AsRead DEF IsOffer
<1>3. IsRead(h) /\ Follows(h, shop, hits)
  BY <1>2, OneKind DEF IsRead, Follows
<1>4. Suspend(p, h) /\ moved' = moved \ {p} /\ UNCHANGED <<shop, hits>>
  BY <1>1 DEF ReadFilters, Begin
<1> QED BY <1>3, <1>4, ReadStep

LEMMA PickFilterStep ==
  ASSUME ReadsAssumption, ReadsInv, NEW p \in Api, PickFilter(p)
  PROVE  ReadsInv'
<1>1. CASE Finish(p)
  BY <1>1, ReadEnds DEF PickFilter
<1>2. CASE \E publisher \in handler[p].offered : Suspend(p, Visit(publisher))
  <2>1. PICK publisher \in handler[p].offered : Suspend(p, Visit(publisher))
    BY <1>2
  <2>2. PICK h : h = Visit(publisher)
    OBVIOUS
  <2>3. p \notin moved => Matches(shop, publisher) # {}
    <3> SUFFICES ASSUME p \notin moved PROVE Matches(shop, publisher) # {}
      OBVIOUS
    <3>1. IsOffer(handler[p])
      BY AtRead DEF PickFilter
    <3>2. handler[p].offered = Offered(shop)
      BY <3>1 DEF ReadsInv, Follows
    <3>3. PICK f \in Approved(shop) : publisher = shop[f].publisher
      BY <2>1, <3>2 DEF Offered
    <3>4. f \in Matches(shop, publisher)
      BY <3>3 DEF Matches
    <3> QED BY <3>4
  <2>4. IsRead(h) /\ (p \notin moved => Follows(h, shop, hits))
    BY <2>2, <2>3, VisitFollows
  <2>5. Suspend(p, h) /\ UNCHANGED <<shop, hits, moved>>
    BY <2>1, <2>2 DEF PickFilter, readVars
  <2> QED BY <2>4, <2>5, ReadStep
<1> QED BY <1>1, <1>2 DEF PickFilter

-----------------------------------------------------------------------------
(* The steps of a search.                                                  *)

LEMMA HitsAre ==
  ASSUME ReadsAssumption, NEW idx, idx \subseteq Fonts
  PROVE  /\ IsFiniteSet(idx) /\ Cardinality(idx) \in Nat
         /\ Ascending(idx) \in Seq(idx) /\ Ascending(idx) \in Seq(Fonts)
         /\ Len(Ascending(idx)) = Cardinality(idx)
         /\ \A k \in 1..Cardinality(idx) : HitRank(idx, Ascending(idx)[k]) = k - 1
<1>1. idx \in SUBSET Fonts /\ idx \subseteq Nat /\ IsFiniteSet(Fonts)
  BY DEF ReadsAssumption
<1>2. IsFiniteSet(idx)
  BY <1>1, FS_Subset
<1>3. /\ Cardinality(idx) \in Nat /\ DOMAIN Ascending(idx) = 1..Cardinality(idx)
      /\ \A k \in 1..Cardinality(idx) :
           /\ Ascending(idx)[k] \in idx
           /\ Cardinality({y \in idx : y < Ascending(idx)[k]}) = k - 1
  BY <1>1, <1>2, AscendingRows
<1>4. Ascending(idx) \in [1..Cardinality(idx) -> idx]
  <2> DEFINE At1(k) == CHOOSE x \in idx : Cardinality({y \in idx : y < x}) = k - 1
  <2>1. Ascending(idx) = [k \in 1..Cardinality(idx) |-> At1(k)]
    BY DEF Ascending
  <2> HIDE DEF At1
  <2> QED BY <1>3, <2>1
<1>5. Ascending(idx) \in Seq(idx) /\ Len(Ascending(idx)) = Cardinality(idx)
  BY <1>3, <1>4
<1>6. \A k \in 1..Cardinality(idx) : HitRank(idx, Ascending(idx)[k]) = k - 1
  BY <1>3 DEF HitRank
<1> QED BY <1>1, <1>2, <1>3, <1>5, <1>6, SeqMonotonic

LEMMA HitAt ==
  ASSUME ReadsAssumption, NEW idx, idx \subseteq Fonts, NEW f \in idx
  PROVE  /\ HitRank(idx, f) + 1 \in 1..Cardinality(idx)
         /\ Ascending(idx)[HitRank(idx, f) + 1] = f
<1>1. idx \in SUBSET Fonts /\ idx \subseteq Nat /\ IsFiniteSet(Fonts)
  BY DEF ReadsAssumption
<1>2. IsFiniteSet(idx) /\ HitRank(idx, f) \in Nat
  BY <1>1, FS_Subset, HitRanksIn
<1>3. PICK k \in Nat : k = HitRank(idx, f) + 1
  BY <1>2
<1>4. k = Cardinality({y \in idx : y < f}) + 1
  BY <1>3 DEF HitRank
<1>5. k \in 1..Cardinality(idx) /\ Ascending(idx)[k] = f
  BY <1>1, <1>2, <1>4, AscendingAt
<1> QED BY <1>3, <1>5

\* The hits on a page are those of a rank between its ends, each once.
Between(idx, from, to) == {f \in idx : from <= HitRank(idx, f) /\ HitRank(idx, f) < to}

LEMMA HitsOnPage ==
  ASSUME ReadsAssumption, NEW idx, idx \subseteq Fonts, NEW page \in Nat \ {0},
         Skip(page) <= Cardinality(idx)
  PROVE  LET ids == PageOf(Ascending(idx), page)
             to == Reach(page, Cardinality(idx)) IN
         /\ ids \in Seq(Fonts) /\ Len(ids) = to - Skip(page)
         /\ ToSet(ids) = Between(idx, Skip(page), to) /\ IsInjective(ids)
<1> DEFINE ids == PageOf(Ascending(idx), page)
           to == Reach(page, Cardinality(idx))
<1>1. PICK s : s = Ascending(idx)
  OBVIOUS
<1>2. /\ Cardinality(idx) \in Nat /\ s \in Seq(idx) /\ Len(s) = Cardinality(idx)
      /\ \A k \in 1..Len(s) : HitRank(idx, s[k]) = k - 1
  BY <1>1, HitsAre
<1>3. ids = PageOf(s, page)
  BY <1>1
<1>4. PICK skip \in Nat : skip = Skip(page)
  BY Skips
<1>5. to \in Nat /\ to = Reach(page, Cardinality(idx))
  BY <1>2, Reaches
<1>6. skip <= to /\ to <= Len(s)
  BY <1>2, <1>4, <1>5, Reaches
<1> HIDE DEF ids, to
<1>7. /\ ids \in Seq(idx) /\ Len(ids) = to - skip
      /\ \A j \in 1..Len(ids) : skip + j \in 1..Len(s) /\ ids[j] = s[skip + j]
      /\ ToSet(ids) = {s[i] : i \in (skip + 1)..to}
  <2>1. /\ PageOf(s, page) \in Seq(idx)
        /\ Len(PageOf(s, page)) = Reach(page, Len(s)) - Skip(page)
        /\ \A j \in 1..Len(PageOf(s, page)) :
             Skip(page) + j \in 1..Len(s) /\ PageOf(s, page)[j] = s[Skip(page) + j]
        /\ ToSet(PageOf(s, page)) = {s[i] : i \in (Skip(page) + 1)..Reach(page, Len(s))}
    <3>1. s \in Seq(idx) /\ Skip(page) <= Len(s)
      BY <1>2
    <3> QED BY <3>1, PageIs
  <2>0. Len(s) = Cardinality(idx)
    BY <1>2
  <2>2. Reach(page, Len(s)) = to
    BY <1>5, <2>0, Zenon
  <2>3. ids \in Seq(idx) /\ Len(ids) = to - skip
    BY <1>3, <1>4, <2>1, <2>2
  <2>4. \A j \in 1..Len(ids) : skip + j \in 1..Len(s) /\ ids[j] = s[skip + j]
    BY <1>3, <1>4, <2>1
  <2>5. ToSet(ids) = {s[i] : i \in (skip + 1)..to}
    BY <1>3, <1>4, <2>1, <2>2
  <2> QED BY <2>3, <2>4, <2>5
<1>8. ids \in Seq(Fonts)
  BY <1>7, SeqMonotonic
<1>9. ToSet(ids) = Between(idx, skip, to)
  <2>1. ASSUME NEW i \in (skip + 1)..to
        PROVE  s[i] \in idx /\ skip <= HitRank(idx, s[i]) /\ HitRank(idx, s[i]) < to
    <3>1. i \in 1..Len(s) /\ i \in Nat /\ skip <= i - 1 /\ i - 1 < to
      BY <1>2, <1>5, <1>6
    <3> QED BY <1>2, <3>1
  <2>2. ASSUME NEW f \in idx, skip <= HitRank(idx, f), HitRank(idx, f) < to
        PROVE  \E i \in (skip + 1)..to : f = s[i]
    <3>1. s[HitRank(idx, f) + 1] = f /\ HitRank(idx, f) \in Nat
      BY <1>1, HitAt, HitRanksIn
    <3>2. HitRank(idx, f) + 1 \in (skip + 1)..to
      BY <1>5, <2>2, <3>1
    <3> QED BY <3>1, <3>2
  <2>3. {s[i] : i \in (skip + 1)..to} = Between(idx, skip, to)
    BY <2>1, <2>2 DEF Between
  <2> QED BY <1>7, <2>3
<1>10. IsInjective(ids)
  <2>0. DOMAIN ids = 1..Len(ids)
    BY <1>7
  <2> SUFFICES ASSUME NEW i \in 1..Len(ids), NEW j \in 1..Len(ids), ids[i] = ids[j]
               PROVE  i = j
    BY <2>0 DEF IsInjective
  <2>1. \A k \in 1..Len(ids) : HitRank(idx, ids[k]) = skip + k - 1
    <3> TAKE k \in 1..Len(ids)
    <3>1. skip + k \in 1..Len(s) /\ ids[k] = s[skip + k]
      BY <1>7
    <3> QED BY <1>2, <3>1
  <2>2. HitRank(idx, ids[i]) = skip + i - 1 /\ HitRank(idx, ids[j]) = skip + j - 1
    BY <2>1
  <2> QED BY <1>7, <2>2
<1>11. /\ ids \in Seq(Fonts) /\ Len(ids) = to - Skip(page)
       /\ ToSet(ids) = Between(idx, Skip(page), to) /\ IsInjective(ids)
  BY <1>4, <1>7, <1>8, <1>9, <1>10
<1> QED BY <1>11 DEF ids, to

\* What a search has found, with the families behind another page of hits.
LEMMA NextHits ==
  ASSUME ReadsAssumption, shop \in [Fonts -> Font], hits \subseteq Fonts,
         NEW seen \in Seq(Fonts), NEW page \in Nat \ {0},
         Skip(page) <= Cardinality(hits),
         ToSet(seen) = TopHits(shop, hits, Skip(page)), Len(seen) = Cardinality(ToSet(seen))
  PROVE  LET more == seen \o Fetched(PageOf(Ranked, page))
             to == Reach(page, Cardinality(hits)) IN
         /\ ToSet(more) = TopHits(shop, hits, to)
         /\ Len(more) = Cardinality(ToSet(more))
<1>1. PICK idx : idx = hits
  OBVIOUS
<1>2. PICK ids : ids = PageOf(Ascending(idx), page)
  OBVIOUS
<1>3. PICK skip \in Nat : skip = Skip(page)
  BY Skips
<1>4. Cardinality(idx) \in Nat /\ IsFiniteSet(idx)
  BY <1>1, HitsAre
<1>5. PICK to \in Nat : to = Reach(page, Cardinality(idx))
  BY <1>1, <1>4, Reaches
<1>6. skip <= to
  BY <1>1, <1>3, <1>4, <1>5, Reaches
<1>7. /\ ids \in Seq(Fonts)
      /\ ToSet(ids) = Between(idx, skip, to) /\ IsInjective(ids)
  <2>1. LET found == PageOf(Ascending(idx), page)
            end == Reach(page, Cardinality(idx)) IN
        /\ found \in Seq(Fonts) /\ IsInjective(found)
        /\ ToSet(found) = Between(idx, Skip(page), end)
    BY <1>1, HitsOnPage
  <2>2. /\ ids \in Seq(Fonts)
        /\ ToSet(ids) = Between(idx, Skip(page), to) /\ IsInjective(ids)
    BY <1>2, <1>5, <2>1
  <2>3. ToSet(ids) = Between(idx, skip, to)
    BY <1>3, <2>2, Zenon
  <2> QED BY <2>2, <2>3, Zenon
<1>8. PICK found : found = Fetched(ids)
  OBVIOUS
<1>9. /\ found \in Seq(Fonts) /\ ToSet(found) = ToSet(ids) \cap Approved(shop)
      /\ Len(found) = Cardinality(ToSet(found))
  BY <1>7, <1>8, FetchedIs, AsRead
<1>10. /\ Len(seen \o found) = Len(seen) + Len(found)
       /\ ToSet(seen \o found) = ToSet(seen) \cup ToSet(found)
  BY <1>9, Joined
<1>11. \A f \in idx : HitRank(idx, f) \in Nat
  BY <1>1, HitRanksIn
<1>12. ToSet(seen) = {f \in idx \cap Approved(shop) : HitRank(idx, f) < skip}
  BY <1>1, <1>3 DEF TopHits
<1>13. ToSet(seen) \cup ToSet(found) = {f \in idx \cap Approved(shop) : HitRank(idx, f) < to}
  <2>1. \A f \in idx : HitRank(idx, f) < skip \/ (skip <= HitRank(idx, f) /\ HitRank(idx, f) < to)
                         <=> HitRank(idx, f) < to
    BY <1>6, <1>11
  <2> QED BY <1>7, <1>9, <1>12, <2>1 DEF Between
<1>14. ToSet(seen) \cap ToSet(found) = {}
  <2>1. \A f \in idx : ~(HitRank(idx, f) < skip /\ skip <= HitRank(idx, f))
    BY <1>11
  <2> QED BY <1>7, <1>9, <1>12, <2>1 DEF Between
<1>15. Cardinality(ToSet(seen) \cup ToSet(found)) = Len(seen) + Len(found)
  <2>1. ToSet(seen) \in SUBSET idx /\ ToSet(found) \in SUBSET idx
    BY <1>7, <1>9, <1>12 DEF Between
  <2>2. IsFiniteSet(ToSet(seen)) /\ IsFiniteSet(ToSet(found))
    BY <1>4, <2>1, FS_Subset
  <2>3. Cardinality(ToSet(seen) \cup ToSet(found))
          = Cardinality(ToSet(seen)) + Cardinality(ToSet(found))
              - Cardinality(ToSet(seen) \cap ToSet(found))
    BY <2>2, FS_Union
  <2>4. Cardinality(ToSet(seen) \cap ToSet(found)) = 0
    BY <1>14, FS_EmptySet
  <2>5. Cardinality(ToSet(seen)) \in Nat /\ Cardinality(ToSet(found)) \in Nat
    BY <2>2, FS_CardinalityType
  <2> QED BY <1>9, <2>3, <2>4, <2>5
<1>16. TopHits(shop, hits, to) = {f \in idx \cap Approved(shop) : HitRank(idx, f) < to}
  BY <1>1 DEF TopHits
<1>17. ToSet(seen \o found) = TopHits(shop, hits, to)
  BY <1>10, <1>13, <1>16
<1>18. Len(seen \o found) = Cardinality(ToSet(seen \o found))
  BY <1>10, <1>15
<1> QED BY <1>1, <1>2, <1>5, <1>8, <1>17, <1>18 DEF Ranked

LEMMA TopHitsAll ==
  ASSUME ReadsAssumption, NEW cat, NEW idx, idx \subseteq Fonts
  PROVE  TopHits(cat, idx, Cardinality(idx)) = idx \cap Approved(cat)
<1>1. \A f \in idx : HitRank(idx, f) < Cardinality(idx)
  <2> TAKE f \in idx
  <2>1. /\ HitRank(idx, f) + 1 \in 1..Cardinality(idx)
        /\ HitRank(idx, f) \in Nat /\ Cardinality(idx) \in Nat
    BY HitAt, HitRanksIn, HitsAre
  <2> QED BY <2>1
<1> QED BY <1>1 DEF TopHits

LEMMA SearchBeginStep ==
  ASSUME ReadsAssumption, ReadsInv, NEW p \in Api, SearchBegin(p)
  PROVE  ReadsInv'
<1>1. PICK h : h = [at |-> "ask", page |-> 1, ids |-> <<>>, total |-> 0, seen |-> <<>>]
  OBVIOUS
<1>2. /\ h.at = "ask" /\ h.page = 1 /\ h.ids = <<>> /\ h.total = 0 /\ h.seen = <<>>
  BY <1>1
<1>3. IsSearch(h)
  BY <1>1, <1>2 DEF IsSearch
<1>4. SearchFollows(h, shop, hits)
  <2>1. /\ TopHits(shop, hits, 0) = {} /\ ToSet(<<>>) = {} /\ Skip(1) = 0 /\ Len(<<>>) = 0
        /\ Cardinality({}) = 0 /\ Cardinality(hits) \in Nat
    BY NoneSeen DEF ReadsInv
  <2>2. Skip(h.page) = 0 /\ 0 <= Cardinality(hits)
    BY <1>2, <2>1
  <2>3. ToSet(h.seen) = {}
    BY <1>2, <2>1
  <2>4. Len(h.seen) = 0
    BY <1>2, <2>1
  <2>5. TopHits(shop, hits, Skip(h.page)) = {}
    BY <2>1, <2>2
  <2>6. Len(h.seen) = Cardinality(ToSet(h.seen))
    BY <2>1, <2>3, <2>4
  <2>7. h.at # "fetch" /\ h.at # "searched"
    BY <1>2
  <2> QED BY <2>2, <2>3, <2>5, <2>6, <2>7 DEF SearchFollows
<1>5. Follows(h, shop, hits)
  BY <1>3, <1>4, OneKind DEF Follows
<1>6. Suspend(p, h) /\ moved' = moved \ {p} /\ UNCHANGED <<shop, hits>>
  BY <1>1 DEF SearchBegin, Begin
<1> QED BY <1>3, <1>5, <1>6, ReadStep DEF IsRead

LEMMA SearchAskStep ==
  ASSUME ReadsAssumption, ReadsInv, NEW p \in Api, SearchAsk(p)
  PROVE  ReadsInv'
<1>1. PICK g : g = handler[p]
  OBVIOUS
<1>2. IsSearch(g) /\ g.at = "ask"
  BY <1>1, AtRead DEF SearchAsk, At
<1>3. /\ g.page \in Nat \ {0} /\ g.seen \in Seq(Fonts) /\ hits \subseteq Fonts
  BY <1>2 DEF IsSearch, ReadsInv
<1>4. Cardinality(hits) \in Nat /\ Ranked \in Seq(Fonts) /\ Ranked = Ascending(hits)
  BY <1>3, HitsAre DEF Ranked
<1>5. PICK ids : ids = PageOf(Ranked, g.page)
  OBVIOUS
<1>6. ids \in Seq(Fonts)
  BY <1>3, <1>4, <1>5, PageOfType
<1>7. PICK h : h = [g EXCEPT !.at = IF ids = <<>> THEN "searched" ELSE "fetch",
                             !.ids = ids, !.total = Cardinality(hits)]
  OBVIOUS
<1>8. /\ h.at = (IF ids = <<>> THEN "searched" ELSE "fetch")
      /\ h.page = g.page /\ h.ids = ids /\ h.total = Cardinality(hits) /\ h.seen = g.seen
      /\ h = [at |-> h.at, page |-> h.page, ids |-> h.ids, total |-> h.total, seen |-> h.seen]
  BY <1>2, <1>7 DEF IsSearch
<1>9. IsSearch(h)
  BY <1>3, <1>4, <1>6, <1>8 DEF IsSearch
<1>10. p \notin moved => Follows(h, shop, hits)
  <2> SUFFICES ASSUME p \notin moved PROVE Follows(h, shop, hits)
    OBVIOUS
  <2>1. SearchFollows(g, shop, hits)
    BY <1>1, <1>2 DEF ReadsInv, Follows
  <2>2. /\ Skip(g.page) <= Cardinality(hits)
        /\ ToSet(g.seen) = TopHits(shop, hits, Skip(g.page))
        /\ Len(g.seen) = Cardinality(ToSet(g.seen))
    BY <1>2, <2>1 DEF SearchFollows
  <2>3. CASE ids = <<>>
    <3>1. Len(ids) = Reach(g.page, Cardinality(hits)) - Skip(g.page)
      BY <1>3, <1>4, <1>5, <2>2, HitsOnPage
    <3>2. Len(ids) = 0
      BY <2>3
    <3>3. /\ Skip(g.page) \in Nat /\ Skip(g.page) + PageSize = g.page * PageSize
          /\ g.page * PageSize \in Nat /\ PageSize \in Nat \ {0}
      BY <1>3, Skips DEF ReadsAssumption
    <3>4. Skip(g.page) = Cardinality(hits)
      BY <1>4, <3>1, <3>2, <3>3 DEF Reach
    <3>5. ToSet(g.seen) = hits \cap Approved(shop)
      BY <1>3, <2>2, <3>4, TopHitsAll
    <3>6. h.at = "searched"
      BY <1>8, <2>3
    <3>7. SearchFollows(h, shop, hits)
      BY <1>8, <2>2, <3>5, <3>6 DEF SearchFollows
    <3> QED BY <1>9, <3>7, OneKind DEF Follows
  <2>4. CASE ids # <<>>
    <3>1. h.at = "fetch"
      BY <1>8, <2>4
    <3>2. h.ids = PageOf(Ascending(hits), h.page)
      BY <1>4, <1>5, <1>8
    <3>3. SearchFollows(h, shop, hits)
      BY <1>8, <2>2, <3>1, <3>2 DEF SearchFollows
    <3> QED BY <1>9, <3>3, OneKind DEF Follows
  <2> QED BY <2>3, <2>4
<1>11. Suspend(p, h) /\ UNCHANGED <<shop, hits, moved>>
  BY <1>1, <1>5, <1>7 DEF SearchAsk, readVars
<1> QED BY <1>9, <1>10, <1>11, ReadStep DEF IsRead

LEMMA SearchFetchStep ==
  ASSUME ReadsAssumption, ReadsInv, NEW p \in Api, SearchFetch(p)
  PROVE  ReadsInv'
<1>1. PICK g : g = handler[p]
  OBVIOUS
<1>2. IsSearch(g) /\ g.at = "fetch"
  BY <1>1, AtRead DEF SearchFetch, At
<1>3. /\ g.page \in Nat \ {0} /\ g.seen \in Seq(Fonts) /\ g.ids \in Seq(Fonts) /\ g.total \in Nat
      /\ hits \subseteq Fonts /\ shop \in [Fonts -> Font]
  BY <1>2 DEF IsSearch, ReadsInv
<1>4. Cardinality(hits) \in Nat /\ Ranked = Ascending(hits)
  BY <1>3, HitsAre DEF Ranked
<1>5. PICK more : more = g.seen \o Fetched(g.ids)
  OBVIOUS
<1>6. more \in Seq(Fonts)
  BY <1>3, <1>5, FetchedIs, Joined
<1>7. PICK hasNext \in BOOLEAN : hasNext <=> g.page * PageSize < g.total
  OBVIOUS
<1>8. PICK h : h = [g EXCEPT !.at = IF hasNext THEN "ask" ELSE "searched",
                             !.page = IF hasNext THEN @ + 1 ELSE @, !.seen = more]
  OBVIOUS
<1>9. /\ h.at = (IF hasNext THEN "ask" ELSE "searched")
      /\ h.page = (IF hasNext THEN g.page + 1 ELSE g.page)
      /\ h.ids = g.ids /\ h.total = g.total /\ h.seen = more
      /\ h = [at |-> h.at, page |-> h.page, ids |-> h.ids, total |-> h.total, seen |-> h.seen]
  BY <1>2, <1>8 DEF IsSearch
<1>10. IsSearch(h)
  <2>1. h.page \in Nat \ {0}
    BY <1>3, <1>9
  <2>2. h.at \in {"ask", "fetch", "searched"}
    BY <1>9
  <2> QED BY <1>3, <1>6, <1>9, <2>1, <2>2 DEF IsSearch
<1>11. p \notin moved => Follows(h, shop, hits)
  <2> SUFFICES ASSUME p \notin moved PROVE Follows(h, shop, hits)
    OBVIOUS
  <2>1. SearchFollows(g, shop, hits)
    BY <1>1, <1>2 DEF ReadsInv, Follows
  <2>2. /\ Skip(g.page) <= Cardinality(hits)
        /\ ToSet(g.seen) = TopHits(shop, hits, Skip(g.page))
        /\ Len(g.seen) = Cardinality(ToSet(g.seen))
        /\ g.ids = PageOf(Ranked, g.page) /\ g.total = Cardinality(hits)
    BY <1>2, <1>4, <2>1 DEF SearchFollows
  <2>3. PICK to : to = Reach(g.page, Cardinality(hits))
    OBVIOUS
  <2>4. ToSet(more) = TopHits(shop, hits, to) /\ Len(more) = Cardinality(ToSet(more))
    BY <1>3, <1>5, <2>2, <2>3, NextHits
  <2>5. CASE hasNext
    <3>1. g.page * PageSize < Cardinality(hits) /\ Skip(h.page) = g.page * PageSize
      BY <1>3, <1>7, <1>9, <2>2, <2>5, Skips
    <3>2. to = Skip(h.page) /\ Skip(h.page) <= Cardinality(hits)
      <4>1. g.page * PageSize \in Nat
        BY <1>3, Skips
      <4> QED BY <1>4, <2>3, <3>1, <4>1 DEF Reach
    <3>3. h.at = "ask"
      BY <1>9, <2>5
    <3>4. SearchFollows(h, shop, hits)
      BY <1>9, <2>4, <3>2, <3>3 DEF SearchFollows
    <3> QED BY <1>10, <3>4, OneKind DEF Follows
  <2>6. CASE ~hasNext
    <3>1. to = Cardinality(hits)
      BY <1>7, <2>2, <2>3, <2>6 DEF Reach
    <3>2. TopHits(shop, hits, Cardinality(hits)) = hits \cap Approved(shop)
      BY <1>3, TopHitsAll
    <3>3. h.at = "searched"
      BY <1>9, <2>6
    <3>4. SearchFollows(h, shop, hits)
      BY <1>9, <2>4, <3>1, <3>2, <3>3 DEF SearchFollows
    <3> QED BY <1>10, <3>4, OneKind DEF Follows
  <2> QED BY <2>5, <2>6
<1>12. Suspend(p, h) /\ UNCHANGED <<shop, hits, moved>>
  BY <1>1, <1>5, <1>7, <1>8 DEF SearchFetch, readVars
<1> QED BY <1>10, <1>11, <1>12, ReadStep DEF IsRead

LEMMA ReadsInvariant == ReadsSpec => []ReadsInv
<1>1. HandlersIdle /\ ReadsInit => ReadsInv
  <2> SUFFICES ASSUME HandlersIdle, ReadsInit PROVE ReadsInv
    OBVIOUS
  <2>1. handler = [p \in Api |-> handler[p]] /\ \A p \in Api : handler[p] = Idle
    BY DEF HandlersIdle
  <2>2. \A p \in Api : IsRead(handler[p]) /\ Follows(handler[p], shop, hits)
    BY <2>1, OneKind DEF IsRead, Follows
  <2>3. shop \in [Fonts -> Font]
    <3>1. 0 \in 0..MaxTime
      BY ReadsAssumption DEF ReadsAssumption
    <3>2. \A row \in [approved: {FALSE}, published: {0}, publisher: Publishers] : row \in Font
      BY <3>1 DEF Font
    <3> QED BY <3>2 DEF ReadsInit
  <2> QED BY <2>1, <2>2, <2>3 DEF ReadsInit, ReadsInv
<1>2. ReadsInv /\ [BrowseNext \/ SearchNext]_<<readVars, handler>> => ReadsInv'
  <2> SUFFICES ASSUME ReadsInv, [BrowseNext \/ SearchNext]_<<readVars, handler>>
               PROVE  ReadsInv'
    OBVIOUS
  <2>1. CASE UNCHANGED <<readVars, handler>>
    <3>1. UNCHANGED <<shop, hits, moved, handler>>
      BY <2>1 DEF readVars
    <3>2. \A q \in Api : IsRead(handler'[q])
      BY <3>1 DEF ReadsInv
    <3>3. \A q \in Api : IsRead(handler[q])'
      BY <3>2 DEF IsRead, IsVisit, IsOffer, IsSearch
    <3>4. \A q \in Api \ moved' : Follows(handler'[q], shop', hits')
      BY <3>1 DEF ReadsInv
    <3> QED BY <3>1, <3>3, <3>4 DEF ReadsInv
  <2>2. CASE CatalogueMoves
    BY <2>2, ReadsAssumption, MoveStep DEF CatalogueMoves
  <2>3. CASE \E f \in Fonts : Reindex(f)
    BY <2>3, ReadsAssumption, MoveStep
  <2>4. CASE \E p \in Api : \/ BrowseBegin(p) \/ BrowseCount(p) \/ BrowseRows(p) \/ BrowseEnd(p)
                            \/ ReadFilters(p) \/ PickFilter(p)
    BY <2>4, ReadsAssumption, BrowseBeginStep, BrowseCountStep, BrowseRowsStep, ReadEnds,
       ReadFiltersStep, PickFilterStep DEF BrowseEnd
  <2>5. CASE \E p \in Api : \/ SearchBegin(p) \/ SearchAsk(p) \/ SearchFetch(p) \/ SearchEnd(p)
    BY <2>5, ReadsAssumption, SearchBeginStep, SearchAskStep, SearchFetchStep, ReadEnds
       DEF SearchEnd
  <2> QED BY <2>1, <2>2, <2>3, <2>4, <2>5 DEF BrowseNext, SearchNext
<1> QED BY <1>1, <1>2, PTL DEF ReadsSpec

\* Pages of the catalogue and of a search lose and repeat nothing while it rests, and
\* a filter that was offered finds something (listFonts, getFilters, searchFonts).
THEOREM CataloguePagesComplete == ReadsSpec => []PagesComplete
<1>1. ReadsInv => BrowseComplete
  <2> SUFFICES ASSUME ReadsInv, NEW p \in Api \ moved, At(p, "browsed")
               PROVE  LET seen == handler[p].seen IN
                      /\ ToSet(seen) = Matching(handler[p].publisher)
                      /\ Len(seen) = Cardinality(ToSet(seen))
                      /\ handler[p].publisher # None => seen # <<>>
    BY DEF BrowseComplete
  <2>1. PICK g : g = handler[p]
    OBVIOUS
  <2>2. IsVisit(g) /\ g.at = "browsed"
    BY <2>1, AtRead DEF At
  <2>3. PICK M : M = Matching(g.publisher)
    OBVIOUS
  <2>4. BrowseFollows(g, M, shop)
    BY <2>1, <2>2, <2>3, AsRead DEF ReadsInv, Follows
  <2>5. /\ ToSet(g.seen) = M /\ Len(g.seen) = Cardinality(M)
        /\ g.publisher # None => M # {}
    BY <2>2, <2>4 DEF BrowseFollows
  <2>6. g.seen = <<>> => ToSet(g.seen) = {}
    BY DEF ToSet
  <2> QED BY <2>1, <2>3, <2>5, <2>6
<1>2. ReadsInv => SearchComplete
  <2> SUFFICES ASSUME ReadsInv, NEW p \in Api \ moved, At(p, "searched")
               PROVE  LET seen == handler[p].seen IN
                      /\ ToSet(seen) = hits \cap Public
                      /\ Len(seen) = Cardinality(ToSet(seen))
    BY DEF SearchComplete
  <2>1. IsSearch(handler[p]) /\ handler[p].at = "searched"
    BY AtRead DEF At
  <2>2. SearchFollows(handler[p], shop, hits)
    BY <2>1 DEF ReadsInv, Follows
  <2> QED BY <2>1, <2>2, AsRead DEF SearchFollows
<1> QED BY <1>1, <1>2, ReadsInvariant, PTL DEF PagesComplete

\* Every variable keeps its type.
THEOREM ReadsTyped == ReadsSpec => []ReadsTypeOK
<1>1. ReadsInv => ReadsTypeOK
  <2> SUFFICES ASSUME ReadsInv PROVE ReadsTypeOK
    OBVIOUS
  <2>1. \A p \in Api : IsRead(handler[p])
    BY DEF ReadsInv
  <2>2. \A h : IsRead(h) =>
          h.at \in {"idle", "count", "rows", "browsed", "filters", "ask", "fetch", "searched"}
    <3> SUFFICES ASSUME NEW h, IsRead(h)
                 PROVE  h.at \in {"idle", "count", "rows", "browsed", "filters", "ask", "fetch",
                                  "searched"}
      OBVIOUS
    <3>1. h = Idle => h.at = "idle"
      BY DEF Idle
    <3>2. IsVisit(h) => h.at \in {"count", "rows", "browsed"}
      BY DEF IsVisit
    <3>3. IsOffer(h) => h.at = "filters"
      BY DEF IsOffer
    <3>4. IsSearch(h) => h.at \in {"ask", "fetch", "searched"}
      BY DEF IsSearch
    <3> QED BY <3>1, <3>2, <3>3, <3>4 DEF IsRead
  <2> QED BY <2>1, <2>2 DEF ReadsInv, ReadsTypeOK
<1> QED BY <1>1, ReadsInvariant, PTL
=============================================================================
