---------------------- MODULE SubmissionUploadsProofs -----------------------
(***************************************************************************)
(* How far concurrent requests can exceed the limit of files: every row is *)
(* created by a handler that found room before, and at most one handler of *)
(* each request creates a row after the last one that found room.  And why *)
(* a submission leaves "processing" once its files are processed: only     *)
(* settling transactions that overlap with each other or with the record   *)
(* of a failure, or a crash, can leave it behind.                          *)
(***************************************************************************)
EXTENDS SubmissionLifecycleProofs, SequenceTheorems, FiniteSetTheorems

CreatePoints == {"init_commit", "direct_store", "direct_commit"}

\* Requests that have found room and not yet created their row.
Pending == {p \in Api : handler[p].at \in CreatePoints}

\* Everything else that a handler will write to has its row.
Kept(h) ==
  /\ h.todo \subseteq Existing
  /\ h.at \in CreatePoints \/ h.upload \in Existing \cup {None}

Tracked ==
  /\ \A p \in Procs : Kept(handler[p])
  /\ \A i \in 1..Len(jobs) : jobs[i] \in Existing
  /\ \A w \in Workers : handler[w].at \notin CreatePoints

\* Rows that exist and rows that are about to be created, together.
Room ==
  /\ IsFiniteSet(Existing)
  /\ Cardinality(Existing) + Cardinality(Pending) <= MaxUploads + Cardinality(Api) - 1

CapacityInv == IInv /\ Tracked /\ Room

LEMMA Types ==
  ASSUME IInv
  PROVE  /\ handler \in [Procs -> Handler]
         /\ uploads \in [Uploads -> ProcessingStates \cup {"none"}]
         /\ jobs \in Seq(Uploads)
BY DEF IInv, TypeOK

\* A step of one handler keeps track when no row goes and its record is kept.
LEMMA TrackedStep ==
  ASSUME LifecycleAssumption, IInv, Tracked, NEW p \in Procs, NEW h \in Handler,
         handler' = [handler EXCEPT ![p] = h], Existing \subseteq Existing', Kept(h)',
         \A i \in 1..Len(jobs') : jobs'[i] \in Existing',
         h.at \in CreatePoints => p \in Api
  PROVE  Tracked'
<1>1. \A q \in Procs : handler'[q] = IF q = p THEN h ELSE handler[q]
  BY Types
<1>2. \A q \in Procs : Kept(handler[q])'
  BY <1>1 DEF Kept, Tracked
<1>3. \A w \in Workers : handler'[w].at \notin CreatePoints
  BY <1>1 DEF Tracked, LifecycleAssumption, Procs
<1> QED
  BY <1>2, <1>3 DEF Tracked

\* A step that creates no row and finds no room.
LEMMA CalmStep ==
  ASSUME LifecycleAssumption, IsFiniteSet(Api), CapacityInv, IInv', NEW p \in Procs,
         NEW h \in Handler, handler' = [handler EXCEPT ![p] = h], Existing' = Existing, Kept(h),
         \A i \in 1..Len(jobs') : jobs'[i] \in Existing,
         h.at \in CreatePoints => handler[p].at \in CreatePoints
  PROVE  CapacityInv'
<1>1. \A q \in Procs : handler'[q] = IF q = p THEN h ELSE handler[q]
  BY Types DEF CapacityInv
<1>2. Kept(h)'
  BY DEF Kept
<1>3. h.at \in CreatePoints => p \in Api
  BY DEF CapacityInv, Tracked, Procs
<1>4. Tracked'
  BY <1>2, <1>3, TrackedStep DEF CapacityInv
<1>5. Pending' \subseteq Pending
  BY <1>1 DEF Pending, Procs
<1>6. IsFiniteSet(Pending)
  BY FS_Subset DEF Pending
<1>7. PICK P \in SUBSET Pending : P = Pending'
  BY <1>5
<1>8. Cardinality(P) <= Cardinality(Pending) /\ Cardinality(P) \in Nat /\ Cardinality(Pending) \in Nat
  BY <1>6, FS_Subset, FS_CardinalityType
<1>9. Cardinality(Existing) \in Nat /\ Cardinality(Api) \in Nat /\ MaxUploads \in Nat
  BY FS_CardinalityType DEF CapacityInv, Room, LifecycleAssumption
<1>10. Room'
  BY <1>7, <1>8, <1>9 DEF CapacityInv, Room
<1> QED
  BY <1>4, <1>10 DEF CapacityInv

\* A step that finds room: at most every request is about to create a row.
LEMMA FindStep ==
  ASSUME LifecycleAssumption, IsFiniteSet(Api), CapacityInv, IInv', NEW p \in Api,
         NEW h \in Handler, handler' = [handler EXCEPT ![p] = h], UNCHANGED <<uploads, jobs>>,
         HasCapacity, h.at \in CreatePoints, h.todo = {}
  PROVE  CapacityInv'
<1>1. Existing' = Existing /\ p \in Procs
  BY DEF Existing, Procs
<1>2. Kept(h)'
  BY DEF Kept
<1>3. \A i \in 1..Len(jobs') : jobs'[i] \in Existing'
  BY <1>1 DEF CapacityInv, Tracked
<1>4. Tracked'
  BY <1>1, <1>2, <1>3, TrackedStep DEF CapacityInv
<1>5. PICK P \in SUBSET Api : P = Pending'
  BY DEF Pending
<1>6. Cardinality(P) <= Cardinality(Api) /\ Cardinality(P) \in Nat /\ Cardinality(Api) \in Nat
  BY FS_Subset, FS_CardinalityType
<1>7. Cardinality(Existing) \in Nat /\ MaxUploads \in Nat
  BY FS_CardinalityType DEF CapacityInv, Room, LifecycleAssumption
<1>8. Room'
  BY <1>1, <1>5, <1>6, <1>7 DEF CapacityInv, Room, HasCapacity
<1> QED
  BY <1>4, <1>8 DEF CapacityInv

\* A step that creates a row: one row more, one pending request less.
LEMMA CreateStep ==
  ASSUME LifecycleAssumption, IsFiniteSet(Api), CapacityInv, IInv', NEW p \in Procs,
         handler[p].at \in CreatePoints, NEW u \in Uploads, u = handler[p].upload,
         uploads' = [uploads EXCEPT ![u] = "queued"], UNCHANGED jobs,
         NEW h \in Handler, handler' = [handler EXCEPT ![p] = h], h.at \notin CreatePoints,
         h.todo \subseteq {u}, h.upload \in {u, None}
  PROVE  CapacityInv'
<1>1. Existing' = Existing \cup {u}
  BY Types DEF Existing, CapacityInv
<1>2. p \in Api
  BY DEF CapacityInv, Tracked, Procs
<1>3. Kept(h)'
  BY <1>1 DEF Kept
<1>4. \A i \in 1..Len(jobs') : jobs'[i] \in Existing'
  BY <1>1 DEF CapacityInv, Tracked
<1>5. Tracked'
  BY <1>1, <1>2, <1>3, <1>4, TrackedStep DEF CapacityInv
<1>6. Pending' = Pending \ {p} /\ p \in Pending
  <2>1. \A q \in Procs : handler'[q] = IF q = p THEN h ELSE handler[q]
    BY Types DEF CapacityInv
  <2> QED BY <1>2, <2>1 DEF Pending, Procs
<1>7. IsFiniteSet(Pending)
  BY FS_Subset DEF Pending
<1>8. Cardinality(Pending \ {p}) = Cardinality(Pending) - 1 /\ Cardinality(Pending) \in Nat
  BY <1>6, <1>7, FS_RemoveElement, FS_CardinalityType
<1>9. /\ IsFiniteSet(Existing \cup {u})
      /\ Cardinality(Existing \cup {u}) <= Cardinality(Existing) + 1
      /\ Cardinality(Existing \cup {u}) \in Nat /\ Cardinality(Existing) \in Nat
  <2>1. PICK E : E = Existing
    OBVIOUS
  <2>2. IsFiniteSet(E)
    BY <2>1 DEF CapacityInv, Room
  <2>3. PICK F : F = E \cup {u}
    OBVIOUS
  <2>4. IsFiniteSet(F) /\ Cardinality(F) = IF u \in E THEN Cardinality(E) ELSE Cardinality(E) + 1
    BY <2>2, <2>3, FS_AddElement
  <2>5. Cardinality(E) \in Nat /\ Cardinality(F) \in Nat
    BY <2>2, <2>4, FS_CardinalityType
  <2> QED BY <2>1, <2>3, <2>4, <2>5
<1>10. Cardinality(Api) \in Nat /\ MaxUploads \in Nat
  BY FS_CardinalityType DEF LifecycleAssumption
<1>11. Room'
  BY <1>1, <1>6, <1>8, <1>9, <1>10 DEF CapacityInv, Room
<1> QED
  BY <1>5, <1>11 DEF CapacityInv

LEMMA IdleKept == Kept(Idle) /\ Idle.at \notin CreatePoints /\ Idle \in Handler
BY IdleGood DEF Kept, Idle, CreatePoints

LEMMA RequestCapacity ==
  ASSUME LifecycleAssumption, IsFiniteSet(Api), CapacityInv, IInv', NEW p \in Procs, Request(p)
  PROVE  CapacityInv'
<1> USE DEF Idle, Handler, Points, ProcessingPoints, Targets, Statuses, FamilyStates, CreatePoints
<1>1. p \in Api
  BY DEF Request
<1>2. ASSUME NEW u \in Uploads, InitBegin(p, u) \/ DirectBegin(p, u)
      PROVE  CapacityInv'
  <2>1. PICK point \in {"init_commit", "direct_store"} :
          handler' = [handler EXCEPT ![p] = [Idle EXCEPT !.at = point, !.upload = u]]
    BY <1>2 DEF InitBegin, DirectBegin, Begin
  <2>2. PICK h \in Handler : h = [Idle EXCEPT !.at = point, !.upload = u]
    BY <2>1
  <2>3. UNCHANGED <<uploads, jobs>> /\ HasCapacity
    BY <1>2 DEF InitBegin, DirectBegin, rows
  <2>4. h.at \in CreatePoints /\ h.todo = {}
    BY <2>2
  <2> QED BY <1>1, <2>1, <2>2, <2>3, <2>4, FindStep
<1>3. ASSUME NEW h \in Handler, handler' = [handler EXCEPT ![p] = h], h.at \notin CreatePoints,
             UNCHANGED <<uploads, jobs>>, Kept(h)
      PROVE  CapacityInv'
  <2>1. Existing' = Existing
    BY <1>3 DEF Existing
  <2>2. \A i \in 1..Len(jobs') : jobs'[i] \in Existing
    BY <1>3 DEF CapacityInv, Tracked
  <2> QED BY <1>3, <2>1, <2>2, CalmStep
<1>4. ASSUME NEW u \in Uploads, CompleteBegin(p, u)
      PROVE  CapacityInv'
  <2>1. PICK point \in {"complete_commit", "fail_object"} :
          handler' = [handler EXCEPT ![p] = [Idle EXCEPT !.at = point, !.upload = u]]
    BY <1>4 DEF CompleteBegin, Begin
  <2>2. PICK h \in Handler : h = [Idle EXCEPT !.at = point, !.upload = u]
    BY <2>1
  <2>3. UNCHANGED <<uploads, jobs>> /\ u \in Existing
    BY <1>4 DEF CompleteBegin, rows, Existing
  <2>4. h.at \notin CreatePoints /\ Kept(h)
    BY <2>2, <2>3 DEF Kept
  <2> QED BY <1>3, <2>1, <2>2, <2>3, <2>4
<1>5. CASE ReprocessBegin(p)
  <2>1. PICK todo \in SUBSET Existing : todo = Existing \cap stored
    OBVIOUS
  <2>2. PICK t \in Targets : t = IF todo \cap staff # {} THEN "needs_review" ELSE "ready_for_submission"
    OBVIOUS
  <2>3. PICK h \in Handler : h = [Idle EXCEPT !.at = "reprocess_commit", !.todo = todo, !.target = t]
    BY DEF Existing
  <2>4. handler' = [handler EXCEPT ![p] = h] /\ UNCHANGED <<uploads, jobs>>
    BY <1>5, <2>1, <2>2, <2>3 DEF ReprocessBegin, Begin, rows
  <2>5. h.at \notin CreatePoints /\ Kept(h)
    BY <2>3 DEF Kept
  <2> QED BY <1>3, <2>4, <2>5
<1>6. ASSUME NEW h \in Handler, h.at \notin CreatePoints, h.upload = None, h.todo = {},
             handler' = [handler EXCEPT ![p] = h], UNCHANGED <<uploads, jobs>>
      PROVE  CapacityInv'
  <2>1. Kept(h)
    BY <1>6 DEF Kept
  <2> QED BY <1>3, <1>6, <2>1
<1>7. CASE SubmitBegin(p) \/ RestoreFamilyBegin(p) \/ (\E d \in Decisions : DecideBegin(p, d))
           \/ (\E s \in Styles : RestoreStyleBegin(p, s))
  <2>1. UNCHANGED <<uploads, jobs>>
    BY <1>7 DEF SubmitBegin, RestoreFamilyBegin, DecideBegin, RestoreStyleBegin, rows
  <2>2. CASE SubmitBegin(p)
    <3>1. PICK h \in Handler : h = [Idle EXCEPT !.at = "submit_commit"]
      OBVIOUS
    <3> QED BY <1>6, <2>1, <2>2, <3>1 DEF SubmitBegin, Begin
  <2>3. CASE RestoreFamilyBegin(p)
    <3>1. PICK outcome \in {"approved", "draft"} : outcome = IF published THEN "approved" ELSE "draft"
      OBVIOUS
    <3>2. PICK h \in Handler : h = [Idle EXCEPT !.at = "restore_commit", !.outcome = outcome]
      OBVIOUS
    <3>3. handler' = [handler EXCEPT ![p] = h]
      BY <2>3, <3>1, <3>2 DEF RestoreFamilyBegin, Begin
    <3>4. h.at \notin CreatePoints /\ h.upload = None /\ h.todo = {}
      BY <3>2
    <3> QED BY <1>6, <2>1, <3>3, <3>4
  <2>4. ASSUME NEW d \in Decisions, DecideBegin(p, d)
        PROVE  CapacityInv'
    <3>1. PICK h \in Handler : h = [Idle EXCEPT !.at = "decide_commit", !.outcome = d]
      BY DEF Decisions
    <3>2. handler' = [handler EXCEPT ![p] = h]
      BY <2>4, <3>1 DEF DecideBegin, Begin
    <3>3. h.at \notin CreatePoints /\ h.upload = None /\ h.todo = {}
      BY <3>1
    <3> QED BY <1>6, <2>1, <3>2, <3>3
  <2>5. ASSUME NEW s \in Styles, RestoreStyleBegin(p, s)
        PROVE  CapacityInv'
    <3>1. PICK outcome \in {"approved", "draft"} :
            outcome = IF family = "approved" THEN "approved" ELSE "draft"
      OBVIOUS
    <3>2. PICK h \in Handler : h = [Idle EXCEPT !.at = "restore_style_commit", !.style = s,
                                                !.outcome = outcome]
      OBVIOUS
    <3>3. handler' = [handler EXCEPT ![p] = h]
      BY <2>5, <3>1, <3>2 DEF RestoreStyleBegin, Begin
    <3>4. h.at \notin CreatePoints /\ h.upload = None /\ h.todo = {}
      BY <3>2
    <3> QED BY <1>6, <2>1, <3>3, <3>4
  <2> QED BY <1>7, <2>2, <2>3, <2>4, <2>5
<1>8. CASE ArchiveFamily(p) \/ \E s \in Styles : ArchiveStyle(p, s)
  <2>1. UNCHANGED <<uploads, jobs, handler>>
    BY <1>8 DEF ArchiveFamily, ArchiveStyle
  <2> QED BY <2>1 DEF CapacityInv, Tracked, Room, Kept, Existing, Pending
<1> QED
  BY <1>2, <1>4, <1>5, <1>7, <1>8 DEF Request

\* Steps of a handler that move on to another point and create no row.
LEMMA StepCapacity ==
  ASSUME LifecycleAssumption, IsFiniteSet(Api), CapacityInv, IInv', NEW p \in Procs,
         \/ CompleteCommit(p) \/ Inspect(p) \/ SyncStyle(p) \/ SettleRead(p) \/ ProcessingError(p)
         \/ FailObject(p) \/ ReprocessCommit(p) \/ DirectStore(p)
         \/ \E u \in Uploads : MarkProcessing(p, u)
  PROVE  CapacityInv'
<1> DEFINE hp == handler[p]
<1>1. /\ hp \in Handler /\ Kept(hp) /\ GoodHandler(hp) /\ p \in DOMAIN handler
      /\ handler \in [Procs -> Handler]
  BY Types DEF CapacityInv, Tracked, IInv
<1>2. ASSUME NEW h \in Handler, handler' = [handler EXCEPT ![p] = h], h.todo \subseteq hp.todo,
             h.upload = hp.upload \/ h.upload \in Existing,
             h.at \in CreatePoints => hp.at \in CreatePoints,
             hp.at \in CreatePoints => h.at \in CreatePoints,
             Existing' = Existing, UNCHANGED jobs
      PROVE  CapacityInv'
  <2>1. Kept(h)
    BY <1>1, <1>2 DEF Kept
  <2>2. \A i \in 1..Len(jobs') : jobs'[i] \in Existing
    BY <1>2 DEF CapacityInv, Tracked
  <2> QED BY <1>2, <2>1, <2>2, CalmStep
<1>3. ASSUME NEW u \in Existing, NEW state \in ProcessingStates, uploads' = [uploads EXCEPT ![u] = state]
      PROVE  Existing' = Existing
  BY <1>3, Types DEF CapacityInv, Existing, ProcessingStates
<1>4. CASE \E u \in Uploads : MarkProcessing(p, u)
  <2>1. PICK u \in Uploads : MarkProcessing(p, u)
    BY <1>4
  <2>2. u \in hp.todo /\ u \in Existing
    BY <1>1, <2>1 DEF MarkProcessing, Kept
  <2>3. PICK h \in Handler : h = [hp EXCEPT !.at = "inspect", !.upload = u, !.todo = @ \ {u}]
    BY <1>1 DEF Handler, Points, ProcessingPoints
  <2>4. handler' = [handler EXCEPT ![p] = h]
    BY <1>1, <2>1, <2>3 DEF MarkProcessing, Handler
  <2>5. h.todo \subseteq hp.todo /\ h.upload = u /\ h.at \notin CreatePoints /\ hp.at = "mark"
    BY <1>1, <2>1, <2>3 DEF Handler, CreatePoints, MarkProcessing, At
  <2>6. Existing' = Existing
    BY <1>3, <2>1, <2>2 DEF MarkProcessing, ProcessingStates
  <2>7. UNCHANGED jobs
    BY <2>1 DEF MarkProcessing
  <2> QED BY <1>2, <2>2, <2>4, <2>5, <2>6, <2>7 DEF CreatePoints
<1>5. CASE SettleRead(p)
  <2>1. PICK outcome : handler' = [handler EXCEPT ![p].at = "settle_commit", ![p].outcome = outcome]
    BY <1>5 DEF SettleRead
  <2>2. PICK h : h = [hp EXCEPT !.at = "settle_commit", !.outcome = outcome]
    OBVIOUS
  <2>3. handler' = [handler EXCEPT ![p] = h]
    BY <1>1, <2>1, <2>2 DEF Handler
  <2>4. h \in Handler
    <3>1. handler'[p] = h /\ handler' \in [Procs -> Handler]
      BY <1>1, <2>3 DEF IInv, TypeOK
    <3> QED BY <3>1
  <2>5. /\ h.todo = hp.todo /\ h.upload = hp.upload /\ h.at = "settle_commit"
        /\ hp.at = "settle_read" /\ UNCHANGED <<uploads, jobs>>
    BY <1>1, <1>5, <2>2 DEF Handler, SettleRead, At, rows
  <2> QED BY <1>2, <2>3, <2>4, <2>5 DEF CreatePoints, Existing
<1>6. ASSUME NEW point \in Points, Goto(p, point), UNCHANGED jobs, Existing' = Existing,
             hp.at \in CreatePoints <=> point \in CreatePoints
      PROVE  CapacityInv'
  <2>1. PICK h \in Handler : h = [hp EXCEPT !.at = point]
    BY <1>1 DEF Handler
  <2>2. handler' = [handler EXCEPT ![p] = h]
    BY <1>1, <1>6, <2>1 DEF Goto
  <2>3. h.todo = hp.todo /\ h.upload = hp.upload /\ h.at = point
    BY <1>1, <2>1 DEF Handler
  <2> QED BY <1>2, <1>6, <2>2, <2>3
<1>7. CASE CompleteCommit(p)
  <2>1. hp.at = "complete_commit" /\ hp.upload \in Uploads
    BY <1>1, <1>7 DEF CompleteCommit, At, GoodHandler, UploadPoints
  <2>2. hp.upload \in Existing
    BY <1>1, <2>1 DEF Kept, CreatePoints, LifecycleAssumption
  <2>3. Existing' = Existing
    BY <1>3, <1>7, <2>2 DEF CompleteCommit, ProcessingStates
  <2> QED BY <1>6, <1>7, <2>1, <2>3 DEF CompleteCommit, CreatePoints, Points, ProcessingPoints
<1>8. CASE SyncStyle(p) \/ ReprocessCommit(p)
  <2>1. UNCHANGED <<uploads, jobs>> /\ Existing' = Existing
    BY <1>8 DEF SyncStyle, ReprocessCommit, Existing
  <2> QED
    BY <1>6, <1>8, <2>1 DEF SyncStyle, ReprocessCommit, At, CreatePoints, Points, ProcessingPoints
<1>9. CASE Inspect(p) \/ ProcessingError(p) \/ FailObject(p) \/ DirectStore(p)
  <2>1. UNCHANGED <<uploads, jobs>> /\ Existing' = Existing
    BY <1>9 DEF Inspect, ProcessingError, FailObject, DirectStore, Existing, rows
  <2> QED
    BY <1>6, <1>9, <2>1
    DEF Inspect, ProcessingError, FailObject, DirectStore, At, CreatePoints, Points, ProcessingPoints
<1> QED
  BY <1>4, <1>5, <1>7, <1>8, <1>9

\* The last step of an upload, and the steps that end a handler.
LEMMA EndCapacity ==
  ASSUME LifecycleAssumption, IsFiniteSet(Api), CapacityInv, IInv', NEW p \in Procs,
         \/ SettleCommit(p) \/ FailCommit(p) \/ SubmitCommit(p) \/ DecideCommit(p)
         \/ RestoreFamilyCommit(p) \/ RestoreStyleCommit(p)
  PROVE  CapacityInv'
<1> DEFINE hp == handler[p]
<1>1. hp \in Handler /\ Kept(hp) /\ GoodHandler(hp) /\ UNCHANGED jobs
  BY Types DEF CapacityInv, Tracked, IInv, SettleCommit, FailCommit, SubmitCommit, DecideCommit,
               RestoreFamilyCommit, RestoreStyleCommit
<1>2. ASSUME NEW h \in Handler, handler' = [handler EXCEPT ![p] = h], Kept(h),
             h.at \notin CreatePoints, Existing' = Existing
      PROVE  CapacityInv'
  <2>1. \A i \in 1..Len(jobs') : jobs'[i] \in Existing
    BY <1>1 DEF CapacityInv, Tracked
  <2> QED BY <1>2, <2>1, CalmStep
<1>3. ASSUME Finish(p), Existing' = Existing
      PROVE  CapacityInv'
  <2>1. PICK h \in Handler : h = Idle
    BY IdleKept
  <2> QED BY <1>2, <1>3, <2>1, IdleKept DEF Finish
<1>4. CASE SettleCommit(p) \/ FailCommit(p)
  <2>1. PICK state \in {"completed", "failed"} : uploads' = [uploads EXCEPT ![hp.upload] = state]
    BY <1>4 DEF SettleCommit, FailCommit
  <2>2. hp.upload \in Existing
    BY <1>1, <1>4 DEF SettleCommit, FailCommit, At, GoodHandler, UploadPoints, Kept, CreatePoints,
                      LifecycleAssumption
  <2>3. Existing' = Existing
    BY <2>1, <2>2, Types DEF CapacityInv, Existing
  <2>4. PICK n \in Handler :
          n = [Idle EXCEPT !.at = "mark", !.todo = hp.todo, !.target = hp.target]
    BY <1>1 DEF Idle, Handler, Points, ProcessingPoints, Targets, Statuses, FamilyStates
  <2>5. n.at = "mark" /\ n.todo = hp.todo /\ n.upload = None
    BY <2>4 DEF Idle, Handler
  <2>6. Kept(n) /\ n.at \notin CreatePoints
    BY <1>1, <2>5 DEF Kept, CreatePoints
  <2>7. NextUpload(p)
    BY <1>4 DEF SettleCommit, FailCommit
  <2>8. CASE hp.todo = {}
    <3>1. handler' = [handler EXCEPT ![p] = Idle]
      BY <2>7, <2>8, Types DEF NextUpload, CapacityInv
    <3> QED BY <1>3, <2>3, <3>1 DEF Finish
  <2>9. CASE hp.todo # {}
    <3>1. handler' = [handler EXCEPT ![p] = n]
      BY <2>4, <2>7, <2>9, Types DEF NextUpload, CapacityInv
    <3> QED BY <1>2, <2>3, <2>6, <3>1
  <2> QED BY <2>8, <2>9
<1>5. CASE \/ SubmitCommit(p) \/ DecideCommit(p) \/ RestoreFamilyCommit(p) \/ RestoreStyleCommit(p)
  <2>1. Finish(p) /\ UNCHANGED uploads
    BY <1>5 DEF SubmitCommit, DecideCommit, RestoreFamilyCommit, RestoreStyleCommit
  <2> QED BY <1>3, <2>1 DEF Existing
<1> QED
  BY <1>4, <1>5

\* The row that a request had found room for.
LEMMA RowCapacity ==
  ASSUME LifecycleAssumption, IsFiniteSet(Api), CapacityInv, IInv', NEW p \in Procs,
         InitCommit(p) \/ DirectCommit(p)
  PROVE  CapacityInv'
<1> DEFINE hp == handler[p]
<1>1. hp \in Handler /\ GoodHandler(hp)
  BY Types DEF CapacityInv, IInv
<1>2. PICK u \in Uploads : u = hp.upload
  BY <1>1 DEF InitCommit, DirectCommit, At, GoodHandler, UploadPoints
<1>3. /\ hp.at \in CreatePoints /\ UNCHANGED jobs
      /\ uploads' = [uploads EXCEPT ![u] = "queued"]
  BY <1>2 DEF InitCommit, DirectCommit, At, CreatePoints
<1>4. CASE InitCommit(p)
  <2>1. PICK h \in Handler : h = Idle
    BY IdleKept
  <2>2. h.todo = {} /\ h.upload = None /\ h.at \notin CreatePoints
    BY <2>1, IdleKept DEF Idle
  <2>3. handler' = [handler EXCEPT ![p] = h]
    BY <1>4, <2>1 DEF InitCommit, Finish
  <2> QED BY <1>2, <1>3, <2>2, <2>3, CreateStep
<1>5. CASE DirectCommit(p)
  <2>1. PICK h \in Handler : h = [hp EXCEPT !.at = "mark", !.todo = {u}, !.target = "needs_review"]
    BY <1>1 DEF Handler, Points, ProcessingPoints, Targets
  <2>2. h.todo = {u} /\ h.upload = u /\ h.at \notin CreatePoints
    BY <1>1, <1>2, <2>1 DEF Handler, CreatePoints
  <2>3. handler' = [handler EXCEPT ![p] = h]
    BY <1>1, <1>2, <1>5, <2>1, Types DEF DirectCommit, Handler, CapacityInv
  <2> QED BY <1>2, <1>3, <2>2, <2>3, CreateStep
<1> QED
  BY <1>4, <1>5

\* Jobs enter and leave the queue.
LEMMA QueueCapacity ==
  ASSUME LifecycleAssumption, IsFiniteSet(Api), CapacityInv, IInv', NEW p \in Procs,
         Enqueue(p) \/ Crash(p) \/ TakeJob(p)
  PROVE  CapacityInv'
<1> DEFINE hp == handler[p]
<1>1. hp \in Handler /\ Kept(hp) /\ GoodHandler(hp) /\ jobs \in Seq(Uploads)
  BY Types DEF CapacityInv, Tracked, IInv
<1>2. Existing' = Existing
  BY DEF Enqueue, Crash, TakeJob, rows, Existing
<1>3. ASSUME NEW u \in Existing, jobs' = Append(jobs, u)
      PROVE  \A i \in 1..Len(jobs') : jobs'[i] \in Existing
  <2>1. u \in Uploads
    BY DEF Existing
  <2>2. Len(jobs') = Len(jobs) + 1 /\ \A i \in 1..Len(jobs) : jobs'[i] = jobs[i]
    BY <1>1, <1>3, <2>1
  <2>3. jobs'[Len(jobs) + 1] = u /\ Len(jobs) \in Nat
    BY <1>1, <1>3, <2>1
  <2> QED BY <2>2, <2>3 DEF CapacityInv, Tracked
<1>4. ASSUME Finish(p), \A i \in 1..Len(jobs') : jobs'[i] \in Existing
      PROVE  CapacityInv'
  <2>1. PICK h \in Handler : h = Idle
    BY IdleKept
  <2>2. Kept(h) /\ h.at \notin CreatePoints /\ handler' = [handler EXCEPT ![p] = h]
    BY <1>4, <2>1, IdleKept DEF Finish
  <2> QED BY <1>2, <1>4, <2>2, CalmStep
<1>5. ASSUME UNCHANGED jobs
      PROVE  \A i \in 1..Len(jobs') : jobs'[i] \in Existing
  BY <1>5 DEF CapacityInv, Tracked
<1>6. CASE Enqueue(p)
  <2>1. hp.upload \in Existing /\ hp.at = "enqueue"
    BY <1>1, <1>6 DEF Enqueue, At, GoodHandler, UploadPoints, Kept, CreatePoints,
                      LifecycleAssumption
  <2>2. CASE jobs' = Append(jobs, hp.upload) /\ Finish(p)
    BY <1>3, <1>4, <2>1, <2>2
  <2>3. CASE /\ handler' = [handler EXCEPT ![p].at = "mark", ![p].todo = {hp.upload}]
             /\ UNCHANGED jobs
    <3>1. PICK h \in Handler : h = [hp EXCEPT !.at = "mark", !.todo = {hp.upload}]
      BY <1>1, <2>1 DEF Handler, Points, ProcessingPoints, Existing
    <3>2. h.todo = {hp.upload} /\ h.upload = hp.upload /\ h.at = "mark"
      BY <1>1, <3>1 DEF Handler
    <3>3. Kept(h) /\ h.at \notin CreatePoints
      BY <2>1, <3>2 DEF Kept, CreatePoints
    <3>4. handler' = [handler EXCEPT ![p] = h]
      BY <1>1, <2>3, <3>1, Types DEF Handler, CapacityInv
    <3> QED BY <1>2, <1>5, <2>3, <3>3, <3>4, CalmStep
  <2> QED BY <1>6, <2>2, <2>3 DEF Enqueue
<1>7. CASE Crash(p)
  <2>1. CASE UNCHANGED jobs
    BY <1>4, <1>5, <1>7, <2>1 DEF Crash
  <2>2. ASSUME p \in Workers, NEW u \in hp.todo \cup ({hp.upload} \ {None}), jobs' = Append(jobs, u)
        PROVE  CapacityInv'
    <3>1. u \in Existing
      BY <1>1, <2>2 DEF Kept, CapacityInv, Tracked
    <3> QED BY <1>3, <1>4, <1>7, <2>2, <3>1 DEF Crash
  <2> QED BY <1>7, <2>1, <2>2 DEF Crash
<1>8. CASE TakeJob(p)
  <2>1. jobs # <<>> /\ jobs' = Tail(jobs) /\ p \in Workers
    BY <1>8 DEF TakeJob
  <2>2. Head(jobs) \in Existing
    <3>1. Len(jobs) \in Nat /\ Len(jobs) # 0 /\ Head(jobs) = jobs[1]
      BY <1>1, <2>1
    <3> QED BY <3>1 DEF CapacityInv, Tracked
  <2>3. \A i \in 1..Len(jobs') : jobs'[i] \in Existing
    <3>1. /\ Len(jobs') = Len(jobs) - 1 /\ Len(jobs) \in Nat
          /\ \A i \in 1..Len(jobs') : jobs'[i] = jobs[i + 1]
      BY <1>1, <2>1
    <3> QED BY <3>1 DEF CapacityInv, Tracked
  <2>4. PICK h \in Handler : h = [Idle EXCEPT !.at = "mark", !.todo = {Head(jobs)}]
    BY <2>2 DEF Idle, Handler, Points, ProcessingPoints, Targets, Statuses, FamilyStates, Existing
  <2>5. h.at = "mark" /\ h.todo = {Head(jobs)} /\ h.upload = None
    BY <2>4 DEF Idle, Handler
  <2>6. Kept(h) /\ h.at \notin CreatePoints
    BY <2>2, <2>5 DEF Kept, CreatePoints
  <2>7. handler' = [handler EXCEPT ![p] = h]
    BY <1>8, <2>4 DEF TakeJob, Begin
  <2> QED BY <1>2, <2>3, <2>6, <2>7, CalmStep
<1> QED
  BY <1>6, <1>7, <1>8

\* Steps that touch no handler: the client's PUT, and no step at all.
LEMMA StillCapacity ==
  ASSUME CapacityInv, IInv', UNCHANGED <<uploads, jobs, handler>>
  PROVE  CapacityInv'
BY DEF CapacityInv, Tracked, Room, Kept, Existing, Pending

LEMMA CapacityNext ==
  ASSUME LifecycleAssumption, IsFiniteSet(Api), CapacityInv, [Next]_vars
  PROVE  CapacityInv'
<1>1. IInv'
  BY NextIInv DEF CapacityInv
<1>2. CASE UNCHANGED vars
  BY <1>1, <1>2, StillCapacity DEF vars, rows
<1>3. ASSUME NEW u \in Uploads, PutObject(u)
      PROVE  CapacityInv'
  BY <1>1, <1>3, StillCapacity DEF PutObject, rows
<1>4. ASSUME NEW p \in Procs, Request(p)
      PROVE  CapacityInv'
  BY <1>1, <1>4, RequestCapacity
<1>5. ASSUME NEW p \in Procs, HandlerStep(p)
      PROVE  CapacityInv'
  BY <1>1, <1>5, StepCapacity, EndCapacity, RowCapacity, QueueCapacity DEF HandlerStep, ProcessStep
<1>6. ASSUME NEW p \in Procs, Crash(p)
      PROVE  CapacityInv'
  BY <1>1, <1>6, QueueCapacity
<1>7. ASSUME NEW w \in Workers, TakeJob(w)
      PROVE  CapacityInv'
  BY <1>1, <1>7, QueueCapacity DEF Procs
<1> QED
  BY <1>2, <1>3, <1>4, <1>5, <1>6, <1>7 DEF Next

LEMMA CapacityInit ==
  ASSUME LifecycleAssumption, IsFiniteSet(Api), Api # {}, Init
  PROVE  CapacityInv
<1>1. IInv
  BY InitIInv
<1>2. Existing = {} /\ Pending = {} /\ jobs = <<>> /\ \A p \in Procs : handler[p] = Idle
  BY DEF Init, Existing, Pending, Procs, Idle, CreatePoints
<1>3. Tracked
  BY <1>2, IdleKept DEF Tracked, Procs
<1>4. Cardinality(Api) \in Nat /\ Cardinality(Api) # 0 /\ MaxUploads \in Nat
  BY FS_CardinalityType, FS_EmptySet DEF LifecycleAssumption
<1>5. Cardinality({}) = 0 /\ IsFiniteSet({})
  BY FS_EmptySet
<1>6. Room
  BY <1>2, <1>4, <1>5 DEF Room
<1> QED
  BY <1>1, <1>3, <1>6 DEF CapacityInv

\* However many requests check the limit together, and whatever else runs, the
\* submission exceeds it by at most one file for each other request handler
\* (uploads.service initUpload and admin.service directUploadToSubmission).
THEOREM FewFilesOver ==
  Api # {} /\ IsFiniteSet(Api) => (Spec => []OvershootBounded)
<1> SUFFICES ASSUME Api # {}, IsFiniteSet(Api)
    PROVE  Spec => []OvershootBounded
  OBVIOUS
<1>1. Init => CapacityInv
  BY LifecycleAssumption, CapacityInit
<1>2. CapacityInv /\ [Next]_vars => CapacityInv'
  BY LifecycleAssumption, CapacityNext
<1>3. CapacityInv => OvershootBounded
  <2>1. IsFiniteSet(Pending)
    BY FS_Subset DEF Pending
  <2>2. Cardinality(Pending) \in Nat /\ Cardinality(Api) \in Nat /\ MaxUploads \in Nat
    BY <2>1, FS_CardinalityType, LifecycleAssumption DEF LifecycleAssumption
  <2>3. CapacityInv => Cardinality(Existing) \in Nat
    BY FS_CardinalityType DEF CapacityInv, Room
  <2> QED BY <2>2, <2>3 DEF CapacityInv, Room, OvershootBounded
<1> QED
  BY <1>1, <1>2, <1>3, PTL DEF Spec

-----------------------------------------------------------------------------
(* Processing.  A settling transaction that writes "processing" has read a *)
(* file in work.  Only another settling transaction could have completed   *)
(* it since, and only a failure could have been recorded for it.  What is  *)
(* left to do is counted in two ways: files that failed are part of it or  *)
(* not.                                                                    *)

Settling(p) == At(p, "settle_commit")
OneSettles == \A p, q \in Procs : Settling(p) /\ Settling(q) => p = q

\* No failure is recorded between the read and the commit of another's settling.
OneRecords ==
  OneSettles /\ \A p, q \in Procs : Settling(p) /\ At(q, "fail_commit") => p = q

InWork == {"queued", "processing"}
Unfinished == {"queued", "processing", "failed"}
Left(S) == {v \in Uploads : uploads[v] \in S}

\* What a settling transaction has read still holds.
ReadStands(S) ==
  \A p \in Procs : Settling(p) /\ handler[p].outcome = "processing"
                     => Left(S) \ {handler[p].upload} # {}

\* Someone is in the middle of processing, and writes a status at the end.
Busy == \E p \in Procs : handler[p].at \in ProcessingPoints

\* For a queue with one consumer, and for any processes without crashes.
Accounted(S) == status = "processing" => Left(S) # {}
Attended(S) == status = "processing" => Left(S) # {} \/ Busy

\* What SettleRead computes from what it sees.
LEMMA SettleReads ==
  ASSUME LifecycleAssumption, CapacityInv, NEW p \in Procs, SettleRead(p)
  PROVE  /\ UNCHANGED <<uploads, status>>
         /\ handler' \in [Procs -> Handler]
         /\ \A q \in Procs : q # p => handler'[q] = handler[q]
         /\ handler'[p].at = "settle_commit" /\ handler'[p].upload = handler[p].upload
         /\ handler'[p].outcome = "processing"
              => \A S \in {InWork, Unfinished} : Left(S) \ {handler[p].upload} # {}
<1> DEFINE u == handler[p].upload
           now == [uploads EXCEPT ![u] = "completed"]
           seen == {now[v] : v \in Existing}
<1>0. IInv /\ IInv'
  BY NextIInv DEF CapacityInv, Next, HandlerStep, ProcessStep
<1>1. /\ handler[p] \in Handler /\ handler \in [Procs -> Handler]
      /\ handler' \in [Procs -> Handler]
      /\ uploads \in [Uploads -> ProcessingStates \cup {"none"}]
  BY <1>0 DEF IInv, TypeOK
<1>2. u \in Existing /\ u \in Uploads
  <2>1. handler[p].at = "settle_read" /\ GoodHandler(handler[p]) /\ Kept(handler[p])
    BY <1>0 DEF SettleRead, At, IInv, CapacityInv, Tracked
  <2>2. u \in Uploads
    BY <2>1 DEF GoodHandler, UploadPoints
  <2> QED BY <2>1, <2>2 DEF Kept, CreatePoints, LifecycleAssumption
<1>3. handler[p].target \in Targets
  BY <1>1 DEF Handler
<1>4. handler' = [handler EXCEPT ![p].at = "settle_commit", ![p].outcome = DeriveStatus(seen, handler[p].target)]
  BY DEF SettleRead
<1>5. ASSUME NEW S \in {InWork, Unfinished}, Left(S) \ {u} = {}
      PROVE  DeriveStatus(seen, handler[p].target) # "processing"
  <2>1. \A v \in Existing : now[v] \in {"completed", "failed"}
    BY <1>1, <1>2, <1>5 DEF Left, InWork, Unfinished, Existing, ProcessingStates
  <2>2. "completed" \in seen /\ seen \subseteq {"completed", "failed"}
    BY <1>1, <1>2, <2>1
  <2>3. Summary(seen) \in {"completed", "failed"}
    <3>1. CASE "failed" \in seen
      BY <3>1 DEF Summary
    <3>2. CASE "failed" \notin seen
      <4>1. seen = {"completed"}
        BY <2>2, <3>2
      <4> QED BY <4>1 DEF Summary
    <3> QED BY <3>1, <3>2
  <2> QED BY <1>3, <2>3 DEF DeriveStatus, Targets
<1>6. handler'[p].outcome = DeriveStatus(seen, handler[p].target)
  BY <1>1, <1>4 DEF Handler
<1>7. /\ handler'[p].at = "settle_commit" /\ handler'[p].upload = u
      /\ \A q \in Procs : q # p => handler'[q] = handler[q]
  BY <1>1, <1>4 DEF Handler
<1> QED
  BY <1>1, <1>5, <1>6, <1>7 DEF SettleRead, rows

\* The steps that are not part of a settling transaction: none completes a file,
\* none is inside one afterwards that was not before, and the status becomes
\* "processing" only with a file to process, or with a handler that will run on.
QuietStep(p) ==
  \/ Request(p) \/ InitCommit(p) \/ CompleteCommit(p) \/ Enqueue(p)
  \/ SubmitCommit(p) \/ DecideCommit(p) \/ ReprocessCommit(p) \/ DirectStore(p) \/ DirectCommit(p)
  \/ RestoreFamilyCommit(p) \/ RestoreStyleCommit(p)
  \/ Inspect(p) \/ SyncStyle(p) \/ ProcessingError(p) \/ FailObject(p) \/ FailCommit(p)
  \/ Crash(p) \/ TakeJob(p) \/ \E u \in Uploads : MarkProcessing(p, u)

LEMMA StepCases ==
  ASSUME Next
  PROVE  \/ \E u \in Uploads : PutObject(u)
         \/ \E p \in Procs : QuietStep(p) \/ SettleRead(p) \/ SettleCommit(p)
BY DEF Next, HandlerStep, ProcessStep, QuietStep, Procs

LEMMA StepTypes ==
  ASSUME LifecycleAssumption, CapacityInv, [Next]_vars
  PROVE  /\ handler \in [Procs -> Handler] /\ handler' \in [Procs -> Handler]
         /\ uploads \in [Uploads -> ProcessingStates \cup {"none"}]
         /\ \A p \in Procs : GoodHandler(handler[p])
BY NextIInv DEF CapacityInv, IInv, TypeOK

\* Where a quiet step leads.
LEMMA QuietHandlers ==
  ASSUME LifecycleAssumption, CapacityInv, Next, NEW p \in Procs, QuietStep(p)
  PROVE  /\ \A q \in Procs : q # p => handler'[q] = handler[q]
         /\ ~Settling(p)'
         /\ handler'[p].at = "reprocess_commit" => "reprocess" \in Ops
<1> DEFINE Leads == /\ \A q \in Procs : q # p => handler'[q] = handler[q]
                    /\ handler'[p].at # "settle_commit"
                    /\ handler'[p].at = "reprocess_commit" => "reprocess" \in Ops
<1>0. SUFFICES Leads
  BY DEF Settling, At
<1>1. handler \in [Procs -> Handler] /\ handler' \in [Procs -> Handler]
  BY StepTypes
<1>2. ASSUME NEW h, handler' = [handler EXCEPT ![p] = h], h.at # "settle_commit",
             h.at = "reprocess_commit" => "reprocess" \in Ops
      PROVE  Leads
  BY <1>1, <1>2
<1>3. ASSUME NEW point \in Points \ {"settle_commit", "reprocess_commit"}, Goto(p, point)
      PROVE  Leads
  BY <1>1, <1>3 DEF Goto, Handler
<1>4. ASSUME Finish(p)
      PROVE  Leads
  BY <1>1, <1>4 DEF Finish, Idle
<1>5. CASE UNCHANGED handler /\ At(p, "idle")
  BY <1>5 DEF At
<1>6. ASSUME NEW u \in Uploads, InitBegin(p, u) \/ DirectBegin(p, u) \/ CompleteBegin(p, u)
      PROVE  Leads
  <2>1. PICK point \in {"init_commit", "direct_store", "complete_commit", "fail_object"} :
          handler' = [handler EXCEPT ![p] = [Idle EXCEPT !.at = point, !.upload = u]]
    BY <1>6 DEF InitBegin, DirectBegin, CompleteBegin, Begin
  <2>2. PICK h : h = [Idle EXCEPT !.at = point, !.upload = u]
    OBVIOUS
  <2>3. h.at \notin {"settle_commit", "reprocess_commit"}
    BY <2>2 DEF Idle
  <2> QED BY <1>2, <2>1, <2>2, <2>3
<1>7. CASE SubmitBegin(p) \/ ReprocessBegin(p) \/ RestoreFamilyBegin(p)
           \/ (\E d \in Decisions : DecideBegin(p, d)) \/ (\E s \in Styles : RestoreStyleBegin(p, s))
  <2>1. CASE SubmitBegin(p)
    <3>1. PICK h : h = [Idle EXCEPT !.at = "submit_commit"]
      OBVIOUS
    <3>2. h.at \notin {"settle_commit", "reprocess_commit"}
      BY <3>1 DEF Idle
    <3> QED BY <1>2, <2>1, <3>1, <3>2 DEF SubmitBegin, Begin
  <2>2. CASE ReprocessBegin(p)
    <3>1. PICK todo, target : handler' = [handler EXCEPT ![p] =
            [Idle EXCEPT !.at = "reprocess_commit", !.todo = todo, !.target = target]]
      BY <2>2 DEF ReprocessBegin, Begin
    <3>2. PICK h : h = [Idle EXCEPT !.at = "reprocess_commit", !.todo = todo, !.target = target]
      OBVIOUS
    <3>3. h.at = "reprocess_commit" /\ "reprocess" \in Ops
      BY <2>2, <3>2 DEF ReprocessBegin, Idle
    <3> QED BY <1>2, <3>1, <3>2, <3>3
  <2>3. CASE RestoreFamilyBegin(p)
    <3>1. PICK outcome : handler' = [handler EXCEPT ![p] =
            [Idle EXCEPT !.at = "restore_commit", !.outcome = outcome]]
      BY <2>3 DEF RestoreFamilyBegin, Begin
    <3>2. PICK h : h = [Idle EXCEPT !.at = "restore_commit", !.outcome = outcome]
      OBVIOUS
    <3>3. h.at \notin {"settle_commit", "reprocess_commit"}
      BY <3>2 DEF Idle
    <3> QED BY <1>2, <3>1, <3>2, <3>3
  <2>4. ASSUME NEW d \in Decisions, DecideBegin(p, d)
        PROVE  Leads
    <3>1. PICK h : h = [Idle EXCEPT !.at = "decide_commit", !.outcome = d]
      OBVIOUS
    <3>2. h.at \notin {"settle_commit", "reprocess_commit"}
      BY <3>1 DEF Idle
    <3> QED BY <1>2, <2>4, <3>1, <3>2 DEF DecideBegin, Begin
  <2>5. ASSUME NEW s \in Styles, RestoreStyleBegin(p, s)
        PROVE  Leads
    <3>1. PICK outcome : handler' = [handler EXCEPT ![p] =
            [Idle EXCEPT !.at = "restore_style_commit", !.style = s, !.outcome = outcome]]
      BY <2>5 DEF RestoreStyleBegin, Begin
    <3>2. PICK h : h = [Idle EXCEPT !.at = "restore_style_commit", !.style = s, !.outcome = outcome]
      OBVIOUS
    <3>3. h.at \notin {"settle_commit", "reprocess_commit"}
      BY <3>2 DEF Idle
    <3> QED BY <1>2, <3>1, <3>2, <3>3
  <2> QED BY <1>7, <2>1, <2>2, <2>3, <2>4, <2>5
<1>8. CASE ArchiveFamily(p) \/ \E s \in Styles : ArchiveStyle(p, s)
  BY <1>5, <1>8 DEF ArchiveFamily, ArchiveStyle
<1>9. CASE Request(p)
  BY <1>6, <1>7, <1>8, <1>9 DEF Request
<1>10. CASE InitCommit(p) \/ SubmitCommit(p) \/ DecideCommit(p) \/ RestoreFamilyCommit(p)
            \/ RestoreStyleCommit(p) \/ Crash(p)
  BY <1>4, <1>10 DEF InitCommit, SubmitCommit, DecideCommit, RestoreFamilyCommit,
                     RestoreStyleCommit, Crash
<1>11. CASE CompleteCommit(p) \/ ReprocessCommit(p) \/ DirectStore(p) \/ Inspect(p) \/ SyncStyle(p)
            \/ ProcessingError(p) \/ FailObject(p)
  BY <1>3, <1>11 DEF CompleteCommit, ReprocessCommit, DirectStore, Inspect, SyncStyle,
                     ProcessingError, FailObject, Points, ProcessingPoints
<1>12. CASE Enqueue(p) \/ DirectCommit(p)
  <2>1. CASE Finish(p)
    BY <1>4, <2>1
  <2>2. CASE handler' = [handler EXCEPT ![p].at = "mark", ![p].todo = {handler[p].upload}]
    BY <1>1, <2>2 DEF Handler
  <2>3. CASE DirectCommit(p)
    BY <1>1, <2>3 DEF DirectCommit, Handler
  <2> QED BY <1>12, <2>1, <2>2, <2>3 DEF Enqueue
<1>13. CASE FailCommit(p)
  <2>1. handler'[p].at \notin {"settle_commit", "reprocess_commit"} /\ \A q \in Procs : q # p => handler'[q] = handler[q]
    BY <1>1, <1>13 DEF FailCommit, NextUpload, Idle
  <2> QED BY <2>1
<1>14. CASE TakeJob(p)
  <2>1. PICK h : h = [Idle EXCEPT !.at = "mark", !.todo = {Head(jobs)}]
    OBVIOUS
  <2>2. h.at \notin {"settle_commit", "reprocess_commit"}
    BY <2>1 DEF Idle
  <2> QED BY <1>2, <1>14, <2>1, <2>2 DEF TakeJob, Begin
<1>15. CASE \E u \in Uploads : MarkProcessing(p, u)
  BY <1>1, <1>15 DEF MarkProcessing, Handler
<1> QED
  BY <1>9, <1>10, <1>11, <1>12, <1>13, <1>14, <1>15 DEF QuietStep

\* What a quiet step writes.
LEMMA QuietRows ==
  ASSUME LifecycleAssumption, CapacityInv, Next, NEW p \in Procs, QuietStep(p),
         NEW S \in {InWork, Unfinished}
  PROVE  /\ S = Unfinished \/ ~FailCommit(p) => Left(S) \subseteq Left(S)'
         /\ status' = "processing"
              => \/ ReprocessCommit(p) \/ Left(S)' # {}
                 \/ status = "processing" /\ Left(S) \subseteq Left(S)'
<1>1. /\ handler[p] \in Handler /\ GoodHandler(handler[p])
      /\ uploads \in [Uploads -> ProcessingStates \cup {"none"}]
  BY StepTypes
<1>2. ASSUME UNCHANGED uploads, status' \in {status} \cup (Statuses \ {"processing"})
      PROVE  Left(S) = Left(S)' /\ (status' = "processing" => status = "processing")
  BY <1>2 DEF Left
<1>3. ASSUME NEW u \in Uploads, NEW state \in S, uploads' = [uploads EXCEPT ![u] = state]
      PROVE  Left(S) \subseteq Left(S)' /\ Left(S)' # {}
  BY <1>1, <1>3 DEF Left
<1>4. CASE Request(p) \/ Crash(p) \/ Enqueue(p) \/ DirectStore(p) \/ Inspect(p) \/ ProcessingError(p)
           \/ FailObject(p) \/ TakeJob(p) \/ SyncStyle(p) \/ RestoreFamilyCommit(p) \/ RestoreStyleCommit(p)
  <2>1. UNCHANGED <<uploads, status>>
    BY <1>4 DEF Request, InitBegin, CompleteBegin, DirectBegin, SubmitBegin, DecideBegin,
                ReprocessBegin, ArchiveFamily, RestoreFamilyBegin, ArchiveStyle, RestoreStyleBegin,
                Crash, Enqueue, DirectStore, Inspect, ProcessingError, FailObject, TakeJob,
                SyncStyle, RestoreFamilyCommit, RestoreStyleCommit, rows
  <2> QED BY <1>2, <2>1
<1>5. CASE SubmitCommit(p)
  BY <1>2, <1>5 DEF SubmitCommit, Statuses, Targets
<1>6. CASE DecideCommit(p)
  <2>1. status' \in Decisions /\ UNCHANGED uploads
    BY <1>1, <1>6 DEF DecideCommit, GoodHandler, At
  <2> QED BY <1>2, <2>1 DEF Statuses, Decisions
<1>7. CASE ReprocessCommit(p)
  BY <1>7 DEF ReprocessCommit, Left
<1>8. CASE InitCommit(p) \/ CompleteCommit(p) \/ DirectCommit(p)
  <2>1. handler[p].upload \in Uploads
    BY <1>1, <1>8 DEF InitCommit, CompleteCommit, DirectCommit, At, GoodHandler, UploadPoints
  <2>2. uploads' = [uploads EXCEPT ![handler[p].upload] = "queued"] /\ "queued" \in S
    BY <1>8 DEF InitCommit, CompleteCommit, DirectCommit, InWork, Unfinished
  <2> QED BY <1>3, <2>1, <2>2
<1>9. CASE FailCommit(p)
  <2>1. handler[p].upload \in Uploads
    BY <1>1, <1>9 DEF FailCommit, At, GoodHandler, UploadPoints
  <2>2. uploads' = [uploads EXCEPT ![handler[p].upload] = "failed"] /\ status' = "processing_failed"
    BY <1>9 DEF FailCommit
  <2>3. "failed" \in Unfinished
    BY DEF Unfinished
  <2> QED BY <1>3, <1>9, <2>1, <2>2, <2>3
<1>10. CASE \E u \in Uploads : MarkProcessing(p, u)
  BY <1>3, <1>10 DEF MarkProcessing, InWork, Unfinished
<1> QED
  BY <1>4, <1>5, <1>6, <1>7, <1>8, <1>9, <1>10 DEF QuietStep

\* A settling transaction writes the status that it has computed.
LEMMA SettleWrites ==
  ASSUME LifecycleAssumption, CapacityInv, NEW S, ReadStands(S), Next,
         NEW p \in Procs, SettleCommit(p)
  PROVE  /\ \A q \in Procs : q # p => handler'[q] = handler[q]
         /\ Settling(p) /\ ~Settling(p)'
         /\ Left(S) \ {handler[p].upload} \subseteq Left(S)'
         /\ status' = "processing" => Left(S)' # {}
<1>1. /\ handler \in [Procs -> Handler] /\ handler' \in [Procs -> Handler]
      /\ uploads \in [Uploads -> ProcessingStates \cup {"none"}]
  BY StepTypes
<1>2. Left(S) \ {handler[p].upload} \subseteq Left(S)'
  BY <1>1 DEF SettleCommit, Left
<1>3. Settling(p) /\ status' = handler[p].outcome
  BY DEF SettleCommit, Settling
<1>4. /\ \A q \in Procs : q # p => handler'[q] = handler[q]
      /\ handler'[p].at # "settle_commit"
  BY <1>1 DEF SettleCommit, NextUpload, Idle
<1> QED
  BY <1>2, <1>3, <1>4 DEF ReadStands, Settling, At

\* With one settling transaction at a time, nobody invalidates what it has read;
\* where failed files do not count as left, no failure may be recorded meanwhile.
LEMMA ReadStandsNext ==
  ASSUME LifecycleAssumption, CapacityInv, NEW S \in {InWork, Unfinished},
         OneSettles, S = Unfinished \/ OneRecords, ReadStands(S), [Next]_vars
  PROVE  ReadStands(S)'
<1>1. CASE UNCHANGED <<uploads, handler>>
  BY <1>1 DEF ReadStands, Settling, At, Left
<1>2. CASE UNCHANGED vars \/ \E u \in Uploads : PutObject(u)
  BY <1>1, <1>2 DEF vars, rows, PutObject
<1>3. ASSUME Next, NEW p \in Procs, QuietStep(p)
      PROVE  ReadStands(S)'
  <2>1. \A q \in Procs : Settling(q)' => handler'[q] = handler[q]
    BY <1>3, QuietHandlers
  <2>2. CASE S = Unfinished \/ ~FailCommit(p)
    <3>1. Left(S) \subseteq Left(S)'
      BY <1>3, <2>2, QuietRows
    <3> QED BY <2>1, <3>1 DEF ReadStands, Settling, At
  <2>3. CASE S # Unfinished /\ FailCommit(p)
    <3>1. \A q \in Procs : Settling(q) => q = p
      BY <2>3 DEF OneRecords, FailCommit
    <3>2. \A q \in Procs : ~Settling(q)'
      BY <1>3, <3>1, QuietHandlers DEF Settling, At
    <3> QED BY <3>2 DEF ReadStands
  <2> QED BY <2>2, <2>3
<1>4. ASSUME Next, NEW p \in Procs, SettleRead(p)
      PROVE  ReadStands(S)'
  <2>1. Left(S)' = Left(S)
    BY <1>4, SettleReads DEF Left
  <2> QED BY <1>4, <2>1, SettleReads DEF ReadStands, Settling, At
<1>5. ASSUME Next, NEW p \in Procs, SettleCommit(p)
      PROVE  ReadStands(S)'
  <2>1. \A q \in Procs : ~Settling(q)'
    BY <1>5, SettleWrites DEF OneSettles, Settling, At
  <2> QED BY <2>1 DEF ReadStands
<1> QED
  BY <1>2, <1>3, <1>4, <1>5, StepCases

\* A handler in the middle of processing goes on with it until it writes a status.
LEMMA BusyStays ==
  ASSUME LifecycleAssumption, CapacityInv, Next, NEW p \in Procs, QuietStep(p),
         handler[p].at \in ProcessingPoints, ~Crash(p), ~FailCommit(p)
  PROVE  handler'[p].at \in ProcessingPoints
<1>1. handler \in [Procs -> Handler]
  BY StepTypes
<1>2. ~Request(p) /\ ~TakeJob(p)
  BY DEF Request, InitBegin, CompleteBegin, DirectBegin, SubmitBegin, DecideBegin, ReprocessBegin,
         ArchiveFamily, RestoreFamilyBegin, ArchiveStyle, RestoreStyleBegin, TakeJob, Begin, At,
         ProcessingPoints
<1>3. /\ ~InitCommit(p) /\ ~CompleteCommit(p) /\ ~Enqueue(p) /\ ~SubmitCommit(p) /\ ~DecideCommit(p)
      /\ ~ReprocessCommit(p) /\ ~DirectStore(p) /\ ~DirectCommit(p) /\ ~RestoreFamilyCommit(p)
      /\ ~RestoreStyleCommit(p)
  BY DEF InitCommit, CompleteCommit, Enqueue, SubmitCommit, DecideCommit, ReprocessCommit,
         DirectStore, DirectCommit, RestoreFamilyCommit, RestoreStyleCommit, At, ProcessingPoints
<1>4. CASE Inspect(p) \/ SyncStyle(p) \/ ProcessingError(p) \/ FailObject(p)
  BY <1>1, <1>4 DEF Inspect, SyncStyle, ProcessingError, FailObject, Goto, Handler, ProcessingPoints
<1>5. CASE \E u \in Uploads : MarkProcessing(p, u)
  BY <1>1, <1>5 DEF MarkProcessing, Handler, ProcessingPoints
<1> QED
  BY <1>2, <1>3, <1>4, <1>5 DEF QuietStep

LEMMA AttendedNext ==
  ASSUME LifecycleAssumption, CapacityInv, NEW S \in {InWork, Unfinished}, ReadStands(S),
         Attended(S), crashes' = 0, [Next]_vars
  PROVE  Attended(S)'
<1>1. CASE UNCHANGED <<status, uploads, handler>>
  BY <1>1 DEF Attended, Left, Busy
<1>2. CASE UNCHANGED vars \/ \E u \in Uploads : PutObject(u)
  BY <1>1, <1>2 DEF vars, rows, PutObject
<1>3. ASSUME Next, NEW p \in Procs, QuietStep(p), status' = "processing", Left(S)' = {}
      PROVE  Busy'
  <2>1. handler \in [Procs -> Handler]
    BY StepTypes
  <2>2. CASE ReprocessCommit(p)
    <3>1. handler'[p].at = "mark"
      BY <2>1, <2>2 DEF ReprocessCommit, Goto, Handler
    <3> QED BY <3>1 DEF Busy, ProcessingPoints
  <2>3. CASE status = "processing" /\ Left(S) \subseteq Left(S)'
    <3>1. Left(S) = {}
      BY <1>3, <2>3
    <3>2. PICK q \in Procs : handler[q].at \in ProcessingPoints
      BY <2>3, <3>1 DEF Attended, Busy
    <3>3. ~FailCommit(p)
      BY <1>3 DEF FailCommit
    <3>4. ~Crash(p)
      BY DEF Crash, CapacityInv, IInv, TypeOK
    <3>5. handler'[q].at \in ProcessingPoints
      BY <1>3, <3>2, <3>3, <3>4, BusyStays, QuietHandlers
    <3> QED BY <3>5 DEF Busy
  <2> QED BY <1>3, <2>2, <2>3, QuietRows
<1>4. ASSUME Next, NEW p \in Procs, SettleRead(p)
      PROVE  Busy'
  BY <1>4, SettleReads DEF Busy, ProcessingPoints
<1>5. ASSUME Next, NEW p \in Procs, SettleCommit(p), status' = "processing"
      PROVE  Left(S)' # {}
  BY <1>5, SettleWrites
<1> QED
  BY <1>2, <1>3, <1>4, <1>5, StepCases DEF Attended

LEMMA AccountedNext ==
  ASSUME LifecycleAssumption, CapacityInv, NEW S \in {InWork, Unfinished}, ReadStands(S),
         Accounted(S), \A p \in Procs : ~ReprocessCommit(p), [Next]_vars
  PROVE  Accounted(S)'
<1>1. CASE UNCHANGED <<status, uploads>>
  BY <1>1 DEF Accounted, Left
<1>2. CASE UNCHANGED vars \/ \E u \in Uploads : PutObject(u)
  BY <1>1, <1>2 DEF vars, rows, PutObject
<1>3. ASSUME Next, NEW p \in Procs, QuietStep(p)
      PROVE  Accounted(S)'
  BY <1>3, QuietRows DEF Accounted
<1>4. ASSUME Next, NEW p \in Procs, SettleRead(p)
      PROVE  Accounted(S)'
  BY <1>1, <1>4, SettleReads
<1>5. ASSUME Next, NEW p \in Procs, SettleCommit(p)
      PROVE  Accounted(S)'
  BY <1>5, SettleWrites DEF Accounted
<1> QED
  BY <1>2, <1>3, <1>4, <1>5, StepCases

LEMMA ProcessingInit ==
  ASSUME Init, NEW S
  PROVE  ReadStands(S) /\ Attended(S) /\ Accounted(S)
BY DEF Init, ReadStands, Attended, Accounted, Settling, At, Idle

\* The two ways in which a submission with all of its files completed, or all
\* of them completed or failed, is known not to be left in "processing".
LEMMA NobodyLeft ==
  ASSUME LifecycleAssumption, CapacityInv, NEW S \in {InWork, Unfinished},
         Attended(S) \/ Accounted(S)
  PROVE  NotStuckProcessing /\ (S = InWork => ProcessingIsWork)
<1>1. Quiescent => ~Busy
  BY DEF Quiescent, Busy, At, ProcessingPoints
<1>2. Quiescent /\ status = "processing" => Left(S) # {}
  BY <1>1 DEF Attended, Accounted
<1>3. Left(S) # {} => \E u \in Existing : uploads[u] \in S /\ uploads[u] # "completed"
  BY DEF Left, InWork, Unfinished, Existing
<1> QED
  BY <1>2, <1>3 DEF NotStuckProcessing, ProcessingIsWork, InWork

\* Whatever requests, jobs, queue failures and number of consumers there are,
\* a submission whose files are all completed is left in "processing" only by
\* two settling transactions that overlapped, or by a crash; of a submission with
\* a failed file nothing is said: a failure recorded inside one settling
\* transaction may leave it in "processing" all the same
\* (upload-processing.service processUpload, admin.service reprocessSubmission).
THEOREM CompletedStickByOverlapOrCrash ==
  Api # {} /\ IsFiniteSet(Api)
    => (Spec /\ []OneSettles /\ [](crashes = 0) => []NotStuckProcessing)
<1> SUFFICES ASSUME Api # {}, IsFiniteSet(Api)
    PROVE  Spec /\ []OneSettles /\ [](crashes = 0) => []NotStuckProcessing
  OBVIOUS
<1> DEFINE Inv == CapacityInv /\ ReadStands(Unfinished) /\ Attended(Unfinished)
<1>1. Init => Inv
  BY LifecycleAssumption, CapacityInit, ProcessingInit
<1>2. Inv /\ OneSettles /\ (crashes = 0)' /\ [Next]_vars => Inv'
  BY LifecycleAssumption, CapacityNext, ReadStandsNext, AttendedNext
<1>3. Inv => NotStuckProcessing
  BY LifecycleAssumption, NobodyLeft
<1> HIDE DEF Inv
<1> QED
  BY <1>1, <1>2, <1>3, PTL DEF Spec

\* Whatever requests, jobs, queue failures and number of consumers there are, a
\* submission that says "processing" when nothing runs any more has a file that
\* is queued or in processing, unless a settling transaction overlapped with
\* another one or with the recording of a failure, or something crashed
\* (upload-processing.service processUpload and failUpload).
THEOREM ProcessingMeansWork ==
  Api # {} /\ IsFiniteSet(Api)
    => (Spec /\ []OneRecords /\ [](crashes = 0) => []ProcessingIsWork)
<1> SUFFICES ASSUME Api # {}, IsFiniteSet(Api)
    PROVE  Spec /\ []OneRecords /\ [](crashes = 0) => []ProcessingIsWork
  OBVIOUS
<1> DEFINE Inv == CapacityInv /\ ReadStands(InWork) /\ Attended(InWork)
<1>1. Init => Inv
  BY LifecycleAssumption, CapacityInit, ProcessingInit
<1>2. Inv /\ OneRecords /\ (crashes = 0)' /\ [Next]_vars => Inv'
  BY LifecycleAssumption, CapacityNext, ReadStandsNext, AttendedNext DEF OneRecords
<1>3. Inv => ProcessingIsWork
  BY LifecycleAssumption, NobodyLeft
<1> HIDE DEF Inv
<1> QED
  BY <1>1, <1>2, <1>3, PTL DEF Spec

-----------------------------------------------------------------------------
(* One consumer, a queue that takes every job, and no request that         *)
(* processes files itself: settling transactions cannot overlap, and not   *)
(* even a crash leaves a completed submission behind.                      *)

OneConsumer ==
  /\ \A v, w \in Workers : v = w
  /\ QueueModes = {"up"}
  /\ Ops \cap {"reprocess", "direct"} = {}

\* Requests then only fail an upload whose object is missing or invalid.
RequestPoints == {"idle", "init_commit", "complete_commit", "enqueue", "submit_commit",
                  "decide_commit", "restore_commit", "restore_style_commit",
                  "fail_object", "fail_commit"}

QueueOnly ==
  /\ \A p \in Api : handler[p].todo = {} /\ handler[p].at \in RequestPoints
  /\ \A p \in Procs : handler[p].at # "reprocess_commit"

LEMMA QueueOnlySettles ==
  ASSUME OneConsumer, QueueOnly
  PROVE  OneSettles /\ \A p \in Procs : ~ReprocessCommit(p)
BY DEF OneConsumer, QueueOnly, RequestPoints, OneSettles, Settling, At, ReprocessCommit, Procs

\* A step of a request leaves it where it does not process files.
LEMMA RequestStays ==
  ASSUME LifecycleAssumption, CapacityInv, OneConsumer, QueueOnly, Next, NEW p \in Api, QuietStep(p)
  PROVE  handler'[p].todo = {} /\ handler'[p].at \in RequestPoints
<1> DEFINE Stays == handler'[p].todo = {} /\ handler'[p].at \in RequestPoints
<1>0. /\ p \in Procs /\ handler \in [Procs -> Handler] /\ handler' \in [Procs -> Handler]
      /\ handler[p].todo = {} /\ handler[p].at \in RequestPoints
  BY StepTypes DEF Procs, QueueOnly
<1>1. ASSUME NEW h, handler' = [handler EXCEPT ![p] = h], h.todo = {}, h.at \in RequestPoints
      PROVE  Stays
  BY <1>0, <1>1
<1>2. ASSUME NEW point \in RequestPoints, Goto(p, point)
      PROVE  Stays
  BY <1>0, <1>2 DEF Goto, Handler
<1>3. ASSUME Finish(p)
      PROVE  Stays
  BY <1>0, <1>3 DEF Finish, Idle, RequestPoints
<1>4. ASSUME NEW u \in Uploads, InitBegin(p, u) \/ CompleteBegin(p, u)
      PROVE  Stays
  <2>1. PICK point \in {"init_commit", "complete_commit", "fail_object"} :
          handler' = [handler EXCEPT ![p] = [Idle EXCEPT !.at = point, !.upload = u]]
    BY <1>4 DEF InitBegin, CompleteBegin, Begin
  <2>2. PICK h : h = [Idle EXCEPT !.at = point, !.upload = u]
    OBVIOUS
  <2>3. h.todo = {} /\ h.at \in RequestPoints
    BY <2>2 DEF Idle, RequestPoints
  <2> QED BY <1>1, <2>1, <2>2, <2>3
<1>5. \A u \in Uploads : ~DirectBegin(p, u)
  BY DEF OneConsumer, DirectBegin
<1>6. ~ReprocessBegin(p)
  BY DEF OneConsumer, ReprocessBegin
<1>7. CASE SubmitBegin(p)
  <2>1. PICK h : h = [Idle EXCEPT !.at = "submit_commit"]
    OBVIOUS
  <2>2. h.todo = {} /\ h.at \in RequestPoints
    BY <2>1 DEF Idle, RequestPoints
  <2> QED BY <1>1, <1>7, <2>1, <2>2 DEF SubmitBegin, Begin
<1>8. CASE RestoreFamilyBegin(p)
  <2>1. PICK outcome : handler' = [handler EXCEPT ![p] =
          [Idle EXCEPT !.at = "restore_commit", !.outcome = outcome]]
    BY <1>8 DEF RestoreFamilyBegin, Begin
  <2>2. PICK h : h = [Idle EXCEPT !.at = "restore_commit", !.outcome = outcome]
    OBVIOUS
  <2>3. h.todo = {} /\ h.at \in RequestPoints
    BY <2>2 DEF Idle, RequestPoints
  <2> QED BY <1>1, <2>1, <2>2, <2>3
<1>9. ASSUME NEW d \in Decisions, DecideBegin(p, d)
      PROVE  Stays
  <2>1. PICK h : h = [Idle EXCEPT !.at = "decide_commit", !.outcome = d]
    OBVIOUS
  <2>2. h.todo = {} /\ h.at \in RequestPoints
    BY <2>1 DEF Idle, RequestPoints
  <2> QED BY <1>1, <1>9, <2>1, <2>2 DEF DecideBegin, Begin
<1>10. ASSUME NEW s \in Styles, RestoreStyleBegin(p, s)
       PROVE  Stays
  <2>1. PICK outcome : handler' = [handler EXCEPT ![p] =
          [Idle EXCEPT !.at = "restore_style_commit", !.style = s, !.outcome = outcome]]
    BY <1>10 DEF RestoreStyleBegin, Begin
  <2>2. PICK h : h = [Idle EXCEPT !.at = "restore_style_commit", !.style = s, !.outcome = outcome]
    OBVIOUS
  <2>3. h.todo = {} /\ h.at \in RequestPoints
    BY <2>2 DEF Idle, RequestPoints
  <2> QED BY <1>1, <2>1, <2>2, <2>3
<1>11. CASE ArchiveFamily(p) \/ \E s \in Styles : ArchiveStyle(p, s)
  BY <1>0, <1>11 DEF ArchiveFamily, ArchiveStyle
<1>12. CASE Request(p)
  BY <1>4, <1>5, <1>6, <1>7, <1>8, <1>9, <1>10, <1>11, <1>12 DEF Request
<1>13. CASE InitCommit(p) \/ SubmitCommit(p) \/ DecideCommit(p) \/ RestoreFamilyCommit(p)
            \/ RestoreStyleCommit(p) \/ Crash(p) \/ Enqueue(p)
  BY <1>3, <1>13 DEF InitCommit, SubmitCommit, DecideCommit, RestoreFamilyCommit,
                     RestoreStyleCommit, Crash, Enqueue, OneConsumer
<1>14. CASE CompleteCommit(p) \/ FailObject(p)
  BY <1>2, <1>14 DEF CompleteCommit, FailObject, RequestPoints
<1>15. CASE FailCommit(p)
  BY <1>0, <1>3, <1>15 DEF FailCommit, NextUpload, Finish
<1>16. /\ ~ReprocessCommit(p) /\ ~DirectStore(p) /\ ~DirectCommit(p) /\ ~Inspect(p)
       /\ ~SyncStyle(p) /\ ~ProcessingError(p) /\ \A u \in Uploads : ~MarkProcessing(p, u)
  BY <1>0 DEF ReprocessCommit, DirectStore, DirectCommit, Inspect, SyncStyle, ProcessingError,
              MarkProcessing, At, RequestPoints
<1>17. ~TakeJob(p)
  BY DEF TakeJob, LifecycleAssumption
<1> QED
  BY <1>12, <1>13, <1>14, <1>15, <1>16, <1>17 DEF QuietStep

LEMMA QueueOnlyNext ==
  ASSUME LifecycleAssumption, CapacityInv, OneConsumer, QueueOnly, ReadStands(Unfinished), [Next]_vars
  PROVE  QueueOnly'
<1>1. CASE UNCHANGED handler
  BY <1>1 DEF QueueOnly
<1>2. CASE UNCHANGED vars \/ \E u \in Uploads : PutObject(u)
  BY <1>1, <1>2 DEF vars, rows, PutObject
<1>3. ASSUME Next, NEW p \in Procs, QuietStep(p)
      PROVE  QueueOnly'
  <2>1. \A q \in Procs : q # p => handler'[q] = handler[q]
    BY <1>3, QuietHandlers
  <2>2. handler'[p].at # "reprocess_commit"
    BY <1>3, QuietHandlers DEF OneConsumer
  <2>3. p \in Api => handler'[p].todo = {} /\ handler'[p].at \in RequestPoints
    BY <1>3, RequestStays
  <2> QED BY <2>1, <2>2, <2>3 DEF QueueOnly, Procs
<1>4. ASSUME Next, NEW p \in Procs, SettleRead(p) \/ SettleCommit(p)
      PROVE  QueueOnly'
  <2>1. p \notin Api
    BY <1>4 DEF SettleRead, SettleCommit, At, QueueOnly, RequestPoints
  <2>2. \A q \in Procs : q # p => handler'[q] = handler[q]
    BY <1>4, SettleReads, SettleWrites
  <2>3. handler'[p].at # "reprocess_commit"
    <3>1. CASE SettleRead(p)
      BY <1>4, <3>1, SettleReads
    <3>2. CASE SettleCommit(p)
      BY <1>4, <3>2, StepTypes DEF SettleCommit, NextUpload, Idle
    <3> QED BY <1>4, <3>1, <3>2
  <2> QED BY <2>1, <2>2, <2>3 DEF QueueOnly, Procs
<1> QED
  BY <1>2, <1>3, <1>4, StepCases

LEMMA QueueOnlyInit ==
  ASSUME Init
  PROVE  QueueOnly
BY DEF Init, QueueOnly, Procs, Idle, RequestPoints

\* With one consumer, as the worker process runs it, a queue that takes every
\* job, and no request that processes files itself, a submission never stays in
\* "processing" with all of its files completed, however often handlers crash;
\* with a failed file it may, as the run MCFailedAside shows for this deployment
\* (upload-processing.service processUpload and summarizeUploadProcessingState).
THEOREM OneConsumerLeavesNoneCompleted ==
  Api # {} /\ IsFiniteSet(Api) /\ OneConsumer => (Spec => []NotStuckProcessing)
<1> SUFFICES ASSUME Api # {}, IsFiniteSet(Api), OneConsumer
    PROVE  Spec => []NotStuckProcessing
  OBVIOUS
<1> DEFINE Inv == CapacityInv /\ QueueOnly /\ ReadStands(Unfinished) /\ Accounted(Unfinished)
<1>1. Init => Inv
  BY LifecycleAssumption, CapacityInit, QueueOnlyInit, ProcessingInit
<1>2. Inv /\ [Next]_vars => Inv'
  BY LifecycleAssumption, CapacityNext, QueueOnlyNext, QueueOnlySettles, ReadStandsNext, AccountedNext
<1>3. Inv => NotStuckProcessing
  BY LifecycleAssumption, NobodyLeft
<1> HIDE DEF Inv
<1> QED
  BY <1>1, <1>2, <1>3, PTL DEF Spec

\* The same deployment: a submission that says "processing" when nothing runs
\* any more has a file that is queued or in processing, crashes included, unless
\* a request recorded a missing file as failed inside a settling transaction
\* (uploads.service completeUpload beside upload-processing.service processUpload).
THEOREM OneConsumerWorks ==
  Api # {} /\ IsFiniteSet(Api) /\ OneConsumer
    => (Spec /\ []OneRecords => []ProcessingIsWork)
<1> SUFFICES ASSUME Api # {}, IsFiniteSet(Api), OneConsumer
    PROVE  Spec /\ []OneRecords => []ProcessingIsWork
  OBVIOUS
<1> DEFINE Inv == /\ CapacityInv /\ QueueOnly /\ ReadStands(Unfinished)
                  /\ ReadStands(InWork) /\ Accounted(InWork)
<1>1. Init => Inv
  BY LifecycleAssumption, CapacityInit, QueueOnlyInit, ProcessingInit
<1>2. Inv /\ OneRecords /\ [Next]_vars => Inv'
  BY LifecycleAssumption, CapacityNext, QueueOnlyNext, QueueOnlySettles, ReadStandsNext,
     AccountedNext DEF OneRecords
<1>3. Inv => ProcessingIsWork
  BY LifecycleAssumption, NobodyLeft
<1> HIDE DEF Inv
<1> QED
  BY <1>1, <1>2, <1>3, PTL DEF Spec

=============================================================================
