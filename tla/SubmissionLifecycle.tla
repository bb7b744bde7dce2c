------------------------ MODULE SubmissionLifecycle ------------------------
(***************************************************************************)
(* One submission, its font family, its uploads and its styles, and every  *)
(* request handler and queue worker that writes their status.  Submissions *)
(* do not share rows (each owns its family, uploads and styles), so one is *)
(* enough.                                                                 *)
(*                                                                         *)
(* The handlers read a row, decide, and write later without a condition on *)
(* what they read.  Each is modelled as a Begin step (the reads and every  *)
(* guard), then one step per transaction or storage call.  A transaction   *)
(* is one step, except the one that settles an upload: it reads the other  *)
(* uploads and writes the submission under READ COMMITTED, so another      *)
(* transaction can commit in between.                                      *)
(***************************************************************************)
EXTENDS Naturals, FiniteSets, Sequences

CONSTANTS
  Uploads,      \* ids that createRawUploadKey may hand out
  Styles,       \* style slugs of the family
  StyleOf,      \* StyleOf[u]: the slug found by inspecting the file of upload u
  Api,          \* request handlers that may run at the same time
  Workers,      \* font-processing queue consumers
  Ops,          \* the requests that users make in this instance
  QueueModes,   \* what queue.add may do: "up" (job stored) or "down" (it throws)
  MaxUploads,   \* UploadsPolicyService: files per submission
  MaxJobs,      \* bound: waiting jobs and completions in flight
  MaxCrashes,   \* bound: handlers cut short
  None          \* no upload, no style

AllOps == {"init", "put", "complete", "submit", "decide", "reprocess", "direct",
           "archive", "restore", "archive_style", "restore_style"}

ASSUME LifecycleAssumption ==
  /\ StyleOf \in [Uploads -> Styles]
  /\ Api \cap Workers = {}
  /\ Ops \subseteq AllOps
  /\ QueueModes \subseteq {"up", "down"} /\ QueueModes # {}
  /\ MaxUploads \in Nat \ {0} /\ MaxJobs \in Nat /\ MaxCrashes \in Nat
  /\ None \notin Uploads \cup Styles

VARIABLES
  status,     \* submission.status
  uploads,    \* upload.processingStatus, "none" before the row exists
  staff,      \* uploads whose uploader is a reviewer or an admin
  stored,     \* uploads whose raw object is in the bucket
  styles,     \* fontStyle.status, "none" before the row exists
  file,       \* fontStyle.fileKey: the upload whose object the style serves
  family,     \* fontFamily.status
  published,  \* fontFamily.publishedAt is set
  verdict,    \* action of the latest decision event, "none" before the first
  reviewed,   \* files that were in the family when it was approved
  jobs,       \* the font-processing queue: uploads waiting for a consumer
  handler,    \* the request or job that each process is in the middle of
  crashes     \* handlers cut short so far

rows == <<status, uploads, staff, styles, file, family, published, verdict, reviewed>>
vars == <<rows, stored, jobs, handler, crashes>>

Procs == Api \cup Workers
Decisions == {"approved", "rejected", "changes_requested"}
Targets == {"ready_for_submission", "needs_review"}
Statuses == Decisions \cup Targets
              \cup {"draft", "uploaded", "processing", "processing_failed"}
ProcessingStates == {"queued", "processing", "completed", "failed"}
FamilyStates == {"draft", "approved", "archived"}

\* Where a handler may be suspended: before the call that the name says.
ProcessingPoints == {"mark", "inspect", "sync", "settle_read", "settle_commit",
                     "fail_object", "fail_commit"}
Points == ProcessingPoints \cup
  {"idle", "init_commit", "complete_commit", "enqueue", "submit_commit",
   "decide_commit", "reprocess_commit", "direct_store", "direct_commit",
   "restore_commit", "restore_style_commit"}

\* outcome: the status that the handler has computed and not yet written.
Handler == [at: Points, upload: Uploads \cup {None}, todo: SUBSET Uploads,
            target: Targets, style: Styles \cup {None},
            outcome: Statuses \cup FamilyStates]
Idle == [at |-> "idle", upload |-> None, todo |-> {}, style |-> None,
         target |-> "ready_for_submission", outcome |-> "draft"]

TypeOK ==
  /\ status \in Statuses
  /\ uploads \in [Uploads -> ProcessingStates \cup {"none"}]
  /\ staff \subseteq Uploads
  /\ stored \subseteq Uploads
  /\ styles \in [Styles -> FamilyStates \cup {"none"}]
  /\ file \in [Styles -> Uploads \cup {None}]
  /\ family \in FamilyStates
  /\ published \in BOOLEAN
  /\ verdict \in Decisions \cup {"none"}
  /\ reviewed \subseteq Uploads
  /\ jobs \in Seq(Uploads)
  /\ handler \in [Procs -> Handler]
  /\ crashes \in 0..MaxCrashes

At(p, point) == handler[p].at = point
Begin(p, h) == At(p, "idle") /\ handler' = [handler EXCEPT ![p] = h]
Goto(p, point) == handler' = [handler EXCEPT ![p].at = point]
Finish(p) == handler' = [handler EXCEPT ![p] = Idle]

Existing == {u \in Uploads : uploads[u] # "none"}
HasStyle == \E s \in Styles : styles[s] # "none"
\* createRawUploadKey draws a random id: never one in use or handed out.
Fresh(u) == /\ uploads[u] = "none" /\ u \notin stored
            /\ \A q \in Procs : handler[q].upload # u
\* The settling transaction has updated the row of u and not yet committed.
RowLocked(u) == \E q \in Procs : At(q, "settle_commit") /\ handler[q].upload = u

Init ==
  /\ status = "draft"
  /\ uploads = [u \in Uploads |-> "none"]
  /\ staff = {} /\ stored = {}
  /\ styles = [s \in Styles |-> "none"]
  /\ file = [s \in Styles |-> None]
  /\ family = "draft" /\ published = FALSE
  /\ verdict = "none" /\ reviewed = {}
  /\ jobs = <<>>
  /\ handler = [p \in Procs |-> Idle]
  /\ crashes = 0

-----------------------------------------------------------------------------
(* uploads.service: initUpload, the client's PUT, completeUpload           *)

\* Mutant (MCStaff): the limit is compared with <=.
CapacityOffByOne == Cardinality(Existing) <= MaxUploads

HasCapacity == Cardinality(Existing) < MaxUploads

InitBegin(p, u) ==
  /\ "init" \in Ops
  /\ status \in {"draft", "uploaded", "ready_for_submission", "changes_requested"}
  /\ HasCapacity
  /\ Fresh(u)
  /\ Begin(p, [Idle EXCEPT !.at = "init_commit", !.upload = u])
  /\ UNCHANGED <<rows, stored, jobs, crashes>>

InitCommit(p) ==
  /\ At(p, "init_commit")
  /\ uploads' = [uploads EXCEPT ![handler[p].upload] = "queued"]
  /\ status' = "uploaded"
  /\ Finish(p)
  /\ UNCHANGED <<staff, stored, styles, file, family, published, verdict,
                 reviewed, jobs, crashes>>

\* The client stores the file with the presigned URL, straight into the bucket.
PutObject(u) ==
  /\ "put" \in Ops
  /\ uploads[u] # "none" /\ u \notin stored
  /\ stored' = stored \cup {u}
  /\ UNCHANGED <<rows, jobs, handler, crashes>>

Completions == {p \in Procs : handler[p].at \in {"complete_commit", "enqueue"}}

\* completeUpload reads the upload row and checks the stored object; it does
\* not look at the submission's status.  A missing or invalid object fails
\* the upload.
CompleteBegin(p, u) ==
  /\ "complete" \in Ops
  /\ uploads[u] # "none"
  /\ Len(jobs) + Cardinality(Completions) < MaxJobs
  /\ \/ /\ u \in stored
        /\ Begin(p, [Idle EXCEPT !.at = "complete_commit", !.upload = u])
     \/ Begin(p, [Idle EXCEPT !.at = "fail_object", !.upload = u])
  /\ UNCHANGED <<rows, stored, jobs, crashes>>

CompleteCommit(p) ==
  /\ At(p, "complete_commit")
  /\ ~RowLocked(handler[p].upload)
  /\ status' = "processing"
  /\ uploads' = [uploads EXCEPT ![handler[p].upload] = "queued"]
  /\ Goto(p, "enqueue")
  /\ UNCHANGED <<staff, stored, styles, file, family, published, verdict,
                 reviewed, jobs, crashes>>

\* scheduleUploadProcessing: after the transaction, a job in Redis or, when
\* the queue is down, the work done inline by the request.
Enqueue(p) ==
  /\ At(p, "enqueue")
  /\ \/ /\ "up" \in QueueModes
        /\ jobs' = Append(jobs, handler[p].upload)
        /\ Finish(p)
     \/ /\ "down" \in QueueModes
        /\ handler' = [handler EXCEPT ![p].at = "mark",
                                      ![p].todo = {handler[p].upload}]
        /\ UNCHANGED jobs
  /\ UNCHANGED <<rows, stored, crashes>>

-----------------------------------------------------------------------------
(* upload-processing.service: processUpload, failUpload                    *)

\* Mutant (MCReview, MCHandlers): completed is tested after processing.
SummaryUnordered(states) ==
  IF "failed" \in states THEN "failed"
  ELSE IF states \cap {"processing", "completed"} # {} THEN "processing"
  ELSE "queued"

\* summarizeUploadProcessingState over the rows of the submission.
Summary(states) ==
  IF "failed" \in states THEN "failed"
  ELSE IF states = {"completed"} THEN "completed"
  ELSE IF states \cap {"processing", "completed"} # {} THEN "processing"
  ELSE "queued"

\* Mutant (MCReview): a decided submission keeps its status, as last read.
DeriveStatusKeeps(states, target) ==
  IF status \in Decisions THEN status
  ELSE IF Summary(states) = "completed" THEN target ELSE "processing"

DeriveStatus(states, target) ==
  CASE Summary(states) = "failed" -> "processing_failed"
    [] Summary(states) = "completed" -> target
    [] OTHER -> "processing"

TakeJob(w) ==
  /\ w \in Workers
  /\ jobs # <<>>
  /\ jobs' = Tail(jobs)
  /\ Begin(w, [Idle EXCEPT !.at = "mark", !.todo = {Head(jobs)}])
  /\ UNCHANGED <<rows, stored, crashes>>

MarkProcessing(p, u) ==
  /\ At(p, "mark") /\ u \in handler[p].todo
  /\ ~RowLocked(u)
  /\ uploads' = [uploads EXCEPT ![u] = "processing"]
  /\ handler' = [handler EXCEPT ![p].at = "inspect", ![p].upload = u,
                                ![p].todo = @ \ {u}]
  /\ UNCHANGED <<status, staff, stored, styles, file, family, published, verdict,
                 reviewed, jobs, crashes>>

\* Mutant (MCReview, MCStaff): the upload settles without its style.
InspectThenSettle(p) ==
  /\ At(p, "inspect")
  /\ handler[p].upload \in stored
  /\ Goto(p, "settle_read")
  /\ UNCHANGED <<rows, stored, jobs, crashes>>

Inspect(p) ==
  /\ At(p, "inspect")
  /\ handler[p].upload \in stored
  /\ Goto(p, "sync")
  /\ UNCHANGED <<rows, stored, jobs, crashes>>

\* syncFromInspection upserts by (family, slug): a new style is a draft, an
\* existing one keeps its status and serves the new file.
SyncStyle(p) ==
  LET s == StyleOf[handler[p].upload] IN
  /\ At(p, "sync")
  /\ styles' = [styles EXCEPT ![s] = IF @ = "none" THEN "draft" ELSE @]
  /\ file' = [file EXCEPT ![s] = handler[p].upload]
  /\ Goto(p, "settle_read")
  /\ UNCHANGED <<status, uploads, staff, stored, family, published, verdict,
                 reviewed, jobs, crashes>>

\* The transaction updates its own upload (seen only by itself), then reads
\* all uploads of the submission as committed so far.
SettleRead(p) ==
  LET u == handler[p].upload
      seen == {[uploads EXCEPT ![u] = "completed"][v] : v \in Existing}
  IN
  /\ At(p, "settle_read")
  /\ ~RowLocked(u)
  /\ handler' = [handler EXCEPT ![p].at = "settle_commit",
                                ![p].outcome = DeriveStatus(seen, handler[p].target)]
  /\ UNCHANGED <<rows, stored, jobs, crashes>>

\* Mutant (MCHandlers): the loop takes up the same upload again.
NextUploadAgain(p) ==
  handler' = [handler EXCEPT ![p] =
                [Idle EXCEPT !.at = "mark", !.target = handler[p].target,
                             !.todo = handler[p].todo \cup {handler[p].upload}]]

\* After one upload, reprocessSubmission goes on with the next.
NextUpload(p) ==
  handler' = [handler EXCEPT ![p] =
                IF @.todo = {} THEN Idle
                ELSE [Idle EXCEPT !.at = "mark", !.todo = handler[p].todo,
                                  !.target = handler[p].target]]

SettleCommit(p) ==
  /\ At(p, "settle_commit")
  /\ uploads' = [uploads EXCEPT ![handler[p].upload] = "completed"]
  /\ status' = handler[p].outcome
  /\ NextUpload(p)
  /\ UNCHANGED <<staff, stored, styles, file, family, published, verdict,
                 reviewed, jobs, crashes>>

\* A font that does not parse, or a storage or database error (the settling
\* transaction may be the victim of a deadlock): the catch block takes over.
ProcessingError(p) ==
  /\ handler[p].at \in {"inspect", "sync", "settle_read", "settle_commit"}
  /\ Goto(p, "fail_object")
  /\ UNCHANGED <<rows, stored, jobs, crashes>>

\* Mutant (MCHandlers): an error of the storage ends the failure handling.
FailObjectAborts(p) ==
  /\ At(p, "fail_object")
  /\ \/ stored' = stored \ {handler[p].upload} /\ Goto(p, "fail_commit")
     \/ stored' = stored /\ Finish(p)
  /\ UNCHANGED <<rows, jobs, crashes>>

\* failUpload deletes the raw object first; a storage error leaves it there.
FailObject(p) ==
  /\ At(p, "fail_object")
  /\ stored' \in {stored, stored \ {handler[p].upload}}
  /\ Goto(p, "fail_commit")
  /\ UNCHANGED <<rows, jobs, crashes>>

FailCommit(p) ==
  /\ At(p, "fail_commit")
  /\ ~RowLocked(handler[p].upload)
  /\ status' = "processing_failed"
  /\ uploads' = [uploads EXCEPT ![handler[p].upload] = "failed"]
  /\ NextUpload(p)
  /\ UNCHANGED <<staff, stored, styles, file, family, published, verdict,
                 reviewed, jobs, crashes>>

-----------------------------------------------------------------------------
(* submissions.service: submit;  admin.service: applyReviewDecision        *)

SubmitBegin(p) ==
  /\ "submit" \in Ops
  /\ status \in {"ready_for_submission", "changes_requested"}
  /\ \E u \in Uploads : uploads[u] = "completed"
  /\ Begin(p, [Idle EXCEPT !.at = "submit_commit"])
  /\ UNCHANGED <<rows, stored, jobs, crashes>>

SubmitCommit(p) ==
  /\ At(p, "submit_commit")
  /\ status' = "needs_review"
  /\ Finish(p)
  /\ UNCHANGED <<uploads, staff, stored, styles, file, family, published, verdict,
                 reviewed, jobs, crashes>>

DecideBegin(p, d) ==
  /\ "decide" \in Ops
  /\ status = "needs_review"
  /\ Begin(p, [Idle EXCEPT !.at = "decide_commit", !.outcome = d])
  /\ UNCHANGED <<rows, stored, jobs, crashes>>

\* The status of the family and of its styles after a decision.
Visibility(d) == IF d = "approved" THEN "approved" ELSE "draft"

\* Mutant (MCReview): archived styles stay archived.
DecidedStylesActive(d) ==
  [s \in Styles |-> IF styles[s] \in {"none", "archived"} THEN styles[s] ELSE Visibility(d)]

\* updateMany touches every style of the family, archived ones included.
DecidedStyles(d) ==
  [s \in Styles |-> IF styles[s] = "none" THEN "none" ELSE Visibility(d)]

DecideCommit(p) ==
  LET d == handler[p].outcome IN
  /\ At(p, "decide_commit")
  /\ status' = d
  /\ family' = Visibility(d)
  /\ published' = (d = "approved")
  /\ styles' = DecidedStyles(d)
  /\ verdict' = d
  /\ reviewed' = IF d = "approved"
                 THEN reviewed \cup {file[s] : s \in {t \in Styles : styles[t] # "none"}}
                 ELSE reviewed
  /\ Finish(p)
  /\ UNCHANGED <<uploads, staff, stored, file, jobs, crashes>>

-----------------------------------------------------------------------------
(* admin.service: reprocessSubmission, directUploadToSubmission            *)

ReprocessBegin(p) ==
  LET todo == Existing \cap stored IN
  /\ "reprocess" \in Ops
  /\ status \in {"uploaded", "processing", "processing_failed", "ready_for_submission"}
  /\ todo # {}
  /\ Begin(p, [Idle EXCEPT !.at = "reprocess_commit", !.todo = todo,
                 !.target = IF todo \cap staff # {} THEN "needs_review"
                            ELSE "ready_for_submission"])
  /\ UNCHANGED <<rows, stored, jobs, crashes>>

ReprocessCommit(p) ==
  /\ At(p, "reprocess_commit")
  /\ status' = "processing"
  /\ Goto(p, "mark")
  /\ UNCHANGED <<uploads, staff, stored, styles, file, family, published, verdict,
                 reviewed, jobs, crashes>>

DirectBegin(p, u) ==
  /\ "direct" \in Ops
  /\ status \notin {"approved", "rejected"}
  /\ HasCapacity
  /\ Fresh(u)
  /\ Begin(p, [Idle EXCEPT !.at = "direct_store", !.upload = u])
  /\ UNCHANGED <<rows, stored, jobs, crashes>>

DirectStore(p) ==
  /\ At(p, "direct_store")
  /\ stored' = stored \cup {handler[p].upload}
  /\ Goto(p, "direct_commit")
  /\ UNCHANGED <<rows, jobs, crashes>>

DirectCommit(p) ==
  LET u == handler[p].upload IN
  /\ At(p, "direct_commit")
  /\ uploads' = [uploads EXCEPT ![u] = "queued"]
  /\ staff' = staff \cup {u}
  /\ status' = "processing"
  /\ handler' = [handler EXCEPT ![p].at = "mark", ![p].todo = {u},
                                ![p].target = "needs_review"]
  /\ UNCHANGED <<stored, styles, file, family, published, verdict, reviewed,
                 jobs, crashes>>

-----------------------------------------------------------------------------
(* admin.service: archive and restore of the family and of its styles      *)

ArchiveFamily(p) ==
  /\ "archive" \in Ops
  /\ At(p, "idle")
  /\ family # "archived"
  /\ family' = "archived"
  /\ UNCHANGED <<status, uploads, staff, stored, styles, file, published, verdict,
                 reviewed, jobs, handler, crashes>>

\* Mutant (MCReview): a restore approves without looking at publishedAt.
RestoreFamilyApproves(p) ==
  /\ "restore" \in Ops
  /\ Begin(p, [Idle EXCEPT !.at = "restore_commit", !.outcome = "approved"])
  /\ UNCHANGED <<rows, stored, jobs, crashes>>

RestoreFamilyBegin(p) ==
  /\ "restore" \in Ops
  /\ Begin(p, [Idle EXCEPT !.at = "restore_commit",
                           !.outcome = IF published THEN "approved" ELSE "draft"])
  /\ UNCHANGED <<rows, stored, jobs, crashes>>

RestoreFamilyCommit(p) ==
  /\ At(p, "restore_commit")
  /\ family' = handler[p].outcome
  /\ Finish(p)
  /\ UNCHANGED <<status, uploads, staff, stored, styles, file, published, verdict,
                 reviewed, jobs, crashes>>

ArchiveStyle(p, s) ==
  /\ "archive_style" \in Ops
  /\ At(p, "idle")
  /\ styles[s] # "none"
  /\ styles' = [styles EXCEPT ![s] = "archived"]
  /\ UNCHANGED <<status, uploads, staff, stored, file, family, published, verdict,
                 reviewed, jobs, handler, crashes>>

RestoreStyleBegin(p, s) ==
  /\ "restore_style" \in Ops
  /\ styles[s] # "none"
  /\ Begin(p, [Idle EXCEPT !.at = "restore_style_commit", !.style = s,
                 !.outcome = IF family = "approved" THEN "approved" ELSE "draft"])
  /\ UNCHANGED <<rows, stored, jobs, crashes>>

RestoreStyleCommit(p) ==
  /\ At(p, "restore_style_commit")
  /\ styles' = [styles EXCEPT ![handler[p].style] = handler[p].outcome]
  /\ Finish(p)
  /\ UNCHANGED <<status, uploads, staff, stored, file, family, published, verdict,
                 reviewed, jobs, crashes>>

-----------------------------------------------------------------------------
\* A process dies, or an error the handler does not catch ends it: what it
\* has not committed is lost.  A queue job goes to the back of the queue for
\* another attempt, unless it was the last one.
Crash(p) ==
  /\ crashes < MaxCrashes
  /\ ~At(p, "idle")
  /\ crashes' = crashes + 1
  /\ Finish(p)
  /\ \/ UNCHANGED jobs
     \/ /\ p \in Workers
        /\ \E u \in handler[p].todo \cup ({handler[p].upload} \ {None}) :
              jobs' = Append(jobs, u)
  /\ UNCHANGED <<rows, stored>>

\* Requests that a user or a staff member chooses to make.
Request(p) ==
  /\ p \in Api
  /\ \/ \E u \in Uploads : InitBegin(p, u) \/ CompleteBegin(p, u) \/ DirectBegin(p, u)
     \/ SubmitBegin(p)
     \/ \E d \in Decisions : DecideBegin(p, d)
     \/ ReprocessBegin(p)
     \/ ArchiveFamily(p) \/ RestoreFamilyBegin(p)
     \/ \E s \in Styles : ArchiveStyle(p, s) \/ RestoreStyleBegin(p, s)

ProcessStep(p) ==
  \/ \E u \in Uploads : MarkProcessing(p, u)
  \/ Inspect(p) \/ SyncStyle(p) \/ SettleRead(p) \/ SettleCommit(p)
  \/ ProcessingError(p) \/ FailObject(p) \/ FailCommit(p)

\* The next step of a handler that has begun.
HandlerStep(p) ==
  \/ InitCommit(p) \/ CompleteCommit(p) \/ Enqueue(p)
  \/ SubmitCommit(p) \/ DecideCommit(p)
  \/ ReprocessCommit(p) \/ DirectStore(p) \/ DirectCommit(p)
  \/ RestoreFamilyCommit(p) \/ RestoreStyleCommit(p)
  \/ ProcessStep(p)

Next ==
  \/ \E u \in Uploads : PutObject(u)
  \/ \E p \in Procs : Request(p) \/ HandlerStep(p) \/ Crash(p)
  \/ \E w \in Workers : TakeJob(w)

Spec == Init /\ [][Next]_vars

\* A handler that has begun runs on (Node resumes every settled promise; a
\* transaction that waits for a row gets it in turn, hence strong fairness),
\* and an idle worker takes waiting jobs.  Nobody has to make a request.
Fairness ==
  /\ \A p \in Procs : SF_vars(HandlerStep(p))
  /\ \A w \in Workers : WF_vars(TakeJob(w))

FairSpec == Spec /\ Fairness
-----------------------------------------------------------------------------
(* Properties that hold                                                    *)

\* A reviewer is never shown an empty family: whatever was uploaded again,
\* failed or archived meanwhile, a submission in review (and the family of a
\* decision under way) has at least one style row.  The submit guard and the
\* settling transaction look at uploads only; styles are written elsewhere.
ReviewHasStyle ==
  status = "needs_review" \/ (\E p \in Procs : At(p, "decide_commit")) => HasStyle

\* No public exposure before review: if the family or one of its styles is
\* approved, or publishedAt is set, some approving decision has been committed.
\* Restores write "approved" from what they read earlier, so they too must
\* never find it before the first approval.
PublicOnlyAfterApproval ==
  family = "approved" \/ published \/ (\E s \in Styles : styles[s] = "approved")
    => reviewed # {}

\* However decisions, late processing jobs and restores interleave, a decided
\* status is the one of the latest decision event, and publishedAt is set
\* exactly when that decision was an approval.
DecisionsAgree ==
  /\ status \in Decisions => verdict = status
  /\ published <=> verdict = "approved"

\* The capacity check reads the count before it creates the row, so handlers
\* that run together can pass it together; they exceed the limit by at most
\* one file for each other handler.
OvershootBounded ==
  Cardinality(Existing) <= MaxUploads + Cardinality(Api) - 1

\* An approving commit publishes something: the family and at least one style
\* are approved by the same step, even when all styles were archived before.
ApprovalPublishes ==
  [][published' /\ ~published
       => family' = "approved" /\ \E s \in Styles : styles'[s] = "approved"]_vars

\* Every handler and every job has ended.
Quiescent == (\A p \in Procs : At(p, "idle")) /\ jobs = <<>>

\* A submission does not stay in "processing" when all of its uploads are
\* done: the last job to settle sees the others completed.  (It relies on one
\* consumer and on no processing inside requests.)
NotStuckProcessing ==
  Quiescent /\ Existing # {} /\ (\A u \in Existing : uploads[u] = "completed")
    => status # "processing"

\* Every accepted job settles its upload, unless a crash loses it.
JobsSettle ==
  \A u \in Uploads :
    (\E i \in 1..Len(jobs) : jobs[i] = u) ~> uploads[u] \in {"completed", "failed"}

\* A handler that has begun comes to an end: no two handlers wait on each
\* other's row locks for ever.
HandlersEnd == \A p \in Procs : ~At(p, "idle") ~> At(p, "idle")

\* Processing that has begun ends: once nothing crashes, a submission leaves
\* "processing" (with one upload, whose owner completed it).  A crash after
\* completeUpload's transaction and before queue.add breaks it for good.
ProcessingEnds == status = "processing" ~> status # "processing"

-----------------------------------------------------------------------------
(* The inductive strengthening of the three invariants above.              *)

UploadPoints == {"init_commit", "complete_commit", "enqueue", "inspect", "sync",
                 "settle_read", "settle_commit", "fail_object", "fail_commit",
                 "direct_store", "direct_commit"}

\* What a suspended handler remembers is what its next step may rely on,
\* however late the step comes.  Styles are written before and outside the
\* settling transaction, so a handler that will record a completed upload has
\* its style, and one that will enter or leave review has seen some style; a
\* restore that will publish has read the effect of an approval.
GoodHandler(h) ==
  /\ h.at \in UploadPoints => h.upload \in Uploads
  /\ h.at \in {"settle_read", "settle_commit"} => styles[StyleOf[h.upload]] # "none"
  /\ h.at = "settle_commit" => h.outcome \in Targets \cup {"processing", "processing_failed"}
  /\ h.at \in {"submit_commit", "decide_commit"} => HasStyle
  /\ h.at = "decide_commit" => h.outcome \in Decisions
  /\ h.at = "restore_style_commit" => h.style \in Styles /\ styles[h.style] # "none"
  /\ h.at \in {"restore_commit", "restore_style_commit"}
       => h.outcome \in {"approved", "draft"} /\ (h.outcome = "approved" => reviewed # {})

RowsOK ==
  /\ \A u \in Uploads : uploads[u] = "completed" => styles[StyleOf[u]] # "none"
  /\ \A s \in Styles : styles[s] # "none" => file[s] \in Uploads
  /\ status = "needs_review" => HasStyle
  /\ PublicOnlyAfterApproval
  /\ DecisionsAgree

IInv ==
  /\ TypeOK
  /\ \A p \in Procs : GoodHandler(handler[p])
  /\ RowsOK

-----------------------------------------------------------------------------
(* Statements of the documentation that the code does not keep             *)

\* docs/submission-review-workflow.md, section 3: in processing, the worker is
\* validating or extracting metadata from uploaded files.  A settling transaction
\* that has read a queued file writes "processing" even if completeUpload has
\* found that file missing, and recorded it as failed, meanwhile.
ProcessingIsWork ==
  Quiescent /\ status = "processing"
    => \E u \in Existing : uploads[u] \in {"queued", "processing"}

\* docs/submission-review-workflow.md, section 15: rejected submissions remain
\* non-public.  A restore that read publishedAt before the rejection writes
\* "approved" after it.
RejectedNotPublic == status = "rejected" => family # "approved"

\* docs/submission-review-workflow.md, section 6: approval promotes reviewed
\* data into the public record, so a public style serves a reviewed file.
PublicFilesReviewed ==
  family = "approved"
    => \A s \in Styles : styles[s] = "approved" => file[s] \in reviewed
=============================================================================
