--------------------------- MODULE ReviewReports ----------------------------
(***************************************************************************)
(* What the review events of a submission tell: the action items, issue    *)
(* resolutions and phase that its contributor sees, and the turnaround and *)
(* counts of the review analytics.  All of it is derived from the events   *)
(* and the rows at the time of a request, never stored.  The status moves  *)
(* as in SubmissionLifecycle, the processing of a file in single steps.    *)
(***************************************************************************)
EXTENDS Naturals, FiniteSets, Sequences, SequencesExt, Orders, Handlers

CONSTANTS
  Files,
  MaxEvents   \* bound: review events

ASSUME ReportsAssumption ==
  /\ MaxEvents \in Nat
  /\ None \notin Nat \cup Api
  /\ {"submission", "blank"} \cap Files = {}

VARIABLES
  stage,        \* submission.status
  files,        \* upload.processingStatus
  staffFiles,   \* those that staff uploaded
  target,       \* the status that the processing under way ends in
  events,       \* the review events, in the order of createdAt
  submittedAt,  \* how many events there were, None if not set
  reviewedAt,
  reviewedBy,   \* submission.reviewedByUserId
  crossed       \* history: a submission or decision that others overtook

reportVars ==
  <<stage, files, staffFiles, target, events, submittedAt, reviewedAt,
    reviewedBy, crossed>>

Stages == {"draft", "processing", "processing_failed", "ready_for_submission", "needs_review",
           "approved", "rejected", "changes_requested"}
DecisionActions == {"approved", "rejected", "request_changes"}
Actions == DecisionActions \cup {"submitted", "processing_failed", "reprocessed",
                                 "metadata_updated"}

\* An issue is about a file or the submission; one that is sent may be blank.
Issue == Files \cup {"submission"}
Raw == Issue \cup {"blank"}

\* issues: those of the metadata;  files: its uploadId and uploadIds.
Event == [action: Actions, by: Api \cup {None}, issues: SUBSET Issue, files: SUBSET Files]

ReportsInit ==
  /\ stage = "draft"
  /\ files = [f \in Files |-> "none"]
  /\ staffFiles = {}
  /\ target = "ready_for_submission"
  /\ events = <<>>
  /\ submittedAt = None /\ reviewedAt = None /\ reviewedBy = None
  /\ crossed = FALSE

ReportsRoom == Len(events) < MaxEvents
Record(action, by, issues, some) ==
  events' = Append(events, [action |-> action, by |-> by, issues |-> issues, files |-> some])

-----------------------------------------------------------------------------
(* Uploads and their processing                                            *)

FileStates == {files[f] : f \in Files} \ {"none"}

\* initUpload and completeUpload: a new file in some states, an old one in any.
CompleteFile(p, f) ==
  /\ At(p, "idle") /\ ReportsRoom
  /\ files[f] # "processing"
  /\ files[f] = "none" => stage \in {"draft", "ready_for_submission", "changes_requested"}
  /\ files' = [files EXCEPT ![f] = "processing"]
  /\ stage' = "processing"
  /\ target' = "ready_for_submission"
  /\ UNCHANGED <<handler, staffFiles, events, submittedAt, reviewedAt, reviewedBy, crossed>>

\* directUploadToSubmission: a file of the staff.
DirectFile(p, f) ==
  /\ At(p, "idle") /\ ReportsRoom
  /\ files[f] = "none"
  /\ files' = [files EXCEPT ![f] = "processing"]
  /\ staffFiles' = staffFiles \cup {f}
  /\ stage' = "processing"
  /\ target' = "needs_review"
  /\ Record("metadata_updated", p, {}, {f})
  /\ UNCHANGED <<handler, submittedAt, reviewedAt, reviewedBy, crossed>>

\* reprocessSubmission: the files whose objects are still there.
ReprocessFiles(p) ==
  LET some == {f \in Files : files[f] \in {"completed", "processing"}} IN
  /\ At(p, "idle") /\ ReportsRoom
  /\ stage \in {"processing", "processing_failed", "ready_for_submission"}
  /\ some # {}
  /\ files' = [f \in Files |-> IF f \in some THEN "processing" ELSE files[f]]
  /\ stage' = "processing"
  /\ target' = IF some \cap staffFiles = {} THEN "ready_for_submission" ELSE "needs_review"
  /\ Record("reprocessed", p, {}, some)
  /\ UNCHANGED <<handler, staffFiles, submittedAt, reviewedAt, reviewedBy, crossed>>

SettleFile(f) ==
  LET others == {files[g] : g \in Files \ {f}} IN
  /\ files[f] = "processing"
  /\ files' = [files EXCEPT ![f] = "completed"]
  /\ stage' = IF "failed" \in others THEN "processing_failed"
              ELSE IF "processing" \in others THEN "processing" ELSE target
  /\ UNCHANGED <<handler, staffFiles, target, events, submittedAt, reviewedAt, reviewedBy, crossed>>

\* Mutant (MCLibrary): the failure is not recorded.
FailQuietly(f) ==
  /\ files[f] = "processing" /\ ReportsRoom
  /\ files' = [files EXCEPT ![f] = "failed"]
  /\ stage' = "processing_failed"
  /\ UNCHANGED <<handler, staffFiles, target, events, submittedAt, reviewedAt, reviewedBy, crossed>>

FailFile(f) ==
  /\ files[f] = "processing" /\ ReportsRoom
  /\ files' = [files EXCEPT ![f] = "failed"]
  /\ stage' = "processing_failed"
  /\ Record("processing_failed", None, {}, {f})
  /\ UNCHANGED <<handler, staffFiles, target, submittedAt, reviewedAt, reviewedBy, crossed>>

-----------------------------------------------------------------------------
(* Submissions and decisions: a handler checks the status, notes the time, *)
(* and writes both in its transaction.                                     *)

SubmissionBegin(p) ==
  /\ stage \in {"ready_for_submission", "changes_requested"} /\ "completed" \in FileStates
  /\ ReportsRoom
  /\ Begin(p, [at |-> "submission", now |-> Len(events)])
  /\ UNCHANGED reportVars

SubmissionSave(p) ==
  LET h == handler[p] IN
  /\ At(p, "submission") /\ ReportsRoom
  /\ stage' = "needs_review"
  /\ submittedAt' = h.now
  /\ Record("submitted", None, {}, {})
  /\ crossed' = (crossed \/ h.now # Len(events) \/ stage \notin {"ready_for_submission", "changes_requested"})
  /\ Finish(p)
  /\ UNCHANGED <<files, staffFiles, target, reviewedAt, reviewedBy>>

\* normalizeReviewDecisionIssues drops the issues that say nothing; one that
\* points at a file of another submission is refused.
Normalized(raw) == {i \in raw \ {"blank"} : i \in Files => files[i] # "none"}

\* An approval may have no notes and no issues; notes are required otherwise.
DecisionBegin(p) ==
  /\ stage = "needs_review" /\ ReportsRoom
  /\ \E action \in DecisionActions, raw \in {{}} \cup {{i} : i \in Raw} :
       Begin(p, [at |-> "decision", action |-> action, issues |-> Normalized(raw),
                 now |-> Len(events)])
  /\ UNCHANGED reportVars

StageOf(action) == IF action = "request_changes" THEN "changes_requested" ELSE action

\* Mutant (MCLibrary): only a final decision has a date.
DecisionUndated(p) ==
  LET h == handler[p] IN
  /\ At(p, "decision") /\ ReportsRoom
  /\ stage' = StageOf(h.action)
  /\ reviewedAt' = IF h.action = "request_changes" THEN reviewedAt ELSE h.now
  /\ reviewedBy' = p
  /\ Record(h.action, p, h.issues, {})
  /\ crossed' = (crossed \/ h.now # Len(events) \/ stage # "needs_review")
  /\ Finish(p)
  /\ UNCHANGED <<files, staffFiles, target, submittedAt>>

DecisionSave(p) ==
  LET h == handler[p] IN
  /\ At(p, "decision") /\ ReportsRoom
  /\ stage' = StageOf(h.action)
  /\ reviewedAt' = h.now /\ reviewedBy' = p
  /\ Record(h.action, p, h.issues, {})
  /\ crossed' = (crossed \/ h.now # Len(events) \/ stage # "needs_review")
  /\ Finish(p)
  /\ UNCHANGED <<files, staffFiles, target, submittedAt>>

ReportsNext ==
  \/ \E p \in Api :
       \/ \E f \in Files : CompleteFile(p, f) \/ DirectFile(p, f)
       \/ ReprocessFiles(p)
       \/ SubmissionBegin(p) \/ SubmissionSave(p) \/ DecisionBegin(p) \/ DecisionSave(p)
  \/ \E f \in Files : SettleFile(f) \/ FailFile(f)

ReportsSpec == HandlersIdle /\ ReportsInit /\ [][ReportsNext]_<<reportVars, handler>>

-----------------------------------------------------------------------------
(* shared/review-history and the summaries of submissions.service          *)

\* buildIssues: the issues of the metadata, or the one file it names; a list of
\* files, which reprocessing leaves, is no issue.
IssuesOf(e) ==
  IF e.issues # {} THEN e.issues ELSE IF e.action = "reprocessed" THEN {} ELSE e.files

\* buildTargets: the files that an event points at.
Targets(e) == IF e.issues # {} THEN e.issues \cap Files ELSE e.files

\* mapReviewKind
Kind(action) ==
  CASE action \in {"request_changes", "processing_failed"} -> "feedback"
    [] action \in {"approved", "rejected"} -> "decision"
    [] action = "submitted" -> "submission"
    [] OTHER -> "system"

\* filterReviewHistoryEvents: the positions of the events that staff are shown;
\* None stands for a filter that is not set.
History(query) ==
  {n \in 1..Len(events) :
     /\ query.action \in {None, events[n].action}
     /\ query.kind \in {None, Kind(events[n].action)}
     /\ query.issue \in IssuesOf(events[n]) \cup {None}
     /\ query.from # None => n >= query.from
     /\ query.to # None => n <= query.to}

NoQuery == [action |-> None, kind |-> None, issue |-> None, from |-> None, to |-> None]

\* getReviewHistory cuts the events that it found into pages.
HistoryPage(query, page, size) ==
  LET found == Cardinality(History(query)) IN
  SubSeq(Ascending(History(query)), (page - 1) * size + 1,
         IF page * size < found THEN page * size ELSE found)

\* The position of the latest event of one of these kinds, 0 if there is none.
Latest(actions) ==
  LET at == {n \in 1..Len(events) : events[n].action \in actions} IN
  IF at = {} THEN 0 ELSE CHOOSE n \in at : \A m \in at : m <= n

ContributorFeedback == Latest({"request_changes", "rejected", "processing_failed"})
ActionableFeedback == Latest({"request_changes", "processing_failed"})
AwaitsContributor == stage \in {"changes_requested", "processing_failed"}

\* The issues that are shown of an event; an event without any is one itself.
ShownIssues(n) == IF IssuesOf(events[n]) = {} THEN {"submission"} ELSE IssuesOf(events[n])

\* buildContributorReviewActionItems
ActionItems ==
  IF ContributorFeedback = 0 \/ ~AwaitsContributor THEN {}
  ELSE {[event |-> ContributorFeedback, issue |-> i] : i \in ShownIssues(ContributorFeedback)}

\* Mutant (MCLibrary): any submission counts, also one before the feedback.
AnyResubmission == {n \in 1..Len(events) : events[n].action = "submitted"}

\* The submissions after the latest feedback that asks for something.
LaterSubmissions ==
  {n \in 1..Len(events) : events[n].action = "submitted" /\ n > ActionableFeedback}
Resubmitted == LaterSubmissions # {}

\* buildContributorIssueResolutions
Resolutions ==
  IF ActionableFeedback = 0 \/ (ContributorFeedback # 0 /\ events[ContributorFeedback].action = "rejected")
  THEN {}
  ELSE {[issue |-> i,
         status |-> IF AwaitsContributor \/ ~Resubmitted THEN "open" ELSE "resubmitted"] :
          i \in ShownIssues(ActionableFeedback)}

LastResubmitted ==
  IF ActionableFeedback = 0 THEN submittedAt
  ELSE IF Resubmitted THEN CHOOSE n \in LaterSubmissions : \A m \in LaterSubmissions : n <= m
  ELSE None

\* mapContributorReviewPhase
Phase ==
  CASE stage \in {"approved", "rejected"} -> "closed"
    [] AwaitsContributor -> "awaiting_contributor"
    [] OTHER -> IF (stage = "needs_review" /\ LastResubmitted # None)
                     \/ (ActionableFeedback # 0 /\ LastResubmitted # None) \/ submittedAt # None
                THEN "awaiting_staff" ELSE "idle"

\* getReviewAnalytics: the turnaround is that of a decided submission, credited
\* to its reviewer; the decisions of a reviewer come from the events.
Decided == stage \in {"approved", "rejected", "changes_requested"}
Counted == Decided /\ submittedAt # None /\ reviewedAt # None
DecisionCount(p, action) ==
  Cardinality({n \in 1..Len(events) : events[n].action = action /\ events[n].by = p})

\* getReviewSummary: whether the submission is one of those counted under a
\* status; the final ones only if they were decided since the time given.
SummaryCounts(status, since) ==
  /\ stage = status
  /\ status \in {"approved", "rejected"} => reviewedAt # None /\ reviewedAt >= since

-----------------------------------------------------------------------------
ReportHandlers ==
  {Idle} \cup [at: {"submission"}, now: 0..MaxEvents]
    \cup [at: {"decision"}, action: DecisionActions, issues: SUBSET Issue, now: 0..MaxEvents]

ReportsTypeOK ==
  /\ stage \in Stages
  /\ files \in [Files -> {"none", "processing", "completed", "failed"}]
  /\ staffFiles \subseteq Files
  /\ target \in {"ready_for_submission", "needs_review"}
  /\ \A n \in 1..Len(events) : events[n] \in Event
  /\ {submittedAt, reviewedAt} \subseteq 0..MaxEvents \cup {None}
  /\ reviewedBy \in Api \cup {None} /\ crossed \in BOOLEAN
  /\ HandlersWithin(ReportHandlers)

\* A contributor who is asked to act is told what to do: there are action
\* items, about files of the submission, and after a request for changes they
\* are the ones of that request.  Staff who look for feedback in the history,
\* page by page, find the event behind every item, and it points at its file.
FeedbackExplains ==
  AwaitsContributor =>
    /\ ActionItems # {}
    /\ \A item \in ActionItems :
         /\ item.issue \in Issue
         /\ item.issue \in Files =>
              files[item.issue] # "none" /\ item.issue \in Targets(events[item.event])
         /\ stage = "changes_requested" =>
              /\ events[item.event].action = "request_changes"
              /\ \E page \in 1..MaxEvents :
                   item.event \in ToSet(HistoryPage([NoQuery EXCEPT !.kind = "feedback",
                                                     !.from = item.event], page, 1))

\* An issue that staff raised is open until its contributor submits again.  A
\* submission in review that was submitted after the feedback waits for staff:
\* nothing is left to do and no issue of it is open.
LatestAction == events[Len(events)].action
IssuesFollowEvents ==
  events # <<>> =>
    /\ LatestAction \in {"request_changes", "processing_failed"} =>
         Resolutions # {} /\ \A r \in Resolutions : r.status = "open"
    /\ stage = "needs_review" /\ LatestAction = "submitted" =>
         /\ Phase = "awaiting_staff" /\ LastResubmitted # None /\ ActionItems = {}
         /\ \A r \in Resolutions : r.status = "resubmitted"

\* The turnaround of a decided submission is credited to a reviewer for whom the
\* analytics count that decision, and is never negative, unless a submission or
\* a decision was overtaken between its check and its commit.  The summary of
\* any period counts a submission as approved or rejected only if the history
\* of that period has such a decision.
TurnaroundSound ==
  Counted =>
    /\ \E action \in DecisionActions :
         StageOf(action) = stage /\ reviewedBy # None /\ DecisionCount(reviewedBy, action) > 0
    /\ ~crossed => reviewedAt >= submittedAt
    /\ \A since \in 0..MaxEvents, status \in {"approved", "rejected"} :
         SummaryCounts(status, since) =>
           History([NoQuery EXCEPT !.action = status, !.from = since + 1]) # {}
=============================================================================
