-------------------------- MODULE SubmissionPages --------------------------
(***************************************************************************)
(* The pages on which a contributor and the staff follow one submission.   *)
(* A page shows what its query last read: it asks again when it is opened  *)
(* with data that has become stale, when a call of its own has succeeded,  *)
(* and at an interval while the uploads that it shows are not processed.   *)
(* Reads and calls fail, the server moves on between the row of the        *)
(* submission and the rows of its uploads, and others act meanwhile.  The  *)
(* server is reduced to single steps: the overlaps of its handlers are in  *)
(* SubmissionLifecycle.                                                    *)
(***************************************************************************)
EXTENDS Naturals, FiniteSets

CONSTANTS
  PageUploads,  \* upload rows of the submission
  NoView,       \* the query has no data
  MaxSlips      \* bound: reads and calls of the page that fail

VARIABLES
  level,    \* submission.status
  works,    \* processingStatus of its uploads
  viewer,   \* whose page it is
  page,     \* the page and the data of its query
  fetch,    \* the read that is under way
  ask,      \* the call of the page that waits for its answer
  slips     \* reads and calls that have failed

pageVars == <<level, works, viewer, page, fetch, ask, slips>>
serverVars == <<level, works>>

Levels == {"draft", "uploaded", "processing", "processing_failed", "ready_for_submission",
           "needs_review", "changes_requested", "decided"}

\* decided: approved or rejected, between which nothing here makes a difference.
Verdicts == {"changes_requested", "decided"}

\* An upload that is declared is queued before its file has been sent.
WorkStates == {"none", "declared", "queued", "processing", "completed", "failed"}
Seen(work) == IF work = "declared" THEN "queued" ELSE work

AllCalls == {"submit", "reprocess"} \cup Verdicts

\* offers: the permissions;  torn: the status had changed before the uploads
\* were read.
View == [level: Levels, works: [PageUploads -> WorkStates \ {"declared"}],
         offers: SUBSET AllCalls, torn: BOOLEAN]

ASSUME PagesAssumption == MaxSlips \in Nat /\ NoView \notin View

NoFetch == [at |-> "none"]

\* History, of a status that was read: whether a call of the page that it was told
\* has succeeded came after it ("overtaken"); "missed" when the page had been left
\* and the read was still under way, for which nobody asks again.
Ages == {"current", "overtaken", "missed"}

PagesInit ==
  /\ level = "draft" /\ works = [u \in PageUploads |-> "none"]
  /\ viewer \in {"owner", "staff"}
  /\ page = [shown |-> FALSE, view |-> NoView, age |-> "current",
             fresh |-> FALSE, failed |-> FALSE]
  /\ fetch = NoFetch
  /\ ask = "none"
  /\ slips = 0

Slip == slips < MaxSlips /\ slips' = slips + 1
PageSame == UNCHANGED <<viewer, page, fetch, ask, slips>>
Rows == {u \in PageUploads : works[u] # "none"}

-----------------------------------------------------------------------------
(* The server                                                              *)

Declare(u) ==
  /\ works[u] = "none"
  /\ level \in {"draft", "uploaded", "ready_for_submission", "changes_requested"}
  /\ works' = [works EXCEPT ![u] = "declared"]
  /\ level' = "uploaded"

Complete(u) ==
  /\ works[u] # "none"
  /\ works' = [works EXCEPT ![u] = "queued"]
  /\ level' = "processing"

DirectToSubmission(u) ==
  /\ works[u] = "none" /\ level # "decided"
  /\ works' = [works EXCEPT ![u] = "queued"]
  /\ level' = "processing"

StartWork(u) ==
  /\ works[u] = "queued"
  /\ works' = [works EXCEPT ![u] = "processing"]
  /\ UNCHANGED level

\* processUpload and failUpload.  Once all uploads are completed the status is
\* the one that the last of them aims at, which is left open here.
Settle(u) ==
  /\ works[u] = "processing"
  /\ \E outcome \in {"completed", "failed"} : works' = [works EXCEPT ![u] = outcome]
  /\ LET states == {works'[v] : v \in Rows} IN
     level' \in CASE "failed" \in states -> {"processing_failed"}
                [] states = {"completed"} -> {"ready_for_submission", "needs_review"}
                [] OTHER -> {"processing"}

\* The calls of the two pages.  submit:
CanSubmit(l, w) ==
  l \in {"ready_for_submission", "changes_requested"} /\ \E u \in PageUploads : w[u] = "completed"

Submitted == CanSubmit(level, works) /\ level' = "needs_review" /\ UNCHANGED works

\* approveSubmission, rejectSubmission, requestChanges
Decided(verdict) == level = "needs_review" /\ level' = verdict /\ UNCHANGED works

\* reprocessSubmission takes the uploads whose objects are there.
CanReprocess(l) == l \in {"uploaded", "processing", "processing_failed", "ready_for_submission"}

Reprocessed ==
  /\ CanReprocess(level)
  /\ \E some \in (SUBSET Rows) \ {{}} :
       /\ \A u \in Rows \ some : works[u] \in {"declared", "failed"}
       /\ works' = [u \in PageUploads |-> IF u \in some THEN "queued" ELSE works[u]]
  /\ level' = "processing"

Effect(what) ==
  CASE what = "submit" -> Submitted
    [] what = "reprocess" -> Reprocessed
    [] OTHER -> Decided(what)

Possible(what) ==
  CASE what = "submit" -> CanSubmit(level, works)
    [] what = "reprocess" -> CanReprocess(level) /\ \E u \in Rows : works[u] # "declared"
    [] OTHER -> level = "needs_review"

\* The hook of the owner's page, other pages, other people and the workers.
Others ==
  /\ \/ \E u \in PageUploads : Declare(u) \/ Complete(u) \/ DirectToSubmission(u)
     \/ \E what \in AllCalls : Effect(what)
  /\ PageSame

Works(u) == (StartWork(u) \/ Settle(u)) /\ PageSame

-----------------------------------------------------------------------------
(* The list and the page                                                   *)

\* What listReviewQueue finds with one of the filters of the queue page.
Queue == {"needs_review", "processing_failed", "changes_requested", "decided"}

\* A query is not asked twice at the same time.
Fetching(asked) == fetch' = IF asked /\ fetch = NoFetch THEN [at |-> "asked"] ELSE fetch

\* From the list: contributors see all of their submissions.  Data that is
\* older than staleTime is read again, and so is what was invalidated.
OpenPage ==
  /\ viewer = "owner" \/ level \in Queue
  /\ ~page.shown
  /\ page' = [page EXCEPT !.shown = TRUE]
  /\ \/ Fetching(TRUE)
     \/ page.view # NoView /\ page.fresh /\ UNCHANGED fetch
  /\ UNCHANGED <<serverVars, viewer, ask, slips>>

Leave ==
  /\ page.shown
  /\ page' = [page EXCEPT !.shown = FALSE]
  /\ UNCHANGED <<serverVars, viewer, fetch, ask, slips>>

\* Mutant (MCProgress): only what waits for a worker is watched.
WatchesQueued(view) == \E u \in PageUploads : view.works[u] = "queued"

\* refetchInterval
Watches(view) == \E u \in PageUploads : view.works[u] \in {"queued", "processing"}

PollPage ==
  /\ page.shown /\ page.view # NoView /\ Watches(page.view)
  /\ fetch = NoFetch /\ Fetching(TRUE)
  /\ UNCHANGED <<serverVars, viewer, page, ask, slips>>

\* getContributorSubmissionDetail and getReviewDetail read the row of the
\* submission, then the rows that belong to it, and answer with what the
\* caller may do.
FetchRow ==
  /\ fetch.at = "asked"
  /\ fetch' = [at |-> "row", level |-> level, age |-> "current"]
  /\ UNCHANGED <<serverVars, viewer, page, ask, slips>>

Uploaded == [u \in PageUploads |-> Seen(works[u])]

OwnerResponse(l) ==
  [level |-> l, works |-> Uploaded, torn |-> l # level,
   offers |-> IF CanSubmit(l, works) THEN {"submit"} ELSE {}]

StaffResponse(l) ==
  [level |-> l, works |-> Uploaded, torn |-> l # level,
   offers |-> (IF l = "needs_review" THEN Verdicts ELSE {})
                \cup (IF CanReprocess(l) THEN {"reprocess"} ELSE {})]

FetchRows ==
  /\ fetch.at = "row"
  /\ page' = [page EXCEPT !.fresh = TRUE, !.failed = FALSE, !.age = fetch.age,
                !.view = IF viewer = "owner" THEN OwnerResponse(fetch.level)
                         ELSE StaffResponse(fetch.level)]
  /\ fetch' = NoFetch
  /\ UNCHANGED <<serverVars, viewer, ask, slips>>

\* After one more attempt the page shows an error; the data is kept.
FetchFails ==
  /\ fetch # NoFetch /\ Slip
  /\ page' = [page EXCEPT !.failed = TRUE]
  /\ fetch' = NoFetch
  /\ UNCHANGED <<serverVars, viewer, ask>>

\* The owner's button is there while the submission can be edited.
Editable == {"draft", "uploaded", "processing_failed", "ready_for_submission", "changes_requested"}

\* A button calls once; that of a page shows what the page was told.
Press(what) ==
  /\ page.shown /\ ~page.failed /\ page.view # NoView /\ ask = "none"
  /\ what \in page.view.offers
  /\ viewer = "owner" => page.view.level \in Editable
  /\ ask' = what
  /\ UNCHANGED <<serverVars, viewer, page, fetch, slips>>

\* What the page becomes, and (history) the read that is under way.
Outdated(what) == [page EXCEPT !.fresh = FALSE, !.age = "overtaken",
                               !.shown = @ /\ what \notin Verdicts]
Aged(age) == IF fetch.at = "row" THEN [fetch EXCEPT !.age = age] ELSE fetch

\* Mutant (MCProgress): a page that is shown keeps the read that is under way.
CallSucceededKeeps(what) ==
  /\ ask = what /\ Effect(what)
  /\ page' = Outdated(what)
  /\ fetch' = IF ~page.shown THEN Aged("missed")
              ELSE IF fetch = NoFetch THEN [at |-> "asked"] ELSE Aged("overtaken")
  /\ ask' = "none"
  /\ UNCHANGED <<viewer, slips>>

\* A success invalidates the query; a page that is shown asks again at once,
\* whatever it has asked before.  After a decision staff are sent to the queue.
CallSucceeded(what) ==
  /\ ask = what /\ Effect(what)
  /\ page' = Outdated(what)
  /\ fetch' = IF page.shown THEN [at |-> "asked"] ELSE Aged("missed")
  /\ ask' = "none"
  /\ UNCHANGED <<viewer, slips>>

\* The call is refused, or lost on its way there or back: nothing is read.
CallFailed(what) ==
  /\ ask = what /\ ask' = "none"
  /\ \/ ~Possible(what) /\ UNCHANGED <<serverVars, slips>>
     \/ Slip /\ (Effect(what) \/ UNCHANGED serverVars)
  /\ UNCHANGED <<viewer, page, fetch>>

-----------------------------------------------------------------------------
Reading == FetchRow \/ FetchRows \/ FetchFails
Answering == \E what \in AllCalls : CallSucceeded(what) \/ CallFailed(what)

PagesNext ==
  \/ Others
  \/ \E u \in PageUploads : Works(u)
  \/ OpenPage \/ Leave \/ PollPage
  \/ Reading
  \/ \E what \in AllCalls : Press(what)
  \/ Answering

PagesSpec == PagesInit /\ [][PagesNext]_pageVars

\* Requests end, and a page asks at its interval.
PagesFairness == WF_pageVars(PollPage) /\ WF_pageVars(Reading) /\ WF_pageVars(Answering)

PagesTypeOK ==
  /\ level \in Levels /\ works \in [PageUploads -> WorkStates]
  /\ viewer \in {"owner", "staff"}
  /\ page \in [shown: BOOLEAN, view: View \cup {NoView}, age: Ages, fresh: BOOLEAN,
              failed: BOOLEAN]
  /\ fetch \in [at: {"none", "asked"}] \cup [at: {"row"}, level: Levels, age: Ages]
  /\ ask \in AllCalls \cup {"none"}
  /\ slips \in 0..MaxSlips

\* An open page never stalls: when it shows no error and nothing is being read
\* for it, it has an answer, whose status was read after the last of its calls
\* that succeeded, unless the page had been left while that read was under way;
\* and it polls if that answer says processing, unless status and uploads were
\* read apart.
PageAttended ==
  page.shown /\ ~page.failed /\ fetch = NoFetch =>
    /\ page.view # NoView /\ page.age # "overtaken"
    /\ page.view.level = "processing" /\ ~page.view.torn => Watches(page.view)

\* Nothing of the submission is in work any more.
AllProcessed == \A u \in PageUploads : works[u] \in {"none", "completed", "failed"}

\* A page that stays open does not go on showing uploads in work, nor a
\* submission in processing, after the server is done with them, whichever of
\* its reads fail or overlap with processing; but a status read before the
\* server changed it, beside uploads read after, may stay.
PageFollows ==
  <>[]AllProcessed =>
    []<>(page.shown /\ ~page.failed /\ page.view # NoView =>
           /\ ~Watches(page.view)
           /\ page.view.level = "processing" => page.view.torn)
=============================================================================
