# Fonthabesha: specification, model checking and proofs

Fonthabesha is a library of Ethiopic fonts: contributors upload font files,
a worker inspects them, reviewers decide, and approved families are published
(NestJS, PostgreSQL through Prisma, BullMQ on Redis, Meilisearch, an S3 bucket,
a React client).  This directory holds TLA+ modules of its stateful parts, TLC
configurations that check them on small instances, and TLAPS proofs of the main
invariants for instances of any size.

Paths below are relative to the repository; line numbers are in `PROJECT.json`.
Its entry `map` names the lines that each definition translates, `hazards` what
can go wrong in this code and which property watches it, and `findings` where
the code and its documents disagree.

## 1. Inventory

| Component | State it keeps | Operations | Hard behaviour | What makes it correct | Module |
|---|---|---|---|---|---|
| Submissions (`submissions.service`) | `submission.status`, family and style metadata | create, edit, submit | guard read before an unconditional write | a submission in review has something to review | SubmissionLifecycle |
| Uploads (`uploads.service`, `s3-storage.service`) | upload rows, raw objects | init, PUT by the client, complete | three separate steps by an outside party; repeated completion; capacity counted before the row is created | the status follows the uploads; the capacity is (nearly) kept | SubmissionLifecycle |
| Upload processing (`upload-processing*.ts`) | job queue, `processingStatus` | enqueue or inline, process, settle, fail, retry | READ COMMITTED write skew, lock order, late and duplicate jobs, crash before the enqueue | every job settles its upload; the submission leaves `processing` | SubmissionLifecycle |
| Font style sync | style rows: file, status, default | upsert by slug | count read before the upsert; upsert outside the settling transaction | an upload recorded as completed has its style; the default style stays | SubmissionLifecycle, StylePackages |
| Review decisions, staff uploads (`admin.service`) | status, family, styles, `publishedAt`, review events | approve, reject, request changes, reprocess, direct upload | two reviewers, jobs and restores in between | nothing public before an approval; status is the latest decision | SubmissionLifecycle, ReviewedPublication |
| Review history and feedback (`review-history.ts`, `submissions.service`, analytics) | review events | record, filter, page, derive action items, resolutions, phase, turnaround | derived from the newest events and a status that others move on | a contributor who must act is told what to do | ReviewReports |
| Catalogue administration | families, styles, collections, vocabulary, tags, licenses | archive, restore, edit, create, delete | lookups before writes; unique keys, foreign keys and row locks decide who wins | conflicts are races, rows agree with each other | ContentAdmin, StylePackages |
| Search index and background jobs | Meilisearch documents, job queue | upsert, remove, reindex | read then send, retries, order of jobs | at rest the index holds the approved families | PublicationIndex |
| Downloads and packages | package objects in the bucket, signed links | warm-up, download | cache key from the styles, built twice at once; links outlive the check | a package holds what was approved; links end | StylePackages, VisitorLinks |
| Public catalogue, assets | none (reads) | pages, search, filters, family pages, collections, files | rows come and go between the queries of a page and between pages | lists are complete when nothing moves | CatalogueReads, VisitorLinks |
| Authentication | users, refresh sessions, reset and verification tokens | register, login, refresh, logout, change, reset, verify, revoke | token used twice, login racing a change of the password | revoked sessions stay revoked; links are spent | AuthSessions |
| Rate limits and lockouts | Redis counters, memory fallback | consume, record failure, clear | INCR and EXPIRE apart, fallback splits the count | guesses are bounded; no lock for good, and no counter but one whose process died between the two commands | LoginLimits |
| Mail | mail queue, previews | dispatch, work, fall back | a failed call that has done its work | an accepted mail arrives, in few copies | MailDelivery |
| Audit trail, session lists | audit events | pages for staff | count and query of a page; growing lists; rows of one `createdAt` in any order | whoever pages to the end has seen all, but for rows of one `createdAt` | AuditTrail |
| Web client: session | auth store, `localStorage` | login, silent refresh, logout, several tabs | one refresh token, shared by tabs; sessions ended by others | a browser stays signed in until someone ends its session | WebClient |
| Web client: uploads (`useUpload.ts`) | list of files | add, upload, retry, poll, remove | late polls of an earlier attempt, parallel `init` | ready means processed; no file busy for ever | UploadClient |
| Web client: pages of a submission | cached query | open, poll, call, invalidate | a snapshot that ends the polling | an open page follows the server | SubmissionPages |
| Users, contributor summary, health, metrics, configuration, wiring, seed, font inspection | none of their own | reads, single-row updates, start-up, parsing | - | - | (none; section 6) |

Interactions.  API and worker processes share nothing but PostgreSQL, Redis,
Meilisearch and the bucket.  A request handler is a sequence of awaited calls;
between two of them any other handler or worker may run.  Most handlers read a
row, check it, and write it later with an unconditional update, so every check
may be out of date when its write is applied: this is the source of nearly all
hazards in `PROJECT.json`.  Browsers talk to the API by requests whose answers
may be lost or overtaken, and hold what they were given (tokens, snapshots,
signed links) after it has stopped being true.

## 2. Modules

An operation is a `Begin` step (its reads and all of its guards) and one step for
each transaction or call that follows.  `Handlers` holds what the newer modules
share: the variable `handler`, the record of local variables of each request in
flight, whose field `at` names the call that it is suspended before, and the
operators that move it on.

### SubmissionLifecycle

One submission with its family, its uploads and its styles, and every handler
and worker that writes a status of theirs.  Submissions share no rows, so one is
enough.

| Model | Code |
|---|---|
| `status` | `submission.status` |
| `uploads`, `staff` | `upload.processingStatus` ("none": no row yet); uploads whose uploader is a reviewer or admin |
| `stored` | raw objects in the bucket |
| `styles`, `file` | `fontStyle.status`, and the upload whose object is its `fileKey` |
| `family`, `published` | `fontFamily.status`; `publishedAt` is set |
| `verdict` | action of the latest decision event |
| `reviewed` | history: files that were in the family when it was approved |
| `jobs` | waiting jobs of the `font-processing` queue |
| `handler[p]` | local variables of the request or job that process `p` is in the middle of, and the call it is suspended before (`at`) |
| `crashes` | counter that bounds `Crash` |

An operation is a `Begin` step (its reads and all of its guards) and one step for
each transaction or storage call that follows.  `$transaction([...])` is one
step.  The interactive transaction of `processUpload` is two (`SettleRead`,
`SettleCommit`): it reads the other uploads under READ COMMITTED, so another
transaction can commit in between; the row that it has updated stays locked
(`RowLocked`) and holds back `MarkProcessing`, `CompleteCommit`, `SettleRead` and
`FailCommit` on that row.  A transaction that PostgreSQL aborts to break a
deadlock, like any storage or parse error, is `ProcessingError`.  A process that
dies, or an error that nothing catches, is `Crash`: a queued job goes back to the
queue unless it was its last attempt; anything else is lost.

`StyleOf` says which style a file inspects to; two files may inspect to the same
one.  `QueueModes` says what `queue.add` may do: store the job or throw, in which
case the request processes the upload itself.

Two guards are not in the code: `MaxJobs` bounds how often the contributor
completes an upload, and `MaxCrashes` bounds `Crash`.  Neither is used by a
proof, except that `crashes` stays a natural number and that one theorem speaks of
the behaviours without a crash.

### ReviewedPublication, ReviewRefinement

`ReviewedPublication` is the abstract specification: the latest decision, whether
anything was ever approved, whether the family is shown and which styles are
visible.  It has no uploads, queues or handlers.  `ReviewRefinement` maps the
lifecycle to it (`decision <- verdict`, `cleared <- reviewed # {}`, `shown <-
family = "approved"`, `visible <-` the approved styles) and states the
implementation as the property `PublicationReviewed`, which the run MCReview
checks and `SubmissionLifecycleProofs` proves.

### PublicationIndex

The search index beside the catalogue: what staff requests commit, the jobs they
ask for, the worker, and the documents in Meilisearch.  Which submission may be
decided is left to SubmissionLifecycle; here `Submit` puts a family in review at
any time.

| Model | Code |
|---|---|
| `family`, `published` | `fontFamily.status`; `publishedAt` is set |
| `edition` | the content of the document: it counts staff edits of the family and its styles |
| `review` | the submission of the family is in `needs_review` |
| `mode` | the configuration: jobs in Redis, or inline |
| `index` | the edition in Meilisearch, or `NoDocument` |
| `jobs`, `delayed` | waiting jobs of the `background-jobs` queue; failed jobs in their backoff |
| `handler[p]` | the request or job that `p` is in the middle of |
| `failures` | counter that bounds failing calls |
| `troubles` | history: a job of the family was worked inline behind a running queue, a removal was retried, or a job was given up |

A request reads (`DecideBegin` and its like), commits, asks for its job (`Enqueue`) and,
without a queue or when `queue.add` throws, does the work itself.  The work of an
upsert is `Build` (read the family) and `Send` (add the document, or delete it when
the family is not approved); a removal only sends.  `WorkFails` is an error of
either, with the Meilisearch task applied or not; `Promote` ends a backoff.
Reindexing is a read of the list, one read per family, delete all, add.
`EditBegin` stands for the four edits that look at the status of the family before
they write and ask for an upsert after it.

Meilisearch applies the tasks of an index in the order it receives them, so the
document changes in `Send`; the wait for the task can only fail.

The guards `Room` (`MaxJobs`), `edition[f] < MaxEdits` and `Fail` (`MaxFailures`)
are bounds, not code.

### StylePackages

`style` (status, default, file and `updatedAt` of each row of a family), `shelf`
(`fontFamily.status`), `bucket` (packages in the object store by key) and the
history `handed`.  Three writers of styles meet: `syncFromInspection` (count,
then upsert), the contributor's edit (clears the other defaults, then sets one,
in two statements) and the edits, archives and restores of administrators (read,
then transaction).  Readers build packages: look for the key, build, store, hand
out; the warm-up job does the same.  A time stamp is the smallest number that is
not in use, which is enough because only equality of keys matters.

### ContentAdmin

Four groups of rows with one request variable: slugs of families, collections or
vocabulary (`table` says which; a slug is a number and `n + 1` is `n` with the
next suffix), one collection with its status and date, the tags of one family
with the lock on its row, and licenses with the submission that declares one.
Unique keys and foreign keys are guards of the writes: a write that meets them
ends the request with its error.

### CatalogueReads, AuditTrail, VisitorLinks

Readers.  `Orders` is what the lists share with the reports: the rows of a set in the
ascending order of a column whose values differ, each at the place that the number of
rows before it gives.  `CatalogueReads` has the pages of the catalogue and of a search
(count, rows, hits, fetch), and the filters that are offered; `shop` and `hits` change
meanwhile.  `AuditTrail` has the pages of events and of sessions that staff read.  A
row is a pair of its `createdAt` and an id; several rows may share a `createdAt`,
which is the only thing the query orders by, so each query returns any page that puts
no row before a newer one (`NoneNewer`).  `VisitorLinks` has the ids of styles that a
visitor has seen, the links signed for a quarter of an hour and the copies that caches
keep for an hour, each with the time that is left; the history `gone` is the time
since a style was last public or found public by a request in flight.

### ReviewReports

The events of a submission, and everything derived from them: issues and targets
of an event, filters and pages of the history, latest feedback, action items,
resolutions, phase, turnaround and counts.  The derivations are operators over
the sequence `events`; the handlers that add events move `stage` as in
SubmissionLifecycle, the processing of a file in single steps.  The filter by
issue code is an equality on one issue.

### AuthSessions, WebClient

`AuthSessions` is one account: `password` counts the passwords it has had (0: not
registered), `session` the rows of `refreshSession`, `token` those of the two
kinds of links.  `proof`, `root` and `uses` are histories: the password a session
was opened with, the login that it descends from, how often a link has set a
password.  Hashes and random tokens are row numbers.  `WebClient` EXTENDS it by the
tabs of one browser: they share `localStorage`, each has its own access token and
its own promise of a silent refresh, and answers may be lost.  A tab may change the
password.  Beside the tabs, sessions expire, another device changes or resets the
password and logs out, and staff revoke sessions (`Elsewhere`); the history
`withdrawn` has the sessions that were ended so.  A logout does not ask whether its
access token is fresh: with a session that has expired it is answered 401, tries a
refresh (`leaving`, `refused`, `left`) and clears the store in the end.

### LoginLimits, MailDelivery

`LoginLimits` has the keys of one account (`rate`, `failures`, `lock`) in Redis and in
the memory of each process; a login is a sequence of Redis commands, any of which
may fail, after which its process counts in memory until it is restarted.  A process
may die or be deployed anew at any time (`Restart`), between INCR and EXPIRE as well;
its logins end where they are.  Two histories record what that leaves behind:
`orphaned` has the keys without a time to live whose creator has ended, and `cut`
counts the logins that ended after a wrong password and before it was counted.
`Tick` is the clock.
`MailDelivery` has mails with the view of the request (`mail`), their job and its
attempts, what was sent, and the previews kept without SMTP.  `Set` of one mail
touches no other, but previews are shared.

### UploadClient, SubmissionPages

`UploadClient` is the hook `useUpload`: each file has a phase and the call it waits
for; answers of polls arrive in any order, and the answer of an `init` may be lost
after its row was created, which then stays behind while the retry creates another.
`SubmissionPages` is a page with the snapshot of its query, the read that is under way
in two parts (the row, then the uploads; a view whose parts disagree is `torn`) and
the call it has made.  The history `age` says of the status in the answer, or in the
read under way, whether a call of the page has succeeded since it was read:
`overtaken` if so, `missed` if the page had been left and that read was still under
way, since its late answer then counts as fresh and nobody asks again. "Decided"
stands for approved or rejected, the status after completion is left open, and a page
makes one call at a time.  In both the server is reduced to single steps: handlers
that do not overlap.  What overlaps do to the status is the matter of
SubmissionLifecycle (MCInlineSkew, MCFailedAside); how a page then follows a status
that nothing will ever change is not asked.

### MC modules

`MCSubmissionLifecycle` has the functions for `StyleOf`, the sets of operations
and the symmetries: requests are interchangeable, and so are files of the same
style.  Runs that check liveness use no symmetry.

`MCAccounts`, `MCLibrary` and `MCProgress` gather modules that share no state but
`handler`.  The variable `part`, chosen at the start and never changed, says which
of them moves; the others stand still in their first initial state.  A behaviour
of such a run is thus a behaviour of one module, and one run checks several
modules without the product of their states.  `MCReview` does the same with three
instances of SubmissionLifecycle, which differ in requests, files and crashes.

## 3. Runs

All bounds are constants of the configurations.  `MaxUploads` is the real limit
of the policy, set to 1 or 2 instead of the default 24 so that it is reached;
likewise `Threshold`, `Limit`, `PageSize`, `MailAttempts` (3, as in the code) and
the lifetimes in ticks.

| Run | Question | Instance and why it is enough |
|---|---|---|
| MCReview | Can upload, processing, submission and decision interleave to an empty review or a submission stuck in `processing`?  Do decisions, archives and restores keep status, `publishedAt` and history together, and show the public only what the abstract specification allows? | in one part of the run two files of one style, two requests, one worker, queue up: two jobs that settle one after the other, a repeated completion while the first is processed; in the second part one file, which is enough to publish, every request on the family and its style, two requests that race each other and the worker; in the third part the same with one request at a time, and the request or the worker crashes and the job returns |
| MCStaff | Is `IInv`, the invariant of the proofs, true with direct uploads and reprocessing, and by how much is the capacity exceeded? | limit 1, three files of two styles, two requests, one crash: both check the limit together and one goes on to reprocess what the other stores |
| MCHandlers | Does every handler end, every job settle its upload, every submission leave `processing`, and is one file always in work while it says so? | one file completed twice, submitted, its family and style restored; two workers that hold the same upload, queue up or down; no crash |
| MCAccounts | Sessions, links, tabs, limits, mail and the visitor's links (section 1) | sessions: two requests, three sessions, one change of the password; links: two requests, three of each kind; two tabs and two sessions, with one new password, one session that expires, and requests of others one at a time until one has ended sessions (links are left to their own part: a reset ends sessions as a change does), followed until calls overlap or an answer is lost, after which the property says nothing; two logins with threshold 2 and a lock of two ticks, one process that may restart at any time, one failing command and one login cut short after a wrong password; two mails, three attempts, five failures; two styles, lifetimes 1 and 2 |
| MCLibrary | Styles and packages, slugs, collections, tags, licenses, pages, reports, audit | two requests on two styles, rows, tags or licenses each; three families in pages of two; four events; five audit rows of three times, two of which may share a time, and one session that ends; readers one at a time, as readers do not meet |
| MCProgress | Index, upload hook and pages settle | one family, one staff request, one worker, one retry, two failures or one failure and one edit, queue or inline; two files with one lost call and two late polls; one upload and one lost call per page, contributor or staff |
| MCRejectedPublic | violation | two requests, one file, no crash |
| MCReviewed | violation | two files of one style, one finished after the approval |
| MCInlineSkew | violation | queue disabled, two requests that complete two files together |
| MCFailedAside | violation | as the first part of MCReview, without submission and decision: the file whose failure is recorded and the one that is settled |
| MCLostJob | violation | one file, one crash |
| MCIndexAdmins | violation | two staff requests, one family, no failure |

One submission is enough in SubmissionLifecycle and one family in
PublicationIndex and StylePackages, since no two submissions share a row and each
job concerns one family; only a reindex touches several families, each through
its own document.  The same holds of one account, one collection and one family
with tags.

What the passing runs show, beyond types.

* A change of the password ends all sessions but those of requests in flight,
  fewer than there are requests however often they are rotated
  (`StragglersBounded`); what is revoked stays so (`RevokedForGood`); a reset link
  sets a password at most once for each request that read it (`LinksBounded`).
* `KeptSignedIn`: requests of a page that fail together share one refresh, and the
  user stays signed in until a logout, a change of the password in the tab, the end
  of the thirty days, or until a new password or somebody else ends the session
  (`withdrawn`).  Two tabs that refresh together, or an answer that is lost, sign the
  user out; the property leaves those cases to the history `clean`.
* `GuessesBounded`: as long as no Redis command fails, fewer wrong passwords than the
  threshold, the logins under way and the logins cut short (`cut`) together.
* `CountersExpire`: whatever fails and whenever processes die, a counter in Redis has
  a time to live or a login is about to give it one, unless the login that created
  it ended between INCR and EXPIRE (`orphaned`).  That case is possible in the code,
  and such a counter counts for good (section 6).
* `LockoutEnds`: whatever fails, and although attempts go on through the two ticks
  of a lock; a lock that each attempt renews is the mutant.
* `MailArrives`, `CopiesBounded`: an accepted mail is sent unless all attempts of
  its job failed, and at most `MailAttempts + 1` times.
* `LinksEnd`: what is taken out of public for good is gone from visitors in the end;
  `HeldExpires`: within the lifetime of what they hold, counted from the last moment
  at which it was public or a request answered that had found it public.
* `PackageFaithful`: two builders and old reads never hand out a package that
  differs from what was approved when it was asked for.
* `DefaultKept`, `ConflictsAreRaces`, `CollectionDates`, `TagsOfOneRequest`: writers
  that read the present keep the rows in agreement; what stale writers can break
  is exactly what the properties exclude, and section 6 lists it.
* `PagesComplete`, `AuditComplete`: who pages through a list that does not move
  meanwhile (or, for the audit trail, only grows between pages) sees every row.  The
  audit trail may lose rows of a `createdAt` that others share even at rest; what holds
  is that of each `createdAt` at least one row is seen, hence every row whose
  `createdAt` is its own.
* `FeedbackExplains`, `IssuesFollowEvents`, `TurnaroundSound`: what is derived from
  the events agrees with the status, however processing and decisions overlap.
* `IndexSettles`, `NoGhosts`, `Searchable`, `ReadyIsFinished`, `FilesSettle`,
  `PageFollows`: after retries and late answers things settle on the truth.
* `PageAttended`: an open page without an error is being read, or shows a status that
  was read after the last of its own calls that succeeded, and polls while that is
  `processing`.  Two cases escape it, as they do in the code: a read that was under
  way when the page had been left and its call succeeded (`missed`), and a view whose
  status and uploads were read apart (`torn`).

What the violations show.

* MCRejectedPublic: `restoreFamily` reads `publishedAt`, a rejection commits,
  the restore writes `approved`: a rejected family is public again.
* MCReviewed: a contributor completes an upload of a style again, its job ends
  after the approval, and the public style serves a file no reviewer has seen.
* MCInlineSkew: with `FONT_PROCESSING_QUEUE_ENABLED=false` two uploads that settle
  at the same time each read the other as unfinished under READ COMMITTED, and
  the submission stays in `processing`.  With one queue consumer (MCReview) this
  does not happen.
* MCFailedAside: the worker settles a file and has read that another one is queued;
  `completeUpload` finds that one missing and `failUpload` commits
  `processing_failed`; the worker then commits `processing`.  One file is completed,
  one failed, no job waits, and the submission stays in `processing`.  It needs one
  worker and an available queue only.
* MCLostJob: the API process dies after the transaction of `completeUpload` and
  before `queue.add`; nothing ever looks for the upload again.
* MCIndexAdmins: `restoreFamily` read `publishedAt` before an approval and writes
  `draft` after it, without a removal: the draft family stays in the index.  With
  one staff request at a time (MCProgress and the theorems) the index agrees.

`CHECK_DEADLOCK FALSE` is set where an instance can use up its files, rows, events
or mails (MCStaff, MCAccounts, MCLibrary, MCProgress); elsewhere a request is
always possible.

Fairness.  `FairSpec` of SubmissionLifecycle assumes strong fairness of each begun
handler: Node resumes a promise whose call has returned, and PostgreSQL grants a
row lock to its waiters in turn, so a handler that finds the row free again and
again gets it (weak fairness would let others keep the row busy for ever).  An
idle worker takes jobs (weak fairness).  In MCLostJob the dead process is idle
again, which fairness allows.  The other modules have no locks under a liveness
property and need weak fairness only: of begun handlers, the worker and the end
of a backoff (PublicationIndex), of the clock (`LimitsFairness`, `VisitFairness`), of
the mail worker (`MailFairness`), of the calls of the page, the server's processing
and the timer of the poll (`UploaderFairness`, `PagesFairness`).  No fairness is
assumed of people: nobody has to upload, submit, decide, log in, open a page or
ask again.  Failures are bounded in number, which is an assumption on the
environment: of an SMTP server or a network that fails for ever nothing follows.

## 4. Proofs

Every theorem holds for any sets and bounds, from the named assumption of its module
alone (`LifecycleAssumption`, `IndexAssumption`, `AuthAssumption`, `LimitsAssumption`,
`MailAssumption`, `StylesAssumption`, `ContentAssumption`, `UploaderAssumption`,
`BrowserAssumption`, `VisitAssumption`, `PagesAssumption`, `ReportsAssumption`,
`AuditAssumption`, `ReadsAssumption`); what a theorem assumes beyond that is part of
its statement.

| Module | Theorem | States |
|---|---|---|
| SubmissionLifecycleProofs | `Inductive` | `Spec => []IInv` |
| | `TypeCorrect` | `Spec => []TypeOK` |
| | `NeverAnEmptyReview` | `Spec => []ReviewHasStyle` |
| | `NothingPublicUnreviewed` | `Spec => []PublicOnlyAfterApproval` |
| | `StatusIsLatestDecision` | `Spec => []DecisionsAgree` |
| | `ApprovalsPublish` | `Spec => ApprovalPublishes` |
| | `ReviewImplemented` | `Spec => PublicationReviewed` |
| SubmissionUploadsProofs | `FewFilesOver` | `Api # {} /\ IsFiniteSet(Api) => (Spec => []OvershootBounded)` |
| | `CompletedStickByOverlapOrCrash` | `Api # {} /\ IsFiniteSet(Api) => (Spec /\ []OneSettles /\ [](crashes = 0) => []NotStuckProcessing)` |
| | `OneConsumerLeavesNoneCompleted` | `Api # {} /\ IsFiniteSet(Api) /\ OneConsumer => (Spec => []NotStuckProcessing)` |
| | `ProcessingMeansWork` | `Api # {} /\ IsFiniteSet(Api) => (Spec /\ []OneRecords /\ [](crashes = 0) => []ProcessingIsWork)` |
| | `OneConsumerWorks` | `Api # {} /\ IsFiniteSet(Api) /\ OneConsumer => (Spec /\ []OneRecords => []ProcessingIsWork)` |
| PublicationIndexProofs | `IndexTyped` | `Spec => []TypeOK` |
| | `NoGhostsStay` | `Spec => [](OneOfEach => NoGhosts)` |
| | `IndexAgrees` | `Spec => [](OneOfEach => IndexSettles)` |
| AuthSessionsProofs | `AccountTypes` | `AuthSpec => []AuthTypeOK` |
| | `RevocationLasts` | `AuthSpec => RevokedForGood` |
| | `FewStragglers` | `AuthSpec => []StragglersBounded` |
| | `LinksSpent` | `AuthSpec => []LinksBounded` |
| BrowserProofs | `ClientTypes` | `ClientSpec => []ClientTypeOK` |
| | `NobodySignedOut` | `ClientSpec => KeptSignedIn` |
| | `BrowserKeepsSessions` | `ClientSpec => AuthSpec` |
| | `UploaderTypes` | `UploaderSpec => []UploaderTypeOK` |
| | `ReadyFilesFinished` | `UploaderSpec => []ReadyIsFinished` |
| | `VisitTypes` | `VisitSpec => []VisitTypeOK` |
| | `HoldingsExpire` | `VisitSpec => []HeldExpires` |
| | `PagesTypes` | `PagesSpec => []PagesTypeOK` |
| | `PagesAttended` | `PagesSpec => []PageAttended` |
| LimitsAndMailProofs | `LimitsTyped` | `LimitsSpec => []LimitsTypeOK` |
| | `NoCounterForGood` | `LimitsSpec => []CountersExpire` |
| | `GuessesLimited` | `LimitsSpec => []GuessesBounded` |
| | `MailTyped` | `MailSpec => []MailTypeOK` |
| | `FewCopies` | `MailSpec => []CopiesBounded` |
| LibraryProofs | `OnlyRacesConflict` | `ContentSpec => []ConflictsAreRaces` |
| | `DatesOfCollections` | `ContentSpec => []CollectionDates` |
| | `TagsAreOfOneRequest` | `ContentSpec => []TagsOfOneRequest` |
| | `PackagesAreFaithful` | `StylesSpec => []PackageFaithful` |
| | `DefaultStaysKept` | `IsFiniteSet(Styles) => (StylesSpec => DefaultKept)` |
| | `ContentTypes` | `ContentSpec => []ContentTypeOK` |
| | `StylesTypes` | `IsFiniteSet(Styles) => (StylesSpec => []StylesTypeOK)` |
| ListsProofs | `IssuesAreFollowed` | `ReportsSpec => []IssuesFollowEvents` |
| | `TurnaroundCredited` | `ReportsSpec => []TurnaroundSound` |
| | `FeedbackIsExplained` | `ReportsSpec => []FeedbackExplains` |
| | `ReportsTyped` | `ReportsSpec => []ReportsTypeOK` |
| | `AuditPagesComplete` | `AuditSpec => []AuditComplete` |
| | `AuditTyped` | `AuditSpec => []AuditTypeOK` |
| | `CataloguePagesComplete` | `ReadsSpec => []PagesComplete` |
| | `ReadsTyped` | `ReadsSpec => []ReadsTypeOK` |

**Lifecycle.**  The properties are not inductive by themselves: a write happens long
after the check that justifies it.  `IInv` adds `GoodHandler`, which says of each
suspended handler that what it remembers is good enough for the step it will take:
a handler that will record an upload as completed has written its style, one that
will submit or decide has seen a style, a restore that will write `approved` has
read the effect of an approval.  It also adds to the rows that the styles of
completed uploads exist (`RowsOK`).  The argument rests on one observation.  What
handlers rely on only grows: style rows are never deleted, and `reviewed` never
becomes empty again (`Growing`).  So no step of another process can invalidate a
suspended handler (`GoodHandlerStays`), and the proof of a step has to look at its
own process and the rows only (`Assemble`).  The refinement is proved from the same
invariant: every step is one of the abstract specification, or changes none of
the four things that it speaks of (`SeenUnchanged`).

**Capacity.**  A row is created by a handler that found room earlier.  `Pending` are
the requests that have found room and not yet created their row, and the invariant
`Room` is `Cardinality(Existing) + Cardinality(Pending) <= MaxUploads +
Cardinality(Api) - 1`.  A step that finds room has fewer than `MaxUploads` rows and
at most all requests pending (`FindStep`); a step that creates a row moves one from
one side to the other (`CreateStep`); every other step creates none, because the
jobs, loops and suspended handlers that write to an upload have its row already
(`Tracked`).

**Processing.**  A submission stays in `processing` for good when two settling
transactions each read the file of the other as unfinished (MCInlineSkew), when a
failure is recorded between the read and the commit of one (MCFailedAside), or when a
process dies that would have written the status (MCLostJob).  The four theorems say
that nothing else does it.  They are about two properties.  `NotStuckProcessing` (not
with all files completed) speaks of the first and third case only: a submission with a
failed file is outside it, and `CompletedStickByOverlapOrCrash` and
`OneConsumerLeavesNoneCompleted` say nothing of one.  `ProcessingIsWork` (not with all
files completed or failed) is the stronger one, which needs `OneRecords` in
`ProcessingMeansWork` and `OneConsumerWorks`.  The lemmas are stated for both:
`Left(S)` are the files whose state is in `S`, where failed files count as left
(`Unfinished`) or not (`InWork`).  `ReadStands(S)` says that a transaction that will
write `processing` has read a file that is still left.  Only another settling
transaction can change that (`OneSettles` excludes it) or, where failed files do not
count, the recording of a failure (`OneRecords`).  Without a crash, a submission in
`processing` then has a file left, or someone is in the middle of processing and
writes a status at the end (`Attended`).  `OneConsumer` describes the deployment of
the MCReview run: one worker, a queue that takes every job, no staff upload and no
reprocessing, hence no request that processes a file itself (`QueueOnly`).  There no
two settling transactions overlap, and a crash is allowed at any point: the file whose
job is lost is itself left (`Accounted`).  MCFailedAside is an instance of that
deployment, so `OneRecords` cannot be dropped from `OneConsumerWorks`.  All four rest
on the invariant of the capacity proof, which knows that whoever writes to an upload
has its row.

**Index.**  `OneOfEach` says that there is one request handler and one worker.  For
each family, `Agrees` says that the document is what the database calls for or one
of the jobs, delayed jobs or handlers will still see to it (`Cleared` for
families that are not approved, `Current` for those that are), unless `troubles`
records why not.  `Remembered` says that what a suspended request has read is
still true, which needs one request at a time; `Roles` which process may be where.
Without `OneOfEach` the properties fail (MCIndexAdmins).

**Accounts.**  A login that was checked with an earlier password may still open a
session, and a refresh may still renew one.  `SessionsOK` says that there is a
function `blame` from the logins that stale sessions descend from to requests, one
to one, which spares the request that changed the password (`Blames`); hence there
are fewer of them than requests.  For `LinksSpent` an open link is attributed to the
request that created it, which has consumed what it created before (`Attributes`),
and the uses of a reset link are counted together with the requests that are about
to use it, which no request joins after the first use (`UsesOK`).
`RevocationLasts` follows from the types: rows are written by the number that the
request remembers, and a new session takes a row that was never used.

**Browser.**  `BrowserKeepsSessions` is the composition: a browser is one of the
clients of AuthSessions, so that the theorems on accounts hold of it.  `KeptSignedIn`
needs to know why a refresh succeeds.  While `clean` holds, either no call of the
browser is under way and the stored token is one that lasts (`Kept`), or exactly one
call of one tab is (`Serves`, `Alone`) and is at a point where its kind of call can
be, with the rows that go with it (`Refreshing`, `Entering`, `Leaving`).  A session
lasts (`Lasting`) while it is live, and counts as lasting when it has expired or was
withdrawn; a refresh can then only be refused because its session is over in one of
these two ways (`Over`), since nobody else refreshes the sessions of this browser.
For the uploads, `Tidy` says that the record of a file which is being sent or shown in
processing has the id of its last attempt, and that a file shown as ready has finished
in that attempt; `Reports` says that an answer of a poll, however late, calls only
finished uploads completed.

**Pages and visitors.**  A page of a submission is attended because whatever makes its
answer old also asks for a new one and replaces the read under way, so that neither
the answer nor that read is overtaken unless the page had been left (`StaleIsRead`),
and because every view it can hold watches its uploads if it says `processing` and is
whole (`ViewsWatch`).  The latter rests on the server: while the status is
`processing` some upload is in work (`ProcessingHasWork`), which `FetchRow` notes by
the status it has read and `torn` gives up when the status moves before the uploads
are read.  For visitors, `GoneIsLast` says that the clock `gone` of a style stands at
zero while the style is public or a request that found it public is under way;
whatever is handed out is therefore handed out at zero, and then both clocks run
together.

**Limits and mail.**  `GuessesOK` counts the logins that have passed the check of the
lock and not yet tried (`Trying`), those that have tried and not yet been counted
(`Failing`) and the count in Redis, as far as it is below the threshold (`Harmless`);
once the lock is held only those that passed the check can still try.  A restart takes
logins out of `Failing` and adds as many to `cut`.  `CountersOK` says which login
still owes a counter its expiry, or that the one that did has ended (`orphaned`).
`CopiesCounted` bounds the copies of a mail by the attempts of its job and the one
fallback.

**Library.**  `ContentSpec` and `StylesSpec` run all requests of their module
together, where MCLibrary runs one kind at a time: a step of one kind leaves the
variables and the suspended requests of the others alone (`SlugsApart`, `TagsApart`).
`TagsHeld` says that whoever is about to write tags holds the lock on the row of the
family and has read the tags that are there.  `KeyTells` says that every object of
the bucket is stored under what it contains.  `DefaultStaysKept` looks at the three
steps that choose a default (`SyncStep`, `ArchiveStep`, `RestoreStep`); it needs the
types of the rows, and these that there is a next `updatedAt` (`NextUpdatedAt`, from
the least number above all stamps).

**Lists and reports.**  `ReportsInv` ties the events to the rows.  `EventsExplain`
says that a failure has its event, that a submission has, and that a request for
changes is the latest event until its contributor acts on it; `PointsAtFiles` that
what an event points at is a file that is there; `DecisionStands` that behind a
decided status is a decision of the reviewer it names, later than the time that the
row notes, and that this is later than the submission unless the two overtook each
other.  A row of a list has the place that its rank gives, the number of rows before
it, so the proofs count and need no induction over sequences (`AscendingAt`,
`ResultRanks`).  The audit trail has no rank among rows of one time.  There `Missing`
are the rows that were there at the beginning and no row of whose time has been seen;
`Ahead` says that as many rows are newer than any of them as the pages read so far
have held, and that the total calls for another page.  A page keeps this because all
of its rows are newer than a row that it leaves missing (`PageIsNewer`); rows that are
added only push the rest back.  `Follows` says that, as long as nothing moves, a
visitor has seen exactly the families of the lowest ranks (`Top`, `TopHits`), in
whichever of the orders that agree with `ORDER BY` the rows were returned.

## 5. Only model-checked

* Liveness (`HandlersEnd`, `ProcessingEnds`, `JobsSettle`, `Searchable`, `LockoutEnds`,
  `MailArrives`, `LinksEnd`, `FilesSettle`, `PageFollows`) is out of the prover's reach.

Every safety property of the passing runs is a theorem, and so is the type invariant
of every module with variables; `IInv`, which contains that of the lifecycle, is
checked by MCStaff as well.  Some theorems state the safety half of a liveness
property: at rest nothing is left undone (`IndexAgrees`, `ProcessingMeansWork`), no
counter lacks its expiry but one whose login ended too early (`NoCounterForGood`), no
page its poll (`PagesAttended`).

## 6. Not modelled

* File formats: inspection is "a style or an error".
* Contents of metadata, warnings and analytics rows that no step depends on;
  designers of a family, which are replaced as its tags are.
* DTO validation, serialisation, logging, health checks, metrics, configuration,
  start-up, the seed; forms and lists of the client that only present what one
  request answers.
* `updateCurrentUserProfile`, which writes fields of one row, and the counts of
  `users.service` and `contributor.service`.
* Authorisation: every operation is performed by someone who may perform it.
* PostgreSQL itself is READ COMMITTED with row locks; commits are atomic.
* In PublicationIndex, edits by contributors and style changes by processing
  while the family is public; neither asks for a job (see the hazard at
  `submissions.service.ts:436`).
* More than one visitor, and more than one call of a page at a time.

Behaviour met on the way that no run is about:

* `processing_failed` admits neither a new upload nor a submission
  (`uploads.service.ts:55`); only a staff upload or a successful reprocessing leaves
  it, while `SubmissionDetailPage.tsx:33` lists it as editable.  A failed PUT leaves a
  `queued` row that keeps the summary from ever completing.
* The phase of a submission that is `ready_for_submission` again after a request
  for changes is `awaiting_staff`, though the contributor has to submit
  (`submissions.service.ts:943`).
* An upload begun after the page has loaded is polled by the hook and not by the
  page, so the submit button stays disabled until the page is opened again, against
  the comment at `SubmissionDetailPage.tsx:50`.
* A process that dies between INCR and EXPIRE leaves a counter without an expiry
  (`auth-rate-limit.service.ts:53`): the next INCR answers more than 1, so no later
  login sets it, and the account or address is throttled until staff clear it.
* Rows of one `createdAt` may change places between two queries
  (`admin.service.ts:1500`), so that the pages of the audit trail may show one of them
  twice and another never.
* A read that is under way when a page is left and a call of the page succeeds is
  taken for fresh when it arrives (`SubmissionDetailPage.tsx:50`): whoever opens the
  page again within the minute of `staleTime` sees the status from before the call,
  and nothing asks for it until the next poll or a later visit.
* An `init` whose answer is lost leaves a `queued` row behind (`useUpload.ts:217`), and
  the retry takes another place of the submission's capacity.
* A silent refresh that is answered after a logout stores its token again
  (`client.ts:149`; `docs/frontend-build-plan.md:612` wants the state cleared).
* `deleteLicense` (`admin.service.ts:1326`) leaves submissions that declared the
  license without one (`docs/backend-plan.md:314` requires one).
* A contributor's edit of the default style clears the other defaults and sets the
  new one in two statements; processing the file of the default style again takes
  its default away (`font-style-sync.service.ts:38`).
* `failUpload` deletes the raw object also when a style serves it already.
* `isVariableFamily` is never written, so the filter for variable families finds
  nothing; the filters offer names of categories and a lower-case script while the
  query compares slugs and `Ethiopic`.  The orders by name and by popularity, and the
  lists that page by offset over rows that move, have no unique tie-break.
* `updatePublisher` and `updateDesigner` clear the fields that a request leaves out;
  `updateCurrentUserProfile` writes back values it read before.  The vocabulary and
  license pages of the client expect `{data, total}` where the API answers arrays.

## 7. Plan

What would come next, in this order.

1. Contributor edits and style changes of public families in PublicationIndex, and a
   bound on how long a document may stay old.
2. SubmissionPages over SubmissionLifecycle instead of its own single steps, to ask
   what a page shows of a submission that is left in `processing`.
3. The pages of administrators (vocabulary, licenses) as clients of ContentAdmin.
