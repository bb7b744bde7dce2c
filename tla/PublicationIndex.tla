------------------------- MODULE PublicationIndex -------------------------
(***************************************************************************)
(* The search index beside the catalogue.  A handler that changes what the *)
(* public may find commits to PostgreSQL and afterwards asks for a job that *)
(* writes or removes the document of the family; a worker takes the jobs   *)
(* in order, retries the ones that fail, and the request does the work     *)
(* itself when there is no queue.  An upsert reads the family again, a     *)
(* removal does not.                                                       *)
(***************************************************************************)
EXTENDS Naturals, FiniteSets, Sequences, Handlers

CONSTANTS
  Families,
  Workers,      \* consumers of the background-jobs queue
  QueueModes,   \* configurations: "queue" (jobs in Redis) or "inline"
  Attempts,     \* attempts of a job
  MaxEdits,     \* bound: edits of a family
  MaxJobs,      \* bound: jobs that wait or are delayed
  MaxFailures   \* bound: failing calls to Redis, PostgreSQL or Meilisearch

ASSUME IndexAssumption ==
  /\ Api \cap Workers = {} /\ None \notin Families
  /\ QueueModes \subseteq {"queue", "inline"} /\ QueueModes # {}
  /\ Attempts \in Nat \ {0} /\ MaxEdits \in Nat /\ MaxJobs \in Nat /\ MaxFailures \in Nat

VARIABLES
  mode,       \* the configuration this system was started with
  family,     \* fontFamily.status
  published,  \* fontFamily.publishedAt is set
  edition,    \* how often the content of the document has changed
  review,     \* the submission of the family is in needs_review
  index,      \* the edition of the document in Meilisearch, or NoDocument
  jobs,       \* waiting jobs
  delayed,    \* failed jobs that wait for another attempt
  failures,   \* calls that have failed
  troubles    \* history: what has gone wrong with the jobs of a family

rows == <<family, published, edition, review>>
queue == <<jobs, delayed>>
vars == <<mode, rows, index, queue, handler, failures, troubles>>

Procs == Api \cup Workers
FamilyStates == {"draft", "approved", "archived"}
Syncs == {"upsert", "remove", "none"}
Troubles == {"inlined", "retried", "lost"}
NoDocument == MaxEdits + 1
Docs == 0..NoDocument
Jobs == [sync: Syncs \ {"none"}, family: Families, attempt: 1..Attempts]

IndexPoints == {"decide_commit", "archive_commit", "restore_commit", "edit_commit",
           "enqueue", "build", "send", "reindex_build", "reindex_add"}

\* outcome: the family status to be written;  sync: the job to ask for, or at
\* work;  attempt: of the job, 0 when a request does the work;  docs: the
\* documents built so far.
Handler == [at: IndexPoints, family: Families \cup {None}, outcome: FamilyStates,
            sync: Syncs, attempt: 0..Attempts, todo: SUBSET Families,
            docs: [Families -> Docs]]
Started == [at |-> "enqueue", family |-> None, outcome |-> "draft", sync |-> "none",
          attempt |-> 0, todo |-> {}, docs |-> [f \in Families |-> NoDocument]]

TypeOK ==
  /\ mode \in QueueModes
  /\ family \in [Families -> FamilyStates]
  /\ published \in [Families -> BOOLEAN]
  /\ edition \in [Families -> 0..MaxEdits]
  /\ review \in [Families -> BOOLEAN]
  /\ index \in [Families -> Docs]
  /\ jobs \in Seq(Jobs)
  /\ delayed \subseteq Jobs
  /\ handler \in [Procs -> Handler \cup {Idle}]
  /\ failures \in 0..MaxFailures
  /\ troubles \in [Families -> SUBSET Troubles]

RowsInit ==
  /\ mode \in QueueModes
  /\ family = [f \in Families |-> "draft"]
  /\ published = [f \in Families |-> FALSE]
  /\ edition = [f \in Families |-> 0]
  /\ review = [f \in Families |-> FALSE]
  /\ index = [f \in Families |-> NoDocument]
  /\ jobs = <<>> /\ delayed = {}
  /\ failures = 0
  /\ troubles = [f \in Families |-> {}]

HandlersInit == handler = [p \in Procs |-> Idle]
Init == RowsInit /\ HandlersInit

Trouble(f, t) == troubles' = [troubles EXCEPT ![f] = @ \cup {t}]
Fail == failures < MaxFailures /\ failures' = failures + 1

\* After its commit, a request asks for a job or is done.
Ask(p, sync) ==
  IF sync = "none" THEN Finish(p)
  ELSE handler' = [handler EXCEPT ![p].at = "enqueue", ![p].sync = sync]

\* Mutant (MCProgress): buildDocument without the condition on the status.
DocumentOfAny(f) == edition[f]

\* buildDocument: only an approved family has a document.
Document(f) == IF family[f] = "approved" THEN edition[f] ELSE NoDocument

-----------------------------------------------------------------------------
(* admin.service: what changes the public record, then asks for a job      *)

\* The contributor's side: see SubmissionLifecycle.
Submit(f) ==
  /\ ~review[f]
  /\ review' = [review EXCEPT ![f] = TRUE]
  /\ UNCHANGED <<mode, family, published, edition, index, queue, handler, failures, troubles>>

Room == Len(jobs) + Cardinality(delayed) < MaxJobs

BeginRequest(p, f, point, outcome) ==
  /\ p \in Api /\ Room
  /\ Begin(p, [Started EXCEPT !.at = point, !.family = f, !.outcome = outcome])
  /\ UNCHANGED <<mode, rows, index, queue, failures, troubles>>

DecideBegin(p, f) ==
  /\ review[f]
  /\ \E outcome \in {"approved", "draft"} : BeginRequest(p, f, "decide_commit", outcome)

ArchiveBegin(p, f) ==
  /\ family[f] # "archived"
  /\ BeginRequest(p, f, "archive_commit", "archived")

RestoreBegin(p, f) ==
  BeginRequest(p, f, "restore_commit", IF published[f] THEN "approved" ELSE "draft")

\* updateFamily, updateFamilyStyle, archiveFamilyStyle and restoreFamilyStyle
\* remember whether the family was approved when they read it.
EditBegin(p, f) ==
  /\ edition[f] < MaxEdits
  /\ BeginRequest(p, f, "edit_commit", family[f])

DecideCommit(p) ==
  LET f == handler[p].family
      approved == handler[p].outcome = "approved" IN
  /\ At(p, "decide_commit")
  /\ family' = [family EXCEPT ![f] = handler[p].outcome]
  /\ published' = [published EXCEPT ![f] = approved]
  /\ review' = [review EXCEPT ![f] = FALSE]
  /\ Ask(p, IF approved THEN "upsert" ELSE "remove")
  /\ UNCHANGED <<mode, edition, index, queue, failures, troubles>>

ArchiveCommit(p) ==
  /\ At(p, "archive_commit")
  /\ family' = [family EXCEPT ![handler[p].family] = "archived"]
  /\ Ask(p, "remove")
  /\ UNCHANGED <<mode, published, edition, review, index, queue, failures, troubles>>

RestoreCommit(p) ==
  /\ At(p, "restore_commit")
  /\ family' = [family EXCEPT ![handler[p].family] = handler[p].outcome]
  /\ Ask(p, IF handler[p].outcome = "approved" THEN "upsert" ELSE "none")
  /\ UNCHANGED <<mode, published, edition, review, index, queue, failures, troubles>>

\* Mutant (MCProgress): the job of an edit is forgotten.
EditCommitQuiet(p) ==
  /\ At(p, "edit_commit")
  /\ edition' = [edition EXCEPT ![handler[p].family] = IF @ < MaxEdits THEN @ + 1 ELSE @]
  /\ Finish(p)
  /\ UNCHANGED <<mode, family, published, review, index, queue, failures, troubles>>

EditCommit(p) ==
  /\ At(p, "edit_commit")
  /\ edition' = [edition EXCEPT ![handler[p].family] = IF @ < MaxEdits THEN @ + 1 ELSE @]
  /\ Ask(p, IF handler[p].outcome = "approved" THEN "upsert" ELSE "none")
  /\ UNCHANGED <<mode, family, published, review, index, queue, failures, troubles>>

-----------------------------------------------------------------------------
(* background-jobs.service and search-index.service                        *)

WorkPoint(sync) == IF sync = "upsert" THEN "build" ELSE "send"

\* Mutant (MCProgress): without a queue nothing is done.
EnqueueOnly(p) ==
  LET h == handler[p] IN
  /\ At(p, "enqueue")
  /\ \/ /\ mode = "queue"
        /\ jobs' = Append(jobs, [sync |-> h.sync, family |-> h.family, attempt |-> 1])
     \/ /\ mode = "inline"
        /\ UNCHANGED jobs
  /\ Finish(p)
  /\ UNCHANGED <<mode, rows, index, delayed, failures, troubles>>

\* tryEnqueue: without a queue, or when queue.add throws, the request works.
Enqueue(p) ==
  LET h == handler[p] IN
  /\ At(p, "enqueue")
  /\ \/ /\ mode = "queue"
        /\ jobs' = Append(jobs, [sync |-> h.sync, family |-> h.family, attempt |-> 1])
        /\ Finish(p)
        /\ UNCHANGED <<failures, troubles>>
     \/ /\ mode = "inline"
        /\ handler' = [handler EXCEPT ![p].at = WorkPoint(h.sync)]
        /\ UNCHANGED <<jobs, failures, troubles>>
     \/ /\ mode = "queue" /\ Fail
        /\ handler' = [handler EXCEPT ![p].at = WorkPoint(h.sync)]
        /\ Trouble(h.family, "inlined")
        /\ UNCHANGED jobs
  /\ UNCHANGED <<mode, rows, index, delayed>>

TakeJob(w) ==
  LET j == Head(jobs) IN
  /\ jobs # <<>>
  /\ jobs' = Tail(jobs)
  /\ Begin(w, [Started EXCEPT !.at = WorkPoint(j.sync), !.family = j.family,
                           !.sync = j.sync, !.attempt = j.attempt])
  /\ UNCHANGED <<mode, rows, index, delayed, failures, troubles>>

\* A delayed job joins the end of the queue.
Promote(j) ==
  /\ j \in delayed
  /\ delayed' = delayed \ {j}
  /\ jobs' = Append(jobs, j)
  /\ UNCHANGED <<mode, rows, index, handler, failures, troubles>>

Build(p) ==
  LET f == handler[p].family IN
  /\ At(p, "build")
  /\ handler' = [handler EXCEPT ![p].at = "send", ![p].docs[f] = Document(f)]
  /\ UNCHANGED <<mode, rows, index, queue, failures, troubles>>

\* addDocuments or deleteDocument.  Meilisearch applies tasks in the order it
\* gets them, so the document changes here; the wait for the task follows.
Sent(p) == [index EXCEPT ![handler[p].family] = handler[p].docs[handler[p].family]]

Send(p) ==
  /\ At(p, "send")
  /\ index' = Sent(p)
  /\ Finish(p)
  /\ UNCHANGED <<mode, rows, queue, failures, troubles>>

\* BullMQ retries a job until its last attempt; a request is not retried.
Retried(h) == h.attempt \in 1..(Attempts - 1)

\* A read, a call to Meilisearch or the wait for its task fails; in the last
\* case the task may have been applied.  A job is delayed for another attempt
\* if it has one left; a request ends with an error.
WorkFails(p) ==
  LET h == handler[p] IN
  /\ h.at \in {"build", "send"}
  /\ Fail
  /\ index' \in IF At(p, "send") THEN {index, Sent(p)} ELSE {index}
  /\ \/ /\ Retried(h)
        /\ delayed' = delayed \cup
             {[sync |-> h.sync, family |-> h.family, attempt |-> h.attempt + 1]}
        /\ IF h.sync = "remove" THEN Trouble(h.family, "retried") ELSE UNCHANGED troubles
     \/ /\ ~Retried(h)
        /\ Trouble(h.family, "lost")
        /\ UNCHANGED delayed
  /\ Finish(p)
  /\ UNCHANGED <<mode, rows, jobs>>

-----------------------------------------------------------------------------
(* search-index.service: syncAllApprovedFamilies                           *)

ReindexBegin(p) ==
  /\ p \in Api
  /\ Begin(p, [Started EXCEPT !.at = "reindex_build",
                           !.todo = {f \in Families : family[f] = "approved"}])
  /\ UNCHANGED <<mode, rows, index, queue, failures, troubles>>

ReindexBuild(p, f) ==
  /\ At(p, "reindex_build") /\ f \in handler[p].todo
  /\ handler' = [handler EXCEPT ![p].todo = @ \ {f}, ![p].docs[f] = Document(f)]
  /\ UNCHANGED <<mode, rows, index, queue, failures, troubles>>

Emptied == [f \in Families |-> NoDocument]
Added(docs) == [f \in Families |-> IF docs[f] = NoDocument THEN index[f] ELSE docs[f]]

ReindexClear(p) ==
  /\ At(p, "reindex_build") /\ handler[p].todo = {}
  /\ index' = Emptied
  /\ handler' = [handler EXCEPT ![p].at = "reindex_add"]
  /\ UNCHANGED <<mode, rows, queue, failures, troubles>>

ReindexAdd(p) ==
  /\ At(p, "reindex_add")
  /\ index' = Added(handler[p].docs)
  /\ Finish(p)
  /\ UNCHANGED <<mode, rows, queue, failures, troubles>>

\* An error ends the request wherever it is, the index cleared or not.
ReindexFails(p) ==
  /\ \/ At(p, "reindex_build") /\ index' \in {index, Emptied}
     \/ At(p, "reindex_add") /\ index' \in {index, Added(handler[p].docs)}
  /\ (index' # index => handler[p].todo = {})
  /\ Fail
  /\ troubles' = [f \in Families |-> troubles[f] \cup {"lost"}]
  /\ Finish(p)
  /\ UNCHANGED <<mode, rows, queue>>

-----------------------------------------------------------------------------
Request(p) ==
  \/ \E f \in Families : DecideBegin(p, f) \/ ArchiveBegin(p, f) \/ RestoreBegin(p, f)
                           \/ EditBegin(p, f)
  \/ ReindexBegin(p)

HandlerStep(p) ==
  \/ DecideCommit(p) \/ ArchiveCommit(p) \/ RestoreCommit(p) \/ EditCommit(p)
  \/ Enqueue(p) \/ Build(p) \/ Send(p) \/ WorkFails(p)
  \/ \E f \in Families : ReindexBuild(p, f)
  \/ ReindexClear(p) \/ ReindexAdd(p) \/ ReindexFails(p)

Next ==
  \/ \E f \in Families : Submit(f)
  \/ \E p \in Procs : Request(p) \/ HandlerStep(p)
  \/ \E w \in Workers : TakeJob(w)
  \/ \E j \in delayed : Promote(j)

Spec == Init /\ [][Next]_vars

\* A begun handler runs on, an idle worker takes jobs, and the delay of a job
\* ends.  Nothing ever disables these steps for a process but the process.
Fairness ==
  /\ \A p \in Procs : WF_vars(HandlerStep(p))
  /\ \A w \in Workers : WF_vars(TakeJob(w))
  /\ WF_vars(\E j \in delayed : Promote(j))

FairSpec == Spec /\ Fairness
-----------------------------------------------------------------------------
AtRest == jobs = <<>> /\ delayed = {} /\ \A p \in Procs : At(p, "idle")

\* When nothing is under way, a family whose removal jobs were never retried,
\* worked inline behind a running queue or given up has exactly the document
\* that the database calls for: current when it is approved, none otherwise.
IndexSettles ==
  AtRest => \A f \in Families : troubles[f] = {} => index[f] = Document(f)

\* A retried removal can at worst hide an approved family.  It never leaves a
\* family that is not approved in the index: an upsert reads the family again.
NoGhosts ==
  AtRest => \A f \in Families :
              index[f] # NoDocument /\ troubles[f] \subseteq {"retried"} => family[f] = "approved"

\* An approved family appears in the index, unless it is taken back before or
\* a job of it fails.
Searchable ==
  \A f \in Families :
    family[f] = "approved" ~> index[f] # NoDocument \/ family[f] # "approved" \/ troubles[f] # {}
=============================================================================
