----------------------- MODULE PublicationIndexProofs -----------------------
(***************************************************************************)
(* The index agrees with the catalogue when nothing is under way, for any  *)
(* families, attempts and failures, when one request at a time changes the *)
(* catalogue and one worker takes the jobs.  Types hold for any processes. *)
(***************************************************************************)
EXTENDS PublicationIndex, SequenceTheorems, TLAPS

CommitPoints == {"decide_commit", "archive_commit", "restore_commit", "edit_commit"}

Blank == [f \in Families |-> NoDocument]

\* What a busy process remembers: its family, the job it asks for or works on,
\* and no document before it has built one.
Good(h) ==
  /\ h.at \in CommitPoints \cup {"enqueue", "build", "send"} => h.family \in Families
  /\ h.at \in {"enqueue", "send"} => h.sync \in {"upsert", "remove"}
  /\ h.at = "build" => h.sync = "upsert"
  /\ h.at \in CommitPoints \cup {"enqueue", "build"} => h.docs = Blank
  /\ h.at = "send" /\ h.sync = "remove" => h.docs[h.family] = NoDocument

Typed ==
  /\ TypeOK
  /\ \A p \in Procs : Good(handler[p])

RowTypes ==
  /\ mode \in QueueModes
  /\ family \in [Families -> FamilyStates]
  /\ published \in [Families -> BOOLEAN]
  /\ edition \in [Families -> 0..MaxEdits]
  /\ review \in [Families -> BOOLEAN]
  /\ index \in [Families -> Docs]
  /\ jobs \in Seq(Jobs)
  /\ delayed \subseteq Jobs
  /\ failures \in 0..MaxFailures
  /\ troubles \in [Families -> SUBSET Troubles]

LEMMA Busy ==
  ASSUME Typed, NEW p \in Procs
  PROVE  /\ handler[p] \in Handler \cup {Idle} /\ Good(handler[p])
         /\ handler[p].at # "idle" => handler[p] \in Handler
BY DEF Typed, TypeOK, Idle

LEMMA IdleGood == Idle \in Handler \cup {Idle} /\ Good(Idle) /\ Idle.at = "idle"
BY DEF Idle, Good, CommitPoints

LEMMA StartedTyped ==
  ASSUME IndexAssumption
  PROVE  Started \in Handler /\ Started.docs = Blank /\ Blank \in [Families -> Docs]
BY DEF IndexAssumption, Started, Handler, Blank, Docs, NoDocument, IndexPoints, FamilyStates, Syncs

LEMMA DocumentTyped ==
  ASSUME IndexAssumption, RowTypes, NEW f \in Families
  PROVE  Document(f) \in Docs /\ (Document(f) # NoDocument <=> family[f] = "approved")
         /\ (family[f] = "approved" => Document(f) = edition[f])
BY DEF IndexAssumption, RowTypes, Document, Docs, NoDocument

LEMMA Assemble ==
  ASSUME Typed, RowTypes', NEW p \in Procs, NEW h \in Handler \cup {Idle}, Good(h),
         handler' = [handler EXCEPT ![p] = h]
  PROVE  Typed'
<1>1. handler' \in [Procs -> Handler \cup {Idle}]
  BY DEF Typed, TypeOK
<1>2. TypeOK'
  BY <1>1 DEF TypeOK, RowTypes
<1>3. ASSUME NEW q \in Procs
      PROVE  Good(handler'[q])
  BY DEF Typed, TypeOK
<1>4. \A q \in Procs : Good(handler[q])'
  BY <1>3 DEF Good, Blank, NoDocument
<1> QED
  BY <1>2, <1>4 DEF Typed

LEMMA RowsStay ==
  ASSUME Typed, UNCHANGED <<mode, rows, index, queue, failures, troubles>>
  PROVE  RowTypes'
BY DEF Typed, TypeOK, RowTypes, rows, queue

LEMMA RequestTyped ==
  ASSUME IndexAssumption, Typed, NEW p \in Procs, Request(p)
  PROVE  Typed'
<1>1. ASSUME NEW f \in Families, NEW point \in CommitPoints, NEW outcome \in FamilyStates,
             BeginRequest(p, f, point, outcome)
      PROVE  Typed'
  <2>1. PICK h \in Handler :
          h = [Started EXCEPT !.at = point, !.family = f, !.outcome = outcome]
    BY StartedTyped DEF Handler, CommitPoints, IndexPoints
  <2>2. Good(h)
    BY <2>1, StartedTyped DEF Good, CommitPoints, Handler
  <2>3. handler' = [handler EXCEPT ![p] = h]
    BY <1>1, <2>1 DEF BeginRequest, Begin, Suspend
  <2> QED
    BY <1>1, <2>2, <2>3, RowsStay, Assemble DEF BeginRequest
<1>2. CASE ReindexBegin(p)
  <2>1. PICK h \in Handler :
          h = [Started EXCEPT !.at = "reindex_build", !.todo = {f \in Families : family[f] = "approved"}]
    BY StartedTyped DEF Handler, IndexPoints
  <2>2. Good(h)
    BY <2>1, StartedTyped DEF Good, CommitPoints, Handler
  <2>3. handler' = [handler EXCEPT ![p] = h]
    BY <1>2, <2>1 DEF ReindexBegin, Begin, Suspend
  <2> QED
    BY <1>2, <2>2, <2>3, RowsStay, Assemble DEF ReindexBegin
<1>3. ASSUME NEW f \in Families, DecideBegin(p, f) \/ ArchiveBegin(p, f) \/ RestoreBegin(p, f)
                                  \/ EditBegin(p, f)
      PROVE  \E point \in CommitPoints, outcome \in FamilyStates : BeginRequest(p, f, point, outcome)
  <2>1. family[f] \in FamilyStates
    BY DEF Typed, TypeOK
  <2>2. CASE DecideBegin(p, f)
    BY <2>2 DEF DecideBegin, CommitPoints, FamilyStates
  <2>3. CASE ArchiveBegin(p, f)
    BY <2>3 DEF ArchiveBegin, CommitPoints, FamilyStates
  <2>4. CASE RestoreBegin(p, f)
    BY <2>4 DEF RestoreBegin, CommitPoints, FamilyStates
  <2>5. CASE EditBegin(p, f)
    BY <2>1, <2>5 DEF EditBegin, CommitPoints
  <2> QED BY <1>3, <2>2, <2>3, <2>4, <2>5
<1> QED
  BY <1>1, <1>2, <1>3 DEF Request

\* After its commit a request asks for a job, or is done.
LEMMA AskTyped ==
  ASSUME Typed, RowTypes', NEW p \in Procs, handler[p].at \in CommitPoints,
         NEW sync \in Syncs, Ask(p, sync)
  PROVE  Typed'
<1>1. handler[p] \in Handler /\ Good(handler[p])
  BY Busy DEF CommitPoints
<1>2. CASE sync = "none"
  BY <1>2, IdleGood, Assemble DEF Ask, Finish, Suspend
<1>3. CASE sync # "none"
  <2>1. PICK h \in Handler : h = [handler[p] EXCEPT !.at = "enqueue", !.sync = sync]
    BY <1>1 DEF Handler, IndexPoints
  <2>2. Good(h)
    BY <1>1, <1>3, <2>1 DEF Good, CommitPoints, Handler, Syncs
  <2>3. handler' = [handler EXCEPT ![p] = h]
    BY <1>3, <2>1 DEF Ask, Typed, TypeOK
  <2> QED
    BY <2>2, <2>3, Assemble
<1> QED
  BY <1>2, <1>3

LEMMA CommitTyped ==
  ASSUME IndexAssumption, Typed, NEW p \in Procs,
         DecideCommit(p) \/ ArchiveCommit(p) \/ RestoreCommit(p) \/ EditCommit(p)
  PROVE  Typed'
<1> USE DEF Typed, TypeOK, At
<1>1. handler[p].at \in CommitPoints /\ handler[p] \in Handler /\ handler[p].family \in Families
  BY Busy DEF DecideCommit, ArchiveCommit, RestoreCommit, EditCommit, CommitPoints, Good
<1>2. handler[p].outcome \in FamilyStates
  BY <1>1 DEF Handler
<1>3. CASE DecideCommit(p)
  <2>1. RowTypes'
    BY <1>1, <1>2, <1>3 DEF DecideCommit, RowTypes, queue
  <2> QED BY <1>1, <1>3, <2>1, AskTyped DEF DecideCommit, Syncs
<1>4. CASE ArchiveCommit(p)
  <2>1. RowTypes'
    BY <1>1, <1>2, <1>4 DEF ArchiveCommit, RowTypes, queue, FamilyStates
  <2> QED BY <1>1, <1>4, <2>1, AskTyped DEF ArchiveCommit, Syncs
<1>5. CASE RestoreCommit(p)
  <2>1. RowTypes'
    BY <1>1, <1>2, <1>5 DEF RestoreCommit, RowTypes, queue
  <2> QED BY <1>1, <1>5, <2>1, AskTyped DEF RestoreCommit, Syncs
<1>6. CASE EditCommit(p)
  <2>1. edition' \in [Families -> 0..MaxEdits]
    BY <1>1, <1>6 DEF EditCommit, IndexAssumption
  <2>2. RowTypes'
    BY <1>1, <1>2, <1>6, <2>1 DEF EditCommit, RowTypes, queue
  <2> QED BY <1>1, <1>6, <2>2, AskTyped DEF EditCommit, Syncs
<1> QED
  BY <1>3, <1>4, <1>5, <1>6

LEMMA AttemptTyped ==
  ASSUME IndexAssumption
  PROVE  1 \in 1..Attempts /\ \A a \in 1..Attempts : a \in 0..Attempts
BY DEF IndexAssumption

LEMMA TroubleTyped ==
  ASSUME Typed, NEW f \in Families, NEW t \in Troubles, Trouble(f, t)
  PROVE  troubles' \in [Families -> SUBSET Troubles]
<1>1. troubles \in [Families -> SUBSET Troubles]
  BY DEF Typed, TypeOK
<1>2. PICK s \in SUBSET Troubles : s = troubles[f] \cup {t}
  BY <1>1
<1>3. troubles' = [troubles EXCEPT ![f] = s]
  BY <1>2 DEF Trouble
<1> QED
  BY <1>1, <1>3

LEMMA EnqueueTyped ==
  ASSUME IndexAssumption, Typed, NEW p \in Procs, Enqueue(p)
  PROVE  Typed'
<1>1. handler[p] \in Handler /\ Good(handler[p]) /\ handler[p].at = "enqueue"
  BY Busy DEF Enqueue, At
<1>2. /\ handler[p].family \in Families /\ handler[p].sync \in {"upsert", "remove"}
      /\ handler[p].docs = Blank
  BY <1>1 DEF Good
<1>3. PICK job \in Jobs : job = [sync |-> handler[p].sync, family |-> handler[p].family, attempt |-> 1]
  BY <1>2, AttemptTyped DEF Jobs, Syncs
<1>4. RowTypes'
  <2>1. jobs' = jobs \/ jobs' = Append(jobs, job)
    BY <1>3 DEF Enqueue
  <2>2. jobs' \in Seq(Jobs)
    <3>1. jobs \in Seq(Jobs)
      BY DEF Typed, TypeOK
    <3> QED BY <2>1, <3>1, AppendProperties
  <2>3. failures' \in 0..MaxFailures
    BY DEF Enqueue, Fail, Typed, TypeOK, IndexAssumption
  <2>4. troubles' \in [Families -> SUBSET Troubles]
    <3>1. CASE troubles' = troubles
      BY <3>1 DEF Typed, TypeOK
    <3>2. CASE Trouble(handler[p].family, "inlined")
      BY <1>2, <3>2, TroubleTyped DEF Troubles
    <3> QED BY <3>1, <3>2 DEF Enqueue
  <2> QED BY <2>2, <2>3, <2>4 DEF Enqueue, RowTypes, Typed, TypeOK, rows
<1>5. CASE handler' = [handler EXCEPT ![p] = Idle]
  BY <1>4, <1>5, IdleGood, Assemble
<1>6. CASE handler' = [handler EXCEPT ![p].at = WorkPoint(handler[p].sync)]
  <2>1. PICK h \in Handler : h = [handler[p] EXCEPT !.at = WorkPoint(handler[p].sync)]
    BY <1>1 DEF Handler, IndexPoints, WorkPoint
  <2>2. Good(h)
    BY <1>1, <1>2, <2>1 DEF Good, CommitPoints, Handler, WorkPoint, Blank
  <2>3. handler' = [handler EXCEPT ![p] = h]
    BY <1>6, <2>1 DEF Typed, TypeOK
  <2> QED
    BY <1>4, <2>2, <2>3, Assemble
<1> QED
  BY <1>5, <1>6 DEF Enqueue, Finish, Suspend

LEMMA JobTaken ==
  ASSUME Typed, jobs # <<>>
  PROVE  Head(jobs) \in Jobs /\ Tail(jobs) \in Seq(Jobs)
BY HeadTailProperties DEF Typed, TypeOK

LEMMA TakeTyped ==
  ASSUME IndexAssumption, Typed, NEW w \in Workers, TakeJob(w)
  PROVE  Typed'
<1>1. jobs # <<>> /\ w \in Procs
  BY DEF TakeJob, Procs
<1>2. PICK j \in Jobs : j = Head(jobs)
  BY <1>1, JobTaken
<1>3. PICK h \in Handler : h = [Started EXCEPT !.at = WorkPoint(j.sync), !.family = j.family,
                                               !.sync = j.sync, !.attempt = j.attempt]
  <2>1. j.sync \in Syncs /\ j.family \in Families /\ j.attempt \in 0..Attempts
    BY AttemptTyped DEF Jobs
  <2>2. WorkPoint(j.sync) \in IndexPoints
    BY DEF WorkPoint, IndexPoints
  <2> QED BY <2>1, <2>2, StartedTyped DEF Handler
<1>4. Good(h)
  BY <1>2, <1>3, StartedTyped DEF Good, CommitPoints, Handler, WorkPoint, Jobs, Syncs, Blank
<1>5. handler' = [handler EXCEPT ![w] = h]
  BY <1>2, <1>3 DEF TakeJob, Begin, Suspend
<1>6. RowTypes'
  BY <1>1, JobTaken DEF TakeJob, RowTypes, Typed, TypeOK, rows
<1> QED
  BY <1>1, <1>4, <1>5, <1>6, Assemble

LEMMA PromoteTyped ==
  ASSUME IndexAssumption, Typed, NEW j \in delayed, Promote(j)
  PROVE  Typed'
<1>1. RowTypes'
  BY DEF Promote, RowTypes, Typed, TypeOK, rows
<1> QED
  BY <1>1 DEF Promote, RowTypes, Typed, TypeOK

LEMMA BuildTyped ==
  ASSUME IndexAssumption, Typed, NEW p \in Procs, Build(p)
  PROVE  Typed'
<1>1. handler[p] \in Handler /\ Good(handler[p]) /\ handler[p].at = "build"
  BY Busy DEF Build, At
<1>2. PICK f \in Families : f = handler[p].family
  BY <1>1 DEF Good
<1>3. RowTypes
  BY DEF Typed, TypeOK, RowTypes
<1>4. PICK d \in Docs : d = Document(f)
  BY <1>2, <1>3, DocumentTyped
<1>5. PICK h \in Handler : h = [handler[p] EXCEPT !.at = "send", !.docs[f] = d]
  BY <1>1 DEF Handler, IndexPoints
<1>6. Good(h)
  BY <1>1, <1>2, <1>5 DEF Good, CommitPoints, Handler
<1>7. handler' = [handler EXCEPT ![p] = h]
  <2>1. handler' = [handler EXCEPT ![p].at = "send", ![p].docs[f] = d]
    BY <1>2, <1>4 DEF Build
  <2>2. handler \in [Procs -> Handler \cup {Idle}]
    BY DEF Typed, TypeOK
  <2> QED BY <1>1, <1>5, <2>1, <2>2 DEF Handler
<1> QED
  BY <1>6, <1>7, RowsStay, Assemble DEF Build

\* Work that ends, well or badly: the rows keep their types.
LEMMA EndTyped ==
  ASSUME Typed, RowTypes', NEW p \in Procs, handler' = [handler EXCEPT ![p] = Idle]
  PROVE  Typed'
BY IdleGood, Assemble

LEMMA SentTyped ==
  ASSUME IndexAssumption, Typed, NEW p \in Procs, handler[p].at = "send"
  PROVE  Sent(p) \in [Families -> Docs]
<1>1. handler[p] \in Handler /\ Good(handler[p])
  BY Busy
<1>2. handler[p].family \in Families /\ handler[p].docs \in [Families -> Docs]
  BY <1>1 DEF Good, Handler
<1> QED
  BY <1>2 DEF Sent, Typed, TypeOK

LEMMA SendTyped ==
  ASSUME IndexAssumption, Typed, NEW p \in Procs, Send(p)
  PROVE  Typed'
<1>1. RowTypes'
  BY SentTyped DEF Send, At, RowTypes, Typed, TypeOK, rows, queue
<1> QED
  BY <1>1, EndTyped DEF Send, Finish, Suspend

LEMMA WorkFailsTyped ==
  ASSUME IndexAssumption, Typed, NEW p \in Procs, WorkFails(p)
  PROVE  Typed'
<1>1. handler[p] \in Handler /\ Good(handler[p]) /\ handler[p].at \in {"build", "send"}
  BY Busy DEF WorkFails
<1>2. handler[p].family \in Families /\ handler[p].sync \in {"upsert", "remove"}
  BY <1>1 DEF Good
<1>3. index' \in [Families -> Docs]
  BY SentTyped DEF WorkFails, At, Typed, TypeOK
<1>4. failures' \in 0..MaxFailures
  BY DEF WorkFails, Fail, Typed, TypeOK, IndexAssumption
<1>5. troubles' \in [Families -> SUBSET Troubles]
  <2>1. CASE troubles' = troubles
    BY <2>1 DEF Typed, TypeOK
  <2>2. CASE \E t \in Troubles : Trouble(handler[p].family, t)
    BY <1>2, <2>2, TroubleTyped
  <2> QED BY <2>1, <2>2 DEF WorkFails, Troubles
<1>6. delayed' \subseteq Jobs
  <2>1. CASE Retried(handler[p])
    <3>1. handler[p].attempt \in 1..(Attempts - 1)
      BY <2>1 DEF Retried
    <3>2. handler[p].attempt + 1 \in 1..Attempts
      BY <3>1 DEF IndexAssumption
    <3>3. [sync |-> handler[p].sync, family |-> handler[p].family,
           attempt |-> handler[p].attempt + 1] \in Jobs
      BY <1>2, <3>2 DEF Jobs, Syncs
    <3> QED BY <2>1, <3>3 DEF WorkFails, Typed, TypeOK
  <2>2. CASE ~Retried(handler[p])
    BY <2>2 DEF WorkFails, Typed, TypeOK
  <2> QED BY <2>1, <2>2
<1>7. RowTypes'
  BY <1>3, <1>4, <1>5, <1>6 DEF WorkFails, RowTypes, Typed, TypeOK, rows
<1> QED
  BY <1>7, EndTyped DEF WorkFails, Finish, Suspend

LEMMA ReindexTyped ==
  ASSUME IndexAssumption, Typed, NEW p \in Procs,
         (\E f \in Families : ReindexBuild(p, f)) \/ ReindexClear(p) \/ ReindexAdd(p) \/ ReindexFails(p)
  PROVE  Typed'
<1>1. handler[p] \in Handler /\ Good(handler[p]) /\ handler[p].at \in {"reindex_build", "reindex_add"}
  BY Busy DEF ReindexBuild, ReindexClear, ReindexAdd, ReindexFails, At
<1>2. RowTypes /\ NoDocument \in Docs
  BY DEF Typed, TypeOK, RowTypes, NoDocument, Docs, IndexAssumption
<1>3. Emptied \in [Families -> Docs] /\ Added(handler[p].docs) \in [Families -> Docs]
  <2>1. handler[p].docs \in [Families -> Docs]
    BY <1>1 DEF Handler
  <2> QED BY <1>2, <2>1 DEF Emptied, Added, RowTypes
<1>4. ASSUME NEW f \in Families, ReindexBuild(p, f)
      PROVE  Typed'
  <2>1. PICK d \in Docs : d = Document(f)
    BY <1>2, DocumentTyped
  <2>2. PICK h \in Handler : h = [handler[p] EXCEPT !.todo = @ \ {f}, !.docs[f] = d]
    BY <1>1 DEF Handler
  <2>3. Good(h)
    BY <1>1, <2>2 DEF Good, CommitPoints, Handler
  <2>4. handler' = [handler EXCEPT ![p] = h]
    <3>1. handler' = [handler EXCEPT ![p].todo = handler[p].todo \ {f}, ![p].docs[f] = d]
      BY <1>4, <2>1 DEF ReindexBuild
    <3>2. handler \in [Procs -> Handler \cup {Idle}]
      BY DEF Typed, TypeOK
    <3> QED BY <1>1, <2>2, <3>1, <3>2 DEF Handler
  <2> QED
    BY <1>4, <2>3, <2>4, RowsStay, Assemble DEF ReindexBuild
<1>5. CASE ReindexClear(p)
  <2>1. RowTypes'
    BY <1>2, <1>3, <1>5 DEF ReindexClear, RowTypes, rows, queue
  <2>2. PICK h \in Handler : h = [handler[p] EXCEPT !.at = "reindex_add"]
    BY <1>1 DEF Handler, IndexPoints
  <2>3. Good(h)
    BY <1>1, <2>2 DEF Good, CommitPoints, Handler
  <2>4. handler' = [handler EXCEPT ![p] = h]
    BY <1>5, <2>2 DEF ReindexClear, Typed, TypeOK
  <2> QED
    BY <2>1, <2>3, <2>4, Assemble
<1>6. CASE ReindexAdd(p)
  <2>1. RowTypes'
    BY <1>2, <1>3, <1>6 DEF ReindexAdd, RowTypes, rows, queue
  <2> QED
    BY <1>6, <2>1, EndTyped DEF ReindexAdd, Finish, Suspend
<1>7. CASE ReindexFails(p)
  <2>1. failures' \in 0..MaxFailures
    BY <1>7 DEF ReindexFails, Fail, Typed, TypeOK, IndexAssumption
  <2>2. troubles' \in [Families -> SUBSET Troubles]
    BY <1>2, <1>7 DEF ReindexFails, RowTypes, Troubles
  <2>3. index' \in [Families -> Docs]
    BY <1>2, <1>3, <1>7 DEF ReindexFails, RowTypes
  <2>4. RowTypes'
    BY <1>2, <1>7, <2>1, <2>2, <2>3 DEF ReindexFails, RowTypes, rows, queue
  <2> QED
    BY <1>7, <2>4, EndTyped DEF ReindexFails, Finish, Suspend
<1> QED
  BY <1>4, <1>5, <1>6, <1>7

LEMMA TypedInductive ==
  ASSUME IndexAssumption, Typed, [Next]_vars
  PROVE  Typed'
<1>1. ASSUME NEW f \in Families, Submit(f)
      PROVE  Typed'
  <2>1. RowTypes'
    BY <1>1 DEF Submit, RowTypes, Typed, TypeOK, queue
  <2> QED BY <1>1, <2>1 DEF Submit, RowTypes, Typed, TypeOK
<1>2. ASSUME NEW p \in Procs, HandlerStep(p)
      PROVE  Typed'
  BY <1>2, CommitTyped, EnqueueTyped, BuildTyped, SendTyped, WorkFailsTyped, ReindexTyped DEF HandlerStep
<1>3. CASE UNCHANGED vars
  BY <1>3 DEF vars, rows, queue, Typed, TypeOK
<1> QED
  BY <1>1, <1>2, <1>3, RequestTyped, TakeTyped, PromoteTyped DEF Next

LEMMA InitTyped ==
  ASSUME IndexAssumption, Init
  PROVE  Typed
<1>1. RowTypes
  BY DEF Init, RowsInit, RowTypes, IndexAssumption, FamilyStates, Docs, NoDocument
<1>2. handler \in [Procs -> Handler \cup {Idle}] /\ \A p \in Procs : Good(handler[p])
  BY IdleGood DEF Init, HandlersInit
<1> QED
  BY <1>1, <1>2 DEF Typed, TypeOK, RowTypes

\* Types: the index, the queue and what every process remembers, however many
\* requests and workers run and whatever fails.
THEOREM IndexTyped == Spec => []TypeOK
<1>1. Spec => []Typed
  <2>1. Init => Typed
    BY InitTyped, IndexAssumption
  <2>2. Typed /\ [Next]_vars => Typed'
    BY TypedInductive, IndexAssumption
  <2> QED BY <2>1, <2>2, PTL DEF Spec
<1>2. Typed => TypeOK
  BY DEF Typed
<1> QED
  BY <1>1, <1>2, PTL

-----------------------------------------------------------------------------
(* What each step leaves in the process that takes it                      *)

LEMMA RequestBecomes ==
  ASSUME IndexAssumption, Typed, NEW p \in Procs, Request(p)
  PROVE  /\ p \in Api /\ handler[p].at = "idle"
         /\ UNCHANGED <<mode, rows, index, queue, failures, troubles>>
         /\ \E h \in Handler :
              /\ handler' = [handler EXCEPT ![p] = h]
              /\ h.attempt = 0 /\ h.at \in CommitPoints \cup {"reindex_build"}
              /\ h.at = "restore_commit" => (h.outcome = "approved" <=> published[h.family])
              /\ h.at = "edit_commit" => h.outcome = family[h.family]
              /\ h.at = "reindex_build" => /\ h.docs = Blank
                                           /\ h.todo = {f \in Families : family[f] = "approved"}
<1>1. ASSUME NEW f \in Families, NEW point \in CommitPoints, NEW outcome \in FamilyStates,
             BeginRequest(p, f, point, outcome),
             point = "restore_commit" => (outcome = "approved" <=> published[f]),
             point = "edit_commit" => outcome = family[f]
      PROVE  /\ p \in Api /\ handler[p].at = "idle"
             /\ UNCHANGED <<mode, rows, index, queue, failures, troubles>>
             /\ \E h \in Handler :
                  /\ handler' = [handler EXCEPT ![p] = h]
                  /\ h.attempt = 0 /\ h.at \in CommitPoints
                  /\ h.at = "restore_commit" => (h.outcome = "approved" <=> published[h.family])
                  /\ h.at = "edit_commit" => h.outcome = family[h.family]
  <2>1. PICK h \in Handler :
          h = [Started EXCEPT !.at = point, !.family = f, !.outcome = outcome]
    BY StartedTyped DEF Handler, CommitPoints, IndexPoints
  <2>2. h.attempt = 0 /\ h.at = point /\ h.family = f /\ h.outcome = outcome
    BY <2>1 DEF Started
  <2>3. handler' = [handler EXCEPT ![p] = h] /\ handler[p].at = "idle" /\ p \in Api
    BY <1>1, <2>1 DEF BeginRequest, Begin, Suspend, At
  <2> QED
    BY <1>1, <2>2, <2>3 DEF BeginRequest
<1>2. CASE ReindexBegin(p)
  <2>1. PICK h \in Handler :
          h = [Started EXCEPT !.at = "reindex_build",
                              !.todo = {f \in Families : family[f] = "approved"}]
    BY StartedTyped DEF Handler, IndexPoints
  <2>2. /\ h.attempt = 0 /\ h.at = "reindex_build" /\ h.docs = Blank
        /\ h.todo = {f \in Families : family[f] = "approved"}
    BY <2>1 DEF Started, Blank
  <2>3. handler' = [handler EXCEPT ![p] = h] /\ handler[p].at = "idle" /\ p \in Api
    BY <1>2, <2>1 DEF ReindexBegin, Begin, Suspend, At
  <2> QED
    BY <1>2, <2>2, <2>3 DEF ReindexBegin, CommitPoints
<1>3. ASSUME NEW f \in Families, DecideBegin(p, f) \/ ArchiveBegin(p, f) \/ RestoreBegin(p, f)
                                  \/ EditBegin(p, f)
      PROVE  \E point \in CommitPoints, outcome \in FamilyStates :
               /\ BeginRequest(p, f, point, outcome)
               /\ point = "restore_commit" => (outcome = "approved" <=> published[f])
               /\ point = "edit_commit" => outcome = family[f]
  <2>1. family[f] \in FamilyStates
    BY DEF Typed, TypeOK
  <2>2. CASE DecideBegin(p, f)
    BY <2>2 DEF DecideBegin, CommitPoints, FamilyStates
  <2>3. CASE ArchiveBegin(p, f)
    BY <2>3 DEF ArchiveBegin, CommitPoints, FamilyStates
  <2>4. CASE RestoreBegin(p, f)
    <3>1. PICK outcome \in FamilyStates : outcome = IF published[f] THEN "approved" ELSE "draft"
      BY DEF FamilyStates
    <3>2. BeginRequest(p, f, "restore_commit", outcome)
      BY <2>4, <3>1 DEF RestoreBegin
    <3> QED BY <3>1, <3>2 DEF CommitPoints
  <2>5. CASE EditBegin(p, f)
    BY <2>1, <2>5 DEF EditBegin, CommitPoints
  <2> QED BY <1>3, <2>2, <2>3, <2>4, <2>5
<1> QED
  <2>1. CASE ReindexBegin(p)
    BY <1>2, <2>1
  <2>2. ASSUME NEW f \in Families, DecideBegin(p, f) \/ ArchiveBegin(p, f) \/ RestoreBegin(p, f)
                                    \/ EditBegin(p, f)
        PROVE  /\ p \in Api /\ handler[p].at = "idle"
               /\ UNCHANGED <<mode, rows, index, queue, failures, troubles>>
               /\ \E h \in Handler :
                    /\ handler' = [handler EXCEPT ![p] = h]
                    /\ h.attempt = 0 /\ h.at \in CommitPoints
                    /\ h.at = "restore_commit" => (h.outcome = "approved" <=> published[h.family])
                    /\ h.at = "edit_commit" => h.outcome = family[h.family]
    <3>1. PICK point \in CommitPoints, outcome \in FamilyStates :
            /\ BeginRequest(p, f, point, outcome)
            /\ point = "restore_commit" => (outcome = "approved" <=> published[f])
            /\ point = "edit_commit" => outcome = family[f]
      BY <1>3, <2>2
    <3> QED BY <1>1, <3>1
  <2>3. \A point \in CommitPoints : point # "reindex_build"
    BY DEF CommitPoints
  <2>4. CASE \E f \in Families : DecideBegin(p, f) \/ ArchiveBegin(p, f) \/ RestoreBegin(p, f)
                                 \/ EditBegin(p, f)
    BY <2>2, <2>3, <2>4
  <2> QED BY <2>1, <2>4 DEF Request

LEMMA AskBecomes ==
  ASSUME Typed, NEW p \in Procs, handler[p].at \in CommitPoints, NEW sync \in Syncs, Ask(p, sync)
  PROVE  \E h \in Handler \cup {Idle} :
           /\ handler' = [handler EXCEPT ![p] = h]
           /\ sync = "none" => h = Idle
           /\ sync # "none" => /\ h.at = "enqueue" /\ h.sync = sync
                               /\ h.family = handler[p].family /\ h.attempt = handler[p].attempt
<1>1. handler[p] \in Handler
  BY Busy DEF CommitPoints
<1>2. CASE sync = "none"
  BY <1>2 DEF Ask, Finish, Suspend
<1>3. CASE sync # "none"
  <2>1. PICK h \in Handler : h = [handler[p] EXCEPT !.at = "enqueue", !.sync = sync]
    BY <1>1 DEF Handler, IndexPoints
  <2>2. handler' = [handler EXCEPT ![p] = h]
    BY <1>3, <2>1 DEF Ask, Typed, TypeOK
  <2>3. /\ h.at = "enqueue" /\ h.sync = sync
        /\ h.family = handler[p].family /\ h.attempt = handler[p].attempt
    BY <1>1, <2>1 DEF Handler
  <2> QED
    BY <1>3, <2>2, <2>3
<1> QED
  BY <1>2, <1>3

LEMMA EnqueueBecomes ==
  ASSUME IndexAssumption, Typed, NEW p \in Procs, Enqueue(p)
  PROVE  /\ handler[p].at = "enqueue" /\ UNCHANGED <<mode, rows, index, delayed>>
         /\ handler[p].family \in Families /\ handler[p].sync \in {"upsert", "remove"}
         /\ \/ /\ mode = "queue" /\ handler' = [handler EXCEPT ![p] = Idle] /\ UNCHANGED troubles
               /\ \E job \in Jobs : /\ job.sync = handler[p].sync /\ job.family = handler[p].family
                                    /\ jobs' = Append(jobs, job)
            \/ /\ UNCHANGED jobs
               /\ \/ mode = "inline" /\ UNCHANGED troubles
                  \/ mode = "queue" /\ Trouble(handler[p].family, "inlined")
               /\ \E h \in Handler : /\ handler' = [handler EXCEPT ![p] = h]
                                     /\ h.at = WorkPoint(handler[p].sync)
                                     /\ h.family = handler[p].family /\ h.sync = handler[p].sync
                                     /\ h.attempt = handler[p].attempt /\ h.docs = Blank
<1>1. handler[p] \in Handler /\ Good(handler[p]) /\ handler[p].at = "enqueue"
  BY Busy DEF Enqueue, At
<1>2. /\ handler[p].family \in Families /\ handler[p].sync \in {"upsert", "remove"}
      /\ handler[p].docs = Blank
  BY <1>1 DEF Good
<1>3. PICK job \in Jobs : job = [sync |-> handler[p].sync, family |-> handler[p].family, attempt |-> 1]
  BY <1>2, AttemptTyped DEF Jobs, Syncs
<1>4. PICK h \in Handler : h = [handler[p] EXCEPT !.at = WorkPoint(handler[p].sync)]
  BY <1>1 DEF Handler, IndexPoints, WorkPoint
<1>5. /\ h.at = WorkPoint(handler[p].sync) /\ h.family = handler[p].family
      /\ h.sync = handler[p].sync /\ h.attempt = handler[p].attempt /\ h.docs = Blank
  BY <1>1, <1>2, <1>4 DEF Handler
<1>6. ASSUME handler' = [handler EXCEPT ![p].at = WorkPoint(handler[p].sync)]
      PROVE  handler' = [handler EXCEPT ![p] = h]
  BY <1>4, <1>6 DEF Typed, TypeOK
<1>7. job.sync = handler[p].sync /\ job.family = handler[p].family
  BY <1>3
<1> QED
  BY <1>1, <1>2, <1>3, <1>5, <1>6, <1>7 DEF Enqueue, Finish, Suspend

LEMMA TakeBecomes ==
  ASSUME IndexAssumption, Typed, NEW w \in Workers, TakeJob(w)
  PROVE  /\ w \in Procs /\ handler[w].at = "idle" /\ jobs # <<>> /\ jobs' = Tail(jobs)
         /\ UNCHANGED <<mode, rows, index, delayed, failures, troubles>>
         /\ \E h \in Handler : /\ handler' = [handler EXCEPT ![w] = h]
                               /\ h.at = WorkPoint(Head(jobs).sync) /\ h.sync = Head(jobs).sync
                               /\ h.family = Head(jobs).family /\ h.docs = Blank
<1>1. jobs # <<>> /\ w \in Procs
  BY DEF TakeJob, Procs
<1>2. PICK j \in Jobs : j = Head(jobs)
  BY <1>1, JobTaken
<1>3. PICK h \in Handler : h = [Started EXCEPT !.at = WorkPoint(j.sync), !.family = j.family,
                                               !.sync = j.sync, !.attempt = j.attempt]
  <2>1. j.sync \in Syncs /\ j.family \in Families /\ j.attempt \in 0..Attempts
    BY AttemptTyped DEF Jobs
  <2>2. WorkPoint(j.sync) \in IndexPoints
    BY DEF WorkPoint, IndexPoints
  <2> QED BY <2>1, <2>2, StartedTyped DEF Handler
<1>4. h.at = WorkPoint(j.sync) /\ h.sync = j.sync /\ h.family = j.family /\ h.docs = Blank
  BY <1>3 DEF Started, Blank
<1>5. handler' = [handler EXCEPT ![w] = h]
  BY <1>2, <1>3 DEF TakeJob, Begin, Suspend
<1> QED
  BY <1>1, <1>2, <1>4, <1>5 DEF TakeJob, Begin, At

LEMMA BuildBecomes ==
  ASSUME IndexAssumption, Typed, NEW p \in Procs, Build(p)
  PROVE  /\ handler[p].at = "build" /\ handler[p].family \in Families
         /\ UNCHANGED <<mode, rows, index, queue, failures, troubles>>
         /\ \E h \in Handler : /\ handler' = [handler EXCEPT ![p] = h]
                               /\ h.at = "send" /\ h.family = handler[p].family
                               /\ h.sync = handler[p].sync /\ h.attempt = handler[p].attempt
                               /\ h.docs[h.family] = Document(h.family)
<1>1. handler[p] \in Handler /\ Good(handler[p]) /\ handler[p].at = "build"
  BY Busy DEF Build, At
<1>2. PICK f \in Families : f = handler[p].family
  BY <1>1 DEF Good
<1>3. RowTypes
  BY DEF Typed, TypeOK, RowTypes
<1>4. PICK d \in Docs : d = Document(f)
  BY <1>2, <1>3, DocumentTyped
<1>5. PICK h \in Handler : h = [handler[p] EXCEPT !.at = "send", !.docs[f] = d]
  BY <1>1 DEF Handler, IndexPoints
<1>6. /\ h.at = "send" /\ h.family = f /\ h.docs[f] = d
      /\ h.sync = handler[p].sync /\ h.attempt = handler[p].attempt
  BY <1>1, <1>2, <1>5 DEF Handler
<1>7. handler' = [handler EXCEPT ![p] = h]
  <2>1. handler' = [handler EXCEPT ![p].at = "send", ![p].docs[f] = d]
    BY <1>2, <1>4 DEF Build
  <2>2. handler \in [Procs -> Handler \cup {Idle}]
    BY DEF Typed, TypeOK
  <2> QED BY <1>1, <1>5, <2>1, <2>2 DEF Handler
<1> QED
  <2>1. UNCHANGED <<mode, rows, index, queue, failures, troubles>>
    BY DEF Build
  <2>2. h.docs[h.family] = Document(h.family) /\ h.family = handler[p].family
    BY <1>2, <1>4, <1>6
  <2> QED BY <1>1, <1>2, <1>6, <1>7, <2>1, <2>2

-----------------------------------------------------------------------------
(* Who works where                                                         *)

\* Workers only work on jobs, and on none without a queue; a request that works
\* beside a running queue has left a trace, and so has a removal tried again.
Roles ==
  /\ \A w \in Workers : handler[w].at \in {"idle", "build", "send"}
  /\ \A p \in Api : handler[p].at # "idle" => handler[p].attempt = 0
  /\ mode = "inline" => jobs = <<>> /\ delayed = {} /\ \A w \in Workers : handler[w].at = "idle"
  /\ mode = "queue" => \A p \in Api : handler[p].at \in {"build", "send"} =>
                                         "inlined" \in troubles[handler[p].family]
  /\ \A j \in delayed : j.sync = "remove" => "retried" \in troubles[j.family]

LEMMA Split == IndexAssumption => \A p \in Procs : p \in Api <=> p \notin Workers
BY DEF IndexAssumption, Procs

LEMMA RequestRoles ==
  ASSUME IndexAssumption, Typed, Roles, NEW p \in Procs, Request(p)
  PROVE  Roles'
<1>1. /\ p \in Api /\ handler[p].at = "idle"
      /\ UNCHANGED <<mode, rows, index, queue, failures, troubles>>
  BY RequestBecomes
<1>2. PICK h \in Handler : /\ handler' = [handler EXCEPT ![p] = h] /\ h.attempt = 0
                           /\ h.at \in CommitPoints \cup {"reindex_build"}
  BY RequestBecomes
<1>3. \A q \in Procs : handler'[q] = IF q = p THEN h ELSE handler[q]
  BY <1>2 DEF Typed, TypeOK
<1>4. p \notin Workers /\ \A q : q \in Api \/ q \in Workers => q \in Procs
  BY <1>1, Split DEF Procs
<1> QED
  BY <1>1, <1>2, <1>3, <1>4 DEF Roles, CommitPoints, queue

LEMMA CommitRoles ==
  ASSUME IndexAssumption, Typed, Roles, NEW p \in Procs,
         DecideCommit(p) \/ ArchiveCommit(p) \/ RestoreCommit(p) \/ EditCommit(p)
  PROVE  Roles'
<1>1. handler[p].at \in CommitPoints
  BY DEF DecideCommit, ArchiveCommit, RestoreCommit, EditCommit, CommitPoints, At
<1>2. UNCHANGED <<mode, index, queue, failures, troubles>>
  BY DEF DecideCommit, ArchiveCommit, RestoreCommit, EditCommit
<1>3. PICK sync \in Syncs : Ask(p, sync)
  BY DEF DecideCommit, ArchiveCommit, RestoreCommit, EditCommit, Syncs
<1>4. PICK h \in Handler \cup {Idle} :
        /\ handler' = [handler EXCEPT ![p] = h]
        /\ h # Idle => h.at = "enqueue" /\ h.attempt = handler[p].attempt
  BY <1>1, <1>3, AskBecomes
<1>5. \A q \in Procs : handler'[q] = IF q = p THEN h ELSE handler[q]
  BY <1>4 DEF Typed, TypeOK
<1>6. p \in Api /\ p \notin Workers /\ \A q : q \in Api \/ q \in Workers => q \in Procs
  BY <1>1, Split DEF Procs, Roles, CommitPoints
<1>7. h.at # "idle" => h.at = "enqueue" /\ h.attempt = 0
  BY <1>1, <1>4, <1>6 DEF Roles, Idle, CommitPoints
<1>8. h.at \in {"idle", "enqueue"}
  BY <1>4 DEF Idle
<1> QED
  BY <1>2, <1>5, <1>6, <1>7, <1>8 DEF Roles, queue

LEMMA TroubleAdds ==
  ASSUME Typed, NEW f, NEW t, Trouble(f, t)
  PROVE  /\ \A g \in Families : troubles[g] \subseteq troubles'[g]
         /\ f \in Families => t \in troubles'[f]
<1>1. PICK s : s = troubles[f] \cup {t}
  OBVIOUS
<1>2. troubles' = [troubles EXCEPT ![f] = s]
  BY <1>1 DEF Trouble
<1>3. \A g \in Families : g \in DOMAIN troubles
  BY DEF Typed, TypeOK
<1> QED
  BY <1>1, <1>2, <1>3

LEMMA EnqueueRoles ==
  ASSUME IndexAssumption, Typed, Roles, NEW p \in Procs, Enqueue(p)
  PROVE  Roles'
<1>1. /\ handler[p].at = "enqueue" /\ UNCHANGED <<mode, rows, index, delayed>>
      /\ handler[p].family \in Families /\ handler[p].sync \in {"upsert", "remove"}
  BY EnqueueBecomes
<1>2. p \in Api /\ p \notin Workers /\ \A q : q \in Api \/ q \in Workers => q \in Procs
  BY <1>1, Split DEF Procs, Roles
<1>3. \A g \in Families : troubles[g] \subseteq troubles'[g]
  BY EnqueueBecomes, TroubleAdds
<1>4. \A j \in delayed : j.family \in Families
  BY DEF Typed, TypeOK, Jobs
<1>5. \A q \in Procs : handler[q].at \in {"build", "send"} => handler[q].family \in Families
  BY Busy DEF Good
<1>6. CASE mode = "queue" /\ handler' = [handler EXCEPT ![p] = Idle] /\ UNCHANGED troubles
  <2>1. \A q \in Procs : handler'[q] = IF q = p THEN Idle ELSE handler[q]
    BY <1>6 DEF Typed, TypeOK
  <2> QED BY <1>1, <1>2, <1>6, <2>1 DEF Roles, Idle
<1>7. ASSUME UNCHANGED jobs, NEW h \in Handler, handler' = [handler EXCEPT ![p] = h],
             h.family = handler[p].family, h.attempt = handler[p].attempt,
             \/ mode = "inline" /\ UNCHANGED troubles
             \/ mode = "queue" /\ Trouble(handler[p].family, "inlined")
      PROVE  Roles'
  <2>1. \A q \in Procs : handler'[q] = IF q = p THEN h ELSE handler[q]
    BY <1>7 DEF Typed, TypeOK
  <2>2. h.attempt = 0
    BY <1>1, <1>2, <1>7 DEF Roles
  <2>3. mode = "queue" => "inlined" \in troubles'[h.family]
    BY <1>1, <1>7, TroubleAdds
  <2>4. QueueModes \subseteq {"queue", "inline"} /\ mode \in QueueModes
    BY DEF Typed, TypeOK, IndexAssumption
  <2> QED BY <1>1, <1>2, <1>3, <1>4, <1>5, <1>7, <2>1, <2>2, <2>3, <2>4 DEF Roles
<1> QED
  <2>1. CASE mode = "queue" /\ handler' = [handler EXCEPT ![p] = Idle] /\ UNCHANGED troubles
    BY <1>6, <2>1
  <2>2. CASE /\ UNCHANGED jobs
             /\ \/ mode = "inline" /\ UNCHANGED troubles
                \/ mode = "queue" /\ Trouble(handler[p].family, "inlined")
             /\ \E h \in Handler : /\ handler' = [handler EXCEPT ![p] = h]
                                   /\ h.family = handler[p].family /\ h.attempt = handler[p].attempt
    <3>1. PICK h \in Handler : /\ handler' = [handler EXCEPT ![p] = h]
                               /\ h.family = handler[p].family /\ h.attempt = handler[p].attempt
      BY <2>2
    <3> QED BY <1>7, <2>2, <3>1
  <2> QED
    BY <2>1, <2>2, EnqueueBecomes

LEMMA TakeRoles ==
  ASSUME IndexAssumption, Typed, Roles, NEW w \in Workers, TakeJob(w)
  PROVE  Roles'
<1>1. /\ w \in Procs /\ handler[w].at = "idle" /\ jobs # <<>> /\ jobs' = Tail(jobs)
      /\ UNCHANGED <<mode, rows, index, delayed, failures, troubles>>
  BY TakeBecomes
<1>2. PICK h \in Handler : /\ handler' = [handler EXCEPT ![w] = h]
                           /\ h.at = WorkPoint(Head(jobs).sync)
  BY TakeBecomes
<1>3. \A q \in Procs : handler'[q] = IF q = w THEN h ELSE handler[q]
  BY <1>2 DEF Typed, TypeOK
<1>4. w \notin Api /\ \A q : q \in Api \/ q \in Workers => q \in Procs
  BY <1>1, Split DEF Procs
<1>5. h.at \in {"build", "send"}
  BY <1>2 DEF WorkPoint
<1> QED
  BY <1>1, <1>3, <1>4, <1>5 DEF Roles

LEMMA WorkRoles ==
  ASSUME IndexAssumption, Typed, Roles, NEW p \in Procs, Build(p) \/ Send(p) \/ WorkFails(p)
  PROVE  Roles'
<1>1. handler[p].at \in {"build", "send"} /\ handler[p].family \in Families
  <2>1. handler[p].at \in {"build", "send"}
    BY DEF Build, Send, WorkFails, At
  <2> QED BY <2>1, Busy DEF Good
<1>2. \A q : q \in Api \/ q \in Workers => q \in Procs
  BY DEF Procs
<1>3. CASE Build(p)
  <2>1. PICK h \in Handler : /\ handler' = [handler EXCEPT ![p] = h] /\ h.at = "send"
                             /\ h.family = handler[p].family /\ h.attempt = handler[p].attempt
    BY <1>3, BuildBecomes
  <2>2. \A q \in Procs : handler'[q] = IF q = p THEN h ELSE handler[q]
    BY <2>1 DEF Typed, TypeOK
  <2>3. UNCHANGED <<mode, rows, index, queue, failures, troubles>>
    BY <1>3 DEF Build
  <2> QED BY <1>1, <1>2, <2>1, <2>2, <2>3 DEF Roles, queue
<1>4. CASE Send(p) \/ WorkFails(p)
  <2>1. \A q \in Procs : handler'[q] = IF q = p THEN Idle ELSE handler[q]
    BY <1>4 DEF Send, WorkFails, Finish, Suspend, Typed, TypeOK
  <2>2. UNCHANGED <<mode, jobs>>
    BY <1>4 DEF Send, WorkFails, queue
  <2>3. \A g \in Families : troubles[g] \subseteq troubles'[g]
    BY <1>4, TroubleAdds DEF Send, WorkFails
  <2>4. \A j \in delayed' : j.sync = "remove" => "retried" \in troubles'[j.family]
    <3>1. \A j \in delayed : j.family \in Families
      BY DEF Typed, TypeOK, Jobs
    <3>2. CASE UNCHANGED delayed
      BY <2>3, <3>1, <3>2 DEF Roles
    <3>3. CASE WorkFails(p) /\ Retried(handler[p])
      <4>1. PICK j : j = [sync |-> handler[p].sync, family |-> handler[p].family,
                          attempt |-> handler[p].attempt + 1]
        OBVIOUS
      <4>3. /\ delayed' = delayed \cup {j} /\ j.sync = handler[p].sync
            /\ j.family = handler[p].family
        BY <3>3, <4>1 DEF WorkFails
      <4>2. handler[p].sync = "remove" => "retried" \in troubles'[handler[p].family]
        BY <1>1, <3>3, TroubleAdds DEF WorkFails
      <4> QED BY <2>3, <3>1, <4>2, <4>3 DEF Roles
    <3> QED BY <1>4, <3>2, <3>3 DEF Send, WorkFails, queue
  <2>5. mode = "inline" => delayed' = {}
    <3>1. CASE UNCHANGED delayed
      BY <3>1 DEF Roles
    <3>2. CASE WorkFails(p) /\ Retried(handler[p])
      <4>1. ~(p \in Api)
        BY <1>1, <3>2 DEF Roles, Retried
      <4> QED BY <1>1, <4>1 DEF Roles, Procs
    <3> QED BY <1>4, <3>1, <3>2 DEF Send, WorkFails, queue
  <2>6. \A q \in Procs : handler[q].at \in {"build", "send"} => handler[q].family \in Families
    BY Busy DEF Good
  <2> QED BY <1>1, <1>2, <2>1, <2>2, <2>3, <2>4, <2>5, <2>6 DEF Roles, Idle
<1> QED
  BY <1>3, <1>4

-----------------------------------------------------------------------------
(* One request at a time: what it remembers still holds                    *)

OneOfEach == (\A p, q \in Api : p = q) /\ (\A v, w \in Workers : v = w)

Reindexing(p) == handler[p].at \in {"reindex_build", "reindex_add"}

\* What the request read before its commit is true when it commits, a removal
\* is asked for a family that is not approved, and the documents of a reindex
\* are those of the catalogue.
Remembered ==
  /\ \A f \in Families : family[f] = "approved" => published[f]
  /\ \A p \in Api :
       LET h == handler[p] IN
       /\ h.at = "restore_commit" => (h.outcome = "approved" <=> published[h.family])
       /\ h.at = "edit_commit" => h.outcome = family[h.family]
       /\ h.at = "enqueue" /\ h.sync = "remove" => family[h.family] # "approved"
       /\ Reindexing(p) => \A f \in Families :
            IF family[f] = "approved" THEN f \in h.todo \/ h.docs[f] = edition[f]
                                      ELSE h.docs[f] = NoDocument
       /\ Reindexing(p) => \A f \in h.todo : family[f] = "approved" /\ h.docs[f] = NoDocument
       /\ h.at = "reindex_add" => h.todo = {}

LEMMA RememberedKept ==
  ASSUME Remembered, UNCHANGED <<family, published, edition>>,
         \A p \in Api : handler'[p] = handler[p] \/ handler'[p].at \in {"idle", "build", "send"}
  PROVE  Remembered'
BY DEF Remembered, Reindexing

LEMMA RequestRemembered ==
  ASSUME IndexAssumption, OneOfEach, Typed, Remembered, NEW p \in Procs, Request(p)
  PROVE  Remembered'
<1>1. p \in Api /\ UNCHANGED <<mode, rows, index, queue, failures, troubles>>
  BY RequestBecomes
<1>2. PICK h \in Handler :
        /\ handler' = [handler EXCEPT ![p] = h]
        /\ h.attempt = 0 /\ h.at \in CommitPoints \cup {"reindex_build"}
        /\ h.at = "restore_commit" => (h.outcome = "approved" <=> published[h.family])
        /\ h.at = "edit_commit" => h.outcome = family[h.family]
        /\ h.at = "reindex_build" => /\ h.docs = Blank
                                     /\ h.todo = {f \in Families : family[f] = "approved"}
  BY RequestBecomes
<1>3. \A q \in Api : q = p /\ handler'[q] = h
  BY <1>1, <1>2 DEF OneOfEach, Typed, TypeOK
<1> QED
  BY <1>1, <1>2, <1>3 DEF Remembered, Reindexing, rows, CommitPoints, Blank

LEMMA CommitBecomes ==
  ASSUME IndexAssumption, Typed, Roles, Remembered, NEW p \in Procs,
         DecideCommit(p) \/ ArchiveCommit(p) \/ RestoreCommit(p) \/ EditCommit(p)
  PROVE  /\ p \in Api /\ handler[p].at \in CommitPoints /\ handler[p].family \in Families
         /\ UNCHANGED <<mode, index, queue, failures, troubles>>
         /\ \A g \in Families \ {handler[p].family} :
              family'[g] = family[g] /\ published'[g] = published[g] /\ edition'[g] = edition[g]
         /\ family'[handler[p].family] = "approved" => published'[handler[p].family]
         /\ \E h \in Handler \cup {Idle} :
              /\ handler' = [handler EXCEPT ![p] = h]
              /\ h # Idle => h.at = "enqueue" /\ h.family = handler[p].family
              /\ h = Idle => /\ family[handler[p].family] # "approved"
                             /\ family'[handler[p].family] # "approved"
              /\ h # Idle => (h.sync = "upsert" <=> family'[handler[p].family] = "approved")
<1>1. handler[p].at \in CommitPoints
  BY DEF DecideCommit, ArchiveCommit, RestoreCommit, EditCommit, CommitPoints, At
<1>2. PICK f \in Families : f = handler[p].family
  BY <1>1, Busy DEF Good
<1>3. p \in Api
  BY <1>1, Split DEF Roles, CommitPoints
<1>4. UNCHANGED <<mode, index, queue, failures, troubles>>
  BY DEF DecideCommit, ArchiveCommit, RestoreCommit, EditCommit
<1>5. /\ family \in [Families -> FamilyStates] /\ published \in [Families -> BOOLEAN]
      /\ edition \in [Families -> 0..MaxEdits]
  BY DEF Typed, TypeOK
<1>6. ASSUME NEW sync \in Syncs, Ask(p, sync),
             \A g \in Families \ {f} :
               family'[g] = family[g] /\ published'[g] = published[g] /\ edition'[g] = edition[g],
             family'[f] = "approved" => published'[f],
             sync = "none" => family[f] # "approved" /\ family'[f] # "approved",
             sync # "none" => (sync = "upsert" <=> family'[f] = "approved")
      PROVE  /\ \E h \in Handler \cup {Idle} :
                  /\ handler' = [handler EXCEPT ![p] = h]
                  /\ h # Idle => h.at = "enqueue" /\ h.family = handler[p].family
                  /\ h = Idle => /\ family[handler[p].family] # "approved"
                                 /\ family'[handler[p].family] # "approved"
                  /\ h # Idle => (h.sync = "upsert" <=> family'[handler[p].family] = "approved")
  <2>1. PICK h \in Handler \cup {Idle} :
           /\ handler' = [handler EXCEPT ![p] = h]
           /\ sync = "none" => h = Idle
           /\ sync # "none" => /\ h.at = "enqueue" /\ h.sync = sync
                               /\ h.family = handler[p].family /\ h.attempt = handler[p].attempt
    BY <1>1, <1>6, AskBecomes
  <2>2. h = Idle => sync = "none"
    BY <2>1 DEF Idle
  <2> QED BY <1>2, <1>6, <2>1, <2>2
<1>7. \E sync \in Syncs :
        /\ Ask(p, sync)
        /\ \A g \in Families \ {f} :
             family'[g] = family[g] /\ published'[g] = published[g] /\ edition'[g] = edition[g]
        /\ family'[f] = "approved" => published'[f]
        /\ sync = "none" => family[f] # "approved" /\ family'[f] # "approved"
        /\ sync # "none" => (sync = "upsert" <=> family'[f] = "approved")
  <2>1. CASE DecideCommit(p)
    BY <1>2, <1>5, <2>1 DEF DecideCommit, Syncs
  <2>2. CASE ArchiveCommit(p)
    BY <1>2, <1>5, <2>2 DEF ArchiveCommit, Syncs
  <2>3. CASE RestoreCommit(p)
    BY <1>2, <1>3, <1>5, <2>3 DEF RestoreCommit, Syncs, Remembered, At
  <2>4. CASE EditCommit(p)
    BY <1>2, <1>3, <1>5, <2>4 DEF EditCommit, Syncs, Remembered, At
  <2> QED BY <2>1, <2>2, <2>3, <2>4
<1>8. PICK sync \in Syncs :
        /\ Ask(p, sync)
        /\ \A g \in Families \ {f} :
             family'[g] = family[g] /\ published'[g] = published[g] /\ edition'[g] = edition[g]
        /\ family'[f] = "approved" => published'[f]
        /\ sync = "none" => family[f] # "approved" /\ family'[f] # "approved"
        /\ sync # "none" => (sync = "upsert" <=> family'[f] = "approved")
  BY <1>7
<1> QED
  BY <1>1, <1>2, <1>3, <1>4, <1>6, <1>8

LEMMA CommitRemembered ==
  ASSUME IndexAssumption, OneOfEach, Typed, Roles, Remembered, NEW p \in Procs,
         DecideCommit(p) \/ ArchiveCommit(p) \/ RestoreCommit(p) \/ EditCommit(p)
  PROVE  Remembered'
<1>1. /\ p \in Api /\ handler[p].at \in CommitPoints /\ handler[p].family \in Families
      /\ \A g \in Families \ {handler[p].family} :
           family'[g] = family[g] /\ published'[g] = published[g] /\ edition'[g] = edition[g]
      /\ family'[handler[p].family] = "approved" => published'[handler[p].family]
  BY CommitBecomes
<1>2. PICK h \in Handler \cup {Idle} :
        /\ handler' = [handler EXCEPT ![p] = h]
        /\ h # Idle => h.at = "enqueue" /\ h.family = handler[p].family
        /\ h # Idle => (h.sync = "upsert" <=> family'[handler[p].family] = "approved")
  BY CommitBecomes
<1>3. \A q \in Api : q = p /\ handler'[q] = h
  BY <1>1, <1>2 DEF OneOfEach, Typed, TypeOK
<1>4. \A g \in Families : family'[g] = "approved" => published'[g]
  BY <1>1 DEF Remembered
<1>5. h.at \in {"idle", "enqueue"}
  BY <1>2 DEF Idle
<1>6. h.at = "enqueue" /\ h.sync = "remove" => family'[h.family] # "approved"
  BY <1>2 DEF Idle
<1> QED
  BY <1>3, <1>4, <1>5, <1>6 DEF Remembered, Reindexing

LEMMA ReindexRemembered ==
  ASSUME IndexAssumption, OneOfEach, Typed, Roles, Remembered, NEW p \in Procs,
         (\E f \in Families : ReindexBuild(p, f)) \/ ReindexClear(p)
  PROVE  Remembered'
<1>1. handler[p].at = "reindex_build" /\ UNCHANGED <<mode, rows, queue, failures, troubles>>
  BY DEF ReindexBuild, ReindexClear, At
<1>2. handler[p] \in Handler /\ p \in Api
  BY <1>1, Busy, Split DEF Roles
<1>3. CASE ReindexClear(p)
  <2>1. PICK h \in Handler : h = [handler[p] EXCEPT !.at = "reindex_add"]
    BY <1>2 DEF Handler, IndexPoints
  <2>2. handler' = [handler EXCEPT ![p] = h]
    BY <1>3, <2>1 DEF ReindexClear, Typed, TypeOK
  <2>3. \A q \in Api : q = p /\ handler'[q] = h
    BY <1>2, <2>2 DEF OneOfEach, Typed, TypeOK
  <2>4. h.at = "reindex_add" /\ h.todo = handler[p].todo /\ h.docs = handler[p].docs /\ h.todo = {}
    BY <1>2, <1>3, <2>1 DEF Handler, ReindexClear
  <2>5. \A f \in Families : h.docs[f] = IF family[f] = "approved" THEN edition[f] ELSE NoDocument
    <3>1. ASSUME NEW f \in Families
          PROVE  IF family[f] = "approved" THEN f \in handler[p].todo \/ handler[p].docs[f] = edition[f]
                                           ELSE handler[p].docs[f] = NoDocument
      BY <1>1, <1>2 DEF Remembered, Reindexing
    <3> QED BY <2>4, <3>1
  <2>6. UNCHANGED <<family, published, edition>>
    BY <1>1 DEF rows
  <2>7. \A f \in Families : family[f] = "approved" => published[f]
    BY DEF Remembered
  <2>8. \A q \in Api : /\ handler'[q].at = "reindex_add" /\ handler'[q].todo = {}
                        /\ \A f \in Families : handler'[q].docs[f] =
                             IF family[f] = "approved" THEN edition[f] ELSE NoDocument
    BY <2>3, <2>4, <2>5
  <2> QED
    BY <2>6, <2>7, <2>8 DEF Remembered, Reindexing
<1>4. ASSUME NEW f \in Families, ReindexBuild(p, f)
      PROVE  Remembered'
  <2>1. RowTypes
    BY DEF Typed, TypeOK, RowTypes
  <2>2. PICK d \in Docs : d = Document(f)
    BY <2>1, DocumentTyped
  <2>3. PICK h \in Handler : h = [handler[p] EXCEPT !.todo = @ \ {f}, !.docs[f] = d]
    BY <1>2 DEF Handler
  <2>4. handler' = [handler EXCEPT ![p] = h]
    <3>1. handler' = [handler EXCEPT ![p].todo = handler[p].todo \ {f}, ![p].docs[f] = d]
      BY <1>4, <2>2 DEF ReindexBuild
    <3>2. handler \in [Procs -> Handler \cup {Idle}]
      BY DEF Typed, TypeOK
    <3> QED BY <1>2, <2>3, <3>1, <3>2 DEF Handler
  <2>5. \A q \in Api : q = p /\ handler'[q] = h
    BY <1>2, <2>4 DEF OneOfEach, Typed, TypeOK
  <2>6. /\ h.at = "reindex_build" /\ h.todo = handler[p].todo \ {f}
        /\ \A g \in Families : h.docs[g] = IF g = f THEN d ELSE handler[p].docs[g]
    BY <1>1, <1>2, <2>3 DEF Handler
  <2>7. f \in handler[p].todo
    BY <1>4 DEF ReindexBuild
  <2>8. d = edition[f] /\ family[f] = "approved"
    BY <1>1, <1>2, <2>1, <2>2, <2>7, DocumentTyped DEF Remembered, Reindexing
  <2>9. handler[p].todo \subseteq Families
    BY <1>2 DEF Handler
  <2> QED
    BY <1>1, <1>2, <2>5, <2>6, <2>8, <2>9 DEF Remembered, Reindexing, rows
<1> QED
  BY <1>3, <1>4

-----------------------------------------------------------------------------
(* What is still on its way to the index                                   *)

Waits(f) == \E p \in Procs : handler[p].at = "enqueue" /\ handler[p].family = f
Works(p, f) == handler[p].at \in {"build", "send"} /\ handler[p].family = f
Sends(p, f) == handler[p].at = "send" /\ handler[p].family = f

\* The last job of the family that waits is an upsert.
UpsertLast(f) ==
  \E i \in 1..Len(jobs) :
    /\ jobs[i].family = f /\ jobs[i].sync = "upsert"
    /\ \A k \in 1..Len(jobs) : k > i /\ jobs[k].family = f => jobs[k].sync = "upsert"

\* A family that is not approved has no document, or a job of it will come and
\* find none to write.
Cleared(f) ==
  family[f] # "approved" /\ troubles[f] \subseteq {"retried"} =>
    \/ Waits(f)
    \/ \E j \in delayed : j.family = f
    \/ \E i \in 1..Len(jobs) : jobs[i].family = f
    \/ /\ \A p \in Procs : Sends(p, f) => handler[p].docs[f] = NoDocument
       /\ index[f] = NoDocument \/ \E p \in Procs : Works(p, f)

\* An approved family without troubles has its current document, or an upsert
\* will come after every removal, or is at work, or a reindex adds it again.
Current(f) ==
  family[f] = "approved" /\ troubles[f] = {} =>
    \/ Waits(f)
    \/ \E j \in delayed : j.family = f
    \/ UpsertLast(f)
    \/ /\ \A i \in 1..Len(jobs) : jobs[i].family = f => jobs[i].sync = "upsert"
       /\ \A p \in Procs : Sends(p, f) => handler[p].docs[f] = edition[f]
       /\ \/ index[f] = edition[f]
          \/ \E p \in Procs : Works(p, f) \/ handler[p].at = "reindex_add"

Agrees(f) == Cleared(f) /\ Current(f)

\* A step that leaves the rows and the queue of a family alone, and of whose
\* process the family waits for nothing before or after, changes nothing.
LEMMA AgreesKept ==
  ASSUME Typed, NEW f \in Families, Agrees(f), NEW p \in Procs, NEW h,
         handler' = [handler EXCEPT ![p] = h],
         family'[f] = family[f], edition'[f] = edition[f], troubles[f] \subseteq troubles'[f],
         index'[f] = index[f], jobs' = jobs, \A j \in delayed : j \in delayed',
         handler[p].at = "enqueue" => handler[p].family # f,
         handler[p].at \in {"build", "send"} => handler[p].family # f,
         h.at = "send" => h.family # f,
         handler[p].at # "reindex_add"
  PROVE  Agrees(f)'
<1>1. handler'[p] = h /\ \A q \in Procs \ {p} : handler'[q] = handler[q]
  BY DEF Typed, TypeOK
<1>2. \A q \in Procs \ {p} : Sends(q, f)' <=> Sends(q, f)
  BY <1>1 DEF Sends
<1>3. ~Sends(p, f)'
  BY <1>1 DEF Sends
<1>4. \A q \in Procs : Works(q, f) => q # p /\ Works(q, f)'
  BY <1>1 DEF Works
<1>5. Waits(f) => Waits(f)'
  BY <1>1 DEF Waits
<1>6. UpsertLast(f) => UpsertLast(f)'
  BY DEF UpsertLast
<1>7. Cleared(f)'
  BY <1>1, <1>2, <1>3, <1>4, <1>5 DEF Cleared, Agrees
<1>8. Current(f)'
  BY <1>1, <1>2, <1>3, <1>4, <1>5, <1>6 DEF Current, Agrees
<1> QED
  BY <1>7, <1>8 DEF Agrees

LEMMA RequestAgrees ==
  ASSUME IndexAssumption, Typed, NEW p \in Procs, Request(p), NEW f \in Families, Agrees(f)
  PROVE  Agrees(f)'
<1>1. handler[p].at = "idle" /\ UNCHANGED <<mode, rows, index, queue, failures, troubles>>
  BY RequestBecomes
<1>2. PICK h \in Handler : /\ handler' = [handler EXCEPT ![p] = h]
                           /\ h.at \in CommitPoints \cup {"reindex_build"}
  BY RequestBecomes
<1>3. h.at # "send"
  BY <1>2 DEF CommitPoints
<1> QED
  BY <1>1, <1>2, <1>3, AgreesKept DEF rows, queue

LEMMA CommitAgrees ==
  ASSUME IndexAssumption, Typed, Roles, Remembered, NEW p \in Procs,
         DecideCommit(p) \/ ArchiveCommit(p) \/ RestoreCommit(p) \/ EditCommit(p),
         NEW f \in Families, Agrees(f)
  PROVE  Agrees(f)'
<1>1. /\ p \in Api /\ handler[p].at \in CommitPoints /\ handler[p].family \in Families
      /\ UNCHANGED <<mode, index, queue, failures, troubles>>
      /\ \A g \in Families \ {handler[p].family} :
           family'[g] = family[g] /\ published'[g] = published[g] /\ edition'[g] = edition[g]
  BY CommitBecomes
<1>2. PICK h \in Handler \cup {Idle} :
        /\ handler' = [handler EXCEPT ![p] = h]
        /\ h # Idle => h.at = "enqueue" /\ h.family = handler[p].family
        /\ h = Idle => /\ family[handler[p].family] # "approved"
                       /\ family'[handler[p].family] # "approved"
        /\ h # Idle => (h.sync = "upsert" <=> family'[handler[p].family] = "approved")
  BY CommitBecomes
<1>3. handler'[p] = h /\ h.at \in {"idle", "enqueue"}
  BY <1>2 DEF Typed, TypeOK, Idle
<1>4. handler[p].at \notin {"enqueue", "build", "send", "reindex_add"}
  BY <1>1 DEF CommitPoints
<1>5. CASE f # handler[p].family
  BY <1>1, <1>2, <1>3, <1>4, <1>5, AgreesKept DEF queue
<1>6. CASE f = handler[p].family /\ h # Idle
  <2>1. Waits(f)'
    BY <1>2, <1>3, <1>6 DEF Waits, Procs
  <2> QED BY <2>1 DEF Agrees, Cleared, Current
<1>7. CASE f = handler[p].family /\ h = Idle
  <2>1. family[f] # "approved" /\ family'[f] # "approved"
    BY <1>2, <1>7
  <2>2. \A q \in Procs \ {p} : handler'[q] = handler[q]
    BY <1>2 DEF Typed, TypeOK
  <2>3. Cleared(f)'
    BY <1>1, <1>3, <1>4, <1>7, <2>1, <2>2 DEF Cleared, Agrees, Waits, Sends, Works, Idle, queue
  <2> QED BY <2>1, <2>3 DEF Agrees, Current
<1> QED
  BY <1>5, <1>6, <1>7

LEMMA AppendSlots ==
  ASSUME Typed, NEW job \in Jobs, jobs' = Append(jobs, job)
  PROVE  /\ Len(jobs) \in Nat /\ Len(jobs') = Len(jobs) + 1 /\ jobs'[Len(jobs) + 1] = job
         /\ \A i \in 1..Len(jobs) : jobs'[i] = jobs[i]
<1>1. jobs \in Seq(Jobs)
  BY DEF Typed, TypeOK
<1> QED
  BY <1>1, AppendProperties, LenProperties

LEMMA TailSlots ==
  ASSUME Typed, jobs # <<>>, jobs' = Tail(jobs)
  PROVE  /\ Len(jobs) \in Nat \ {0} /\ Len(jobs') = Len(jobs) - 1 /\ Head(jobs) = jobs[1]
         /\ \A i \in 1..Len(jobs') : jobs'[i] = jobs[i + 1]
<1>1. jobs \in Seq(Jobs)
  BY DEF Typed, TypeOK
<1> QED
  BY <1>1, HeadTailProperties, EmptySeq, LenProperties

\* A job that joins the queue takes nothing from the other families.
LEMMA JobJoins ==
  ASSUME Typed, NEW job \in Jobs, jobs' = Append(jobs, job), NEW f \in Families
  PROVE  /\ job.family = f => \E i \in 1..Len(jobs') : jobs'[i].family = f
         /\ (\E i \in 1..Len(jobs) : jobs[i].family = f) =>
              \E i \in 1..Len(jobs') : jobs'[i].family = f
         /\ job.family = f /\ job.sync = "upsert" => UpsertLast(f)'
         /\ job.family # f /\ UpsertLast(f) => UpsertLast(f)'
         /\ job.family # f /\ (\A i \in 1..Len(jobs) : jobs[i].family = f => jobs[i].sync = "upsert") =>
              \A i \in 1..Len(jobs') : jobs'[i].family = f => jobs'[i].sync = "upsert"
<1>1. /\ Len(jobs) \in Nat /\ Len(jobs') = Len(jobs) + 1 /\ jobs'[Len(jobs) + 1] = job
      /\ \A i \in 1..Len(jobs) : jobs'[i] = jobs[i]
  BY AppendSlots
<1>2. \A i \in 1..Len(jobs') : i \in 1..Len(jobs) \/ i = Len(jobs) + 1
  BY <1>1
<1>3. \A i \in 1..Len(jobs) : i \in 1..Len(jobs') /\ ~(i > Len(jobs))
  BY <1>1
<1>4. Len(jobs) + 1 \in 1..Len(jobs') /\ \A i \in 1..Len(jobs') : ~(i > Len(jobs) + 1)
  BY <1>1
<1>5. job.family = f /\ job.sync = "upsert" => UpsertLast(f)'
  BY <1>1, <1>4 DEF UpsertLast
<1>6. ASSUME job.family # f, UpsertLast(f)
      PROVE  UpsertLast(f)'
  <2>1. PICK i \in 1..Len(jobs) :
          /\ jobs[i].family = f /\ jobs[i].sync = "upsert"
          /\ \A k \in 1..Len(jobs) : k > i /\ jobs[k].family = f => jobs[k].sync = "upsert"
    BY <1>6 DEF UpsertLast
  <2>2. \A k \in 1..Len(jobs') : k > i /\ jobs'[k].family = f => jobs'[k].sync = "upsert"
    BY <1>1, <1>2, <1>6, <2>1
  <2> QED BY <1>1, <1>3, <2>1, <2>2 DEF UpsertLast
<1> QED
  BY <1>1, <1>2, <1>3, <1>4, <1>5, <1>6

LEMMA EnqueueAgrees ==
  ASSUME IndexAssumption, OneOfEach, Typed, Roles, Remembered, NEW p \in Procs, Enqueue(p),
         NEW f \in Families, Agrees(f)
  PROVE  Agrees(f)'
<1>1. /\ handler[p].at = "enqueue" /\ UNCHANGED <<mode, rows, index, delayed>>
      /\ handler[p].family \in Families /\ handler[p].sync \in {"upsert", "remove"}
  BY EnqueueBecomes
<1>2. p \in Api /\ p \notin Workers
  BY <1>1, Split DEF Roles
<1>3. family[f] = "approved" /\ f = handler[p].family => handler[p].sync = "upsert"
  BY <1>1, <1>2 DEF Remembered
<1>4. ASSUME handler' = [handler EXCEPT ![p] = Idle], UNCHANGED troubles,
             NEW job \in Jobs, job.sync = handler[p].sync, job.family = handler[p].family,
             jobs' = Append(jobs, job)
      PROVE  Agrees(f)'
  <2>1. \A q \in Procs : handler'[q] = IF q = p THEN Idle ELSE handler[q]
    BY <1>4 DEF Typed, TypeOK
  <2>2. CASE f = handler[p].family
    <3>1. Cleared(f)'
      BY <1>4, <2>2, JobJoins DEF Cleared
    <3>2. family[f] = "approved" => UpsertLast(f)'
      BY <1>3, <1>4, <2>2, JobJoins
    <3>3. Current(f)'
      BY <1>1, <3>2 DEF Current, rows
    <3> QED BY <3>1, <3>3 DEF Agrees
  <2>3. CASE f # handler[p].family
    <3>1. Waits(f) => Waits(f)'
      BY <2>1, <2>3 DEF Waits
    <3>2. \A q \in Procs : /\ Sends(q, f)' => Sends(q, f) /\ handler'[q] = handler[q]
                           /\ Works(q, f) => Works(q, f)'
                           /\ handler[q].at = "reindex_add" => handler'[q].at = "reindex_add"
      BY <1>1, <2>1 DEF Sends, Works, Idle
    <3>3. Cleared(f)'
      BY <1>1, <1>4, <2>3, <3>1, <3>2, JobJoins DEF Cleared, Agrees, rows
    <3>4. Current(f)'
      BY <1>1, <1>4, <2>3, <3>1, <3>2, JobJoins DEF Current, Agrees, rows
    <3> QED BY <3>3, <3>4 DEF Agrees
  <2> QED BY <2>2, <2>3
<1>5. ASSUME UNCHANGED jobs, NEW h \in Handler, handler' = [handler EXCEPT ![p] = h],
             h.at = WorkPoint(handler[p].sync), h.family = handler[p].family, h.docs = Blank,
             \/ mode = "inline" /\ UNCHANGED troubles
             \/ mode = "queue" /\ Trouble(handler[p].family, "inlined")
      PROVE  Agrees(f)'
  <2>1. \A q \in Procs : handler'[q] = IF q = p THEN h ELSE handler[q]
    BY <1>5 DEF Typed, TypeOK
  <2>2. \A g \in Families : troubles[g] \subseteq troubles'[g]
    BY <1>5, TroubleAdds
  <2>3. CASE f # handler[p].family
    BY <1>1, <1>5, <2>2, <2>3, AgreesKept DEF rows
  <2>4. CASE f = handler[p].family /\ mode = "queue"
    <3>1. "inlined" \in troubles'[f] /\ mode # "inline"
      BY <1>1, <1>5, <2>4, TroubleAdds
    <3> QED BY <3>1 DEF Agrees, Cleared, Current
  <2>5. CASE f = handler[p].family /\ mode = "inline"
    <3>1. \A q \in Procs : q # p => handler'[q].at = "idle"
      BY <1>2, <2>1, <2>5 DEF Roles, OneOfEach, Procs
    <3>2. Works(p, f)' /\ \A q \in Procs : Sends(q, f)' => q = p
      BY <1>1, <1>5, <2>1, <2>5, <3>1 DEF Works, Sends, WorkPoint
    <3>3. handler'[p].docs[f] = NoDocument
      BY <1>5, <2>1 DEF Blank
    <3>4. Cleared(f)'
      BY <3>2, <3>3 DEF Cleared
    <3>5. ASSUME family'[f] = "approved"
          PROVE  /\ \A q \in Procs : ~Sends(q, f)'
                 /\ \A i \in 1..Len(jobs') : jobs'[i].family = f => jobs'[i].sync = "upsert"
      <4>1. handler'[p].at = "build"
        BY <1>1, <1>3, <1>5, <2>1, <2>5, <3>5 DEF WorkPoint, rows
      <4>2. jobs' = <<>>
        BY <1>5, <2>5 DEF Roles
      <4> QED BY <3>2, <4>1, <4>2 DEF Sends
    <3>6. Current(f)'
      BY <3>2, <3>5 DEF Current
    <3> QED BY <3>4, <3>6 DEF Agrees
  <2> QED BY <1>5, <2>3, <2>4, <2>5
<1>6. CASE handler' = [handler EXCEPT ![p] = Idle] /\ UNCHANGED troubles
           /\ \E job \in Jobs : /\ job.sync = handler[p].sync /\ job.family = handler[p].family
                                /\ jobs' = Append(jobs, job)
  BY <1>4, <1>6
<1>7. CASE /\ UNCHANGED jobs
           /\ \/ mode = "inline" /\ UNCHANGED troubles
              \/ mode = "queue" /\ Trouble(handler[p].family, "inlined")
           /\ \E h \in Handler : /\ handler' = [handler EXCEPT ![p] = h]
                                 /\ h.at = WorkPoint(handler[p].sync)
                                 /\ h.family = handler[p].family /\ h.docs = Blank
  <2>1. PICK h \in Handler : /\ handler' = [handler EXCEPT ![p] = h]
                             /\ h.at = WorkPoint(handler[p].sync)
                             /\ h.family = handler[p].family /\ h.docs = Blank
    BY <1>7
  <2> QED BY <1>5, <1>7, <2>1
<1> QED
  BY <1>6, <1>7, EnqueueBecomes

\* A job taken from the queue leaves the jobs behind it in their order.
LEMMA JobLeaves ==
  ASSUME Typed, jobs # <<>>, jobs' = Tail(jobs), NEW f \in Families
  PROVE  /\ Head(jobs).family # f /\ (\E i \in 1..Len(jobs) : jobs[i].family = f) =>
              \E i \in 1..Len(jobs') : jobs'[i].family = f
         /\ ~(Head(jobs).family = f /\ Head(jobs).sync = "upsert") /\ UpsertLast(f) => UpsertLast(f)'
         /\ Head(jobs).family = f /\ Head(jobs).sync = "upsert" /\ UpsertLast(f) =>
              UpsertLast(f)' \/ \A i \in 1..Len(jobs') : jobs'[i].family = f => jobs'[i].sync = "upsert"
         /\ (\A i \in 1..Len(jobs) : jobs[i].family = f => jobs[i].sync = "upsert") =>
              /\ Head(jobs).family = f => Head(jobs).sync = "upsert"
              /\ \A i \in 1..Len(jobs') : jobs'[i].family = f => jobs'[i].sync = "upsert"
<1>1. /\ Len(jobs) \in Nat \ {0} /\ Len(jobs') = Len(jobs) - 1 /\ Head(jobs) = jobs[1]
      /\ \A i \in 1..Len(jobs') : jobs'[i] = jobs[i + 1]
  BY TailSlots
<1>2. \A i \in 1..Len(jobs) : i # 1 => i - 1 \in 1..Len(jobs') /\ jobs'[i - 1] = jobs[i]
  BY <1>1
<1>3. \A i \in 1..Len(jobs') : i + 1 \in 1..Len(jobs) /\ i + 1 > 1
  BY <1>1
<1>4. 1 \in 1..Len(jobs)
  BY <1>1
<1>5. ASSUME UpsertLast(f)
      PROVE  UpsertLast(f)' \/ /\ Head(jobs).family = f /\ Head(jobs).sync = "upsert"
                               /\ \A i \in 1..Len(jobs') : jobs'[i].family = f => jobs'[i].sync = "upsert"
  <2>1. PICK i \in 1..Len(jobs) :
          /\ jobs[i].family = f /\ jobs[i].sync = "upsert"
          /\ \A k \in 1..Len(jobs) : k > i /\ jobs[k].family = f => jobs[k].sync = "upsert"
    BY <1>5 DEF UpsertLast
  <2>2. CASE i = 1
    BY <1>1, <1>3, <2>1, <2>2
  <2>3. CASE i # 1
    <3>1. i - 1 \in 1..Len(jobs') /\ jobs'[i - 1] = jobs[i]
      BY <1>2, <2>3
    <3>2. ASSUME NEW k \in 1..Len(jobs'), k > i - 1, jobs'[k].family = f
          PROVE  jobs'[k].sync = "upsert"
      <4>1. k + 1 \in 1..Len(jobs) /\ k + 1 > i /\ jobs[k + 1] = jobs'[k]
        BY <1>1, <1>3, <3>2
      <4> QED BY <2>1, <3>2, <4>1
    <3> QED BY <2>1, <3>1, <3>2 DEF UpsertLast
  <2> QED BY <2>2, <2>3
<1>6. Head(jobs).family # f /\ (\E i \in 1..Len(jobs) : jobs[i].family = f) =>
        \E i \in 1..Len(jobs') : jobs'[i].family = f
  BY <1>1, <1>2
<1>7. (\A i \in 1..Len(jobs) : jobs[i].family = f => jobs[i].sync = "upsert") =>
        /\ Head(jobs).family = f => Head(jobs).sync = "upsert"
        /\ \A i \in 1..Len(jobs') : jobs'[i].family = f => jobs'[i].sync = "upsert"
  BY <1>1, <1>3, <1>4
<1> QED
  BY <1>5, <1>6, <1>7

\* While a family has no troubles, or only removals tried again, one process
\* at a time works on it.
LEMMA Alone ==
  ASSUME IndexAssumption, OneOfEach, Typed, Roles, NEW f \in Families, "inlined" \notin troubles[f],
         NEW p \in Procs, NEW q \in Procs, Works(p, f), Works(q, f)
  PROVE  p = q
<1>1. mode \in {"queue", "inline"}
  BY DEF Typed, TypeOK, IndexAssumption
<1> QED
  BY <1>1 DEF Roles, OneOfEach, Works, Procs

LEMMA TakeAgrees ==
  ASSUME IndexAssumption, OneOfEach, Typed, Roles, NEW w \in Workers, TakeJob(w),
         NEW f \in Families, Agrees(f)
  PROVE  Agrees(f)'
<1>1. /\ w \in Procs /\ handler[w].at = "idle" /\ jobs # <<>> /\ jobs' = Tail(jobs)
      /\ UNCHANGED <<mode, rows, index, delayed, failures, troubles>>
  BY TakeBecomes
<1>2. PICK h \in Handler : /\ handler' = [handler EXCEPT ![w] = h]
                           /\ h.at = WorkPoint(Head(jobs).sync) /\ h.sync = Head(jobs).sync
                           /\ h.family = Head(jobs).family /\ h.docs = Blank
  BY TakeBecomes
<1>3. \A q \in Procs : handler'[q] = IF q = w THEN h ELSE handler[q]
  BY <1>2 DEF Typed, TypeOK
<1>4. Head(jobs) \in Jobs
  BY <1>1, JobTaken
<1>5. h.at \in {"build", "send"} /\ (h.sync = "upsert" => h.at = "build")
  BY <1>2 DEF WorkPoint
<1>6. mode = "queue"
  BY <1>1 DEF Roles, Typed, TypeOK, IndexAssumption
<1>7. ASSUME "inlined" \notin troubles[f], NEW q \in Procs, q # w
      PROVE  ~Works(q, f) /\ ~Works(q, f)' /\ ~Sends(q, f)'
  BY <1>1, <1>3, <1>6, <1>7 DEF Works, Sends, Roles, OneOfEach, Procs
<1>8. Waits(f) => Waits(f)'
  BY <1>1, <1>3 DEF Waits
<1>9. CASE Head(jobs).family # f
  <2>1. \A q \in Procs : /\ Sends(q, f)' => Sends(q, f) /\ handler'[q] = handler[q]
                         /\ Works(q, f) => Works(q, f)'
                         /\ handler[q].at = "reindex_add" => handler'[q].at = "reindex_add"
    BY <1>1, <1>2, <1>3, <1>9 DEF Sends, Works
  <2>2. Cleared(f)'
    BY <1>1, <1>8, <1>9, <2>1, JobLeaves DEF Cleared, Agrees, rows
  <2>3. Current(f)'
    <3>1. UpsertLast(f) => UpsertLast(f)'
      BY <1>1, <1>9, JobLeaves
    <3>2. (\A i \in 1..Len(jobs) : jobs[i].family = f => jobs[i].sync = "upsert") =>
            \A i \in 1..Len(jobs') : jobs'[i].family = f => jobs'[i].sync = "upsert"
      BY <1>1, JobLeaves
    <3>3. UNCHANGED <<family, edition, index, delayed, troubles>>
      BY <1>1 DEF rows
    <3> QED BY <1>8, <2>1, <3>1, <3>2, <3>3 DEF Current, Agrees
  <2> QED BY <2>2, <2>3 DEF Agrees
<1>10. CASE Head(jobs).family = f
  <2>1. Works(w, f)' /\ handler'[w].docs[f] = NoDocument
    BY <1>1, <1>2, <1>3, <1>5, <1>10 DEF Works, Blank
  <2>2. Cleared(f)'
    <3>1. SUFFICES ASSUME troubles'[f] \subseteq {"retried"}
                   PROVE  \A q \in Procs : Sends(q, f)' => handler'[q].docs[f] = NoDocument
      BY <1>1, <2>1 DEF Cleared
    <3>2. "inlined" \notin troubles[f]
      BY <1>1, <3>1
    <3> QED BY <1>7, <2>1, <3>2
  <2>3. Current(f)'
    <3>1. SUFFICES ASSUME family[f] = "approved", troubles[f] = {}
                   PROVE  \/ Waits(f)'
                          \/ \E j \in delayed' : j.family = f
                          \/ UpsertLast(f)'
                          \/ /\ \A i \in 1..Len(jobs') : jobs'[i].family = f => jobs'[i].sync = "upsert"
                             /\ \A q \in Procs : Sends(q, f)' => handler'[q].docs[f] = edition'[f]
      BY <1>1, <2>1 DEF Current, rows
    <3>2. CASE Head(jobs).sync = "upsert"
      <4>1. \A q \in Procs : ~Sends(q, f)'
        BY <1>1, <1>2, <1>3, <1>5, <1>7, <3>1, <3>2 DEF Sends
      <4> QED BY <1>1, <1>8, <1>10, <3>1, <3>2, <4>1, JobLeaves DEF Agrees, Current
    <3>3. CASE Head(jobs).sync # "upsert"
      BY <1>1, <1>8, <1>10, <3>1, <3>3, JobLeaves DEF Agrees, Current
    <3> QED BY <3>2, <3>3
  <2> QED BY <2>2, <2>3 DEF Agrees
<1> QED
  BY <1>9, <1>10

LEMMA PromoteAgrees ==
  ASSUME IndexAssumption, Typed, Roles, NEW j \in delayed, Promote(j), NEW f \in Families, Agrees(f)
  PROVE  Agrees(f)'
<1>1. /\ delayed' = delayed \ {j} /\ jobs' = Append(jobs, j)
      /\ UNCHANGED <<mode, rows, index, handler, failures, troubles>>
  BY DEF Promote
<1>2. j \in Jobs /\ j.family \in Families
  BY DEF Typed, TypeOK, Jobs
<1>3. troubles[f] = {} /\ j.family = f => j.sync = "upsert"
  BY <1>2 DEF Roles, Jobs, Syncs
<1>4. Waits(f) => Waits(f)'
  BY <1>1 DEF Waits
<1>5. \A q \in Procs : (Sends(q, f)' <=> Sends(q, f)) /\ (Works(q, f)' <=> Works(q, f))
  BY <1>1 DEF Sends, Works
<1>6. Cleared(f)'
  BY <1>1, <1>2, <1>4, <1>5, JobJoins DEF Cleared, Agrees, rows
<1>7. Current(f)'
  BY <1>1, <1>2, <1>3, <1>4, <1>5, JobJoins DEF Current, Agrees, rows
<1> QED
  BY <1>6, <1>7 DEF Agrees

LEMMA BuildAgrees ==
  ASSUME IndexAssumption, OneOfEach, Typed, Roles, NEW p \in Procs, Build(p),
         NEW f \in Families, Agrees(f)
  PROVE  Agrees(f)'
<1>1. /\ handler[p].at = "build" /\ handler[p].family \in Families
      /\ UNCHANGED <<mode, rows, index, queue, failures, troubles>>
  BY BuildBecomes
<1>2. PICK h \in Handler : /\ handler' = [handler EXCEPT ![p] = h]
                           /\ h.at = "send" /\ h.family = handler[p].family
                           /\ h.docs[h.family] = Document(h.family)
  BY BuildBecomes
<1>3. \A q \in Procs : handler'[q] = IF q = p THEN h ELSE handler[q]
  BY <1>2 DEF Typed, TypeOK
<1>4. CASE handler[p].family # f
  BY <1>1, <1>2, <1>4, AgreesKept DEF rows, queue
<1>5. CASE handler[p].family = f
  <2>1. Works(p, f) /\ Works(p, f)'
    BY <1>1, <1>2, <1>3, <1>5 DEF Works
  <2>2. Waits(f) => Waits(f)'
    BY <1>1, <1>3 DEF Waits
  <2>3. ASSUME "inlined" \notin troubles[f], NEW q \in Procs, Sends(q, f)'
        PROVE  handler'[q].docs[f] = Document(f)
    <3>1. q # p => Works(q, f)
      BY <1>3, <2>3 DEF Sends, Works
    <3>2. q = p
      BY <2>1, <2>3, <3>1, Alone
    <3> QED BY <1>2, <1>3, <1>5, <3>2
  <2>4. RowTypes
    BY DEF Typed, TypeOK, RowTypes
  <2>5. Cleared(f)'
    <3>1. SUFFICES ASSUME family[f] # "approved", troubles[f] \subseteq {"retried"}
                   PROVE  \A q \in Procs : Sends(q, f)' => handler'[q].docs[f] = NoDocument
      BY <1>1, <2>1 DEF Cleared, rows
    <3>2. Document(f) = NoDocument
      BY <2>4, <3>1, DocumentTyped
    <3> QED BY <2>3, <3>1, <3>2
  <2>6. Current(f)'
    <3>1. SUFFICES ASSUME family[f] = "approved", troubles[f] = {}
                   PROVE  \A q \in Procs : Sends(q, f)' => handler'[q].docs[f] = edition[f]
      BY <1>1, <2>1, <2>2 DEF Agrees, Current, rows, queue, UpsertLast
    <3>2. Document(f) = edition[f]
      BY <2>4, <3>1, DocumentTyped
    <3> QED BY <2>3, <3>1, <3>2
  <2> QED BY <2>5, <2>6 DEF Agrees
<1> QED
  BY <1>4, <1>5

LEMMA SendAgrees ==
  ASSUME IndexAssumption, OneOfEach, Typed, Roles, NEW p \in Procs, Send(p),
         NEW f \in Families, Agrees(f)
  PROVE  Agrees(f)'
<1>1. handler[p].at = "send" /\ UNCHANGED <<mode, rows, queue, failures, troubles>>
  BY DEF Send, At
<1>2. handler' = [handler EXCEPT ![p] = Idle] /\ index' = Sent(p)
  BY DEF Send, Finish, Suspend
<1>3. handler[p].family \in Families /\ handler[p].docs \in [Families -> Docs]
  BY <1>1, Busy DEF Good, Handler
<1>4. index'[f] = IF handler[p].family = f THEN handler[p].docs[f] ELSE index[f]
  BY <1>2, <1>3 DEF Sent, Typed, TypeOK
<1>5. Idle.at = "idle"
  BY DEF Idle
<1>6. CASE handler[p].family # f
  BY <1>1, <1>2, <1>4, <1>5, <1>6, AgreesKept DEF rows, queue
<1>7. CASE handler[p].family = f
  <2>1. \A q \in Procs : handler'[q] = IF q = p THEN Idle ELSE handler[q]
    BY <1>2 DEF Typed, TypeOK
  <2>2. Sends(p, f) /\ Works(p, f)
    BY <1>1, <1>7 DEF Sends, Works
  <2>3. Waits(f) => Waits(f)'
    BY <1>1, <2>1 DEF Waits
  <2>4. \A q \in Procs : Sends(q, f)' => Sends(q, f) /\ handler'[q] = handler[q]
    BY <1>5, <2>1 DEF Sends
  <2>5. Cleared(f)'
    BY <1>1, <1>4, <1>7, <2>2, <2>3, <2>4 DEF Cleared, Agrees, rows, queue
  <2>6. UpsertLast(f) => UpsertLast(f)'
    BY <1>1 DEF UpsertLast, queue
  <2>7. Current(f)'
    BY <1>1, <1>4, <1>7, <2>2, <2>3, <2>4, <2>6 DEF Current, Agrees, rows, queue
  <2> QED BY <2>5, <2>7 DEF Agrees
<1> QED
  BY <1>6, <1>7

LEMMA WorkFailsAgrees ==
  ASSUME IndexAssumption, OneOfEach, Typed, Roles, NEW p \in Procs, WorkFails(p),
         NEW f \in Families, Agrees(f)
  PROVE  Agrees(f)'
<1>1. handler[p].at \in {"build", "send"} /\ UNCHANGED <<mode, rows, jobs>>
  BY DEF WorkFails
<1>2. handler' = [handler EXCEPT ![p] = Idle]
  BY DEF WorkFails, Finish, Suspend
<1>3. handler[p].family \in Families /\ handler[p].sync \in {"upsert", "remove"}
  BY <1>1, Busy DEF Good
<1>4. handler[p].family # f => index'[f] = index[f]
  BY <1>3 DEF WorkFails, Sent, Typed, TypeOK
<1>5. PICK j : j = [sync |-> handler[p].sync, family |-> handler[p].family,
                    attempt |-> handler[p].attempt + 1]
  OBVIOUS
<1>6. \/ delayed' = delayed \cup {j} /\ (handler[p].sync = "remove" => Trouble(handler[p].family, "retried"))
      \/ delayed' = delayed /\ Trouble(handler[p].family, "lost")
  BY <1>5 DEF WorkFails
<1>7. \A g \in Families : troubles[g] \subseteq troubles'[g]
  BY TroubleAdds DEF WorkFails
<1>8. CASE handler[p].family # f
  BY <1>1, <1>2, <1>4, <1>6, <1>7, <1>8, AgreesKept DEF rows, Idle
<1>9. CASE handler[p].family = f /\ j \in delayed'
  <2>1. j.family = f
    BY <1>5, <1>9
  <2> QED BY <1>9, <2>1 DEF Agrees, Cleared, Current
<1>10. CASE handler[p].family = f /\ j \notin delayed'
  <2>1. "lost" \in troubles'[f]
    BY <1>3, <1>6, <1>10, TroubleAdds
  <2> QED BY <2>1 DEF Agrees, Cleared, Current
<1> QED
  BY <1>8, <1>9, <1>10

LEMMA ReindexAgrees ==
  ASSUME IndexAssumption, OneOfEach, Typed, Roles, Remembered, NEW p \in Procs,
         (\E g \in Families : ReindexBuild(p, g)) \/ ReindexClear(p) \/ ReindexAdd(p) \/ ReindexFails(p),
         NEW f \in Families, Agrees(f)
  PROVE  Agrees(f)'
<1>1. Reindexing(p) /\ UNCHANGED <<mode, rows, queue>>
  BY DEF ReindexBuild, ReindexClear, ReindexAdd, ReindexFails, At, Reindexing
<1>2. handler[p] \in Handler /\ p \in Api
  BY <1>1, Busy, Split DEF Roles, Reindexing
<1>3. CASE ReindexFails(p)
  <2>1. "lost" \in troubles'[f]
    BY <1>3 DEF ReindexFails
  <2> QED BY <2>1 DEF Agrees, Cleared, Current
<1>4. ASSUME NEW h, handler' = [handler EXCEPT ![p] = h], h.at \in {"idle", "reindex_build", "reindex_add"},
             UNCHANGED troubles, index'[f] \in {index[f], NoDocument} \/ index'[f] = edition[f],
             family[f] # "approved" => index'[f] \in {index[f], NoDocument},
             \/ index'[f] = index[f] /\ handler[p].at # "reindex_add"
             \/ h.at = "reindex_add"
             \/ family[f] = "approved" => index'[f] = edition[f]
      PROVE  Agrees(f)'
  <2>1. \A q \in Procs : handler'[q] = IF q = p THEN h ELSE handler[q]
    BY <1>4 DEF Typed, TypeOK
  <2>2. \A q \in Procs : /\ Sends(q, f)' => Sends(q, f) /\ handler'[q] = handler[q]
                         /\ Works(q, f) => Works(q, f)'
    BY <1>1, <1>4, <2>1 DEF Sends, Works, Reindexing
  <2>3. Waits(f) => Waits(f)'
    BY <1>1, <2>1 DEF Waits, Reindexing
  <2>4. UNCHANGED <<family, edition, jobs, delayed, troubles>> /\ p \in Procs
    BY <1>1, <1>4 DEF rows, queue
  <2>5. Cleared(f)'
    BY <1>4, <2>2, <2>3, <2>4 DEF Cleared, Agrees
  <2>6. UpsertLast(f) => UpsertLast(f)'
    BY <2>4 DEF UpsertLast
  <2>7. \A q \in Procs : q # p => handler'[q] = handler[q]
    BY <2>1
  <2>8. handler'[p] = h
    BY <2>1
  <2>9. Current(f)'
    BY <1>4, <2>2, <2>3, <2>4, <2>6, <2>7, <2>8 DEF Current, Agrees
  <2> QED BY <2>5, <2>9 DEF Agrees
<1>5. CASE \E g \in Families : ReindexBuild(p, g)
  <2>1. PICK g \in Families : ReindexBuild(p, g)
    BY <1>5
  <2>2. RowTypes
    BY DEF Typed, TypeOK, RowTypes
  <2>3. PICK d \in Docs : d = Document(g)
    BY <2>2, DocumentTyped
  <2>4. PICK h \in Handler : h = [handler[p] EXCEPT !.todo = @ \ {g}, !.docs[g] = d]
    BY <1>2 DEF Handler
  <2>5. handler' = [handler EXCEPT ![p] = h]
    <3>1. handler' = [handler EXCEPT ![p].todo = handler[p].todo \ {g}, ![p].docs[g] = d]
      BY <2>1, <2>3 DEF ReindexBuild
    <3>2. handler \in [Procs -> Handler \cup {Idle}]
      BY DEF Typed, TypeOK
    <3> QED BY <1>2, <2>4, <3>1, <3>2 DEF Handler
  <2>6. handler[p].at = "reindex_build" /\ h.at = "reindex_build"
    BY <1>2, <2>1, <2>4 DEF Handler, ReindexBuild, At
  <2> QED
    BY <1>4, <2>1, <2>5, <2>6 DEF ReindexBuild
<1>6. CASE ReindexClear(p)
  <2>1. PICK h \in Handler : h = [handler[p] EXCEPT !.at = "reindex_add"]
    BY <1>2 DEF Handler, IndexPoints
  <2>2. handler' = [handler EXCEPT ![p] = h] /\ h.at = "reindex_add"
    BY <1>2, <1>6, <2>1 DEF ReindexClear, Typed, TypeOK, Handler
  <2>3. index'[f] = NoDocument
    BY <1>6 DEF ReindexClear, Emptied
  <2> QED
    BY <1>4, <1>6, <2>2, <2>3 DEF ReindexClear
<1>7. CASE ReindexAdd(p)
  <2>1. handler' = [handler EXCEPT ![p] = Idle] /\ Idle.at = "idle"
    BY <1>7 DEF ReindexAdd, Finish, Suspend, Idle
  <2>2. index'[f] = IF handler[p].docs[f] = NoDocument THEN index[f] ELSE handler[p].docs[f]
    BY <1>7 DEF ReindexAdd, Added
  <2>3. handler[p].todo = {}
    BY <1>2, <1>7 DEF ReindexAdd, At, Remembered
  <2>4. IF family[f] = "approved" THEN f \in handler[p].todo \/ handler[p].docs[f] = edition[f]
                                  ELSE handler[p].docs[f] = NoDocument
    BY <1>1, <1>2 DEF Remembered
  <2>5. edition[f] # NoDocument
    BY DEF Typed, TypeOK, NoDocument, IndexAssumption
  <2>6. IF family[f] = "approved" THEN index'[f] = edition[f] ELSE index'[f] = index[f]
    BY <2>2, <2>3, <2>4, <2>5
  <2> QED
    BY <1>4, <1>7, <2>1, <2>6 DEF ReindexAdd
<1> QED
  BY <1>3, <1>5, <1>6, <1>7

-----------------------------------------------------------------------------
(* The invariant                                                           *)

LEMMA ReindexRoles ==
  ASSUME IndexAssumption, Typed, Roles, NEW p \in Procs,
         (\E g \in Families : ReindexBuild(p, g)) \/ ReindexClear(p) \/ ReindexAdd(p) \/ ReindexFails(p)
  PROVE  Roles'
<1>1. Reindexing(p) /\ UNCHANGED <<mode, rows, queue>>
  BY DEF ReindexBuild, ReindexClear, ReindexAdd, ReindexFails, At, Reindexing
<1>2. p \in Api /\ p \notin Workers
  BY <1>1, Split DEF Roles, Reindexing
<1>3. \A g \in Families : troubles[g] \subseteq troubles'[g]
  BY DEF ReindexBuild, ReindexClear, ReindexAdd, ReindexFails
<1>4. \A q \in Procs : q # p => handler'[q] = handler[q]
  BY DEF ReindexBuild, ReindexClear, ReindexAdd, ReindexFails, Finish, Suspend, Typed, TypeOK
<1>5. handler'[p].at \in {"idle", "reindex_build", "reindex_add"}
      /\ (handler'[p].at # "idle" => handler'[p].attempt = 0)
  <2>1. handler[p] \in Handler /\ handler[p].attempt = 0
    BY <1>1, <1>2, Busy DEF Roles, Reindexing
  <2>2. CASE \E g \in Families : ReindexBuild(p, g)
    <3>1. PICK g \in Families : ReindexBuild(p, g)
      BY <2>2
    <3>2. PICK d : d = Document(g)
      OBVIOUS
    <3>3. handler' = [handler EXCEPT ![p].todo = handler[p].todo \ {g}, ![p].docs[g] = d]
      BY <3>1, <3>2 DEF ReindexBuild
    <3>4. handler[p].at = "reindex_build" /\ p \in DOMAIN handler
      BY <3>1 DEF ReindexBuild, At, Typed, TypeOK
    <3> QED BY <2>1, <3>3, <3>4 DEF Handler
  <2>3. CASE ReindexClear(p)
    BY <2>1, <2>3 DEF ReindexClear, Handler, Typed, TypeOK
  <2>4. CASE ReindexAdd(p) \/ ReindexFails(p)
    BY <2>4 DEF ReindexAdd, ReindexFails, Finish, Suspend, Idle, Typed, TypeOK
  <2> QED BY <2>2, <2>3, <2>4
<1>6. \A q \in Procs : handler[q].at \in {"build", "send"} => handler[q].family \in Families
  BY Busy DEF Good
<1>7. \A j \in delayed : j.family \in Families
  BY DEF Typed, TypeOK, Jobs
<1>8. \A q : q \in Api \/ q \in Workers => q \in Procs
  BY DEF Procs
<1> QED
  BY <1>1, <1>2, <1>3, <1>4, <1>5, <1>6, <1>7, <1>8 DEF Roles, queue

LEMMA RolesInductive ==
  ASSUME IndexAssumption, Typed, Roles, [Next]_vars
  PROVE  Roles'
<1>1. ASSUME NEW p \in Procs, HandlerStep(p)
      PROVE  Roles'
  BY <1>1, CommitRoles, EnqueueRoles, WorkRoles, ReindexRoles DEF HandlerStep
<1>2. ASSUME NEW f \in Families, Submit(f)
      PROVE  Roles'
  BY <1>2 DEF Submit, Roles, queue
<1>3. ASSUME NEW j \in delayed, Promote(j)
      PROVE  Roles'
  BY <1>3 DEF Promote, Roles
<1>4. CASE UNCHANGED vars
  BY <1>4 DEF vars, Roles, queue
<1> QED
  BY <1>1, <1>2, <1>3, <1>4, RequestRoles, TakeRoles DEF Next

LEMMA RememberedInductive ==
  ASSUME IndexAssumption, OneOfEach, Typed, Roles, Remembered, [Next]_vars
  PROVE  Remembered'
<1> USE DEF rows
<1>1. ASSUME NEW p \in Procs, HandlerStep(p)
      PROVE  Remembered'
  <2>1. CASE Enqueue(p)
    <3>1. handler'[p].at \in {"idle", "build", "send"} /\ UNCHANGED <<mode, rows>>
      <4>1. p \in DOMAIN handler
        BY DEF Typed, TypeOK
      <4>2. CASE handler' = [handler EXCEPT ![p] = Idle]
        BY <2>1, <4>1, <4>2 DEF Idle, Enqueue
      <4>3. CASE \E h \in Handler : /\ handler' = [handler EXCEPT ![p] = h]
                                    /\ h.at = WorkPoint(handler[p].sync)
        BY <2>1, <4>1, <4>3 DEF WorkPoint, Enqueue
      <4> QED BY <2>1, <4>2, <4>3, EnqueueBecomes
    <3>2. \A q \in Procs : q # p => handler'[q] = handler[q]
      BY <2>1 DEF Enqueue, Finish, Suspend, Typed, TypeOK
    <3> QED BY <3>1, <3>2, RememberedKept DEF Procs
  <2>2. CASE Build(p)
    <3>1. UNCHANGED <<mode, rows>> /\ handler'[p].at = "send"
      BY <2>2, BuildBecomes DEF Typed, TypeOK
    <3>2. \A q \in Procs : q # p => handler'[q] = handler[q]
      BY <2>2, BuildBecomes DEF Typed, TypeOK
    <3> QED BY <3>1, <3>2, RememberedKept DEF Procs
  <2>3. CASE Send(p) \/ WorkFails(p) \/ ReindexAdd(p) \/ ReindexFails(p)
    <3>1. UNCHANGED <<mode, rows>> /\ \A q \in Procs : handler'[q] = IF q = p THEN Idle ELSE handler[q]
      BY <2>3 DEF Send, WorkFails, ReindexAdd, ReindexFails, Finish, Suspend, Typed, TypeOK
    <3> QED BY <3>1, RememberedKept DEF Procs, Idle
  <2> QED
    BY <1>1, <2>1, <2>2, <2>3, CommitRemembered, ReindexRemembered DEF HandlerStep
<1>2. ASSUME NEW w \in Workers, TakeJob(w)
      PROVE  Remembered'
  <2>1. UNCHANGED <<mode, rows>> /\ w \in Procs /\ w \notin Api
    BY <1>2, TakeBecomes, Split
  <2>2. \A q \in Procs : q # w => handler'[q] = handler[q]
    BY <1>2, TakeBecomes DEF Typed, TypeOK
  <2> QED BY <2>1, <2>2, RememberedKept DEF Procs
<1>3. CASE (\E f \in Families : Submit(f)) \/ (\E j \in delayed : Promote(j)) \/ UNCHANGED vars
  BY <1>3, RememberedKept DEF Submit, Promote, vars
<1> QED
  BY <1>1, <1>2, <1>3, RequestRemembered DEF Next

LEMMA AgreesInductive ==
  ASSUME IndexAssumption, OneOfEach, Typed, Roles, Remembered, [Next]_vars,
         NEW f \in Families, Agrees(f)
  PROVE  Agrees(f)'
<1>1. ASSUME NEW p \in Procs, HandlerStep(p)
      PROVE  Agrees(f)'
  BY <1>1, CommitAgrees, EnqueueAgrees, BuildAgrees, SendAgrees, WorkFailsAgrees, ReindexAgrees
  DEF HandlerStep
<1>2. CASE (\E g \in Families : Submit(g)) \/ UNCHANGED vars
  <2>1. UNCHANGED <<family, edition, index, queue, handler, troubles>>
    BY <1>2 DEF Submit, vars, rows
  <2> QED BY <2>1 DEF Agrees, Cleared, Current, Waits, Works, Sends, UpsertLast, queue
<1> QED
  BY <1>1, <1>2, RequestAgrees, TakeAgrees, PromoteAgrees DEF Next

IInv == Typed /\ Roles /\ (OneOfEach => Remembered /\ \A f \in Families : Agrees(f))

LEMMA InitIInv ==
  ASSUME IndexAssumption, Init
  PROVE  IInv
<1>1. Typed
  BY InitTyped
<1>2. /\ jobs = <<>> /\ delayed = {} /\ \A p \in Procs : handler[p] = Idle
      /\ \A f \in Families : family[f] = "draft" /\ index[f] = NoDocument
  BY DEF Init, RowsInit, HandlersInit
<1>3. Roles
  BY <1>2 DEF Roles, Idle, Procs
<1>4. Remembered
  BY <1>2 DEF Remembered, Reindexing, Idle, Procs
<1>5. \A f \in Families : Agrees(f)
  BY <1>2 DEF Agrees, Cleared, Current, Sends, Idle
<1> QED
  BY <1>1, <1>3, <1>4, <1>5 DEF IInv

LEMMA IInvHolds == Spec => []IInv
<1>1. Init => IInv
  BY InitIInv, IndexAssumption
<1>2. IInv /\ [Next]_vars => IInv'
  <2> SUFFICES ASSUME IInv, [Next]_vars
               PROVE  IInv'
    OBVIOUS
  <2>1. Typed' /\ Roles'
    BY TypedInductive, RolesInductive, IndexAssumption DEF IInv
  <2>2. OneOfEach => Remembered' /\ \A f \in Families : Agrees(f)'
    BY RememberedInductive, AgreesInductive, IndexAssumption DEF IInv
  <2> QED BY <2>1, <2>2 DEF IInv, OneOfEach
<1> QED
  BY <1>1, <1>2, PTL DEF Spec

LEMMA RestSettles ==
  ASSUME IndexAssumption, IInv, OneOfEach
  PROVE  NoGhosts /\ IndexSettles
<1> SUFFICES ASSUME AtRest, NEW f \in Families
             PROVE  /\ family[f] # "approved" /\ troubles[f] \subseteq {"retried"} => index[f] = NoDocument
                    /\ family[f] = "approved" /\ troubles[f] = {} => index[f] = edition[f]
  BY DEF NoGhosts, IndexSettles, Document
<1>1. /\ Len(jobs) = 0 /\ delayed = {} /\ \A p \in Procs : handler[p].at = "idle"
  BY DEF AtRest, At
<1>2. ~Waits(f) /\ ~UpsertLast(f) /\ \A p \in Procs : ~Works(p, f)
  BY <1>1 DEF Waits, UpsertLast, Works
<1> QED
  BY <1>1, <1>2 DEF IInv, Agrees, Cleared, Current

\* With one request and one worker at a time, no family that is not approved
\* stays in the index, whatever failed, as long as no job of it was given up
\* or worked beside the queue: an upsert that comes late reads the family again.
THEOREM NoGhostsStay == Spec => [](OneOfEach => NoGhosts)
<1>1. IInv => (OneOfEach => NoGhosts)
  BY RestSettles, IndexAssumption
<1> QED
  BY <1>1, IInvHolds, PTL

\* With one request and one worker at a time, the index holds exactly what the
\* database calls for when nothing is under way.
THEOREM IndexAgrees == Spec => [](OneOfEach => IndexSettles)
<1>1. IInv => (OneOfEach => IndexSettles)
  BY RestSettles, IndexAssumption
<1> QED
  BY <1>1, IInvHolds, PTL
=============================================================================
