--------------------- MODULE SubmissionLifecycleProofs ---------------------
(***************************************************************************)
(* The review invariants of SubmissionLifecycle, for any sets of uploads,  *)
(* styles and processes and any bounds.  Every step changes the record of  *)
(* at most one handler: Assemble reduces the invariant to that record and  *)
(* to the rows, given that no step removes a style or an approval.  On     *)
(* that invariant rests the refinement: the steps that change what the     *)
(* public sees are the commits of decisions, archives and restores, and    *)
(* each of them is a step of ReviewedPublication.                          *)
(***************************************************************************)
EXTENDS ReviewRefinement, TLAPS

RowTypes ==
  /\ status \in Statuses
  /\ uploads \in [Uploads -> ProcessingStates \cup {"none"}]
  /\ staff \subseteq Uploads
  /\ stored \subseteq Uploads
  /\ styles \in [Styles -> FamilyStates \cup {"none"}]
  /\ file \in [Styles -> Uploads \cup {None}]
  /\ family \in FamilyStates
  /\ published \in BOOLEAN
  /\ verdict \in Decisions \cup {"none"}
  /\ reviewed \subseteq Uploads
  /\ jobs \in Seq(Uploads)
  /\ crashes \in 0..MaxCrashes

\* Steps never delete a style row, and the approvals on record only grow.
Growing ==
  /\ \A s \in Styles : styles[s] # "none" => styles'[s] # "none"
  /\ reviewed # {} => reviewed' # {}

\* What a handler relies on stays true while it is suspended.
LEMMA GoodHandlerStays ==
  ASSUME LifecycleAssumption, Growing, NEW h, GoodHandler(h)
  PROVE  GoodHandler(h)'
<1>1. HasStyle => HasStyle'
  BY DEF Growing, HasStyle
<1>2. h.upload \in Uploads => StyleOf[h.upload] \in Styles
  BY DEF LifecycleAssumption
<1>3. h.at \in {"settle_read", "settle_commit"} => h.upload \in Uploads
  BY DEF GoodHandler, UploadPoints
<1> QED
  BY <1>1, <1>2, <1>3 DEF Growing, GoodHandler

LEMMA Assemble ==
  ASSUME LifecycleAssumption, IInv, NEW p \in Procs, NEW h,
         handler' = [handler EXCEPT ![p] = h],
         h \in Handler, GoodHandler(h)', RowTypes', RowsOK', Growing
  PROVE  IInv'
<1>1. handler \in [Procs -> Handler]
  BY DEF IInv, TypeOK
<1>2. handler' \in [Procs -> Handler]
  BY <1>1
<1>3. TypeOK'
  BY <1>2 DEF TypeOK, RowTypes
<1>4. ASSUME NEW q \in Procs
      PROVE  GoodHandler(handler[q])'
  <2>1. CASE q = p
    BY <2>1, <1>1
  <2>2. CASE q # p
    <3>1. GoodHandler(handler[q])
      BY DEF IInv
    <3>2. handler'[q] = handler[q]
      BY <2>2, <1>1
    <3>3. GoodHandler(handler[q])'
      BY <1>1, <1>2, <3>1, <3>2, GoodHandlerStays DEF GoodHandler
    <3> QED BY <3>3
  <2> QED BY <2>1, <2>2
<1> QED
  BY <1>3, <1>4 DEF IInv

\* A step that leaves the rows alone only has to leave a good handler.
LEMMA Suspend ==
  ASSUME LifecycleAssumption, IInv, NEW p \in Procs, NEW h \in Handler,
         handler' = [handler EXCEPT ![p] = h], GoodHandler(h),
         UNCHANGED rows, stored' \subseteq Uploads, jobs' \in Seq(Uploads),
         crashes' \in 0..MaxCrashes
  PROVE  IInv'
<1>1. Growing
  BY DEF Growing, rows
<1>2. RowTypes'
  BY DEF IInv, TypeOK, RowTypes, rows
<1>3. RowsOK'
  BY DEF IInv, RowsOK, rows, HasStyle, PublicOnlyAfterApproval, DecisionsAgree
<1>4. GoodHandler(h)'
  BY <1>1, GoodHandlerStays
<1> QED
  BY <1>1, <1>2, <1>3, <1>4, Assemble

LEMMA SuspendOnly ==
  ASSUME LifecycleAssumption, IInv, NEW p \in Procs, NEW h \in Handler,
         handler' = [handler EXCEPT ![p] = h], GoodHandler(h),
         UNCHANGED <<rows, stored, jobs, crashes>>
  PROVE  IInv'
<1>1. stored' \subseteq Uploads /\ jobs' \in Seq(Uploads) /\ crashes' \in 0..MaxCrashes
  BY DEF IInv, TypeOK
<1> QED
  BY <1>1, Suspend

LEMMA IdleGood == Idle \in Handler /\ GoodHandler(Idle) /\ GoodHandler(Idle)'
  BY DEF Idle, Handler, GoodHandler, UploadPoints, Points, ProcessingPoints, Targets,
         Statuses, FamilyStates, Decisions

\* The steps that only read, or write nothing but the bucket and the queue.
LEMMA RequestBegins ==
  ASSUME LifecycleAssumption, IInv, NEW p \in Procs,
         \/ \E u \in Uploads : InitBegin(p, u) \/ CompleteBegin(p, u) \/ DirectBegin(p, u)
         \/ SubmitBegin(p)
         \/ \E d \in Decisions : DecideBegin(p, d)
         \/ ReprocessBegin(p)
         \/ RestoreFamilyBegin(p)
         \/ \E s \in Styles : RestoreStyleBegin(p, s)
  PROVE  IInv'
<1> USE DEF Idle, Handler, GoodHandler, UploadPoints, Points, ProcessingPoints, Targets,
            Statuses, FamilyStates, Begin
<1>1. ASSUME NEW u \in Uploads, InitBegin(p, u)
      PROVE  IInv'
  <2> DEFINE h == [Idle EXCEPT !.at = "init_commit", !.upload = u]
  <2>1. h \in Handler /\ GoodHandler(h)
    OBVIOUS
  <2>2. handler' = [handler EXCEPT ![p] = h] /\ UNCHANGED <<rows, stored, jobs, crashes>>
    BY <1>1 DEF InitBegin
  <2> HIDE DEF h
  <2> QED
    BY <2>1, <2>2, SuspendOnly
<1>2. ASSUME NEW u \in Uploads, CompleteBegin(p, u)
      PROVE  IInv'
  <2> DEFINE h(a) == [Idle EXCEPT !.at = a, !.upload = u]
  <2>1. \A a \in {"complete_commit", "fail_object"} : h(a) \in Handler /\ GoodHandler(h(a))
    OBVIOUS
  <2>2. PICK a \in {"complete_commit", "fail_object"} : handler' = [handler EXCEPT ![p] = h(a)]
    BY <1>2 DEF CompleteBegin
  <2>3. UNCHANGED <<rows, stored, jobs, crashes>>
    BY <1>2 DEF CompleteBegin
  <2> HIDE DEF h
  <2>4. PICK g \in Handler : g = h(a) /\ GoodHandler(g)
    BY <2>1
  <2>5. handler' = [handler EXCEPT ![p] = g]
    BY <2>2, <2>4
  <2> HIDE DEF Handler, GoodHandler
  <2> QED
    BY <2>3, <2>4, <2>5, SuspendOnly
<1>3. ASSUME NEW u \in Uploads, DirectBegin(p, u)
      PROVE  IInv'
  <2> DEFINE h == [Idle EXCEPT !.at = "direct_store", !.upload = u]
  <2>1. h \in Handler /\ GoodHandler(h)
    OBVIOUS
  <2>2. handler' = [handler EXCEPT ![p] = h] /\ UNCHANGED <<rows, stored, jobs, crashes>>
    BY <1>3 DEF DirectBegin
  <2> HIDE DEF h
  <2> QED
    BY <2>1, <2>2, SuspendOnly
<1>4. ASSUME SubmitBegin(p)
      PROVE  IInv'
  <2> DEFINE h == [Idle EXCEPT !.at = "submit_commit"]
  <2>1. HasStyle
    BY <1>4 DEF SubmitBegin, IInv, RowsOK, HasStyle, LifecycleAssumption
  <2>2. h \in Handler /\ GoodHandler(h)
    BY <2>1
  <2>3. handler' = [handler EXCEPT ![p] = h] /\ UNCHANGED <<rows, stored, jobs, crashes>>
    BY <1>4 DEF SubmitBegin
  <2> HIDE DEF h
  <2> QED
    BY <2>2, <2>3, SuspendOnly
<1>5. ASSUME NEW d \in Decisions, DecideBegin(p, d)
      PROVE  IInv'
  <2> DEFINE h == [Idle EXCEPT !.at = "decide_commit", !.outcome = d]
  <2>1. HasStyle
    BY <1>5 DEF DecideBegin, IInv, RowsOK
  <2>2. h \in Handler /\ GoodHandler(h)
    BY <2>1
  <2>3. handler' = [handler EXCEPT ![p] = h] /\ UNCHANGED <<rows, stored, jobs, crashes>>
    BY <1>5 DEF DecideBegin
  <2> HIDE DEF h
  <2> QED
    BY <2>2, <2>3, SuspendOnly
<1>6. ASSUME ReprocessBegin(p)
      PROVE  IInv'
  <2> DEFINE todo == Existing \cap stored
             t == IF todo \cap staff # {} THEN "needs_review" ELSE "ready_for_submission"
             h == [Idle EXCEPT !.at = "reprocess_commit", !.todo = todo, !.target = t]
  <2>1. todo \subseteq Uploads /\ t \in Targets
    BY DEF Existing
  <2>2. handler' = [handler EXCEPT ![p] = h] /\ UNCHANGED <<rows, stored, jobs, crashes>>
    BY <1>6 DEF ReprocessBegin
  <2> HIDE DEF todo, t
  <2>3. h \in Handler /\ GoodHandler(h)
    BY <2>1
  <2> HIDE DEF h
  <2> QED
    BY <2>2, <2>3, SuspendOnly
<1>7. ASSUME RestoreFamilyBegin(p)
      PROVE  IInv'
  <2> DEFINE o == IF published THEN "approved" ELSE "draft"
             h == [Idle EXCEPT !.at = "restore_commit", !.outcome = o]
  <2>1. o \in {"approved", "draft"} /\ (o = "approved" => reviewed # {})
    BY DEF IInv, RowsOK, PublicOnlyAfterApproval
  <2>2. handler' = [handler EXCEPT ![p] = h] /\ UNCHANGED <<rows, stored, jobs, crashes>>
    BY <1>7 DEF RestoreFamilyBegin
  <2> HIDE DEF o
  <2>3. h \in Handler /\ GoodHandler(h)
    BY <2>1
  <2> HIDE DEF h
  <2> QED
    BY <2>2, <2>3, SuspendOnly
<1>8. ASSUME NEW s \in Styles, RestoreStyleBegin(p, s)
      PROVE  IInv'
  <2> DEFINE o == IF family = "approved" THEN "approved" ELSE "draft"
             h == [Idle EXCEPT !.at = "restore_style_commit", !.style = s, !.outcome = o]
  <2>1. o \in {"approved", "draft"} /\ (o = "approved" => reviewed # {})
    BY DEF IInv, RowsOK, PublicOnlyAfterApproval
  <2>2. styles[s] # "none" /\ handler' = [handler EXCEPT ![p] = h]
        /\ UNCHANGED <<rows, stored, jobs, crashes>>
    BY <1>8 DEF RestoreStyleBegin
  <2> HIDE DEF o
  <2>3. h \in Handler /\ GoodHandler(h)
    BY <2>1, <2>2
  <2> HIDE DEF h
  <2> QED
    BY <2>2, <2>3, SuspendOnly
<1> QED
  BY <1>1, <1>2, <1>3, <1>4, <1>5, <1>6, <1>7, <1>8

\* Steps of a begun handler that leave the rows alone.
LEMMA QuietSteps ==
  ASSUME LifecycleAssumption, IInv, NEW p \in Procs,
         \/ Enqueue(p) \/ TakeJob(p) \/ Inspect(p) \/ SettleRead(p)
         \/ ProcessingError(p) \/ FailObject(p) \/ DirectStore(p) \/ Crash(p)
  PROVE  IInv'
<1> DEFINE hp == handler[p]
<1>1. hp \in Handler /\ GoodHandler(hp)
  BY DEF IInv, TypeOK
<1>2. stored \subseteq Uploads /\ jobs \in Seq(Uploads) /\ crashes \in 0..MaxCrashes
      /\ MaxCrashes \in Nat /\ handler \in [Procs -> Handler]
  BY DEF IInv, TypeOK, LifecycleAssumption
<1>append. \A u \in Uploads : Append(jobs, u) \in Seq(Uploads)
  BY <1>2
<1> USE DEF Handler, GoodHandler, UploadPoints, Points, ProcessingPoints, At
<1>3. ASSUME Enqueue(p)
      PROVE  IInv'
  <2> DEFINE h == [hp EXCEPT !.at = "mark", !.todo = {hp.upload}]
  <2>1. hp.upload \in Uploads
    BY <1>1, <1>3 DEF Enqueue
  <2>2. h \in Handler /\ GoodHandler(h)
    <3>1. h \in Handler
      BY <1>1, <2>1
    <3>2. h.at = "mark" /\ h.upload = hp.upload
      BY <1>1
    <3> QED
      BY <2>1, <3>1, <3>2
  <2>3. jobs' \in Seq(Uploads)
    <3>1. jobs' = jobs \/ jobs' = Append(jobs, hp.upload)
      BY <1>3 DEF Enqueue
    <3> QED
      BY <1>2, <1>append, <2>1, <3>1
  <2>4. UNCHANGED rows /\ stored' \subseteq Uploads /\ crashes' \in 0..MaxCrashes
    BY <1>2, <1>3 DEF Enqueue
  <2>5. handler' = [handler EXCEPT ![p] = h] \/ handler' = [handler EXCEPT ![p] = Idle]
    BY <1>2, <1>3 DEF Enqueue, Finish
  <2> HIDE DEF h, Handler, GoodHandler
  <2> QED
    BY <2>2, <2>3, <2>4, <2>5, IdleGood, Suspend
<1>4. ASSUME TakeJob(p)
      PROVE  IInv'
  <2> DEFINE h == [Idle EXCEPT !.at = "mark", !.todo = {Head(jobs)}]
  <2>1. Head(jobs) \in Uploads /\ Tail(jobs) \in Seq(Uploads)
    BY <1>2, <1>4 DEF TakeJob
  <2>2. h \in Handler /\ GoodHandler(h)
    BY <2>1 DEF Idle, Targets, Statuses, FamilyStates
  <2>3. UNCHANGED rows /\ stored' \subseteq Uploads /\ crashes' \in 0..MaxCrashes
        /\ jobs' \in Seq(Uploads) /\ handler' = [handler EXCEPT ![p] = h]
    BY <1>2, <1>4, <2>1 DEF TakeJob, Begin
  <2> HIDE DEF h, Handler, GoodHandler
  <2> QED
    BY <2>2, <2>3, Suspend
<1>5. ASSUME Inspect(p)
      PROVE  IInv'
  <2> DEFINE h == [hp EXCEPT !.at = "sync"]
  <2>1. h \in Handler /\ GoodHandler(h)
    BY <1>1, <1>5 DEF Inspect
  <2>2. handler' = [handler EXCEPT ![p] = h] /\ UNCHANGED <<rows, stored, jobs, crashes>>
    BY <1>2, <1>5 DEF Inspect, Goto
  <2> HIDE DEF h, Handler, GoodHandler
  <2> QED
    BY <2>1, <2>2, SuspendOnly
<1>6. ASSUME SettleRead(p)
      PROVE  IInv'
  <2> DEFINE seen == {[uploads EXCEPT ![hp.upload] = "completed"][v] : v \in Existing}
             o == DeriveStatus(seen, hp.target)
             h == [hp EXCEPT !.at = "settle_commit", !.outcome = o]
  <2>1. handler' = [handler EXCEPT ![p] = h] /\ UNCHANGED <<rows, stored, jobs, crashes>>
    BY <1>2, <1>6 DEF SettleRead
  <2>2. hp.target \in Targets
    BY <1>1
  <2> HIDE DEF seen
  <2>3. o \in Targets \cup {"processing", "processing_failed"}
    BY <2>2 DEF DeriveStatus
  <2> HIDE DEF o
  <2>4. h \in Handler /\ GoodHandler(h)
    BY <1>1, <1>6, <2>3 DEF SettleRead, Statuses
  <2> HIDE DEF h, Handler, GoodHandler
  <2> QED
    BY <2>1, <2>4, SuspendOnly
<1>7. ASSUME ProcessingError(p)
      PROVE  IInv'
  <2> DEFINE h == [hp EXCEPT !.at = "fail_object"]
  <2>1. h \in Handler /\ GoodHandler(h)
    BY <1>1, <1>7 DEF ProcessingError
  <2>2. handler' = [handler EXCEPT ![p] = h] /\ UNCHANGED <<rows, stored, jobs, crashes>>
    BY <1>2, <1>7 DEF ProcessingError, Goto
  <2> HIDE DEF h, Handler, GoodHandler
  <2> QED
    BY <2>1, <2>2, SuspendOnly
<1>8. ASSUME FailObject(p)
      PROVE  IInv'
  <2> DEFINE h == [hp EXCEPT !.at = "fail_commit"]
  <2>1. h \in Handler /\ GoodHandler(h)
    BY <1>1, <1>8 DEF FailObject
  <2>2. handler' = [handler EXCEPT ![p] = h] /\ UNCHANGED <<rows, jobs, crashes>>
        /\ stored' \subseteq Uploads
    BY <1>2, <1>8 DEF FailObject, Goto
  <2>3. jobs' \in Seq(Uploads) /\ crashes' \in 0..MaxCrashes
    BY <1>2, <2>2
  <2> HIDE DEF h, Handler, GoodHandler
  <2> QED
    BY <2>1, <2>2, <2>3, Suspend
<1>9. ASSUME DirectStore(p)
      PROVE  IInv'
  <2> DEFINE h == [hp EXCEPT !.at = "direct_commit"]
  <2>1. h \in Handler /\ GoodHandler(h)
    BY <1>1, <1>9 DEF DirectStore
  <2>2. hp.upload \in Uploads
    BY <1>1, <1>9 DEF DirectStore
  <2>3. handler' = [handler EXCEPT ![p] = h] /\ UNCHANGED <<rows, jobs, crashes>>
        /\ stored' \subseteq Uploads
    BY <1>2, <1>9, <2>2 DEF DirectStore, Goto
  <2>4. jobs' \in Seq(Uploads) /\ crashes' \in 0..MaxCrashes
    BY <1>2, <2>3
  <2> HIDE DEF h, Handler, GoodHandler
  <2> QED
    BY <2>1, <2>3, <2>4, Suspend
<1>10. ASSUME Crash(p)
       PROVE  IInv'
  <2>1. handler' = [handler EXCEPT ![p] = Idle] /\ UNCHANGED <<rows, stored>>
    BY <1>10 DEF Crash, Finish
  <2>2. crashes' \in 0..MaxCrashes
    BY <1>2, <1>10 DEF Crash
  <2>3. hp.todo \cup ({hp.upload} \ {None}) \subseteq Uploads
    BY <1>1
  <2>4. jobs' \in Seq(Uploads)
    <3>1. jobs' = jobs \/ \E u \in hp.todo \cup ({hp.upload} \ {None}) : jobs' = Append(jobs, u)
      BY <1>10 DEF Crash
    <3> QED
      BY <1>2, <1>append, <2>3, <3>1
  <2>5. stored' \subseteq Uploads
    BY <1>2, <2>1
  <2> HIDE DEF Handler, GoodHandler
  <2> QED
    BY <2>1, <2>2, <2>4, <2>5, IdleGood, Suspend
<1> QED
  BY <1>3, <1>4, <1>5, <1>6, <1>7, <1>8, <1>9, <1>10

\* A step that leaves the handlers alone.
LEMMA RowsStep ==
  ASSUME LifecycleAssumption, IInv, UNCHANGED handler, RowTypes', RowsOK', Growing
  PROVE  IInv'
<1>1. TypeOK'
  BY DEF IInv, TypeOK, RowTypes
<1>2. ASSUME NEW q \in Procs
      PROVE  GoodHandler(handler[q])'
  <2>1. GoodHandler(handler[q])
    BY DEF IInv
  <2> QED
    BY <2>1, GoodHandlerStays DEF GoodHandler
<1> QED
  BY <1>1, <1>2 DEF IInv

\* After an upload, the handler goes back to rest or on to the next upload.
LEMMA NextUploadGood ==
  ASSUME LifecycleAssumption, IInv, NEW p \in Procs, NextUpload(p)
  PROVE  \E h \in Handler : handler' = [handler EXCEPT ![p] = h]
                            /\ GoodHandler(h) /\ GoodHandler(h)'
<1> DEFINE g == [Idle EXCEPT !.at = "mark", !.todo = handler[p].todo,
                             !.target = handler[p].target]
           h == IF handler[p].todo = {} THEN Idle ELSE g
<1>1. handler[p] \in Handler /\ handler \in [Procs -> Handler]
  BY DEF IInv, TypeOK
<1>2. handler' = [handler EXCEPT ![p] = h]
  BY <1>1 DEF NextUpload
<1>3. g \in Handler /\ g.at = "mark"
  BY <1>1 DEF Idle, Handler, Points, ProcessingPoints, Statuses, FamilyStates
<1>4. PICK f \in Handler : f = h /\ (f = Idle \/ f.at = "mark")
  BY <1>3, IdleGood
<1>5. GoodHandler(f) /\ GoodHandler(f)'
  BY <1>4, IdleGood DEF GoodHandler, UploadPoints
<1> QED
  BY <1>2, <1>4, <1>5

\* Steps that write the status or one upload, and no style, family or decision.
LEMMA StatusSteps ==
  ASSUME LifecycleAssumption, IInv, NEW p \in Procs,
         \/ InitCommit(p) \/ CompleteCommit(p) \/ SubmitCommit(p)
         \/ ReprocessCommit(p) \/ DirectCommit(p)
         \/ \E u \in Uploads : MarkProcessing(p, u)
         \/ SettleCommit(p) \/ FailCommit(p)
  PROVE  IInv'
<1> DEFINE hp == handler[p]
<1>1. hp \in Handler /\ GoodHandler(hp) /\ handler \in [Procs -> Handler]
  BY DEF IInv, TypeOK
<1>2. \* Any new status but a decision, any upload row whose style is there.
      ASSUME NEW h \in Handler, handler' = [handler EXCEPT ![p] = h], GoodHandler(h)',
             NEW st \in Statuses \ Decisions, status' = st,
             st = "needs_review" => HasStyle,
             NEW us \in [Uploads -> ProcessingStates \cup {"none"}], uploads' = us,
             \A u \in Uploads : us[u] = "completed" => styles[StyleOf[u]] # "none",
             staff' \subseteq Uploads,
             UNCHANGED <<stored, styles, file, family, published, verdict, reviewed,
                         jobs, crashes>>
      PROVE  IInv'
  <2>1. Growing
    BY <1>2 DEF Growing
  <2>2. RowTypes'
    BY <1>2 DEF IInv, TypeOK, RowTypes
  <2>3. HasStyle' = HasStyle
    BY <1>2 DEF HasStyle
  <2>4. PublicOnlyAfterApproval'
    BY <1>2 DEF IInv, RowsOK, PublicOnlyAfterApproval
  <2>5. DecisionsAgree'
    BY <1>2 DEF IInv, RowsOK, DecisionsAgree
  <2>6. RowsOK'
    BY <1>2, <2>3, <2>4, <2>5 DEF IInv, RowsOK
  <2> QED
    BY <1>2, <2>1, <2>2, <2>6, Assemble
<1>3. /\ uploads \in [Uploads -> ProcessingStates \cup {"none"}]
      /\ status \in Statuses /\ staff \subseteq Uploads
      /\ \A u \in Uploads : uploads[u] = "completed" => styles[StyleOf[u]] # "none"
  BY DEF IInv, TypeOK, RowsOK
<1>4. ASSUME InitCommit(p)
      PROVE  IInv'
  <2>1. hp.upload \in Uploads
    BY <1>1, <1>4 DEF InitCommit, At, GoodHandler, UploadPoints
  <2> DEFINE us == [uploads EXCEPT ![hp.upload] = "queued"]
  <2>2. us \in [Uploads -> ProcessingStates \cup {"none"}]
        /\ \A u \in Uploads : us[u] = "completed" => styles[StyleOf[u]] # "none"
    BY <1>3, <2>1 DEF ProcessingStates
  <2>3. uploads' = us /\ handler' = [handler EXCEPT ![p] = Idle] /\ status' = "uploaded"
        /\ UNCHANGED <<staff, stored, styles, file, family, published, verdict, reviewed,
                       jobs, crashes>>
    BY <1>4 DEF InitCommit, Finish
  <2>4. "uploaded" \in Statuses \ Decisions
    BY DEF Statuses, Decisions, Targets
  <2> HIDE DEF us
  <2> QED
    BY <1>2, <1>3, <2>2, <2>3, <2>4, IdleGood
<1>5. ASSUME CompleteCommit(p)
      PROVE  IInv'
  <2>1. hp.upload \in Uploads
    BY <1>1, <1>5 DEF CompleteCommit, At, GoodHandler, UploadPoints
  <2> DEFINE us == [uploads EXCEPT ![hp.upload] = "queued"]
             h == [hp EXCEPT !.at = "enqueue"]
  <2>2. us \in [Uploads -> ProcessingStates \cup {"none"}]
        /\ \A u \in Uploads : us[u] = "completed" => styles[StyleOf[u]] # "none"
    BY <1>3, <2>1 DEF ProcessingStates
  <2>3. uploads' = us /\ handler' = [handler EXCEPT ![p] = h] /\ status' = "processing"
        /\ UNCHANGED <<staff, stored, styles, file, family, published, verdict, reviewed,
                       jobs, crashes>>
    BY <1>1, <1>5 DEF CompleteCommit, Goto
  <2>4. "processing" \in Statuses \ Decisions
    BY DEF Statuses, Decisions, Targets
  <2>5. h \in Handler /\ \A x : x = h => GoodHandler(x)'
    BY <1>1, <2>1 DEF Handler, Points, GoodHandler
  <2> HIDE DEF us, h
  <2> QED
    BY <1>2, <1>3, <2>2, <2>3, <2>4, <2>5
<1>6. ASSUME SubmitCommit(p)
      PROVE  IInv'
  <2>1. HasStyle
    BY <1>1, <1>6 DEF SubmitCommit, At, GoodHandler
  <2>2. uploads' = uploads /\ handler' = [handler EXCEPT ![p] = Idle] /\ status' = "needs_review"
        /\ UNCHANGED <<staff, stored, styles, file, family, published, verdict, reviewed,
                       jobs, crashes>>
    BY <1>6 DEF SubmitCommit, Finish
  <2>3. "needs_review" \in Statuses \ Decisions
    BY DEF Statuses, Decisions, Targets
  <2> QED
    BY <1>2, <1>3, <2>1, <2>2, <2>3, IdleGood
<1>7. ASSUME ReprocessCommit(p)
      PROVE  IInv'
  <2> DEFINE h == [hp EXCEPT !.at = "mark"]
  <2>1. uploads' = uploads /\ handler' = [handler EXCEPT ![p] = h] /\ status' = "processing"
        /\ UNCHANGED <<staff, stored, styles, file, family, published, verdict, reviewed,
                       jobs, crashes>>
    BY <1>1, <1>7 DEF ReprocessCommit, Goto
  <2>2. "processing" \in Statuses \ Decisions
    BY DEF Statuses, Decisions, Targets
  <2>3. h \in Handler /\ \A x : x = h => GoodHandler(x)'
    BY <1>1 DEF Handler, Points, ProcessingPoints, GoodHandler, UploadPoints
  <2> HIDE DEF h
  <2> QED
    BY <1>2, <1>3, <2>1, <2>2, <2>3
<1>8. ASSUME DirectCommit(p)
      PROVE  IInv'
  <2>1. hp.upload \in Uploads
    BY <1>1, <1>8 DEF DirectCommit, At, GoodHandler, UploadPoints
  <2> DEFINE us == [uploads EXCEPT ![hp.upload] = "queued"]
             h == [hp EXCEPT !.at = "mark", !.todo = {hp.upload}, !.target = "needs_review"]
  <2>2. us \in [Uploads -> ProcessingStates \cup {"none"}]
        /\ \A u \in Uploads : us[u] = "completed" => styles[StyleOf[u]] # "none"
    BY <1>3, <2>1 DEF ProcessingStates
  <2>3. uploads' = us /\ handler' = [handler EXCEPT ![p] = h] /\ status' = "processing"
        /\ staff' \subseteq Uploads
        /\ UNCHANGED <<stored, styles, file, family, published, verdict, reviewed,
                       jobs, crashes>>
    BY <1>1, <1>3, <1>8, <2>1 DEF DirectCommit
  <2>4. "processing" \in Statuses \ Decisions
    BY DEF Statuses, Decisions, Targets
  <2>5. h \in Handler /\ \A x : x = h => GoodHandler(x)'
    <3>1. h \in Handler
      BY <1>1, <2>1 DEF Handler, Points, ProcessingPoints, Targets
    <3>2. h.at = "mark" /\ h.upload = hp.upload
      BY <1>1 DEF Handler
    <3> QED
      BY <2>1, <3>1, <3>2 DEF GoodHandler
  <2> HIDE DEF us, h
  <2> QED
    BY <1>2, <1>3, <2>2, <2>3, <2>4, <2>5
<1>9. ASSUME NEW u \in Uploads, MarkProcessing(p, u)
      PROVE  IInv'
  <2> DEFINE us == [uploads EXCEPT ![u] = "processing"]
             rest == hp.todo \ {u}
             h == [hp EXCEPT !.at = "inspect", !.upload = u, !.todo = rest]
  <2>1. us \in [Uploads -> ProcessingStates \cup {"none"}]
        /\ \A v \in Uploads : us[v] = "completed" => styles[StyleOf[v]] # "none"
    BY <1>3 DEF ProcessingStates
  <2>2. uploads' = us /\ handler' = [handler EXCEPT ![p] = h] /\ status' = status
        /\ UNCHANGED <<staff, stored, styles, file, family, published, verdict, reviewed,
                       jobs, crashes>>
    BY <1>1, <1>9 DEF MarkProcessing
  <2>3. rest \in SUBSET Uploads
    <3>1. hp.todo \in SUBSET Uploads
      BY <1>1 DEF Handler
    <3> QED
      BY <3>1
  <2> HIDE DEF rest
  <2>4. h \in Handler
    BY <1>1, <2>3 DEF Handler, Points, ProcessingPoints
  <2>5. \A x : x = h => GoodHandler(x)'
    BY <1>1 DEF Handler, GoodHandler, UploadPoints
  <2> HIDE DEF us, h
  <2>6. Growing
    BY <2>2 DEF Growing
  <2>7. RowTypes'
    BY <2>1, <2>2 DEF IInv, TypeOK, RowTypes
  <2>8. RowsOK'
    BY <2>1, <2>2 DEF IInv, RowsOK, HasStyle, PublicOnlyAfterApproval, DecisionsAgree
  <2> QED
    BY <2>2, <2>4, <2>5, <2>6, <2>7, <2>8, Assemble
<1>10. ASSUME SettleCommit(p)
       PROVE  IInv'
  <2>1. /\ hp.upload \in Uploads
        /\ styles[StyleOf[hp.upload]] # "none"
        /\ hp.outcome \in Targets \cup {"processing", "processing_failed"}
    BY <1>1, <1>10 DEF SettleCommit, At, GoodHandler, UploadPoints
  <2>2. HasStyle
    BY <2>1 DEF HasStyle, LifecycleAssumption
  <2> DEFINE us == [uploads EXCEPT ![hp.upload] = "completed"]
  <2>3. us \in [Uploads -> ProcessingStates \cup {"none"}]
        /\ \A u \in Uploads : us[u] = "completed" => styles[StyleOf[u]] # "none"
    BY <1>3, <2>1 DEF ProcessingStates
  <2>4. uploads' = us /\ NextUpload(p) /\ status' = hp.outcome
        /\ UNCHANGED <<staff, stored, styles, file, family, published, verdict, reviewed,
                       jobs, crashes>>
    BY <1>10 DEF SettleCommit
  <2>5. hp.outcome \in Statuses \ Decisions
    BY <2>1 DEF Statuses, Decisions, Targets
  <2>6. PICK h \in Handler : handler' = [handler EXCEPT ![p] = h] /\ GoodHandler(h)'
    BY <2>4, NextUploadGood
  <2> HIDE DEF us
  <2> QED
    BY <1>2, <1>3, <2>2, <2>3, <2>4, <2>5, <2>6
<1>11. ASSUME FailCommit(p)
       PROVE  IInv'
  <2>1. hp.upload \in Uploads
    BY <1>1, <1>11 DEF FailCommit, At, GoodHandler, UploadPoints
  <2> DEFINE us == [uploads EXCEPT ![hp.upload] = "failed"]
  <2>2. us \in [Uploads -> ProcessingStates \cup {"none"}]
        /\ \A u \in Uploads : us[u] = "completed" => styles[StyleOf[u]] # "none"
    BY <1>3, <2>1 DEF ProcessingStates
  <2>3. uploads' = us /\ NextUpload(p) /\ status' = "processing_failed"
        /\ UNCHANGED <<staff, stored, styles, file, family, published, verdict, reviewed,
                       jobs, crashes>>
    BY <1>11 DEF FailCommit
  <2>4. "processing_failed" \in Statuses \ Decisions
    BY DEF Statuses, Decisions, Targets
  <2>5. PICK h \in Handler : handler' = [handler EXCEPT ![p] = h] /\ GoodHandler(h)'
    BY <2>3, NextUploadGood
  <2> HIDE DEF us
  <2> QED
    BY <1>2, <1>3, <2>2, <2>3, <2>4, <2>5
<1> QED
  BY <1>4, <1>5, <1>6, <1>7, <1>8, <1>9, <1>10, <1>11

\* A processed file adds a draft style or takes over an existing one.
LEMMA SyncStyleStep ==
  ASSUME LifecycleAssumption, IInv, NEW p \in Procs, SyncStyle(p)
  PROVE  IInv'
<1> DEFINE hp == handler[p]
           s == StyleOf[hp.upload]
           h == [hp EXCEPT !.at = "settle_read"]
<1>1. hp \in Handler /\ GoodHandler(hp) /\ handler \in [Procs -> Handler]
  BY DEF IInv, TypeOK
<1>2. hp.upload \in Uploads
  BY <1>1 DEF SyncStyle, At, GoodHandler, UploadPoints
<1>3. s \in Styles
  BY <1>2 DEF LifecycleAssumption
<1>4. /\ styles' = [styles EXCEPT ![s] = IF @ = "none" THEN "draft" ELSE @]
      /\ file' = [file EXCEPT ![s] = hp.upload]
      /\ handler' = [handler EXCEPT ![p] = h]
      /\ UNCHANGED <<status, uploads, staff, stored, family, published, verdict,
                     reviewed, jobs, crashes>>
  BY <1>1 DEF SyncStyle, Goto
<1>5. /\ styles \in [Styles -> FamilyStates \cup {"none"}]
      /\ file \in [Styles -> Uploads \cup {None}]
  BY DEF IInv, TypeOK
<1>6. /\ \A t \in Styles : t # s => styles'[t] = styles[t] /\ file'[t] = file[t]
      /\ styles'[s] # "none" /\ file'[s] = hp.upload
      /\ styles'[s] = "approved" => styles[s] = "approved"
  BY <1>3, <1>4, <1>5
<1>7. Growing
  BY <1>4, <1>6 DEF Growing
<1>8. RowTypes'
  BY <1>2, <1>3, <1>4, <1>5 DEF IInv, TypeOK, RowTypes, FamilyStates
<1>9. HasStyle'
  BY <1>3, <1>6 DEF HasStyle
<1>10. PublicOnlyAfterApproval' /\ DecisionsAgree'
  BY <1>4, <1>6 DEF IInv, RowsOK, PublicOnlyAfterApproval, DecisionsAgree
<1>11. \A u \in Uploads : uploads'[u] = "completed" => styles'[StyleOf[u]] # "none"
  BY <1>4, <1>6 DEF IInv, RowsOK, LifecycleAssumption
<1>12. \A t \in Styles : styles'[t] # "none" => file'[t] \in Uploads
  BY <1>2, <1>6 DEF IInv, RowsOK
<1>13. RowsOK'
  BY <1>9, <1>10, <1>11, <1>12 DEF RowsOK
<1>14. h \in Handler
  BY <1>1 DEF Handler, Points, ProcessingPoints
<1>15. \A x : x = h => GoodHandler(x)'
  BY <1>1, <1>2, <1>6 DEF Handler, GoodHandler
<1> HIDE DEF h
<1> QED
  BY <1>4, <1>7, <1>8, <1>13, <1>14, <1>15, Assemble

\* A decision writes the submission, the family and every style at once.
LEMMA DecideStep ==
  ASSUME LifecycleAssumption, IInv, NEW p \in Procs, DecideCommit(p)
  PROVE  IInv'
<1> DEFINE d == handler[p].outcome
           visible == Visibility(d)
           files == {file[s] : s \in {t \in Styles : styles[t] # "none"}}
<1>1. d \in Decisions /\ HasStyle
  BY DEF IInv, DecideCommit, At, GoodHandler
<1>2. /\ status' = d /\ family' = visible /\ published' = (d = "approved")
      /\ styles' = [s \in Styles |-> IF styles[s] = "none" THEN "none" ELSE visible]
      /\ verdict' = d
      /\ reviewed' = IF d = "approved" THEN reviewed \cup files ELSE reviewed
      /\ handler' = [handler EXCEPT ![p] = Idle]
      /\ UNCHANGED <<uploads, staff, stored, file, jobs, crashes>>
  BY DEF DecideCommit, DecidedStyles, Finish
<1>3. files \subseteq Uploads /\ files # {}
  BY <1>1 DEF HasStyle, IInv, RowsOK
<1> HIDE DEF files, d
<1>4. visible \in {"approved", "draft"} /\ (visible = "approved" <=> d = "approved")
  BY DEF Visibility
<1> HIDE DEF visible
<1>5. Growing
  BY <1>2, <1>3, <1>4 DEF Growing
<1>6. reviewed' \subseteq Uploads /\ (d = "approved" => reviewed' # {})
  BY <1>2, <1>3 DEF IInv, TypeOK
<1>7. RowTypes'
  BY <1>1, <1>2, <1>4, <1>6 DEF IInv, TypeOK, RowTypes, FamilyStates, Statuses
<1>8. PublicOnlyAfterApproval'
  BY <1>2, <1>4, <1>6 DEF PublicOnlyAfterApproval
<1>9. DecisionsAgree'
  BY <1>2 DEF DecisionsAgree
<1>10. RowsOK'
  BY <1>1, <1>2, <1>4, <1>8, <1>9 DEF IInv, RowsOK, LifecycleAssumption, Decisions
<1> QED
  BY <1>2, <1>5, <1>7, <1>10, IdleGood, Assemble

\* Archive and restore by the catalogue staff, and the client's PUT.
LEMMA CatalogueSteps ==
  ASSUME LifecycleAssumption, IInv, NEW p \in Procs,
         \/ ArchiveFamily(p) \/ RestoreFamilyCommit(p)
         \/ \E s \in Styles : ArchiveStyle(p, s)
         \/ RestoreStyleCommit(p)
  PROVE  IInv'
<1>1. handler[p] \in Handler /\ GoodHandler(handler[p]) /\ styles \in [Styles -> FamilyStates \cup {"none"}]
  BY DEF IInv, TypeOK
<1>2. CASE ArchiveFamily(p)
  <2>1. Growing /\ RowTypes'
    BY <1>2 DEF ArchiveFamily, Growing, RowTypes, IInv, TypeOK, FamilyStates
  <2>2. RowsOK'
    BY <1>2 DEF ArchiveFamily, IInv, RowsOK, HasStyle, PublicOnlyAfterApproval, DecisionsAgree
  <2> QED
    BY <1>2, <2>1, <2>2, RowsStep DEF ArchiveFamily
<1>3. CASE RestoreFamilyCommit(p)
  <2>1. handler[p].outcome \in {"approved", "draft"} /\ (handler[p].outcome = "approved" => reviewed # {})
    BY <1>1, <1>3 DEF RestoreFamilyCommit, At, GoodHandler
  <2>2. Growing /\ RowTypes'
    BY <1>3, <2>1 DEF RestoreFamilyCommit, Growing, RowTypes, IInv, TypeOK, FamilyStates
  <2>3. RowsOK'
    BY <1>3, <2>1 DEF RestoreFamilyCommit, IInv, RowsOK, HasStyle, PublicOnlyAfterApproval, DecisionsAgree
  <2> QED
    BY <1>3, <2>2, <2>3, IdleGood, Assemble DEF RestoreFamilyCommit, Finish
<1>4. ASSUME NEW s \in Styles, ArchiveStyle(p, s)
      PROVE  IInv'
  <2>1. /\ \A t \in Styles : styles'[t] # styles[t] => styles'[t] = "archived" /\ styles[t] # "none"
        /\ styles' \in [Styles -> FamilyStates \cup {"none"}]
    BY <1>1, <1>4 DEF ArchiveStyle, FamilyStates
  <2>2. Growing /\ RowTypes'
    BY <1>4, <2>1 DEF ArchiveStyle, Growing, RowTypes, IInv, TypeOK
  <2>3. RowsOK'
    BY <1>4, <2>1 DEF ArchiveStyle, IInv, RowsOK, HasStyle, PublicOnlyAfterApproval, DecisionsAgree,
                      LifecycleAssumption
  <2> QED
    BY <1>4, <2>2, <2>3, RowsStep DEF ArchiveStyle
<1>5. CASE RestoreStyleCommit(p)
  <2> DEFINE s == handler[p].style
             o == handler[p].outcome
  <2>1. s \in Styles /\ styles[s] # "none"
        /\ o \in {"approved", "draft"} /\ (o = "approved" => reviewed # {})
    BY <1>1, <1>5 DEF RestoreStyleCommit, At, GoodHandler
  <2>2. styles' = [styles EXCEPT ![s] = o]
        /\ UNCHANGED <<status, uploads, staff, stored, file, family, published, verdict,
                       reviewed, jobs, crashes>>
    BY <1>5 DEF RestoreStyleCommit
  <2>3. handler' = [handler EXCEPT ![p] = Idle]
    BY <1>5 DEF RestoreStyleCommit, Finish
  <2> HIDE DEF s, o
  <2>4. /\ \A t \in Styles : t # s => styles'[t] = styles[t]
        /\ styles'[s] = o
        /\ styles' \in [Styles -> FamilyStates \cup {"none"}]
    BY <1>1, <2>1, <2>2 DEF FamilyStates
  <2>5. Growing /\ RowTypes'
    BY <2>1, <2>2, <2>4 DEF Growing, RowTypes, IInv, TypeOK
  <2>6. PublicOnlyAfterApproval' /\ DecisionsAgree'
    BY <2>1, <2>2, <2>4 DEF IInv, RowsOK, PublicOnlyAfterApproval, DecisionsAgree
  <2>7. HasStyle'
    BY <2>1, <2>4 DEF HasStyle
  <2>8. RowsOK'
    BY <2>1, <2>2, <2>4, <2>6, <2>7 DEF IInv, RowsOK, LifecycleAssumption
  <2> QED
    BY <2>3, <2>5, <2>8, IdleGood, Assemble
<1> QED
  BY <1>2, <1>3, <1>4, <1>5

LEMMA PutObjectStep ==
  ASSUME LifecycleAssumption, IInv, NEW u \in Uploads, PutObject(u)
  PROVE  IInv'
<1>1. Growing /\ RowTypes'
  BY DEF PutObject, Growing, RowTypes, IInv, TypeOK, rows
<1>2. RowsOK'
  BY DEF PutObject, IInv, RowsOK, HasStyle, PublicOnlyAfterApproval, DecisionsAgree, rows
<1> QED
  BY <1>1, <1>2, RowsStep DEF PutObject

-----------------------------------------------------------------------------
LEMMA InitIInv ==
  ASSUME LifecycleAssumption, Init
  PROVE  IInv
<1>1. TypeOK
  <2>1. Idle \in Handler
    BY IdleGood
  <2>2. jobs \in Seq(Uploads)
    BY DEF Init
  <2>3. crashes \in 0..MaxCrashes
    BY DEF Init, LifecycleAssumption
  <2> QED
    BY <2>1, <2>2, <2>3
    DEF Init, TypeOK, Statuses, Decisions, Targets, FamilyStates
<1>2. \A p \in Procs : GoodHandler(handler[p])
  BY IdleGood DEF Init
<1>3. RowsOK
  BY DEF Init, RowsOK, PublicOnlyAfterApproval, DecisionsAgree, Decisions, LifecycleAssumption
<1> QED
  BY <1>1, <1>2, <1>3 DEF IInv

\* Every action of Next is the subject of one of the lemmas above.
LEMMA NextIInv ==
  ASSUME LifecycleAssumption, IInv, [Next]_vars
  PROVE  IInv'
<1>1. ASSUME NEW p \in Procs, Request(p)
      PROVE  IInv'
  BY <1>1, RequestBegins, CatalogueSteps DEF Request
<1>2. ASSUME NEW p \in Procs, HandlerStep(p)
      PROVE  IInv'
  <2>1. CASE ProcessStep(p)
    BY <2>1, QuietSteps, StatusSteps, SyncStyleStep DEF ProcessStep
  <2>2. CASE ~ProcessStep(p)
    BY <1>2, <2>2, QuietSteps, StatusSteps, DecideStep, CatalogueSteps DEF HandlerStep
  <2> QED
    BY <2>1, <2>2
<1>3. ASSUME NEW p \in Procs, Crash(p)
      PROVE  IInv'
  BY <1>3, QuietSteps
<1>4. ASSUME NEW w \in Workers, TakeJob(w)
      PROVE  IInv'
  BY <1>4, QuietSteps DEF Procs
<1>5. ASSUME NEW u \in Uploads, PutObject(u)
      PROVE  IInv'
  BY <1>5, PutObjectStep
<1>6. CASE UNCHANGED vars
  BY <1>6 DEF vars, rows, IInv, TypeOK, GoodHandler, RowsOK, HasStyle,
              PublicOnlyAfterApproval, DecisionsAgree
<1> QED
  BY <1>1, <1>2, <1>3, <1>4, <1>5, <1>6 DEF Next

\* The invariant that carries the others: every suspended handler remembers
\* only what its next step may still rely on, and the rows agree with each
\* other.  It holds for every number of uploads, styles, handlers and workers.
THEOREM Inductive == Spec => []IInv
<1>1. Init => IInv
  BY LifecycleAssumption, InitIInv
<1>2. IInv /\ [Next]_vars => IInv'
  BY LifecycleAssumption, NextIInv
<1> QED
  BY <1>1, <1>2, PTL DEF Spec

\* Every row, job and handler keeps a value the schema allows.
THEOREM TypeCorrect == Spec => []TypeOK
<1>1. IInv => TypeOK
  BY DEF IInv
<1> QED
  BY <1>1, Inductive, PTL

\* A submission is in review, or being decided, only with a style to look at
\* (submissions.service submit checks uploads, not styles).
THEOREM NeverAnEmptyReview == Spec => []ReviewHasStyle
<1>1. IInv => ReviewHasStyle
  BY DEF IInv, RowsOK, GoodHandler, ReviewHasStyle, At
<1> QED
  BY <1>1, Inductive, PTL

\* Nothing of a family is public before an approving decision (admin.service
\* applyReviewDecision, restoreFamily, restoreFamilyStyle).
THEOREM NothingPublicUnreviewed == Spec => []PublicOnlyAfterApproval
<1>1. IInv => PublicOnlyAfterApproval
  BY DEF IInv, RowsOK
<1> QED
  BY <1>1, Inductive, PTL

\* A decided status is the latest decision, and publishedAt follows it.
THEOREM StatusIsLatestDecision == Spec => []DecisionsAgree
<1>1. IInv => DecisionsAgree
  BY DEF IInv, RowsOK
<1> QED
  BY <1>1, Inductive, PTL

\* The only step that publishes is an approval, and it leaves a style public.
LEMMA PublishingStep ==
  ASSUME LifecycleAssumption, IInv, [Next]_vars, published', ~published
  PROVE  family' = "approved" /\ \E s \in Styles : styles'[s] = "approved"
<1>1. PICK p \in Procs : DecideCommit(p)
  <2>1. \E p \in Procs : HandlerStep(p)
    BY DEF Next, Request, InitBegin, CompleteBegin, DirectBegin, SubmitBegin, DecideBegin,
           ReprocessBegin, ArchiveFamily, RestoreFamilyBegin, ArchiveStyle,
           RestoreStyleBegin, Crash, TakeJob, PutObject, rows, vars
  <2> QED
    BY <2>1 DEF HandlerStep, ProcessStep, InitCommit, CompleteCommit, Enqueue, SubmitCommit,
                ReprocessCommit, DirectStore, DirectCommit, RestoreFamilyCommit,
                RestoreStyleCommit, MarkProcessing, Inspect, SyncStyle, SettleRead,
                SettleCommit, ProcessingError, FailObject, FailCommit, rows
<1>2. HasStyle
  BY <1>1 DEF DecideCommit, At, IInv, GoodHandler
<1> QED
  BY <1>1, <1>2 DEF DecideCommit, DecidedStyles, Visibility, HasStyle

\* An approval publishes the family and at least one of its styles.
THEOREM ApprovalsPublish == Spec => ApprovalPublishes
<1>1. IInv /\ [Next]_vars => [published' /\ ~published
        => family' = "approved" /\ \E s \in Styles : styles'[s] = "approved"]_vars
  BY LifecycleAssumption, PublishingStep
<1> QED
  BY <1>1, Inductive, PTL DEF Spec, ApprovalPublishes

-----------------------------------------------------------------------------
(* What the public sees.                                                   *)

Visible == {s \in Styles : styles[s] = "approved"}
Seen == <<verdict, reviewed, family, styles>>

LEMMA SeenUnchanged ==
  ASSUME UNCHANGED Seen
  PROVE  UNCHANGED Publication!pubvars
  BY DEF Seen, Publication!pubvars

\* Every other step leaves the family, its styles and the decisions alone.
LEMMA UnseenSteps ==
  ASSUME [Next]_vars,
         ~ \E p \in Procs :
              \/ SyncStyle(p) \/ DecideCommit(p)
              \/ ArchiveFamily(p) \/ RestoreFamilyCommit(p)
              \/ RestoreStyleCommit(p)
              \/ \E s \in Styles : ArchiveStyle(p, s)
  PROVE  UNCHANGED Seen
<1> USE DEF Seen, rows
<1>1. CASE \E u \in Uploads : PutObject(u)
  BY <1>1 DEF PutObject
<1>2. ASSUME NEW p \in Procs, Request(p)
      PROVE  UNCHANGED Seen
  BY <1>2 DEF Request, InitBegin, CompleteBegin, DirectBegin, SubmitBegin, DecideBegin,
              ReprocessBegin, RestoreFamilyBegin, RestoreStyleBegin
<1>3. ASSUME NEW p \in Procs, HandlerStep(p)
      PROVE  UNCHANGED Seen
  BY <1>3 DEF HandlerStep, ProcessStep, InitCommit, CompleteCommit, Enqueue, SubmitCommit,
              ReprocessCommit, DirectStore, DirectCommit, MarkProcessing, Inspect,
              SettleRead, SettleCommit, ProcessingError, FailObject, FailCommit
<1>4. CASE \E p \in Procs : Crash(p)
  BY <1>4 DEF Crash
<1>5. CASE \E w \in Workers : TakeJob(w)
  BY <1>5 DEF TakeJob
<1>6. CASE UNCHANGED vars
  BY <1>6 DEF vars
<1> QED
  BY <1>1, <1>2, <1>3, <1>4, <1>5, <1>6 DEF Next

\* A processed file adds a draft style, or changes the file of one.
LEMMA SyncHidden ==
  ASSUME LifecycleAssumption, IInv, NEW p \in Procs, SyncStyle(p)
  PROVE  UNCHANGED Publication!pubvars
<1>1. handler[p].upload \in Uploads
  BY DEF IInv, SyncStyle, At, GoodHandler, UploadPoints
<1>2. StyleOf[handler[p].upload] \in Styles
  BY <1>1 DEF LifecycleAssumption
<1>3. \A s \in Styles : styles'[s] = "approved" <=> styles[s] = "approved"
  BY <1>2 DEF SyncStyle, IInv, TypeOK
<1> QED
  BY <1>3 DEF SyncStyle, Publication!pubvars

\* A decision shows all or nothing of the family.
LEMMA DecisionShown ==
  ASSUME LifecycleAssumption, IInv, NEW p \in Procs, DecideCommit(p)
  PROVE  Publication!Approve \/ Publication!TurnDown
<1> DEFINE d == handler[p].outcome
           files == {file[s] : s \in {t \in Styles : styles[t] # "none"}}
<1>1. d \in Decisions /\ HasStyle
  BY DEF IInv, DecideCommit, At, GoodHandler
<1>2. /\ verdict' = d /\ family' = Visibility(d)
      /\ reviewed' = IF d = "approved" THEN reviewed \cup files ELSE reviewed
      /\ styles' = [s \in Styles |-> IF styles[s] = "none" THEN "none" ELSE Visibility(d)]
  BY DEF DecideCommit, DecidedStyles
<1>3. files # {}
  BY <1>1 DEF HasStyle
<1> HIDE DEF d, files
<1>4. CASE d = "approved"
  <2>1. Visible' = {s \in Styles : styles[s] # "none"}
    BY <1>2, <1>4 DEF Visible, Visibility
  <2>2. Visible' # {} /\ Visible \subseteq Visible' /\ Visible' \subseteq Styles
    BY <1>1, <2>1 DEF Visible, HasStyle
  <2>3. Publication!Approve
    BY <1>2, <1>3, <1>4, <2>2 DEF Publication!Approve, Visible, Visibility
  <2> QED BY <2>3
<1>5. CASE d # "approved"
  <2>1. Visible' = {}
    BY <1>2, <1>5 DEF Visible, Visibility
  <2>2. Publication!TurnDown
    BY <1>1, <1>2, <1>5, <2>1 DEF Publication!TurnDown, Visible, Visibility, Decisions
  <2> QED BY <2>2
<1> QED
  BY <1>4, <1>5

\* A restore writes what it has read earlier: approved only after an approval.
LEMMA CatalogueShown ==
  ASSUME LifecycleAssumption, IInv, NEW p \in Procs,
         \/ ArchiveFamily(p) \/ RestoreFamilyCommit(p) \/ RestoreStyleCommit(p)
         \/ \E s \in Styles : ArchiveStyle(p, s)
  PROVE  Publication!Next
<1>1. GoodHandler(handler[p]) /\ styles \in [Styles -> FamilyStates \cup {"none"}]
  BY DEF IInv, TypeOK
<1>2. CASE ArchiveFamily(p)
  BY <1>2 DEF ArchiveFamily, Publication!Next, Publication!Hide
<1>3. CASE RestoreFamilyCommit(p)
  <2>1. handler[p].outcome = "approved" => reviewed # {}
    BY <1>1, <1>3 DEF RestoreFamilyCommit, At, GoodHandler
  <2> QED
    BY <1>3, <2>1 DEF RestoreFamilyCommit, Publication!Next, Publication!Hide,
                      Publication!ShowAgain
<1>4. ASSUME NEW s \in Styles, ArchiveStyle(p, s)
      PROVE  Publication!Next
  <2>1. Visible' = Visible \ {s}
    BY <1>1, <1>4 DEF ArchiveStyle, Visible
  <2>2. Publication!HideStyle(s)
    BY <1>4, <2>1 DEF ArchiveStyle, Visible, Publication!HideStyle
  <2> QED BY <2>2 DEF Publication!Next
<1>5. CASE RestoreStyleCommit(p)
  <2> DEFINE o == handler[p].outcome
  <2>1. PICK t \in Styles : t = handler[p].style /\ (o = "approved" => reviewed # {})
    BY <1>1, <1>5 DEF RestoreStyleCommit, At, GoodHandler
  <2>2. /\ styles' = [styles EXCEPT ![t] = o]
        /\ UNCHANGED <<verdict, reviewed, family>>
    BY <1>5, <2>1 DEF RestoreStyleCommit
  <2> HIDE DEF o
  <2>3. CASE o = "approved"
    <3>1. Visible' = Visible \cup {t}
      BY <1>1, <2>1, <2>2, <2>3 DEF Visible
    <3>2. Publication!ShowStyle(t)
      BY <2>1, <2>2, <2>3, <3>1 DEF Visible, Publication!ShowStyle
    <3> QED BY <2>1, <3>2 DEF Publication!Next
  <2>4. CASE o # "approved"
    <3>1. Visible' = Visible \ {t}
      BY <1>1, <2>1, <2>2, <2>4 DEF Visible
    <3>2. Publication!HideStyle(t)
      BY <2>2, <3>1 DEF Visible, Publication!HideStyle
    <3> QED BY <2>1, <3>2 DEF Publication!Next
  <2> QED BY <2>3, <2>4
<1> QED
  BY <1>2, <1>3, <1>4, <1>5

\* The code, with all its uploads, jobs and late commits, implements the
\* promise of the review.
THEOREM ReviewImplemented == Spec => PublicationReviewed
<1>1. Init => Publication!Init
  BY DEF Init, Publication!Init
<1>2. IInv /\ [Next]_vars => [Publication!Next]_Publication!pubvars
  <2> SUFFICES ASSUME IInv, [Next]_vars
               PROVE  Publication!Next \/ UNCHANGED Publication!pubvars
    OBVIOUS
  <2>1. ASSUME NEW p \in Procs, SyncStyle(p)
        PROVE  UNCHANGED Publication!pubvars
    BY <2>1, LifecycleAssumption, SyncHidden
  <2>2. ASSUME NEW p \in Procs, DecideCommit(p)
        PROVE  Publication!Next
    BY <2>2, LifecycleAssumption, DecisionShown DEF Publication!Next
  <2>3. ASSUME NEW p \in Procs,
               \/ ArchiveFamily(p) \/ RestoreFamilyCommit(p) \/ RestoreStyleCommit(p)
               \/ \E s \in Styles : ArchiveStyle(p, s)
        PROVE  Publication!Next
    BY <2>3, LifecycleAssumption, CatalogueShown
  <2> QED
    BY <2>1, <2>2, <2>3, UnseenSteps, SeenUnchanged
<1> QED
  BY <1>1, <1>2, Inductive, PTL DEF Spec, PublicationReviewed, Publication!Spec
=============================================================================
