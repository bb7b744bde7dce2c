---------------------------- MODULE BrowserProofs ----------------------------
(***************************************************************************)
(* What the clients in the browser promise: a file that is shown as ready  *)
(* has been processed, a user stays signed in while the calls of the tabs  *)
(* do not overlap, an open page is attended, and what a visitor holds of a *)
(* font expires.  For any files, uploads, tabs, sessions and styles.       *)
(***************************************************************************)
EXTENDS UploadClient, WebClient, SubmissionPages, VisitorLinks, AuthSessionsProofs

-----------------------------------------------------------------------------
(* The uploads                                                             *)

\* What the page knows of a file: while it sends a file, or shows it in
\* processing, it has the id of the last attempt.
Tidy(e, last, done) ==
  /\ e.phase = "ready" => last \in done
  /\ e.phase = "processing" \/ e.call \in {"put", "complete"}
       => e.id = last /\ last \in UploadIds
  /\ e.call = "hash" => e.phase = "hashing"
  /\ e.call \in {"init", "put", "complete"} => e.phase = "uploading"

Reports(answer, done) == \A u \in UploadIds : answer[u] = "completed" => u \in done

UploaderInv ==
  /\ UploaderTypeOK
  /\ polls \subseteq [UploadIds -> UploadStates]
  /\ \A f \in Picks : Tidy(entry[f], latest[f], finished)
  /\ \A answer \in polls \cup {upload} : Reports(answer, finished)

\* A step of the page: each file keeps its record or gets another one.
LEMMA PageStep ==
  ASSUME UploaderInv, UNCHANGED <<upload, intake, latest, finished>>,
         losses' \in 0..MaxLosses, polls' \subseteq polls \cup {upload},
         entry' \in [Picks -> FileEntry],
         \A f \in Picks : Tidy(entry'[f], latest[f], finished)
  PROVE  UploaderInv'
BY DEF UploaderInv, UploaderTypeOK, Tidy, Reports

LEMMA OneFile ==
  ASSUME UploaderInv, NEW f \in Picks, NEW e \in FileEntry, entry' = [entry EXCEPT ![f] = e],
         Tidy(e, latest[f], finished)
  PROVE  /\ entry' \in [Picks -> FileEntry]
         /\ \A g \in Picks : Tidy(entry'[g], latest[g], finished)
<1>1. entry \in [Picks -> FileEntry] /\ \A g \in Picks : Tidy(entry[g], latest[g], finished)
  BY DEF UploaderInv, UploaderTypeOK
<1>2. \A g \in Picks : entry'[g] = IF g = f THEN e ELSE entry[g]
  BY <1>1
<1> QED
  BY <1>1, <1>2

\* A file goes to another phase and waits for a call.
LEMMA FileGoes ==
  ASSUME UploaderInv, NEW f \in Picks, NEW phase \in Phases, NEW call \in UploadCalls,
         Goes(f, phase, call)
  PROVE  \E e \in FileEntry : /\ entry' = [entry EXCEPT ![f] = e]
                              /\ e.phase = phase /\ e.call = call /\ e.id = entry[f].id
<1>1. entry[f] \in FileEntry /\ entry \in [Picks -> FileEntry]
  BY DEF UploaderInv, UploaderTypeOK
<1>2. PICK e \in FileEntry : e = [entry[f] EXCEPT !.phase = phase, !.call = call]
  BY <1>1 DEF FileEntry
<1>3. entry' = [entry EXCEPT ![f] = e]
  BY <1>1, <1>2 DEF Goes, FileEntry
<1>4. e.phase = phase /\ e.call = call /\ e.id = entry[f].id
  BY <1>1, <1>2 DEF FileEntry
<1> QED
  BY <1>3, <1>4

LEMMA NoEntryTidy == NoEntry \in FileEntry /\ \A last, done : Tidy(NoEntry, last, done)
BY DEF NoEntry, FileEntry, Phases, UploadCalls, Tidy

\* Adding, removing and clearing files, and starting uploads.
LEMMA FilesStep ==
  ASSUME UploaderInv,
         \/ \E f \in Picks : AddFile(f) \/ RemoveFile(f) \/ UploadFiles({f})
         \/ ClearCompleted \/ UploadAll
  PROVE  UploaderInv'
<1>1. UNCHANGED <<upload, intake, latest, finished>> /\ UNCHANGED <<polls, losses>>
  BY DEF AddFile, RemoveFile, UploadFiles, ClearCompleted, UploadAll, ServerSame
<1>2. /\ entry \in [Picks -> FileEntry] /\ losses \in 0..MaxLosses
      /\ \A f \in Picks : Tidy(entry[f], latest[f], finished)
  BY DEF UploaderInv, UploaderTypeOK
<1> SUFFICES entry' \in [Picks -> FileEntry] /\ \A f \in Picks : Tidy(entry'[f], latest[f], finished)
  BY <1>1, <1>2, PageStep
<1>3. ASSUME NEW f \in Picks, AddFile(f)
      PROVE  entry' \in [Picks -> FileEntry] /\ \A g \in Picks : Tidy(entry'[g], latest[g], finished)
  <2>1. PICK e \in FileEntry : e = [NoEntry EXCEPT !.phase = "idle"]
    BY DEF NoEntry, FileEntry, Phases, UploadCalls
  <2>2. Tidy(e, latest[f], finished)
    BY <2>1 DEF NoEntry, Tidy
  <2> QED BY <1>3, <2>1, <2>2, OneFile DEF AddFile
<1>4. ASSUME NEW f \in Picks, RemoveFile(f)
      PROVE  entry' \in [Picks -> FileEntry] /\ \A g \in Picks : Tidy(entry'[g], latest[g], finished)
  BY <1>4, NoEntryTidy, OneFile DEF RemoveFile
<1>5. CASE ClearCompleted
  <2>1. \A f \in Picks : entry'[f] = IF entry[f].phase = "ready" THEN NoEntry ELSE entry[f]
    BY <1>5 DEF ClearCompleted
  <2>2. entry' \in [Picks -> FileEntry]
    BY <1>2, <1>5, NoEntryTidy DEF ClearCompleted
  <2> QED BY <1>2, <2>1, <2>2, NoEntryTidy
<1>6. ASSUME NEW some, UploadFiles(some)
      PROVE  entry' \in [Picks -> FileEntry] /\ \A g \in Picks : Tidy(entry'[g], latest[g], finished)
  <2> DEFINE sent(f) == [entry[f] EXCEPT !.phase = "hashing", !.call = "hash"]
  <2>1. \A f \in Picks : sent(f) \in FileEntry /\ Tidy(sent(f), latest[f], finished)
    BY <1>2 DEF FileEntry, Phases, UploadCalls, Tidy
  <2>2. entry' = [f \in Picks |-> IF f \in some THEN sent(f) ELSE entry[f]]
    BY <1>6 DEF UploadFiles
  <2> HIDE DEF sent
  <2>3. \A f \in Picks : entry'[f] = IF f \in some THEN sent(f) ELSE entry[f]
    BY <2>2
  <2>4. entry' \in [Picks -> FileEntry]
    BY <1>2, <2>1, <2>2
  <2> QED BY <1>2, <2>1, <2>3, <2>4
<1> QED
  BY <1>3, <1>4, <1>5, <1>6 DEF UploadAll

\* The calls of a file that do not reach the server's rows.
LEMMA CallStep ==
  ASSUME UploaderInv, NEW f \in Picks, Hash(f) \/ PutCall(f)
  PROVE  UploaderInv'
<1>1. PICK call \in {"init", "complete"} : Goes(f, "uploading", call)
  BY DEF Hash, PutCall
<1>2. PICK e \in FileEntry : /\ entry' = [entry EXCEPT ![f] = e]
                             /\ e.phase = "uploading" /\ e.call = call /\ e.id = entry[f].id
  BY <1>1, FileGoes DEF Phases, UploadCalls
<1>3. call = "complete" => entry[f].call = "put"
  <2>1. CASE Hash(f)
    <3>1. entry'[f].call = "init" /\ entry \in [Picks -> FileEntry]
      BY <2>1 DEF Hash, Goes, UploaderInv, UploaderTypeOK, FileEntry
    <3>2. entry'[f] = e
      BY <1>2, <3>1
    <3> QED BY <1>2, <3>1, <3>2
  <2>2. CASE PutCall(f)
    BY <2>2 DEF PutCall
  <2> QED BY <2>1, <2>2
<1>4. Tidy(e, latest[f], finished)
  BY <1>2, <1>3 DEF Tidy, UploaderInv
<1>5. UNCHANGED <<upload, intake, latest, finished, polls, losses>>
  BY DEF Hash, PutCall, ServerSame
<1> QED
  BY <1>2, <1>4, <1>5, OneFile, PageStep DEF UploaderInv, UploaderTypeOK

\* A row is created for a file, of which the page may hear or not.
LEMMA RowCreated ==
  ASSUME UploaderInv, NEW f \in Picks, Created(f), NEW e \in FileEntry,
         entry' = [entry EXCEPT ![f] = e], Tidy(e, NewId, finished),
         losses' \in 0..MaxLosses, UNCHANGED polls
  PROVE  UploaderInv'
<1>1. PICK u \in UploadIds : u = NewId
  BY DEF Created, Accepts, NewId, Unused
<1>2. /\ entry \in [Picks -> FileEntry] /\ upload \in [UploadIds -> UploadStates]
      /\ latest \in [Picks -> UploadIds \cup {NoUpload}]
  BY DEF UploaderInv, UploaderTypeOK
<1>3. /\ upload' = [upload EXCEPT ![u] = "queued"] /\ intake' = "uploaded"
      /\ latest' = [latest EXCEPT ![f] = u] /\ UNCHANGED finished /\ Tidy(e, u, finished)
  BY <1>1 DEF Created
<1>4. \A g \in Picks : Tidy(entry'[g], latest'[g], finished)
  BY <1>2, <1>3 DEF UploaderInv
<1>5. UploaderTypeOK'
  <2>1. upload' \in [UploadIds -> UploadStates] /\ intake' \in Intakes
    BY <1>2, <1>3 DEF UploadStates, Intakes
  <2>2. entry' \in [Picks -> FileEntry] /\ latest' \in [Picks -> UploadIds \cup {NoUpload}]
    BY <1>2, <1>3
  <2> QED
    BY <1>3, <2>1, <2>2 DEF UploaderInv, UploaderTypeOK
<1>6. upload' \in [UploadIds -> UploadStates] /\ Reports(upload', finished)
  BY <1>2, <1>3 DEF UploaderInv, Reports, UploadStates
<1> QED
  BY <1>3, <1>4, <1>5, <1>6 DEF UploaderInv

\* The answer of init: a file waits for "init" only while it is being sent.
LEMMA InitStep ==
  ASSUME UploaderInv, NEW f \in Picks, InitCall(f)
  PROVE  UploaderInv'
<1>1. /\ entry \in [Picks -> FileEntry] /\ Tidy(entry[f], latest[f], finished)
      /\ entry[f] \in FileEntry /\ entry[f].call = "init" /\ polls' = polls
      /\ losses' = losses /\ losses \in 0..MaxLosses
  BY DEF UploaderInv, UploaderTypeOK, InitCall
<1>2. CASE Goes(f, "error", "none") /\ ServerSame
  <2>1. PICK e \in FileEntry : /\ entry' = [entry EXCEPT ![f] = e]
                               /\ e.phase = "error" /\ e.call = "none"
    BY <1>2, FileGoes DEF Phases, UploadCalls
  <2>2. Tidy(e, latest[f], finished)
    BY <2>1 DEF Tidy
  <2> QED
    BY <1>1, <1>2, <2>1, <2>2, OneFile, PageStep DEF ServerSame
<1>3. CASE /\ Created(f)
           /\ entry' = [entry EXCEPT ![f].id = KeptId(f, NewId), ![f].call = "put"]
  <2>1. PICK u \in UploadIds : u = NewId
    BY <1>3 DEF Created, Accepts, NewId, Unused
  <2>2. PICK e \in FileEntry : e = [entry[f] EXCEPT !.id = u, !.call = "put"]
    BY <1>1 DEF FileEntry, UploadCalls
  <2>3. entry' = [entry EXCEPT ![f] = e]
    BY <1>1, <1>3, <2>1, <2>2 DEF FileEntry, KeptId
  <2>4. e.id = u /\ e.call = "put" /\ e.phase = "uploading"
    BY <1>1, <2>2 DEF FileEntry, Tidy
  <2>5. Tidy(e, u, finished)
    BY <2>4 DEF Tidy
  <2> QED
    BY <1>1, <1>3, <2>1, <2>3, <2>5, RowCreated
<1> QED
  BY <1>2, <1>3 DEF InitCall

\* The server's row of a file changes, and no upload is completed by that.
LEMMA ServerStep ==
  ASSUME UploaderInv, NEW u \in UploadIds, NEW state \in UploadStates \ {"completed"},
         NEW status \in Intakes, upload' = [upload EXCEPT ![u] = state], intake' = status,
         NEW f \in Picks, NEW e \in FileEntry, entry' = [entry EXCEPT ![f] = e],
         Tidy(e, latest[f], finished), losses' \in 0..MaxLosses,
         UNCHANGED <<polls, latest, finished>>
  PROVE  UploaderInv'
<1>1. entry' \in [Picks -> FileEntry] /\ \A g \in Picks : Tidy(entry'[g], latest[g], finished)
  BY OneFile
<1>2. upload' \in [UploadIds -> UploadStates] /\ Reports(upload', finished)
  BY DEF UploaderInv, UploaderTypeOK, Reports
<1> QED
  BY <1>1, <1>2 DEF UploaderInv, UploaderTypeOK

LEMMA CompleteStep ==
  ASSUME UploaderInv, NEW f \in Picks, CompleteCall(f)
  PROVE  UploaderInv'
<1>1. entry[f] \in FileEntry /\ Tidy(entry[f], latest[f], finished) /\ entry[f].call = "complete"
  BY DEF UploaderInv, UploaderTypeOK, CompleteCall
<1>2. entry[f].id = latest[f] /\ latest[f] \in UploadIds
  BY <1>1 DEF Tidy
<1>3. PICK e \in FileEntry : /\ entry' = [entry EXCEPT ![f] = e]
                             /\ e.phase = "processing" /\ e.call = "none" /\ e.id = entry[f].id
  BY FileGoes DEF CompleteCall, Phases, UploadCalls
<1>4. Tidy(e, latest[f], finished)
  BY <1>2, <1>3 DEF Tidy
<1> QED
  BY <1>2, <1>3, <1>4, ServerStep
     DEF CompleteCall, UploadStates, Intakes, UploaderInv, UploaderTypeOK

LEMMA FailsStep ==
  ASSUME UploaderAssumption, UploaderInv, NEW f \in Picks, CallFails(f)
  PROVE  UploaderInv'
<1>1. entry[f] \in FileEntry /\ Tidy(entry[f], latest[f], finished) /\ UNCHANGED polls
  BY DEF UploaderInv, UploaderTypeOK, CallFails
<1>2. losses' \in 0..MaxLosses
  BY DEF CallFails, Loss, UploaderInv, UploaderTypeOK, UploaderAssumption
<1>3. PICK e \in FileEntry : /\ entry' = [entry EXCEPT ![f] = e]
                             /\ e.phase = "error" /\ e.call = "none" /\ e.id = entry[f].id
  BY FileGoes DEF CallFails, Phases, UploadCalls
<1>4. Tidy(e, latest[f], finished)
  BY <1>3 DEF Tidy
<1>5. CASE ServerSame
  BY <1>1, <1>2, <1>3, <1>4, <1>5, OneFile, PageStep DEF ServerSame
<1>6. CASE Created(f)
  <2>1. Tidy(e, NewId, finished)
    BY <1>3 DEF Tidy
  <2> QED
    BY <1>1, <1>2, <1>3, <1>6, <2>1, RowCreated
<1>7. ASSUME entry[f].call = "complete", NEW state \in {"processing", "failed"},
             NEW status \in {"processing", "processing_failed"},
             upload' = [upload EXCEPT ![latest[f]] = state], intake' = status,
             UNCHANGED <<latest, finished>>
      PROVE  UploaderInv'
  <2>1. latest[f] \in UploadIds
    BY <1>1, <1>7 DEF Tidy
  <2> QED
    BY <1>1, <1>2, <1>3, <1>4, <1>7, <2>1, ServerStep DEF UploadStates, Intakes
<1> QED
  BY <1>5, <1>6, <1>7 DEF CallFails

\* What was completed once stays in the history.
LEMMA ProcessStep ==
  ASSUME UploaderInv, NEW u \in UploadIds, Process(u)
  PROVE  UploaderInv'
<1>1. /\ upload \in [UploadIds -> UploadStates] /\ finished \subseteq UploadIds
      /\ UNCHANGED <<entry, polls, losses, latest>>
  BY DEF UploaderInv, UploaderTypeOK, Process
<1>2. PICK outcome \in {"completed", "failed"} :
        /\ upload' = [upload EXCEPT ![u] = outcome]
        /\ finished' = IF outcome = "completed" THEN finished \cup {u} ELSE finished
  BY DEF Process
<1>3. intake' \in Intakes
  BY DEF Process, Intakes
<1>4. finished \subseteq finished' /\ finished' \subseteq UploadIds
  BY <1>1, <1>2
<1>5. upload' \in [UploadIds -> UploadStates] /\ Reports(upload', finished')
  BY <1>1, <1>2 DEF UploaderInv, Reports, UploadStates
<1>6. \A answer \in polls : Reports(answer, finished')
  BY <1>4 DEF UploaderInv, Reports
<1>7. \A f \in Picks : Tidy(entry[f], latest[f], finished')
  BY <1>4 DEF UploaderInv, Tidy
<1> QED
  BY <1>1, <1>3, <1>4, <1>5, <1>6, <1>7 DEF UploaderInv, UploaderTypeOK

\* A poll, however late its answer, tells nothing that was not the case once.
LEMMA PolledTidy ==
  ASSUME NEW e \in FileEntry, NEW last, Tidy(e, last, finished),
         NEW answer \in [UploadIds -> UploadStates], Reports(answer, finished)
  PROVE  Polled(e, answer) \in FileEntry /\ Tidy(Polled(e, answer), last, finished)
<1>1. CASE Polled(e, answer) = e
  BY <1>1
<1>2. CASE Polled(e, answer) # e
  <2>1. e.phase = "processing" /\ e.id # NoUpload
    BY <1>2 DEF Polled
  <2>2. e.id = last /\ e.id \in UploadIds /\ e.call \notin {"hash", "init", "put", "complete"}
    BY <2>1 DEF Tidy
  <2>3. CASE answer[e.id] = "completed"
    <3>1. PICK n \in FileEntry : n = [e EXCEPT !.phase = "ready"]
      BY DEF FileEntry, Phases
    <3>2. n.phase = "ready" /\ n.call = e.call
      BY <3>1 DEF FileEntry
    <3>3. Tidy(n, last, finished)
      BY <2>2, <2>3, <3>2 DEF Tidy, Reports
    <3> QED BY <2>1, <2>3, <3>1, <3>3 DEF Polled
  <2>4. CASE answer[e.id] = "failed"
    <3>1. PICK n \in FileEntry : n = [e EXCEPT !.phase = "error"]
      BY DEF FileEntry, Phases
    <3>2. n.phase = "error" /\ n.call = e.call
      BY <3>1 DEF FileEntry
    <3>3. Tidy(n, last, finished)
      BY <2>2, <3>2 DEF Tidy
    <3> QED BY <2>1, <2>4, <3>1, <3>3 DEF Polled
  <2> QED BY <1>2, <2>1, <2>3, <2>4 DEF Polled
<1> QED
  BY <1>1, <1>2

LEMMA PollStep ==
  ASSUME UploaderAssumption, UploaderInv, Poll \/ \E answer \in polls : PollAnswered(answer)
  PROVE  UploaderInv'
<1>1. /\ entry \in [Picks -> FileEntry] /\ losses \in 0..MaxLosses
      /\ \A f \in Picks : Tidy(entry[f], latest[f], finished)
  BY DEF UploaderInv, UploaderTypeOK
<1>2. CASE Poll
  BY <1>1, <1>2, PageStep DEF Poll, ServerSame
<1>3. ASSUME NEW answer \in polls, PollAnswered(answer)
      PROVE  UploaderInv'
  <2>1. polls' \subseteq polls /\ UNCHANGED <<upload, intake, latest, finished>>
    BY <1>3 DEF PollAnswered, ServerSame
  <2>2. CASE Loss /\ UNCHANGED entry
    <3>1. losses' \in 0..MaxLosses
      BY <1>1, <2>2 DEF Loss, UploaderAssumption
    <3> QED BY <1>1, <2>1, <2>2, <3>1, PageStep
  <2>3. CASE entry' = [f \in Picks |-> Polled(entry[f], answer)] /\ UNCHANGED losses
    <3>1. answer \in [UploadIds -> UploadStates] /\ Reports(answer, finished)
      BY <1>3 DEF UploaderInv
    <3>2. \A f \in Picks : /\ Polled(entry[f], answer) \in FileEntry
                           /\ Tidy(Polled(entry[f], answer), latest[f], finished)
      BY <1>1, <3>1, PolledTidy
    <3> QED BY <1>1, <2>1, <2>3, <3>2, PageStep
  <2> QED BY <1>3, <2>2, <2>3 DEF PollAnswered
<1> QED
  BY <1>2, <1>3

LEMMA UploaderStep ==
  ASSUME UploaderAssumption, UploaderInv, [UploaderNext]_uploaderVars
  PROVE  UploaderInv'
<1>1. CASE UNCHANGED uploaderVars
  BY <1>1 DEF uploaderVars, UploaderInv, UploaderTypeOK, Tidy, Reports
<1>2. ASSUME NEW f \in Picks, Call(f)
      PROVE  UploaderInv'
  BY <1>2, CallStep, InitStep, CompleteStep, FailsStep DEF Call
<1> QED
  BY <1>1, <1>2, FilesStep, ProcessStep, PollStep DEF UploaderNext

LEMMA UploaderStarts ==
  ASSUME UploaderAssumption, UploaderInit
  PROVE  UploaderInv
<1>1. UploaderTypeOK
  BY DEF UploaderInit, UploaderTypeOK, UploaderAssumption, NoEntry, FileEntry, Phases,
         UploadCalls, UploadStates, Intakes
<1>2. \A f \in Picks : Tidy(entry[f], latest[f], finished)
  BY NoEntryTidy DEF UploaderInit
<1>3. Reports(upload, finished) /\ polls = {}
  BY DEF UploaderInit, Reports
<1> QED
  BY <1>1, <1>2, <1>3 DEF UploaderInv

\* The hook never mixes up the uploads of its files, whatever fails and
\* however late the answers to its polls are (useFontUpload).
THEOREM UploaderTypes == UploaderSpec => []UploaderTypeOK
<1>1. UploaderInv => UploaderTypeOK
  BY DEF UploaderInv
<1> QED
  BY <1>1, UploaderAssumption, UploaderStarts, UploaderStep, PTL DEF UploaderSpec

THEOREM ReadyFilesFinished == UploaderSpec => []ReadyIsFinished
<1>1. UploaderInv => ReadyIsFinished
  BY DEF UploaderInv, Tidy, ReadyIsFinished
<1> QED
  BY <1>1, UploaderAssumption, UploaderStarts, UploaderStep, PTL DEF UploaderSpec

-----------------------------------------------------------------------------
(* The tabs.  While calls do not overlap and no answer is lost, at most    *)
(* one request of the browser is under way, beside those of other devices  *)
(* and staff, and the stored token is that of a session which others may   *)
(* have ended, but no tab has, or it is about to be replaced.              *)

Lasting(s) == session[s] \in {"live", "expired"} \/ s \in withdrawn
Over(s) == session[s] = "expired" \/ s \in withdrawn
Kept == stored = None \/ Lasting(stored)

\* No call is under way, or one alone; others do not refresh.
Resting == (\A t \in Tabs : Quiet(t)) /\ (\A p \in Api : ~At(p, "refresh_commit")) /\ Kept
Alone(t, p) ==
  /\ Calls(t) = {p} /\ ~At(p, "idle") /\ \A o \in Tabs \ {t} : Quiet(o)
  /\ \A q \in Api \ {p} : ~At(q, "refresh_commit")
  /\ tab[t].call = None \/ tab[t].silent = {}

\* How far a call has come: a refresh, a login or registration, a logout or a new
\* password.
Refreshing(p) ==
  \/ At(p, "refresh_commit")
  \/ At(p, "reply") /\ handler[p].granted # None /\ Lasting(handler[p].granted)
  \/ At(p, "reply") /\ handler[p].granted = None /\ stored # None /\ Over(stored)
Entering(p) ==
  /\ Kept
  /\ \/ handler[p].at \in {"create_user", "open_session"}
     \/ /\ handler[p].at \in {"issue_consume", "issue_create", "reply"}
        /\ handler[p].granted # None => Lasting(handler[p].granted)
Denied(p) == At(p, "reply") /\ handler[p].granted = None
Leaving(p) == handler[p].at \in {"revoke_commit", "change_commit"} \/ Denied(p)

Serves(t, p) ==
  /\ Alone(t, p)
  /\ p \in tab[t].silent \/ tab[t].what = "boot" => Refreshing(p)
  /\ tab[t].what = "login" => Entering(p)
  /\ tab[t].what \in {"logout", "change"} => Leaving(p)
  /\ tab[t].what = "leaving" => Denied(p) /\ Kept

Orderly == clean => Resting \/ \E t \in Tabs, p \in Api : Serves(t, p)

\* A tab waits for a call exactly while it has one.
Waitless == {"none", "refused", "left"}
ClientTyped ==
  /\ ClientTypeOK
  /\ \A t \in Tabs : tab[t].call = None <=> tab[t].what \in Waitless

\* The records that a tab takes.
LEMMA AskedForm ==
  ASSUME NEW r \in Tab, NEW p \in Api \cup {None}, NEW w \in Whats
  PROVE  LET n == [r EXCEPT !.call = p, !.what = w] IN
         /\ n \in Tab /\ n.call = p /\ n.what = w
         /\ n.signedIn = r.signedIn /\ n.silent = r.silent /\ n.fresh = r.fresh
BY DEF Tab

LEMMA ClearedForm ==
  ASSUME NEW r \in Tab
  PROVE  /\ Cleared(r) \in Tab /\ Cleared(r).signedIn = FALSE
         /\ Cleared(r).call = r.call /\ Cleared(r).silent = r.silent
         /\ Cleared(r).what = r.what \/ (r.what \in Waitless /\ Cleared(r).what \in Waitless)
BY DEF Tab, Cleared, Whats, Waitless

LEMMA GrantedForm ==
  ASSUME NEW r \in Tab
  PROVE  /\ Granted(r) \in Tab /\ Granted(r).signedIn = TRUE
         /\ Granted(r).call = r.call /\ Granted(r).what = r.what /\ Granted(r).silent = r.silent
BY DEF Tab, Granted

LEMMA SilentForm ==
  ASSUME NEW r \in Tab, NEW calls \in SUBSET Api
  PROVE  LET n == [r EXCEPT !.silent = calls] IN
         /\ n \in Tab /\ n.silent = calls /\ n.what = r.what
         /\ n.signedIn = r.signedIn /\ n.call = r.call /\ n.fresh = r.fresh
BY DEF Tab

LEMMA FreshForm ==
  ASSUME NEW r \in Tab, NEW b \in BOOLEAN
  PROVE  LET n == [r EXCEPT !.fresh = b] IN
         /\ n \in Tab /\ n.fresh = b
         /\ n.signedIn = r.signedIn /\ n.call = r.call /\ n.what = r.what /\ n.silent = r.silent
BY DEF Tab

LEMMA BlankForm ==
  /\ Blank \in Tab /\ Blank.signedIn = FALSE /\ Blank.call = None /\ Blank.what = "none"
  /\ Blank.silent = {}
BY DEF Tab, Blank, Whats

\* The browser only makes requests that AuthSessions has.
LEMMA BrowserRequests ==
  ASSUME ClientTypeOK, [ClientNext]_<<authVars, handler, clientVars>>
  PROVE  [AuthNext]_<<authVars, handler>>
<1>1. stored \in Sessions \cup {None} /\ tab \in [Tabs -> Tab]
  BY DEF ClientTypeOK
<1>2. ASSUME NEW p \in Api, Reply(p) \/ SessionRequest(p) \/ AuthStep(p)
      PROVE  AuthNext
  BY <1>2 DEF AuthNext
<1>3. ASSUME NEW t \in Tabs, Load(t) \/ Refresh(t) \/ LogOut(t)
      PROVE  [AuthNext]_<<authVars, handler>>
  BY <1>1, <1>2, <1>3 DEF Load, Refresh, LogOut, SessionRequest
<1>4. ASSUME NEW t \in Tabs, SignIn(t) \/ ChangePassword(t)
      PROVE  [AuthNext]_<<authVars, handler>>
  BY <1>2, <1>4 DEF SignIn, ChangePassword, SessionRequest
<1>5. ASSUME NEW t \in Tabs, Answered(t)
      PROVE  [AuthNext]_<<authVars, handler>>
  <2>1. tab[t].call \in Api
    BY <1>1, <1>5 DEF Answered, Tab
  <2> QED BY <1>2, <1>5, <2>1 DEF Answered, Reply
<1>6. ASSUME NEW t \in Tabs, NEW p \in Api, Refreshed(t, p)
      PROVE  [AuthNext]_<<authVars, handler>>
  BY <1>2, <1>6 DEF Refreshed, Receive, Reply
<1>7. ASSUME NEW t \in Tabs, Lost(t) \/ AccessExpires(t) \/ Left(t)
      PROVE  [AuthNext]_<<authVars, handler>>
  BY <1>7 DEF Lost, AccessExpires, Left
<1>8. ASSUME NEW p \in Api, HandlerStep(p) \/ Reply(p)
      PROVE  [AuthNext]_<<authVars, handler>>
  BY <1>2, <1>8 DEF HandlerStep
<1>9. CASE Elsewhere
  <2>1. "reset" \in Kinds
    BY DEF Kinds
  <2>2. CASE RevokeUserSessions
    BY <2>2 DEF AuthNext
  <2>3. ASSUME NEW p \in Api,
               ChangeBegin(p) \/ TokenRequest(p, "reset") \/ \E s \in Sessions : RevokeBegin(p, s)
        PROVE  AuthNext
    <3>1. CASE TokenRequest(p, "reset")
      BY <2>1, <3>1 DEF AuthNext
    <3>2. CASE ChangeBegin(p) \/ \E s \in Sessions : RevokeBegin(p, s)
      BY <1>2, <3>2 DEF SessionRequest
    <3> QED BY <2>3, <3>1, <3>2
  <2> QED BY <1>9, <2>2, <2>3 DEF Elsewhere
<1>10. ASSUME NEW s \in Sessions, ExpireSession(s)
       PROVE  AuthNext
  BY <1>10 DEF AuthNext
<1>11. CASE UNCHANGED <<authVars, handler, clientVars>>
  BY <1>11
<1> QED
  BY <1>3, <1>4, <1>5, <1>6, <1>7, <1>8, <1>9, <1>10, <1>11 DEF ClientNext

BrowserInv == Typed /\ ClientTyped /\ Orderly

LEMMA TabTypes ==
  ASSUME ClientTyped, NEW t \in Tabs
  PROVE  /\ tab[t] \in Tab /\ tab[t].silent \in SUBSET Api /\ tab[t].what \in Whats
         /\ tab[t].call \in Api \cup {None}
         /\ tab[t].call = None <=> tab[t].what \in Waitless
         /\ stored \in Sessions \cup {None} /\ withdrawn \in SUBSET Sessions
BY DEF ClientTyped, ClientTypeOK, Tab

LEMMA TabStep ==
  ASSUME ClientTyped, NEW t \in Tabs, NEW r \in Tab, SetTab(t, r),
         r.call = None <=> r.what \in Waitless,
         stored' \in Sessions \cup {None}, clean' \in BOOLEAN, UNCHANGED withdrawn
  PROVE  ClientTyped' /\ tab'[t] = r /\ \A o \in Tabs : o # t => tab'[o] = tab[o]
<1>1. tab \in [Tabs -> Tab] /\ \A o \in Tabs : tab[o].call = None <=> tab[o].what \in Waitless
  BY DEF ClientTyped, ClientTypeOK
<1>2. tab' \in [Tabs -> Tab] /\ tab'[t] = r /\ \A o \in Tabs : o # t => tab'[o] = tab[o]
  BY <1>1 DEF SetTab
<1>3. \A o \in Tabs : tab'[o].call = None <=> tab'[o].what \in Waitless
  BY <1>1, <1>2
<1>4. withdrawn' \in SUBSET Sessions
  BY DEF ClientTyped, ClientTypeOK
<1> QED
  BY <1>2, <1>3, <1>4 DEF ClientTyped, ClientTypeOK

\* A call that begins without overlapping finds the browser at rest.
LEMMA BeginsAtRest ==
  ASSUME ClientTyped, Orderly, clean, NEW t \in Tabs, ~Overlap(t, Calls(t))
  PROVE  Resting
<1>1. \A o \in Tabs : Calls(o) = {}
  BY DEF Overlap, Quiet
<1> QED
  BY <1>1 DEF Orderly, Serves, Alone

LEMMA BooleanClean ==
  ASSUME ClientTyped, NEW t \in Tabs, clean' = (clean /\ ~Overlap(t, Calls(t)))
  PROVE  clean' \in BOOLEAN /\ (clean' => clean /\ ~Overlap(t, Calls(t)))
BY Zenon DEF ClientTyped, ClientTypeOK

\* A call begins: from now on it is the only one.
LEMMA CallBegins ==
  ASSUME BrowserAssumption, Resting, NEW t \in Tabs, NEW p \in Api,
         \A q \in Api \ {p} : handler'[q] = handler[q], handler'[p].at # "idle",
         \A o \in Tabs : o # t => tab'[o] = tab[o],
         \/ tab'[t].call = p /\ tab'[t].silent = {}
         \/ tab'[t].call = None /\ tab'[t].silent = {p}
  PROVE  Alone(t, p)'
<1>1. p # None
  BY DEF BrowserAssumption
<1>2. Calls(t)' = {p} /\ ~At(p, "idle")'
  BY <1>1 DEF Calls, At
<1>3. \A o \in Tabs \ {t} : Quiet(o)'
  BY DEF Resting, Quiet, Calls
<1>4. \A q \in Api \ {p} : ~At(q, "refresh_commit")'
  BY DEF At, Resting
<1>5. (tab[t].call = None \/ tab[t].silent = {})'
  OBVIOUS
<1> QED
  BY <1>2, <1>3, <1>4, <1>5 DEF Alone

\* A refresh that begins while the stored session lasts.
LEMMA RefreshServes ==
  ASSUME BrowserAssumption, Typed, ClientTyped, Resting, stored # None,
         UNCHANGED <<stored, withdrawn>>,
         NEW t \in Tabs, NEW p \in Api, RefreshBegin(p, stored),
         \A o \in Tabs : o # t => tab'[o] = tab[o],
         \/ tab'[t].call = p /\ tab'[t].what = "boot" /\ tab'[t].silent = {}
         \/ tab'[t].call = None /\ tab'[t].what \in Waitless /\ tab'[t].silent = {p}
  PROVE  Serves(t, p)'
<1>1. Lasting(stored) /\ UNCHANGED session
  BY DEF Resting, Kept, RefreshBegin, authVars, sessions
<1>2. ASSUME NEW h, Begin(p, h), h.at # "idle"
      PROVE  Alone(t, p)' /\ handler'[p] = h
  <2>1. handler'[p] = h /\ \A q \in Api \ {p} : handler'[q] = handler[q]
    BY <1>2 DEF Begin, Suspend, Typed
  <2> QED BY <1>2, <2>1, CallBegins
<1>3. ASSUME Alone(t, p)', Refreshing(p)'
      PROVE  Serves(t, p)'
  BY <1>3 DEF Serves, Waitless
<1>4. CASE Usable(stored)
  <2>1. PICK h : h = [at |-> "refresh_commit", session |-> stored]
    OBVIOUS
  <2>2. Begin(p, h) /\ h.at = "refresh_commit"
    BY <1>4, <2>1 DEF RefreshBegin
  <2>3. Refreshing(p)'
    BY <1>2, <2>2 DEF Refreshing, At
  <2> QED BY <1>2, <1>3, <2>2, <2>3
<1>5. CASE ~Usable(stored)
  <2>1. PICK h : h = Replying(None)
    OBVIOUS
  <2>2. Begin(p, h) /\ h.at = "reply" /\ h.granted = None
    BY <1>5, <2>1 DEF RefreshBegin, Replying
  <2>3. Over(stored)'
    BY <1>1, <1>5 DEF Over, Lasting, Usable
  <2>4. Refreshing(p)'
    BY <1>2, <2>2, <2>3 DEF Refreshing, At
  <2> QED BY <1>2, <1>3, <2>2, <2>4
<1> QED
  BY <1>4, <1>5

\* A tab changes while calls and handlers stay what they are.
LEMMA TokenStep ==
  ASSUME ClientTyped, Orderly, NEW t \in Tabs, NEW r \in Tab,
         tab'[t] = r, \A o \in Tabs : o # t => tab'[o] = tab[o],
         r.call = tab[t].call, r.silent = tab[t].silent,
         r.what = tab[t].what \/ (tab[t].what \in Waitless /\ r.what \in Waitless),
         UNCHANGED <<authVars, handler, stored, clean, withdrawn>>
  PROVE  Orderly'
<1>1. \A o \in Tabs : /\ tab'[o].call = tab[o].call /\ tab'[o].silent = tab[o].silent
                      /\ \/ tab'[o].what = tab[o].what
                         \/ tab[o].what \in Waitless /\ tab'[o].what \in Waitless
  OBVIOUS
<1>2. \A o \in Tabs : Calls(o)' = Calls(o)
  BY <1>1 DEF Calls
<1>3. UNCHANGED session
  BY DEF authVars, sessions
<1>4. Resting => Resting'
  BY <1>2, <1>3 DEF Resting, Quiet, Kept, Lasting, At
<1>5. ASSUME NEW o \in Tabs, NEW p \in Api, Serves(o, p)
      PROVE  Serves(o, p)'
  <2>1. Alone(o, p)'
    BY <1>1, <1>2, <1>5 DEF Serves, Alone, Quiet, At
  <2>2. (Refreshing(p) => Refreshing(p)') /\ (Entering(p) => Entering(p)') /\ (Leaving(p) => Leaving(p)')
        /\ (Denied(p) => Denied(p)') /\ (Kept => Kept')
    BY <1>3 DEF Refreshing, Entering, Leaving, Denied, Kept, Lasting, Over, At
  <2>3. tab'[o].what \notin Waitless => tab'[o].what = tab[o].what
    BY <1>1
  <2> QED BY <1>1, <1>5, <2>1, <2>2, <2>3 DEF Serves, Waitless
<1> QED
  BY <1>4, <1>5 DEF Orderly

LEMMA LoadStep ==
  ASSUME BrowserAssumption, BrowserInv, NEW t \in Tabs, Load(t)
  PROVE  ClientTyped' /\ Orderly'
<1>1. clean' \in BOOLEAN /\ (clean' => clean /\ ~Overlap(t, Calls(t))) /\ UNCHANGED <<stored, withdrawn>>
  BY BooleanClean DEF Load, BrowserInv
<1>2. clean' => Resting
  BY <1>1, BeginsAtRest DEF BrowserInv
<1>3. stored' \in Sessions \cup {None} /\ ClientTyped /\ Typed
  BY <1>1, TabTypes DEF BrowserInv
<1>4. CASE stored = None
  <2>1. SetTab(t, Blank) /\ UNCHANGED <<authVars, handler>>
    BY <1>4 DEF Load
  <2>2. ClientTyped' /\ tab'[t] = Blank /\ \A o \in Tabs : o # t => tab'[o] = tab[o]
    BY <1>1, <1>3, <2>1, TabStep, BlankForm DEF Waitless
  <2>3. Calls(t)' = {}
    BY <2>2, BlankForm DEF Calls
  <2>4. clean' => Resting'
    BY <1>1, <1>2, <1>4, <2>1, <2>2, <2>3 DEF Resting, Quiet, Calls, Kept, At
  <2> QED BY <2>2, <2>4 DEF Orderly
<1>5. CASE stored # None
  <2>1. PICK p \in Api : /\ RefreshBegin(p, stored)
                         /\ SetTab(t, [Blank EXCEPT !.call = p, !.what = "boot"])
    BY <1>5 DEF Load
  <2>2. PICK r \in Tab : r = [Blank EXCEPT !.call = p, !.what = "boot"]
    <3>1. "boot" \in Whats
      BY DEF Whats
    <3>2. [Blank EXCEPT !.call = p, !.what = "boot"] \in Tab
      BY <3>1 DEF Blank, Tab
    <3> QED BY <3>2
  <2>3. r.call = p /\ r.what = "boot" /\ r.silent = {}
    BY <2>2 DEF Blank
  <2>4. p # None
    BY DEF BrowserAssumption
  <2>5. ClientTyped' /\ tab'[t] = r /\ \A o \in Tabs : o # t => tab'[o] = tab[o]
    BY <1>1, <1>3, <2>1, <2>2, <2>3, <2>4, TabStep DEF Waitless
  <2>6. clean' => Serves(t, p)'
    BY <1>1, <1>2, <1>3, <1>5, <2>1, <2>3, <2>5, RefreshServes
  <2> QED BY <2>5, <2>6 DEF Orderly
<1> QED
  BY <1>4, <1>5

LEMMA RefreshStep ==
  ASSUME BrowserAssumption, BrowserInv, NEW t \in Tabs, Refresh(t)
  PROVE  ClientTyped' /\ Orderly'
<1>1. UNCHANGED <<stored, withdrawn>> /\ tab[t].silent = {}
  BY DEF Refresh
<1>2. stored' \in Sessions \cup {None} /\ ClientTyped /\ Typed /\ tab[t] \in Tab
      /\ (tab[t].call = None <=> tab[t].what \in Waitless) /\ tab[t].what \in Whats
  BY <1>1, TabTypes DEF BrowserInv
<1>3. CASE stored = None
  <2>1. SetTab(t, Cleared(tab[t])) /\ clean' = clean /\ UNCHANGED <<authVars, handler>>
    BY <1>3 DEF Refresh
  <2>2. clean' \in BOOLEAN
    BY <2>1 DEF BrowserInv, ClientTyped, ClientTypeOK
  <2>3. PICK r \in Tab : r = Cleared(tab[t])
    BY <1>2, ClearedForm
  <2>4. /\ r.call = tab[t].call /\ r.silent = tab[t].silent
        /\ r.what = tab[t].what \/ (tab[t].what \in Waitless /\ r.what \in Waitless)
    BY <1>2, <2>3, ClearedForm
  <2>5. ClientTyped' /\ tab'[t] = r /\ \A o \in Tabs : o # t => tab'[o] = tab[o]
    BY <1>1, <1>2, <2>1, <2>2, <2>3, <2>4, TabStep
  <2> QED BY <1>1, <1>2, <2>1, <2>4, <2>5, TokenStep DEF BrowserInv
<1>4. CASE stored # None
  <2>1. PICK p \in Api :
          /\ RefreshBegin(p, stored)
          /\ SetTab(t, [tab[t] EXCEPT !.silent = @ \cup {p},
                                      !.what = IF @ = "refused" THEN "left" ELSE @])
    BY <1>4 DEF Refresh
  <2>2. clean' \in BOOLEAN /\ (clean' => clean /\ ~Overlap(t, Calls(t)))
    BY <1>2, <1>4, BooleanClean DEF Refresh
  <2>3. clean' => Resting
    BY <2>2, BeginsAtRest DEF BrowserInv
  <2>4. PICK w \in Whats : w = IF tab[t].what = "refused" THEN "left" ELSE tab[t].what
    BY <1>2 DEF Whats
  <2>5. w = tab[t].what \/ (tab[t].what \in Waitless /\ w \in Waitless)
    BY <2>4 DEF Waitless
  <2>6. PICK r \in Tab : r = [tab[t] EXCEPT !.silent = {p}, !.what = w]
    BY <1>2 DEF Tab
  <2>7. r.silent = {p} /\ r.call = tab[t].call /\ r.what = w
    BY <1>2, <2>6 DEF Tab
  <2>8. SetTab(t, r)
    BY <1>1, <2>1, <2>4, <2>6 DEF SetTab
  <2>9. ClientTyped' /\ tab'[t] = r /\ \A o \in Tabs : o # t => tab'[o] = tab[o]
    BY <1>1, <1>2, <2>2, <2>5, <2>7, <2>8, TabStep
  <2>10. ASSUME clean'
         PROVE  Serves(t, p)'
    <3>1. Calls(t) = {}
      BY <2>3, <2>10 DEF Resting, Quiet
    <3>2. tab[t].call = None /\ tab[t].what \in Waitless
      BY <1>2, <3>1 DEF Calls
    <3>3. tab'[t].call = None /\ tab'[t].what \in Waitless /\ tab'[t].silent = {p}
      BY <2>5, <2>7, <2>9, <3>2
    <3> QED
      BY <1>1, <1>2, <1>4, <2>1, <2>3, <2>9, <2>10, <3>3, RefreshServes
  <2> QED BY <2>9, <2>10 DEF Orderly
<1> QED
  BY <1>3, <1>4

\* A login, a registration, a logout or a new password: a call that the user
\* waits for begins.
LEMMA AskStep ==
  ASSUME BrowserAssumption, BrowserInv, NEW t \in Tabs, NEW p \in Api, NEW w \in Whats \ Waitless,
         NEW h, Begin(p, h), h.at # "idle", UNCHANGED authVars,
         SetTab(t, [tab[t] EXCEPT !.call = p, !.what = w]),
         clean' = (clean /\ ~Overlap(t, Calls(t))), UNCHANGED <<stored, withdrawn>>,
         w # "boot",
         Resting => /\ w = "login" => h.at \in {"create_user", "open_session"}
                    /\ w \in {"logout", "change"} =>
                         \/ h.at \in {"revoke_commit", "change_commit"}
                         \/ h.at = "reply" /\ h.granted = None
                    /\ w = "leaving" => h.at = "reply" /\ h.granted = None
  PROVE  ClientTyped' /\ Orderly'
<1>1. clean' \in BOOLEAN /\ (clean' => clean /\ ~Overlap(t, Calls(t)))
  BY BooleanClean DEF BrowserInv
<1>2. clean' => Resting
  BY <1>1, BeginsAtRest DEF BrowserInv
<1>3. stored' \in Sessions \cup {None} /\ tab[t] \in Tab /\ Typed /\ p # None
  BY TabTypes DEF BrowserInv, BrowserAssumption
<1>4. PICK r \in Tab : r = [tab[t] EXCEPT !.call = p, !.what = w]
  BY <1>3, AskedForm
<1>5. r.call = p /\ r.what = w /\ r.silent = tab[t].silent
  BY <1>3, <1>4 DEF Tab
<1>6. ClientTyped' /\ tab'[t] = r /\ \A o \in Tabs : o # t => tab'[o] = tab[o]
  BY <1>1, <1>3, <1>4, <1>5, TabStep DEF BrowserInv
<1>7. ASSUME clean'
      PROVE  Serves(t, p)'
  <2>1. tab[t].silent = {} /\ Kept /\ Resting
    BY <1>2, <1>7 DEF Resting, Quiet, Calls
  <2>2. handler'[p] = h /\ \A q \in Api \ {p} : handler'[q] = handler[q]
    BY <1>3 DEF Begin, Suspend, Typed
  <2>3. Alone(t, p)'
    BY <1>5, <1>6, <2>1, <2>2, CallBegins
  <2>4. Kept'
    BY <2>1 DEF Kept, Lasting, authVars, sessions
  <2>5. w = "login" => Entering(p)'
    BY <2>1, <2>2, <2>4 DEF Entering
  <2>6. /\ w \in {"logout", "change"} => Leaving(p)'
        /\ w = "leaving" => Denied(p)'
    BY <2>1, <2>2 DEF Leaving, Denied, At
  <2> QED BY <1>5, <1>6, <2>1, <2>3, <2>4, <2>5, <2>6 DEF Serves
<1> QED
  BY <1>6, <1>7 DEF Orderly

LEMMA SignInStep ==
  ASSUME BrowserAssumption, BrowserInv, NEW t \in Tabs, SignIn(t)
  PROVE  ClientTyped' /\ Orderly'
<1>1. PICK p \in Api : /\ LoginBegin(p) \/ RegisterBegin(p)
                       /\ SetTab(t, [tab[t] EXCEPT !.call = p, !.what = "login"])
  BY DEF SignIn
<1>2. PICK h : Begin(p, h) /\ h.at \in {"create_user", "open_session"}
  BY <1>1 DEF LoginBegin, RegisterBegin
<1>3. "login" \in Whats \ Waitless
  BY DEF Whats, Waitless
<1>4. UNCHANGED authVars
  BY <1>1 DEF LoginBegin, RegisterBegin
<1>5. clean' = (clean /\ ~Overlap(t, Calls(t))) /\ UNCHANGED <<stored, withdrawn>>
  BY DEF SignIn
<1> QED
  BY <1>1, <1>2, <1>3, <1>4, <1>5, AskStep

LEMMA ChangeStep ==
  ASSUME BrowserAssumption, BrowserInv, NEW t \in Tabs, ChangePassword(t)
  PROVE  ClientTyped' /\ Orderly'
<1>1. PICK p \in Api : ChangeBegin(p) /\ SetTab(t, [tab[t] EXCEPT !.call = p, !.what = "change"])
  BY DEF ChangePassword
<1>2. PICK h : Begin(p, h) /\ h.at = "change_commit"
  BY <1>1 DEF ChangeBegin
<1>3. "change" \in Whats \ Waitless
  BY DEF Whats, Waitless
<1>4. UNCHANGED authVars
  BY <1>1 DEF ChangeBegin
<1>5. clean' = (clean /\ ~Overlap(t, Calls(t))) /\ UNCHANGED <<stored, withdrawn>>
  BY DEF ChangePassword
<1> QED
  BY <1>1, <1>2, <1>3, <1>4, <1>5, AskStep

LEMMA LogOutStep ==
  ASSUME BrowserAssumption, BrowserInv, NEW t \in Tabs, LogOut(t)
  PROVE  ClientTyped' /\ Orderly'
<1>1. clean' = (clean /\ ~Overlap(t, Calls(t))) /\ UNCHANGED <<stored, withdrawn>>
  BY DEF LogOut
<1>2. CASE stored = None
  <2>1. clean' \in BOOLEAN /\ (clean' => clean /\ ~Overlap(t, Calls(t)))
    BY <1>1, BooleanClean DEF BrowserInv
  <2>2. clean' => Resting
    BY <2>1, BeginsAtRest DEF BrowserInv
  <2>3. /\ stored' \in Sessions \cup {None} /\ tab[t] \in Tab
        /\ tab[t].call = None <=> tab[t].what \in Waitless
    BY <1>1, TabTypes DEF BrowserInv
  <2>4. SetTab(t, Cleared(tab[t])) /\ UNCHANGED <<authVars, handler>>
    BY <1>2 DEF LogOut
  <2>5. PICK r \in Tab : r = Cleared(tab[t])
    BY <2>3, ClearedForm
  <2>6. /\ r.call = tab[t].call /\ r.silent = tab[t].silent
        /\ r.what = tab[t].what \/ (tab[t].what \in Waitless /\ r.what \in Waitless)
    BY <2>3, <2>5, ClearedForm
  <2>7. ClientTyped' /\ tab'[t] = r /\ \A o \in Tabs : o # t => tab'[o] = tab[o]
    BY <1>1, <2>1, <2>3, <2>4, <2>5, <2>6, TabStep DEF BrowserInv
  <2>8. \A o \in Tabs : Calls(o)' = Calls(o)
    BY <2>6, <2>7 DEF Calls
  <2>9. clean' => Resting'
    BY <1>1, <1>2, <2>2, <2>4, <2>8 DEF Resting, Quiet, Kept, At
  <2> QED BY <2>7, <2>9 DEF Orderly
<1>3. CASE stored # None
  <2>1. PICK p \in Api : /\ LogoutBegin(p, stored)
                         /\ SetTab(t, [tab[t] EXCEPT !.call = p,
                              !.what = IF session[stored] = "expired" THEN "leaving" ELSE "logout"])
    BY <1>3 DEF LogOut
  <2>2. PICK w : w = IF session[stored] = "expired" THEN "leaving" ELSE "logout"
    OBVIOUS
  <2>3. w \in Whats \ Waitless /\ w \in {"leaving", "logout"}
    BY <2>2 DEF Whats, Waitless
  <2>4. PICK h : /\ Begin(p, h)
                 /\ \/ h.at = "revoke_commit" /\ Usable(stored)
                    \/ h.at = "reply" /\ h.granted = None
    BY <2>1 DEF LogoutBegin, Replying
  <2>5. w = "leaving" => h.at = "reply" /\ h.granted = None
    BY <2>2, <2>4 DEF Usable
  <2>6. UNCHANGED authVars
    BY <2>1 DEF LogoutBegin
  <2>7. SetTab(t, [tab[t] EXCEPT !.call = p, !.what = w])
    BY <2>1, <2>2
  <2> QED
    BY <1>1, <2>3, <2>4, <2>5, <2>6, <2>7, AskStep
<1> QED
  BY <1>2, <1>3

LEMMA AccessStep ==
  ASSUME BrowserInv, NEW t \in Tabs, AccessExpires(t)
  PROVE  ClientTyped' /\ Orderly'
<1>1. /\ UNCHANGED <<authVars, handler, stored, clean, withdrawn>> /\ clean \in BOOLEAN
  BY DEF BrowserInv, ClientTyped, ClientTypeOK, AccessExpires
<1>2. /\ tab[t] \in Tab /\ stored \in Sessions \cup {None}
      /\ tab[t].call = None <=> tab[t].what \in Waitless
  BY TabTypes DEF BrowserInv
<1>3. PICK r \in Tab : r = [tab[t] EXCEPT !.fresh = FALSE]
  BY <1>2, FreshForm
<1>4. r.call = tab[t].call /\ r.what = tab[t].what /\ r.silent = tab[t].silent
  BY <1>2, <1>3 DEF Tab
<1>5. ClientTyped' /\ tab'[t] = r /\ \A o \in Tabs : o # t => tab'[o] = tab[o]
  BY <1>1, <1>2, <1>3, <1>4, TabStep DEF BrowserInv, AccessExpires
<1> QED
  BY <1>1, <1>4, <1>5, TokenStep DEF BrowserInv

LEMMA RepliesForm ==
  ASSUME NEW h \in AuthHandler, h.at \in {"issue_consume", "issue_create", "reply"}
  PROVE  h.granted \in Sessions \cup {None}
<1>1. h.at = "reply" => h.granted \in Sessions \cup {None}
  BY DEF AuthHandler, Idle
<1> QED
  BY <1>1, HandlerFields

\* The only call is answered: the browser is at rest again.
LEMMA CallEnds ==
  ASSUME Typed, NEW t \in Tabs, NEW p \in Api, Alone(t, p), Finish(p), UNCHANGED <<authVars, withdrawn>>,
         tab'[t].call = None, tab'[t].silent = {}, \A o \in Tabs : o # t => tab'[o] = tab[o],
         stored' = None \/ Lasting(stored')
  PROVE  Resting'
<1>1. \A o \in Tabs : Calls(o)' = {}
  BY DEF Alone, Quiet, Calls
<1>2. \A q \in Api : ~At(q, "refresh_commit")'
  BY DEF Alone, Finish, Suspend, Typed, At, Idle
<1>3. UNCHANGED session
  BY DEF authVars, sessions
<1> QED
  BY <1>1, <1>2, <1>3 DEF Resting, Quiet, Kept, Lasting

\* What the answer to the only call gives the browser.
LEMMA AnswerLasts ==
  ASSUME BrowserInv, clean, NEW t \in Tabs, NEW p \in Calls(t), At(p, "reply")
  PROVE  /\ Serves(t, p)
         /\ handler[p].granted # None => Lasting(handler[p].granted)
         /\ tab[t].what \in {"login", "leaving"} => Kept
         /\ handler[p].granted = None /\ (p \in tab[t].silent \/ tab[t].what = "boot") =>
              stored # None /\ Over(stored)
<1>1. Serves(t, p)
  BY DEF BrowserInv, Orderly, Resting, Serves, Alone, Quiet
<1>2. p \in tab[t].silent \/ (p = tab[t].call /\ p # None)
  BY DEF Calls
<1>3. p \in tab[t].silent \/ tab[t].what \in {"boot", "login", "logout", "change", "leaving"}
  BY <1>2, TabTypes DEF BrowserInv, Whats, Waitless
<1>4. handler[p].granted # None => Lasting(handler[p].granted)
  BY <1>1, <1>3 DEF Serves, Refreshing, Entering, Leaving, Denied, At
<1>5. tab[t].what \in {"login", "leaving"} => Kept
  BY <1>1 DEF Serves, Entering
<1>6. handler[p].granted = None /\ (p \in tab[t].silent \/ tab[t].what = "boot") =>
        stored # None /\ Over(stored)
  BY <1>1 DEF Serves, Refreshing, At
<1> QED
  BY <1>1, <1>4, <1>5, <1>6

\* How a tab goes on after the answer of the server.
LEMMA AnswerForm ==
  ASSUME ClientTyped, NEW t \in Tabs, Answered(t)
  PROVE  \E n \in Tab, p \in Api :
           /\ SetTab(t, n) /\ n.call = None /\ n.what \in Waitless /\ n.silent = tab[t].silent
           /\ p = tab[t].call /\ p # None /\ At(p, "reply") /\ Finish(p)
           /\ UNCHANGED <<authVars, clean, withdrawn>>
           /\ \/ handler[p].granted # None /\ stored' = handler[p].granted /\ n.signedIn
              \/ /\ handler[p].granted = None /\ tab[t].what \in {"login", "leaving"}
                 /\ UNCHANGED stored /\ n.signedIn = tab[t].signedIn
              \/ /\ handler[p].granted = None /\ tab[t].what \notin {"login", "leaving"}
                 /\ stored' = None
<1>1. tab[t] \in Tab /\ tab[t].call \in Api \cup {None}
  BY TabTypes
<1>2. PICK p \in Api : p = tab[t].call
  BY <1>1 DEF Answered
<1>3. p # None /\ At(p, "reply") /\ Finish(p) /\ UNCHANGED <<authVars, clean, withdrawn>>
  BY <1>2 DEF Answered
<1>4. PICK r \in Tab : r = [tab[t] EXCEPT !.call = None, !.what = "none"]
  BY <1>1, AskedForm DEF Whats
<1>5. r.call = None /\ r.what = "none" /\ r.silent = tab[t].silent /\ r.signedIn = tab[t].signedIn
  BY <1>1, <1>4 DEF Tab
<1> DEFINE s == handler[p].granted
           w == IF tab[t].silent = {} THEN "refused" ELSE "left"
<1>6. \/ s # None /\ SetTab(t, Granted(r)) /\ stored' = s
      \/ s = None /\ tab[t].what = "login" /\ SetTab(t, r) /\ UNCHANGED stored
      \/ /\ s = None /\ tab[t].what = "leaving" /\ UNCHANGED stored
         /\ SetTab(t, [r EXCEPT !.what = w])
      \/ s = None /\ tab[t].what \notin {"login", "leaving"} /\ SetTab(t, Cleared(r)) /\ stored' = None
  BY <1>2, <1>4 DEF Answered
<1>7. "none" \in Waitless /\ w \in Waitless /\ w \in Whats
  BY DEF Waitless, Whats
<1> HIDE DEF w
<1>8. CASE s # None /\ SetTab(t, Granted(r)) /\ stored' = s
  <2>1. PICK n \in Tab : n = Granted(r)
    BY GrantedForm
  <2>2. n.call = None /\ n.what \in Waitless /\ n.silent = tab[t].silent /\ n.signedIn
    BY <1>5, <1>7, <2>1, GrantedForm
  <2> QED BY <1>2, <1>3, <1>8, <2>1, <2>2
<1>9. CASE s = None /\ tab[t].what = "login" /\ SetTab(t, r) /\ UNCHANGED stored
  BY <1>2, <1>3, <1>5, <1>7, <1>9
<1>10. CASE /\ s = None /\ tab[t].what = "leaving" /\ UNCHANGED stored
            /\ SetTab(t, [r EXCEPT !.what = w])
  <2>1. PICK n \in Tab : n = [r EXCEPT !.what = w]
    BY <1>7 DEF Tab
  <2>2. n.call = None /\ n.what \in Waitless /\ n.silent = tab[t].silent /\ n.signedIn = tab[t].signedIn
    BY <1>5, <1>7, <2>1 DEF Tab
  <2> QED BY <1>2, <1>3, <1>10, <2>1, <2>2
<1>11. CASE s = None /\ tab[t].what \notin {"login", "leaving"} /\ SetTab(t, Cleared(r)) /\ stored' = None
  <2>1. PICK n \in Tab : n = Cleared(r)
    BY ClearedForm
  <2>2. n.call = None /\ n.what \in Waitless /\ n.silent = tab[t].silent
    BY <1>5, <1>7, <2>1, ClearedForm
  <2> QED BY <1>2, <1>3, <1>11, <2>1, <2>2
<1> QED
  BY <1>6, <1>8, <1>9, <1>10, <1>11

LEMMA AnsweredStep ==
  ASSUME BrowserAssumption, BrowserInv, NEW t \in Tabs, Answered(t)
  PROVE  ClientTyped' /\ Orderly'
<1>1. PICK n \in Tab, p \in Api :
           /\ SetTab(t, n) /\ n.call = None /\ n.what \in Waitless /\ n.silent = tab[t].silent
           /\ p = tab[t].call /\ p # None /\ At(p, "reply") /\ Finish(p)
           /\ UNCHANGED <<authVars, clean, withdrawn>>
           /\ \/ handler[p].granted # None /\ stored' = handler[p].granted
              \/ /\ handler[p].granted = None /\ tab[t].what \in {"login", "leaving"}
                 /\ UNCHANGED stored
              \/ handler[p].granted = None /\ stored' = None
  BY AnswerForm DEF BrowserInv
<1>2. stored \in Sessions \cup {None} /\ clean \in BOOLEAN /\ handler[p] \in AuthHandler
  BY DEF BrowserInv, ClientTyped, ClientTypeOK, Typed
<1>3. handler[p].granted \in Sessions \cup {None}
  BY <1>1, <1>2, RepliesForm DEF At
<1>4. stored' \in Sessions \cup {None} /\ clean' \in BOOLEAN
  BY <1>1, <1>2, <1>3
<1>5. ClientTyped' /\ tab'[t] = n /\ \A o \in Tabs : o # t => tab'[o] = tab[o]
  BY <1>1, <1>4, TabStep DEF BrowserInv
<1>6. ASSUME clean'
      PROVE  Resting'
  <2>1. p \in Calls(t) /\ clean
    BY <1>1, <1>6 DEF Calls
  <2>2. Serves(t, p) /\ tab[t].silent = {}
    BY <1>1, <2>1, AnswerLasts DEF Serves, Alone
  <2>3. stored' = None \/ Lasting(stored')
    BY <1>1, <2>1, AnswerLasts DEF Kept
  <2> QED
    BY <1>1, <1>5, <2>2, <2>3, CallEnds DEF Serves, BrowserInv
<1> QED
  BY <1>5, <1>6 DEF Orderly

LEMMA LostStep ==
  ASSUME BrowserInv, NEW t \in Tabs, Lost(t)
  PROVE  ClientTyped' /\ Orderly'
<1>1. /\ tab[t] \in Tab /\ stored \in Sessions \cup {None} /\ clean' = FALSE
      /\ UNCHANGED withdrawn
  BY TabTypes DEF Lost, BrowserInv
<1>2. PICK r \in Tab : r = [tab[t] EXCEPT !.call = None, !.what = "none"]
  BY <1>1, AskedForm DEF Whats
<1>3. r.call = None /\ r.what \in Waitless
  BY <1>1, <1>2 DEF Tab, Waitless
<1>4. stored' \in Sessions \cup {None} /\ (SetTab(t, r) \/ SetTab(t, Cleared(r)))
  BY <1>1, <1>2 DEF Lost
<1>5. PICK n \in Tab : SetTab(t, n) /\ n.call = None /\ n.what \in Waitless
  <2>1. CASE SetTab(t, r)
    BY <1>3, <2>1
  <2>2. CASE SetTab(t, Cleared(r))
    <3>1. PICK n \in Tab : n = Cleared(r)
      BY ClearedForm
    <3> QED BY <1>3, <2>2, <3>1, ClearedForm
  <2> QED BY <1>4, <2>1, <2>2
<1> QED
  BY <1>1, <1>4, <1>5, TabStep DEF BrowserInv, Orderly

LEMMA LeftStep ==
  ASSUME BrowserInv, NEW t \in Tabs, Left(t)
  PROVE  ClientTyped' /\ Orderly'
<1>1. clean' \in BOOLEAN /\ (clean' => clean /\ ~Overlap(t, Calls(t)))
  BY BooleanClean DEF Left, BrowserInv
<1>2. clean' => Resting
  BY <1>1, BeginsAtRest DEF BrowserInv
<1>3. tab[t] \in Tab /\ (tab[t].call = None <=> tab[t].what \in Waitless)
  BY TabTypes DEF BrowserInv
<1>4. PICK r \in Tab : r = Cleared(tab[t])
  BY <1>3, ClearedForm
<1>5. /\ r.call = tab[t].call /\ r.silent = tab[t].silent
      /\ r.what = tab[t].what \/ (tab[t].what \in Waitless /\ r.what \in Waitless)
  BY <1>3, <1>4, ClearedForm
<1>6. /\ SetTab(t, r) /\ stored' = None /\ stored' \in Sessions \cup {None}
      /\ UNCHANGED <<authVars, handler, withdrawn>>
  BY <1>4 DEF Left
<1>7. ClientTyped' /\ tab'[t] = r /\ \A o \in Tabs : o # t => tab'[o] = tab[o]
  BY <1>1, <1>3, <1>5, <1>6, TabStep DEF BrowserInv
<1>8. \A o \in Tabs : Calls(o)' = Calls(o)
  BY <1>5, <1>7 DEF Calls
<1>9. clean' => Resting'
  BY <1>2, <1>6, <1>8 DEF Resting, Quiet, Kept, At
<1> QED
  BY <1>7, <1>9 DEF Orderly

LEMMA RefreshedStep ==
  ASSUME BrowserAssumption, BrowserInv, NEW t \in Tabs, NEW p \in Api, Refreshed(t, p)
  PROVE  ClientTyped' /\ Orderly'
<1>1. /\ tab[t] \in Tab /\ clean \in BOOLEAN /\ p \in tab[t].silent
      /\ UNCHANGED <<authVars, withdrawn>> /\ tab[t].silent \in SUBSET Api
      /\ tab[t].call = None <=> tab[t].what \in Waitless
  BY TabTypes DEF BrowserInv, ClientTyped, ClientTypeOK, Refreshed
<1>2. PICK rest \in SUBSET Api : rest = tab[t].silent \ {p}
  BY <1>1
<1>3. PICK r \in Tab : r = [tab[t] EXCEPT !.silent = rest]
  BY <1>1, SilentForm
<1>4. r.silent = rest /\ r.call = tab[t].call /\ r.what = tab[t].what
  BY <1>1, <1>3, SilentForm
<1>5. PICK s \in Sessions \cup {None} :
        /\ Receive(p, s)
        /\ s # None => SetTab(t, [r EXCEPT !.fresh = TRUE]) /\ stored' = s
        /\ s = None => SetTab(t, Cleared(r)) /\ stored' = None
  BY <1>2, <1>3 DEF Refreshed
<1>6. PICK n \in Tab : /\ SetTab(t, n) /\ n.call = r.call /\ n.silent = r.silent
                       /\ n.what = r.what \/ (r.what \in Waitless /\ n.what \in Waitless)
  <2>1. CASE s # None
    <3>1. PICK n \in Tab : n = [r EXCEPT !.fresh = TRUE]
      BY FreshForm
    <3> QED BY <1>5, <2>1, <3>1, FreshForm
  <2>2. CASE s = None
    <3>1. PICK n \in Tab : n = Cleared(r)
      BY ClearedForm
    <3> QED BY <1>5, <2>2, <3>1, ClearedForm
  <2> QED BY <2>1, <2>2
<1>7. stored' \in Sessions \cup {None} /\ clean' \in BOOLEAN
  BY <1>1, <1>5 DEF Receive
<1>8. ClientTyped' /\ tab'[t] = n /\ \A o \in Tabs : o # t => tab'[o] = tab[o]
  BY <1>1, <1>4, <1>6, <1>7, TabStep DEF BrowserInv
<1>9. ASSUME clean'
      PROVE  Resting'
  <2>1. At(p, "reply") /\ s = handler[p].granted /\ Finish(p) /\ clean
    BY <1>5, <1>9 DEF Receive
  <2>2. p \in Calls(t)
    BY <1>1 DEF Calls
  <2>3. Serves(t, p)
    BY <2>1, <2>2, AnswerLasts
  <2>4. tab[t].call = None /\ rest = {}
    BY <1>1, <1>2, <2>3 DEF Serves, Alone, Calls
  <2>5. stored' = None \/ Lasting(stored')
    BY <1>5, <2>1, <2>2, AnswerLasts
  <2> QED
    BY <1>1, <1>4, <1>6, <1>8, <2>1, <2>3, <2>4, <2>5, CallEnds DEF Serves, BrowserInv
<1> QED
  BY <1>8, <1>9 DEF Orderly

\* A step ends sessions gently when it records those that it takes from a tab.
Gentle ==
  /\ withdrawn \subseteq withdrawn'
  /\ \A s \in Sessions : \/ session'[s] = session[s] \/ session[s] = "none" \/ s \in withdrawn'
                         \/ session[s] = "live" /\ session'[s] = "expired"

LEMMA GentleKeeps ==
  ASSUME Gentle, NEW s \in Sessions
  PROVE  (Lasting(s) => Lasting(s)') /\ (Over(s) => Over(s)')
BY DEF Gentle, Lasting, Over

\* A gentle step of requests that no tab waits for.
LEMMA GentleStep ==
  ASSUME BrowserInv, UNCHANGED <<stored, tab, clean>>, Gentle,
         \A x \in Api : handler'[x] = handler[x] \/ (Orphan(x) /\ handler'[x].at # "refresh_commit")
  PROVE  Orderly'
<1>1. stored \in Sessions \cup {None} /\ handler \in [Api -> AuthHandler]
  BY DEF BrowserInv, ClientTyped, ClientTypeOK, Typed
<1>2. \A o \in Tabs : Calls(o)' = Calls(o)
  BY DEF Calls
<1>3. Kept => Kept'
  BY <1>1, GentleKeeps DEF Kept
<1>4. Resting => Resting'
  BY <1>2, <1>3 DEF Resting, Quiet, At
<1>5. ASSUME NEW t \in Tabs, NEW p \in Api, Serves(t, p)
      PROVE  Serves(t, p)'
  <2>1. handler'[p] = handler[p] /\ ~Orphan(p)
    BY <1>5 DEF Serves, Alone, Orphan
  <2>2. Alone(t, p)'
    BY <1>2, <1>5, <2>1 DEF Serves, Alone, Quiet, At
  <2>3. handler[p].at \in {"issue_consume", "issue_create", "reply"} =>
          handler[p].granted \in Sessions \cup {None}
    BY <1>1, RepliesForm
  <2>4. Refreshing(p) => Refreshing(p)'
    BY <1>1, <2>1, <2>3, GentleKeeps DEF Refreshing, At
  <2>5. Entering(p) => Entering(p)'
    BY <1>3, <2>1, <2>3, GentleKeeps DEF Entering
  <2>6. (Leaving(p) => Leaving(p)') /\ (Denied(p) => Denied(p)')
    BY <2>1 DEF Leaving, Denied, At
  <2> QED BY <1>3, <1>5, <2>2, <2>4, <2>5, <2>6 DEF Serves
<1> QED
  BY <1>4, <1>5 DEF BrowserInv, Orderly

\* Which steps of requests are gentle: all but those that a tab has asked for.
LEMMA StepsGently ==
  ASSUME Typed, NEW p \in Api, HandlerStep(p), ~At(p, "refresh_commit"),
         At(p, "revoke_commit") => Orphan(p)
  PROVE  Gentle
<1>1. session \in [Sessions -> SessionStates] /\ withdrawn \subseteq withdrawn'
  BY DEF Typed, RowTypes, HandlerStep
<1>2. ASSUME handler[p].at \in {"change_commit", "reset_commit", "revoke_commit"}
      PROVE  Gentle
  <2>1. withdrawn' = withdrawn \cup {s \in Sessions : session[s] # "revoked" /\ session'[s] = "revoked"}
    BY <1>2 DEF HandlerStep, At
  <2>2. ChangeCommit(p) \/ ResetCommit(p) \/ RevokeCommit(p)
    BY <1>2 DEF HandlerStep, AuthStep, CreateUser, OpenSession, RefreshCommit, IssueConsume,
                IssueCreate, ConfirmCommit, At
  <2>3. \A s \in Sessions : session'[s] = session[s] \/ session'[s] = "revoked"
    BY <1>1, <2>2 DEF ChangeCommit, ResetCommit, RevokeCommit, AllRevoked
  <2>4. \A s \in Sessions : session'[s] = session[s] \/ s \in withdrawn'
    BY <2>1, <2>3
  <2> QED BY <1>1, <2>4 DEF Gentle
<1>3. CASE OpenSession(p)
  <2>1. PICK s \in Sessions : session[s] = "none" /\ session' = [session EXCEPT ![s] = "live"]
    BY <1>3 DEF OpenSession, IsNext
  <2>2. \A x \in Sessions : session'[x] = session[x] \/ session[x] = "none"
    BY <1>1, <2>1
  <2> QED BY <1>1, <2>2 DEF Gentle
<1>4. CASE CreateUser(p) \/ IssueConsume(p) \/ IssueCreate(p) \/ ConfirmCommit(p)
  <2>1. UNCHANGED session
    BY <1>4 DEF CreateUser, IssueConsume, IssueCreate, ConfirmCommit, authVars, sessions
  <2> QED BY <1>1, <2>1 DEF Gentle
<1>5. ~RefreshCommit(p)
  BY DEF RefreshCommit
<1> QED
  BY <1>2, <1>3, <1>4, <1>5 DEF HandlerStep, AuthStep, ChangeCommit, ResetCommit, RevokeCommit, At

LEMMA StepsOne ==
  ASSUME Typed, NEW p \in Api, AuthStep(p)
  PROVE  /\ \A q \in Api \ {p} : handler'[q] = handler[q]
         /\ handler'[p].at \notin {"refresh_commit", "idle"} /\ ~At(p, "idle")
<1> USE DEF Typed, Suspend, At
<1>1. CASE CreateUser(p)
  BY <1>1 DEF CreateUser, Replying
<1>2. CASE OpenSession(p)
  BY <1>2 DEF OpenSession, Replying
<1>3. CASE RefreshCommit(p)
  BY <1>3 DEF RefreshCommit, Replying
<1>4. CASE RevokeCommit(p) \/ ChangeCommit(p) \/ ResetCommit(p) \/ ConfirmCommit(p)
  BY <1>4 DEF RevokeCommit, ChangeCommit, ResetCommit, ConfirmCommit, Replying
<1>5. CASE IssueConsume(p) \/ IssueCreate(p)
  BY <1>5 DEF IssueConsume, IssueCreate, Replying
<1> QED
  BY <1>1, <1>2, <1>3, <1>4, <1>5 DEF AuthStep

\* A step of the server in the only call of the browser.
LEMMA ServesOn ==
  ASSUME BrowserAssumption, BrowserInv, NEW t \in Tabs, NEW p \in Api, Serves(t, p), HandlerStep(p),
         UNCHANGED <<stored, tab>>
  PROVE  Serves(t, p)'
<1>0. /\ handler \in [Api -> AuthHandler] /\ session \in [Sessions -> SessionStates]
      /\ stored \in Sessions \cup {None} /\ Typed /\ AuthStep(p)
  BY DEF BrowserInv, Typed, RowTypes, ClientTyped, ClientTypeOK, HandlerStep
<1>1. Alone(t, p)'
  BY <1>0, StepsOne DEF Serves, Alone, Calls, Quiet, At
<1>2. ~Denied(p)
  BY <1>0 DEF Denied, At, AuthStep, CreateUser, OpenSession, RefreshCommit, RevokeCommit,
              ChangeCommit, ResetCommit, IssueConsume, IssueCreate, ConfirmCommit
<1>3. ASSUME Refreshing(p)
      PROVE  Refreshing(p)'
  <2>1. RefreshCommit(p)
    BY <1>0, <1>3 DEF Refreshing, At, AuthStep, CreateUser, OpenSession, RevokeCommit, ChangeCommit,
                ResetCommit, IssueConsume, IssueCreate, ConfirmCommit
  <2>2. PICK s \in Sessions : /\ session' = [session EXCEPT ![handler[p].session] = "revoked", ![s] = "live"]
                              /\ Suspend(p, Replying(s))
    BY <2>1 DEF RefreshCommit
  <2>3. session'[s] = "live" /\ handler'[p].at = "reply" /\ handler'[p].granted = s
    BY <1>0, <2>2 DEF Suspend, Replying
  <2>4. s # None
    BY DEF BrowserAssumption
  <2> QED BY <2>3, <2>4 DEF Refreshing, At, Lasting
<1>4. ASSUME Entering(p)
      PROVE  Entering(p)'
  <2>1. CreateUser(p) \/ OpenSession(p) \/ IssueConsume(p) \/ IssueCreate(p)
    BY <1>0, <1>4 DEF Entering, At, AuthStep, RefreshCommit, RevokeCommit, ChangeCommit, ResetCommit,
                ConfirmCommit
  <2>2. Gentle
    <3>1. ~At(p, "refresh_commit") /\ ~At(p, "revoke_commit")
      BY <1>4 DEF Entering, At
    <3> QED BY <1>0, <3>1, StepsGently
  <2>3. Kept'
    BY <1>0, <1>4, <2>2, GentleKeeps DEF Entering, Kept
  <2>4. CASE OpenSession(p)
    <3>1. PICK s \in Sessions :
            /\ session' = [session EXCEPT ![s] = "live"]
            /\ Suspend(p, IF handler[p].registers
                          THEN [at |-> "issue_consume", kind |-> "verify", granted |-> s]
                          ELSE Replying(s))
      BY <2>4 DEF OpenSession
    <3>2. Lasting(s)'
      BY <1>0, <3>1 DEF Lasting
    <3>3. handler'[p].at \in {"issue_consume", "reply"} /\ handler'[p].granted = s
      BY <1>0, <3>1 DEF Suspend, Replying
    <3> QED BY <2>3, <3>2, <3>3 DEF Entering
  <2>5. CASE CreateUser(p)
    <3>1. handler'[p].at = "open_session" \/ handler'[p] = Replying(None)
      BY <1>0, <2>5 DEF CreateUser, Suspend
    <3> QED BY <2>3, <3>1 DEF Entering, Replying
  <2>6. CASE IssueConsume(p) \/ IssueCreate(p)
    <3>1. /\ handler'[p].at \in {"issue_create", "reply"}
          /\ handler'[p].granted = handler[p].granted \/ handler'[p].granted = None
      BY <1>0, <2>6 DEF IssueConsume, IssueCreate, Suspend, Replying
    <3>2. handler[p].at \in {"issue_consume", "issue_create"}
      BY <2>6 DEF IssueConsume, IssueCreate, At
    <3>3. handler[p].granted \in Sessions \cup {None}
      BY <1>0, <3>2, RepliesForm
    <3>4. handler[p].granted # None => Lasting(handler[p].granted)
      BY <1>4, <3>2 DEF Entering
    <3>5. PICK g : g = handler[p].granted
      OBVIOUS
    <3>6. g # None => Lasting(g)'
      BY <2>2, <3>3, <3>4, <3>5, GentleKeeps
    <3>7. handler'[p].granted # None =>
            \/ session'[handler'[p].granted] \in {"live", "expired"}
            \/ handler'[p].granted \in withdrawn'
      BY <3>1, <3>5, <3>6 DEF Lasting
    <3> QED BY <2>3, <3>1, <3>7 DEF Entering, Lasting
  <2> QED BY <2>1, <2>4, <2>5, <2>6
<1>5. ASSUME Leaving(p)
      PROVE  Leaving(p)'
  <2>1. RevokeCommit(p) \/ ChangeCommit(p)
    BY <1>0, <1>2, <1>5 DEF Leaving, At, AuthStep, CreateUser, OpenSession, RefreshCommit,
                ResetCommit, IssueConsume, IssueCreate, ConfirmCommit
  <2> QED BY <1>0, <2>1 DEF RevokeCommit, ChangeCommit, Suspend, Replying, Leaving, Denied, At
<1> QED
  BY <1>1, <1>2, <1>3, <1>4, <1>5 DEF Serves

\* While nothing has gone wrong, a request that waits for nothing is not a tab's.
LEMMA IdleIsOrphan ==
  ASSUME BrowserInv, clean, NEW p \in Api
  PROVE  /\ At(p, "idle") => Orphan(p)
         /\ ~Orphan(p) => \E t \in Tabs : Serves(t, p)
         /\ Orphan(p) => ~At(p, "refresh_commit")
BY DEF BrowserInv, Orderly, Resting, Serves, Alone, Quiet, Orphan

\* What happens outside the tabs.
LEMMA OutsideStep ==
  ASSUME BrowserAssumption, BrowserInv, UNCHANGED <<stored, tab, clean>>,
         \/ \E p \in Api : HandlerStep(p)
         \/ Elsewhere
         \/ (\E p \in Api : Orphan(p) /\ Reply(p)) /\ UNCHANGED withdrawn
         \/ (\E s \in Sessions : ExpireSession(s)) /\ UNCHANGED withdrawn
         \/ UNCHANGED <<authVars, handler, withdrawn>>
  PROVE  ClientTyped' /\ Orderly'
<1>0. /\ session \in [Sessions -> SessionStates] /\ handler \in [Api -> AuthHandler] /\ Typed
      /\ withdrawn \in SUBSET Sessions
  BY DEF BrowserInv, Typed, RowTypes, ClientTyped, ClientTypeOK
<1>1. ASSUME withdrawn' \in SUBSET Sessions
      PROVE  ClientTyped'
  BY <1>1 DEF BrowserInv, ClientTyped, ClientTypeOK
<1>2. ASSUME NEW p \in Api, HandlerStep(p)
      PROVE  ClientTyped' /\ Orderly'
  <2>1. withdrawn' \in SUBSET Sessions /\ AuthStep(p)
    BY <1>0, <1>2 DEF HandlerStep
  <2>2. ASSUME clean, Orphan(p)
        PROVE  Orderly'
    <3>1. Gentle
      BY <1>0, <1>2, <2>2, IdleIsOrphan, StepsGently
    <3>2. \A x \in Api : handler'[x] = handler[x] \/ (Orphan(x) /\ handler'[x].at # "refresh_commit")
      BY <1>0, <2>1, <2>2, StepsOne
    <3> QED BY <3>1, <3>2, GentleStep
  <2>3. ASSUME clean, ~Orphan(p)
        PROVE  Orderly'
    <3>1. PICK t \in Tabs : Serves(t, p)
      BY <2>3, IdleIsOrphan
    <3>2. Serves(t, p)'
      BY <1>2, <3>1, ServesOn
    <3> QED BY <3>2 DEF Orderly
  <2> QED BY <1>1, <2>1, <2>2, <2>3 DEF Orderly
<1>3. ASSUME UNCHANGED withdrawn, NEW p \in Api, Orphan(p), Reply(p)
      PROVE  ClientTyped' /\ Orderly'
  <2>1. Gentle
    BY <1>3 DEF Gentle, Reply, authVars, sessions
  <2>2. \A x \in Api : handler'[x] = handler[x] \/ (Orphan(x) /\ handler'[x].at # "refresh_commit")
    BY <1>0, <1>3 DEF Reply, Finish, Suspend, Idle
  <2> QED BY <1>0, <1>1, <1>3, <2>1, <2>2, GentleStep
<1>4. ASSUME UNCHANGED withdrawn, NEW p \in Api, NEW h, Begin(p, h), h.at # "refresh_commit",
             UNCHANGED authVars
      PROVE  ClientTyped' /\ Orderly'
  <2>1. Gentle
    BY <1>4 DEF Gentle, authVars, sessions
  <2>2. clean => \A x \in Api :
          handler'[x] = handler[x] \/ (Orphan(x) /\ handler'[x].at # "refresh_commit")
    BY <1>0, <1>4, IdleIsOrphan DEF Begin, Suspend
  <2> QED BY <1>0, <1>1, <1>4, <2>1, <2>2, GentleStep DEF Orderly
<1>5. ASSUME UNCHANGED handler, Gentle, withdrawn' \in SUBSET Sessions
      PROVE  ClientTyped' /\ Orderly'
  BY <1>1, <1>5, GentleStep
<1>6. CASE Elsewhere
  <2>1. CASE RevokeUserSessions /\ withdrawn' = withdrawn \cup Live
    <3>1. session' = [s \in Sessions |-> IF session[s] = "live" THEN "revoked" ELSE session[s]]
      BY <2>1 DEF RevokeUserSessions
    <3>2. \A s \in Sessions : session'[s] = session[s] \/ s \in withdrawn'
      BY <2>1, <3>1 DEF Live
    <3>3. Gentle /\ withdrawn' \in SUBSET Sessions
      BY <1>0, <2>1, <3>2 DEF Gentle, Live
    <3> QED BY <1>5, <2>1, <3>3 DEF RevokeUserSessions
  <2>2. ASSUME NEW p \in Api, UNCHANGED withdrawn,
               ChangeBegin(p) \/ TokenRequest(p, "reset") \/ \E s \in Sessions : RevokeBegin(p, s)
        PROVE  ClientTyped' /\ Orderly'
    <3>1. \E h : Begin(p, h) /\ h.at # "refresh_commit" /\ UNCHANGED authVars
      BY <2>2 DEF ChangeBegin, TokenRequest, RequestPasswordReset, Issue, ResetBegin, RevokeBegin
    <3> QED BY <1>4, <2>2, <3>1
  <2> QED BY <1>6, <2>1, <2>2 DEF Elsewhere
<1>7. ASSUME UNCHANGED withdrawn, NEW s \in Sessions, ExpireSession(s)
      PROVE  ClientTyped' /\ Orderly'
  <2>1. Gentle
    BY <1>0, <1>7 DEF Gentle, ExpireSession
  <2> QED BY <1>0, <1>5, <1>7, <2>1 DEF ExpireSession
<1>8. CASE UNCHANGED <<authVars, handler, withdrawn>>
  <2>1. Gentle
    BY <1>8 DEF Gentle, authVars, sessions
  <2> QED BY <1>0, <1>5, <1>8, <2>1
<1> QED
  BY <1>2, <1>3, <1>6, <1>7, <1>8

LEMMA BrowserStep ==
  ASSUME AuthAssumption, BrowserAssumption, BrowserInv,
         [ClientNext]_<<authVars, handler, clientVars>>
  PROVE  BrowserInv'
<1>1. Typed'
  BY BrowserRequests, NextTyped DEF BrowserInv, ClientTyped
<1>2. ClientTyped' /\ Orderly'
  <2>1. CASE UNCHANGED <<authVars, handler, clientVars>>
    BY <2>1, OutsideStep DEF clientVars
  <2>2. ASSUME NEW t \in Tabs,
               Load(t) \/ SignIn(t) \/ LogOut(t) \/ ChangePassword(t) \/ Answered(t) \/ Lost(t)
                 \/ AccessExpires(t) \/ Refresh(t) \/ Left(t)
        PROVE  ClientTyped' /\ Orderly'
    BY <2>2, LoadStep, SignInStep, LogOutStep, ChangeStep, AnsweredStep, LostStep, AccessStep,
       RefreshStep, LeftStep
  <2>3. ASSUME NEW t \in Tabs, NEW p \in Api, Refreshed(t, p)
        PROVE  ClientTyped' /\ Orderly'
    BY <2>3, RefreshedStep
  <2>4. ASSUME UNCHANGED <<stored, tab, clean>>,
               \/ \E p \in Api : HandlerStep(p)
               \/ Elsewhere
               \/ (\E p \in Api : Orphan(p) /\ Reply(p)) /\ UNCHANGED withdrawn
               \/ (\E s \in Sessions : ExpireSession(s)) /\ UNCHANGED withdrawn
        PROVE  ClientTyped' /\ Orderly'
    BY <2>4, OutsideStep
  <2>5. CASE ClientNext
    BY <2>2, <2>3, <2>4, <2>5 DEF ClientNext
  <2> QED BY <2>1, <2>5
<1> QED
  BY <1>1, <1>2 DEF BrowserInv

LEMMA BrowserStarts ==
  ASSUME AuthAssumption, AuthInit, ClientInit
  PROVE  BrowserInv
<1>1. Typed
  BY InitTyped
<1>2. ClientTyped
  <2>1. clean \in BOOLEAN /\ stored = None
    BY Zenon DEF ClientInit
  <2>2. tab \in [Tabs -> Tab] /\ \A t \in Tabs : tab[t] = Blank
    BY BlankForm DEF ClientInit
  <2>3. withdrawn \in SUBSET Sessions
    BY DEF ClientInit
  <2> QED BY <2>1, <2>2, <2>3, BlankForm DEF ClientTyped, ClientTypeOK, Waitless
<1>3. Resting
  <2>1. \A t \in Tabs : tab[t] = Blank
    BY DEF ClientInit
  <2>2. \A t \in Tabs : Quiet(t)
    BY <2>1, BlankForm DEF Quiet, Calls
  <2> QED BY <2>2 DEF Resting, Kept, ClientInit, AuthInit, HandlersIdle, At, Idle
<1> QED
  BY <1>1, <1>2, <1>3 DEF BrowserInv, Orderly

\* While calls do not overlap and no answer is lost, a user is signed out only by
\* a logout, by a new password, by somebody who ends the session, or at the end of
\* the thirty days (client.ts attemptRefresh, auth.ts, authStore, and the handlers
\* of auth.service and admin.service that end sessions).
THEOREM NobodySignedOut == ClientSpec => KeptSignedIn
<1> DEFINE Allowed(t) ==
      (clean' /\ SignedIn(tab[t]) /\ ~SignedIn(tab'[t])) =>
        \/ tab[t].what \in {"logout", "left", "change"}
        \/ stored = None
        \/ session[stored] = "expired" \/ stored \in withdrawn
<1>1. AuthInit /\ ClientInit => BrowserInv
  BY AuthAssumption, BrowserStarts
<1>2. BrowserInv /\ [ClientNext]_<<authVars, handler, clientVars>> => BrowserInv'
  BY AuthAssumption, BrowserAssumption, BrowserStep
<1>3. ASSUME BrowserInv, ClientNext, NEW t \in Tabs
      PROVE  Allowed(t)
  <2>0. ClientTyped /\ tab \in [Tabs -> Tab] /\ \A o \in Tabs : tab[o] \in Tab
    BY <1>3 DEF BrowserInv, ClientTyped, ClientTypeOK
  <2>1. \A o \in Tabs : /\ tab[o].silent \in SUBSET Api /\ tab[o].what \in Whats
                        /\ tab[o].call = None <=> tab[o].what \in Waitless
    BY <2>0, TabTypes
  <2>2. ASSUME NEW o \in Tabs, NEW r, SetTab(o, r), o = t => (SignedIn(tab[t]) => SignedIn(r))
        PROVE  Allowed(t)
    BY <2>0, <2>2 DEF SetTab
  <2>3. CASE UNCHANGED tab
    BY <2>3
  <2>4. ASSUME NEW o \in Tabs, Load(o)
        PROVE  Allowed(t)
    <3>1. CASE stored = None
      BY <3>1
    <3>2. CASE stored # None
      <4>1. PICK p \in Api : SetTab(o, [Blank EXCEPT !.call = p, !.what = "boot"])
        BY <2>4, <3>2 DEF Load
      <4>2. PICK r : r = [Blank EXCEPT !.call = p, !.what = "boot"]
        OBVIOUS
      <4>3. SignedIn(r)
        BY <4>2 DEF Blank, SignedIn
      <4> QED BY <2>2, <4>1, <4>2, <4>3
    <3> QED BY <3>1, <3>2
  \* The user asks for something, in a tab that is not starting.
  <2>5. ASSUME NEW o \in Tabs, NEW p, NEW w, tab[o].what \in Waitless,
               SetTab(o, [tab[o] EXCEPT !.call = p, !.what = w])
        PROVE  Allowed(t)
    <3>1. PICK r : r = [tab[o] EXCEPT !.call = p, !.what = w]
      OBVIOUS
    <3>2. r.signedIn = tab[o].signedIn
      BY <2>0, <3>1 DEF Tab
    <3>3. SignedIn(tab[o]) => SignedIn(r)
      BY <2>5, <3>2 DEF SignedIn, Waitless
    <3> QED BY <2>2, <2>5, <3>1, <3>3
  <2>6. ASSUME NEW o \in Tabs, SignIn(o) \/ ChangePassword(o) \/ LogOut(o)
        PROVE  Allowed(t)
    <3>1. tab[o].what \in Waitless
      BY <2>6 DEF SignIn, ChangePassword, LogOut, Waitless
    <3>2. CASE SignIn(o) \/ ChangePassword(o)
      BY <2>5, <3>1, <3>2 DEF SignIn, ChangePassword
    <3>3. CASE LogOut(o) /\ stored # None
      BY <2>5, <3>1, <3>3 DEF LogOut
    <3>4. CASE stored = None
      BY <3>4
    <3> QED BY <2>6, <3>2, <3>3, <3>4
  <2>7. ASSUME NEW o \in Tabs, Answered(o)
        PROVE  Allowed(t)
    <3>1. PICK n \in Tab, p \in Api :
           /\ SetTab(o, n) /\ p = tab[o].call /\ p # None /\ At(p, "reply")
           /\ UNCHANGED clean
           /\ \/ n.signedIn
              \/ tab[o].what \in {"login", "leaving"} /\ n.signedIn = tab[o].signedIn
              \/ handler[p].granted = None /\ tab[o].what \notin {"login", "leaving"}
      BY <2>0, <2>7, AnswerForm
    <3>2. CASE n.signedIn
      BY <2>2, <3>1, <3>2 DEF SignedIn
    <3>3. CASE tab[o].what \in {"login", "leaving"} /\ n.signedIn = tab[o].signedIn
      BY <2>2, <3>1, <3>3 DEF SignedIn
    <3>4. CASE o # t
      BY <2>2, <3>1, <3>4
    <3>5. ASSUME o = t, handler[p].granted = None, tab[o].what \notin {"login", "leaving"}, clean
          PROVE  Allowed(t)
      <4>1. p \in Calls(t)
        BY <3>1, <3>5 DEF Calls
      <4>2. tab[t].what = "boot" => stored # None /\ Over(stored)
        BY <1>3, <3>1, <3>5, <4>1, AnswerLasts
      <4>3. tab[t].what \in {"boot", "logout", "change"}
        BY <2>1, <3>1, <3>5 DEF Whats, Waitless
      <4> QED BY <4>2, <4>3 DEF Over
    <3> QED BY <3>1, <3>2, <3>3, <3>4, <3>5
  <2>8. ASSUME NEW o \in Tabs, Lost(o)
        PROVE  Allowed(t)
    BY <2>8 DEF Lost
  <2>9. ASSUME NEW o \in Tabs, AccessExpires(o)
        PROVE  Allowed(t)
    <3>1. PICK r : r = [tab[o] EXCEPT !.fresh = FALSE]
      OBVIOUS
    <3>2. r.signedIn = tab[o].signedIn /\ r.what = tab[o].what
      BY <2>0, <3>1 DEF Tab
    <3>3. SetTab(o, r) /\ (SignedIn(tab[o]) => SignedIn(r))
      BY <2>9, <3>1, <3>2 DEF AccessExpires, SignedIn
    <3> QED BY <2>2, <3>3
  <2>10. ASSUME NEW o \in Tabs, Refresh(o)
         PROVE  Allowed(t)
    <3>1. CASE stored = None
      BY <3>1
    <3>2. CASE stored # None
      <4>1. PICK p \in Api : SetTab(o, [tab[o] EXCEPT !.silent = @ \cup {p},
                                          !.what = IF @ = "refused" THEN "left" ELSE @])
        BY <2>10, <3>2 DEF Refresh
      <4>2. PICK r : r = [tab[o] EXCEPT !.silent = @ \cup {p},
                                        !.what = IF @ = "refused" THEN "left" ELSE @]
        OBVIOUS
      <4>3. r.signedIn = tab[o].signedIn /\ (tab[o].what = "boot" => r.what = "boot")
        BY <2>0, <4>2 DEF Tab
      <4>4. SignedIn(tab[o]) => SignedIn(r)
        BY <4>3 DEF SignedIn
      <4> QED BY <2>2, <4>1, <4>2, <4>4
    <3> QED BY <3>1, <3>2
  <2>11. ASSUME NEW o \in Tabs, NEW p \in Api, Refreshed(o, p)
         PROVE  Allowed(t)
    <3>1. tab[o] \in Tab /\ p \in tab[o].silent
      BY <2>0, <2>11 DEF Refreshed
    <3>2. PICK rest \in SUBSET Api : rest = tab[o].silent \ {p}
      BY <2>1
    <3>3. PICK r \in Tab : r = [tab[o] EXCEPT !.silent = rest]
      BY <3>1, SilentForm
    <3>4. r.signedIn = tab[o].signedIn /\ r.what = tab[o].what
      BY <3>1, <3>3, SilentForm
    <3>5. PICK s \in Sessions \cup {None} :
            /\ Receive(p, s)
            /\ s # None => SetTab(o, [r EXCEPT !.fresh = TRUE])
            /\ s = None => SetTab(o, Cleared(r))
      BY <2>11, <3>2, <3>3 DEF Refreshed
    <3>6. CASE s # None
      <4>1. PICK n : n = [r EXCEPT !.fresh = TRUE]
        OBVIOUS
      <4>2. n.signedIn = r.signedIn /\ n.what = r.what
        BY <4>1, FreshForm
      <4>3. SetTab(o, n) /\ (SignedIn(tab[o]) => SignedIn(n))
        BY <3>4, <3>5, <3>6, <4>1, <4>2 DEF SignedIn
      <4> QED BY <2>2, <4>3
    <3>7. CASE o # t /\ s = None
      BY <2>2, <3>5, <3>7
    <3>8. ASSUME o = t, s = None, clean'
          PROVE  stored # None /\ Over(stored)
      <4>1. At(p, "reply") /\ handler[p].granted = None /\ clean
        BY <3>5, <3>8 DEF Receive
      <4>2. p \in Calls(t) /\ p \in tab[t].silent
        BY <3>1, <3>8 DEF Calls
      <4> QED BY <1>3, <4>1, <4>2, AnswerLasts
    <3> QED BY <3>6, <3>7, <3>8 DEF Over
  <2>12. ASSUME NEW o \in Tabs, Left(o)
         PROVE  Allowed(t)
    <3>1. tab[o].what = "left" /\ SetTab(o, Cleared(tab[o]))
      BY <2>12 DEF Left
    <3>2. CASE o = t
      BY <3>1, <3>2
    <3>3. CASE o # t
      BY <2>2, <3>1, <3>3
    <3> QED BY <3>2, <3>3
  <2> HIDE DEF Allowed
  <2> QED
    BY <1>3, <2>3, <2>4, <2>6, <2>7, <2>8, <2>9, <2>10, <2>11, <2>12 DEF ClientNext
<1>4. BrowserInv /\ [ClientNext]_<<authVars, handler, clientVars>>
        => [\A t \in Tabs : Allowed(t)]_<<authVars, handler, clientVars>>
  BY <1>3
<1> QED
  BY <1>1, <1>2, <1>4, PTL DEF ClientSpec, KeptSignedIn

\* The promises of AuthSessions hold with the browser as its client.
THEOREM BrowserKeepsSessions == ClientSpec => AuthSpec
<1>1. AuthInit /\ ClientInit => BrowserInv
  BY AuthAssumption, BrowserStarts
<1>2. BrowserInv /\ [ClientNext]_<<authVars, handler, clientVars>> => BrowserInv'
  BY AuthAssumption, BrowserAssumption, BrowserStep
<1>3. BrowserInv /\ [ClientNext]_<<authVars, handler, clientVars>> => [AuthNext]_<<authVars, handler>>
  BY BrowserRequests DEF BrowserInv, ClientTyped
<1> QED
  BY <1>1, <1>2, <1>3, PTL DEF ClientSpec, AuthSpec

\* The tabs keep their types.
THEOREM ClientTypes == ClientSpec => []ClientTypeOK
<1>1. BrowserInv => ClientTypeOK
  BY DEF BrowserInv, ClientTyped
<1>2. BrowserInv /\ [ClientNext]_<<authVars, handler, clientVars>> => BrowserInv'
  BY AuthAssumption, BrowserAssumption, BrowserStep
<1> QED
  BY <1>1, <1>2, AuthAssumption, BrowserStarts, PTL DEF ClientSpec


-----------------------------------------------------------------------------
(* The fonts that visitors hold                                            *)

\* A style that is public, or that a request is about to give out, is not gone.
GoneIsLast == \A s \in Faces : s \in ShownFaces \/ Giving(s) # {} => gone[s] = 0

VisitTyped ==
  /\ open \in BOOLEAN /\ faces \subseteq Faces /\ preset \in Faces /\ known \subseteq Faces
  /\ held \in [Faces -> Holding]
  /\ gone \in [Faces -> 0..Longest]
  /\ handler \in [Api -> VisitHandlers]

VisitInv == VisitTyped /\ GoneIsLast /\ HeldExpires

LEMMA VisitFields ==
  ASSUME NEW h \in VisitHandlers
  PROVE  /\ h.at \in {"page", "package"} => h.faces \subseteq Faces
         /\ h.at \in {"asset", "link"} => h.face \in Faces
BY DEF VisitHandlers, Idle

LEMMA LifeTimes ==
  /\ LinkTime \in Nat \ {0} /\ CopyTime \in Nat \ {0} /\ Longest \in Nat \ {0}
  /\ LinkTime <= Longest /\ CopyTime <= Longest
BY VisitAssumption DEF Longest

\* A request goes on: which styles are given out is told by its new record.
LEMMA GivingMoves ==
  ASSUME handler \in [Api -> VisitHandlers], NEW p \in Api, NEW h, Suspend(p, h), NEW s \in Faces,
         Giving(s)' # {}
  PROVE  \/ Giving(s) # {}
         \/ h.at \in {"asset", "link"} /\ h.face = s
         \/ h.at = "package" /\ s \in h.faces
BY DEF Giving, Suspend

\* A request that has found a style public begins.
LEMMA VisitBegins ==
  ASSUME VisitInv, NEW p \in Api, NEW h \in VisitHandlers, Begin(p, h), UNCHANGED visitVars,
         \A s \in Faces :
           \/ h.at \in {"asset", "link"} /\ h.face = s
           \/ h.at = "package" /\ s \in h.faces
           => s \in ShownFaces
  PROVE  VisitInv'
<1>1. Suspend(p, h) /\ handler \in [Api -> VisitHandlers]
  BY DEF Begin, VisitInv, VisitTyped
<1>2. handler' \in [Api -> VisitHandlers]
  BY <1>1 DEF Suspend
<1>3. VisitTyped'
  BY <1>2 DEF VisitInv, VisitTyped, visitVars
<1>4. ASSUME NEW s \in Faces, s \in ShownFaces' \/ Giving(s)' # {}
      PROVE  gone'[s] = 0
  <2>1. s \in ShownFaces \/ Giving(s) # {}
    BY <1>1, <1>4, GivingMoves DEF visitVars, ShownFaces
  <2> QED
    BY <2>1 DEF VisitInv, GoneIsLast, visitVars
<1>5. GoneIsLast'
  BY <1>4 DEF GoneIsLast
<1>6. HeldExpires'
  BY DEF VisitInv, HeldExpires, visitVars
<1> QED
  BY <1>3, <1>5, <1>6 DEF VisitInv

LEMMA PagesBegin ==
  ASSUME VisitInv, NEW p \in Api,
         FamilyPage(p) \/ ListCollections(p) \/ CollectionPage(p) \/ PackageBegin(p)
  PROVE  VisitInv'
<1>1. ShownFaces \subseteq Faces /\ \A some \in PreviewFaces \cup {{}} : some \subseteq Faces
  BY DEF VisitInv, VisitTyped, ShownFaces, PreviewFaces
<1>2. CASE PackageBegin(p)
  <2>1. [at |-> "package", faces |-> ShownFaces] \in VisitHandlers
    BY <1>1 DEF VisitHandlers
  <2> QED
    BY <1>2, <2>1, VisitBegins DEF PackageBegin
<1>3. CASE FamilyPage(p) \/ ListCollections(p) \/ CollectionPage(p)
  <2>1. PICK some \in SUBSET Faces : Begin(p, [at |-> "page", faces |-> some])
    BY <1>1, <1>3 DEF FamilyPage, ListCollections, CollectionPage
  <2>2. [at |-> "page", faces |-> some] \in VisitHandlers
    BY DEF VisitHandlers
  <2>3. UNCHANGED visitVars
    BY <1>3 DEF FamilyPage, ListCollections, CollectionPage
  <2> QED
    BY <2>1, <2>2, <2>3, VisitBegins
<1> QED
  BY <1>2, <1>3

LEMMA FilesBegin ==
  ASSUME VisitInv, NEW p \in Api, NEW s \in Faces, AssetBegin(p, s) \/ LinkBegin(p, s)
  PROVE  VisitInv'
<1>1. s \in ShownFaces /\ UNCHANGED visitVars
  BY DEF AssetBegin, LinkBegin, Served, ShownFaces
<1>2. PICK point \in {"asset", "link"} : Begin(p, [at |-> point, face |-> s])
  BY DEF AssetBegin, LinkBegin
<1>3. [at |-> point, face |-> s] \in VisitHandlers
  BY DEF VisitHandlers
<1> QED
  BY <1>1, <1>2, <1>3, VisitBegins

\* A request ends: visitors may hold more of what it was giving out.
LEMMA VisitEnds ==
  ASSUME VisitInv, NEW p \in Api, Finish(p), UNCHANGED <<open, faces, preset, gone>>,
         known' \subseteq Faces, held' \in [Faces -> Holding],
         \A s \in Faces : \/ held'[s] = held[s]
                          \/ Giving(s) # {} /\ held'[s] \in Holding
  PROVE  VisitInv'
<1>1. Suspend(p, Idle) /\ handler \in [Api -> VisitHandlers] /\ Idle \in VisitHandlers
  BY DEF Finish, VisitInv, VisitTyped, VisitHandlers
<1>2. VisitTyped'
  <2>1. handler' \in [Api -> VisitHandlers]
    BY <1>1 DEF Suspend
  <2> QED
    BY <2>1 DEF VisitInv, VisitTyped
<1>3. ASSUME NEW s \in Faces, s \in ShownFaces' \/ Giving(s)' # {}
      PROVE  gone'[s] = 0
  <2>1. s \in ShownFaces \/ Giving(s) # {}
    BY <1>1, <1>3, GivingMoves DEF ShownFaces, Idle
  <2> QED
    BY <2>1 DEF VisitInv, GoneIsLast
<1>4. GoneIsLast'
  BY <1>3 DEF GoneIsLast
<1>5. ASSUME NEW s \in Faces, Giving(s) # {}, held'[s] \in Holding
      PROVE  /\ held'[s].link + gone'[s] <= LinkTime
             /\ held'[s].package + gone'[s] <= LinkTime
             /\ held'[s].copy + gone'[s] <= CopyTime
  <2>1. gone'[s] = 0
    BY <1>5 DEF VisitInv, GoneIsLast
  <2> QED
    BY <1>5, <2>1, LifeTimes DEF Holding
<1>6. HeldExpires'
  BY <1>5 DEF VisitInv, HeldExpires
<1> QED
  BY <1>2, <1>4, <1>6 DEF VisitInv

LEMMA VisitAnswers ==
  ASSUME VisitInv, NEW p \in Api, VisitStep(p)
  PROVE  VisitInv'
<1>1. handler[p] \in VisitHandlers /\ handler \in [Api -> VisitHandlers]
  BY DEF VisitInv, VisitTyped
<1>2. known \subseteq Faces /\ held \in [Faces -> Holding]
  BY DEF VisitInv, VisitTyped
<1>3. CASE PageAnswer(p)
  <2>1. known' \subseteq Faces
    BY <1>1, <1>2, <1>3, VisitFields DEF PageAnswer, At
  <2> QED
    BY <1>2, <1>3, <2>1, VisitEnds DEF PageAnswer
<1>4. CASE VisitFails(p)
  BY <1>2, <1>4, VisitEnds DEF VisitFails, visitVars
<1>5. CASE AssetSend(p) \/ LinkHand(p)
  <2> DEFINE f == handler[p].face
  <2>1. f \in Faces /\ Giving(f) # {}
    BY <1>1, <1>5, VisitFields DEF AssetSend, LinkHand, At, Giving
  <2>2. \/ held' = [held EXCEPT ![f].copy = CopyTime]
        \/ held' = [held EXCEPT ![f].link = LinkTime]
    BY <1>5 DEF AssetSend, LinkHand
  <2>3. held' \in [Faces -> Holding]
    BY <1>2, <2>1, <2>2, LifeTimes DEF Holding
  <2>4. \A s \in Faces \ {f} : held'[s] = held[s]
    BY <1>2, <2>2
  <2>5. Finish(p) /\ UNCHANGED <<open, faces, preset, known, gone>>
    BY <1>5 DEF AssetSend, LinkHand
  <2> QED
    BY <1>2, <2>1, <2>3, <2>4, <2>5, VisitEnds
<1>6. CASE PackageHand(p)
  <2>1. handler[p].faces \subseteq Faces
    BY <1>1, <1>6, VisitFields DEF PackageHand, At
  <2>2. held' = [s \in Faces |->
          IF s \in handler[p].faces THEN [held[s] EXCEPT !.package = LinkTime] ELSE held[s]]
    BY <1>6 DEF PackageHand
  <2>3. held' \in [Faces -> Holding]
    BY <1>2, <2>2, LifeTimes DEF Holding
  <2>4. \A s \in handler[p].faces : Giving(s) # {}
    BY <1>6 DEF PackageHand, At, Giving
  <2>5. Finish(p) /\ UNCHANGED <<open, faces, preset, known, gone>>
    BY <1>6 DEF PackageHand
  <2> QED
    BY <1>2, <2>2, <2>3, <2>4, <2>5, VisitEnds
<1> QED
  BY <1>3, <1>4, <1>5, <1>6 DEF VisitStep

LEMMA StandingChanges ==
  ASSUME VisitInv, ChangeStanding
  PROVE  VisitInv'
<1>1. UNCHANGED <<known, held, handler>>
  BY DEF ChangeStanding
<1>2. open' \in BOOLEAN /\ faces' \subseteq Faces /\ preset' \in Faces
  BY DEF VisitInv, VisitTyped, ChangeStanding
<1>3. gone' = [s \in Faces |-> IF s \in ShownFaces' THEN 0 ELSE gone[s]]
  BY DEF ChangeStanding
<1>4. gone \in [Faces -> 0..Longest] /\ held \in [Faces -> Holding]
  BY DEF VisitInv, VisitTyped
<1>5. \A s \in Faces : gone'[s] \in 0..Longest /\ gone'[s] <= gone[s]
  BY <1>3, <1>4, LifeTimes
<1>6. VisitTyped'
  BY <1>1, <1>2, <1>3, <1>5 DEF VisitInv, VisitTyped
<1>7. \A s \in Faces : Giving(s)' = Giving(s)
  BY <1>1 DEF Giving
<1>8. GoneIsLast'
  BY <1>3, <1>7 DEF VisitInv, GoneIsLast
<1>9. HeldExpires'
  BY <1>1, <1>4, <1>5, LifeTimes DEF VisitInv, HeldExpires, Holding
<1> QED
  BY <1>6, <1>8, <1>9 DEF VisitInv

LEMMA VisitTime ==
  ASSUME VisitInv, VisitTick
  PROVE  VisitInv'
<1>1. UNCHANGED <<open, faces, preset, known, handler>>
  BY DEF VisitTick
<1>2. gone \in [Faces -> 0..Longest] /\ held \in [Faces -> Holding]
  BY DEF VisitInv, VisitTyped
<1>3. held' = [s \in Faces |-> [link |-> Less(held[s].link), package |-> Less(held[s].package),
                                copy |-> Less(held[s].copy)]]
  BY DEF VisitTick
<1>4. gone' = [s \in Faces |->
        IF s \in ShownFaces \/ Giving(s) # {} THEN 0
        ELSE IF gone[s] < Longest THEN gone[s] + 1 ELSE Longest]
  BY DEF VisitTick
<1>5. ASSUME NEW bound \in Nat, NEW n \in 0..bound
      PROVE  Less(n) \in 0..bound /\ (Less(n) > 0 => Less(n) = n - 1 /\ n > 0)
  BY DEF Less
<1>6. held' \in [Faces -> Holding]
  BY <1>2, <1>3, <1>5, LifeTimes DEF Holding
<1>7. gone' \in [Faces -> 0..Longest]
  BY <1>2, <1>4, LifeTimes
<1>8. VisitTyped'
  BY <1>1, <1>6, <1>7 DEF VisitInv, VisitTyped
<1>9. GoneIsLast'
  BY <1>1, <1>4 DEF GoneIsLast, Giving, ShownFaces
<1>10. ASSUME NEW s \in Faces, NEW bound \in Nat, bound <= Longest, NEW n \in 0..bound,
              n > 0 => n + gone[s] <= bound, Less(n) > 0
       PROVE  Less(n) + gone'[s] <= bound
  <2>1. Less(n) = n - 1 /\ n > 0
    BY <1>5, <1>10
  <2>2. gone'[s] <= gone[s] + 1
    BY <1>2, <1>4, LifeTimes
  <2> QED
    BY <1>2, <1>7, <1>10, <2>1, <2>2, LifeTimes
<1>11. HeldExpires'
  <2> SUFFICES ASSUME NEW s \in Faces
               PROVE  /\ held'[s].link > 0 => held'[s].link + gone'[s] <= LinkTime
                      /\ held'[s].package > 0 => held'[s].package + gone'[s] <= LinkTime
                      /\ held'[s].copy > 0 => held'[s].copy + gone'[s] <= CopyTime
    BY DEF HeldExpires
  <2>1. /\ held[s].link \in 0..LinkTime /\ held'[s].link = Less(held[s].link)
        /\ held[s].package \in 0..LinkTime /\ held'[s].package = Less(held[s].package)
        /\ held[s].copy \in 0..CopyTime /\ held'[s].copy = Less(held[s].copy)
    BY <1>2, <1>3 DEF Holding
  <2>2. /\ held[s].link > 0 => held[s].link + gone[s] <= LinkTime
        /\ held[s].package > 0 => held[s].package + gone[s] <= LinkTime
        /\ held[s].copy > 0 => held[s].copy + gone[s] <= CopyTime
    BY DEF VisitInv, HeldExpires
  <2> QED
    BY <1>10, <2>1, <2>2, LifeTimes
<1> QED
  BY <1>8, <1>9, <1>11 DEF VisitInv

LEMMA VisitsStart == HandlersIdle /\ VisitInit => VisitInv
<1> SUFFICES ASSUME HandlersIdle, VisitInit PROVE VisitInv
  OBVIOUS
<1>1. handler \in [Api -> VisitHandlers]
  BY DEF HandlersIdle, VisitHandlers
<1>2. VisitTyped
  <2>1. Nothing \in Holding
    BY LifeTimes DEF Nothing, Holding
  <2>2. 0 \in 0..Longest
    BY LifeTimes
  <2> QED
    BY <1>1, <2>1, <2>2 DEF VisitInit, VisitTyped
<1>3. \A s \in Faces : gone[s] = 0 /\ held[s] = Nothing
  BY DEF VisitInit
<1>4. GoneIsLast
  BY <1>3, Zenon DEF GoneIsLast
<1>5. HeldExpires
  BY <1>3 DEF HeldExpires, Nothing
<1> QED
  BY <1>2, <1>4, <1>5 DEF VisitInv

LEMMA VisitInvariant == VisitSpec => []VisitInv
<1>1. VisitInv /\ [VisitNext]_<<visitVars, handler>> => VisitInv'
  <2> SUFFICES ASSUME VisitInv, [VisitNext]_<<visitVars, handler>>
               PROVE  VisitInv'
    OBVIOUS
  <2>1. CASE UNCHANGED <<visitVars, handler>>
    BY <2>1 DEF VisitInv, VisitTyped, GoneIsLast, HeldExpires, visitVars, Giving, ShownFaces
  <2>2. CASE VisitNext
    BY <2>2, StandingChanges, VisitTime, PagesBegin, FilesBegin, VisitAnswers DEF VisitNext
  <2> QED
    BY <2>1, <2>2
<1> QED
  BY <1>1, VisitsStart, PTL DEF VisitSpec

\* What visitors hold of a style never outlives the last moment at which they
\* could be given it by more than the lifetime of what they hold
\* (createRawDownloadUrl, getApprovedStyleAsset).
THEOREM HoldingsExpire == VisitSpec => []HeldExpires
<1>1. VisitInv => HeldExpires
  BY DEF VisitInv
<1> QED
  BY <1>1, VisitInvariant, PTL

\* The variables of the visitor's links keep their types.
THEOREM VisitTypes == VisitSpec => []VisitTypeOK
<1>1. VisitInv => VisitTypeOK
  BY DEF VisitInv, VisitTyped, VisitTypeOK, HandlersWithin
<1> QED
  BY <1>1, VisitInvariant, PTL
-----------------------------------------------------------------------------
(* The pages of a submission                                               *)

\* A status of processing has an upload behind it that is not processed;
ProcessingHasWork ==
  level = "processing" => \E u \in PageUploads : Seen(works[u]) \in {"queued", "processing"}

\* an answer read of one state shows such an upload;
WatchesIfWhole(view) == view.level = "processing" /\ ~view.torn => Watches(view)
ViewsWatch == page.view # NoView => WatchesIfWhole(page.view)

\* and data that is out of date is being read, unless that has failed: by a read
\* that no call has overtaken, but for those that the page missed while it was left.
StaleIsRead ==
  /\ page.fresh => page.view # NoView /\ page.age # "overtaken"
  /\ fetch.at = "row" => fetch.age # "overtaken"
  /\ page.shown /\ ~page.fresh /\ ~page.failed => fetch # NoFetch

ServerTyped == level \in Levels /\ works \in [PageUploads -> WorkStates]
Page == [shown: BOOLEAN, view: View \cup {NoView}, age: Ages, fresh: BOOLEAN, failed: BOOLEAN]
Fetches == [at: {"none", "asked"}] \cup [at: {"row"}, level: Levels, age: Ages]

ClientSide ==
  /\ viewer \in {"owner", "staff"}
  /\ page \in Page /\ fetch \in Fetches
  /\ ask \in AllCalls \cup {"none"}
  /\ slips \in 0..MaxSlips
  /\ ViewsWatch /\ StaleIsRead

PagesInv == ServerTyped /\ ProcessingHasWork /\ ClientSide

LEMMA ClientRests ==
  ASSUME ClientSide, UNCHANGED <<viewer, page, fetch, ask, slips>>
  PROVE  ClientSide'
BY DEF ClientSide, ViewsWatch, StaleIsRead, WatchesIfWhole, Watches

LEMMA ServerRests ==
  ASSUME ServerTyped, ProcessingHasWork, UNCHANGED serverVars
  PROVE  ServerTyped' /\ ProcessingHasWork'
BY DEF ServerTyped, ProcessingHasWork, serverVars, Seen

LEMMA SlipTyped ==
  ASSUME slips \in 0..MaxSlips, Slip
  PROVE  slips' \in 0..MaxSlips
BY PagesAssumption DEF Slip

\* An upload is queued and the submission in processing.
LEMMA WorkIsQueued ==
  ASSUME NEW u \in PageUploads, works' \in [PageUploads -> WorkStates], works'[u] = "queued",
         level' = "processing"
  PROVE  ServerTyped' /\ ProcessingHasWork'
BY DEF ServerTyped, ProcessingHasWork, Seen, Levels

LEMMA EffectKeeps ==
  ASSUME ServerTyped, ProcessingHasWork, NEW what \in AllCalls, Effect(what)
  PROVE  ServerTyped' /\ ProcessingHasWork'
<1>1. CASE Submitted
  BY <1>1 DEF Submitted, ServerTyped, ProcessingHasWork, Levels
<1>2. CASE Decided(what) /\ what \in Verdicts
  BY <1>2 DEF Decided, ServerTyped, ProcessingHasWork, Levels, Verdicts
<1>3. CASE Reprocessed
  <2>1. PICK some \in (SUBSET Rows) \ {{}} :
          works' = [u \in PageUploads |-> IF u \in some THEN "queued" ELSE works[u]]
    BY <1>3 DEF Reprocessed
  <2>2. PICK u \in some : u \in PageUploads
    <3>1. some # {} /\ some \subseteq PageUploads
      BY DEF Rows
    <3> QED
      BY <3>1
  <2>3. works' \in [PageUploads -> WorkStates]
    BY <2>1 DEF ServerTyped, WorkStates
  <2> QED
    BY <1>3, <2>1, <2>2, <2>3, WorkIsQueued DEF Reprocessed
<1> QED
  BY <1>1, <1>2, <1>3 DEF Effect, AllCalls

LEMMA UploadsKeep ==
  ASSUME ServerTyped, ProcessingHasWork, NEW u \in PageUploads,
         Declare(u) \/ Complete(u) \/ DirectToSubmission(u) \/ StartWork(u) \/ Settle(u)
  PROVE  ServerTyped' /\ ProcessingHasWork'
<1>1. CASE Declare(u)
  BY <1>1 DEF Declare, ServerTyped, ProcessingHasWork, Levels, WorkStates
<1>2. CASE Complete(u) \/ DirectToSubmission(u)
  <2>1. works' \in [PageUploads -> WorkStates] /\ works'[u] = "queued" /\ level' = "processing"
    BY <1>2 DEF Complete, DirectToSubmission, ServerTyped, WorkStates
  <2> QED
    BY <2>1, WorkIsQueued
<1>3. CASE StartWork(u)
  <2>1. works' \in [PageUploads -> WorkStates] /\ works'[u] = "processing" /\ UNCHANGED level
    BY <1>3 DEF StartWork, ServerTyped, WorkStates
  <2> QED
    BY <2>1 DEF ServerTyped, ProcessingHasWork, Seen
<1>4. CASE Settle(u)
  <2> DEFINE states == {works'[v] : v \in Rows}
  <2>1. /\ works' \in [PageUploads -> WorkStates]
        /\ works'[u] \in {"completed", "failed"} /\ u \in Rows
        /\ \A v \in Rows : works'[v] # "none"
    BY <1>4 DEF Settle, ServerTyped, WorkStates, Rows
  <2>2. level' \in CASE "failed" \in states -> {"processing_failed"}
                     [] states = {"completed"} -> {"ready_for_submission", "needs_review"}
                     [] OTHER -> {"processing"}
    BY <1>4 DEF Settle
  <2>3. CASE "failed" \in states
    BY <2>1, <2>2, <2>3 DEF ServerTyped, ProcessingHasWork, Levels
  <2>4. CASE states = {"completed"}
    <3>1. level' \in {"ready_for_submission", "needs_review"}
      BY <2>2, <2>4
    <3> QED
      BY <2>1, <3>1 DEF ServerTyped, ProcessingHasWork, Levels
  <2>5. CASE "failed" \notin states /\ states # {"completed"}
    <3>1. level' = "processing"
      BY <2>2, <2>5
    <3>2. works'[u] \in states
      BY <2>1
    <3>3. PICK state \in states : state # "completed"
      BY <2>5, <3>2
    <3>4. PICK v \in Rows : works'[v] = state
      BY <3>3
    <3>5. v \in PageUploads /\ Seen(works'[v]) \in {"queued", "processing"}
      BY <2>1, <2>5, <3>3, <3>4 DEF Rows, WorkStates, Seen
    <3> QED
      BY <2>1, <3>1, <3>5 DEF ServerTyped, ProcessingHasWork, Levels
  <2> QED
    BY <2>3, <2>4, <2>5
<1> QED
  BY <1>1, <1>2, <1>3, <1>4

\* The client changes its page and its read; an answer stays what it was.
LEMMA ClientMoves ==
  ASSUME ClientSide, UNCHANGED viewer, ask' \in AllCalls \cup {"none"}, slips' \in 0..MaxSlips,
         page' \in Page, fetch' \in Fetches, page'.view = page.view, StaleIsRead'
  PROVE  ClientSide'
BY DEF ClientSide, ViewsWatch, WatchesIfWhole, Watches

LEMMA FetchingTyped ==
  ASSUME fetch \in Fetches, NEW asked \in BOOLEAN, Fetching(asked)
  PROVE  /\ fetch' \in Fetches /\ (fetch # NoFetch \/ asked => fetch' # NoFetch)
         /\ fetch'.at = "row" => fetch' = fetch
BY DEF Fetches, Fetching, NoFetch

LEMMA PageMoves ==
  ASSUME ClientSide, OpenPage \/ Leave \/ PollPage
  PROVE  ClientSide'
<1>1. page \in Page /\ fetch \in Fetches /\ StaleIsRead
  BY DEF ClientSide
<1>2. UNCHANGED <<viewer, ask, slips>>
  BY DEF OpenPage, Leave, PollPage
<1>3. CASE OpenPage
  <2>1. page' = [page EXCEPT !.shown = TRUE]
    BY <1>3 DEF OpenPage
  <2>2. /\ fetch' \in Fetches /\ (fetch' # NoFetch \/ page.fresh)
        /\ fetch'.at = "row" => fetch' = fetch
    <3>1. CASE Fetching(TRUE)
      BY <1>1, <3>1, FetchingTyped
    <3>2. CASE page.fresh /\ UNCHANGED fetch
      BY <1>1, <3>2
    <3> QED
      BY <1>3, <3>1, <3>2 DEF OpenPage
  <2>3. /\ page' \in Page /\ page'.view = page.view /\ page'.age = page.age
        /\ page'.fresh = page.fresh /\ page'.failed = page.failed
    BY <1>1, <2>1 DEF Page
  <2>4. StaleIsRead'
    BY <1>1, <2>2, <2>3 DEF StaleIsRead
  <2> QED
    BY <1>2, <2>2, <2>3, <2>4, ClientMoves DEF ClientSide
<1>4. CASE Leave
  <2>1. /\ page' \in Page /\ page'.view = page.view /\ page'.age = page.age
        /\ ~page'.shown /\ page'.fresh = page.fresh
    BY <1>1, <1>4 DEF Leave, Page
  <2>2. StaleIsRead' /\ UNCHANGED fetch
    BY <1>1, <1>4, <2>1 DEF StaleIsRead, Leave
  <2> QED
    BY <1>1, <1>2, <2>1, <2>2, ClientMoves DEF ClientSide
<1>5. CASE PollPage
  <2>1. /\ UNCHANGED page /\ fetch' \in Fetches /\ fetch' # NoFetch
        /\ fetch'.at = "row" => fetch' = fetch
    BY <1>1, <1>5, FetchingTyped DEF PollPage
  <2>2. StaleIsRead'
    BY <1>1, <2>1 DEF StaleIsRead
  <2> QED
    BY <1>1, <1>2, <2>1, <2>2, ClientMoves DEF ClientSide
<1> QED
  BY <1>3, <1>4, <1>5

\* What is read of the server when its status is still the one of the row.
LEMMA ResponseTyped ==
  ASSUME ServerTyped, ProcessingHasWork, NEW l \in Levels,
         NEW view \in {OwnerResponse(l), StaffResponse(l)}
  PROVE  view \in View /\ WatchesIfWhole(view)
<1>1. Uploaded \in [PageUploads -> WorkStates \ {"declared"}]
  BY DEF ServerTyped, Uploaded, Seen, WorkStates
<1>2. /\ (IF CanSubmit(l, works) THEN {"submit"} ELSE {}) \subseteq AllCalls
      /\ (IF l = "needs_review" THEN Verdicts ELSE {})
           \cup (IF CanReprocess(l) THEN {"reprocess"} ELSE {}) \subseteq AllCalls
  BY DEF AllCalls
<1>3. PICK offers \in SUBSET AllCalls :
        view = [level |-> l, works |-> Uploaded, torn |-> l # level, offers |-> offers]
  BY <1>2 DEF OwnerResponse, StaffResponse
<1>4. view \in View
  BY <1>1, <1>3 DEF View
<1>5. ASSUME view.level = "processing", ~view.torn PROVE Watches(view)
  <2>1. PICK u \in PageUploads : Seen(works[u]) \in {"queued", "processing"}
    BY <1>3, <1>5 DEF ProcessingHasWork
  <2>2. view.works[u] = Seen(works[u])
    BY <1>3 DEF Uploaded
  <2> QED
    BY <2>1, <2>2 DEF Watches
<1> QED
  BY <1>4, <1>5 DEF WatchesIfWhole

LEMMA ReadingKeeps ==
  ASSUME ServerTyped, ProcessingHasWork, ClientSide, Reading
  PROVE  ClientSide' /\ UNCHANGED serverVars
<1>1. page \in Page /\ fetch \in Fetches /\ StaleIsRead /\ slips \in 0..MaxSlips
  BY DEF ClientSide
<1>2. UNCHANGED serverVars
  BY DEF Reading, FetchRow, FetchRows, FetchFails
<1>3. CASE FetchRow
  <2>1. /\ fetch' \in Fetches /\ fetch' # NoFetch /\ UNCHANGED <<viewer, page, ask, slips>>
        /\ fetch'.age = "current"
    BY <1>3 DEF FetchRow, Fetches, NoFetch, ServerTyped, Ages
  <2>2. StaleIsRead'
    BY <1>1, <2>1 DEF StaleIsRead
  <2> QED
    BY <1>1, <1>2, <2>1, <2>2, ClientMoves DEF ClientSide
<1>4. CASE FetchFails
  <2>1. /\ page' \in Page /\ page'.view = page.view /\ page'.age = page.age
        /\ page'.failed /\ page'.fresh = page.fresh
    BY <1>1, <1>4 DEF FetchFails, Page
  <2>2. fetch' \in Fetches /\ fetch'.at # "row" /\ UNCHANGED <<viewer, ask>>
    BY <1>4 DEF FetchFails, Fetches, NoFetch
  <2>3. slips' \in 0..MaxSlips
    BY <1>1, <1>4, SlipTyped DEF FetchFails
  <2>4. StaleIsRead'
    BY <1>1, <2>1, <2>2 DEF StaleIsRead
  <2> QED
    BY <1>2, <2>1, <2>2, <2>3, <2>4, ClientMoves DEF ClientSide
<1>5. CASE FetchRows
  <2> DEFINE view == IF viewer = "owner" THEN OwnerResponse(fetch.level)
                     ELSE StaffResponse(fetch.level)
  <2>1. fetch.level \in Levels /\ fetch.age \in Ages /\ fetch.age # "overtaken"
    BY <1>1, <1>5 DEF FetchRows, Fetches, StaleIsRead
  <2>2. view \in View /\ WatchesIfWhole(view)
    BY <2>1, ResponseTyped
  <2> HIDE DEF view
  <2>3. page' = [page EXCEPT !.fresh = TRUE, !.failed = FALSE, !.age = fetch.age, !.view = view]
    BY <1>5 DEF FetchRows, view
  <2>4. /\ page' \in Page /\ page'.view = view /\ page'.fresh
        /\ page'.age = fetch.age
    BY <1>1, <2>1, <2>2, <2>3 DEF Page
  <2>5. fetch' \in Fetches /\ fetch'.at # "row" /\ UNCHANGED <<viewer, ask, slips>>
    BY <1>5 DEF FetchRows, Fetches, NoFetch
  <2>6. view # NoView
    BY <2>2, PagesAssumption
  <2>7. ViewsWatch'
    BY <2>2, <2>4 DEF ViewsWatch, WatchesIfWhole, Watches
  <2>8. StaleIsRead'
    BY <2>1, <2>4, <2>5, <2>6 DEF StaleIsRead
  <2> QED
    BY <1>2, <2>4, <2>5, <2>7, <2>8 DEF ClientSide
<1> QED
  BY <1>2, <1>3, <1>4, <1>5 DEF Reading

LEMMA PressKeeps ==
  ASSUME ClientSide, NEW what \in AllCalls, Press(what)
  PROVE  ClientSide'
BY DEF Press, ClientSide, ViewsWatch, StaleIsRead, WatchesIfWhole, Watches

LEMMA AnswersKeep ==
  ASSUME ServerTyped, ProcessingHasWork, ClientSide, Answering
  PROVE  ServerTyped' /\ ProcessingHasWork' /\ ClientSide'
<1>1. page \in Page /\ fetch \in Fetches /\ StaleIsRead /\ slips \in 0..MaxSlips
  BY DEF ClientSide
<1>2. PICK what \in AllCalls : CallSucceeded(what) \/ CallFailed(what)
  BY DEF Answering
<1>3. ServerTyped' /\ ProcessingHasWork'
  BY <1>2, EffectKeeps, ServerRests DEF CallSucceeded, CallFailed, serverVars
<1>4. CASE CallSucceeded(what)
  <2>1. page' = [page EXCEPT !.fresh = FALSE, !.age = "overtaken",
                             !.shown = @ /\ what \notin Verdicts]
    BY <1>4 DEF CallSucceeded, Outdated
  <2>2. /\ page' \in Page /\ page'.view = page.view /\ ~page'.fresh
        /\ page'.shown => page.shown
    BY <1>1, <2>1 DEF Page, Ages
  <2>3. /\ fetch' \in Fetches /\ (page.shown => fetch' # NoFetch)
        /\ fetch'.at = "row" => fetch'.age # "overtaken"
    BY <1>1, <1>4 DEF CallSucceeded, Fetches, NoFetch, Aged, Ages
  <2>4. UNCHANGED <<viewer, slips>> /\ ask' = "none"
    BY <1>4 DEF CallSucceeded
  <2>5. StaleIsRead'
    BY <2>2, <2>3 DEF StaleIsRead
  <2> QED
    BY <1>1, <1>3, <2>2, <2>3, <2>4, <2>5, ClientMoves
<1>5. CASE CallFailed(what)
  <2>1. UNCHANGED <<viewer, page, fetch>> /\ ask' = "none"
    BY <1>5 DEF CallFailed
  <2>2. slips' \in 0..MaxSlips
    BY <1>1, <1>5, SlipTyped DEF CallFailed
  <2>3. StaleIsRead'
    BY <1>1, <2>1 DEF StaleIsRead
  <2> QED
    BY <1>1, <1>3, <2>1, <2>2, <2>3, ClientMoves
<1> QED
  BY <1>2, <1>4, <1>5

LEMMA PagesStart == PagesInit => PagesInv
<1> SUFFICES ASSUME PagesInit PROVE PagesInv
  OBVIOUS
<1>1. ServerTyped /\ ProcessingHasWork
  BY DEF PagesInit, ServerTyped, ProcessingHasWork, Levels, WorkStates
<1>2. page \in Page /\ page.view = NoView /\ ~page.fresh /\ ~page.shown
  BY DEF PagesInit, Page, Ages
<1>3. fetch \in Fetches /\ slips \in 0..MaxSlips
  BY PagesAssumption DEF PagesInit, Fetches, NoFetch
<1>4. ViewsWatch /\ StaleIsRead
  BY <1>2 DEF ViewsWatch, StaleIsRead, PagesInit, NoFetch
<1> QED
  BY <1>1, <1>2, <1>3, <1>4 DEF PagesInv, ClientSide, PagesInit

LEMMA PagesKeep == PagesInv /\ [PagesNext]_pageVars => PagesInv'
<1> SUFFICES ASSUME ServerTyped, ProcessingHasWork, ClientSide, [PagesNext]_pageVars
             PROVE  ServerTyped' /\ ProcessingHasWork' /\ ClientSide'
  BY DEF PagesInv
<1>1. CASE UNCHANGED pageVars
  BY <1>1, ServerRests, ClientRests DEF pageVars, serverVars
<1>2. CASE Others
  <2>1. UNCHANGED <<viewer, page, fetch, ask, slips>>
    BY <1>2 DEF Others, PageSame
  <2>2. CASE \E u \in PageUploads : Declare(u) \/ Complete(u) \/ DirectToSubmission(u)
    BY <2>1, <2>2, UploadsKeep, ClientRests
  <2>3. CASE \E what \in AllCalls : Effect(what)
    BY <2>1, <2>3, EffectKeeps, ClientRests
  <2> QED
    BY <1>2, <2>2, <2>3 DEF Others
<1>3. CASE \E u \in PageUploads : Works(u)
  BY <1>3, UploadsKeep, ClientRests DEF Works, PageSame
<1>4. CASE OpenPage \/ Leave \/ PollPage
  <2>1. UNCHANGED serverVars
    BY <1>4 DEF OpenPage, Leave, PollPage
  <2> QED
    BY <1>4, <2>1, ServerRests, PageMoves
<1>5. CASE Reading
  BY <1>5, ReadingKeeps, ServerRests
<1>6. CASE \E what \in AllCalls : Press(what)
  <2>1. UNCHANGED serverVars
    BY <1>6 DEF Press
  <2> QED
    BY <1>6, <2>1, ServerRests, PressKeeps
<1>7. CASE Answering
  BY <1>7, AnswersKeep
<1> QED
  BY <1>1, <1>2, <1>3, <1>4, <1>5, <1>6, <1>7 DEF PagesNext

LEMMA PagesInvariant == PagesSpec => []PagesInv
BY PagesStart, PagesKeep, PTL DEF PagesSpec

\* An open page without an error is being read, or shows a status that no call of
\* its own has overtaken, but for those missed while it was left, and polls if it
\* shows a submission in processing that was read in one piece (SubmissionDetailPage,
\* ReviewDetailPage: refetchInterval, onSuccess).
THEOREM PagesAttended == PagesSpec => []PageAttended
<1>1. PagesInv => PageAttended
  BY DEF PagesInv, ClientSide, ViewsWatch, StaleIsRead, WatchesIfWhole, PageAttended
<1> QED
  BY <1>1, PagesInvariant, PTL

\* The variables of the pages keep their types.
THEOREM PagesTypes == PagesSpec => []PagesTypeOK
<1>1. PagesInv => PagesTypeOK
  BY DEF PagesInv, ServerTyped, ClientSide, Page, Fetches, PagesTypeOK
<1> QED
  BY <1>1, PagesInvariant, PTL
=============================================================================
