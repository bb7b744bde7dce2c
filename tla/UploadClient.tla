---------------------------- MODULE UploadClient ----------------------------
(***************************************************************************)
(* The upload hook of a contributor's page.  Every file that was picked    *)
(* goes through a chain of calls of its own, hash, init, PUT and complete, *)
(* and the page polls the submission until the server has processed what   *)
(* was completed.  Calls fail before or after the server has acted, polls  *)
(* overtake each other, and files are retried or removed meanwhile.  The   *)
(* server side, in single steps here, is the one of SubmissionLifecycle.   *)
(***************************************************************************)
EXTENDS Naturals, FiniteSets

CONSTANTS
  Picks,       \* files that the contributor picks
  UploadIds,   \* ids of upload rows; there are as many as the policy allows
  NoUpload,    \* uploadId is null
  MaxPolls,    \* bound: polls that are under way at the same time
  MaxLosses    \* bound: calls of the page that fail

ASSUME UploaderAssumption == NoUpload \notin UploadIds /\ MaxPolls \in Nat /\ MaxLosses \in Nat

VARIABLES
  entry,     \* the files of the hook, with the call that each waits for
  upload,    \* upload.processingStatus
  intake,    \* submission.status
  polls,     \* answers of the server that have not arrived
  losses,    \* calls that have failed
  latest,    \* uploadId of the last run of uploadFile for a file
  finished   \* history: the uploads that were completed at some time

uploaderVars == <<entry, upload, intake, polls, losses, latest, finished>>

Phases == {"absent", "idle", "hashing", "uploading", "processing", "ready", "error"}
UploadCalls == {"none", "hash", "init", "put", "complete"}
FileEntry == [phase: Phases, call: UploadCalls, id: UploadIds \cup {NoUpload}]
NoEntry == [phase |-> "absent", call |-> "none", id |-> NoUpload]
UploadStates == {"none", "queued", "processing", "completed", "failed"}
Intakes == {"draft", "uploaded", "processing", "processing_failed", "ready_for_submission"}

UploaderInit ==
  /\ entry = [f \in Picks |-> NoEntry]
  /\ upload = [u \in UploadIds |-> "none"]
  /\ intake = "draft"
  /\ polls = {} /\ losses = 0
  /\ latest = [f \in Picks |-> NoUpload]
  /\ finished = {}

ServerSame == UNCHANGED <<upload, intake, latest, finished>>
Loss == losses < MaxLosses /\ losses' = losses + 1

-----------------------------------------------------------------------------
(* The files of the page                                                   *)

AddFile(f) ==
  /\ entry[f].phase = "absent"
  /\ entry' = [entry EXCEPT ![f] = [NoEntry EXCEPT !.phase = "idle"]]
  /\ UNCHANGED <<polls, losses>> /\ ServerSame

\* removeFile: the row offers it unless the file is being hashed or sent.
RemoveFile(f) ==
  /\ entry[f].phase \in {"idle", "processing", "ready", "error"}
  /\ entry' = [entry EXCEPT ![f] = NoEntry]
  /\ UNCHANGED <<polls, losses>> /\ ServerSame

ClearCompleted ==
  /\ \E f \in Picks : entry[f].phase = "ready"
  /\ entry' = [f \in Picks |-> IF entry[f].phase = "ready" THEN NoEntry ELSE entry[f]]
  /\ UNCHANGED <<polls, losses>> /\ ServerSame

PendingFiles == {f \in Picks : entry[f].phase \in {"idle", "error"}}

\* uploadFile of one file, from its row, or of all that are pending.
UploadFiles(some) ==
  /\ some # {} /\ some \subseteq PendingFiles
  /\ entry' = [f \in Picks |->
       IF f \in some THEN [entry[f] EXCEPT !.phase = "hashing", !.call = "hash"] ELSE entry[f]]
  /\ UNCHANGED <<polls, losses>> /\ ServerSame

UploadAll ==
  /\ \A f \in Picks : entry[f].phase \notin {"hashing", "uploading", "processing"}
  /\ UploadFiles(PendingFiles)

-----------------------------------------------------------------------------
(* The calls of one file                                                   *)

\* The file goes to a phase and waits for a call.
Goes(f, phase, call) == entry' = [entry EXCEPT ![f].phase = phase, ![f].call = call]

Hash(f) ==
  /\ entry[f].call = "hash"
  /\ Goes(f, "uploading", "init")
  /\ UNCHANGED <<polls, losses>> /\ ServerSame

\* The number of rows is limited, and so are the states that take another.
Unused == {u \in UploadIds : upload[u] = "none"}
Accepts == Unused # {} /\ intake \in {"draft", "uploaded", "ready_for_submission"}

\* Mutant (MCProgress): a retry keeps the id of the first attempt.
FirstId(f, u) == IF entry[f].id = NoUpload THEN u ELSE entry[f].id

\* The id that the page keeps of the answer.
KeptId(f, u) == u

NewId == CHOOSE u \in Unused : TRUE

\* The server creates the row.
Created(f) ==
  /\ Accepts
  /\ upload' = [upload EXCEPT ![NewId] = "queued"]
  /\ intake' = "uploaded"
  /\ latest' = [latest EXCEPT ![f] = NewId]
  /\ UNCHANGED finished

InitCall(f) ==
  /\ entry[f].call = "init"
  /\ \/ /\ Created(f)
        /\ entry' = [entry EXCEPT ![f].id = KeptId(f, NewId), ![f].call = "put"]
        /\ UNCHANGED losses
     \/ /\ ~Accepts
        /\ Goes(f, "error", "none")
        /\ UNCHANGED losses /\ ServerSame
  /\ UNCHANGED polls

\* The object is in the bucket; the row does not change.
PutCall(f) ==
  /\ entry[f].call = "put"
  /\ Goes(f, "uploading", "complete")
  /\ UNCHANGED <<polls, losses>> /\ ServerSame

CompleteCall(f) ==
  /\ entry[f].call = "complete"
  /\ upload' = [upload EXCEPT ![latest[f]] = "processing"]
  /\ intake' = "processing"
  /\ Goes(f, "processing", "none")
  /\ UNCHANGED <<polls, losses, latest, finished>>

\* A call fails: nothing was done, or the answer of init or complete was lost, or
\* the server found that the object is not what was declared.
CallFails(f) ==
  /\ entry[f].call # "none" /\ Loss
  /\ Goes(f, "error", "none")
  /\ \/ ServerSame
     \/ entry[f].call = "init" /\ Created(f)
     \/ /\ entry[f].call = "complete"
        /\ \/ upload' = [upload EXCEPT ![latest[f]] = "processing"] /\ intake' = "processing"
           \/ upload' = [upload EXCEPT ![latest[f]] = "failed"] /\ intake' = "processing_failed"
        /\ UNCHANGED <<latest, finished>>
  /\ UNCHANGED polls

-----------------------------------------------------------------------------
(* The server, and the polling of the page                                 *)

\* processUpload, with the status that the states of the uploads add up to.
Process(u) ==
  /\ upload[u] = "processing"
  /\ \E outcome \in {"completed", "failed"} :
       LET now == [upload EXCEPT ![u] = outcome]
           states == {now[v] : v \in UploadIds} IN
       /\ upload' = now
       /\ intake' = IF "failed" \in states THEN "processing_failed"
                    ELSE IF states \cap {"queued", "processing"} # {} THEN "processing"
                    ELSE "ready_for_submission"
       /\ finished' = IF outcome = "completed" THEN finished \cup {u} ELSE finished
  /\ UNCHANGED <<entry, polls, losses, latest>>

\* The page polls while it shows a file in processing; the answer holds what
\* the server had when it was asked.
Poll ==
  /\ \E f \in Picks : entry[f].phase = "processing"
  /\ Cardinality(polls) < MaxPolls /\ upload \notin polls
  /\ polls' = polls \cup {upload}
  /\ UNCHANGED <<entry, losses>> /\ ServerSame

\* Mutant (MCProgress): a failure that the poll reports is not shown.
CompletedOnly(e, answer) ==
  IF e.phase = "processing" /\ e.id # NoUpload /\ answer[e.id] = "completed"
  THEN [e EXCEPT !.phase = "ready"] ELSE e

\* Each file in processing follows its own upload; one that the answer does
\* not have yet waits for the next.
Polled(e, answer) ==
  IF e.phase # "processing" \/ e.id = NoUpload THEN e
  ELSE CASE answer[e.id] = "completed" -> [e EXCEPT !.phase = "ready"]
         [] answer[e.id] = "failed" -> [e EXCEPT !.phase = "error"]
         [] OTHER -> e

PollAnswered(answer) ==
  /\ answer \in polls
  /\ polls' = polls \ {answer}
  /\ \/ /\ entry' = [f \in Picks |-> Polled(entry[f], answer)]
        /\ UNCHANGED losses
     \/ Loss /\ UNCHANGED entry
  /\ ServerSame

-----------------------------------------------------------------------------
Call(f) == Hash(f) \/ InitCall(f) \/ PutCall(f) \/ CompleteCall(f) \/ CallFails(f)

UploaderNext ==
  \/ \E f \in Picks : AddFile(f) \/ RemoveFile(f) \/ UploadFiles({f}) \/ Call(f)
  \/ ClearCompleted \/ UploadAll
  \/ \E u \in UploadIds : Process(u)
  \/ Poll \/ \E answer \in polls : PollAnswered(answer)

UploaderSpec == UploaderInit /\ [][UploaderNext]_uploaderVars

\* Calls end, the server works on, and the page polls at its interval.
UploaderFairness ==
  /\ \A f \in Picks : WF_uploaderVars(Call(f))
  /\ \A u \in UploadIds : WF_uploaderVars(Process(u))
  /\ WF_uploaderVars(Poll)
  /\ WF_uploaderVars(\E answer \in polls : PollAnswered(answer))

UploaderTypeOK ==
  /\ entry \in [Picks -> FileEntry]
  /\ upload \in [UploadIds -> UploadStates]
  /\ intake \in Intakes
  /\ losses \in 0..MaxLosses
  /\ latest \in [Picks -> UploadIds \cup {NoUpload}]
  /\ finished \subseteq UploadIds

\* A file that the page shows as ready is one whose last attempt the server
\* has processed, whatever earlier attempts, retries and late polls did.
ReadyIsFinished ==
  \A f \in Picks : entry[f].phase = "ready" => latest[f] \in finished

\* No file is busy for ever: it becomes ready, or shows an error that the
\* contributor can retry, or is removed.
FilesSettle ==
  \A f \in Picks :
    entry[f].phase \in {"hashing", "uploading", "processing"} ~>
      entry[f].phase \in {"ready", "error", "absent"}
=============================================================================
