----------------------------- MODULE MCProgress -----------------------------
(* Instances for TLC of the modules in which something must settle in the  *)
(* end: the search index behind its queue, the upload hook of the browser, *)
(* and the pages that follow a submission.  Each behaviour is one of the   *)
(* part that is chosen at the start; the other parts stand still.          *)
EXTENDS PublicationIndex, UploadClient, SubmissionPages, TLC

CONSTANTS a1, fam1, w1, pick1, pick2, u1, u2

VARIABLE part

progressVars == <<part, vars, uploaderVars, pageVars>>

\* One page for each initial value of the parts that have not been chosen.
ProgressInit ==
  /\ part \in {"index", "uploader", "pages"}
  /\ Init /\ UploaderInit /\ PagesInit
  /\ part = "index" \/ mode = CHOOSE m \in QueueModes : TRUE
  /\ part = "pages" \/ viewer = "owner"

\* An edit meets one failure, since two beside it tell nothing more.
OnIndex ==
  /\ part = "index" /\ Next
  /\ failures' <= 1 \/ \A f \in Families : edition'[f] = 0
  /\ UNCHANGED <<uploaderVars, pageVars>>

ProgressNext ==
  /\ part' = part
  /\ \/ OnIndex
     \/ part = "uploader" /\ UploaderNext /\ UNCHANGED <<vars, pageVars>>
     \/ part = "pages" /\ PagesNext /\ UNCHANGED <<vars, uploaderVars>>

ProgressSpec ==
  /\ ProgressInit /\ [][ProgressNext]_progressVars
  /\ Fairness /\ UploaderFairness /\ PagesFairness
=============================================================================
