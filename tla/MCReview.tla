------------------------------ MODULE MCReview ------------------------------
(* Three instances of SubmissionLifecycle in one run.  Each behaviour is   *)
(* of the part that is chosen at the start: "files" has two files and the  *)
(* requests of contributors and reviewers, "catalogue" one file and every  *)
(* request on the family and its style, "crash" the same with one request  *)
(* at a time and a crash of it or of the worker.                           *)
EXTENDS MCSubmissionLifecycle

VARIABLE part

reviewVars == <<vars, part>>

ReviewInit == Init /\ part \in {"files", "catalogue", "crash"}

OnFiles ==
  \/ \E u \in Uploads : PutObject(u)
  \/ \E p \in Api :
       \/ \E u \in Uploads : InitBegin(p, u) \/ CompleteBegin(p, u)
       \/ SubmitBegin(p)
       \/ \E d \in Decisions : DecideBegin(p, d)
  \/ \E p \in Procs : HandlerStep(p)
  \/ \E w \in Workers : TakeJob(w)

\* Files that have a row or a request that will give them one.
Touched == Existing \cup ({handler[p].upload : p \in Procs} \ {None})

OnCatalogue == Next /\ crashes' = 0 /\ Cardinality(Touched') <= 1

InFlight == {p \in Api : ~At(p, "idle")}

OnCrash == Next /\ Cardinality(Touched') <= 1 /\ Cardinality(InFlight') <= 1

ReviewNext ==
  /\ part' = part
  /\ \/ part = "files" /\ OnFiles
     \/ part = "catalogue" /\ OnCatalogue
     \/ part = "crash" /\ OnCrash

ReviewSpec == ReviewInit /\ [][ReviewNext]_reviewVars
=============================================================================
