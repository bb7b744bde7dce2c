----------------------- MODULE MCSubmissionLifecycle -----------------------
(* Instances of SubmissionLifecycle for TLC.                               *)
EXTENDS ReviewRefinement, TLC

CONSTANTS u1, u2, u3, s1, s2, a1, a2, w1, w2

\* The styles that the files inspect to.
OneFile == u1 :> s1
TwoStyles == u1 :> s1 @@ u2 :> s1 @@ u3 :> s2
SameStyle == [u \in Uploads |-> s1]

ContributorOps == {"init", "put", "complete", "submit"}
ReviewOps == ContributorOps \cup {"decide"}
StaffOps == {"init", "direct", "reprocess", "decide"}
RestoreOps == ContributorOps \cup {"restore", "restore_style"}
CatalogueOps == ReviewOps \cup {"archive", "restore", "archive_style", "restore_style"}

\* Requests are interchangeable, and so are files of the same style.
Symmetry == Permutations(Api) \cup Permutations(Uploads)
StaffSymmetry == Permutations(Api) \cup Permutations({u1, u2})
=============================================================================
