-------------------------- MODULE ReviewRefinement --------------------------
(* The rows that SubmissionLifecycle writes, as the public sees them.      *)
EXTENDS SubmissionLifecycle

Publication == INSTANCE ReviewedPublication WITH
  decision <- verdict,
  cleared <- reviewed # {},
  shown <- family = "approved",
  visible <- {s \in Styles : styles[s] = "approved"}

\* However uploads, jobs, decisions, restores and archives interleave, each
\* step of the code is a step of ReviewedPublication or changes nothing that
\* the public sees: late jobs and restores never show what no approval has
\* shown, and a decision shows or hides the family and its styles together.
PublicationReviewed == Publication!Spec
=============================================================================
