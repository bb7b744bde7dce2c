------------------------ MODULE ReviewedPublication ------------------------
(***************************************************************************)
(* What the review promises to the public, without uploads, queues or      *)
(* handlers: nothing is shown before an approval; an approval shows the    *)
(* family with at least one style at once; every other decision hides all  *)
(* of it at once; and staff may hide what is shown, and show again what an *)
(* approval has shown before.  ReviewRefinement maps SubmissionLifecycle   *)
(* to it.                                                                  *)
(***************************************************************************)
CONSTANT Styles

VARIABLES
  decision,  \* the latest decision, "none" before the first
  cleared,   \* some decision was an approval
  shown,     \* the family is public
  visible    \* styles that are public as soon as the family is

pubvars == <<decision, cleared, shown, visible>>

Init == decision = "none" /\ cleared = FALSE /\ shown = FALSE /\ visible = {}

Approve ==
  /\ decision' = "approved" /\ cleared' = TRUE
  /\ shown' = TRUE
  /\ visible' \in (SUBSET Styles) \ {{}}
  /\ visible \subseteq visible'

TurnDown ==
  /\ decision' \in {"rejected", "changes_requested"}
  /\ shown' = FALSE /\ visible' = {}
  /\ UNCHANGED cleared

Hide == shown' = FALSE /\ UNCHANGED <<decision, cleared, visible>>

ShowAgain == cleared /\ shown' = TRUE /\ UNCHANGED <<decision, cleared, visible>>

HideStyle(s) == visible' = visible \ {s} /\ UNCHANGED <<decision, cleared, shown>>

ShowStyle(s) ==
  cleared /\ visible' = visible \cup {s} /\ UNCHANGED <<decision, cleared, shown>>

Next ==
  \/ Approve \/ TurnDown \/ Hide \/ ShowAgain
  \/ \E s \in Styles : HideStyle(s) \/ ShowStyle(s)

Spec == Init /\ [][Next]_pubvars
=============================================================================
