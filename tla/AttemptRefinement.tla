-------------------------- MODULE AttemptRefinement --------------------------
(***************************************************************************)
(* AssessmentAttempt implements AttemptLifecycle.  Between the claim and the  *)
(* end of the sheet transaction the attempt counts as open: a put-back then   *)
(* undoes nothing anybody saw.                                                *)
(***************************************************************************)
EXTENDS AssessmentAttempt

\* Attempt a was claimed and its sheet is still being written or put back.
InTransit(a) ==
  /\ status[a] \in {"SUBMITTED", "AUTO_GRADED"}
  /\ \E r \in Slots : req[r].work = a /\ req[r].pc \in {"write", "undo"}

StageOf(a) ==
  CASE status[a] = "none"      -> "none"
    [] status[a] = Open        -> "open"
    [] status[a] = "EXPIRED"   -> "expired"
    [] status[a] = "GRADED"    -> "reviewed"
    [] status[a] = "FINALIZED" -> "final"
    [] OTHER                   -> IF InTransit(a) THEN "open" ELSE "submitted"

Lifecycle == INSTANCE AttemptLifecycle WITH
  stage  <- [a \in Attempts |-> StageOf(a)],
  result <- [a \in Attempts |->
               IF StageOf(a) \in {"submitted", "reviewed", "final"}
               THEN passed[a] ELSE Null],
  contested <- contested

\* Attempts only move forward, and a result once final stays: submits that
\* are put back, expiries racing submits and gradings racing them included.  An
\* attempt two reviews, or a review and a put-back, have met on is excepted.
ForwardOnly == Lifecycle!Spec
=============================================================================
