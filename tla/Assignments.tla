------------------------------ MODULE Assignments -----------------------------
(***************************************************************************)
(* One assignment and the submission of one student: submitting, reviewing,   *)
(* returning and resubmitting, the edits and the deletion of the assignment,  *)
(* and the bell notifications all of them leave behind.                      *)
(*                                                                          *)
(* Every request may stop at any of its round trips.  Feedback is left out:   *)
(* two reviews of one status and score carry feedback of the same length.     *)
(***************************************************************************)
EXTENDS Naturals, FiniteSets

CONSTANTS
  Slots,       \* concurrent requests, of the student and of reviewers
  Scores, None,
  Verdicts,    \* statuses that reviewers give
  MaxUploads   \* bound on submissions

ASSUME AssignmentAssumption ==
  /\ None \notin Scores
  /\ Verdicts \subseteq {"submitted", "in_review", "approved", "rejected", "returned"}
  /\ MaxUploads \in Nat

VARIABLES
  assignment,
  submission,  \* at is submittedAt; reviewed, that reviewedByAdminId is set
  files,       \* the uploads whose attachment rows hang on the submission
  bells,       \* notification rows
  uploads,     \* how many uploads there were; the clock of submittedAt
  req,
  cut          \* history: a request was cut off after its write

rows           == <<assignment, submission, files>>
assignmentVars == <<rows, bells, uploads, req, cut>>

Status      == {"submitted", "in_review", "approved", "rejected", "returned"}
Final       == {"approved", "rejected"}
Score       == Scores \cup {None}
Uploads     == 1 .. MaxUploads
Submission  == [exists : BOOLEAN, status : Status, score : Score, at : 0 .. MaxUploads,
                reviewed : BOOLEAN]
NoSubmission == [exists |-> FALSE, status |-> "submitted", score |-> None, at |-> 0,
                 reviewed |-> FALSE]
Uploaded(at)  == [NoSubmission EXCEPT !.exists = TRUE, !.at = at]

Submitted(at)         == [kind |-> "submitted", at |-> at]
Graded(status, score) == [kind |-> "graded", status |-> status, score |-> score]
Bell == {Submitted(at) : at \in Uploads} \cup
        {Graded(status, score) : status \in Status, score \in Score}

Request == [pc : {"idle", "create", "clear", "replace", "review", "lookup", "tell", "delete"},
            seen : SUBSET Uploads, at : 0 .. MaxUploads, status : Status, score : Score,
            changed : BOOLEAN, known : BOOLEAN]
NoRequest ==
  [pc |-> "idle", seen |-> {}, at |-> 0, status |-> "submitted",
   score |-> None, changed |-> FALSE, known |-> FALSE]

Doing(r, step)     == req[r].pc = step
Becomes(r, record) == req' = [req EXCEPT ![r] = record]
Quiet              == \A r \in Slots : Doing(r, "idle")

-----------------------------------------------------------------------------
AssignmentInit ==
  /\ assignment = [exists |-> TRUE, active |-> TRUE, numeric |-> TRUE, again |-> TRUE]
  /\ submission = NoSubmission
  /\ files = {} /\ bells = {} /\ uploads = 0
  /\ req = [r \in Slots |-> NoRequest]
  /\ cut = FALSE

CutOff(r) ==
  /\ ~Doing(r, "idle")
  /\ cut' = (cut \/ req[r].pc \in {"lookup", "tell"})
  /\ Becomes(r, NoRequest)
  /\ UNCHANGED <<rows, bells, uploads>>

\* updateAssignment: whether it is active, may be resubmitted, and how it is
\* graded.  Nobody is notified.
UpdateAssignment ==
  /\ assignment.exists
  /\ \E active, numeric, again \in BOOLEAN :
       assignment' = [exists |-> TRUE, active |-> active, numeric |-> numeric,
                      again |-> again]
  /\ UNCHANGED <<submission, files, bells, uploads, req, cut>>

-----------------------------------------------------------------------------
(* createSubmission *)

\* A row that was returned, of an assignment that takes it again.
MayResubmit == submission.status = "returned" /\ assignment.again

SubmitRequest(r) ==
  /\ Doing(r, "idle") /\ assignment.exists /\ assignment.active
  /\ \/ ~submission.exists /\ Becomes(r, [NoRequest EXCEPT !.pc = "create"])
     \/ submission.exists /\ MayResubmit /\ Becomes(r, [NoRequest EXCEPT !.pc = "clear"])
  /\ UNCHANGED <<rows, bells, uploads, cut>>

\* Mutant: the bell is keyed by the submission, which a resubmission keeps.
SubmittedKeySame(at) == 1

\* The time of submission is in the key.
SubmittedKey(at) == at

ToldSubmitted(at) ==
  [NoRequest EXCEPT !.pc = "tell", !.at = SubmittedKey(at), !.changed = TRUE]

\* One submission per student and assignment, of an assignment that exists.
Create(r) ==
  LET now == uploads + 1 IN
  /\ Doing(r, "create") /\ uploads < MaxUploads
  /\ IF assignment.exists /\ ~submission.exists
     THEN /\ submission' = Uploaded(now)
          /\ files' = {now} /\ uploads' = now
          /\ Becomes(r, ToldSubmitted(now))
     ELSE Becomes(r, NoRequest) /\ UNCHANGED <<submission, files, uploads>>
  /\ UNCHANGED <<assignment, bells, cut>>

\* The deletion inside the transaction sees the attachments that are committed.
Clear(r) ==
  /\ Doing(r, "clear")
  /\ Becomes(r, [req[r] EXCEPT !.pc = "replace", !.seen = files])
  /\ UNCHANGED <<rows, bells, uploads, cut>>

\* ... and its commit replaces those by the new ones.  What the row has become
\* since it was read does not matter, as long as it is there.
Replace(r) ==
  LET now == uploads + 1 IN
  /\ Doing(r, "replace") /\ uploads < MaxUploads
  /\ IF submission.exists
     THEN /\ submission' = Uploaded(now)
          /\ files' = (files \ req[r].seen) \cup {now} /\ uploads' = now
          /\ Becomes(r, ToldSubmitted(now))
     ELSE Becomes(r, NoRequest) /\ UNCHANGED <<submission, files, uploads>>
  /\ UNCHANGED <<assignment, bells, cut>>

-----------------------------------------------------------------------------
(* reviewSubmission *)

\* A numeric assignment is decided with a score; short of a decision, back to
\* submitted included, the score that was read stays.  Pass or fail has none.
ScoresFor(status) ==
  IF ~assignment.numeric THEN {None}
  ELSE IF status \in Final THEN Scores ELSE Scores \cup {submission.score}

ReviewRequest(r) ==
  /\ Doing(r, "idle") /\ submission.exists
  /\ \E status \in Verdicts : \E score \in ScoresFor(status) :
       Becomes(r, [NoRequest EXCEPT !.pc = "review", !.status = status, !.score = score])
  /\ UNCHANGED <<rows, bells, uploads, cut>>

\* Mutant: the student is told of final decisions only.
ToldReviewFinal(status) == status \in Final

\* Every review is told.
ToldReview(status) == TRUE

\* Unconditional.
ReviewWrite(r) ==
  /\ Doing(r, "review")
  /\ IF submission.exists
     THEN /\ submission' = [submission EXCEPT !.status = req[r].status,
                                              !.score = req[r].score, !.reviewed = TRUE]
          /\ IF ToldReview(req[r].status)
             THEN Becomes(r, [req[r] EXCEPT !.pc = "lookup",
                                           !.changed = req[r].status # submission.status])
             ELSE Becomes(r, NoRequest)
     ELSE Becomes(r, NoRequest) /\ UNCHANGED submission
  /\ UNCHANGED <<assignment, files, bells, uploads, cut>>

\* notifyAssignmentGraded says nothing of an assignment that is gone.
Lookup(r) ==
  /\ Doing(r, "lookup")
  /\ Becomes(r, IF assignment.exists THEN [req[r] EXCEPT !.pc = "tell"] ELSE NoRequest)
  /\ UNCHANGED <<rows, bells, uploads, cut>>

\* The dedupe key of what a request has to tell: of an upload its time, of a review
\* the status and the score.
BellOf(r) ==
  IF req[r].at > 0 THEN Submitted(req[r].at) ELSE Graded(req[r].status, req[r].score)

\* createNotification: a key that is there already is skipped.
Tell(r) ==
  /\ Doing(r, "tell")
  /\ bells' = bells \cup {BellOf(r)}
  /\ Becomes(r, NoRequest)
  /\ UNCHANGED <<rows, uploads, cut>>

-----------------------------------------------------------------------------
(* deleteAssignment *)

DeleteRequest(r) ==
  /\ Doing(r, "idle") /\ assignment.exists
  /\ Becomes(r, [NoRequest EXCEPT !.pc = "delete", !.known = submission.exists])
  /\ UNCHANGED <<rows, bells, uploads, cut>>

\* Bells of a submission are found by the ids that were read.
Delete(r) ==
  /\ Doing(r, "delete")
  /\ IF assignment.exists
     THEN /\ assignment' = [assignment EXCEPT !.exists = FALSE]
          /\ submission' = NoSubmission /\ files' = {}
          /\ bells' = IF req[r].known THEN {}
                      ELSE {b \in bells : b.kind = "graded"}
     ELSE UNCHANGED <<rows, bells>>
  /\ Becomes(r, NoRequest)
  /\ UNCHANGED <<uploads, cut>>

-----------------------------------------------------------------------------
Step(r) ==
  \/ SubmitRequest(r) \/ Create(r) \/ Clear(r) \/ Replace(r)
  \/ ReviewRequest(r) \/ ReviewWrite(r) \/ Lookup(r) \/ Tell(r)
  \/ DeleteRequest(r) \/ Delete(r) \/ CutOff(r)

AssignmentNext == UpdateAssignment \/ \E r \in Slots : Step(r)

AssignmentSpec == AssignmentInit /\ [][AssignmentNext]_assignmentVars

-----------------------------------------------------------------------------
(* Properties *)

\* Every variable has its type.
AssignmentTypeOK ==
  /\ assignment \in [exists : BOOLEAN, active : BOOLEAN, numeric : BOOLEAN, again : BOOLEAN]
  /\ submission \in Submission
  /\ files \subseteq Uploads
  /\ bells \subseteq Bell
  /\ uploads \in 0 .. MaxUploads
  /\ req \in [Slots -> Request]
  /\ cut \in BOOLEAN

\* The reviewer is told of the submission that is there, a resubmission as much as
\* the first (notifyAssignmentSubmitted), once no request is pending.
ReviewerHears ==
  Quiet /\ ~cut /\ submission.exists => Submitted(submission.at) \in bells

\* Whatever reviews raced with each other and with resubmissions, the student has
\* been told of the status and the score of a submission that was reviewed, of one
\* put back to submitted as well (notifyAssignmentGraded).  The bell may be one of
\* an earlier round with the same values: EveryChangeTold is about that.
StudentHears ==
  Quiet /\ ~cut /\ submission.exists /\ submission.reviewed =>
    Graded(submission.status, submission.score) \in bells

\* Every status change is told (docs/assignment-frontend-handoff.md:389).  A status
\* that comes back with the same score repeats the key.
EveryChangeTold ==
  \A r \in Slots : Doing(r, "tell") /\ req[r].changed => BellOf(r) \notin bells

\* The files of a submission are those of one upload, hence five at most
\* (schema.prisma, AssignmentSubmissionAttachment).  Two resubmissions whose
\* deletions see the same files both add theirs.
OneUpload == Cardinality(files) <= 1

\* Nothing rings for an assignment that was deleted (deleteAssignment).  A review
\* or a submission told after the deletion does.
NoGhostBells == Quiet /\ ~assignment.exists => bells = {}
=============================================================================
