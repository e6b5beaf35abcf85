-------------------------- MODULE AssessmentAttempt --------------------------
(***************************************************************************)
(* The life of one learner's attempts at one final assessment, as           *)
(* CourseAssessmentService runs it: start, autosave, submit, expiry on      *)
(* read, admin grading and admin finalisation.                              *)
(*                                                                          *)
(* Every HTTP request is a process (a "slot") that takes one action per     *)
(* database round trip, so other requests run between its reads and its     *)
(* writes.  A request may crash between any two round trips (the serverless *)
(* instance is stopped at maxDuration).  One question carries one mark, so  *)
(* a score is 0 or 1 and the total is the number of questions scored 1.     *)
(***************************************************************************)
EXTENDS Naturals, FiniteSets

CONSTANTS
  Attempts,     \* rows of assessment_attempts the learner can ever create
  Questions,    \* the question snapshots of an attempt
  Manual,       \* those of type SHORT_ANSWER or LONG_ANSWER
  Learners,     \* slots that run requests of the learner (tabs, double clicks)
  Admins,       \* slots that run requests of administrators, perhaps the same
  Limits,       \* values an admin may give assessment.maxAttempts
  Unlimited,    \* maxAttempts = null
  Null,         \* an absent value
  PassMark,     \* marks needed to pass (snapshotPassingPct)
  Timed,        \* the assessment has a time limit
  MayCrash,     \* requests may be cut off between two round trips
  MayFail       \* the transaction that writes the graded sheet may fail

ASSUME AttemptAssumption ==
  /\ IsFiniteSet(Attempts) /\ IsFiniteSet(Questions)
  /\ Manual \subseteq Questions
  /\ Limits \subseteq Nat \cup {Unlimited} /\ Limits # {}
  /\ Unlimited \notin Nat
  /\ Null \notin Nat \cup Attempts \cup BOOLEAN
  /\ PassMark \in Nat
  /\ {Timed, MayCrash, MayFail} \subseteq BOOLEAN

VARIABLES
  status,       \* AssessmentAttempt.status, "none" while the row does not exist
  granted,      \* snapshotMaxAttempts of each attempt
  late,         \* attempts whose deadline and grace have passed
  marks,        \* marksObtained
  passed,       \* isPassed
  sheet,        \* AttemptQuestionSnapshot rows: answer, system and admin score
  maxAttempts,  \* assessment.maxAttempts
  completion,   \* the learner's CourseCompletion: isPassed, bestAttemptId
  req,          \* the request each slot is running
  written,      \* history: the graded sheet of the last claim was committed
  effects,      \* history: how often _afterSubmit ran for the attempt
  everPassed,   \* history: attempts that have shown isPassed = TRUE
  contested     \* history: attempts two reviews, or a review and a put-back, met on

rowVars  == <<status, granted, late, marks, passed, sheet>>
histVars == <<written, effects, everPassed, contested>>
vars     == <<rowVars, maxAttempts, completion, req, histVars>>

Slots     == Learners \cup Admins
Blank     == "blank"
Answer    == {Blank, "right", "wrong"}
Score     == {Null, 0, 1}
Open      == "IN_PROGRESS"
Gradable  == {"SUBMITTED", "AUTO_GRADED", "GRADED"}
Status    == {"none", Open, "EXPIRED", "FINALIZED"} \cup Gradable
Steps     == {"idle", "save", "stale", "expire", "claim", "write", "undo",
              "after", "upsertRead", "upsert", "start", "submit",
              "grade", "finalize"}
Ops       == {"none", "save", "start", "submit", "view", "grade", "finalize"}
Request   == [op : Ops, pc : Steps, stale : BOOLEAN,
              target : Attempts \cup {Null}, work : Attempts \cup {Null},
              answers : [Questions -> Answer], scores : [Questions -> Score],
              limit : Nat \cup {Unlimited}, marks : Nat,
              pick : Attempts \cup {Null}]

NoAnswers == [q \in Questions |-> Blank]
NoScores  == [q \in Questions |-> Null]
Idle      == [op |-> "none", pc |-> "idle", stale |-> FALSE,
              target |-> Null, work |-> Null,
              answers |-> NoAnswers, scores |-> NoScores,
              limit |-> 0, marks |-> 0, pick |-> Null]

-----------------------------------------------------------------------------
(* Pure helpers *)

\* Mutant: a partial-credit rule that can award more than the question carries.
AutoScoreOverMax(q, answer) ==
  IF answer = Blank \/ q \in Manual THEN Null
  ELSE IF answer = "right" THEN 2 ELSE 0

\* calculateAutoScore: null for no answer and for the manually graded types.
AutoScore(q, answer) ==
  IF answer = Blank \/ q \in Manual THEN Null
  ELSE IF answer = "right" THEN 1 ELSE 0

TotalMarks(scores) == Cardinality({q \in Questions : scores[q] = 1})
IsPass(total)      == total >= PassMark

AnswersOf(a) == [q \in Questions |-> sheet[a][q].answer]

\* adminScore ?? systemScore ?? 0
FinalScores(a) ==
  [q \in Questions |->
     IF sheet[a][q].admin # Null THEN sheet[a][q].admin
     ELSE IF sheet[a][q].system # Null THEN sheet[a][q].system ELSE 0]

\* The values _gradeAndSubmit computes from the answers it was given.
SystemScores(answers) == [q \in Questions |-> AutoScore(q, answers[q])]
NeedsMarking(answers) == \E q \in Manual : answers[q] # Blank

Existing     == {a \in Attempts : status[a] # "none"}
OpenAttempts == {a \in Attempts : status[a] = Open}

\* previousAttempts.length >= effectiveMaxAttempts(current, granted)
LimitReached(current) ==
  LET allowed == {current} \cup {granted[a] : a \in Existing}
  IN  /\ Unlimited \notin allowed
      /\ \A l \in allowed : Cardinality(Existing) >= l

\* Mutant: the update that claims has no status filter.
StillOpenUnchecked(a) == TRUE

\* The filter of the conditional updates: status IN_PROGRESS.
StillOpen(a) == status[a] = Open

\* Mutant: without the index assessment_attempts_one_in_progress.
IndexAdmitsAlways(a) == TRUE

\* The partial unique index lets attempt a be (or become) IN_PROGRESS.
IndexAdmits(a) == OpenAttempts \subseteq {a}

\* Mutant: any submitted attempt completes the course.
AwardsCourseUnchecked(a) == status[a] \in Gradable

\* Mutant: a finalised attempt may be graded again.
MayGradeFinal(a) == status[a] \in Gradable \cup {"FINALIZED"}

\* The statuses gradeAttempt and finalizeGrade accept.
MayGrade(a) == status[a] \in Gradable

\* _afterSubmit completes the course only for an automatic pass.
AwardsCourse(a) == status[a] = "AUTO_GRADED" /\ passed[a] = TRUE

\* What a slot does next once the attempt in hand is dealt with: an attempt
\* expired on the way returns to the request that asked, anything else ends.
Finished(r) ==
  IF req[r].stale /\ req[r].op # "view"
  THEN [Idle EXCEPT !.op = req[r].op, !.pc = req[r].op,
                    !.target = req[r].target, !.answers = req[r].answers,
                    !.limit = req[r].limit]
  ELSE Idle

\* The attempt was read by an administrator's request that has yet to write it.
UnderReview(a) == \E r \in Slots : req[r].pc \in {"grade", "finalize"} /\ req[r].work = a

\* A review of the attempt begins; contested when another one is under way.
Contesting(a) == IF UnderReview(a) THEN contested \cup {a} ELSE contested

Become(r, record) == req' = [req EXCEPT ![r] = record]
Goto(r, step)     == req' = [req EXCEPT ![r].pc = step]
At(r, step)       == req[r].pc = step

-----------------------------------------------------------------------------
Init ==
  /\ status = [a \in Attempts |-> "none"]
  /\ granted = [a \in Attempts |-> Null]
  /\ late = {}
  /\ marks = [a \in Attempts |-> Null]
  /\ passed = [a \in Attempts |-> Null]
  /\ sheet = [a \in Attempts |-> [q \in Questions |->
                [answer |-> Blank, system |-> Null, admin |-> Null]]]
  /\ maxAttempts \in Limits
  /\ completion = [isPassed |-> FALSE, best |-> Null]
  /\ req = [r \in Slots |-> Idle]
  /\ written = {}
  /\ effects = [a \in Attempts |-> 0]
  /\ everPassed = {}
  /\ contested = {}

-----------------------------------------------------------------------------
(* The world around the requests *)

\* updateAssessment may raise or lower the limit at any time.
SetMaxAttempts ==
  /\ maxAttempts' \in Limits \ {maxAttempts}
  /\ UNCHANGED <<rowVars, completion, req, histVars>>

\* The clock passes startedAt + limit + grace of an open attempt.
Deadline(a) ==
  /\ Timed /\ status[a] = Open /\ a \notin late
  /\ late' = late \cup {a}
  /\ UNCHANGED <<status, granted, marks, passed, sheet, maxAttempts, completion,
                 req, histVars>>

\* The serverless instance is stopped; whatever it had not written is lost.
Crash(r) ==
  /\ MayCrash /\ ~At(r, "idle")
  /\ Become(r, Idle)
  /\ UNCHANGED <<rowVars, maxAttempts, completion, histVars>>

-----------------------------------------------------------------------------
(* _expireStaleAttempts: entered by start, submit and every read *)

StaleNone(r) ==
  /\ At(r, "stale")
  /\ \A a \in OpenAttempts : a \notin late
  /\ Become(r, Finished(r))
  /\ UNCHANGED <<rowVars, maxAttempts, completion, histVars>>

\* The second read, with the snapshots; nothing saved means EXPIRED.
StaleRead(r) ==
  /\ At(r, "stale")
  /\ \E a \in OpenAttempts \cap late :
       Become(r, [req[r] EXCEPT
         !.work = a, !.answers = AnswersOf(a),
         !.pc = IF AnswersOf(a) = NoAnswers THEN "expire" ELSE "claim"])
  /\ UNCHANGED <<rowVars, maxAttempts, completion, histVars>>

ExpireWrite(r) ==
  /\ At(r, "expire")
  /\ status' = IF StillOpen(req[r].work)
                 THEN [status EXCEPT ![req[r].work] = "EXPIRED"] ELSE status
  /\ Become(r, Finished(r))
  /\ UNCHANGED <<granted, late, marks, passed, sheet, maxAttempts, completion,
                 histVars>>

-----------------------------------------------------------------------------
(* _gradeAndSubmit and _afterSubmit *)

\* Mutant: a claim that expires the attempt grades what is stored by now.
ClaimRereads(r) ==
  LET a        == req[r].work
      answers  == IF req[r].stale THEN AnswersOf(a) ELSE req[r].answers
      manual   == NeedsMarking(answers)
      total    == TotalMarks(SystemScores(answers))
  IN
  /\ At(r, "claim") /\ StillOpen(a)
  /\ status' = [status EXCEPT ![a] = IF manual THEN "SUBMITTED"
                                               ELSE "AUTO_GRADED"]
  /\ marks' = IF manual THEN marks ELSE [marks EXCEPT ![a] = total]
  /\ passed' = IF manual THEN passed ELSE [passed EXCEPT ![a] = IsPass(total)]
  /\ everPassed' = IF ~manual /\ IsPass(total) THEN everPassed \cup {a}
                                               ELSE everPassed
  /\ written' = written \ {a}
  /\ Goto(r, "write")
  /\ UNCHANGED <<granted, late, sheet, maxAttempts, completion, effects, contested>>

\* The conditional update that takes the attempt out of IN_PROGRESS; the
\* grade was computed from the answers read before it.
Claim(r) ==
  LET a        == req[r].work
      manual   == NeedsMarking(req[r].answers)
      total    == TotalMarks(SystemScores(req[r].answers))
  IN
  /\ At(r, "claim") /\ StillOpen(a)
  /\ status' = [status EXCEPT ![a] = IF manual THEN "SUBMITTED"
                                               ELSE "AUTO_GRADED"]
  /\ marks' = IF manual THEN marks ELSE [marks EXCEPT ![a] = total]
  /\ passed' = IF manual THEN passed ELSE [passed EXCEPT ![a] = IsPass(total)]
  /\ everPassed' = IF ~manual /\ IsPass(total) THEN everPassed \cup {a}
                                               ELSE everPassed
  /\ written' = written \ {a}
  /\ Goto(r, "write")
  /\ UNCHANGED <<granted, late, sheet, maxAttempts, completion, effects, contested>>

\* claim.count === 0: another request submitted it first.
ClaimLost(r) ==
  /\ At(r, "claim") /\ ~StillOpen(req[r].work)
  /\ Become(r, Finished(r))
  /\ UNCHANGED <<rowVars, maxAttempts, completion, histVars>>

\* An unanswered question keeps its stored answer and loses its score.
GradedSheet(a, answers) ==
  [q \in Questions |->
     [sheet[a][q] EXCEPT
        !.answer = IF answers[q] = Blank THEN @ ELSE answers[q],
        !.system = AutoScore(q, answers[q])]]

WriteSheet(r) ==
  /\ At(r, "write")
  /\ sheet' = [sheet EXCEPT ![req[r].work] =
                 GradedSheet(req[r].work, req[r].answers)]
  /\ written' = written \cup {req[r].work}
  /\ Goto(r, "after")
  /\ UNCHANGED <<status, granted, late, marks, passed, maxAttempts, completion,
                 effects, everPassed, contested>>

\* The transaction fails, or commits without the caller hearing of it.
WriteFails(r) ==
  /\ MayFail /\ At(r, "write")
  /\ \/ UNCHANGED <<sheet, written>>
     \/ /\ sheet' = [sheet EXCEPT ![req[r].work] =
                       GradedSheet(req[r].work, req[r].answers)]
        /\ written' = written \cup {req[r].work}
  /\ Goto(r, "undo")
  /\ UNCHANGED <<status, granted, late, marks, passed, maxAttempts, completion,
                 effects, everPassed, contested>>

\* "Put the attempt back": unconditional, but refused by the partial unique
\* index when a newer attempt is already open.
Undo(r) ==
  LET a == req[r].work IN
  /\ At(r, "undo")
  /\ IF IndexAdmits(a)
     THEN /\ status' = [status EXCEPT ![a] = Open]
          /\ marks' = [marks EXCEPT ![a] = Null]
          /\ passed' = [passed EXCEPT ![a] = Null]
     ELSE UNCHANGED <<status, marks, passed>>
  /\ contested' = IF status[a] \in {"GRADED", "FINALIZED"} \/ UnderReview(a)
                    THEN contested \cup {a} ELSE contested
  /\ Become(r, Finished(r))
  /\ UNCHANGED <<granted, late, sheet, maxAttempts, completion, written, effects,
                 everPassed>>

\* The row is read again, and an automatic pass completes the course.
AfterSubmit(r) ==
  LET a == req[r].work IN
  /\ At(r, "after")
  /\ effects' = [effects EXCEPT ![a] = @ + 1]
  /\ IF AwardsCourse(a)
     THEN Become(r, [req[r] EXCEPT !.pc = "upsertRead", !.marks = marks[a]])
     ELSE Become(r, Finished(r))
  /\ UNCHANGED <<rowVars, maxAttempts, completion, written, everPassed, contested>>

\* _upsertCourseCompletion: compare with the best attempt on record ...
UpsertRead(r) ==
  /\ At(r, "upsertRead")
  /\ LET best == completion.best
         on_record == IF best = Null \/ marks[best] = Null
                        THEN 0 ELSE marks[best]
     IN  Become(r, [req[r] EXCEPT !.pc = "upsert",
                      !.pick = IF best = Null \/ req[r].marks > on_record
                                 THEN req[r].work ELSE Null])
  /\ UNCHANGED <<rowVars, maxAttempts, completion, histVars>>

\* Mutant: an existing row only has its best attempt updated.
UpsertForgetsPass(r) ==
  /\ At(r, "upsert")
  /\ completion' = [completion EXCEPT !.best = IF req[r].pick # Null
                                                 THEN req[r].pick ELSE @]
  /\ Become(r, Finished(r))
  /\ UNCHANGED <<rowVars, maxAttempts, histVars>>

\* ... and write; a row created meanwhile is updated with the stale verdict.
Upsert(r) ==
  /\ At(r, "upsert")
  /\ completion' = [isPassed |-> TRUE,
                    best |-> IF req[r].pick # Null THEN req[r].pick
                                                   ELSE completion.best]
  /\ Become(r, Finished(r))
  /\ UNCHANGED <<rowVars, maxAttempts, histVars>>

-----------------------------------------------------------------------------
(* startAttempt *)

\* The attempt limit is read first; stale attempts are closed after.  The other
\* gates (assessment active, enrolment active and unexpired, content done) are
\* open or closed for reasons outside this module, and a start they refuse
\* changes nothing: it is a start that is not made.
StartRequest(r) ==
  /\ At(r, "idle")
  /\ ~LimitReached(maxAttempts)
  /\ Become(r, [Idle EXCEPT !.op = "start", !.pc = "stale", !.stale = TRUE,
                            !.limit = maxAttempts])
  /\ UNCHANGED <<rowVars, maxAttempts, completion, histVars>>

\* An open attempt refuses the start, in the read or in the unique index.  The
\* second disjunct is the bound: the rows the instance has are used up.
StartRefused(r) ==
  /\ At(r, "start") /\ (OpenAttempts # {} \/ Existing = Attempts)
  /\ Become(r, Idle)
  /\ UNCHANGED <<rowVars, maxAttempts, completion, histVars>>

CreateAttempt(r) ==
  /\ At(r, "start")
  /\ \E a \in Attempts \ Existing :
       /\ IndexAdmits(a)
       /\ status' = [status EXCEPT ![a] = Open]
       /\ granted' = [granted EXCEPT ![a] = req[r].limit]
  /\ Become(r, Idle)
  /\ UNCHANGED <<late, marks, passed, sheet, maxAttempts, completion, histVars>>

-----------------------------------------------------------------------------
(* saveAnswers, submitAttempt and the reads that close stale attempts *)

\* One answer per autosave request.
SaveRequest(r) ==
  /\ At(r, "idle")
  /\ \E a \in OpenAttempts \ late, q \in Questions, x \in Answer \ {Blank} :
       Become(r, [Idle EXCEPT !.op = "save", !.pc = "save", !.work = a,
                              !.answers = [NoAnswers EXCEPT ![q] = x]])
  /\ UNCHANGED <<rowVars, maxAttempts, completion, histVars>>

\* The answers of a sheet with those in "given" laid over it.
Overlay(a, given) ==
  [q \in Questions |-> IF given[q] = Blank THEN sheet[a][q].answer
                                           ELSE given[q]]

SavedSheet(a, given) ==
  [q \in Questions |-> [sheet[a][q] EXCEPT !.answer = Overlay(a, given)[q]]]

SaveWrite(r) ==
  LET a == req[r].work IN
  /\ At(r, "save")
  /\ sheet' = IF StillOpen(a)
                THEN [sheet EXCEPT ![a] = SavedSheet(a, req[r].answers)]
                ELSE sheet
  /\ Become(r, Idle)
  /\ UNCHANGED <<status, granted, late, marks, passed, maxAttempts, completion,
                 histVars>>

SubmitRequest(r) ==
  /\ At(r, "idle")
  /\ \E a \in Existing :
       Become(r, [Idle EXCEPT !.op = "submit", !.pc = "stale", !.stale = TRUE,
                              !.target = a])
  /\ UNCHANGED <<rowVars, maxAttempts, completion, histVars>>

ViewRequest(r) ==
  /\ At(r, "idle")
  /\ Become(r, [Idle EXCEPT !.op = "view", !.pc = "stale", !.stale = TRUE])
  /\ UNCHANGED <<rowVars, maxAttempts, completion, histVars>>

\* Expired, already submitted, past the deadline, or nothing answered.
SubmitRefused(r) ==
  LET a == req[r].target IN
  /\ At(r, "submit")
  /\ \/ status[a] # Open
     \/ a \in late
     \/ AnswersOf(a) = NoAnswers
  /\ Become(r, Idle)
  /\ UNCHANGED <<rowVars, maxAttempts, completion, histVars>>

\* The saved answers are read; those sent with the submit override them.
SubmitRead(r) ==
  LET a == req[r].target IN
  /\ At(r, "submit") /\ status[a] = Open /\ a \notin late
  /\ \E given \in [Questions -> Answer] :
       /\ Overlay(a, given) # NoAnswers
       /\ Become(r, [req[r] EXCEPT !.work = a, !.pc = "claim",
                                   !.answers = Overlay(a, given)])
  /\ UNCHANGED <<rowVars, maxAttempts, completion, histVars>>

-----------------------------------------------------------------------------
(* gradeAttempt and finalizeGrade: status is read, the write is unconditional *)

GradeRequest(r) ==
  /\ At(r, "idle")
  /\ \E a \in Attempts, scores \in [Questions -> Score] :
       /\ MayGrade(a)
       /\ scores # NoScores
       /\ Become(r, [Idle EXCEPT !.op = "grade", !.pc = "grade", !.work = a,
                                 !.scores = scores])
       /\ contested' = Contesting(a)
  /\ UNCHANGED <<rowVars, maxAttempts, completion, written, effects, everPassed>>

ReviewedSheet(a, scores) ==
  [q \in Questions |-> [sheet[a][q] EXCEPT
                          !.admin = IF scores[q] = Null THEN @ ELSE scores[q]]]

GradeWrite(r) ==
  LET a == req[r].work IN
  /\ At(r, "grade")
  /\ status' = [status EXCEPT ![a] = "GRADED"]
  /\ sheet' = [sheet EXCEPT ![a] = ReviewedSheet(a, req[r].scores)]
  /\ Become(r, Idle)
  /\ UNCHANGED <<granted, late, marks, passed, maxAttempts, completion, histVars>>

FinalizeRequest(r) ==
  /\ At(r, "idle")
  /\ \E a \in Attempts :
       /\ MayGrade(a)
       /\ Become(r, [Idle EXCEPT !.op = "finalize", !.pc = "finalize",
                       !.work = a, !.marks = TotalMarks(FinalScores(a))])
       /\ contested' = Contesting(a)
  /\ UNCHANGED <<rowVars, maxAttempts, completion, written, effects, everPassed>>

FinalizeWrite(r) ==
  LET a    == req[r].work
      pass == IsPass(req[r].marks)
  IN
  /\ At(r, "finalize")
  /\ status' = [status EXCEPT ![a] = "FINALIZED"]
  /\ marks' = [marks EXCEPT ![a] = req[r].marks]
  /\ passed' = [passed EXCEPT ![a] = pass]
  /\ everPassed' = IF pass THEN everPassed \cup {a} ELSE everPassed
  /\ IF pass THEN Goto(r, "upsertRead") ELSE Become(r, Idle)
  /\ UNCHANGED <<granted, late, sheet, maxAttempts, completion, written, effects,
                 contested>>

-----------------------------------------------------------------------------
\* The round trips a running request still has to make.
Continue(r) ==
  \/ StaleNone(r) \/ StaleRead(r) \/ ExpireWrite(r)
  \/ Claim(r) \/ ClaimLost(r) \/ WriteSheet(r) \/ WriteFails(r) \/ Undo(r)
  \/ AfterSubmit(r) \/ UpsertRead(r) \/ Upsert(r)
  \/ StartRefused(r) \/ CreateAttempt(r)
  \/ SaveWrite(r) \/ SubmitRefused(r) \/ SubmitRead(r)
  \/ GradeWrite(r) \/ FinalizeWrite(r)

LearnerRequest(r) ==
  StartRequest(r) \/ SaveRequest(r) \/ SubmitRequest(r) \/ ViewRequest(r)

AdminRequest(r) == GradeRequest(r) \/ FinalizeRequest(r)

Next ==
  \/ SetMaxAttempts
  \/ \E a \in Attempts : Deadline(a)
  \/ \E r \in Learners : LearnerRequest(r)
  \/ \E r \in Admins : AdminRequest(r)
  \/ \E r \in Slots : Continue(r) \/ Crash(r)

Spec == Init /\ [][Next]_vars

\* A request that is not cut off makes its next round trip.
FairSpec == Spec /\ \A r \in Slots : WF_vars(Continue(r))

-----------------------------------------------------------------------------
(* Safety *)

\* The rows, the history and the requests are of the kinds the schema and the
\* handlers give them; scores stay within the one mark a question carries.
TypeOK ==
  /\ status \in [Attempts -> Status]
  /\ granted \in [Attempts -> Nat \cup {Unlimited, Null}]
  /\ late \subseteq Attempts
  /\ marks \in [Attempts -> Nat \cup {Null}]
  /\ passed \in [Attempts -> BOOLEAN \cup {Null}]
  /\ sheet \in [Attempts -> [Questions ->
               [answer : Answer, system : Score, admin : Score]]]
  /\ maxAttempts \in Limits
  /\ completion \in [isPassed : BOOLEAN, best : Attempts \cup {Null}]
  /\ req \in [Slots -> Request]
  /\ written \subseteq Attempts
  /\ effects \in [Attempts -> Nat]
  /\ everPassed \subseteq Attempts
  /\ contested \subseteq Attempts

\* However starts, submits, expiries and put-backs interleave, the learner
\* never has two attempts in progress at one assessment.
OneOpenAttempt == \A a, b \in OpenAttempts : a = b

\* "Only one request moves it out of IN_PROGRESS, so completion, certificate
\* and the admin notification happen once": double clicks, a submit racing an
\* expiry and retries after a failed write never run _afterSubmit twice.
SideEffectsOnce == \A a \in Attempts : effects[a] <= 1

\* The marks an automatically graded attempt shows are the sum of the scores
\* on its committed sheet, although the two are written by different
\* statements and answers may be saved in between.
MarksMatchSheet ==
  \A a \in written :
    status[a] = "AUTO_GRADED" =>
      marks[a] = TotalMarks([q \in Questions |-> sheet[a][q].system])

\* The course is passed on the strength of an attempt that itself showed a
\* pass, whatever was graded, put back or finalised around it.
CompletionJustified ==
  completion.isPassed => completion.best \in everPassed

\* The learner never holds more attempts than the most generous limit any of
\* them was started under.
BudgetRespected ==
  LET limits == {granted[a] : a \in Existing}
  IN  \/ Existing = {}
      \/ Unlimited \in limits
      \/ \E l \in limits : Cardinality(Existing) <= l

\* A save racing the submit cannot change graded answers: once the sheet is
\* graded, every stored answer is the one its score was computed from.
GradedAnswersStand ==
  \A a \in written :
    status[a] = "AUTO_GRADED" =>
      \A q \in Questions :
        sheet[a][q].system = AutoScore(q, sheet[a][q].answer)

\* "Attempt must be graded before it can be finalized": no attempt goes from in
\* progress to final, by a finalisation begun before it was put back.
GradedBeforeFinal ==
  [][\A a \in OpenAttempts : status'[a] # "FINALIZED"]_vars

-----------------------------------------------------------------------------
(* Liveness, under FairSpec and without crashes *)

\* A finalised pass is carried over to the course.
PassReachesCourse ==
  \A a \in Attempts :
    (status[a] = "FINALIZED" /\ passed[a] = TRUE) ~> completion.isPassed

=============================================================================
