----------------------- MODULE AssessmentAttempt_proofs -----------------------
(***************************************************************************)
(* Proofs about AssessmentAttempt, for any number of attempts, questions,  *)
(* learner requests and administrator requests, with crashes and failing   *)
(* transactions: at most one attempt in progress; side effects of a submit *)
(* at most once; the marks shown are those of the sheet; a passed course   *)
(* points to an attempt that showed a pass; and it implements              *)
(* AttemptLifecycle.                                                       *)
(*                                                                         *)
(* The argument: from the claim to the end of _afterSubmit a request owns  *)
(* its attempt. Ownership is taken only of an open attempt, while it lasts *)
(* nobody but the owner can reopen the attempt, and once the side effects  *)
(* ran nobody can reopen it at all. Marks and passes are then followed     *)
(* from the request that computes them to the rows it writes. For the      *)
(* refinement, a request that takes an attempt back is the one in transit  *)
(* with it, so that the attempt counts as open before and after, and a     *)
(* review of an attempt that is not contested is the only one and finds it *)
(* as it was when the review began.                                        *)
(***************************************************************************)
EXTENDS AttemptRefinement, FiniteSetTheorems, TLAPS

Submitted == Gradable \cup {"FINALIZED"}

\* Request r owns the attempt it works on.
Owning  == {"write", "undo", "after"}
Owns(r) == req[r].pc \in Owning

\* A request past its first read names the attempt it works on.
Known(record) ==
  /\ record.pc \in {"save", "expire", "claim", "write", "undo", "after",
                    "upsertRead", "upsert", "grade", "finalize"}
       => record.work \in Attempts
  /\ record.op = "submit" => record.target \in Attempts
  /\ record.pc = "submit" => record.op = "submit"
  /\ record.stale => record.op \in {"start", "submit", "view"}

WorkKnown == \A r \in Slots : Known(req[r])

\* An automatically graded attempt shows its marks.
MarksShown ==
  \A a \in Attempts : status[a] = "AUTO_GRADED" => marks[a] \in Nat

OwnedIsSubmitted ==
  \A r \in Slots : Owns(r) => status[req[r].work] \in Submitted

OneOwner ==
  \A r, s \in Slots :
    Owns(r) /\ Owns(s) /\ req[r].work = req[s].work => r = s

\* Side effects that ran leave the attempt submitted and owned by nobody.
EffectsFinal ==
  \A a \in Attempts :
    effects[a] # 0 =>
      /\ effects[a] = 1
      /\ status[a] \in Submitted
      /\ \A r \in Slots : Owns(r) => req[r].work # a

TypeInv == TypeOK /\ WorkKnown /\ MarksShown
Safe    == OneOpenAttempt /\ OwnedIsSubmitted /\ OneOwner /\ EffectsFinal
IInv    == TypeInv /\ Safe

-----------------------------------------------------------------------------
(* Requests *)

\* The record of an idle slot is a request that names only answers in range.
LEMMA IdleTyped == Idle \in Request /\ Known(Idle)
<1>1. NoAnswers \in [Questions -> Answer] /\ NoScores \in [Questions -> Score]
  BY DEF NoAnswers, NoScores, Answer, Score
<1> QED
  BY <1>1 DEF Idle, Request, Known, Ops, Steps

\* Dealing with the attempt in hand leaves a well-typed request: the one that
\* asked for the expiry, or none.
LEMMA FinishedTyped ==
  ASSUME TypeInv, NEW r \in Slots
  PROVE  /\ Finished(r) \in Request
         /\ Known(Finished(r))
         /\ Finished(r).pc \in {"idle", "start", "submit"}
<1>1. req[r] \in Request /\ Known(req[r])
  BY DEF TypeInv, TypeOK, WorkKnown
<1>2. CASE req[r].stale /\ req[r].op # "view"
  <2>1. req[r].op \in {"start", "submit"}
    BY <1>1, <1>2 DEF Known
  <2> QED
    BY <1>1, <1>2, <2>1, IdleTyped DEF Finished, Idle, Request, Known, Steps, Ops
<1>3. CASE ~(req[r].stale /\ req[r].op # "view")
  <2>1. Finished(r) = Idle
    BY <1>3 DEF Finished
  <2> QED
    BY <2>1, IdleTyped DEF Idle
<1> QED
  BY <1>2, <1>3

\* Replacing the request of one slot leaves the other slots alone.
LEMMA BecomeTyped ==
  ASSUME TypeInv, NEW r \in Slots, NEW record \in Request, Known(record),
         Become(r, record)
  PROVE  /\ req' \in [Slots -> Request]
         /\ WorkKnown'
         /\ req'[r] = record
         /\ \A s \in Slots \ {r} : req'[s] = req[s]
<1>1. req \in [Slots -> Request]
  BY DEF TypeInv, TypeOK
<1>2. req' = [req EXCEPT ![r] = record]
  BY DEF Become
<1> QED
  BY <1>1, <1>2 DEF TypeInv, WorkKnown

\* Moving on to another step keeps everything else of the request.
LEMMA GotoTyped ==
  ASSUME TypeInv, NEW r \in Slots, NEW step \in Steps, Goto(r, step),
         step # "submit", req[r].work \in Attempts
  PROVE  /\ req' \in [Slots -> Request]
         /\ WorkKnown'
         /\ req'[r] = [req[r] EXCEPT !.pc = step]
         /\ \A s \in Slots \ {r} : req'[s] = req[s]
<1>1. req[r] \in Request /\ Known(req[r])
  BY DEF TypeInv, TypeOK, WorkKnown
<1>2. [req[r] EXCEPT !.pc = step] \in Request
  BY <1>1 DEF Request
<1>3. Known([req[r] EXCEPT !.pc = step])
  BY <1>1 DEF Request, Known
<1>4. Become(r, [req[r] EXCEPT !.pc = step])
  BY DEF Goto, Become
<1> QED
  BY <1>2, <1>3, <1>4, BecomeTyped


-----------------------------------------------------------------------------
(* Type correctness *)

\* A mark total counts a subset of a finite set, so it is a natural number.
LEMMA MarksTyped ==
  ASSUME NEW scores
  PROVE  TotalMarks(scores) \in Nat
<1>1. IsFiniteSet({q \in Questions : scores[q] = 1})
  BY AttemptAssumption, FS_Subset
<1> QED
  BY <1>1, FS_CardinalityType DEF TotalMarks

SheetRows == [Questions -> [answer : Answer, system : Score, admin : Score]]

\* Grading, saving and reviewing each turn a sheet into a sheet.
LEMMA SheetTyped ==
  ASSUME TypeInv, NEW a \in Attempts
  PROVE  /\ AnswersOf(a) \in [Questions -> Answer]
         /\ \A given \in [Questions -> Answer] :
              /\ GradedSheet(a, given) \in SheetRows
              /\ Overlay(a, given) \in [Questions -> Answer]
              /\ SavedSheet(a, given) \in SheetRows
         /\ \A scores \in [Questions -> Score] :
              ReviewedSheet(a, scores) \in SheetRows
<1>1. \A q \in Questions :
        sheet[a][q] \in [answer : Answer, system : Score, admin : Score]
  BY DEF TypeInv, TypeOK
<1>2. \A q \in Questions, x \in Answer : AutoScore(q, x) \in Score
  BY DEF AutoScore, Score
<1>3. \A given \in [Questions -> Answer] :
        Overlay(a, given) \in [Questions -> Answer]
  BY <1>1 DEF Overlay
<1>4. \A given \in [Questions -> Answer] : SavedSheet(a, given) \in SheetRows
  BY <1>1, <1>3 DEF SavedSheet, SheetRows
<1> QED
  BY <1>1, <1>2, <1>3, <1>4
     DEF AnswersOf, GradedSheet, ReviewedSheet, SheetRows

\* Steps that write no row of an attempt.
LEMMA RequestTyped ==
  ASSUME TypeInv, NEW r \in Slots, NEW record \in Request, Known(record),
         Become(r, record), contested' \subseteq Attempts,
         UNCHANGED <<rowVars, maxAttempts, completion, written, effects, everPassed>>
  PROVE  TypeInv'
<1>1. req' \in [Slots -> Request] /\ WorkKnown'
  BY BecomeTyped
<1> QED
  BY <1>1 DEF TypeInv, TypeOK, MarksShown, rowVars

LEMMA RowsUnchanged ==
  ASSUME TypeInv, NEW r \in Slots, NEW record \in Request, Known(record),
         Become(r, record),
         UNCHANGED <<rowVars, maxAttempts, completion, histVars>>
  PROVE  TypeInv'
<1>1. contested' \subseteq Attempts
  BY DEF TypeInv, TypeOK, histVars
<1> QED
  BY <1>1, RequestTyped DEF histVars

\* The initial state is well typed.
LEMMA InitTyped == Init => TypeInv
<1> SUFFICES ASSUME Init PROVE TypeInv
  OBVIOUS
<1>1. TypeOK
  BY IdleTyped DEF Init, TypeOK, Status, Answer, Score
<1>2. WorkKnown /\ MarksShown
  BY IdleTyped DEF Init, WorkKnown, MarksShown
<1> QED
  BY <1>1, <1>2 DEF TypeInv

\* The requests a learner sends preserve the types.
LEMMA LearnerTyped ==
  ASSUME TypeInv, NEW r \in Slots, LearnerRequest(r)
  PROVE  TypeInv'
<1>1. CASE StartRequest(r)
  <2> DEFINE new == [Idle EXCEPT !.op = "start", !.pc = "stale",
                                 !.stale = TRUE, !.limit = maxAttempts]
  <2>1. maxAttempts \in Nat \cup {Unlimited}
    BY AttemptAssumption DEF TypeInv, TypeOK
  <2>2. new \in Request /\ Known(new)
    BY <2>1, IdleTyped DEF Idle, Request, Known, Ops, Steps
  <2> QED
    BY <1>1, <2>2, RowsUnchanged DEF StartRequest
<1>2. CASE SaveRequest(r)
  <2>1. PICK a \in OpenAttempts \ late, q \in Questions, x \in Answer \ {Blank} :
          Become(r, [Idle EXCEPT !.op = "save", !.pc = "save", !.work = a,
                                 !.answers = [NoAnswers EXCEPT ![q] = x]])
    BY <1>2 DEF SaveRequest
  <2> DEFINE new == [Idle EXCEPT !.op = "save", !.pc = "save", !.work = a,
                                 !.answers = [NoAnswers EXCEPT ![q] = x]]
  <2>2. [NoAnswers EXCEPT ![q] = x] \in [Questions -> Answer]
    BY DEF NoAnswers, Answer
  <2>3. new \in Request /\ Known(new)
    BY <2>2, IdleTyped DEF Idle, Request, Known, Ops, Steps, OpenAttempts
  <2> QED
    BY <1>2, <2>1, <2>3, RowsUnchanged DEF SaveRequest
<1>3. CASE SubmitRequest(r)
  <2>1. PICK a \in Existing :
          Become(r, [Idle EXCEPT !.op = "submit", !.pc = "stale",
                                 !.stale = TRUE, !.target = a])
    BY <1>3 DEF SubmitRequest
  <2> DEFINE new == [Idle EXCEPT !.op = "submit", !.pc = "stale",
                                 !.stale = TRUE, !.target = a]
  <2>2. new \in Request /\ Known(new)
    BY IdleTyped DEF Idle, Request, Known, Ops, Steps, Existing
  <2> QED
    BY <1>3, <2>1, <2>2, RowsUnchanged DEF SubmitRequest
<1>4. CASE ViewRequest(r)
  <2> DEFINE new == [Idle EXCEPT !.op = "view", !.pc = "stale", !.stale = TRUE]
  <2>1. new \in Request /\ Known(new)
    BY IdleTyped DEF Idle, Request, Known, Ops, Steps
  <2> QED
    BY <1>4, <2>1, RowsUnchanged DEF ViewRequest
<1> QED
  BY <1>1, <1>2, <1>3, <1>4 DEF LearnerRequest

\* The requests an administrator sends preserve the types.
LEMMA AdminTyped ==
  ASSUME TypeInv, NEW r \in Slots, AdminRequest(r)
  PROVE  TypeInv'
<1>1. CASE GradeRequest(r)
  <2>1. PICK a \in Attempts, scores \in [Questions -> Score] :
          /\ Become(r, [Idle EXCEPT !.op = "grade", !.pc = "grade", !.work = a,
                                    !.scores = scores])
          /\ contested' = Contesting(a)
    BY <1>1 DEF GradeRequest
  <2> DEFINE new == [Idle EXCEPT !.op = "grade", !.pc = "grade", !.work = a,
                                 !.scores = scores]
  <2>2. new \in Request /\ Known(new)
    BY IdleTyped DEF Idle, Request, Known, Ops, Steps
  <2>3. contested' \subseteq Attempts
    BY <2>1 DEF TypeInv, TypeOK, Contesting
  <2> QED
    BY <1>1, <2>1, <2>2, <2>3, RequestTyped DEF GradeRequest
<1>2. CASE FinalizeRequest(r)
  <2>1. PICK a \in Attempts :
          /\ Become(r, [Idle EXCEPT !.op = "finalize", !.pc = "finalize",
                          !.work = a, !.marks = TotalMarks(FinalScores(a))])
          /\ contested' = Contesting(a)
    BY <1>2 DEF FinalizeRequest
  <2> DEFINE new == [Idle EXCEPT !.op = "finalize", !.pc = "finalize",
                       !.work = a, !.marks = TotalMarks(FinalScores(a))]
  <2>2. TotalMarks(FinalScores(a)) \in Nat
    BY MarksTyped
  <2>3. new \in Request /\ Known(new)
    BY <2>2, IdleTyped DEF Idle, Request, Known, Ops, Steps
  <2>4. contested' \subseteq Attempts
    BY <2>1 DEF TypeInv, TypeOK, Contesting
  <2> QED
    BY <1>2, <2>1, <2>3, <2>4, RequestTyped DEF FinalizeRequest
<1> QED
  BY <1>1, <1>2 DEF AdminRequest


\* The verdict UpsertRead keeps is the attempt in hand or nothing.
LEMMA PickMade ==
  ASSUME NEW r \in Slots, UpsertRead(r)
  PROVE  \E pick \in {req[r].work, Null} :
           Become(r, [req[r] EXCEPT !.pc = "upsert", !.pick = pick])
  BY DEF UpsertRead

\* StaleRead takes up one attempt and goes on to expire it or to submit it.
LEMMA StaleTaken ==
  ASSUME NEW r \in Slots, StaleRead(r)
  PROVE  \E a \in Attempts, step \in {"expire", "claim"} :
           Become(r, [req[r] EXCEPT !.work = a, !.answers = AnswersOf(a),
                                    !.pc = step])
  BY DEF StaleRead, OpenAttempts

\* Every later round trip of a running request preserves the types.
LEMMA ContinueTyped ==
  ASSUME TypeInv, NEW r \in Slots, Continue(r)
  PROVE  TypeInv'
<1> DEFINE a == req[r].work
<1>0. /\ Finished(r) \in Request /\ Known(Finished(r))
      /\ Idle \in Request /\ Known(Idle)
  BY FinishedTyped, IdleTyped
<1>a. req[r] \in Request
  BY DEF TypeInv, TypeOK
<1>b. Known(req[r])
  BY DEF TypeInv, WorkKnown
<1>1. CASE StaleNone(r)
  BY <1>0, <1>1, RowsUnchanged DEF StaleNone
<1>2. CASE StaleRead(r)
  <2>1. PICK b \in OpenAttempts \cap late :
          Become(r, [req[r] EXCEPT
            !.work = b, !.answers = AnswersOf(b),
            !.pc = IF AnswersOf(b) = NoAnswers THEN "expire" ELSE "claim"])
    BY <1>2 DEF StaleRead
  <2> DEFINE new == [req[r] EXCEPT
            !.work = b, !.answers = AnswersOf(b),
            !.pc = IF AnswersOf(b) = NoAnswers THEN "expire" ELSE "claim"]
  <2>2. b \in Attempts /\ AnswersOf(b) \in [Questions -> Answer]
    BY SheetTyped DEF OpenAttempts
  <2>r. new \in Request
    BY <1>a, <2>2 DEF Request, Steps
  <2>k. Known(new)
    BY <1>b, <2>2 DEF Known
  <2> QED
    BY <1>2, <2>1, <2>r, <2>k, RowsUnchanged DEF StaleRead
<1>3. CASE ExpireWrite(r)
  <2>1. a \in Attempts
    BY <1>b, <1>3 DEF ExpireWrite, At, Known
  <2>2. req' \in [Slots -> Request] /\ WorkKnown'
    BY <1>0, <1>3, BecomeTyped DEF ExpireWrite
  <2> QED
    BY <1>3, <2>1, <2>2
       DEF ExpireWrite, TypeInv, TypeOK, MarksShown, histVars, Status
<1>4. CASE Claim(r)
  <2>1. a \in Attempts
    BY <1>b, <1>4 DEF Claim, At, Known
  <2>2. req' \in [Slots -> Request] /\ WorkKnown'
    BY <1>4, <2>1, GotoTyped DEF Claim, Steps
  <2>3. TotalMarks(SystemScores(req[r].answers)) \in Nat
    BY MarksTyped
  <2>4. \A n : IsPass(n) \in BOOLEAN
    BY DEF IsPass
  <2> QED
    BY <1>4, <2>1, <2>2, <2>3, <2>4
       DEF Claim, TypeInv, TypeOK, MarksShown, Status, Gradable
<1>5. CASE ClaimLost(r)
  BY <1>0, <1>5, RowsUnchanged DEF ClaimLost
<1>6. CASE WriteSheet(r) \/ WriteFails(r)
  <2>1. a \in Attempts
    BY <1>b, <1>6 DEF WriteSheet, WriteFails, At, Known
  <2>2. req' \in [Slots -> Request] /\ WorkKnown'
    BY <1>6, <2>1, GotoTyped DEF WriteSheet, WriteFails, Steps
  <2>3. GradedSheet(a, req[r].answers) \in
          SheetRows
    BY <1>a, <2>1, SheetTyped DEF Request
  <2> QED
    BY <1>6, <2>1, <2>2, <2>3
       DEF WriteSheet, WriteFails, TypeInv, TypeOK, MarksShown, SheetRows
<1>7. CASE Undo(r)
  <2>1. a \in Attempts
    BY <1>b, <1>7 DEF Undo, At, Known
  <2>2. req' \in [Slots -> Request] /\ WorkKnown'
    BY <1>0, <1>7, BecomeTyped DEF Undo
  <2> QED
    BY <1>7, <2>1, <2>2
       DEF Undo, TypeInv, TypeOK, MarksShown, Status, Open, histVars
<1>8. CASE AfterSubmit(r)
  <2>1. a \in Attempts
    BY <1>b, <1>8 DEF AfterSubmit, At, Known
  <2> DEFINE new == [req[r] EXCEPT !.pc = "upsertRead", !.marks = marks[a]]
  <2>2. ASSUME AwardsCourse(a) PROVE new \in Request /\ Known(new)
    <3>1. marks[a] \in Nat
      BY <2>1, <2>2 DEF AwardsCourse, TypeInv, MarksShown
    <3>2. new \in Request
      BY <1>a, <3>1 DEF Request, Steps
    <3>3. Known(new)
      BY <1>b, <2>1 DEF Known
    <3> QED
      BY <3>2, <3>3
  <2>3. req' \in [Slots -> Request] /\ WorkKnown'
    BY <1>0, <1>8, <2>2, BecomeTyped DEF AfterSubmit
  <2> QED
    BY <1>8, <2>1, <2>3
       DEF AfterSubmit, TypeInv, TypeOK, MarksShown, rowVars
<1>9. CASE UpsertRead(r)
  <2>1. a \in Attempts
    BY <1>b, <1>9 DEF UpsertRead, At, Known
  <2>2. PICK pick \in {a, Null} :
          Become(r, [req[r] EXCEPT !.pc = "upsert", !.pick = pick])
    BY <1>9, PickMade
  <2> DEFINE new == [req[r] EXCEPT !.pc = "upsert", !.pick = pick]
  <2>r. new \in Request
    BY <1>a, <2>1 DEF Request, Steps
  <2>k. Known(new)
    BY <1>b, <2>1 DEF Known
  <2> QED
    BY <1>9, <2>2, <2>r, <2>k, RowsUnchanged DEF UpsertRead
<1>10. CASE Upsert(r)
  <2>1. a \in Attempts
    BY <1>b, <1>10 DEF Upsert, At, Known
  <2>2. req' \in [Slots -> Request] /\ WorkKnown'
    BY <1>0, <1>10, BecomeTyped DEF Upsert
  <2>3. req[r].pick \in Attempts \cup {Null}
    BY <1>a DEF Request
  <2>4. completion' \in [isPassed : BOOLEAN, best : Attempts \cup {Null}]
    BY <1>10, <2>3 DEF Upsert, TypeInv, TypeOK
  <2> QED
    BY <1>10, <2>2, <2>4
       DEF Upsert, TypeInv, TypeOK, MarksShown, rowVars, histVars
<1>11. CASE StartRefused(r)
  BY <1>0, <1>11, RowsUnchanged DEF StartRefused
<1>12. CASE CreateAttempt(r)
  <2>1. req' \in [Slots -> Request] /\ WorkKnown'
    BY <1>0, <1>12, BecomeTyped DEF CreateAttempt
  <2>2. req[r].limit \in Nat \cup {Unlimited}
    BY <1>a DEF Request
  <2> QED
    BY <1>12, <2>1, <2>2
       DEF CreateAttempt, TypeInv, TypeOK, MarksShown, Status, Open, histVars
<1>13. CASE SaveWrite(r)
  <2>1. a \in Attempts
    BY <1>b, <1>13 DEF SaveWrite, At, Known
  <2>2. req' \in [Slots -> Request] /\ WorkKnown'
    BY <1>0, <1>13, BecomeTyped DEF SaveWrite
  <2>3. SavedSheet(a, req[r].answers) \in SheetRows
    BY <1>a, <2>1, SheetTyped DEF Request
  <2>4. sheet' \in [Attempts -> SheetRows]
    BY <1>13, <2>1, <2>3 DEF SaveWrite, TypeInv, TypeOK, SheetRows
  <2> QED
    BY <1>13, <2>2, <2>4
       DEF SaveWrite, TypeInv, TypeOK, MarksShown, histVars, SheetRows
<1>14. CASE SubmitRefused(r)
  BY <1>0, <1>14, RowsUnchanged DEF SubmitRefused
<1>15. CASE SubmitRead(r)
  <2> DEFINE b == req[r].target
  <2>1. PICK given \in [Questions -> Answer] :
          Become(r, [req[r] EXCEPT !.work = b, !.pc = "claim",
                                   !.answers = Overlay(b, given)])
    BY <1>15 DEF SubmitRead
  <2> DEFINE new == [req[r] EXCEPT !.work = b, !.pc = "claim",
                                   !.answers = Overlay(b, given)]
  <2>2. b \in Attempts
    BY <1>b, <1>15 DEF SubmitRead, At, Known
  <2>3. Overlay(b, given) \in [Questions -> Answer]
    BY <2>2, SheetTyped
  <2>r. new \in Request
    BY <1>a, <2>2, <2>3 DEF Request, Steps
  <2>k. Known(new)
    BY <1>b, <2>2, <2>3 DEF Known
  <2> QED
    BY <1>15, <2>1, <2>r, <2>k, RowsUnchanged DEF SubmitRead
<1>16. CASE GradeWrite(r)
  <2>1. a \in Attempts
    BY <1>b, <1>16 DEF GradeWrite, At, Known
  <2>2. req' \in [Slots -> Request] /\ WorkKnown'
    BY <1>0, <1>16, BecomeTyped DEF GradeWrite
  <2>3. ReviewedSheet(a, req[r].scores) \in SheetRows
    BY <1>a, <2>1, SheetTyped DEF Request
  <2> QED
    BY <1>16, <2>1, <2>2, <2>3
       DEF GradeWrite, TypeInv, TypeOK, MarksShown, Status, Gradable, histVars,
           SheetRows
<1>17. CASE FinalizeWrite(r)
  <2>1. a \in Attempts /\ req[r].marks \in Nat
    BY <1>a, <1>b, <1>17 DEF FinalizeWrite, At, Known, Request
  <2>2. req' \in [Slots -> Request] /\ WorkKnown'
    BY <1>0, <1>17, <2>1, GotoTyped, BecomeTyped DEF FinalizeWrite, Steps
  <2>3. IsPass(req[r].marks) \in BOOLEAN
    BY DEF IsPass
  <2> QED
    BY <1>17, <2>1, <2>2, <2>3
       DEF FinalizeWrite, TypeInv, TypeOK, MarksShown, Status
<1> QED
  BY <1>1, <1>2, <1>3, <1>4, <1>5, <1>6, <1>7, <1>8, <1>9, <1>10, <1>11,
     <1>12, <1>13, <1>14, <1>15, <1>16, <1>17 DEF Continue

\* Every step of the module preserves the types.
LEMMA StepTyped == TypeInv /\ [Next]_vars => TypeInv'
<1> SUFFICES ASSUME TypeInv, [Next]_vars PROVE TypeInv'
  OBVIOUS
<1>1. CASE SetMaxAttempts
  BY <1>1 DEF SetMaxAttempts, TypeInv, TypeOK, WorkKnown, MarksShown,
              rowVars, histVars
<1>2. CASE \E a \in Attempts : Deadline(a)
  BY <1>2 DEF Deadline, TypeInv, TypeOK, WorkKnown, MarksShown, histVars
<1>3. CASE \E r \in Learners : LearnerRequest(r)
  BY <1>3, LearnerTyped DEF Slots
<1>4. CASE \E r \in Admins : AdminRequest(r)
  BY <1>4, AdminTyped DEF Slots
<1>5. CASE \E r \in Slots : Continue(r)
  BY <1>5, ContinueTyped
<1>6. CASE \E r \in Slots : Crash(r)
  BY <1>6, IdleTyped, RowsUnchanged DEF Crash
<1>7. CASE UNCHANGED vars
  BY <1>7 DEF vars, TypeInv, TypeOK, WorkKnown, MarksShown, rowVars, histVars
<1> QED
  BY <1>1, <1>2, <1>3, <1>4, <1>5, <1>6, <1>7 DEF Next

\* Every row, request and history variable keeps its type, for any number of
\* attempts, questions and concurrent requests.
THEOREM TypeCorrect == Spec => []TypeOK
<1>1. Spec => []TypeInv
  BY InitTyped, StepTyped, PTL DEF Spec
<1>2. TypeInv => TypeOK
  BY DEF TypeInv
<1> QED
  BY <1>1, <1>2, PTL


-----------------------------------------------------------------------------
(* One attempt in progress, side effects once *)

\* Replacing the request of one slot, whatever the new request is.
LEMMA BecomeAt ==
  ASSUME TypeInv, NEW r \in Slots, NEW record, Become(r, record)
  PROVE  /\ req'[r] = record
         /\ \A s \in Slots \ {r} : req'[s] = req[s]
  BY DEF Become, TypeInv, TypeOK

\* What a slot and the other slots hold after it moves on to another step.
LEMMA GotoAt ==
  ASSUME TypeInv, NEW r \in Slots, NEW step, Goto(r, step)
  PROVE  /\ req'[r].pc = step
         /\ req'[r].work = req[r].work
         /\ \A s \in Slots \ {r} : req'[s] = req[s]
<1>1. req \in [Slots -> Request] /\ req[r] \in Request
  BY DEF TypeInv, TypeOK
<1> QED
  BY <1>1 DEF Goto, Request

\* A request that writes no status and does not own its attempt afterwards.
LEMMA Quiet ==
  ASSUME IInv, NEW r \in Slots, NEW record, Become(r, record),
         record.pc \notin Owning,
         UNCHANGED <<status, effects>>
  PROVE  Safe'
<1>1. /\ req'[r] = record
      /\ \A s \in Slots \ {r} : req'[s] = req[s]
  BY BecomeAt DEF IInv
<1> QED
  BY <1>1 DEF IInv, Safe, OneOpenAttempt, OwnedIsSubmitted, OneOwner,
              EffectsFinal, Owns, OpenAttempts

\* The steps that neither write a status nor end up owning an attempt.
LEMMA QuietSteps ==
  ASSUME IInv, NEW r \in Slots,
         \/ LearnerRequest(r) \/ AdminRequest(r) \/ Crash(r)
         \/ StaleNone(r) \/ StaleRead(r) \/ ClaimLost(r) \/ UpsertRead(r)
         \/ Upsert(r) \/ StartRefused(r) \/ SaveWrite(r)
         \/ SubmitRefused(r) \/ SubmitRead(r)
  PROVE  Safe'
<1>1. Finished(r).pc \notin Owning /\ Idle.pc \notin Owning
  BY FinishedTyped DEF IInv, Idle, Owning
<1>2. UNCHANGED <<status, effects>>
  BY DEF LearnerRequest, StartRequest, SaveRequest, SubmitRequest, ViewRequest,
         AdminRequest, GradeRequest, FinalizeRequest, Crash, StaleNone,
         StaleRead, ClaimLost, UpsertRead, Upsert, StartRefused, SaveWrite,
         SubmitRefused, SubmitRead, rowVars, histVars
<1>3. req[r] \in Request
  BY DEF IInv, TypeInv, TypeOK
<1>4. CASE StartRequest(r)
  <2>1. Become(r, [Idle EXCEPT
         !.op = "start", !.pc = "stale", !.stale = TRUE, !.limit = maxAttempts])
    BY <1>4 DEF StartRequest
  <2>2. [Idle EXCEPT
         !.op = "start", !.pc = "stale", !.stale = TRUE, !.limit = maxAttempts].pc \notin Owning
    BY <1>3 DEF Idle, Request, Owning
  <2> QED
    BY <1>2, <2>1, <2>2, Quiet
<1>5. CASE SaveRequest(r)
  <2>1. PICK b, answers : Become(r, [Idle EXCEPT
         !.op = "save", !.pc = "save", !.work = b, !.answers = answers])
    BY <1>5 DEF SaveRequest
  <2>2. [Idle EXCEPT
         !.op = "save", !.pc = "save", !.work = b, !.answers = answers].pc \notin Owning
    BY <1>3 DEF Idle, Request, Owning
  <2> QED
    BY <1>2, <2>1, <2>2, Quiet
<1>6. CASE SubmitRequest(r)
  <2>1. PICK b : Become(r, [Idle EXCEPT
         !.op = "submit", !.pc = "stale", !.stale = TRUE, !.target = b])
    BY <1>6 DEF SubmitRequest
  <2>2. [Idle EXCEPT
         !.op = "submit", !.pc = "stale", !.stale = TRUE, !.target = b].pc \notin Owning
    BY <1>3 DEF Idle, Request, Owning
  <2> QED
    BY <1>2, <2>1, <2>2, Quiet
<1>7. CASE ViewRequest(r)
  <2>1. Become(r, [Idle EXCEPT
         !.op = "view", !.pc = "stale", !.stale = TRUE])
    BY <1>7 DEF ViewRequest
  <2>2. [Idle EXCEPT
         !.op = "view", !.pc = "stale", !.stale = TRUE].pc \notin Owning
    BY <1>3 DEF Idle, Request, Owning
  <2> QED
    BY <1>2, <2>1, <2>2, Quiet
<1>8. CASE GradeRequest(r)
  <2>1. PICK b, scores : Become(r, [Idle EXCEPT
         !.op = "grade", !.pc = "grade", !.work = b, !.scores = scores])
    BY <1>8 DEF GradeRequest
  <2>2. [Idle EXCEPT
         !.op = "grade", !.pc = "grade", !.work = b, !.scores = scores].pc \notin Owning
    BY <1>3 DEF Idle, Request, Owning
  <2> QED
    BY <1>2, <2>1, <2>2, Quiet
<1>9. CASE FinalizeRequest(r)
  <2>1. PICK b, total : Become(r, [Idle EXCEPT
         !.op = "finalize", !.pc = "finalize", !.work = b, !.marks = total])
    BY <1>9 DEF FinalizeRequest
  <2>2. [Idle EXCEPT
         !.op = "finalize", !.pc = "finalize", !.work = b, !.marks = total].pc \notin Owning
    BY <1>3 DEF Idle, Request, Owning
  <2> QED
    BY <1>2, <2>1, <2>2, Quiet
<1>10. CASE StaleRead(r)
  <2>1. PICK b \in Attempts, step \in {"expire", "claim"} :
          Become(r, [req[r] EXCEPT !.work = b, !.answers = AnswersOf(b),
                                   !.pc = step])
    BY <1>10, StaleTaken
  <2>2. [req[r] EXCEPT
         !.work = b, !.answers = AnswersOf(b), !.pc = step].pc \notin Owning
    BY <1>3 DEF Idle, Request, Owning
  <2> QED
    BY <1>2, <2>1, <2>2, Quiet
<1>11. CASE SubmitRead(r)
  <2>1. PICK b, answers : Become(r, [req[r] EXCEPT
         !.work = b, !.pc = "claim", !.answers = answers])
    BY <1>11 DEF SubmitRead
  <2>2. [req[r] EXCEPT
         !.work = b, !.pc = "claim", !.answers = answers].pc \notin Owning
    BY <1>3 DEF Idle, Request, Owning
  <2> QED
    BY <1>2, <2>1, <2>2, Quiet
<1>12. CASE UpsertRead(r)
  <2>1. PICK pick \in {req[r].work, Null} : Become(r, [req[r] EXCEPT
         !.pc = "upsert", !.pick = pick])
    BY <1>12, PickMade
  <2>2. [req[r] EXCEPT
         !.pc = "upsert", !.pick = pick].pc \notin Owning
    BY <1>3 DEF Idle, Request, Owning
  <2> QED
    BY <1>2, <2>1, <2>2, Quiet
<1>13. CASE \/ StartRefused(r) \/ SaveWrite(r) \/ SubmitRefused(r) \/ Crash(r)
  <2>1. Become(r, Idle)
    BY <1>13 DEF StartRefused, SaveWrite, SubmitRefused, Crash
  <2> QED
    BY <1>1, <1>2, <2>1, Quiet
<1>14. CASE StaleNone(r) \/ ClaimLost(r) \/ Upsert(r)
  <2>1. Become(r, Finished(r))
    BY <1>14 DEF StaleNone, ClaimLost, Upsert
  <2> QED
    BY <1>1, <1>2, <2>1, Quiet
<1> QED
  BY <1>4, <1>5, <1>6, <1>7, <1>8, <1>9, <1>10, <1>11, <1>12, <1>13, <1>14
     DEF LearnerRequest, AdminRequest

\* A step that opens no attempt, takes none back from Submitted and gives no
\* request an attempt to own.
LEMMA NothingReopened ==
  ASSUME IInv, NEW r \in Slots,
         \A s \in Slots \ {r} : req'[s] = req[s],
         \/ req'[r].pc \notin Owning
         \/ Owns(r) /\ req'[r].work = req[r].work,
         \A b \in Attempts : status'[b] = Open => status[b] = Open,
         \A b \in Attempts : status[b] \in Submitted => status'[b] \in Submitted,
         effects' = effects
  PROVE  Safe'
<1>1. \A s \in Slots : Owns(s)' => Owns(s) /\ req'[s].work = req[s].work
  BY DEF Owns
<1>2. \A s \in Slots : Owns(s) => req[s].work \in Attempts
  BY DEF IInv, TypeInv, WorkKnown, Known, Owns, Owning
<1>3. OneOpenAttempt'
  BY DEF IInv, Safe, OneOpenAttempt, OpenAttempts
<1>4. OwnedIsSubmitted'
  BY <1>1, <1>2 DEF IInv, Safe, OwnedIsSubmitted
<1>5. OneOwner'
  BY <1>1 DEF IInv, Safe, OneOwner
<1>6. EffectsFinal'
  BY <1>1 DEF IInv, Safe, EffectsFinal
<1> QED
  BY <1>3, <1>4, <1>5, <1>6 DEF Safe

\* The writes that only close attempts, or that write none, keep Safe.
LEMMA WritesSafe ==
  ASSUME IInv, NEW r \in Slots,
         \/ ExpireWrite(r) \/ WriteSheet(r) \/ WriteFails(r)
         \/ GradeWrite(r) \/ FinalizeWrite(r)
  PROVE  Safe'
<1>0. /\ Finished(r).pc \notin Owning /\ Idle.pc \notin Owning
      /\ status \in [Attempts -> Status]
      /\ Open \notin Submitted
  BY FinishedTyped DEF IInv, TypeInv, TypeOK, Idle, Owning, Open, Submitted,
                       Gradable
<1>1. CASE ExpireWrite(r)
  <2>1. /\ req'[r] = Finished(r)
        /\ \A s \in Slots \ {r} : req'[s] = req[s]
    BY <1>1, BecomeAt DEF IInv, ExpireWrite
  <2>2. /\ effects' = effects
        /\ \A b \in Attempts : status'[b] = Open => status[b] = Open
        /\ \A b \in Attempts :
             status[b] \in Submitted => status'[b] \in Submitted
    BY <1>0, <1>1 DEF ExpireWrite, StillOpen, histVars, Open
  <2> QED
    BY <1>0, <2>1, <2>2, NothingReopened
<1>2. CASE WriteSheet(r) \/ WriteFails(r)
  <2>1. PICK step \in {"after", "undo"} : Goto(r, step)
    BY <1>2 DEF WriteSheet, WriteFails
  <2>2. /\ req'[r].work = req[r].work
        /\ \A s \in Slots \ {r} : req'[s] = req[s]
    BY <2>1, GotoAt DEF IInv
  <2>3. Owns(r) /\ UNCHANGED <<status, effects>>
    BY <1>2 DEF WriteSheet, WriteFails, At, Owns, Owning
  <2> QED
    BY <2>2, <2>3, NothingReopened
<1>3. CASE GradeWrite(r)
  <2>1. /\ req'[r] = Idle
        /\ \A s \in Slots \ {r} : req'[s] = req[s]
    BY <1>3, BecomeAt DEF IInv, GradeWrite
  <2>2. /\ effects' = effects
        /\ status' = [status EXCEPT ![req[r].work] = "GRADED"]
    BY <1>3 DEF GradeWrite, histVars
  <2>3. "GRADED" \in Submitted
    BY DEF Submitted, Gradable
  <2> QED
    BY <1>0, <2>1, <2>2, <2>3, NothingReopened
<1>4. CASE FinalizeWrite(r)
  <2>1. /\ req'[r].pc \notin Owning
        /\ \A s \in Slots \ {r} : req'[s] = req[s]
    <3>1. CASE Goto(r, "upsertRead")
      BY <3>1, GotoAt DEF IInv, Owning
    <3>2. CASE Become(r, Idle)
      BY <1>0, <3>2, BecomeAt DEF IInv
    <3> QED
      BY <1>4, <3>1, <3>2 DEF FinalizeWrite
  <2>2. /\ effects' = effects
        /\ status' = [status EXCEPT ![req[r].work] = "FINALIZED"]
    BY <1>4 DEF FinalizeWrite
  <2>3. "FINALIZED" \in Submitted
    BY DEF Submitted
  <2> QED
    BY <1>0, <2>1, <2>2, <2>3, NothingReopened
<1> QED
  BY <1>1, <1>2, <1>3, <1>4

\* Nobody owns an open attempt and its side effects have not run, so the
\* request that claims it becomes its only owner.
LEMMA ClaimSafe ==
  ASSUME IInv, NEW r \in Slots, Claim(r)
  PROVE  Safe'
<1> DEFINE a == req[r].work
<1>0. /\ status \in [Attempts -> Status]
      /\ Open \notin Submitted
      /\ effects' = effects
      /\ status[a] = Open
  BY DEF IInv, TypeInv, TypeOK, Open, Submitted, Gradable, Claim, StillOpen
<1>1. a \in Attempts
  BY DEF IInv, TypeInv, WorkKnown, Known, Claim, At
<1>2. /\ req'[r].work = a
      /\ \A s \in Slots \ {r} : req'[s] = req[s]
  BY GotoAt DEF IInv, Claim
<1>3. PICK new \in {"SUBMITTED", "AUTO_GRADED"} :
        status' = [status EXCEPT ![a] = new]
  BY DEF Claim
<1>4. new \in Submitted
  BY DEF Submitted, Gradable
<1>5. \A s \in Slots : Owns(s) => req[s].work \in Attempts \ {a}
  BY <1>0 DEF IInv, TypeInv, WorkKnown, Known, Safe, OwnedIsSubmitted, Owns,
              Owning
<1>6. effects[a] = 0
  BY <1>0, <1>1 DEF IInv, Safe, EffectsFinal
<1>7. OneOpenAttempt'
  BY <1>0, <1>1, <1>3, <1>4 DEF IInv, Safe, OneOpenAttempt, OpenAttempts
<1>8. OwnedIsSubmitted'
  BY <1>0, <1>1, <1>2, <1>3, <1>4, <1>5
     DEF IInv, Safe, OwnedIsSubmitted, Owns
<1>9. OneOwner'
  BY <1>2, <1>5 DEF IInv, Safe, OneOwner, Owns
<1>10. EffectsFinal'
  BY <1>0, <1>1, <1>2, <1>3, <1>6 DEF IInv, Safe, EffectsFinal, Owns
<1> QED
  BY <1>7, <1>8, <1>9, <1>10 DEF Safe

\* Only the owner puts an attempt back, and the unique index keeps a second
\* open attempt out.
LEMMA UndoSafe ==
  ASSUME IInv, NEW r \in Slots, Undo(r)
  PROVE  Safe'
<1> DEFINE a == req[r].work
<1>0. /\ status \in [Attempts -> Status]
      /\ effects' = effects
      /\ Finished(r).pc \notin Owning
      /\ Owns(r)
  BY FinishedTyped DEF IInv, TypeInv, TypeOK, Undo, histVars, Owns, Owning, At
<1>1. a \in Attempts
  BY DEF IInv, TypeInv, WorkKnown, Known, Undo, At
<1>2. /\ req'[r] = Finished(r)
      /\ \A s \in Slots \ {r} : req'[s] = req[s]
  BY BecomeAt DEF IInv, Undo
<1>3. CASE ~IndexAdmits(a)
  <2>1. status' = status
    BY <1>3 DEF Undo
  <2> QED
    BY <1>0, <1>2, <2>1, NothingReopened
<1>4. CASE IndexAdmits(a)
  <2>1. status' = [status EXCEPT ![a] = Open]
    BY <1>4 DEF Undo
  <2>2. \A s \in Slots : Owns(s)' =>
          /\ Owns(s) /\ s # r
          /\ req'[s].work = req[s].work
          /\ req[s].work \in Attempts \ {a}
    BY <1>0, <1>2 DEF IInv, TypeInv, WorkKnown, Known, Safe, OneOwner, Owns,
                      Owning
  <2>3. effects[a] = 0
    BY <1>0, <1>1 DEF IInv, Safe, EffectsFinal
  <2>4. OneOpenAttempt'
    BY <1>0, <1>1, <1>4, <2>1 DEF IndexAdmits, OneOpenAttempt, OpenAttempts
  <2>5. OwnedIsSubmitted'
    BY <1>0, <1>1, <2>1, <2>2 DEF IInv, Safe, OwnedIsSubmitted
  <2>6. OneOwner'
    BY <2>2 DEF IInv, Safe, OneOwner
  <2>7. EffectsFinal'
    BY <1>0, <1>1, <2>1, <2>2, <2>3 DEF IInv, Safe, EffectsFinal
  <2> QED
    BY <2>4, <2>5, <2>6, <2>7 DEF Safe
<1> QED
  BY <1>3, <1>4

\* The owner runs the side effects, for the first time, and lets go.
LEMMA AfterSubmitSafe ==
  ASSUME IInv, NEW r \in Slots, AfterSubmit(r)
  PROVE  Safe'
<1> DEFINE a == req[r].work
<1>0. /\ effects \in [Attempts -> Nat]
      /\ effects' = [effects EXCEPT ![a] = @ + 1]
      /\ status' = status
      /\ Owns(r)
  BY DEF IInv, TypeInv, TypeOK, AfterSubmit, rowVars, Owns, Owning, At
<1>1. a \in Attempts
  BY DEF IInv, TypeInv, WorkKnown, Known, AfterSubmit, At
<1>2. /\ req'[r].pc \notin Owning
      /\ \A s \in Slots \ {r} : req'[s] = req[s]
  <2>1. Finished(r).pc \notin Owning
    BY FinishedTyped DEF IInv, Owning
  <2>2. req[r] \in Request
    BY DEF IInv, TypeInv, TypeOK
  <2>3. [req[r] EXCEPT !.pc = "upsertRead", !.marks = marks[a]].pc
          \notin Owning
    BY <2>2 DEF Request, Owning
  <2>4. \/ Become(r, [req[r] EXCEPT !.pc = "upsertRead", !.marks = marks[a]])
        \/ Become(r, Finished(r))
    BY DEF AfterSubmit
  <2> QED
    BY <2>1, <2>3, <2>4, BecomeAt DEF IInv
<1>3. \A s \in Slots : Owns(s)' =>
        /\ Owns(s) /\ req'[s].work = req[s].work
        /\ req[s].work # a
  BY <1>0, <1>2 DEF IInv, Safe, OneOwner, Owns
<1>4. effects[a] = 0 /\ status[a] \in Submitted
  BY <1>0, <1>1 DEF IInv, Safe, EffectsFinal, OwnedIsSubmitted
<1>5. OneOpenAttempt'
  BY <1>0 DEF IInv, Safe, OneOpenAttempt, OpenAttempts
<1>6. OwnedIsSubmitted' /\ OneOwner'
  BY <1>0, <1>3 DEF IInv, Safe, OwnedIsSubmitted, OneOwner
<1>7. EffectsFinal'
  BY <1>0, <1>1, <1>3, <1>4 DEF IInv, Safe, EffectsFinal
<1> QED
  BY <1>5, <1>6, <1>7 DEF Safe

\* The unique index admits a new attempt only when no other one is open.
LEMMA CreateSafe ==
  ASSUME IInv, NEW r \in Slots, CreateAttempt(r)
  PROVE  Safe'
<1>0. /\ status \in [Attempts -> Status]
      /\ effects' = effects
      /\ "none" \notin Submitted
  BY DEF IInv, TypeInv, TypeOK, CreateAttempt, histVars, Submitted, Gradable
<1>1. PICK a \in Attempts \ Existing :
        IndexAdmits(a) /\ status' = [status EXCEPT ![a] = Open]
  BY DEF CreateAttempt
<1>2. /\ req'[r].pc \notin Owning
      /\ \A s \in Slots \ {r} : req'[s] = req[s]
  BY BecomeAt DEF IInv, CreateAttempt, Idle, Owning
<1>3. \A s \in Slots : Owns(s)' =>
        /\ Owns(s) /\ req'[s].work = req[s].work
        /\ req[s].work \in Attempts
  BY <1>2 DEF IInv, TypeInv, WorkKnown, Known, Owns, Owning
<1>4. status[a] = "none"
  BY <1>1 DEF Existing
<1>5. OneOpenAttempt'
  BY <1>0, <1>1 DEF IndexAdmits, OneOpenAttempt, OpenAttempts
<1>6. OwnedIsSubmitted' /\ OneOwner'
  BY <1>0, <1>1, <1>3, <1>4 DEF IInv, Safe, OwnedIsSubmitted, OneOwner
<1>7. EffectsFinal'
  BY <1>0, <1>1, <1>3, <1>4 DEF IInv, Safe, EffectsFinal
<1> QED
  BY <1>5, <1>6, <1>7 DEF Safe

\* No attempt exists initially, so Safe holds.
LEMMA InitSafe == Init => Safe
  BY DEF Init, Safe, OneOpenAttempt, OpenAttempts, Open, OwnedIsSubmitted,
         OneOwner, EffectsFinal, Owns, Owning, Idle

\* The inductive step: every action keeps Safe, given the whole of IInv.
LEMMA StepSafe == IInv /\ [Next]_vars => Safe'
<1> SUFFICES ASSUME IInv, [Next]_vars PROVE Safe'
  OBVIOUS
<1>1. CASE SetMaxAttempts \/ (\E a \in Attempts : Deadline(a)) \/ UNCHANGED vars
  <2>1. UNCHANGED <<status, req, effects>>
    BY <1>1 DEF SetMaxAttempts, Deadline, vars, rowVars, histVars
  <2> QED
    BY <2>1 DEF IInv, Safe, OneOpenAttempt, OpenAttempts, OwnedIsSubmitted,
                OneOwner, EffectsFinal, Owns
<1>2. CASE \E r \in Learners : LearnerRequest(r)
  BY <1>2, QuietSteps DEF Slots
<1>3. CASE \E r \in Admins : AdminRequest(r)
  BY <1>3, QuietSteps DEF Slots
<1>4. CASE \E r \in Slots : Continue(r) \/ Crash(r)
  BY <1>4, QuietSteps, WritesSafe, ClaimSafe, UndoSafe, AfterSubmitSafe,
     CreateSafe DEF Continue
<1> QED
  BY <1>1, <1>2, <1>3, <1>4 DEF Next

\* IInv is an invariant: the types, at most one open attempt, at most one
\* request owning an attempt it claimed, and effects only of closed attempts.
THEOREM Invariance == Spec => []IInv
<1>1. Init => IInv
  BY InitTyped, InitSafe DEF IInv
<1>2. IInv /\ [Next]_vars => IInv'
  BY StepTyped, StepSafe DEF IInv
<1> QED
  BY <1>1, <1>2, PTL DEF Spec

\* The learner never has two attempts in progress, however many requests race
\* and wherever they are cut off.
THEOREM OneOpen == Spec => []OneOpenAttempt
<1>1. IInv => OneOpenAttempt
  BY DEF IInv, Safe
<1> QED
  BY <1>1, Invariance, PTL

\* The side effects of a submit run at most once for an attempt, although a
\* failed transaction puts the attempt back to be submitted again.
THEOREM EffectsOnce == Spec => []SideEffectsOnce
<1>1. IInv => SideEffectsOnce
  BY DEF IInv, TypeInv, TypeOK, Safe, EffectsFinal, SideEffectsOnce
<1> QED
  BY <1>1, Invariance, PTL

-----------------------------------------------------------------------------
(* The course is passed on evidence, and marks are those of the sheet *)

\* A pass that is shown is in the history, and so is the attempt that a request
\* is about to complete the course with.
PassesShown == \A a \in Attempts : passed[a] = TRUE => a \in everPassed

Evident(r) ==
  /\ At(r, "upsertRead") => req[r].work \in everPassed
  /\ At(r, "upsert") => \/ req[r].pick \in everPassed
                        \/ req[r].pick = Null /\ completion.best # Null

\* A best attempt on record showed a pass, and a passed course has one.
BestPassed ==
  /\ completion.best # Null => completion.best \in everPassed
  /\ completion.isPassed => completion.best # Null

\* Until the sheet is written, the marks are those of the answers in hand.
MarksInHand(r) ==
  At(r, "write") /\ status[req[r].work] = "AUTO_GRADED" =>
    marks[req[r].work] = TotalMarks(SystemScores(req[r].answers))

Evidence == PassesShown /\ BestPassed /\ \A r \in Slots : Evident(r)
Graded   == MarksMatchSheet /\ \A r \in Slots : MarksInHand(r)

\* The steps that touch neither what is shown nor the sheet's scores leave a
\* request that owes nothing of either.
Owing == {"write", "upsertRead", "upsert"}

LEMMA OtherSteps ==
  ASSUME TypeInv, NEW r \in Slots,
         \/ LearnerRequest(r) \/ AdminRequest(r) \/ Crash(r)
         \/ StaleNone(r) \/ StaleRead(r) \/ ExpireWrite(r) \/ ClaimLost(r)
         \/ WriteSheet(r) \/ WriteFails(r) \/ Undo(r) \/ Upsert(r)
         \/ StartRefused(r) \/ CreateAttempt(r) \/ SaveWrite(r)
         \/ SubmitRefused(r) \/ SubmitRead(r) \/ GradeWrite(r)
  PROVE  /\ req'[r].pc \notin Owing
         /\ req'[r].pc = "undo" => WriteFails(r)
         /\ req'[r].pc \in {"grade", "finalize"} => AdminRequest(r)
         /\ \A s \in Slots \ {r} : req'[s] = req[s]
<1>0. /\ req \in [Slots -> Request] /\ req[r] \in Request
      /\ Finished(r).pc \notin Owing \cup {"undo", "grade", "finalize"}
      /\ Idle.pc \notin Owing \cup {"undo", "grade", "finalize"}
  BY FinishedTyped DEF TypeInv, TypeOK, Idle, Owing
<1>1. CASE LearnerRequest(r)
  BY <1>0, <1>1 DEF LearnerRequest, StartRequest, SaveRequest, SubmitRequest,
                    ViewRequest, Become, Idle, Owing
<1>2. CASE AdminRequest(r)
  BY <1>0, <1>2 DEF AdminRequest, GradeRequest, FinalizeRequest, Become, Idle,
                    Owing
<1>3. CASE \/ StaleNone(r) \/ ExpireWrite(r) \/ ClaimLost(r) \/ Undo(r)
           \/ Upsert(r)
  BY <1>0, <1>3, BecomeAt
     DEF StaleNone, ExpireWrite, ClaimLost, Undo, Upsert
<1>4. CASE \/ Crash(r) \/ StartRefused(r) \/ CreateAttempt(r)
           \/ SaveWrite(r) \/ SubmitRefused(r) \/ GradeWrite(r)
  BY <1>0, <1>4, BecomeAt
     DEF Crash, StartRefused, CreateAttempt, SaveWrite, SubmitRefused, GradeWrite
<1>5. CASE StaleRead(r)
  <2>1. PICK a \in Attempts, step \in {"expire", "claim"} :
          Become(r, [req[r] EXCEPT !.work = a, !.answers = AnswersOf(a),
                                   !.pc = step])
    BY <1>5, StaleTaken
  <2> QED
    BY <1>0, <2>1 DEF Become, Request, Owing
<1>6. CASE SubmitRead(r)
  <2>1. PICK a, answers :
          Become(r, [req[r] EXCEPT !.work = a, !.pc = "claim",
                                   !.answers = answers])
    BY <1>6 DEF SubmitRead
  <2> QED
    BY <1>0, <2>1 DEF Become, Request, Owing
<1>7. CASE WriteSheet(r) \/ WriteFails(r)
  BY <1>7, GotoAt DEF WriteSheet, WriteFails, Owing
<1> QED
  BY <1>1, <1>2, <1>3, <1>4, <1>5, <1>6, <1>7
\* A step that shows no pass and leaves its request owing nothing.
LEMMA EvidenceKept ==
  ASSUME Evidence, NEW r \in Slots,
         req'[r].pc \notin Owing, \A s \in Slots \ {r} : req'[s] = req[s],
         \A a \in Attempts : passed'[a] = TRUE => passed[a] = TRUE,
         everPassed' = everPassed, completion' = completion
  PROVE  Evidence'
<1>1. PassesShown' /\ BestPassed'
  BY DEF Evidence, PassesShown, BestPassed
<1>2. \A s \in Slots : Evident(s)'
  BY DEF Evidence, Evident, At, Owing
<1> QED
  BY <1>1, <1>2 DEF Evidence

\* The claim of an attempt that passes puts the pass in the history.
LEMMA ClaimEvident ==
  ASSUME TypeInv, Evidence, NEW r \in Slots, Claim(r)
  PROVE  Evidence'
<1>0. /\ passed \in [Attempts -> BOOLEAN \cup {Null}]
      /\ req[r].work \in Attempts
  BY DEF TypeInv, TypeOK, WorkKnown, Known, Claim, At
<1>1. /\ req'[r].pc = "write"
      /\ \A s \in Slots \ {r} : req'[s] = req[s]
  BY GotoAt DEF Claim
<1>2. everPassed \subseteq everPassed' /\ completion' = completion
  BY DEF Claim
<1>3. PassesShown'
  BY <1>0 DEF Evidence, PassesShown, Claim
<1>4. BestPassed'
  BY <1>2 DEF Evidence, BestPassed
<1>5. \A s \in Slots : Evident(s)'
  BY <1>1, <1>2 DEF Evidence, Evident, At
<1> QED
  BY <1>3, <1>4, <1>5 DEF Evidence

\* An attempt that awards the course shows a pass.
LEMMA AfterEvident ==
  ASSUME TypeInv, Evidence, NEW r \in Slots, AfterSubmit(r)
  PROVE  Evidence'
<1> DEFINE a == req[r].work
<1>0. /\ req[r] \in Request /\ a \in Attempts
      /\ UNCHANGED <<passed, everPassed, completion>>
  BY DEF TypeInv, TypeOK, WorkKnown, Known, AfterSubmit, At, rowVars
<1>1. CASE AwardsCourse(a)
  <2> DEFINE new == [req[r] EXCEPT !.pc = "upsertRead", !.marks = marks[a]]
  <2>1. new.pc = "upsertRead" /\ new.work = a
    BY <1>0 DEF Request
  <2>2. Become(r, new)
    BY <1>1 DEF AfterSubmit
  <2>3. /\ req'[r].pc = "upsertRead" /\ req'[r].work = a
        /\ \A s \in Slots \ {r} : req'[s] = req[s]
    BY <2>1, <2>2, BecomeAt
  <2>4. a \in everPassed
    BY <1>0, <1>1 DEF Evidence, PassesShown, AwardsCourse
  <2> QED
    BY <1>0, <2>3, <2>4 DEF Evidence, PassesShown, BestPassed, Evident, At
<1>2. CASE ~AwardsCourse(a)
  <2>1. /\ req'[r] = Finished(r)
        /\ \A s \in Slots \ {r} : req'[s] = req[s]
    BY <1>2, BecomeAt DEF AfterSubmit
  <2>2. Finished(r).pc \notin Owing
    BY FinishedTyped DEF Owing
  <2> QED
    BY <1>0, <2>1, <2>2, EvidenceKept
<1> QED
  BY <1>1, <1>2

\* The verdict of the comparison is the attempt in hand, or rests on a best
\* attempt that is on record and is never taken off it.
LEMMA UpsertEvident ==
  ASSUME TypeInv, Evidence, NEW r \in Slots, UpsertRead(r) \/ Upsert(r)
  PROVE  Evidence'
<1>0. req[r] \in Request
  BY DEF TypeInv, TypeOK
<1>1. CASE UpsertRead(r)
  <2>1. PICK pick :
          /\ Become(r, [req[r] EXCEPT !.pc = "upsert", !.pick = pick])
          /\ pick = req[r].work \/ (pick = Null /\ completion.best # Null)
    BY <1>1 DEF UpsertRead
  <2> DEFINE new == [req[r] EXCEPT !.pc = "upsert", !.pick = pick]
  <2>2. new.pc = "upsert" /\ new.pick = pick
    BY <1>0 DEF Request
  <2>3. /\ req'[r].pc = "upsert" /\ req'[r].pick = pick
        /\ \A s \in Slots \ {r} : req'[s] = req[s]
    BY <2>1, <2>2, BecomeAt
  <2>4. UNCHANGED <<passed, everPassed, completion>> /\ At(r, "upsertRead")
    BY <1>1 DEF UpsertRead, rowVars, histVars
  <2>5. Evident(r)'
    BY <2>1, <2>3, <2>4 DEF Evidence, Evident, At
  <2> QED
    BY <2>3, <2>4, <2>5 DEF Evidence, PassesShown, BestPassed, Evident, At
<1>2. CASE Upsert(r)
  <2>1. /\ req'[r].pc \notin Owing
        /\ \A s \in Slots \ {r} : req'[s] = req[s]
    BY <1>2, OtherSteps
  <2>2. /\ UNCHANGED <<passed, everPassed>>
        /\ completion'.best \in everPassed
    BY <1>2 DEF Upsert, rowVars, histVars, Evidence, Evident, BestPassed
  <2>3. completion'.best # Null
    BY <2>2, AttemptAssumption DEF TypeInv, TypeOK
  <2> QED
    BY <2>1, <2>2, <2>3
       DEF Evidence, PassesShown, BestPassed, Evident, At, Owing
<1> QED
  BY <1>1, <1>2

\* A final pass is in the history before the course is completed with it.
LEMMA FinalizeEvident ==
  ASSUME TypeInv, Evidence, NEW r \in Slots, FinalizeWrite(r)
  PROVE  Evidence'
<1> DEFINE a == req[r].work
           pass == IsPass(req[r].marks)
<1>0. /\ passed \in [Attempts -> BOOLEAN \cup {Null}] /\ a \in Attempts
      /\ passed' = [passed EXCEPT ![a] = pass]
      /\ everPassed' = IF pass THEN everPassed \cup {a} ELSE everPassed
      /\ completion' = completion
  BY DEF TypeInv, TypeOK, WorkKnown, Known, FinalizeWrite, At
<1>1. /\ req'[r].pc = "upsertRead" => pass /\ req'[r].work = a
      /\ req'[r].pc # "upsert"
      /\ \A s \in Slots \ {r} : req'[s] = req[s]
  <2>1. CASE pass
    BY <2>1, GotoAt DEF FinalizeWrite
  <2>2. CASE ~pass
    BY <2>2, BecomeAt DEF FinalizeWrite, Idle
  <2> QED
    BY <2>1, <2>2
<1>2. PassesShown'
  BY <1>0 DEF Evidence, PassesShown
<1>3. BestPassed'
  BY <1>0 DEF Evidence, BestPassed
<1>4. \A s \in Slots : Evident(s)'
  BY <1>0, <1>1 DEF Evidence, Evident, At
<1> QED
  BY <1>2, <1>3, <1>4 DEF Evidence

\* Every step keeps the evidence.
LEMMA StepEvident == TypeInv /\ Evidence /\ [Next]_vars => Evidence'
<1> SUFFICES ASSUME TypeInv, Evidence, [Next]_vars PROVE Evidence'
  OBVIOUS
<1>1. CASE SetMaxAttempts \/ (\E a \in Attempts : Deadline(a)) \/ UNCHANGED vars
  BY <1>1 DEF SetMaxAttempts, Deadline, vars, rowVars, histVars, Evidence,
              PassesShown, BestPassed, Evident, At
<1>2. ASSUME NEW r \in Slots,
             LearnerRequest(r) \/ AdminRequest(r) \/ Continue(r) \/ Crash(r)
      PROVE  Evidence'
  <2>1. CASE Claim(r) \/ AfterSubmit(r) \/ UpsertRead(r) \/ Upsert(r)
               \/ FinalizeWrite(r)
    BY <2>1, ClaimEvident, AfterEvident, UpsertEvident, FinalizeEvident
  <2>2. CASE Undo(r)
    <3>1. /\ \A a \in Attempts : passed'[a] = TRUE => passed[a] = TRUE
          /\ everPassed' = everPassed /\ completion' = completion
      BY <2>2, AttemptAssumption DEF Undo, histVars, TypeInv, TypeOK
    <3> QED
      BY <2>2, <3>1, OtherSteps, EvidenceKept
  <2>3. CASE ~(\/ Claim(r) \/ AfterSubmit(r) \/ UpsertRead(r) \/ Upsert(r)
               \/ FinalizeWrite(r) \/ Undo(r))
    <3>1. \/ LearnerRequest(r) \/ AdminRequest(r) \/ Crash(r)
          \/ StaleNone(r) \/ StaleRead(r) \/ ExpireWrite(r) \/ ClaimLost(r)
          \/ WriteSheet(r) \/ WriteFails(r)
          \/ StartRefused(r) \/ CreateAttempt(r) \/ SaveWrite(r)
          \/ SubmitRefused(r) \/ SubmitRead(r) \/ GradeWrite(r)
      BY <1>2, <2>3 DEF Continue
    <3>2. UNCHANGED <<passed, everPassed, completion>>
      BY <3>1 DEF LearnerRequest, StartRequest, SaveRequest, SubmitRequest,
         ViewRequest, AdminRequest, GradeRequest, FinalizeRequest, Crash,
         StaleNone, StaleRead, ExpireWrite, ClaimLost, WriteSheet, WriteFails,
         StartRefused, CreateAttempt, SaveWrite, SubmitRefused, SubmitRead,
         GradeWrite, rowVars, histVars
    <3> QED
      BY <3>1, <3>2, OtherSteps, EvidenceKept
  <2> QED
    BY <2>1, <2>2, <2>3
<1> QED
  BY <1>1, <1>2 DEF Next, Slots

\* A course is passed only with an attempt that showed a pass, however it was
\* graded, put back or finalised afterwards.
THEOREM PassEvident == Spec => []CompletionJustified
<1>1. Init => Evidence
  <2>1. ASSUME Init PROVE PassesShown
    BY <2>1, AttemptAssumption DEF Init, PassesShown
  <2>2. ASSUME Init PROVE BestPassed
    BY <2>2 DEF Init, BestPassed
  <2>3. ASSUME Init PROVE \A r \in Slots : Evident(r)
    BY <2>3 DEF Init, Evident, At, Idle
  <2> QED
    BY <2>1, <2>2, <2>3 DEF Evidence
<1>2. IInv /\ Evidence /\ [Next]_vars => Evidence'
  BY StepEvident DEF IInv
<1>3. Evidence => CompletionJustified
  BY DEF Evidence, BestPassed, CompletionJustified
<1> QED
  BY <1>1, <1>2, <1>3, Invariance, PTL DEF Spec

-----------------------------------------------------------------------------
\* The system scores of a sheet, as the marks count them.
Scores(a) == [q \in Questions |-> sheet[a][q].system]

\* A step that automatically grades nothing, and leaves the scores of every
\* graded sheet as they are, keeps the marks in step with them.
LEMMA GradedKept ==
  ASSUME TypeInv, Graded, NEW r \in Slots,
         ~At(r, "write")', \A s \in Slots \ {r} : req'[s] = req[s],
         \A a \in Attempts : status'[a] = "AUTO_GRADED" =>
           status[a] = "AUTO_GRADED" /\ marks'[a] = marks[a],
         \A a \in Attempts, q \in Questions :
           sheet'[a][q].system = sheet[a][q].system,
         written' = written
  PROVE  Graded'
<1>1. MarksMatchSheet'
  <2> SUFFICES ASSUME NEW a \in written, status'[a] = "AUTO_GRADED"
               PROVE  marks'[a] = TotalMarks(Scores(a)')
    BY DEF MarksMatchSheet, Scores
  <2>1. a \in Attempts
    BY DEF TypeInv, TypeOK
  <2>2. Scores(a)' = Scores(a)
    BY <2>1 DEF Scores
  <2>3. marks[a] = TotalMarks(Scores(a))
    BY <2>1 DEF Graded, MarksMatchSheet, Scores
  <2> QED
    BY <2>1, <2>2, <2>3
<1>2. \A s \in Slots : MarksInHand(s)'
  <2> SUFFICES ASSUME NEW s \in Slots, s # r, At(s, "write"),
                      status'[req[s].work] = "AUTO_GRADED"
               PROVE  marks'[req[s].work] = TotalMarks(SystemScores(req[s].answers))
    BY DEF MarksInHand, At
  <2>1. req[s].work \in Attempts
    BY DEF TypeInv, WorkKnown, Known, At
  <2> QED
    BY <2>1 DEF Graded, MarksInHand
<1> QED
  BY <1>1, <1>2 DEF Graded

\* The claim computes the marks from the answers it holds, and no other request
\* holds the attempt.
LEMMA ClaimGraded ==
  ASSUME IInv, Graded, NEW r \in Slots, Claim(r)
  PROVE  Graded'
<1> DEFINE a     == req[r].work
           total == TotalMarks(SystemScores(req[r].answers))
           manual == NeedsMarking(req[r].answers)
<1>0. /\ a \in Attempts /\ req \in [Slots -> Request]
      /\ status \in [Attempts -> Status] /\ marks \in [Attempts -> Nat \cup {Null}]
      /\ status[a] = Open /\ Open \notin Submitted
  BY DEF IInv, TypeInv, TypeOK, WorkKnown, Known, Claim, At, StillOpen, Open,
         Submitted, Gradable
<1>1. /\ status' = [status EXCEPT ![a] = IF manual THEN "SUBMITTED"
                                                   ELSE "AUTO_GRADED"]
      /\ marks' = IF manual THEN marks ELSE [marks EXCEPT ![a] = total]
      /\ sheet' = sheet /\ written' = written \ {a}
  BY DEF Claim
<1>2. /\ req'[r] = [req[r] EXCEPT !.pc = "write"]
      /\ \A s \in Slots \ {r} : req'[s] = req[s]
  BY <1>0 DEF Claim, Goto
<1>3. req'[r].work = a /\ req'[r].answers = req[r].answers
  BY <1>0, <1>2 DEF Request
<1>4. MarksMatchSheet'
  <2> SUFFICES ASSUME NEW b \in written \ {a}, status'[b] = "AUTO_GRADED"
               PROVE  marks'[b] = TotalMarks([q \in Questions |-> sheet'[b][q].system])
    BY <1>1 DEF MarksMatchSheet
  <2>1. b \in Attempts
    BY DEF IInv, TypeInv, TypeOK
  <2>2. status[b] = "AUTO_GRADED" /\ marks'[b] = marks[b]
    BY <1>0, <1>1, <2>1
  <2> QED
    BY <1>1, <2>2 DEF Graded, MarksMatchSheet
<1>5. MarksInHand(r)'
  <2> SUFFICES ASSUME status'[a] = "AUTO_GRADED"
               PROVE  marks'[a] = total
    BY <1>3 DEF MarksInHand
  <2> QED
    BY <1>0, <1>1
<1>6. ASSUME NEW s \in Slots \ {r} PROVE MarksInHand(s)'
  <2> SUFFICES ASSUME At(s, "write"), status'[req[s].work] = "AUTO_GRADED"
               PROVE  marks'[req[s].work] = TotalMarks(SystemScores(req[s].answers))
    BY <1>2 DEF MarksInHand, At
  <2>1. req[s].work \in Attempts \ {a}
    BY <1>0 DEF IInv, Safe, OwnedIsSubmitted, Owns, Owning, TypeInv, WorkKnown,
                Known, At
  <2>2. /\ status[req[s].work] = "AUTO_GRADED"
        /\ marks'[req[s].work] = marks[req[s].work]
    BY <1>0, <1>1, <2>1
  <2> QED
    BY <2>2 DEF Graded, MarksInHand
<1> QED
  BY <1>4, <1>5, <1>6 DEF Graded

\* The sheet is written from the answers the marks were computed from.
LEMMA WriteGraded ==
  ASSUME TypeInv, Graded, NEW r \in Slots, WriteSheet(r) \/ WriteFails(r)
  PROVE  Graded'
<1> DEFINE a == req[r].work
<1>0. /\ a \in Attempts /\ sheet \in [Attempts -> SheetRows]
      /\ UNCHANGED <<status, marks>> /\ At(r, "write")
  BY DEF TypeInv, TypeOK, WorkKnown, Known, WriteSheet, WriteFails, At, SheetRows
<1>1. ~At(r, "write")' /\ \A s \in Slots \ {r} : req'[s] = req[s]
  BY OtherSteps DEF Owing, At
<1>2. CASE UNCHANGED <<sheet, written>>
  BY <1>0, <1>1, <1>2, GradedKept
<1>3. CASE /\ sheet' = [sheet EXCEPT ![a] = GradedSheet(a, req[r].answers)]
           /\ written' = written \cup {a}
  <2>1. [q \in Questions |-> sheet'[a][q].system] = SystemScores(req[r].answers)
    BY <1>0, <1>3 DEF SystemScores, GradedSheet, SheetRows
  <2>2. MarksMatchSheet'
    <3> SUFFICES ASSUME NEW b \in written \cup {a}, status[b] = "AUTO_GRADED"
                 PROVE  marks[b] = TotalMarks(Scores(b)')
      BY <1>0, <1>3 DEF MarksMatchSheet, Scores
    <3>1. CASE b = a
      BY <1>0, <2>1, <3>1 DEF Graded, MarksInHand, Scores
    <3>2. CASE b # a
      <4>1. b \in Attempts
        BY <3>2 DEF TypeInv, TypeOK
      <4>2. Scores(b)' = Scores(b)
        BY <1>0, <1>3, <3>2, <4>1 DEF Scores
      <4> QED
        BY <3>2, <4>2 DEF Graded, MarksMatchSheet, Scores
    <3> QED
      BY <3>1, <3>2
  <2>3. \A s \in Slots : MarksInHand(s)'
    BY <1>0, <1>1 DEF Graded, MarksInHand, At
  <2> QED
    BY <2>2, <2>3 DEF Graded
<1> QED
  BY <1>2, <1>3 DEF WriteSheet, WriteFails

\* Saves and reviews write other columns of the sheet than the system score.
LEMMA ScoresKept ==
  ASSUME TypeInv, NEW r \in Slots, SaveWrite(r) \/ GradeWrite(r)
  PROVE  \A a \in Attempts, q \in Questions :
           sheet'[a][q].system = sheet[a][q].system
<1>0. sheet \in [Attempts -> SheetRows] /\ req[r].work \in Attempts
  BY DEF TypeInv, TypeOK, SheetRows, WorkKnown, Known, SaveWrite, GradeWrite, At
<1>1. CASE SaveWrite(r)
  BY <1>0, <1>1 DEF SaveWrite, SavedSheet, SheetRows
<1>2. CASE GradeWrite(r)
  BY <1>0, <1>2 DEF GradeWrite, ReviewedSheet, SheetRows
<1> QED
  BY <1>1, <1>2

\* Every step keeps the marks in step with the sheet.
LEMMA StepGraded == IInv /\ Graded /\ [Next]_vars => Graded'
<1> SUFFICES ASSUME IInv, Graded, [Next]_vars PROVE Graded'
  OBVIOUS
<1>0. /\ TypeInv /\ status \in [Attempts -> Status]
      /\ marks \in [Attempts -> Nat \cup {Null}]
      /\ Open # "AUTO_GRADED"
  BY DEF IInv, TypeInv, TypeOK, Open
<1>1. CASE SetMaxAttempts \/ (\E a \in Attempts : Deadline(a)) \/ UNCHANGED vars
  BY <1>1 DEF SetMaxAttempts, Deadline, vars, rowVars, histVars, Graded,
              MarksMatchSheet, MarksInHand, At
<1>2. ASSUME NEW r \in Slots,
             LearnerRequest(r) \/ AdminRequest(r) \/ Continue(r) \/ Crash(r)
      PROVE  Graded'
  <2>1. CASE Claim(r) \/ WriteSheet(r) \/ WriteFails(r)
    BY <1>0, <2>1, ClaimGraded, WriteGraded
  <2>2. CASE SaveWrite(r) \/ GradeWrite(r)
    <3>1. /\ written' = written
          /\ \A a \in Attempts : status'[a] = "AUTO_GRADED" =>
               status[a] = "AUTO_GRADED" /\ marks'[a] = marks[a]
      BY <1>0, <2>2 DEF SaveWrite, GradeWrite, histVars
    <3>2. ~At(r, "write")' /\ \A s \in Slots \ {r} : req'[s] = req[s]
      BY <1>0, <2>2, OtherSteps DEF Owing, At
    <3> QED
      BY <1>0, <2>2, <3>1, <3>2, ScoresKept, GradedKept
  <2>3. CASE ExpireWrite(r) \/ Undo(r) \/ CreateAttempt(r)
    <3>1. /\ written' = written /\ sheet' = sheet
          /\ \A a \in Attempts : status'[a] = "AUTO_GRADED" =>
               status[a] = "AUTO_GRADED" /\ marks'[a] = marks[a]
      BY <1>0, <2>3 DEF ExpireWrite, Undo, CreateAttempt, histVars
    <3>2. ~At(r, "write")' /\ \A s \in Slots \ {r} : req'[s] = req[s]
      BY <1>0, <2>3, OtherSteps DEF Owing, At
    <3> QED
      BY <1>0, <3>1, <3>2, GradedKept
  <2>4. CASE FinalizeWrite(r) \/ AfterSubmit(r) \/ UpsertRead(r)
    <3>1. /\ written' = written /\ sheet' = sheet
          /\ \A a \in Attempts : status'[a] = "AUTO_GRADED" =>
               status[a] = "AUTO_GRADED" /\ marks'[a] = marks[a]
      BY <1>0, <2>4
         DEF FinalizeWrite, AfterSubmit, UpsertRead, rowVars, histVars,
             TypeInv, WorkKnown, Known, At
    <3>2. ~At(r, "write")' /\ \A s \in Slots \ {r} : req'[s] = req[s]
      <4>1. req[r] \in Request /\ Finished(r).pc # "write"
        BY <1>0, FinishedTyped DEF TypeInv, TypeOK
      <4>2. CASE AfterSubmit(r)
        <5> DEFINE new == [req[r] EXCEPT !.pc = "upsertRead",
                                         !.marks = marks[req[r].work]]
        <5>1. new.pc = "upsertRead"
          BY <4>1 DEF Request
        <5>2. Become(r, new) \/ Become(r, Finished(r))
          BY <4>2 DEF AfterSubmit
        <5> QED
          BY <1>0, <4>1, <5>1, <5>2, BecomeAt DEF At
      <4>3. CASE UpsertRead(r)
        <5>1. PICK pick \in {req[r].work, Null} :
                Become(r, [req[r] EXCEPT !.pc = "upsert", !.pick = pick])
          BY <4>3, PickMade
        <5>2. [req[r] EXCEPT !.pc = "upsert", !.pick = pick].pc = "upsert"
          BY <4>1 DEF Request
        <5> QED
          BY <1>0, <5>1, <5>2, BecomeAt DEF At
      <4>4. CASE FinalizeWrite(r)
        BY <1>0, <4>4, GotoAt, BecomeAt DEF FinalizeWrite, At, Idle
      <4> QED
        BY <2>4, <4>2, <4>3, <4>4
    <3> QED
      BY <1>0, <3>1, <3>2, GradedKept
  <2>5. CASE \/ LearnerRequest(r) \/ AdminRequest(r) \/ Crash(r)
             \/ StaleNone(r) \/ StaleRead(r) \/ ClaimLost(r) \/ Upsert(r)
             \/ StartRefused(r) \/ SubmitRefused(r) \/ SubmitRead(r)
    <3>1. UNCHANGED <<status, marks, sheet, written>>
      BY <2>5 DEF LearnerRequest, StartRequest, SaveRequest, SubmitRequest,
         ViewRequest, AdminRequest, GradeRequest, FinalizeRequest, Crash,
         StaleNone, StaleRead, ClaimLost, Upsert, StartRefused, SubmitRefused,
         SubmitRead, rowVars, histVars
    <3>2. ~At(r, "write")' /\ \A s \in Slots \ {r} : req'[s] = req[s]
      BY <1>0, <2>5, OtherSteps DEF Owing, At
    <3> QED
      BY <1>0, <3>1, <3>2, GradedKept
  <2> QED
    BY <1>2, <2>1, <2>2, <2>3, <2>4, <2>5 DEF Continue
<1> QED
  BY <1>1, <1>2 DEF Next, Slots

\* The marks an automatically graded attempt shows are the total of its
\* committed sheet, although the claim and the sheet are two statements and the
\* attempt may be put back and submitted again in between.
THEOREM MarksOfSheet == Spec => []MarksMatchSheet
<1>1. Init => Graded
  BY DEF Init, Graded, MarksMatchSheet, MarksInHand, At, Idle
<1>2. Graded => MarksMatchSheet
  BY DEF Graded
<1> QED
  BY <1>1, <1>2, StepGraded, Invariance, PTL DEF Spec

-----------------------------------------------------------------------------
(* The refinement of AttemptLifecycle *)

Shown(a)       == IF StageOf(a) \in {"submitted", "reviewed", "final"}
                  THEN passed[a] ELSE Null
Transits(r, a) == req[r].work = a /\ req[r].pc \in {"write", "undo"}
Stays(a)       == StageOf(a)' = StageOf(a) /\ Shown(a)' = Shown(a)

\* A request that has read attempt a for a review and has yet to write it.
Reviews(r, a) == req[r].pc \in {"grade", "finalize"} /\ req[r].work = a

\* A review works on a row that exists. On an attempt that is not contested it is
\* the only one, and what it will write is still to be reviewed.
SoleReview(a) ==
  \A r \in Slots : Reviews(r, a) =>
    /\ status[a] \in Gradable
    /\ \A s \in Slots : Reviews(s, a) => s = r

Orderly ==
  /\ \A r \in Slots, a \in Attempts : Reviews(r, a) => status[a] # "none"
  /\ \A a \in Attempts \ contested : SoleReview(a)

\* What the stages are, status by status, before and after a step.
StagesFit(a) ==
  /\ status[a] = "none" => StageOf(a) = "none"
  /\ status[a] = Open => StageOf(a) = "open"
  /\ status[a] = "EXPIRED" => StageOf(a) = "expired"
  /\ status[a] = "GRADED" => StageOf(a) = "reviewed"
  /\ status[a] = "FINALIZED" => StageOf(a) = "final"
  /\ status[a] \in {"SUBMITTED", "AUTO_GRADED"} =>
       StageOf(a) = IF \E r \in Slots : Transits(r, a) THEN "open" ELSE "submitted"

LEMMA Stages ==
  ASSUME NEW a \in Attempts
  PROVE  StagesFit(a) /\ StagesFit(a)'
  BY DEF StagesFit, StageOf, InTransit, Transits, Open

\* An attempt whose row shows the same, and which is in transit as before, stays.
LEMMA RowStays ==
  ASSUME TypeInv, TypeInv', NEW a \in Attempts,
         status'[a] = status[a], passed'[a] = passed[a],
         (\E r \in Slots : Transits(r, a)') <=> (\E r \in Slots : Transits(r, a))
  PROVE  Stays(a)
<1>1. StageOf(a)' = StageOf(a)
  BY DEF StageOf, InTransit, Transits
<1> QED
  BY <1>1 DEF Stays, Shown

\* A step of one request leaves the attempts it does not work on in transit or not.
LEMMA TransitStays ==
  ASSUME NEW r \in Slots, NEW a, \A s \in Slots \ {r} : req'[s] = req[s],
         Transits(r, a)' <=> Transits(r, a)
  PROVE  (\E s \in Slots : Transits(s, a)') <=> (\E s \in Slots : Transits(s, a))
  BY DEF Transits

\* One attempt moves forward and the others stay: a step of AttemptLifecycle.
LEMMA OneMoves ==
  ASSUME TypeInv', NEW a \in Attempts, \A b \in Attempts \ {a} : Stays(b),
         \/ Stays(a)
         \/ StageOf(a) = "none" /\ StageOf(a)' = "open"
         \/ StageOf(a) = "open" /\ StageOf(a)' = "expired"
         \/ StageOf(a) = "open" /\ StageOf(a)' \in {"submitted", "reviewed", "final"}
         \/ /\ StageOf(a) \in {"submitted", "reviewed"}
            /\ StageOf(a)' = "reviewed" /\ passed'[a] = passed[a]
         \/ /\ StageOf(a) \in {"submitted", "reviewed"}
            /\ StageOf(a)' = "final" /\ passed'[a] \in BOOLEAN,
         UNCHANGED contested
  PROVE  [Lifecycle!Next]_(Lifecycle!vars)
<1> DEFINE stage  == [b \in Attempts |-> StageOf(b)]
           result == [b \in Attempts |->
                        IF StageOf(b) \in {"submitted", "reviewed", "final"}
                        THEN passed[b] ELSE Null]
<1>1. CASE Stays(a)
  <2>1. stage' = stage
    BY <1>1 DEF Stays
  <2>2. result' = result
    BY <1>1 DEF Stays, Shown
  <2> QED
    BY <2>1, <2>2 DEF Lifecycle!vars
<1>a. PICK to : to = StageOf(a)'
  OBVIOUS
<1>b. PICK shown : shown = Shown(a)'
  OBVIOUS
<1>2. Lifecycle!Move(a, to, shown)
  <2>1. stage' = [stage EXCEPT ![a] = to]
    BY <1>a DEF Stays
  <2>2. result' = [result EXCEPT ![a] = shown]
    BY <1>b DEF Stays, Shown
  <2> QED
    BY <2>1, <2>2 DEF Lifecycle!Move
<1>3. stage[a] = StageOf(a) /\ result[a] = Shown(a)
  BY DEF Shown
<1>4. passed'[a] \in BOOLEAN \cup {Null}
  BY DEF TypeInv, TypeOK
<1>5. CASE StageOf(a) = "none" /\ StageOf(a)' = "open"
  <2>1. shown = Null
    BY <1>b, <1>5 DEF Shown
  <2> QED
    BY <1>a, <1>2, <1>3, <1>5, <2>1 DEF Lifecycle!Next, Lifecycle!Start
<1>6. CASE StageOf(a) = "open" /\ StageOf(a)' = "expired"
  <2>1. shown = Null
    BY <1>b, <1>6 DEF Shown
  <2> QED
    BY <1>a, <1>2, <1>3, <1>6, <2>1 DEF Lifecycle!Next, Lifecycle!Expire
<1>7. CASE /\ StageOf(a) = "open"
           /\ StageOf(a)' \in {"submitted", "reviewed", "final"}
  <2>1. shown \in BOOLEAN \cup {Null}
    BY <1>b, <1>4, <1>7 DEF Shown
  <2> QED
    BY <1>a, <1>2, <1>3, <1>7, <2>1
       DEF Lifecycle!Next, Lifecycle!Publish, Lifecycle!Published, Lifecycle!Result
<1>8. CASE /\ StageOf(a) \in {"submitted", "reviewed"}
           /\ StageOf(a)' = "reviewed" /\ passed'[a] = passed[a]
  <2>1. shown = Shown(a)
    BY <1>b, <1>8 DEF Shown
  <2>2. /\ stage[a] \in {"submitted", "reviewed"}
        /\ to = "reviewed" /\ shown = result[a]
    BY <1>a, <1>3, <1>8, <2>1
  <2>3. Lifecycle!Review(a)
    BY <1>2, <2>2 DEF Lifecycle!Review, Lifecycle!Move
  <2> QED
    BY <2>3 DEF Lifecycle!Next
<1>9. CASE /\ StageOf(a) \in {"submitted", "reviewed"}
           /\ StageOf(a)' = "final" /\ passed'[a] \in BOOLEAN
  <2>1. shown \in BOOLEAN
    BY <1>b, <1>9 DEF Shown
  <2> QED
    BY <1>a, <1>2, <1>3, <1>9, <2>1 DEF Lifecycle!Next, Lifecycle!Finalize
<1> QED
  BY <1>1, <1>5, <1>6, <1>7, <1>8, <1>9

\* If every attempt stays, nothing happens in AttemptLifecycle.
LEMMA AllStay ==
  ASSUME \A a \in Attempts : Stays(a), UNCHANGED contested
  PROVE  [Lifecycle!Next]_(Lifecycle!vars)
<1> DEFINE stage  == [b \in Attempts |-> StageOf(b)]
           result == [b \in Attempts |->
                        IF StageOf(b) \in {"submitted", "reviewed", "final"}
                        THEN passed[b] ELSE Null]
<1>1. stage' = stage
  BY DEF Stays
<1>2. result' = result
  BY DEF Stays, Shown
<1> QED
  BY <1>1, <1>2 DEF Lifecycle!vars

\* Whatever becomes of a contested attempt is a step of AttemptLifecycle.
LEMMA ContestForward ==
  ASSUME TypeInv', NEW a \in Attempts, \A b \in Attempts \ {a} : Stays(b),
         contested' = contested \cup {a}, status[a] # "none", status'[a] # "none",
         status[a] \in Status, status'[a] \in Status
  PROVE  [Lifecycle!Next]_(Lifecycle!vars)
<1> DEFINE stage  == [b \in Attempts |-> StageOf(b)]
           result == [b \in Attempts |->
                        IF StageOf(b) \in {"submitted", "reviewed", "final"}
                        THEN passed[b] ELSE Null]
<1>1. PICK to : to = StageOf(a)'
  OBVIOUS
<1>2. PICK shown : shown = Shown(a)'
  OBVIOUS
<1>3. stage' = [stage EXCEPT ![a] = to]
  BY <1>1 DEF Stays
<1>4. result' = [result EXCEPT ![a] = shown]
  BY <1>2 DEF Stays, Shown
<1>5. stage[a] # "none"
  BY Stages DEF StagesFit, Status, Gradable, Open
<1>6. to \in {"open", "expired", "submitted", "reviewed", "final"}
  BY <1>1, Stages DEF StagesFit, Status, Gradable, Open
<1>7. shown \in BOOLEAN \cup {Null}
  BY <1>2 DEF TypeInv, TypeOK, Shown
<1>8. to \in Lifecycle!Stage \ {"none"} /\ shown \in Lifecycle!Result
  BY <1>6, <1>7 DEF Lifecycle!Stage, Lifecycle!Published, Lifecycle!Result
<1>9. Lifecycle!Contest(a)
  BY <1>3, <1>4, <1>5, <1>8 DEF Lifecycle!Contest
<1> QED
  BY <1>9 DEF Lifecycle!Next

\* A request that is in transit neither before nor after, and writes no row.
LEMMA QuietForward ==
  ASSUME TypeInv, TypeInv', NEW r \in Slots,
         \A s \in Slots \ {r} : req'[s] = req[s],
         req[r].pc \notin {"write", "undo"}, req'[r].pc \notin {"write", "undo"},
         UNCHANGED <<status, passed, contested>>
  PROVE  [Lifecycle!Next]_(Lifecycle!vars)
<1>1. ASSUME NEW a \in Attempts PROVE Stays(a)
  <2>1. Transits(r, a)' <=> Transits(r, a)
    BY DEF Transits
  <2> QED
    BY <2>1, TransitStays, RowStays
<1> QED
  BY <1>1, AllStay

\* A request that leaves transit publishes its attempt, unless an administrator
\* has published it meanwhile.
LEMMA LeavesForward ==
  ASSUME IInv, TypeInv', NEW r \in Slots,
         \A s \in Slots \ {r} : req'[s] = req[s],
         req[r].pc \in {"write", "undo"}, req'[r].pc \notin {"write", "undo"},
         UNCHANGED <<status, passed, contested>>
  PROVE  [Lifecycle!Next]_(Lifecycle!vars)
<1>0. PICK a : a = req[r].work
  OBVIOUS
<1>1. a \in Attempts /\ status[a] \in Submitted
  BY <1>0 DEF IInv, TypeInv, WorkKnown, Known, Safe, OwnedIsSubmitted, Owns, Owning
<1>2. ASSUME NEW b \in Attempts \ {a} PROVE Stays(b)
  <2>1. Transits(r, b)' <=> Transits(r, b)
    BY <1>0, <1>2 DEF Transits
  <2> QED
    BY <2>1, TransitStays, RowStays DEF IInv
<1>3. Transits(r, a) /\ ~Transits(r, a)'
  BY <1>0 DEF Transits
<1>4. \A s \in Slots \ {r} : ~Transits(s, a)
  BY <1>0 DEF IInv, Safe, OneOwner, Owns, Owning, Transits
<1>5. ~\E s \in Slots : Transits(s, a)'
  BY <1>3, <1>4 DEF Transits
<1>6. CASE status[a] \in {"SUBMITTED", "AUTO_GRADED"}
  <2>1. StageOf(a) = "open" /\ StageOf(a)' = "submitted"
    BY <1>1, <1>3, <1>5, <1>6, Stages DEF StagesFit
  <2> QED
    BY <1>1, <1>2, <2>1, OneMoves
<1>7. CASE status[a] \in {"GRADED", "FINALIZED"}
  <2>1. StageOf(a)' = StageOf(a)
    BY <1>1, <1>7, Stages DEF StagesFit
  <2>2. Stays(a)
    BY <2>1 DEF Stays, Shown
  <2> QED
    BY <1>1, <1>2, <2>2, OneMoves
<1> QED
  BY <1>1, <1>6, <1>7 DEF Submitted, Gradable

\* The request that writes the row of one attempt leaves the others as they are.
LEMMA OthersStay ==
  ASSUME TypeInv, TypeInv', NEW r \in Slots, NEW a \in Attempts,
         \A s \in Slots \ {r} : req'[s] = req[s],
         \A b \in Attempts \ {a} : status'[b] = status[b] /\ passed'[b] = passed[b],
         \A b \in Attempts \ {a} : ~Transits(r, b) /\ ~Transits(r, b)'
  PROVE  \A b \in Attempts \ {a} : Stays(b)
<1> SUFFICES ASSUME NEW b \in Attempts \ {a} PROVE Stays(b)
  OBVIOUS
<1> QED
  BY TransitStays, RowStays

\* The claim takes the attempt into transit: still open to everybody.
LEMMA ClaimForward ==
  ASSUME TypeInv, TypeInv', NEW r \in Slots, Claim(r)
  PROVE  [Lifecycle!Next]_(Lifecycle!vars)
<1>0. PICK a : a = req[r].work
  OBVIOUS
<1>1. /\ a \in Attempts /\ status[a] = Open /\ At(r, "claim")
      /\ status \in [Attempts -> Status] /\ passed \in [Attempts -> BOOLEAN \cup {Null}]
  BY <1>0 DEF TypeInv, TypeOK, WorkKnown, Known, Claim, At, StillOpen
<1>2. /\ req'[r].work = a /\ req'[r].pc = "write"
      /\ \A s \in Slots \ {r} : req'[s] = req[s]
  BY <1>0, GotoAt DEF Claim
<1>3. /\ status'[a] \in {"SUBMITTED", "AUTO_GRADED"} /\ UNCHANGED contested
      /\ \A b \in Attempts \ {a} : status'[b] = status[b] /\ passed'[b] = passed[b]
  BY <1>0, <1>1 DEF Claim
<1>4. \A b \in Attempts \ {a} : Stays(b)
  <2>1. \A b \in Attempts \ {a} : ~Transits(r, b) /\ ~Transits(r, b)'
    BY <1>1, <1>2 DEF Transits, At
  <2> QED
    BY <1>1, <1>2, <1>3, <2>1, OthersStay
<1>5. StageOf(a) = "open" /\ StageOf(a)' = "open"
  <2>1. Transits(r, a)'
    BY <1>2 DEF Transits
  <2> QED
    BY <1>1, <1>3, <2>1, Stages DEF StagesFit
<1>6. Stays(a)
  BY <1>5 DEF Stays, Shown
<1> QED
  BY <1>1, <1>3, <1>4, <1>6, OneMoves

\* A put-back undoes nothing that anybody saw, or contests the attempt.
LEMMA UndoForward ==
  ASSUME IInv, TypeInv', NEW r \in Slots, Undo(r)
  PROVE  [Lifecycle!Next]_(Lifecycle!vars)
<1>0. PICK a : a = req[r].work
  OBVIOUS
<1>1. /\ a \in Attempts /\ At(r, "undo") /\ status[a] \in Submitted
      /\ status \in [Attempts -> Status] /\ passed \in [Attempts -> BOOLEAN \cup {Null}]
  BY <1>0 DEF IInv, TypeInv, TypeOK, WorkKnown, Known, Undo, At, Safe,
              OwnedIsSubmitted, Owns, Owning
<1>2. /\ req'[r].pc \notin {"write", "undo"}
      /\ \A s \in Slots \ {r} : req'[s] = req[s]
  <2>1. ~WriteFails(r)
    BY <1>1 DEF WriteFails, At
  <2> QED
    BY <2>1, OtherSteps DEF IInv, Owing
<1>3. /\ status'[a] \in {status[a], Open}
      /\ \A b \in Attempts \ {a} : status'[b] = status[b] /\ passed'[b] = passed[b]
  BY <1>0, <1>1 DEF Undo
<1>4. \A b \in Attempts \ {a} : Stays(b)
  <2>1. \A b \in Attempts \ {a} : ~Transits(r, b) /\ ~Transits(r, b)'
    BY <1>0, <1>2 DEF Transits
  <2> QED
    BY <1>1, <1>2, <1>3, <2>1, OthersStay DEF IInv
<1>5. CASE status[a] \in {"GRADED", "FINALIZED"} \/ UnderReview(a)
  <2>1. contested' = contested \cup {a}
    BY <1>0, <1>5 DEF Undo
  <2>2. status[a] # "none" /\ status'[a] # "none"
        /\ status[a] \in Status /\ status'[a] \in Status
    BY <1>1, <1>3 DEF Submitted, Gradable, Open, Status
  <2> QED
    BY <1>1, <1>4, <2>1, <2>2, ContestForward
<1>6. CASE ~(status[a] \in {"GRADED", "FINALIZED"} \/ UnderReview(a))
  <2>0. UNCHANGED contested /\ status[a] \in {"SUBMITTED", "AUTO_GRADED"}
    BY <1>0, <1>1, <1>6 DEF Undo, Submitted, Gradable
  <2>1. CASE ~IndexAdmits(a)
    <3>1. UNCHANGED <<status, passed>>
      BY <1>0, <2>1 DEF Undo
    <3> QED
      BY <1>1, <1>2, <2>0, <3>1, LeavesForward DEF At
  <2>2. CASE IndexAdmits(a)
    <3>1. status'[a] = Open
      BY <1>0, <1>1, <2>2 DEF Undo
    <3>2. Transits(r, a)
      BY <1>0, <1>1 DEF Transits, At
    <3>3. StageOf(a) = "open" /\ StageOf(a)' = "open"
      BY <1>1, <2>0, <3>1, <3>2, Stages DEF StagesFit
    <3>4. Stays(a)
      BY <3>3 DEF Stays, Shown
    <3> QED
      BY <1>1, <1>4, <2>0, <3>4, OneMoves
  <2> QED
    BY <2>1, <2>2
<1> QED
  BY <1>5, <1>6

\* A review begins: nothing moves, and a second one contests the attempt.
LEMMA AdminForward ==
  ASSUME TypeInv, TypeInv', NEW r \in Slots, AdminRequest(r)
  PROVE  [Lifecycle!Next]_(Lifecycle!vars)
<1>1. PICK a \in Attempts : status[a] \in Gradable /\ contested' = Contesting(a)
  BY DEF AdminRequest, GradeRequest, FinalizeRequest, MayGrade
<1>2. UNCHANGED <<status, passed>> /\ req[r].pc = "idle"
  BY DEF AdminRequest, GradeRequest, FinalizeRequest, rowVars, At
<1>3. /\ req'[r].pc \notin {"write", "undo"}
      /\ \A s \in Slots \ {r} : req'[s] = req[s]
  <2>1. ~WriteFails(r)
    BY <1>2 DEF WriteFails, At
  <2> QED
    BY <2>1, OtherSteps DEF Owing
<1>4. \A b \in Attempts : Stays(b)
  <2>1. ASSUME NEW b \in Attempts PROVE Stays(b)
    <3>1. Transits(r, b)' <=> Transits(r, b)
      BY <1>2, <1>3 DEF Transits
    <3> QED
      BY <1>2, <1>3, <3>1, TransitStays, RowStays
  <2> QED
    BY <2>1
<1>5. CASE contested' = contested
  BY <1>4, <1>5, AllStay
<1>6. CASE contested' = contested \cup {a}
  BY <1>1, <1>2, <1>4, <1>6, ContestForward DEF Gradable, Status
<1> QED
  BY <1>1, <1>5, <1>6 DEF Contesting

\* The writes that create, expire, review and finalise an attempt.
LEMMA RowForward ==
  ASSUME TypeInv, Orderly, TypeInv', NEW r \in Slots,
         ExpireWrite(r) \/ CreateAttempt(r) \/ GradeWrite(r) \/ FinalizeWrite(r)
  PROVE  [Lifecycle!Next]_(Lifecycle!vars)
<1>0. /\ status \in [Attempts -> Status] /\ passed \in [Attempts -> BOOLEAN \cup {Null}]
      /\ req[r].pc \notin {"write", "undo"}
      /\ UNCHANGED contested
  BY DEF histVars, TypeInv, TypeOK, ExpireWrite, CreateAttempt, GradeWrite, FinalizeWrite, At
<1>1. /\ req'[r].pc \notin {"write", "undo"}
      /\ \A s \in Slots \ {r} : req'[s] = req[s]
  <2>1. CASE FinalizeWrite(r)
    BY <2>1, GotoAt, BecomeAt DEF FinalizeWrite, Idle
  <2>2. CASE ExpireWrite(r) \/ CreateAttempt(r) \/ GradeWrite(r)
    <3>1. ~WriteFails(r)
      BY <1>0 DEF WriteFails, At
    <3> QED
      BY <2>2, <3>1, OtherSteps DEF Owing
  <2> QED
    BY <2>1, <2>2
<1>2. \A b : ~Transits(r, b) /\ ~Transits(r, b)'
  BY <1>0, <1>1 DEF Transits
<1>3. ASSUME NEW a \in Attempts,
             \A b \in Attempts \ {a} : status'[b] = status[b] /\ passed'[b] = passed[b]
      PROVE  \A b \in Attempts \ {a} : Stays(b)
  BY <1>1, <1>2, <1>3, OthersStay
<1>4. CASE ExpireWrite(r)
  <2>0. PICK a : a = req[r].work
    OBVIOUS
  <2>1. a \in Attempts
    BY <1>4, <2>0 DEF TypeInv, WorkKnown, Known, ExpireWrite, At
  <2>2. CASE StillOpen(a)
    <3>1. /\ status' = [status EXCEPT ![a] = "EXPIRED"] /\ passed' = passed
          /\ status[a] = Open
      BY <1>4, <2>0, <2>2 DEF ExpireWrite, StillOpen
    <3>2. StageOf(a) = "open" /\ StageOf(a)' = "expired"
      BY <1>0, <2>1, <3>1, Stages DEF StagesFit
    <3> QED
      BY <1>0, <1>3, <2>1, <3>1, <3>2, OneMoves
  <2>3. CASE ~StillOpen(a)
    BY <1>0, <1>1, <1>4, <2>0, <2>3, QuietForward DEF ExpireWrite
  <2> QED
    BY <2>2, <2>3
<1>5. CASE CreateAttempt(r)
  <2>1. PICK a \in Attempts \ Existing : status' = [status EXCEPT ![a] = Open]
    BY <1>5 DEF CreateAttempt
  <2>2. passed' = passed /\ status[a] = "none"
    BY <1>5, <2>1 DEF CreateAttempt, Existing
  <2>3. StageOf(a) = "none" /\ StageOf(a)' = "open"
    BY <1>0, <2>1, <2>2, Stages DEF StagesFit
  <2> QED
    BY <1>0, <1>3, <2>1, <2>2, <2>3, OneMoves
<1>6. CASE GradeWrite(r)
  <2>0. PICK a : a = req[r].work
    OBVIOUS
  <2>1. a \in Attempts /\ Reviews(r, a)
    BY <1>6, <2>0 DEF TypeInv, WorkKnown, Known, GradeWrite, At, Reviews
  <2>2. passed' = passed /\ status' = [status EXCEPT ![a] = "GRADED"]
    BY <1>6, <2>0 DEF GradeWrite
  <2>3. CASE a \in contested
    <3>1. status[a] # "none" /\ status'[a] = "GRADED"
      BY <1>0, <2>1, <2>2 DEF Orderly
    <3>2. \A b \in Attempts \ {a} : Stays(b)
      BY <1>0, <1>3, <2>1, <2>2
    <3> QED
      BY <1>0, <2>1, <2>3, <3>1, <3>2, ContestForward DEF Status, Gradable
  <2>4. CASE a \notin contested
    <3>1. status[a] \in Gradable
      BY <2>1, <2>4 DEF Orderly, SoleReview
    <3>2. StageOf(a) \in {"open", "submitted", "reviewed"} /\ StageOf(a)' = "reviewed"
      BY <1>0, <2>1, <2>2, <3>1, Stages DEF StagesFit, Gradable
    <3> QED
      BY <1>0, <1>3, <2>1, <2>2, <3>2, OneMoves
  <2> QED
    BY <2>3, <2>4
<1>7. CASE FinalizeWrite(r)
  <2>0. PICK a : a = req[r].work
    OBVIOUS
  <2>1. a \in Attempts /\ Reviews(r, a)
    BY <1>7, <2>0 DEF TypeInv, WorkKnown, Known, FinalizeWrite, At, Reviews
  <2>2. /\ status' = [status EXCEPT ![a] = "FINALIZED"]
        /\ passed' = [passed EXCEPT ![a] = IsPass(req[r].marks)]
    BY <1>7, <2>0 DEF FinalizeWrite
  <2>3. CASE a \in contested
    <3>1. status[a] # "none" /\ status'[a] = "FINALIZED"
      BY <1>0, <2>1, <2>2 DEF Orderly
    <3>2. \A b \in Attempts \ {a} : Stays(b)
      BY <1>0, <1>3, <2>1, <2>2
    <3> QED
      BY <1>0, <2>1, <2>3, <3>1, <3>2, ContestForward DEF Status, Gradable
  <2>4. CASE a \notin contested
    <3>1. status[a] \in Gradable
      BY <2>1, <2>4 DEF Orderly, SoleReview
    <3>2. StageOf(a) \in {"open", "submitted", "reviewed"} /\ StageOf(a)' = "final"
      BY <1>0, <2>1, <2>2, <3>1, Stages DEF StagesFit, Gradable
    <3>3. passed'[a] \in BOOLEAN
      BY <1>0, <2>1, <2>2 DEF IsPass
    <3> QED
      BY <1>0, <1>3, <2>1, <2>2, <3>2, <3>3, OneMoves
  <2> QED
    BY <2>3, <2>4
<1> QED
  BY <1>4, <1>5, <1>6, <1>7

\* The steps that do touch them never give a request a review or a put-back.
LEMMA MidSteps ==
  ASSUME TypeInv, NEW r \in Slots,
         Claim(r) \/ AfterSubmit(r) \/ UpsertRead(r) \/ FinalizeWrite(r)
  PROVE  /\ req'[r].pc \notin {"undo", "grade", "finalize"}
         /\ req'[r].pc = "write" => Claim(r)
         /\ \A s \in Slots \ {r} : req'[s] = req[s]
<1>0. req[r] \in Request /\ Finished(r).pc \in {"idle", "start", "submit"}
  BY FinishedTyped DEF TypeInv, TypeOK
<1>1. CASE Claim(r)
  BY <1>1, GotoAt DEF Claim
<1>2. CASE AfterSubmit(r)
  <2>1. CASE Become(r, Finished(r))
    BY <1>0, <2>1, BecomeAt
  <2>2. CASE ~Become(r, Finished(r))
    <3>0. PICK total : total = marks[req[r].work]
      OBVIOUS
    <3> DEFINE new == [req[r] EXCEPT !.pc = "upsertRead", !.marks = total]
    <3>1. new.pc = "upsertRead"
      BY <1>0 DEF Request
    <3>2. Become(r, new)
      BY <1>2, <2>2, <3>0 DEF AfterSubmit
    <3> HIDE DEF new
    <3> QED
      BY <3>1, <3>2, BecomeAt
  <2> QED
    BY <2>1, <2>2
<1>3. CASE UpsertRead(r)
  <2>1. PICK pick \in {req[r].work, Null} :
          Become(r, [req[r] EXCEPT !.pc = "upsert", !.pick = pick])
    BY <1>3, PickMade
  <2>2. [req[r] EXCEPT !.pc = "upsert", !.pick = pick].pc = "upsert"
    BY <1>0 DEF Request
  <2> QED
    BY <2>1, <2>2, BecomeAt
<1>4. CASE FinalizeWrite(r)
  BY <1>4, GotoAt, BecomeAt DEF FinalizeWrite, Idle
<1> QED
  BY <1>1, <1>2, <1>3, <1>4

\* What a step of one request does to the statuses: no row disappears, and no
\* attempt under another request's review leaves the gradable statuses unless it
\* is contested.
LEMMA ReviewStands ==
  ASSUME TypeInv, Orderly, NEW r \in Slots,
         LearnerRequest(r) \/ AdminRequest(r) \/ Continue(r) \/ Crash(r)
  PROVE  /\ contested \subseteq contested'
         /\ \A a \in Attempts : status[a] # "none" => status'[a] # "none"
         /\ \A s \in Slots \ {r}, a \in Attempts \ contested' :
              Reviews(s, a) => status'[a] \in Gradable
<1>0. /\ status \in [Attempts -> Status]
      /\ \A s \in Slots, a \in Attempts \ contested :
           Reviews(s, a) => status[a] \in Gradable
  BY DEF TypeInv, TypeOK, Orderly, SoleReview
<1>1. CASE GradeWrite(r)
  <2>1. /\ status' = [status EXCEPT ![req[r].work] = "GRADED"]
        /\ UNCHANGED contested
    BY <1>1 DEF GradeWrite, histVars
  <2>2. \A a \in Attempts : status'[a] \in {status[a], "GRADED"}
    BY <1>0, <2>1
  <2> QED
    BY <1>0, <2>1, <2>2 DEF Gradable
<1>2. CASE FinalizeWrite(r)
  <2>1. /\ status' = [status EXCEPT ![req[r].work] = "FINALIZED"]
        /\ UNCHANGED contested /\ Reviews(r, req[r].work)
    BY <1>2 DEF FinalizeWrite, At, Reviews
  <2>2. \A a \in Attempts : status'[a] \in {status[a], "FINALIZED"}
    BY <1>0, <2>1
  <2>3. \A s \in Slots \ {r}, a \in Attempts \ contested :
          Reviews(s, a) => a # req[r].work
    BY <2>1 DEF Orderly, SoleReview
  <2> QED
    BY <1>0, <2>1, <2>2, <2>3
<1>3. CASE Undo(r)
  <2>1. \A a \in Attempts : status'[a] \in {status[a], Open}
    BY <1>0, <1>3 DEF Undo
  <2>2. \A a \in Attempts : a # req[r].work => status'[a] = status[a]
    BY <1>0, <1>3 DEF Undo
  <2>3. /\ contested \subseteq contested'
        /\ UnderReview(req[r].work) => req[r].work \in contested'
    BY <1>3 DEF Undo
  <2>4. \A s \in Slots, a \in Attempts : Reviews(s, a) => UnderReview(a)
    BY DEF Reviews, UnderReview
  <2> QED
    BY <1>0, <2>1, <2>2, <2>3, <2>4 DEF Open
<1>4. CASE Claim(r)
  <2>1. \A a \in Attempts : status[a] # Open => status'[a] = status[a]
    BY <1>0, <1>4 DEF Claim, StillOpen
  <2>2. \A a \in Attempts : status'[a] \in {status[a], "SUBMITTED", "AUTO_GRADED"}
    BY <1>0, <1>4 DEF Claim
  <2>3. UNCHANGED contested
    BY <1>4 DEF Claim
  <2> QED
    BY <1>0, <2>1, <2>2, <2>3 DEF Gradable, Open
<1>5. CASE ExpireWrite(r)
  <2>1. \A a \in Attempts : status[a] # Open => status'[a] = status[a]
    BY <1>0, <1>5 DEF ExpireWrite, StillOpen
  <2>2. \A a \in Attempts : status'[a] \in {status[a], "EXPIRED"}
    BY <1>0, <1>5 DEF ExpireWrite
  <2>3. UNCHANGED contested
    BY <1>5 DEF ExpireWrite, histVars
  <2> QED
    BY <1>0, <2>1, <2>2, <2>3 DEF Gradable, Open
<1>6. CASE CreateAttempt(r)
  <2>1. \A a \in Attempts : status[a] # "none" => status'[a] = status[a]
    BY <1>0, <1>6 DEF CreateAttempt, Existing
  <2>2. \A a \in Attempts : status'[a] \in {status[a], Open}
    BY <1>0, <1>6 DEF CreateAttempt
  <2>3. UNCHANGED contested
    BY <1>6 DEF CreateAttempt, histVars
  <2> QED
    BY <1>0, <2>1, <2>2, <2>3 DEF Gradable, Open
<1>7. CASE ~(\/ GradeWrite(r) \/ FinalizeWrite(r) \/ Undo(r) \/ Claim(r)
             \/ ExpireWrite(r) \/ CreateAttempt(r))
  <2>1. status' = status
    BY <1>7 DEF LearnerRequest, StartRequest, SaveRequest, SubmitRequest,
       ViewRequest, AdminRequest, GradeRequest, FinalizeRequest, Crash, Continue,
       StaleNone, StaleRead, ClaimLost, WriteSheet, WriteFails, AfterSubmit,
       UpsertRead, Upsert, StartRefused, SaveWrite, SubmitRefused, SubmitRead,
       rowVars, histVars
  <2>2. contested \subseteq contested'
    <3>1. CASE AdminRequest(r)
      BY <3>1 DEF AdminRequest, GradeRequest, FinalizeRequest, Contesting
    <3>2. CASE ~AdminRequest(r)
      BY <1>7, <3>2 DEF LearnerRequest, StartRequest, SaveRequest, SubmitRequest,
         ViewRequest, Crash, Continue, StaleNone, StaleRead, ClaimLost, WriteSheet,
         WriteFails, AfterSubmit, UpsertRead, Upsert, StartRefused, SaveWrite,
         SubmitRefused, SubmitRead, histVars
    <3> QED
      BY <3>1, <3>2
  <2> QED
    BY <1>0, <2>1, <2>2
<1> QED
  BY <1>1, <1>2, <1>3, <1>4, <1>5, <1>6, <1>7

\* A request begins a review only of an attempt it found gradable, and of one
\* nobody else reviews unless that contests it.
LEMMA ReviewBegins ==
  ASSUME TypeInv, NEW r \in Slots,
         LearnerRequest(r) \/ AdminRequest(r) \/ Continue(r) \/ Crash(r)
  PROVE  /\ \A s \in Slots \ {r} : req'[s] = req[s]
         /\ \A a \in Attempts : Reviews(r, a)' =>
              /\ status'[a] \in Gradable
              /\ a \notin contested' => ~UnderReview(a)
<1>1. CASE AdminRequest(r)
  <2>0. req \in [Slots -> Request]
    BY DEF TypeInv, TypeOK
  <2>1. CASE GradeRequest(r)
    <3>1. PICK b, scores :
            /\ b \in Attempts /\ MayGrade(b) /\ status' = status
            /\ Become(r, [Idle EXCEPT !.op = "grade", !.pc = "grade",
                                      !.work = b, !.scores = scores])
            /\ contested' = Contesting(b)
      BY <2>1 DEF GradeRequest, rowVars
    <3>2. /\ req'[r].work = b
          /\ \A s \in Slots \ {r} : req'[s] = req[s]
      BY <2>0, <3>1 DEF Become, Idle
    <3> QED
      BY <3>1, <3>2 DEF MayGrade, Reviews, Contesting
  <2>2. CASE FinalizeRequest(r)
    <3>1. PICK b, total :
            /\ b \in Attempts /\ MayGrade(b) /\ status' = status
            /\ Become(r, [Idle EXCEPT !.op = "finalize", !.pc = "finalize",
                                      !.work = b, !.marks = total])
            /\ contested' = Contesting(b)
      BY <2>2 DEF FinalizeRequest, rowVars
    <3>2. /\ req'[r].work = b
          /\ \A s \in Slots \ {r} : req'[s] = req[s]
      BY <2>0, <3>1 DEF Become, Idle
    <3> QED
      BY <3>1, <3>2 DEF MayGrade, Reviews, Contesting
  <2> QED
    BY <1>1, <2>1, <2>2 DEF AdminRequest
<1>2. CASE Claim(r) \/ AfterSubmit(r) \/ UpsertRead(r) \/ FinalizeWrite(r)
  BY <1>2, MidSteps DEF Reviews
<1>3. CASE ~AdminRequest(r) /\ ~(\/ Claim(r) \/ AfterSubmit(r) \/ UpsertRead(r)
                                \/ FinalizeWrite(r))
  <2>1. /\ req'[r].pc \notin {"grade", "finalize"}
        /\ \A s \in Slots \ {r} : req'[s] = req[s]
    BY <1>3, OtherSteps DEF Continue
  <2> QED
    BY <2>1 DEF Reviews
<1> QED
  BY <1>1, <1>2, <1>3

\* Reviews stay orderly.
LEMMA StepOrderly ==
  ASSUME TypeInv, Orderly, [Next]_vars
  PROVE  Orderly'
<1>1. CASE SetMaxAttempts \/ (\E a \in Attempts : Deadline(a)) \/ UNCHANGED vars
  <2>1. UNCHANGED <<status, req, contested>>
    BY <1>1 DEF SetMaxAttempts, Deadline, vars, rowVars, histVars
  <2> QED
    BY <2>1 DEF Orderly, SoleReview, Reviews
<1>2. ASSUME NEW r \in Slots,
             LearnerRequest(r) \/ AdminRequest(r) \/ Continue(r) \/ Crash(r)
      PROVE  Orderly'
  <2>1. /\ \A s \in Slots \ {r} : req'[s] = req[s]
        /\ \A a \in Attempts : Reviews(r, a)' =>
             /\ status'[a] \in Gradable
             /\ a \notin contested' => ~UnderReview(a)
    BY <1>2, ReviewBegins
  <2>2. /\ contested \subseteq contested'
        /\ \A a \in Attempts : status[a] # "none" => status'[a] # "none"
        /\ \A s \in Slots \ {r}, a \in Attempts \ contested' :
             Reviews(s, a) => status'[a] \in Gradable
    BY <1>2, ReviewStands
  <2>3. \A s \in Slots \ {r}, a \in Attempts : Reviews(s, a)' <=> Reviews(s, a)
    BY <2>1 DEF Reviews
  <2>4. \A s \in Slots, a \in Attempts : Reviews(s, a) => UnderReview(a)
    BY DEF Reviews, UnderReview
  <2>5. ASSUME NEW s \in Slots, NEW a \in Attempts, Reviews(s, a)'
        PROVE  status'[a] # "none"
    BY <2>1, <2>2, <2>3, <2>5 DEF Orderly, Gradable
  <2>6. ASSUME NEW a \in Attempts, a \notin contested', NEW s \in Slots, Reviews(s, a)'
        PROVE  status'[a] \in Gradable
    BY <2>1, <2>2, <2>3, <2>6
  <2>7. ASSUME NEW a \in Attempts, a \notin contested', NEW s \in Slots, NEW t \in Slots,
               Reviews(s, a)', Reviews(t, a)'
        PROVE  s = t
    <3>1. CASE s # r /\ t # r
      BY <2>2, <2>3, <2>7, <3>1 DEF Orderly, SoleReview
    <3>2. CASE s = r /\ t # r
      BY <2>1, <2>3, <2>4, <2>7, <3>2
    <3>3. CASE s # r /\ t = r
      BY <2>1, <2>3, <2>4, <2>7, <3>3
    <3> QED
      BY <3>1, <3>2, <3>3
  <2>8. ASSUME NEW a \in Attempts, a \notin contested' PROVE SoleReview(a)'
    BY <2>6, <2>7, <2>8 DEF SoleReview
  <2> QED
    BY <2>5, <2>8 DEF Orderly
<1> QED
  BY <1>1, <1>2 DEF Next, Slots

\* Every step of the requests is a step of AttemptLifecycle, or none.
LEMMA StepForward ==
  ASSUME IInv, Orderly, TypeInv', [Next]_vars
  PROVE  [Lifecycle!Next]_(Lifecycle!vars)
<1>0. TypeInv
  BY DEF IInv
<1>1. CASE SetMaxAttempts \/ (\E a \in Attempts : Deadline(a)) \/ UNCHANGED vars
  <2>1. UNCHANGED <<status, passed, req, contested>>
    BY <1>1 DEF SetMaxAttempts, Deadline, vars, rowVars, histVars
  <2>2. ASSUME NEW a \in Attempts PROVE Stays(a)
    <3>1. (\E r \in Slots : Transits(r, a)') <=> (\E r \in Slots : Transits(r, a))
      BY <2>1 DEF Transits
    <3> QED
      BY <1>0, <2>1, <3>1, RowStays
  <2> QED
    BY <2>1, <2>2, AllStay
<1>2. ASSUME NEW r \in Slots,
             LearnerRequest(r) \/ AdminRequest(r) \/ Continue(r) \/ Crash(r)
      PROVE  [Lifecycle!Next]_(Lifecycle!vars)
  <2>1. CASE Claim(r)
    BY <1>0, <2>1, ClaimForward
  <2>2. CASE Undo(r)
    BY <2>2, UndoForward
  <2>3. CASE \/ ExpireWrite(r) \/ CreateAttempt(r) \/ GradeWrite(r)
             \/ FinalizeWrite(r)
    BY <1>0, <2>3, RowForward
  <2>4. CASE WriteFails(r)
    <3>1. /\ UNCHANGED <<status, passed, contested>> /\ At(r, "write")
          /\ req'[r].pc = "undo" /\ req'[r].work = req[r].work
          /\ \A s \in Slots \ {r} : req'[s] = req[s]
      BY <1>0, <2>4, GotoAt DEF WriteFails
    <3>2. ASSUME NEW a \in Attempts PROVE Stays(a)
      <4>1. Transits(r, a)' <=> Transits(r, a)
        BY <3>1 DEF Transits, At
      <4> QED
        BY <1>0, <3>1, <4>1, TransitStays, RowStays
    <3> QED
      BY <3>1, <3>2, AllStay
  <2>5. CASE AfterSubmit(r) \/ UpsertRead(r)
    <3>1. /\ UNCHANGED <<status, passed, contested>>
          /\ req[r].pc \in {"after", "upsertRead"}
      BY <2>5 DEF AfterSubmit, UpsertRead, rowVars, histVars, At
    <3>2. /\ req'[r].pc \notin {"write", "undo"}
          /\ \A s \in Slots \ {r} : req'[s] = req[s]
      BY <1>0, <2>5, <3>1, MidSteps DEF Claim, At
    <3> QED
      BY <1>0, <3>1, <3>2, QuietForward
  <2>6. CASE AdminRequest(r)
    BY <1>0, <2>6, AdminForward
  <2>7. CASE \/ LearnerRequest(r) \/ Crash(r)
             \/ StaleNone(r) \/ StaleRead(r) \/ ClaimLost(r) \/ WriteSheet(r)
             \/ Upsert(r) \/ StartRefused(r) \/ SaveWrite(r)
             \/ SubmitRefused(r) \/ SubmitRead(r)
    <3>1. UNCHANGED <<status, passed, contested>>
      BY <2>7 DEF LearnerRequest, StartRequest, SaveRequest, SubmitRequest,
         ViewRequest, Crash, StaleNone, StaleRead, ClaimLost, WriteSheet, Upsert,
         StartRefused, SaveWrite, SubmitRefused, SubmitRead, rowVars, histVars
    <3>2. /\ req'[r].pc \notin {"write", "undo"} \/ WriteFails(r)
          /\ \A s \in Slots \ {r} : req'[s] = req[s]
      BY <1>0, <2>7, OtherSteps DEF Owing
    <3> QED
      BY <1>0, <2>4, <3>1, <3>2, QuietForward, LeavesForward
  <2> QED
    BY <1>2, <2>1, <2>2, <2>3, <2>4, <2>5, <2>6, <2>7 DEF Continue
<1> QED
  BY <1>1, <1>2 DEF Next, Slots

LEMMA InitForward == Init => Orderly /\ Lifecycle!Init
<1> SUFFICES ASSUME Init PROVE Orderly /\ Lifecycle!Init
  OBVIOUS
<1>1. Orderly
  BY DEF Init, Orderly, SoleReview, Reviews, Idle
<1>2. \A a \in Attempts : StageOf(a) = "none"
  <2>1. \A a \in Attempts : status[a] = "none"
    BY DEF Init
  <2> QED
    BY <2>1, Stages DEF StagesFit
<1> QED
  BY <1>1, <1>2 DEF Init, Lifecycle!Init

\* The server implements AttemptLifecycle, with any number of learner and
\* administrator requests, crashes and failing transactions: submits that are put
\* back, expiries that race submits and a grading that overtakes the end of a
\* submit never take an attempt backwards, and only an attempt on which two
\* reviews, or a review and a put-back, have met may go anywhere.
THEOREM AttemptsImplementLifecycle == Spec => ForwardOnly
<1>1. IInv /\ Orderly /\ [Next]_vars => Orderly'
  BY StepOrderly DEF IInv
<1>2. IInv /\ IInv' /\ Orderly /\ [Next]_vars => [Lifecycle!Next]_(Lifecycle!vars)
  BY StepForward DEF IInv
<1> QED
  BY <1>1, <1>2, InitForward, Invariance, PTL DEF Spec, ForwardOnly, Lifecycle!Spec
=============================================================================
