------------------------ MODULE CourseCompletion_proofs ------------------------
(***************************************************************************)
(* Proofs about CourseCompletion, for any number of sections, quizzes,     *)
(* versions, trees and concurrent requests: a course is stamped once, and  *)
(* only when it was finished; an issued certificate stands, and an         *)
(* automatic one was earned; without manual certificates one is announced. *)
(* While the rules of the course stand still and no request is cut off,    *)
(* whoever finished is stamped.                                            *)
(*                                                                         *)
(* The argument for the stamp: it is written by a conditional update or by *)
(* a create that meets no row, so only the first one counts, and the       *)
(* request that wrote it is the only one on its way to the congratulation. *)
(* For the certificate likewise. What a check has read was so at the time, *)
(* and what it has counted stays counted: progress rows and passes, once   *)
(* there, are history. The gate that counts is read after the row it is    *)
(* applied to, and a row only ever shows more. Conversely,                 *)
(* whoever is done and not stamped has a request that will measure after   *)
(* the last of the rows was written, or that is about to stamp.            *)
(***************************************************************************)
EXTENDS CourseCompletion, TLAPS

\* A request names what the step it has reached will write.
Ready(r) ==
  /\ At(r, "record") => req[r].item \in Sections
  /\ At(r, "report") => req[r].item \in Quizzes
  /\ At(r, "gate") => req[r].has \subseteq Has
  /\ At(r, "claim") \/ At(r, "manual") =>
       req[r].cert \in CertIds /\ completion.exists

\* The learner has not been pinned to one version all along.
Floated == \A v \in Curricula : pins # {v}

\* What a measure may come to: a manifest less the quizzes that were gone, or two
\* halves of live trees.
Measurable(course) ==
  \/ \E v \in pins \ {Null}, u \in trees :
       /\ course.sections = v.sections
       /\ course.quizzes = v.quizzes \cap u.quizzed
  \/ /\ Floated
     /\ \E t, u \in trees : /\ course.sections = t.sections
                           /\ course.quizzes = u.chapters \cap u.quizzed

\* What a check has read was so, and what it has counted was there.
Counted(r) ==
  /\ req[r].pc \in {"manifest", "filter"} => req[r].course \in pins \ {Null}
  /\ req[r].pc \in {"live", "livesections", "livequizzes"} => Floated
  /\ req[r].pc = "livequizzes" =>
       \E t \in trees : req[r].course.sections = t.sections
  /\ req[r].pc = "livesections" =>
       \E u \in trees : req[r].course.quizzes = u.chapters \cap u.quizzed
  /\ req[r].pc \in {"sections", "quizzes", "recall", "stamp"} =>
       Measurable(req[r].course) /\ req[r].course.sections # {}
  /\ req[r].pc \in {"quizzes", "recall", "stamp"} =>
       req[r].course.sections \subseteq progressed
  /\ req[r].pc \in {"recall", "stamp"} =>
       req[r].course.quizzes \subseteq everPassed

\* The history keeps up with the rules and the rows.
HistoryKept ==
  /\ pin \in pins /\ live \in trees
  /\ Passed \subseteq everPassed
  /\ Earned => everEarned

\* One request per stamp, on its way to one congratulation.
Congratulating ==
  /\ completion.completed => completion.exists
  /\ ~completion.completed => stamps = 0
  /\ stamps <= 1
  /\ stamps = 0 => mails = 0 /\ \A r \in Slots : ~At(r, "mail")
  /\ mails # 0 => mails = 1 /\ \A r \in Slots : ~At(r, "mail")
  /\ \A r, s \in Slots : At(r, "mail") /\ At(s, "mail") => r = s

\* One request per automatic issue, on its way to one announcement.
Announcing ==
  /\ Unissued => certMails = 0 /\ \A r \in Slots : ~At(r, "announce")
  /\ certMails # 0 => certMails = 1 /\ \A r \in Slots : ~At(r, "announce")
  /\ \A r, s \in Slots : At(r, "announce") /\ At(s, "announce") => r = s

\* A completion or a pass is recorded in a row.
Rooted == completion.completed \/ completion.passed => completion.exists

TypeInv == TypeOK /\ Rooted /\ \A r \in Slots : Ready(r)
Honest  == HistoryKept /\ (\A r \in Slots : Counted(r)) /\ CompletionEarned
IInv    == TypeInv /\ Honest /\ Congratulating

Course == [sections : SUBSET Sections, quizzes : SUBSET Quizzes]
Row    == [exists : BOOLEAN, completed : BOOLEAN, passed : BOOLEAN,
           url : {"none", "auto", "manual"}, id : CertIds \cup {Null}]

-----------------------------------------------------------------------------
(* Type correctness *)

\* A free slot holds a well-formed request.
LEMMA IdleTyped == Idle \in Request
  BY DEF Idle, Request, Steps, NoCourse, QuizState

\* Replacing the request of one slot leaves the other slots alone.
LEMMA BecomeAt ==
  ASSUME TypeOK, NEW r \in Slots, NEW record, Become(r, record)
  PROVE  req'[r] = record /\ \A s \in Slots \ {r} : req'[s] = req[s]
  BY DEF TypeOK, Become

\* Moving on to another step keeps the rest of the request.
LEMMA GotoAt ==
  ASSUME TypeOK, NEW r \in Slots, NEW step \in Steps, Goto(r, step)
  PROVE  /\ req' \in [Slots -> Request]
         /\ req'[r].pc = step
         /\ req'[r].item = req[r].item
         /\ req'[r].course = req[r].course
         /\ req'[r].cert = req[r].cert
         /\ \A s \in Slots \ {r} : req'[s] = req[s]
<1>1. req \in [Slots -> Request] /\ req[r] \in Request
  BY DEF TypeOK
<1>2. req' = [req EXCEPT ![r] = [req[r] EXCEPT !.pc = step]]
  BY DEF Goto
<1>3. [req[r] EXCEPT !.pc = step] \in Request
  BY <1>1 DEF Request
<1>4. req'[r] = [req[r] EXCEPT !.pc = step]
  BY <1>1, <1>2
<1>5. req' \in [Slots -> Request] /\ \A s \in Slots \ {r} : req'[s] = req[s]
  BY <1>1, <1>2, <1>3
<1>6. /\ req'[r].pc = step /\ req'[r].item = req[r].item
      /\ req'[r].course = req[r].course /\ req'[r].cert = req[r].cert
  BY <1>1, <1>4 DEF Request
<1> QED
  BY <1>5, <1>6

\* Turning to a step keeps nothing of the request.
LEMMA TurnAt ==
  ASSUME TypeOK, NEW r \in Slots, NEW step \in Steps, Turn(r, step)
  PROVE  /\ req' \in [Slots -> Request]
         /\ req'[r].pc = step
         /\ \A s \in Slots \ {r} : req'[s] = req[s]
<1> DEFINE new == [Idle EXCEPT !.pc = step]
<1>1. new \in Request /\ new.pc = step
  BY IdleTyped DEF Request, Idle
<1>2. req' = [req EXCEPT ![r] = new]
  BY DEF Turn, Become
<1> HIDE DEF new
<1> QED
  BY <1>1, <1>2 DEF TypeOK

\* Ending a request frees its slot.
LEMMA EndAt ==
  ASSUME TypeOK, NEW r \in Slots, Become(r, Idle)
  PROVE  /\ req' \in [Slots -> Request]
         /\ req'[r].pc = "idle"
         /\ \A s \in Slots \ {r} : req'[s] = req[s]
<1>1. req' = [req EXCEPT ![r] = Idle]
  BY DEF Become
<1>2. Idle.pc = "idle"
  BY DEF Idle
<1> QED
  BY <1>1, <1>2, IdleTyped DEF TypeOK

\* The initial state is well typed and what it counts is there.
LEMMA InitOK == Init => IInv /\ Announcing
<1> SUFFICES ASSUME Init PROVE IInv /\ Announcing
  OBVIOUS
<1>1. TypeOK
  BY IdleTyped, CompletionAssumption DEF Init, TypeOK, QuizState
<1>2. \A r \in Slots : req[r].pc = "idle"
  BY DEF Init, Idle
<1>3. completion.url = "none" /\ ~completion.completed /\ ~completion.exists
  BY DEF Init
<1>4. TypeInv
  BY <1>1, <1>2, <1>3 DEF TypeInv, Rooted, Ready, At, Init
<1>5. Passed = {} /\ ~Earned
  <2>1. Passed = {}
    BY DEF Init, Passed
  <2>2. Has = {}
    BY DEF Init, Has, Feats
  <2> QED
    BY <2>1, <2>2 DEF Earned, Meets
<1>6. Honest
  BY <1>2, <1>3, <1>5 DEF Honest, HistoryKept, Counted, CompletionEarned, Init
<1>7. Congratulating /\ Announcing
  BY <1>2, <1>3 DEF Congratulating, Announcing, Unissued, At, Init
<1> QED
  BY <1>4, <1>6, <1>7 DEF IInv

-----------------------------------------------------------------------------
(* Steps that write no row *)

\* A step that writes no row and whose request does not turn to the mail.
LEMMA Quiet ==
  ASSUME IInv, UNCHANGED <<rules, records, history>>, NEW r \in Slots,
         req' \in [Slots -> Request], \A s \in Slots \ {r} : req'[s] = req[s],
         Ready(r)', Counted(r)', req'[r].pc # "mail"
  PROVE  IInv'
<1>1. TypeInv'
  <2>1. TypeOK'
    BY DEF IInv, TypeInv, TypeOK, rules, records, history
  <2>2. \A s \in Slots : Ready(s)'
    BY DEF IInv, TypeInv, Ready, At, Has, records
  <2>3. Rooted'
    BY DEF IInv, TypeInv, Rooted, records
  <2> QED
    BY <2>1, <2>2, <2>3 DEF TypeInv
<1>2. Honest'
  <2>1. HistoryKept'
    BY DEF IInv, Honest, HistoryKept, Passed, Earned, Has, rules, records, history
  <2>2. CompletionEarned'
    BY DEF IInv, Honest, CompletionEarned, Finished, rules, records, history
  <2>3. \A s \in Slots : Counted(s)'
    BY DEF IInv, Honest, Counted, Measurable, Floated, rules, records, history
  <2> QED
    BY <2>1, <2>2, <2>3 DEF Honest
<1>3. Congratulating'
  BY DEF IInv, Congratulating, At, records, history
<1> QED
  BY <1>1, <1>2, <1>3 DEF IInv

\* A request that ends is quiet.
LEMMA QuietEnd ==
  ASSUME IInv, UNCHANGED <<rules, records, history>>, NEW r \in Slots, Become(r, Idle)
  PROVE  IInv'
<1>1. /\ req' \in [Slots -> Request] /\ req'[r].pc = "idle"
      /\ \A s \in Slots \ {r} : req'[s] = req[s]
  BY EndAt DEF IInv, TypeInv
<1> QED
  BY <1>1, Quiet DEF Ready, Counted, At

\* The first round trip of a request.
LEMMA AskKeeps ==
  ASSUME IInv, NEW r \in Slots, Ask(r)
  PROVE  IInv'
<1>0. TypeOK
  BY DEF IInv, TypeInv
<1>1. UNCHANGED <<rules, records, history>>
  BY DEF Ask, SectionRequest, QuizRequest, AssessRequest, StudentRequest,
         ManualRequest
<1>2. SUFFICES \E record \in Request :
        /\ Become(r, record)
        /\ record.pc \in {"record", "report", "upsert", "eligible", "manual"}
        /\ record.pc = "record" => record.item \in Sections
        /\ record.pc = "report" => record.item \in Quizzes
        /\ record.pc = "manual" => record.cert \in CertIds /\ completion.exists
  <2>1. PICK record \in Request :
        /\ Become(r, record)
        /\ record.pc \in {"record", "report", "upsert", "eligible", "manual"}
        /\ record.pc = "record" => record.item \in Sections
        /\ record.pc = "report" => record.item \in Quizzes
        /\ record.pc = "manual" => record.cert \in CertIds /\ completion.exists
    BY <1>2
  <2>2. /\ req' \in [Slots -> Request] /\ req'[r] = record
        /\ \A s \in Slots \ {r} : req'[s] = req[s]
    BY <1>0, <2>1 DEF TypeOK, Become
  <2>3. Ready(r)' /\ Counted(r)'
    BY <1>1, <2>1, <2>2 DEF Ready, Counted, At, records
  <2> QED
    BY <1>1, <2>1, <2>2, <2>3, Quiet
<1>3. CASE SectionRequest(r)
  <2>1. PICK s \in Sections :
          Become(r, [Idle EXCEPT !.pc = "record", !.item = s])
    BY <1>3 DEF SectionRequest
  <2> DEFINE record == [Idle EXCEPT !.pc = "record", !.item = s]
  <2>2. record \in Request /\ record.pc = "record" /\ record.item = s
    BY IdleTyped DEF Idle, Request, Steps
  <2> HIDE DEF record
  <2> QED
    BY <2>1, <2>2 DEF record
<1>4. CASE QuizRequest(r)
  <2>1. PICK q \in Quizzes, grade \in BOOLEAN :
          Become(r, [Idle EXCEPT !.pc = "report", !.item = q,
                                 !.before = quiz[q], !.grade = grade])
    BY <1>4 DEF QuizRequest
  <2> DEFINE record == [Idle EXCEPT !.pc = "report", !.item = q,
                                 !.before = quiz[q], !.grade = grade]
  <2>2. quiz[q] \in QuizState
    BY <1>0 DEF TypeOK
  <2>3. record \in Request /\ record.pc = "report" /\ record.item = q
    BY <2>2, IdleTyped DEF Idle, Request, Steps
  <2> HIDE DEF record
  <2> QED
    BY <2>1, <2>3 DEF record
<1>5. CASE AssessRequest(r) \/ StudentRequest(r)
  <2>1. PICK step \in {"upsert", "eligible"} :
          Become(r, [Idle EXCEPT !.pc = step])
    BY <1>5 DEF AssessRequest, StudentRequest
  <2> DEFINE record == [Idle EXCEPT !.pc = step]
  <2>2. record \in Request /\ record.pc = step
    BY IdleTyped DEF Idle, Request, Steps
  <2> HIDE DEF record
  <2> QED
    BY <2>1, <2>2 DEF record
<1>6. CASE ManualRequest(r)
  <2>1. PICK id \in IssueId(completion.id) : Become(r, [Idle EXCEPT !.pc = "manual",
                                    !.cert = id, !.seen = ~Unissued])
    BY <1>6 DEF ManualRequest
  <2>2. PICK seen \in BOOLEAN : seen = (~Unissued)
    OBVIOUS
  <2> DEFINE record == [Idle EXCEPT !.pc = "manual", !.cert = id, !.seen = seen]
  <2>3. id \in CertIds
    BY <1>0 DEF TypeOK, IssueId, FreshIds
  <2>4. record \in Request /\ record.pc = "manual" /\ record.cert = id
    BY <2>3, IdleTyped DEF Idle, Request, Steps
  <2>5. Become(r, record)
    BY <2>1, <2>2, Zenon
  <2> HIDE DEF record
  <2> QED
    BY <1>6, <2>3, <2>4, <2>5 DEF ManualRequest
<1> QED
  BY <1>3, <1>4, <1>5, <1>6 DEF Ask

\* A request that goes on to some record is quiet if that record is in order.
LEMMA QuietStep ==
  ASSUME IInv, UNCHANGED <<rules, records, history>>, NEW r \in Slots,
         NEW record \in Request, Become(r, record), record.pc # "mail",
         req'[r] = record => Ready(r)' /\ Counted(r)'
  PROVE  IInv'
<1>1. /\ req' \in [Slots -> Request] /\ req'[r] = record
      /\ \A s \in Slots \ {r} : req'[s] = req[s]
  BY DEF Become, IInv, TypeInv, TypeOK
<1> QED
  BY <1>1, Quiet

\* A learner who floats, or whose pin has moved, has not been pinned to one
\* version all along.
LEMMA Floating ==
  ASSUME HistoryKept, NEW p \in pins, p = Null \/ p # pin
  PROVE  Floated
  BY CompletionAssumption DEF HistoryKept, Floated

\* A measure that ends in something measurable.
LEMMA CountKeeps ==
  ASSUME IInv, UNCHANGED <<rules, records, history>>, NEW r \in Slots,
         NEW course \in Course, Measurable(course), Count(r, course)
  PROVE  IInv'
<1>1. CASE Become(r, Idle)
  BY <1>1, QuietEnd
<1>2. CASE ~Become(r, Idle)
  <2>1. req[r] \in Request
    BY DEF IInv, TypeInv, TypeOK
  <2>2. PICK record \in Request :
          /\ Become(r, record) /\ course.sections # {}
          /\ record.pc = "sections" /\ record.course = course
    <3> DEFINE new == [req[r] EXCEPT !.pc = "sections", !.course = course]
    <3>1. Become(r, new) /\ course.sections # {}
      BY <1>2 DEF Count
    <3>2. new \in Request /\ new.pc = "sections" /\ new.course = course
      BY <2>1 DEF Request, Steps, Course
    <3> HIDE DEF new
    <3> QED
      BY <3>1, <3>2
  <2>3. ASSUME req'[r] = record PROVE Ready(r)' /\ Counted(r)'
    <3>1. Measurable(course)'
      BY DEF Measurable, Floated, rules
    <3> QED
      BY <2>2, <2>3, <3>1 DEF Ready, Counted, At, Measurable
  <2> QED
    BY <2>2, <2>3, QuietStep
<1> QED
  BY <1>1, <1>2

\* A round trip of the measure.
Measure(r) ==
  \/ ReadPin(r) \/ LoadManifest(r) \/ FilterQuizzes(r)
  \/ ReadLiveSections(r) \/ ReadLiveQuizzes(r)

LEMMA MeasureKeeps ==
  ASSUME IInv, NEW r \in Slots, Measure(r)
  PROVE  IInv'
<1> DEFINE c == req[r].course
<1>0. /\ TypeOK /\ req[r] \in Request /\ c \in Course /\ Counted(r)
      /\ HistoryKept /\ live \in Tree
  BY CompletionAssumption DEF IInv, TypeInv, TypeOK, Honest, Request, Course
<1>1. UNCHANGED <<rules, records, history>>
  BY DEF Measure, ReadPin, LoadManifest, FilterQuizzes, ReadLiveSections,
         ReadLiveQuizzes
<1>2. CASE ReadPin(r)
  <2>1. CASE pin = Null
    <3>1. Goto(r, "live") /\ Floated
      BY <1>0, <1>2, <2>1, Floating DEF ReadPin, HistoryKept
    <3>2. /\ req' \in [Slots -> Request] /\ req'[r].pc = "live"
          /\ \A s \in Slots \ {r} : req'[s] = req[s]
      BY <1>0, <3>1, GotoAt DEF Steps
    <3>3. Ready(r)' /\ Counted(r)'
      BY <1>1, <3>1, <3>2 DEF Ready, Counted, At, Floated, rules
    <3> QED
      BY <1>1, <3>2, <3>3, Quiet
  <2>2. CASE pin # Null
    <3> DEFINE record == [req[r] EXCEPT !.pc = "manifest", !.course = pin]
    <3>1. Become(r, record) /\ pin \in Course /\ pin \in pins \ {Null}
      BY <1>0, <1>2, <2>2, CompletionAssumption
         DEF ReadPin, TypeOK, Course, HistoryKept
    <3>2. record \in Request /\ record.pc = "manifest" /\ record.course = pin
      BY <1>0, <3>1 DEF Request, Steps, Course
    <3> HIDE DEF record
    <3>3. ASSUME req'[r] = record PROVE Ready(r)' /\ Counted(r)'
      BY <1>1, <3>1, <3>2, <3>3 DEF Ready, Counted, At, rules
    <3> QED
      BY <1>1, <3>1, <3>2, <3>3, QuietStep
  <2> QED
    BY <2>1, <2>2
<1>3. CASE LoadManifest(r)
  <2>1. c \in pins \ {Null} /\ At(r, "manifest")
    BY <1>0, <1>3 DEF Counted, LoadManifest, At
  <2>2. CASE Turn(r, "live") /\ c # pin
    <3>1. Floated
      BY <1>0, <2>1, <2>2, Floating
    <3>2. /\ req' \in [Slots -> Request] /\ req'[r].pc = "live"
          /\ \A s \in Slots \ {r} : req'[s] = req[s]
      BY <1>0, <2>2, TurnAt DEF Steps
    <3>3. Ready(r)' /\ Counted(r)'
      BY <1>1, <3>1, <3>2 DEF Ready, Counted, At, Floated, rules
    <3> QED
      BY <1>1, <3>2, <3>3, Quiet
  <2>3. CASE c.quizzes = {} /\ Count(r, c)
    <3>1. Measurable(c)
      BY <1>0, <2>1, <2>3 DEF Measurable, HistoryKept
    <3> QED
      BY <1>0, <1>1, <2>3, <3>1, CountKeeps
  <2>4. CASE Goto(r, "filter")
    <3>1. /\ req' \in [Slots -> Request] /\ req'[r].pc = "filter"
          /\ req'[r].course = c
          /\ \A s \in Slots \ {r} : req'[s] = req[s]
      BY <1>0, <2>4, GotoAt DEF Steps
    <3>2. Ready(r)' /\ Counted(r)'
      BY <1>1, <2>1, <3>1 DEF Ready, Counted, At, rules
    <3> QED
      BY <1>1, <3>1, <3>2, Quiet
  <2> QED
    BY <1>3, <2>2, <2>3, <2>4 DEF LoadManifest
<1>4. CASE FilterQuizzes(r)
  <2>1. c \in pins \ {Null}
    BY <1>0, <1>4 DEF Counted, FilterQuizzes, At
  <2>2. /\ Filtered(c) \in Course /\ Filtered(c).sections = c.sections
        /\ Filtered(c).quizzes = c.quizzes \cap live.quizzed
    BY <1>0 DEF Filtered, Course
  <2>3. Measurable(Filtered(c))
    BY <1>0, <2>1, <2>2 DEF Measurable, HistoryKept
  <2>4. Count(r, Filtered(c))
    BY <1>4 DEF FilterQuizzes
  <2> QED
    BY <1>1, <2>2, <2>3, <2>4, CountKeeps
<1>5. CASE ReadLiveSections(r)
  <2> DEFINE course == [c EXCEPT !.sections = live.sections]
  <2>1. /\ course \in Course /\ course.sections = live.sections
        /\ course.quizzes = c.quizzes /\ live \in trees
    BY <1>0 DEF Course, Tree, HistoryKept
  <2>2. Floated
    BY <1>0, <1>5 DEF Counted, ReadLiveSections, At
  <2>3. CASE At(r, "livesections") /\ Count(r, course)
    <3>1. \E u \in trees : course.quizzes = u.chapters \cap u.quizzed
      BY <1>0, <2>1, <2>3 DEF Counted, At
    <3>2. Measurable(course)
      BY <2>1, <2>2, <3>1 DEF Measurable
    <3> HIDE DEF course
    <3> QED
      BY <1>1, <2>1, <2>3, <3>2, CountKeeps
  <2>4. CASE Become(r, [req[r] EXCEPT !.pc = "livequizzes", !.course = course])
    <3> DEFINE record == [req[r] EXCEPT !.pc = "livequizzes", !.course = course]
    <3>1. /\ record \in Request /\ record.pc = "livequizzes"
          /\ record.course = course
      BY <1>0, <2>1 DEF Request, Steps, Course
    <3>2. Become(r, record)
      BY <2>4
    <3> HIDE DEF record
    <3>3. ASSUME req'[r] = record PROVE Ready(r)' /\ Counted(r)'
      BY <1>1, <2>1, <2>2, <3>1, <3>3 DEF Ready, Counted, At, Floated, rules
    <3> QED
      BY <1>1, <3>1, <3>2, <3>3, QuietStep
  <2> QED
    BY <1>5, <2>3, <2>4 DEF ReadLiveSections
<1>6. CASE ReadLiveQuizzes(r)
  <2> DEFINE course == [c EXCEPT !.quizzes = LiveCourse.quizzes]
  <2>1. /\ course \in Course /\ course.sections = c.sections
        /\ course.quizzes = live.chapters \cap live.quizzed /\ live \in trees
    BY <1>0 DEF Course, Tree, HistoryKept, LiveCourse
  <2>2. Floated
    BY <1>0, <1>6 DEF Counted, ReadLiveQuizzes, At
  <2>3. CASE At(r, "livequizzes") /\ Count(r, course)
    <3>1. \E t \in trees : course.sections = t.sections
      BY <1>0, <2>1, <2>3 DEF Counted, At
    <3>2. Measurable(course)
      BY <2>1, <2>2, <3>1 DEF Measurable
    <3> HIDE DEF course
    <3> QED
      BY <1>1, <2>1, <2>3, <3>2, CountKeeps
  <2>4. CASE Become(r, [req[r] EXCEPT !.pc = "livesections", !.course = course])
    <3> DEFINE record == [req[r] EXCEPT !.pc = "livesections", !.course = course]
    <3>1. /\ record \in Request /\ record.pc = "livesections"
          /\ record.course = course
      BY <1>0, <2>1 DEF Request, Steps, Course
    <3>2. Become(r, record)
      BY <2>4
    <3> HIDE DEF record
    <3>3. ASSUME req'[r] = record PROVE Ready(r)' /\ Counted(r)'
      BY <1>1, <2>1, <2>2, <3>1, <3>3 DEF Ready, Counted, At, Floated, rules
    <3> QED
      BY <1>1, <3>1, <3>2, <3>3, QuietStep
  <2> QED
    BY <1>6, <2>3, <2>4 DEF ReadLiveQuizzes
<1> QED
  BY <1>2, <1>3, <1>4, <1>5, <1>6 DEF Measure

\* A check that counts what it reads, and the gate of the certificate.
LEMMA CheckKeeps ==
  ASSUME IInv, NEW r \in Slots,
         \/ CountSections(r) \/ CountQuizzes(r) \/ Recall(r) \/ ReadGate(r)
         \/ CheckEligible(r) \/ Generate(r) \/ Draw(r) \/ Crash(r)
  PROVE  IInv'
<1>0. TypeOK /\ req[r] \in Request /\ Counted(r) /\ Ready(r)
  BY DEF IInv, TypeInv, TypeOK, Honest
<1>1. UNCHANGED <<rules, records, history>>
  BY DEF CountSections, CountQuizzes, Recall, ReadGate, CheckEligible, Generate,
         Draw, Crash
<1>2. CASE Become(r, Idle)
  BY <1>1, <1>2, QuietEnd
<1>4. ASSUME CountSections(r), ~Become(r, Idle) PROVE IInv'
  <2>1. Goto(r, "quizzes") /\ req[r].course.sections \subseteq progressed
    BY <1>4 DEF CountSections, SectionsDone
  <2>2. /\ req' \in [Slots -> Request] /\ req'[r].pc = "quizzes"
        /\ req'[r].course = req[r].course
        /\ \A s \in Slots \ {r} : req'[s] = req[s]
    BY <1>0, <2>1, GotoAt DEF Steps
  <2>3. Ready(r)' /\ Counted(r)'
    BY <1>0, <1>1, <1>4, <2>1, <2>2
       DEF Ready, Counted, At, CountSections, Measurable, Floated, rules, records
  <2> QED
    BY <1>1, <2>2, <2>3, Quiet
<1>5. ASSUME CountQuizzes(r), ~Become(r, Idle) PROVE IInv'
  <2>1. Goto(r, "recall") /\ req[r].course.quizzes \subseteq everPassed
    BY <1>5 DEF CountQuizzes, IInv, Honest, HistoryKept
  <2>2. /\ req' \in [Slots -> Request] /\ req'[r].pc = "recall"
        /\ req'[r].course = req[r].course
        /\ \A s \in Slots \ {r} : req'[s] = req[s]
    BY <1>0, <2>1, GotoAt DEF Steps
  <2>3. Ready(r)' /\ Counted(r)'
    BY <1>0, <1>1, <1>5, <2>1, <2>2
       DEF Ready, Counted, At, CountQuizzes, Measurable, Floated, rules, records,
           history
  <2> QED
    BY <1>1, <2>2, <2>3, Quiet
<1>6. ASSUME Recall(r), ~Become(r, Idle) PROVE IInv'
  <2>1. Become(r, [req[r] EXCEPT !.pc = "stamp", !.seen = completion.exists])
    BY <1>6 DEF Recall
  <2>2. PICK seen \in BOOLEAN : seen = completion.exists
    BY <1>0 DEF TypeOK
  <2> DEFINE record == [req[r] EXCEPT !.pc = "stamp", !.seen = seen]
  <2>3. /\ record \in Request /\ record.pc = "stamp"
        /\ record.course = req[r].course
    BY <1>0 DEF Request, Steps
  <2>4. Become(r, record)
    BY <2>1, <2>2
  <2> HIDE DEF record
  <2>5. /\ req' \in [Slots -> Request] /\ req'[r] = record
        /\ \A s \in Slots \ {r} : req'[s] = req[s]
    BY <1>0, <2>3, <2>4 DEF TypeOK, Become
  <2>6. Ready(r)' /\ Counted(r)'
    BY <1>0, <1>1, <1>6, <2>3, <2>5
       DEF Ready, Counted, At, Recall, Measurable, Floated, rules, records,
           history
  <2> QED
    BY <1>1, <2>3, <2>5, <2>6, Quiet
<1>7. CASE ReadGate(r) /\ ~Become(r, Idle)
  <2>1. Become(r, [req[r] EXCEPT !.pc = "entitled", !.seen = required])
    BY <1>7 DEF ReadGate
  <2> DEFINE record == [req[r] EXCEPT !.pc = "entitled", !.seen = required]
  <2>2. record \in Request /\ record.pc = "entitled"
    BY <1>0 DEF Request, Steps, TypeOK
  <2> HIDE DEF record
  <2>3. ASSUME req'[r] = record PROVE Ready(r)' /\ Counted(r)'
    BY <2>2, <2>3 DEF Ready, Counted, At
  <2>4. Become(r, record)
    BY <2>1 DEF record
  <2> QED
    BY <1>1, <2>2, <2>3, <2>4, QuietStep
<1>8. CASE CheckEligible(r) /\ ~Become(r, Idle)
  <2>1. Turn(r, "generate")
    BY <1>8 DEF CheckEligible
  <2>2. /\ req' \in [Slots -> Request] /\ req'[r].pc = "generate"
        /\ \A s \in Slots \ {r} : req'[s] = req[s]
    BY <1>0, <2>1, TurnAt DEF Steps
  <2>3. Ready(r)' /\ Counted(r)'
    BY <2>2 DEF Ready, Counted, At
  <2> QED
    BY <1>1, <2>2, <2>3, Quiet
<1>9. CASE Generate(r)
  <2> DEFINE record == [req[r] EXCEPT !.pc = "gate", !.has = Has,
                                      !.cert = completion.id]
  <2>1. Has \in SUBSET Feats /\ completion.id \in CertIds \cup {Null}
    BY <1>0 DEF Has, TypeOK
  <2>2. record \in Request /\ record.pc = "gate" /\ record.has = Has
    BY <1>0, <2>1 DEF Request, Steps
  <2>3. Become(r, record)
    BY <1>9 DEF Generate
  <2> HIDE DEF record
  <2>4. ASSUME req'[r] = record PROVE Ready(r)' /\ Counted(r)'
    BY <1>1, <2>2, <2>4 DEF Ready, Counted, At, Has, records
  <2> QED
    BY <1>1, <2>2, <2>3, <2>4, QuietStep
<1>10. CASE Draw(r) /\ ~Become(r, Idle)
  <2>1. PICK id \in IssueId(req[r].cert) :
          Become(r, [Idle EXCEPT !.pc = "claim", !.cert = id])
    BY <1>10 DEF Draw
  <2> DEFINE record == [Idle EXCEPT !.pc = "claim", !.cert = id]
  <2>2. id \in CertIds
    BY <1>0 DEF Request, IssueId, FreshIds
  <2>3. record \in Request /\ record.pc = "claim" /\ record.cert = id
    BY <2>2, IdleTyped DEF Idle, Request, Steps
  <2>4. completion.exists
    <3>1. completion.completed \/ completion.passed
      BY <1>0, <1>10 DEF Draw, Meets, Ready, At, Has, Feats
    <3> QED
      BY <3>1 DEF IInv, TypeInv, Rooted
  <2>5. Become(r, record)
    BY <2>1
  <2> HIDE DEF record
  <2>6. ASSUME req'[r] = record PROVE Ready(r)' /\ Counted(r)'
    BY <1>1, <2>2, <2>3, <2>4, <2>6 DEF Ready, Counted, At, records
  <2> QED
    BY <1>1, <2>3, <2>5, <2>6, QuietStep
<1> QED
  BY <1>2, <1>4, <1>5, <1>6, <1>7, <1>8, <1>9, <1>10 DEF Crash

-----------------------------------------------------------------------------
(* Steps that write a row *)

\* Another request stays ready while what the completion row shows stays.
LEMMA OthersReady ==
  ASSUME TypeInv, NEW r \in Slots, \A s \in Slots \ {r} : req'[s] = req[s],
         completion.exists => completion'.exists, Has \subseteq Has', Ready(r)'
  PROVE  \A s \in Slots : Ready(s)'
  BY DEF TypeInv, Ready, At

\* What was counted stays counted while the rows it was counted from stay.
LEMMA HonestGrows ==
  ASSUME IInv, NEW r \in Slots, \A s \in Slots \ {r} : req'[s] = req[s],
         pins \subseteq pins', trees \subseteq trees',
         progressed \subseteq progressed', everPassed \subseteq everPassed',
         HistoryKept', Counted(r)',
         completion'.completed => completion.completed
  PROVE  Honest'
<1>1. Floated => Floated'
  BY DEF Floated, IInv, Honest, HistoryKept
<1>2. CompletionEarned'
  BY <1>1 DEF IInv, Honest, CompletionEarned, Finished, Floated
<1>3. \A s \in Slots : Counted(s)'
  <2>1. SUFFICES ASSUME NEW s \in Slots \ {r} PROVE Counted(s)'
    OBVIOUS
  <2>2. Counted(s) /\ req'[s] = req[s]
    BY DEF IInv, Honest
  <2>3. Measurable(req[s].course) => Measurable(req[s].course)'
    BY <1>1, <2>2 DEF Measurable
  <2> QED
    BY <1>1, <2>2, <2>3 DEF Counted
<1> QED
  BY <1>2, <1>3 DEF Honest

\* An admin moves the pin, edits the tree or switches the assessment.
LEMMA EditKeeps == IInv /\ AdminEdit => IInv'
<1> SUFFICES ASSUME IInv, AdminEdit PROVE IInv'
  OBVIOUS
<1>1. /\ pin' \in Curricula \cup {Null} /\ live' \in Trees
      /\ required' \in BOOLEAN
      /\ pins \subseteq pins' /\ pins' \subseteq Curricula \cup {Null}
      /\ trees \subseteq trees' /\ trees' \subseteq Trees
      /\ pin' \in pins' /\ live' \in trees'
  BY DEF AdminEdit, IInv, TypeInv, TypeOK, Honest, HistoryKept
<1>2. UNCHANGED <<records, req, everPassed, stamps, mails, certMails>>
  BY DEF AdminEdit
<1>3. TypeInv'
  <2>1. everEarned' \in BOOLEAN
    BY DEF AdminEdit
  <2>2. TypeOK'
    BY <1>1, <1>2, <2>1 DEF IInv, TypeInv, TypeOK, records
  <2>3. Rooted' /\ \A s \in Slots : Ready(s)'
    BY <1>2 DEF IInv, TypeInv, Rooted, Ready, At, Has, records
  <2> QED
    BY <2>2, <2>3 DEF TypeInv
<1>4. Honest'
  <2>1. HistoryKept'
    BY <1>1, <1>2 DEF IInv, Honest, HistoryKept, Passed, records, AdminEdit
  <2>2. Floated => Floated'
    BY <1>1 DEF Floated, IInv, Honest, HistoryKept
  <2>3. \A s \in Slots : Counted(s)'
    <3>1. SUFFICES ASSUME NEW s \in Slots PROVE Counted(s)'
      OBVIOUS
    <3>2. Counted(s) /\ req'[s] = req[s]
      BY <1>2 DEF IInv, Honest
    <3>3. Measurable(req[s].course) => Measurable(req[s].course)'
      BY <1>1, <2>2, <3>2 DEF Measurable
    <3> QED
      BY <1>1, <1>2, <2>2, <3>2, <3>3 DEF Counted, records
  <2>4. CompletionEarned'
    BY <1>1, <1>2, <2>2
       DEF IInv, Honest, CompletionEarned, Finished, Floated, records
  <2> QED
    BY <2>1, <2>3, <2>4 DEF Honest
<1>5. Congratulating'
  BY <1>2 DEF IInv, Congratulating, At, records
<1> QED
  BY <1>3, <1>4, <1>5 DEF IInv

\* A section is recorded.
LEMMA SectionKeeps ==
  ASSUME IInv, NEW r \in Slots, RecordSection(r)
  PROVE  IInv'
<1>0. TypeOK /\ req[r].item \in Sections
  BY DEF IInv, TypeInv, Ready, RecordSection
<1>1. /\ progressed' = progressed \cup {req[r].item}
      /\ UNCHANGED <<rules, quiz, completion, history>>
  BY DEF RecordSection
<1>2. /\ req' \in [Slots -> Request] /\ req'[r].pc \in {"idle", "check"}
      /\ \A s \in Slots \ {r} : req'[s] = req[s]
  BY <1>0, TurnAt, EndAt DEF RecordSection, Steps
<1>3. Ready(r)' /\ Counted(r)'
  BY <1>2 DEF Ready, Counted, At
<1>4. TypeInv'
  <2>1. TypeOK'
    BY <1>0, <1>1, <1>2 DEF TypeOK, rules, history
  <2>2. Rooted' /\ Has' = Has
    BY <1>1 DEF IInv, TypeInv, Rooted, Has
  <2> QED
    BY <1>1, <1>2, <1>3, <2>1, <2>2, OthersReady DEF IInv, TypeInv
<1>5. Honest'
  <2>1. HistoryKept'
    BY <1>1 DEF IInv, Honest, HistoryKept, Passed, Earned, Has, rules, history
  <2> QED
    BY <1>1, <1>2, <1>3, <2>1, HonestGrows DEF rules, history
<1>6. Congratulating'
  BY <1>1, <1>2 DEF IInv, Congratulating, At, history
<1> QED
  BY <1>4, <1>5, <1>6 DEF IInv

\* A quiz report is stored, and a pass becomes history.
LEMMA ReportKeeps ==
  ASSUME IInv, NEW r \in Slots, ReportQuiz(r)
  PROVE  IInv'
<1> DEFINE q == req[r].item
<1>0. TypeOK /\ q \in Quizzes
  BY DEF IInv, TypeInv, Ready, ReportQuiz
<1>1. UNCHANGED <<rules, progressed, completion, stamps, mails, certMails,
                  everEarned>>
  BY DEF ReportQuiz
<1>2. /\ req' \in [Slots -> Request] /\ req'[r].pc \in {"idle", "check"}
      /\ \A s \in Slots \ {r} : req'[s] = req[s]
  BY <1>0, TurnAt, EndAt DEF ReportQuiz, Steps
<1>3. Ready(r)' /\ Counted(r)'
  BY <1>2 DEF Ready, Counted, At
<1>4. /\ quiz' \in [Quizzes -> QuizState]
      /\ everPassed \subseteq everPassed' /\ everPassed' \subseteq Quizzes
      /\ Passed' \subseteq everPassed'
  <2>1. CASE UNCHANGED <<quiz, everPassed>>
    BY <1>0, <2>1 DEF TypeOK, IInv, Honest, HistoryKept, Passed
  <2>2. CASE ~UNCHANGED <<quiz, everPassed>>
    <3>1. PICK pass \in BOOLEAN :
            /\ quiz' = [quiz EXCEPT ![q] = IF pass THEN "passed" ELSE "failed"]
            /\ everPassed' = IF pass THEN everPassed \cup {q} ELSE everPassed
      BY <2>2 DEF ReportQuiz
    <3> HIDE DEF q
    <3>2. CASE pass
      BY <1>0, <3>1, <3>2
         DEF TypeOK, IInv, Honest, HistoryKept, Passed, QuizState
    <3>3. CASE ~pass
      BY <1>0, <3>1, <3>3
         DEF TypeOK, IInv, Honest, HistoryKept, Passed, QuizState
    <3> QED
      BY <3>2, <3>3
  <2> QED
    BY <2>1, <2>2
<1>5. TypeInv'
  <2>1. TypeOK'
    BY <1>0, <1>1, <1>2, <1>4 DEF TypeOK, rules
  <2>2. Rooted' /\ Has' = Has
    BY <1>1 DEF IInv, TypeInv, Rooted, Has
  <2> QED
    BY <1>1, <1>2, <1>3, <2>1, <2>2, OthersReady DEF IInv, TypeInv
<1>6. Honest'
  <2>1. HistoryKept'
    BY <1>1, <1>4 DEF IInv, Honest, HistoryKept, Earned, Has, rules
  <2> QED
    BY <1>1, <1>2, <1>3, <1>4, <2>1, HonestGrows DEF rules
<1>7. Congratulating'
  BY <1>1, <1>2 DEF IInv, Congratulating, At
<1> QED
  BY <1>5, <1>6, <1>7 DEF IInv

\* The course is stamped: for the first time, and counted in full.
LEMMA StampKeeps ==
  ASSUME IInv, NEW r \in Slots, Stamp(r)
  PROVE  IInv'
<1> DEFINE c == req[r].course
<1>0. TypeOK /\ completion \in Row
  BY DEF IInv, TypeInv, TypeOK, Row
<1>1. /\ UNCHANGED <<rules, progressed, quiz, everPassed, mails, certMails>>
      /\ At(r, "stamp") /\ everEarned' = (everEarned \/ Earned')
  BY DEF Stamp
<1>2. CASE Become(r, Idle) /\ UNCHANGED <<completion, stamps>>
  <2>1. Earned' = Earned
    BY <1>1, <1>2 DEF Earned, Has, rules
  <2>2. everEarned' = everEarned
    BY <1>0, <1>1, <2>1 DEF IInv, Honest, HistoryKept, TypeOK
  <2> QED
    BY <1>1, <1>2, <2>2, QuietEnd DEF records, history
<1>3. CASE ~(Become(r, Idle) /\ UNCHANGED <<completion, stamps>>)
  <2>1. /\ completion' = [completion EXCEPT !.exists = TRUE, !.completed = TRUE]
        /\ stamps' = stamps + 1
        /\ Turn(r, "mail")
        /\ ~completion.completed
    BY <1>3 DEF Stamp, Unstamped, IInv, Congratulating
  <2>2. /\ req' \in [Slots -> Request] /\ req'[r].pc = "mail"
        /\ \A s \in Slots \ {r} : req'[s] = req[s]
    BY <1>0, <2>1, TurnAt DEF Steps
  <2>3. /\ completion' \in Row
        /\ completion'.exists /\ completion'.completed
        /\ completion'.url = completion.url /\ completion'.id = completion.id
        /\ completion'.passed = completion.passed
    BY <1>0, <2>1 DEF Row
  <2>4. Ready(r)' /\ Counted(r)'
    BY <2>2 DEF Ready, Counted, At
  <2>5. TypeInv'
    <3>1. stamps' \in Nat
      BY <1>0, <2>1 DEF TypeOK
    <3>2. TypeOK'
      BY <1>0, <1>1, <2>2, <2>3, <3>1 DEF TypeOK, Row, rules
    <3>3. Rooted' /\ Has \subseteq Has'
      BY <2>3 DEF Rooted, Has, Feats
    <3> QED
      BY <2>2, <2>3, <2>4, <3>2, <3>3, OthersReady DEF IInv, TypeInv
  <2>6. Honest'
    <3>1. HistoryKept'
      BY <1>1 DEF IInv, Honest, HistoryKept, Passed, rules
    <3>2. \A s \in Slots : Counted(s)'
      BY <1>1, <2>2, <2>4 DEF IInv, Honest, Counted, Measurable, Floated, rules
    <3>3. /\ Measurable(c) /\ c.sections # {}
          /\ c.sections \subseteq progressed /\ c.quizzes \subseteq everPassed
      BY <1>1 DEF IInv, Honest, Counted, At
    <3>4. CompletionEarned'
      <4> HIDE DEF c
      <4> QED
        BY <1>1, <3>3 DEF CompletionEarned, Finished, Measurable, Floated, rules
    <3> QED
      BY <3>1, <3>2, <3>4 DEF Honest
  <2>7. Congratulating'
    <3>1. stamps' = 1 /\ mails' = 0 /\ \A s \in Slots : ~At(s, "mail")
      BY <1>1, <2>1 DEF IInv, Congratulating
    <3> QED
      BY <2>2, <2>3, <3>1 DEF Congratulating, At
  <2> QED
    BY <2>5, <2>6, <2>7 DEF IInv
<1> QED
  BY <1>2, <1>3

\* The request that stamped sends the congratulation.
LEMMA MailKeeps ==
  ASSUME IInv, NEW r \in Slots, SendMail(r)
  PROVE  IInv'
<1>0. TypeOK
  BY DEF IInv, TypeInv
<1>1. /\ UNCHANGED <<rules, records, everPassed, stamps, certMails, everEarned>>
      /\ At(r, "mail") /\ mails' = mails + 1 /\ Turn(r, "eligible")
  BY DEF SendMail
<1>2. /\ req' \in [Slots -> Request] /\ req'[r].pc = "eligible"
      /\ \A s \in Slots \ {r} : req'[s] = req[s]
  BY <1>0, <1>1, TurnAt DEF Steps
<1>3. Ready(r)' /\ Counted(r)'
  BY <1>2 DEF Ready, Counted, At
<1>4. TypeInv'
  <2>1. TypeOK'
    BY <1>0, <1>1, <1>2 DEF TypeOK, rules, records
  <2>2. Rooted' /\ Has' = Has
    BY <1>1 DEF IInv, TypeInv, Rooted, Has, records
  <2> QED
    BY <1>1, <1>2, <1>3, <2>1, <2>2, OthersReady DEF IInv, TypeInv, records
<1>5. Honest'
  <2>1. HistoryKept'
    BY <1>1 DEF IInv, Honest, HistoryKept, Passed, Earned, Has, rules, records
  <2> QED
    BY <1>1, <1>2, <1>3, <2>1, HonestGrows DEF rules, records
<1>6. Congratulating'
  <2>1. mails = 0 /\ stamps = 1 /\ \A s \in Slots \ {r} : ~At(s, "mail")
    BY <1>0, <1>1 DEF IInv, Congratulating, TypeOK
  <2>2. mails' = 1 /\ \A s \in Slots : ~At(s, "mail")'
    BY <1>1, <1>2, <2>1 DEF At
  <2> QED
    BY <1>1, <2>1, <2>2 DEF IInv, Congratulating, records
<1> QED
  BY <1>4, <1>5, <1>6 DEF IInv

\* Writing the pass or the certificate leaves the stamp alone.
LEMMA RowKeeps ==
  ASSUME IInv, NEW r \in Slots, UpsertPass(r) \/ Claim(r) \/ ManualWrite(r)
  PROVE  IInv'
<1>0. TypeOK /\ completion \in Row
  BY DEF IInv, TypeInv, TypeOK, Row
<1>1. /\ UNCHANGED <<rules, progressed, quiz, everPassed, stamps, mails, certMails>>
      /\ everEarned' = everEarned \/ everEarned' = (everEarned \/ Earned')
      /\ Claim(r) \/ ManualWrite(r) => everEarned' = everEarned
  BY DEF UpsertPass, Claim, ManualWrite, history
<1>2. /\ req' \in [Slots -> Request]
      /\ req'[r].pc \in {"idle", "eligible", "announce"}
      /\ \A s \in Slots \ {r} : req'[s] = req[s]
  BY <1>0, TurnAt, EndAt DEF UpsertPass, Claim, ManualWrite, Steps
<1>3. Ready(r)' /\ Counted(r)'
  BY <1>2 DEF Ready, Counted, At
<1>4. /\ completion' \in Row
      /\ completion'.completed = completion.completed
      /\ completion.exists => completion'.exists
      /\ completion.passed => completion'.passed
      /\ completion'.passed => completion.passed \/ completion'.exists
      /\ completion'.url # "none" =>
           completion'.exists /\ completion'.id \in CertIds
  <2>1. CASE UpsertPass(r)
    BY <1>0, <2>1 DEF UpsertPass, TypeOK, Row
  <2>2. CASE Claim(r)
    <3>1. req[r].cert \in CertIds /\ completion.exists
      BY <2>2 DEF Claim, IInv, TypeInv, Ready
    <3> QED
      BY <1>0, <2>2, <3>1 DEF Claim, TypeOK, Row
  <2>3. CASE ManualWrite(r)
    <3>1. req[r].cert \in CertIds /\ completion.exists
      BY <2>3 DEF ManualWrite, IInv, TypeInv, Ready
    <3> QED
      BY <1>0, <2>3, <3>1 DEF ManualWrite, TypeOK, Row
  <2> QED
    BY <2>1, <2>2, <2>3
<1>5. TypeInv'
  <2>1. TypeOK'
    <3>1. everEarned' \in BOOLEAN
      BY <1>0, <1>1 DEF TypeOK
    <3> QED
      BY <1>0, <1>1, <1>2, <1>4, <3>1 DEF TypeOK, Row, rules
  <2>2. Rooted' /\ Has \subseteq Has'
    BY <1>4 DEF IInv, TypeInv, Rooted, Has, Feats
  <2> QED
    BY <1>2, <1>3, <1>4, <2>1, <2>2, OthersReady DEF IInv, TypeInv
<1>6. Honest'
  <2>1. Earned' => everEarned'
    <3>1. CASE UpsertPass(r)
      BY <3>1 DEF UpsertPass
    <3>2. CASE Claim(r) \/ ManualWrite(r)
      <4>1. Has' = Has
        BY <1>0, <3>2 DEF Claim, ManualWrite, Row, Has, Feats
      <4> QED
        BY <1>1, <3>2, <4>1 DEF IInv, Honest, HistoryKept, Earned, Meets, rules
    <3> QED
      BY <3>1, <3>2
  <2>2. HistoryKept'
    BY <1>1, <2>1 DEF IInv, Honest, HistoryKept, Passed, rules
  <2> QED
    BY <1>1, <1>2, <1>3, <1>4, <2>2, HonestGrows DEF rules
<1>7. Congratulating'
  BY <1>1, <1>2, <1>4 DEF IInv, Congratulating, At
<1> QED
  BY <1>5, <1>6, <1>7 DEF IInv

\* The certificate is announced.
LEMMA AnnounceKeeps ==
  ASSUME IInv, NEW r \in Slots, Announce(r)
  PROVE  IInv'
<1>0. TypeOK
  BY DEF IInv, TypeInv
<1>1. /\ UNCHANGED <<rules, records, everPassed, stamps, mails, everEarned>>
      /\ certMails' = certMails + 1 /\ Become(r, Idle)
  BY DEF Announce
<1>2. /\ req' \in [Slots -> Request] /\ req'[r].pc = "idle"
      /\ \A s \in Slots \ {r} : req'[s] = req[s]
  BY <1>0, <1>1, EndAt
<1>3. Ready(r)' /\ Counted(r)'
  BY <1>2 DEF Ready, Counted, At
<1>4. TypeInv'
  <2>1. TypeOK'
    BY <1>0, <1>1, <1>2 DEF TypeOK, rules, records
  <2>2. Rooted' /\ Has' = Has
    BY <1>1 DEF IInv, TypeInv, Rooted, Has, records
  <2> QED
    BY <1>1, <1>2, <1>3, <2>1, <2>2, OthersReady DEF IInv, TypeInv, records
<1>5. Honest'
  <2>1. HistoryKept'
    BY <1>1 DEF IInv, Honest, HistoryKept, Passed, Earned, Has, rules, records
  <2> QED
    BY <1>1, <1>2, <1>3, <2>1, HonestGrows DEF rules, records
<1>6. Congratulating'
  BY <1>1, <1>2 DEF IInv, Congratulating, At, records
<1> QED
  BY <1>4, <1>5, <1>6 DEF IInv

\* Every step keeps the invariant.
LEMMA StepKeeps == IInv /\ [Next]_vars => IInv'
<1> SUFFICES ASSUME IInv, [Next]_vars PROVE IInv'
  OBVIOUS
<1>1. CASE UNCHANGED vars
  <2>1. TypeInv'
    BY <1>1 DEF IInv, TypeInv, TypeOK, Rooted, Ready, At, Has, vars, rules,
                records, history
  <2>2. Honest'
    BY <1>1 DEF IInv, Honest, HistoryKept, Passed, Earned, Has, Counted,
                Measurable, Floated, CompletionEarned, Finished, vars, rules,
                records, history
  <2>3. Congratulating'
    BY <1>1 DEF IInv, Congratulating, At, vars, records, history
  <2> QED
    BY <2>1, <2>2, <2>3 DEF IInv
<1>2. CASE AdminEdit
  BY <1>2, EditKeeps
<1>3. ASSUME NEW r \in Slots, Ask(r) \/ Continue(r) \/ Crash(r)
      PROVE  IInv'
  BY <1>3, AskKeeps, MeasureKeeps, CheckKeeps, SectionKeeps, ReportKeeps,
     StampKeeps, MailKeeps, RowKeeps, AnnounceKeeps DEF Continue, Measure
<1> QED
  BY <1>1, <1>2, <1>3 DEF Next

\* The inductive invariant holds in every reachable state.
THEOREM Invariance == Spec => []IInv
<1>1. Init => IInv
  BY InitOK
<1> QED
  BY <1>1, StepKeeps, PTL DEF Spec

\* Every row, request and history variable keeps its type, and an issued
\* certificate has an id, for any number of sections, quizzes and requests.
THEOREM TypeCorrect == Spec => []TypeOK
<1>1. IInv => TypeOK
  BY DEF IInv, TypeInv
<1> QED
  BY <1>1, Invariance, PTL

\* However many requests complete the course at once, it is stamped at most
\* once and congratulated on at most once.
THEOREM StampedOnce == Spec => []CompletedOnce
<1>1. IInv => CompletedOnce
  BY DEF IInv, TypeInv, TypeOK, Congratulating, CompletedOnce
<1> QED
  BY <1>1, Invariance, PTL

\* A stamped course was finished, however the pin and the live tree moved between
\* the reads of the check: in a version the learner was pinned to, less the quizzes
\* that were gone, or, for who was not pinned to one version all along, in the
\* sections of a live tree and the quizzes of a live tree.
THEOREM StampEarned == Spec => []CompletionEarned
<1>1. IInv => CompletionEarned
  BY DEF IInv, Honest
<1> QED
  BY <1>1, Invariance, PTL

-----------------------------------------------------------------------------
(* The certificate *)

\* The completion row is written by four steps.
LEMMA Writers ==
  ASSUME NEW r \in Slots, Ask(r) \/ Continue(r) \/ Crash(r),
         ~(Stamp(r) \/ UpsertPass(r) \/ Claim(r) \/ ManualWrite(r))
  PROVE  UNCHANGED <<rules, completion, everEarned>>
<1>1. CASE Ask(r) \/ Crash(r)
  BY <1>1 DEF Ask, Crash, SectionRequest, QuizRequest, AssessRequest,
     StudentRequest, ManualRequest, records, history
<1>2. CASE RecordSection(r) \/ ReportQuiz(r) \/ SendMail(r) \/ Announce(r)
  BY <1>2 DEF RecordSection, ReportQuiz, SendMail, Announce, records, history
<1>3. CASE Measure(r)
  BY <1>3 DEF Measure, ReadPin, LoadManifest, FilterQuizzes, ReadLiveSections,
     ReadLiveQuizzes, records, history
<1>4. CASE \/ CountSections(r) \/ CountQuizzes(r) \/ Recall(r) \/ ReadGate(r)
           \/ CheckEligible(r) \/ Generate(r) \/ Draw(r)
  BY <1>4 DEF CountSections, CountQuizzes, Recall, ReadGate, CheckEligible,
     Generate, Draw, records, history
<1> QED
  BY <1>1, <1>2, <1>3, <1>4 DEF Continue, Measure

\* Only an admin replaces a certificate that was issued: an automatic issue
\* that lost the race, or was cut off and repeated, writes nothing.
THEOREM IssuedKept == Spec => IssuedStands
<1> DEFINE Changed == \/ completion'.url # completion.url
                      \/ completion'.id # completion.id
           Stands  == completion.url # "none" /\ Changed
                        => completion'.url = "manual"
<1>1. TypeOK /\ [Next]_vars => [Stands]_vars
  <2>1. SUFFICES ASSUME TypeOK, [Next]_vars, completion.url # "none", Changed
                 PROVE  completion'.url = "manual"
    OBVIOUS
  <2>2. completion \in Row
    BY <2>1 DEF TypeOK, Row
  <2>3. PICK r \in Slots : Ask(r) \/ Continue(r) \/ Crash(r)
    BY <2>1 DEF Next, AdminEdit, vars, records
  <2>4. Stamp(r) \/ UpsertPass(r) \/ Claim(r) \/ ManualWrite(r)
    BY <2>1, <2>3, Writers
  <2>5. CASE Stamp(r) \/ UpsertPass(r)
    BY <2>1, <2>2, <2>5 DEF Stamp, UpsertPass, Row
  <2>6. CASE Claim(r)
    BY <2>1, <2>6 DEF Claim, Unissued
  <2>7. CASE ManualWrite(r)
    BY <2>2, <2>7 DEF ManualWrite, Row
  <2> QED
    BY <2>4, <2>5, <2>6, <2>7
<1>2. Spec => [][Stands]_vars
  BY <1>1, TypeCorrect, PTL DEF Spec
<1> QED
  BY <1>2 DEF IssuedStands

-----------------------------------------------------------------------------
(* Where requests go *)

\* The steps of the completion check, in order.
Checking == {"check", "manifest", "filter", "live", "livesections", "livequizzes",
             "sections", "quizzes", "recall", "stamp"}

\* Where a round trip of the measure leads.
LEMMA MeasureLands ==
  ASSUME TypeOK, NEW r \in Slots, Measure(r)
  PROVE  /\ \A s \in Slots \ {r} : req'[s] = req[s]
         /\ req'[r].pc \in {"idle", "manifest", "filter", "live", "livesections",
                            "livequizzes", "sections"}
<1>0. req \in [Slots -> Request] /\ req[r] \in Request
  BY DEF TypeOK
<1>1. CASE Become(r, Idle)
  BY <1>1, EndAt
<1>2. CASE Goto(r, "live") \/ Goto(r, "filter")
  BY <1>2, GotoAt DEF Steps
<1>3. CASE Turn(r, "live")
  BY <1>3, TurnAt DEF Steps
<1>4. ASSUME NEW step \in {"manifest", "livesections", "livequizzes", "sections"},
             NEW course,
             Become(r, [req[r] EXCEPT !.pc = step, !.course = course])
      PROVE  req'[r].pc = step /\ \A s \in Slots \ {r} : req'[s] = req[s]
  <2> DEFINE new == [req[r] EXCEPT !.pc = step, !.course = course]
  <2>1. new.pc = step
    BY <1>0 DEF Request
  <2>2. Become(r, new)
    BY <1>4
  <2> HIDE DEF new
  <2> QED
    BY <2>1, <2>2, BecomeAt
<1>5. \A course : Count(r, course) =>
        \/ Become(r, Idle)
        \/ Become(r, [req[r] EXCEPT !.pc = "sections", !.course = course])
  BY DEF Count
<1>6. CASE ReadPin(r)
  BY <1>2, <1>4, <1>6 DEF ReadPin
<1>7. CASE LoadManifest(r)
  BY <1>1, <1>2, <1>3, <1>4, <1>5, <1>7 DEF LoadManifest
<1>8. CASE FilterQuizzes(r)
  BY <1>1, <1>4, <1>5, <1>8 DEF FilterQuizzes
<1>9. CASE ReadLiveSections(r)
  BY <1>1, <1>4, <1>5, <1>9 DEF ReadLiveSections
<1>10. CASE ReadLiveQuizzes(r)
  BY <1>1, <1>4, <1>5, <1>10 DEF ReadLiveQuizzes
<1> QED
  BY <1>6, <1>7, <1>8, <1>9, <1>10 DEF Measure

\* Where the first round trip of a request leads.
LEMMA AskLands ==
  ASSUME TypeOK, NEW r \in Slots, Ask(r)
  PROVE  /\ \A s \in Slots \ {r} : req'[s] = req[s]
         /\ \/ req'[r].pc \in {"record", "report", "upsert", "eligible"}
            \/ req'[r].pc = "manual" /\ ManualRequest(r)
<1>0. req \in [Slots -> Request]
  BY DEF TypeOK
<1>1. PICK record : Become(r, record)
  BY DEF Ask, SectionRequest, QuizRequest, AssessRequest, StudentRequest,
         ManualRequest
<1>2. CASE SectionRequest(r) \/ AssessRequest(r) \/ StudentRequest(r)
  BY <1>0, <1>2 DEF SectionRequest, AssessRequest, StudentRequest, Become, Idle
<1>3. CASE QuizRequest(r)
  BY <1>0, <1>3 DEF QuizRequest, Become, Idle
<1>4. CASE ManualRequest(r)
  <2>1. PICK id, seen :
          Become(r, [Idle EXCEPT !.pc = "manual", !.cert = id, !.seen = seen])
    BY <1>4 DEF ManualRequest
  <2> QED
    BY <1>0, <1>4, <2>1 DEF Become, Idle
<1> QED
  BY <1>1, <1>2, <1>3, <1>4, BecomeAt DEF Ask

\* Where a round trip of the check proper leads, with the course it counts.
LEMMA CheckLands ==
  ASSUME TypeOK, NEW r \in Slots,
         CountSections(r) \/ CountQuizzes(r) \/ Recall(r)
  PROVE  /\ \A s \in Slots \ {r} : req'[s] = req[s]
         /\ \/ req'[r].pc = "idle"
            \/ /\ req'[r].pc \in {"quizzes", "recall", "stamp"}
               /\ req'[r].course = req[r].course
<1>1. CASE Become(r, Idle)
  BY <1>1, EndAt
<1>2. CASE Goto(r, "quizzes") \/ Goto(r, "recall")
  BY <1>2, GotoAt DEF Steps
<1>3. CASE Recall(r) /\ ~Become(r, Idle)
  <2>1. PICK seen : Become(r, [req[r] EXCEPT !.pc = "stamp", !.seen = seen])
    BY <1>3 DEF Recall
  <2> DEFINE new == [req[r] EXCEPT !.pc = "stamp", !.seen = seen]
  <2>2. new.pc = "stamp" /\ new.course = req[r].course
    BY DEF TypeOK, Request
  <2>3. Become(r, new)
    BY <2>1
  <2> HIDE DEF new
  <2> QED
    BY <2>2, <2>3, BecomeAt
<1> QED
  BY <1>1, <1>2, <1>3 DEF CountSections, CountQuizzes

\* Where the steps of the certificate before the claim lead.
LEMMA IssueLands ==
  ASSUME TypeOK, NEW r \in Slots,
         ReadGate(r) \/ CheckEligible(r) \/ Generate(r) \/ Draw(r)
  PROVE  /\ \A s \in Slots \ {r} : req'[s] = req[s]
         /\ \/ req'[r].pc \in {"idle", "entitled", "generate", "gate"}
            \/ req'[r].pc = "claim" /\ Draw(r) /\ Meets(required, req[r].has)
<1>0. req[r] \in Request
  BY DEF TypeOK
<1>1. CASE Become(r, Idle)
  BY <1>1, EndAt
<1>2. CASE ReadGate(r) /\ ~Become(r, Idle)
  <2> DEFINE new == [req[r] EXCEPT !.pc = "entitled", !.seen = required]
  <2>1. new.pc = "entitled" /\ Become(r, new)
    BY <1>0, <1>2 DEF ReadGate, Request
  <2> HIDE DEF new
  <2> QED
    BY <2>1, BecomeAt
<1>3. CASE CheckEligible(r) /\ ~Become(r, Idle)
  BY <1>3, TurnAt DEF CheckEligible, Steps
<1>4. CASE Generate(r)
  <2> DEFINE new == [req[r] EXCEPT !.pc = "gate", !.has = Has,
                                   !.cert = completion.id]
  <2>1. new.pc = "gate" /\ Become(r, new)
    BY <1>0, <1>4 DEF Generate, Request
  <2> HIDE DEF new
  <2> QED
    BY <2>1, BecomeAt
<1>5. CASE Draw(r) /\ ~Become(r, Idle)
  <2>1. PICK id : Become(r, [Idle EXCEPT !.pc = "claim", !.cert = id])
    BY <1>5 DEF Draw
  <2> DEFINE new == [Idle EXCEPT !.pc = "claim", !.cert = id]
  <2>2. new.pc = "claim" /\ Become(r, new)
    BY <2>1 DEF Idle
  <2>3. Meets(required, req[r].has)
    BY <1>5 DEF Draw
  <2> HIDE DEF new
  <2> QED
    BY <1>5, <2>2, <2>3, BecomeAt
<1> QED
  BY <1>1, <1>2, <1>3, <1>4, <1>5

\* Where the steps that write lead.
LEMMA WriteLands ==
  ASSUME TypeOK, NEW r \in Slots,
         \/ RecordSection(r) \/ ReportQuiz(r) \/ Stamp(r) \/ SendMail(r)
         \/ UpsertPass(r) \/ Claim(r) \/ Announce(r) \/ ManualWrite(r)
  PROVE  /\ \A s \in Slots \ {r} : req'[s] = req[s]
         /\ \/ req'[r].pc \in {"idle", "check", "mail", "eligible"}
            \/ /\ req'[r].pc = "announce"
               /\ (Claim(r) /\ Unissued) \/ ManualWrite(r)
<1>1. CASE Become(r, Idle)
  BY <1>1, EndAt
<1>2. CASE \E step \in {"check", "mail", "eligible"} : Turn(r, step)
  BY <1>2, TurnAt DEF Steps
<1>3. CASE Turn(r, "announce") /\ ((Claim(r) /\ Unissued) \/ ManualWrite(r))
  BY <1>3, TurnAt DEF Steps
<1>4. CASE RecordSection(r) \/ ReportQuiz(r) \/ Announce(r)
  BY <1>1, <1>2, <1>4 DEF RecordSection, ReportQuiz, Announce
<1>5. CASE Stamp(r) \/ SendMail(r) \/ UpsertPass(r)
  BY <1>1, <1>2, <1>5 DEF Stamp, SendMail, UpsertPass
<1>6. CASE Claim(r)
  BY <1>1, <1>3, <1>6 DEF Claim
<1>7. CASE ManualWrite(r)
  BY <1>1, <1>3, <1>7 DEF ManualWrite
<1> QED
  BY <1>4, <1>5, <1>6, <1>7

\* How a request comes to the announcement, the claim, a manual certificate and
\* the check.
LEMMA Landing ==
  ASSUME TypeOK, NEW r \in Slots, Ask(r) \/ Continue(r) \/ Crash(r)
  PROVE  /\ \A s \in Slots \ {r} : req'[s] = req[s]
         /\ At(r, "announce")' => (Claim(r) /\ Unissued) \/ ManualWrite(r)
         /\ At(r, "manual")' => ManualRequest(r)
         /\ At(r, "claim")' => Draw(r) /\ Meets(required, req[r].has)
         /\ req'[r].pc \in Checking \ {"check"} =>
              Measure(r) \/ CountSections(r) \/ CountQuizzes(r) \/ Recall(r)
<1>1. CASE Ask(r)
  BY <1>1, AskLands DEF At, Checking
<1>2. CASE Crash(r)
  BY <1>2, EndAt DEF Crash, At, Checking
<1>3. CASE Measure(r)
  BY <1>3, MeasureLands DEF At
<1>4. CASE CountSections(r) \/ CountQuizzes(r) \/ Recall(r)
  BY <1>4, CheckLands DEF At
<1>5. CASE ReadGate(r) \/ CheckEligible(r) \/ Generate(r) \/ Draw(r)
  BY <1>5, IssueLands DEF At, Checking
<1>6. CASE \/ RecordSection(r) \/ ReportQuiz(r) \/ Stamp(r) \/ SendMail(r)
           \/ UpsertPass(r) \/ Claim(r) \/ Announce(r) \/ ManualWrite(r)
  BY <1>6, WriteLands DEF At, Checking
<1> QED
  BY <1>1, <1>2, <1>3, <1>4, <1>5, <1>6 DEF Continue, Measure

-----------------------------------------------------------------------------
(* Announcing and earning the certificate *)

\* Without manual certificates nobody is about to record one.
NoManual == \A r \in Slots : ~At(r, "manual")

\* Every step leaves one request per automatic issue.
LEMMA AnnouncingKept ==
  ASSUME "manual" \notin Kinds, IInv, TypeOK', NoManual, Announcing, [Next]_vars
  PROVE  NoManual' /\ Announcing'
<1>0. TypeOK /\ completion \in Row
  BY DEF IInv, TypeInv, TypeOK, Row
<1>1. CASE UNCHANGED vars
  BY <1>1 DEF NoManual, Announcing, Unissued, At, vars, records, history
<1>2. CASE AdminEdit
  BY <1>2 DEF NoManual, Announcing, Unissued, At, AdminEdit, records
<1>3. ASSUME NEW r \in Slots, Ask(r) \/ Continue(r) \/ Crash(r)
      PROVE  NoManual' /\ Announcing'
  <2>0. ~ManualRequest(r) /\ ~ManualWrite(r)
    BY DEF ManualRequest, ManualWrite, Asks, NoManual
  <2>1. CASE Claim(r) /\ Unissued
    <3>1. /\ req'[r].pc = "announce" /\ \A s \in Slots \ {r} : req'[s] = req[s]
      BY <1>0, <2>1, TurnAt DEF Claim, Steps
    <3>2. completion'.url = "auto" /\ certMails' = certMails
      BY <1>0, <2>1 DEF Claim, Row, history
    <3> QED
      BY <2>1, <3>1, <3>2 DEF NoManual, Announcing, Unissued, At
  <2>2. CASE Announce(r)
    <3>1. /\ req'[r].pc = "idle" /\ \A s \in Slots \ {r} : req'[s] = req[s]
      BY <1>0, <2>2, EndAt DEF Announce
    <3>2. /\ UNCHANGED completion /\ certMails' = certMails + 1
          /\ At(r, "announce")
      BY <2>2 DEF Announce, records
    <3>3. certMails = 0 /\ ~Unissued
      BY <1>0, <3>2 DEF Announcing, TypeOK
    <3> QED
      BY <3>1, <3>2, <3>3 DEF NoManual, Announcing, Unissued, At
  <2>3. CASE ~(Claim(r) /\ Unissued) /\ ~Announce(r)
    <3>1. /\ ~At(r, "announce")' /\ ~At(r, "manual")'
          /\ \A s \in Slots \ {r} : req'[s] = req[s]
      BY <1>0, <1>3, <2>0, <2>3, Landing
    <3>2. completion'.url = completion.url
      <4>1. CASE Stamp(r) \/ UpsertPass(r)
        BY <1>0, <4>1 DEF Stamp, UpsertPass, Row
      <4>2. CASE Claim(r)
        BY <2>3, <4>2 DEF Claim
      <4> QED
        BY <1>3, <2>0, <4>1, <4>2, Writers
    <3>3. certMails' = certMails
      BY <1>3, <2>0, <2>3 DEF Ask, Continue, Crash, SectionRequest, QuizRequest,
         AssessRequest, StudentRequest, RecordSection, ReportQuiz, ReadPin,
         LoadManifest, FilterQuizzes, ReadLiveSections, ReadLiveQuizzes,
         CountSections, CountQuizzes, Recall, Stamp, SendMail, UpsertPass,
         ReadGate, CheckEligible, Generate, Draw, Claim, history
    <3> QED
      BY <3>1, <3>2, <3>3 DEF NoManual, Announcing, Unissued, At
  <2> QED
    BY <2>1, <2>2, <2>3
<1> QED
  BY <1>1, <1>2, <1>3 DEF Next

\* Where no certificate is recorded by hand, racing automatic issues announce
\* at most one.
THEOREM IssueAnnouncedOnce ==
  ASSUME "manual" \notin Kinds
  PROVE  Spec => []AnnouncedOnce
<1>1. Init => NoManual /\ Announcing
  <2>1. ASSUME Init PROVE NoManual
    BY <2>1 DEF Init, NoManual, At, Idle
  <2> QED
    BY <2>1, InitOK
<1>2. IInv /\ TypeOK' /\ NoManual /\ Announcing /\ [Next]_vars
        => NoManual' /\ Announcing'
  BY AnnouncingKept
<1>3. TypeOK /\ Announcing => AnnouncedOnce
  BY DEF TypeOK, Announcing, AnnouncedOnce
<1> QED
  BY <1>1, <1>2, <1>3, Invariance, TypeCorrect, PTL DEF Spec

\* A request about to claim the certificate met the gate once.
Entitled == CertificateEarned /\ \A r \in Slots : At(r, "claim") => everEarned

\* What was earned once stays earned once.
LEMMA EarnedStays ==
  ASSUME NEW r \in Slots, Ask(r) \/ Continue(r) \/ Crash(r), everEarned
  PROVE  everEarned'
<1>1. CASE Stamp(r) \/ UpsertPass(r)
  BY <1>1 DEF Stamp, UpsertPass
<1>2. CASE Claim(r) \/ ManualWrite(r)
  BY <1>2 DEF Claim, ManualWrite, history
<1> QED
  BY <1>1, <1>2, Writers

\* The row that a request read shows no less now, so meeting the gate with it is
\* meeting the gate.
LEMMA StepEntitled ==
  ASSUME IInv, Entitled, [Next]_vars
  PROVE  Entitled'
<1>0. TypeOK /\ completion \in Row
  BY DEF IInv, TypeInv, TypeOK, Row
<1>1. CASE UNCHANGED vars
  BY <1>1 DEF Entitled, CertificateEarned, At, vars, records, history
<1>2. CASE AdminEdit
  BY <1>2 DEF Entitled, CertificateEarned, At, AdminEdit, records
<1>3. ASSUME NEW r \in Slots, Ask(r) \/ Continue(r) \/ Crash(r)
      PROVE  Entitled'
  <2>1. \A s \in Slots : At(s, "claim")' => everEarned'
    <3>1. ASSUME At(r, "claim")' PROVE everEarned
      <4>1. Draw(r) /\ Meets(required, req[r].has)
        BY <1>0, <1>3, <3>1, Landing
      <4>2. req[r].has \subseteq Has
        BY <4>1 DEF Draw, IInv, TypeInv, Ready
      <4>3. Earned
        BY <4>1, <4>2 DEF Earned, Meets
      <4> QED
        BY <4>3 DEF IInv, Honest, HistoryKept
    <3> QED
      BY <1>0, <1>3, <3>1, EarnedStays, Landing DEF Entitled, At
  <2>2. completion'.url = "auto" => everEarned
    <3>1. CASE Claim(r)
      BY <3>1 DEF Claim, Entitled, CertificateEarned
    <3>2. CASE Stamp(r) \/ UpsertPass(r)
      BY <1>0, <3>2 DEF Stamp, UpsertPass, Row, Entitled, CertificateEarned
    <3>3. CASE ManualWrite(r)
      BY <1>0, <3>3 DEF ManualWrite, Row
    <3> QED
      BY <1>3, <3>1, <3>2, <3>3, Writers DEF Entitled, CertificateEarned
  <2> QED
    BY <1>3, <2>1, <2>2, EarnedStays DEF Entitled, CertificateEarned
<1> QED
  BY <1>1, <1>2, <1>3 DEF Next

\* An automatic certificate was earned under the rule in force at some time,
\* though gate and row are read apart while both change: the check that counts
\* reads the row first, and a row only ever shows more.
THEOREM AutoCertificateEarned == Spec => []CertificateEarned
<1>1. Init => Entitled
  BY DEF Init, Entitled, CertificateEarned, At, Idle
<1>2. IInv /\ Entitled /\ [Next]_vars => Entitled'
  BY StepEntitled
<1>3. Entitled => CertificateEarned
  BY DEF Entitled
<1> QED
  BY <1>1, <1>2, <1>3, Invariance, PTL DEF Spec

-----------------------------------------------------------------------------
(* What a finished course leads to while its rules stand still *)

\* While the rules stand still, what the completion row says only grows.
LEMMA RowGrows ==
  ASSUME ~MayEdit, TypeOK, [Next]_vars
  PROVE  /\ UNCHANGED rules
         /\ completion.exists => completion'.exists
         /\ completion.completed => completion'.completed
         /\ completion.passed => completion'.passed
<1>0. completion \in Row /\ ~AdminEdit
  BY DEF TypeOK, Row, AdminEdit
<1>1. ASSUME NEW r \in Slots, Ask(r) \/ Continue(r) \/ Crash(r)
      PROVE  /\ UNCHANGED rules
             /\ completion.exists => completion'.exists
             /\ completion.completed => completion'.completed
             /\ completion.passed => completion'.passed
  <2>1. CASE Stamp(r) \/ UpsertPass(r) \/ Claim(r) \/ ManualWrite(r)
    BY <1>0, <2>1 DEF Stamp, UpsertPass, Claim, ManualWrite, Row
  <2> QED
    BY <1>1, <2>1, Writers
<1> QED
  BY <1>0, <1>1 DEF Next, vars, records

\* What a check has read is what is so.
ReadsTrue(r) ==
  /\ req[r].pc \in {"manifest", "filter"} => pin # Null /\ req[r].course = pin
  /\ req[r].pc \in {"live", "livesections", "livequizzes"} => pin = Null
  /\ req[r].pc = "livequizzes" => req[r].course.sections = LiveCourse.sections
  /\ req[r].pc = "livesections" => req[r].course.quizzes = LiveCourse.quizzes
  /\ req[r].pc \in {"sections", "quizzes", "recall", "stamp"} =>
       req[r].course = Current

\* A learner who finished everything is stamped, or a check that will stamp is
\* under way; and a row that no assessment pass created is stamped.
Measured == \A r \in Slots : ReadsTrue(r)
Stamping == Done /\ ~completion.passed /\ ~completion.completed =>
              \E r \in Slots : req[r].pc \in Checking
Owed     == /\ Measured /\ Stamping
            /\ completion.exists /\ ~completion.passed => completion.completed

\* What is current depends on the rules alone.
LEMMA SameCurrent ==
  ASSUME UNCHANGED rules
  PROVE  Current' = Current /\ LiveCourse' = LiveCourse /\ pin' = pin
  BY DEF Current, LiveCourse, Filtered, rules

\* A measure that comes to what is current goes on to count it.
LEMMA CountTrue ==
  ASSUME TypeOK, NEW r \in Slots, Count(r, Current), UNCHANGED rules
  PROVE  /\ ReadsTrue(r)'
         /\ req'[r].pc = "sections" \/ Current.sections = {}
<1>0. req[r] \in Request
  BY DEF TypeOK
<1>1. CASE Current.sections = {}
  BY <1>1, EndAt DEF Count, ReadsTrue
<1>2. CASE Current.sections # {}
  <2> DEFINE new == [req[r] EXCEPT !.pc = "sections", !.course = Current]
  <2>1. Become(r, new)
    BY <1>2 DEF Count
  <2>2. new.pc = "sections" /\ new.course = Current
    BY <1>0 DEF Request
  <2> HIDE DEF new
  <2>3. req'[r] = new
    BY <2>1, BecomeAt
  <2> QED
    BY <2>2, <2>3, SameCurrent DEF ReadsTrue
<1> QED
  BY <1>1, <1>2

\* A measure under rules that stand still reads what is so, and goes on.
LEMMA MeasureTrue ==
  ASSUME TypeOK, NEW r \in Slots, ReadsTrue(r), Measure(r), UNCHANGED rules
  PROVE  /\ ReadsTrue(r)'
         /\ req'[r].pc \in Checking \/ Current.sections = {}
<1> DEFINE c == req[r].course
<1>0. /\ req[r] \in Request /\ c \in Course /\ live \in Tree
      /\ pin # Null => pin \in Course
  BY CompletionAssumption DEF TypeOK, Request, Course
<1>1. CASE ReadPin(r)
  <2>1. CASE pin = Null
    BY <1>1, <2>1, GotoAt, SameCurrent DEF ReadPin, Steps, ReadsTrue, Checking
  <2>2. CASE pin # Null
    <3> DEFINE new == [req[r] EXCEPT !.pc = "manifest", !.course = pin]
    <3>1. Become(r, new) /\ new.pc = "manifest" /\ new.course = pin
      BY <1>0, <1>1, <2>2 DEF ReadPin, Request
    <3> HIDE DEF new
    <3>2. req'[r] = new
      BY <3>1, BecomeAt
    <3> QED
      BY <2>2, <3>1, <3>2, SameCurrent DEF ReadsTrue, Checking
  <2> QED
    BY <2>1, <2>2
<1>2. CASE LoadManifest(r)
  <2>1. pin # Null /\ c = pin
    BY <1>2 DEF ReadsTrue, LoadManifest, At
  <2>2. CASE c.quizzes = {}
    <3>1. Current = c
      BY <1>0, <2>1, <2>2 DEF Current, Filtered, Course
    <3>2. Count(r, Current)
      BY <1>2, <2>1, <2>2, <3>1 DEF LoadManifest
    <3> QED
      BY <3>2, CountTrue DEF Checking
  <2>3. CASE c.quizzes # {}
    <3>1. Goto(r, "filter")
      BY <1>2, <2>1, <2>3 DEF LoadManifest
    <3> QED
      BY <2>1, <3>1, GotoAt, SameCurrent DEF Steps, ReadsTrue, Checking
  <2> QED
    BY <2>2, <2>3
<1>3. CASE FilterQuizzes(r)
  <2>1. Count(r, Current)
    BY <1>3 DEF FilterQuizzes, ReadsTrue, At, Current
  <2> QED
    BY <2>1, CountTrue DEF Checking
<1>4. CASE ReadLiveSections(r)
  <2> DEFINE course == [c EXCEPT !.sections = live.sections]
  <2>1. /\ course \in Course /\ course.sections = LiveCourse.sections
        /\ course.quizzes = c.quizzes
    BY <1>0 DEF Course, Tree, LiveCourse
  <2>2. pin = Null
    BY <1>4 DEF ReadLiveSections, ReadsTrue, At
  <2>3. CASE At(r, "livesections") /\ Count(r, course)
    <3>1. course.quizzes = LiveCourse.quizzes
      BY <2>1, <2>3 DEF ReadsTrue, At
    <3>2. course = Current
      BY <2>1, <2>2, <3>1 DEF Current, LiveCourse, Course
    <3> QED
      BY <2>3, <3>2, CountTrue DEF Checking
  <2>4. CASE Become(r, [req[r] EXCEPT !.pc = "livequizzes", !.course = course])
    <3> DEFINE new == [req[r] EXCEPT !.pc = "livequizzes", !.course = course]
    <3>1. Become(r, new) /\ new.pc = "livequizzes" /\ new.course = course
      BY <1>0, <2>4 DEF Request
    <3> HIDE DEF new
    <3>2. req'[r] = new
      BY <3>1, BecomeAt
    <3> QED
      BY <2>1, <2>2, <3>1, <3>2, SameCurrent DEF ReadsTrue, Checking
  <2> QED
    BY <1>4, <2>3, <2>4 DEF ReadLiveSections
<1>5. CASE ReadLiveQuizzes(r)
  <2> DEFINE course == [c EXCEPT !.quizzes = LiveCourse.quizzes]
  <2>1. /\ course \in Course /\ course.quizzes = LiveCourse.quizzes
        /\ course.sections = c.sections
    BY <1>0 DEF Course, Tree, LiveCourse
  <2>2. pin = Null
    BY <1>5 DEF ReadLiveQuizzes, ReadsTrue, At
  <2>3. CASE At(r, "livequizzes") /\ Count(r, course)
    <3>1. course.sections = LiveCourse.sections
      BY <2>1, <2>3 DEF ReadsTrue, At
    <3>2. course = Current
      BY <2>1, <2>2, <3>1 DEF Current, LiveCourse, Course
    <3> QED
      BY <2>3, <3>2, CountTrue DEF Checking
  <2>4. CASE Become(r, [req[r] EXCEPT !.pc = "livesections", !.course = course])
    <3> DEFINE new == [req[r] EXCEPT !.pc = "livesections", !.course = course]
    <3>1. Become(r, new) /\ new.pc = "livesections" /\ new.course = course
      BY <1>0, <2>4 DEF Request
    <3> HIDE DEF new
    <3>2. req'[r] = new
      BY <3>1, BecomeAt
    <3> QED
      BY <2>1, <2>2, <3>1, <3>2, SameCurrent DEF ReadsTrue, Checking
  <2> QED
    BY <1>5, <2>3, <2>4 DEF ReadLiveQuizzes
<1> QED
  BY <1>1, <1>2, <1>3, <1>4, <1>5 DEF Measure

\* The check of a learner who is done goes on until the stamp.
LEMMA CheckGoesOn ==
  ASSUME TypeOK, Owed, NEW r \in Slots, req[r].pc \in Checking, Done,
         ~completion.passed, ~completion'.completed, Continue(r), UNCHANGED rules
  PROVE  req'[r].pc \in Checking
<1>0. req[r] \in Request /\ completion \in Row
  BY DEF TypeOK, Row
<1>1. CASE Measure(r)
  BY <1>1, MeasureTrue DEF Owed, Measured, Done
<1>2. CASE CountSections(r) \/ CountQuizzes(r)
  <2>1. req[r].course = Current
    BY <1>2 DEF Owed, Measured, ReadsTrue, CountSections, CountQuizzes, At
  <2>2. \E step \in {"quizzes", "recall"} : Goto(r, step)
    BY <1>2, <2>1 DEF CountSections, CountQuizzes, SectionsDone, Done
  <2> QED
    BY <2>2, GotoAt DEF Steps, Checking
<1>3. CASE Recall(r)
  <2>1. PICK seen : Become(r, [req[r] EXCEPT !.pc = "stamp", !.seen = seen])
    BY <1>3 DEF Recall, records
  <2>2. [req[r] EXCEPT !.pc = "stamp", !.seen = seen].pc = "stamp"
    BY <1>0 DEF Request
  <2> QED
    BY <2>1, <2>2, BecomeAt DEF Checking
<1>4. CASE Stamp(r)
  <2>1. completion.completed
    BY <1>0, <1>4 DEF Stamp, Unstamped, Owed, Row
  <2>2. completion'.completed
    BY <1>0, <1>4, <2>1 DEF Stamp, Row
  <2> QED
    BY <2>2
<1>5. Measure(r) \/ CountSections(r) \/ CountQuizzes(r) \/ Recall(r) \/ Stamp(r)
  BY DEF Checking, Continue, Measure, RecordSection, ReportQuiz, SendMail,
     UpsertPass, ReadGate, CheckEligible, Generate, Draw, Claim, Announce,
     ManualWrite, At
<1> QED
  BY <1>1, <1>2, <1>3, <1>4, <1>5

\* A step that makes the learner done begins a check.
LEMMA DoneIsChecked ==
  ASSUME ~MayEdit, TypeInv, NEW r \in Slots, Ask(r) \/ Continue(r) \/ Crash(r),
         UNCHANGED rules, ~Done, Done'
  PROVE  req'[r].pc = "check"
<1>0. TypeOK /\ req[r] \in Request /\ Ready(r) /\ quiz \in [Quizzes -> QuizState]
  BY DEF TypeInv, TypeOK
<1>1. RecordSection(r) \/ ReportQuiz(r)
  <2>1. progressed' # progressed \/ quiz' # quiz
    BY SameCurrent DEF Done, Passed
  <2> QED
    BY <2>1 DEF Ask, Continue, Crash, SectionRequest, QuizRequest, AssessRequest,
       StudentRequest, ManualRequest, ReadPin, LoadManifest, FilterQuizzes,
       ReadLiveSections, ReadLiveQuizzes, CountSections, CountQuizzes, Recall,
       Stamp, SendMail, UpsertPass, ReadGate, CheckEligible, Generate, Draw,
       Claim, Announce, ManualWrite, records
<1>2. CASE RecordSection(r)
  <2>1. req[r].item \notin progressed
    BY <1>2, SameCurrent DEF RecordSection, Done, Passed
  <2> QED
    BY <1>0, <1>2, <2>1, TurnAt DEF RecordSection, Steps
<1>3. CASE ReportQuiz(r)
  <2> DEFINE pass == req[r].before = "passed" \/ req[r].grade
  <2>1. progressed' = progressed
    BY <1>3 DEF ReportQuiz
  <2>2. quiz' # quiz
    BY <2>1, SameCurrent DEF Done, Passed
  <2>3. /\ quiz' = [quiz EXCEPT ![req[r].item] = IF pass THEN "passed" ELSE "failed"]
        /\ IF pass THEN Turn(r, "check") ELSE Become(r, Idle)
    BY <1>3, <2>2 DEF ReportQuiz
  <2>4. pass
    <3>1. SUFFICES ASSUME ~pass PROVE FALSE
      OBVIOUS
    <3>2. Passed' \subseteq Passed
      BY <1>0, <2>3, <3>1 DEF Passed
    <3> QED
      BY <2>1, <3>2, SameCurrent DEF Done
  <2> QED
    BY <1>0, <2>3, <2>4, TurnAt DEF Steps
<1> QED
  BY <1>1, <1>2, <1>3

\* Every step keeps what is owed.
LEMMA StepOwed ==
  ASSUME ~MayEdit, ~MayCrash, TypeInv, Owed, [Next]_vars
  PROVE  Owed'
<1>0. TypeOK /\ completion \in Row /\ UNCHANGED rules
  BY RowGrows DEF TypeInv, TypeOK, Row
<1>1. CASE UNCHANGED vars
  <2>1. Done' = Done
    BY <1>0, <1>1, SameCurrent DEF Done, Passed, vars, records
  <2>2. Measured'
    BY <1>0, <1>1, SameCurrent DEF Owed, Measured, ReadsTrue, vars
  <2> QED
    BY <1>1, <2>1, <2>2 DEF Owed, Stamping, vars, records
<1>2. ASSUME NEW r \in Slots, Ask(r) \/ Continue(r) \/ Crash(r) PROVE Owed'
  <2>1. Measured'
    <3>1. ReadsTrue(r)'
      <4>1. CASE Measure(r)
        BY <1>0, <4>1, MeasureTrue DEF Owed, Measured
      <4>2. CASE CountSections(r) \/ CountQuizzes(r) \/ Recall(r)
        <5>1. req[r].course = Current
          BY <4>2 DEF Owed, Measured, ReadsTrue, CountSections, CountQuizzes,
                      Recall, At
        <5> QED
          BY <1>0, <4>2, <5>1, CheckLands, SameCurrent DEF ReadsTrue
      <4>3. CASE req'[r].pc \notin Checking \ {"check"}
        BY <4>3 DEF ReadsTrue, Checking
      <4> QED
        BY <1>0, <1>2, <4>1, <4>2, <4>3, Landing
    <3>2. \A s \in Slots \ {r} : ReadsTrue(s)'
      BY <1>0, <1>2, Landing, SameCurrent DEF Owed, Measured, ReadsTrue
    <3> QED
      BY <3>1, <3>2 DEF Measured
  <2>2. completion'.exists /\ ~completion'.passed => completion'.completed
    <3>1. CASE Stamp(r) \/ UpsertPass(r)
      BY <1>0, <3>1 DEF Stamp, UpsertPass, Owed, Row
    <3>2. CASE Claim(r) \/ ManualWrite(r)
      BY <1>0, <3>2 DEF Claim, ManualWrite, Owed, Row
    <3> QED
      BY <1>2, <3>1, <3>2, Writers DEF Owed
  <2>3. Stamping'
    <3>1. SUFFICES ASSUME Done', ~completion'.passed, ~completion'.completed
                   PROVE  \E s \in Slots : req'[s].pc \in Checking
      BY DEF Stamping
    <3>2. CASE ~Done
      BY <1>0, <1>2, <3>1, <3>2, DoneIsChecked DEF Checking
    <3>3. CASE Done
      <4>1. ~completion.passed /\ ~completion.completed
        BY <1>0, <3>1, RowGrows
      <4>2. PICK s \in Slots : req[s].pc \in Checking
        BY <3>3, <4>1 DEF Owed, Stamping
      <4>3. CASE s = r
        <5>1. Continue(r)
          BY <1>2, <4>2, <4>3 DEF Crash, Ask, SectionRequest, QuizRequest,
             AssessRequest, StudentRequest, ManualRequest, Asks, At, Checking
        <5> QED
          BY <1>0, <3>1, <3>3, <4>1, <4>2, <4>3, <5>1, CheckGoesOn
      <4>4. CASE s # r
        BY <1>0, <1>2, <4>2, <4>4, Landing
      <4> QED
        BY <4>3, <4>4
    <3> QED
      BY <3>2, <3>3
  <2> QED
    BY <2>1, <2>2, <2>3 DEF Owed
<1> QED
  BY <1>1, <1>2 DEF Next, AdminEdit

\* While pin and tree stand still and no request is cut off, a learner who
\* finished everything, without an assessment pass, is stamped once the requests
\* have ended: whichever of the last section and the last quiz commits second
\* checks after it, and a failed create leaves the stamp to the row's creator.
THEOREM FinishedIsStamped ==
  ASSUME ~MayEdit, ~MayCrash
  PROVE  Spec => []DoneIsStamped
<1>1. Init => Owed
  BY DEF Init, Owed, Measured, ReadsTrue, Stamping, Done, Idle, Checking
<1>2. IInv /\ Owed /\ [Next]_vars => Owed'
  BY StepOwed DEF IInv
<1>3. Owed => DoneIsStamped
  BY DEF Owed, Stamping, DoneIsStamped, At, Checking
<1> QED
  BY <1>1, <1>2, <1>3, Invariance, PTL DEF Spec
=============================================================================
