--------------------------- MODULE CourseCompletion ---------------------------
(***************************************************************************)
(* How one learner's course becomes complete and certified: section progress *)
(* rows, chapter quiz reports, the completion check both of them trigger, the *)
(* assessment pass that shares its row, and the certificate that is issued    *)
(* automatically or recorded by an admin.                                    *)
(*                                                                          *)
(* Requests are processes ("slots") with one action per database round trip  *)
(* and may be cut off between two of them.  What the learner is measured     *)
(* against is read in several of them: the pin, then the manifest of that    *)
(* version and the quizzes that are left of it, or the two halves of the live *)
(* tree.  The chapter gate is open: every section and quiz can be done at any *)
(* time.                                                                     *)
(***************************************************************************)
EXTENDS Naturals, FiniteSets

CONSTANTS
  Sections, Quizzes,  \* sections, and chapters that carry a quiz
  Curricula,          \* versions by their manifests: [sections, quizzes]
  Trees,              \* what the live tree may be, see Tree
  Slots,              \* concurrent requests
  Kinds,              \* what the requests of an instance ask for
  CertIds,            \* certificate ids; random, so one in flight is not drawn
  AutoIssue,          \* certificateIssueMode is AUTO, otherwise MANUAL
  Null,
  MayEdit,            \* admins move the pin, edit and switch the assessment
  MayCrash

\* The live tree: its sections, its quiz-bearing or once quiz-bearing chapters,
\* and the chapters (in the tree or not) that have a quiz placed in them now.
Tree == [sections : SUBSET Sections, chapters : SUBSET Quizzes,
         quizzed : SUBSET Quizzes]

Requests == {"section", "quiz", "assess", "student", "manual"}

ASSUME CompletionAssumption ==
  /\ Curricula \subseteq [sections : SUBSET Sections, quizzes : SUBSET Quizzes]
  /\ Trees \subseteq Tree /\ Trees # {}
  /\ Kinds \subseteq Requests
  /\ Null \notin CertIds \cup Curricula
  /\ {AutoIssue, MayEdit, MayCrash} \subseteq BOOLEAN

VARIABLES
  pin,          \* the version the learner is pinned to, Null when floating
  live,         \* the live tree
  required,     \* the course has an active assessment
  progressed,   \* UserCourseProgress rows
  quiz,         \* QuizProgress row of each chapter
  completion,   \* CourseCompletion row
  req,
  pins, trees,  \* history: what pin and live have been
  everPassed,   \* history: quizzes that have shown a pass
  stamps,       \* history: how often courseCompletedAt was written
  mails,        \* history: congratulation emails
  certMails,    \* history: certificate-issued emails
  everEarned    \* history: a certificate was earned at some time

rules   == <<pin, live, required, pins, trees>>
history == <<everPassed, stamps, mails, certMails, everEarned>>
records == <<progressed, quiz, completion>>
vars    == <<rules, records, req, history>>

QuizState == {"none", "failed", "passed"}
Feats     == {"passed", "completed"}
Steps     == {"idle", "record", "report", "check", "manifest", "filter", "live",
              "livesections", "livequizzes", "sections", "quizzes", "recall",
              "stamp", "mail", "upsert", "eligible", "entitled", "generate",
              "gate", "claim", "announce", "manual"}
NoCourse  == [sections |-> {}, quizzes |-> {}]
Request   == [pc : Steps, item : Sections \cup Quizzes \cup {Null},
              before : QuizState, grade : BOOLEAN,
              course : [sections : SUBSET Sections, quizzes : SUBSET Quizzes],
              seen : BOOLEAN, has : SUBSET Feats, cert : CertIds \cup {Null}]
Idle      == [pc |-> "idle", item |-> Null, before |-> "none", grade |-> FALSE,
              course |-> NoCourse, seen |-> FALSE, has |-> {}, cert |-> Null]

At(r, step)       == req[r].pc = step
Become(r, record) == req' = [req EXCEPT ![r] = record]
Goto(r, step)     == req' = [req EXCEPT ![r].pc = step]
Turn(r, step)     == Become(r, [Idle EXCEPT !.pc = step])
Asks(r, kind)     == At(r, "idle") /\ kind \in Kinds
Passed            == {q \in Quizzes : quiz[q] = "passed"}

\* The live curriculum: HAS_LIVE_QUIZ on the chapters of the tree.
LiveCourse == [sections |-> live.sections,
               quizzes  |-> live.chapters \cap live.quizzed]

\* A manifest, less the chapters whose quiz was archived.
Filtered(course) == [course EXCEPT !.quizzes = @ \cap live.quizzed]

\* What a measure that nothing interrupts comes to.
Current == IF pin = Null THEN LiveCourse ELSE Filtered(pin)

\* The learner has every section and every quiz of the curriculum.
Done ==
  /\ Current.sections # {}
  /\ Current.sections \subseteq progressed
  /\ Current.quizzes \subseteq Passed

\* What the completion row shows of the learner.
Has == {f \in Feats : completion[f]}

\* The gate of automatic issue: pass the assessment if the course has one,
\* complete the content if it has none.
Meets(gate, has) == (IF gate THEN "passed" ELSE "completed") \in has

\* The learner is entitled to a certificate as the rules stand.
Earned == Meets(required, Has)

\* Mutant: the update that stamps has no filter on courseCompletedAt.
UnstampedUnchecked == TRUE

\* courseCompletedAt: null in the conditional update.
Unstamped == ~completion.completed

\* Mutant: the update that issues has no filter on certificateUrl.
UnissuedUnchecked == TRUE

\* certificateUrl: null in the conditional update.
Unissued == completion.url = "none"

\* allocateCertificateId: random, so neither taken nor in flight.
FreshIds == CertIds \ ({completion.id} \cup {req[r].cert : r \in Slots})

\* The id to issue under: the one the row had when it was read, or a fresh one.
IssueId(held) == IF held # Null THEN {held} ELSE FreshIds

-----------------------------------------------------------------------------
Init ==
  /\ pin \in Curricula \cup {Null}
  /\ live \in Trees
  /\ required \in BOOLEAN
  /\ progressed = {}
  /\ quiz = [q \in Quizzes |-> "none"]
  /\ completion = [exists |-> FALSE, completed |-> FALSE, passed |-> FALSE,
                   url |-> "none", id |-> Null]
  /\ req = [r \in Slots |-> Idle]
  /\ pins = {pin}
  /\ trees = {live}
  /\ everPassed = {}
  /\ stamps = 0
  /\ mails = 0
  /\ certMails = 0
  /\ everEarned = FALSE

\* A migration, or a publish while the learner floats, moves the pin; edits move
\* the live tree; activateAssessment and deactivateAssessment switch the gate.
AdminEdit ==
  /\ MayEdit
  /\ \/ /\ pin' \in Curricula \ {pin}
        /\ pins' = pins \cup {pin'}
        /\ UNCHANGED <<live, required, trees>>
     \/ /\ live' \in Trees \ {live}
        /\ trees' = trees \cup {live'}
        /\ UNCHANGED <<pin, required, pins>>
     \/ required' = ~required /\ UNCHANGED <<pin, live, pins, trees>>
  /\ UNCHANGED <<records, req, everPassed, stamps, mails, certMails>>
  /\ everEarned' = (everEarned \/ Earned')

Crash(r) ==
  /\ MayCrash /\ ~At(r, "idle")
  /\ Become(r, Idle)
  /\ UNCHANGED <<rules, records, history>>

-----------------------------------------------------------------------------
(* updateUserChapterProgress and createChapterQuizzesReport *)

\* A section the learner already has returns at once, without a check.
SectionRequest(r) ==
  /\ Asks(r, "section")
  /\ \E s \in Sections \ progressed :
       Become(r, [Idle EXCEPT !.pc = "record", !.item = s])
  /\ UNCHANGED <<rules, records, history>>

\* The loser of two overlapping first completes leaves the check to the winner.
RecordSection(r) ==
  /\ At(r, "record")
  /\ progressed' = progressed \cup {req[r].item}
  /\ IF req[r].item \in progressed THEN Become(r, Idle) ELSE Turn(r, "check")
  /\ UNCHANGED <<rules, quiz, completion, history>>

\* The stored report and the stored answers are read and graded together.
QuizRequest(r) ==
  /\ Asks(r, "quiz")
  /\ \E q \in Quizzes, grade \in BOOLEAN :
       Become(r, [Idle EXCEPT !.pc = "report", !.item = q, !.before = quiz[q],
                              !.grade = grade])
  /\ UNCHANGED <<rules, records, history>>

\* Mutant: the check runs only when a section is recorded.
ReportQuizUnchecked(r) ==
  LET q    == req[r].item
      pass == req[r].before = "passed" \/ req[r].grade
  IN
  /\ At(r, "report")
  /\ quiz' = [quiz EXCEPT ![q] = IF pass THEN "passed" ELSE "failed"]
  /\ everPassed' = IF pass THEN everPassed \cup {q} ELSE everPassed
  /\ Become(r, Idle)
  /\ UNCHANGED <<rules, progressed, completion, stamps, mails, certMails,
                 everEarned>>

\* Pass and score are kept from the report that was read; a report created
\* meanwhile makes the create fail.
ReportQuiz(r) ==
  LET q    == req[r].item
      pass == req[r].before = "passed" \/ req[r].grade
  IN
  /\ At(r, "report")
  /\ IF req[r].before = "none" /\ quiz[q] # "none"
     THEN UNCHANGED <<quiz, everPassed>> /\ Become(r, Idle)
     ELSE /\ quiz' = [quiz EXCEPT ![q] = IF pass THEN "passed" ELSE "failed"]
          /\ everPassed' = IF pass THEN everPassed \cup {q} ELSE everPassed
          /\ IF pass THEN Turn(r, "check") ELSE Become(r, Idle)
  /\ UNCHANGED <<rules, progressed, completion, stamps, mails, certMails,
                 everEarned>>

-----------------------------------------------------------------------------
(* checkContentCompletion *)

\* What was measured; an empty curriculum is never complete.
Count(r, course) ==
  IF course.sections = {}
  THEN Become(r, Idle)
  ELSE Become(r, [req[r] EXCEPT !.pc = "sections", !.course = course])

\* The pin decides which of the two branches is taken.
ReadPin(r) ==
  /\ At(r, "check")
  /\ IF pin = Null
     THEN Goto(r, "live")
     ELSE Become(r, [req[r] EXCEPT !.pc = "manifest", !.course = pin])
  /\ UNCHANGED <<rules, records, history>>

\* The foreign key keeps a version that is pinned; one that is no longer this
\* learner's may have been pruned, and then the live tree is counted.
LoadManifest(r) ==
  /\ At(r, "manifest")
  /\ \/ IF req[r].course.quizzes = {} THEN Count(r, req[r].course)
                                      ELSE Goto(r, "filter")
     \/ req[r].course # pin /\ Turn(r, "live")
  /\ UNCHANGED <<rules, records, history>>

FilterQuizzes(r) ==
  /\ At(r, "filter")
  /\ Count(r, Filtered(req[r].course))
  /\ UNCHANGED <<rules, records, history>>

\* liveDenominator: two statements under one Promise.all, in either order.
ReadLiveSections(r) ==
  LET course == [req[r].course EXCEPT !.sections = live.sections] IN
  /\ \/ /\ At(r, "live")
        /\ Become(r, [req[r] EXCEPT !.pc = "livequizzes", !.course = course])
     \/ At(r, "livesections") /\ Count(r, course)
  /\ UNCHANGED <<rules, records, history>>

ReadLiveQuizzes(r) ==
  LET course == [req[r].course EXCEPT !.quizzes = LiveCourse.quizzes] IN
  /\ \/ /\ At(r, "live")
        /\ Become(r, [req[r] EXCEPT !.pc = "livesections", !.course = course])
     \/ At(r, "livequizzes") /\ Count(r, course)
  /\ UNCHANGED <<rules, records, history>>

\* Mutant: one section may be missing.
SectionsDoneButOne(course) == Cardinality(course.sections \ progressed) <= 1

\* progressed.length < totalSections
SectionsDone(course) == course.sections \subseteq progressed

CountSections(r) ==
  /\ At(r, "sections")
  /\ IF SectionsDone(req[r].course) THEN Goto(r, "quizzes") ELSE Become(r, Idle)
  /\ UNCHANGED <<rules, records, history>>

CountQuizzes(r) ==
  /\ At(r, "quizzes")
  /\ IF req[r].course.quizzes \subseteq Passed THEN Goto(r, "recall")
                                               ELSE Become(r, Idle)
  /\ UNCHANGED <<rules, records, history>>

Recall(r) ==
  /\ At(r, "recall")
  /\ IF completion.completed
     THEN Become(r, Idle)
     ELSE Become(r, [req[r] EXCEPT !.pc = "stamp", !.seen = completion.exists])
  /\ UNCHANGED <<rules, records, history>>

\* A row that was seen is updated conditionally, otherwise one is created; the
\* create fails when any other request created the row meanwhile.
Stamp(r) ==
  LET wins == IF req[r].seen THEN Unstamped ELSE ~completion.exists IN
  /\ At(r, "stamp")
  /\ IF wins
     THEN /\ completion' = [completion EXCEPT !.exists = TRUE,
                                              !.completed = TRUE]
          /\ stamps' = stamps + 1
          /\ Turn(r, "mail")
     ELSE UNCHANGED <<completion, stamps>> /\ Become(r, Idle)
  /\ UNCHANGED <<rules, progressed, quiz, everPassed, mails, certMails>>
  /\ everEarned' = (everEarned \/ Earned')

\* Mutant: the certificate is left to the learner's next visit.
SendMailOnly(r) ==
  /\ At(r, "mail")
  /\ mails' = mails + 1
  /\ Become(r, Idle)
  /\ UNCHANGED <<rules, records, everPassed, stamps, certMails, everEarned>>

SendMail(r) ==
  /\ At(r, "mail")
  /\ mails' = mails + 1
  /\ Turn(r, "eligible")
  /\ UNCHANGED <<rules, records, everPassed, stamps, certMails, everEarned>>

-----------------------------------------------------------------------------
(* An assessment pass writes the same row, then tries the certificate *)

\* An attempt can be started once the sections are done or recorded as such.
AssessRequest(r) ==
  /\ Asks(r, "assess") /\ required
  /\ completion.completed \/ SectionsDone(Current)
  /\ Become(r, [Idle EXCEPT !.pc = "upsert"])
  /\ UNCHANGED <<rules, records, history>>

UpsertPass(r) ==
  /\ At(r, "upsert")
  /\ completion' = [completion EXCEPT !.exists = TRUE, !.passed = TRUE]
  /\ Turn(r, "eligible")
  /\ UNCHANGED <<rules, progressed, quiz, everPassed, stamps, mails, certMails>>
  /\ everEarned' = (everEarned \/ Earned')

-----------------------------------------------------------------------------
(* tryIssueCertificate, getStudentCertificate, generateAndPersist *)

\* A learner opening the certificate page of a course that issues by itself.
StudentRequest(r) ==
  /\ Asks(r, "student") /\ Unissued
  /\ Become(r, [Idle EXCEPT !.pc = "eligible"])
  /\ UNCHANGED <<rules, records, history>>

\* isEligibleForAutoIssue: the mode, the gate, then the row ...
ReadGate(r) ==
  /\ At(r, "eligible")
  /\ IF AutoIssue THEN Become(r, [req[r] EXCEPT !.pc = "entitled", !.seen = required])
                  ELSE Become(r, Idle)
  /\ UNCHANGED <<rules, records, history>>

\* ... and "already issued"; the learner's page skips that read and loses the
\* claim below instead.
CheckEligible(r) ==
  /\ At(r, "entitled")
  /\ IF Meets(req[r].seen, Has) /\ Unissued THEN Turn(r, "generate")
                                            ELSE Become(r, Idle)
  /\ UNCHANGED <<rules, records, history>>

\* generateAndPersist reads the row first and the gate after it.
Generate(r) ==
  /\ At(r, "generate")
  /\ Become(r, [req[r] EXCEPT !.pc = "gate", !.has = Has, !.cert = completion.id])
  /\ UNCHANGED <<rules, records, history>>

\* Mutant: the gate is not checked again.
DrawUnchecked(r) ==
  /\ At(r, "gate")
  /\ \E id \in IssueId(req[r].cert) :
       Become(r, [Idle EXCEPT !.pc = "claim", !.cert = id])
  /\ UNCHANGED <<rules, records, history>>

\* The gate again, now against the row that was read, then the id.
Draw(r) ==
  /\ At(r, "gate")
  /\ IF Meets(required, req[r].has)
     THEN \E id \in IssueId(req[r].cert) :
            Become(r, [Idle EXCEPT !.pc = "claim", !.cert = id])
     ELSE Become(r, Idle)
  /\ UNCHANGED <<rules, records, history>>

Claim(r) ==
  /\ At(r, "claim")
  /\ IF Unissued
     THEN /\ completion' = [completion EXCEPT !.url = "auto", !.id = req[r].cert]
          /\ Turn(r, "announce")
     ELSE UNCHANGED completion /\ Become(r, Idle)
  /\ UNCHANGED <<rules, progressed, quiz, history>>

Announce(r) ==
  /\ At(r, "announce")
  /\ certMails' = certMails + 1
  /\ Become(r, Idle)
  /\ UNCHANGED <<rules, records, everPassed, stamps, mails, everEarned>>

-----------------------------------------------------------------------------
(* recordManualCertificate: "seen" is that a certificate was there when read *)

ManualRequest(r) ==
  /\ Asks(r, "manual") /\ completion.exists
  /\ \E id \in IssueId(completion.id) :
       Become(r, [Idle EXCEPT !.pc = "manual", !.cert = id, !.seen = ~Unissued])
  /\ UNCHANGED <<rules, records, history>>

\* Unconditional; the audit row names the certificate that was read before.
ManualWrite(r) ==
  /\ At(r, "manual")
  /\ completion' = [completion EXCEPT !.url = "manual", !.id = req[r].cert]
  /\ IF req[r].seen THEN Become(r, Idle) ELSE Turn(r, "announce")
  /\ UNCHANGED <<rules, progressed, quiz, history>>

-----------------------------------------------------------------------------
Ask(r) ==
  \/ SectionRequest(r) \/ QuizRequest(r) \/ AssessRequest(r)
  \/ StudentRequest(r) \/ ManualRequest(r)

Continue(r) ==
  \/ RecordSection(r) \/ ReportQuiz(r)
  \/ ReadPin(r) \/ LoadManifest(r) \/ FilterQuizzes(r)
  \/ ReadLiveSections(r) \/ ReadLiveQuizzes(r)
  \/ CountSections(r) \/ CountQuizzes(r) \/ Recall(r)
  \/ Stamp(r) \/ SendMail(r) \/ UpsertPass(r)
  \/ ReadGate(r) \/ CheckEligible(r) \/ Generate(r) \/ Draw(r)
  \/ Claim(r) \/ Announce(r)
  \/ ManualWrite(r)

Next == AdminEdit \/ \E r \in Slots : Ask(r) \/ Continue(r) \/ Crash(r)

Spec == Init /\ [][Next]_vars

\* A request that is not cut off makes its next round trip.
FairSpec == Spec /\ \A r \in Slots : WF_vars(Continue(r))

-----------------------------------------------------------------------------
\* Rows and requests are of the kinds the schema gives them, and a certificate
\* that was issued has an id to verify it by.
TypeOK ==
  /\ pin \in Curricula \cup {Null} /\ live \in Trees
  /\ required \in BOOLEAN
  /\ progressed \subseteq Sections
  /\ quiz \in [Quizzes -> QuizState]
  /\ completion \in [exists : BOOLEAN, completed : BOOLEAN, passed : BOOLEAN,
                     url : {"none", "auto", "manual"}, id : CertIds \cup {Null}]
  /\ completion.url # "none" => completion.exists /\ completion.id \in CertIds
  /\ req \in [Slots -> Request]
  /\ pins \subseteq Curricula \cup {Null} /\ trees \subseteq Trees
  /\ everPassed \subseteq Quizzes /\ everEarned \in BOOLEAN
  /\ stamps \in Nat /\ mails \in Nat /\ certMails \in Nat

\* The course is stamped complete exactly once: a last section and a last quiz
\* landing together send one congratulation and never move courseCompletedAt.
CompletedOnce == stamps <= 1 /\ mails <= stamps

\* The learner has every section of one list and passed every quiz of another.
Finished(sections, quizzes) ==
  sections # {} /\ sections \subseteq progressed /\ quizzes \subseteq everPassed

\* A stamped course was really finished, whatever moved between the reads of the
\* check: in the sections of a version the learner was pinned to and in those of
\* its quizzes that some live tree still had; or, for a learner who has not been
\* pinned to one version all along, in the sections of a live tree and the quizzes
\* of a live tree.
CompletionEarned ==
  completion.completed =>
    \/ \E v \in pins \ {Null}, u \in trees :
         Finished(v.sections, v.quizzes \cap u.quizzed)
    \/ /\ \A v \in Curricula : pins # {v}
       /\ \E t, u \in trees : Finished(t.sections, u.chapters \cap u.quizzed)

\* ... which of a floating learner need not be one tree: the comment on
\* liveDenominator has its two halves never disagree about the tree.
OneTree ==
  completion.completed /\ pins = {Null} =>
    \E t \in trees : Finished(t.sections, t.chapters \cap t.quizzed)

\* When the requests have ended, a learner who finished everything has been
\* stamped: whichever of the last section and the last quiz commits second
\* sees the other.  An assessment pass that creates the row meanwhile is left out.
DoneIsStamped ==
  (\A r \in Slots : At(r, "idle")) /\ Done /\ ~completion.passed =>
    completion.completed

\* ... which is not what checkContentCompletion says: the create that fails leaves
\* the learner to the winner, and the assessment pass stamps nothing.
DoneIsAlwaysStamped ==
  (\A r \in Slots : At(r, "idle")) /\ Done => completion.completed

\* Racing automatic issues (completion, assessment pass, the learner opening
\* the page) announce one certificate.
AnnouncedOnce == certMails <= 1

\* A certificate that was issued is replaced by hand only: an automatic issue
\* that lost the race, or comes late, changes neither the certificate nor the id.
IssuedStands ==
  [][LET changed == \/ completion'.url # completion.url
                    \/ completion'.id # completion.id
     IN  completion.url # "none" /\ changed => completion'.url = "manual"]_vars

\* An automatic certificate was earned: at some time the learner met the rule
\* that was in force then, although gate and row are read apart, twice, while
\* the assessment is switched and the row is written.
CertificateEarned == completion.url = "auto" => everEarned

-----------------------------------------------------------------------------
\* A learner who finishes a course that issues automatically and has no
\* assessment ends up with a certificate, without asking for it.
FinishedGetsCertificate ==
  Done /\ ~required ~> completion.url # "none" \/ ~Done \/ required

=============================================================================
