---------------------------- MODULE LearnerProgress ---------------------------
(***************************************************************************)
(* One learner's way through the chapters of a course: the gate between them, *)
(* the rows that record finished chapters and modules, and the administrators *)
(* who reset, unassign and reassign the learner meanwhile.                   *)
(*                                                                          *)
(* The reads that decide one write are taken together; so are the deletes of *)
(* a wipe, which one transaction commits.                                    *)
(***************************************************************************)
EXTENDS Naturals, FiniteSets

CONSTANTS
  Last,        \* chapters are numbered in their order
  Sections, ChapterOf,
  Quizzed,     \* chapters with a quiz
  ModuleOf,    \* of every chapter
  Curricula,   \* the versions the learner may be pinned to
  Live,        \* the course as it is served now
  Tables,      \* further tables with the learner's rows, see KeptByReset
  Slots,       \* concurrent requests of the learner
  MayMigrate, MayCrash

Chapters   == 1 .. Last
Curriculum == [chapters : SUBSET Chapters, sections : SUBSET Sections]

ASSUME ProgressAssumption ==
  /\ Last \in Nat \ {0} /\ IsFiniteSet(Sections)
  /\ ChapterOf \in [Sections -> Chapters]
  /\ DOMAIN ModuleOf = Chapters
  /\ Quizzed \subseteq Chapters
  /\ Curricula \subseteq Curriculum /\ Curricula # {} /\ Live \in Curriculum
  /\ \A v \in Curricula : \A s \in v.sections : ChapterOf[s] \in v.chapters
  /\ {MayMigrate, MayCrash} \subseteq BOOLEAN

VARIABLES
  curriculum,  \* the version of the learner's pin
  enrolled,    \* the UserCourse row exists
  progress,    \* UserCourseProgress rows: chapter and section
  quiz,        \* QuizProgress row of each chapter
  chapters,    \* UserChapterCompletion rows
  modules,     \* UserModuleCompletion rows
  completed,   \* courseCompletedAt is set
  residue,     \* the Tables with rows of the learner
  req, admin,
  everPassed,  \* history: quizzes that showed a pass
  since        \* history: what happened since the learner's rows were wiped

rows    == <<progress, quiz, chapters, modules, completed, residue>>
course  == <<curriculum, enrolled>>
history == <<everPassed, since>>
vars    == <<course, rows, req, admin, history>>

Modules   == {ModuleOf[c] : c \in Chapters}
QuizState == {"none", "failed", "passed"}
Events    == {"moved", "cut", "late", "astray"}
Request   == [pc : {"idle", "record", "report", "measure", "stamp", "roll", "award"},
              section : SUBSET Sections, chapter : Chapters, before : QuizState,
              grade : BOOLEAN]
Idle      == [pc |-> "idle", section |-> {}, chapter |-> 1, before |-> "none",
              grade |-> FALSE]
Desk      == [pc : {"idle", "wipe"}, unassign : BOOLEAN, force : BOOLEAN]
DeskIdle  == [pc |-> "idle", unassign |-> FALSE, force |-> FALSE]

At(r, step)       == req[r].pc = step
Become(r, record) == req' = [req EXCEPT ![r] = record]
Goto(r, step)     == req' = [req EXCEPT ![r].pc = step]
Follow(r)         == Become(r, [Idle EXCEPT !.pc = "measure", !.chapter = req[r].chapter])
Quiet             == \A r \in Slots : At(r, "idle")

\* The learner writes while a wipe is under way, or without being enrolled.
Late  == admin.pc = "wipe" \/ ~enrolled
Wrote == since' = IF Late THEN since \cup {"late"} ELSE since

-----------------------------------------------------------------------------
(* chapter-progression.ts *)

\* resolveChapterDenominator: the live sections, of a chapter outside the pin.
SectionsOf(c) ==
  {s \in (IF c \in curriculum.chapters THEN curriculum ELSE Live).sections : ChapterOf[s] = c}

\* getChapterIdsInModuleForUser: the live chapters, of a module outside the pin.
ChaptersOf(m) ==
  LET pinned == {c \in curriculum.chapters : ModuleOf[c] = m} IN
  IF pinned # {} THEN pinned ELSE {c \in Live.chapters : ModuleOf[c] = m}

Rows(c) == {s \in Sections : <<c, s>> \in progress}

\* Mutant: a chapter with a quiz is done once its sections are.
ChapterCompleteNoQuiz(c) == Cardinality(Rows(c)) >= Cardinality(SectionsOf(c))

\* isChapterComplete: the rows that name the chapter are counted, whatever sections
\* they are for.
ChapterComplete(c) ==
  /\ Cardinality(Rows(c)) >= Cardinality(SectionsOf(c))
  /\ c \in Quizzed => quiz[c] = "passed"

\* p is the chapter before c in the learner's curriculum.
Precedes(p, c) ==
  /\ {p, c} \subseteq curriculum.chapters /\ p < c
  /\ \A d \in curriculum.chapters : d < c => d <= p

\* assertChapterAccessible: the first chapter is open, a chapter that is not in the
\* curriculum too, and what was recorded stays open.
GateOpen(c) ==
  \A p \in Chapters : Precedes(p, c) => ChapterComplete(p) \/ completed \/ p \in chapters

\* Mutant: every chapter but one is enough.
ModuleDoneButOne(m) == Cardinality(ChaptersOf(m) \ chapters) <= 1

ModuleDone(m) == ChaptersOf(m) # {} /\ ChaptersOf(m) \subseteq chapters

-----------------------------------------------------------------------------
Init ==
  /\ curriculum \in Curricula
  /\ enrolled = TRUE
  /\ progress = {} /\ chapters = {} /\ modules = {} /\ residue = {}
  /\ quiz = [c \in Quizzed |-> "none"]
  /\ completed = FALSE
  /\ req = [r \in Slots |-> Idle]
  /\ admin = DeskIdle
  /\ everPassed = {} /\ since = {}

\* checkContentCompletion (CourseCompletion): a section counts under any chapter.
Complete ==
  /\ ~completed
  /\ curriculum.sections # {}
  /\ \A s \in curriculum.sections : \E c \in Chapters : <<c, s>> \in progress
  /\ \A c \in Quizzed \cap curriculum.chapters : quiz[c] = "passed"
  /\ completed' = TRUE
  /\ Wrote
  /\ UNCHANGED <<course, progress, quiz, chapters, modules, residue, req, admin,
                 everPassed>>

\* Answers, time, forms, policies, feedback, attempts, SCORM registrations,
\* submissions.
LeaveTrace ==
  /\ \E t \in Tables \ residue : residue' = residue \cup {t}
  /\ Wrote
  /\ UNCHANGED <<course, progress, quiz, chapters, modules, completed, req, admin,
                 everPassed>>

Crash(r) ==
  /\ MayCrash /\ ~At(r, "idle")
  /\ Become(r, Idle)
  /\ since' = since \cup {"cut"}
  /\ UNCHANGED <<course, rows, admin, everPassed>>

-----------------------------------------------------------------------------
(* updateUserChapterProgress *)

\* The gate is that of the chapter the request names; whether the section is in that
\* chapter, or in the learner's curriculum, is not looked at.
SectionRequest(r) ==
  /\ At(r, "idle")
  /\ \E c \in Chapters, s \in Sections :
       /\ <<c, s>> \notin progress
       /\ GateOpen(c)
       /\ Become(r, [Idle EXCEPT !.pc = "record", !.section = {s}, !.chapter = c])
  /\ UNCHANGED <<course, rows, admin, history>>

\* The loser of two first completes leaves the rest to the winner.
RecordSection(r) ==
  /\ At(r, "record")
  /\ progress' = progress \cup {<<req[r].chapter, s>> : s \in req[r].section}
  /\ IF progress' = progress THEN Become(r, Idle) ELSE Follow(r)
  /\ since' = since \cup (IF Late THEN {"late"} ELSE {})
                   \cup (IF req[r].section \subseteq SectionsOf(req[r].chapter)
                         THEN {} ELSE {"astray"})
  /\ UNCHANGED <<course, quiz, chapters, modules, completed, residue, admin,
                 everPassed>>

(* createChapterQuizzesReport *)

QuizRequest(r) ==
  /\ At(r, "idle")
  /\ \E c \in Quizzed, grade \in BOOLEAN :
       /\ GateOpen(c)
       /\ Become(r, [Idle EXCEPT !.pc = "report", !.chapter = c,
                                 !.before = quiz[c], !.grade = grade])
  /\ UNCHANGED <<course, rows, admin, history>>

\* A create that finds a report, and an update that finds none, fail.
ReportQuiz(r) ==
  LET c    == req[r].chapter
      pass == req[r].before = "passed" \/ req[r].grade
  IN
  /\ At(r, "report")
  /\ IF (req[r].before = "none") = (quiz[c] = "none")
     THEN /\ quiz' = [quiz EXCEPT ![c] = IF pass THEN "passed" ELSE "failed"]
          /\ everPassed' = IF pass THEN everPassed \cup {c} ELSE everPassed
          /\ Follow(r)
          /\ Wrote
     ELSE Become(r, Idle) /\ UNCHANGED <<quiz, history>>
  /\ UNCHANGED <<course, progress, chapters, modules, completed, residue, admin>>

(* recordChapterAndModuleCompletionIfNeeded *)

Measure(r) ==
  LET c == req[r].chapter IN
  /\ At(r, "measure")
  /\ Goto(r, IF c \notin chapters /\ ChapterComplete(c) THEN "stamp" ELSE "roll")
  /\ UNCHANGED <<course, rows, admin, history>>

\* Mutant: the request ends with the chapter.
StampOnly(r) ==
  /\ At(r, "stamp")
  /\ chapters' = chapters \cup {req[r].chapter}
  /\ Wrote
  /\ Become(r, Idle)
  /\ UNCHANGED <<course, progress, quiz, modules, completed, residue, admin,
                 everPassed>>

\* A duplicate create throws, and the rest of the request is skipped.
StampChapter(r) ==
  LET c == req[r].chapter IN
  /\ At(r, "stamp")
  /\ IF c \in chapters
     THEN Become(r, Idle) /\ UNCHANGED <<chapters, since>>
     ELSE chapters' = chapters \cup {c} /\ Goto(r, "roll") /\ Wrote
  /\ UNCHANGED <<course, progress, quiz, modules, completed, residue, admin,
                 everPassed>>

Roll(r) ==
  LET m == ModuleOf[req[r].chapter] IN
  /\ At(r, "roll")
  /\ IF m \notin modules /\ ModuleDone(m) THEN Goto(r, "award") ELSE Become(r, Idle)
  /\ UNCHANGED <<course, rows, admin, history>>

AwardModule(r) ==
  LET m == ModuleOf[req[r].chapter] IN
  /\ At(r, "award")
  /\ modules' = modules \cup {m}
  /\ Become(r, Idle)
  /\ Wrote
  /\ UNCHANGED <<course, progress, quiz, chapters, completed, residue, admin,
                 everPassed>>

-----------------------------------------------------------------------------
(* Administrators *)

\* A migration moves the pin and touches no row of the learner.
Migrate ==
  /\ MayMigrate /\ enrolled
  /\ curriculum' \in Curricula \ {curriculum}
  /\ since' = since \cup {"moved"}
  /\ UNCHANGED <<enrolled, rows, req, admin, everPassed>>

Assign ==
  /\ ~enrolled
  /\ enrolled' = TRUE
  /\ curriculum' \in Curricula
  /\ since' = IF Quiet THEN since ELSE since \cup {"late"}
  /\ UNCHANGED <<rows, req, admin, everPassed>>

\* Neither counted nor deleted: AssignmentSubmission and SectionTimeSpentDaily.
NeverWiped == {"submission", "daily"}

\* probeUserCourseResidualState
Residual ==
  \/ progress # {} \/ chapters # {} \/ modules # {} \/ completed
  \/ residue \ NeverWiped # {}
  \/ \E c \in Quizzed : quiz[c] # "none"

\* unAssignCourse refuses to lose the learner's state unless forced to.
UnassignRequest ==
  /\ admin.pc = "idle" /\ enrolled
  /\ \E force \in BOOLEAN :
       /\ Residual => force
       /\ admin' = [pc |-> "wipe", unassign |-> TRUE, force |-> force]
  /\ UNCHANGED <<course, rows, req, history>>

\* resetUserCourseProgress
ResetRequest ==
  /\ admin.pc = "idle"
  /\ admin' = [pc |-> "wipe", unassign |-> FALSE, force |-> TRUE]
  /\ UNCHANGED <<course, rows, req, history>>

\* A reset keeps the study time, and leaves SCORM registrations alone.
KeptByReset == {"time", "scorm"}

\* wipeUserCourseState
Wiped == residue \ IF admin.unassign THEN NeverWiped ELSE NeverWiped \cup KeptByReset

Wipe ==
  /\ admin.pc = "wipe"
  /\ progress' = {} /\ chapters' = {} /\ modules' = {} /\ completed' = FALSE
  /\ quiz' = [c \in Quizzed |-> "none"]
  /\ residue' = residue \ Wiped
  /\ enrolled' = (enrolled /\ ~admin.unassign)
  /\ everPassed' = {}
  /\ since' = IF Quiet /\ enrolled THEN {} ELSE {"late"}
  /\ admin' = DeskIdle
  /\ UNCHANGED <<curriculum, req>>

-----------------------------------------------------------------------------
Learn(r) ==
  \/ SectionRequest(r) \/ RecordSection(r) \/ QuizRequest(r) \/ ReportQuiz(r)
  \/ Measure(r) \/ StampChapter(r) \/ Roll(r) \/ AwardModule(r) \/ Crash(r)

Administer ==
  \/ Migrate \/ Assign \/ UnassignRequest \/ ResetRequest \/ Wipe

Next == Complete \/ LeaveTrace \/ Administer \/ \E r \in Slots : Learn(r)

Spec == Init /\ [][Next]_vars

-----------------------------------------------------------------------------
(* Properties *)

\* Every variable has its type.
TypeOK ==
  /\ curriculum \in Curricula
  /\ enrolled \in BOOLEAN /\ completed \in BOOLEAN
  /\ progress \subseteq Chapters \X Sections
  /\ quiz \in [Quizzed -> QuizState]
  /\ chapters \subseteq Chapters /\ modules \subseteq Modules
  /\ residue \subseteq Tables
  /\ req \in [Slots -> Request]
  /\ admin \in Desk
  /\ everPassed \subseteq Quizzed
  /\ since \subseteq Events

\* As many rows as the chapter has sections, and its quiz passed once.
Counted(c) ==
  /\ Cardinality(Rows(c)) >= Cardinality(SectionsOf(c))
  /\ c \in Quizzed => c \in everPassed

\* Every section of the chapter was done under it, and its quiz passed once.
Earned(c) == SectionsOf(c) \subseteq Rows(c) /\ (c \in Quizzed => c \in everPassed)

\* The chapter before c was finished: its sections themselves, for a learner whose
\* requests named each section's own chapter.
Reached(c) ==
  \A p \in Chapters : Precedes(p, c) =>
    /\ Counted(p) \/ completed
    /\ "astray" \notin since => Earned(p)

\* Chapters are taken in order (assertChapterAccessible): a row of a chapter is
\* there only if the chapter before it in the curriculum was finished, for a learner
\* whose curriculum stood still and whose rows were not wiped under a request.
InOrder ==
  since \cap {"moved", "late"} = {} => \A row \in progress : Reached(row[1])

\* The chapter itself was, likewise.
Finished(c) == Counted(c) /\ ("astray" \notin since => Earned(c))

\* What is recorded as finished was (recordChapterAndModuleCompletionIfNeeded):
\* a chapter in its rows, or, if requests named each section's own chapter, in its
\* sections; and a module that is recorded consists of finished chapters.
RecordedIsEarned ==
  since \cap {"moved", "late"} = {} =>
    /\ \A c \in chapters : Finished(c)
    /\ \A m \in modules : ChaptersOf(m) # {} /\ ChaptersOf(m) \subseteq chapters

\* Once the learner's requests have ended, whatever is finished is recorded: of
\* the requests that finish the chapters of a module together, one sees them all,
\* although the loser of a duplicate create gives up.
FinishedIsRecorded ==
  Quiet /\ since \subseteq {"astray"} =>
    /\ \A c \in Chapters : SectionsOf(c) # {} /\ ChapterComplete(c) => c \in chapters
    /\ \A m \in Modules : ModuleDone(m) => m \in modules

\* A row of the learner's in this course, enrolment apart.
HasRows == Residual \/ residue # {}

\* The next assignment cannot resurrect the state of the last one (unAssignCourse).
\* It can: a request in flight writes its row after the wipe, and two tables are
\* not wiped.
NothingResurrected == ~enrolled /\ Quiet => ~HasRows

\* Unassigning without force deletes nothing of the learner's (unAssignCourse).  It
\* can: what the learner writes between the probe and the wipe.
UnforcedLosesNothing == [][enrolled /\ ~enrolled' /\ ~admin.force => ~Residual]_vars
=============================================================================
