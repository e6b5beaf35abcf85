------------------------ MODULE LearnerProgress_proofs -------------------------
(***************************************************************************)
(* Proofs about LearnerProgress, for any course, any curricula and any     *)
(* number of concurrent requests of the learner: chapters are taken in     *)
(* order, what is recorded as finished was finished, and what is finished  *)
(* is recorded.                                                            *)
(*                                                                         *)
(* The argument: between its read and its write a request carries evidence *)
(* that rows of a learner who is left alone cannot take back, for they are *)
(* only added. Conversely, what is finished and not recorded is being      *)
(* followed up by a request that measures after the last row it needs.     *)
(***************************************************************************)
EXTENDS LearnerProgress, FiniteSetTheorems, TLAPS

\* Nobody moved the learner's pin, and no request ran into a wipe.
Steady == since \cap {"moved", "late"} = {}

\* A pass that shows was recorded as one.
PassedOnce == \A c \in Quizzed : quiz[c] = "passed" => c \in everPassed

\* Reports are written for chapters with a quiz.
Asked == \A r \in Slots : At(r, "report") => req[r].chapter \in Quizzed

\* What a request has found out and not written yet.
Carries(r) ==
  /\ At(r, "record") => Reached(req[r].chapter)
  /\ At(r, "stamp") => Finished(req[r].chapter)
  /\ At(r, "award") => ModuleDone(ModuleOf[req[r].chapter])

\* The row of a section names its own chapter, of the learner's curriculum or else of
\* the live course.
Placed == \A row \in progress : row[2] \in SectionsOf(row[1])

\* Of a steady learner: the rows are in their places unless a request named another
\* chapter, and then completion covers the curriculum.
Within ==
  Steady =>
    /\ "astray" \notin since =>
         /\ Placed
         /\ completed => \A c \in curriculum.chapters : Earned(c)
    /\ \A r \in Slots : Carries(r)

\* No row of a learner who was unassigned is left, but what came late.
Emptied ==
  ~enrolled /\ "late" \notin since =>
    progress = {} /\ chapters = {} /\ modules = {} /\ ~completed

\* The inductive invariant.
IInv ==
  /\ TypeOK /\ Asked /\ PassedOnce /\ Within /\ InOrder /\ RecordedIsEarned /\ Emptied

USE DEF At, Become, Goto, Follow, rows, course, history

-----------------------------------------------------------------------------
\* A request at rest is one.
LEMMA IdleRequest == Idle \in Request /\ Idle.pc = "idle"
<1>1. 1 \in Chapters
  BY ProgressAssumption DEF Chapters
<1> QED BY <1>1 DEF Idle, Request, QuizState

\* The rows of a chapter, and its sections, are finite sets.
LEMMA FiniteRows ==
  ASSUME progress \subseteq Chapters \X Sections, curriculum \in Curricula, NEW c
  PROVE  /\ IsFiniteSet(Rows(c)) /\ Cardinality(Rows(c)) \in Nat
         /\ IsFiniteSet(SectionsOf(c)) /\ Cardinality(SectionsOf(c)) \in Nat
<1>1. Rows(c) \subseteq Sections
  BY DEF Rows
<1>2. SectionsOf(c) \subseteq Sections
  BY ProgressAssumption DEF SectionsOf, Curriculum
<1> QED BY <1>1, <1>2, ProgressAssumption, FS_Subset, FS_CardinalityType

\* What the gate takes for a complete chapter is finished, of a steady learner.
LEMMA CompleteIsFinished ==
  ASSUME TypeOK, PassedOnce, "astray" \notin since => Placed,
         NEW c \in Chapters, ChapterComplete(c)
  PROVE  Finished(c)
<1>1. c \in Quizzed => c \in everPassed
  BY DEF ChapterComplete, PassedOnce
<1>2. Cardinality(Rows(c)) >= Cardinality(SectionsOf(c))
  BY DEF ChapterComplete
<1>3. ASSUME "astray" \notin since PROVE SectionsOf(c) \subseteq Rows(c)
  <2>1. Rows(c) \subseteq SectionsOf(c)
    BY <1>3 DEF Rows, Placed
  <2>2. /\ IsFiniteSet(SectionsOf(c)) /\ Cardinality(SectionsOf(c)) \in Nat
        /\ Cardinality(Rows(c)) \in Nat
    BY FiniteRows DEF TypeOK
  <2>3. /\ Cardinality(Rows(c)) <= Cardinality(SectionsOf(c))
        /\ Cardinality(Rows(c)) = Cardinality(SectionsOf(c)) => Rows(c) = SectionsOf(c)
    BY <2>1, <2>2, FS_Subset
  <2>4. Rows(c) = SectionsOf(c)
    BY <1>2, <2>2, <2>3
  <2> QED BY <2>4
<1> QED BY <1>1, <1>2, <1>3 DEF Finished, Counted, Earned

\* A request that ends or goes on to measure leaves the others alone.
LEMMA Onward ==
  ASSUME TypeOK, NEW r \in Slots, Become(r, Idle) \/ Follow(r)
  PROVE  /\ \A q \in Slots : q # r => req'[q] = req[q]
         /\ req'[r].pc \in {"idle", "measure"}
<1>1. CASE Become(r, Idle)
  BY <1>1, IdleRequest DEF TypeOK
<1>2. CASE Follow(r)
  <2>1. [Idle EXCEPT !.pc = "measure", !.chapter = req[r].chapter].pc = "measure"
    BY DEF Idle
  <2> QED BY <1>2, <2>1 DEF TypeOK
<1> QED BY <1>1, <1>2

\* So the chapter before one that opens is finished.
LEMMA GateIsReached ==
  ASSUME IInv, Steady, NEW c \in Chapters, GateOpen(c)
  PROVE  Reached(c)
<1> SUFFICES ASSUME NEW p \in Chapters, Precedes(p, c)
             PROVE  (Counted(p) \/ completed) /\ ("astray" \notin since => Earned(p))
  BY DEF Reached
<1>1. CASE ChapterComplete(p)
  <2>1. Finished(p)
    BY <1>1, CompleteIsFinished DEF IInv, Within
  <2> QED BY <2>1 DEF Finished
<1>2. CASE completed
  BY <1>2 DEF IInv, Within, Precedes
<1>3. CASE p \in chapters
  BY <1>3 DEF IInv, RecordedIsEarned, Steady, Finished
<1> QED BY <1>1, <1>2, <1>3 DEF GateOpen

\* What is finished stays so while rows are only added.
LEMMA FinishedStays ==
  ASSUME TypeOK, TypeOK', curriculum' = curriculum, since \subseteq since',
         progress \subseteq progress', everPassed \subseteq everPassed',
         completed => completed', NEW c
  PROVE  /\ Earned(c) => Earned(c)'
         /\ Counted(c) => Counted(c)'
         /\ Finished(c) => Finished(c)'
         /\ Reached(c) => Reached(c)'
<1>1. ASSUME NEW d PROVE SectionsOf(d)' = SectionsOf(d) /\ Rows(d) \subseteq Rows(d)'
  BY DEF SectionsOf, Rows
<1>2. ASSUME NEW d, Earned(d) PROVE Earned(d)'
  BY <1>1, <1>2 DEF Earned
<1>3. ASSUME NEW d, Counted(d) PROVE Counted(d)'
  <2>1. /\ Cardinality(Rows(d)) \in Nat /\ Cardinality(SectionsOf(d)) \in Nat
    BY FiniteRows DEF TypeOK
  <2>2. IsFiniteSet(Rows(d)') /\ Cardinality(Rows(d)') \in Nat
    <3>1. Rows(d)' \subseteq Sections
      BY DEF Rows
    <3> QED BY <3>1, ProgressAssumption, FS_Subset, FS_CardinalityType
  <2>3. Cardinality(Rows(d)) <= Cardinality(Rows(d)')
    BY <1>1, <2>2, FS_Subset
  <2>4. Cardinality(Rows(d)) >= Cardinality(SectionsOf(d))
    BY <1>3 DEF Counted
  <2>5. Cardinality(Rows(d)') >= Cardinality(SectionsOf(d)')
    BY <1>1, <2>1, <2>2, <2>3, <2>4
  <2> QED BY <1>3, <2>5 DEF Counted
<1>4. \A p : Precedes(p, c)' <=> Precedes(p, c)
  BY DEF Precedes
<1>5. Reached(c) => Reached(c)'
  BY <1>2, <1>3, <1>4 DEF Reached
<1>6. Finished(c) => Finished(c)'
  BY <1>2, <1>3 DEF Finished
<1> QED BY <1>2, <1>3, <1>5, <1>6

-----------------------------------------------------------------------------
\* Every step keeps the types.
LEMMA TypeStep == TypeOK /\ Asked /\ [Next]_vars => TypeOK'
<1> SUFFICES ASSUME TypeOK, Asked, [Next]_vars PROVE TypeOK'
  OBVIOUS
<1>0. /\ \A r \in Slots : req[r] \in Request
      /\ \A r \in Slots : req[r].chapter \in Chapters /\ req[r].section \subseteq Sections
      /\ \A s \in Sections : ChapterOf[s] \in Chapters
      /\ \A c \in Chapters : ModuleOf[c] \in Modules
  BY ProgressAssumption DEF TypeOK, Request, Modules
<1>1. CASE Complete
  BY <1>1 DEF Complete, Wrote, TypeOK, Events
<1>2. CASE LeaveTrace
  BY <1>2 DEF LeaveTrace, Wrote, TypeOK, Events
<1>3. CASE Migrate
  BY <1>3 DEF Migrate, TypeOK, Events
<1>4. CASE Assign
  BY <1>4 DEF Assign, TypeOK, Events
<1>5. CASE UnassignRequest
  BY <1>5 DEF UnassignRequest, TypeOK, Desk
<1>6. CASE ResetRequest
  BY <1>6 DEF ResetRequest, TypeOK, Desk
<1>7. CASE Wipe
  <2>1. quiz' \in [Quizzed -> QuizState]
    BY <1>7 DEF Wipe, QuizState
  <2>2. enrolled' \in BOOLEAN /\ admin' \in Desk /\ since' \subseteq Events
    BY <1>7 DEF Wipe, TypeOK, Desk, DeskIdle, Events
  <2> QED BY <1>7, <2>1, <2>2 DEF Wipe, TypeOK
<1>8. ASSUME NEW r \in Slots, Crash(r) PROVE TypeOK'
  <2>1. Idle \in Request
    BY <1>0, IdleRequest
  <2> QED BY <1>8, <2>1 DEF Crash, TypeOK, Events
<1>9. ASSUME NEW r \in Slots, SectionRequest(r) PROVE TypeOK'
  <2>1. PICK c \in Chapters, s \in Sections :
          Become(r, [Idle EXCEPT !.pc = "record", !.section = {s}, !.chapter = c])
    BY <1>9 DEF SectionRequest
  <2>2. [Idle EXCEPT !.pc = "record", !.section = {s}, !.chapter = c] \in Request
    BY <1>0, IdleRequest DEF Request
  <2> QED BY <1>9, <2>1, <2>2 DEF SectionRequest, TypeOK
<1>10. ASSUME NEW r \in Slots, RecordSection(r) PROVE TypeOK'
  <2>1. Idle \in Request /\ [Idle EXCEPT !.pc = "measure", !.chapter = req[r].chapter] \in Request
    BY <1>0, IdleRequest DEF Request
  <2>2. progress' \subseteq Chapters \X Sections /\ since' \subseteq Events
    BY <1>0, <1>10 DEF RecordSection, TypeOK, Events
  <2> QED BY <1>10, <2>1, <2>2 DEF RecordSection, TypeOK
<1>11. ASSUME NEW r \in Slots, QuizRequest(r) PROVE TypeOK'
  <2>1. PICK c \in Quizzed, grade \in BOOLEAN :
          Become(r, [Idle EXCEPT !.pc = "report", !.chapter = c,
                                 !.before = quiz[c], !.grade = grade])
    BY <1>11 DEF QuizRequest
  <2>2. [Idle EXCEPT !.pc = "report", !.chapter = c, !.before = quiz[c], !.grade = grade]
          \in Request
    BY <1>0, IdleRequest, ProgressAssumption DEF Request, TypeOK
  <2> QED BY <1>11, <2>1, <2>2 DEF QuizRequest, TypeOK
<1>12. ASSUME NEW r \in Slots, ReportQuiz(r) PROVE TypeOK'
  <2>1. Idle \in Request /\ [Idle EXCEPT !.pc = "measure", !.chapter = req[r].chapter] \in Request
    BY <1>0, IdleRequest DEF Request
  <2>2. quiz' \in [Quizzed -> QuizState]
    BY <1>12 DEF ReportQuiz, TypeOK, QuizState
  <2>3. everPassed' \subseteq Quizzed
    BY <1>12 DEF ReportQuiz, TypeOK, Asked
  <2>4. since' \subseteq Events
    BY <1>12 DEF ReportQuiz, Wrote, TypeOK, Events
  <2> QED BY <1>12, <2>1, <2>2, <2>3, <2>4 DEF ReportQuiz, TypeOK
<1>13. ASSUME NEW r \in Slots, Measure(r) \/ Roll(r) PROVE TypeOK'
  <2>1. /\ Idle \in Request
        /\ \A step \in {"stamp", "roll", "award"} : [req[r] EXCEPT !.pc = step] \in Request
    BY <1>0, IdleRequest DEF Request
  <2> QED BY <1>13, <2>1 DEF Measure, Roll, TypeOK
<1>14. ASSUME NEW r \in Slots, StampChapter(r) PROVE TypeOK'
  <2>1. Idle \in Request /\ [req[r] EXCEPT !.pc = "roll"] \in Request
    BY <1>0, IdleRequest DEF Request
  <2> QED BY <1>0, <1>14, <2>1 DEF StampChapter, Wrote, TypeOK, Events
<1>15. ASSUME NEW r \in Slots, AwardModule(r) PROVE TypeOK'
  <2>1. Idle \in Request
    BY <1>0, IdleRequest
  <2> QED BY <1>0, <1>15, <2>1 DEF AwardModule, Wrote, TypeOK, Events
<1>16. CASE UNCHANGED vars
  BY <1>16 DEF vars, TypeOK
<1> QED
  BY <1>1, <1>2, <1>3, <1>4, <1>5, <1>6, <1>7, <1>8, <1>9, <1>10, <1>11, <1>12, <1>13,
     <1>14, <1>15, <1>16 DEF Next, Learn, Administer

\* A report is asked for a quiz.
LEMMA AskedStep == TypeOK /\ Asked /\ [Next]_vars => Asked'
<1> SUFFICES ASSUME TypeOK, Asked, [Next]_vars, NEW q \in Slots, req'[q].pc = "report"
             PROVE  req'[q].chapter \in Quizzed
  BY DEF Asked
<1>1. CASE req'[q] = req[q]
  BY <1>1 DEF Asked
<1>2. ASSUME NEW r \in Slots, Learn(r), q = r, req'[q] # req[q]
      PROVE  req'[q].chapter \in Quizzed
  <2>1. CASE QuizRequest(r)
    <3>1. PICK c \in Quizzed, grade \in BOOLEAN :
            Become(r, [Idle EXCEPT !.pc = "report", !.chapter = c,
                                   !.before = quiz[c], !.grade = grade])
      BY <2>1 DEF QuizRequest
    <3>2. req'[r] = [Idle EXCEPT !.pc = "report", !.chapter = c,
                                 !.before = quiz[c], !.grade = grade]
      BY <3>1 DEF TypeOK
    <3>3. req'[r].chapter = c
      BY <3>2 DEF Idle
    <3> QED BY <1>2, <3>3
  <2>2. CASE SectionRequest(r)
    BY <1>2, <2>2 DEF SectionRequest, Idle, TypeOK
  <2>3. CASE \/ RecordSection(r) \/ ReportQuiz(r) \/ Measure(r) \/ StampChapter(r)
             \/ Roll(r) \/ AwardModule(r) \/ Crash(r)
    <3>1. \/ Become(r, Idle) \/ Follow(r)
          \/ \E step \in {"stamp", "roll", "award"} : Goto(r, step)
      BY <2>3 DEF RecordSection, ReportQuiz, Measure, StampChapter, Roll, AwardModule, Crash
    <3>2. req'[r].pc \in {"idle", "measure", "stamp", "roll", "award"}
      BY <3>1, Onward DEF TypeOK, Request
    <3> QED BY <1>2, <3>2
  <2> QED BY <1>2, <2>1, <2>2, <2>3 DEF Learn
<1>3. ASSUME NEW r \in Slots, Learn(r), q # r PROVE req'[q] = req[q]
  BY <1>3 DEF Learn, SectionRequest, RecordSection, QuizRequest, ReportQuiz, Measure,
              StampChapter, Roll, AwardModule, Crash, TypeOK
<1>4. CASE Complete \/ LeaveTrace \/ Administer \/ UNCHANGED vars
  BY <1>1, <1>4 DEF Complete, LeaveTrace, Administer, Migrate, Assign, UnassignRequest,
                    ResetRequest, Wipe, vars
<1> QED BY <1>1, <1>2, <1>3, <1>4 DEF Next

-----------------------------------------------------------------------------
\* A step that only adds rows keeps the invariant if what it adds is finished.
LEMMA Grows ==
  ASSUME IInv, TypeOK', Steady, curriculum' = curriculum, since \subseteq since',
         progress \subseteq progress', chapters \subseteq chapters',
         everPassed \subseteq everPassed', completed => completed',
         \A row \in progress' \ progress : Reached(row[1]),
         "astray" \notin since' => \A row \in progress' : row[2] \in SectionsOf(row[1]),
         \A c \in chapters' \ chapters : Finished(c),
         \A m \in modules' \ modules : ModuleDone(m),
         completed' /\ "astray" \notin since =>
           completed \/ \A c \in curriculum.chapters : Earned(c),
         \A r \in Slots : req'[r] = req[r] \/ Carries(r)'
  PROVE  Within' /\ InOrder' /\ RecordedIsEarned'
<1>0. TypeOK
  BY DEF IInv
<1>1. ASSUME NEW c
      PROVE  /\ Earned(c) => Earned(c)'
             /\ Finished(c) => Finished(c)'
             /\ Reached(c) => Reached(c)'
  BY <1>0, FinishedStays
<1>2. /\ \A row \in progress : Reached(row[1])
      /\ \A c \in chapters : Finished(c)
      /\ \A m \in modules : ModuleDone(m)
      /\ completed /\ "astray" \notin since => \A c \in curriculum.chapters : Earned(c)
      /\ \A r \in Slots : Carries(r)
  BY DEF IInv, InOrder, RecordedIsEarned, Within, Steady, ModuleDone
<1>3. ASSUME NEW m, ModuleDone(m) PROVE ModuleDone(m)'
  BY <1>3 DEF ModuleDone, ChaptersOf
<1>4. InOrder'
  BY <1>1, <1>2 DEF InOrder
<1>5. RecordedIsEarned'
  <2>1. \A c \in chapters' : Finished(c)'
    BY <1>1, <1>2
  <2>2. \A m \in modules' : ModuleDone(m)'
    BY <1>2, <1>3
  <2> QED BY <2>1, <2>2 DEF RecordedIsEarned, ModuleDone
<1>6. ASSUME NEW r \in Slots PROVE Carries(r)'
  <2>1. CASE req'[r] = req[r]
    <3>1. Carries(r)
      BY <1>2
    <3> QED BY <1>1, <1>3, <2>1, <3>1 DEF Carries
  <2> QED BY <2>1
<1>7. "astray" \notin since' => Placed'
  BY DEF Placed, SectionsOf
<1>8. completed' /\ "astray" \notin since' => \A c \in curriculum'.chapters : Earned(c)'
  BY <1>1, <1>2
<1>9. Within'
  BY <1>6, <1>7, <1>8 DEF Within
<1> QED BY <1>4, <1>5, <1>9

\* A pass that shows stays recorded.
LEMMA PassedStep == TypeOK /\ PassedOnce /\ [Next]_vars => PassedOnce'
<1> SUFFICES ASSUME TypeOK, PassedOnce, [Next]_vars PROVE PassedOnce'
  OBVIOUS
<1>1. ASSUME NEW r \in Slots, ReportQuiz(r) PROVE PassedOnce'
  BY <1>1 DEF ReportQuiz, PassedOnce, TypeOK
<1>2. CASE Wipe
  BY <1>2 DEF Wipe, PassedOnce
<1>3. CASE UNCHANGED <<quiz, everPassed>>
  BY <1>3 DEF PassedOnce
<1>4. ASSUME NEW r \in Slots, Learn(r), ~ReportQuiz(r) PROVE UNCHANGED <<quiz, everPassed>>
  BY <1>4 DEF Learn, SectionRequest, RecordSection, QuizRequest, Measure, StampChapter, Roll,
              AwardModule, Crash
<1>5. CASE \/ Complete \/ LeaveTrace \/ Migrate \/ Assign \/ UnassignRequest
           \/ ResetRequest \/ UNCHANGED vars
  BY <1>3, <1>5 DEF Complete, LeaveTrace, Migrate, Assign, UnassignRequest, ResetRequest, vars
<1> QED BY <1>1, <1>2, <1>3, <1>4, <1>5 DEF Next, Administer

\* A request of a steady learner adds what it found finished.
LEMMA LearnStep ==
  ASSUME IInv, TypeOK', Steady, NEW r \in Slots, Learn(r)
  PROVE  Within' /\ InOrder' /\ RecordedIsEarned'
<1>0. /\ TypeOK /\ PassedOnce /\ Carries(r)
      /\ "astray" \notin since => Placed
      /\ req[r] \in Request /\ req[r].chapter \in Chapters
  BY DEF IInv, Within, TypeOK, Request
<1> DEFINE Goal   == Within' /\ InOrder' /\ RecordedIsEarned'
           Others == \A q \in Slots : q # r => req'[q] = req[q]
\* Steps that add no row.
<1>1. ASSUME UNCHANGED <<curriculum, progress, chapters, modules, completed>>,
             since \subseteq since', everPassed \subseteq everPassed', Others, Carries(r)'
      PROVE  Goal
  BY <1>0, <1>1, Grows DEF Placed
<1>2. CASE SectionRequest(r)
  <2>1. PICK c \in Chapters, s \in Sections :
          /\ GateOpen(c)
          /\ Become(r, [Idle EXCEPT !.pc = "record", !.section = {s}, !.chapter = c])
    BY <1>2 DEF SectionRequest
  <2>2. /\ req'[r].pc = "record" /\ req'[r].chapter = c /\ Others
        /\ UNCHANGED <<curriculum, progress, everPassed, since, completed>>
    BY <1>0, <1>2, <2>1 DEF SectionRequest, TypeOK, Idle
  <2>3. Reached(c)
    BY <2>1, GateIsReached
  <2>4. Reached(c)'
    BY <1>0, <2>2, <2>3, FinishedStays
  <2>5. Carries(r)'
    BY <2>2, <2>4 DEF Carries
  <2> QED BY <1>1, <1>2, <2>2, <2>5 DEF SectionRequest
<1>3. CASE RecordSection(r)
  <2>1. /\ Others /\ req'[r].pc \in {"idle", "measure"}
        /\ progress' = progress \cup {<<req[r].chapter, s>> : s \in req[r].section}
        /\ since \subseteq since'
        /\ UNCHANGED <<curriculum, chapters, modules, completed, everPassed>>
    <3>1. Become(r, Idle) \/ Follow(r)
      BY <1>3 DEF RecordSection
    <3>2. Others /\ req'[r].pc \in {"idle", "measure"}
      BY <1>0, <3>1, Onward
    <3> QED BY <1>3, <3>2 DEF RecordSection
  <2>2. Reached(req[r].chapter)
    BY <1>0, <1>3 DEF RecordSection, Carries
  <2>3. \A row \in progress' \ progress : Reached(row[1])
    BY <2>1, <2>2
  <2>4. ASSUME "astray" \notin since' PROVE \A row \in progress' : row[2] \in SectionsOf(row[1])
    <3>1. "astray" \notin since /\ req[r].section \subseteq SectionsOf(req[r].chapter)
      BY <1>3, <2>4 DEF RecordSection
    <3> QED BY <1>0, <2>1, <3>1 DEF Placed
  <2>5. Carries(r)'
    BY <2>1 DEF Carries
  <2> QED BY <1>0, <2>1, <2>3, <2>4, <2>5, Grows
<1>4. CASE QuizRequest(r)
  <2>1. Others /\ req'[r].pc = "report"
    BY <1>0, <1>4 DEF QuizRequest, TypeOK, Idle
  <2>2. Carries(r)'
    BY <2>1 DEF Carries
  <2> QED BY <1>1, <1>4, <2>1, <2>2 DEF QuizRequest
<1>5. CASE ReportQuiz(r)
  <2>1. Others /\ req'[r].pc \in {"idle", "measure"}
    <3>1. Become(r, Idle) \/ Follow(r)
      BY <1>5 DEF ReportQuiz
    <3> QED BY <1>0, <3>1, Onward
  <2>2. Carries(r)' /\ everPassed \subseteq everPassed' /\ since \subseteq since'
    BY <1>5, <2>1 DEF Carries, ReportQuiz, Wrote
  <2> QED BY <1>1, <1>5, <2>1, <2>2 DEF ReportQuiz
<1>6. CASE Measure(r)
  <2>1. /\ Others /\ req'[r].chapter = req[r].chapter
        /\ req'[r].pc \in {"stamp", "roll"}
        /\ req'[r].pc = "stamp" => ChapterComplete(req[r].chapter)
        /\ UNCHANGED <<curriculum, progress, everPassed, since, completed>>
    BY <1>0, <1>6 DEF Measure, TypeOK, Request
  <2>2. req'[r].pc = "stamp" => Finished(req[r].chapter)'
    <3>1. ChapterComplete(req[r].chapter) => Finished(req[r].chapter)
      BY <1>0, CompleteIsFinished
    <3> QED BY <1>0, <2>1, <3>1, FinishedStays
  <2>3. Carries(r)'
    BY <2>1, <2>2 DEF Carries
  <2> QED BY <1>1, <1>6, <2>1, <2>3 DEF Measure
<1>7. CASE StampChapter(r)
  <2>1. /\ Others /\ req'[r].pc \in {"idle", "roll"}
        /\ chapters' \subseteq chapters \cup {req[r].chapter} /\ chapters \subseteq chapters'
        /\ UNCHANGED <<curriculum, progress, modules, completed, everPassed>>
        /\ since \subseteq since'
    BY <1>0, <1>7 DEF StampChapter, Wrote, TypeOK, Idle, Request
  <2>2. Finished(req[r].chapter)
    BY <1>0, <1>7 DEF StampChapter, Carries
  <2>3. Carries(r)'
    BY <2>1 DEF Carries
  <2> QED BY <1>0, <2>1, <2>2, <2>3, Grows DEF Placed
<1>8. CASE Roll(r)
  <2>1. /\ Others /\ req'[r].pc \in {"idle", "award"}
        /\ req'[r].pc = "award" =>
             /\ req'[r].chapter = req[r].chapter
             /\ ModuleDone(ModuleOf[req[r].chapter])
        /\ UNCHANGED <<chapters, curriculum>>
    BY <1>0, <1>8 DEF Roll, TypeOK, Idle, Request
  <2>2. Carries(r)'
    BY <2>1 DEF Carries, ModuleDone, ChaptersOf
  <2> QED BY <1>1, <1>8, <2>1, <2>2 DEF Roll
<1>9. CASE AwardModule(r)
  <2>1. /\ Others /\ req'[r].pc = "idle"
        /\ modules' = modules \cup {ModuleOf[req[r].chapter]}
        /\ UNCHANGED <<curriculum, progress, chapters, completed, everPassed>>
        /\ since \subseteq since'
    BY <1>0, <1>9 DEF AwardModule, Wrote, TypeOK, Idle
  <2>2. ModuleDone(ModuleOf[req[r].chapter])
    BY <1>0, <1>9 DEF AwardModule, Carries
  <2>3. Carries(r)'
    BY <2>1 DEF Carries
  <2> QED BY <1>0, <2>1, <2>2, <2>3, Grows DEF Placed
<1>10. CASE Crash(r)
  <2>1. Others /\ req'[r].pc = "idle"
    BY <1>0, <1>10 DEF Crash, TypeOK, Idle
  <2>2. Carries(r)'
    BY <2>1 DEF Carries
  <2> QED BY <1>1, <1>10, <2>1, <2>2 DEF Crash
<1> QED
  BY <1>2, <1>3, <1>4, <1>5, <1>6, <1>7, <1>8, <1>9, <1>10 DEF Learn

\* Every step keeps what is recorded earned, of a steady learner.
LEMMA SteadyStep ==
  IInv /\ TypeOK' /\ [Next]_vars => Within' /\ InOrder' /\ RecordedIsEarned'
<1> SUFFICES ASSUME IInv, TypeOK', [Next]_vars PROVE Within' /\ InOrder' /\ RecordedIsEarned'
  OBVIOUS
<1> DEFINE Goal == Within' /\ InOrder' /\ RecordedIsEarned'
<1>1. CASE ~Steady'
  BY <1>1 DEF Steady, Within, InOrder, RecordedIsEarned
<1>2. ASSUME Steady, UNCHANGED <<curriculum, progress, chapters, modules, everPassed, req>>,
             since \subseteq since', completed => completed',
             completed' /\ "astray" \notin since =>
               completed \/ \A c \in curriculum.chapters : Earned(c)
      PROVE  Goal
  <2>1. "astray" \notin since' => \A row \in progress' : row[2] \in SectionsOf(row[1])
    BY <1>2 DEF IInv, Within, Placed
  <2> QED BY <1>2, <2>1, Grows
<1>3. CASE Steady' /\ Complete
  <2>1. Steady
    BY <1>3 DEF Complete, Wrote, Steady
  <2>2. ASSUME "astray" \notin since, NEW c \in curriculum.chapters PROVE Earned(c)
    <3>1. ASSUME NEW s \in SectionsOf(c) PROVE s \in Rows(c)
      <4>1. s \in curriculum.sections /\ s \in Sections /\ ChapterOf[s] = c
        BY <2>2, <3>1, ProgressAssumption DEF SectionsOf, IInv, TypeOK, Curriculum
      <4>2. PICK d \in Chapters : <<d, s>> \in progress
        BY <1>3, <4>1 DEF Complete
      <4>3. s \in SectionsOf(d)
        BY <2>1, <2>2, <4>2 DEF IInv, Within, Placed
      <4>4. d = c
        BY <4>1, <4>3 DEF SectionsOf
      <4> QED BY <4>1, <4>2, <4>4 DEF Rows
    <3>2. c \in Quizzed => c \in everPassed
      BY <1>3, <2>2 DEF Complete, IInv, PassedOnce
    <3> QED BY <3>1, <3>2 DEF Earned
  <2> QED BY <1>2, <1>3, <2>1, <2>2 DEF Complete, Wrote
<1>4. CASE Steady' /\ LeaveTrace
  <2>1. Steady
    BY <1>4 DEF LeaveTrace, Wrote, Steady
  <2> QED BY <1>2, <1>4, <2>1 DEF LeaveTrace, Wrote
<1>5. CASE Steady' /\ Migrate
  BY <1>5 DEF Migrate, Steady
<1>6. CASE Steady' /\ Assign
  <2>1. Quiet /\ since' = since /\ ~enrolled /\ UNCHANGED <<rows, req>>
    BY <1>6 DEF Assign, Steady
  <2>2. progress = {} /\ chapters = {} /\ modules = {} /\ ~completed
    BY <1>6, <2>1 DEF IInv, Emptied, Steady
  <2>3. progress' = {} /\ chapters' = {} /\ modules' = {} /\ ~completed' /\ Quiet'
    BY <2>1, <2>2 DEF Quiet
  <2> QED BY <2>3 DEF Within, Placed, InOrder, RecordedIsEarned, Carries, Quiet
<1>7. CASE Steady' /\ Wipe
  <2>1. Quiet /\ UNCHANGED req
    BY <1>7 DEF Wipe, Steady
  <2>2. progress' = {} /\ chapters' = {} /\ modules' = {} /\ ~completed' /\ Quiet'
    BY <1>7, <2>1 DEF Wipe, Quiet
  <2> QED BY <2>2 DEF Within, Placed, InOrder, RecordedIsEarned, Carries, Quiet
<1>8. CASE Steady' /\ (UnassignRequest \/ ResetRequest \/ UNCHANGED vars)
  <2>1. Steady
    BY <1>8 DEF UnassignRequest, ResetRequest, vars, Steady
  <2> QED BY <1>2, <1>8, <2>1 DEF UnassignRequest, ResetRequest, vars
<1>9. ASSUME NEW r \in Slots, Steady', Learn(r) PROVE Goal
  <2>1. since \subseteq since'
    BY <1>9 DEF Learn, SectionRequest, RecordSection, QuizRequest, ReportQuiz, Measure,
                StampChapter, Roll, AwardModule, Crash, Wrote
  <2>2. Steady
    BY <1>9, <2>1 DEF Steady
  <2> QED BY <1>9, <2>2, LearnStep
<1> QED
  BY <1>1, <1>3, <1>4, <1>5, <1>6, <1>7, <1>8, <1>9 DEF Next, Administer

-----------------------------------------------------------------------------
\* Rows appear while the learner is enrolled, or are late.
LEMMA EmptiedStep == IInv /\ [Next]_vars => Emptied'
<1> SUFFICES ASSUME IInv, [Next]_vars, "late" \notin since', ~enrolled'
             PROVE  progress' = {} /\ chapters' = {} /\ modules' = {} /\ ~completed'
  BY DEF Emptied
<1> DEFINE Goal == progress' = {} /\ chapters' = {} /\ modules' = {} /\ ~completed'
<1>1. ASSUME UNCHANGED <<progress, chapters, modules, completed, enrolled>>,
             "late" \notin since
      PROVE  Goal
  BY <1>1 DEF IInv, Emptied
<1>2. CASE Complete \/ LeaveTrace
  BY <1>2 DEF Complete, LeaveTrace, Wrote, Late
<1>3. CASE Migrate \/ Assign \/ UnassignRequest \/ ResetRequest \/ UNCHANGED vars
  BY <1>1, <1>3 DEF Migrate, Assign, UnassignRequest, ResetRequest, vars
<1>4. CASE Wipe
  BY <1>4 DEF Wipe
<1>5. ASSUME NEW r \in Slots, Learn(r) PROVE Goal
  <2>1. enrolled' = enrolled /\ since \subseteq since'
    BY <1>5 DEF Learn, SectionRequest, RecordSection, QuizRequest, ReportQuiz, Measure,
                StampChapter, Roll, AwardModule, Crash, Wrote
  <2>2. UNCHANGED <<progress, chapters, modules, completed>>
    BY <1>5, <2>1 DEF Learn, SectionRequest, RecordSection, QuizRequest, ReportQuiz, Measure,
                StampChapter, Roll, AwardModule, Crash, Wrote, Late
  <2> QED BY <1>1, <2>1, <2>2
<1> QED
  BY <1>2, <1>3, <1>4, <1>5 DEF Next, Administer

\* The invariant holds at first.
LEMMA InvInit == Init => IInv
<1> SUFFICES ASSUME Init PROVE IInv
  OBVIOUS
<1>2. Idle \in Request /\ Idle.pc = "idle"
  BY IdleRequest
<1>3. TypeOK
  BY <1>2 DEF Init, TypeOK, QuizState, Desk, DeskIdle
<1>4. Asked /\ PassedOnce
  BY <1>2 DEF Init, Asked, PassedOnce
<1>5. Within
  BY <1>2 DEF Init, Within, Placed, Carries
<1>6. InOrder /\ RecordedIsEarned
  BY DEF Init, InOrder, RecordedIsEarned
<1>7. Emptied
  BY DEF Init, Emptied
<1> QED BY <1>3, <1>4, <1>5, <1>6, <1>7 DEF IInv

-----------------------------------------------------------------------------
\* Every reachable state satisfies the invariant: what a steady learner's rows
\* record was finished (chapter-progression.ts).
THEOREM Invariance == Spec => []IInv
<1>1. Init => IInv
  BY InvInit
<1>2. IInv /\ [Next]_vars => IInv'
  <2> SUFFICES ASSUME IInv, [Next]_vars PROVE IInv'
    OBVIOUS
  <2>1. TypeOK' /\ Asked' /\ PassedOnce'
    BY TypeStep, AskedStep, PassedStep DEF IInv
  <2>2. Within' /\ InOrder' /\ RecordedIsEarned' /\ Emptied'
    BY <2>1, SteadyStep, EmptiedStep
  <2> QED BY <2>1, <2>2 DEF IInv
<1> QED BY <1>1, <1>2, PTL DEF Spec

\* Every variable has its type.
THEOREM TypeCorrect == Spec => []TypeOK
  BY Invariance, PTL DEF IInv

\* Chapters are taken in order, whatever requests run together
\* (assertChapterAccessible).
THEOREM TakenInOrder == Spec => []InOrder
  BY Invariance, PTL DEF IInv

\* What is recorded as finished was
\* (recordChapterAndModuleCompletionIfNeeded).
THEOREM RecordedEarned == Spec => []RecordedIsEarned
  BY Invariance, PTL DEF IInv

-----------------------------------------------------------------------------
(* What is finished gets recorded *)

\* Whoever is about to record chapter c, or module m.
Settles(r, c) == req[r].chapter = c /\ req[r].pc \in {"measure", "stamp"}
Awards(r, m)  == ModuleOf[req[r].chapter] = m /\ req[r].pc \in {"roll", "award"}

\* What is finished and not recorded is in a request's hands.
ChapterFollowed(c) ==
  SectionsOf(c) # {} /\ ChapterComplete(c) /\ c \notin chapters =>
    \E r \in Slots : Settles(r, c)
ModuleFollowed(m) ==
  ModuleDone(m) /\ m \notin modules => \E r \in Slots : Awards(r, m)

FollowedUp ==
  since \subseteq {"astray"} =>
                /\ \A c \in Chapters : ChapterFollowed(c)
                /\ \A m \in Modules : ModuleFollowed(m)

\* Without rows, nothing is finished: a chapter with sections has some to do, and a
\* module that counts has a chapter.
LEMMA NothingFinished ==
  ASSUME TypeOK, progress = {}, chapters = {}
  PROVE  (\A c \in Chapters : ChapterFollowed(c)) /\ (\A m \in Modules : ModuleFollowed(m))
<1>1. ASSUME NEW c \in Chapters, SectionsOf(c) # {} PROVE ~ChapterComplete(c)
  <2>1. IsFiniteSet(SectionsOf(c))
    BY FiniteRows DEF TypeOK
  <2>2. /\ Cardinality(SectionsOf(c)) \in Nat /\ Cardinality(SectionsOf(c)) # 0
        /\ Cardinality({}) = 0
    BY <1>1, <2>1, FS_CardinalityType, FS_EmptySet
  <2>3. Rows(c) = {}
    BY DEF Rows
  <2>4. ~(Cardinality(Rows(c)) >= Cardinality(SectionsOf(c)))
    BY <2>2, <2>3
  <2> QED BY <2>4 DEF ChapterComplete
<1>2. ASSUME NEW m \in Modules PROVE ~ModuleDone(m)
  BY DEF ModuleDone
<1> QED BY <1>1, <1>2 DEF ChapterFollowed, ModuleFollowed

LEMMA NothingFollows == TypeOK /\ progress = {} /\ chapters = {} => FollowedUp
  BY NothingFinished DEF FollowedUp

\* Whoever does not step goes on with what it was about to record.
LEMMA HandsKept ==
  ASSUME NEW r \in Slots, \A q \in Slots : q # r => req'[q] = req[q]
  PROVE  /\ \A c : (\E q \in Slots : Settles(q, c)) /\ ~Settles(r, c)
                     => \E q \in Slots : Settles(q, c)'
         /\ \A m : (\E q \in Slots : Awards(q, m)) /\ ~Awards(r, m)
                     => \E q \in Slots : Awards(q, m)'
<1>1. ASSUME NEW c, \E q \in Slots : Settles(q, c), ~Settles(r, c)
      PROVE  \E q \in Slots : Settles(q, c)'
  BY <1>1 DEF Settles
<1>2. ASSUME NEW m, \E q \in Slots : Awards(q, m), ~Awards(r, m)
      PROVE  \E q \in Slots : Awards(q, m)'
  BY <1>2 DEF Awards
<1> QED BY <1>1, <1>2

\* A request of the learner leaves nothing finished behind that is neither
\* recorded nor in a request's hands.
LEMMA LearnFollows ==
  ASSUME TypeOK, FollowedUp, since \subseteq {"astray"}, since' \subseteq {"astray"},
         NEW r \in Slots, Learn(r)
  PROVE  FollowedUp'
<1>0. /\ req[r] \in Request /\ req[r].chapter \in Chapters
      /\ \A c \in Chapters : ChapterFollowed(c)
      /\ \A m \in Modules : ModuleFollowed(m)
      /\ \A c \in Chapters : ModuleOf[c] \in Modules
  BY DEF TypeOK, Request, FollowedUp, Modules
<1>1. \A q \in Slots : q # r => req'[q] = req[q]
  BY DEF Learn, SectionRequest, RecordSection, QuizRequest, ReportQuiz, Measure,
         StampChapter, Roll, AwardModule, Crash, TypeOK
<1>a. PICK c0 \in Chapters : c0 = req[r].chapter
  BY <1>0
<1>b. PICK m0 \in Modules : m0 = ModuleOf[c0]
  BY <1>0
\* A step of a request that has nothing in hand and finishes nothing.
<1>2. ASSUME UNCHANGED <<curriculum, progress, quiz, chapters, modules>>,
             \A c \in Chapters : Settles(r, c) => ChapterFollowed(c)',
             \A m \in Modules : Awards(r, m) => ModuleFollowed(m)'
      PROVE  FollowedUp'
  <2>1. ASSUME NEW c \in Chapters PROVE ChapterFollowed(c)'
    <3>1. CASE Settles(r, c)
      BY <1>2, <3>1
    <3>2. CASE ~Settles(r, c)
      BY <1>0, <1>1, <1>2, <3>2, HandsKept
         DEF ChapterFollowed, SectionsOf, ChapterComplete, Rows
    <3> QED BY <3>1, <3>2
  <2>2. ASSUME NEW m \in Modules PROVE ModuleFollowed(m)'
    <3>1. CASE Awards(r, m)
      BY <1>2, <3>1
    <3>2. CASE ~Awards(r, m)
      BY <1>0, <1>1, <1>2, <3>2, HandsKept DEF ModuleFollowed, ModuleDone, ChaptersOf
    <3> QED BY <3>1, <3>2
  <2> QED BY <2>1, <2>2 DEF FollowedUp
<1>3. CASE SectionRequest(r) \/ QuizRequest(r)
  <2>1. req[r].pc = "idle"
    BY <1>3 DEF SectionRequest, QuizRequest
  <2>2. \A c : ~Settles(r, c) /\ ~Awards(r, c)
    BY <2>1 DEF Settles, Awards
  <2>3. UNCHANGED <<curriculum, progress, quiz, chapters, modules>>
    BY <1>3 DEF SectionRequest, QuizRequest
  <2> QED BY <1>2, <2>2, <2>3
\* The request that finishes a chapter measures it next.
<1>4. CASE RecordSection(r) \/ ReportQuiz(r)
  <2>1. /\ req[r].pc \in {"record", "report"}
        /\ UNCHANGED <<curriculum, chapters, modules>>
    BY <1>4 DEF RecordSection, ReportQuiz
  <2>2. \A c : ~Settles(r, c) /\ ~Awards(r, c)
    BY <2>1 DEF Settles, Awards
  <2>3. ASSUME UNCHANGED <<progress, quiz>> PROVE FollowedUp'
    BY <1>2, <2>1, <2>2, <2>3
  <2>4. ASSUME ~UNCHANGED <<progress, quiz>> PROVE FollowedUp'
    <3>1. Follow(r)
      BY <1>4, <2>4 DEF RecordSection, ReportQuiz
    <3>2. Settles(r, c0)'
      BY <1>0, <1>a, <3>1 DEF Settles, TypeOK, Request
    <3>3. ASSUME NEW c \in Chapters, c # c0, SectionsOf(c)' # {}, ChapterComplete(c)'
          PROVE  SectionsOf(c) # {} /\ ChapterComplete(c)
      <4>1. Rows(c)' = Rows(c)
        BY <1>4, <1>a, <3>3 DEF RecordSection, ReportQuiz, Rows
      <4>2. c \in Quizzed => quiz'[c] = quiz[c]
        BY <1>4, <1>a, <3>3 DEF RecordSection, ReportQuiz, TypeOK
      <4>3. SectionsOf(c)' = SectionsOf(c)
        BY <2>1 DEF SectionsOf
      <4> QED BY <3>3, <4>1, <4>2, <4>3 DEF ChapterComplete
    <3>4. ASSUME NEW c \in Chapters PROVE ChapterFollowed(c)'
      <4>1. CASE c = c0
        BY <3>2, <4>1 DEF ChapterFollowed
      <4>2. CASE c # c0
        BY <1>0, <1>1, <2>1, <2>2, <3>3, <4>2, HandsKept DEF ChapterFollowed
      <4> QED BY <4>1, <4>2
    <3>5. ASSUME NEW m \in Modules PROVE ModuleFollowed(m)'
      BY <1>0, <1>1, <2>1, <2>2, HandsKept DEF ModuleFollowed, ModuleDone, ChaptersOf
    <3> QED BY <3>4, <3>5 DEF FollowedUp
  <2> QED BY <2>3, <2>4
<1>5. CASE Measure(r)
  <2>1. /\ UNCHANGED <<curriculum, progress, quiz, chapters, modules>>
        /\ req'[r].chapter = c0
        /\ c0 \notin chapters /\ ChapterComplete(c0) => req'[r].pc = "stamp"
    BY <1>0, <1>5, <1>a DEF Measure, TypeOK, Request
  <2>2. ChapterFollowed(c0)'
    BY <1>0, <2>1 DEF ChapterFollowed, ChapterComplete, Rows, SectionsOf, Settles
  <2>3. \A m : ~Awards(r, m)
    BY <1>5 DEF Measure, Awards
  <2> QED BY <1>2, <1>a, <2>1, <2>2, <2>3 DEF Settles
\* The request that finishes a module rolls it up next.
<1>6. CASE StampChapter(r)
  <2>1. /\ req[r].pc = "stamp"
        /\ UNCHANGED <<curriculum, progress, quiz, modules>>
        /\ chapters' = chapters \cup {c0}
    BY <1>6, <1>a DEF StampChapter
  <2>2. \A m : ~Awards(r, m)
    BY <2>1 DEF Awards
  <2>3. CASE c0 \in chapters
    <3>1. chapters' = chapters /\ ChapterFollowed(c0)'
      BY <2>1, <2>3 DEF ChapterFollowed
    <3> QED BY <1>2, <1>a, <2>1, <2>2, <3>1 DEF Settles
  <2>4. CASE c0 \notin chapters
    <3>1. Awards(r, m0)'
      BY <1>0, <1>6, <1>a, <1>b, <2>4 DEF StampChapter, Awards, TypeOK, Request
    <3>2. ASSUME NEW c \in Chapters PROVE ChapterFollowed(c)'
      <4>1. CASE c = c0
        BY <2>1, <4>1 DEF ChapterFollowed
      <4>2. CASE c # c0
        <5>1. ~Settles(r, c)
          BY <1>a, <4>2 DEF Settles
        <5> QED
          BY <1>0, <1>1, <2>1, <4>2, <5>1, HandsKept
             DEF ChapterFollowed, SectionsOf, ChapterComplete, Rows
      <4> QED BY <4>1, <4>2
    <3>3. ASSUME NEW m \in Modules PROVE ModuleFollowed(m)'
      <4>1. CASE m = m0
        BY <3>1, <4>1 DEF ModuleFollowed
      <4>2. CASE m # m0
        <5>1. ModuleDone(m)' => ModuleDone(m)
          BY <1>b, <2>1, <4>2 DEF ModuleDone, ChaptersOf
        <5> QED BY <1>0, <1>1, <2>1, <2>2, <5>1, HandsKept DEF ModuleFollowed
      <4> QED BY <4>1, <4>2
    <3> QED BY <3>2, <3>3 DEF FollowedUp
  <2> QED BY <2>3, <2>4
<1>7. CASE Roll(r)
  <2>1. /\ UNCHANGED <<curriculum, progress, quiz, chapters, modules>>
        /\ m0 \notin modules /\ ModuleDone(m0) =>
             req'[r].pc = "award" /\ req'[r].chapter = c0
    BY <1>0, <1>7, <1>a, <1>b DEF Roll, TypeOK, Request
  <2>2. ModuleFollowed(m0)'
    BY <1>0, <1>b, <2>1 DEF ModuleFollowed, ModuleDone, ChaptersOf, Awards
  <2>3. \A c : ~Settles(r, c)
    BY <1>7 DEF Roll, Settles
  <2> QED BY <1>2, <1>a, <1>b, <2>1, <2>2, <2>3 DEF Awards
<1>8. CASE AwardModule(r)
  <2>1. /\ UNCHANGED <<curriculum, progress, quiz, chapters>>
        /\ req[r].pc = "award" /\ modules' = modules \cup {m0}
    BY <1>8, <1>a, <1>b DEF AwardModule
  <2>2. ASSUME NEW c \in Chapters PROVE ChapterFollowed(c)'
    <3>1. ~Settles(r, c)
      BY <2>1 DEF Settles
    <3> QED BY <1>0, <1>1, <2>1, <3>1, HandsKept
               DEF ChapterFollowed, SectionsOf, ChapterComplete, Rows
  <2>3. ASSUME NEW m \in Modules PROVE ModuleFollowed(m)'
    <3>1. CASE m = m0
      BY <2>1, <3>1 DEF ModuleFollowed
    <3>2. CASE m # m0
      <4>1. ~Awards(r, m)
        BY <1>a, <1>b, <3>2 DEF Awards
      <4> QED BY <1>0, <1>1, <2>1, <4>1, HandsKept DEF ModuleFollowed, ModuleDone, ChaptersOf
    <3> QED BY <3>1, <3>2
  <2> QED BY <2>2, <2>3 DEF FollowedUp
<1>9. CASE Crash(r)
  BY <1>9 DEF Crash
<1> QED BY <1>3, <1>4, <1>5, <1>6, <1>7, <1>8, <1>9 DEF Learn

\* Every step follows up on what it finishes.
LEMMA StepFollows == IInv /\ TypeOK' /\ FollowedUp /\ [Next]_vars => FollowedUp'
<1> SUFFICES ASSUME IInv, TypeOK', FollowedUp, [Next]_vars, since' \subseteq {"astray"}
             PROVE  FollowedUp'
  BY DEF FollowedUp
<1>0. TypeOK
  BY DEF IInv
<1>1. ASSUME since \subseteq {"astray"}, UNCHANGED <<curriculum, progress, quiz, chapters, modules, req>>
      PROVE  FollowedUp'
  BY <1>1 DEF FollowedUp, ChapterFollowed, ModuleFollowed, SectionsOf, ChapterComplete,
              Rows, ModuleDone, ChaptersOf, Settles, Awards
<1>2. CASE Complete \/ LeaveTrace \/ UnassignRequest \/ ResetRequest \/ UNCHANGED vars
  <2>1. since \subseteq {"astray"}
    BY <1>2 DEF Complete, LeaveTrace, Wrote, UnassignRequest, ResetRequest, vars
  <2> QED BY <1>1, <1>2, <2>1
             DEF Complete, LeaveTrace, UnassignRequest, ResetRequest, vars
<1>3. CASE Migrate
  BY <1>3 DEF Migrate
<1>4. CASE Assign \/ Wipe
  <2>1. progress' = {} /\ chapters' = {}
    <3>1. CASE Assign
      BY <3>1 DEF Assign, IInv, Emptied
    <3>2. CASE Wipe
      BY <3>2 DEF Wipe
    <3> QED BY <1>4, <3>1, <3>2
  <2>2. (TypeOK /\ progress = {} /\ chapters = {} => FollowedUp)'
    BY NothingFollows, PTL
  <2> QED BY <2>1, <2>2
<1>5. ASSUME NEW r \in Slots, Learn(r) PROVE FollowedUp'
  <2>1. since \subseteq {"astray"}
    BY <1>5 DEF Learn, SectionRequest, RecordSection, QuizRequest, ReportQuiz, Measure,
                StampChapter, Roll, AwardModule, Crash, Wrote
  <2> QED BY <1>0, <1>5, <2>1, LearnFollows
<1> QED
  BY <1>2, <1>3, <1>4, <1>5 DEF Next, Administer

\* Of the requests that finish the chapters of a module together, one sees them
\* all: once the requests have ended, and none was cut off, met a migration or
\* ran into a wipe, what is finished is recorded, although the loser of a duplicate
\* create gives up (recordChapterAndModuleCompletionIfNeeded).
THEOREM FinishedRecorded == Spec => []FinishedIsRecorded
<1>1. Init => FollowedUp
  <2> SUFFICES ASSUME Init PROVE FollowedUp
    OBVIOUS
  <2>1. TypeOK
    BY InvInit DEF IInv
  <2>2. progress = {} /\ chapters = {}
    BY DEF Init
  <2> QED BY <2>1, <2>2, NothingFollows
<1>2. IInv /\ IInv' /\ FollowedUp /\ [Next]_vars => FollowedUp'
  BY StepFollows DEF IInv
<1>3. FollowedUp => FinishedIsRecorded
  BY DEF FollowedUp, ChapterFollowed, ModuleFollowed, Settles, Awards, FinishedIsRecorded,
         Quiet
<1> QED BY <1>1, <1>2, <1>3, Invariance, PTL DEF Spec
=============================================================================
