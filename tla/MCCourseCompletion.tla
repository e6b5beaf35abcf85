------------------------- MODULE MCCourseCompletion -------------------------
(* Small instances of CourseCompletion. *)
EXTENDS CourseCompletion, TLC

CONSTANTS sec1, sec2, quiz1, r1, r2, r3, id1, id2, id3

OneSection  == {sec1}
TwoSections == {sec1, sec2}
OneQuiz     == {quiz1}
TwoSlots    == {r1, r2}
ThreeSlots  == {r1, r2, r3}
TwoIds      == {id1, id2}
ThreeIds    == {id1, id2, id3}

\* Everything the instance has, and the part of it an older version had.
Whole     == {[sections |-> Sections, quizzes |-> Quizzes]}
OldAndNew == Whole \cup {[sections |-> {sec1}, quizzes |-> Quizzes]}

\* The tree of the whole course; that tree after the quiz was archived, and the
\* one before the second section was added.
Full    == {[sections |-> Sections, chapters |-> Quizzes, quizzed |-> Quizzes]}
Grown   == [sections |-> Sections, chapters |-> Quizzes, quizzed |-> {}]
Younger == [sections |-> {sec1}, chapters |-> Quizzes, quizzed |-> Quizzes]
Edited  == {Grown, Younger}

\* Request slots and certificate ids are interchangeable.
Symmetry == Permutations(Slots) \cup Permutations(CertIds)
=============================================================================
