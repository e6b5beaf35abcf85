------------------------- MODULE MCCourseVersioning -------------------------
(* Small instances of CourseVersioning. *)
EXTENDS CourseVersioning, TLC

CONSTANTS sec1, sec2, ver1, ver2, ver3, en1, r1, r2

OneSection    == {sec1}
TwoSections   == {sec1, sec2}
TwoVersions   == {ver1, ver2}
ThreeVersions == {ver1, ver2, ver3}
OneEnrolment  == {en1}
TwoSlots      == {r1, r2}

\* Rows, learners and request slots are interchangeable.
Symmetry ==
  Permutations(Sections) \cup Permutations(Versions)
    \cup Permutations(Enrolments) \cup Permutations(Slots)
=============================================================================
