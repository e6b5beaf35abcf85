-------------------------- MODULE ScormRuntime_proofs --------------------------
(***************************************************************************)
(* Type correctness of ScormRuntime, and its safety properties, for any       *)
(* number of postbacks and pulls under way, lessons, commits and faults.       *)
(*                                                                           *)
(* The argument: a pull shows every commit made before it was issued          *)
(* (FullSees), what it shows of the lessons is in the request, then in the     *)
(* row, before the row is marked as pulled for (Carries), and the mark is the   *)
(* time of issue, so what was committed since leaves the mark behind.           *)
(***************************************************************************)
EXTENDS ScormRuntime, FiniteSetTheorems, TLAPS

Applying == {"lessons", "index", "write"}
Closing  == {"bridge", "stamp", "check", "pass", "close"}

\* No stamp is later than the clock, and no request shows a commit to come.
Bounded(h) ==
  /\ run[h].info <= Len(cloud) /\ run[h].post <= Len(cloud)
  /\ run[h].snapshotAt <= now /\ run[h].receivedAt <= now

\* A pull shows every commit made before it was issued.
FullSees(h) ==
  run[h].full => \A k \in Commits : cloud[k].time <= run[h].snapshotAt => k <= run[h].info

\* What came without a pull is a postback, stamped with its arrival.
Source(h) ==
  /\ run[h].pc \in Applying /\ ~run[h].full
       => h \in Hooks /\ run[h].snapshotAt = run[h].receivedAt
  /\ At(h, "claim") /\ h \in Hooks => run[h].snapshotAt = run[h].receivedAt
  /\ run[h].pc \in {"claim", "fetch"} => ~run[h].full
  /\ At(h, "reread") => run[h].full

\* The lessons a pull shows reach the row before its mark, with progress rows, but
\* for those it was applied without.
Carries(h) ==
  /\ run[h].known \subseteq row.lessons
  /\ run[h].found \subseteq progress
  /\ run[h].full /\ At(h, "index") =>
       Held(run[h].snapshotAt) \subseteq row.lessons \cup run[h].found \cup withheld
  /\ run[h].full /\ At(h, "write") /\ ~run[h].failed =>
       Held(run[h].snapshotAt) \subseteq row.lessons \cup withheld

\* The certification under way is of a package reported complete, and finds every
\* section done once it has stamped them.
ClosingOf(h) ==
  /\ run[h].pc \in Closing => row.done
  /\ run[h].pc \in {"check", "pass", "close"} => progress = Lessons
  /\ run[h].pc = "close" => course = "passed"

Own(h) == Bounded(h) /\ FullSees(h) /\ Source(h) /\ Carries(h) /\ ClosingOf(h)

RowTimed  == row.appliedAt <= now
CloudTimed == \A k \in Commits : cloud[k].time <= now
Certified ==
  /\ row.certified => course = "passed"
  /\ course # "none" => row.done /\ progress = Lessons

Whole == /\ CloudTimed /\ RowTimed
         /\ LessonsBacked /\ Certified
         /\ AppliedIsRecorded /\ SeenIsCurrent

IInv == TypeOK /\ Whole /\ \A h \in Handlers : Own(h)

-----------------------------------------------------------------------------
(* Type correctness *)

\* The fields of a request that other requests leave alone: all but fresh.
Kept(q) ==
  /\ run'[q] \in Run
  /\ run'[q].pc = run[q].pc /\ run'[q].post = run[q].post
  /\ run'[q].info = run[q].info /\ run'[q].full = run[q].full
  /\ run'[q].snapshotAt = run[q].snapshotAt /\ run'[q].receivedAt = run[q].receivedAt
  /\ run'[q].known = run[q].known /\ run'[q].found = run[q].found
  /\ run'[q].failed = run[q].failed

\* A step of one request replaces its record and keeps the others.
Moves(h, record) ==
  /\ run' \in [Handlers -> Run] /\ run'[h] = record
  /\ \A q \in Handlers \ {h} : Kept(q)

LEMMA BecomeMoves ==
  ASSUME TypeOK, NEW h \in Handlers, NEW record \in Run, Become(h, record)
  PROVE  Moves(h, record)
  BY DEF TypeOK, Become, Moves, Kept

LEMMA TouchMoves ==
  ASSUME TypeOK, NEW h \in Handlers, NEW record \in Run, Touch(h, record)
  PROVE  Moves(h, record)
<1>1. ASSUME NEW q \in Handlers PROVE [run[q] EXCEPT !.fresh = FALSE] \in Run
  BY DEF TypeOK, Run
<1>2. ASSUME NEW q \in Handlers \ {h} PROVE Kept(q)
  BY <1>1 DEF Touch, TypeOK, Kept, Run
<1>3. run' \in [Handlers -> Run] /\ run'[h] = record
  BY <1>1 DEF Touch
<1> QED
  BY <1>2, <1>3 DEF Moves

\* Every commit is a record of Cloud, at a time.
LEMMA CloudTyped ==
  ASSUME TypeOK PROVE \A k \in Commits : cloud[k] \in Commit /\ cloud[k].time \in Nat
<1>1. \A k \in Commits : cloud[k] \in Commit
  BY DEF TypeOK, Commits
<1> QED
  BY <1>1, ScormAssumption DEF Commit, Time

\* Zero is a time, no request and a new row are well formed.
LEMMA NewTyped == 0 \in Time /\ NewRow \in Row /\ Idle \in Run
<1>1. 0 \in Time
  BY ScormAssumption DEF Time
<1> QED
  BY <1>1 DEF NewRow, Row, Idle, Run, Steps

\* A request that ends is replaced by no request.
LEMMA FinishMoves ==
  ASSUME TypeOK, NEW h \in Handlers, NEW record,
         \A q \in Handlers : \E b \in BOOLEAN : record[q] = [run[q] EXCEPT !.fresh = b],
         Finish(h, record)
  PROVE  Moves(h, Idle)
<1>1. ASSUME NEW q \in Handlers, NEW b \in BOOLEAN
      PROVE  [run[q] EXCEPT !.fresh = b] \in Run
  BY DEF TypeOK, Run
<1>2. ASSUME NEW q \in Handlers \ {h} PROVE Kept(q)
  <2>1. PICK b \in BOOLEAN : record[q] = [run[q] EXCEPT !.fresh = b]
    OBVIOUS
  <2> QED
    BY <1>1, <2>1 DEF Finish, TypeOK, Kept, Run
<1>3. \A q \in Handlers : record[q] \in Run
  BY <1>1
<1>4. run' \in [Handlers -> Run] /\ run'[h] = Idle
  BY <1>3, NewTyped DEF Finish
<1> QED
  BY <1>2, <1>4 DEF Moves

\* The merge of an answer is a row.
LEMMA MergeTyped ==
  ASSUME TypeOK, NEW h \in Handlers, Bounded(h) PROVE Merge(h) \in Row
<1>1. run[h] \in Run /\ row \in Row
  BY DEF TypeOK
<1>2. DoneBy(run[h].info) \in BOOLEAN /\ DoneBy(run[h].post) \in BOOLEAN
  BY <1>1 DEF DoneBy, Bounded, TypeOK, Commit, Run, Time
<1> QED
  BY <1>1, <1>2 DEF Merge, Ranked, Later, Run, Row

\* Every step of a request is of one of two kinds: it replaces the record of the
\* request, or ends it.
LEMMA RecordsTyped ==
  ASSUME TypeOK, NEW h \in Handlers
  PROVE  /\ \A pc \in Steps : [run[h] EXCEPT !.pc = pc] \in Run
         /\ [Idle EXCEPT !.pc = "claim"] \in Run
         /\ [Idle EXCEPT !.pc = "bridge", !.post = run[h].post] \in Run
         /\ [Idle EXCEPT !.pc = "fetch", !.post = run[h].post, !.snapshotAt = now,
                         !.receivedAt = run[h].receivedAt] \in Run
         /\ [run[h] EXCEPT !.pc = "reread", !.info = Len(cloud), !.full = TRUE] \in Run
         /\ [run[h] EXCEPT !.pc = "lessons", !.info = run[h].post,
                           !.snapshotAt = run[h].receivedAt] \in Run
         /\ [run[h] EXCEPT !.pc = "lessons", !.known = row.lessons,
                           !.closed = row.certified, !.fresh = TRUE] \in Run
         /\ [run[h] EXCEPT !.fresh = TRUE] \in Run
         /\ \A n \in posted :
              [Idle EXCEPT !.pc = "claim", !.post = n, !.info = n,
                           !.snapshotAt = now, !.receivedAt = now,
                           !.known = row.lessons, !.closed = row.certified,
                           !.fresh = TRUE] \in Run
<1>1. Len(cloud) \in Time /\ Commits \subseteq Time
  BY ScormAssumption DEF TypeOK, Time, Commits
<1>2. run[h] \in Run /\ row \in Row /\ now \in Time /\ posted \subseteq Time
  BY <1>1 DEF TypeOK
<1> QED
  BY <1>1, <1>2, NewTyped DEF Run, Row, Steps, Idle

LEMMA LessonsRecordsTyped ==
  ASSUME TypeOK, NEW h \in Handlers, Bounded(h)
  PROVE  /\ Merged(h) \subseteq Lessons /\ LessonsBy(run[h].info) \subseteq Lessons
         /\ [run[h] EXCEPT !.pc = "write", !.known = {}] \in Run
         /\ [run[h] EXCEPT !.pc = "index", !.known = {}] \in Run
         /\ \A found \in SUBSET Lessons :
              [run[h] EXCEPT !.pc = "index", !.known = {}, !.found = found] \in Run
         /\ [run[h] EXCEPT !.pc = "write", !.known = {}, !.found = {}] \in Run
         /\ [run[h] EXCEPT !.pc = "write", !.known = {}, !.found = {},
                           !.failed = TRUE] \in Run
<1>1. run[h] \in Run
  BY DEF TypeOK
<1>2. LessonsBy(run[h].info) \subseteq Lessons
  <2>1. ASSUME run[h].info # 0 PROVE cloud[run[h].info] \in Commit
    BY <1>1, <2>1 DEF Bounded, TypeOK, Run, Time
  <2> QED
    BY <2>1 DEF LessonsBy, Commit
<1>3. Merged(h) \subseteq Lessons
  BY <1>1, <1>2 DEF Merged, Run
<1> QED
  BY <1>1, <1>2, <1>3 DEF Run, Steps

LEMMA InitTyped == Init => TypeOK
<1> SUFFICES ASSUME Init PROVE TypeOK
  OBVIOUS
<1>1. run \in [Handlers -> Run] /\ row \in Row /\ now \in Time
  BY NewTyped DEF Init
<1>2. cloud \in Seq(Commit) /\ Len(cloud) <= now
  BY DEF Init
<1>4. /\ recent \in BOOLEAN /\ aged \in BOOLEAN /\ access \in BOOLEAN
      /\ progress \subseteq Lessons /\ package \in Package
      /\ course \in {"none", "stamped", "passed"} /\ withheld \subseteq Lessons
  BY ScormAssumption DEF Init, Package
<1>3. posted \subseteq Commits /\ faults \in 0 .. MaxFaults
  BY ScormAssumption DEF Init
<1> QED
  BY <1>1, <1>2, <1>3, <1>4 DEF TypeOK

LEMMA StepTyped ==
  TypeOK /\ (\A h \in Handlers : Bounded(h)) /\ [Next]_vars => TypeOK'
<1> SUFFICES ASSUME TypeOK, \A h \in Handlers : Bounded(h), [Next]_vars PROVE TypeOK'
  OBVIOUS
<1> USE DEF Moves
<1>f. Fault => faults' \in 0 .. MaxFaults
  BY ScormAssumption DEF Fault, TypeOK
<1>1. CASE Tick
  <2>1. now' \in Time /\ now' = now + 1 /\ now \in Nat
    BY <1>1, ScormAssumption DEF Tick, TypeOK, Time
  <2>2. Len(cloud) <= now'
    BY <2>1 DEF TypeOK
  <2> QED
    BY <1>1, <2>1, <2>2 DEF Tick, TypeOK, Commits
<1>2. CASE LearnerCommits
  <2>1. now' \in Time /\ now' = now + 1
    BY <1>2, ScormAssumption DEF LearnerCommits, TypeOK, Time
  <2>2. PICK c \in Commit : cloud' = Append(cloud, c)
    BY <1>2, <2>1 DEF LearnerCommits, Commit
  <2>3. cloud' \in Seq(Commit) /\ Len(cloud') = Len(cloud) + 1
    BY <2>2 DEF TypeOK
  <2>4. Len(cloud') <= now'
    BY <2>1, <2>3 DEF TypeOK, Time
  <2>5. posted' \subseteq Commits'
    <3>1. Len(cloud) \in Nat
      BY DEF TypeOK
    <3>2. Len(cloud') \in Commits' /\ Commits \subseteq Commits'
      BY <2>3, <3>1 DEF Commits
    <3> QED
      BY <1>2, <3>2 DEF LearnerCommits, TypeOK
  <2> QED
    BY <1>2, <2>1, <2>3, <2>4, <2>5 DEF LearnerCommits, TypeOK
<1>3. CASE ToggleAccess \/ PackageChanges \/ Ages
  BY <1>3, <1>f DEF ToggleAccess, PackageChanges, Ages, TypeOK, Commits
<1>4. CASE FloorPasses
  BY <1>4 DEF FloorPasses, TypeOK, Commits
<1>5. ASSUME NEW h \in Handlers, Claim(h) PROVE TypeOK'
  BY <1>5, RecordsTyped, TouchMoves DEF Claim, TypeOK, Commits
<1>6. ASSUME NEW h \in Handlers, ClaimRefused(h) PROVE TypeOK'
  BY <1>6, RecordsTyped, NewTyped, BecomeMoves DEF ClaimRefused, TypeOK, Steps, Commits
<1>7. ASSUME NEW h \in Handlers, Fetch(h) PROVE TypeOK'
  BY <1>7, RecordsTyped, BecomeMoves DEF Fetch, TypeOK, Commits
<1>8. ASSUME NEW h \in Handlers, Reread(h) PROVE TypeOK'
  BY <1>8, RecordsTyped, BecomeMoves DEF Reread, TypeOK, Commits
<1>9. ASSUME NEW h \in Handlers, RecordLessons(h) PROVE TypeOK'
  <2>1. PICK record \in Run : Become(h, record)
    BY <1>9, LessonsRecordsTyped DEF RecordLessons, Unrecorded
  <2>2. progress' \subseteq Lessons /\ withheld' \subseteq Lessons
    BY <1>9, LessonsRecordsTyped DEF RecordLessons, Unrecorded, Withhold, TypeOK
  <2> QED
    BY <1>9, <2>1, <2>2, BecomeMoves DEF RecordLessons, TypeOK, Commits
<1>10. ASSUME NEW h \in Handlers, Index(h) PROVE TypeOK'
  <2>1. row' \in Row
    BY <1>10 DEF Index, TypeOK, Row, Run
  <2> QED
    BY <1>10, <2>1, LessonsRecordsTyped, BecomeMoves DEF Index, TypeOK, Commits
<1>11. ASSUME NEW h \in Handlers, Write(h) PROVE TypeOK'
  <2>1. row' \in Row
    BY <1>11, MergeTyped DEF Write
  <2>2. CASE Touch(h, [Idle EXCEPT !.pc = "bridge", !.post = run[h].post])
             /\ UNCHANGED posted
    BY <1>11, <2>1, <2>2, RecordsTyped, TouchMoves DEF Write, TypeOK, Commits
  <2>3. CASE Finish(h, [q \in Handlers |-> [run[q] EXCEPT !.fresh = FALSE]])
    <3>1. Moves(h, Idle)
      BY <2>3, FinishMoves
    <3> QED
      BY <1>11, <2>1, <2>3, <3>1 DEF Write, Finish, TypeOK, Commits
  <2> QED
    BY <1>11, <2>2, <2>3 DEF Write
<1>12. ASSUME NEW h \in Handlers, Retry(h) PROVE TypeOK'
  BY <1>12, RecordsTyped, BecomeMoves DEF Retry, TypeOK, Commits
<1>13. ASSUME NEW h \in Handlers, Bridge(h) PROVE TypeOK'
  <2>1. [run[h] EXCEPT !.pc = "stamp"] \in Run
    BY RecordsTyped DEF Steps
  <2>2. CASE /\ row' = [row EXCEPT !.atCertify = Cardinality(row.lessons)]
             /\ Touch(h, [run[h] EXCEPT !.pc = "stamp"])
    <3>1. row.lessons \subseteq Lessons /\ IsFiniteSet(row.lessons)
      BY ScormAssumption, FS_Subset DEF TypeOK, Row
    <3>2. row' \in Row
      BY <2>2, <3>1, FS_CardinalityType DEF TypeOK, Row
    <3> QED
      BY <1>13, <2>1, <2>2, <3>2, TouchMoves DEF Bridge, TypeOK, Commits
  <2>3. CASE Become(h, [run[h] EXCEPT !.pc = "stamp"]) /\ UNCHANGED row
    BY <1>13, <2>1, <2>3, BecomeMoves DEF Bridge, TypeOK, Commits
  <2> QED
    BY <1>13, <2>2, <2>3 DEF Bridge
<1>14. ASSUME NEW h \in Handlers, BridgeSkipped(h) PROVE TypeOK'
  <2>1. \A q \in Handlers : \E b \in BOOLEAN : run[q] = [run[q] EXCEPT !.fresh = b]
    BY DEF TypeOK, Run
  <2>2. Moves(h, Idle)
    BY <1>14, <2>1, FinishMoves DEF BridgeSkipped
  <2> QED
    BY <1>14, <2>2 DEF BridgeSkipped, Finish, TypeOK, Commits
<1>15. ASSUME NEW h \in Handlers, Stamp(h) \/ Check(h) \/ Pass(h) PROVE TypeOK'
  <2>1. PICK record \in Run : Become(h, record)
    BY <1>15, RecordsTyped DEF Stamp, Check, Pass, Steps
  <2> QED
    BY <1>15, <2>1, BecomeMoves DEF Stamp, Check, Pass, TypeOK, Commits
<1>16. ASSUME NEW h \in Handlers, Close(h) PROVE TypeOK'
  <2> DEFINE record == [q \in Handlers |-> [run[q] EXCEPT !.fresh = @ /\ row.certified]]
  <2>1. \A q \in Handlers : \E b \in BOOLEAN : record[q] = [run[q] EXCEPT !.fresh = b]
    BY DEF TypeOK, Run, Row
  <2>2. Moves(h, Idle)
    BY <1>16, <2>1, FinishMoves DEF Close
  <2>3. row' \in Row
    BY <1>16 DEF Close, TypeOK, Row
  <2> QED
    BY <1>16, <2>2, <2>3 DEF Close, Finish, TypeOK, Commits
<1>17. ASSUME NEW h \in Handlers, Crash(h) PROVE TypeOK'
  BY <1>17, <1>f, NewTyped, BecomeMoves DEF Crash, TypeOK, Commits
<1>18. ASSUME NEW h \in Handlers, FetchFails(h) PROVE TypeOK'
  <2>1. PICK record \in Run : Become(h, record)
    BY <1>18, RecordsTyped, NewTyped DEF FetchFails
  <2> QED
    BY <1>18, <1>f, <2>1, BecomeMoves DEF FetchFails, TypeOK, Commits
<1>19. ASSUME NEW h \in Handlers, LessonsFail(h) PROVE TypeOK'
  BY <1>19, <1>f, LessonsRecordsTyped, BecomeMoves DEF LessonsFail, TypeOK, Commits
<1>20. ASSUME NEW h \in Hooks, Receive(h) PROVE TypeOK'
  <2>1. h \in Handlers
    BY DEF Handlers
  <2>2. PICK record \in Run : Become(h, record)
    BY <1>20, <2>1, RecordsTyped DEF Receive
  <2> QED
    BY <1>20, <2>1, <2>2, BecomeMoves DEF Receive, TypeOK, Commits
<1>21. ASSUME NEW h \in Pulls, ReadPull(h) \/ Sweep(h) PROVE TypeOK'
  <2>1. h \in Handlers
    BY DEF Handlers
  <2> QED
    BY <1>21, <2>1, RecordsTyped, BecomeMoves DEF ReadPull, Sweep, Pull, TypeOK, Commits
<1>22. CASE UNCHANGED vars
  BY <1>22 DEF vars, TypeOK, Commits
<1> QED
  BY <1>1, <1>2, <1>3, <1>4, <1>5, <1>6, <1>7, <1>8, <1>9, <1>10, <1>11, <1>12, <1>13,
     <1>14, <1>15, <1>16, <1>17, <1>18, <1>19, <1>20, <1>21, <1>22 DEF Next, Step

-----------------------------------------------------------------------------
(* What a step leaves alone *)

\* The row, progress and the certificate only go forward, and Cloud is as it was.
Onward ==
  /\ cloud' = cloud /\ now' = now
  /\ row.lessons \subseteq row'.lessons /\ progress \subseteq progress'
  /\ row.done => row'.done
  /\ course = "passed" => course' = "passed"
  /\ withheld \subseteq withheld'

\* The other requests are safe after such a step.
LEMMA OthersSafe ==
  ASSUME IInv, TypeOK', Onward, NEW q \in Handlers, Kept(q)
  PROVE  Own(q)'
<1> USE DEF IInv
<1>1. Own(q)
  OBVIOUS
<1>2. Bounded(q)' /\ Source(q)'
  BY <1>1 DEF Own, Bounded, Source, At, Onward, Kept
<1>3. FullSees(q)'
  BY <1>1 DEF Own, FullSees, Commits, Onward, Kept
<1>4. Held(run[q].snapshotAt)' = Held(run[q].snapshotAt)
  BY DEF Held, Commits, Onward, Kept
<1>5. Carries(q)'
  BY <1>1, <1>4 DEF Own, Carries, At, Onward, Kept
<1>6. ClosingOf(q)'
  BY <1>1 DEF Own, ClosingOf, Onward, Kept, TypeOK
<1> QED
  BY <1>2, <1>3, <1>5, <1>6 DEF Own

\* A step of one request is safe when that request and the whole are.
LEMMA Handled ==
  ASSUME IInv, TypeOK', Onward, NEW h \in Handlers, NEW record, Moves(h, record),
         Own(h)', Whole'
  PROVE  IInv'
<1>1. ASSUME NEW q \in Handlers PROVE Own(q)'
  BY <1>1, OthersSafe DEF Moves
<1> QED
  BY <1>1 DEF IInv

\* The whole is as it was if only requests, the floor and the faults are not.
LEMMA WholeKept ==
  ASSUME Whole, UNCHANGED <<cloud, row, progress, course>>, now' \in Nat, now \in Nat,
         now <= now', TypeOK, withheld \subseteq withheld'
  PROVE  Whole'
<1>1. CloudTimed' /\ RowTimed'
  <2>1. \A k \in Commits : cloud[k].time \in Nat
    BY CloudTyped
  <2>2. row.appliedAt \in Nat
    BY DEF TypeOK, Row, Time
  <2> QED
    BY <2>1, <2>2 DEF Whole, CloudTimed, RowTimed, Commits
<1>2. LessonsBacked' /\ Certified'
  BY DEF Whole, LessonsBacked, Certified
<1>3. Held(row.appliedAt)' = Held(row.appliedAt)
  BY DEF Held, Commits
<1>4. AppliedIsRecorded' /\ SeenIsCurrent'
  BY <1>3 DEF Whole, AppliedIsRecorded, SeenIsCurrent, Commits
<1> QED
  BY <1>1, <1>2, <1>4 DEF Whole

\* The numbers a request holds are numbers.
LEMMA Numbers ==
  ASSUME TypeOK, NEW h \in Handlers
  PROVE  /\ now \in Nat /\ Len(cloud) \in Nat
         /\ run[h].info \in Nat /\ run[h].post \in Nat
         /\ run[h].snapshotAt \in Nat /\ run[h].receivedAt \in Nat
         /\ row.seen \in Nat /\ row.postbackAt \in Nat /\ row.appliedAt \in Nat
  BY ScormAssumption DEF TypeOK, Time, Row, Run

\* A request that has ended is safe.
LEMMA IdleSafe ==
  ASSUME TypeOK, TypeOK', NEW h \in Handlers, run'[h] = Idle
  PROVE  Own(h)'
<1>1. now' \in Nat /\ Len(cloud') \in Nat
  BY ScormAssumption DEF TypeOK, Time
<1>2. Bounded(h)'
  BY <1>1 DEF Bounded, Idle
<1> QED
  BY <1>2 DEF Own, Idle, FullSees, Source, Carries, ClosingOf, At, Applying, Closing

\* A step that only moves a request is safe if the request is.
LEMMA QuietStep ==
  ASSUME IInv, TypeOK', NEW h \in Handlers, NEW record, Moves(h, record),
         UNCHANGED <<now, cloud, row, progress, course, withheld>>, Own(h)'
  PROVE  IInv'
<1>1. Onward
  BY DEF Onward
<1>2. Whole'
  BY WholeKept, Numbers DEF IInv
<1> QED
  BY <1>1, <1>2, Handled

\* What a pull shows includes what was held when it was issued.
LEMMA HeldShown ==
  ASSUME TypeOK, NEW h \in Handlers, Bounded(h), FullSees(h), run[h].full
  PROVE  Held(run[h].snapshotAt) \subseteq LessonsBy(run[h].info)
<1> SUFFICES ASSUME NEW l \in Held(run[h].snapshotAt) PROVE l \in LessonsBy(run[h].info)
  OBVIOUS
<1>1. PICK k \in Commits : /\ cloud[k].time <= run[h].snapshotAt
                           /\ \A n \in k .. Len(cloud) : l \in cloud[n].lessons
  BY DEF Held
<1>2. k <= run[h].info /\ run[h].info \in k .. Len(cloud) /\ run[h].info # 0
  BY <1>1, Numbers DEF FullSees, Bounded, Commits
<1> QED
  BY <1>1, <1>2 DEF LessonsBy

\* A later commit takes from what was held at a time, and adds nothing.
LEMMA CommitTakes ==
  ASSUME TypeOK, LearnerCommits, NEW t \in Nat, t <= now
  PROVE  Held(t)' \subseteq Held(t)
<1>1. now \in Nat /\ Len(cloud) \in Nat /\ now' = now + 1
  BY ScormAssumption DEF TypeOK, Time, LearnerCommits
<1>2. PICK c : cloud' = Append(cloud, c) /\ c.time = now'
  BY DEF LearnerCommits
<1>3. /\ Len(cloud') = Len(cloud) + 1 /\ cloud'[Len(cloud) + 1] = c
      /\ \A k \in Commits : cloud'[k] = cloud[k]
  BY <1>2 DEF TypeOK, Commits
<1> SUFFICES ASSUME NEW l \in Held(t)' PROVE l \in Held(t)
  OBVIOUS
<1>4. PICK k \in 1 .. Len(cloud') : /\ cloud'[k].time <= t
                                    /\ \A n \in k .. Len(cloud') : l \in cloud'[n].lessons
  BY DEF Held, Commits
<1>5. k \in Commits
  BY <1>1, <1>2, <1>3, <1>4 DEF Commits
<1>6. \A n \in k .. Len(cloud) : n \in k .. Len(cloud') /\ n \in Commits
  BY <1>1, <1>3, <1>5 DEF Commits
<1>7. l \in Lessons
  BY DEF Held
<1> QED
  BY <1>3, <1>4, <1>5, <1>6, <1>7 DEF Held

-----------------------------------------------------------------------------
(* The learner, the clock, and the start of a request *)

LEMMA InitSafe == Init => IInv
<1> SUFFICES ASSUME Init PROVE IInv
  OBVIOUS
<1>1. TypeOK
  BY InitTyped
<1>2. Commits = {}
  BY DEF Init, Commits
<1>3. CloudTimed /\ RowTimed /\ LessonsBacked /\ Certified
  BY <1>2 DEF Init, NewRow, CloudTimed, RowTimed, LessonsBacked, Certified
<1>4. AppliedIsRecorded /\ SeenIsCurrent
  BY <1>2 DEF Held, AppliedIsRecorded, SeenIsCurrent
<1>5. ASSUME NEW h \in Handlers PROVE Own(h)
  <2>1. run[h] = Idle /\ now = 0 /\ Len(cloud) = 0
    BY <1>5 DEF Init
  <2> QED
    BY <2>1 DEF Own, Idle, Bounded, FullSees, Source, Carries, ClosingOf, At, Applying,
                Closing
<1> QED
  BY <1>1, <1>3, <1>4, <1>5 DEF IInv, Whole

LEMMA TickSafe == IInv /\ TypeOK' /\ Tick => IInv'
<1> SUFFICES ASSUME IInv, TypeOK', Tick PROVE IInv'
  OBVIOUS
<1>1. now \in Nat /\ now' = now + 1
  BY ScormAssumption DEF IInv, TypeOK, Time, Tick
<1>2. Whole'
  BY <1>1, WholeKept DEF IInv, Tick
<1>3. ASSUME NEW h \in Handlers PROVE Own(h)'
  <2>1. Own(h) /\ TypeOK
    BY DEF IInv
  <2>2. Bounded(h)'
    BY <1>1, <2>1, Numbers DEF Own, Bounded, Tick
  <2>3. FullSees(h)' /\ Source(h)' /\ ClosingOf(h)'
    BY <2>1 DEF Own, FullSees, Commits, Source, At, ClosingOf, Tick
  <2>4. Held(run[h].snapshotAt)' = Held(run[h].snapshotAt)
    BY DEF Held, Commits, Tick
  <2>5. Carries(h)'
    BY <2>1, <2>4 DEF Own, Carries, At, Tick
  <2> QED
    BY <2>2, <2>3, <2>5 DEF Own
<1> QED
  BY <1>2, <1>3 DEF IInv

LEMMA CommitSafe == IInv /\ TypeOK' /\ LearnerCommits => IInv'
<1> SUFFICES ASSUME IInv, TypeOK', LearnerCommits PROVE IInv'
  OBVIOUS
<1> USE DEF IInv
<1>1. now \in Nat /\ Len(cloud) \in Nat /\ now' = now + 1
  BY ScormAssumption DEF TypeOK, Time, LearnerCommits
<1>2. PICK c : cloud' = Append(cloud, c) /\ c.time = now'
  BY DEF LearnerCommits
<1>3. /\ Len(cloud') = Len(cloud) + 1 /\ cloud'[Len(cloud) + 1] = c
      /\ \A k \in Commits : cloud'[k] = cloud[k]
      /\ \A k \in Commits' : k \in Commits \/ k = Len(cloud) + 1
  BY <1>1, <1>2 DEF TypeOK, Commits
<1>4. \A k \in Commits : cloud[k].time \in Nat
  BY CloudTyped
<1>5. UNCHANGED <<row, progress, course, run, withheld>>
  BY DEF LearnerCommits
<1>12. \A k \in Commits' : \/ k \in Commits /\ cloud'[k].time = cloud[k].time
                           \/ cloud'[k].time = now + 1
  BY <1>1, <1>2, <1>3
<1>6. CloudTimed' /\ RowTimed'
  <2>1. row.appliedAt \in Nat
    BY ScormAssumption DEF TypeOK, Row, Time
  <2>2. RowTimed'
    BY <1>1, <1>5, <2>1 DEF Whole, RowTimed
  <2>3. ASSUME NEW k \in Commits' PROVE cloud'[k].time <= now'
    BY <1>1, <1>4, <1>12 DEF Whole, CloudTimed
  <2> QED
    BY <2>2, <2>3 DEF CloudTimed
<1>7. LessonsBacked' /\ Certified'
  BY <1>5 DEF Whole, LessonsBacked, Certified
<1>8. row.appliedAt \in Nat /\ row.postbackAt \in Nat /\ row.appliedAt <= now
  BY ScormAssumption DEF TypeOK, Row, Time, Whole, RowTimed
<1>9. AppliedIsRecorded'
  <2>1. Held(row.appliedAt)' \subseteq Held(row.appliedAt)
    BY <1>5, <1>8, CommitTakes
  <2> QED
    BY <1>5, <2>1 DEF Whole, AppliedIsRecorded
<1>10. SeenIsCurrent'
  <2>1. ASSUME NEW k \in Commits', cloud'[k].time <= row.appliedAt
        PROVE  k \in Commits /\ cloud[k].time <= row.appliedAt
    BY <1>1, <1>8, <1>12, <2>1
  <2> QED
    BY <1>5, <2>1 DEF Whole, SeenIsCurrent
<1>11. ASSUME NEW h \in Handlers PROVE Own(h)'
  <2>1. Own(h)
    OBVIOUS
  <2>2. /\ run[h].info \in Nat /\ run[h].post \in Nat
        /\ run[h].snapshotAt \in Nat /\ run[h].receivedAt \in Nat
        /\ run[h].snapshotAt <= now
    BY <2>1, Numbers DEF Own, Bounded
  <2>3. Bounded(h)'
    BY <1>1, <1>3, <1>5, <2>1, <2>2 DEF Own, Bounded
  <2>4. FullSees(h)'
    <3>1. ASSUME NEW k \in Commits', cloud'[k].time <= run[h].snapshotAt
          PROVE  k \in Commits /\ cloud[k].time <= run[h].snapshotAt
      BY <1>1, <1>12, <2>2, <3>1
    <3> QED
      BY <1>5, <2>1, <3>1 DEF Own, FullSees
  <2>5. Source(h)' /\ ClosingOf(h)'
    BY <1>5, <2>1 DEF Own, Source, At, ClosingOf
  <2>6. Held(run[h].snapshotAt)' \subseteq Held(run[h].snapshotAt)
    BY <2>2, <1>5, CommitTakes
  <2>7. Carries(h)'
    BY <1>5, <2>1, <2>6 DEF Own, Carries, At
  <2> QED
    BY <2>3, <2>4, <2>5, <2>7 DEF Own
<1> QED
  BY <1>6, <1>7, <1>9, <1>10, <1>11 DEF Whole

-----------------------------------------------------------------------------
(* The steps of a request *)

\* A step that moves nothing but a request, and the record it leaves.
Quiet(h, record) ==
  /\ Become(h, record) \/ Touch(h, record)
  /\ UNCHANGED <<now, cloud, row, progress, course, withheld>>

\* Pulling: the stamp is the clock's, and the record comes whole.
LEMMA PullSafe ==
  ASSUME IInv, TypeOK', NEW h \in Handlers,
         \/ Claim(h) \/ ClaimRefused(h) \/ Fetch(h) \/ Reread(h) \/ FetchFails(h)
         \/ Crash(h) \/ LessonsFail(h) \/ Retry(h) \/ Receive(h)
         \/ Pull(h) /\ h \in Pulls
  PROVE  IInv'
<1> USE DEF IInv
<1>1. run[h] \in Run /\ Own(h) /\ Bounded(h)
  BY DEF TypeOK, Own
<1>2. /\ now \in Nat /\ Len(cloud) \in Nat
      /\ run[h].info \in Nat /\ run[h].post \in Nat
      /\ run[h].snapshotAt \in Nat /\ run[h].receivedAt \in Nat
  BY Numbers
<1>3. ASSUME NEW record \in Run, Quiet(h, record), Own(h)' PROVE IInv'
  BY <1>3, BecomeMoves, TouchMoves, QuietStep DEF Quiet
<1>4. ASSUME Quiet(h, Idle) PROVE IInv'
  <2>1. Moves(h, Idle)
    BY <1>4, NewTyped, BecomeMoves, TouchMoves DEF Quiet
  <2>2. Own(h)'
    BY <2>1, IdleSafe DEF Moves
  <2> QED
    BY <1>3, <1>4, <2>2, NewTyped
<1>5. ASSUME Claim(h) PROVE IInv'
  <2> DEFINE record == [Idle EXCEPT !.pc = "fetch", !.post = run[h].post,
                          !.snapshotAt = now, !.receivedAt = run[h].receivedAt]
  <2>1. record \in Run /\ Quiet(h, record)
    BY <1>5, RecordsTyped DEF Claim, Quiet
  <2>2. run'[h] = record
    BY <2>1, BecomeMoves, TouchMoves DEF Quiet, Moves
  <2>3. Own(h)'
    BY <1>1, <1>2, <2>1, <2>2 DEF Quiet, Own, Bounded, FullSees, Source, Carries, ClosingOf,
                                 At, Applying, Closing, Idle
  <2> QED
    BY <1>3, <2>1, <2>3
<1>6. ASSUME ClaimRefused(h), h \in Hooks PROVE IInv'
  <2> DEFINE record == [run[h] EXCEPT !.pc = "lessons"]
  <2>1. record \in Run /\ Quiet(h, record)
    BY <1>6, RecordsTyped, LessonsRecordsTyped DEF ClaimRefused, Quiet, Steps
  <2>2. run'[h] = record
    BY <2>1, BecomeMoves, TouchMoves DEF Quiet, Moves
  <2>3. Own(h)'
    BY <1>1, <1>2, <1>6, <2>1, <2>2 DEF ClaimRefused, Quiet, Own, Bounded, FullSees, Source, Carries, ClosingOf, At,
                                 Applying, Closing, Run, Idle
  <2> QED
    BY <1>3, <2>1, <2>3
<1>7. ASSUME \/ Crash(h)
             \/ (ClaimRefused(h) \/ FetchFails(h)) /\ h \notin Hooks
      PROVE  IInv'
  BY <1>4, <1>7 DEF Crash, ClaimRefused, FetchFails, Quiet
<1>8. ASSUME Fetch(h) PROVE IInv'
  <2> DEFINE record == [run[h] EXCEPT !.pc = "reread", !.info = Len(cloud), !.full = TRUE]
  <2>1. record \in Run /\ Quiet(h, record)
    BY <1>8, RecordsTyped, LessonsRecordsTyped DEF Fetch, Quiet, Steps
  <2>2. run'[h] = record
    BY <2>1, BecomeMoves, TouchMoves DEF Quiet, Moves
  <2>4. FullSees(h)'
    BY <1>2, <2>1, <2>2 DEF FullSees, Commits, Quiet, Run
  <2>3. Own(h)'
    BY <1>1, <1>2, <1>8, <2>1, <2>2, <2>4 DEF Fetch, Quiet, Own, Bounded, FullSees, Source, Carries, ClosingOf, At,
                                 Applying, Closing, Run, Idle
  <2> QED
    BY <1>3, <2>1, <2>3
<1>9. ASSUME Reread(h) PROVE IInv'
  <2> DEFINE record == [run[h] EXCEPT !.pc = "lessons", !.known = row.lessons,
                                          !.closed = row.certified, !.fresh = TRUE]
  <2>1. record \in Run /\ Quiet(h, record)
    BY <1>9, RecordsTyped, LessonsRecordsTyped DEF Reread, Quiet, Steps
  <2>2. run'[h] = record
    BY <2>1, BecomeMoves, TouchMoves DEF Quiet, Moves
  <2>3. Bounded(h)' /\ Source(h)' /\ ClosingOf(h)'
    BY <1>1, <1>9, <2>1, <2>2 DEF Reread, Quiet, Own, Bounded, Source, ClosingOf, At,
                                 Applying, Closing, Run
  <2>4. FullSees(h)'
    BY <1>1, <2>1, <2>2 DEF Quiet, Own, FullSees, Commits, Run
  <2>5. Held(run[h].snapshotAt)' = Held(run[h].snapshotAt)
    BY <2>1, <2>2 DEF Held, Commits, Quiet, Run
  <2>6. Carries(h)'
    BY <1>1, <1>9, <2>1, <2>2, <2>5 DEF Reread, Quiet, Own, Carries, At, Run
  <2>7. Own(h)'
    BY <2>3, <2>4, <2>6 DEF Own
  <2> QED
    BY <1>3, <2>1, <2>7
<1>10. ASSUME FetchFails(h), h \in Hooks PROVE IInv'
  <2> DEFINE record == [run[h] EXCEPT !.pc = "lessons", !.info = run[h].post,
                                          !.snapshotAt = run[h].receivedAt]
  <2>1. record \in Run /\ Quiet(h, record)
    BY <1>10, RecordsTyped, LessonsRecordsTyped DEF FetchFails, Quiet, Steps
  <2>2. run'[h] = record
    BY <2>1, BecomeMoves, TouchMoves DEF Quiet, Moves
  <2>3. Own(h)'
    BY <1>1, <1>2, <1>10, <2>1, <2>2 DEF FetchFails, Quiet, Own, Bounded, FullSees, Source, Carries, ClosingOf, At,
                                 Applying, Closing, Run, Idle
  <2> QED
    BY <1>3, <2>1, <2>3
<1>11. ASSUME LessonsFail(h) PROVE IInv'
  <2> DEFINE record == [run[h] EXCEPT !.pc = "write", !.known = {}, !.found = {},
                                          !.failed = TRUE]
  <2>1. record \in Run /\ Quiet(h, record)
    BY <1>1, <1>11, LessonsRecordsTyped DEF LessonsFail, Quiet, Steps
  <2>2. run'[h] = record
    BY <2>1, BecomeMoves, TouchMoves DEF Quiet, Moves
  <2>3. Bounded(h)' /\ Source(h)' /\ ClosingOf(h)'
    BY <1>1, <1>11, <2>1, <2>2 DEF LessonsFail, Quiet, Own, Bounded, Source, ClosingOf, At,
                                 Applying, Closing, Run
  <2>4. FullSees(h)'
    BY <1>1, <2>1, <2>2 DEF Quiet, Own, FullSees, Commits, Run
  <2>5. Held(run[h].snapshotAt)' = Held(run[h].snapshotAt)
    BY <2>1, <2>2 DEF Held, Commits, Quiet, Run
  <2>6. Carries(h)'
    BY <1>1, <1>11, <2>1, <2>2, <2>5 DEF LessonsFail, Quiet, Own, Carries, At, Run
  <2>7. Own(h)'
    BY <2>3, <2>4, <2>6 DEF Own
  <2> QED
    BY <1>3, <2>1, <2>7
<1>12. ASSUME Retry(h) PROVE IInv'
  <2> DEFINE record == [run[h] EXCEPT !.fresh = TRUE]
  <2>1. record \in Run /\ Quiet(h, record)
    BY <1>12, RecordsTyped, LessonsRecordsTyped DEF Retry, Quiet, Steps
  <2>2. run'[h] = record
    BY <2>1, BecomeMoves, TouchMoves DEF Quiet, Moves
  <2>3. Bounded(h)' /\ Source(h)' /\ ClosingOf(h)'
    BY <1>1, <1>12, <2>1, <2>2 DEF Retry, Quiet, Own, Bounded, Source, ClosingOf, At,
                                 Applying, Closing, Run
  <2>4. FullSees(h)'
    BY <1>1, <2>1, <2>2 DEF Quiet, Own, FullSees, Commits, Run
  <2>5. Held(run[h].snapshotAt)' = Held(run[h].snapshotAt)
    BY <2>1, <2>2 DEF Held, Commits, Quiet, Run
  <2>6. Carries(h)'
    BY <1>1, <1>12, <2>1, <2>2, <2>5 DEF Retry, Quiet, Own, Carries, At, Run
  <2>7. Own(h)'
    BY <2>3, <2>4, <2>6 DEF Own
  <2> QED
    BY <1>3, <2>1, <2>7
<1>13. ASSUME Pull(h), h \in Pulls PROVE IInv'
  <2> DEFINE record == [Idle EXCEPT !.pc = "claim"]
  <2>1. record \in Run /\ Quiet(h, record)
    BY <1>13, RecordsTyped, LessonsRecordsTyped DEF Pull, Quiet, Steps
  <2>2. run'[h] = record
    BY <2>1, BecomeMoves, TouchMoves DEF Quiet, Moves
  <2>3. Own(h)'
    BY <1>1, <1>2, <1>13, <2>1, <2>2, ScormAssumption DEF Pull, Quiet, Own, Bounded, FullSees, Source, Carries, ClosingOf, At,
                                 Applying, Closing, Run, Idle
  <2> QED
    BY <1>3, <2>1, <2>3
<1>14. ASSUME Receive(h) PROVE IInv'
  <2>1. PICK n \in posted :
          Become(h, [Idle EXCEPT !.pc = "claim", !.post = n, !.info = n,
                                 !.snapshotAt = now, !.receivedAt = now,
                                 !.known = row.lessons, !.closed = row.certified,
                                 !.fresh = TRUE])
    BY <1>14 DEF Receive
  <2> DEFINE record == [Idle EXCEPT !.pc = "claim", !.post = n, !.info = n,
                                    !.snapshotAt = now, !.receivedAt = now,
                                    !.known = row.lessons, !.closed = row.certified,
                                    !.fresh = TRUE]
  <2>2. record \in Run /\ Quiet(h, record)
    BY <1>14, <2>1, RecordsTyped DEF Receive, Quiet
  <2>3. run'[h] = record
    BY <2>2, BecomeMoves, TouchMoves DEF Quiet, Moves
  <2>4. n <= Len(cloud)
    BY DEF TypeOK, Commits
  <2>5. Own(h)'
    BY <1>2, <2>2, <2>3, <2>4 DEF Quiet, Own, Bounded, FullSees, Source, Carries,
                                  ClosingOf, At, Applying, Closing, Idle
  <2> QED
    BY <1>3, <2>2, <2>5
<1> QED
  BY <1>5, <1>6, <1>7, <1>8, <1>9, <1>10, <1>11, <1>12, <1>13, <1>14

\* Recording: what the pull shows is known already, or has progress rows and is on
\* its way to the row.
LEMMA RecordSafe ==
  ASSUME IInv, TypeOK', NEW h \in Handlers, RecordLessons(h) PROVE IInv'
<1> USE DEF IInv
<1>1. run[h] \in Run /\ Own(h) /\ Bounded(h) /\ run[h].info \in Nat
  BY Numbers DEF TypeOK, Own
<1>2. Onward
  <2>1. /\ UNCHANGED <<now, cloud, row, course>> /\ progress \subseteq progress'
        /\ withheld \subseteq withheld'
    BY DEF RecordLessons, Unrecorded, Withhold
  <2> QED
    BY <2>1 DEF Onward
<1>3. Whole'
  <2>1. UNCHANGED <<now, cloud, row, course>> /\ progress \subseteq progress'
    BY DEF RecordLessons, Unrecorded
  <2>2. LessonsBacked' /\ Certified'
    BY <2>1 DEF Whole, LessonsBacked, Certified, TypeOK
  <2>3. Held(row.appliedAt)' = Held(row.appliedAt)
    BY <2>1 DEF Held, Commits
  <2>4. AppliedIsRecorded' /\ SeenIsCurrent' /\ CloudTimed' /\ RowTimed'
    BY <1>2, <2>1, <2>3 DEF Whole, AppliedIsRecorded, SeenIsCurrent, CloudTimed, RowTimed,
                            Commits, Onward
  <2> QED
    BY <2>2, <2>4 DEF Whole
<1>5. run[h].full => Held(run[h].snapshotAt) \subseteq LessonsBy(run[h].info)
  BY <1>1, HeldShown DEF Own
<1>6. ASSUME NEW record \in Run, Become(h, record),
             record.info = run[h].info, record.post = run[h].post,
             record.full = run[h].full, record.failed = run[h].failed,
             record.snapshotAt = run[h].snapshotAt,
             record.receivedAt = run[h].receivedAt,
             record.pc \in {"index", "write"}, record.known = {},
             record.found \subseteq progress',
             run[h].full /\ record.pc = "index"
               => LessonsBy(run[h].info) \subseteq row.lessons \cup record.found \cup withheld',
             run[h].full /\ record.pc = "write"
               => LessonsBy(run[h].info) \subseteq withheld'
      PROVE  IInv'
  <2>1. Moves(h, record) /\ run'[h] = record
    BY <1>6, BecomeMoves DEF Moves
  <2>2. Bounded(h)' /\ Source(h)' /\ ClosingOf(h)' /\ FullSees(h)'
    BY <1>1, <1>2, <1>6, <2>1 DEF RecordLessons, Own, Bounded, Source, FullSees, ClosingOf,
                                  At, Applying, Closing, Commits, Onward
  <2>4. Held(run[h].snapshotAt)' = Held(run[h].snapshotAt)
    BY <1>2, <1>6, <2>1 DEF Held, Commits, Onward
  <2>3. Carries(h)'
    BY <1>2, <1>5, <1>6, <2>1, <2>4 DEF RecordLessons, Carries, At, LessonsBy
  <2> QED
    BY <1>2, <1>3, <2>1, <2>2, <2>3, Handled DEF Own
<1>7. run[h].known \subseteq row.lessons /\ run[h].found \subseteq progress
  BY <1>1 DEF Own, Carries
<1>8. CASE (~run[h].full \/ run[h].info = 0) /\ Unrecorded(h) /\ UNCHANGED withheld
  <2> DEFINE record == [run[h] EXCEPT !.pc = "write", !.known = {}]
  <2>1. record \in Run
    BY <1>1, LessonsRecordsTyped
  <2> QED
    BY <1>1, <1>6, <1>7, <1>8, <2>1 DEF Run, Unrecorded, LessonsBy
<1>9. CASE /\ Merged(h) = run[h].known
           /\ Become(h, [run[h] EXCEPT !.pc = "index", !.known = {}])
           /\ UNCHANGED <<progress, withheld>>
  <2> DEFINE record == [run[h] EXCEPT !.pc = "index", !.known = {}]
  <2>1. record \in Run
    BY <1>1, LessonsRecordsTyped
  <2>2. LessonsBy(run[h].info) \subseteq row.lessons
    BY <1>7, <1>9 DEF Merged
  <2> QED
    BY <1>1, <1>6, <1>7, <1>9, <2>1, <2>2 DEF Run
<1>10. CASE Unrecorded(h) /\ Withhold(h, {})
  <2> DEFINE record == [run[h] EXCEPT !.pc = "write", !.known = {}]
  <2>1. record \in Run
    BY <1>1, LessonsRecordsTyped
  <2>2. LessonsBy(run[h].info) \subseteq withheld'
    BY <1>10 DEF Withhold
  <2> QED
    BY <1>1, <1>6, <1>7, <1>10, <2>1, <2>2 DEF Run, Unrecorded
<1>11. ASSUME NEW found, found = Merged(h) \cap package.placed,
              progress' = progress \cup found, Withhold(h, found),
              Become(h, [run[h] EXCEPT !.pc = "index", !.known = {}, !.found = found])
       PROVE  IInv'
  <2> DEFINE record == [run[h] EXCEPT !.pc = "index", !.known = {}, !.found = found]
  <2>1. record \in Run
    BY <1>1, <1>11, LessonsRecordsTyped
  <2>2. record.found = found /\ LessonsBy(run[h].info) \subseteq found \cup withheld'
    BY <1>1, <1>11 DEF Withhold, Run
  <2> QED
    BY <1>1, <1>6, <1>11, <2>1, <2>2 DEF Run
<1> QED
  BY <1>8, <1>9, <1>10, <1>11 DEF RecordLessons

LEMMA IndexSafe ==
  ASSUME IInv, TypeOK', NEW h \in Handlers, Index(h) PROVE IInv'
<1> USE DEF IInv
<1> DEFINE record == [run[h] EXCEPT !.pc = "write", !.known = {}, !.found = {}]
<1>1. run[h] \in Run /\ row \in Row /\ Own(h) /\ Bounded(h)
  BY DEF TypeOK, Own
<1>2. Moves(h, record) /\ run'[h] = record
  BY <1>1, LessonsRecordsTyped, BecomeMoves DEF Index, Moves
<1>3. /\ row'.lessons = row.lessons \cup run[h].found
      /\ row'.done = row.done /\ row'.certified = row.certified
      /\ row'.appliedAt = row.appliedAt /\ row'.postbackAt = row.postbackAt
      /\ row'.seen = row.seen
  BY <1>1 DEF Index, Row
<1>4. UNCHANGED <<now, cloud, progress, course, withheld>>
  BY DEF Index
<1>5. Onward
  BY <1>3, <1>4 DEF Onward
<1>6. Whole'
  <2>1. LessonsBacked' /\ Certified'
    BY <1>1, <1>3, <1>4 DEF Whole, Own, Carries, LessonsBacked, Certified
  <2>2. Held(row.appliedAt)' = Held(row.appliedAt)
    BY <1>3, <1>4 DEF Held, Commits
  <2>3. AppliedIsRecorded' /\ SeenIsCurrent' /\ CloudTimed' /\ RowTimed'
    BY <1>3, <1>4, <2>2 DEF Whole, AppliedIsRecorded, SeenIsCurrent, CloudTimed, RowTimed,
                            Commits
  <2> QED
    BY <2>1, <2>3 DEF Whole
<1>7. Bounded(h)' /\ Source(h)' /\ ClosingOf(h)' /\ FullSees(h)'
  BY <1>1, <1>2, <1>4 DEF Index, Own, Bounded, Source, FullSees, ClosingOf, At, Applying,
                          Closing, Commits, Run
<1>8. Held(run[h].snapshotAt)' = Held(run[h].snapshotAt)
  BY <1>1, <1>2, <1>4 DEF Held, Commits, Run
<1>9. Carries(h)'
  BY <1>1, <1>2, <1>3, <1>4, <1>8 DEF Index, Own, Carries, At, Run
<1> QED
  BY <1>2, <1>5, <1>6, <1>7, <1>9, Handled DEF Own

\* The merge: the row is marked as pulled for when the lessons are in it, and the
\* position is replaced only by that of an answer no older.
LEMMA WriteSafe ==
  ASSUME IInv, TypeOK', NEW h \in Handlers, Write(h) PROVE IInv'
<1> USE DEF IInv
<1> DEFINE q     == run[h]
           next  == [Idle EXCEPT !.pc = "bridge", !.post = q.post]
           newer == SnapshotFresh(row, q.snapshotAt) /\ ~q.failed
<1>1. q \in Run /\ row \in Row /\ Own(h) /\ Bounded(h) /\ At(h, "write")
  BY DEF TypeOK, Own, Write
<1>2. /\ now \in Nat /\ Len(cloud) \in Nat /\ q.snapshotAt \in Nat /\ q.receivedAt \in Nat
      /\ row.seen \in Nat /\ row.postbackAt \in Nat /\ row.appliedAt \in Nat
      /\ q.post \in Nat /\ q.info \in Nat /\ q.snapshotAt <= now /\ q.receivedAt <= now
  BY <1>1, Numbers DEF Bounded
<1>3. UNCHANGED <<now, cloud, progress, course, withheld>>
  BY DEF Write
<1>4. /\ row'.lessons = row.lessons /\ row'.certified = row.certified
      /\ row.done => row'.done
      /\ row'.seen = IF newer THEN q.info ELSE row.seen
      /\ row'.postbackAt = IF h \in Hooks THEN Later(row.postbackAt, q.receivedAt)
                                          ELSE row.postbackAt
      /\ row'.appliedAt = IF q.full /\ ~q.failed THEN Later(row.appliedAt, q.snapshotAt)
                                                 ELSE row.appliedAt
  BY <1>1 DEF Write, Merge, Ranked, Row
<1>5. Onward
  BY <1>3, <1>4 DEF Onward
<1>6. LessonsBacked' /\ Certified' /\ CloudTimed' /\ RowTimed'
  <2>1. row'.appliedAt <= now
    BY <1>2, <1>4 DEF Whole, RowTimed, Later
  <2> QED
    BY <1>3, <1>4, <2>1 DEF Whole, LessonsBacked, Certified, CloudTimed, RowTimed, Commits
<1>7. AppliedIsRecorded'
  <2>1. \A t : Held(t)' = Held(t)
    BY <1>3 DEF Held, Commits
  <2>2. CASE q.full /\ ~q.failed /\ row'.appliedAt = q.snapshotAt
    <3>1. Held(q.snapshotAt) \subseteq row.lessons \cup withheld
      BY <1>1, <2>2 DEF Own, Carries
    <3>2. Held(row.appliedAt)' = Held(q.snapshotAt)
      BY <1>3, <2>2 DEF Held, Commits
    <3> QED
      BY <1>3, <1>4, <3>1, <3>2 DEF AppliedIsRecorded
  <2>3. CASE row'.appliedAt = row.appliedAt
    <3>1. Held(row.appliedAt)' = Held(row.appliedAt)
      BY <1>3, <2>3 DEF Held, Commits
    <3> QED
      BY <1>3, <1>4, <3>1 DEF Whole, AppliedIsRecorded
  <2> QED
    BY <1>4, <2>2, <2>3 DEF Later
<1>8. SeenIsCurrent'
  <2> SUFFICES ASSUME row'.appliedAt > row'.postbackAt,
                      NEW n \in Commits, cloud[n].time <= row'.appliedAt
               PROVE  n <= row'.seen
    BY <1>3 DEF SeenIsCurrent, Commits
  <2>1. cloud[n].time \in Nat /\ n \in Nat
    BY CloudTyped DEF Commits
  <2>2. row.postbackAt <= row'.postbackAt /\ row'.postbackAt \in Nat
    BY <1>2, <1>4 DEF Later
  <2>3. CASE newer /\ q.full
    <3>1. row'.appliedAt = q.snapshotAt /\ row'.seen = q.info
      BY <1>2, <1>4, <2>3 DEF SnapshotFresh, Later
    <3> QED
      BY <1>1, <2>3, <3>1 DEF Own, FullSees
  <2>4. CASE newer /\ ~q.full
    <3>1. h \in Hooks /\ q.snapshotAt = q.receivedAt
      BY <1>1, <2>4 DEF Own, Source, At, Applying
    <3> QED
      BY <1>2, <1>4, <2>4, <3>1 DEF SnapshotFresh, Later
  <2>5. CASE ~newer
    <3>1. row'.seen = row.seen
      BY <1>4, <2>5
    <3>2. CASE row'.appliedAt = row.appliedAt
      BY <1>2, <2>1, <2>2, <3>1, <3>2 DEF Whole, SeenIsCurrent
    <3>3. CASE row'.appliedAt # row.appliedAt
      <4>1. row'.appliedAt = q.snapshotAt /\ q.snapshotAt >= row.appliedAt /\ ~q.failed
        BY <1>2, <1>4, <3>3 DEF Later
      <4>2. q.snapshotAt < row.postbackAt
        BY <1>2, <2>5, <4>1 DEF SnapshotFresh
      <4>3. row'.postbackAt \in Nat
        BY <1>2, <1>4 DEF Later
      <4> QED
        BY <1>2, <2>2, <4>1, <4>2, <4>3
    <3> QED
      BY <3>2, <3>3
  <2> QED
    BY <2>3, <2>4, <2>5
<1>9. Whole'
  BY <1>6, <1>7, <1>8 DEF Whole
<1>10. CASE CompleteOnSatisfied(row') /\ Touch(h, next)
  <2>1. Moves(h, next) /\ run'[h] = next
    BY <1>10, RecordsTyped, TouchMoves DEF Moves
  <2>2. Own(h)'
    BY <1>1, <1>2, <1>3, <1>10, <2>1 DEF CompleteOnSatisfied, Own, Bounded, FullSees, Source,
       Carries, ClosingOf, At, Applying, Closing, Idle
  <2> QED
    BY <1>5, <1>9, <2>1, <2>2, Handled
<1>11. CASE Finish(h, [p \in Handlers |-> [run[p] EXCEPT !.fresh = FALSE]])
  <2>1. Moves(h, Idle)
    BY <1>11, FinishMoves
  <2>2. Own(h)'
    BY <2>1, IdleSafe DEF Moves
  <2> QED
    BY <1>5, <1>9, <2>1, <2>2, Handled
<1> QED
  BY <1>10, <1>11 DEF Write

\* Certifying: each step is taken only after the one before it.
LEMMA CloseSafe ==
  ASSUME IInv, TypeOK', NEW h \in Handlers,
         Bridge(h) \/ BridgeSkipped(h) \/ Stamp(h) \/ Check(h) \/ Pass(h) \/ Close(h)
  PROVE  IInv'
<1> USE DEF IInv
<1>1. run[h] \in Run /\ row \in Row /\ Own(h) /\ progress \subseteq Lessons
  BY DEF TypeOK, Own
<1>2. /\ UNCHANGED <<now, cloud, withheld>> /\ progress \subseteq progress'
      /\ course = "passed" => course' = "passed"
      /\ progress = Lessons => progress' = Lessons
  BY <1>1 DEF Bridge, BridgeSkipped, Stamp, Check, Pass, Close
<1>3. /\ row'.lessons = row.lessons /\ row'.done = row.done
      /\ row'.appliedAt = row.appliedAt /\ row'.postbackAt = row.postbackAt
      /\ row'.seen = row.seen
  BY <1>1 DEF Bridge, BridgeSkipped, Stamp, Check, Pass, Close, Row
<1>4. Onward
  BY <1>2, <1>3 DEF Onward
<1>5. Certified'
  BY <1>1, <1>2, <1>3 DEF Whole, Certified, Own, ClosingOf, Closing, At, Row,
     Bridge, BridgeSkipped, Stamp, Check, Pass, Close
<1>6. Whole'
  <2>1. LessonsBacked' /\ CloudTimed' /\ RowTimed'
    BY <1>2, <1>3 DEF Whole, LessonsBacked, CloudTimed, RowTimed, Commits
  <2>2. Held(row.appliedAt)' = Held(row.appliedAt)
    BY <1>2, <1>3 DEF Held, Commits
  <2>3. AppliedIsRecorded' /\ SeenIsCurrent'
    BY <1>2, <1>3, <2>2 DEF Whole, AppliedIsRecorded, SeenIsCurrent, Commits
  <2> QED
    BY <1>5, <2>1, <2>3 DEF Whole
<1>7. CASE BridgeSkipped(h) \/ Close(h)
  <2>1. PICK record : Finish(h, record) /\ \A q \in Handlers : \E b \in BOOLEAN :
                        record[q] = [run[q] EXCEPT !.fresh = b]
    <3>1. \A q \in Handlers : run[q] = [run[q] EXCEPT !.fresh = run[q].fresh]
                              /\ run[q].fresh \in BOOLEAN
      BY DEF TypeOK, Run
    <3>2. CASE BridgeSkipped(h)
      BY <3>1, <3>2 DEF BridgeSkipped
    <3>3. CASE Close(h)
      <4> DEFINE record == [q \in Handlers |-> [run[q] EXCEPT !.fresh = @ /\ row.certified]]
      <4>1. \A q \in Handlers : \E b \in BOOLEAN : record[q] = [run[q] EXCEPT !.fresh = b]
        BY <3>1 DEF TypeOK, Row
      <4> QED
        BY <3>3, <4>1 DEF Close
    <3> QED
      BY <1>7, <3>2, <3>3
  <2>2. Moves(h, Idle)
    BY <2>1, FinishMoves
  <2>3. Own(h)'
    BY <2>2, IdleSafe DEF Moves
  <2> QED
    BY <1>4, <1>6, <2>2, <2>3, Handled
<1>8. ASSUME NEW pc \in {"stamp", "check", "pass", "close"},
             Become(h, [run[h] EXCEPT !.pc = pc]) \/ Touch(h, [run[h] EXCEPT !.pc = pc]),
             run[h].pc \in Closing,
             pc \in {"check", "pass", "close"} => progress' = Lessons,
             pc = "close" => course' = "passed"
      PROVE  IInv'
  <2> DEFINE record == [run[h] EXCEPT !.pc = pc]
  <2>1. record \in Run
    BY RecordsTyped DEF Steps
  <2>2. Moves(h, record) /\ run'[h] = record
    BY <1>8, <2>1, BecomeMoves, TouchMoves DEF Moves
  <2>3. Bounded(h)' /\ Source(h)' /\ FullSees(h)'
    BY <1>1, <1>2, <2>2 DEF Own, Bounded, Source, FullSees, At, Applying, Commits, Run
  <2>4. Carries(h)'
    BY <1>1, <1>2, <1>3, <2>2 DEF Own, Carries, At, Run
  <2>5. ClosingOf(h)'
    BY <1>1, <1>2, <1>3, <1>8, <2>2 DEF Own, ClosingOf, Closing, Run
  <2> QED
    BY <1>4, <1>6, <2>2, <2>3, <2>4, <2>5, Handled DEF Own
<1>9. CASE Bridge(h)
  BY <1>8, <1>9 DEF Bridge, At, Closing
<1>10. CASE Stamp(h)
  BY <1>8, <1>10 DEF Stamp, At, Closing
<1>11. CASE Check(h)
  BY <1>1, <1>8, <1>11 DEF Check, At, Closing, Own, ClosingOf
<1>12. CASE Pass(h)
  BY <1>1, <1>8, <1>12 DEF Pass, At, Closing, Own, ClosingOf
<1> QED
  BY <1>7, <1>9, <1>10, <1>11, <1>12

-----------------------------------------------------------------------------
(* The theorems *)

LEMMA StepSafe == IInv /\ [Next]_vars => IInv'
<1> SUFFICES ASSUME IInv, [Next]_vars PROVE IInv'
  OBVIOUS
<1>1. TypeOK'
  BY StepTyped DEF IInv, Own
<1>2. CASE Tick
  BY <1>1, <1>2, TickSafe
<1>3. CASE LearnerCommits
  BY <1>1, <1>3, CommitSafe
<1>4. CASE ToggleAccess \/ PackageChanges \/ Ages \/ FloorPasses \/ UNCHANGED vars
  <2>1. UNCHANGED <<now, cloud, row, progress, course, run, withheld>>
    BY <1>4 DEF ToggleAccess, PackageChanges, Ages, FloorPasses, vars
  <2>2. Onward /\ \A q \in Handlers : Kept(q)
    BY <2>1 DEF Onward, Kept, IInv, TypeOK
  <2>3. Whole'
    BY <2>1, WholeKept, ScormAssumption DEF IInv, TypeOK, Time
  <2> QED
    BY <1>1, <2>2, <2>3, OthersSafe DEF IInv
<1>5. ASSUME NEW h \in Handlers,
             Step(h) \/ Crash(h) \/ FetchFails(h) \/ LessonsFail(h) \/ Receive(h)
             \/ (Pull(h) /\ h \in Pulls)
      PROVE  IInv'
  BY <1>1, <1>5, PullSafe, RecordSafe, IndexSafe, WriteSafe, CloseSafe DEF Step
<1> QED
  BY <1>2, <1>3, <1>4, <1>5 DEF Next, Handlers, ReadPull, Sweep

\* The invariant the properties rest on.
THEOREM Invariance == Spec => []IInv
  BY InitSafe, StepSafe, PTL DEF Spec

\* Every state of ScormRuntime is well typed.
THEOREM TypeCorrect == Spec => []TypeOK
<1>1. IInv => TypeOK
  BY DEF IInv
<1> QED
  BY <1>1, Invariance, PTL

\* A row marked as pulled for holds the lessons Cloud had when it was: what
\* reconcile and pull-on-read leave alone has nothing to pull for.
THEOREM MarkedIsRecorded == Spec => []AppliedIsRecorded
<1>1. IInv => AppliedIsRecorded
  BY DEF IInv, Whole
<1> QED
  BY <1>1, Invariance, PTL

\* The position shown is as new as the last pull, when no postback is newer.
THEOREM PositionCurrent == Spec => []SeenIsCurrent
<1>1. IInv => SeenIsCurrent
  BY DEF IInv, Whole
<1> QED
  BY <1>1, Invariance, PTL

\* Every lesson counted for a registration has its progress row.
THEOREM CountedIsBacked == Spec => []LessonsBacked
<1>1. IInv => LessonsBacked
  BY DEF IInv, Whole
<1> QED
  BY <1>1, Invariance, PTL

\* Nobody is certified whose package did not report completion, or with a section
\* left undone.
THEOREM CertifiedIsComplete == Spec => []CertifiedComplete
<1>1. IInv => CertifiedComplete
  BY DEF IInv, Whole, Certified, CertifiedComplete
<1> QED
  BY <1>1, Invariance, PTL

\* Neither completion, nor lessons, nor a certificate, nor its figure is taken
\* back, in whatever order answers arrive.
THEOREM Monotone == Spec => NeverBack
<1> DEFINE Forward ==
      /\ row.done => row'.done
      /\ row.lessons \subseteq row'.lessons
      /\ row.certified => row'.certified
      /\ row.atCertify # NotTaken => row'.atCertify = row.atCertify
      /\ row.postbackAt <= row'.postbackAt
      /\ row.appliedAt <= row'.appliedAt
<1>1. ASSUME TypeOK, [Next]_vars PROVE Forward
  <2>1. row \in Row /\ row.postbackAt \in Nat /\ row.appliedAt \in Nat
    BY <1>1, ScormAssumption DEF TypeOK, Row, Time
  <2>2. CASE UNCHANGED row
    BY <2>1, <2>2
  <2>3. ASSUME NEW h \in Handlers, Index(h) \/ Close(h) \/ Bridge(h) PROVE Forward
    <3>1. row'.postbackAt = row.postbackAt /\ row'.appliedAt = row.appliedAt
      BY <2>1, <2>3 DEF Index, Close, Bridge, Row
    <3>2. /\ row.lessons \subseteq row'.lessons
          /\ row.done => row'.done
          /\ row.certified => row'.certified
      BY <2>1, <2>3 DEF Index, Close, Bridge, Row
    <3>3. row.atCertify # NotTaken => row'.atCertify = row.atCertify
      BY <2>1, <2>3 DEF Index, Close, Bridge, Row
    <3> QED
      BY <2>1, <3>1, <3>2, <3>3
  <2>4. ASSUME NEW h \in Handlers, Write(h) PROVE Forward
    <3>1. run[h].receivedAt \in Nat /\ run[h].snapshotAt \in Nat
      BY <1>1, Numbers
    <3>2. /\ row.lessons \subseteq row'.lessons
          /\ row.certified => row'.certified
          /\ row'.atCertify = row.atCertify
          /\ row.done => row'.done
      BY <2>1, <2>4 DEF Write, Merge, Ranked, Row
    <3>3. row.postbackAt <= row'.postbackAt /\ row.appliedAt <= row'.appliedAt
      BY <2>1, <2>4, <3>1 DEF Write, Merge, Later, Row
    <3> QED
      BY <3>2, <3>3
  <2>5. UNCHANGED row \/ \E h \in Handlers : Index(h) \/ Close(h) \/ Bridge(h) \/ Write(h)
    BY <1>1 DEF Next, Step, vars, Tick, LearnerCommits, ToggleAccess, PackageChanges, Ages,
       FloorPasses, Crash, FetchFails, LessonsFail, Receive, ReadPull, Sweep, Pull, Claim, ClaimRefused, Fetch, Reread,
       RecordLessons, Retry, BridgeSkipped, Stamp, Check, Pass
  <2> QED
    BY <2>2, <2>3, <2>4, <2>5
<1>2. TypeOK /\ [Next]_vars => [Forward]_vars
  BY <1>1
<1> QED
  BY <1>2, TypeCorrect, PTL DEF Spec, NeverBack
=============================================================================
