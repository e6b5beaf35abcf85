------------------------------ MODULE ScormRuntime ------------------------------
(***************************************************************************)
(* One SCORM registration: what the learner does is kept by SCORM Cloud, which  *)
(* posts every commit back, without the lessons.  A postback triggers a pull   *)
(* of the full record, unless one was made a moment ago; a page that shows a    *)
(* row whose last postback no pull followed, and a daily sweep, pull too.  The  *)
(* answers arrive late and out of order, and are merged into the row.           *)
(***************************************************************************)
EXTENDS Naturals, FiniteSets, Sequences

CONSTANTS
  Hooks,        \* requests that handle postbacks
  Pulls,        \* requests that pull: a page that is read, the cron
  Lessons,      \* the lessons of the package, each with a section
  Manifest,     \* the package was imported with a manifest of its lessons
  NotTaken,     \* lessonsCompletedAtCertify is null
  MaxTime,      \* bound on clock ticks, and so on commits
  MaxFaults   \* bound on crashes, failing calls, changes of access and of the package

Handlers == Hooks \cup Pulls

ASSUME ScormAssumption ==
  /\ Hooks \cap Pulls = {}
  /\ IsFiniteSet(Lessons)
  /\ Manifest \in BOOLEAN
  /\ NotTaken \notin Nat
  /\ MaxTime \in Nat /\ MaxFaults \in Nat

VARIABLES
  now,       \* the clock
  cloud,     \* external: the record in SCORM Cloud after each commit
  posted,    \* external: commits whose postback has not been answered with 200
  row,       \* the ScormRegistration
  recent,    \* lastRuntimePullAt lies within the floor
  aged,      \* lastPostbackAt is out of the window or the batch of dirty rows
  progress,  \* sections with a UserCourseProgress row
  course,    \* the CourseCompletion: stamped, then passed
  access,    \* the learner may record progress
  package,   \* what the ScormPackage and its sections let lessons be told by
  run,       \* the requests under way
  faults,
  withheld   \* history: lessons a pull was applied without, though it showed them

vars == <<now, cloud, posted, row, recent, aged, progress, course, access, package,
          run, faults, withheld>>

Time    == 0 .. MaxTime
Commit  == [lessons : SUBSET Lessons, done : BOOLEAN, time : Time]
Commits == 1 .. Len(cloud)

\* done is completeOn reached by the stored statuses, seen the commit the fields
\* of the newest snapshot were taken from, decoded lessonsCompleted not null.
Row == [done : BOOLEAN, seen : Time, lessons : SUBSET Lessons, decoded : BOOLEAN,
        postbackAt : Time, appliedAt : Time, certified : BOOLEAN,
        atCertify : Nat \cup {NotTaken}]
NewRow == [done |-> FALSE, seen |-> 0, lessons |-> {}, decoded |-> FALSE,
           postbackAt |-> 0, appliedAt |-> 0, certified |-> FALSE,
           atCertify |-> NotTaken]

\* decodes: the payload has a runtime whose data can be read and tells the lessons
\* of the manifest, cpv and index space included.  placed: the lessons whose entry
\* in the manifest leads to a section that can be written.
Package == [decodes : BOOLEAN, placed : SUBSET Lessons]

Steps == {"idle", "claim", "fetch", "reread", "lessons", "index", "write", "bridge",
          "stamp", "check", "pass", "close"}
\* post is the postback handled (0: none), info the commit the payload shows,
\* full that it came from a pull, snapshotAt and receivedAt the stamps, old the
\* row that was read, fresh that updatedAt has not changed since, found the
\* lessons to record, and failed that recording them threw.
Run  == [pc : Steps, post : Time, info : Time, full : BOOLEAN, snapshotAt : Time,
         receivedAt : Time, fresh : BOOLEAN, known : SUBSET Lessons,
         closed : BOOLEAN, found : SUBSET Lessons, failed : BOOLEAN]
Idle == [pc |-> "idle", post |-> 0, info |-> 0, full |-> FALSE, snapshotAt |-> 0,
         receivedAt |-> 0, fresh |-> FALSE, known |-> {},
         closed |-> FALSE, found |-> {}, failed |-> FALSE]

At(h, step)       == run[h].pc = step
Become(h, record) == run' = [run EXCEPT ![h] = record]
Later(a, b)       == IF a > b THEN a ELSE b

\* A write of the row that moves updatedAt, and takes h on.
Touch(h, record) ==
  run' = [q \in Handlers |-> IF q = h THEN record
                             ELSE [run[q] EXCEPT !.fresh = FALSE]]

DoneBy(n)    == n # 0 /\ cloud[n].done
LessonsBy(n) == IF n = 0 THEN {} ELSE cloud[n].lessons

\* Mutant: nothing pulls for a row because it is dirty.
DirtyNever(r) == FALSE

\* isRuntimeDirty
Dirty(r) == r.postbackAt > r.appliedAt

\* Mutant: an answer overwrites the position, however late it is.
SnapshotFreshAlways(r, at) == TRUE

\* isSnapshotFresh
SnapshotFresh(r, at) == at >= r.postbackAt /\ at >= r.appliedAt

-----------------------------------------------------------------------------
\* The registration was made at a launch, by a learner who could record.
Init ==
  /\ now = 0
  /\ cloud = << >>
  /\ posted = {}
  /\ row = NewRow
  /\ recent = FALSE /\ aged = FALSE
  /\ progress = {}
  /\ course = "none"
  /\ access = TRUE
  /\ package = [decodes |-> Manifest, placed |-> Lessons]
  /\ run = [h \in Handlers |-> Idle]
  /\ faults = 0
  /\ withheld = {}

Fault == faults < MaxFaults /\ faults' = faults + 1

Tick ==
  /\ now < MaxTime
  /\ now' = now + 1
  /\ UNCHANGED <<cloud, posted, row, recent, aged, progress, course, access, package,
                 run, faults, withheld>>

\* The learner goes on, or starts again, which empties the record.  Commits that
\* only move the position are left out.
LearnerCommits ==
  /\ now < MaxTime
  /\ now' = now + 1
  /\ \E lessons \in SUBSET Lessons, done \in BOOLEAN :
       /\ lessons # LessonsBy(Len(cloud)) \/ done # DoneBy(Len(cloud))
       /\ \/ lessons = {} /\ ~done
          \/ LessonsBy(Len(cloud)) \subseteq lessons /\ (DoneBy(Len(cloud)) => done)
       /\ cloud' = Append(cloud, [lessons |-> lessons, done |-> done, time |-> now'])
  /\ posted' = posted \cup {Len(cloud')}
  /\ UNCHANGED <<row, recent, aged, progress, course, access, package, run, faults,
                 withheld>>

\* The enrolment, the course or the account stops or resumes being usable.
ToggleAccess ==
  /\ Fault
  /\ access' = ~access
  /\ UNCHANGED <<now, cloud, posted, row, recent, aged, progress, course, package,
                 run, withheld>>

\* The package, its manifest or its sections are changed, or what the content
\* writes can no longer be read.
PackageChanges ==
  /\ Fault
  /\ package' \in Package \ {package}
  /\ UNCHANGED <<now, cloud, posted, row, recent, aged, progress, course, access, run,
                 withheld>>

\* The longest of the floors between pulls has passed.
FloorPasses ==
  /\ recent /\ recent' = FALSE
  /\ UNCHANGED <<now, cloud, posted, row, aged, progress, course, access, package, run,
                 faults, withheld>>

\* The last postback is two weeks old, or ten other dirty rows are newer: it
\* matters once the sweep looks for the row for no other reason.
Ages ==
  /\ Dirty(row) /\ row.done /\ course = "passed" /\ ~aged
  /\ aged' = TRUE
  /\ UNCHANGED <<now, cloud, posted, row, recent, progress, course, access, package,
                 run, faults, withheld>>

\* The instance is stopped, or a call throws: SCORM Cloud posts back again.
Crash(h) ==
  /\ ~At(h, "idle") /\ Fault
  /\ Become(h, Idle)
  /\ UNCHANGED <<now, cloud, posted, row, recent, aged, progress, course, access,
                 package, withheld>>

-----------------------------------------------------------------------------
(* Pulling *)

\* handlePostback: a postback, or one sent again; its stamp is its arrival.
Receive(h) ==
  /\ At(h, "idle")
  /\ \E n \in posted :
       Become(h, [Idle EXCEPT !.pc = "claim", !.post = n, !.info = n,
                              !.snapshotAt = now, !.receivedAt = now,
                              !.known = row.lessons, !.closed = row.certified,
                              !.fresh = TRUE])
  /\ UNCHANGED <<now, cloud, posted, row, recent, aged, progress, course, access,
                 package, faults, withheld>>

Pull(h) ==
  /\ At(h, "idle")
  /\ Become(h, [Idle EXCEPT !.pc = "claim"])
  /\ UNCHANGED <<now, cloud, posted, row, recent, aged, progress, course, access,
                 package, faults, withheld>>

\* refreshIfDirty: someone opens a page that shows a dirty row.
ReadPull(h) == Dirty(row) /\ Pull(h)

\* reconcileCron: what is not completed or not certified, the least recently pulled
\* first; and, while they are recent, the dirty rows.
Sweep(h) == (~row.done \/ course # "passed" \/ (Dirty(row) /\ ~aged)) /\ Pull(h)

\* claimRuntimePull: check and stamp are one statement.  The stamp of what the
\* pull will bring is the instant it is issued.
Claim(h) ==
  /\ At(h, "claim") /\ ~recent
  /\ recent' = TRUE
  /\ Touch(h, [Idle EXCEPT !.pc = "fetch", !.post = run[h].post, !.snapshotAt = now,
                           !.receivedAt = run[h].receivedAt])
  /\ UNCHANGED <<now, cloud, posted, row, aged, progress, course, access, package, faults,
                 withheld>>

\* Another pull was issued within the floor that applies: a postback goes on with
\* what it carries.
ClaimRefused(h) ==
  /\ At(h, "claim") /\ recent
  /\ Become(h, IF h \in Hooks THEN [run[h] EXCEPT !.pc = "lessons"] ELSE Idle)
  /\ UNCHANGED <<now, cloud, posted, row, recent, aged, progress, course, access,
                 package, faults, withheld>>

\* The answer shows the record when Cloud answers.
Fetch(h) ==
  /\ At(h, "fetch")
  /\ Become(h, [run[h] EXCEPT !.pc = "reread", !.info = Len(cloud), !.full = TRUE])
  /\ UNCHANGED <<now, cloud, posted, row, recent, aged, progress, course, access,
                 package, faults, withheld>>

\* A failed pull degrades to what the postback carried.
FetchFails(h) ==
  /\ At(h, "fetch") /\ Fault
  /\ Become(h, IF h \in Hooks
               THEN [run[h] EXCEPT !.pc = "lessons", !.info = run[h].post,
                                   !.snapshotAt = run[h].receivedAt]
               ELSE Idle)
  /\ UNCHANGED <<now, cloud, posted, row, recent, aged, progress, course, access,
                 package, withheld>>

Reread(h) ==
  /\ At(h, "reread")
  /\ Become(h, [run[h] EXCEPT !.pc = "lessons", !.known = row.lessons,
                           !.closed = row.certified, !.fresh = TRUE])
  /\ UNCHANGED <<now, cloud, posted, row, recent, aged, progress, course, access,
                 package, faults, withheld>>

-----------------------------------------------------------------------------
(* Applying *)

\* What is merged and recorded: the lessons of the row that was read, and those
\* the record shows.
Merged(h) == run[h].known \cup LessonsBy(run[h].info)

\* What the record shows and is not kept, though the pull will count as applied.
Withhold(h, kept) == withheld' = withheld \cup (LessonsBy(run[h].info) \ kept)

\* Goes on to writeScalars with nothing recorded.
Unrecorded(h) ==
  Become(h, [run[h] EXCEPT !.pc = "write", !.known = {}]) /\ UNCHANGED progress

\* Mutant: the lessons go on to the row whoever may not record progress.
RecordLessonsUnchecked(h) ==
  /\ At(h, "lessons")
  /\ progress' = IF access THEN progress \cup Merged(h) ELSE progress
  /\ Become(h, [run[h] EXCEPT !.pc = "index", !.known = {}, !.found = Merged(h)])
  /\ UNCHANGED <<now, cloud, posted, row, recent, aged, course, access, package,
                 faults, withheld>>

\* applyLessonProgress: progress first, then the row's own set.  What cannot be
\* read, has no section or may not be recorded is dropped, and the pull counts as
\* applied all the same.
RecordLessons(h) ==
  /\ At(h, "lessons")
  /\ LET nothing   == ~run[h].full \/ run[h].info = 0
         unchanged == Merged(h) = run[h].known
         found     == Merged(h) \cap package.placed
     IN  \/ /\ nothing
            /\ Unrecorded(h)
            /\ UNCHANGED withheld
         \/ /\ ~nothing /\ package.decodes /\ unchanged
            /\ Become(h, [run[h] EXCEPT !.pc = "index", !.known = {}])
            /\ UNCHANGED <<progress, withheld>>
         \/ /\ ~nothing
            /\ ~package.decodes \/ (~unchanged /\ (found = {} \/ ~access))
            /\ Unrecorded(h)
            /\ Withhold(h, {})
         \/ /\ ~nothing /\ package.decodes /\ ~unchanged /\ found # {} /\ access
            /\ progress' = progress \cup found
            /\ Become(h, [run[h] EXCEPT !.pc = "index", !.known = {}, !.found = found])
            /\ Withhold(h, found)
  /\ UNCHANGED <<now, cloud, posted, row, recent, aged, course, access, package,
                 faults>>

\* Mutant: the failure is logged and forgotten.
LessonsFailQuietly(h) ==
  /\ At(h, "lessons") \/ At(h, "index")
  /\ Fault
  /\ Become(h, [run[h] EXCEPT !.pc = "write", !.known = {}, !.found = {}])
  /\ UNCHANGED <<now, cloud, posted, row, recent, aged, progress, course, access,
                 package, withheld>>

\* Recording throws, before or after progress was written: the scalars go on,
\* and the row is not marked as pulled for.
LessonsFail(h) ==
  /\ At(h, "lessons") \/ At(h, "index")
  /\ Fault
  /\ Become(h, [run[h] EXCEPT !.pc = "write", !.known = {}, !.found = {},
                           !.failed = TRUE])
  /\ UNCHANGED <<now, cloud, posted, row, recent, aged, progress, course, access,
                 package, withheld>>

\* applyLessonIndices: one statement, which leaves updatedAt alone.
Index(h) ==
  /\ At(h, "index")
  /\ row' = [row EXCEPT !.lessons = @ \cup run[h].found, !.decoded = TRUE]
  /\ Become(h, [run[h] EXCEPT !.pc = "write", !.known = {}, !.found = {}])
  /\ UNCHANGED <<now, cloud, posted, recent, aged, progress, course, access, package,
                 faults, withheld>>

\* Mutant: the statuses are taken as the answer has them.
RankedVerbatim(was, is) == is

\* pickMonotonic: completion is not taken back.
Ranked(was, is) == was \/ is

\* The merge of writeScalars.
Merge(h) ==
  LET q     == run[h]
      newer == SnapshotFresh(row, q.snapshotAt) /\ ~q.failed
  IN  [row EXCEPT
        !.done = Ranked(@, DoneBy(q.info) \/ DoneBy(q.post)),
        !.seen = IF newer THEN q.info ELSE @,
        !.postbackAt = IF h \in Hooks THEN Later(@, q.receivedAt) ELSE @,
        !.appliedAt  = IF q.full /\ ~q.failed THEN Later(@, q.snapshotAt) ELSE @]

\* Mutant: the course is certified whatever the package requires.
CompleteOnSatisfiedAlways(r) == TRUE

\* completeOnSatisfied
CompleteOnSatisfied(r) == r.done

\* A postback that was handled is answered with 200 and not sent again.
Finish(h, record) ==
  /\ run' = [q \in Handlers |-> IF q = h THEN Idle ELSE record[q]]
  /\ posted' = posted \ {run[h].post}

\* writeScalars writes only the row that was read, its updatedAt being the same;
\* then the two early returns.
Write(h) ==
  /\ At(h, "write") /\ run[h].fresh
  /\ row' = Merge(h)
  /\ aged' = (aged /\ row'.postbackAt = row.postbackAt)
  /\ IF CompleteOnSatisfied(row') /\ ~(run[h].closed /\ course = "passed")
       THEN /\ Touch(h, [Idle EXCEPT !.pc = "bridge", !.post = run[h].post])
            /\ UNCHANGED posted
       ELSE Finish(h, [q \in Handlers |-> [run[q] EXCEPT !.fresh = FALSE]])
  /\ UNCHANGED <<now, cloud, recent, progress, course, access, package, faults,
                 withheld>>

\* The row has changed: it is read again and the merge repeated.
Retry(h) ==
  /\ At(h, "write") /\ ~run[h].fresh
  /\ Become(h, [run[h] EXCEPT !.fresh = TRUE])
  /\ UNCHANGED <<now, cloud, posted, row, recent, aged, progress, course, access,
                 package, faults, withheld>>

-----------------------------------------------------------------------------
(* Certifying: runCompletionBridge *)

\* A learner who may not record is skipped.  The figure of the lessons really
\* read is kept first, once.
Bridge(h) ==
  /\ At(h, "bridge") /\ access
  /\ \/ /\ row.atCertify = NotTaken /\ row.decoded
        /\ row' = [row EXCEPT !.atCertify = Cardinality(row.lessons)]
        /\ Touch(h, [run[h] EXCEPT !.pc = "stamp"])
     \/ /\ ~(row.atCertify = NotTaken /\ row.decoded)
        /\ Become(h, [run[h] EXCEPT !.pc = "stamp"])
        /\ UNCHANGED row
  /\ UNCHANGED <<now, cloud, posted, recent, aged, progress, course, access, package,
                 faults, withheld>>

BridgeSkipped(h) ==
  /\ At(h, "bridge") /\ ~access
  /\ Finish(h, run)
  /\ UNCHANGED <<now, cloud, row, recent, aged, progress, course, access, package,
                 faults, withheld>>

\* stampCompletionDenominator: a row for every section that counts.
Stamp(h) ==
  /\ At(h, "stamp")
  /\ progress' = Lessons
  /\ Become(h, [run[h] EXCEPT !.pc = "check"])
  /\ UNCHANGED <<now, cloud, posted, row, recent, aged, course, access, package,
                 faults, withheld>>

\* checkContentCompletion
Check(h) ==
  /\ At(h, "check")
  /\ course' = IF course = "none" /\ progress = Lessons THEN "stamped" ELSE course
  /\ Become(h, [run[h] EXCEPT !.pc = "pass"])
  /\ UNCHANGED <<now, cloud, posted, row, recent, aged, progress, access, package,
                 faults, withheld>>

\* isPassed.  The answer "retry" of a course that is not stamped does not occur:
\* progress rows are not removed on an imported course.
Pass(h) ==
  /\ At(h, "pass") /\ course # "none"
  /\ course' = "passed"
  /\ Become(h, [run[h] EXCEPT !.pc = "close"])
  /\ UNCHANGED <<now, cloud, posted, row, recent, aged, progress, access, package,
                 faults, withheld>>

\* completedAt, if it is null
Close(h) ==
  /\ At(h, "close")
  /\ row' = [row EXCEPT !.certified = TRUE]
  /\ Finish(h, [q \in Handlers |->
                 [run[q] EXCEPT !.fresh = @ /\ row.certified]])
  /\ UNCHANGED <<now, cloud, recent, aged, progress, course, access, package, faults,
                 withheld>>

-----------------------------------------------------------------------------
Step(h) ==
  \/ Claim(h) \/ ClaimRefused(h) \/ Fetch(h) \/ Reread(h)
  \/ RecordLessons(h) \/ Index(h) \/ Write(h) \/ Retry(h)
  \/ Bridge(h) \/ BridgeSkipped(h) \/ Stamp(h) \/ Check(h) \/ Pass(h) \/ Close(h)

Next ==
  \/ Tick \/ LearnerCommits \/ ToggleAccess \/ PackageChanges \/ FloorPasses \/ Ages
  \/ \E h \in Handlers : Step(h) \/ Crash(h) \/ FetchFails(h) \/ LessonsFail(h)
  \/ \E h \in Hooks : Receive(h)
  \/ \E h \in Pulls : ReadPull(h) \/ Sweep(h)

Spec == Init /\ [][Next]_vars

\* Requests under way go on, SCORM Cloud posts back until it is answered, the
\* daily sweep comes round to what it looks for, and the floor passes.
Fairness ==
  /\ WF_vars(FloorPasses)
  /\ \A h \in Handlers : WF_vars(Step(h))
  /\ \A h \in Hooks : WF_vars(Receive(h))
  /\ \A h \in Pulls : WF_vars(Sweep(h))

FairSpec == Spec /\ Fairness

-----------------------------------------------------------------------------
\* Every variable has its type.
TypeOK ==
  /\ now \in Time
  /\ cloud \in Seq(Commit) /\ Len(cloud) <= now
  /\ posted \subseteq Commits
  /\ row \in Row
  /\ recent \in BOOLEAN /\ aged \in BOOLEAN
  /\ progress \subseteq Lessons
  /\ course \in {"none", "stamped", "passed"}
  /\ access \in BOOLEAN /\ package \in Package
  /\ run \in [Handlers -> Run]
  /\ faults \in 0 .. MaxFaults
  /\ withheld \subseteq Lessons

\* What every record since time t has shown of the lessons.
Held(t) ==
  {l \in Lessons : \E k \in Commits : /\ cloud[k].time <= t
                                      /\ \A n \in k .. Len(cloud) : l \in cloud[n].lessons}

\* A row that says it was pulled for as of a time holds the lessons Cloud had by
\* then, but for those a pull showed and could not place, read or record: the late
\* answer of an earlier pull, or a failed recording, never marks the row clean for
\* later commits.
AppliedIsRecorded == Held(row.appliedAt) \subseteq row.lessons \cup withheld

\* The position shown is not older than the last pull, once no postback is newer:
\* a late answer does not bring back an older position for good.
SeenIsCurrent ==
  row.appliedAt > row.postbackAt =>
    \A n \in Commits : cloud[n].time <= row.appliedAt => n <= row.seen

\* A lesson counted for the registration has a progress row, even if access was
\* lost in between.
LessonsBacked == row.lessons \subseteq progress

\* A certified learner was reported complete by the package, and every section
\* that counts is done.
CertifiedComplete ==
  /\ row.certified => course = "passed"
  /\ course = "passed" => row.done /\ progress = Lessons

\* Answers in any order, retries and crashes take back neither completion nor
\* lessons, nor a certificate, and the figure at certification is written once.
NeverBack ==
  [][ /\ row.done => row'.done
      /\ row.lessons \subseteq row'.lessons
      /\ row.certified => row'.certified
      /\ row.atCertify # NotTaken => row'.atCertify = row.atCertify
      /\ row.postbackAt <= row'.postbackAt
      /\ row.appliedAt <= row'.appliedAt ]_vars

\* A learner who may record in the end, on a package that can be read and placed,
\* has what it reported: the lessons done, the course if it reported completion,
\* and, although the floor skips pulls, the lessons of the last commit counted for
\* the registration.  Once the course is passed the sweep comes for a dirty row
\* alone, so what a pull was applied without, or a row too old, may stay behind.
Usable  == access /\ package = [decodes |-> TRUE, placed |-> Lessons]
Settles ==
  <>[]Usable => <>[](LET last == LessonsBy(Len(cloud))
                     IN  /\ last \subseteq progress
                         /\ \/ last \subseteq row.lessons
                            \/ /\ course = "passed"
                               /\ aged \/ last \subseteq row.lessons \cup withheld
                         /\ DoneBy(Len(cloud)) => course = "passed")
=============================================================================
