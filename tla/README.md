# Greenwich e-learning backend: TLA+ models and proofs

The backend is a NestJS application over Prisma and Postgres. It runs on a
serverless platform: every HTTP request may run in an instance of its own, an
instance is stopped after `maxDuration` (60 s, `vercel.json`), and the requests
meet only in the database. Nothing in the process protects a read from the
write that follows it. What does is in the database: unique and partial unique
indexes, conditional updates (`updateMany` with a filter), foreign keys, an
advisory lock, and single-statement transactions at READ COMMITTED.

These modules model the parts where that matters most. The recurring form is:

* a request is a process (a *slot*, `req[r]`) with one action per database
  round trip; the record `req[r]` holds what it has read so far;
* `...Request` actions are the first read with the early returns of the
  handler; later actions are its writes, and their guards are the conditions
  of the statement (`where`), not those of the read;
* `Crash(r)` stops a request between any two round trips;
* a batch transaction (`$transaction([...])`) is one action; an interactive one
  is a sequence of reads and one action at commit, with the locks it holds.

## Inventory

| Component (under `src/src`) | State | Operations | What is hard | Correct when |
| --- | --- | --- | --- | --- |
| `course-assessment` (attempts) | `AssessmentAttempt`, `AttemptQuestionSnapshot`, best attempt of `CourseCompletion` | start, autosave, submit, expiry on read, grade, finalise | claim and sheet are two statements; put-back on failure; expiry races saves and submits; limit read early | one open attempt, side effects once, marks match the sheet, limit kept, attempts only move forward |
| `course-assessment` (authoring) | question bank, `Assessment` | edit, activate | two activations | one active assessment per course |
| `course-version` | `CourseVersion` (manifest, number, `isLatest`), `UserCourse.enrolledVersionId` | publish, auto-publish, archive, prune, pin, migrate | publish against edits, activation, migration | numbers and the latest version unique; the latest is the newest unless promoted by hand; pins resolve and stand; referenced rows survive |
| `course` (authoring) | `Module`, `Chapter`, `Section` | create, archive or delete, restore | reference check before delete | see above |
| `course-completion` | `UserCourseProgress`, `QuizProgress`, `CourseCompletion` | progress, quiz report, check, stamp | two last acts landing together; row shared with the assessment pass | stamped once, only when done, and whenever done |
| `certificate` | certificate columns of `CourseCompletion` | issue on completion, on pass, on the learner's visit; record manually | several issuers, one row | issued and announced once, only when earned, never replaced automatically |
| `course` (registration form, other forms, policies) | `UserFormCompletion` | submit, review, send back, resubmit | optimistic locking on `updatedAt`, time stamps of pages left open, dedupe keys | no submission lost, access only on approved answers, nobody acts on what they did not see |
| `course` (enrolment) | `UserCourse` and every row of the learner | assign, unassign, reset, toggle | probe and wipe over many tables while the learner writes | no residue, nothing lost unasked |
| `utils/chapter-progression`, `quiz` | chapter and module completion, reports | gate, progress, report | read-then-create roll-ups, gates that read a moving curriculum | chapters in order, recorded means finished and finished means recorded |
| `scorm` (runtime) | `ScormRegistration` | postback, pull, merge, sweep, certify | late answers, retries, floors, a row written by several requests | nothing taken back, no clean row without its lessons, the learner gets what the package reported |
| `scorm` (import), `scorm-cloud` | `ScormPackage`, the SCORM tree | start, poll, build, publish, prune, destroy | external service, time-outs, stale jobs, conditional writes | one import in flight, READY is live, Cloud courses stay named, every import is decided |
| `assignment` | submission, attachments, bells | submit, review, return, resubmit, edit, delete | unconditional updates after reads, keys that repeat | reviewer and student hear of what stands |
| `tracking` | `SectionTimeSpent`, daily roll-up, caches of the instance | heartbeat, attempt, freeze, roll-up | compare-and-set on heartbeats, caches that outlive a reset | no interval counted twice, the day agrees |
| `notifications`, `mail`, `engagement`, `feedback` | notification rows | notify, remind | retries | deduplicated |
| `forum-*`, `todo`, `user`, `auth`, `admin-dashboard` | independent rows | CRUD, login, reports | little | - |

The components meet in rows. `CourseCompletion` is written by the completion
check, by the assessment pass, by both ways of issuing a certificate and by the
SCORM runtime, and deleted by a reset. `UserCourse.enrolledVersionId` is written
by publish, activation and migration, and read by the gate and by the completion
check. The live tree is written by authoring and by a SCORM import and read by
publish. Notification rows are written by everybody; their dedupe key decides
what is delivered. The hazards of the code, with their lines and the properties
that cover them, are the list `hazards` of `PROJECT.json`.

## Modules

| Module | What it is |
| --- | --- |
| `AssessmentAttempt` (`_proofs`) | One learner's attempts at one assessment |
| `AttemptLifecycle` | Abstract: what an attempt may do, seen from outside |
| `AttemptRefinement` | The refinement mapping between the two |
| `CourseVersioning` (`_proofs`) | Live tree, versions and pins of one course |
| `CourseCompletion` (`_proofs`) | Progress, quiz reports, stamp and certificate of one learner in one course |
| `LearnerProgress` (`_proofs`) | The gate between chapters, the rows of finished chapters and modules, resetting, unassigning and reassigning |
| `RegistrationReview` (`_proofs`) | The registration form of one learner, with its review |
| `ScormRuntime` (`_proofs`) | One SCORM registration: postbacks, pulls, merging, certifying |
| `ScormImport` (`_proofs`) | The packages of one imported course |
| `TimeTracking` | The study time of one learner in one section |
| `Assignments` | One assignment, one submission and their bells |
| `Coursework_proofs` | The proofs of `TimeTracking` and of `Assignments` |
| `MC...` | Model values and symmetry for TLC |

`LearnerProgress` composes with `CourseCompletion`: it replaces the open gate of
the latter, and its `Complete` is the stamp the latter models in steps.
`CourseCompletion` moves the learner's curriculum at will; `CourseVersioning`
says how it moves. `ScormRuntime` and `ScormImport` share the course on SCORM
Cloud and nothing else. The other modules touch in single rows whose outside
writers a module has as actions of the environment, with one exception:
`ScormRuntime` is alone with the `CourseCompletion` of its learner. A certificate
recorded by hand, a visit of the learner's certificate page or a reset of the
completion do not occur in it, so what it says of the certified course is said of
a course that only SCORM completes.

`Coursework_proofs` extends both of its components, which share no state. That is
why the definitions that every module has carry names of their own in
`Assignments`: `AssignmentInit`, `AssignmentNext`, `AssignmentSpec`,
`AssignmentTypeOK`.

Every `...Unchecked` and similar operator marked "Mutant" in a
comment is a deliberately wrong variant of the definition after it. It is used
only to see that a property notices the mistake; no specification uses it.
Variables marked "history" are read by no guard.

### AssessmentAttempt

State: `status`, `marks`, `passed`, `granted` (`snapshotMaxAttempts`) and
`sheet` are columns of the attempt and of its question snapshots; `late` is the
set of attempts whose deadline and grace have passed (the clock); `completion`
is the learner's `CourseCompletion`. `written`, `effects`, `everPassed` and
`contested` are history variables. A slot is one of the requests that run at a
time; `Learners` and `Admins` name those that may be the learner's and those that
may be an administrator's, and may overlap.

| Code | Actions |
| --- | --- |
| `startAttempt` | `StartRequest` (limit), the expiry, `StartRefused` or `CreateAttempt` |
| `saveAnswers` | `SaveRequest`, `SaveWrite` |
| `submitAttempt` | `SubmitRequest`, the expiry, `SubmitRefused` or `SubmitRead`, the grading |
| `getAttempt` and other reads | `ViewRequest`, the expiry |
| `_expireStaleAttempts` | `StaleNone`, `StaleRead`, `ExpireWrite` or the grading |
| `_gradeAndSubmit` | `Claim` or `ClaimLost`, `WriteSheet` or `WriteFails` then `Undo` |
| `_afterSubmit`, `_upsertCourseCompletion` | `AfterSubmit`, `UpsertRead`, `Upsert` |
| `gradeAttempt`, `finalizeGrade` | `GradeRequest`, `GradeWrite`; `FinalizeRequest`, `FinalizeWrite` |

Abstractions: a question carries one mark, so a score is 0 or 1 and partial
credit is left out; the pass mark is a number of marks; the gates of a start
that do not depend on attempts (enrolment, access window, content done) decide
only whether the start is made. `WriteFails` is the transaction that fails or
commits without the caller hearing of it.

`AttemptLifecycle` says that an attempt goes from open to submitted, reviewed
and final, or from open to expired, never back, and that the result shown
changes only on publication and on finalisation. The mapping counts an attempt
as open while its claimant is still writing the sheet or putting it back; a
put-back is then a stuttering step. The writes of a review and the put-back are
unconditional, so the promise ends for an attempt on which two reviews, or a
review and a put-back, have met: `contested` collects those, and `Contest` lets
them go anywhere. They do: `Claim`, `GradeRequest`, `WriteFails`, `GradeWrite`,
`Undo` reopens an attempt that an administrator has graded meanwhile, and a
`GradeWrite` begun before another's `FinalizeWrite` takes a final attempt back.
Everything else (put-backs nobody reviews, submits racing expiries, a review that
overtakes the end of a submit) moves forward only.

### CourseVersioning

State: `section` (the row: absent, live, archived, deleted), `version` (status,
number, manifest), `latest` (the rows flagged `isLatest`, a set so that two can
be told from one), `enrolment` (active, activated once, pin).

Module, chapter and quiz rows take the same paths as sections, and their order
plays no part in the properties, so the tree is its set of sections and a
manifest a set of them. The transaction of `publishNewVersion` is
`LockAndBuild`, `Decide` and `PublishVersion`: at READ COMMITTED each statement
sees what has committed by then, so edits, activations and archives run between
them, and only the advisory lock (`PublishLocked`) keeps other publishes out.
`PinRead` and `Activate` are the interactive transaction of a first activation;
the enrolment row is locked in between (`RowLocked`), and a publish, a
deactivation or a migration of that row waits. `Deletable` is the foreign key
with ON DELETE RESTRICT.

`scripts/prune-orphan-course-versions.ts`, which an operator runs beside the
service, is a request of its own kind (`tidy`): it lists the ids, reads the rows one
by one (a row and the count of its enrolments in one step), makes its plan
(`Promoted`), and applies it in one transaction under the same advisory lock
(`TidyLock`, `TidyDrop`). It is the only writer that makes an older version the
latest again, which `promoted` remembers. After that a version that is not the
latest may carry the highest number, as the comment in `publishNewVersion` says
(`course-version.service.ts:360`), the latest may be an archived one, and an archive
or a prune that chose it as an orphan before may hit it. That a publish then finds
the row to demote gone (`PublishVersion`) needs more requests at once than the run
has; the proofs cover it.

### CourseCompletion

State: `pin` (the version of the learner, by its manifest, or none), `live` (the
live tree: its sections, its chapters and those with a quiz), `required` (an
assessment is active), `progressed`, `quiz`, `completion`. The check begins with
the round trips of `countCompletionDenominator`: `ReadPin`, then `LoadManifest`
and `FilterQuizzes`, or, without a pin or when the version is gone,
`ReadLiveSections` and `ReadLiveQuizzes` in either order; `Current` is what they
come to if nothing moves. It goes on with `CountSections`, `CountQuizzes`, `Recall`,
`Stamp`, `SendMail`. The certificate is `ReadGate`, `CheckEligible`
(`isEligibleForAutoIssue`), `Generate`, `Draw` (`generateAndPersist` up to the id),
`Claim`, `Announce`, or `ManualRequest`, `ManualWrite`. `AdminEdit` moves the pin
and the live tree and switches the assessment between any two of these. The
chapter gate is open, the report of a quiz reads the old report and the answers
together, and the content gate of an assessment measures in one step.

### LearnerProgress

State: the rows of the learner (`progress`, `quiz`, `chapters`, `modules`,
`completed`, and `residue`, the further tables in which rows remain), the
enrolment, the curriculum of the pin (its chapters and sections; `Live` is what a
chapter outside it is measured by), the learner's requests and one administrator.
`since` is history: what happened since the rows were last wiped (a migration, a
cut-off request, a write during a wipe or without enrolment, and `"astray"`: a row
whose section is not one of the chapter it names).

| Code | Actions |
| --- | --- |
| `updateUserChapterProgress`, `assertChapterAccessible` | `SectionRequest`, `RecordSection`, then the roll-up |
| `createChapterQuizzesReport` | `QuizRequest`, `ReportQuiz`, then the roll-up |
| `recordChapterAndModuleCompletionIfNeeded` | `Measure`, `StampChapter`, `Roll`, `AwardModule` |
| `checkContentCompletion` | `Complete` (in steps in `CourseCompletion`) |
| `unAssignCourse`, `probeUserCourseResidualState`, `wipeUserCourseState` | `UnassignRequest`, `Residual`, `Wipe` |
| `resetUserCourseProgress` | `ResetRequest`, `Wipe` |
| `assignCourse`, migrations | `Assign`, `Migrate` |

Reads that decide one write (a `Promise.all`) and the deletes of one wipe
transaction are one step each. A request names a chapter and a section. As in the
code, the gate is that of the chapter it names, which is open when the learner's
curriculum does not have it (`chapter-progression.ts:385`); whether the section is
in that chapter is not looked at (`course.service.ts:9144`), the row is keyed by
both, and `ChapterComplete` counts the rows that name the chapter. So the
properties promise counts of rows, and the sections themselves to a learner whose
requests named each section's own chapter. The wipe leaves submissions of
assignments and daily time totals (`NeverWiped`), and the probe does not count
them. The free-roam switch, quiz retakes and the toggle of a section are left out;
chapters keep their order, and their having a quiz, from version to version.

### RegistrationReview

State: `row` is the `UserFormCompletion` of the form; answers and requests for
changes are named by the write that made them, so the name stands for the time
stamp the code compares. A page is a process from the moment it shows something
(`OpenForm`, `OpenReview`) over the handler's read (`SubmitRequest`,
`ReviewRequest`, `SendBackRequest`) and conditional write (`SubmitWrite`,
`DecideWrite`, `ReturnWrite`) to the notification (`AnnounceSubmission`,
`TellLearner`). `AdminEdit` is access and the form list of the course changing;
`Wipe` a reset or unassigning, once. `OldClients` lets a page leave out what it
showed; the run has clients that send it. An adviser's verdict is chosen when it
is written. Field values, comments and the audit log are left out.

### ScormRuntime

State: `cloud` is the record on SCORM Cloud after each commit of the learner
(external), `posted` the commits whose postback has not been answered with 200,
`row` the `ScormRegistration`, `recent` that a pull was claimed within the floor.
A run `run[h]` is one handling of a postback (`Receive`) or one pull
(`ReadPull`: `refreshIfDirty`; `Sweep`: `reconcileCron`); both end in the same merge.

| Code | Actions |
| --- | --- |
| `claimRuntimePull` | `Claim`, `ClaimRefused` |
| `pullRuntime`, `getRegistrationProgress` | `Fetch`, `FetchFails`, `Reread` |
| `applyLessonProgress`, `applyLessonIndices` | `RecordLessons`, `LessonsFail`, `Index` |
| `writeScalars` | `Write`, `Retry` |
| `runCompletionBridge`, `stampCompletionDenominator` | `Bridge`, `BridgeSkipped`, `Stamp`, `Check`, `Pass`, `Close` |

`fresh` is the comparison of `updatedAt` in `writeScalars`: every write that
moves it clears the flag of the other runs. `closed` is `completedAt` as it was
read. The floors of 60, 10 and 1 seconds are one flag, which any pull may find
set or passed. A commit that changes neither lessons nor completion is left
out. Progress rows of an imported course are not deleted (a reset refuses it).
`package` is what decides about the lessons of a pull: whether the payload can be
read against the manifest (there is one, the `cpv` agrees, the blob decodes, its
index space is verified), and which lessons lead to a section that can be written.
It changes at any time, as does the learner's right to record. Whatever is missing,
`applyLessonProgress` returns, and the row is marked as pulled for (lines
1051-1053); the lessons shown and not kept are the history `withheld`.
`aged` says that the daily sweep no longer finds a dirty row by its dirt: its last
postback is older than `RECONCILE_DIRTY_WINDOW_MS`, or ten other rows are newer.
Four behaviours of the model are worth knowing: a postback that is sent again is
stamped with its new arrival, which makes the row dirty and is healed by the
next pull; a stop between `Pass` and `Close` leaves `completedAt` null until a
sweep comes round; lessons that were withheld stay missing until another postback,
or until the sweep of a course that is not passed yet; the figure at certification
counts what was decoded by then.
Left out: launching and its creation of registrations (the learner could record
when it happened, so previews of staff are left out too), registrations that are
gone on Cloud, the pointer to the section last seen, seeding of the version on the
registration, the remapping of sections after a re-import.

### ScormImport

State: `pkg` (the `ScormPackage` rows by number), `cloud` (course and job on
SCORM Cloud, external), the course with `active`, `live` (the package whose
sections are live), `published` (that of the latest version), `pinned` (that of
an enrolment's version), `partial` (the partial-failure stamp of a destruction).
A worker is a request of an administrator or the cron. Ages are classes: past
10 minutes, 24 hours, 72 hours.

| Code | Actions |
| --- | --- |
| `startPackageImport`, `prepareExistingCourse` | `Start`, `StartTx`, `Upload`, then `Record`, `Reject` (`UndoPackage`, `UndoCourse`) or `Late` (`Cleanup`) |
| `completeImportIfReady` and its give-ups | `Poll`, `AskCloud`, `Prepare`, `Build`, `Finish`, `Publish`, `MarkReady`; `IsStale`, `Unbuilt`, `PastHardCap` |
| `setCourseActive`, `assertScormCoursePublishable` | `CheckActivation`, `Activate`, `Deactivate` |
| `pruneSupersededPackagesCron` | `CheckPrune`, `PruneCloud`, `PruneMark` |
| `destroyImportedScormCourse` | `Gather`, `Close`, `PurgeCloud`, `Settle`, `Teardown` |

The tree of a package is one value, since all its sections are archived and
created together. Previews, the parsing of packages and the purge of registrations
are left out. `refused` is history: the packages whose Cloud course Cloud would not
delete (a failure that is not transient), which a destruction passes over without
counting as unfinished. What the model also shows: an import that runs into a
destruction or a roll-back, and a destruction with a refused deletion, can leave a
course on Cloud that no row names; `Reject` writes FAILED whatever the row has
become; a stop between the deletion on Cloud and `PruneMark` leaves the row
SUPERSEDED for good, because a course that is gone counts as a failure; a stop
between a purge and `Settle` leaves a READY row that the publish gate accepts.

`raced` is history: an import ran into a destruction, or into the import that
created the course and may still take it back (`MayTakeBack`). The second takes
two administrators. The first creates the course and starts; its upload is
rejected, and `Reject` marks the row FAILED. Now the course has no row in flight,
so a second administrator may import onto it. The first then deletes its package
and the course (`UndoPackage`, `UndoCourse`), with the second's row, and what the
second uploads is a course on Cloud that nothing names.

### TimeTracking

State: `row` (`SectionTimeSpent`), `daily` (`SectionTimeSpentDaily`), `frozen`
and `notFrozen` (the caches of every instance), the pings under way. The clock
counts half seconds, because totals are whole seconds and credits are rounded.
`heartbeat` is `Read`, `Check`, then `OpenRow` or `Credit`, and `RollUp`
(`accrueDailyTime`, after the answer); `recordSectionAttempt` is `Attempt`.
`Wipe` is a reset (keeps the row) or unassigning (deletes it); neither deletes
the daily roll-up. Instances share one clock. A course has one section here; in
the code the frozen total is remembered per course, and is the one of whichever
section pinged first.

### Assignments

State: the assignment (exists, active, graded by score, takes resubmissions),
the submission (status, score, `submittedAt`, whether a reviewer has touched it), `files` (the uploads whose
attachments hang on it), `bells` (notification rows by dedupe key).
`createSubmission` is `SubmitRequest`, `Create` or `Clear` and `Replace`, then
`Tell`; `reviewSubmission` is `ReviewRequest`, `ReviewWrite`, `Lookup`, `Tell`;
`deleteAssignment` is `DeleteRequest`, `Delete`; `updateAssignment` one step.
Two reviews of one status and score are taken to carry feedback of the same
length, which is what the key looks at. A reviewer may give any status, back to
`submitted` included (`assignment.service.ts:710`).

## Checks

Every run is TLC, breadth first. Symmetry is used for rows, learners and slots
that the specification treats alike, and never with a liveness property.

| Run | Instance | Shows |
| --- | --- | --- |
| `attempt_restart` | 2 attempts with a written question, 2 tabs, limit moving between 1 and 2, timer, crashes, failing transactions | `OneOpenAttempt`, `SideEffectsOnce` |
| `attempt_grading` | 1 attempt, 1 automatic question, 3 requests (one the learner's, one an administrator's, one either's), timer, failing transactions | `MarksMatchSheet`, `CompletionJustified`, `ForwardOnly`, `PassReachesCourse` |
| `version_pins` | 1 section, 3 versions, 1 enrolment, 2 requests of every kind, runs of the clean-up script included, crashes | `LatestIsNewest`, `PinsResolve`, `OnlyMigrationsMovePins` |
| `completion_certificate` | 1 section, 1 quiz, 3 requests (section, quiz, assessment pass, learner's visit), a learner with and without a pin, rules standing still, no crash | `CompletedOnce`, `AnnouncedOnce`, `DoneIsStamped`, `FinishedGetsCertificate` |
| `completion_manual` | 2 sections, 1 quiz, 2 versions, 2 live trees (one without the second section, one without the quiz), 2 requests of every kind, crashes, moving pin, tree and gate | `CompletionEarned`, `CertificateEarned`, `IssuedStands` |
| `learner_progress` | 2 chapters of a module, 2 sections, 1 quiz, a version with both chapters and one with the second, 2 requests, 1 administrator, crashes | `InOrder`, `RecordedIsEarned`, `FinishedIsRecorded` |
| `registration_review` | 2 pages of the learner, 2 of advisers, 4 writes, a wipe, crashes | `NewestStands`, `UnlockedIsApproved`, `EverySubmissionIsNews`, `Informed` |
| `scorm_runtime` | 1 postback handler, 1 puller, 1 lesson, 2 commits, 1 fault | `AppliedIsRecorded`, `SeenIsCurrent`, `LessonsBacked`, `CertifiedComplete`, `NeverBack`, `Settles` |
| `scorm_import` | 2 packages, 1 administrator, the cron, crashes, destruction | `OneInFlight`, `ReadyIsLive`, `BuiltIsKept`, `CloudIsNamed`, `Decided` |
| `time_tracking` | 2 pings, 1 instance that restarts, 2 seconds, a cap of 1 second, wipes, crashes | `NoWindowTwice`, `DayAgrees` |
| `assignment_review` | 2 requests of any kind, 3 uploads, verdicts submitted (a review put back) and returned, crashes | `ReviewerHears`, `StudentHears` |
| `assignment_repeat` | 1 request, 2 uploads | a violation of `EveryChangeTold` (below) |

What the properties say, beyond their names:

* `OneOpenAttempt`, `SideEffectsOnce`: two tabs, an expiry, a put-back and a
  retry never leave two attempts in progress or run `_afterSubmit` twice.
* `ForwardOnly`: the refinement of `AttemptLifecycle` described above.
* `MarksMatchSheet`: marks and sheet are written by two statements, and saves run
  between the read, the claim and the sheet; once both
  are committed, an automatically graded attempt shows the sum of its scores.
  `CompletionJustified`: the best-attempt pointer of a passed course names an
  attempt that once showed a pass.
* `LatestIsNewest`: no number used twice and at most one latest version, whatever
  the clean-up script does; until it has promoted an older version, there is a latest
  version, it is published, and it has the highest number; `PinsResolve`, `OnlyMigrationsMovePins`: what a learner
  is measured against stays loadable and is moved by migrations only.
* `CompletedOnce`, `CompletionEarned`, `DoneIsStamped`: the course is stamped
  once, only when finished, and (no request being cut off) whenever finished.
  `AnnouncedOnce`, `CertificateEarned`, `IssuedStands`: racing automatic issues
  announce one certificate, an earned one, and replace none. What the check counts
  is read in two or three round trips; `CompletionEarned` says what a mixture of
  them may at worst be. `CertificateEarned` asks that gate and row held together at
  some time: the first check reads the gate before the row and can be passed by a
  gate and a row that never met; the second reads the row first, and there a row
  that has only grown since makes the difference.
* `FinishedIsRecorded`: of requests that finish the last chapters of a module
  together one sees them all, although the loser of a duplicate create gives up.
  `InOrder` and `RecordedIsEarned` speak of a learner whose pin was not moved and
  whose requests did not run into a wipe: a migration legitimately changes what
  "the chapter before" consists of. A request may name a chapter its section is not
  in, and then rows are promised, not sections.
* `Informed`: an adviser decides on the submission the page showed, and a
  learner answers the request the page showed; this is the purpose of the time
  stamps that pages send.
* `AppliedIsRecorded`: `runtimeAppliedAt` is what stops further pulls, so a row
  may not carry it without the lessons Cloud had by then, those aside that a pull
  showed and could not keep. `Settles`: whatever was lost, failed, withheld or
  skipped by a floor, a learner who may record in the end, on a package that can be
  read, ends with the lessons and the completion that the package last reported;
  only the lessons counted for a registration whose course is passed may lag.
* `BuiltIsKept`: once sections are live, their package is not failed before the
  hard cap of 72 hours. `CloudIsNamed`: a course on SCORM Cloud, which counts
  against the account, has a row a destruction will act on, except one that Cloud
  refused to delete: a destruction passes over it and deletes its row with the rest
  (`course.service.ts:5832`).
* `NoWindowTwice`: twice the total of a row never exceeds the time from its opening
  to its last ping (in half seconds) but for what was rounded up and what late
  opening pings turned the row back by. How far a row is turned back is counted, so
  the double credit of an opening ping is bounded, not left out.

Bounds. Two slots are enough for every race between two reads and two writes;
three are used where a third party matters (two issuers and a last quiz; two
reviews and a put-back). Two
attempts are needed for a put-back that meets a newer open attempt. Three
versions are needed for one latest, one archived and one pruned version at once.
Four writes of a registration are a submission, a return, a resubmission and a
decision. Two SCORM packages are one that is replaced while it is live. Two
commits are what it takes for an answer to be late; one fault of any kind can
fall anywhere in a run. Three uploads leave room for two resubmissions that race.
Rows used up (`Existing = Attempts`, `FreeRows = {}`, `Newest = MaxPackages`,
`MaxUploads`, `MaxWrites`, `MaxTime`, `MaxFaults`) refuse what needs one more:
these are bounds, named in the modules, and not conditions of the code.

Deadlock is checked where a learner can always act. It is not in `scorm_runtime`
(the clock and the faults are used up), `scorm_import` (a course may be deleted,
after which nothing happens to it) and the assignment runs (the assignment may be
deleted).

Type invariants are not in the runs: the theorems `TypeCorrect` (for
`Assignments`, `AssignmentTypeCorrect`) prove them for every instance.

Fairness. `AssessmentAttempt` and `CourseCompletion`: weak fairness of
`Continue(r)` for every slot: a request that is not cut off makes its next round
trip. That is what a running Node process does; nothing is assumed of the
requests people make. Both liveness runs exclude crashes: after one nothing
retries. `ScormRuntime`: runs go on, SCORM Cloud sends a postback again until it
is answered with 200 (`Receive`), the daily sweep comes round to what it looks for
(`Sweep`) and the floor passes; crashes and failing calls are bounded by
`MaxFaults`. The sweep of courses that are not completed or not certified takes the
least recently pulled first (`scorm-runtime.service.ts:765`), so each gets its turn;
dirty rows it takes newest first and only while they are recent, so for them it is
fair until they are `aged`. Nothing is assumed of pages being opened (`ReadPull`).
`ScormImport`: time passes (`Age`), the cron's own steps go on unless it is cut
off, and the daily cron polls again and again whenever polling is possible again
and again (`SF`, because a row may leave PROCESSING and a worker may be busy in
between). Nothing is assumed of Cloud, which may never answer.

### Where the code differs from what it says

`assignment_repeat` checks one statement of a document, and TLC finds a
behaviour of the code that contradicts it: "`ASSIGNMENT_GRADED` fires on **any**
status change" (`docs/assignment-frontend-handoff.md:389`), but the dedupe key
(`assignment.service.ts:1567`) is made of status, score and length of the
feedback; approved, returned and approved again with the same score rings once.

The following statements are contradicted in the same way. Each has its property
in the module and a configuration to run by hand
(`tlc -config <name>.cfg MC<module>`), which ends in the counterexample.

| Configuration | Property | Statement | Behaviour |
| --- | --- | --- | --- |
| `attempt_budget_race` | `BudgetRespected` | attempts stay below `maxAttempts` (`docs/assessment-feature-frontend-guide.md:58`) | the count is read before an expiry and a create of another tab |
| `attempt_save_race` | `GradedAnswersStand` | "a save racing the submit can't change graded answers" (`course-assessment.service.ts:1140`) | it can, between the read of the submit and its claim |
| `attempt_regress` | `GradedBeforeFinal` | "Attempt must be graded before it can be finalized" (`course-assessment.service.ts:1674`) | a finalisation that read the attempt before its submit was put back finalises it while it is in progress |
| `version_delete_race` | `ReferencedRowsKept` | rows referenced by any version manifest are archived, not hard-deleted (`docs/course-versioning.md:131`) | a publish lists the row after the reference check |
| `version_promotion` | `PromotesHighest` | "If the current latest is deleted, promote the highest-remaining version" (`scripts/prune-orphan-course-versions.ts:17`) | a version published between the plan and the lock is demoted in favour of an older one |
| `version_migrate_race` | `MigratesToPublished` | the re-check in the transaction guards against an archived target (`course-version.service.ts:670`) | it does not look at the status |
| `completion_create_race` | `DoneIsAlwaysStamped` | "Lost the race — the winner sends the emails" (`course-completion.service.ts:147`) | the winner was an assessment pass, which stamps nothing |
| `completion_mixed_tree` | `OneTree` | sections and quizzes of the live tree "can never disagree about which tree they describe" (`course-version.service.ts:775`) | they are two statements, and an edit commits between them: the sections of the tree before a section was added, the quizzes of the tree after one was archived |
| `scorm_reactivate` | `ActiveHasPackage` | an imported course may not be active until it has a READY package (`scorm.service.ts:1311`) | the publish switch does not ask for imports in flight (`course.service.ts:3772`), so it can be put online and then lose its READY package |
| `scorm_prune_race` | `PinnedIsKept` | a package somebody is pinned to is not pruned (`canPruneSupersededPackage`) | the learner is pinned between the check and the deletion |
| `assignment_files` | `OneUpload` | at most five files per submission (`prisma/schema.prisma:1199`) | two resubmissions whose deletions see the same files both add theirs (one file per upload, three uploads) |
| `unassign_race` (`MCLearnerProgress`) | `NothingResurrected`, `UnforcedLosesNothing` | "so the next assignCourse cannot resurrect it" (`course.service.ts:8407`); the wipe "deletes every learner-state row" (`course.service.ts:405`) | submissions of assignments and daily time totals are left; a request in flight writes its row after the wipe; and what is written between probe and wipe is deleted unasked |
| `time_rewind` | `NeverTwice` | two overlapping pings "can never credit the same wall-clock window twice" (`tracking.service.ts:104`) | a ping that read no row and is written after another opened it and was credited sets `lastHeartbeatAt` back to its own time; the next ping is credited from there |
| `assignment_ghost` | `NoGhostBells` | no "ghost bell entries pointing at a deleted assignment" (`assignment.service.ts:1064`) | a submission or review in flight rings after the deletion |

Two more configurations pass and are kept for larger questions: `attempt_retakes`
(two attempts with an administrator and a limit that moves) and `attempt_live` (an
automatic and a written question with failing transactions).

The models contain the interleavings behind the following differences too. They
have no configuration; each is named by the actions, or by the property that a
reader can check.

| Statement | Behaviour in the model |
| --- | --- |
| FINALIZED is the end of the status diagram (`docs/assessment-feature-frontend-guide.md:503`) | `GradeWrite` after another's `FinalizeWrite`, or `Undo` after a `FinalizeWrite`, takes it back |
| an attempt with nothing saved becomes EXPIRED (`course-assessment.service.ts:1982`) | `SaveWrite` between `StaleRead` and `ExpireWrite` leaves an EXPIRED attempt with an answer |
| finalising updates the best-attempt pointer (`docs/assessment-feature-frontend-guide.md:767`) | `FinalizeWrite` with lower marks leaves the pointer: `UpsertRead` only runs on a pass and compares with the attempt on record |
| totals are recalculated from the snapshots (same guide, line 83) | `GradeWrite` between `FinalizeRequest` and `FinalizeWrite` changes the sheet the totals came from |
| an active enrolment should always be pinned after a publish (`course-version.service.ts:388`) | the first `PublishVersion` between `PinRead` and `Activate` misses the activation |
| archiving is blocked while learners are pinned (`docs/course-versioning.md:90`) | `Activate` or `Migrate` between `ArchiveRequest` and `ArchiveVersion` |
| the published version is the live tree at that instant (`course-version.service.ts:393`) | an edit between `LockAndBuild` and `PublishVersion` |
| numbering is dense from 1 (`course-version.service.ts:1740`) | `PruneVersions` deletes version 1 |
| completion ran when the progress row was created (`course.service.ts:9158`) | `Crash` after `RecordSection`: the next `SectionRequest` is refused and nothing measures again |
| `isPassed` is never downgraded (`docs/quiz-progression-backend-followups.md:8`) | two `ReportQuiz` from one earlier read |
| a replaced certificate survives in the audit (`certificate.service.ts:501`) | `Claim` between `ManualRequest` and `ManualWrite` |
| a decision on a submission that no longer matches is refused (`docs/registration-form-v2-backend-handoff.md:430`) | `AlwaysInformed` fails with `MaxWrites = 5`: of two returned forms both show no completion time |
| the learner is told of every decision (same document, line 370) | `EveryDecisionIsNews` fails: a verdict given, changed and given again repeats its key; and after a reset the first resubmission repeats the key of the first submission |
| "Completed courses never un-freeze" (`tracking.service.ts:71` and `115`) | `FrozenIsCompleted` fails: a reset deletes the completion, and the instance goes on answering from memory |
| lessons without a writable section "stay unapplied and will be retried on the next pull" (`scorm-runtime.service.ts:1589` and `1619`) | `RecordLessons` leaves them out and `Write` marks the row clean, so that, once the course is passed, no pull comes before another postback |
| a grade belongs to the submission graded (`assignment.service.ts:735`) | a resubmission read before a review overwrites it (`Replace`) |

One more divergence is outside the models: the assessment guide
(`docs/assessment-feature-frontend-guide.md:1005`) calls finalisation
reversible, while `gradeAttempt` refuses a FINALIZED attempt.

## Proofs

The theorems hold for every value of the constants that satisfies the
assumption of the module (finite sets of rows, distinct null values): any number
of attempts, versions, learners and concurrent requests, with crashes. TLAPS
checks them with SMT, Zenon and LS4. Each module proves an inductive invariant
(`Invariance`; for `Assignments`, `BellInvariance`), from which the other theorems
follow, some by a second invariant that is proved on top of it. Every invariant,
every action property and the refinement that the passing runs check is a
theorem, two of them under an assumption on what the environment does:

| Theorem | Assumes | Because |
| --- | --- | --- |
| `FinishedIsStamped` | `~MayEdit`, `~MayCrash` | nothing measures again after an edit, or after a request that was cut off |
| `IssueAnnouncedOnce` | no manual issue among `Kinds` | an automatic and a manual issue that overlap may both be announced |

The runs make the same assumptions, by the constants of their configurations.

`AssessmentAttempt_proofs`. The invariant `IInv` adds to the types that a
request past its first read names its attempt, and to `OneOpenAttempt` the
notion of ownership: from its claim to the end of its side effects a request
*owns* its attempt. `OneOwner` says that ownership is exclusive,
`OwnedIsSubmitted` that an owned attempt is not open (so nobody else can claim
it), `EffectsFinal` that an attempt whose side effects ran is submitted and
owned by nobody. `SideEffectsOnce` alone is not inductive: without ownership, a
put-back could reopen an attempt whose effects have run. Only the owner puts an
attempt back, and the owner has not run the effects.

Three more results build on it. For the marks (`Graded`), an attempt that is
automatically graded and whose sheet is not written yet carries the total of the
answers in its owner's hands; nobody else writes either. For the pass
(`Evidence`), whoever is on the way to the completion holds an attempt that has
shown a pass, which is a fact about the past and cannot be undone. For the
refinement (`Orderly`), a review in flight of an attempt that is not contested is
the only one (`SoleReview`) and finds the attempt still gradable: a second review
or a put-back would have contested it. Then every step is, attempt by attempt, a
step of `AttemptLifecycle` or leaves stage and result as they are; whatever
becomes of a contested attempt is a `Contest`.

`CourseVersioning_proofs`. `LatestIsNewest` needs to know what a publish in
flight has read: `OnePublish` (the lock), `WriteFollows` (the number to be
written is above every existing one, and no row but the one to be demoted is the
latest) and, until a promotion, `OldTargets` (requests that archive or prune were
given versions that are not the latest) and `Tidying` (a run of the script that has
the latest version on its list has seen no other as the latest, so if it drops it
without promoting one it drops all there are). `PinsLoad` and `PinsStand` follow
from the types, the foreign key and the conditional update.

`CourseCompletion_proofs`. What a check has counted stays counted: progress rows
are never deleted in this module, and a quiz that passed is in `everPassed`
although a stale report may have overwritten it. So a request that reached the
stamp has evidence for what it measured (`StampEarned`); what that may be
(`Measurable`) is carried from read to read, and it only grows with the histories
of pin and tree. `StampedOnce`
counts stamps and the requests about to congratulate. `IssueAnnouncedOnce` does
the same for certificates and assumes that no certificate is recorded manually:
an automatic and a manual issue that overlap may both be announced.
Whoever comes to the claim met the gate in the state of the last check
(`Entitled`), since what the row showed when it was read it still shows there.
`FinishedIsStamped` needs the converse of `StampEarned` (`Owed`): a learner
who is done and not stamped has a check under way, because the request that wrote
the last row checks after it, and a check of a learner who is done, whose reads are
true while the rules stand still (`ReadsTrue`), goes on until the stamp. It fails to write only if the row is stamped already, or was
created by an assessment pass, which the property leaves out.

`RegistrationReview_proofs`. The argument is that of optimistic locking: stamps
of the row only grow, so a row that carries the stamp a page read is the row it
read (`Snapshot`). What holds of the row when it was read (a request on it
remembers the completion to restore, an approved verdict stands on approved
answers) then holds when it is written. For `EverySubmissionIsNews`, rounds
already announced are below the current one (`Rounds`), and a submission not yet
announced is in the hands of one request (`Pending`, `Apart`).

`ScormRuntime_proofs`. A pull shows every commit made before it was issued
(`FullSees`). The lessons it shows are in the request, and then in the row,
before the row is marked as pulled for (`Carries`), but for those withheld; the mark is the time of
issue, so what was committed since leaves the mark behind. `ClosingOf` does the
same for certification: a run past the bridge works on a row that is done, and
finds done the sections it stamped. `NeverBack` is an action property from the
same invariant.

`LearnerProgress_proofs`. Between its read and its write a request *carries*
evidence: the chapter before was finished, the chapter is finished, every chapter
of the module is recorded. Rows of a learner who is left alone are only added, so
evidence stays good (`FinishedStays`, `Grows`); counting rows is enough because,
while no request names another chapter than its section's, they are rows of the
chapter's own sections (`Placed`, `CompleteIsFinished`, by cardinality), and then a
completed course, which opens every gate, covers the curriculum (`Within`). A
learner who was unassigned in peace has no row left (`Emptied`), so the next
assignment starts with nothing to explain. For
`FinishedIsRecorded` the invariant says who will record what is missing
(`FollowedUp`): a finished chapter without its row is followed by a request that
measures after the last of its rows, and a module whose chapters are all done by
one that rolls up after the last of them. The loser of a duplicate create gives up
only when the row is there, and its winner goes on to the module.

`Coursework_proofs`. Of `TimeTracking`: a ping's reading of the row lies before
its own time of receipt, and a credit is conditional on the row still carrying
that reading; so what is credited fits between the old and the new time of the
row. `DayAgrees` speaks of a sum over the pings, whose only definition is a fold.
That the fold has a value at all, and that changing one ping changes the sum by
the difference (`SumExists`, `PendingChange`), is shown through the least number of
pings for which it would fail: the library's theorem that a nonempty set of
numbers has a minimal element takes no operator. Of `Assignments`: what stands is
told already or carried by a request that was not cut off. A review gets past the
look-up because a submission that exists has its assignment (`Hung`).

`ScormImport_proofs`. Every step is first described by what it does to a row
(`Stays`, `Ages`, `Fails`, `GetsJob`, `GetsTree`, ...), to Cloud, to the course and
to the workers; the parts of the invariant are then proved from these descriptions,
one lemma each. `Owned` and `NoJobYet` say that an import works alone on its row
until it has recorded a job, `Handled` that a poll comes after that: so the two
never write one row together. `Built` and `BuiltIsLive` say that a package past
its build has a tree, and that a tree in flight is the live one, which is why a
give-up that looks at the tree in the statement that writes FAILED spares it.
`ReadyIsLive` needs to know what a poll between `Build` and `MarkReady` may rely
on: one request publishes at a time (`OnePublisher`), its own package
(`PublishesOwn`), and no older one publishes behind a package that is READY or
about to be (`NoneBehind`). `CloudIsNamed` rests on `Apart`: unless `raced`, a
destruction knows every course on Cloud that was not `refused` and no import is under
way, and an import
that may take its course back is the only one that could have put something there.
The attempt to prove it for several administrators first failed, and the failure was
the history above with two of them; `raced` used to know only of destructions. It
holds for any number now; the run has one administrator, and TLC found nothing
among 25 million states of two.

Only model-checked: the liveness properties `PassReachesCourse`,
`FinishedGetsCertificate`, `Settles` and `Decided`. Liveness under fairness and
ENABLED are out of the prover's reach. So are recursive operators and the
induction theorems that take an operator as a parameter; the modules therefore use
no recursion, and where a proof needs induction (the sum of `DayAgrees`) it takes a
least counterexample. The configurations to run by hand are counterexamples and
have nothing to prove.

## Plan

What would come next, in this order:

1. Question types snapshotted per attempt in `AssessmentAttempt`, so that one small
   instance has automatic and written questions.
2. An abstract specification of a course on SCORM Cloud that `ScormImport` and
   `ScormRuntime` share, and one of the notifications by dedupe key that
   `RegistrationReview` and `Assignments` both implement.
3. Answers and retakes of quizzes in `LearnerProgress`, with a stale report as
   in `CourseCompletion`.
4. Launching in `ScormRuntime`: two launches that create one registration, and
   registrations that are gone on Cloud.
5. Deletion of courses, modules and chapters in `CourseVersioning`.
6. Activation of assessments (two at once), engagement reminders.

## Not modelled

Reads that change nothing (rosters, drift and regression reports, dashboards),
rendering (PDF, mail templates), previews and package parsing, the forum, to-dos
and user administration (independent rows, one statement per operation),
authentication, reading and marking of notifications, the forms and policies a
learner ticks once, payment and expiry of enrolments, other one-off scripts, generated
code (`dist/`) and vendored SCORM packages. Most of the repository's lines are in
the last two, and in handlers that validate input and shape answers around a
single statement. `PROJECT.json` lists every component with its status.
